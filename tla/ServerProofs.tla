---------------------------- MODULE ServerProofs ----------------------------
(***************************************************************************)
(* Proofs about Server, for every number of worker threads, of slots and   *)
(* of descriptors.                                                         *)
(***************************************************************************)
EXTENDS Server, Sequences, FiniteSetTheorems, SequenceTheorems, TLAPS

(* The threads between their lock and their unlock.                        *)
Critical == {"test", "put", "take", "unlock"}

(* Where a thread can be, and what it knows there: it has the mutex in its *)
(* critical section, it sleeps on a condition variable in its wait only,   *)
(* and what its loop tested still holds when it leaves the loop.           *)
PlacesOK ==
  /\ pc[Main] \in Pc \ {"none", "take"}
  /\ \A w \in Workers : pc[w] \in Pc \ {"create", "accept", "put"}
  /\ \A t \in Cvs : pc[t] = "wait"
  /\ \A t \in Threads : pc[t] \in Critical <=> lock = t
  /\ pc[Main] = "create" =>
       \A w \in Workers : w > created => pc[w] = "none"
  /\ pc[Main] = "put" => waiting_requests < max_requests
  /\ \A w \in Workers : pc[w] = "take" => waiting_requests > 0

SafeInv ==
  TypeOK /\ PlacesOK /\ ProducerWaitsOnFull /\ WorkerAwake

LEMMA NextSlot ==
  ASSUME NEW n \in Nat \ {0}, NEW i \in 0 .. n - 1
  PROVE  /\ (i + 1) % n \in 0 .. n - 1
         /\ (i + 1) % n = IF i + 1 < n THEN i + 1 ELSE 0
  OBVIOUS

LEMMA WrapSlot ==
  ASSUME NEW n \in Nat \ {0}, NEW i \in 0 .. 2 * n - 1
  PROVE  i % n = IF i < n THEN i ELSE i - n
  OBVIOUS

LEMMA SafeInitially == ASSUME Init PROVE SafeInv
  BY ServerAssumption DEF Init, SafeInv, TypeOK, PlacesOK, ProducerWaitsOnFull,
    WorkerAwake, Threads, Workers, Main, Slots, Pc, Critical, Cvs, Free, NoFd, Alive

(* server_init.                                                            *)
LEMMA SafeCreateWorker == ASSUME SafeInv, CreateWorker PROVE SafeInv'
<1> USE DEF SafeInv
<1>1. /\ created + 1 \in Workers /\ created' = created + 1
      /\ pc[created + 1] = "none" /\ created + 1 # Main
      /\ pc' = pc \/ pc' = [pc EXCEPT ![created + 1] = "lock"]
  BY DEF CreateWorker, TypeOK, PlacesOK, Workers, At, Goto, Main
<1>2. UNCHANGED <<nr_threads, max_requests, queue_vars, sync_vars, connfd, open, up>>
  BY DEF CreateWorker
<1>3. TypeOK'
  BY <1>1, <1>2 DEF TypeOK, queue_vars, sync_vars, Threads, Workers, Slots, Pc
<1>4. PlacesOK'
  BY <1>1, <1>2 DEF TypeOK, PlacesOK, queue_vars, sync_vars, Threads, Workers,
    Critical, Cvs, Main, Pc
<1>5. ProducerWaitsOnFull'
  BY <1>2 DEF ProducerWaitsOnFull, queue_vars, sync_vars, Main
<1>6. WorkerAwake'
  <2>1. Alive \ consume_cv # {} => (Alive \ consume_cv)' # {}
    BY <1>1, <1>2 DEF Alive, TypeOK, Workers, Threads, sync_vars
  <2>2. CASE Alive # {}
    BY <2>1, <2>2, <1>2 DEF WorkerAwake, queue_vars
  <2>3. CASE Alive = {} /\ created + 1 \in Alive'
    BY <2>3, <1>1, <1>2 DEF WorkerAwake, Alive, TypeOK, PlacesOK, Cvs, sync_vars,
      Workers
  <2>4. CASE Alive = {} /\ created + 1 \notin Alive'
    <3>1. Alive' = {}
      BY <2>4, <1>1, <1>2 DEF Alive, TypeOK, Workers, Threads
    <3> QED BY <3>1 DEF WorkerAwake
  <2> QED BY <2>2, <2>3, <2>4
<1> QED BY <1>3, <1>4, <1>5, <1>6

LEMMA SafeInitDone == ASSUME SafeInv, InitDone PROVE SafeInv'
<1> USE DEF SafeInv
<1>1. /\ pc[Main] = "create" /\ Main \in Threads
      /\ pc' = [pc EXCEPT ![Main] = "accept"]
  BY DEF InitDone, Threads, At, Goto
<1>2. UNCHANGED <<init_vars, queue_vars, sync_vars, connfd, open, up>>
  BY DEF InitDone
<1>3. TypeOK'
  BY <1>1, <1>2 DEF TypeOK, init_vars, queue_vars, sync_vars, Threads, Workers,
    Slots, Pc
<1>4. PlacesOK'
  BY <1>1, <1>2 DEF TypeOK, PlacesOK, init_vars, queue_vars, sync_vars, Threads,
    Workers, Critical, Cvs, Main, Pc
<1>5. ProducerWaitsOnFull' /\ WorkerAwake'
  BY <1>1, <1>2 DEF ProducerWaitsOnFull, WorkerAwake, Alive, TypeOK, init_vars,
    queue_vars, sync_vars, Main, Threads, Workers
<1> QED BY <1>3, <1>4, <1>5

LEMMA SafeAccept == ASSUME SafeInv, Accept PROVE SafeInv'
<1> USE DEF SafeInv
<1>1. /\ pc[Main] = "accept" /\ Main \in Threads
      /\ pc' = [pc EXCEPT ![Main] = IF nr_threads = 0 THEN "serve" ELSE "lock"]
  BY DEF Accept, Threads, At, Goto
<1>2. PICK fd \in Fds \ open : /\ open' = open \cup {fd}
                               /\ connfd' = [connfd EXCEPT ![Main] = fd]
  BY DEF Accept
<1>3. UNCHANGED <<init_vars, queue_vars, sync_vars, up>>
  BY DEF Accept
<1>4. TypeOK'
  BY <1>1, <1>2, <1>3 DEF TypeOK, init_vars, queue_vars, sync_vars, Threads,
    Workers, Slots, Pc
<1>5. PlacesOK'
  BY <1>1, <1>3 DEF TypeOK, PlacesOK, init_vars, queue_vars, sync_vars, Threads,
    Workers, Critical, Cvs, Main, Pc
<1>6. ProducerWaitsOnFull' /\ WorkerAwake'
  BY <1>1, <1>3 DEF ProducerWaitsOnFull, WorkerAwake, Alive, TypeOK, init_vars,
    queue_vars, sync_vars, Main, Threads, Workers
<1> QED BY <1>4, <1>5, <1>6

(* A step of thread t that changes nothing of the ring and of the wait     *)
(* sets, and goes from one place to another in which the same is true.     *)
LEMMA SafeMove ==
  ASSUME SafeInv, NEW t \in Threads, NEW place \in Pc \ {"none"},
         pc' = [pc EXCEPT ![t] = place], pc[t] # "none", pc[t] # "create",
         place # "create", t \notin Cvs,
         t = Main => place # "take",
         t # Main => place \notin {"accept", "put"},
         lock' \in Threads \cup {Free},
         \A u \in Threads \ {t} : lock' = u <=> lock = u,
         lock' = t <=> place \in Critical,
         t = Main /\ place = "put" => waiting_requests < max_requests,
         t # Main /\ place = "take" => waiting_requests > 0,
         UNCHANGED <<init_vars, queue_vars, produce_cv, consume_cv, up>>,
         connfd' \in [Threads -> Fds \cup {NoFd}], open' \subseteq Fds
  PROVE  SafeInv'
<1> USE DEF SafeInv
<1>1. TypeOK'
  BY DEF TypeOK, init_vars, queue_vars, Threads, Workers, Slots, Pc
<1>2. PlacesOK'
  <2>1. pc[Main]' \in Pc \ {"none", "take"}
    BY DEF PlacesOK, TypeOK, Threads
  <2>2. \A w \in Workers' : pc[w]' \in Pc \ {"create", "accept", "put"}
    BY DEF PlacesOK, TypeOK, Threads, Workers, Main, init_vars
  <2>3. \A u \in Cvs' : pc[u]' = "wait"
    BY DEF PlacesOK, TypeOK, Threads, Workers, Cvs, Main
  <2>4. \A u \in Threads' : pc[u]' \in Critical <=> lock' = u
    BY DEF PlacesOK, TypeOK, Threads, Workers, init_vars
  <2>5. pc[Main]' = "create" => \A w \in Workers' : w > created' => pc[w]' = "none"
    BY DEF PlacesOK, TypeOK, Threads, Workers, init_vars, Main
  <2>6. pc[Main]' = "put" => waiting_requests' < max_requests'
    BY DEF PlacesOK, TypeOK, Threads, init_vars, queue_vars
  <2>7. \A w \in Workers' : pc[w]' = "take" => waiting_requests' > 0
    BY DEF PlacesOK, TypeOK, Threads, Workers, Main, init_vars, queue_vars
  <2> QED BY <2>1, <2>2, <2>3, <2>4, <2>5, <2>6, <2>7 DEF PlacesOK
<1>3. ProducerWaitsOnFull'
  BY DEF ProducerWaitsOnFull, init_vars, queue_vars
<1>4. WorkerAwake'
  BY DEF WorkerAwake, Alive, TypeOK, init_vars, queue_vars, Threads, Workers
<1> QED BY <1>1, <1>2, <1>3, <1>4

LEMMA SafeLock == ASSUME SafeInv, NEW t \in Threads, Lock(t) PROVE SafeInv'
<1> USE DEF SafeInv
<1>1. /\ pc[t] = "lock" /\ lock = Free /\ lock' = t
      /\ pc' = [pc EXCEPT ![t] = "test"]
      /\ UNCHANGED <<init_vars, queue_vars, produce_cv, consume_cv, connfd, open, up>>
  BY DEF Lock, At, Goto
<1>2. t \notin Cvs
  BY <1>1 DEF PlacesOK
<1>3. Free \notin Threads
  BY DEF Free, Threads, Workers, Main, TypeOK
<1> QED BY <1>1, <1>2, <1>3, SafeMove DEF Pc, Critical, TypeOK

LEMMA SafeWake == ASSUME SafeInv, NEW t \in Threads, Wake(t) PROVE SafeInv'
<1> USE DEF SafeInv
<1>1. /\ pc[t] = "wait" /\ lock = Free /\ lock' = t /\ t \notin Cvs
      /\ pc' = [pc EXCEPT ![t] = "test"]
      /\ UNCHANGED <<init_vars, queue_vars, produce_cv, consume_cv, connfd, open, up>>
  BY DEF Wake, At, Goto, while_loop
<1>2. Free \notin Threads
  BY DEF Free, Threads, Workers, Main, TypeOK
<1> QED BY <1>1, <1>2, SafeMove DEF Pc, Critical, TypeOK

LEMMA SafeUnlock == ASSUME SafeInv, NEW t \in Threads, Unlock(t) PROVE SafeInv'
<1> USE DEF SafeInv
<1> DEFINE place == IF t = Main THEN "accept" ELSE "serve"
<1>1. /\ pc[t] = "unlock" /\ lock' = Free
      /\ pc' = [pc EXCEPT ![t] = place]
      /\ UNCHANGED <<init_vars, queue_vars, produce_cv, consume_cv, connfd, open, up>>
  BY DEF Unlock, At, Goto
<1>2. t \notin Cvs /\ lock = t
  BY <1>1 DEF PlacesOK, Critical
<1>3. Free \notin Threads
  BY DEF Free, Threads, Workers, Main, TypeOK
<1>4. place \in Pc \ {"none", "create", "take", "put"} /\ place \notin Critical
  BY DEF Pc, Critical
<1>5. t # Main => place # "accept"
  OBVIOUS
<1> HIDE DEF place
<1> QED BY <1>1, <1>2, <1>3, <1>4, <1>5, SafeMove DEF TypeOK

LEMMA SafeServe == ASSUME SafeInv, NEW t \in Threads, Serve(t) PROVE SafeInv'
<1> USE DEF SafeInv
<1> DEFINE place == IF t = Main THEN "accept" ELSE "lock"
<1>1. /\ pc[t] = "serve"
      /\ pc' = [pc EXCEPT ![t] = place]
      /\ UNCHANGED <<init_vars, queue_vars, sync_vars, up>>
  BY DEF Serve, At, Goto
<1>2. t \notin Cvs /\ lock # t
  BY <1>1 DEF PlacesOK, Critical
<1>3. connfd' \in [Threads -> Fds \cup {NoFd}] /\ open' \subseteq Fds
  BY DEF Serve, TypeOK
<1>4. place \in Pc \ {"none", "create", "take", "put"} /\ place \notin Critical
  BY DEF Pc, Critical
<1>5. t # Main => place # "accept"
  OBVIOUS
<1> HIDE DEF place
<1> QED BY <1>1, <1>2, <1>3, <1>4, <1>5, SafeMove DEF TypeOK, sync_vars

LEMMA SafeSpurious == ASSUME SafeInv, NEW t \in Threads, Spurious(t) PROVE SafeInv'
<1> USE DEF SafeInv
<1>1. /\ produce_cv' = produce_cv \ {t} /\ consume_cv' = consume_cv \ {t}
      /\ UNCHANGED <<init_vars, queue_vars, lock, pc, connfd, open, up>>
  BY DEF Spurious
<1>2. TypeOK'
  BY <1>1 DEF TypeOK, init_vars, queue_vars, Threads, Workers, Slots
<1>3. PlacesOK'
  BY <1>1 DEF PlacesOK, init_vars, queue_vars, Threads, Workers, Cvs
<1>4. ProducerWaitsOnFull' /\ WorkerAwake'
  BY <1>1 DEF ProducerWaitsOnFull, WorkerAwake, Alive, Workers, init_vars, queue_vars
<1> QED BY <1>2, <1>3, <1>4

(* server_request.                                                         *)
LEMMA SafeTestFull == ASSUME SafeInv, TestFull PROVE SafeInv'
<1> USE DEF SafeInv
<1>1. /\ pc[Main] = "test" /\ Main \in Threads /\ Main \notin Workers
      /\ UNCHANGED <<init_vars, queue_vars, consume_cv, connfd, open, up>>
  BY DEF TestFull, At, Threads, Workers, Main
<1>2. Main \notin Cvs /\ lock = Main
  BY <1>1 DEF PlacesOK, Critical
<1>3. Free \notin Threads
  BY DEF Free, Threads, Workers, Main, TypeOK
<1>4. CASE ring_full
  <2>1. /\ produce_cv' = produce_cv \cup {Main} /\ lock' = Free
        /\ pc' = [pc EXCEPT ![Main] = "wait"]
    BY <1>4 DEF TestFull, Goto
  <2>2. TypeOK'
    BY <1>1, <2>1 DEF TypeOK, init_vars, queue_vars, Threads, Workers, Slots, Pc
  <2>3. PlacesOK'
    BY <1>1, <1>2, <1>3, <2>1 DEF PlacesOK, TypeOK, init_vars, queue_vars, Threads,
      Workers, Cvs, Critical, Pc
  <2>4. ProducerWaitsOnFull' /\ WorkerAwake'
    BY <1>1, <1>4, <2>1 DEF ProducerWaitsOnFull, WorkerAwake, Alive, Workers,
      TypeOK, Threads, ring_full, init_vars, queue_vars
  <2> QED BY <2>2, <2>3, <2>4
<1>5. CASE ~ring_full
  <2>1. /\ UNCHANGED <<lock, produce_cv>>
        /\ pc' = [pc EXCEPT ![Main] = "put"]
    BY <1>5 DEF TestFull, Goto
  <2>2. waiting_requests < max_requests
    BY <1>5 DEF ring_full, TypeOK
  <2> QED BY <1>1, <1>2, <2>1, <2>2, SafeMove DEF Pc, Critical, TypeOK
<1> QED BY <1>4, <1>5

LEMMA SafePut == ASSUME SafeInv, Put PROVE SafeInv'
<1> USE DEF SafeInv
<1>1. /\ pc[Main] = "put" /\ Main \in Threads /\ Main \notin Workers
      /\ Signal(was_empty, consume_cv)
      /\ waiting_requests' = waiting_requests + 1
      /\ wait_array' = [wait_array EXCEPT ![end_ptr] = connfd[Main]]
      /\ end_ptr' = next_slot(end_ptr)
      /\ connfd' = [connfd EXCEPT ![Main] = NoFd]
      /\ pc' = [pc EXCEPT ![Main] = "unlock"]
      /\ UNCHANGED <<init_vars, start_ptr, lock, produce_cv, open, up>>
  BY DEF Put, At, Goto, Threads, Workers, Main
<1>2. /\ Main \notin Cvs /\ lock = Main /\ waiting_requests < max_requests
      /\ \A w \in Workers : pc[w] \notin Critical
  BY <1>1 DEF PlacesOK, Critical, Threads
<1>3. consume_cv' \subseteq consume_cv
  BY <1>1 DEF Signal
<1>4. /\ max_requests \in Nat \ {0} /\ start_ptr \in Slots /\ end_ptr \in Slots
      /\ end_ptr' \in Slots
  <2>1. max_requests \in Nat \ {0} /\ start_ptr \in Slots /\ end_ptr \in Slots
    BY <1>2 DEF TypeOK, Slots
  <2> QED BY <1>1, <2>1, NextSlot DEF Slots, next_slot
<1>5. TypeOK'
  <2>1. wait_array' \in [Slots -> Fds \cup {NoFd}]
    BY <1>1, <1>4 DEF TypeOK
  <2>2. waiting_requests' \in 0 .. max_requests
    BY <1>1, <1>2 DEF TypeOK
  <2> QED BY <1>1, <1>3, <1>4, <2>1, <2>2 DEF TypeOK, init_vars, Threads, Workers,
        Slots, Pc
<1>6. PlacesOK'
  BY <1>1, <1>2, <1>3 DEF PlacesOK, TypeOK, init_vars, Threads, Workers, Cvs,
    Critical, Pc
<1>7. ProducerWaitsOnFull'
  BY <1>1, <1>2 DEF ProducerWaitsOnFull, Cvs
<1>8. WorkerAwake'
  <2>1. Alive' = Alive
    BY <1>1 DEF Alive, Workers, TypeOK, Threads, init_vars
  <2>2. CASE waiting_requests # 0
    BY <2>1, <2>2, <1>1 DEF WorkerAwake, Signal, was_empty, TypeOK
  <2>3. CASE waiting_requests = 0 /\ consume_cv = {}
    BY <2>1, <2>3, <1>3 DEF WorkerAwake
  <2>4. CASE waiting_requests = 0 /\ consume_cv # {}
    <3>1. PICK w \in consume_cv : consume_cv' = consume_cv \ {w}
      BY <2>4, <1>1 DEF Signal, was_empty
    <3>2. w \in Alive
      BY DEF Alive, TypeOK, PlacesOK, Cvs
    <3> QED BY <2>1, <3>1, <3>2 DEF WorkerAwake
  <2> QED BY <2>2, <2>3, <2>4
<1> QED BY <1>5, <1>6, <1>7, <1>8

(* request_stub.                                                           *)
LEMMA SafeTestEmpty == ASSUME SafeInv, NEW w \in Workers, TestEmpty(w) PROVE SafeInv'
<1> USE DEF SafeInv
<1>1. /\ pc[w] = "test" /\ w \in Threads /\ w # Main
      /\ UNCHANGED <<init_vars, queue_vars, produce_cv, connfd, open, up>>
  BY DEF TestEmpty, At, Threads, Workers, Main
<1>2. w \notin Cvs /\ lock = w
  BY <1>1 DEF PlacesOK, Critical
<1>3. Free \notin Threads
  BY DEF Free, Threads, Workers, Main, TypeOK
<1>4. CASE waiting_requests = 0
  <2>1. /\ consume_cv' = consume_cv \cup {w} /\ lock' = Free
        /\ pc' = [pc EXCEPT ![w] = "wait"]
    BY <1>4 DEF TestEmpty, Goto
  <2>2. TypeOK'
    BY <1>1, <2>1 DEF TypeOK, init_vars, queue_vars, Threads, Workers, Slots, Pc
  <2>3. PlacesOK'
    BY <1>1, <1>2, <1>3, <2>1 DEF PlacesOK, TypeOK, init_vars, queue_vars, Threads,
      Workers, Cvs, Critical, Pc, Main
  <2>4. ProducerWaitsOnFull' /\ WorkerAwake'
    BY <1>1, <1>4, <2>1 DEF ProducerWaitsOnFull, WorkerAwake, init_vars, queue_vars
  <2> QED BY <2>2, <2>3, <2>4
<1>5. CASE waiting_requests # 0
  <2>1. /\ UNCHANGED <<lock, consume_cv>>
        /\ pc' = [pc EXCEPT ![w] = "take"]
    BY <1>5 DEF TestEmpty, Goto
  <2>2. waiting_requests > 0
    BY <1>5 DEF TypeOK
  <2> QED BY <1>1, <1>2, <2>1, <2>2, SafeMove DEF Pc, Critical, TypeOK
<1> QED BY <1>4, <1>5

LEMMA SafeTake == ASSUME SafeInv, NEW w \in Workers, Take(w) PROVE SafeInv'
<1> USE DEF SafeInv
<1>1. /\ pc[w] = "take" /\ w \in Threads /\ w # Main
      /\ Signal(was_full, produce_cv)
      /\ waiting_requests' = waiting_requests - 1
      /\ connfd' = [connfd EXCEPT ![w] = wait_array[start_ptr]]
      /\ start_ptr' = next_slot(start_ptr)
      /\ pc' = [pc EXCEPT ![w] = "unlock"]
      /\ UNCHANGED <<init_vars, wait_array, end_ptr, lock, consume_cv, open, up>>
  BY DEF Take, At, Goto, Threads, Workers, Main, oldest
<1>2. /\ w \notin Cvs /\ lock = w /\ waiting_requests > 0
      /\ \A u \in Threads \ {w} : pc[u] \notin Critical
  BY <1>1 DEF PlacesOK, Critical, Threads
<1>3. produce_cv' \subseteq produce_cv
  BY <1>1 DEF Signal
<1>4. /\ max_requests \in Nat \ {0} /\ start_ptr \in Slots /\ end_ptr \in Slots
      /\ start_ptr' \in Slots
  <2>1. max_requests \in Nat \ {0} /\ start_ptr \in Slots /\ end_ptr \in Slots
    BY <1>2 DEF TypeOK, Slots
  <2> QED BY <1>1, <2>1, NextSlot DEF Slots, next_slot
<1>5. TypeOK'
  <2>1. connfd' \in [Threads -> Fds \cup {NoFd}]
    BY <1>1, <1>4 DEF TypeOK
  <2>2. waiting_requests' \in 0 .. max_requests
    BY <1>1, <1>2 DEF TypeOK
  <2> QED BY <1>1, <1>3, <1>4, <2>1, <2>2 DEF TypeOK, init_vars, Threads, Workers,
        Slots, Pc
<1>6. PlacesOK'
  BY <1>1, <1>2, <1>3 DEF PlacesOK, TypeOK, init_vars, Threads, Workers, Cvs,
    Critical, Pc, Main
<1>7. ProducerWaitsOnFull'
  BY <1>1 DEF ProducerWaitsOnFull, Signal, was_full, TypeOK, init_vars
<1>8. WorkerAwake'
  <2>1. w \in Alive' /\ w \notin consume_cv'
    BY <1>1, <1>2 DEF Alive, Workers, TypeOK, Threads, init_vars, Cvs
  <2> QED BY <2>1 DEF WorkerAwake
<1> QED BY <1>5, <1>6, <1>7, <1>8

LEMMA SafeExit == ASSUME SafeInv, NEW t \in Threads, Exit(t) PROVE SafeInv'
  BY DEF SafeInv, Exit, TypeOK, PlacesOK, ProducerWaitsOnFull, WorkerAwake, Alive,
    init_vars, queue_vars, sync_vars, Threads, Workers, Slots, Cvs

LEMMA SafeStep == ASSUME SafeInv, [Next]_vars PROVE SafeInv'
<1>1. CASE UNCHANGED vars
  BY <1>1 DEF SafeInv, vars, TypeOK, PlacesOK, ProducerWaitsOnFull, WorkerAwake,
    Alive, init_vars, queue_vars, sync_vars, Threads, Workers, Slots, Cvs
<1>2. CASE MainStep
  BY <1>2, SafeCreateWorker, SafeInitDone, SafeTestFull, SafePut, SafeLock, SafeWake,
    SafeUnlock DEF MainStep, Sync, Threads
<1>3. CASE Accept
  BY <1>3, SafeAccept
<1>4. CASE \E w \in Workers : WorkerStep(w)
  BY <1>4, SafeTestEmpty, SafeTake, SafeLock, SafeWake, SafeUnlock
    DEF WorkerStep, Sync, Threads
<1>5. CASE \E t \in Threads : Serve(t) \/ Spurious(t) \/ Exit(t)
  BY <1>5, SafeServe, SafeSpurious, SafeExit
<1> QED BY <1>1, <1>2, <1>3, <1>4, <1>5 DEF Next, Ended

LEMMA SafeAlways == Spec => []SafeInv
<1>1. Init => SafeInv
  BY SafeInitially
<1>2. SafeInv /\ [Next]_vars => SafeInv'
  BY SafeStep
<1> QED BY <1>1, <1>2, PTL DEF Spec

(* Every variable of the server's pool keeps its type: the pointers stay   *)
(* inside the ring, the count between 0 and max_requests, whatever the     *)
(* command line asks for and however many workers fail to start.           *)
THEOREM ServerTypeCorrect == Spec => []TypeOK
<1>1. SafeInv => TypeOK
  BY DEF SafeInv
<1> QED BY <1>1, SafeAlways, PTL

(* server_request: the main thread sleeps on produce_cv only while the     *)
(* ring is full, since the take that ends that wakes it.                   *)
THEOREM ProducerWaitsOnFullHolds == Spec => []ProducerWaitsOnFull
<1>1. SafeInv => ProducerWaitsOnFull
  BY DEF SafeInv
<1> QED BY <1>1, SafeAlways, PTL

(* request_stub and server_request: with a request in the ring, some       *)
(* worker that started is not asleep on consume_cv, although a signal is   *)
(* sent only when the ring was empty.                                      *)
THEOREM WorkerAwakeHolds == Spec => []WorkerAwake
<1>1. SafeInv => WorkerAwake
  BY DEF SafeInv
<1> QED BY <1>1, SafeAlways, PTL
(* Where the connections are: in the hands of the threads whose place in   *)
(* the code says so, and in the slots of the ring, each in one place.      *)
HandsOK ==
  /\ nr_threads = 0 => pc[Main] \in {"create", "accept", "serve"}
  /\ nr_threads # 0 => pc[Main] # "serve"
  /\ connfd[Main] # NoFd <=> pc[Main] \in {"lock", "test", "wait", "put", "serve"}
  /\ \A w \in Workers : connfd[w] # NoFd <=> pc[w] \in {"unlock", "serve"}

RingOK ==
  max_requests > 0 => end_ptr = (start_ptr + waiting_requests) % max_requests

OnceEach ==
  /\ \A t \in Threads : connfd[t] # NoFd => connfd[t] \in open
  /\ \A i \in 1 .. waiting_requests : Pending[i] \in open
  /\ \A t, u \in Threads : connfd[t] # NoFd /\ connfd[t] = connfd[u] => t = u
  /\ \A i, j \in 1 .. waiting_requests : Pending[i] = Pending[j] => i = j
  /\ \A t \in Threads, i \in 1 .. waiting_requests : connfd[t] # Pending[i]
  /\ \A fd \in open : \/ \E t \in Threads : connfd[t] = fd
                      \/ \E i \in 1 .. waiting_requests : Pending[i] = fd

HeldInv == HandsOK /\ RingOK /\ OnceEach

LEMMA SlotIs ==
  ASSUME SafeInv, max_requests > 0, NEW i \in 1 .. max_requests + 1
  PROVE  /\ Slot(i) = IF start_ptr + i - 1 < max_requests
                      THEN start_ptr + i - 1 ELSE start_ptr + i - 1 - max_requests
         /\ Slot(i) \in Slots
<1>1. max_requests \in Nat \ {0} /\ start_ptr \in 0 .. max_requests - 1
  BY DEF SafeInv, TypeOK, Slots
<1>2. start_ptr + i - 1 \in 0 .. 2 * max_requests - 1
  BY <1>1
<1>3. Slot(i) = IF start_ptr + i - 1 < max_requests
                THEN start_ptr + i - 1 ELSE start_ptr + i - 1 - max_requests
  BY <1>1, <1>2, WrapSlot DEF Slot
<1> QED BY <1>1, <1>2, <1>3 DEF Slots

LEMMA PendingIs ==
  ASSUME SafeInv
  PROVE  /\ Pending \in Seq(Fds \cup {NoFd}) /\ Len(Pending) = waiting_requests
         /\ \A i \in 1 .. waiting_requests : Pending[i] = wait_array[Slot(i)]
<1>1. \A i \in 1 .. waiting_requests : Slot(i) \in Slots
  BY SlotIs DEF SafeInv, TypeOK
<1> QED BY <1>1 DEF SafeInv, TypeOK, Pending

(* server_request fills the slot after the last pending one.               *)
LEMMA PutAppends ==
  ASSUME SafeInv, RingOK, Put
  PROVE  Pending' = Append(Pending, connfd[Main]) /\ RingOK'
<1>1. /\ pc[Main] = "put"
      /\ waiting_requests' = waiting_requests + 1
      /\ wait_array' = [wait_array EXCEPT ![end_ptr] = connfd[Main]]
      /\ end_ptr' = next_slot(end_ptr)
      /\ start_ptr' = start_ptr /\ max_requests' = max_requests
  BY DEF Put, At, init_vars
<1>2. waiting_requests < max_requests
  BY <1>1 DEF SafeInv, PlacesOK
<1>3. /\ max_requests \in Nat \ {0} /\ waiting_requests \in 0 .. max_requests - 1
      /\ start_ptr \in 0 .. max_requests - 1 /\ end_ptr \in 0 .. max_requests - 1
      /\ wait_array \in [0 .. max_requests - 1 -> Fds \cup {NoFd}]
  BY <1>2 DEF SafeInv, TypeOK, Slots
<1>4. end_ptr = Slot(waiting_requests + 1)
  BY <1>3 DEF RingOK, Slot
<1>5. \A i \in 1 .. waiting_requests : Slot(i) # end_ptr
  BY <1>3, <1>4, SlotIs
<1>6. \A i \in 1 .. waiting_requests + 1 : Slot(i)' = Slot(i)
  BY <1>1 DEF Slot
<1>7. \A i \in 1 .. waiting_requests : wait_array'[Slot(i)] = wait_array[Slot(i)]
  BY <1>1, <1>3, <1>5, SlotIs DEF Slots
<1>8. wait_array'[end_ptr] = connfd[Main]
  BY <1>1, <1>3
<1>9. Pending' = Append(Pending, connfd[Main])
  <2>1. /\ Len(Pending) = waiting_requests
        /\ \A i \in 1 .. waiting_requests : Pending[i] = wait_array[Slot(i)]
    BY PendingIs
  <2>2. Append(Pending, connfd[Main])
          = [i \in 1 .. waiting_requests + 1 |->
               IF i = waiting_requests + 1 THEN connfd[Main] ELSE Pending[i]]
    BY <1>3, <2>1, PendingIs
  <2>3. Pending' = [i \in 1 .. waiting_requests + 1 |-> wait_array'[Slot(i)]]
    BY <1>1, <1>6 DEF Pending
  <2> QED BY <1>3, <1>4, <1>7, <1>8, <2>1, <2>2, <2>3
<1>10. RingOK'
  <2>1. end_ptr = IF start_ptr + waiting_requests < max_requests
                  THEN start_ptr + waiting_requests
                  ELSE start_ptr + waiting_requests - max_requests
    BY <1>3, <1>4, SlotIs
  <2>2. end_ptr' = IF end_ptr + 1 < max_requests THEN end_ptr + 1 ELSE 0
    BY <1>1, <1>3, NextSlot DEF next_slot
  <2>3. start_ptr + waiting_requests + 1 \in 0 .. 2 * max_requests - 1
    BY <1>3
  <2>4. (start_ptr + waiting_requests + 1) % max_requests
          = IF start_ptr + waiting_requests + 1 < max_requests
            THEN start_ptr + waiting_requests + 1
            ELSE start_ptr + waiting_requests + 1 - max_requests
    <3>1. PICK k \in 0 .. 2 * max_requests - 1 : k = start_ptr + waiting_requests + 1
      BY <2>3
    <3>2. k % max_requests = IF k < max_requests THEN k ELSE k - max_requests
      BY <1>3, WrapSlot
    <3> QED BY <1>3, <3>1, <3>2
  <2>5. end_ptr' = (start_ptr + waiting_requests + 1) % max_requests
    BY <1>3, <2>1, <2>2, <2>4
  <2>6. start_ptr + (waiting_requests + 1) = start_ptr + waiting_requests + 1
    BY <1>3
  <2> QED BY <1>1, <2>5, <2>6 DEF RingOK
<1> QED BY <1>9, <1>10

(* request_stub takes the oldest one.                                      *)
LEMMA TakeRemoves ==
  ASSUME SafeInv, RingOK, NEW w \in Workers, Take(w)
  PROVE  /\ Pending # <<>> /\ oldest = Head(Pending) /\ oldest = Pending[1]
         /\ Pending' = Tail(Pending) /\ RingOK'
<1>1. /\ pc[w] = "take"
      /\ waiting_requests' = waiting_requests - 1
      /\ start_ptr' = next_slot(start_ptr)
      /\ wait_array' = wait_array /\ end_ptr' = end_ptr /\ max_requests' = max_requests
  BY DEF Take, At, init_vars
<1>2. waiting_requests > 0
  BY <1>1 DEF SafeInv, PlacesOK
<1>3. /\ max_requests \in Nat \ {0} /\ waiting_requests \in 1 .. max_requests
      /\ start_ptr \in 0 .. max_requests - 1 /\ end_ptr \in 0 .. max_requests - 1
  BY <1>2 DEF SafeInv, TypeOK, Slots
<1>4. start_ptr' = IF start_ptr + 1 < max_requests THEN start_ptr + 1 ELSE 0
  BY <1>1, <1>3, NextSlot DEF next_slot
<1>5. \A i \in 1 .. waiting_requests - 1 : Slot(i)' = Slot(i + 1)
  <2> SUFFICES ASSUME NEW i \in 1 .. waiting_requests - 1
               PROVE  Slot(i)' = Slot(i + 1)
    OBVIOUS
  <2>1. start_ptr' + i - 1 \in 0 .. 2 * max_requests - 1
    BY <1>3, <1>4
  <2>2. (start_ptr' + i - 1) % max_requests
          = IF start_ptr' + i - 1 < max_requests
            THEN start_ptr' + i - 1 ELSE start_ptr' + i - 1 - max_requests
    <3>1. PICK k \in 0 .. 2 * max_requests - 1 : k = start_ptr' + i - 1
      BY <2>1
    <3>2. k % max_requests = IF k < max_requests THEN k ELSE k - max_requests
      BY <1>3, WrapSlot
    <3> QED BY <1>3, <1>4, <3>1, <3>2
  <2>3. Slot(i)' = (start_ptr' + i - 1) % max_requests
    BY <1>1 DEF Slot
  <2>4. i + 1 \in 1 .. max_requests + 1
    BY <1>3
  <2>5. Slot(i + 1) = IF start_ptr + i < max_requests
                      THEN start_ptr + i ELSE start_ptr + i - max_requests
    BY <1>3, <2>4, SlotIs
  <2> QED BY <1>3, <1>4, <2>2, <2>3, <2>5
<1>6. /\ Len(Pending) = waiting_requests /\ Pending \in Seq(Fds \cup {NoFd})
      /\ \A i \in 1 .. waiting_requests : Pending[i] = wait_array[Slot(i)]
  BY PendingIs
<1>7. Slot(1) = start_ptr
  BY <1>3, SlotIs
<1>8. Pending # <<>> /\ oldest = Pending[1] /\ Head(Pending) = Pending[1]
  BY <1>3, <1>6, <1>7 DEF oldest
<1>9. Pending' = Tail(Pending)
  <2>1. Pending' = [i \in 1 .. waiting_requests - 1 |-> wait_array[Slot(i + 1)]]
    BY <1>1, <1>5 DEF Pending
  <2>2. Tail(Pending) = [i \in 1 .. waiting_requests - 1 |-> Pending[i + 1]]
    <3>1. /\ Tail(Pending) \in Seq(Fds \cup {NoFd})
          /\ Len(Tail(Pending)) = waiting_requests - 1
          /\ \A i \in 1 .. waiting_requests - 1 : Tail(Pending)[i] = Pending[i + 1]
      BY <1>3, <1>6, <1>8, HeadTailProperties
    <3> DEFINE rest == Tail(Pending)
    <3>2. rest \in [1 .. Len(rest) -> Fds \cup {NoFd}]
      BY <3>1, LenProperties
    <3> HIDE DEF rest
    <3>3. rest = [i \in 1 .. Len(rest) |-> rest[i]]
      BY <3>2
    <3> QED BY <1>3, <3>1, <3>3 DEF rest
  <2>3. \A i \in 1 .. waiting_requests - 1 : Pending[i + 1] = wait_array[Slot(i + 1)]
    BY <1>3, <1>6
  <2> QED BY <2>1, <2>2, <2>3
<1>10. RingOK'
  <2>1. end_ptr = IF start_ptr + waiting_requests < max_requests
                  THEN start_ptr + waiting_requests
                  ELSE start_ptr + waiting_requests - max_requests
    BY <1>3, WrapSlot DEF RingOK
  <2>2. start_ptr' + (waiting_requests - 1) \in 0 .. 2 * max_requests - 1
    BY <1>3, <1>4
  <2>3. (start_ptr' + (waiting_requests - 1)) % max_requests
          = IF start_ptr' + (waiting_requests - 1) < max_requests
            THEN start_ptr' + (waiting_requests - 1)
            ELSE start_ptr' + (waiting_requests - 1) - max_requests
    <3>1. PICK k \in 0 .. 2 * max_requests - 1 :
                 k = start_ptr' + (waiting_requests - 1)
      BY <2>2
    <3>2. k % max_requests = IF k < max_requests THEN k ELSE k - max_requests
      BY <1>3, WrapSlot
    <3> QED BY <1>3, <1>4, <3>1, <3>2
  <2>4. end_ptr = (start_ptr' + (waiting_requests - 1)) % max_requests
    BY <1>3, <1>4, <2>1, <2>3
  <2> QED BY <1>1, <2>4 DEF RingOK
<1> QED BY <1>8, <1>9, <1>10

LEMMA HeldInitially == ASSUME Init PROVE HeldInv
<1>1. HandsOK
  BY DEF Init, HandsOK, Threads, Workers, Main
<1>2. RingOK
  <2>1. max_requests \in Nat
    BY ServerAssumption DEF Init
  <2> QED BY <2>1 DEF Init, RingOK
<1>3. OnceEach
  BY DEF Init, OnceEach
<1> QED BY <1>1, <1>2, <1>3 DEF HeldInv

(* A step that moves one thread, and no connection.                        *)
LEMMA HeldMove ==
  ASSUME SafeInv, HeldInv, NEW t \in Threads, NEW place,
         pc' = [pc EXCEPT ![t] = place],
         UNCHANGED <<nr_threads, max_requests, queue_vars, connfd, open>>,
         t = Main => /\ nr_threads = 0 => place \in {"create", "accept", "serve"}
                     /\ nr_threads # 0 => place # "serve"
                     /\ pc[t] \in {"lock", "test", "wait", "put", "serve"} <=>
                          place \in {"lock", "test", "wait", "put", "serve"},
         t # Main => pc[t] \in {"unlock", "serve"} <=> place \in {"unlock", "serve"}
  PROVE  HeldInv'
<1>1. HandsOK'
  BY DEF SafeInv, TypeOK, HeldInv, HandsOK, Threads, Workers, Main
<1>2. RingOK' /\ OnceEach'
  BY DEF HeldInv, RingOK, OnceEach, queue_vars, Threads, Workers, Pending, Slot
<1> QED BY <1>1, <1>2 DEF HeldInv

LEMMA HeldPut == ASSUME SafeInv, HeldInv, Put PROVE HeldInv'
<1>1. /\ pc[Main] = "put" /\ Main \in Threads /\ Main \notin Workers
      /\ waiting_requests' = waiting_requests + 1
      /\ connfd' = [connfd EXCEPT ![Main] = NoFd]
      /\ pc' = [pc EXCEPT ![Main] = "unlock"]
      /\ UNCHANGED <<nr_threads, max_requests, open>>
  BY DEF Put, At, Goto, Threads, Workers, Main, init_vars
<1>2. /\ pc \in [Threads -> Pc] /\ connfd \in [Threads -> Fds \cup {NoFd}]
      /\ waiting_requests \in Nat
  BY DEF SafeInv, TypeOK
<1>3. connfd[Main] # NoFd /\ nr_threads # 0
  BY <1>1 DEF HeldInv, HandsOK
<1>4. HandsOK'
  BY <1>1, <1>2, <1>3 DEF HeldInv, HandsOK, Threads, Workers
<1>5. RingOK' /\ Pending' = Append(Pending, connfd[Main])
  BY PutAppends DEF HeldInv
<1>6. /\ \A i \in 1 .. waiting_requests : Pending'[i] = Pending[i]
      /\ Pending'[waiting_requests + 1] = connfd[Main]
  BY <1>2, <1>5, PendingIs, AppendProperties
<1>7. \A i \in 1 .. waiting_requests + 1 :
        i \in 1 .. waiting_requests \/ i = waiting_requests + 1
  BY <1>2
<1>8. OnceEach'
  <2>0. Threads' = Threads
    BY <1>1 DEF Threads, Workers
  <2> USE DEF HeldInv, OnceEach
  <2>1. \A t \in Threads : connfd'[t] # NoFd => connfd'[t] \in open
    BY <1>1, <1>2
  <2>2. \A i \in 1 .. waiting_requests + 1 : Pending'[i] \in open
    BY <1>1, <1>3, <1>6, <1>7
  <2>3. \A t, u \in Threads : connfd'[t] # NoFd /\ connfd'[t] = connfd'[u] => t = u
    BY <1>1, <1>2
  <2>4. \A i, j \in 1 .. waiting_requests + 1 : Pending'[i] = Pending'[j] => i = j
    BY <1>1, <1>6, <1>7
  <2>5. \A t \in Threads, i \in 1 .. waiting_requests + 1 : connfd'[t] # Pending'[i]
    <3>1. \A i \in 1 .. waiting_requests + 1 : Pending'[i] # NoFd
      BY <2>2, ServerAssumption DEF SafeInv, TypeOK
    <3> QED BY <1>1, <1>2, <1>3, <1>6, <1>7, <3>1
  <2>6. \A fd \in open : \/ \E t \in Threads : connfd'[t] = fd
                         \/ \E i \in 1 .. waiting_requests + 1 : Pending'[i] = fd
    <3> SUFFICES ASSUME NEW fd \in open
                 PROVE  \/ \E t \in Threads : connfd'[t] = fd
                        \/ \E i \in 1 .. waiting_requests + 1 : Pending'[i] = fd
      OBVIOUS
    <3>1. CASE fd = connfd[Main]
      BY <1>2, <1>6, <3>1
    <3>2. CASE \E t \in Threads \ {Main} : connfd[t] = fd
      BY <1>1, <1>2, <3>2
    <3>3. CASE \E i \in 1 .. waiting_requests : Pending[i] = fd
      BY <1>2, <1>6, <3>3
    <3> QED BY <3>1, <3>2, <3>3
  <2> QED BY <1>1, <2>0, <2>1, <2>2, <2>3, <2>4, <2>5, <2>6
<1> QED BY <1>4, <1>5, <1>8 DEF HeldInv

LEMMA HeldTake == ASSUME SafeInv, HeldInv, NEW w \in Workers, Take(w) PROVE HeldInv'
<1>1. /\ pc[w] = "take" /\ w \in Threads /\ w # Main
      /\ waiting_requests' = waiting_requests - 1
      /\ connfd' = [connfd EXCEPT ![w] = oldest]
      /\ pc' = [pc EXCEPT ![w] = "unlock"]
      /\ UNCHANGED <<nr_threads, max_requests, open>>
  BY DEF Take, At, Goto, Threads, Workers, Main, init_vars
<1>2. /\ pc \in [Threads -> Pc] /\ connfd \in [Threads -> Fds \cup {NoFd}]
      /\ waiting_requests \in Nat /\ open \subseteq Fds
  BY DEF SafeInv, TypeOK
<1>3. /\ oldest = Pending[1] /\ RingOK' /\ Pending' = Tail(Pending)
      /\ Pending # <<>>
  BY TakeRemoves DEF HeldInv
<1>4. /\ waiting_requests \in Nat \ {0}
      /\ \A i \in 1 .. waiting_requests - 1 : Pending'[i] = Pending[i + 1]
  BY <1>3, PendingIs, HeadTailProperties, EmptySeq
<1>5. oldest \in open /\ oldest # NoFd
  <2>1. 1 \in 1 .. waiting_requests
    BY <1>4
  <2> QED BY <1>2, <1>3, <2>1, ServerAssumption DEF HeldInv, OnceEach
<1>6. HandsOK'
  BY <1>1, <1>2, <1>5 DEF HeldInv, HandsOK, Threads, Workers
<1>7. OnceEach'
  <2>0. Threads' = Threads
    BY <1>1 DEF Threads, Workers
  <2>a. \A i \in 1 .. waiting_requests - 1 : i + 1 \in 1 .. waiting_requests /\ i + 1 # 1
    BY <1>4
  <2>b. 1 \in 1 .. waiting_requests
    BY <1>4
  <2> USE DEF HeldInv, OnceEach
  <2>1. \A t \in Threads : connfd'[t] # NoFd => connfd'[t] \in open
    BY <1>1, <1>2, <1>5
  <2>2. \A i \in 1 .. waiting_requests - 1 : Pending'[i] \in open
    BY <1>4, <2>a
  <2>3. \A t, u \in Threads : connfd'[t] # NoFd /\ connfd'[t] = connfd'[u] => t = u
    BY <1>1, <1>2, <1>3, <2>b
  <2>4. \A i, j \in 1 .. waiting_requests - 1 : Pending'[i] = Pending'[j] => i = j
    BY <1>4, <2>a
  <2>5. \A t \in Threads, i \in 1 .. waiting_requests - 1 : connfd'[t] # Pending'[i]
    <3> SUFFICES ASSUME NEW t \in Threads, NEW i \in 1 .. waiting_requests - 1
                 PROVE  connfd'[t] # Pending[i + 1]
      BY <1>4
    <3>1. CASE t = w
      BY <1>1, <1>2, <1>3, <2>a, <2>b, <3>1
    <3>2. CASE t # w
      BY <1>1, <1>2, <2>a, <3>2
    <3> QED BY <3>1, <3>2
  <2>6. \A fd \in open : \/ \E t \in Threads : connfd'[t] = fd
                         \/ \E i \in 1 .. waiting_requests - 1 : Pending'[i] = fd
    <3> SUFFICES ASSUME NEW fd \in open
                 PROVE  \/ \E t \in Threads : connfd'[t] = fd
                        \/ \E i \in 1 .. waiting_requests - 1 : Pending'[i] = fd
      OBVIOUS
    <3>1. CASE fd = Pending[1]
      BY <1>1, <1>2, <1>3, <3>1
    <3>2. CASE \E t \in Threads : connfd[t] = fd
      <4>1. PICK t \in Threads : connfd[t] = fd
        BY <3>2
      <4>2. fd # NoFd
        BY <1>2, ServerAssumption
      <4>3. connfd[w] = NoFd
        BY <1>1 DEF HandsOK
      <4> QED BY <1>1, <1>2, <4>1, <4>2, <4>3
    <3>3. CASE \E i \in 1 .. waiting_requests : Pending[i] = fd /\ i # 1
      <4>1. PICK i \in 1 .. waiting_requests : Pending[i] = fd /\ i # 1
        BY <3>3
      <4>2. i - 1 \in 1 .. waiting_requests - 1 /\ (i - 1) + 1 = i
        BY <1>2, <4>1
      <4> QED BY <1>4, <4>1, <4>2
    <3> QED BY <3>1, <3>2, <3>3
  <2> QED BY <1>1, <2>0, <2>1, <2>2, <2>3, <2>4, <2>5, <2>6
<1> QED BY <1>3, <1>6, <1>7 DEF HeldInv

LEMMA HeldAccept == ASSUME SafeInv, HeldInv, Accept PROVE HeldInv'
<1>1. /\ pc[Main] = "accept" /\ Main \in Threads /\ Main \notin Workers
      /\ pc' = [pc EXCEPT ![Main] = IF nr_threads = 0 THEN "serve" ELSE "lock"]
      /\ UNCHANGED <<nr_threads, max_requests, queue_vars>>
  BY DEF Accept, At, Goto, Threads, Workers, Main, init_vars
<1>2. PICK fd \in Fds \ open : /\ open' = open \cup {fd}
                               /\ connfd' = [connfd EXCEPT ![Main] = fd]
  BY DEF Accept
<1>3. /\ pc \in [Threads -> Pc] /\ connfd \in [Threads -> Fds \cup {NoFd}]
      /\ fd # NoFd /\ connfd[Main] = NoFd
  BY <1>1, ServerAssumption DEF SafeInv, TypeOK, HeldInv, HandsOK
<1>4. HandsOK'
  BY <1>1, <1>2, <1>3 DEF HeldInv, HandsOK, Threads, Workers
<1>5. RingOK' /\ Pending' = Pending /\ waiting_requests' = waiting_requests
  BY <1>1 DEF HeldInv, RingOK, queue_vars, Pending, Slot
<1>6. OnceEach'
  <2>0. Threads' = Threads
    BY <1>1 DEF Threads, Workers
  <2> USE DEF HeldInv, OnceEach
  <2>1. \A t \in Threads : connfd'[t] # NoFd => connfd'[t] \in open'
    BY <1>2, <1>3
  <2>2. \A i \in 1 .. waiting_requests : Pending[i] \in open'
    BY <1>2
  <2>3. \A t, u \in Threads : connfd'[t] # NoFd /\ connfd'[t] = connfd'[u] => t = u
    BY <1>2, <1>3
  <2>4. \A t \in Threads, i \in 1 .. waiting_requests : connfd'[t] # Pending[i]
    BY <1>2, <1>3
  <2>5. \A c \in open' : \/ \E t \in Threads : connfd'[t] = c
                         \/ \E i \in 1 .. waiting_requests : Pending[i] = c
    <3> SUFFICES ASSUME NEW c \in open'
                 PROVE  \/ \E t \in Threads : connfd'[t] = c
                        \/ \E i \in 1 .. waiting_requests : Pending[i] = c
      OBVIOUS
    <3>1. CASE c = fd
      BY <1>1, <1>2, <1>3, <3>1
    <3>2. CASE \E t \in Threads : connfd[t] = c /\ c # NoFd
      BY <1>2, <1>3, <3>2
    <3>3. CASE \E i \in 1 .. waiting_requests : Pending[i] = c
      BY <3>3
    <3>4. c \in Fds /\ c # NoFd
      BY <1>2, ServerAssumption DEF SafeInv, TypeOK
    <3> QED BY <1>2, <3>1, <3>2, <3>3, <3>4
  <2> QED BY <1>5, <2>0, <2>1, <2>2, <2>3, <2>4, <2>5
<1> QED BY <1>4, <1>5, <1>6 DEF HeldInv

LEMMA HeldServe == ASSUME SafeInv, HeldInv, NEW t \in Threads, Serve(t) PROVE HeldInv'
<1>1. /\ pc[t] = "serve"
      /\ pc' = [pc EXCEPT ![t] = IF t = Main THEN "accept" ELSE "lock"]
      /\ open' = open \ {connfd[t]}
      /\ connfd' = [connfd EXCEPT ![t] = NoFd]
      /\ UNCHANGED <<nr_threads, max_requests, queue_vars>>
  BY DEF Serve, At, Goto, init_vars
<1>2. pc \in [Threads -> Pc] /\ connfd \in [Threads -> Fds \cup {NoFd}]
  BY DEF SafeInv, TypeOK
<1>3. HandsOK'
  BY <1>1, <1>2 DEF HeldInv, HandsOK, Threads, Workers, Main
<1>4. RingOK' /\ Pending' = Pending /\ waiting_requests' = waiting_requests
  BY <1>1 DEF HeldInv, RingOK, queue_vars, Pending, Slot
<1>5. connfd[t] # NoFd
  BY <1>1 DEF HeldInv, HandsOK, Threads
<1>6. OnceEach'
  <2>0. Threads' = Threads
    BY <1>1 DEF Threads, Workers
  <2> USE DEF HeldInv, OnceEach
  <2>1. \A u \in Threads : connfd'[u] # NoFd => connfd'[u] \in open'
    BY <1>1, <1>2, <1>5
  <2>2. \A i \in 1 .. waiting_requests : Pending[i] \in open'
    BY <1>1
  <2>3. \A u, v \in Threads : connfd'[u] # NoFd /\ connfd'[u] = connfd'[v] => u = v
    BY <1>1, <1>2
  <2>4. \A u \in Threads, i \in 1 .. waiting_requests : connfd'[u] # Pending[i]
    <3>1. \A i \in 1 .. waiting_requests : Pending[i] # NoFd
      BY ServerAssumption DEF SafeInv, TypeOK
    <3> QED BY <1>1, <1>2, <3>1
  <2>5. \A c \in open' : \/ \E u \in Threads : connfd'[u] = c
                         \/ \E i \in 1 .. waiting_requests : Pending[i] = c
    BY <1>1, <1>2
  <2> QED BY <1>4, <2>0, <2>1, <2>2, <2>3, <2>4, <2>5
<1> QED BY <1>3, <1>4, <1>6 DEF HeldInv

LEMMA HeldSync == ASSUME SafeInv, HeldInv, NEW t \in Threads, Sync(t) PROVE HeldInv'
<1>1. CASE Lock(t)
  <2>1. t = Main => nr_threads # 0
    BY <1>1 DEF Lock, At, HeldInv, HandsOK
  <2> QED BY <1>1, <2>1, HeldMove DEF Lock, At, Goto, init_vars
<1>2. CASE Wake(t)
  <2>1. t = Main => nr_threads # 0
    BY <1>2 DEF Wake, At, HeldInv, HandsOK
  <2> QED BY <1>2, <2>1, HeldMove DEF Wake, At, Goto, while_loop, init_vars
<1>3. CASE Unlock(t)
  <2>1. t = Main => nr_threads # 0
    BY <1>3 DEF Unlock, At, HeldInv, HandsOK
  <2> QED BY <1>3, <2>1, HeldMove DEF Unlock, At, Goto, init_vars
<1> QED BY <1>1, <1>2, <1>3 DEF Sync

LEMMA HeldTests ==
  ASSUME SafeInv, HeldInv, TestFull \/ \E w \in Workers : TestEmpty(w)
  PROVE  HeldInv'
<1>1. CASE TestFull
  <2>1. /\ pc[Main] = "test" /\ Main \in Threads /\ nr_threads # 0
        /\ UNCHANGED <<nr_threads, max_requests, queue_vars, connfd, open>>
    BY <1>1 DEF TestFull, At, HeldInv, HandsOK, Threads, init_vars
  <2>2. pc' = [pc EXCEPT ![Main] = "wait"] \/ pc' = [pc EXCEPT ![Main] = "put"]
    BY <1>1 DEF TestFull, Goto
  <2> QED BY <2>1, <2>2, HeldMove
<1>2. ASSUME NEW w \in Workers, TestEmpty(w) PROVE HeldInv'
  <2>1. /\ pc[w] = "test" /\ w \in Threads /\ w # Main
        /\ UNCHANGED <<nr_threads, max_requests, queue_vars, connfd, open>>
    BY <1>2 DEF TestEmpty, At, Threads, Workers, Main, init_vars
  <2>2. pc' = [pc EXCEPT ![w] = "wait"] \/ pc' = [pc EXCEPT ![w] = "take"]
    BY <1>2 DEF TestEmpty, Goto
  <2> QED BY <2>1, <2>2, HeldMove
<1> QED BY <1>1, <1>2

LEMMA HeldInit ==
  ASSUME SafeInv, HeldInv, CreateWorker \/ InitDone PROVE HeldInv'
<1>1. CASE InitDone
  <2>1. /\ pc[Main] = "create" /\ Main \in Threads
        /\ pc' = [pc EXCEPT ![Main] = "accept"]
        /\ UNCHANGED <<nr_threads, max_requests, queue_vars, connfd, open>>
    BY <1>1 DEF InitDone, At, Goto, Threads, init_vars
  <2> QED BY <2>1, HeldMove
<1>2. CASE CreateWorker
  <2>1. /\ created + 1 \in Threads /\ created + 1 # Main /\ pc[created + 1] = "none"
        /\ UNCHANGED <<nr_threads, max_requests, queue_vars, connfd, open>>
    BY <1>2 DEF CreateWorker, At, SafeInv, TypeOK, PlacesOK, Threads, Workers, Main
  <2>2. CASE pc' = [pc EXCEPT ![created + 1] = "lock"]
    BY <2>1, <2>2, HeldMove
  <2>3. CASE pc' = pc
    BY <2>1, <2>3 DEF HeldInv, HandsOK, RingOK, OnceEach, queue_vars, Threads,
      Workers, Pending, Slot
  <2> QED BY <1>2, <2>2, <2>3 DEF CreateWorker, Goto
<1> QED BY <1>1, <1>2

LEMMA HeldStill ==
  ASSUME HeldInv, UNCHANGED <<nr_threads, max_requests, queue_vars, pc, connfd, open>>
  PROVE  HeldInv'
  BY DEF HeldInv, HandsOK, RingOK, OnceEach, queue_vars, Threads, Workers, Pending, Slot

LEMMA HeldStep == ASSUME SafeInv, HeldInv, [Next]_vars PROVE HeldInv'
<1>1. CASE UNCHANGED vars
  BY <1>1, HeldStill DEF vars, init_vars
<1>2. CASE MainStep
  BY <1>2, HeldInit, HeldTests, HeldPut, HeldSync DEF MainStep, Threads
<1>3. CASE Accept
  BY <1>3, HeldAccept
<1>4. CASE \E w \in Workers : WorkerStep(w)
  BY <1>4, HeldTests, HeldTake, HeldSync DEF WorkerStep, Threads
<1>5. CASE \E t \in Threads : Serve(t) \/ Spurious(t) \/ Exit(t)
  <2>1. ASSUME NEW t \in Threads, Spurious(t) \/ Exit(t) PROVE HeldInv'
    BY <2>1, HeldStill DEF Spurious, Exit, init_vars
  <2> QED BY <1>5, <2>1, HeldServe
<1> QED BY <1>1, <1>2, <1>3, <1>4, <1>5 DEF Next, Ended

LEMMA HeldAlways == Spec => []HeldInv
<1>1. Init => HeldInv
  BY HeldInitially
<1>2. SafeInv /\ HeldInv /\ [Next]_vars => HeldInv'
  BY HeldStep
<1> QED BY <1>1, <1>2, SafeAlways, PTL DEF Spec

LEMMA HeldImpliesAccounted == ASSUME SafeInv, HeldInv PROVE Accounted
<1> USE DEF HeldInv, OnceEach
<1>1. waiting_requests < max_requests => end_ptr = Slot(waiting_requests + 1)
  BY DEF SafeInv, TypeOK, RingOK, Slot
<1>2. ASSUME NEW fd \in Fds PROVE Places(fd) = IF fd \in open THEN 1 ELSE 0
  <2> DEFINE T == {t \in Threads : connfd[t] = fd}
             I == {i \in 1 .. waiting_requests : Pending[i] = fd}
  <2>1. fd # NoFd
    BY ServerAssumption
  <2>2. CASE fd \notin open
    <3>1. T = {} /\ I = {}
      BY <2>1, <2>2
    <3>2. Cardinality(T) = 0 /\ Cardinality(I) = 0
      BY <3>1, FS_EmptySet
    <3> QED BY <2>2, <3>2 DEF Places
  <2>3. CASE fd \in open /\ \E t \in Threads : connfd[t] = fd
    <3>1. PICK t \in Threads : connfd[t] = fd
      BY <2>3
    <3>2. T = {t} /\ I = {}
      BY <2>1, <3>1
    <3>3. Cardinality(T) = 1 /\ Cardinality(I) = 0
      BY <3>2, FS_EmptySet, FS_Singleton
    <3> QED BY <2>3, <3>3 DEF Places
  <2>4. CASE fd \in open /\ \E i \in 1 .. waiting_requests : Pending[i] = fd
    <3>1. PICK i \in 1 .. waiting_requests : Pending[i] = fd
      BY <2>4
    <3>2. T = {} /\ I = {i}
      BY <2>1, <3>1
    <3>3. Cardinality(T) = 0 /\ Cardinality(I) = 1
      BY <3>2, FS_EmptySet, FS_Singleton
    <3> QED BY <2>4, <3>3 DEF Places
  <2> QED BY <2>2, <2>3, <2>4
<1> QED BY <1>1, <1>2 DEF Accounted

(* Every connection that was accepted and not closed is in exactly one     *)
(* place: with the main thread, in one slot of the ring, or with one       *)
(* worker; so none is lost or served twice.                                *)
THEOREM AccountedHolds == Spec => []Accounted
<1>1. SafeInv /\ HeldInv => Accounted
  BY HeldImpliesAccounted
<1> QED BY <1>1, SafeAlways, HeldAlways, PTL
(* The refinement.  The abstract variables, as state functions.            *)
AtTheDoor == IF nr_threads = 0 THEN {} ELSE InHand({Main})
BeingServed == IF nr_threads = 0 THEN InHand({Main}) ELSE InHand(Workers)

LEMMA KnownIsOpen ==
  ASSUME SafeInv, HeldInv PROVE Queue!Known \subseteq open
<1>1. AtTheDoor \subseteq open /\ BeingServed \subseteq open
  BY DEF HeldInv, OnceEach, AtTheDoor, BeingServed, InHand, Threads
<1>2. {Pending[i] : i \in 1 .. Len(Pending)} \subseteq open
  BY PendingIs DEF HeldInv, OnceEach
<1> QED BY <1>1, <1>2 DEF Queue!Known, AtTheDoor, BeingServed

(* A step that moves no connection is a stutter of the queue.              *)
LEMMA QueueStill ==
  ASSUME UNCHANGED <<nr_threads, max_requests, queue_vars, connfd>>
  PROVE  UNCHANGED Queue!vars
  BY DEF Queue!vars, InHand, Workers, Pending, Slot, queue_vars

LEMMA QueueAccept ==
  ASSUME SafeInv, HeldInv, Accept PROVE Queue!Next
<1>1. /\ pc[Main] = "accept" /\ Main \in Threads /\ Main \notin Workers
      /\ UNCHANGED <<nr_threads, max_requests, queue_vars>>
  BY DEF Accept, At, Threads, Workers, Main, init_vars
<1>2. PICK fd \in Fds \ open : connfd' = [connfd EXCEPT ![Main] = fd]
  BY DEF Accept
<1>3. /\ connfd \in [Threads -> Fds \cup {NoFd}] /\ fd # NoFd
      /\ connfd[Main] = NoFd
  BY <1>1, ServerAssumption DEF SafeInv, TypeOK, HeldInv, HandsOK
<1>4. fd \notin Queue!Known
  BY KnownIsOpen
<1>5. InHand({Main}) = {} /\ InHand({Main})' = {fd}
  BY <1>1, <1>2, <1>3 DEF InHand
<1>6. InHand(Workers)' = InHand(Workers)
  BY <1>1, <1>2, <1>3 DEF InHand, Workers, Threads
<1>7. Pending' = Pending
  BY <1>1 DEF queue_vars, Pending, Slot
<1>8. CASE nr_threads = 0
  <2>1. Queue!Direct(fd)
    BY <1>1, <1>4, <1>5, <1>7, <1>8 DEF Queue!Direct
  <2> QED BY <2>1 DEF Queue!Next
<1>9. CASE nr_threads # 0
  <2>1. Queue!Accept(fd)
    BY <1>1, <1>4, <1>5, <1>6, <1>7, <1>9 DEF Queue!Accept
  <2> QED BY <2>1 DEF Queue!Next
<1> QED BY <1>8, <1>9

LEMMA QueuePut == ASSUME SafeInv, HeldInv, Put PROVE Queue!Next
<1>1. /\ pc[Main] = "put" /\ Main \in Threads /\ Main \notin Workers
      /\ connfd' = [connfd EXCEPT ![Main] = NoFd]
      /\ UNCHANGED <<nr_threads, max_requests>>
  BY DEF Put, At, Goto, Threads, Workers, Main, init_vars
<1>2. connfd \in [Threads -> Fds \cup {NoFd}]
  BY DEF SafeInv, TypeOK
<1>3. nr_threads # 0 /\ connfd[Main] # NoFd /\ connfd[Main] \in Fds
  BY <1>1, <1>2 DEF HeldInv, HandsOK
<1>4. Pending' = Append(Pending, connfd[Main])
  BY PutAppends DEF HeldInv
<1>5. Len(Pending) < max_requests
  BY <1>1, PendingIs DEF SafeInv, PlacesOK
<1>6. InHand({Main}) = {connfd[Main]} /\ InHand({Main})' = {}
  BY <1>1, <1>2, <1>3 DEF InHand
<1>7. InHand(Workers)' = InHand(Workers)
  BY <1>1, <1>2 DEF InHand, Workers, Threads
<1>8. Queue!Enqueue(connfd[Main])
  BY <1>1, <1>3, <1>4, <1>5, <1>6, <1>7 DEF Queue!Enqueue
<1> QED BY <1>3, <1>8 DEF Queue!Next

LEMMA QueueTake == ASSUME SafeInv, HeldInv, NEW w \in Workers, Take(w) PROVE Queue!Next
<1>1. /\ pc[w] = "take" /\ w \in Threads /\ w # Main
      /\ connfd' = [connfd EXCEPT ![w] = oldest]
      /\ UNCHANGED <<nr_threads, max_requests>>
  BY DEF Take, At, Goto, Threads, Workers, Main, init_vars
<1>2. connfd \in [Threads -> Fds \cup {NoFd}] /\ open \subseteq Fds
  BY DEF SafeInv, TypeOK
<1>3. connfd[w] = NoFd
  BY <1>1 DEF HeldInv, HandsOK
<1>4. /\ Pending # <<>> /\ oldest = Head(Pending) /\ oldest = Pending[1]
      /\ Pending' = Tail(Pending)
  BY TakeRemoves DEF HeldInv
<1>5. oldest # NoFd
  <2>1. 1 \in 1 .. waiting_requests
    BY <1>4, PendingIs, EmptySeq
  <2> QED BY <1>2, <1>4, <2>1, ServerAssumption DEF HeldInv, OnceEach
<1>6. nr_threads # 0
  BY DEF Workers, SafeInv, TypeOK
<1>7. InHand({Main})' = InHand({Main})
  BY <1>1, <1>2 DEF InHand, Threads
<1>8. InHand(Workers)' = InHand(Workers) \cup {oldest}
  <2>1. Workers' = Workers /\ Workers \subseteq Threads
    BY <1>1 DEF Workers, Threads
  <2>2. \A u \in Workers : connfd'[u] = IF u = w THEN oldest ELSE connfd[u]
    BY <1>1, <1>2, <2>1
  <2>3. {connfd'[u] : u \in Workers} \ {NoFd}
          = ({connfd[u] : u \in Workers} \ {NoFd}) \cup {oldest}
    BY <1>3, <1>5, <2>2
  <2> QED BY <2>1, <2>3 DEF InHand
<1>9. Queue!Dequeue
  BY <1>1, <1>4, <1>6, <1>7, <1>8 DEF Queue!Dequeue
<1> QED BY <1>9 DEF Queue!Next

LEMMA QueueServe == ASSUME SafeInv, HeldInv, NEW t \in Threads, Serve(t) PROVE Queue!Next
<1>1. /\ pc[t] = "serve"
      /\ connfd' = [connfd EXCEPT ![t] = NoFd]
      /\ UNCHANGED <<nr_threads, max_requests, queue_vars>>
  BY DEF Serve, At, Goto, init_vars
<1>2. connfd \in [Threads -> Fds \cup {NoFd}]
  BY DEF SafeInv, TypeOK
<1>3. connfd[t] # NoFd /\ connfd[t] \in Fds
  BY <1>1, <1>2 DEF HeldInv, HandsOK, Threads
<1>4. Workers' = Workers /\ Workers \subseteq Threads /\ Main \in Threads
  BY <1>1 DEF Workers, Threads
<1>5. Pending' = Pending
  BY <1>1 DEF queue_vars, Pending, Slot
<1>6. CASE t = Main
  <2>1. nr_threads = 0
    BY <1>1, <1>6 DEF HeldInv, HandsOK
  <2>2. InHand({Main}) = {connfd[t]} /\ InHand({Main})' = {}
    BY <1>1, <1>2, <1>3, <1>6 DEF InHand
  <2>3. Queue!Finish(connfd[t])
    BY <1>1, <1>3, <1>5, <2>1, <2>2 DEF Queue!Finish
  <2> QED BY <1>3, <2>3 DEF Queue!Next
<1>7. CASE t # Main
  <2>1. t \in Workers /\ nr_threads # 0
    BY <1>7 DEF Workers, Threads, SafeInv, TypeOK
  <2>2. InHand({Main})' = InHand({Main})
    BY <1>1, <1>2, <1>4, <1>7 DEF InHand
  <2>3. \A u \in Workers : connfd'[u] = IF u = t THEN NoFd ELSE connfd[u]
    BY <1>1, <1>2, <1>4
  <2>4. \A u \in Workers : u # t => connfd[u] # connfd[t]
    BY <1>3, <1>4 DEF HeldInv, OnceEach
  <2>5. {connfd'[u] : u \in Workers} \ {NoFd}
          = ({connfd[u] : u \in Workers} \ {NoFd}) \ {connfd[t]}
    BY <2>1, <2>3, <2>4
  <2>6. InHand(Workers)' = InHand(Workers) \ {connfd[t]}
    BY <1>4, <2>5 DEF InHand
  <2>7. connfd[t] \in InHand(Workers)
    BY <1>3, <2>1 DEF InHand
  <2>8. Queue!Finish(connfd[t])
    BY <1>1, <1>5, <2>1, <2>2, <2>6, <2>7 DEF Queue!Finish
  <2> QED BY <1>3, <2>8 DEF Queue!Next
<1> QED BY <1>6, <1>7

LEMMA QueueStep ==
  ASSUME SafeInv, HeldInv, [Next]_vars PROVE [Queue!Next]_(Queue!vars)
<1> DEFINE Still == UNCHANGED <<nr_threads, max_requests, queue_vars, connfd>>
<1>1. CASE UNCHANGED vars
  BY <1>1, QueueStill DEF vars, init_vars
<1>2. ASSUME NEW t \in Threads, Sync(t) PROVE Still
  BY <1>2 DEF Sync, Lock, Wake, Unlock, init_vars
<1>3. CASE MainStep
  <2>1. CASE Put
    BY <2>1, QueuePut
  <2>2. CASE CreateWorker \/ InitDone \/ TestFull
    <3>1. Still
      BY <2>2 DEF CreateWorker, InitDone, TestFull, init_vars
    <3> QED BY <3>1, QueueStill
  <2>3. CASE Sync(Main)
    BY <2>3, <1>2, QueueStill DEF Threads
  <2> QED BY <1>3, <2>1, <2>2, <2>3 DEF MainStep
<1>4. CASE Accept
  BY <1>4, QueueAccept
<1>5. CASE \E w \in Workers : WorkerStep(w)
  <2>1. PICK w \in Workers : WorkerStep(w)
    BY <1>5
  <2>2. CASE Take(w)
    BY <2>2, QueueTake
  <2>3. CASE TestEmpty(w)
    <3>1. Still
      BY <2>3 DEF TestEmpty, init_vars
    <3> QED BY <3>1, QueueStill
  <2>4. CASE Sync(w)
    BY <2>4, <1>2, QueueStill DEF Threads
  <2> QED BY <2>1, <2>2, <2>3, <2>4 DEF WorkerStep
<1>6. CASE \E t \in Threads : Serve(t) \/ Spurious(t) \/ Exit(t)
  <2>1. PICK t \in Threads : Serve(t) \/ Spurious(t) \/ Exit(t)
    BY <1>6
  <2>2. CASE Serve(t)
    BY <2>2, QueueServe
  <2>3. CASE Spurious(t) \/ Exit(t)
    <3>1. Still
      BY <2>3 DEF Spurious, Exit, init_vars
    <3> QED BY <3>1, QueueStill
  <2> QED BY <2>1, <2>2, <2>3
<1> QED BY <1>1, <1>3, <1>4, <1>5, <1>6 DEF Next, Ended

LEMMA QueueInitially == ASSUME Init PROVE Queue!Init
<1>1. max_requests \in Nat
  BY ServerAssumption DEF Init
<1>2. Pending = <<>>
  BY <1>1, PendingIs, SafeInitially, EmptySeq DEF Init
<1>3. InHand({Main}) = {} /\ InHand(Workers) = {}
  BY DEF Init, InHand, Threads
<1> QED BY <1>1, <1>2, <1>3 DEF Queue!Init

(* The ring, the mutex and the two condition variables of server_thread.c  *)
(* are a bounded FIFO queue: a connection goes from the main thread        *)
(* through the queue, in order, to the one thread that serves it.          *)
THEOREM ServerImplementsQueue == Spec => ImplementsQueue
<1>1. Init => Queue!Init
  BY QueueInitially
<1>2. SafeInv /\ HeldInv /\ [Next]_vars => [Queue!Next]_(Queue!vars)
  BY QueueStep
<1> QED BY <1>1, <1>2, SafeAlways, HeldAlways, PTL DEF Spec, ImplementsQueue, Queue!Spec
=============================================================================
