------------------------------- MODULE Server -------------------------------
(***************************************************************************)
(* The web server's thread pool, webserver/server_thread.c: the main       *)
(* thread accepts connections (server.c) and puts their descriptors in a   *)
(* ring of max_requests slots, from which the worker threads take them.    *)
(* One mutex, two condition variables, signalled only when the ring stops  *)
(* being empty or full.  Serving a connection (request.c) is one step.     *)
(***************************************************************************)
EXTENDS Integers, FiniteSets

CONSTANTS
  Fds,            \* descriptors accept can return
  ThreadArgs,     \* values of nr_threads and max_requests on the command line
  RequestArgs,
  MayFail,        \* workers whose pthread_create may fail
  SpuriousWakeups, Fatal   \* does a wait return unsignalled, a request
                           \* end the process (unix_error)?

NoFd == "none"
ASSUME ServerAssumption ==
  /\ NoFd \notin Fds
  /\ ThreadArgs \subseteq Nat /\ RequestArgs \subseteq Nat
  /\ MayFail \subseteq Nat /\ SpuriousWakeups \in BOOLEAN /\ Fatal \in BOOLEAN

VARIABLES
  nr_threads, max_requests, waiting_requests, wait_array, start_ptr, end_ptr,
  lock, produce_cv, consume_cv,   \* the mutex's holder, each cv's waiters
  created,                        \* workers server_init has tried to create
  pc, connfd,                     \* of every thread
  open,                           \* descriptors accepted and not yet closed
  up                              \* is the process alive?

queue_vars == <<waiting_requests, wait_array, start_ptr, end_ptr>>
sync_vars == <<lock, produce_cv, consume_cv>>
init_vars == <<nr_threads, max_requests, created>>
vars == <<init_vars, queue_vars, sync_vars, pc, connfd, open, up>>

Main == 0
Workers == 1 .. nr_threads
Threads == {Main} \cup Workers
Slots == 0 .. max_requests - 1
Free == -1
Cvs == produce_cv \cup consume_cv

Pc == {"none", "create", "accept", "lock", "test", "wait", "put", "take",
       "unlock", "serve"}
Alive == {w \in Workers : pc[w] # "none"}

Init ==
  /\ nr_threads \in ThreadArgs /\ max_requests \in RequestArgs
  /\ waiting_requests = 0 /\ start_ptr = 0 /\ end_ptr = 0
  /\ wait_array = [i \in Slots |-> NoFd]
  /\ lock = Free /\ produce_cv = {} /\ consume_cv = {}
  /\ created = 0
  /\ pc = [t \in Threads |-> IF t = Main THEN "create" ELSE "none"]
  /\ connfd = [t \in Threads |-> NoFd]
  /\ open = {}
  /\ up = TRUE

At(t, l) == up /\ pc[t] = l
Goto(t, l) == pc' = [pc EXCEPT ![t] = l]

-----------------------------------------------------------------------------
(* server_init; the result of pthread_create is not looked at.             *)
CreateWorker ==
  /\ At(Main, "create") /\ created < nr_threads
  /\ created' = created + 1
  /\ \/ Goto(created + 1, "lock")
     \/ created + 1 \in MayFail /\ UNCHANGED pc
  /\ UNCHANGED <<nr_threads, max_requests, queue_vars, sync_vars, connfd, open, up>>

InitDone ==
  /\ At(Main, "create") /\ created = nr_threads
  /\ Goto(Main, "accept")
  /\ UNCHANGED <<init_vars, queue_vars, sync_vars, connfd, open, up>>

(* accept, in main, and the start of server_request.                       *)
Accept ==
  /\ At(Main, "accept")
  /\ \E fd \in Fds \ open :
       /\ open' = open \cup {fd}
       /\ connfd' = [connfd EXCEPT ![Main] = fd]
  /\ Goto(Main, IF nr_threads = 0 THEN "serve" ELSE "lock")
  /\ UNCHANGED <<init_vars, queue_vars, sync_vars, up>>

-----------------------------------------------------------------------------
(* The mutex and the condition variables.                                  *)

Lock(t) ==
  /\ At(t, "lock") /\ lock = Free
  /\ lock' = t
  /\ Goto(t, "test")
  /\ UNCHANGED <<init_vars, queue_vars, produce_cv, consume_cv, connfd, open, up>>

(* pthread_cond_wait returns, with the mutex, to the test of the loop.     *)
if_not_while(t) == IF t = Main THEN "put" ELSE "take"
while_loop(t) == "test"
Wake(t) ==
  /\ At(t, "wait") /\ t \notin Cvs /\ lock = Free
  /\ lock' = t
  /\ Goto(t, while_loop(t))
  /\ UNCHANGED <<init_vars, queue_vars, produce_cv, consume_cv, connfd, open, up>>

Spurious(t) ==
  /\ SpuriousWakeups /\ up /\ t \in Cvs
  /\ produce_cv' = produce_cv \ {t}
  /\ consume_cv' = consume_cv \ {t}
  /\ UNCHANGED <<init_vars, queue_vars, lock, pc, connfd, open, up>>

Unlock(t) ==
  /\ At(t, "unlock")
  /\ lock' = Free
  /\ Goto(t, IF t = Main THEN "accept" ELSE "serve")
  /\ UNCHANGED <<init_vars, queue_vars, produce_cv, consume_cv, connfd, open, up>>

(* pthread_cond_signal if cond: one waiter, when there is any, leaves.     *)
Signal(cond, cv) ==
  IF cond /\ cv # {} THEN \E t \in cv : cv' = cv \ {t} ELSE UNCHANGED cv

-----------------------------------------------------------------------------
ring_full == waiting_requests = max_requests

next_unwrapped(i) == i + 1
next_slot(i) == (i + 1) % max_requests

(* server_request: the loop, and the rest.                                 *)
TestFull ==
  /\ At(Main, "test")
  /\ IF ring_full
     THEN /\ produce_cv' = produce_cv \cup {Main}
          /\ lock' = Free
          /\ Goto(Main, "wait")
     ELSE Goto(Main, "put") /\ UNCHANGED <<lock, produce_cv>>
  /\ UNCHANGED <<init_vars, queue_vars, consume_cv, connfd, open, up>>

unsignalled == FALSE
was_empty == waiting_requests = 0
Put ==
  /\ At(Main, "put")
  /\ Signal(was_empty, consume_cv)
  /\ waiting_requests' = waiting_requests + 1
  /\ wait_array' = [wait_array EXCEPT ![end_ptr] = connfd[Main]]
  /\ end_ptr' = next_slot(end_ptr)
  /\ connfd' = [connfd EXCEPT ![Main] = NoFd]
  /\ Goto(Main, "unlock")
  /\ UNCHANGED <<init_vars, start_ptr, lock, produce_cv, open, up>>

-----------------------------------------------------------------------------
(* request_stub: the loop, and the rest.                                   *)
TestEmpty(w) ==
  /\ At(w, "test")
  /\ IF waiting_requests = 0
     THEN /\ consume_cv' = consume_cv \cup {w}
          /\ lock' = Free
          /\ Goto(w, "wait")
     ELSE Goto(w, "take") /\ UNCHANGED <<lock, consume_cv>>
  /\ UNCHANGED <<init_vars, queue_vars, produce_cv, connfd, open, up>>

signal_when_drained == waiting_requests = 1
was_full == waiting_requests = max_requests

advanced_first == wait_array[next_slot(start_ptr)]
oldest == wait_array[start_ptr]
Take(w) ==
  /\ At(w, "take")
  /\ Signal(was_full, produce_cv)
  /\ waiting_requests' = waiting_requests - 1
  /\ connfd' = [connfd EXCEPT ![w] = oldest]
  /\ start_ptr' = next_slot(start_ptr)
  /\ Goto(w, "unlock")
  /\ UNCHANGED <<init_vars, wait_array, end_ptr, lock, consume_cv, open, up>>

-----------------------------------------------------------------------------
(* do_server_request: it closes the connection, whatever became of it.     *)
Serve(t) ==
  /\ At(t, "serve")
  /\ open' = open \ {connfd[t]}
  /\ connfd' = [connfd EXCEPT ![t] = NoFd]
  /\ Goto(t, IF t = Main THEN "accept" ELSE "lock")
  /\ UNCHANGED <<init_vars, queue_vars, sync_vars, up>>

(* exit(1) on an I/O error of any one connection.                          *)
Exit(t) ==
  /\ Fatal /\ At(t, "serve")
  /\ up' = FALSE
  /\ UNCHANGED <<init_vars, queue_vars, sync_vars, pc, connfd, open>>

Ended == ~up /\ UNCHANGED vars

Sync(t) == Lock(t) \/ Wake(t) \/ Unlock(t)
MainStep == CreateWorker \/ InitDone \/ TestFull \/ Put \/ Sync(Main)
WorkerStep(w) == TestEmpty(w) \/ Take(w) \/ Sync(w)

Next ==
  \/ MainStep \/ Accept
  \/ \E w \in Workers : WorkerStep(w)
  \/ \E t \in Threads : Serve(t) \/ Spurious(t) \/ Exit(t)
  \/ Ended

Spec == Init /\ [][Next]_vars
-----------------------------------------------------------------------------
TypeOK ==
  /\ nr_threads \in Nat /\ max_requests \in Nat /\ created \in 0 .. nr_threads
  /\ waiting_requests \in 0 .. max_requests
  /\ wait_array \in [Slots -> Fds \cup {NoFd}]
  /\ {start_ptr, end_ptr} \subseteq Slots \cup {0}
  /\ lock \in Threads \cup {Free}
  /\ produce_cv \subseteq {Main} /\ consume_cv \subseteq Workers
  /\ pc \in [Threads -> Pc]
  /\ connfd \in [Threads -> Fds \cup {NoFd}]
  /\ open \subseteq Fds
  /\ up \in BOOLEAN

(* The slots between start_ptr and end_ptr, oldest first.                  *)
Slot(i) == (start_ptr + i - 1) % max_requests
Pending == [i \in 1 .. waiting_requests |-> wait_array[Slot(i)]]

(* Every open connection is in exactly one place: the main thread's hands, *)
(* one slot of the ring, or one worker's.  None is lost, none is served    *)
(* twice, and the ring's count and pointers agree.                         *)
Places(fd) ==
  Cardinality({t \in Threads : connfd[t] = fd})
    + Cardinality({i \in 1 .. waiting_requests : Pending[i] = fd})
Accounted ==
  /\ \A fd \in Fds : Places(fd) = IF fd \in open THEN 1 ELSE 0
  /\ waiting_requests < max_requests => end_ptr = Slot(waiting_requests + 1)

(* A request in the queue never waits for workers that all sleep: the one  *)
(* signal sent when the ring stops being empty is enough, whatever is put, *)
(* taken or spuriously woken in between.                                   *)
WorkerAwake ==
  waiting_requests > 0 /\ Alive # {} => Alive \ consume_cv # {}

(* The main thread sleeps on a full ring only.                             *)
ProducerWaitsOnFull ==
  Main \in produce_cv => waiting_requests = max_requests

(* The bounded FIFO queue of connections.                                  *)
InHand(T) == {connfd[t] : t \in T} \ {NoFd}
Queue == INSTANCE RequestQueue WITH
           bound <- max_requests, fifo <- Pending,
           arriving <- IF nr_threads = 0 THEN {} ELSE InHand({Main}),
           serving <- IF nr_threads = 0 THEN InHand({Main}) ELSE InHand(Workers)
ImplementsQueue == Queue!Spec
=============================================================================
