------------------------------- MODULE LabTwo -------------------------------
(***************************************************************************)
(* The cooperative threads handed in for lab 2,                            *)
(* os-165/threads/thread.c: no timer, no current thread but the slot that  *)
(* says running, and a search for a ready thread that starts at slot 0.    *)
(* The program above the library is any sequence of calls.                 *)
(***************************************************************************)
EXTENDS Integers

CONSTANT MaxThreads   \* THREAD_MAX_THREADS

VARIABLES
  thread_index,       \* status of every slot of the thread table
  setcontext_called,
  on,                 \* the thread whose stack the processor is on
  at,                 \* where each thread's stack is in the code
  next,               \* ready_thread or want_tid of the switch in progress
  outcome             \* "live", or how the process ended

vars == <<thread_index, setcontext_called, on, at, next, outcome>>

Tid == 0 .. MaxThreads - 1
NoTid == -1
At == {"none", "stub", "user", "yield"}

-----------------------------------------------------------------------------
(* Every search of the table takes the lowest slot.                        *)
Lowest(status, t) ==
  /\ thread_index[t] = status
  /\ \A u \in Tid : thread_index[u] = status => t <= u

tid_generator(t) == Lowest("NULL", t)
find_running(t) == Lowest("running", t)
find_not_null(t) == Lowest("ready", t) \/ Lowest("killed", t)
find_ready(t) == Lowest("ready", t)
NoneReady == \A t \in Tid : thread_index[t] # "ready"

free_killed == [t \in Tid |-> IF thread_index[t] = "killed" THEN "NULL"
                              ELSE thread_index[t]]

-----------------------------------------------------------------------------
Init ==                                                     \* thread_init
  /\ thread_index = [t \in Tid |-> IF t = 0 THEN "running" ELSE "NULL"]
  /\ setcontext_called = [t \in Tid |-> FALSE]
  /\ on = 0
  /\ at = [t \in Tid |-> IF t = 0 THEN "user" ELSE "none"]
  /\ next = NoTid
  /\ outcome = "live"

Running(place) == outcome = "live" /\ at[on] = place

Stop(how) ==
  /\ outcome' = how
  /\ UNCHANGED <<thread_index, setcontext_called, on, at, next>>

-----------------------------------------------------------------------------
(* The effect of each call, without the mask that bak_thread.c adds.       *)

EnterStub ==
  /\ Running("stub")
  /\ at' = [at EXCEPT ![on] = "user"]
  /\ UNCHANGED <<thread_index, setcontext_called, on, next, outcome>>

flag_kept(t) == setcontext_called
flag_cleared(t) == [setcontext_called EXCEPT ![t] = FALSE]

Create(t, caller) ==
  /\ Running("user") /\ tid_generator(t)
  /\ thread_index' = [thread_index EXCEPT ![t] = "ready"]
  /\ setcontext_called' = flag_cleared(t)
  /\ at' = [at EXCEPT ![t] = "stub", ![on] = caller]
  /\ UNCHANGED <<on, next, outcome>>

(* thread_yield up to its getcontext: the thread to run is chosen.         *)
Choose(t) ==
  /\ at' = [at EXCEPT ![on] = "yield"]
  /\ next' = t
  /\ UNCHANGED <<thread_index, setcontext_called, on, outcome>>

YieldAny(t) == Running("user") /\ find_ready(t) /\ Choose(t)
YieldTid(t) ==
  /\ Running("user")
  /\ thread_index[t] # "NULL" /\ ~find_running(t)
  /\ Choose(t)

not_requeued == free_killed
requeued == [free_killed EXCEPT ![on] = "ready"]

(* getcontext returns for the first time.                                  *)
YieldSwitch ==
  /\ Running("yield") /\ ~setcontext_called[on]
  /\ thread_index[0] # "killed" /\ thread_index[next] # "killed"
  /\ setcontext_called' = [setcontext_called EXCEPT ![on] = TRUE]
  /\ thread_index' = [requeued EXCEPT ![next] = "running"]
  /\ on' = next
  /\ next' = NoTid
  /\ UNCHANGED <<at, outcome>>

(* It returns again when some thread has switched back.                    *)
YieldReturn(to) ==
  /\ Running("yield") /\ setcontext_called[on]
  /\ thread_index[0] # "killed"
  /\ setcontext_called' = flag_cleared(on)
  /\ thread_index' = free_killed
  /\ at' = [at EXCEPT ![on] = to]
  /\ next' = NoTid
  /\ UNCHANGED <<on, outcome>>

(* free(&dummy), or the thread asked for was freed by free_killed.         *)
YieldFault ==
  /\ Running("yield")
  /\ IF thread_index[0] = "killed" THEN Stop("free_main")
     ELSE /\ ~setcontext_called[on] /\ thread_index[next] = "killed"
          /\ Stop("yield_null")

(* With no ready thread the call returns THREAD_NONE and changes nothing.  *)
ThreadExit ==
  /\ Running("user")
  /\ \E t \in Tid :
       /\ find_ready(t)
       /\ thread_index' = [thread_index EXCEPT ![on] = "killed", ![t] = "running"]
       /\ on' = t
  /\ at' = [at EXCEPT ![on] = "none"]
  /\ UNCHANGED <<setcontext_called, next, outcome>>

StubExit == Running("user") /\ on # 0 /\ NoneReady /\ Stop("exit")

Kill(t) ==
  /\ Running("user")
  /\ thread_index[t] # "NULL" /\ ~find_running(t)
  /\ IF t = 0 THEN Stop("free_main")
     ELSE /\ thread_index' = [thread_index EXCEPT ![t] = "NULL"]
          /\ at' = [at EXCEPT ![t] = "none"]
          /\ UNCHANGED <<setcontext_called, on, next, outcome>>

(* Wait queues, locks and condition variables are left for lab 3: TBD().   *)
Unimplemented == Running("user") /\ Stop("tbd")

Ended == outcome # "live" /\ UNCHANGED vars

Next ==
  \/ EnterStub \/ YieldSwitch \/ YieldReturn("user") \/ YieldFault
  \/ ThreadExit \/ StubExit \/ Unimplemented \/ Ended
  \/ \E t \in Tid : Create(t, "user") \/ YieldAny(t) \/ YieldTid(t) \/ Kill(t)

Spec == Init /\ [][Next]_vars
-----------------------------------------------------------------------------
(* A saved context resumes where it was saved, and a thread created in the *)
(* slot of one that was killed while switched out starts with a clear flag.*)
Contexts ==
  outcome = "live" =>
    /\ \A t \in Tid \ {on} :
         thread_index[t] = "ready" =>
           \/ at[t] = "stub" /\ ~setcontext_called[t]
           \/ at[t] = "yield" /\ setcontext_called[t]
    /\ at[on] # "yield" => ~setcontext_called[on]

(* What find_running and thread_id find is the thread whose stack the      *)
(* processor is on, and no other: the library has no other record of it.   *)
RunningIsCaller ==
  outcome = "live" => \A t \in Tid : thread_index[t] = "running" <=> t = on

(* The same scheduler as that of the final labs, though thread_yield goes  *)
(* to the lowest ready thread and not to the next.                         *)
SchedulerState ==
  [t \in Tid |->
     CASE t = on -> "running"
       [] t # on /\ thread_index[t] = "ready" -> "ready"
       [] OTHER -> "none"]
Sched == INSTANCE Scheduler WITH Main <- 0, state <- SchedulerState, current <- on
ImplementsScheduler == Sched!Spec
=============================================================================
