----------------------------- MODULE MCThreads -----------------------------
(***************************************************************************)
(* Threads on a small table, for TLC, and what threads/thread.h says of    *)
(* calls outside the discipline of Threads: each promise is checked alone, *)
(* for a program that breaks one rule of the discipline only.              *)
(***************************************************************************)
EXTENDS Threads

CONSTANT MaxNodes    \* bound on the nodes of a wait queue

BoundedQueues == \A q \in Queues : Len(queue[q]) <= MaxNodes

-----------------------------------------------------------------------------
(* thread_id, called with interrupts enabled: "return the thread           *)
(* identifier of the currently running thread" (thread.h:37), also when a  *)
(* slot that its scan has tested is freed before it is read.               *)
ThreadIdReturnsTid == outcome # "id_null"

(* thread_create, called with interrupts enabled: "Upon success, return    *)
(* the thread identifier" (thread.h:41), also when the new thread has run, *)
(* ended and been freed before the call returns.                           *)
CreateReturnsTid == outcome # "create_null"

(* thread_yield to a thread that has exited: "THREAD_INVALID: identifier   *)
(* tid does not correspond to a valid thread" (thread.h:59).               *)
YieldToExitedIsInvalid == outcome # "yield_null"

(* thread_kill of a sleeping thread: "tid can be the identifier of any     *)
(* available thread" (thread.h:79); a later wakeup is not to fail for it.  *)
KillOfSleeperIsSafe == outcome # "wakeup_null"
=============================================================================
