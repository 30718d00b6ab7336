----------------------------- MODULE RegThread -----------------------------
(***************************************************************************)
(* threads/thread_reg_change.c, the step before the threads of lab 2: no   *)
(* setcontext_called.  thread_yield moves the frame, stack and program     *)
(* registers of the context it saves to those of its caller, so that a     *)
(* switch is one step and the thread goes on behind its thread_yield.      *)
(***************************************************************************)
EXTENDS LabTwo

VARIABLE main_block   \* is slot 0 still the control block of thread_init?

reg_vars == <<vars, main_block>>

RegInit == Init /\ main_block = TRUE

RegStub == EnterStub /\ UNCHANGED main_block
RegCreate(t) == Create(t, "user") /\ UNCHANGED main_block

(* free_killed, the choice, and setcontext.                                *)
not_marked == thread_index
marked_ready == [free_killed EXCEPT ![on] = "ready"]
RegSwitch(t) ==
  /\ thread_index' = [marked_ready EXCEPT ![t] = "running"]
  /\ on' = t
  /\ UNCHANGED <<setcontext_called, at, next, outcome, main_block>>

RegYieldAny(t) == Running("user") /\ find_ready(t) /\ RegSwitch(t)
RegYieldTid(t) ==
  /\ Running("user")
  /\ thread_index[t] # "NULL" /\ ~find_running(t)
  /\ RegSwitch(t)

(* free.  The stack pointer in the block of thread_init was never set.     *)
Gone(t) == main_block' = (main_block /\ t # 0)
FreeFault(t) == t = 0 /\ main_block /\ Stop("free_main")

(* thread_exit, then thread_yield of a caller whom find_running no longer  *)
(* finds: free_killed frees the stack the processor is on.                 *)
RegExit ==
  /\ Running("user")
  /\ \E t \in Tid :
       /\ find_ready(t)
       /\ thread_index' = [thread_index EXCEPT ![on] = "NULL", ![t] = "running"]
       /\ on' = t
  /\ at' = [at EXCEPT ![on] = "none"]
  /\ Gone(on)
  /\ UNCHANGED <<setcontext_called, next, outcome>>

RegExitFault ==
  /\ Running("user") /\ ~NoneReady
  /\ FreeFault(on) \/ Stop("stack_freed")
  /\ UNCHANGED main_block

\* Unlike the other libraries', its slot 0 is free again once the main thread
\* has exited, and a created thread can end there.
RegStubExit ==
  /\ Running("user") /\ NoneReady
  /\ on # 0 \/ ~main_block
  /\ Stop("exit")
  /\ UNCHANGED main_block

RegKill(t) ==
  /\ Running("user")
  /\ thread_index[t] # "NULL" /\ ~find_running(t)
  /\ \/ FreeFault(t) /\ UNCHANGED main_block
     \/ /\ thread_index' = [thread_index EXCEPT ![t] = "NULL"]
        /\ at' = [at EXCEPT ![t] = "none"]
        /\ Gone(t)
        /\ UNCHANGED <<setcontext_called, on, next, outcome>>

RegUnimplemented == Unimplemented /\ UNCHANGED main_block
RegEnded == outcome # "live" /\ UNCHANGED reg_vars

RegNext ==
  \/ RegStub \/ RegExit \/ RegExitFault \/ RegStubExit \/ RegUnimplemented
  \/ RegEnded
  \/ \E t \in Tid :
       RegCreate(t) \/ RegYieldAny(t) \/ RegYieldTid(t) \/ RegKill(t)

RegSpec == RegInit /\ [][RegNext]_reg_vars
-----------------------------------------------------------------------------
(* No thread is left behind: whoever has a stack to go on with, and only   *)
(* that one, is in the table, however the switches, exits and kills fall.  *)
NoneLeftBehind ==
  outcome = "live" =>
    \A t \in Tid \ {on} : thread_index[t] = "ready" <=> at[t] \in {"stub", "user"}
=============================================================================
