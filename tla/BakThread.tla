----------------------------- MODULE BakThread -----------------------------
(***************************************************************************)
(* threads/bak_thread.c, the step between the threads of lab 2 and those   *)
(* of threads/thread.c: the calls of LabTwo, each with interrupts off, and *)
(* the timer.  Its thread_exit lacks the braces of its first test, and so  *)
(* always returns THREAD_FAILED, with interrupts off: no thread is ever    *)
(* marked killed, and free_killed has nothing to free.                     *)
(***************************************************************************)
EXTENDS LabTwo

VARIABLES
  enabled,    \* is SIGALRM unblocked?
  saved       \* what each thread keeps on its stack

bak_vars == <<vars, enabled, saved>>

(* prev: prev_interrupt_state of the call in progress; new_place: that of  *)
(* thread_create; back: where the timer came in; wants: the mask that the  *)
(* thread's own code last set, or that thread_exit left it with.           *)
Unsaved == [prev |-> FALSE, new_place |-> NoTid, back |-> "user", wants |-> TRUE]

BakInit ==
  /\ Init
  /\ enabled = TRUE
  /\ saved = [t \in Tid |-> Unsaved]

BakStub ==
  /\ EnterStub
  /\ enabled' = TRUE
  /\ UNCHANGED saved

(* thread_create up to its last interrupts_set, and its last line.         *)
BakCreate(t) ==
  /\ Create(t, "create_ret")
  /\ saved' = [saved EXCEPT ![t] = Unsaved, ![on].new_place = t]
  /\ UNCHANGED enabled

BakCreateReturn ==
  /\ Running("create_ret")
  /\ thread_index[saved[on].new_place] # "NULL"
  /\ at' = [at EXCEPT ![on] = "user"]
  /\ saved' = [saved EXCEPT ![on].new_place = NoTid]
  /\ UNCHANGED <<thread_index, setcontext_called, on, next, outcome, enabled>>

BakCreateFault ==
  /\ Running("create_ret")
  /\ thread_index[saved[on].new_place] = "NULL"
  /\ Stop("create_null")
  /\ UNCHANGED <<enabled, saved>>

(* prev_interrupt_state = interrupts_set(0), before the getcontext.        *)
Mask(back) ==
  /\ enabled' = FALSE
  /\ saved' = [saved EXCEPT ![on].prev = enabled, ![on].back = back]

BakYield(t) == (YieldAny(t) \/ YieldTid(t)) /\ Mask("user")

(* interrupt_handler: thread_yield(THREAD_ANY) wherever SIGALRM is         *)
(* unblocked.                                                              *)
Preempt(t) ==
  /\ outcome = "live" /\ enabled
  /\ at[on] \in {"user", "create_ret"}
  /\ find_ready(t) /\ Choose(t)
  /\ Mask(at[on])

BakSwitch == YieldSwitch /\ UNCHANGED <<enabled, saved>>

unmasked == TRUE
prev_interrupt_state == saved[on].prev
BakReturn ==
  /\ YieldReturn(saved[on].back)
  /\ enabled' = prev_interrupt_state
  /\ UNCHANGED saved

(* thread_exit, called by the program; when thread_stub calls it, its      *)
(* assert(ret == THREAD_NONE) ends the process.                            *)
BakExit ==
  /\ Running("user")
  /\ enabled' = FALSE
  /\ saved' = [saved EXCEPT ![on].wants = FALSE]
  /\ UNCHANGED vars

BakStubExit ==
  /\ Running("user") /\ on # 0
  /\ Stop("stub_assert")
  /\ enabled' = FALSE
  /\ UNCHANGED saved

BakKill(t) == Kill(t) /\ UNCHANGED <<enabled, saved>>
BakUnimplemented == Unimplemented /\ UNCHANGED <<enabled, saved>>

InterruptsSet ==
  /\ Running("user")
  /\ enabled' = ~enabled
  /\ saved' = [saved EXCEPT ![on].wants = ~enabled]
  /\ UNCHANGED vars

BakEnded == outcome # "live" /\ UNCHANGED bak_vars

BakNext ==
  \/ BakStub \/ BakCreateReturn \/ BakCreateFault \/ BakSwitch \/ BakReturn
  \/ BakExit \/ BakStubExit \/ BakUnimplemented \/ InterruptsSet
  \/ BakEnded
  \/ \E t \in Tid : BakCreate(t) \/ BakYield(t) \/ Preempt(t) \/ BakKill(t)

BakSpec == BakInit /\ [][BakNext]_bak_vars
-----------------------------------------------------------------------------
(* However the timer and the yields interleave, a thread's code goes on    *)
(* with the mask that it was switched out with.                            *)
MaskRestored ==
  outcome = "live" /\ at[on] \in {"user", "create_ret"} => enabled = saved[on].wants
=============================================================================
