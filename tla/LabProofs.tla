----------------------------- MODULE LabProofs -----------------------------
(***************************************************************************)
(* The lab 2 library and the steps before and after it, for any number of  *)
(* slots: what a switched-out thread's slot, flag and saved place have to  *)
(* do with one another, the mask it goes on with, and the scheduler that   *)
(* all three implement.                                                    *)
(***************************************************************************)
EXTENDS BakThread, RegThread, TLAPS

Status == {"NULL", "ready", "running", "killed"}
Code == {"user", "create_ret"}       \* the program's own code, and the
                                     \* unmasked end of thread_create

(* A thread that can be switched to: it starts in thread_stub, or goes on  *)
(* at the second return of its getcontext.                                 *)
ParkedOK(t) ==
  /\ thread_index[t] # "running"
  /\ thread_index[t] = "ready" =>
       \/ at[t] = "stub" /\ ~setcontext_called[t]
       \/ at[t] = "yield" /\ setcontext_called[t]

(* The thread that runs; what it has chosen is still in the table.         *)
CallerOK ==
  /\ thread_index[on] = "running"
  /\ at[on] # "yield" => ~setcontext_called[on]
  /\ at[on] = "yield" /\ ~setcontext_called[on] =>
       next \in Tid \ {on} /\ thread_index[next] \in {"ready", "killed"}

LabTypeOK ==
  /\ thread_index \in [Tid -> Status]
  /\ setcontext_called \in [Tid -> BOOLEAN]
  /\ on \in Tid
  /\ at \in [Tid -> At \cup Code]
  /\ next \in Tid \cup {NoTid}

Inv ==
  /\ LabTypeOK
  /\ outcome = "live" => CallerOK /\ \A t \in Tid \ {on} : ParkedOK(t)

LEMMA InitInv == ASSUME MaxThreads \in Nat \ {0}, Init PROVE Inv
<1>1. 0 \in Tid
  BY DEF Tid
<1> QED
  BY <1>1 DEF Init, Inv, LabTypeOK, CallerOK, ParkedOK, Status, Code, At

(* In the table there is one running thread, and find_running finds it.    *)
LEMMA FindRunning ==
  ASSUME Inv, outcome = "live"
  PROVE  /\ on \in Tid
         /\ \A t \in Tid : thread_index[t] = "running" <=> t = on
         /\ \A t \in Tid : find_running(t) => t = on
         /\ \A t \in Tid : thread_index[t] # "NULL" /\ ~find_running(t)
                             => t # on /\ thread_index[t] \in {"ready", "killed"}
<1>1. on \in Tid /\ \A t \in Tid : thread_index[t] = "running" <=> t = on
  BY DEF Inv, LabTypeOK, CallerOK, ParkedOK
<1>2. find_running(on)
  BY <1>1 DEF find_running, Lowest, Tid
<1> QED
  BY <1>1, <1>2 DEF Inv, LabTypeOK, Status, find_running, Lowest

-----------------------------------------------------------------------------
(* A step that ends the process, and one that leaves the library alone.    *)
LEMMA StopKeeps ==
  ASSUME Inv, NEW how, how # "live", Stop(how)
  PROVE  Inv' /\ UNCHANGED Sched!vars
BY DEF Inv, LabTypeOK, Stop, Sched!vars, SchedulerState

LEMMA StutterKeeps == ASSUME Inv, UNCHANGED vars PROVE Inv' /\ UNCHANGED Sched!vars
BY DEF vars, Inv, LabTypeOK, CallerOK, ParkedOK, Sched!vars, SchedulerState

(* A step between two places in the code of the caller.                    *)
LEMMA MoveKeeps ==
  ASSUME Inv, outcome = "live", at[on] # "yield", NEW to \in Code,
         at' = [at EXCEPT ![on] = to],
         UNCHANGED <<thread_index, setcontext_called, on, next, outcome>>
  PROVE  Inv' /\ UNCHANGED Sched!vars
<1>1. /\ \A t \in Tid \ {on} : at'[t] = at[t]
      /\ at'[on] # "yield" /\ at' \in [Tid -> At \cup Code]
  BY DEF Inv, LabTypeOK, Code
<1> QED
  BY <1>1 DEF Inv, LabTypeOK, CallerOK, ParkedOK, Sched!vars, SchedulerState

(* thread_create: the new thread finds its flag clear.                     *)
LEMMA CreateKeeps ==
  ASSUME Inv, NEW t \in Tid, NEW caller \in Code, Create(t, caller)
  PROVE  Inv' /\ Sched!Spawn(t)
<1>1. /\ outcome = "live" /\ at[on] = "user" /\ thread_index[t] = "NULL"
      /\ on \in Tid /\ t # on /\ on' = on /\ next' = next /\ outcome' = outcome
  BY DEF Create, Running, tid_generator, Lowest, Inv, LabTypeOK, CallerOK
<1>2. /\ at'[t] = "stub" /\ at'[on] = caller
      /\ \A u \in Tid \ {t, on} : at'[u] = at[u]
      /\ thread_index'[t] = "ready" /\ ~setcontext_called'[t]
      /\ \A u \in Tid \ {t} : /\ thread_index'[u] = thread_index[u]
                              /\ setcontext_called'[u] = setcontext_called[u]
  BY <1>1 DEF Create, flag_cleared, Inv, LabTypeOK
<1>3. LabTypeOK'
  BY <1>1 DEF Create, flag_cleared, Inv, LabTypeOK, Status, At
<1>4. CallerOK' /\ \A u \in Tid \ {on'} : ParkedOK(u)'
  BY <1>1, <1>2 DEF Inv, CallerOK, ParkedOK, Code
<1>5. Sched!Spawn(t)
  <2>1. SchedulerState[t] = "none"
    BY <1>1 DEF SchedulerState
  <2>2. SchedulerState' = [SchedulerState EXCEPT ![t] = "ready"]
    BY <1>1, <1>2 DEF SchedulerState
  <2> QED
    BY <1>1, <2>1, <2>2 DEF Sched!Spawn
<1> QED
  BY <1>3, <1>4, <1>5 DEF Inv

(* thread_yield up to its getcontext.                                      *)
LEMMA ChooseKeeps ==
  ASSUME Inv, outcome = "live", at[on] \in Code, NEW t \in Tid \ {on},
         thread_index[t] \in {"ready", "killed"}, Choose(t)
  PROVE  Inv' /\ UNCHANGED Sched!vars
<1>1. /\ \A u \in Tid \ {on} : at'[u] = at[u]
      /\ at' \in [Tid -> At \cup Code] /\ at'[on] = "yield"
      /\ UNCHANGED <<thread_index, setcontext_called, on, outcome>> /\ next' = t
  BY DEF Choose, Inv, LabTypeOK, At
<1> QED
  BY <1>1 DEF Inv, LabTypeOK, CallerOK, ParkedOK, Sched!vars, SchedulerState, Code

(* thread_yield(THREAD_ANY) and thread_yield(tid) choose another thread.   *)
LEMMA YieldChooses ==
  ASSUME Inv, outcome = "live", NEW t \in Tid,
         find_ready(t) \/ (thread_index[t] # "NULL" /\ ~find_running(t))
  PROVE  t # on /\ thread_index[t] \in {"ready", "killed"}
BY FindRunning DEF find_ready, Lowest

(* The switch goes to a ready thread: the other kind has been freed.       *)
LEMMA SwitchKeeps == ASSUME Inv, YieldSwitch PROVE Inv' /\ Sched!Dispatch(next, "ready")
<1>1. /\ outcome = "live" /\ outcome' = outcome /\ at' = at /\ at[on] = "yield"
      /\ on \in Tid /\ next \in Tid \ {on} /\ thread_index[next] = "ready"
      /\ thread_index[on] = "running" /\ on' = next /\ next' = NoTid
      /\ \A t \in Tid \ {on} : ParkedOK(t)
  BY DEF YieldSwitch, Running, Inv, LabTypeOK, CallerOK
<1>2. /\ thread_index'[next] = "running" /\ thread_index'[on] = "ready"
      /\ \A t \in Tid \ {on, next} :
           /\ thread_index'[t] = IF thread_index[t] = "killed" THEN "NULL"
                                 ELSE thread_index[t]
           /\ setcontext_called'[t] = setcontext_called[t]
      /\ setcontext_called'[on] /\ setcontext_called'[next] = setcontext_called[next]
  BY <1>1 DEF YieldSwitch, requeued, free_killed, Inv, LabTypeOK
<1>3. LabTypeOK'
  BY <1>1 DEF YieldSwitch, requeued, free_killed, Inv, LabTypeOK, Status
<1>4. CallerOK'
  BY <1>1, <1>2 DEF CallerOK, ParkedOK
<1>5. \A t \in Tid \ {on'} : ParkedOK(t)'
  BY <1>1, <1>2 DEF ParkedOK
<1>6. Sched!Dispatch(next, "ready")
  <2>1. SchedulerState[next] = "ready"
    BY <1>1 DEF SchedulerState
  <2>2. SchedulerState' = [SchedulerState EXCEPT ![on] = "ready", ![next] = "running"]
    BY <1>1, <1>2 DEF SchedulerState
  <2> QED
    BY <1>1, <2>1, <2>2 DEF Sched!Dispatch
<1> QED
  BY <1>3, <1>4, <1>5, <1>6 DEF Inv

LEMMA ReturnKeeps ==
  ASSUME Inv, NEW to \in Code, YieldReturn(to)
  PROVE  Inv' /\ UNCHANGED Sched!vars
<1>1. /\ outcome = "live" /\ outcome' = outcome /\ on' = on /\ next' = NoTid
      /\ on \in Tid /\ thread_index[on] = "running"
      /\ \A t \in Tid \ {on} : ParkedOK(t)
  BY DEF YieldReturn, Running, Inv, LabTypeOK, CallerOK
<1>2. /\ at'[on] = to /\ ~setcontext_called'[on]
      /\ \A t \in Tid \ {on} :
           at'[t] = at[t] /\ setcontext_called'[t] = setcontext_called[t]
      /\ \A t \in Tid : thread_index'[t] = IF thread_index[t] = "killed" THEN "NULL"
                                           ELSE thread_index[t]
  BY <1>1 DEF YieldReturn, flag_cleared, free_killed, Inv, LabTypeOK
<1>3. LabTypeOK'
  BY <1>1 DEF YieldReturn, flag_cleared, free_killed, Inv, LabTypeOK, Status
<1>4. CallerOK' /\ \A t \in Tid \ {on'} : ParkedOK(t)'
  BY <1>1, <1>2 DEF CallerOK, ParkedOK, Code
<1>5. UNCHANGED Sched!vars
  BY <1>1, <1>2 DEF Sched!vars, SchedulerState
<1> QED
  BY <1>3, <1>4, <1>5 DEF Inv

LEMMA ExitKeeps ==
  ASSUME Inv, ThreadExit
  PROVE  Inv' /\ \E t \in Tid : Sched!Dispatch(t, "none")
<1>1. PICK t \in Tid :
        /\ find_ready(t)
        /\ thread_index' = [thread_index EXCEPT ![on] = "killed", ![t] = "running"]
        /\ on' = t
  BY DEF ThreadExit
<1>2. /\ outcome = "live" /\ outcome' = outcome /\ on \in Tid /\ next' = next
      /\ setcontext_called' = setcontext_called
      /\ thread_index[t] = "ready" /\ t # on
      /\ \A u \in Tid \ {on} : ParkedOK(u)
  BY <1>1 DEF ThreadExit, Running, find_ready, Lowest, Inv, LabTypeOK, CallerOK
<1>3. /\ thread_index'[t] = "running" /\ thread_index'[on] = "killed"
      /\ \A u \in Tid \ {on, t} : thread_index'[u] = thread_index[u]
      /\ \A u \in Tid \ {on} : at'[u] = at[u]
  BY <1>1, <1>2 DEF ThreadExit, Inv, LabTypeOK
<1>4. LabTypeOK'
  BY <1>1, <1>2 DEF ThreadExit, Inv, LabTypeOK, Status, At
<1>5. CallerOK' /\ \A u \in Tid \ {on'} : ParkedOK(u)'
  BY <1>1, <1>2, <1>3 DEF CallerOK, ParkedOK
<1>6. Sched!Dispatch(t, "none")
  <2>1. SchedulerState[t] = "ready"
    BY <1>2 DEF SchedulerState
  <2>2. SchedulerState' = [SchedulerState EXCEPT ![on] = "none", ![t] = "running"]
    BY <1>1, <1>2, <1>3 DEF SchedulerState
  <2> QED
    BY <1>1, <2>1, <2>2 DEF Sched!Dispatch
<1> QED
  BY <1>4, <1>5, <1>6 DEF Inv

(* thread_kill of a ready thread, or of one that has exited already.       *)
LEMMA KillKeeps ==
  ASSUME Inv, NEW t \in Tid, Kill(t)
  PROVE  Inv' /\ (Sched!Remove(t) \/ UNCHANGED Sched!vars)
<1>1. CASE t = 0
  BY <1>1, StopKeeps DEF Kill
<1>2. CASE t # 0
  <2>1. /\ outcome = "live" /\ on \in Tid /\ at[on] = "user" /\ t # on
        /\ thread_index[t] \in {"ready", "killed"}
        /\ UNCHANGED <<setcontext_called, on, next, outcome>>
    BY <1>2, FindRunning DEF Kill, Running
  <2>2. /\ thread_index'[t] = "NULL"
        /\ \A u \in Tid \ {t} : thread_index'[u] = thread_index[u] /\ at'[u] = at[u]
    BY <1>2, <2>1 DEF Kill, Inv, LabTypeOK
  <2>3. LabTypeOK'
    BY <1>2, <2>1 DEF Kill, Inv, LabTypeOK, Status, At
  <2>4. CallerOK' /\ \A u \in Tid \ {on'} : ParkedOK(u)'
    BY <2>1, <2>2 DEF Inv, CallerOK, ParkedOK
  <2>5. SchedulerState' = [SchedulerState EXCEPT ![t] = "none"]
    BY <2>1, <2>2 DEF SchedulerState
  <2>6. CASE thread_index[t] = "ready"
    <3>1. SchedulerState[t] = "ready"
      BY <2>1, <2>6 DEF SchedulerState
    <3> QED
      BY <2>1, <2>3, <2>4, <2>5, <3>1 DEF Sched!Remove, Inv
  <2>7. CASE thread_index[t] = "killed"
    <3>1. SchedulerState' = SchedulerState
      BY <2>1, <2>2, <2>7 DEF SchedulerState
    <3> QED
      BY <2>1, <2>3, <2>4, <3>1 DEF Sched!vars, Inv
  <2> QED
    BY <2>1, <2>6, <2>7
<1> QED
  BY <1>1, <1>2
-----------------------------------------------------------------------------
(* The lab 2 library.                                                      *)
LEMMA LabStep == ASSUME Inv, [Next]_vars PROVE Inv' /\ [Sched!Next]_(Sched!vars)
<1>1. CASE EnterStub
  BY <1>1, MoveKeeps DEF EnterStub, Running, Code
<1>2. CASE YieldSwitch
  <2>1. next \in Tid
    BY <1>2 DEF YieldSwitch, Running, Inv, CallerOK
  <2> QED
    BY <1>2, <2>1, SwitchKeeps DEF Sched!Next
<1>3. CASE YieldReturn("user")
  BY <1>3, ReturnKeeps DEF Code
<1>4. CASE YieldFault \/ StubExit \/ Unimplemented
  BY <1>4, StopKeeps DEF YieldFault, StubExit, Unimplemented
<1>5. CASE ThreadExit
  BY <1>5, ExitKeeps DEF Sched!Next
<1>6. ASSUME NEW t \in Tid, Create(t, "user")
      PROVE  Inv' /\ [Sched!Next]_(Sched!vars)
  BY <1>6, CreateKeeps DEF Code, Sched!Next
<1>7. ASSUME NEW t \in Tid, YieldAny(t) \/ YieldTid(t)
      PROVE  Inv' /\ [Sched!Next]_(Sched!vars)
  <2>1. outcome = "live" /\ at[on] \in Code /\ Choose(t)
    BY <1>7 DEF YieldAny, YieldTid, Running, Code
  <2>2. t \in Tid \ {on} /\ thread_index[t] \in {"ready", "killed"}
    BY <1>7, <2>1, YieldChooses DEF YieldAny, YieldTid
  <2> QED
    BY <2>1, <2>2, ChooseKeeps
<1>8. ASSUME NEW t \in Tid, Kill(t)
      PROVE  Inv' /\ [Sched!Next]_(Sched!vars)
  BY <1>8, KillKeeps DEF Sched!Next
<1>9. CASE Ended \/ UNCHANGED vars
  BY <1>9, StutterKeeps DEF Ended
<1> QED
  BY <1>1, <1>2, <1>3, <1>4, <1>5, <1>6, <1>7, <1>8, <1>9 DEF Next

LEMMA InvHolds == ASSUME MaxThreads \in Nat \ {0} PROVE Spec => []Inv
<1>1. Init => Inv
  BY InitInv
<1>2. Inv /\ [Next]_vars => Inv'
  BY LabStep
<1> QED
  BY <1>1, <1>2, PTL DEF Spec

LEMMA InvImplies == Inv => Contexts /\ RunningIsCaller
BY DEF Inv, LabTypeOK, Contexts, RunningIsCaller, CallerOK, ParkedOK

(* Whatever a program calls, a context is resumed where it was saved, and  *)
(* a new thread never takes over the flag of one killed before it.         *)
THEOREM LabContexts == ASSUME MaxThreads \in Nat \ {0} PROVE Spec => []Contexts
BY InvHolds, InvImplies, PTL

(* find_running finds the caller: the slot that says running is the one    *)
(* whose stack the processor is on.                                        *)
THEOREM LabRunning == ASSUME MaxThreads \in Nat \ {0} PROVE Spec => []RunningIsCaller
BY InvHolds, InvImplies, PTL

LEMMA InitScheduler == ASSUME MaxThreads \in Nat \ {0}, Init PROVE Sched!Init
<1>1. 0 \in Tid
  BY DEF Tid
<1> QED
  BY <1>1 DEF Init, Sched!Init, SchedulerState

(* The lab 2 library implements the scheduler of thread.h, whatever the    *)
(* program calls.                                                          *)
THEOREM LabImplementsScheduler ==
  ASSUME MaxThreads \in Nat \ {0} PROVE Spec => ImplementsScheduler
<1>1. Init => Sched!Init
  BY InitScheduler
<1>2. Inv /\ [Next]_vars => [Sched!Next]_(Sched!vars)
  BY LabStep
<1> QED
  BY <1>1, <1>2, InvHolds, PTL DEF Spec, ImplementsScheduler, Sched!Spec
-----------------------------------------------------------------------------
(* bak_thread.c.  Its steps are those of lab 2, so that Inv holds of it;   *)
(* besides, a thread that is switched out remembers the mask that its own  *)
(* code asked for, and one that has not begun will set it.                 *)
Kept == [prev : BOOLEAN, new_place : Tid \cup {NoTid}, back : Code, wants : BOOLEAN]
KeptOK(t) ==
  /\ at[t] = "yield" => saved[t].prev = saved[t].wants
  /\ at[t] = "stub" => saved[t].wants = TRUE

MaskInv ==
  /\ enabled \in BOOLEAN /\ saved \in [Tid -> Kept]
  /\ outcome = "live" =>
       /\ at[on] \in Code => enabled = saved[on].wants
       /\ \A t \in Tid : KeptOK(t)

LEMMA InitMask == ASSUME MaxThreads \in Nat \ {0}, BakInit PROVE MaskInv
<1>1. Unsaved \in Kept /\ Unsaved.wants = TRUE
  BY DEF Unsaved, Kept, Code
<1>2. 0 \in Tid /\ on = 0 /\ enabled = TRUE
  BY DEF BakInit, Init, Tid
<1>3. \A t \in Tid : saved[t] = Unsaved /\ at[t] \in {"user", "none"}
  BY DEF BakInit, Init
<1>4. saved \in [Tid -> Kept]
  BY <1>1 DEF BakInit
<1> QED
  BY <1>1, <1>2, <1>3, <1>4 DEF MaskInv, KeptOK

LEMMA BakStep == ASSUME Inv, MaskInv, [BakNext]_bak_vars
                 PROVE  Inv' /\ [Sched!Next]_(Sched!vars)
<1>1. CASE BakStub
  BY <1>1, MoveKeeps DEF BakStub, EnterStub, Running, Code
<1>2. CASE BakSwitch
  <2>1. next \in Tid
    BY <1>2 DEF BakSwitch, YieldSwitch, Running, Inv, CallerOK
  <2> QED
    BY <1>2, <2>1, SwitchKeeps DEF BakSwitch, Sched!Next
<1>3. CASE BakReturn
  <2>1. saved[on].back \in Code
    BY DEF MaskInv, Kept, Inv, LabTypeOK
  <2> QED
    BY <1>3, <2>1, ReturnKeeps DEF BakReturn
<1>4. CASE BakCreateReturn
  BY <1>4, MoveKeeps DEF BakCreateReturn, Running, Code
<1>5. CASE BakCreateFault \/ BakStubExit \/ BakUnimplemented
  BY <1>5, StopKeeps DEF BakCreateFault, BakStubExit, BakUnimplemented, Unimplemented
<1>6. ASSUME NEW t \in Tid, BakCreate(t)
      PROVE  Inv' /\ [Sched!Next]_(Sched!vars)
  BY <1>6, CreateKeeps DEF BakCreate, Code, Sched!Next
<1>7. ASSUME NEW t \in Tid, BakYield(t) \/ Preempt(t)
      PROVE  Inv' /\ [Sched!Next]_(Sched!vars)
  <2>1. /\ outcome = "live" /\ at[on] \in Code /\ Choose(t)
        /\ find_ready(t) \/ (thread_index[t] # "NULL" /\ ~find_running(t))
    BY <1>7 DEF BakYield, YieldAny, YieldTid, Preempt, Running, Code
  <2>2. t \in Tid \ {on} /\ thread_index[t] \in {"ready", "killed"}
    BY <2>1, YieldChooses
  <2> QED
    BY <2>1, <2>2, ChooseKeeps
<1>8. ASSUME NEW t \in Tid, BakKill(t)
      PROVE  Inv' /\ [Sched!Next]_(Sched!vars)
  BY <1>8, KillKeeps DEF BakKill, Sched!Next
<1>9. CASE BakExit \/ InterruptsSet \/ BakEnded \/ UNCHANGED bak_vars
  BY <1>9, StutterKeeps DEF BakExit, InterruptsSet, BakEnded, bak_vars
<1> QED
  BY <1>1, <1>2, <1>3, <1>4, <1>5, <1>6, <1>7, <1>8, <1>9 DEF BakNext

LEMMA MaskStep == ASSUME Inv, MaskInv, [BakNext]_bak_vars PROVE MaskInv'
<1>a. /\ on \in Tid /\ at \in [Tid -> At \cup Code]
      /\ enabled \in BOOLEAN /\ saved \in [Tid -> Kept]
  BY DEF Inv, LabTypeOK, MaskInv
<1>1. CASE BakStub
  BY <1>a, <1>1 DEF BakStub, EnterStub, Running, MaskInv, KeptOK, Code
<1>2. CASE BakSwitch
  <2>1. /\ outcome = "live" /\ UNCHANGED <<at, enabled, saved>>
        /\ at[on'] \in {"stub", "yield"}
    BY <1>2 DEF BakSwitch, YieldSwitch, Running, Inv, CallerOK, ParkedOK
  <2> QED
    BY <1>a, <2>1 DEF MaskInv, KeptOK, Code
<1>3. CASE BakReturn
  <2>1. /\ at' = [at EXCEPT ![on] = saved[on].back] /\ on' = on
        /\ at[on] = "yield" /\ outcome = "live" /\ saved' = saved
        /\ enabled' = saved[on].prev
    BY <1>3 DEF BakReturn, YieldReturn, Running, prev_interrupt_state
  <2>2. saved[on].back \in Code /\ saved[on].prev \in BOOLEAN
    BY <1>a DEF Kept
  <2> QED
    BY <1>a, <2>1, <2>2 DEF MaskInv, KeptOK, Code
<1>4. CASE BakCreateReturn
  <2>1. /\ outcome = "live" /\ at[on] = "create_ret" /\ UNCHANGED <<on, enabled>>
        /\ at' = [at EXCEPT ![on] = "user"]
        /\ saved' = [saved EXCEPT ![on].new_place = NoTid]
    BY <1>4 DEF BakCreateReturn, Running
  <2>2. /\ saved' \in [Tid -> Kept]
        /\ \A t \in Tid : saved'[t].wants = saved[t].wants /\ saved'[t].prev = saved[t].prev
    BY <1>a, <2>1 DEF Kept
  <2> QED
    BY <1>a, <2>1, <2>2 DEF MaskInv, KeptOK, Code
<1>5. CASE BakCreateFault \/ BakStubExit \/ BakUnimplemented
  <2>1. outcome' # "live" /\ enabled' \in BOOLEAN /\ saved' = saved
    BY <1>a, <1>5 DEF BakCreateFault, BakStubExit, BakUnimplemented, Unimplemented, Stop
  <2> QED
    BY <1>a, <2>1 DEF MaskInv
<1>6. ASSUME NEW t \in Tid, BakCreate(t) PROVE MaskInv'
  <2>1. /\ outcome = "live" /\ at[on] = "user" /\ t # on /\ UNCHANGED <<on, enabled>>
        /\ at' = [at EXCEPT ![t] = "stub", ![on] = "create_ret"]
        /\ saved' = [saved EXCEPT ![t] = Unsaved, ![on].new_place = t]
    BY <1>6 DEF BakCreate, Create, Running, tid_generator, Lowest, Inv, CallerOK
  <2>2. Unsaved \in Kept /\ Unsaved.wants = TRUE
    BY DEF Unsaved, Kept, Code
  <2>3. /\ saved' \in [Tid -> Kept] /\ saved'[t] = Unsaved
        /\ \A u \in Tid \ {t} :
             saved'[u].wants = saved[u].wants /\ saved'[u].prev = saved[u].prev
    BY <1>a, <2>1, <2>2 DEF Kept
  <2> QED
    BY <1>a, <2>1, <2>2, <2>3 DEF MaskInv, KeptOK, Code
<1>7. ASSUME NEW t \in Tid, BakYield(t) \/ Preempt(t) PROVE MaskInv'
  <2>1. PICK back \in Code :
          /\ outcome = "live" /\ at[on] \in Code /\ on' = on
          /\ at' = [at EXCEPT ![on] = "yield"] /\ enabled' = FALSE
          /\ saved' = [saved EXCEPT ![on].prev = enabled, ![on].back = back]
    BY <1>7 DEF BakYield, YieldAny, YieldTid, Preempt, Running, Choose, Mask, Code
  <2>2. /\ saved' \in [Tid -> Kept] /\ saved'[on].prev = enabled
        /\ \A u \in Tid : saved'[u].wants = saved[u].wants
        /\ \A u \in Tid \ {on} : saved'[u] = saved[u]
    BY <1>a, <2>1 DEF Kept
  <2> QED
    BY <1>a, <2>1, <2>2 DEF MaskInv, KeptOK, Code
<1>8. ASSUME NEW t \in Tid, BakKill(t) PROVE MaskInv'
  <2>1. CASE t = 0
    BY <1>a, <1>8, <2>1 DEF BakKill, Kill, Stop, MaskInv
  <2>2. CASE t # 0
    <3>1. /\ t # on /\ outcome = "live" /\ UNCHANGED <<on, enabled, saved>>
          /\ at' = [at EXCEPT ![t] = "none"]
      BY <1>8, <2>2, FindRunning DEF BakKill, Kill, Running
    <3> QED
      BY <1>a, <3>1 DEF MaskInv, KeptOK
  <2> QED
    BY <2>1, <2>2
<1>9. CASE BakExit \/ InterruptsSet
  <2>1. PICK mask \in BOOLEAN :
          /\ enabled' = mask /\ saved' = [saved EXCEPT ![on].wants = mask]
          /\ outcome = "live" /\ at[on] = "user" /\ UNCHANGED <<on, at, outcome>>
    BY <1>a, <1>9 DEF BakExit, InterruptsSet, Running, vars
  <2>2. /\ saved' \in [Tid -> Kept] /\ saved'[on].wants = mask
        /\ \A u \in Tid \ {on} : saved'[u] = saved[u]
    BY <1>a, <2>1 DEF Kept
  <2> QED
    BY <1>a, <2>1, <2>2 DEF MaskInv, KeptOK
<1>10. CASE BakEnded \/ UNCHANGED bak_vars
  BY <1>10 DEF BakEnded, bak_vars, vars, MaskInv, KeptOK
<1> QED
  BY <1>1, <1>2, <1>3, <1>4, <1>5, <1>6, <1>7, <1>8, <1>9, <1>10 DEF BakNext

LEMMA BakInvHolds == ASSUME MaxThreads \in Nat \ {0} PROVE BakSpec => [](Inv /\ MaskInv)
<1>1. BakInit => Inv /\ MaskInv
  BY InitInv, InitMask DEF BakInit
<1>2. Inv /\ MaskInv /\ [BakNext]_bak_vars => (Inv /\ MaskInv)'
  BY BakStep, MaskStep
<1> QED
  BY <1>1, <1>2, PTL DEF BakSpec

(* Contexts survive the timer: it comes in where thread_yield could have   *)
(* been called.                                                            *)
THEOREM BakContexts == ASSUME MaxThreads \in Nat \ {0} PROVE BakSpec => []Contexts
BY BakInvHolds, InvImplies, PTL

(* A thread goes on with the mask it was switched out with, however the    *)
(* timer, yields and masks interleave; for any number of threads.          *)
THEOREM BakMaskRestored == ASSUME MaxThreads \in Nat \ {0} PROVE BakSpec => []MaskRestored
<1>1. MaskInv => MaskRestored
  BY DEF MaskInv, MaskRestored, Code
<1> QED
  BY <1>1, BakInvHolds, PTL

(* bak_thread.c implements the scheduler of thread.h, preempted anywhere.  *)
THEOREM BakImplementsScheduler ==
  ASSUME MaxThreads \in Nat \ {0} PROVE BakSpec => ImplementsScheduler
<1>1. BakInit => Sched!Init
  BY InitScheduler DEF BakInit
<1>2. Inv /\ MaskInv /\ [BakNext]_bak_vars => [Sched!Next]_(Sched!vars)
  BY BakStep
<1> QED
  BY <1>1, <1>2, BakInvHolds, PTL DEF BakSpec, ImplementsScheduler, Sched!Spec

-----------------------------------------------------------------------------
(* thread_reg_change.c: the table and the stacks agree about who can go on.*)

RegStatus == {"NULL", "ready", "running"}

RegTypeOK ==
  /\ thread_index \in [Tid -> RegStatus]
  /\ at \in [Tid -> At]
  /\ on \in Tid
  /\ main_block \in BOOLEAN

(* No slot is ever marked killed here, so free_killed finds nothing.       *)
RegInv ==
  /\ RegTypeOK
  /\ outcome = "live" =>
       /\ thread_index[on] = "running" /\ at[on] \in {"stub", "user"}
       /\ \A t \in Tid \ {on} :
            /\ thread_index[t] # "running"
            /\ thread_index[t] = "ready" <=> at[t] \in {"stub", "user"}

LEMMA RegInitInv == ASSUME MaxThreads \in Nat \ {0}, RegInit PROVE RegInv /\ Sched!Init
<1>1. 0 \in Tid
  BY DEF Tid
<1> QED
  BY <1>1 DEF RegInit, Init, RegInv, RegTypeOK, RegStatus, At, Sched!Init, SchedulerState

LEMMA RegFindRunning ==
  ASSUME RegInv, outcome = "live", NEW t \in Tid,
         find_ready(t) \/ (thread_index[t] # "NULL" /\ ~find_running(t))
  PROVE  on \in Tid /\ t # on /\ thread_index[t] = "ready"
<1>1. find_running(on)
  BY DEF RegInv, RegTypeOK, find_running, Lowest, Tid
<1> QED
  BY <1>1 DEF RegInv, RegTypeOK, RegStatus, find_ready, Lowest

(* A switch, and thread_exit: the caller becomes ready, or is gone.        *)
LEMMA RegSwitchKeeps ==
  ASSUME RegInv, outcome = "live", NEW t \in Tid \ {on}, thread_index[t] = "ready",
         NEW becomes \in {"ready", "NULL"},
         thread_index' = [thread_index EXCEPT ![on] = becomes, ![t] = "running"],
         at' = IF becomes = "ready" THEN at ELSE [at EXCEPT ![on] = "none"],
         on' = t, outcome' = outcome, main_block' \in BOOLEAN
  PROVE  /\ RegInv'
         /\ Sched!Dispatch(t, IF becomes = "ready" THEN "ready" ELSE "none")
<1>1. /\ on \in Tid /\ thread_index'[t] = "running" /\ thread_index'[on] = becomes
      /\ \A u \in Tid \ {on, t} : thread_index'[u] = thread_index[u]
      /\ \A u \in Tid \ {on} : at'[u] = at[u]
      /\ at'[on] = IF becomes = "ready" THEN at[on] ELSE "none"
  BY DEF RegInv, RegTypeOK
<1>2. RegTypeOK'
  BY DEF RegInv, RegTypeOK, RegStatus, At
<1>3. RegInv'
  <2>1. at[t] \in {"stub", "user"} /\ at'[t] = at[t]
    BY <1>1 DEF RegInv
  <2>2. \A u \in Tid \ {t} : /\ thread_index'[u] # "running"
                             /\ thread_index'[u] = "ready" <=> at'[u] \in {"stub", "user"}
    <3>1. thread_index'[on] = "ready" <=> at'[on] \in {"stub", "user"}
      BY <1>1 DEF RegInv
    <3> QED
      BY <1>1, <3>1 DEF RegInv
  <2> QED
    BY <1>1, <1>2, <2>1, <2>2 DEF RegInv
<1>4. SchedulerState[t] = "ready"
  BY DEF SchedulerState
<1>5. SchedulerState' =
        [SchedulerState EXCEPT ![on] = IF becomes = "ready" THEN "ready" ELSE "none",
                               ![t] = "running"]
  BY <1>1 DEF SchedulerState
<1> QED
  BY <1>3, <1>4, <1>5 DEF Sched!Dispatch

LEMMA RegStopKeeps ==
  ASSUME RegInv, NEW how, how # "live", Stop(how), main_block' \in BOOLEAN
  PROVE  RegInv' /\ UNCHANGED Sched!vars
BY DEF RegInv, RegTypeOK, Stop, Sched!vars, SchedulerState

LEMMA RegStep == ASSUME RegInv, [RegNext]_reg_vars PROVE RegInv' /\ [Sched!Next]_(Sched!vars)
<1>a. RegTypeOK
  BY DEF RegInv
<1>1. CASE RegStub
  <2>1. /\ at' = [at EXCEPT ![on] = "user"] /\ outcome = "live"
        /\ UNCHANGED <<thread_index, on, outcome, main_block>>
    BY <1>1 DEF RegStub, EnterStub, Running
  <2> QED
    BY <1>a, <2>1 DEF RegInv, RegTypeOK, At, Sched!vars, SchedulerState
<1>2. CASE RegExit
  <2>1. PICK t \in Tid :
          /\ find_ready(t)
          /\ thread_index' = [thread_index EXCEPT ![on] = "NULL", ![t] = "running"]
          /\ on' = t
    BY <1>2 DEF RegExit
  <2>2. /\ outcome = "live" /\ outcome' = outcome /\ main_block' \in BOOLEAN
        /\ at' = [at EXCEPT ![on] = "none"]
    BY <1>2 DEF RegExit, Running, Gone
  <2>3. t # on /\ thread_index[t] = "ready"
    BY <2>1, <2>2, RegFindRunning
  <2>4. RegInv' /\ Sched!Dispatch(t, "none")
    BY <2>1, <2>2, <2>3, RegSwitchKeeps
  <2> QED
    BY <2>4 DEF Sched!Next
<1>3. CASE RegExitFault \/ RegStubExit \/ RegUnimplemented
  <2>1. PICK how \in {"free_main", "stack_freed", "exit", "tbd"} :
          Stop(how) /\ UNCHANGED main_block
    BY <1>3 DEF RegExitFault, FreeFault, RegStubExit, RegUnimplemented,
                Unimplemented
  <2> QED
    BY <1>a, <2>1, RegStopKeeps DEF RegTypeOK
<1>4. ASSUME NEW t \in Tid, RegCreate(t)
      PROVE  RegInv' /\ [Sched!Next]_(Sched!vars)
  <2>1. /\ outcome = "live" /\ at[on] = "user" /\ thread_index[t] = "NULL" /\ t # on
        /\ UNCHANGED <<on, outcome, main_block>>
    BY <1>4 DEF RegCreate, Create, Running, tid_generator, Lowest, RegInv
  <2>2. /\ thread_index' = [thread_index EXCEPT ![t] = "ready"]
        /\ at' = [at EXCEPT ![t] = "stub", ![on] = "user"]
    BY <1>4 DEF RegCreate, Create
  <2>3. RegInv'
    BY <1>a, <2>1, <2>2 DEF RegInv, RegTypeOK, RegStatus, At
  <2>4. SchedulerState[t] = "none"
    BY <2>1 DEF SchedulerState
  <2>5. SchedulerState' = [SchedulerState EXCEPT ![t] = "ready"]
    BY <1>a, <2>1, <2>2 DEF RegTypeOK, SchedulerState
  <2>6. Sched!Spawn(t)
    BY <2>1, <2>4, <2>5 DEF Sched!Spawn
  <2> QED
    BY <2>3, <2>6 DEF Sched!Next
<1>5. ASSUME NEW t \in Tid, RegYieldAny(t) \/ RegYieldTid(t)
      PROVE  RegInv' /\ [Sched!Next]_(Sched!vars)
  <2>1. /\ outcome = "live" /\ RegSwitch(t)
        /\ find_ready(t) \/ (thread_index[t] # "NULL" /\ ~find_running(t))
    BY <1>5 DEF RegYieldAny, RegYieldTid, Running
  <2>2. t # on /\ thread_index[t] = "ready"
    BY <2>1, RegFindRunning
  <2>3. free_killed = thread_index
    BY <1>a DEF free_killed, RegTypeOK, RegStatus
  <2>4. /\ thread_index' = [thread_index EXCEPT ![on] = "ready", ![t] = "running"]
        /\ on' = t /\ UNCHANGED <<at, outcome, main_block>>
    BY <2>1, <2>3 DEF RegSwitch, marked_ready
  <2>5. RegInv' /\ Sched!Dispatch(t, "ready")
    BY <1>a, <2>1, <2>2, <2>4, RegSwitchKeeps DEF RegTypeOK
  <2> QED
    BY <2>5 DEF Sched!Next
<1>6. ASSUME NEW t \in Tid, RegKill(t)
      PROVE  RegInv' /\ [Sched!Next]_(Sched!vars)
  <2>1. /\ outcome = "live" /\ on \in Tid /\ t # on /\ thread_index[t] = "ready"
    BY <1>6, RegFindRunning DEF RegKill, Running
  <2>2. CASE FreeFault(t) /\ UNCHANGED main_block
    BY <1>a, <2>2, RegStopKeeps DEF FreeFault, RegTypeOK
  <2>3. CASE /\ thread_index' = [thread_index EXCEPT ![t] = "NULL"]
             /\ at' = [at EXCEPT ![t] = "none"]
             /\ Gone(t)
             /\ UNCHANGED <<setcontext_called, on, next, outcome>>
    <3>1. RegInv'
      BY <1>a, <2>1, <2>3 DEF RegInv, RegTypeOK, RegStatus, At, Gone
    <3>2. SchedulerState[t] = "ready"
      BY <2>1 DEF SchedulerState
    <3>3. SchedulerState' = [SchedulerState EXCEPT ![t] = "none"]
      BY <1>a, <2>1, <2>3 DEF RegTypeOK, SchedulerState
    <3>4. Sched!Remove(t)
      BY <2>1, <2>3, <3>2, <3>3 DEF Sched!Remove
    <3> QED
      BY <3>1, <3>4 DEF Sched!Next
  <2> QED
    BY <1>6, <2>2, <2>3 DEF RegKill
<1>7. CASE RegEnded \/ UNCHANGED reg_vars
  BY <1>7 DEF RegEnded, reg_vars, vars, RegInv, RegTypeOK, Sched!vars, SchedulerState
<1> QED
  BY <1>1, <1>2, <1>3, <1>4, <1>5, <1>6, <1>7 DEF RegNext

LEMMA RegInvHolds == ASSUME MaxThreads \in Nat \ {0} PROVE RegSpec => []RegInv
<1>1. RegInit => RegInv
  BY RegInitInv
<1>2. RegInv /\ [RegNext]_reg_vars => RegInv'
  BY RegStep
<1> QED
  BY <1>1, <1>2, PTL DEF RegSpec

(* Whoever has a stack to go on with, and only that one, is in the table.  *)
THEOREM RegNoneLeftBehind ==
  ASSUME MaxThreads \in Nat \ {0} PROVE RegSpec => []NoneLeftBehind
<1>1. RegInv => NoneLeftBehind
  BY DEF RegInv, NoneLeftBehind
<1> QED
  BY <1>1, RegInvHolds, PTL

(* find_running finds the caller, although thread_exit leaves the table    *)
(* without a running thread in the middle of its call.                     *)
THEOREM RegRunning ==
  ASSUME MaxThreads \in Nat \ {0} PROVE RegSpec => []RunningIsCaller
<1>1. RegInv => RunningIsCaller
  BY DEF RegInv, RegTypeOK, RunningIsCaller
<1> QED
  BY <1>1, RegInvHolds, PTL

(* thread_reg_change.c implements the scheduler of thread.h.               *)
THEOREM RegImplementsScheduler ==
  ASSUME MaxThreads \in Nat \ {0} PROVE RegSpec => ImplementsScheduler
<1>1. RegInit => Sched!Init
  BY RegInitInv
<1>2. RegInv /\ [RegNext]_reg_vars => [Sched!Next]_(Sched!vars)
  BY RegStep
<1> QED
  BY <1>1, <1>2, RegInvHolds, PTL DEF RegSpec, ImplementsScheduler, Sched!Spec
=============================================================================
