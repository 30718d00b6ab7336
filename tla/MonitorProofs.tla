--------------------------- MODULE MonitorProofs ---------------------------
(***************************************************************************)
(* Locks and condition variables: every behaviour of Monitor is one of     *)
(* Threads, so what ThreadsProofs shows of disciplined programs holds here *)
(* too, and with it the invariants of the locks.                           *)
(***************************************************************************)
EXTENDS Monitor, ThreadsProofs

(* A thread inside lock_acquire or cv_wait has interrupts off: it leaves   *)
(* the processor by its own thread_sleep only, before a while test.        *)
CallOK(t) ==
  call[t].pc # "none" =>
    /\ call[t].lock \in Locks \cap made
    /\ stack[t].wants = FALSE
    /\ stack[t].at = "user" \/ (stack[t].at = "sleep" /\ stack[t].back = "user")
    /\ call[t].pc # "test" => t = curr_running /\ stack[t].at = "user"
    /\ call[t].pc \in {"take", "cv_sleep"} => lockstatus[call[t].lock] # "LOCKED"
    /\ call[t].pc = "cv_release" =>
         lockstatus[call[t].lock] = "LOCKED" /\ locked_tid[call[t].lock] = t
    /\ call[t].pc \in {"cv_release", "cv_sleep"} => call[t].cv \in CVs \cap made

MInv == MonitorTypeOK /\ \A t \in Tid : CallOK(t)

LEMMA MonitorInitInv == MonitorInit => MInv
<1> SUFFICES ASSUME MonitorInit PROVE MInv
  OBVIOUS
<1>1. NoCall \in Call
  BY DEF NoCall, Call
<1>2. MonitorTypeOK
  BY <1>1 DEF MonitorInit, MonitorTypeOK
<1>3. \A t \in Tid : CallOK(t)
  BY DEF MonitorInit, CallOK, NoCall
<1> QED
  BY <1>2, <1>3 DEF MInv

-----------------------------------------------------------------------------
(* Monitor implements Threads.                                             *)

LEMMA EnterOrLeaveIsThreads ==
  ASSUME Running("user"), NEW on, SetInterrupts(on)
  PROVE  [Next]_vars
  BY MonitorAssumption DEF SetInterrupts, Next, Program

LEMMA WakeupIsThreads ==
  ASSUME Running("user"), NEW q \in made, NEW all \in BOOLEAN, WakeupIn(q, all)
  PROVE  [Next]_vars
  BY DEF WakeupIn, Wakeup, Next, Program

LEMMA SleepIsThreads ==
  ASSUME Running("user"), NEW q \in made, SleepIn(q)
  PROVE  [Next]_vars
  BY DEF SleepIn, Sleep, Next, Program

LEMMA Simulates ==
  ASSUME Inv, MInv, [MonitorNext]_allvars
  PROVE  [Next]_vars
<1>a. /\ curr_running \in Tid
      /\ CallOK(curr_running)
      /\ Locks \subseteq Queues /\ CVs \subseteq Queues
  BY MonitorAssumption DEF Inv, TypeOK, MInv
<1>1. CASE LockAcquire \/ CvWait
  BY <1>1, EnterOrLeaveIsThreads DEF LockAcquire, CvWait, Enter, InCall
<1>2. CASE Leave
  BY <1>2, EnterOrLeaveIsThreads DEF Leave, InCall
<1>3. CASE LockRelease
  BY <1>3, WakeupIsThreads DEF LockRelease, Free, wakes_all, InCall
<1>4. CASE CvSignal \/ CvBroadcast
  BY <1>4, WakeupIsThreads DEF CvSignal, CvBroadcast, CvNotify, InCall
<1>5. CASE AcquireSleep
  BY <1>a, <1>5, SleepIsThreads DEF AcquireSleep, InCall, CallOK, mine
<1>6. CASE CvSleep
  BY <1>a, <1>6, SleepIsThreads DEF CvSleep, InCall, CallOK, mine
<1>7. CASE CvRelease
  BY <1>a, <1>7, WakeupIsThreads
     DEF CvRelease, gives_lock_up, Free, wakes_all, InCall, CallOK, mine
<1>8. CASE LockCreate \/ LockDestroy \/ CvCreate \/ CvDestroy
  BY <1>8 DEF LockCreate, LockDestroy, CvCreate, CvDestroy, Next, Program
<1>9. CASE MonitorKillCheck \/ MonitorKill \/ MonitorExit
  BY <1>9 DEF MonitorKillCheck, MonitorKill, MonitorExit, Next, Program, Library
<1>10. CASE ThreadCall
  <2>1. CASE MonitorSleep \/ MonitorWakeup
    BY <1>10, <2>1 DEF ThreadCall, InCall, MonitorSleep, MonitorWakeup, Sleep,
                       Wakeup, Next, Program
  <2>2. CASE PlainCreate \/ PlainDestroy
    BY <2>2 DEF PlainCreate, PlainDestroy, Next, Program
  <2>3. CASE Create \/ YieldAny \/ YieldTid \/ StubExit \/ InterruptsSet
    BY <2>3 DEF Next, Program
  <2> QED
    BY <1>10, <2>1, <2>2, <2>3 DEF ThreadCall
<1>11. CASE ThreadStep
  BY <1>11 DEF ThreadStep, Next, Library
<1>12. CASE AcquireFree \/ AcquireTake
  BY <1>12 DEF AcquireFree, AcquireTake
<1>13. CASE MonitorEnded \/ UNCHANGED allvars
  BY <1>13 DEF MonitorEnded, Ended, allvars
<1> QED
  BY <1>1, <1>2, <1>3, <1>4, <1>5, <1>6, <1>7, <1>8, <1>9, <1>10, <1>11, <1>12,
     <1>13 DEF MonitorNext, CallStep

-----------------------------------------------------------------------------
(* The calls in progress.                                                  *)

(* Outside of lock calls, mine is the call of nobody.                      *)
Idle == mine.pc = "none"

(* A step of the thread library that leaves the threads inside calls alone.*)
LEMMA CallsKept ==
  ASSUME MInv, UNCHANGED mvars,
         \A t \in Tid : call[t].pc # "none" =>
           /\ call[t].lock \in made'
           /\ stack'[t].wants = stack[t].wants
           /\ stack'[t].at = "user" \/ (stack'[t].at = "sleep" /\ stack'[t].back = "user")
           /\ call[t].pc # "test" =>
                /\ curr_running' = curr_running /\ stack'[t].at = stack[t].at
                /\ call[t].cv \in made => call[t].cv \in made'
  PROVE  MInv'
<1>1. MonitorTypeOK'
  BY DEF MInv, MonitorTypeOK, mvars
<1>2. ASSUME NEW t \in Tid PROVE CallOK(t)'
  BY DEF CallOK, MInv, mvars
<1> QED
  BY <1>1, <1>2 DEF MInv

(* Only the running thread is past its test.                               *)
LEMMA OthersAtTest ==
  ASSUME MInv, NEW t \in Tid, call[t].pc \notin {"none", "test"}
  PROVE  t = curr_running /\ here.at = "user"
  BY DEF MInv, CallOK, here

LEMMA StackStep ==
  ASSUME TypeOK, NEW f, stack' = [stack EXCEPT ![curr_running] = f]
  PROVE  /\ stack'[curr_running] = f
         /\ \A t \in Tid \ {curr_running} : stack'[t] = stack[t]
  BY DEF TypeOK

(* Steps of the library and of the timer.                                  *)
LEMMA ThreadStepCalls ==
  ASSUME Inv, MInv, ThreadStep
  PROVE  MInv'
<1>a. /\ TypeOK /\ curr_running \in Tid /\ CallOK(curr_running)
      /\ outcome = "live" => CallerOK
  BY DEF Inv, TypeOK, MInv
<1>b. here \in Frame
  BY <1>a DEF TypeOK, here
<1>c. \A t \in Tid : call[t].pc # "none" =>
        /\ call[t].lock \in made /\ stack[t].wants = FALSE
        /\ stack[t].at = "user" \/ (stack[t].at = "sleep" /\ stack[t].back = "user")
  BY DEF MInv, CallOK
<1>1. CASE Preempt
  <2>1. here.wants = TRUE /\ call[curr_running].pc = "none"
    BY <1>a, <1>b, <1>1 DEF Preempt, CallerOK, Interruptible, CallOK, here, Frame
  <2>2. /\ \A t \in Tid \ {curr_running} : stack'[t] = stack[t]
        /\ UNCHANGED <<curr_running, made>>
    BY <1>a, <1>1 DEF Preempt, YieldStart, Suspend, TypeOK
  <2> QED
    BY <1>c, <1>1, <2>1, <2>2, CallsKept DEF ThreadStep
<1>2. CASE Stub \/ CreateReturn
  <2>1. call[curr_running].pc = "none"
    BY <1>a, <1>2 DEF Stub, CreateReturn, Running, CallOK, here
  <2>2. /\ \A t \in Tid \ {curr_running} : stack'[t] = stack[t]
        /\ UNCHANGED <<curr_running, made>>
    BY <1>a, <1>2 DEF Stub, CreateReturn, TypeOK
  <2> QED
    BY <1>c, <1>2, <2>1, <2>2, CallsKept DEF ThreadStep, Stub, CreateReturn
<1>3. CASE YieldSwitch \/ SleepSwitch
  <2>1. UNCHANGED <<made, stack>> /\ here.at # "user"
    BY <1>3 DEF YieldSwitch, SleepSwitch, Running
  <2>2. \A t \in Tid : call[t].pc \in {"none", "test"}
    BY <2>1, OthersAtTest
  <2> QED
    BY <1>c, <2>1, <2>2, CallsKept DEF ThreadStep
<1>4. CASE YieldReturn \/ SleepReturn
  <2>1. /\ here.at \in Suspended /\ here.at # "user"
        /\ UNCHANGED <<curr_running, made>>
    BY <1>a, <1>4 DEF YieldReturn, SleepReturn, Running, Resume, Suspended, here
  <2>2. /\ \A t \in Tid \ {curr_running} : stack'[t] = stack[t]
        /\ stack'[curr_running].at = here.back
        /\ stack'[curr_running].wants = here.wants
    <3>1. Resume
      BY <1>4 DEF YieldReturn, SleepReturn
    <3>2. stack' = [stack EXCEPT ![curr_running] =
                      [@ EXCEPT !.at = here.back, !.back = "none",
                                !.interrupts_status = FALSE]]
      BY <3>1 DEF Resume
    <3>3. stack \in [Tid -> Frame] /\ curr_running \in Tid
      BY <1>a DEF TypeOK
    <3> QED
      BY <3>2, <3>3 DEF Frame, here
  <2>3. \A t \in Tid : call[t].pc \in {"none", "test"}
    BY <2>1, OthersAtTest
  <2> QED
    BY <1>c, <2>1, <2>2, <2>3, CallsKept DEF ThreadStep, here
<1> QED
  BY <1>1, <1>2, <1>3, <1>4 DEF ThreadStep

(* What the program does outside lock calls.                               *)
LEMMA ThreadCallCalls ==
  ASSUME Inv, MInv, ThreadCall
  PROVE  MInv'
<1>a. /\ TypeOK /\ curr_running \in Tid
      /\ outcome = "live" /\ CallerOK /\ \A t \in Tid \ {curr_running} : ParkedOK(t)
      /\ call[curr_running].pc = "none" /\ here.at = "user"
  BY DEF Inv, TypeOK, MInv, ThreadCall, InCall, mine, Running
<1>c. \A t \in Tid : call[t].pc # "none" =>
        /\ call[t].lock \in made /\ call[t].lock \in Locks /\ stack[t].wants = FALSE
        /\ stack[t].at = "user" \/ (stack[t].at = "sleep" /\ stack[t].back = "user")
  BY DEF MInv, CallOK
<1>d. \A t \in Tid : call[t].pc \in {"none", "test"}
  BY <1>a, OthersAtTest
<1>1. CASE Create
  <2>1. PICK n \in Tid :
          /\ tid_generator(n)
          /\ stack' = [stack EXCEPT ![n] = Fresh("stub"),
                                    ![curr_running] =
                         [@ EXCEPT !.at = "create_ret", !.arg = n]]
    BY <1>1 DEF Create
  <2>2. call[n].pc = "none"
    BY <1>a, <1>c, <2>1 DEF tid_generator, ParkedOK
  <2>3. \A t \in Tid \ {n, curr_running} : stack'[t] = stack[t]
    BY <1>a, <2>1 DEF TypeOK
  <2>4. /\ \A t \in Tid : call[t].pc # "none" => stack'[t] = stack[t]
        /\ UNCHANGED <<made, mvars>>
    BY <1>a, <1>1, <2>2, <2>3 DEF ThreadCall, Create
  <2> QED
    BY <1>c, <1>d, <2>4, CallsKept
<1>2. CASE YieldAny \/ YieldTid \/ InterruptsSet \/ MonitorSleep
  <2>1. /\ \A t \in Tid \ {curr_running} : stack'[t] = stack[t]
        /\ UNCHANGED <<curr_running, made>>
    BY <1>a, <1>2 DEF YieldAny, YieldTid, YieldStart, InterruptsSet, MonitorSleep,
                      SleepOn, Suspend, TypeOK
  <2> QED
    BY <1>a, <1>c, <1>d, <2>1, CallsKept DEF ThreadCall
<1>3. CASE StubExit \/ MonitorWakeup
  BY <1>3, <1>c, <1>d, CallsKept DEF ThreadCall, StubExit, Stop, MonitorWakeup, WakeOn
<1>4. CASE PlainCreate \/ PlainDestroy
  <2>1. UNCHANGED <<stack, curr_running>> /\ \A l \in Locks \cap made : l \in made'
    BY <1>4 DEF PlainCreate, PlainDestroy, WaitQueueCreate, WaitQueueDestroy, Plain
  <2> QED
    BY <1>c, <1>d, <2>1, CallsKept DEF ThreadCall
<1> QED
  BY <1>1, <1>2, <1>3, <1>4 DEF ThreadCall

(* The effect of the thread library's calls inside a lock call.            *)
LEMMA SetInterruptsEffect ==
  ASSUME Inv, Running("user"), NEW on \in BOOLEAN, SetInterrupts(on)
  PROVE  /\ stack'[curr_running].at = "user" /\ stack'[curr_running].wants = on
         /\ \A t \in Tid \ {curr_running} : stack'[t] = stack[t]
         /\ UNCHANGED <<curr_running, made, queue, thread_index>>
<1>a. /\ TypeOK /\ curr_running \in Tid /\ here \in Frame
      /\ here.at = "user" /\ here.wants = enabled
  BY DEF Inv, TypeOK, CallerOK, Running, Interruptible, here
<1>1. CASE enabled = on
  BY <1>a, <1>1 DEF SetInterrupts, vars, here
<1>2. CASE enabled # on
  <2>1. ~enabled = on
    BY <1>a, <1>2 DEF TypeOK
  <2> QED
    BY <1>a, <1>2, <2>1 DEF SetInterrupts, InterruptsSet, TypeOK, Frame, here
<1> QED
  BY <1>1, <1>2

LEMMA SleepInEffect ==
  ASSUME Inv, Running("user"), NEW q \in Queues, SleepIn(q)
  PROVE  /\ \/ stack'[curr_running].at = "user"
            \/ stack'[curr_running].at = "sleep" /\ stack'[curr_running].back = "user"
         /\ stack'[curr_running].wants = here.wants
         /\ \A t \in Tid \ {curr_running} : stack'[t] = stack[t]
         /\ UNCHANGED <<curr_running, made>>
         /\ \/ queue' = queue
            \/ queue' = [queue EXCEPT ![q] = Append(@, curr_running)]
<1>a. TypeOK /\ curr_running \in Tid /\ here \in Frame /\ here.at = "user"
  BY DEF Inv, TypeOK, Running, here
<1>1. CASE NoneReady
  BY <1>a, <1>1 DEF SleepIn, vars, here
<1>2. CASE ~NoneReady
  <2>1. SleepOn(q, "user")
    BY <1>2 DEF SleepIn
  <2>2. PICK f : f = [here EXCEPT !.at = "sleep", !.back = "user",
                                  !.interrupts_status = enabled]
    OBVIOUS
  <2>3. stack' = [stack EXCEPT ![curr_running] = f]
    BY <2>1, <2>2 DEF SleepOn, Suspend, here
  <2>4. f.at = "sleep" /\ f.back = "user" /\ f.wants = here.wants
    BY <1>a, <2>2 DEF Frame
  <2> QED
    BY <1>a, <2>1, <2>3, <2>4, StackStep DEF SleepOn, push_ele
<1> QED
  BY <1>1, <1>2

LEMMA WakeupInEffect ==
  ASSUME NEW q, NEW all, WakeupIn(q, all)
  PROVE  /\ UNCHANGED <<curr_running, made, stack>>
         /\ \/ queue[q] = <<>> /\ queue' = queue
            \/ queue[q] # <<>> /\ queue' = [queue EXCEPT ![q] = left(q, all)]
  BY DEF WakeupIn, WakeOn, vars

(* A step inside a call by the running thread, whose call becomes c.       *)
LEMMA CallStepped ==
  ASSUME MInv, curr_running \in Tid, NEW c \in Call,
         call' = [call EXCEPT ![curr_running] = c],
         curr_running' = curr_running, made \subseteq made',
         \A t \in Tid \ {curr_running} : stack'[t] = stack[t],
         MonitorTypeOK',
         CallOK(curr_running)',
         \A t \in Tid : call[t].pc \in {"none", "test"} \/ t = curr_running
  PROVE  MInv'
<1>1. \A t \in Tid \ {curr_running} : call'[t] = call[t]
  BY DEF MInv, MonitorTypeOK
<1>2. ASSUME NEW t \in Tid PROVE CallOK(t)'
  BY <1>1 DEF MInv, CallOK
<1> QED
  BY <1>2 DEF MInv

LEMMA EnterCalls ==
  ASSUME Inv, MInv, NEW pc \in {"test", "cv_release"}, NEW l \in Locks \cap made,
         NEW c \in CVs \cup {NoQueue}, Enter(pc, l, c),
         pc = "cv_release" => c \in CVs \cap made /\ owns(l)
  PROVE  MInv'
<1> DEFINE k == [pc |-> pc, lock |-> l, cv |-> c, mask |-> enabled]
<1>1. TypeOK /\ curr_running \in Tid /\ k \in Call
  BY DEF Inv, TypeOK, Call
<1>2. /\ stack'[curr_running].at = "user" /\ stack'[curr_running].wants = FALSE
      /\ \A t \in Tid \ {curr_running} : stack'[t] = stack[t]
      /\ UNCHANGED <<curr_running, made>>
  BY SetInterruptsEffect DEF Enter, entry_mask, InCall
<1>3. call' = [call EXCEPT ![curr_running] = k] /\ call'[curr_running] = k
  BY <1>1 DEF Enter, MInv, MonitorTypeOK
<1>4. k.pc = pc /\ k.lock = l /\ k.cv = c
  OBVIOUS
<1> HIDE DEF k
<1>5. MonitorTypeOK'
  BY <1>1, <1>3 DEF Enter, MInv, MonitorTypeOK
<1>6. CallOK(curr_running)'
  BY <1>2, <1>3, <1>4 DEF CallOK, Enter, owns
<1>7. \A t \in Tid : call[t].pc \in {"none", "test"} \/ t = curr_running
  BY OthersAtTest
<1> QED
  BY <1>1, <1>2, <1>3, <1>5, <1>6, <1>7, CallStepped

LEMMA CallStepCalls ==
  ASSUME Inv, MInv, CallStep
  PROVE  MInv'
<1>a. /\ TypeOK /\ curr_running \in Tid /\ CallOK(curr_running) /\ mine \in Call
      /\ Running("user") /\ here.at = "user" /\ here \in Frame
      /\ MonitorTypeOK /\ Locks \subseteq Queues /\ CVs \subseteq Queues
  BY MonitorAssumption
     DEF Inv, TypeOK, MInv, MonitorTypeOK, CallStep, AcquireSleep, AcquireFree,
         AcquireTake, CvRelease, CvSleep, Leave, InCall, Running, mine, here
<1>b. \A t \in Tid : call[t].pc \in {"none", "test"} \/ t = curr_running
  BY OthersAtTest
<1>c. ASSUME NEW pc \in {"none", "test", "take", "leave", "cv_release", "cv_sleep"},
             Goto(pc)
      PROVE  \E k \in Call : /\ k = [mine EXCEPT !.pc = pc]
                             /\ call' = [call EXCEPT ![curr_running] = k]
                             /\ call'[curr_running] = k
                             /\ k.pc = pc /\ k.lock = mine.lock /\ k.cv = mine.cv
  <2> DEFINE k == [mine EXCEPT !.pc = pc]
  <2>1. k \in Call /\ k.pc = pc /\ k.lock = mine.lock /\ k.cv = mine.cv
    BY <1>a, <1>c DEF Call
  <2>2. call' = [call EXCEPT ![curr_running] = k]
    BY <1>c DEF Goto, mine
  <2>3. call'[curr_running] = k
    BY <1>a, <2>2 DEF MonitorTypeOK
  <2> QED
    BY <2>1, <2>2, <2>3
<1>1. CASE AcquireSleep
  <2>1. /\ mine.pc = "test" /\ mine.lock \in Queues /\ mine.lock \in made
        /\ SleepIn(mine.lock)
    BY <1>a, <1>1 DEF AcquireSleep, InCall, CallOK, mine
  <2>2. /\ \/ stack'[curr_running].at = "user"
           \/ stack'[curr_running].at = "sleep" /\ stack'[curr_running].back = "user"
        /\ stack'[curr_running].wants = here.wants
        /\ \A t \in Tid \ {curr_running} : stack'[t] = stack[t]
        /\ UNCHANGED <<curr_running, made>>
    BY <1>a, <2>1, SleepInEffect
  <2>3. \A t \in Tid : call[t].pc \in {"none", "test"}
    BY <1>b, <2>1 DEF mine
  <2> QED
    BY <1>1, <2>2, <2>3, CallsKept DEF AcquireSleep, MInv, CallOK, here
<1>2. CASE AcquireFree
  <2>1. PICK k \in Call : /\ call' = [call EXCEPT ![curr_running] = k]
                          /\ call'[curr_running] = k
                          /\ k.pc = "take" /\ k.lock = mine.lock /\ k.cv = mine.cv
    BY <1>c, <1>2 DEF AcquireFree
  <2>2. MonitorTypeOK' /\ UNCHANGED <<stack, curr_running, made, lockstatus>>
    BY <1>a, <1>2, <2>1 DEF AcquireFree, MonitorTypeOK, vars
  <2>3. CallOK(curr_running)'
    BY <1>a, <1>2, <2>1, <2>2 DEF CallOK, AcquireFree, InCall, mine, here
  <2> QED
    BY <1>a, <1>b, <2>1, <2>2, <2>3, CallStepped
<1>3. CASE AcquireTake
  <2>1. PICK k \in Call : /\ call' = [call EXCEPT ![curr_running] = k]
                          /\ call'[curr_running] = k
                          /\ k.pc = "leave" /\ k.lock = mine.lock /\ k.cv = mine.cv
    BY <1>c, <1>3 DEF AcquireTake
  <2>2. /\ UNCHANGED <<stack, curr_running, made>>
        /\ mine.lock \in Locks
    BY <1>a, <1>3 DEF AcquireTake, vars, CallOK, InCall, mine
  <2>3. MonitorTypeOK'
    BY <1>a, <1>3, <2>1, <2>2 DEF AcquireTake, MonitorTypeOK
  <2>4. CallOK(curr_running)'
    BY <1>a, <1>3, <2>1, <2>2 DEF CallOK, AcquireTake, InCall, mine, here
  <2> QED
    BY <1>a, <1>b, <2>1, <2>2, <2>3, <2>4, CallStepped
<1>4. CASE CvRelease
  <2>1. PICK k \in Call : /\ call' = [call EXCEPT ![curr_running] = k]
                          /\ call'[curr_running] = k
                          /\ k.pc = "cv_sleep" /\ k.lock = mine.lock /\ k.cv = mine.cv
    BY <1>c, <1>4 DEF CvRelease
  <2>2. UNCHANGED <<stack, curr_running, made>>
    BY <1>4, WakeupInEffect DEF CvRelease, gives_lock_up, Free, wakes_all
  <2>3. MonitorTypeOK'
    BY <1>a, <1>4, <2>1, <2>2
       DEF CvRelease, gives_lock_up, Free, MonitorTypeOK, CallOK, InCall, mine
  <2>4. CallOK(curr_running)'
    <3>1. lockstatus'[mine.lock] = "FREE"
      BY <1>a, <1>4 DEF CvRelease, gives_lock_up, Free, MonitorTypeOK, CallOK, InCall, mine
    <3> QED
      BY <1>a, <1>4, <2>1, <2>2, <3>1 DEF CallOK, CvRelease, InCall, mine, here
  <2> QED
    BY <1>a, <1>b, <2>1, <2>2, <2>3, <2>4, CallStepped
<1>5. CASE CvSleep
  <2>1. PICK k \in Call : /\ call' = [call EXCEPT ![curr_running] = k]
                          /\ call'[curr_running] = k
                          /\ k.pc = "test" /\ k.lock = mine.lock /\ k.cv = mine.cv
    BY <1>c, <1>5 DEF CvSleep
  <2>2. mine.cv \in Queues /\ SleepIn(mine.cv)
    BY <1>a, <1>5 DEF CvSleep, InCall, CallOK, mine
  <2>3. /\ \/ stack'[curr_running].at = "user"
           \/ stack'[curr_running].at = "sleep" /\ stack'[curr_running].back = "user"
        /\ stack'[curr_running].wants = here.wants
        /\ \A t \in Tid \ {curr_running} : stack'[t] = stack[t]
        /\ UNCHANGED <<curr_running, made>>
    BY <1>a, <2>2, SleepInEffect
  <2>4. MonitorTypeOK'
    BY <1>a, <1>5, <2>1 DEF CvSleep, MonitorTypeOK
  <2>5. CallOK(curr_running)'
    BY <1>a, <1>5, <2>1, <2>3 DEF CallOK, CvSleep, InCall, mine, here
  <2> QED
    BY <1>a, <1>b, <2>1, <2>3, <2>4, <2>5, CallStepped
<1>6. CASE Leave
  <2>1. /\ \A t \in Tid \ {curr_running} : stack'[t] = stack[t]
        /\ UNCHANGED <<curr_running, made>>
    BY <1>a, <1>6, SetInterruptsEffect DEF Leave, Call
  <2>2. NoCall \in Call /\ NoCall.pc = "none"
    BY DEF NoCall, Call
  <2>3. MonitorTypeOK' /\ call'[curr_running] = NoCall
    BY <1>a, <1>6, <2>2 DEF Leave, MonitorTypeOK
  <2>4. CallOK(curr_running)'
    BY <2>1, <2>2, <2>3 DEF CallOK
  <2> QED
    BY <1>a, <1>b, <1>6, <2>1, <2>2, <2>3, <2>4, CallStepped DEF Leave
<1> QED
  BY <1>1, <1>2, <1>3, <1>4, <1>5, <1>6 DEF CallStep

(* A step made by a thread outside any call, which leaves the other        *)
(* threads' calls at their tests.                                          *)
LEMMA OutsideCalls ==
  ASSUME MInv, mine.pc = "none", MonitorTypeOK',
         \A t \in Tid : call[t].pc # "none" =>
           /\ call'[t] = call[t]
           /\ stack'[t] = stack[t]
           /\ call[t].lock \in made',
         \A t \in Tid : call[t].pc = "none" => call'[t].pc = "none"
  PROVE  MInv'
<1>1. \A t \in Tid : call[t].pc \in {"none", "test"}
  BY OthersAtTest DEF mine
<1>2. ASSUME NEW t \in Tid PROVE CallOK(t)'
  BY <1>1 DEF CallOK, MInv
<1> QED
  BY <1>2 DEF MInv

LEMMA LockCallCalls ==
  ASSUME Inv, MInv,
         \/ LockRelease \/ CvSignal \/ CvBroadcast
         \/ LockCreate \/ LockDestroy \/ CvCreate \/ CvDestroy
  PROVE  MInv'
<1>a. /\ mine.pc = "none" /\ MonitorTypeOK /\ curr_running \in Tid
      /\ \A t \in Tid : call[t].pc # "none" => call[t].lock \in Locks \cap made
      /\ Locks \subseteq Queues /\ CVs \subseteq Queues /\ Locks \cap CVs = {}
  BY MonitorAssumption
     DEF MInv, CallOK, Inv, TypeOK, LockRelease, CvSignal, CvBroadcast, CvNotify,
         LockCreate, LockDestroy, CvCreate, CvDestroy, InCall
<1>1. CASE LockRelease
  <2>1. PICK l \in Locks \cap made : Free(l)
    BY <1>1 DEF LockRelease
  <2>2. UNCHANGED <<stack, made>>
    BY <2>1, WakeupInEffect DEF Free, wakes_all
  <2>3. MonitorTypeOK'
    BY <1>a, <1>1, <2>1 DEF Free, LockRelease, MonitorTypeOK
  <2> QED
    BY <1>a, <1>1, <2>2, <2>3, OutsideCalls DEF LockRelease
<1>2. CASE CvSignal \/ CvBroadcast
  <2>1. UNCHANGED <<stack, made, mvars>>
    BY <1>2, WakeupInEffect DEF CvSignal, CvBroadcast, CvNotify
  <2>2. MonitorTypeOK'
    BY <1>a, <2>1 DEF mvars, MonitorTypeOK
  <2> QED
    BY <1>a, <2>1, <2>2, OutsideCalls DEF mvars
<1>3. CASE LockCreate
  <2>1. UNCHANGED <<stack, call>> /\ made \subseteq made'
    BY <1>3 DEF LockCreate, WaitQueueCreate
  <2>2. MonitorTypeOK'
    BY <1>a, <1>3 DEF LockCreate, MonitorTypeOK, initial_tid
  <2> QED
    BY <1>a, <2>1, <2>2, OutsideCalls
<1>4. CASE LockDestroy
  <2>1. /\ UNCHANGED <<stack, mvars>>
        /\ \A t \in Tid : call[t].lock \in made => call[t].lock \in made'
    BY <1>4 DEF LockDestroy, WaitQueueDestroy
  <2>2. MonitorTypeOK'
    BY <1>a, <2>1 DEF mvars, MonitorTypeOK
  <2> QED
    BY <1>a, <2>1, <2>2, OutsideCalls DEF mvars
<1>5. CASE CvCreate \/ CvDestroy
  <2>1. /\ UNCHANGED <<stack, mvars>>
        /\ \A l \in Locks \cap made : l \in made'
    BY <1>a, <1>5 DEF CvCreate, CvDestroy, WaitQueueCreate, WaitQueueDestroy
  <2>2. MonitorTypeOK'
    BY <1>a, <2>1 DEF mvars, MonitorTypeOK
  <2> QED
    BY <1>a, <2>1, <2>2, OutsideCalls DEF mvars
<1> QED
  BY <1>1, <1>2, <1>3, <1>4, <1>5

LEMMA DeathCalls ==
  ASSUME Inv, MInv, MonitorKillCheck \/ MonitorKill \/ MonitorExit
  PROVE  MInv'
<1>a. /\ TypeOK /\ MonitorTypeOK /\ curr_running \in Tid
      /\ call[curr_running].pc = "none"
      /\ \A t \in Tid : call[t].pc # "none" => call[t].lock \in Locks \cap made
      /\ outcome = "live"
  BY DEF MInv, CallOK, Inv, TypeOK, MonitorKillCheck, MonitorKill, MonitorExit,
         Kill, InCall, Running, here, mine
<1>1. CASE MonitorKillCheck
  <2>1. /\ \A t \in Tid \ {curr_running} : stack'[t] = stack[t]
        /\ UNCHANGED <<made, mvars>>
    BY <1>a, <1>1 DEF MonitorKillCheck, KillCheck, TypeOK
  <2>2. MonitorTypeOK'
    BY <1>a, <2>1 DEF mvars, MonitorTypeOK
  <2> QED
    BY <1>a, <2>1, <2>2, OutsideCalls DEF mvars, mine
<1>2. CASE MonitorKill
  <2>1. here.arg \in Tid
    BY <1>a, <1>2 DEF MonitorKill, Kill, Running, Inv, FrameOK, here
  <2>2. NoCall \in Call /\ NoCall.pc = "none"
    BY DEF NoCall, Call
  <2>3. /\ call'[here.arg] = NoCall
        /\ \A t \in Tid \ {here.arg} : call'[t] = call[t]
        /\ MonitorTypeOK'
    BY <1>a, <1>2, <2>1, <2>2 DEF MonitorKill, MonitorTypeOK
  <2>4. \A t \in Tid \ {here.arg, curr_running} : stack'[t] = stack[t]
    BY <1>a, <1>2, <2>1 DEF MonitorKill, Kill, TypeOK
  <2>5. \A t \in Tid : call'[t].pc # "none" => t # here.arg /\ call'[t] = call[t]
    BY <2>2, <2>3
  <2>6. \A t \in Tid : call[t].pc \in {"none", "test"}
    BY <1>a, OthersAtTest
  <2>7. made' = made /\ UNCHANGED <<lockstatus, locked_tid>>
    BY <1>2 DEF MonitorKill, Kill
  <2>8. ASSUME NEW t \in Tid PROVE CallOK(t)'
    BY <1>a, <2>4, <2>5, <2>6, <2>7 DEF CallOK, MInv
  <2> QED
    BY <2>3, <2>8 DEF MInv
<1>3. CASE MonitorExit
  <2>1. /\ \A t \in Tid \ {curr_running} : stack'[t] = stack[t]
        /\ UNCHANGED <<made, call>>
    BY <1>a, <1>3 DEF MonitorExit, ThreadExit, TypeOK
  <2>2. MonitorTypeOK'
    BY <1>a, <1>3 DEF MonitorExit, MonitorTypeOK
  <2> QED
    BY <1>a, <2>1, <2>2, OutsideCalls DEF mine
<1> QED
  BY <1>1, <1>2, <1>3

LEMMA MonitorStepInv ==
  ASSUME Inv, MInv, [MonitorNext]_allvars
  PROVE  MInv'
<1>1. CASE LockAcquire
  BY <1>1, EnterCalls DEF LockAcquire
<1>2. CASE CvWait
  BY <1>2, EnterCalls DEF CvWait
<1>3. CASE MonitorEnded \/ UNCHANGED allvars
  BY <1>3 DEF MonitorEnded, Ended, allvars, vars, mvars, MInv, MonitorTypeOK, CallOK
<1> QED
  BY <1>1, <1>2, <1>3, CallStepCalls, LockCallCalls, DeathCalls, ThreadCallCalls,
     ThreadStepCalls DEF MonitorNext

-----------------------------------------------------------------------------
LEMMA MonitorHolds ==
  ASSUME Disciplined
  PROVE  MonitorSpec => []( (Inv /\ DInv) /\ MInv )
<1>1. MonitorInit => (Inv /\ DInv) /\ MInv
  BY InitInv, DisciplineInit, MonitorInitInv DEF MonitorInit
<1>2. (Inv /\ DInv) /\ MInv /\ [MonitorNext]_allvars => ((Inv /\ DInv) /\ MInv)'
  <2> SUFFICES ASSUME Inv, DInv, MInv, [MonitorNext]_allvars
               PROVE  Inv' /\ DInv' /\ MInv'
    OBVIOUS
  <2>1. CASE Next
    BY <2>1, StepInv, DisciplineStep, MonitorStepInv
  <2>2. CASE UNCHANGED vars
    <3>1. Inv'
      BY <2>2 DEF Inv, TypeOK, CallerOK, FrameOK, ParkedOK, here, vars
    <3>2. DInv'
      BY <2>2 DEF DInv, Calm, NoFault, QueuesHoldSleepers, CallerRuns, NextReady,
                Undisturbed, VictimStays, here, vars
    <3> QED
      BY <3>1, <3>2, MonitorStepInv
  <2> QED
    BY <2>1, <2>2, Simulates
<1> QED
  BY <1>1, <1>2, PTL DEF MonitorSpec

(* Programs that use locks and condition variables are programs of the     *)
(* thread library: what holds of disciplined ones holds of them.           *)
THEOREM MonitorImplementsThreads ==
  ASSUME Disciplined
  PROVE  MonitorSpec => Spec
<1>1. MonitorInit => Init
  BY DEF MonitorInit
<1>2. (Inv /\ DInv) /\ MInv /\ [MonitorNext]_allvars => [Next]_vars
  BY Simulates
<1> QED
  BY <1>1, <1>2, MonitorHolds, PTL DEF MonitorSpec, Spec

(* Every lock's fields, every call in progress and every set of held locks *)
(* stay in their ranges.                                                   *)
THEOREM MonitorTypeCorrect ==
  ASSUME Disciplined
  PROVE  MonitorSpec => []MonitorTypeOK
<1>1. MInv => MonitorTypeOK
  BY DEF MInv
<1> QED
  BY <1>1, MonitorHolds, PTL

(* No other thread runs between the lock_release and the thread_sleep of a *)
(* cv_wait, for any number of threads, locks and condition variables.      *)
THEOREM WaitIsAtomicHolds ==
  ASSUME Disciplined
  PROVE  MonitorSpec => []WaitIsAtomic
<1>1. MInv => WaitIsAtomic
  BY DEF MInv, CallOK, WaitIsAtomic, here
<1> QED
  BY <1>1, MonitorHolds, PTL

-----------------------------------------------------------------------------
(* Whoever sleeps on a lock.                                               *)

LEMMA WaitersKept ==
  ASSUME WaitersHaveOwner, lockstatus' = lockstatus,
         \A l \in Locks : queue'[l] \in {queue[l], <<>>}
  PROVE  WaitersHaveOwner'
  BY DEF WaitersHaveOwner

(* A queue that does not exist is empty.                                   *)
LEMMA UnmadeEmpty ==
  ASSUME Inv, QueuesHoldSleepers, outcome = "live", NEW q \in Queues \ made
  PROVE  queue[q] = <<>>
<1>1. queue[q] \in Seq(Tid) /\ made \subseteq Queues
  BY DEF Inv, TypeOK
<1>2. SUFFICES ASSUME queue[q] # <<>> PROVE FALSE
  OBVIOUS
<1>3. 1 \in 1 .. Len(queue[q]) /\ queue[q][1] \in Tid
  BY <1>1, <1>2
<1>4. thread_index[queue[q][1]] = "sleep"
  BY <1>3 DEF QueuesHoldSleepers
<1>5. PICK p \in made : \E i \in 1 .. Len(queue[p]) : queue[p][i] = queue[q][1]
  BY <1>3, <1>4 DEF QueuesHoldSleepers
<1>6. PICK i \in 1 .. Len(queue[p]) : queue[p][i] = queue[q][1]
  BY <1>5
<1> QED
  BY <1>1, <1>3, <1>5, <1>6 DEF QueuesHoldSleepers

LEMMA ThreadWaiters ==
  ASSUME Inv, DInv, WaitersHaveOwner, ThreadStep \/ ThreadCall
  PROVE  WaitersHaveOwner'
<1>a. TypeOK /\ lockstatus' = lockstatus /\ Locks \subseteq Queues
  BY MonitorAssumption DEF Inv, ThreadStep, ThreadCall, mvars
<1>1. CASE ThreadStep
  <2>1. queue' = queue
    BY <1>1 DEF ThreadStep, Preempt, Stub, CreateReturn, YieldSwitch, YieldReturn,
                SleepSwitch, SleepReturn, YieldStart, Resume
  <2> QED
    BY <1>a, <2>1, WaitersKept
<1>2. CASE Create \/ YieldAny \/ YieldTid \/ StubExit \/ InterruptsSet
  <2>1. queue' = queue
    BY <1>2 DEF Create, YieldAny, YieldTid, StubExit, InterruptsSet, YieldStart, Stop
  <2> QED
    BY <1>a, <2>1, WaitersKept
<1>3. CASE MonitorSleep \/ MonitorWakeup \/ PlainCreate \/ PlainDestroy
  <2>1. \A l \in Locks : queue'[l] \in {queue[l], <<>>}
    BY <1>a, <1>3 DEF MonitorSleep, SleepOn, push_ele, MonitorWakeup, WakeOn, Plain,
                      PlainCreate, PlainDestroy, WaitQueueCreate, WaitQueueDestroy,
                      TypeOK
  <2> QED
    BY <1>a, <2>1, WaitersKept
<1> QED
  BY <1>1, <1>2, <1>3 DEF ThreadCall

(* lock_release empties the queue of the lock it frees.                    *)
LEMMA FreeWaiters ==
  ASSUME Inv, MInv, WaitersHaveOwner, NEW l \in Locks, Free(l)
  PROVE  WaitersHaveOwner'
<1>1. /\ queue \in [Queues -> Seq(Tid)] /\ l \in Queues
      /\ lockstatus \in [Locks -> {"LOCKED", "FREE"}]
  BY MonitorAssumption DEF Inv, TypeOK, MInv, MonitorTypeOK
<1>2. /\ queue'[l] = <<>>
      /\ \A m \in Locks \ {l} : queue'[m] = queue[m]
  <2>1. WakeupIn(l, TRUE) /\ Locks \subseteq Queues
    BY MonitorAssumption DEF Free, wakes_all
  <2>2. \/ queue[l] = <<>> /\ queue' = queue
        \/ queue' = [queue EXCEPT ![l] = <<>>]
    BY <2>1, WakeupInEffect DEF left
  <2> QED
    BY <1>1, <2>1, <2>2
<1>3. \A m \in Locks \ {l} : lockstatus'[m] = lockstatus[m]
  BY <1>1 DEF Free
<1> QED
  BY <1>2, <1>3 DEF WaitersHaveOwner

LEMMA WaitersStep ==
  ASSUME Inv, DInv, MInv, WaitersHaveOwner, [MonitorNext]_allvars
  PROVE  WaitersHaveOwner'
<1>a. /\ TypeOK /\ MonitorTypeOK /\ curr_running \in Tid /\ CallOK(curr_running)
      /\ Locks \subseteq Queues /\ CVs \subseteq Queues /\ Locks \cap CVs = {}
      /\ queue \in [Queues -> Seq(Tid)]
      /\ lockstatus \in [Locks -> {"LOCKED", "FREE"}]
  BY MonitorAssumption DEF Inv, TypeOK, MInv, MonitorTypeOK
<1>1. CASE LockAcquire \/ CvWait \/ Leave
  <2>1. queue' = queue /\ lockstatus' = lockstatus
    BY <1>1 DEF LockAcquire, CvWait, Leave, Enter, SetInterrupts, InterruptsSet, vars
  <2> QED
    BY <2>1, WaitersKept
<1>2. CASE LockRelease
  BY <1>2, FreeWaiters DEF LockRelease
<1>3. CASE CvRelease
  BY <1>a, <1>3, FreeWaiters DEF CvRelease, gives_lock_up, CallOK, InCall, mine
<1>4. CASE CvSignal \/ CvBroadcast
  <2>1. PICK c \in CVs, all \in BOOLEAN : WakeupIn(c, all)
    BY <1>4 DEF CvSignal, CvBroadcast, CvNotify
  <2>2. \A l \in Locks : queue'[l] = queue[l]
    BY <1>a, <2>1, WakeupInEffect
  <2> QED
    BY <1>4, <2>2, WaitersKept DEF CvSignal, CvBroadcast, CvNotify, mvars
<1>5. CASE AcquireSleep
  <2>1. /\ mine.lock \in Locks /\ lockstatus[mine.lock] = "LOCKED"
        /\ Running("user") /\ SleepIn(mine.lock) /\ lockstatus' = lockstatus
    BY <1>a, <1>5 DEF AcquireSleep, InCall, CallOK, mine, mvars
  <2>2. \A l \in Locks \ {mine.lock} : queue'[l] = queue[l]
    BY <1>a, <2>1, SleepInEffect
  <2> QED
    BY <2>1, <2>2 DEF WaitersHaveOwner
<1>6. CASE CvSleep
  <2>1. /\ mine.cv \in CVs /\ Running("user") /\ SleepIn(mine.cv)
        /\ lockstatus' = lockstatus
    BY <1>a, <1>6 DEF CvSleep, InCall, CallOK, mine
  <2>2. \A l \in Locks : queue'[l] = queue[l]
    BY <1>a, <2>1, SleepInEffect
  <2> QED
    BY <2>1, <2>2, WaitersKept
<1>7. CASE AcquireFree \/ AcquireTake
  <2>1. queue' = queue
    BY <1>7 DEF AcquireFree, AcquireTake, vars
  <2>2. \A l \in Locks : lockstatus'[l] \in {lockstatus[l], "LOCKED"}
    BY <1>a, <1>7 DEF AcquireFree, AcquireTake
  <2> QED
    BY <2>1, <2>2 DEF WaitersHaveOwner
<1>8. CASE LockCreate
  <2>1. PICK l \in Locks \ made :
          lockstatus' = [lockstatus EXCEPT ![l] = "FREE"]
    BY <1>8 DEF LockCreate
  <2>2. queue' = queue /\ queue[l] = <<>>
    BY <1>a, <1>8, UnmadeEmpty DEF LockCreate, InCall, Running, WaitQueueCreate, DInv, Calm
  <2> QED
    BY <1>a, <2>1, <2>2 DEF WaitersHaveOwner
<1>9. CASE LockDestroy \/ CvCreate \/ CvDestroy
  <2>1. \A l \in Locks : queue'[l] \in {queue[l], <<>>}
    BY <1>a, <1>9 DEF LockDestroy, CvCreate, CvDestroy, WaitQueueCreate, WaitQueueDestroy
  <2> QED
    BY <1>9, <2>1, WaitersKept DEF LockDestroy, CvCreate, CvDestroy, mvars
<1>10. CASE MonitorKillCheck \/ MonitorKill \/ MonitorExit \/ MonitorEnded
              \/ UNCHANGED allvars
  <2>1. queue' = queue /\ lockstatus' = lockstatus
    BY <1>10 DEF MonitorKillCheck, MonitorKill, MonitorExit, MonitorEnded, Ended,
                 KillCheck, Kill, ThreadExit, vars, mvars, allvars
  <2> QED
    BY <2>1, WaitersKept
<1> QED
  BY <1>1, <1>2, <1>3, <1>4, <1>5, <1>6, <1>7, <1>8, <1>9, <1>10, ThreadWaiters
     DEF MonitorNext, CallStep

(* No thread sleeps on a free lock: a lock_release is ahead that wakes it. *)
THEOREM WaitersHaveOwnerHolds ==
  ASSUME Disciplined
  PROVE  MonitorSpec => []WaitersHaveOwner
<1>1. MonitorInit => WaitersHaveOwner
  BY MonitorAssumption DEF MonitorInit, Init, WaitersHaveOwner
<1>2. (Inv /\ DInv) /\ MInv /\ WaitersHaveOwner /\ [MonitorNext]_allvars
        => WaitersHaveOwner'
  BY WaitersStep
<1> QED
  BY <1>1, <1>2, MonitorHolds, PTL DEF MonitorSpec

-----------------------------------------------------------------------------
(* Whoever holds a lock.  Nothing is promised of programs that release or  *)
(* destroy another thread's lock.                                          *)
Careful == Misuses \cap {"release_other", "destroy_locked"} = {}

HInv == HolderOwns /\ \A t \in Tid : holds[t] \subseteq made

(* Steps in which no lock changes hands.                                   *)
LEMMA HoldersKept ==
  ASSUME HInv, UNCHANGED <<lockstatus, locked_tid>>,
         \A t \in Tid : holds'[t] \subseteq holds[t] /\ holds'[t] \subseteq made'
  PROVE  HInv'
  BY DEF HInv, HolderOwns

LEMMA FreeHolders ==
  ASSUME MInv, HInv, curr_running \in Tid, NEW l \in Locks, Free(l),
         \A t \in Tid \ {curr_running} : l \notin holds[t]
  PROVE  HInv'
<1>1. made' = made
  BY WakeupInEffect DEF Free, wakes_all
<1>2. /\ holds'[curr_running] = holds[curr_running] \ {l}
      /\ \A t \in Tid \ {curr_running} : holds'[t] = holds[t]
      /\ \A m \in Locks \ {l} : /\ lockstatus'[m] = lockstatus[m]
                               /\ locked_tid'[m] = locked_tid[m]
      /\ \A t \in Tid : holds[t] \subseteq Locks
  BY DEF Free, MInv, MonitorTypeOK
<1>3. ASSUME NEW t \in Tid PROVE l \notin holds'[t] /\ holds'[t] \subseteq holds[t]
  BY <1>2
<1> QED
  BY <1>1, <1>2, <1>3 DEF HInv, HolderOwns

LEMMA HoldersStep ==
  ASSUME Careful, Inv, MInv, HInv, [MonitorNext]_allvars
  PROVE  HInv'
<1>a. /\ TypeOK /\ MonitorTypeOK /\ curr_running \in Tid /\ CallOK(curr_running)
      /\ Locks \cap CVs = {}
      /\ \A t \in Tid : holds[t] \subseteq Locks \cap made
  BY MonitorAssumption DEF Inv, TypeOK, MInv, MonitorTypeOK, HInv
<1>1. CASE LockAcquire \/ CvWait \/ Leave
  <2>1. UNCHANGED <<made, lockstatus, locked_tid, holds>>
    BY <1>1 DEF LockAcquire, CvWait, Leave, Enter, SetInterrupts, InterruptsSet, vars
  <2> QED
    BY <1>a, <2>1, HoldersKept
<1>2. CASE LockRelease
  <2>1. PICK l \in Locks \cap made : l \in holds[curr_running] /\ Free(l)
    BY <1>2 DEF LockRelease, Careful
  <2>2. \A t \in Tid \ {curr_running} : l \notin holds[t]
    BY <1>a, <2>1 DEF HInv, HolderOwns
  <2> QED
    BY <1>a, <2>1, <2>2, FreeHolders
<1>3. CASE CvRelease
  <2>1. /\ mine.lock \in Locks /\ locked_tid[mine.lock] = curr_running
        /\ Free(mine.lock)
    BY <1>a, <1>3 DEF CvRelease, gives_lock_up, CallOK, InCall, mine
  <2>2. \A t \in Tid \ {curr_running} : mine.lock \notin holds[t]
    BY <1>a, <2>1 DEF HInv, HolderOwns
  <2> QED
    BY <1>a, <2>1, <2>2, FreeHolders
<1>4. CASE AcquireTake
  <2>1. /\ mine.lock \in Locks \cap made /\ lockstatus[mine.lock] # "LOCKED"
        /\ made' = made
    BY <1>a, <1>4 DEF AcquireTake, CallOK, InCall, mine, vars
  <2>2. \A t \in Tid : mine.lock \notin holds[t]
    BY <1>a, <2>1 DEF HInv, HolderOwns
  <2>3. /\ holds'[curr_running] = holds[curr_running] \cup {mine.lock}
        /\ \A t \in Tid \ {curr_running} : holds'[t] = holds[t]
        /\ lockstatus'[mine.lock] = "LOCKED" /\ locked_tid'[mine.lock] = curr_running
        /\ \A l \in Locks \ {mine.lock} : /\ lockstatus'[l] = lockstatus[l]
                                         /\ locked_tid'[l] = locked_tid[l]
    BY <1>a, <1>4, <2>1 DEF AcquireTake, MonitorTypeOK
  <2> QED
    BY <1>a, <2>1, <2>2, <2>3 DEF HInv, HolderOwns
<1>5. CASE AcquireSleep \/ CvSleep \/ AcquireFree
  <2>1. UNCHANGED <<made, lockstatus, locked_tid, holds>>
    BY <1>5 DEF AcquireSleep, CvSleep, AcquireFree, SleepIn, SleepOn, vars, mvars
  <2> QED
    BY <1>a, <2>1, HoldersKept
<1>6. CASE CvSignal \/ CvBroadcast
  <2>1. UNCHANGED <<made, mvars>>
    BY <1>6, WakeupInEffect DEF CvSignal, CvBroadcast, CvNotify
  <2> QED
    BY <1>a, <2>1, HoldersKept DEF mvars
<1>7. CASE LockCreate
  <2>1. PICK l \in Locks \ made :
          /\ made' = made \cup {l}
          /\ lockstatus' = [lockstatus EXCEPT ![l] = "FREE"]
          /\ locked_tid' = [locked_tid EXCEPT ![l] = initial_tid]
    BY <1>7 DEF LockCreate
  <2>2. holds' = holds /\ \A t \in Tid : l \notin holds[t]
    BY <1>a, <1>7 DEF LockCreate
  <2> QED
    BY <1>a, <2>1, <2>2 DEF HInv, HolderOwns, MonitorTypeOK
<1>8. CASE LockDestroy
  <2>1. PICK l \in Locks : made' = made \ {l} /\ lockstatus[l] # "LOCKED"
    BY <1>8 DEF LockDestroy, Careful
  <2>2. \A t \in Tid : l \notin holds[t]
    BY <1>a, <2>1 DEF HInv, HolderOwns
  <2> QED
    BY <1>a, <1>8, <2>1, <2>2, HoldersKept DEF LockDestroy, mvars
<1>9. CASE CvCreate \/ CvDestroy
  <2>1. \A t \in Tid : holds[t] \subseteq made'
    BY <1>a, <1>9 DEF CvCreate, CvDestroy
  <2> QED
    BY <1>a, <1>9, <2>1, HoldersKept DEF CvCreate, CvDestroy, mvars
<1>10. CASE MonitorKillCheck \/ MonitorKill \/ MonitorExit
  <2>1. /\ made' = made /\ UNCHANGED <<lockstatus, locked_tid>>
        /\ \A t \in Tid : holds'[t] \subseteq holds[t]
    BY <1>a, <1>10 DEF MonitorKillCheck, MonitorKill, MonitorExit, KillCheck, Kill,
                       ThreadExit, mvars, MonitorTypeOK
  <2> QED
    BY <1>a, <2>1, HoldersKept
<1>11. CASE ThreadStep \/ ThreadCall
  <2>1. \A l \in Locks \cap made : l \in made'
    BY <1>11 DEF ThreadStep, Preempt, Stub, CreateReturn, YieldSwitch, YieldReturn,
         SleepSwitch, SleepReturn, YieldStart, Resume, ThreadCall, Create, YieldAny,
         YieldTid, StubExit, InterruptsSet, Stop, MonitorSleep, SleepOn, MonitorWakeup,
         WakeOn, PlainCreate, PlainDestroy, WaitQueueCreate, WaitQueueDestroy, Plain
  <2> QED
    BY <1>a, <1>11, <2>1, HoldersKept DEF ThreadStep, ThreadCall, mvars
<1>12. CASE MonitorEnded \/ UNCHANGED allvars
  BY <1>a, <1>12, HoldersKept DEF MonitorEnded, Ended, allvars, vars, mvars
<1> QED
  BY <1>1, <1>2, <1>3, <1>4, <1>5, <1>6, <1>7, <1>8, <1>9, <1>10, <1>11, <1>12
     DEF MonitorNext, CallStep

LEMMA HoldersHold ==
  ASSUME Disciplined, Careful
  PROVE  MonitorSpec => []HInv
<1>1. MonitorInit => HInv
  BY DEF MonitorInit, HInv, HolderOwns
<1>2. (Inv /\ DInv) /\ MInv /\ HInv /\ [MonitorNext]_allvars => HInv'
  BY HoldersStep
<1> QED
  BY <1>1, <1>2, MonitorHolds, PTL DEF MonitorSpec

(* The thread that a lock records is the one that holds it: its cv_wait,   *)
(* cv_signal and cv_broadcast are never ignored, also when other threads   *)
(* die inside locks and their identifiers are used again.                  *)
THEOREM HolderOwnsHolds ==
  ASSUME Disciplined, Careful
  PROVE  MonitorSpec => []HolderOwns
<1>1. HInv => HolderOwns
  BY DEF HInv
<1> QED
  BY <1>1, HoldersHold, PTL

(* No two threads hold a lock, for any number of threads and locks, with   *)
(* preemption wherever the calls leave interrupts on.                      *)
THEOREM MutualExclusionHolds ==
  ASSUME Disciplined, Careful
  PROVE  MonitorSpec => []MutualExclusion
<1>1. HInv => MutualExclusion
  BY DEF HInv, HolderOwns, MutualExclusion
<1> QED
  BY <1>1, HoldersHold, PTL

-----------------------------------------------------------------------------
(* Monitor implements Mesa, for programs that also do not die inside a     *)
(* lock: with the identifier of a dead holder a new thread could signal.   *)
Orderly == Misuses \subseteq {"relock"}

OInv ==
  /\ \A l \in Locks, t \in Tid :
       lockstatus[l] = "LOCKED" /\ locked_tid[l] = t => l \in holds[t]
  /\ outcome = "live" /\ here.at = "kill_chk" => holds[here.arg] = {}

LEMMA OwnersKept ==
  ASSUME OInv, UNCHANGED <<lockstatus, locked_tid, holds>>,
         outcome' = "live" /\ here'.at = "kill_chk" =>
           outcome = "live" /\ here.at = "kill_chk" /\ here'.arg = here.arg
  PROVE  OInv'
  BY DEF OInv

(* Where a step of the thread library leaves the running thread.           *)
LEMMA ThreadStepNotKilling ==
  ASSUME Inv, DInv, ThreadStep \/ ThreadCall
  PROVE  here'.at # "kill_chk"
<1>a. /\ TypeOK /\ curr_running \in Tid /\ here \in Frame /\ outcome = "live"
      /\ Undisturbed /\ CallerOK
      /\ \A t \in Tid \ {curr_running} : ParkedOK(t) \/ outcome # "live"
  BY DEF Inv, DInv, TypeOK, here, ThreadStep, ThreadCall, InCall, Running, Stub,
         CreateReturn, YieldSwitch, YieldReturn, SleepSwitch, SleepReturn, Preempt
<1>1. CASE Preempt \/ YieldAny \/ YieldTid \/ MonitorSleep
  <2>1. PICK f \in {"yield", "sleep"} : \E b, i :
          stack' = [stack EXCEPT ![curr_running] =
                      [@ EXCEPT !.at = f, !.back = b, !.interrupts_status = i]]
    BY <1>1 DEF Preempt, YieldAny, YieldTid, YieldStart, MonitorSleep, SleepOn, Suspend
  <2>2. curr_running' = curr_running
    BY <1>1 DEF Preempt, YieldAny, YieldTid, YieldStart, MonitorSleep, SleepOn
  <2>3. here'.at = f
    BY <1>a, <2>1, <2>2 DEF here, TypeOK, Frame
  <2> QED
    BY <2>1, <2>3
<1>2. CASE Stub \/ CreateReturn \/ InterruptsSet
  <2>1. curr_running' = curr_running /\ here.at # "kill_chk"
    BY <1>2 DEF Stub, CreateReturn, InterruptsSet, Running
  <2>2. CASE Stub
    BY <1>a, <2>1, <2>2 DEF Stub, here, TypeOK, Frame
  <2>3. CASE CreateReturn
    BY <1>a, <2>1, <2>3 DEF CreateReturn, here, TypeOK, Frame
  <2>4. CASE InterruptsSet
    BY <1>a, <2>1, <2>4 DEF InterruptsSet, here, TypeOK, Frame
  <2> QED
    BY <1>2, <2>2, <2>3, <2>4
<1>3. CASE YieldSwitch \/ SleepSwitch
  <2>1. stack' = stack /\ curr_running' = next /\ next \in Tid
    BY <1>a, <1>3 DEF YieldSwitch, SleepSwitch, Switch, CallerOK, Running, Suspended
  <2> QED
    BY <1>a, <1>3, <2>1 DEF YieldSwitch, SleepSwitch, Running, here, ParkedOK, Suspended
<1>4. CASE YieldReturn \/ SleepReturn
  <2>1. here.back = "user" /\ curr_running' = curr_running
    BY <1>a, <1>4 DEF YieldReturn, SleepReturn, Running, Resume, Suspended,
                      Undisturbed, here
  <2>2. stack' = [stack EXCEPT ![curr_running] =
                    [@ EXCEPT !.at = "user", !.back = "none",
                              !.interrupts_status = FALSE]]
    BY <1>4, <2>1 DEF YieldReturn, SleepReturn, Resume
  <2>3. stack'[curr_running].at = "user"
    BY <1>a, <2>2 DEF TypeOK, Frame, here
  <2> QED
    BY <2>1, <2>3 DEF here
<1>5. CASE Create
  BY <1>a, <1>5 DEF Create, here, TypeOK, Frame, Fresh
<1>6. CASE ThreadCall /\ (StubExit \/ MonitorWakeup \/ PlainCreate \/ PlainDestroy)
  <2>1. UNCHANGED <<stack, curr_running>>
    BY <1>6 DEF StubExit, MonitorWakeup, WakeOn, PlainCreate, PlainDestroy, Stop,
                WaitQueueCreate, WaitQueueDestroy
  <2> QED
    BY <1>6, <2>1 DEF ThreadCall, InCall, Running, here
<1> QED
  BY <1>1, <1>2, <1>3, <1>4, <1>5, <1>6 DEF ThreadStep, ThreadCall

LEMMA OwnersStep ==
  ASSUME Orderly, Inv, DInv, MInv, OInv, [MonitorNext]_allvars
  PROVE  OInv'
<1>a. /\ TypeOK /\ MonitorTypeOK /\ curr_running \in Tid /\ here \in Frame
      /\ CallOK(curr_running) /\ Locks \subseteq Queues /\ CVs \subseteq Queues
      /\ \A t \in Tid : holds[t] \subseteq Locks
  BY MonitorAssumption DEF Inv, TypeOK, MInv, MonitorTypeOK, here
<1>1. CASE LockAcquire \/ CvWait \/ Leave
  <2>1. UNCHANGED <<lockstatus, locked_tid, holds>>
    BY <1>1 DEF LockAcquire, CvWait, Leave, Enter
  <2>2. /\ Running("user")
        /\ \E on \in BOOLEAN : SetInterrupts(on)
    BY <1>a, <1>1 DEF LockAcquire, CvWait, Leave, Enter, InCall, entry_mask, mine,
                      MonitorTypeOK, Call
  <2>3. here'.at = "user"
    BY <2>2, SetInterruptsEffect DEF here
  <2> QED
    BY <2>1, <2>3, OwnersKept
<1>2. CASE AcquireSleep \/ CvSleep
  <2>1. /\ Running("user") /\ UNCHANGED <<lockstatus, locked_tid, holds>>
        /\ \E q \in Queues : SleepIn(q)
    BY <1>a, <1>2 DEF AcquireSleep, CvSleep, InCall, CallOK, mine, mvars
  <2>2. here'.at \in {"user", "sleep"}
    BY <2>1, SleepInEffect DEF here
  <2> QED
    BY <2>1, <2>2, OwnersKept
<1>3. CASE AcquireFree
  BY <1>3, OwnersKept DEF AcquireFree, InCall, Running, vars, here
<1>4. CASE AcquireTake
  <2>1. /\ mine.lock \in Locks /\ here'.at = "user"
        /\ holds'[curr_running] = holds[curr_running] \cup {mine.lock}
        /\ \A t \in Tid \ {curr_running} : holds'[t] = holds[t]
        /\ locked_tid'[mine.lock] = curr_running
        /\ \A l \in Locks \ {mine.lock} : /\ lockstatus'[l] = lockstatus[l]
                                         /\ locked_tid'[l] = locked_tid[l]
    BY <1>a, <1>4 DEF AcquireTake, InCall, Running, CallOK, mine, here, vars,
                      MonitorTypeOK
  <2> QED
    BY <2>1 DEF OInv
<1>5. CASE LockRelease \/ CvRelease
  <2>1. PICK l \in Locks : Free(l)
    BY <1>a, <1>5 DEF LockRelease, CvRelease, gives_lock_up, CallOK, InCall, mine
  <2>2. here'.at = "user"
    BY <1>5, <2>1, WakeupInEffect
       DEF Free, wakes_all, LockRelease, CvRelease, InCall, Running, here
  <2>3. /\ lockstatus'[l] = "FREE"
        /\ \A t \in Tid : holds[t] \ {l} \subseteq holds'[t]
        /\ \A m \in Locks \ {l} : /\ lockstatus'[m] = lockstatus[m]
                                  /\ locked_tid'[m] = locked_tid[m]
    BY <1>a, <2>1 DEF Free, MonitorTypeOK
  <2> QED
    BY <2>2, <2>3 DEF OInv
<1>6. CASE CvSignal \/ CvBroadcast
  <2>1. here'.at = "user" /\ UNCHANGED mvars
    BY <1>6, WakeupInEffect DEF CvSignal, CvBroadcast, CvNotify, InCall, Running, here
  <2> QED
    BY <2>1, OwnersKept DEF mvars
<1>7. CASE LockCreate
  <2>1. here'.at = "user" /\ holds' = holds
    BY <1>7 DEF LockCreate, WaitQueueCreate, Running, here
  <2>2. PICK l \in Locks : /\ lockstatus' = [lockstatus EXCEPT ![l] = "FREE"]
                           /\ locked_tid' = [locked_tid EXCEPT ![l] = initial_tid]
    BY <1>7 DEF LockCreate
  <2> QED
    BY <1>a, <2>1, <2>2 DEF OInv, MonitorTypeOK
<1>8. CASE LockDestroy \/ CvCreate \/ CvDestroy
  <2>1. here'.at = "user" /\ UNCHANGED mvars
    BY <1>8 DEF LockDestroy, CvCreate, CvDestroy, WaitQueueCreate, WaitQueueDestroy,
                Running, here
  <2> QED
    BY <2>1, OwnersKept DEF mvars
<1>9. CASE MonitorKillCheck
  <2>1. curr_running' = curr_running /\ UNCHANGED mvars
    BY <1>9 DEF MonitorKillCheck, KillCheck
  <2>2. holds[here'.arg] = {}
    BY <1>9, <2>1 DEF MonitorKillCheck, MayDie, Orderly, here
  <2> QED
    BY <2>1, <2>2 DEF OInv, mvars
<1>10. CASE MonitorKill
  <2>1. /\ here.at = "kill_chk" /\ outcome = "live" /\ here.arg \in Tid \ {curr_running}
        /\ holds[here.arg] = {}
    BY <1>a, <1>10 DEF MonitorKill, Kill, Running, Inv, FrameOK, OInv, here
  <2>2. holds' = holds
    BY <1>a, <1>10, <2>1 DEF MonitorKill, MonitorTypeOK
  <2>3. here'.at = "user"
    BY <1>a, <1>10, <2>1 DEF MonitorKill, Kill, here, TypeOK, Frame
  <2> QED
    BY <1>10, <2>2, <2>3, OwnersKept DEF MonitorKill
<1>11. CASE MonitorExit
  <2>1. holds[curr_running] = {} /\ UNCHANGED <<lockstatus, locked_tid>>
    BY <1>11 DEF MonitorExit, MayDie, Orderly
  <2>2. holds' = holds
    BY <1>a, <1>11, <2>1 DEF MonitorExit, MonitorTypeOK
  <2>3. PICK t \in Tid \ {curr_running} : curr_running' = t
    BY <1>11 DEF MonitorExit, ThreadExit, Switch
  <2>4. ParkedOK(t) /\ stack'[t] = stack[t]
    BY <1>a, <1>11, <2>3 DEF MonitorExit, ThreadExit, InCall, Running, Inv, TypeOK
  <2>5. here'.at # "kill_chk"
    BY <2>3, <2>4 DEF here, ParkedOK, Suspended
  <2> QED
    BY <2>1, <2>2, <2>5, OwnersKept
<1>12. CASE ThreadStep \/ ThreadCall
  <2>1. here'.at # "kill_chk"
    BY <1>12, ThreadStepNotKilling
  <2> QED
    BY <1>12, <2>1, OwnersKept DEF ThreadStep, ThreadCall, mvars
<1>13. CASE MonitorEnded \/ UNCHANGED allvars
  BY <1>13, OwnersKept DEF MonitorEnded, Ended, allvars, vars, mvars, here
<1> QED
  BY <1>1, <1>2, <1>3, <1>4, <1>5, <1>6, <1>7, <1>8, <1>9, <1>10, <1>11, <1>12,
     <1>13 DEF MonitorNext, CallStep

LEMMA RangeAppend ==
  ASSUME NEW S, NEW q \in Seq(S), NEW t \in S
  PROVE  Range(Append(q, t)) = Range(q) \cup {t}
<1>1. \A s \in Seq(S) : Range(s) = {s[i] : i \in 1 .. Len(s)}
  BY DEF Range
<1>2. /\ Append(q, t) \in Seq(S) /\ Len(Append(q, t)) = Len(q) + 1 /\ Len(q) \in Nat
      /\ Append(q, t)[Len(q) + 1] = t
      /\ \A i \in 1 .. Len(q) : Append(q, t)[i] = q[i]
  OBVIOUS
<1>3. Range(Append(q, t)) = {Append(q, t)[i] : i \in 1 .. Len(q) + 1}
  BY <1>1, <1>2
<1>4. Range(q) = {q[i] : i \in 1 .. Len(q)}
  BY <1>1
<1>5. \A i \in 1 .. Len(q) + 1 : i \in 1 .. Len(q) \/ i = Len(q) + 1
  BY <1>2
<1>6. \A i \in 1 .. Len(q) : i \in 1 .. Len(q) + 1
  BY <1>2
<1>7. Len(q) + 1 \in 1 .. Len(q) + 1
  BY <1>2
<1> QED
  BY <1>2, <1>3, <1>4, <1>5, <1>6, <1>7

LEMMA RangeTail ==
  ASSUME NEW S, NEW q \in Seq(S), q # <<>>,
         \A i, j \in 1 .. Len(q) : q[i] = q[j] => i = j
  PROVE  /\ Head(q) \in Range(q)
         /\ Range(Tail(q)) = Range(q) \ {Head(q)}
<1>1. \A s \in Seq(S) : Range(s) = {s[i] : i \in 1 .. Len(s)}
  BY DEF Range
<1>2. /\ Tail(q) \in Seq(S) /\ Len(Tail(q)) = Len(q) - 1 /\ Len(q) \in Nat \ {0}
      /\ Head(q) = q[1] /\ 1 \in 1 .. Len(q)
      /\ \A i \in 1 .. Len(q) - 1 : Tail(q)[i] = q[i + 1]
  OBVIOUS
<1>3. \A i \in 1 .. Len(q) : i # 1 => i - 1 \in 1 .. Len(q) - 1 /\ (i - 1) + 1 = i
  BY <1>2
<1>4. \A i \in 1 .. Len(q) - 1 : i + 1 \in 1 .. Len(q) /\ i + 1 # 1
  BY <1>2
<1>5. ASSUME NEW x \in Range(q) \ {Head(q)} PROVE x \in Range(Tail(q))
  <2>1. PICK i \in 1 .. Len(q) : x = q[i]
    BY <1>1
  <2>2. i # 1
    BY <1>2, <1>5, <2>1
  <2>3. Tail(q)[i - 1] = x
    BY <1>2, <1>3, <2>1, <2>2
  <2> QED
    BY <1>1, <1>2, <1>3, <2>2, <2>3
<1>6. ASSUME NEW x \in Range(Tail(q)) PROVE x \in Range(q) \ {Head(q)}
  <2>0. Range(Tail(q)) = {Tail(q)[i] : i \in 1 .. Len(q) - 1}
    BY <1>1, <1>2
  <2>1. PICK i \in 1 .. Len(q) - 1 : x = Tail(q)[i]
    BY <1>6, <2>0
  <2> QED
    BY <1>1, <1>2, <1>4, <2>1
<1> QED
  BY <1>1, <1>2, <1>5, <1>6

(* What the abstract monitors look like, before and after a step.          *)
LEMMA MesaState ==
  /\ InsideState = [l \in Locks |-> Inside(l)]
  /\ InsideState' = [l \in Locks |-> Inside(l)']
  /\ WaitingState = [c \in CVs |-> Range(queue[c])]
  /\ WaitingState' = [c \in CVs |-> Range(queue'[c])]
  BY DEF InsideState, WaitingState

(* Steps in which no thread enters, leaves or waits.                       *)
LEMMA MesaStutter ==
  ASSUME \A l \in Locks : Inside(l)' = Inside(l),
         \A c \in CVs : Range(queue'[c]) = Range(queue[c])
  PROVE  UNCHANGED Monitors!vars
<1>1. InsideState' = InsideState
  BY MesaState
<1>2. WaitingState' = WaitingState
  BY MesaState
<1> QED
  BY <1>1, <1>2 DEF Monitors!vars

(* Only empty queues are destroyed.                                        *)
LEMMA DestroyKeeps ==
  ASSUME Disciplined, Inv, WaitQueueDestroy
  PROVE  queue' = queue
<1>1. PICK q \in made : /\ (IF queue[q] = <<>> THEN "empty" ELSE "waiting") \in DestroyOf
                        /\ queue' = [queue EXCEPT ![q] = <<>>]
  BY DEF WaitQueueDestroy
<1>2. queue[q] = <<>>
  BY <1>1 DEF Disciplined
<1>3. queue \in [Queues -> Seq(Tid)] /\ q \in Queues
  BY DEF Inv, TypeOK
<1> QED
  BY <1>1, <1>2, <1>3

LEMMA ThreadQueues ==
  ASSUME Disciplined, Inv, ThreadStep \/ ThreadCall, NEW c \in CVs
  PROVE  queue'[c] = queue[c]
<1>a. queue \in [Queues -> Seq(Tid)] /\ c \in Queues
  BY MonitorAssumption DEF Inv, TypeOK
<1>1. CASE ThreadStep
  BY <1>1 DEF ThreadStep, Preempt, Stub, CreateReturn, YieldSwitch, YieldReturn,
              SleepSwitch, SleepReturn, YieldStart, Resume
<1>2. CASE Create \/ YieldAny \/ YieldTid \/ StubExit \/ InterruptsSet
  BY <1>2 DEF Create, YieldAny, YieldTid, StubExit, InterruptsSet, YieldStart, Stop
<1>3. CASE MonitorSleep \/ MonitorWakeup
  BY <1>a, <1>3 DEF MonitorSleep, SleepOn, push_ele, MonitorWakeup, WakeOn, Plain
<1>4. CASE PlainCreate \/ PlainDestroy
  BY <1>4, DestroyKeeps DEF PlainCreate, PlainDestroy, WaitQueueCreate
<1> QED
  BY <1>1, <1>2, <1>3, <1>4 DEF ThreadCall

(* A thread leaves lock l, with no lock call of its own in a cv_sleep on   *)
(* l, or enters it.                                                        *)
LEMMA MesaAcquireStep ==
  ASSUME Inv, MInv, HInv, AcquireTake
  PROVE  Monitors!Next
<1>a. /\ MonitorTypeOK /\ curr_running \in Tid /\ CallOK(curr_running)
  BY DEF Inv, TypeOK, MInv
<1>0. PICK l \in Locks : l = mine.lock
  BY <1>a DEF AcquireTake, CallOK, InCall, mine
<1>1. /\ l \in Locks /\ lockstatus[l] # "LOCKED" /\ mine.pc = "take" /\ queue' = queue
  BY <1>a, <1>0 DEF AcquireTake, CallOK, InCall, mine, vars
<1>2. \A t \in Tid : l \notin holds[t]
  BY <1>a, <1>1 DEF HInv, HolderOwns
<1>3. \A t \in Tid : call[t].pc # "cv_sleep" /\ call'[t].pc # "cv_sleep"
  <2>1. \A t \in Tid : call[t].pc # "cv_sleep"
    BY <1>1, OthersAtTest DEF mine
  <2>2. call'[curr_running].pc = "leave"
    BY <1>a DEF AcquireTake, Goto, MonitorTypeOK, Call
  <2>3. \A t \in Tid \ {curr_running} : call'[t] = call[t]
    BY <1>a DEF AcquireTake, Goto, MonitorTypeOK
  <2> QED
    BY <2>1, <2>2, <2>3
<1>4. /\ holds'[curr_running] = holds[curr_running] \cup {l}
      /\ \A t \in Tid \ {curr_running} : holds'[t] = holds[t]
  BY <1>a, <1>0 DEF AcquireTake, MonitorTypeOK
<1>5. Inside(l) = {} /\ Inside(l)' = {curr_running}
  BY <1>a, <1>2, <1>3, <1>4 DEF Inside
<1>6. \A m \in Locks \ {l} : Inside(m)' = Inside(m)
  BY <1>3, <1>4 DEF Inside
<1>7. /\ InsideState[l] = {} /\ WaitingState' = WaitingState
      /\ InsideState' = [InsideState EXCEPT ![l] = {curr_running}]
  BY <1>1, <1>5, <1>6, MesaState
<1>8. Monitors!Acquire(curr_running, l)
  BY <1>7 DEF Monitors!Acquire
<1> QED
  BY <1>1, <1>8, <1>a DEF Monitors!Next

LEMMA MesaReleaseStep ==
  ASSUME Orderly, Inv, MInv, LockRelease
  PROVE  Monitors!Next
<1>a. /\ MonitorTypeOK /\ curr_running \in Tid /\ mine.pc = "none"
      /\ queue \in [Queues -> Seq(Tid)] /\ Locks \cap CVs = {}
      /\ Locks \subseteq Queues /\ CVs \subseteq Queues
  BY MonitorAssumption DEF Inv, TypeOK, MInv, LockRelease, InCall
<1>1. PICK l \in Locks : l \in holds[curr_running] /\ Free(l)
  BY DEF LockRelease, Orderly
<1>2. call' = call /\ \A t \in Tid : call[t].pc # "cv_sleep"
  BY <1>a, OthersAtTest DEF LockRelease, mine
<1>3. /\ holds'[curr_running] = holds[curr_running] \ {l}
      /\ \A t \in Tid \ {curr_running} : holds'[t] = holds[t]
  BY <1>a, <1>1 DEF Free, MonitorTypeOK
<1>4. \A c \in CVs : queue'[c] = queue[c]
  BY <1>a, <1>1, WakeupInEffect DEF Free, wakes_all
<1>5. Inside(l)' = Inside(l) \ {curr_running} /\ curr_running \in Inside(l)
  BY <1>a, <1>1, <1>2, <1>3 DEF Inside
<1>6. \A m \in Locks \ {l} : Inside(m)' = Inside(m)
  BY <1>2, <1>3 DEF Inside
<1>7. /\ curr_running \in InsideState[l] /\ WaitingState' = WaitingState
      /\ InsideState' = [InsideState EXCEPT ![l] = @ \ {curr_running}]
  BY <1>4, <1>5, <1>6, MesaState
<1>8. Monitors!Release(curr_running, l)
  BY <1>7 DEF Monitors!Release
<1> QED
  BY <1>8, <1>a DEF Monitors!Next

(* The thread_sleep of cv_wait: a wait, or a mere release of the lock when *)
(* no other thread is ready.                                               *)
LEMMA MesaWaitStep ==
  ASSUME Inv, MInv, HInv, CvSleep
  PROVE  Monitors!Next
<1>a. /\ MonitorTypeOK /\ curr_running \in Tid /\ CallOK(curr_running)
      /\ queue \in [Queues -> Seq(Tid)] /\ CVs \subseteq Queues
  BY MonitorAssumption DEF Inv, TypeOK, MInv
<1>0. PICK l \in Locks, c \in CVs : l = mine.lock /\ c = mine.cv
  BY <1>a DEF CvSleep, CallOK, InCall, mine
<1>1. /\ l \in Locks /\ c \in CVs /\ lockstatus[l] # "LOCKED" /\ mine.pc = "cv_sleep"
      /\ Running("user") /\ SleepIn(c) /\ holds' = holds
  BY <1>a, <1>0 DEF CvSleep, CallOK, InCall, mine
<1>2. l \notin holds[curr_running]
  BY <1>a, <1>1 DEF HInv, HolderOwns
<1>3. \A t \in Tid \ {curr_running} : call'[t] = call[t] /\ call[t].pc # "cv_sleep"
  BY <1>a, OthersAtTest DEF CvSleep, Goto, MonitorTypeOK
<1>4. call'[curr_running].pc = "test"
  BY <1>a DEF CvSleep, Goto, MonitorTypeOK, Call
<1>5. call[curr_running].pc = "cv_sleep" /\ call[curr_running].lock = l
  BY <1>0, <1>1 DEF mine
<1>6. Inside(l)' = Inside(l) \ {curr_running} /\ curr_running \in Inside(l)
  BY <1>a, <1>1, <1>2, <1>3, <1>4, <1>5 DEF Inside
<1>7. \A m \in Locks \ {l} : Inside(m)' = Inside(m)
  BY <1>1, <1>3, <1>4, <1>5 DEF Inside
<1>8. /\ curr_running \in InsideState[l]
      /\ InsideState' = [InsideState EXCEPT ![l] = @ \ {curr_running}]
  BY <1>1, <1>6, <1>7, MesaState
<1>9. CASE queue' = queue
  <2>1. WaitingState' = WaitingState
    BY <1>9, MesaState
  <2>2. Monitors!Release(curr_running, l)
    BY <1>8, <2>1 DEF Monitors!Release
  <2> QED
    BY <1>1, <2>2, <1>a DEF Monitors!Next
<1>10. CASE queue' = [queue EXCEPT ![c] = Append(@, curr_running)]
  <2>1. /\ Range(queue'[c]) = Range(queue[c]) \cup {curr_running}
        /\ \A d \in CVs \ {c} : queue'[d] = queue[d]
    BY <1>a, <1>1, <1>10, RangeAppend
  <2>2. WaitingState' = [WaitingState EXCEPT ![c] = @ \cup {curr_running}]
    BY <1>1, <2>1, MesaState
  <2>3. Monitors!Wait(curr_running, c, l)
    BY <1>8, <2>2 DEF Monitors!Wait
  <2> QED
    BY <1>1, <2>3, <1>a DEF Monitors!Next
<1> QED
  BY <1>a, <1>1, <1>9, <1>10, SleepInEffect

LEMMA MesaSignalStep ==
  ASSUME Inv, DInv, MInv, OInv, CvSignal \/ CvBroadcast
  PROVE  Monitors!Next \/ UNCHANGED Monitors!vars
<1>a. /\ MonitorTypeOK /\ curr_running \in Tid /\ outcome = "live"
      /\ queue \in [Queues -> Seq(Tid)] /\ CVs \subseteq Queues
  BY MonitorAssumption DEF Inv, TypeOK, MInv, CvSignal, CvBroadcast, CvNotify, InCall, Running
<1>1. PICK all \in BOOLEAN, c \in CVs, l \in Locks : owns(l) /\ WakeupIn(c, all)
  BY DEF CvSignal, CvBroadcast, CvNotify
<1>2. UNCHANGED mvars
  BY DEF CvSignal, CvBroadcast, CvNotify
<1>3. \A m \in Locks : Inside(m)' = Inside(m)
  BY <1>2 DEF Inside, mvars
<1>4. InsideState' = InsideState
  BY <1>3, MesaState
<1>5. curr_running \in InsideState[l]
  <2>1. l \in holds[curr_running]
    BY <1>a, <1>1 DEF OInv, owns
  <2> QED
    BY <1>a, <2>1, MesaState DEF Inside
<1>6. CASE queue' = queue
  BY <1>3, <1>6, MesaStutter
<1>7. CASE queue[c] # <<>> /\ queue' = [queue EXCEPT ![c] = left(c, all)]
  <2>1. \A d \in CVs \ {c} : queue'[d] = queue[d]
    BY <1>a, <1>7
  <2>2. CASE all
    <3>1. queue'[c] = <<>>
      BY <1>a, <1>7, <2>2 DEF left
    <3>2. Range(queue'[c]) = {}
      BY <3>1 DEF Range
    <3>3. WaitingState' = [WaitingState EXCEPT ![c] = {}]
      BY <2>1, <3>2, MesaState
    <3>4. Monitors!Broadcast(curr_running, c)
      BY <1>4, <1>5, <3>3 DEF Monitors!Broadcast
    <3> QED
      BY <1>a, <3>4 DEF Monitors!Next
  <2>3. CASE ~all
    <3>1. queue'[c] = Tail(queue[c])
      BY <1>a, <1>7, <2>3 DEF left
    <3>2. \A i, j \in 1 .. Len(queue[c]) : queue[c][i] = queue[c][j] => i = j
      BY <1>a DEF DInv, Calm, QueuesHoldSleepers
    <3>3. /\ Head(queue[c]) \in Range(queue[c])
          /\ Range(queue'[c]) = Range(queue[c]) \ {Head(queue[c])}
      BY <1>a, <1>7, <3>1, <3>2, RangeTail
    <3>4. WaitingState' = [WaitingState EXCEPT ![c] = @ \ {Head(queue[c])}]
      BY <2>1, <3>3, MesaState
    <3>5. Head(queue[c]) \in WaitingState[c]
      BY <3>3, MesaState
    <3>6. Monitors!Signal(curr_running, c)
      BY <1>4, <1>5, <3>4, <3>5 DEF Monitors!Signal
    <3> QED
      BY <1>a, <3>6 DEF Monitors!Next
  <2> QED
    BY <2>2, <2>3
<1> QED
  BY <1>1, <1>6, <1>7, WakeupInEffect

(* Everything else is nothing to the abstract monitors.                    *)
LEMMA MesaOtherStep ==
  ASSUME Disciplined, Orderly, Inv, DInv, MInv, OInv,
         [MonitorNext]_allvars,
         ~AcquireTake, ~LockRelease, ~CvSleep, ~CvSignal, ~CvBroadcast
  PROVE  UNCHANGED Monitors!vars
<1>a. /\ MonitorTypeOK /\ TypeOK /\ curr_running \in Tid /\ CallOK(curr_running)
      /\ queue \in [Queues -> Seq(Tid)] /\ Locks \cap CVs = {}
      /\ Locks \subseteq Queues /\ CVs \subseteq Queues
  BY MonitorAssumption DEF Inv, TypeOK, MInv
<1>b. ASSUME UNCHANGED <<holds, call>>, NEW l \in Locks
      PROVE  Inside(l)' = Inside(l)
  BY <1>b DEF Inside
<1>1. CASE LockAcquire \/ CvWait \/ Leave \/ AcquireFree
  <2>1. queue' = queue /\ holds' = holds
    BY <1>1 DEF LockAcquire, CvWait, Leave, Enter, AcquireFree, SetInterrupts,
                InterruptsSet, vars
  <2>2. call[curr_running].pc # "cv_sleep"
    BY <1>1 DEF LockAcquire, CvWait, Leave, Enter, AcquireFree, InCall, mine
  <2>3. call'[curr_running].pc # "cv_sleep"
    BY <1>a, <1>1 DEF LockAcquire, CvWait, Leave, Enter, AcquireFree, Goto, NoCall,
                      MonitorTypeOK, Call
  <2>4. \A t \in Tid \ {curr_running} : call'[t] = call[t]
    BY <1>a, <1>1 DEF LockAcquire, CvWait, Leave, Enter, AcquireFree, Goto, MonitorTypeOK
  <2>5. \A l \in Locks : Inside(l)' = Inside(l)
    BY <1>a, <2>1, <2>2, <2>3, <2>4 DEF Inside
  <2> QED
    BY <2>1, <2>5, MesaStutter
<1>2. CASE AcquireSleep
  <2>1. /\ mine.lock \in Locks /\ Running("user") /\ SleepIn(mine.lock)
        /\ UNCHANGED mvars
    BY <1>a, <1>2 DEF AcquireSleep, InCall, CallOK, mine
  <2>2. \A c \in CVs : queue'[c] = queue[c]
    BY <1>a, <2>1, SleepInEffect
  <2> QED
    BY <1>b, <2>1, <2>2, MesaStutter DEF mvars
<1>3. CASE CvRelease
  <2>1. PICK m \in Locks : m = mine.lock /\ m \in holds[curr_running] /\ Free(m)
    BY <1>a, <1>3 DEF CvRelease, gives_lock_up, InCall, CallOK, mine, OInv
  <2>2. /\ holds'[curr_running] = holds[curr_running] \ {m}
        /\ \A t \in Tid \ {curr_running} : holds'[t] = holds[t] /\ call'[t] = call[t]
    BY <1>a, <1>3, <2>1 DEF CvRelease, Goto, Free, MonitorTypeOK
  <2>3. /\ call[curr_running].pc = "cv_release"
        /\ call'[curr_running].pc = "cv_sleep" /\ call'[curr_running].lock = m
    BY <1>a, <1>3, <2>1 DEF CvRelease, InCall, Goto, MonitorTypeOK, Call, mine
  <2>4. \A l \in Locks : Inside(l)' = Inside(l)
    BY <1>a, <2>1, <2>2, <2>3 DEF Inside
  <2>5. \A c \in CVs : queue'[c] = queue[c]
    <3>1. WakeupIn(m, TRUE)
      BY <2>1 DEF Free, wakes_all
    <3>2. queue' = queue \/ queue' = [queue EXCEPT ![m] = left(m, TRUE)]
      BY <3>1, WakeupInEffect
    <3>3. \A c \in CVs : c # m /\ c \in Queues
      BY <1>a
    <3> QED
      BY <1>a, <3>2, <3>3
  <2> QED
    BY <2>4, <2>5, MesaStutter
<1>4. CASE LockCreate \/ LockDestroy \/ CvCreate \/ CvDestroy
  <2>1. queue' = queue /\ UNCHANGED <<holds, call>>
    BY <1>4, DestroyKeeps DEF LockCreate, LockDestroy, CvCreate, CvDestroy,
                              WaitQueueCreate, mvars
  <2> QED
    BY <1>b, <2>1, MesaStutter
<1>5. CASE MonitorKillCheck
  BY <1>b, <1>5, MesaStutter DEF MonitorKillCheck, KillCheck, mvars
<1>6. CASE MonitorKill
  <2>1. /\ here.arg \in Tid \ {curr_running} /\ holds[here.arg] = {} /\ queue' = queue
    BY <1>a, <1>6 DEF MonitorKill, Kill, Running, Inv, FrameOK, OInv, here
  <2>2. holds' = holds
    BY <1>a, <1>6, <2>1 DEF MonitorKill, MonitorTypeOK
  <2>3. /\ \A t \in Tid \ {here.arg} : call'[t] = call[t]
        /\ call'[here.arg].pc = "none" /\ call[here.arg].pc # "cv_sleep"
    BY <1>a, <1>6, <2>1, OthersAtTest DEF MonitorKill, MonitorTypeOK, NoCall
  <2>4. \A l \in Locks : Inside(l)' = Inside(l)
    BY <2>2, <2>3 DEF Inside
  <2> QED
    BY <2>1, <2>4, MesaStutter
<1>7. CASE MonitorExit
  <2>1. holds[curr_running] = {} /\ call' = call /\ queue' = queue
    BY <1>7 DEF MonitorExit, MayDie, Orderly, ThreadExit
  <2>2. holds' = holds
    BY <1>a, <1>7, <2>1 DEF MonitorExit, MonitorTypeOK
  <2> QED
    BY <1>b, <2>1, <2>2, MesaStutter
<1>8. CASE ThreadStep \/ ThreadCall
  <2>1. UNCHANGED <<holds, call>>
    BY <1>8 DEF ThreadStep, ThreadCall, mvars
  <2> QED
    BY <1>b, <1>8, <2>1, ThreadQueues, MesaStutter
<1>9. CASE MonitorEnded \/ UNCHANGED allvars
  BY <1>b, <1>9, MesaStutter DEF MonitorEnded, Ended, allvars, vars, mvars
<1> QED
  BY <1>1, <1>2, <1>3, <1>4, <1>5, <1>6, <1>7, <1>8, <1>9 DEF MonitorNext, CallStep

LEMMA MesaInit == MonitorInit => Monitors!Init
<1> SUFFICES ASSUME MonitorInit PROVE Monitors!Init
  OBVIOUS
<1>1. \A l \in Locks : Inside(l) = {}
  BY DEF MonitorInit, Inside, NoCall
<1>2. \A c \in CVs : Range(queue[c]) = {}
  BY MonitorAssumption DEF MonitorInit, Init, Range
<1> QED
  BY <1>1, <1>2, MesaState DEF Monitors!Init

(* The locks and condition variables of thread.c are Mesa monitors, for    *)
(* any number of threads, locks and condition variables: cv_wait is one    *)
(* step for whoever signals, and only a thread inside a lock signals.      *)
THEOREM MonitorImplementsMesa ==
  ASSUME Disciplined, Orderly
  PROVE  MonitorSpec => ImplementsMesa
<1>1. Careful
  BY DEF Orderly, Careful
<1>2. MonitorInit => OInv
  <2>1. 0 \in Tid
    BY ThreadsAssumption DEF Tid
  <2> QED
    BY <2>1 DEF MonitorInit, Init, OInv, here, Fresh
<1>3. (Inv /\ DInv) /\ MInv /\ OInv /\ [MonitorNext]_allvars => OInv'
  BY OwnersStep
<1>4. (Inv /\ DInv) /\ MInv /\ HInv /\ OInv /\ [MonitorNext]_allvars
        => [Monitors!Next]_Monitors!vars
  BY MesaAcquireStep, MesaReleaseStep, MesaWaitStep, MesaSignalStep, MesaOtherStep
<1>5. MonitorSpec => []HInv
  BY <1>1, HoldersHold
<1> QED
  BY <1>2, <1>3, <1>4, <1>5, MonitorHolds, MesaInit, PTL
     DEF MonitorSpec, ImplementsMesa, Monitors!Spec

-----------------------------------------------------------------------------
(* lock_acquire with interrupts off never finds itself alone: with one     *)
(* lock, and no wait queues but its own and those of condition variables,  *)
(* the thread that holds the lock is ready to run whenever another waits.  *)

(* A program with one lock, used as thread.h says.                         *)
OneLock ==
  /\ \A l, m \in Locks : l = m
  /\ Plain = {}
  /\ Misuses = {}

CanRun(t) == thread_index[t] \in {"ready", "running"}

(* A lock that is taken has an owner; a thread that holds the lock is not  *)
(* about to wait, and has not gone to sleep.                               *)
SInv ==
  /\ \A l \in Locks : lockstatus[l] = "LOCKED" => locked_tid[l] \in Tid
  /\ \A t \in Tid : call[t].pc \in {"test", "cv_sleep"} => holds[t] = {}
  /\ outcome = "live" => \A t \in Tid : holds[t] # {} => CanRun(t)

LEMMA InitSInv == MonitorInit => SInv
BY DEF MonitorInit, SInv, NoCall

(* thread_wakeup and the steps of the library and of the timer.            *)
LEMMA WakeupCanRun ==
  ASSUME Inv, NEW q, NEW all, WakeupIn(q, all) \/ WakeOn(q, all),
         NEW t \in Tid, CanRun(t)
  PROVE  CanRun(t)'
BY DEF WakeupIn, WakeOn, CanRun, vars

LEMMA LibraryCanRun ==
  ASSUME Inv, Plain = {}, ThreadStep \/ ThreadCall, NEW t \in Tid, CanRun(t)
  PROVE  CanRun(t)'
<1>a. TypeOK /\ curr_running \in Tid
  BY DEF Inv, TypeOK
<1>1. CASE YieldSwitch
  BY <1>a, <1>1 DEF YieldSwitch, requeued, free_killed, CanRun, TypeOK
<1>2. CASE SleepSwitch
  BY <1>a, <1>2 DEF SleepSwitch, CanRun, TypeOK
<1>3. CASE YieldReturn
  BY <1>a, <1>3 DEF YieldReturn, free_killed, CanRun
<1>4. CASE Create
  BY <1>a, <1>4 DEF Create, CanRun, TypeOK
<1>5. CASE Preempt \/ Stub \/ CreateReturn \/ SleepReturn \/ YieldAny \/ YieldTid
           \/ StubExit \/ InterruptsSet \/ PlainCreate \/ PlainDestroy
  <2>1. thread_index' = thread_index
    BY <1>5 DEF Preempt, YieldStart, Stub, CreateReturn, SleepReturn, YieldAny,
       YieldTid, StubExit, Stop, InterruptsSet, PlainCreate, PlainDestroy,
       WaitQueueCreate, WaitQueueDestroy
  <2> QED
    BY <2>1 DEF CanRun
<1>6. CASE MonitorSleep \/ MonitorWakeup
  BY <1>6 DEF MonitorSleep, MonitorWakeup
<1> QED
  BY <1>1, <1>2, <1>3, <1>4, <1>5, <1>6 DEF ThreadStep, ThreadCall

(* A step that takes no lock and moves nobody to a wait.                   *)
LEMMA SInvKept ==
  ASSUME SInv, UNCHANGED locked_tid,
         \A l \in Locks : lockstatus'[l] = "LOCKED" => lockstatus[l] = "LOCKED",
         \A t \in Tid : holds'[t] \subseteq holds[t],
         \A t \in Tid : call'[t].pc \in {"test", "cv_sleep"} =>
                          call[t].pc \in {"test", "cv_sleep"} \/ holds'[t] = {},
         outcome' = "live" => outcome = "live",
         \A t \in Tid : holds'[t] # {} /\ CanRun(t) => CanRun(t)'
  PROVE  SInv'
<1>1. \A t \in Tid : holds'[t] # {} => holds[t] # {}
  OBVIOUS
<1>2. \A t \in Tid : call'[t].pc \in {"test", "cv_sleep"} => holds'[t] = {}
  BY DEF SInv
<1>3. outcome' = "live" => \A t \in Tid : holds'[t] # {} => CanRun(t)'
  BY <1>1 DEF SInv
<1> QED
  BY <1>2, <1>3 DEF SInv

LEMMA SStep ==
  ASSUME OneLock, Inv, DInv, MInv, OInv, SInv, [MonitorNext]_allvars
  PROVE  SInv'
<1>a. /\ TypeOK /\ MonitorTypeOK /\ curr_running \in Tid /\ CallOK(curr_running)
      /\ Locks \subseteq Queues /\ CVs \subseteq Queues
      /\ \A t \in Tid : holds[t] \subseteq Locks /\ call[t] \in Call
      /\ Plain = {}
  BY MonitorAssumption DEF Inv, TypeOK, MInv, MonitorTypeOK, OneLock
<1>1. CASE LockAcquire \/ CvWait \/ Leave
  <2>1. /\ UNCHANGED <<lockstatus, locked_tid, holds>>
        /\ \E on : SetInterrupts(on)
        /\ \E c \in {"test", "cv_release", "none"} :
             /\ \A t \in Tid \ {curr_running} : call'[t] = call[t]
             /\ call'[curr_running].pc = c
             /\ c = "test" => holds[curr_running] = {}
    <3>1. CASE LockAcquire
      <4>1. PICK l \in Locks : /\ l \notin holds[curr_running]
                               /\ Enter("test", l, NoQueue)
        BY <3>1 DEF LockAcquire, OneLock
      <4>2. holds[curr_running] = {}
        BY <1>a, <4>1 DEF OneLock
      <4> QED
        BY <1>a, <4>1, <4>2 DEF Enter, MonitorTypeOK
    <3>2. CASE CvWait
      BY <1>a, <3>2 DEF CvWait, Enter, MonitorTypeOK
    <3>3. CASE Leave
      BY <1>a, <3>3 DEF Leave, NoCall, MonitorTypeOK
    <3> QED
      BY <1>1, <3>1, <3>2, <3>3
  <2>2. UNCHANGED <<thread_index, outcome>>
    BY <2>1 DEF SetInterrupts, InterruptsSet, vars
  <2> QED
    BY <1>a, <2>1, <2>2, SInvKept DEF CanRun
<1>2. CASE AcquireSleep \/ CvSleep
  <2>1. /\ UNCHANGED <<lockstatus, locked_tid, holds>> /\ holds[curr_running] = {}
        /\ \A t \in Tid \ {curr_running} : call'[t] = call[t]
    BY <1>a, <1>2 DEF AcquireSleep, CvSleep, InCall, mine, mvars, SInv, Goto,
                      MonitorTypeOK
  <2>2. /\ outcome' = outcome
        /\ \A t \in Tid \ {curr_running} : thread_index'[t] = thread_index[t]
    BY <1>a, <1>2 DEF AcquireSleep, CvSleep, SleepIn, SleepOn, vars, TypeOK
  <2> QED
    BY <1>a, <2>1, <2>2, SInvKept DEF CanRun
<1>3. CASE AcquireFree
  <2>1. /\ UNCHANGED <<thread_index, outcome, lockstatus, locked_tid, holds>>
        /\ \A t \in Tid \ {curr_running} : call'[t] = call[t]
        /\ call'[curr_running].pc = "take"
    BY <1>a, <1>3 DEF AcquireFree, Goto, vars, MonitorTypeOK, Call
  <2> QED
    BY <1>a, <2>1, SInvKept DEF CanRun
<1>4. CASE AcquireTake
  <2>1. /\ mine.lock \in Locks /\ UNCHANGED <<thread_index, outcome>> /\ outcome = "live"
        /\ \A t \in Tid \ {curr_running} : call'[t] = call[t] /\ holds'[t] = holds[t]
        /\ call'[curr_running].pc = "leave"
        /\ locked_tid'[mine.lock] = curr_running
        /\ \A l \in Locks \ {mine.lock} : /\ lockstatus'[l] = lockstatus[l]
                                         /\ locked_tid'[l] = locked_tid[l]
    BY <1>a, <1>4 DEF AcquireTake, InCall, Running, CallOK, mine, vars, Goto,
                      MonitorTypeOK, Call
  <2>2. CanRun(curr_running)
    BY <1>a, <1>4 DEF AcquireTake, InCall, Running, DInv, Calm, CallerRuns, CanRun, here
  <2> QED
    BY <1>a, <2>1, <2>2 DEF SInv, CanRun
<1>5. CASE LockRelease \/ CvRelease
  <2>1. PICK l \in Locks : Free(l)
    BY <1>a, <1>5 DEF LockRelease, CvRelease, gives_lock_up, CallOK, InCall, mine
  <2>2. /\ lockstatus' = [lockstatus EXCEPT ![l] = "FREE"]
        /\ locked_tid' = [locked_tid EXCEPT ![l] = NoTid]
        /\ holds' = [holds EXCEPT ![curr_running] = @ \ {l}]
        /\ WakeupIn(l, TRUE)
    BY <2>1 DEF Free, wakes_all
  <2>3. holds'[curr_running] = {}
    BY <1>a, <2>2 DEF OneLock, MonitorTypeOK
  <2>4. /\ \A t \in Tid \ {curr_running} : call'[t] = call[t] /\ holds'[t] = holds[t]
        /\ outcome' = outcome
    BY <1>a, <1>5, <2>2 DEF LockRelease, CvRelease, Goto, WakeupIn, WakeOn, vars,
                            MonitorTypeOK
  <2>5. \A t \in Tid : CanRun(t) => CanRun(t)'
    BY <2>2, WakeupCanRun
  <2>6. \A m \in Locks : lockstatus'[m] = "LOCKED" => locked_tid'[m] \in Tid
    BY <1>a, <2>2 DEF SInv, MonitorTypeOK
  <2> QED
    BY <2>3, <2>4, <2>5, <2>6 DEF SInv
<1>6. CASE CvSignal \/ CvBroadcast
  <2>1. PICK c \in CVs, all \in BOOLEAN : WakeupIn(c, all) /\ UNCHANGED mvars
    BY <1>6 DEF CvSignal, CvBroadcast, CvNotify
  <2>2. \A t \in Tid : CanRun(t) => CanRun(t)'
    BY <2>1, WakeupCanRun
  <2>3. outcome' = outcome
    BY <2>1 DEF WakeupIn, WakeOn, vars
  <2> QED
    BY <2>1, <2>2, <2>3, SInvKept DEF mvars
<1>7. CASE LockCreate
  <2>1. PICK l \in Locks : /\ lockstatus' = [lockstatus EXCEPT ![l] = "FREE"]
                           /\ locked_tid' = [locked_tid EXCEPT ![l] = initial_tid]
    BY <1>7 DEF LockCreate
  <2>2. UNCHANGED <<call, holds, thread_index, outcome>>
    BY <1>7 DEF LockCreate, WaitQueueCreate
  <2> QED
    BY <1>a, <2>1, <2>2 DEF SInv, CanRun, MonitorTypeOK
<1>8. CASE LockDestroy \/ CvCreate \/ CvDestroy
  <2>1. UNCHANGED <<mvars, thread_index, outcome>>
    BY <1>8 DEF LockDestroy, CvCreate, CvDestroy, WaitQueueCreate, WaitQueueDestroy
  <2> QED
    BY <2>1, SInvKept DEF mvars, CanRun
<1>9. CASE MonitorKillCheck
  <2>1. UNCHANGED <<mvars, thread_index, outcome>>
    BY <1>9 DEF MonitorKillCheck, KillCheck
  <2> QED
    BY <2>1, SInvKept DEF mvars, CanRun
<1>10. CASE MonitorKill
  <2>1. /\ here.at = "kill_chk" /\ outcome = "live" /\ here.arg \in Tid
        /\ holds[here.arg] = {}
    BY <1>a, <1>10 DEF MonitorKill, Kill, Running, Inv, FrameOK, OInv, here
  <2>2. /\ holds' = holds /\ outcome' = outcome
        /\ UNCHANGED <<lockstatus, locked_tid>>
        /\ \A t \in Tid \ {here.arg} :
             call'[t] = call[t] /\ thread_index'[t] = thread_index[t]
        /\ call'[here.arg].pc = "none"
    BY <1>a, <1>10, <2>1 DEF MonitorKill, Kill, MonitorTypeOK, TypeOK, NoCall
  <2> QED
    BY <2>1, <2>2, SInvKept DEF CanRun
<1>11. CASE MonitorExit
  <2>1. holds[curr_running] = {} /\ UNCHANGED <<lockstatus, locked_tid, call>>
    BY <1>11 DEF MonitorExit, MayDie, OneLock
  <2>2. holds' = holds /\ outcome' = outcome
    BY <1>a, <1>11, <2>1 DEF MonitorExit, ThreadExit, MonitorTypeOK
  <2>3. \A t \in Tid \ {curr_running} : CanRun(t) => CanRun(t)'
    BY <1>a, <1>11 DEF MonitorExit, ThreadExit, exiting, CanRun, TypeOK
  <2> QED
    BY <2>1, <2>2, <2>3, SInvKept
<1>12. CASE ThreadStep \/ ThreadCall
  <2>1. \A t \in Tid : CanRun(t) => CanRun(t)'
    BY <1>a, <1>12, LibraryCanRun
  <2>2. UNCHANGED mvars /\ outcome = "live"
    BY <1>12 DEF ThreadStep, ThreadCall, InCall, Running, Preempt, Stub, CreateReturn,
       YieldSwitch, YieldReturn, SleepSwitch, SleepReturn
  <2> QED
    BY <2>1, <2>2, SInvKept DEF mvars
<1>13. CASE MonitorEnded \/ UNCHANGED allvars
  <2>1. UNCHANGED <<mvars, thread_index, outcome>>
    BY <1>13 DEF MonitorEnded, Ended, allvars, vars
  <2> QED
    BY <2>1, SInvKept DEF mvars, CanRun
<1> QED
  BY <1>1, <1>2, <1>3, <1>4, <1>5, <1>6, <1>7, <1>8, <1>9, <1>10, <1>11, <1>12,
     <1>13 DEF MonitorNext, CallStep

(* lock_acquire never spins with interrupts off, for any number of threads *)
(* and condition variables: whoever holds the lock can take the processor. *)
THEOREM AcquireFindsReadyHolds ==
  ASSUME Disciplined, OneLock
  PROVE  MonitorSpec => []AcquireFindsReady
<1>1. Orderly
  BY DEF Orderly, OneLock
<1>2. MonitorInit => OInv /\ SInv
  <2>1. 0 \in Tid
    BY ThreadsAssumption DEF Tid
  <2> QED
    BY <2>1, InitSInv DEF MonitorInit, Init, OInv, here, Fresh
<1>3. (Inv /\ DInv) /\ MInv /\ (OInv /\ SInv) /\ [MonitorNext]_allvars
        => (OInv /\ SInv)'
  BY <1>1, OwnersStep, SStep
<1>4. (Inv /\ DInv) /\ MInv /\ (OInv /\ SInv) => AcquireFindsReady
  <2> SUFFICES ASSUME Inv, MInv, OInv, SInv, InCall("test"),
                      lockstatus[mine.lock] = "LOCKED"
               PROVE  ~NoneReady
    BY DEF AcquireFindsReady
  <2>1. /\ curr_running \in Tid /\ mine.lock \in Locks /\ outcome = "live"
        /\ holds[curr_running] = {}
        /\ \A t \in Tid \ {curr_running} : ParkedOK(t)
    BY DEF Inv, TypeOK, MInv, CallOK, InCall, Running, mine, SInv
  <2>2. PICK t \in Tid : locked_tid[mine.lock] = t
    BY <2>1 DEF SInv
  <2>3. mine.lock \in holds[t]
    BY <2>1, <2>2 DEF OInv
  <2>4. t # curr_running /\ CanRun(t)
    BY <2>1, <2>3 DEF SInv
  <2>5. thread_index[t] = "ready"
    BY <2>1, <2>4 DEF CanRun, ParkedOK
  <2> QED
    BY <2>5 DEF NoneReady
<1> QED
  BY <1>2, <1>3, <1>4, MonitorHolds, PTL DEF MonitorSpec
=============================================================================
