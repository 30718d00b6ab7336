----------------------------- MODULE TestProofs -----------------------------
(***************************************************************************)
(* The assertions of the timer's tests, for any number of threads and of   *)
(* turns.  The tests create and kill threads with interrupts on, as        *)
(* Disciplined programs may not, so the places of the test's own threads   *)
(* and the state of the library below them are shown together.             *)
(***************************************************************************)
EXTENDS TestThread, MonitorProofs, FiniteSetTheorems

(* What the tests call, and how.                                           *)
TestProgram ==
  /\ YieldTo \subseteq {"any"}
  /\ KillOf \subseteq {"ready"}
  /\ ExitBy \subseteq {"other"}
  /\ DestroyOf \subseteq {"empty"}
  /\ Misuses = {}
  /\ "potato" \in Tests => NTHREADS > 1

-----------------------------------------------------------------------------
(* Where each thread of a test can be, and the values it shares.           *)
Others == Tid \ {0}
Working == {t \in Others : local[t].line \notin {"prepare", "exit"}}

MainLines ==
  IF Sleeping THEN {"prepare", "poll", "count", "take", "spin", "wakeup"}
  ELSE IF test = "potato" THEN {"prepare", "kill"} ELSE {"prepare", "yield"}
OtherLines ==
  IF Sleeping THEN {"prepare", "off", "sleep", "slept", "next", "done", "exit"}
  ELSE IF test = "potato"
  THEN {"prepare", "cas", "move", "pass", "passed", "unlock", "moved"}
  ELSE IF CvTest
  THEN {"prepare", "acquire", "while", "woken", "mine", "notify", "release",
        "done", "exit"}
  ELSE {"prepare", "acquire", "write1", "write2", "write3", "release", "done",
        "exit"}

Nums == 0 .. NTHREADS - 1
Locals == [line : MainLines \cup OtherLines, num : Nums, i : Nat]

PlacesOK ==
  /\ test \in Tests
  /\ local \in [Tid -> Locals]
  /\ local[0].line \in MainLines
  /\ \A t \in Others : local[t].line \in OtherLines
  /\ created \in 0 .. NTHREADS
  /\ local[0].line # "prepare" => created = NTHREADS
  /\ done \in Nat /\ nr_sleeping \in Nat
  /\ potato \in [Nums -> {0, 1}] /\ potato_lock \in {0, 1}
  /\ testval \in [1 .. 3 -> Nums]
  /\ spun \in [Tid -> BOOLEAN]

(* Only the main thread creates and kills.  It never waits, so there is    *)
(* always a thread to switch to; and the thread it has just created (in    *)
(* the tests of wakeup and of preemption) or is about to kill stays, for   *)
(* no thread exits meanwhile.                                              *)
InTail(t, at) == at \in {stack[t].at, stack[t].back}
Alive(t) == thread_index[t] \notin {"NULL", "killed"}
MainOK ==
  /\ call[0].pc = "none"
  /\ thread_index[0] \in {"ready", "running"}
  /\ \A t \in Others : ~InTail(t, "create_ret") /\ ~InTail(t, "kill_chk")
  /\ InTail(0, "create_ret") =>
       /\ local[0].line = "prepare"
       /\ Sleeping \/ test = "potato" => stack[0].arg \in Working
  /\ InTail(0, "kill_chk") =>
       local[0].line = "kill" /\ stack[0].arg # 0 /\ Alive(stack[0].arg)
  /\ test = "potato" => \A t \in Tid : thread_index[t] # "killed"

(* Every thread's mask and the call it is in fit its line.                 *)
CallFits(t) ==
  IF call[t].pc = "none"
  THEN stack[t].wants = (local[t].line \notin {"sleep", "slept"})
  ELSE /\ call[t].mask = TRUE /\ call[t].lock = testlock
       /\ local[t].line \in {"write1", "while", "woken"}
       /\ call[t].pc \in {"cv_release", "cv_sleep"} => local[t].line = "woken"

(* Between its lock_acquire and its lock_release a thread holds the lock.  *)
Inner == {"write1", "write2", "write3", "while", "woken", "mine", "notify", "release"}
HoldFits(t) ==
  call[t].pc = "leave" \/ (call[t].pc = "none" /\ local[t].line \in Inner)
    => testlock \in holds[t]

(* Those who work have a slot until the main thread kills, so that they    *)
(* and those who are done are the ones created; and what they work with    *)
(* exists.  Only the main thread prepares.                                 *)
WorkersOK ==
  /\ \A t \in Others : local[t].line = "prepare" => thread_index[t] = "NULL"
  /\ test # "potato" \/ local[0].line = "prepare" => \A t \in Working : Alive(t)
  /\ test # "potato" => Cardinality(Working) + done = created
  /\ made \subseteq Needed
  /\ Working # {} => made = Needed

(* test_lock: nobody else writes while a thread is inside the lock.        *)
Wrote(t, n) == testval[n] = local[t].num
ValsOK ==
  test = "lock" => \A t \in Tid :
    /\ local[t].line \in {"write2", "write3", "release"} => Wrote(t, 1)
    /\ local[t].line \in {"write3", "release"} => Wrote(t, 2)
    /\ local[t].line = "release" => Wrote(t, 3)

(* The cv tests: the wait of a thread that is in no condition variable's   *)
(* queue any more was ended by one who had spun first.                     *)
Waits(t) ==
  \/ call[t].pc \in {"cv_release", "cv_sleep"}
  \/ \E c \in CVs : \E i \in 1 .. Len(queue[c]) : queue[c][i] = t
CvOK ==
  \A t \in Tid :
    /\ local[t].line = "notify" => \A u \in Tid : spun[u]
    /\ local[t].line = "woken" => spun[t] \/ Waits(t)

(* The tests of wakeup: those in the queue are those counted and not taken *)
(* off the count, and those who leave it slept long enough.  No thread     *)
(* wakes before the main thread has created them all.                      *)
Asleep == queue[queue_tested]
InAsleep(t) == \E i \in 1 .. Len(Asleep) : Asleep[i] = t
Batch == IF all THEN NTHREADS ELSE 1
Taken == IF local[0].line \in {"spin", "wakeup"} THEN Batch ELSE 0
SleepersOK ==
  Sleeping =>
    /\ \A i \in 1 .. Len(Asleep) : Asleep[i] \in Others /\ local[Asleep[i]].line = "slept"
    /\ Len(Asleep) = nr_sleeping + Taken
    /\ local[0].line = "take" => enough_sleep
    /\ \A t \in Others : local[t].line = "slept" => spun[t] \/ InAsleep(t)
    /\ local[0].line = "wakeup" =>
         \A i \in 1 .. Len(Asleep) : all \/ i = 1 => spun[Asleep[i]]
    /\ local[0].line = "prepare" => \A t \in Others :
         /\ local[t].line \in {"prepare", "off", "sleep", "slept"}
         /\ local[t].line = "slept" => thread_index[t] = "sleep"

(* do_potato: one thread at a time moves the potato, and only while it     *)
(* does is there none.                                                     *)
InSection(t) == local[t].line \in {"move", "pass", "passed", "unlock"}
Hot(n) == \A m \in Nums : potato[m] = IF m = n THEN 1 ELSE 0
PotatoOK ==
  test = "potato" =>
    /\ \A t, u \in Others : InSection(t) /\ InSection(u) => t = u
    /\ \A t \in Others :
         /\ InSection(t) => potato_lock = 1
         /\ local[t].line = "pass" => \A m \in Nums : potato[m] = 0
         /\ local[t].line = "passed" => Hot((local[t].num + 1) % NTHREADS)
    /\ (\A t \in Others : local[t].line # "pass") => \E n \in Nums : Hot(n)

Groups ==
  /\ PlacesOK /\ MainOK /\ WorkersOK
  /\ \A t \in Tid : CallFits(t) /\ HoldFits(t)
  /\ ValsOK /\ CvOK /\ SleepersOK /\ PotatoOK
TestInv == NoneTooFast /\ (outcome = "live" => Groups)


-----------------------------------------------------------------------------
(* What the library's steps leave alone.                                   *)
FramesKept ==
  \A t \in Tid : \A at \in {"create_ret", "kill_chk"} :
    InTail(t, at)' => InTail(t, at) /\ stack'[t].arg = stack[t].arg
SameThreads ==
  \A t \in Tid : /\ Alive(t) => Alive(t)'
                 /\ thread_index'[t] = "killed" => thread_index[t] = "killed"
                 /\ thread_index[t] = "NULL" => thread_index'[t] = "NULL"
SameSleepers ==
  \A t \in Tid : thread_index'[t] = "sleep" <=> thread_index[t] = "sleep"
WantsKept == \A t \in Tid : stack'[t].wants = stack[t].wants

Quiet ==
  /\ FramesKept /\ SameThreads /\ SameSleepers
  /\ UNCHANGED <<queue, made, outcome>>

LEMMA Stutters ==
  ASSUME UNCHANGED vars
  PROVE  Quiet /\ WantsKept
  BY DEF vars, Quiet, FramesKept, SameThreads, SameSleepers, WantsKept, InTail, Alive

(* The caller's frame f is all that changes on the stacks.                 *)
LEMMA FrameStep ==
  ASSUME TypeOK, NEW f, stack' = [stack EXCEPT ![curr_running] = f],
         \A at \in {"create_ret", "kill_chk"} :
           at \in {f.at, f.back} => InTail(curr_running, at) /\ f.arg = here.arg
  PROVE  FramesKept /\ (f.wants = here.wants => WantsKept)
<1>1. curr_running \in Tid /\ stack \in [Tid -> Frame]
  BY DEF TypeOK
<1>2. /\ stack'[curr_running] = f
      /\ \A t \in Tid \ {curr_running} : stack'[t] = stack[t]
  BY <1>1
<1> QED
  BY <1>1, <1>2 DEF FramesKept, WantsKept, InTail, here

LEMMA SuspendFrame ==
  ASSUME TypeOK, NEW at \in Suspended, NEW back \in {"user", here.at}, NEW mask, NEW t,
         Suspend(at, back, mask, t)
  PROVE  FramesKept /\ WantsKept
<1>1. here \in Frame
  BY DEF TypeOK, here
<1>2. PICK f : f = [here EXCEPT !.at = at, !.back = back, !.interrupts_status = mask]
  OBVIOUS
<1>3. f.at = at /\ f.back = back /\ f.arg = here.arg /\ f.wants = here.wants
  BY <1>1, <1>2 DEF Frame
<1>4. stack' = [stack EXCEPT ![curr_running] = f]
  BY <1>2 DEF Suspend, here
<1> QED
  BY <1>3, <1>4, FrameStep DEF Suspended, InTail, here

LEMMA ThreadStepQuiet ==
  ASSUME Inv, Calm, ThreadStep \/ YieldAny
  PROVE  Quiet /\ WantsKept
<1>a. /\ TypeOK /\ curr_running \in Tid /\ here \in Frame
      /\ outcome = "live" => CallerOK /\ CallerRuns /\ NextReady
      /\ thread_index \in [Tid -> Status]
  BY DEF Inv, Calm, TypeOK, here
<1>1. CASE Stub \/ CreateReturn
  <2>1. PICK f : /\ f.at = "user" /\ f.back = here.back /\ f.wants = here.wants
                 /\ f.arg \in {here.arg, NoTid}
                 /\ stack' = [stack EXCEPT ![curr_running] = f]
    <3>1. /\ [here EXCEPT !.at = "user"].at = "user"
          /\ [here EXCEPT !.at = "user"].back = here.back
          /\ [here EXCEPT !.at = "user"].wants = here.wants
          /\ [here EXCEPT !.at = "user"].arg = here.arg
      BY <1>a DEF Frame
    <3>2. /\ [here EXCEPT !.at = "user", !.arg = NoTid].at = "user"
          /\ [here EXCEPT !.at = "user", !.arg = NoTid].back = here.back
          /\ [here EXCEPT !.at = "user", !.arg = NoTid].wants = here.wants
          /\ [here EXCEPT !.at = "user", !.arg = NoTid].arg = NoTid
      BY <1>a DEF Frame
    <3> QED
      BY <1>1, <3>1, <3>2 DEF Stub, CreateReturn, here
  <2>2. here.back = "none"
    BY <1>1, <1>a DEF Stub, CreateReturn, Running, Inv, FrameOK, Suspended, here
  <2>3. FramesKept /\ WantsKept
    BY <1>a, <2>1, <2>2, FrameStep
  <2> QED
    BY <1>1, <2>3 DEF Stub, CreateReturn, Quiet, SameThreads, SameSleepers, Alive
<1>2. CASE Preempt \/ YieldAny
  <2>1. PICK t, mask : t \in Tid /\ YieldStart(here.at, t, mask)
    BY <1>2 DEF Preempt, YieldAny, Running
  <2>2. FramesKept /\ WantsKept
    BY <1>a, <2>1, SuspendFrame DEF YieldStart, Suspended
  <2> QED
    BY <2>1, <2>2 DEF YieldStart, Quiet, SameThreads, SameSleepers, Alive
<1>3. CASE YieldReturn \/ SleepReturn
  <2>1. Resume /\ thread_index' \in {thread_index, free_killed}
    BY <1>3 DEF YieldReturn, SleepReturn
  <2>2. PICK f : f = [here EXCEPT !.at = here.back, !.back = "none",
                                  !.interrupts_status = FALSE]
    OBVIOUS
  <2>3. /\ f.at = here.back /\ f.back = "none" /\ f.arg = here.arg
        /\ f.wants = here.wants
    BY <1>a, <2>2 DEF Frame
  <2>4. FramesKept /\ WantsKept
    <3>1. stack' = [stack EXCEPT ![curr_running] = f]
      BY <2>1, <2>2 DEF Resume, here
    <3> QED
      BY <1>a, <2>3, <3>1, FrameStep DEF InTail, here
  <2>5. SameThreads /\ SameSleepers
    BY <1>a, <2>1 DEF SameThreads, SameSleepers, Alive, free_killed
  <2> QED
    BY <2>1, <2>4, <2>5 DEF Quiet, Resume
<1>4. CASE YieldSwitch \/ SleepSwitch
  <2>1. /\ outcome = "live" /\ here.at \in Suspended /\ ~setcontext_called[curr_running]
        /\ UNCHANGED <<queue, made, stack, outcome>>
        /\ \/ thread_index' = [thread_index EXCEPT ![next] = "running"]
           \/ /\ here.at = "yield"
              /\ thread_index' = [requeued EXCEPT ![next] = "running"]
    BY <1>4 DEF YieldSwitch, SleepSwitch, Running, Suspended
  <2>2. next \in Tid /\ thread_index[next] = "ready"
    BY <1>a, <2>1 DEF CallerOK, NextReady
  <2>3. CASE thread_index' = [thread_index EXCEPT ![next] = "running"]
    BY <1>a, <2>1, <2>2, <2>3 DEF Quiet, FramesKept, SameThreads, SameSleepers, WantsKept,
                                  InTail, Alive
  <2>4. ASSUME here.at = "yield", thread_index' = [requeued EXCEPT ![next] = "running"]
        PROVE  Quiet /\ WantsKept
    <3>1. thread_index[curr_running] = "running"
      BY <1>a, <2>1, <2>4 DEF CallerRuns
    <3>2. /\ \A t \in Tid \ {curr_running} : requeued[t] = free_killed[t]
          /\ requeued[curr_running] = "ready" /\ requeued \in [Tid -> Status]
      BY <1>a DEF requeued, free_killed, Status
    <3>3. /\ thread_index'[next] = "running"
          /\ \A t \in Tid \ {next} : thread_index'[t] = requeued[t]
      BY <2>2, <2>4, <3>2
    <3>4. SameThreads /\ SameSleepers
      BY <1>a, <2>2, <3>1, <3>2, <3>3 DEF SameThreads, SameSleepers, Alive, free_killed
    <3> QED
      BY <2>1, <3>4 DEF Quiet, FramesKept, WantsKept, InTail
  <2> QED
    BY <2>1, <2>3, <2>4
<1> QED
  BY <1>1, <1>2, <1>3, <1>4 DEF ThreadStep


LEMMA InterruptsSetQuiet ==
  ASSUME Inv, InterruptsSet
  PROVE  /\ Quiet /\ UNCHANGED <<thread_index, curr_running>>
         /\ stack'[curr_running].wants = ~here.wants
         /\ \A t \in Tid \ {curr_running} : stack'[t] = stack[t]
<1>a. /\ TypeOK /\ curr_running \in Tid /\ here \in Frame
      /\ here.at = "user" /\ here.wants = enabled
  BY DEF Inv, TypeOK, CallerOK, Running, Interruptible, here, InterruptsSet
<1>1. PICK f : f = [here EXCEPT !.wants = ~enabled]
  OBVIOUS
<1>2. f.at = here.at /\ f.back = here.back /\ f.arg = here.arg /\ f.wants = ~here.wants
  BY <1>a, <1>1 DEF Frame
<1>3. stack' = [stack EXCEPT ![curr_running] = f]
  BY <1>1 DEF InterruptsSet, here
<1>4. FramesKept
  BY <1>a, <1>2, <1>3, FrameStep DEF InTail, here
<1>5. /\ stack'[curr_running].wants = ~here.wants
      /\ \A t \in Tid \ {curr_running} : stack'[t] = stack[t]
  BY <1>a, <1>2, <1>3, StackStep
<1> QED
  BY <1>4, <1>5 DEF InterruptsSet, Quiet, SameThreads, SameSleepers, Alive

LEMMA SetInterruptsQuiet ==
  ASSUME Inv, Running("user"), NEW on \in BOOLEAN, SetInterrupts(on)
  PROVE  /\ Quiet /\ UNCHANGED <<thread_index, curr_running>>
         /\ stack'[curr_running].wants = on
         /\ \A t \in Tid \ {curr_running} : stack'[t] = stack[t]
<1>1. CASE UNCHANGED vars
  BY <1>1, Stutters, SetInterruptsEffect
<1>2. CASE InterruptsSet
  BY <1>2, InterruptsSetQuiet, SetInterruptsEffect
<1> QED
  BY <1>1, <1>2 DEF SetInterrupts

LEMMA SleepSteady ==
  ASSUME Inv, Calm, NEW q \in Queues, SleepOn(q, "user"), Running("user")
  PROVE  /\ FramesKept /\ WantsKept /\ SameThreads
         /\ UNCHANGED <<made, outcome, curr_running>>
         /\ thread_index'[curr_running] = "sleep"
         /\ \A t \in Tid \ {curr_running} : thread_index'[t] = thread_index[t]
         /\ queue' = [queue EXCEPT ![q] = Append(@, curr_running)]
<1>a. /\ TypeOK /\ curr_running \in Tid /\ here.at = "user"
      /\ thread_index[curr_running] # "NULL"
  BY DEF Inv, TypeOK, CallerOK, Running
<1>1. PICK t \in Tid : Suspend("sleep", "user", enabled, t)
  BY DEF SleepOn
<1>2. FramesKept /\ WantsKept
  BY <1>a, <1>1, SuspendFrame DEF Suspended
<1>3. /\ thread_index'[curr_running] = "sleep"
      /\ \A u \in Tid \ {curr_running} : thread_index'[u] = thread_index[u]
  BY <1>a DEF SleepOn, TypeOK
<1>4. SameThreads
  BY <1>a, <1>3 DEF SameThreads, Alive
<1> QED
  BY <1>2, <1>3, <1>4 DEF SleepOn, push_ele

LEMMA WakeSteady ==
  ASSUME Inv, NEW q \in Queues, NEW wakesAll \in BOOLEAN, WakeupIn(q, wakesAll)
  PROVE  /\ FramesKept /\ WantsKept /\ SameThreads
         /\ UNCHANGED <<made, outcome, stack, curr_running>>
         /\ \A t \in Tid : thread_index'[t] = "sleep" => thread_index[t] = "sleep"
<1>1. CASE UNCHANGED vars
  BY <1>1, Stutters DEF Quiet, vars
<1>2. CASE WakeOn(q, wakesAll)
  BY <1>2 DEF WakeOn, FramesKept, WantsKept, SameThreads, InTail, Alive
<1> QED
  BY <1>1, <1>2 DEF WakeupIn

LEMMA MadeQuiet ==
  ASSUME Inv, DestroyOf \subseteq {"empty"}, WaitQueueCreate \/ WaitQueueDestroy
  PROVE  /\ FramesKept /\ WantsKept /\ SameThreads
         /\ UNCHANGED <<queue, outcome, stack, thread_index, curr_running>>
<1>1. queue' = queue
  BY DEF Inv, TypeOK, WaitQueueCreate, WaitQueueDestroy
<1> QED
  BY <1>1 DEF WaitQueueCreate, WaitQueueDestroy, FramesKept, WantsKept, SameThreads,
              InTail, Alive

LEMMA CreateEffect ==
  ASSUME Inv, Create, NEW n \in Tid, tid_generator(n)
  PROVE  /\ n # curr_running /\ ~Alive(n)
         /\ thread_index'[n] = "ready" /\ stack'[n] = Fresh("stub")
         /\ \A t \in Tid \ {n} : thread_index'[t] = thread_index[t]
         /\ \A t \in Tid \ {n, curr_running} : stack'[t] = stack[t]
         /\ here.at = "user" /\ here.back = "none"
         /\ stack'[curr_running].at = "create_ret" /\ stack'[curr_running].back = "none"
         /\ stack'[curr_running].arg = n /\ stack'[curr_running].wants = here.wants
         /\ UNCHANGED <<queue, made, outcome, curr_running>>
<1>a. /\ TypeOK /\ curr_running \in Tid /\ here \in Frame /\ here.at = "user"
      /\ here.back = "none" /\ thread_index[curr_running] # "NULL"
  BY DEF Inv, TypeOK, CallerOK, FrameOK, Suspended, Running, here, Create
<1>b. /\ thread_index \in [Tid -> Status] /\ stack \in [Tid -> Frame] /\ Tid \subseteq Int
  BY DEF Inv, TypeOK, Tid
<1>1. PICK m \in Tid : /\ tid_generator(m)
                       /\ thread_index' = [thread_index EXCEPT ![m] = "ready"]
                       /\ stack' = [stack EXCEPT ![m] = Fresh("stub"),
                                                 ![curr_running] =
                                    [@ EXCEPT !.at = "create_ret", !.arg = m]]
  BY DEF Create
<1>2. m = n
  <2>1. m <= n /\ n <= m
    BY <1>1 DEF tid_generator
  <2> QED
    BY <2>1, <1>b
<1>3. n # curr_running
  BY <1>a DEF tid_generator
<1>4. stack' = [stack EXCEPT ![n] = Fresh("stub"),
                             ![curr_running] =
                                    [here EXCEPT !.at = "create_ret", !.arg = n]]
  BY <1>1, <1>2, <1>3, <1>a, <1>b DEF here
<1>5. PICK f : f = [here EXCEPT !.at = "create_ret", !.arg = n]
  OBVIOUS
<1>6. f.at = "create_ret" /\ f.back = here.back /\ f.arg = n /\ f.wants = here.wants
  BY <1>a, <1>5 DEF Frame
<1>7. /\ stack'[n] = Fresh("stub") /\ stack'[curr_running] = f
      /\ \A t \in Tid \ {n, curr_running} : stack'[t] = stack[t]
  BY <1>a, <1>b, <1>3, <1>4, <1>5
<1> QED
  BY <1>a, <1>b, <1>1, <1>2, <1>3, <1>6, <1>7 DEF Create, Alive, tid_generator

LEMMA KillCheckEffect ==
  ASSUME Inv, KillCheck
  PROVE  \E t \in Tid :
           /\ t # curr_running /\ thread_index[t] # "NULL"
           /\ (IF t = 0 THEN "main" ELSE thread_index[t]) \in KillOf
           /\ stack'[curr_running].at = "kill_chk" /\ stack'[curr_running].back = "none"
           /\ stack'[curr_running].arg = t /\ stack'[curr_running].wants = here.wants
           /\ \A u \in Tid \ {curr_running} : stack'[u] = stack[u]
           /\ UNCHANGED <<thread_index, queue, made, outcome, curr_running>>
<1>a. /\ TypeOK /\ curr_running \in Tid /\ here \in Frame /\ here.back = "none"
  BY DEF Inv, TypeOK, FrameOK, Suspended, Running, here, KillCheck
<1>1. PICK t \in Tid :
        /\ killable(t)
        /\ (IF t = 0 THEN "main" ELSE thread_index[t]) \in KillOf
        /\ stack' = [stack EXCEPT ![curr_running] =
                       [@ EXCEPT !.at = "kill_chk", !.arg = t]]
  BY DEF KillCheck
<1>2. PICK f : f = [here EXCEPT !.at = "kill_chk", !.arg = t]
  OBVIOUS
<1>3. f.at = "kill_chk" /\ f.back = "none" /\ f.arg = t /\ f.wants = here.wants
  BY <1>a, <1>2 DEF Frame
<1>4. stack' = [stack EXCEPT ![curr_running] = f]
  BY <1>1, <1>2 DEF here
<1>5. /\ stack'[curr_running].at = "kill_chk" /\ stack'[curr_running].back = "none"
      /\ stack'[curr_running].arg = t /\ stack'[curr_running].wants = here.wants
      /\ \A u \in Tid \ {curr_running} : stack'[u] = stack[u]
  BY <1>a, <1>3, <1>4, StackStep
<1>6. t # curr_running /\ thread_index[t] # "NULL"
  BY <1>1 DEF killable
<1>7. UNCHANGED <<thread_index, queue, made, outcome, curr_running>>
  BY DEF KillCheck
<1> QED
  BY <1>1, <1>5, <1>6, <1>7

LEMMA KillEffect ==
  ASSUME Inv, Kill
  PROVE  /\ here.arg \in Tid \ {curr_running}
         /\ thread_index'[here.arg] = "NULL" /\ stack'[here.arg] = Fresh("none")
         /\ \A t \in Tid \ {here.arg} : thread_index'[t] = thread_index[t]
         /\ \A t \in Tid \ {here.arg, curr_running} : stack'[t] = stack[t]
         /\ stack'[curr_running].at = "user" /\ stack'[curr_running].back = "none"
         /\ stack'[curr_running].wants = here.wants
         /\ UNCHANGED <<queue, made, outcome, curr_running>>
<1>a. /\ TypeOK /\ curr_running \in Tid /\ here \in Frame /\ here.back = "none"
      /\ here.arg \in Tid \ {curr_running}
      /\ thread_index \in [Tid -> Status] /\ stack \in [Tid -> Frame]
  BY DEF Inv, TypeOK, FrameOK, Suspended, Running, here, Kill
<1>1. PICK f : f = [here EXCEPT !.at = "user", !.arg = NoTid]
  OBVIOUS
<1>2. f.at = "user" /\ f.back = "none" /\ f.wants = here.wants
  BY <1>a, <1>1 DEF Frame
<1>3. stack' = [stack EXCEPT ![here.arg] = Fresh("none"), ![curr_running] = f]
  BY <1>a, <1>1 DEF Kill, here
<1>4. /\ stack'[here.arg] = Fresh("none") /\ stack'[curr_running] = f
      /\ \A t \in Tid \ {here.arg, curr_running} : stack'[t] = stack[t]
  BY <1>a, <1>3
<1> QED
  BY <1>a, <1>2, <1>4 DEF Kill

LEMMA ExitEffect ==
  ASSUME Inv, ThreadExit
  PROVE  /\ thread_index'[curr_running] = "killed" /\ stack'[curr_running] = Fresh("none")
         /\ \A t \in Tid \ {curr_running} :
              /\ stack'[t] = stack[t]
              /\ Alive(t) => Alive(t)'
              /\ \/ thread_index'[t] = thread_index[t]
                 \/ thread_index[t] = "ready" /\ thread_index'[t] = "running"
         /\ UNCHANGED <<queue, made, outcome>>
<1>1. /\ curr_running \in Tid /\ stack \in [Tid -> Frame]
      /\ thread_index \in [Tid -> Status]
  BY DEF Inv, TypeOK
<1>2. PICK t \in Tid \ {curr_running} :
        /\ thread_index[t] = "ready"
        /\ thread_index' = [thread_index EXCEPT ![curr_running] = "killed",
                                                ![t] = "running"]
  BY DEF ThreadExit, find_ready
<1>3. /\ thread_index'[curr_running] = "killed" /\ thread_index'[t] = "running"
      /\ \A u \in Tid \ {curr_running, t} : thread_index'[u] = thread_index[u]
  BY <1>1, <1>2
<1>4. /\ stack'[curr_running] = Fresh("none")
      /\ \A u \in Tid \ {curr_running} : stack'[u] = stack[u]
  BY <1>1 DEF ThreadExit
<1>5. UNCHANGED <<queue, made, outcome>>
  BY DEF ThreadExit
<1>6. ASSUME NEW u \in Tid \ {curr_running}
      PROVE  /\ stack'[u] = stack[u] /\ (Alive(u) => Alive(u)')
             /\ \/ thread_index'[u] = thread_index[u]
                \/ thread_index[u] = "ready" /\ thread_index'[u] = "running"
  BY <1>2, <1>3, <1>4 DEF Alive
<1> QED
  BY <1>3, <1>4, <1>5, <1>6

-----------------------------------------------------------------------------
(* Where a test is says which test it is, and whose step comes next.       *)
Live == outcome = "live" /\ Inv /\ MInv /\ HInv /\ Calm /\ Groups

LEMMA ConstantFacts ==
  /\ 0 \in Tid /\ Tid \subseteq Nat /\ NTHREADS \in Nat \ {0} /\ NTHREADS < MaxThreads
  /\ testlock \in Locks /\ queue_tested \in Plain /\ queue_tested \in Queues
  /\ Locks \subseteq Queues /\ CVs \subseteq Queues /\ Locks \cap CVs = {}
  /\ CVsOf \subseteq CVs /\ Needed \subseteq Queues /\ Locks \cap Needed \subseteq {testlock}
<1>1. Tid \subseteq Nat /\ 0 \in Tid
  BY ThreadsAssumption DEF Tid
<1>2. Range(testcv_signal) \subseteq CVs
  BY TestAssumption DEF Range
<1>3. CVsOf \subseteq CVs
  BY <1>2, TestAssumption DEF CVsOf
<1> QED
  BY <1>1, <1>3, TestAssumption, MonitorAssumption DEF Needed, Plain

LEMMA LiveFacts ==
  ASSUME Live
  PROVE  /\ TypeOK /\ curr_running \in Tid /\ here \in Frame /\ CallerOK /\ CallerRuns
         /\ \A t \in Tid : FrameOK(t) /\ CallOK(t) /\ CallFits(t) /\ HoldFits(t)
         /\ \A t \in Tid \ {curr_running} : ParkedOK(t)
         /\ local \in [Tid -> Locals] /\ me \in Locals /\ num \in Nums
         /\ thread_index \in [Tid -> Status] /\ stack \in [Tid -> Frame]
         /\ MonitorTypeOK /\ spun \in [Tid -> BOOLEAN] /\ testval \in [1 .. 3 -> Nums]
         /\ thread_index[0] \in {"ready", "running"}
         /\ PlacesOK /\ MainOK /\ WorkersOK /\ ValsOK /\ CvOK /\ SleepersOK /\ PotatoOK
<1>1. /\ TypeOK /\ curr_running \in Tid /\ here \in Frame /\ CallerOK /\ CallerRuns
      /\ thread_index \in [Tid -> Status] /\ stack \in [Tid -> Frame]
      /\ \A t \in Tid : FrameOK(t)
      /\ \A t \in Tid \ {curr_running} : ParkedOK(t)
  BY DEF Live, Inv, TypeOK, Calm, here
<1>2. MonitorTypeOK /\ \A t \in Tid : CallOK(t)
  BY DEF Live, MInv
<1>3. /\ PlacesOK /\ MainOK /\ WorkersOK /\ ValsOK /\ CvOK /\ SleepersOK /\ PotatoOK
      /\ \A t \in Tid : CallFits(t) /\ HoldFits(t)
  BY DEF Live, Groups
<1>4. /\ local \in [Tid -> Locals] /\ spun \in [Tid -> BOOLEAN]
      /\ testval \in [1 .. 3 -> Nums]
      /\ thread_index[0] \in {"ready", "running"}
  BY <1>3 DEF PlacesOK, MainOK
<1>5. me \in Locals /\ num \in Nums
  BY <1>1, <1>4 DEF me, num, Locals
<1> QED
  BY <1>1, <1>2, <1>3, <1>4, <1>5

LEMMA AtLine ==
  ASSUME Live, NEW line, Line(line)
  PROVE  /\ here.at = "user" /\ here.back = "none" /\ mine.pc = "none"
         /\ local[curr_running].line = line
         /\ thread_index[curr_running] = "running"
         /\ enabled = (line \notin {"sleep", "slept"})
         /\ here.wants = (line \notin {"sleep", "slept"})
         /\ curr_running = 0 => line \in MainLines
         /\ curr_running # 0 => /\ line \in OtherLines /\ line # "prepare"
                                /\ thread_index[0] = "ready" /\ ~NoneReady
                                /\ curr_running \in Others
<1>a. /\ here.at = "user" /\ mine.pc = "none" /\ local[curr_running].line = line
  BY DEF Line, InCall, Running, me
<1>b. here.back = "none" /\ thread_index[curr_running] = "running" /\ enabled = here.wants
  BY <1>a, LiveFacts DEF FrameOK, CallerOK, CallerRuns, Suspended, Interruptible, here
<1>c. here.wants = (line \notin {"sleep", "slept"})
  BY <1>a, LiveFacts DEF CallFits, here, mine
<1>d. ASSUME curr_running = 0 PROVE line \in MainLines
  BY <1>a, <1>d, LiveFacts DEF PlacesOK
<1>e. ASSUME curr_running # 0
      PROVE  /\ line \in OtherLines /\ line # "prepare"
             /\ thread_index[0] = "ready" /\ ~NoneReady /\ curr_running \in Others
  <2>1. curr_running \in Others
    BY <1>e, LiveFacts DEF Others
  <2>2. thread_index[0] = "ready"
    BY <1>e, LiveFacts, ConstantFacts DEF ParkedOK
  <2> QED
    BY <1>a, <1>b, <2>1, <2>2, LiveFacts, ConstantFacts DEF PlacesOK, WorkersOK, NoneReady
<1> QED
  BY <1>a, <1>b, <1>c, <1>d, <1>e

(* Lines of the main thread.                                               *)
LEMMA AtMainLine ==
  ASSUME Live, NEW line \in {"prepare", "yield", "poll", "count", "take", "spin", "wakeup",
                             "kill"},
         Line(line)
  PROVE  /\ curr_running = 0
         /\ line \in {"poll", "count", "take", "spin", "wakeup"} => Sleeping
         /\ line = "kill" => test = "potato"
         /\ line = "yield" => ~Sleeping /\ test # "potato"
<1>1. curr_running = 0
  BY AtLine DEF OtherLines
<1> QED
  BY <1>1, AtLine DEF MainLines

(* Lines of the others.                                                    *)
LEMMA AtOtherLine ==
  ASSUME Live, NEW line, Line(line),
         line \notin {"prepare", "yield", "poll", "count", "take", "spin", "wakeup", "kill"}
  PROVE  /\ curr_running \in Working \/ line = "exit"
         /\ curr_running \in Others /\ thread_index[0] = "ready" /\ ~NoneReady
         /\ line \in OtherLines
         /\ line \in {"off", "sleep", "slept", "next"} => Sleeping
         /\ line \in {"write1", "write2", "write3"} => test = "lock"
         /\ line \in {"while", "woken", "mine", "notify"} => CvTest
         /\ line \in {"acquire", "release"} => test = "lock" \/ CvTest
         /\ line \in {"cas", "move", "pass", "passed", "unlock", "moved"} => test = "potato"
         /\ line \in {"done", "exit"} => test # "potato"
<1>1. curr_running # 0
  BY AtLine DEF MainLines
<1>2. line \in OtherLines /\ test \in Tests
  BY <1>1, AtLine, LiveFacts DEF PlacesOK
<1>3. /\ line \in {"off", "sleep", "slept", "next"} => Sleeping
      /\ line \in {"write1", "write2", "write3"} => test = "lock"
      /\ line \in {"while", "woken", "mine", "notify"} => CvTest
      /\ line \in {"acquire", "release"} => test = "lock" \/ CvTest
      /\ line \in {"cas", "move", "pass", "passed", "unlock", "moved"} => test = "potato"
      /\ line \in {"done", "exit"} => test # "potato"
  BY <1>2, TestAssumption DEF OtherLines, Sleeping, CvTest
<1> QED
  BY <1>1, <1>2, <1>3, AtLine DEF Working

(* A step along a program's lines.                                         *)
LEMMA GoOnEffect ==
  ASSUME Live, NEW line, GoOn(line)
  PROVE  /\ local'[curr_running].line = line /\ local'[curr_running].num = num
         /\ local'[curr_running].i = local[curr_running].i
         /\ \A t \in Tid \ {curr_running} : local'[t] = local[t]
         /\ line \in MainLines \cup OtherLines => local' \in [Tid -> Locals]
<1>1. PICK r : r = [local[curr_running] EXCEPT !.line = line]
  OBVIOUS
<1>2. /\ r.line = line /\ r.num = num /\ r.i = local[curr_running].i
      /\ line \in MainLines \cup OtherLines => r \in Locals
  BY <1>1, LiveFacts DEF Locals, me, num
<1>3. local' = [local EXCEPT ![curr_running] = r]
  BY <1>1 DEF GoOn
<1> QED
  BY <1>2, <1>3, LiveFacts

LEMMA LoopEffect ==
  ASSUME Live, Loop
  PROVE  /\ local'[curr_running].line \in {FirstLine, "done"}
         /\ local'[curr_running].num = num
         /\ \A t \in Tid \ {curr_running} : local'[t] = local[t]
         /\ {FirstLine, "done"} \subseteq MainLines \cup OtherLines
              => local' \in [Tid -> Locals]
<1>1. PICK r : r = [line |-> IF me.i + 1 < LOOPS THEN FirstLine ELSE "done",
                    num |-> num, i |-> me.i + 1]
  OBVIOUS
<1>2. /\ r.line \in {FirstLine, "done"} /\ r.num = num
      /\ {FirstLine, "done"} \subseteq MainLines \cup OtherLines => r \in Locals
  BY <1>1, LiveFacts DEF Locals
<1>3. local' = [local EXCEPT ![curr_running] = r]
  BY <1>1 DEF Loop
<1> QED
  BY <1>2, <1>3, LiveFacts

-----------------------------------------------------------------------------
(* A test is a program of Monitor: each of its steps is one of Monitor's,  *)
(* or the process ends.                                                    *)
Stopped ==
  /\ outcome' \in {"exit", "create_null"}
  /\ UNCHANGED <<thread_index, curr_running, setcontext_called, queue, made, enabled,
                 next, stack, mvars>>

LEMMA NeededMade ==
  ASSUME Live, curr_running \in Working
  PROVE  made = Needed
  BY LiveFacts DEF WorkersOK

LEMMA TestSimulates ==
  ASSUME Live, TestNext
  PROVE  [MonitorNext]_allvars \/ Stopped
<1>1. CASE LibraryStep \/ TestEnded
  BY <1>1 DEF LibraryStep, TestEnded, CreateFails, CreateFault, Stop, Stopped, MonitorNext
<1>2. CASE Prepare \/ Destroy
  <2>1. InCall("none")
    BY <1>2 DEF Prepare, Destroy, AllDone, Line
  <2> QED
    BY <1>2, <2>1 DEF Prepare, Destroy, MonitorNext, ThreadCall
<1>3. CASE CreateThread
  BY <1>3 DEF CreateThread, Line, MonitorNext, ThreadCall
<1>4. CASE MainSteps
  BY <1>4 DEF MainSteps, MainWait, Line, MonitorNext, ThreadCall
<1>5. CASE WakeUp
  <2>1. CASE Line("wakeup") /\ WakeOn(queue_tested, all) /\ UNCHANGED mvars
    <3>1. queue_tested \in made
      BY <2>1, UnmadeEmpty, ConstantFacts DEF WakeOn, Live, Calm
    <3>2. all \in BOOLEAN
      BY DEF all
    <3>3. MonitorWakeup
      BY <2>1, <3>1, <3>2, ConstantFacts DEF MonitorWakeup
    <3> QED
      BY <2>1, <3>3 DEF Line, MonitorNext, ThreadCall
  <2> QED
    BY <1>5, <2>1 DEF WakeUp
<1>6. CASE Killing
  BY <1>6 DEF Killing, MonitorNext
<1>7. CASE Return
  BY <1>7 DEF Return, Stop, Stopped
<1>8. CASE InterruptsOff \/ Slept
  BY <1>8 DEF InterruptsOff, Slept, Line, MonitorNext, ThreadCall
<1>9. CASE SleepTested
  <2>1. Line("sleep") /\ SleepOn(queue_tested, "user") /\ UNCHANGED mvars
    BY <1>9 DEF SleepTested
  <2>2. curr_running \in Working /\ Sleeping
    BY <2>1, AtOtherLine
  <2>3. queue_tested \in made
    BY <2>2, NeededMade DEF Needed
  <2>4. MonitorSleep
    BY <2>1, <2>3, ConstantFacts DEF MonitorSleep
  <2> QED
    BY <2>1, <2>4 DEF Line, MonitorNext, ThreadCall
<1>10. CASE Acquire \/ Release
  BY <1>10 DEF Acquire, Release, MonitorNext
<1>11. CASE WriteAndYield \/ Scramble
  <2>1. InCall("none") /\ (YieldAny \/ UNCHANGED vars) /\ UNCHANGED mvars
    BY <1>11 DEF WriteAndYield, Scramble, Line
  <2> QED
    BY <2>1 DEF MonitorNext, ThreadCall, allvars
<1>12. CASE WhileNotMine \/ PassTurn \/ MovePotato
  BY <1>12 DEF WhileNotMine, PassTurn, MovePotato, MonitorNext
<1>13. CASE Notify
  <2>1. /\ Line("notify") /\ owns(testlock) /\ UNCHANGED mvars
        /\ \/ test = "signal" /\ WakeupIn(testcv_signal[testval[1]], FALSE)
           \/ test # "signal" /\ WakeupIn(testcv_broadcast, TRUE)
    BY <1>13 DEF Notify
  <2>2. curr_running \in Working /\ CvTest
    BY <2>1, AtOtherLine
  <2>3. made = Needed /\ testlock \in made
    BY <2>2, NeededMade DEF Needed
  <2>4. CASE test = "signal"
    <3>1. testval[1] \in Nums
      BY LiveFacts
    <3>2. testcv_signal[testval[1]] \in Range(testcv_signal)
      BY <3>1, TestAssumption DEF Range, Nums
    <3>3. testcv_signal[testval[1]] \in CVs \cap made
      BY <2>3, <2>4, <3>2, ConstantFacts DEF Needed, CVsOf
    <3> QED
      BY <2>1, <2>3, <2>4, <3>3, ConstantFacts
         DEF Line, MonitorNext, CvSignal, CvNotify
  <2>5. CASE test # "signal"
    <3>1. testcv_broadcast \in CVs \cap made
      BY <2>2, <2>3, <2>5, ConstantFacts DEF Needed, CVsOf, CvTest
    <3> QED
      BY <2>1, <2>3, <2>5, <3>1, ConstantFacts
         DEF Line, MonitorNext, CvBroadcast, CvNotify
  <2> QED
    BY <2>4, <2>5
<1>14. CASE Finish
  BY <1>14 DEF Finish, MonitorNext
<1> QED
  BY <1>1, <1>2, <1>3, <1>4, <1>5, <1>6, <1>7, <1>8, <1>9, <1>10, <1>11, <1>12,
     <1>13, <1>14 DEF TestNext, ProgramStep

LEMMA StoppedInv ==
  ASSUME Live, Stopped
  PROVE  Inv' /\ MInv' /\ HInv' /\ Calm'
<1>1. Inv'
  BY DEF Stopped, Live, Inv, TypeOK, Outcome
<1>2. MonitorTypeOK' /\ HInv'
  BY DEF Stopped, Live, MInv, HInv, MonitorTypeOK, HolderOwns, mvars
<1>3. ASSUME NEW t \in Tid PROVE CallOK(t)'
  BY DEF Stopped, Live, MInv, CallOK, mvars
<1>4. Calm'
  BY DEF Stopped, Calm, QueuesHoldSleepers
<1> QED
  BY <1>1, <1>2, <1>3, <1>4 DEF MInv

(* No thread sleeps while the potato is passed, so the thread about to be  *)
(* killed is ready.                                                        *)
LEMMA NobodySleeps ==
  ASSUME Live, test = "potato", NEW t \in Tid
  PROVE  thread_index[t] # "sleep"
<1>1. made = {}
  BY LiveFacts DEF WorkersOK, Needed, CVsOf, CvTest, Sleeping
<1> QED
  BY <1>1 DEF Live, Calm, QueuesHoldSleepers

LEMMA VictimReady ==
  ASSUME Live
  PROVE  VictimStays
<1> SUFFICES ASSUME here.at = "kill_chk"
             PROVE  here.arg # 0 /\ thread_index[here.arg] \in {"ready", "killed"}
  BY DEF VictimStays
<1>1. InTail(curr_running, "kill_chk")
  BY DEF InTail, here
<1>2. curr_running = 0
  BY <1>1, LiveFacts DEF MainOK, Others
<1>3. local[0].line = "kill" /\ here.arg # 0 /\ Alive(here.arg)
  BY <1>1, <1>2, LiveFacts DEF MainOK, here
<1>4. here.arg \in Tid \ {curr_running}
  BY LiveFacts DEF FrameOK, here
<1>5. test = "potato"
  BY <1>3, LiveFacts DEF PlacesOK, MainLines
<1>6. thread_index[here.arg] # "sleep" /\ thread_index[here.arg] # "running"
  BY <1>4, <1>5, NobodySleeps, LiveFacts DEF ParkedOK
<1> QED
  BY <1>3, <1>4, <1>6, LiveFacts DEF Alive, Status

LEMMA LibraryInv ==
  ASSUME TestProgram, Live, TestNext
  PROVE  Inv' /\ MInv' /\ HInv' /\ Calm'
<1>1. CASE [MonitorNext]_allvars
  <2>1. [Next]_vars
    BY <1>1, Simulates DEF Live
  <2>2. Inv'
    <3>1. CASE UNCHANGED vars
      BY <3>1 DEF Live, Inv, TypeOK, CallerOK, FrameOK, ParkedOK, here, vars
    <3> QED
      BY <2>1, <3>1, StepInv DEF Live
  <2>3. MInv'
    BY <1>1, MonitorStepInv DEF Live
  <2>4. HInv'
    BY <1>1, HoldersStep DEF Live, TestProgram, Careful
  <2>5. Calm'
    <3>1. CASE UNCHANGED vars
      BY <3>1 DEF Live, Calm, QueuesHoldSleepers, CallerRuns, NextReady, here, vars
    <3>2. Gentle
      BY DEF TestProgram, Gentle
    <3> QED
      BY <2>1, <3>1, <3>2, VictimReady, CalmStep DEF Live
  <2> QED
    BY <2>2, <2>3, <2>4, <2>5
<1> QED
  BY <1>1, StoppedInv, TestSimulates

-----------------------------------------------------------------------------
(* The lines, and the values that threads share.                           *)
LEMMA TestKept ==
  ASSUME TestNext
  PROVE  test' = test
<1>1. CASE Prepare \/ CreateThread \/ MainSteps \/ WakeUp \/ Killing \/ Destroy \/ Return
  BY <1>1 DEF Prepare, CreateThread, MainSteps, WakeUp, Killing, Destroy, Return, test_vars
<1>2. CASE InterruptsOff \/ SleepTested \/ Slept \/ Acquire \/ WriteAndYield \/ Release
  BY <1>2 DEF InterruptsOff, SleepTested, Slept, Acquire, WriteAndYield, Release
<1>3. CASE WhileNotMine \/ PassTurn \/ Notify \/ MovePotato \/ Scramble \/ Finish
  BY <1>3 DEF WhileNotMine, PassTurn, Notify, MovePotato, Scramble, Finish
<1>4. CASE LibraryStep \/ TestEnded
  BY <1>4 DEF LibraryStep, TestEnded, test_vars
<1> QED
  BY <1>1, <1>2, <1>3, <1>4 DEF TestNext, ProgramStep

LEMMA SameTest ==
  ASSUME test' = test
  PROVE  /\ Sleeping' = Sleeping /\ CvTest' = CvTest /\ all' = all
         /\ MainLines' = MainLines /\ OtherLines' = OtherLines /\ Locals' = Locals
         /\ Needed' = Needed /\ Batch' = Batch
  BY DEF Sleeping, CvTest, all, MainLines, OtherLines, Locals, Needed, CVsOf, Batch

Values ==
  /\ created \in 0 .. NTHREADS
  /\ done \in Nat /\ nr_sleeping \in Nat
  /\ potato \in [Nums -> {0, 1}] /\ potato_lock \in {0, 1}
  /\ testval \in [1 .. 3 -> Nums]
  /\ spun \in [Tid -> BOOLEAN]

LEMMA PlacesKept ==
  ASSUME Live, test' = test, Values', local' \in [Tid -> Locals],
         \A t \in Tid \ {curr_running} : local'[t] = local[t],
         curr_running = 0 => local'[0].line \in MainLines,
         curr_running # 0 => local'[curr_running].line \in OtherLines,
         local'[0].line # "prepare" => created' = NTHREADS
  PROVE  PlacesOK'
<1>1. MainLines' = MainLines /\ OtherLines' = OtherLines /\ Locals' = Locals
  BY SameTest
<1>2. local'[0].line \in MainLines
  BY LiveFacts, ConstantFacts DEF PlacesOK
<1>3. \A t \in Others : local'[t].line \in OtherLines
  BY LiveFacts DEF PlacesOK, Others
<1> QED
  BY <1>1, <1>2, <1>3, LiveFacts DEF PlacesOK, Values

LEMMA ValuesKept ==
  ASSUME Live, UNCHANGED <<created, nr_sleeping, potato, potato_lock, testval>>,
         done' \in {done, done + 1},
         spun' = spun \/ WaitBegins \/ Spin5ms
  PROVE  Values' /\ created' = created
<1>1. Values
  BY LiveFacts DEF PlacesOK, Values
<1>2. spun' \in [Tid -> BOOLEAN]
  BY <1>1, LiveFacts DEF Values, WaitBegins, Spin5ms
<1>3. done' \in Nat
  BY <1>1 DEF Values
<1> QED
  BY <1>1, <1>2, <1>3 DEF Values

LEMMA MainGoesOn ==
  ASSUME Live, curr_running = 0, test' = test, Values', created' = created,
         \/ \E line \in MainLines : GoOn(line) /\ (line # "prepare" => created = NTHREADS)
         \/ local' = local
  PROVE  PlacesOK'
<1>1. CASE \E line \in MainLines : GoOn(line) /\ (line # "prepare" => created = NTHREADS)
  <2>1. PICK line \in MainLines : GoOn(line) /\ (line # "prepare" => created = NTHREADS)
    BY <1>1
  <2>2. /\ local' \in [Tid -> Locals] /\ local'[curr_running].line = line
        /\ \A t \in Tid \ {curr_running} : local'[t] = local[t]
    BY <2>1, GoOnEffect
  <2> QED
    BY <2>1, <2>2, PlacesKept
<1>2. CASE local' = local
  BY <1>2, PlacesKept, LiveFacts DEF PlacesOK
<1> QED
  BY <1>1, <1>2

LEMMA PlacesMain ==
  ASSUME Live, \/ Prepare \/ CreateThread \/ MainSteps \/ WakeUp \/ Killing \/ Destroy
  PROVE  PlacesOK'
<1>t. test' = test
  BY TestKept DEF TestNext, ProgramStep
<1>v. Values /\ test \in Tests
  BY LiveFacts DEF PlacesOK, Values
<1>1. CASE Prepare \/ Destroy
  <2>1. UNCHANGED test_vars
    BY <1>1 DEF Prepare, Destroy
  <2> QED
    BY <2>1, LiveFacts, SameTest DEF PlacesOK, test_vars, shared
<1>2. CASE CreateThread
  <2>1. PICK n \in Tid :
          /\ tid_generator(n)
          /\ local' = [local EXCEPT ![n] = [line |-> FirstLine, num |-> created, i |-> 0]]
    BY <1>2 DEF CreateThread
  <2>2. Line("prepare") /\ created < NTHREADS /\ created' = created + 1
        /\ UNCHANGED <<shared, spun>>
    BY <1>2 DEF CreateThread
  <2>3. curr_running = 0
    BY <2>2, AtMainLine
  <2>4. n \in Others
    BY <2>1, LiveFacts, ConstantFacts DEF tid_generator, Others
  <2>5. FirstLine \in OtherLines
    BY <1>v, TestAssumption DEF FirstLine, OtherLines, CvTest, Sleeping
  <2>6. [line |-> FirstLine, num |-> created, i |-> 0] \in Locals
    BY <1>v, <2>2, <2>5, ConstantFacts DEF Locals, Values, Nums
  <2>7. created' \in 0 .. NTHREADS
    BY <1>v, <2>2, ConstantFacts DEF Values
  <2>8. /\ local' \in [Tid -> Locals]
        /\ \A t \in Tid \ {n} : local'[t] = local[t]
        /\ local'[n].line = FirstLine
    BY <2>1, <2>6, LiveFacts
  <2>9. /\ local'[0].line = "prepare" /\ "prepare" \in MainLines
    BY <2>2, <2>3, <2>4, <2>8, AtLine, ConstantFacts DEF Others
  <2> QED
    BY <1>t, <1>v, <2>2, <2>4, <2>5, <2>7, <2>8, <2>9, SameTest, LiveFacts
       DEF PlacesOK, Values, shared, Others
<1>3. CASE MainSteps
  <2>1. UNCHANGED <<created, done, potato, potato_lock, testval, spun>>
    BY <1>3 DEF MainSteps
  <2>2. \/ nr_sleeping' = nr_sleeping
        \/ Line("take") /\ nr_sleeping' = IF all THEN 0 ELSE nr_sleeping - 1
    BY <1>3 DEF MainSteps, MainWait
  <2>3. Values'
    <3>1. nr_sleeping' \in Nat
      <4>1. CASE nr_sleeping' = nr_sleeping
        BY <1>v, <4>1 DEF Values
      <4>2. CASE Line("take") /\ nr_sleeping' = IF all THEN 0 ELSE nr_sleeping - 1
        <5>1. local[0].line = "take" /\ Sleeping
          BY <4>2, AtLine, AtMainLine
        <5>2. enough_sleep
          BY <5>1, LiveFacts DEF SleepersOK
        <5> QED
          BY <1>v, <4>2, <5>2 DEF Values, enough_sleep
      <4> QED
        BY <2>2, <4>1, <4>2
    <3> QED
      BY <1>v, <2>1, <3>1 DEF Values
  <2>4. curr_running = 0
    BY <1>3, AtMainLine DEF MainSteps, MainWait
  <2>5. CASE Line("prepare") /\ created = NTHREADS
             /\ GoOn(IF Sleeping THEN "poll" ELSE IF test = "potato" THEN "kill" ELSE "yield")
    <3>1. (IF Sleeping THEN "poll" ELSE IF test = "potato" THEN "kill" ELSE "yield")
            \in MainLines
      BY DEF MainLines
    <3> QED
      BY <1>t, <2>1, <2>3, <2>4, <2>5, <3>1, MainGoesOn
  <2>6. CASE local' = local
    BY <1>t, <2>1, <2>3, <2>4, <2>6, MainGoesOn
  <2>7. ASSUME NEW from \in {"poll", "count", "take"}, Line(from),
               NEW to \in {"count", "take", "poll", "spin"}, GoOn(to)
        PROVE  PlacesOK'
    <3>1. Sleeping /\ local[0].line = from
      BY <2>7, AtMainLine, AtLine
    <3>2. to \in MainLines /\ created = NTHREADS
      BY <3>1, LiveFacts DEF MainLines, PlacesOK
    <3> QED
      BY <1>t, <2>1, <2>3, <2>4, <2>7, <3>2, MainGoesOn
  <2>8. CASE Line("count") /\ GoOn(IF enough_sleep THEN "take" ELSE "poll")
    <3>1. (IF enough_sleep THEN "take" ELSE "poll") \in {"count", "take", "poll", "spin"}
      OBVIOUS
    <3> QED
      BY <2>7, <2>8, <3>1
  <2> QED
    BY <1>3, <2>5, <2>6, <2>7, <2>8 DEF MainSteps, MainWait
<1>4. CASE WakeUp
  <2>1. UNCHANGED <<created, shared>> /\ (spun' = spun \/ Spin5ms)
    BY <1>4 DEF WakeUp
  <2>2. Values' /\ created' = created
    BY <2>1, ValuesKept DEF shared
  <2>3. PICK from \in {"spin", "wakeup"}, to \in {"wakeup", "poll"} :
          Line(from) /\ GoOn(to)
    BY <1>4 DEF WakeUp
  <2>4. curr_running = 0 /\ Sleeping /\ local[0].line = from
    BY <2>3, AtMainLine, AtLine
  <2>5. to \in MainLines /\ created = NTHREADS
    BY <2>3, <2>4, LiveFacts DEF MainLines, PlacesOK
  <2> QED
    BY <1>t, <2>2, <2>3, <2>4, <2>5, MainGoesOn
<1>5. CASE Killing
  <2>1. UNCHANGED <<created, shared, spun>> /\ Line("kill")
        /\ local' = [local EXCEPT ![curr_running].i = @ + 1]
    BY <1>5 DEF Killing
  <2>2. Values' /\ created' = created
    BY <2>1, ValuesKept DEF shared
  <2>3. curr_running = 0 /\ local[0].line = "kill"
    BY <2>1, AtMainLine, AtLine
  <2>4. PICK r : r = [local[0] EXCEPT !.i = @ + 1]
    OBVIOUS
  <2>5. r \in Locals /\ r.line = local[0].line
    BY <2>4, LiveFacts, ConstantFacts DEF Locals
  <2>6. local' \in [Tid -> Locals] /\ local'[0].line = local[0].line
        /\ \A t \in Tid \ {curr_running} : local'[t] = local[t]
    BY <2>1, <2>3, <2>4, <2>5, LiveFacts
  <2> QED
    BY <1>t, <2>2, <2>3, <2>6, PlacesKept, LiveFacts DEF PlacesOK
<1> QED
  BY <1>1, <1>2, <1>3, <1>4, <1>5

OtherStep ==
  \/ InterruptsOff \/ SleepTested \/ Slept
  \/ Acquire \/ WriteAndYield \/ Release \/ WhileNotMine \/ PassTurn \/ Notify
  \/ MovePotato \/ Scramble \/ Finish

(* Where the step of another thread leads it.                              *)
Prepares == {"prepare", "yield", "poll", "count", "take", "spin", "wakeup", "kill"}
Moved ==
  /\ curr_running \in Others /\ thread_index[0] = "ready" /\ ~NoneReady
  /\ \A t \in Tid \ {curr_running} : local'[t] = local[t]
  /\ local'[curr_running].num = num
  /\ InCall("none") /\ local[curr_running].line \in OtherLines \ {"prepare"}
  /\ local'[curr_running].line \in OtherLines \ {"prepare"}
  /\ local'[curr_running].line = "exit" <=>
       local[curr_running].line \in {"done", "exit"}
  /\ UNCHANGED <<test, created>>
  /\ local' \in [Tid -> Locals]

LEMMA GoesMoved ==
  ASSUME Live, UNCHANGED <<test, created>>, NEW from, Line(from), NEW to, GoOn(to),
         from \notin Prepares \cup {"exit"},
         to \in OtherLines \ {"prepare"}, to = "exit" <=> from = "done"
  PROVE  Moved
  BY GoOnEffect, AtOtherLine, AtLine DEF Line, Moved, Prepares

LEMMA LoopMoved ==
  ASSUME Live, UNCHANGED <<test, created>>, NEW from \in {"next", "release"}, Line(from), Loop
  PROVE  Moved
<1>1. {FirstLine, "done"} \subseteq OtherLines \ {"prepare", "exit"}
  BY AtOtherLine DEF FirstLine, OtherLines, Sleeping, CvTest
<1> QED
  BY <1>1, LoopEffect, AtOtherLine, AtLine DEF Line, Moved

LEMMA OtherEffect ==
  ASSUME Live, OtherStep
  PROVE  Moved
<1>t. UNCHANGED <<test, created>>
  <2>1. test' = test
    BY TestKept DEF OtherStep, TestNext, ProgramStep
  <2>2. created' = created
    BY DEF OtherStep, InterruptsOff, SleepTested, Slept, Acquire, WriteAndYield, Release,
           WhileNotMine, PassTurn, Notify, MovePotato, Scramble, Finish
  <2> QED
    BY <2>1, <2>2
<1>1. CASE InterruptsOff \/ SleepTested
  <2>1. PICK from \in {"off", "sleep"}, to \in {"sleep", "slept"} : Line(from) /\ GoOn(to)
    BY <1>1 DEF InterruptsOff, SleepTested
  <2>2. to \in OtherLines
    BY <2>1, AtOtherLine DEF OtherLines, Prepares
  <2> QED
    BY <1>t, <2>1, <2>2, GoesMoved DEF Prepares
<1>2. CASE Slept
  <2>1. CASE Line("slept") /\ TimeCheck("next")
    <3>1. PICK to \in {"next", "done"} : GoOn(to)
      BY <2>1 DEF TimeCheck
    <3>2. to \in OtherLines
      BY <2>1, AtOtherLine DEF OtherLines
    <3> QED
      BY <1>t, <2>1, <3>1, <3>2, GoesMoved DEF Prepares
  <2>2. CASE Line("next") /\ Loop
    BY <1>t, <2>2, LoopMoved
  <2> QED
    BY <1>2, <2>1, <2>2 DEF Slept
<1>3. CASE Acquire
  <2>1. PICK to \in {"while", "write1"} : GoOn(to) /\ to = IF CvTest THEN "while" ELSE "write1"
    BY <1>3 DEF Acquire
  <2>2. Line("acquire")
    BY <1>3 DEF Acquire
  <2>3. to \in OtherLines
    BY <2>1, <2>2, AtOtherLine DEF OtherLines, Sleeping, CvTest
  <2> QED
    BY <1>t, <2>1, <2>2, <2>3, GoesMoved DEF Prepares
<1>4. CASE WriteAndYield
  <2>1. PICK from \in {"write1", "write2", "write3"}, to \in {"write2", "write3", "release"} :
          Line(from) /\ GoOn(to)
    BY <1>4 DEF WriteAndYield
  <2>2. to \in OtherLines
    BY <2>1, AtOtherLine DEF OtherLines, Sleeping, CvTest
  <2> QED
    BY <1>t, <2>1, <2>2, GoesMoved DEF Prepares
<1>5. CASE Release
  BY <1>5, <1>t, LoopMoved DEF Release
<1>6. CASE WhileNotMine \/ PassTurn \/ Notify
  <2>1. PICK from \in {"while", "woken", "mine", "notify"},
             to \in {"woken", "mine", "while", "done", "notify", "release"} :
          Line(from) /\ GoOn(to)
    BY <1>6 DEF WhileNotMine, PassTurn, Notify, TimeCheck
  <2>2. to \in OtherLines
    BY <2>1, AtOtherLine DEF OtherLines, Sleeping, CvTest
  <2> QED
    BY <1>t, <2>1, <2>2, GoesMoved DEF Prepares
<1>7. CASE MovePotato \/ Scramble
  <2>1. PICK from \in {"cas", "move", "pass", "passed", "unlock", "moved"},
             to \in {"cas", "move", "pass", "passed", "unlock", "moved"} :
          Line(from) /\ GoOn(to)
    BY <1>7 DEF MovePotato, Scramble
  <2>2. to \in OtherLines
    BY <2>1, AtOtherLine DEF OtherLines, Sleeping
  <2> QED
    BY <1>t, <2>1, <2>2, GoesMoved DEF Prepares
<1>8. CASE Finish
  <2>1. CASE Line("done") /\ GoOn("exit")
    <3>1. "exit" \in OtherLines
      BY <2>1, AtOtherLine DEF OtherLines
    <3> QED
      BY <1>t, <2>1, <3>1, GoesMoved DEF Prepares
  <2>2. CASE Line("exit") /\ local' = local
    BY <1>t, <2>2, AtOtherLine, AtLine, LiveFacts DEF Moved, Line, num, me
  <2> QED
    BY <1>8, <2>1, <2>2 DEF Finish
<1> QED
  BY <1>1, <1>2, <1>3, <1>4, <1>5, <1>6, <1>7, <1>8 DEF OtherStep

LEMMA PlacesOther ==
  ASSUME Live, OtherStep
  PROVE  PlacesOK'
<1>1. Moved
  BY OtherEffect
<1>v. Values /\ num \in Nums
  BY LiveFacts DEF PlacesOK, Values
<1>2. Values'
  <2>1. CASE InterruptsOff \/ Slept \/ Acquire \/ Release \/ Scramble \/ Finish \/ Notify
    <3>1. /\ UNCHANGED <<created, nr_sleeping, potato, potato_lock, testval>>
          /\ done' \in {done, done + 1} /\ spun' = spun
      BY <2>1 DEF InterruptsOff, Slept, Acquire, Release, Scramble, Finish, Notify, shared
    <3> QED
      BY <3>1, ValuesKept
  <2>2. CASE SleepTested
    <3>1. spun' \in [Tid -> BOOLEAN]
      BY <1>v, <2>2, LiveFacts DEF SleepTested, WaitBegins, Values
    <3> QED
      BY <1>v, <2>2, <3>1 DEF SleepTested, Values
  <2>3. CASE WriteAndYield
    <3>1. testval' \in [1 .. 3 -> Nums]
      BY <1>v, <2>3 DEF WriteAndYield, Writes, Values
    <3> QED
      BY <1>v, <2>3, <3>1 DEF WriteAndYield, Values
  <2>4. CASE WhileNotMine
    <3>1. /\ UNCHANGED <<created, nr_sleeping, potato, potato_lock, testval, done>>
          /\ spun' = spun \/ WaitBegins
      BY <2>4 DEF WhileNotMine, shared
    <3> QED
      BY <3>1, ValuesKept
  <2>5. CASE PassTurn
    <3>1. PICK v : v = (testval[1] + NTHREADS - 1) % NTHREADS
      OBVIOUS
    <3>2. testval[1] + NTHREADS - 1 \in Nat
      BY <1>v, ConstantFacts DEF Values, Nums
    <3>3. v \in Nums
      BY <3>1, <3>2, ConstantFacts DEF Nums
    <3>4. testval' = [testval EXCEPT ![1] = v]
      BY <2>5, <3>1 DEF PassTurn
    <3>5. testval' \in [1 .. 3 -> Nums]
      BY <1>v, <3>3, <3>4 DEF Values
    <3>6. spun' \in [Tid -> BOOLEAN]
      BY <2>5 DEF PassTurn, Spin5ms
    <3> QED
      BY <1>v, <2>5, <3>5, <3>6 DEF PassTurn, Values
  <2>6. CASE MovePotato
    <3>1. potato' \in [Nums -> {0, 1}]
      BY <1>v, <2>6 DEF MovePotato, Values
    <3> QED
      BY <1>v, <2>6, <3>1 DEF MovePotato, Values
  <2> QED
    BY <2>1, <2>2, <2>3, <2>4, <2>5, <2>6 DEF OtherStep
<1>3. local'[0].line # "prepare" => created' = NTHREADS
  BY <1>1, LiveFacts, ConstantFacts DEF Moved, PlacesOK, Others
<1> QED
  BY <1>1, <1>2, <1>3, PlacesKept DEF Moved, Others

-----------------------------------------------------------------------------
(* The table of threads, and the main thread's calls.                      *)
Steady ==
  /\ FramesKept /\ SameThreads /\ thread_index'[0] # "sleep"
  /\ UNCHANGED <<made, outcome>>

LEMMA QuietSteady ==
  ASSUME Live, Quiet
  PROVE  Steady
  BY LiveFacts, ConstantFacts DEF Quiet, Steady, SameSleepers

LEMMA StandsSteady ==
  ASSUME Live, UNCHANGED vars
  PROVE  Steady
  BY Stutters, QuietSteady

LEMMA SleepOnSteady ==
  ASSUME Live, Running("user"), curr_running \in Others, NEW q \in Queues, SleepOn(q, "user")
  PROVE  Steady
  BY SleepSteady, LiveFacts, ConstantFacts DEF Live, Steady, Others

LEMMA WakeupInSteady ==
  ASSUME Live, Running("user"), NEW q \in Queues, NEW wakesAll \in BOOLEAN,
         WakeupIn(q, wakesAll)
  PROVE  Steady
  BY WakeSteady, LiveFacts, ConstantFacts DEF Live, Steady

(* A thread in a lock call is not the main thread, which is ready, so that *)
(* thread_sleep in the call sleeps.                                        *)
LEMMA InsideCall ==
  ASSUME Live, CallStep
  PROVE  /\ curr_running \in Others /\ thread_index[0] = "ready" /\ ~NoneReady
         /\ Running("user") /\ mine.pc # "none" /\ mine.lock = testlock /\ mine.mask = TRUE
         /\ local[curr_running].line \in {"write1", "while", "woken"}
         /\ \/ call[curr_running].cv \in CVs
            \/ call[curr_running].pc \notin {"cv_release", "cv_sleep"}
<1>1. Running("user") /\ mine.pc # "none"
  BY DEF CallStep, AcquireSleep, AcquireFree, AcquireTake, CvRelease, CvSleep, Leave, InCall
<1>2. curr_running \in Others
  BY <1>1, LiveFacts DEF MainOK, Others, mine
<1>3. thread_index[0] = "ready"
  BY <1>2, LiveFacts, ConstantFacts DEF ParkedOK, Others
<1> QED
  BY <1>1, <1>2, <1>3, LiveFacts, ConstantFacts DEF CallFits, CallOK, NoneReady, mine

LEMMA CallSteady ==
  ASSUME Live, CallStep
  PROVE  Steady
<1>a. /\ curr_running \in Others /\ ~NoneReady /\ Running("user")
      /\ mine.lock = testlock /\ mine.mask = TRUE
  BY InsideCall
<1>1. CASE AcquireSleep \/ CvSleep
  <2>1. PICK q \in Queues : SleepOn(q, "user")
    BY <1>a, <1>1, InsideCall, ConstantFacts DEF AcquireSleep, CvSleep, SleepIn, InCall, mine
  <2> QED
    BY <1>a, <2>1, SleepOnSteady
<1>2. CASE AcquireFree \/ AcquireTake
  BY <1>2, StandsSteady DEF AcquireFree, AcquireTake
<1>3. CASE CvRelease
  <2>1. WakeupIn(testlock, TRUE)
    BY <1>a, <1>3 DEF CvRelease, gives_lock_up, Free, wakes_all
  <2> QED
    BY <1>a, <2>1, WakeupInSteady, ConstantFacts
<1>4. CASE Leave
  BY <1>a, <1>4, SetInterruptsQuiet, QuietSteady DEF Leave, Live
<1> QED
  BY <1>1, <1>2, <1>3, <1>4 DEF CallStep

Exits == Line("exit") /\ MonitorExit /\ UNCHANGED test_vars
LEMMA OtherSteady ==
  ASSUME Live, OtherStep
  PROVE  Steady \/ Exits
<1>a. curr_running \in Others /\ InCall("none") /\ Running("user")
  BY OtherEffect DEF Moved, InCall
<1>1. CASE InterruptsOff \/ Slept
  BY <1>1, InterruptsSetQuiet, QuietSteady, StandsSteady
     DEF InterruptsOff, Slept, Live, allvars
<1>2. CASE SleepTested
  BY <1>a, <1>2, SleepOnSteady, ConstantFacts DEF SleepTested
<1>3. CASE Acquire
  BY <1>a, <1>3, SetInterruptsQuiet, QuietSteady
     DEF Acquire, LockAcquire, Enter, entry_mask, Live
<1>4. CASE WriteAndYield \/ Scramble
  BY <1>4, ThreadStepQuiet, QuietSteady, StandsSteady DEF WriteAndYield, Scramble, Live
<1>5. CASE Release
  <2>1. PICK l \in Locks : WakeupIn(l, TRUE)
    BY <1>5 DEF Release, LockRelease, Free, wakes_all
  <2> QED
    BY <1>a, <2>1, WakeupInSteady, ConstantFacts
<1>6. CASE WhileNotMine
  <2>1. CASE CvWait
    BY <1>a, <2>1, SetInterruptsQuiet, QuietSteady DEF CvWait, Enter, entry_mask, Live
  <2> QED
    BY <1>6, <2>1, StandsSteady DEF WhileNotMine, allvars
<1>7. CASE PassTurn \/ MovePotato
  BY <1>7, StandsSteady DEF PassTurn, MovePotato, allvars
<1>8. CASE Notify
  <2>1. testval[1] \in Nums
    BY LiveFacts
  <2>2. testcv_signal[testval[1]] \in CVs
    BY <2>1, TestAssumption DEF Nums
  <2> QED
    BY <1>a, <1>8, <2>2, WakeupInSteady, ConstantFacts, TestAssumption DEF Notify
<1>9. CASE Finish
  BY <1>9, StandsSteady DEF Finish, Exits, allvars, test_vars, shared
<1> QED
  BY <1>1, <1>2, <1>3, <1>4, <1>5, <1>6, <1>7, <1>8, <1>9 DEF OtherStep

(* Only the main thread's step changes its line; the thread it creates     *)
(* stays.                                                                  *)
LEMMA MainKept ==
  ASSUME Live, Inv', FramesKept, SameThreads, thread_index'[0] # "sleep",
         call'[0].pc = "none", test' = test,
         \A at \in {"create_ret", "kill_chk"} :
           InTail(0, at) => local'[0].line = local[0].line,
         InTail(0, "create_ret") /\ (Sleeping \/ test = "potato")
           /\ stack[0].arg \in Working => stack[0].arg \in Working'
  PROVE  MainOK'
<1>1. Sleeping' = Sleeping
  BY SameTest
<1>2. thread_index' \in [Tid -> Status]
  BY DEF Inv, TypeOK
<1>3. thread_index'[0] \in {"ready", "running"}
  <2>1. Alive(0)'
    BY LiveFacts, ConstantFacts DEF SameThreads, Alive
  <2> QED
    BY <1>2, <2>1, ConstantFacts DEF Alive, Status
<1>4. \A t \in Others : ~InTail(t, "create_ret")' /\ ~InTail(t, "kill_chk")'
  BY LiveFacts DEF MainOK, FramesKept, Others
<1>5. ASSUME InTail(0, "create_ret")'
      PROVE  /\ local'[0].line = "prepare"
             /\ Sleeping' \/ test' = "potato" => stack'[0].arg \in Working'
  <2>1. InTail(0, "create_ret") /\ stack'[0].arg = stack[0].arg
    BY <1>5, ConstantFacts DEF FramesKept
  <2> QED
    BY <1>1, <2>1, LiveFacts DEF MainOK
<1>6. ASSUME InTail(0, "kill_chk")'
      PROVE  local'[0].line = "kill" /\ stack'[0].arg # 0 /\ Alive(stack[0].arg)'
             /\ stack'[0].arg = stack[0].arg
  <2>1. InTail(0, "kill_chk") /\ stack'[0].arg = stack[0].arg
    BY <1>6, ConstantFacts DEF FramesKept
  <2>2. local[0].line = "kill" /\ stack[0].arg # 0 /\ Alive(stack[0].arg)
    BY <2>1, LiveFacts DEF MainOK
  <2>3. stack[0].arg \in Tid
    BY <2>1, LiveFacts, ConstantFacts DEF FrameOK, InTail
  <2> QED
    BY <2>1, <2>2, <2>3 DEF SameThreads
<1>7. test' = "potato" => \A t \in Tid : thread_index'[t] # "killed"
  BY LiveFacts DEF MainOK, SameThreads
<1> QED
  BY <1>3, <1>4, <1>5, <1>6, <1>7 DEF MainOK, Alive

LEMMA OthersCalls ==
  ASSUME Live, OtherStep \/ CallStep
  PROVE  \A t \in Tid \ {curr_running} : call'[t] = call[t] /\ holds'[t] = holds[t]
<1>a. MonitorTypeOK /\ curr_running \in Tid
  BY LiveFacts
<1>1. ASSUME NEW pc, NEW l, NEW c, Enter(pc, l, c)
      PROVE  \A t \in Tid \ {curr_running} : call'[t] = call[t] /\ holds'[t] = holds[t]
  BY <1>a, <1>1 DEF Enter, MonitorTypeOK
<1>2. ASSUME NEW l, Free(l)
      PROVE  \A t \in Tid \ {curr_running} : holds'[t] = holds[t]
  BY <1>a, <1>2 DEF Free, MonitorTypeOK
<1>3. ASSUME NEW pc, Goto(pc)
      PROVE  \A t \in Tid \ {curr_running} : call'[t] = call[t]
  BY <1>a, <1>3 DEF Goto, MonitorTypeOK
<1>4. CASE Acquire \/ WhileNotMine
  BY <1>1, <1>4 DEF Acquire, LockAcquire, WhileNotMine, CvWait, allvars, mvars
<1>5. CASE Release
  BY <1>2, <1>5 DEF Release, LockRelease
<1>6. CASE Finish
  BY <1>a, <1>6 DEF Finish, MonitorExit, MonitorTypeOK, allvars, mvars
<1>7. CASE InterruptsOff \/ SleepTested \/ Slept \/ WriteAndYield \/ PassTurn \/ Notify
             \/ MovePotato \/ Scramble
  BY <1>7 DEF InterruptsOff, SleepTested, Slept, WriteAndYield, PassTurn, Notify,
              MovePotato, Scramble, allvars, mvars
<1>8. CASE AcquireSleep
  BY <1>8 DEF AcquireSleep, mvars
<1>9. CASE AcquireFree \/ CvSleep
  BY <1>3, <1>9 DEF AcquireFree, CvSleep
<1>10. CASE AcquireTake
  BY <1>a, <1>3, <1>10 DEF AcquireTake, MonitorTypeOK
<1>11. CASE CvRelease
  BY <1>2, <1>3, <1>11 DEF CvRelease, gives_lock_up
<1>12. CASE Leave
  BY <1>a, <1>12 DEF Leave, MonitorTypeOK
<1> QED
  BY <1>4, <1>5, <1>6, <1>7, <1>8, <1>9, <1>10, <1>11, <1>12 DEF OtherStep, CallStep

LEMMA ExitLine ==
  ASSUME Live, Exits
  PROVE  /\ local[curr_running].line = "exit" /\ test # "potato" /\ here.at = "user"
         /\ UNCHANGED <<test, local, created, done, shared, spun, busy>>
  BY AtLine, AtOtherLine DEF Exits, test_vars, shared

(* Nobody comes to its end while the main thread, in the tests of wakeup   *)
(* and of preemption, creates the threads.                                 *)
LEMMA NobodyEnds ==
  ASSUME Live, OtherStep, Sleeping \/ test = "potato", local[0].line \in {"prepare", "kill"}
  PROVE  /\ local[curr_running].line \notin {"done", "exit"}
         /\ local'[curr_running].line # "exit"
<1>1. Moved /\ thread_index[curr_running] # "sleep"
  BY OtherEffect, AtLine DEF Moved, Line, me
<1>2. local[curr_running].line \notin {"done", "exit"}
  <2>1. CASE Sleeping
    <3>1. local[0].line = "prepare"
      BY <2>1, LiveFacts DEF PlacesOK, MainLines
    <3> QED
      BY <1>1, <2>1, <3>1, LiveFacts DEF SleepersOK, Moved
  <2>2. CASE test = "potato"
    BY <1>1, <2>2 DEF Moved, OtherLines, Sleeping
  <2> QED
    BY <2>1, <2>2
<1> QED
  BY <1>1, <1>2 DEF Moved

LEMMA MainOther ==
  ASSUME Live, Inv', OtherStep
  PROVE  MainOK'
<1>1. Moved /\ call'[0].pc = "none" /\ local'[0] = local[0]
  BY OtherEffect, OthersCalls, LiveFacts, ConstantFacts DEF Moved, MainOK, Others
<1>2. CASE Steady
  <2>1. ASSUME InTail(0, "create_ret"), Sleeping \/ test = "potato", stack[0].arg \in Working
        PROVE  stack[0].arg \in Working'
    <3>1. local[0].line = "prepare"
      BY <2>1, LiveFacts DEF MainOK
    <3>2. local'[curr_running].line \notin {"exit", "prepare"}
      BY <1>1, <2>1, <3>1, NobodyEnds DEF Moved
    <3> QED
      BY <1>1, <2>1, <3>2 DEF Working, Moved, Others
  <2> QED
    BY <1>1, <1>2, <2>1, MainKept DEF Steady, Moved
<1>3. CASE Exits
  <2>1. local[curr_running].line = "exit" /\ local' = local /\ test' = test /\ test # "potato"
    BY <1>3, ExitLine
  <2>2. /\ stack'[curr_running] = Fresh("none")
        /\ \A t \in Tid \ {curr_running} :
             /\ stack'[t] = stack[t]
             /\ \/ thread_index'[t] = thread_index[t]
                \/ thread_index[t] = "ready" /\ thread_index'[t] = "running"
    BY <1>3, ExitEffect DEF Exits, MonitorExit, Live
  <2>3. \A t \in Others : ~InTail(t, "create_ret")' /\ ~InTail(t, "kill_chk")'
    BY <2>2, LiveFacts DEF MainOK, Others, InTail, Fresh
  <2>4. thread_index'[0] \in {"ready", "running"} /\ stack'[0] = stack[0]
    BY <1>1, <2>2, LiveFacts, ConstantFacts DEF MainOK, Moved, Others
  <2>5. local[0].line # "kill"
    BY <2>1, LiveFacts DEF PlacesOK, MainLines
  <2>6. ~Sleeping \/ local[0].line # "prepare"
    BY <2>1, NobodyEnds
  <2>7. Sleeping' = Sleeping
    BY <2>1, SameTest
  <2> QED
    BY <1>1, <2>1, <2>3, <2>4, <2>5, <2>6, <2>7, LiveFacts DEF MainOK, InTail
<1> QED
  BY <1>2, <1>3, OtherSteady

MainStep ==
  Prepare \/ CreateThread \/ MainSteps \/ WakeUp \/ Killing \/ Destroy

LEMMA AtMain ==
  ASSUME Live, MainStep
  PROVE  /\ curr_running = 0 /\ Running("user") /\ InCall("none") /\ UNCHANGED call
         /\ ~InTail(0, "create_ret") /\ ~InTail(0, "kill_chk")
         /\ test' = test
<1>1. PICK line \in Prepares : Line(line)
  BY DEF MainStep, Prepare, CreateThread, MainSteps, MainWait, WakeUp, Killing, Destroy,
         AllDone, Prepares
<1>2. UNCHANGED call
  BY DEF MainStep, Prepare, CreateThread, MainSteps, MainWait, WakeUp, Killing, Destroy,
         mvars, allvars, LockCreate, CvCreate, LockDestroy, CvDestroy, MonitorKillCheck
<1>3. test' = test
  BY TestKept DEF MainStep, TestNext, ProgramStep
<1> QED
  BY <1>1, <1>2, <1>3, AtLine, AtMainLine DEF Line, InCall, InTail, Prepares, here

LEMMA WaitSteady ==
  ASSUME Live, MainSteps \/ WakeUp
  PROVE  Steady
<1>a. Running("user")
  BY AtMain DEF MainStep
<1>1. CASE UNCHANGED vars
  BY <1>1, StandsSteady
<1>2. CASE YieldAny
  BY <1>2, ThreadStepQuiet, QuietSteady DEF Live
<1>3. CASE WakeOn(queue_tested, all)
  <2>1. WakeupIn(queue_tested, all) /\ all \in BOOLEAN
    BY <1>3 DEF WakeupIn, WakeOn, all
  <2> QED
    BY <1>a, <2>1, WakeupInSteady, ConstantFacts
<1> QED
  BY <1>1, <1>2, <1>3 DEF MainSteps, MainWait, WakeUp, allvars

LEMMA MainMain ==
  ASSUME TestProgram, Live, Inv', MainStep
  PROVE  MainOK'
<1>a. /\ curr_running = 0 /\ Running("user") /\ UNCHANGED call /\ test' = test
      /\ ~InTail(0, "create_ret") /\ ~InTail(0, "kill_chk")
      /\ call[0].pc = "none" /\ Sleeping' = Sleeping
  BY AtMain, SameTest, LiveFacts DEF MainOK
<1>b. ASSUME FramesKept, SameThreads, thread_index'[0] # "sleep" PROVE MainOK'
  BY <1>a, <1>b, MainKept
<1>1. CASE Prepare \/ Destroy
  <2>1. WaitQueueCreate \/ WaitQueueDestroy
    BY <1>1 DEF Prepare, Destroy, LockCreate, CvCreate, PlainCreate, LockDestroy,
                CvDestroy, PlainDestroy
  <2> QED
    BY <1>b, <2>1, MadeQuiet, LiveFacts, ConstantFacts DEF TestProgram, Live
<1>2. CASE CreateThread
  <2>1. Create /\ UNCHANGED done
    BY <1>2 DEF CreateThread, shared
  <2>2. PICK n \in Tid :
          /\ tid_generator(n)
          /\ local' = [local EXCEPT ![n] = [line |-> FirstLine, num |-> created, i |-> 0]]
    BY <1>2 DEF CreateThread
  <2>3. /\ n # curr_running /\ n # 0
        /\ \A t \in Tid \ {n, curr_running} : stack'[t] = stack[t]
        /\ \A t \in Tid \ {n} : thread_index'[t] = thread_index[t]
        /\ thread_index'[n] = "ready" /\ stack'[n] = Fresh("stub")
        /\ stack'[0].at = "create_ret" /\ stack'[0].back = "none" /\ stack'[0].arg = n
    BY <1>a, <2>1, <2>2, CreateEffect DEF Live
  <2>4. local'[0] = local[0] /\ local'[n].line = FirstLine
    BY <2>2, <2>3, LiveFacts, ConstantFacts
  <2>5. FirstLine \notin {"prepare", "exit"}
    BY DEF FirstLine
  <2>6. n \in Working'
    BY <2>3, <2>4, <2>5 DEF Working, Others
  <2>7. local[0].line = "prepare"
    BY <1>2, <1>a, AtLine DEF CreateThread
  <2>8. thread_index'[0] \in {"ready", "running"}
    BY <2>3, LiveFacts, ConstantFacts
  <2>9. \A t \in Others : ~InTail(t, "create_ret")' /\ ~InTail(t, "kill_chk")'
    BY <1>a, <2>3, LiveFacts DEF MainOK, Others, InTail, Fresh
  <2>10. test = "potato" => \A t \in Tid : thread_index'[t] # "killed"
    BY <2>3, LiveFacts DEF MainOK
  <2> QED
    BY <1>a, <2>3, <2>4, <2>6, <2>7, <2>8, <2>9, <2>10 DEF MainOK, InTail
<1>3. CASE MainSteps \/ WakeUp
  BY <1>b, <1>3, WaitSteady DEF Steady
<1>4. CASE Killing
  <2>1. KillCheck /\ Line("kill")
    BY <1>4 DEF Killing, MonitorKillCheck
  <2>2. PICK t \in Tid :
           /\ t # curr_running /\ thread_index[t] # "NULL"
           /\ (IF t = 0 THEN "main" ELSE thread_index[t]) \in KillOf
           /\ stack'[curr_running].at = "kill_chk" /\ stack'[curr_running].back = "none"
           /\ stack'[curr_running].arg = t /\ stack'[curr_running].wants = here.wants
           /\ \A u \in Tid \ {curr_running} : stack'[u] = stack[u]
           /\ UNCHANGED <<thread_index, queue, made, outcome, curr_running>>
    BY <2>1, KillCheckEffect DEF Live
  <2>3. t # 0 /\ Alive(t)' /\ UNCHANGED thread_index
    BY <1>a, <2>2 DEF TestProgram, Alive
  <2>4. local'[0].line = "kill"
    <3>1. local' = [local EXCEPT ![0].i = @ + 1] /\ local[0].line = "kill"
      BY <1>4, <1>a, <2>1, AtLine DEF Killing
    <3>2. local'[0] = [local[0] EXCEPT !.i = @ + 1]
      BY <3>1, LiveFacts, ConstantFacts
    <3> QED
      BY <3>1, <3>2, LiveFacts, ConstantFacts DEF Locals
  <2>5. \A u \in Others : ~InTail(u, "create_ret")' /\ ~InTail(u, "kill_chk")'
    BY <1>a, <2>2, LiveFacts DEF MainOK, Others, InTail
  <2> QED
    BY <1>a, <2>2, <2>3, <2>4, <2>5, LiveFacts DEF MainOK, InTail, Alive
<1> QED
  BY <1>1, <1>2, <1>3, <1>4 DEF MainStep

LEMMA KillingThread ==
  ASSUME Live, MonitorKill
  PROVE  /\ Kill /\ curr_running = 0 /\ local[0].line = "kill" /\ test = "potato"
         /\ here.arg \in Others
<1>1. Kill /\ here.at = "kill_chk"
  BY DEF MonitorKill, Kill, Running
<1>2. curr_running = 0 /\ local[0].line = "kill"
  BY <1>1, LiveFacts DEF MainOK, Others, InTail, here
<1>3. test = "potato"
  BY <1>2, LiveFacts DEF PlacesOK, MainLines
<1> QED
  BY <1>1, <1>2, <1>3, KillEffect DEF Live, Others

LEMMA MainLibrary ==
  ASSUME Live, Inv', ThreadStep \/ CallStep \/ MonitorKill, UNCHANGED test_vars
  PROVE  MainOK'
<1>a. /\ local' = local /\ test' = test /\ Working' = Working /\ Sleeping' = Sleeping
      /\ call[0].pc = "none"
  BY SameTest, LiveFacts DEF test_vars, Working, Others, MainOK
<1>1. CASE ThreadStep
  <2>1. Steady /\ call' = call
    BY <1>1, ThreadStepQuiet, QuietSteady DEF Live, ThreadStep, mvars
  <2> QED
    BY <1>a, <2>1, MainKept DEF Steady
<1>2. CASE CallStep
  <2>1. Steady /\ curr_running \in Others
    BY <1>2, CallSteady, InsideCall
  <2>2. call'[0] = call[0]
    BY <1>2, <2>1, OthersCalls, ConstantFacts DEF Others
  <2> QED
    BY <1>a, <2>1, <2>2, MainKept DEF Steady
<1>3. CASE MonitorKill
  <2>1. Kill /\ curr_running = 0 /\ here.arg \in Others
    BY <1>3, KillingThread
  <2>2. /\ thread_index'[here.arg] = "NULL" /\ stack'[here.arg] = Fresh("none")
        /\ \A t \in Tid \ {here.arg} : thread_index'[t] = thread_index[t]
        /\ \A t \in Tid \ {here.arg, curr_running} : stack'[t] = stack[t]
        /\ stack'[0].at = "user" /\ stack'[0].back = "none"
    BY <2>1, KillEffect DEF Live
  <2>3. call'[0] = call[0]
    BY <1>3, <2>1, LiveFacts, ConstantFacts DEF MonitorKill, MonitorTypeOK, Others
  <2>4. \A u \in Others : ~InTail(u, "create_ret")' /\ ~InTail(u, "kill_chk")'
    BY <2>1, <2>2, LiveFacts DEF MainOK, Others, InTail, Fresh
  <2>5. thread_index'[0] \in {"ready", "running"}
    BY <2>1, <2>2, LiveFacts, ConstantFacts DEF Others
  <2>6. test = "potato" => \A t \in Tid : thread_index'[t] # "killed"
    BY <2>2, LiveFacts DEF MainOK
  <2> QED
    BY <1>a, <2>2, <2>3, <2>4, <2>5, <2>6 DEF MainOK, InTail
<1> QED
  BY <1>1, <1>2, <1>3

-----------------------------------------------------------------------------
(* Those who work.                                                         *)
LEMMA WorkingFinite ==
  IsFiniteSet(Working) /\ Cardinality(Working) \in Nat
<1>1. IsFiniteSet(Tid)
  BY FS_Interval, ThreadsAssumption DEF Tid
<1>2. Working \subseteq Tid
  BY DEF Working, Others
<1>3. IsFiniteSet(Working)
  BY <1>1, <1>2, FS_Subset
<1> QED
  BY <1>3, FS_CardinalityType

LEMMA WorkersKept ==
  ASSUME Live, SameThreads, UNCHANGED <<test, made, done, created>>,
         \A t \in Others : local'[t].line \in {"prepare", "exit"} =>
           local'[t].line = local[t].line,
         \A t \in Others : local[t].line \in {"prepare", "exit"} =>
           local'[t].line = local[t].line,
         local'[0].line = "prepare" => local[0].line = "prepare"
  PROVE  WorkersOK'
<1>1. Working' = Working
  BY DEF Working
<1>2. Needed' = Needed
  BY SameTest
<1>3. \A t \in Others : local'[t].line = "prepare" => thread_index'[t] = "NULL"
  BY LiveFacts DEF WorkersOK, SameThreads, Others
<1>4. test' # "potato" \/ local'[0].line = "prepare" => \A t \in Working' : Alive(t)'
  BY <1>1, LiveFacts DEF WorkersOK, SameThreads, Working, Others
<1> QED
  BY <1>1, <1>2, <1>3, <1>4, LiveFacts DEF WorkersOK

LEMMA DoneStep ==
  ASSUME Live, OtherStep
  PROVE  done' = IF local[curr_running].line = "done" THEN done + 1 ELSE done
<1>1. CASE Finish
  <2>1. CASE Line("done") /\ done' = done + 1
    BY <2>1, AtLine
  <2>2. CASE Line("exit") /\ done' = done
    BY <2>2, AtLine
  <2> QED
    BY <1>1, <2>1, <2>2 DEF Finish
<1>2. CASE ~Finish
  <2>1. done' = done
    <3>1. CASE InterruptsOff \/ SleepTested \/ Slept \/ Acquire \/ WriteAndYield \/ Release
      BY <3>1 DEF InterruptsOff, SleepTested, Slept, Acquire, WriteAndYield, Release, shared
    <3>2. CASE WhileNotMine \/ PassTurn \/ Notify \/ MovePotato \/ Scramble
      BY <3>2 DEF WhileNotMine, PassTurn, Notify, MovePotato, Scramble, shared
    <3> QED
      BY <1>2, <3>1, <3>2 DEF OtherStep
  <2>2. PICK line \in OtherLines \ {"done"} : Line(line)
    <3>1. CASE InterruptsOff \/ SleepTested \/ Slept \/ Acquire \/ WriteAndYield \/ Release
      <4>1. PICK line \in {"off", "sleep", "slept", "next", "acquire", "write1", "write2",
                           "write3", "release"} : Line(line)
        BY <3>1 DEF InterruptsOff, SleepTested, Slept, Acquire, WriteAndYield, Release
      <4> QED
        BY <4>1, AtOtherLine
    <3>2. CASE WhileNotMine \/ PassTurn \/ Notify \/ MovePotato \/ Scramble
      <4>1. PICK line \in {"while", "woken", "mine", "notify", "cas", "move", "pass", "passed",
                           "unlock", "moved"} : Line(line)
        BY <3>2 DEF WhileNotMine, PassTurn, Notify, MovePotato, Scramble
      <4> QED
        BY <4>1, AtOtherLine
    <3> QED
      BY <1>2, <3>1, <3>2 DEF OtherStep
  <2> QED
    BY <2>1, <2>2, AtLine
<1> QED
  BY <1>1, <1>2

LEMMA WorkersOther ==
  ASSUME Live, OtherStep
  PROVE  WorkersOK'
<1>a. Moved /\ done' = IF local[curr_running].line = "done" THEN done + 1 ELSE done
  BY OtherEffect, DoneStep
<1>b. Needed' = Needed /\ local'[0] = local[0]
  BY <1>a, SameTest, ConstantFacts DEF Moved, Others
<1>1. CASE Steady /\ local[curr_running].line # "done"
  <2>1. \A t \in Others : local'[t].line \in {"prepare", "exit"} =>
           local'[t].line = local[t].line
    BY <1>a, <1>1 DEF Moved, Others
  <2>2. \A t \in Others : local[t].line \in {"prepare", "exit"} =>
           local'[t].line = local[t].line
    BY <1>a, <1>1 DEF Moved, Others
  <2> QED
    BY <1>a, <1>b, <1>1, <2>1, <2>2, WorkersKept DEF Steady, Moved
<1>2. CASE Steady /\ local[curr_running].line = "done"
  <2>1. curr_running \in Working /\ Working' = Working \ {curr_running}
    BY <1>a, <1>2 DEF Moved, Working, Others
  <2>2. test # "potato"
    BY <1>a, <1>2 DEF Moved, OtherLines, Sleeping
  <2>3. Cardinality(Working \ {curr_running}) = Cardinality(Working) - 1
    BY <2>1, WorkingFinite, FS_RemoveElement
  <2>4. Cardinality(Working') + done' = created'
    <3>1. done \in Nat /\ Cardinality(Working) + done = created
      BY <2>2, LiveFacts DEF PlacesOK, WorkersOK
    <3>2. PICK k \in Nat : k = Cardinality(Working)
      BY WorkingFinite
    <3> QED
      BY <1>a, <1>2, <2>1, <2>3, <3>1, <3>2 DEF Moved
  <2>5. \A t \in Others : local'[t].line = "prepare" => thread_index'[t] = "NULL"
    BY <1>a, <1>2, LiveFacts DEF Moved, WorkersOK, Steady, SameThreads, Others
  <2>6. \A t \in Working' : Alive(t)'
    BY <1>2, <2>1, <2>2, LiveFacts DEF WorkersOK, Steady, SameThreads, Working, Others
  <2> QED
    BY <1>b, <1>2, <2>1, <2>4, <2>5, <2>6, LiveFacts DEF WorkersOK, Steady
<1>3. CASE Exits
  <2>1. /\ local[curr_running].line = "exit" /\ test # "potato"
        /\ UNCHANGED <<local, test, created, done>>
    BY <1>3, ExitLine
  <2>2. /\ \A t \in Tid \ {curr_running} :
              /\ Alive(t) => Alive(t)'
              /\ \/ thread_index'[t] = thread_index[t]
                 \/ thread_index[t] = "ready" /\ thread_index'[t] = "running"
        /\ made' = made
    BY <1>3, ExitEffect DEF Exits, MonitorExit, Live
  <2>3. Working' = Working /\ curr_running \notin Working
    BY <2>1 DEF Working
  <2>4. \A t \in Others : local'[t].line = "prepare" => thread_index'[t] = "NULL"
    BY <2>1, <2>2, LiveFacts DEF WorkersOK, Others
  <2>5. \A t \in Working' : Alive(t)'
    BY <2>1, <2>2, <2>3, LiveFacts DEF WorkersOK, Working, Others
  <2> QED
    BY <1>b, <2>1, <2>2, <2>3, <2>4, <2>5, LiveFacts DEF WorkersOK
<1> QED
  BY <1>1, <1>2, <1>3, OtherSteady

LEMMA NoneWorks ==
  ASSUME Live, test # "potato", done = NTHREADS
  PROVE  Working = {}
<1>1. PICK k \in Nat : k = Cardinality(Working)
  BY WorkingFinite
<1>2. k = 0
  BY <1>1, LiveFacts, ConstantFacts DEF WorkersOK, PlacesOK
<1> QED
  BY <1>1, <1>2, WorkingFinite, FS_EmptySet

LEMMA WorkersMain ==
  ASSUME TestProgram, Live, MainStep
  PROVE  WorkersOK'
<1>a. /\ curr_running = 0 /\ Running("user") /\ test' = test /\ Needed' = Needed
  BY AtMain, SameTest
<1>1. CASE Prepare \/ Destroy
  <2>1. WaitQueueCreate \/ WaitQueueDestroy
    BY <1>1 DEF Prepare, Destroy, LockCreate, CvCreate, PlainCreate, LockDestroy,
                CvDestroy, PlainDestroy
  <2>2. UNCHANGED <<thread_index, local, done, created, test>>
    BY <1>1, <2>1, MadeQuiet DEF Prepare, Destroy, test_vars, shared, TestProgram, Live
  <2>3. Working' = Working /\ Working = {}
    <3>1. CASE Prepare
      BY <1>a, <2>2, <3>1, LiveFacts DEF Prepare, WorkersOK, Working
    <3>2. CASE Destroy
      <4>1. test # "potato" /\ done = NTHREADS
        BY <3>2, AtMainLine DEF Destroy, AllDone, Sleeping
      <4> QED
        BY <2>2, <4>1, NoneWorks DEF Working
    <3> QED
      BY <1>1, <3>1, <3>2
  <2>4. made' \subseteq Needed
    <3>1. CASE Prepare
      BY <3>1 DEF Prepare
    <3>2. CASE Destroy
      <4>1. made' \subseteq made
        BY <3>2 DEF Destroy, LockDestroy, CvDestroy, PlainDestroy
      <4> QED
        BY <4>1, LiveFacts DEF WorkersOK
    <3> QED
      BY <1>1, <3>1, <3>2
  <2> QED
    BY <1>a, <2>2, <2>3, <2>4, LiveFacts DEF WorkersOK
<1>2. CASE CreateThread
  <2>1. Create /\ UNCHANGED done /\ created' = created + 1 /\ made = Needed
        /\ local[0].line = "prepare"
    BY <1>2, <1>a, AtLine DEF CreateThread, shared
  <2>2. PICK n \in Tid :
          /\ tid_generator(n)
          /\ local' = [local EXCEPT ![n] = [line |-> FirstLine, num |-> created, i |-> 0]]
    BY <1>2 DEF CreateThread
  <2>3. /\ n # 0 /\ ~Alive(n) /\ thread_index'[n] = "ready"
        /\ \A t \in Tid \ {n} : thread_index'[t] = thread_index[t]
        /\ made' = made
    BY <1>a, <2>1, <2>2, CreateEffect DEF Live
  <2>4. \A t \in Tid \ {n} : local'[t] = local[t]
    BY <2>2, LiveFacts
  <2>5. local'[n].line = FirstLine
    BY <2>2, LiveFacts
  <2>6. FirstLine \notin {"prepare", "exit"}
    BY DEF FirstLine
  <2>7. Working' = Working \cup {n} /\ n \notin Working
    <3>1. n \notin Working
      BY <2>1, <2>3, LiveFacts DEF WorkersOK
    <3> QED
      BY <2>3, <2>4, <2>5, <2>6, <3>1 DEF Working, Others
  <2>8. test # "potato" => Cardinality(Working') + done' = created'
    <3>1. PICK k \in Nat : k = Cardinality(Working)
      BY WorkingFinite
    <3>2. Cardinality(Working \cup {n}) = Cardinality(Working) + 1
      BY <2>7, WorkingFinite, FS_AddElement
    <3> QED
      BY <2>1, <2>7, <3>1, <3>2, LiveFacts DEF WorkersOK, PlacesOK
  <2>9. \A t \in Others : local'[t].line = "prepare" => thread_index'[t] = "NULL"
    BY <2>3, <2>4, <2>5, <2>6, LiveFacts DEF WorkersOK, Others
  <2>10. \A t \in Working' : Alive(t)'
    BY <2>1, <2>3, <2>7, LiveFacts DEF WorkersOK, Alive, Working, Others
  <2> QED
    BY <1>a, <2>1, <2>3, <2>8, <2>9, <2>10 DEF WorkersOK
<1>3. CASE MainSteps \/ WakeUp
  <2>1. Steady
    BY <1>3, WaitSteady
  <2>2. (\E line \in Prepares \ {"prepare"} : GoOn(line)) \/ local' = local
    <3>1. CASE \E line : GoOn(line) /\ line \in Prepares \ {"prepare"}
      BY <3>1
    <3>2. (\E line : GoOn(line) /\ line \in Prepares \ {"prepare"}) \/ local' = local
      BY <1>3 DEF MainSteps, MainWait, WakeUp, Prepares
    <3> QED
      BY <3>1, <3>2
  <2>3. /\ \A t \in Tid \ {0} : local'[t] = local[t]
        /\ local'[0].line = "prepare" => local[0].line = "prepare"
    BY <1>a, <2>2, GoOnEffect
  <2>4. UNCHANGED <<done, created>>
    BY <1>3 DEF MainSteps, WakeUp, shared
  <2> QED
    BY <1>a, <2>1, <2>3, <2>4, WorkersKept DEF Steady, Others
<1>4. CASE Killing
  <2>1. UNCHANGED <<thread_index, made, done, created>> /\ SameThreads
    BY <1>4 DEF Killing, MonitorKillCheck, KillCheck, shared, SameThreads, Alive
  <2>2. local' = [local EXCEPT ![0].i = @ + 1]
    BY <1>a, <1>4 DEF Killing
  <2>3. /\ \A t \in Tid \ {0} : local'[t] = local[t]
        /\ local'[0].line = local[0].line
    BY <2>2, LiveFacts, ConstantFacts DEF Locals
  <2> QED
    BY <1>a, <2>1, <2>3, WorkersKept DEF Others
<1> QED
  BY <1>1, <1>2, <1>3, <1>4 DEF MainStep

LEMMA WorkersLibrary ==
  ASSUME Live, ThreadStep \/ CallStep \/ MonitorKill, UNCHANGED test_vars
  PROVE  WorkersOK'
<1>a. UNCHANGED <<local, test, done, created>>
  BY DEF test_vars, shared
<1>1. CASE ThreadStep \/ CallStep
  <2>1. Steady
    BY <1>1, ThreadStepQuiet, QuietSteady, CallSteady DEF Live
  <2> QED
    BY <1>a, <2>1, WorkersKept DEF Steady
<1>2. CASE MonitorKill
  <2>1. /\ local[0].line = "kill" /\ test = "potato" /\ made' = made
        /\ \A t \in Tid : thread_index'[t] \in {thread_index[t], "NULL"}
    BY <1>2, KillingThread, KillEffect DEF Live
  <2>2. Working' = Working /\ Needed' = Needed
    BY <1>a, SameTest DEF Working
  <2>3. \A t \in Others : local'[t].line = "prepare" => thread_index'[t] = "NULL"
    BY <1>a, <2>1, LiveFacts DEF WorkersOK, Others
  <2> QED
    BY <1>a, <2>1, <2>2, <2>3, LiveFacts DEF WorkersOK
<1> QED
  BY <1>1, <1>2

-----------------------------------------------------------------------------
(* The masks, and the lock the threads of a test take.                     *)
LEMMA FitsKept ==
  ASSUME Live, NEW t \in Tid, call'[t] = call[t], holds'[t] = holds[t],
         stack'[t].wants = stack[t].wants, local'[t].line = local[t].line
  PROVE  CallFits(t)' /\ HoldFits(t)'
  BY LiveFacts DEF CallFits, HoldFits

(* Outside any call.                                                       *)
LEMMA FitsOutside ==
  ASSUME NEW t \in Tid, call'[t].pc = "none",
         stack'[t].wants = (local'[t].line \notin {"sleep", "slept"}),
         local'[t].line \in Inner => testlock \in holds'[t]
  PROVE  CallFits(t)' /\ HoldFits(t)'
  BY DEF CallFits, HoldFits

LEMMA OnlyLock ==
  ASSUME Live, NEW l \in Locks \cap made
  PROVE  l = testlock
  BY LiveFacts, ConstantFacts DEF WorkersOK

CallerFits == \A t \in {curr_running} : CallFits(t)' /\ HoldFits(t)'

LEMMA EnterFits ==
  ASSUME Live, NEW pc \in {"test", "cv_release"}, NEW l \in Locks \cap made, NEW c,
         Enter(pc, l, c),
         enabled = TRUE, local'[curr_running].line \in {"write1", "while", "woken"},
         pc = "cv_release" => local'[curr_running].line = "woken"
  PROVE  CallerFits
<1>1. PICK r : r = [pc |-> pc, lock |-> l, cv |-> c, mask |-> enabled]
  OBVIOUS
<1>2. r.pc = pc /\ r.lock = testlock /\ r.mask = TRUE
  BY <1>1, OnlyLock
<1>3. call'[curr_running] = r
  BY <1>1, LiveFacts DEF Enter, MonitorTypeOK
<1> QED
  BY <1>2, <1>3 DEF CallFits, HoldFits, CallerFits

(* A step of a thread outside any call that stays outside.                 *)
LEMMA GoOnFits ==
  ASSUME Live, UNCHANGED call, InCall("none"),
         stack'[curr_running].wants = (local'[curr_running].line \notin {"sleep", "slept"}),
         \/ local'[curr_running].line \notin Inner
         \/ local[curr_running].line \in Inner /\ holds' = holds
  PROVE  CallerFits
<1>1. call[curr_running].pc = "none" /\ HoldFits(curr_running)
  BY LiveFacts DEF InCall, mine
<1> QED
  BY <1>1, FitsOutside, LiveFacts DEF HoldFits, CallerFits

(* What other threads asked of their masks stays; so does the caller's, in *)
(* most calls.                                                             *)
LEMMA OtherWants ==
  ASSUME Live, OtherStep
  PROVE  \/ WantsKept
         \/ /\ InterruptsOff \/ Slept \/ Acquire \/ WhileNotMine \/ Exits
            /\ \A t \in Tid \ {curr_running} : stack'[t].wants = stack[t].wants
<1>a. InCall("none") /\ Running("user")
  BY OtherEffect DEF Moved, InCall
<1>1. CASE InterruptsOff \/ Slept
  BY <1>1, InterruptsSetQuiet, Stutters DEF InterruptsOff, Slept, Live, allvars
<1>2. CASE SleepTested
  BY <1>a, <1>2, SleepSteady, ConstantFacts DEF SleepTested, Live
<1>3. CASE Acquire
  BY <1>a, <1>3, SetInterruptsQuiet DEF Acquire, LockAcquire, Enter, entry_mask, Live
<1>4. CASE WriteAndYield \/ Scramble
  BY <1>4, ThreadStepQuiet, Stutters DEF WriteAndYield, Scramble, Live
<1>5. CASE Release
  <2>1. PICK l \in Locks : WakeupIn(l, TRUE)
    BY <1>5 DEF Release, LockRelease, Free, wakes_all
  <2> QED
    BY <1>a, <2>1, WakeSteady, ConstantFacts DEF Live
<1>6. CASE WhileNotMine
  <2>1. CASE CvWait
    BY <1>a, <1>6, <2>1, SetInterruptsQuiet DEF CvWait, Enter, entry_mask, Live
  <2> QED
    BY <1>6, <2>1, Stutters DEF WhileNotMine, allvars
<1>7. CASE PassTurn \/ MovePotato
  BY <1>7, Stutters DEF PassTurn, MovePotato, allvars
<1>8. CASE Notify
  <2>1. testval[1] \in Nums
    BY LiveFacts
  <2>2. testcv_signal[testval[1]] \in CVs
    BY <2>1, TestAssumption DEF Nums
  <2> QED
    BY <1>a, <1>8, <2>2, WakeSteady, ConstantFacts, TestAssumption DEF Notify, Live
<1>9. CASE Finish
  <2>1. CASE UNCHANGED vars
    BY <2>1, Stutters
  <2>2. CASE Exits
    BY <2>2, ExitEffect DEF Exits, MonitorExit, Live
  <2> QED
    BY <1>9, <2>1, <2>2 DEF Finish, Exits, allvars, test_vars, shared
<1> QED
  BY <1>1, <1>2, <1>3, <1>4, <1>5, <1>6, <1>7, <1>8, <1>9 DEF OtherStep

LEMMA CallerFitsOther ==
  ASSUME Live, OtherStep
  PROVE  CallerFits
<1>a. Moved /\ InCall("none") /\ curr_running \in Tid
  BY OtherEffect, LiveFacts DEF Moved
<1>b. ASSUME WantsKept PROVE stack'[curr_running].wants = here.wants
  BY <1>a, <1>b DEF WantsKept, here
<1>1. CASE InterruptsOff
  <2>1. Line("off") /\ GoOn("sleep") /\ InterruptsSet /\ UNCHANGED mvars
    BY <1>1 DEF InterruptsOff
  <2>2. local'[curr_running].line = "sleep" /\ here.wants = TRUE
    BY <2>1, GoOnEffect, AtLine
  <2>3. stack'[curr_running].wants = ~here.wants
    BY <2>1, InterruptsSetQuiet DEF Live
  <2> QED
    BY <1>a, <2>1, <2>2, <2>3, GoOnFits DEF mvars, Inner
<1>2. CASE SleepTested
  <2>1. Line("sleep") /\ GoOn("slept") /\ SleepOn(queue_tested, "user") /\ UNCHANGED mvars
    BY <1>2 DEF SleepTested
  <2>2. local'[curr_running].line = "slept" /\ here.wants = FALSE
    BY <2>1, GoOnEffect, AtLine
  <2>3. stack'[curr_running].wants = here.wants
    BY <1>a, <1>b, <2>1, SleepSteady, ConstantFacts DEF Live, InCall
  <2> QED
    BY <1>a, <2>1, <2>2, <2>3, GoOnFits DEF mvars, Inner
<1>3. CASE Slept
  <2>1. CASE Line("slept") /\ InterruptsSet /\ TimeCheck("next") /\ UNCHANGED mvars
    <3>1. local'[curr_running].line \in {"next", "done"} /\ here.wants = FALSE
      BY <2>1, GoOnEffect, AtLine DEF TimeCheck
    <3>2. stack'[curr_running].wants = ~here.wants
      BY <2>1, InterruptsSetQuiet DEF Live
    <3> QED
      BY <1>a, <2>1, <3>1, <3>2, GoOnFits DEF mvars, Inner
  <2>2. CASE Line("next") /\ Loop /\ UNCHANGED allvars
    <3>1. local'[curr_running].line \in {FirstLine, "done"} /\ here.wants = TRUE
      BY <2>2, LoopEffect, AtLine
    <3>2. FirstLine \notin {"sleep", "slept"} \cup Inner
      BY DEF FirstLine, Inner
    <3>3. stack' = stack /\ call' = call
      BY <2>2 DEF allvars, vars, mvars
    <3> QED
      BY <1>a, <3>1, <3>2, <3>3, GoOnFits DEF here, Inner
  <2> QED
    BY <1>3, <2>1, <2>2 DEF Slept
<1>4. CASE Acquire
  <2>1. PICK l \in Locks \cap made : Enter("test", l, NoQueue)
    BY <1>4 DEF Acquire, LockAcquire
  <2>2. Line("acquire") /\ GoOn(IF CvTest THEN "while" ELSE "write1")
    BY <1>4 DEF Acquire
  <2>3. local'[curr_running].line \in {"while", "write1"} /\ enabled = TRUE
    BY <2>2, GoOnEffect, AtLine
  <2> QED
    BY <2>1, <2>3, EnterFits
<1>5. CASE WriteAndYield
  <2>1. PICK from \in {"write1", "write2", "write3"}, to \in {"write2", "write3", "release"} :
          Line(from) /\ GoOn(to)
    BY <1>5 DEF WriteAndYield
  <2>2. UNCHANGED mvars /\ WantsKept
    BY <1>5, ThreadStepQuiet, Stutters DEF WriteAndYield, Live
  <2>3. /\ local'[curr_running].line = to /\ local[curr_running].line = from
        /\ here.wants = TRUE
    BY <2>1, GoOnEffect, AtLine
  <2> QED
    BY <1>a, <1>b, <2>2, <2>3, GoOnFits DEF mvars, Inner
<1>6. CASE Release
  <2>1. PICK l \in Locks : WakeupIn(l, TRUE) /\ UNCHANGED call
    BY <1>6 DEF Release, LockRelease, Free, wakes_all
  <2>2. stack' = stack
    BY <1>a, <2>1, WakeSteady, ConstantFacts DEF Live, InCall
  <2>3. local'[curr_running].line \in {FirstLine, "done"} /\ here.wants = TRUE
    BY <1>6, LoopEffect, AtLine DEF Release
  <2>4. FirstLine \notin {"sleep", "slept"} \cup Inner
    BY DEF FirstLine, Inner
  <2> QED
    BY <1>a, <2>1, <2>2, <2>3, <2>4, GoOnFits DEF here, Inner
<1>7. CASE WhileNotMine
  <2>1. CASE Line("while") /\ CvWait /\ GoOn("woken")
    <3>1. PICK l, c : l \in Locks \cap made /\ Enter("cv_release", l, c)
      BY <2>1 DEF CvWait
    <3>2. local'[curr_running].line = "woken" /\ enabled = TRUE
      BY <2>1, GoOnEffect, AtLine
    <3> QED
      BY <3>1, <3>2, EnterFits
  <2>2. CASE Line("while") /\ GoOn("mine") /\ UNCHANGED allvars
    <3>1. /\ local'[curr_running].line = "mine" /\ local[curr_running].line = "while"
          /\ here.wants = TRUE
      BY <2>2, GoOnEffect, AtLine
    <3>3. stack' = stack /\ call' = call /\ holds' = holds
      BY <2>2 DEF allvars, vars, mvars
    <3> QED
      BY <1>a, <3>1, <3>3, GoOnFits DEF here, Inner
  <2>3. CASE Line("woken") /\ TimeCheck("while") /\ UNCHANGED allvars
    <3>1. /\ local'[curr_running].line \in {"while", "done"}
          /\ local[curr_running].line = "woken" /\ here.wants = TRUE
      BY <2>3, GoOnEffect, AtLine DEF TimeCheck
    <3>3. stack' = stack /\ call' = call /\ holds' = holds
      BY <2>3 DEF allvars, vars, mvars
    <3> QED
      BY <1>a, <3>1, <3>3, GoOnFits DEF here, Inner
  <2> QED
    BY <1>7, <2>1, <2>2, <2>3 DEF WhileNotMine
<1>8. CASE PassTurn
  <2>1. /\ local'[curr_running].line = "notify" /\ local[curr_running].line = "mine"
        /\ here.wants = TRUE
    BY <1>8, GoOnEffect, AtLine DEF PassTurn
  <2>2. stack' = stack /\ call' = call /\ holds' = holds
    BY <1>8 DEF PassTurn, allvars, vars, mvars
  <2> QED
    BY <1>a, <2>1, <2>2, GoOnFits DEF here, Inner
<1>9. CASE Notify
  <2>1. /\ local'[curr_running].line = "release" /\ local[curr_running].line = "notify"
        /\ here.wants = TRUE
    BY <1>9, GoOnEffect, AtLine DEF Notify
  <2>2. stack' = stack /\ call' = call /\ holds' = holds
    BY <1>9, WakeupInEffect DEF Notify, mvars
  <2> QED
    BY <1>a, <2>1, <2>2, GoOnFits DEF here, Inner
<1>10. CASE MovePotato \/ Scramble
  <2>1. PICK from \in {"cas", "move", "pass", "passed", "unlock", "moved"},
             to \in {"cas", "move", "pass", "passed", "unlock", "moved"} :
          Line(from) /\ GoOn(to)
    BY <1>10 DEF MovePotato, Scramble
  <2>2. UNCHANGED mvars /\ WantsKept
    BY <1>10, ThreadStepQuiet, Stutters DEF MovePotato, Scramble, Live, allvars
  <2>3. local'[curr_running].line = to /\ here.wants = TRUE
    BY <2>1, GoOnEffect, AtLine
  <2> QED
    BY <1>a, <1>b, <2>2, <2>3, GoOnFits DEF mvars, Inner
<1>11. CASE Finish
  <2>1. CASE Line("done") /\ GoOn("exit") /\ UNCHANGED allvars
    <3>1. local'[curr_running].line = "exit" /\ here.wants = TRUE
      BY <2>1, GoOnEffect, AtLine
    <3>2. stack' = stack /\ call' = call /\ holds' = holds
      BY <2>1 DEF allvars, vars, mvars
    <3> QED
      BY <1>a, <3>1, <3>2, GoOnFits DEF here, Inner
  <2>2. CASE Line("exit") /\ MonitorExit /\ UNCHANGED local
    <3>1. local'[curr_running].line = "exit" /\ call' = call
      BY <2>2, AtLine DEF MonitorExit
    <3>2. stack'[curr_running] = Fresh("none")
      BY <2>2, ExitEffect DEF Live, MonitorExit
    <3>3. stack'[curr_running].wants = TRUE
      BY <3>2 DEF Fresh
    <3> QED
      BY <1>a, <3>1, <3>3, GoOnFits DEF Inner
  <2> QED
    BY <1>11, <2>1, <2>2 DEF Finish
<1> QED
  BY <1>1, <1>2, <1>3, <1>4, <1>5, <1>6, <1>7, <1>8, <1>9, <1>10, <1>11 DEF OtherStep

LEMMA FitsOther ==
  ASSUME Live, OtherStep, NEW t \in Tid
  PROVE  CallFits(t)' /\ HoldFits(t)'
<1>1. CASE t = curr_running
  BY <1>1, CallerFitsOther DEF CallerFits
<1>2. CASE t # curr_running
  <2>1. local'[t] = local[t]
    BY <1>2, OtherEffect DEF Moved
  <2>2. call'[t] = call[t] /\ holds'[t] = holds[t]
    BY <1>2, OthersCalls
  <2>3. stack'[t].wants = stack[t].wants
    BY <1>2, OtherWants DEF WantsKept
  <2> QED
    BY <2>1, <2>2, <2>3, FitsKept
<1> QED
  BY <1>1, <1>2

LEMMA MainKeeps ==
  ASSUME TestProgram, Live, MainStep, ~CreateThread
  PROVE  /\ WantsKept /\ UNCHANGED <<call, holds>>
         /\ \A t \in Tid \ {0} : local'[t] = local[t]
<1>a. curr_running = 0 /\ Running("user")
  BY AtMain
<1>1. UNCHANGED <<call, holds>>
  BY DEF MainStep, Prepare, MainSteps, MainWait, WakeUp, Killing, Destroy,
         mvars, allvars, LockCreate, CvCreate, LockDestroy, CvDestroy, MonitorKillCheck
<1>2. \A t \in Tid \ {0} : local'[t] = local[t]
  BY <1>a, LiveFacts DEF MainStep, Prepare, MainSteps, MainWait, WakeUp, Killing, Destroy,
         GoOn, test_vars
<1>3. WantsKept
  <2>1. CASE Prepare \/ Destroy
    <3>1. WaitQueueCreate \/ WaitQueueDestroy
      BY <2>1 DEF Prepare, Destroy, LockCreate, CvCreate, PlainCreate, LockDestroy,
                  CvDestroy, PlainDestroy
    <3> QED
      BY <3>1, MadeQuiet DEF TestProgram, Live
  <2>2. CASE MainSteps \/ WakeUp
    <3>1. CASE UNCHANGED vars
      BY <3>1, Stutters
    <3>2. CASE YieldAny
      BY <3>2, ThreadStepQuiet DEF Live
    <3>3. CASE WakeOn(queue_tested, all)
      BY <3>3 DEF WakeOn, WantsKept
    <3> QED
      BY <2>2, <3>1, <3>2, <3>3 DEF MainSteps, MainWait, WakeUp, allvars
  <2>3. CASE Killing
    <3>1. KillCheck
      BY <2>3 DEF Killing, MonitorKillCheck
    <3> QED
      BY <3>1, KillCheckEffect DEF Live, WantsKept, here
  <2> QED
    BY <2>1, <2>2, <2>3 DEF MainStep
<1> QED
  BY <1>1, <1>2, <1>3

LEMMA FitsMain ==
  ASSUME TestProgram, Live, MainStep, NEW t \in Tid
  PROVE  CallFits(t)' /\ HoldFits(t)'
<1>a. curr_running = 0 /\ UNCHANGED call /\ call[0].pc = "none" /\ test' = test
  BY AtMain, LiveFacts DEF MainOK
<1>b. ASSUME stack'[0].wants = stack[0].wants, t = 0 PROVE CallFits(t)' /\ HoldFits(t)'
  <2>1. /\ local'[0].line \in MainLines' /\ local[0].line \in MainLines
        /\ MainLines' = MainLines
    BY <1>a, PlacesMain, SameTest, LiveFacts DEF MainStep, PlacesOK
  <2>2. MainLines \cap (Inner \cup {"sleep", "slept"}) = {}
    BY DEF MainLines, Inner
  <2>3. stack[0].wants = TRUE
    BY <1>a, <2>1, <2>2, LiveFacts, ConstantFacts DEF CallFits
  <2> QED
    BY <1>a, <1>b, <2>1, <2>2, <2>3, FitsOutside
<1>1. CASE ~CreateThread
  <2>1. WantsKept /\ UNCHANGED <<call, holds>> /\ \A u \in Tid \ {0} : local'[u] = local[u]
    BY <1>1, MainKeeps
  <2>2. CASE t # 0
    BY <2>1, <2>2, FitsKept DEF WantsKept
  <2>3. CASE t = 0
    BY <1>b, <2>1, <2>3, ConstantFacts DEF WantsKept
  <2> QED
    BY <2>2, <2>3
<1>2. CASE CreateThread
  <2>1. Create /\ UNCHANGED mvars
    BY <1>2 DEF CreateThread
  <2>2. PICK n \in Tid :
          /\ tid_generator(n)
          /\ local' = [local EXCEPT ![n] = [line |-> FirstLine, num |-> created, i |-> 0]]
    BY <1>2 DEF CreateThread
  <2>3. /\ n # 0 /\ ~Alive(n) /\ stack'[n] = Fresh("stub")
        /\ \A u \in Tid \ {n, 0} : stack'[u] = stack[u]
        /\ stack'[0].wants = stack[0].wants
    BY <1>a, <2>1, <2>2, CreateEffect DEF Live, here
  <2>4. \A u \in Tid \ {n} : local'[u] = local[u]
    BY <2>2, LiveFacts
  <2>5. local'[n].line = FirstLine
    BY <2>2, LiveFacts
  <2>6. FirstLine \notin {"sleep", "slept"} \cup Inner
    BY DEF FirstLine, Inner
  <2>7. CASE t = n
    <3>1. stack[n].at = "none"
      BY <1>a, <2>3, LiveFacts DEF ParkedOK, Alive
    <3>2. call[n].pc = "none"
      BY <3>1, LiveFacts DEF CallOK
    <3>3. stack'[n].wants = TRUE
      BY <2>3 DEF Fresh
    <3> QED
      BY <1>a, <2>5, <2>6, <2>7, <3>2, <3>3, FitsOutside
  <2>8. CASE t \notin {n, 0}
    BY <2>1, <2>3, <2>4, <2>8, FitsKept DEF mvars
  <2> QED
    BY <1>b, <2>3, <2>7, <2>8
<1> QED
  BY <1>1, <1>2

LEMMA CallWants ==
  ASSUME Live, CallStep
  PROVE  /\ \A t \in Tid \ {curr_running} : stack'[t].wants = stack[t].wants
         /\ Leave => stack'[curr_running].wants = TRUE
<1>a. /\ ~NoneReady /\ Running("user") /\ mine.lock = testlock /\ mine.mask = TRUE
  BY InsideCall
<1>1. CASE AcquireSleep \/ CvSleep
  <2>1. PICK q \in Queues : SleepOn(q, "user")
    BY <1>a, <1>1, InsideCall, ConstantFacts DEF AcquireSleep, CvSleep, SleepIn, InCall, mine
  <2>2. ~Leave
    BY <1>1 DEF AcquireSleep, CvSleep, Leave, InCall
  <2> QED
    BY <1>a, <2>1, <2>2, SleepSteady DEF Live, WantsKept
<1>2. CASE AcquireFree \/ AcquireTake
  <2>1. ~Leave /\ stack' = stack
    BY <1>2 DEF AcquireFree, AcquireTake, Leave, InCall, vars
  <2> QED
    BY <2>1
<1>3. CASE CvRelease
  <2>1. ~Leave /\ stack' = stack
    BY <1>3, WakeupInEffect DEF CvRelease, gives_lock_up, Free, wakes_all, Leave, InCall
  <2> QED
    BY <2>1
<1>4. CASE Leave
  BY <1>a, <1>4, SetInterruptsQuiet DEF Leave, Live
<1> QED
  BY <1>1, <1>2, <1>3, <1>4 DEF CallStep

LEMMA CallerFitsCall ==
  ASSUME Live, CallStep, local' = local
  PROVE  CallerFits
<1>a. /\ curr_running \in Tid /\ mine.pc # "none" /\ mine.lock = testlock /\ mine.mask = TRUE
      /\ mine.pc \in {"cv_release", "cv_sleep"} => local[curr_running].line = "woken"
      /\ local[curr_running].line \in {"write1", "while", "woken"} /\ mine \in Call
      /\ MonitorTypeOK
  BY InsideCall, LiveFacts DEF MonitorTypeOK, CallFits, mine
<1>g. ASSUME NEW pc \in {"take", "leave", "cv_sleep", "test"}, Goto(pc),
             pc = "cv_sleep" => local[curr_running].line = "woken",
             pc = "leave" => testlock \in holds'[curr_running]
      PROVE  CallerFits
  <2>1. PICK r : r = [mine EXCEPT !.pc = pc]
    OBVIOUS
  <2>2. r.pc = pc /\ r.lock = mine.lock /\ r.mask = mine.mask
    BY <1>a, <2>1 DEF Call
  <2>3. call'[curr_running] = r
    BY <1>a, <1>g, <2>1 DEF Goto, mine, MonitorTypeOK
  <2> QED
    BY <1>a, <1>g, <2>2, <2>3 DEF CallFits, HoldFits, CallerFits
<1>1. CASE AcquireSleep
  BY <1>a, <1>1 DEF AcquireSleep, InCall, mvars, CallFits, HoldFits, CallerFits, mine
<1>2. CASE AcquireFree
  BY <1>g, <1>2 DEF AcquireFree
<1>3. CASE AcquireTake
  <2>1. testlock \in holds'[curr_running]
    BY <1>a, <1>3 DEF AcquireTake, MonitorTypeOK
  <2> QED
    BY <1>g, <1>3, <2>1 DEF AcquireTake
<1>4. CASE CvRelease
  BY <1>a, <1>g, <1>4 DEF CvRelease, InCall
<1>5. CASE CvSleep
  BY <1>g, <1>5 DEF CvSleep
<1>6. CASE Leave
  <2>1. call'[curr_running] = NoCall /\ holds' = holds /\ mine.pc = "leave"
    BY <1>a, <1>6 DEF Leave, MonitorTypeOK, InCall
  <2>2. testlock \in holds[curr_running]
    BY <2>1, LiveFacts DEF HoldFits, mine
  <2>3. stack'[curr_running].wants = TRUE
    BY <1>6, CallWants
  <2> QED
    <3>1. /\ call'[curr_running].pc = "none" /\ testlock \in holds'[curr_running]
          /\ local'[curr_running].line \notin {"sleep", "slept"}
      BY <1>a, <2>1, <2>2 DEF NoCall
    <3> QED
      BY <1>a, <2>3, <3>1, FitsOutside DEF CallerFits
<1> QED
  BY <1>1, <1>2, <1>3, <1>4, <1>5, <1>6 DEF CallStep

LEMMA FitsLibrary ==
  ASSUME Live, ThreadStep \/ CallStep \/ MonitorKill, UNCHANGED test_vars, NEW t \in Tid
  PROVE  CallFits(t)' /\ HoldFits(t)'
<1>a. local' = local
  BY DEF test_vars
<1>1. CASE ThreadStep
  <2>1. WantsKept /\ UNCHANGED mvars
    BY <1>1, ThreadStepQuiet DEF Live, ThreadStep
  <2> QED
    BY <1>a, <2>1, FitsKept DEF WantsKept, mvars
<1>2. CASE CallStep
  <2>1. CASE t = curr_running
    BY <1>a, <1>2, <2>1, CallerFitsCall DEF CallerFits
  <2>2. CASE t # curr_running
    BY <1>a, <1>2, <2>2, CallWants, OthersCalls, FitsKept
  <2> QED
    BY <2>1, <2>2
<1>3. CASE MonitorKill
  <2>1. Kill /\ test = "potato" /\ here.arg \in Others /\ here.arg \in Tid
    BY <1>3, KillingThread DEF Others
  <2>2. /\ stack'[here.arg] = Fresh("none")
        /\ \A u \in Tid \ {here.arg, curr_running} : stack'[u] = stack[u]
        /\ stack'[curr_running].wants = here.wants
    BY <2>1, KillEffect DEF Live
  <2>3. /\ call'[here.arg] = NoCall /\ holds'[here.arg] = {}
        /\ \A u \in Tid \ {here.arg} : call'[u] = call[u] /\ holds'[u] = holds[u]
    BY <1>3, <2>1, LiveFacts DEF MonitorKill, MonitorTypeOK
  <2>4. CASE t = here.arg
    <3>1. local[t].line \in OtherLines
      BY <2>1, <2>4, LiveFacts DEF PlacesOK
    <3>2. local[t].line \notin {"sleep", "slept"} \cup Inner
      BY <2>1, <3>1 DEF OtherLines, Sleeping, Inner
    <3>3. stack'[t].wants = TRUE /\ call'[t].pc = "none"
      BY <2>2, <2>3, <2>4 DEF Fresh, NoCall
    <3> QED
      BY <1>a, <3>2, <3>3, FitsOutside
  <2>5. CASE t # here.arg
    <3>1. stack'[t].wants = stack[t].wants
      BY <2>2, <2>5 DEF here
    <3> QED
      BY <1>a, <2>3, <2>5, <3>1, FitsKept
  <2> QED
    BY <2>4, <2>5
<1> QED
  BY <1>1, <1>2, <1>3

-----------------------------------------------------------------------------
(* test_lock.  Between lock_acquire and lock_release a thread is alone.    *)
LEMMA Alone ==
  ASSUME Live, NEW t \in Tid, NEW u \in Tid,
         call[t].pc = "none", local[t].line \in Inner,
         testlock \in holds[u]
  PROVE  t = u
<1>1. testlock \in holds[t]
  BY LiveFacts DEF HoldFits
<1> QED
  BY <1>1 DEF Live, HInv, HolderOwns

InLock == {"write2", "write3", "release"}
LEMMA ValsKept ==
  ASSUME Live, test' = test, testval' = testval,
         \A t \in Tid : local'[t].line \in InLock =>
           local'[t].line = local[t].line /\ local'[t].num = local[t].num
  PROVE  ValsOK'
  BY LiveFacts DEF ValsOK, Wrote, InLock

LEMMA ValsMain ==
  ASSUME Live, MainStep
  PROVE  ValsOK'
<1>a. curr_running = 0 /\ test' = test /\ testval' = testval
  BY AtMain DEF MainStep, Prepare, CreateThread, MainSteps, WakeUp, Killing, Destroy,
                test_vars, shared
<1>1. \/ \A t \in Tid \ {0} : local'[t] = local[t]
      \/ \E n \in Tid : /\ \A t \in Tid \ {n} : local'[t] = local[t]
                        /\ local'[n].line = FirstLine
  <2>1. CASE CreateThread
    BY <2>1, LiveFacts DEF CreateThread
  <2>2. CASE ~CreateThread
    BY <1>a, <2>2, LiveFacts DEF MainStep, Prepare, MainSteps, MainWait, WakeUp, Killing,
                                 Destroy, GoOn, test_vars
  <2> QED
    BY <2>1, <2>2
<1>2. local'[0].line \notin InLock
  <2>1. local'[0].line \in MainLines'
    BY PlacesMain DEF MainStep, PlacesOK
  <2> QED
    BY <1>a, <2>1, SameTest DEF MainLines, InLock
<1>3. FirstLine \notin InLock
  BY DEF FirstLine, InLock
<1> QED
  BY <1>a, <1>1, <1>2, <1>3, ValsKept

LEMMA WriteEffect ==
  ASSUME Live, NEW n \in 1 .. 3, Writes(n)
  PROVE  /\ testval'[n] = num /\ \A m \in (1 .. 3) \ {n} : testval'[m] = testval[m]
  BY LiveFacts DEF Writes

LEMMA ValsOther ==
  ASSUME Live, OtherStep
  PROVE  ValsOK'
<1>a. /\ Moved /\ test' = test /\ call[curr_running].pc = "none" /\ curr_running \in Tid
      /\ MonitorTypeOK
  BY OtherEffect, LiveFacts DEF Moved, InCall, mine
<1>1. CASE test # "lock"
  BY <1>a, <1>1 DEF ValsOK
<1>2. CASE test = "lock" /\ WriteAndYield
  <2>1. PICK from \in {"write1", "write2", "write3"}, to \in InLock :
          /\ Line(from) /\ GoOn(to)
          /\ from = "write1" => to = "write2" /\ Writes(1)
          /\ from = "write2" => to = "write3" /\ Writes(2)
          /\ from = "write3" => to = "release" /\ Writes(3)
    BY <1>2 DEF WriteAndYield, InLock
  <2>2. local[curr_running].line = from /\ local'[curr_running].line = to
        /\ local'[curr_running].num = num /\ num = local[curr_running].num
    BY <2>1, AtLine, GoOnEffect DEF num, me
  <2>3. testlock \in holds[curr_running]
    BY <1>a, <2>1, <2>2, LiveFacts DEF HoldFits, Inner
  <2>4. ASSUME NEW t \in Tid \ {curr_running} PROVE local'[t].line \notin InLock
    <3>1. SUFFICES ASSUME local[t].line \in InLock PROVE FALSE
      BY <1>a DEF Moved
    <3>2. call[t].pc = "none"
      BY <3>1, LiveFacts DEF CallFits, InLock
    <3> QED
      BY <1>a, <2>3, <2>4, <3>1, <3>2, Alone DEF InLock, Inner
  <2>5. /\ from = "write2" => testval[1] = num
        /\ from = "write3" => testval[1] = num /\ testval[2] = num
    <3>1. from \in {"write2", "write3"} => testval[1] = num
      BY <1>2, <2>2, LiveFacts DEF ValsOK, Wrote
    <3>2. from = "write3" => testval[2] = num
      BY <1>2, <2>2, LiveFacts DEF ValsOK, Wrote
    <3> QED
      BY <2>1, <3>1, <3>2
  <2>6. /\ to \in {"write2", "write3", "release"} => testval'[1] = num
        /\ to \in {"write3", "release"} => testval'[2] = num
        /\ to = "release" => testval'[3] = num
    BY <2>1, <2>5, WriteEffect
  <2>7. \A t \in {curr_running} :
          /\ local'[t].line \in {"write2", "write3", "release"} => Wrote(t, 1)'
          /\ local'[t].line \in {"write3", "release"} => Wrote(t, 2)'
          /\ local'[t].line = "release" => Wrote(t, 3)'
    BY <2>2, <2>6 DEF Wrote
  <2> QED
    BY <2>4, <2>7 DEF ValsOK, InLock
<1>3. CASE test = "lock" /\ ~WriteAndYield
  <2>1. testval' = testval
    <3>1. ~PassTurn
      BY <1>3, AtOtherLine DEF PassTurn, CvTest
    <3>2. CASE InterruptsOff \/ SleepTested \/ Slept \/ Acquire \/ Release
      BY <3>2 DEF InterruptsOff, SleepTested, Slept, Acquire, Release, shared
    <3>3. CASE WhileNotMine \/ Notify \/ MovePotato \/ Scramble \/ Finish
      BY <3>3 DEF WhileNotMine, Notify, MovePotato, Scramble, Finish, shared
    <3> QED
      BY <1>3, <3>1, <3>2, <3>3 DEF OtherStep
  <2>2. local'[curr_running].line \notin InLock
    <3>1. ~(InterruptsOff \/ SleepTested \/ Slept \/ WhileNotMine \/ PassTurn \/ Notify)
      BY <1>3, AtOtherLine DEF InterruptsOff, SleepTested, Slept, WhileNotMine, PassTurn,
                               Notify, CvTest, Sleeping
    <3>2. ~(MovePotato \/ Scramble)
      BY <1>3, AtOtherLine DEF MovePotato, Scramble
    <3>3. CASE Acquire
      <4>1. GoOn(IF CvTest THEN "while" ELSE "write1")
        BY <3>3 DEF Acquire
      <4> QED
        BY <4>1, GoOnEffect DEF InLock
    <3>4. CASE Release
      <4>1. local'[curr_running].line \in {FirstLine, "done"}
        BY <3>4, LoopEffect DEF Release
      <4> QED
        BY <4>1 DEF FirstLine, InLock
    <3>5. CASE Finish
      <4>1. CASE GoOn("exit")
        BY <4>1, GoOnEffect DEF InLock
      <4>2. CASE Line("exit") /\ local' = local
        BY <4>2, AtLine DEF InLock
      <4> QED
        BY <3>5, <4>1, <4>2 DEF Finish
    <3> QED
      BY <1>3, <3>1, <3>2, <3>3, <3>4, <3>5 DEF OtherStep
  <2> QED
    BY <1>a, <2>1, <2>2, ValsKept DEF Moved
<1> QED
  BY <1>1, <1>2, <1>3

-----------------------------------------------------------------------------
(* The cv tests: nobody is woken from a cv_wait before someone has spun.   *)
LEMMA CvVacuous ==
  ASSUME PlacesOK', test' = test, ~CvTest
  PROVE  CvOK'
<1>1. MainLines' = MainLines /\ OtherLines' = OtherLines
  BY SameTest
<1>2. \A t \in Tid : local'[t].line \in MainLines \cup OtherLines
  BY <1>1 DEF PlacesOK, Others
<1>3. {"notify", "woken"} \cap (MainLines \cup OtherLines) = {}
  BY DEF MainLines, OtherLines
<1> QED
  BY <1>2, <1>3 DEF CvOK

LEMMA WaitsKept ==
  ASSUME NEW t \in Tid, Waits(t), call'[t] = call[t],
         \A c \in CVs : queue'[c] = queue[c]
  PROVE  Waits(t)'
  BY DEF Waits

LEMMA CvKept ==
  ASSUME Live, spun' = spun,
         \A t \in Tid : local'[t].line \in {"notify", "woken"} =>
           local'[t].line = local[t].line,
         \A t \in Tid : local'[t].line = "woken" /\ Waits(t) => Waits(t)'
  PROVE  CvOK'
  BY LiveFacts DEF CvOK

LEMMA CvMain ==
  ASSUME TestProgram, Live, MainStep
  PROVE  CvOK'
<1>a. curr_running = 0 /\ test' = test /\ call' = call /\ PlacesOK'
  BY AtMain, PlacesMain DEF MainStep
<1>1. CASE ~CvTest
  BY <1>1, <1>a, CvVacuous
<1>2. CASE CvTest
  <2>1. ~WakeUp /\ ~Killing
    BY <1>2, AtMainLine DEF WakeUp, Killing, CvTest, Sleeping
  <2>2. queue' = queue /\ spun' = spun
    <3>1. CASE Prepare \/ Destroy
      <4>1. WaitQueueCreate \/ WaitQueueDestroy
        BY <3>1 DEF Prepare, Destroy, LockCreate, CvCreate, PlainCreate, LockDestroy,
                    CvDestroy, PlainDestroy
      <4> QED
        BY <3>1, <4>1, MadeQuiet DEF Prepare, Destroy, test_vars, TestProgram, Live
    <3>2. CASE CreateThread
      BY <3>2 DEF CreateThread, Create
    <3>3. CASE MainSteps
      BY <3>3 DEF MainSteps, MainWait, YieldAny, YieldStart, allvars, vars
    <3> QED
      BY <2>1, <3>1, <3>2, <3>3 DEF MainStep
  <2>3. ASSUME NEW t \in Tid, local'[t].line \in {"notify", "woken"}
        PROVE  local'[t].line = local[t].line
    <3>1. CASE CreateThread
      <4>1. PICK n \in Tid :
              local' = [local EXCEPT ![n] = [line |-> FirstLine, num |-> created, i |-> 0]]
        BY <3>1 DEF CreateThread
      <4> QED
        BY <2>3, <4>1, LiveFacts DEF FirstLine
    <3>2. CASE ~CreateThread
      <4>1. \A u \in Tid \ {0} : local'[u] = local[u]
        BY <3>2, MainKeeps
      <4>2. local'[0].line \in MainLines
        BY <1>a, SameTest DEF PlacesOK
      <4> QED
        BY <2>3, <4>1, <4>2 DEF MainLines
    <3> QED
      BY <3>1, <3>2
  <2> QED
    BY <1>a, <2>2, <2>3, CvKept, WaitsKept
<1> QED
  BY <1>1, <1>2

(* A thread that runs is in no wait queue.                                 *)
LEMMA NotQueued ==
  ASSUME Live, thread_index[curr_running] = "running"
  PROVE  \A q \in Queues : \A i \in 1 .. Len(queue[q]) : queue[q][i] # curr_running
  BY DEF Live, Calm, QueuesHoldSleepers

LEMMA LockQueue ==
  ASSUME Live, WakeupIn(testlock, TRUE)
  PROVE  \A c \in CVs : queue'[c] = queue[c]
<1>1. queue' = queue \/ queue' = [queue EXCEPT ![testlock] = left(testlock, TRUE)]
  BY WakeupInEffect
<1> QED
  BY <1>1, LiveFacts, ConstantFacts DEF TypeOK

LEMMA CvLibrary ==
  ASSUME Live, ThreadStep \/ CallStep \/ MonitorKill, UNCHANGED test_vars
  PROVE  CvOK'
<1>a. local' = local /\ spun' = spun
  BY DEF test_vars
<1>1. CASE ThreadStep
  <2>1. UNCHANGED <<queue, call>>
    BY <1>1, ThreadStepQuiet DEF Live, Quiet, ThreadStep, mvars
  <2> QED
    BY <1>a, <2>1, CvKept, WaitsKept
<1>2. CASE CallStep
  <2>a. /\ ~NoneReady /\ Running("user") /\ mine.lock = testlock /\ curr_running \in Tid
        /\ mine.pc # "none" /\ here.at = "user"
        /\ mine.pc \in {"cv_release", "cv_sleep"} => mine.cv \in CVs
        /\ MonitorTypeOK /\ mine \in Call
    BY <1>2, InsideCall, LiveFacts DEF mine, MonitorTypeOK, Running
  <2>b. thread_index[curr_running] = "running"
    BY <2>a, LiveFacts DEF CallerRuns
  <2>1. ASSUME NEW q \in Queues, queue' = [queue EXCEPT ![q] = Append(@, curr_running)]
        PROVE  /\ \A t \in Tid, c \in CVs : \A i \in 1 .. Len(queue[c]) :
                    queue[c][i] = t => \E j \in 1 .. Len(queue'[c]) : queue'[c][j] = t
               /\ \E j \in 1 .. Len(queue'[q]) : queue'[q][j] = curr_running
    <3>1. /\ queue'[q] = Append(queue[q], curr_running) /\ queue[q] \in Seq(Tid)
          /\ \A c \in Queues \ {q} : queue'[c] = queue[c]
      BY <2>1, LiveFacts DEF TypeOK
    <3>2. PICK k \in Nat : k = Len(queue[q])
      BY <3>1
    <3>3. /\ Len(queue'[q]) = k + 1 /\ queue'[q][k + 1] = curr_running
          /\ \A i \in 1 .. k : queue'[q][i] = queue[q][i]
      BY <2>a, <3>1, <3>2
    <3>4. \A i \in 1 .. k : i \in 1 .. k + 1
      BY <3>2
    <3>5. k + 1 \in 1 .. k + 1
      BY <3>2
    <3> QED
      BY <3>1, <3>2, <3>3, <3>4, <3>5, ConstantFacts
  <2>2. ASSUME NEW t \in Tid, local'[t].line = "woken", Waits(t)
        PROVE  Waits(t)'
    <3>1. CASE t # curr_running
      <4>1. call'[t] = call[t]
        BY <1>2, <3>1, OthersCalls
      <4>2. CASE AcquireSleep \/ CvSleep
        <5>1. PICK q \in Queues : SleepOn(q, "user")
          BY <2>a, <4>2, InsideCall, ConstantFacts
             DEF AcquireSleep, CvSleep, SleepIn, InCall, mine
        <5>2. queue' = [queue EXCEPT ![q] = Append(@, curr_running)]
          BY <2>a, <5>1, SleepSteady DEF Live
        <5>3. \A c \in CVs : \A i \in 1 .. Len(queue[c]) :
                queue[c][i] = t => \E j \in 1 .. Len(queue'[c]) : queue'[c][j] = t
          BY <2>1, <5>2
        <5> QED
          BY <2>2, <4>1, <5>3 DEF Waits
      <4>3. CASE AcquireFree \/ AcquireTake \/ Leave
        <5>1. queue' = queue
          BY <4>3 DEF AcquireFree, AcquireTake, Leave, SetInterrupts, InterruptsSet, vars
        <5> QED
          BY <2>2, <4>1, <5>1, WaitsKept
      <4>4. CASE CvRelease
        <5>1. WakeupIn(testlock, TRUE)
          BY <2>a, <4>4 DEF CvRelease, gives_lock_up, Free, wakes_all
        <5> QED
          BY <2>2, <4>1, <5>1, LockQueue, WaitsKept
      <4> QED
        BY <1>2, <4>2, <4>3, <4>4 DEF CallStep
    <3>2. CASE t = curr_running
      <4>1. mine.pc \in {"cv_release", "cv_sleep"}
        BY <2>2, <2>b, <3>2, NotQueued, ConstantFacts DEF Waits, mine
      <4>2. CASE CvRelease
        <5>1. Goto("cv_sleep")
          BY <4>2 DEF CvRelease
        <5>2. call'[curr_running].pc = "cv_sleep"
          BY <2>a, <5>1 DEF Goto, MonitorTypeOK, Call
        <5> QED
          BY <3>2, <5>2 DEF Waits
      <4>3. CASE CvSleep
        <5>1. SleepOn(mine.cv, "user") /\ mine.cv \in CVs /\ mine.cv \in Queues
          BY <2>a, <4>1, <4>3, ConstantFacts DEF CvSleep, SleepIn
        <5>2. queue' = [queue EXCEPT ![mine.cv] = Append(@, curr_running)]
          BY <2>a, <5>1, SleepSteady DEF Live
        <5>3. \E j \in 1 .. Len(queue'[mine.cv]) : queue'[mine.cv][j] = curr_running
          BY <2>1, <5>1, <5>2
        <5> QED
          BY <3>2, <5>1, <5>3 DEF Waits
      <4> QED
        BY <1>2, <4>1, <4>2, <4>3
           DEF CallStep, AcquireSleep, AcquireFree, AcquireTake, Leave, InCall
    <3> QED
      BY <3>1, <3>2
  <2> QED
    BY <1>a, <2>2, CvKept
<1>3. CASE MonitorKill
  <2>1. test = "potato"
    BY <1>3, KillingThread
  <2>2. PlacesOK'
    BY SameTest, LiveFacts DEF PlacesOK, test_vars, shared
  <2> QED
    BY <2>1, <2>2, CvVacuous DEF CvTest, test_vars
<1> QED
  BY <1>1, <1>2, <1>3

LEMMA CvOther ==
  ASSUME Live, OtherStep
  PROVE  CvOK'
<1>a. /\ Moved /\ test' = test /\ curr_running \in Tid /\ Running("user")
      /\ \A t \in Tid \ {curr_running} : local'[t] = local[t]
      /\ PlacesOK' /\ MonitorTypeOK
  BY OtherEffect, PlacesOther, LiveFacts DEF Moved, InCall
<1>1. CASE ~CvTest
  BY <1>1, <1>a, CvVacuous
<1>2. CASE CvTest /\ (Acquire \/ Release \/ Finish)
  <2>1. spun' = spun /\ local'[curr_running].line \notin {"notify", "woken"}
    <3>1. CASE Acquire
      BY <1>2, <3>1, GoOnEffect DEF Acquire
    <3>2. CASE Release
      BY <3>2, LoopEffect DEF Release, FirstLine
    <3>3. CASE Finish
      <4>1. CASE GoOn("exit")
        BY <3>3, <4>1, GoOnEffect DEF Finish
      <4>2. CASE Line("exit") /\ local' = local
        BY <3>3, <4>2, AtLine DEF Finish
      <4> QED
        BY <3>3, <4>1, <4>2 DEF Finish
    <3> QED
      BY <1>2, <3>1, <3>2, <3>3
  <2>2. \A c \in CVs : queue'[c] = queue[c]
    <3>1. CASE Acquire
      BY <3>1 DEF Acquire, LockAcquire, Enter, SetInterrupts, InterruptsSet, vars
    <3>2. CASE Release
      <4>1. PICK l \in Locks \cap made : WakeupIn(l, TRUE)
        BY <3>2 DEF Release, LockRelease, Free, wakes_all
      <4> QED
        BY <4>1, OnlyLock, LockQueue
    <3>3. CASE Finish
      BY <3>3 DEF Finish, MonitorExit, ThreadExit, allvars, vars
    <3> QED
      BY <1>2, <3>1, <3>2, <3>3
  <2>3. ASSUME NEW t \in Tid, local'[t].line = "woken", Waits(t) PROVE Waits(t)'
    <3>1. t # curr_running
      BY <2>1, <2>3
    <3> QED
      BY <2>2, <2>3, <3>1, OthersCalls, WaitsKept
  <2> QED
    BY <1>a, <2>1, <2>3, CvKept
<1>3. CASE CvTest /\ WhileNotMine
  <2>1. CASE Line("while") /\ CvWait /\ GoOn("woken") /\ WaitBegins
    <3>1. PICK l, c : l \in Locks \cap made /\ owns(l) /\ Enter("cv_release", l, c)
      BY <2>1 DEF CvWait
    <3>2. l = testlock /\ locked_tid[testlock] = curr_running
      BY <3>1, OnlyLock DEF owns
    <3>3. \A t \in Tid \ {curr_running} : local[t].line # "notify"
      <4>1. SUFFICES ASSUME NEW t \in Tid, local[t].line = "notify"
                     PROVE  t = curr_running
        OBVIOUS
      <4>2. call[t].pc = "none"
        BY <4>1, LiveFacts DEF CallFits
      <4>3. testlock \in holds[t]
        BY <4>1, <4>2, LiveFacts DEF HoldFits, Inner
      <4> QED
        BY <3>2, <4>3 DEF Live, HInv, HolderOwns
    <3>4. local'[curr_running].line = "woken"
      BY <2>1, GoOnEffect
    <3>5. call'[curr_running].pc = "cv_release"
      BY <1>a, <3>1 DEF Enter, MonitorTypeOK
    <3>6. queue' = queue
      BY <3>1 DEF Enter, SetInterrupts, InterruptsSet, vars
    <3>7. \A t \in Tid \ {curr_running} : call'[t] = call[t] /\ spun'[t] = spun[t]
      BY <2>1, <1>3, OthersCalls, LiveFacts DEF WaitBegins, OtherStep
    <3>8. ASSUME NEW t \in Tid
          PROVE  /\ local'[t].line # "notify"
                 /\ local'[t].line = "woken" => spun'[t] \/ Waits(t)'
      <4>1. CASE t = curr_running
        BY <3>4, <3>5, <4>1 DEF Waits
      <4>2. CASE t # curr_running
        BY <1>a, <3>3, <3>6, <3>7, <4>2, WaitsKept, LiveFacts DEF CvOK
      <4> QED
        BY <4>1, <4>2
    <3> QED
      BY <3>8 DEF CvOK
  <2>2. ASSUME NEW to \in {"mine", "while"}, TimeCheck(to) \/ GoOn(to),
               UNCHANGED <<allvars, spun>>
        PROVE  CvOK'
    <3>1. local'[curr_running].line \notin {"notify", "woken"}
      BY <2>2, GoOnEffect DEF TimeCheck
    <3> QED
      BY <1>a, <2>2, <3>1, CvKept, WaitsKept DEF allvars, vars, mvars
  <2> QED
    BY <1>3, <2>1, <2>2 DEF WhileNotMine
<1>4. CASE CvTest /\ PassTurn
  BY <1>4 DEF PassTurn, Spin5ms, CvOK
<1>5. CASE CvTest /\ Notify
  <2>1. local[curr_running].line = "notify" /\ spun' = spun
    BY <1>5, AtLine DEF Notify
  <2> QED
    BY <1>a, <2>1, LiveFacts DEF CvOK
<1>6. ~CvTest \/ ~(InterruptsOff \/ SleepTested \/ Slept \/ WriteAndYield \/ MovePotato
                  \/ Scramble)
  BY AtOtherLine DEF InterruptsOff, SleepTested, Slept, WriteAndYield, MovePotato, Scramble,
                     CvTest, Sleeping
<1> QED
  BY <1>1, <1>2, <1>3, <1>4, <1>5, <1>6 DEF OtherStep

-----------------------------------------------------------------------------
(* test_preemptive.                                                        *)
LEMMA PotatoKept ==
  ASSUME Live, UNCHANGED <<test, potato, potato_lock>>,
         \A t \in Others : InSection(t)' \/ InSection(t) => local'[t] = local[t]
  PROVE  PotatoOK'
<1>1. \A t \in Others : InSection(t)' <=> InSection(t)
  BY DEF InSection
<1>2. \A t \in Others : local'[t].line \in {"pass", "passed"} =>
        local'[t] = local[t]
  BY DEF InSection
<1>3. \A t \in Others : local[t].line = "pass" => local'[t].line = "pass"
  BY DEF InSection
<1>4. \A n : Hot(n)' <=> Hot(n)
  BY DEF Hot
<1> QED
  BY <1>1, <1>2, <1>3, <1>4, LiveFacts DEF PotatoOK

LEMMA PotatoMain ==
  ASSUME TestProgram, Live, MainStep
  PROVE  PotatoOK'
<1>a. UNCHANGED <<test, potato, potato_lock>>
  BY AtMain DEF MainStep, Prepare, CreateThread, MainSteps, WakeUp, Killing, Destroy,
                test_vars, shared
<1>1. CASE CreateThread
  <2>1. Line("prepare") /\ Create
    BY <1>1 DEF CreateThread
  <2>2. PICK n \in Tid :
          /\ tid_generator(n)
          /\ local' = [local EXCEPT ![n] = [line |-> FirstLine, num |-> created, i |-> 0]]
    BY <1>1 DEF CreateThread
  <2>3. local[0].line = "prepare"
    BY <2>1, AtLine, AtMainLine
  <2>4. n \notin Working
    BY <2>2, <2>3, LiveFacts DEF WorkersOK, tid_generator, Alive
  <2>5. /\ \A t \in Tid \ {n} : local'[t] = local[t]
        /\ local'[n].line = FirstLine
    BY <2>2, LiveFacts
  <2>6. \A t \in Others : InSection(t)' \/ InSection(t) => t # n
    BY <2>4, <2>5 DEF InSection, FirstLine, Working
  <2> QED
    BY <1>a, <2>5, <2>6, PotatoKept DEF Others
<1>2. CASE ~CreateThread
  BY <1>a, <1>2, MainKeeps, PotatoKept DEF Others
<1> QED
  BY <1>1, <1>2

LEMMA PotatoOther ==
  ASSUME Live, OtherStep
  PROVE  PotatoOK'
<1>a. /\ Moved /\ test' = test /\ curr_running \in Others
      /\ \A t \in Others \ {curr_running} : local'[t] = local[t]
      /\ local'[curr_running].num = num /\ num = local[curr_running].num
      /\ num \in Nums
  BY OtherEffect, LiveFacts DEF Moved, Others, num, me
<1>1. CASE test # "potato"
  BY <1>1, <1>a DEF PotatoOK
<1>2. CASE test = "potato" /\ ~MovePotato
  <2>1. Scramble
    <3>1. ~(InterruptsOff \/ SleepTested \/ Slept \/ Acquire \/ WriteAndYield \/ Release)
      BY <1>2, AtOtherLine DEF InterruptsOff, SleepTested, Slept, Acquire, WriteAndYield,
                               Release, Sleeping, CvTest
    <3>2. ~(WhileNotMine \/ PassTurn \/ Notify \/ Finish)
      BY <1>2, AtOtherLine DEF WhileNotMine, PassTurn, Notify, Finish, CvTest
    <3> QED
      BY <1>2, <3>1, <3>2 DEF OtherStep
  <2>2. UNCHANGED <<potato, potato_lock>> /\ Line("moved")
        /\ \E to \in {"moved", "cas"} : GoOn(to)
    BY <2>1 DEF Scramble, shared
  <2>3. local[curr_running].line = "moved" /\ local'[curr_running].line \in {"moved", "cas"}
    BY <2>2, AtLine, GoOnEffect
  <2> QED
    BY <1>a, <2>2, <2>3, PotatoKept DEF InSection
<1>3. CASE test = "potato" /\ MovePotato
  <2>a. /\ \A t, u \in Others : InSection(t) /\ InSection(u) => t = u
        /\ \A t \in Others : InSection(t) => potato_lock = 1
        /\ \A t \in Others : local[t].line = "pass" => \A m \in Nums : potato[m] = 0
        /\ \A t \in Others : local[t].line = "passed" => Hot((local[t].num + 1) % NTHREADS)
        /\ (\A t \in Others : local[t].line # "pass") => \E n \in Nums : Hot(n)
        /\ potato \in [Nums -> {0, 1}]
    BY <1>3, LiveFacts DEF PotatoOK, PlacesOK
  <2>b. ASSUME NEW to, GoOn(to), potato' = potato, potato_lock' \in {potato_lock, 1},
               to \notin {"pass", "passed"}, local[curr_running].line # "pass",
               \A t \in Others \ {curr_running} :
                 to \in {"move", "unlock"} => ~InSection(t),
               to \in {"move", "unlock"} => potato_lock' = 1
        PROVE  PotatoOK'
    <3>1. local'[curr_running].line = to
      BY <2>b, GoOnEffect
    <3>2. \A t \in Others \ {curr_running} : InSection(t)' <=> InSection(t)
      BY <1>a DEF InSection
    <3>4. \A n : Hot(n)' <=> Hot(n)
      BY <2>b DEF Hot
    <3>5. \A t \in Others : InSection(t)' =>
            \/ t # curr_running /\ InSection(t)
            \/ t = curr_running /\ to \in {"move", "unlock"}
      BY <2>b, <3>1, <3>2 DEF InSection
    <3>6. \A t \in Others : local'[t].line \in {"pass", "passed"} => local'[t] = local[t]
      BY <1>a, <2>b, <3>1
    <3>7. \A t \in Others : local[t].line = "pass" => local'[t].line = "pass"
      BY <1>a, <2>b
    <3>8. \A t, u \in Others : InSection(t)' /\ InSection(u)' => t = u
      BY <2>a, <2>b, <3>5
    <3>9. \A t \in Others : InSection(t)' => potato_lock' = 1
      BY <2>a, <2>b, <3>5
    <3>10. \A t \in Others : local'[t].line = "pass" => \A m \in Nums : potato'[m] = 0
      BY <2>a, <2>b, <3>6
    <3>11. (\A t \in Others : local[t].line = "passed" => Hot((local[t].num + 1) % NTHREADS))'
      <4> SUFFICES ASSUME NEW t \in Others, local'[t].line = "passed"
                   PROVE  (Hot((local[t].num + 1) % NTHREADS))'
        OBVIOUS
      <4>1. local'[t] = local[t] /\ Hot((local[t].num + 1) % NTHREADS)
        BY <2>a, <3>6
      <4> QED
        BY <2>b, <4>1 DEF Hot
    <3>12. (\A t \in Others : local'[t].line # "pass") => \E n \in Nums : Hot(n)'
      <4> SUFFICES ASSUME \A t \in Others : local'[t].line # "pass"
                   PROVE  \E n \in Nums : Hot(n)'
        OBVIOUS
      <4>1. PICK n \in Nums : Hot(n)
        BY <2>a, <3>7
      <4> QED
        BY <3>4, <4>1
    <3> QED
      BY <3>8, <3>9, <3>10, <3>11, <3>12 DEF PotatoOK
  <2>c. ASSUME InSection(curr_running)
        PROVE  \A t \in Others \ {curr_running} : ~InSection(t) /\ local'[t] = local[t]
    BY <1>a, <2>a, <2>c
  <2>1. CASE Line("cas") /\ GoOn(IF potato_lock = 0 THEN "move" ELSE "moved")
             /\ potato_lock' = 1 /\ UNCHANGED potato
    BY <2>1, <2>a, <2>b, AtLine
  <2>2. CASE Line("move") /\ GoOn(IF potato[num] = 1 THEN "pass" ELSE "unlock")
             /\ potato' = [potato EXCEPT ![num] = 0] /\ UNCHANGED potato_lock
    <3>a. local[curr_running].line = "move" /\ InSection(curr_running) /\ potato_lock = 1
          /\ \A t \in Others : local[t].line # "pass"
      BY <1>a, <2>2, <2>a, AtLine DEF InSection
    <3>1. PICK n \in Nums : Hot(n)
      BY <2>a, <3>a
    <3>2. CASE potato[num] = 1
      <4>1. n = num
        BY <1>a, <3>1, <3>2 DEF Hot
      <4>2. \A m \in Nums : potato'[m] = 0
        BY <1>a, <2>2, <2>a, <3>1, <4>1 DEF Hot
      <4>3. local'[curr_running].line = "pass"
        BY <2>2, <3>2, GoOnEffect
      <4>4. \A t \in Others : InSection(t)' => t = curr_running
        BY <2>c, <3>a DEF InSection
      <4>5. \A t \in Others : local'[t].line = "passed" => FALSE
        BY <2>c, <3>a, <4>3 DEF InSection
      <4> QED
        BY <1>a, <2>2, <3>a, <4>2, <4>3, <4>4, <4>5 DEF PotatoOK
    <3>3. CASE potato[num] # 1
      <4>1. potato[num] = 0
        BY <1>a, <2>a, <3>3
      <4>2. potato' = potato
        BY <1>a, <2>2, <2>a, <4>1
      <4> QED
        BY <2>2, <2>b, <2>c, <3>3, <3>a, <4>2
    <3> QED
      BY <3>2, <3>3
  <2>3. CASE Line("pass") /\ GoOn("passed")
             /\ potato' = [potato EXCEPT ![next_num] = 1] /\ UNCHANGED potato_lock
    <3>a. /\ local[curr_running].line = "pass" /\ InSection(curr_running) /\ potato_lock = 1
          /\ local'[curr_running].line = "passed"
          /\ \A m \in Nums : potato[m] = 0
      BY <1>a, <2>3, <2>a, AtLine, GoOnEffect DEF InSection
    <3>1. PICK k \in Nums : k = next_num /\ k = (local'[curr_running].num + 1) % NTHREADS
      BY <1>a, ConstantFacts DEF next_num, Nums
    <3>2. Hot(k)'
      BY <2>3, <2>a, <3>a, <3>1 DEF Hot
    <3>4. \A t \in Others : InSection(t)' => t = curr_running
      BY <2>c, <3>a DEF InSection
    <3>5. \A t \in Others : local'[t].line # "pass"
      BY <2>c, <3>a DEF InSection
    <3>6. \A t \in Others : local'[t].line = "passed" => t = curr_running
      BY <2>c, <3>a DEF InSection
    <3> QED
      BY <1>a, <2>3, <3>a, <3>1, <3>2, <3>4, <3>5, <3>6 DEF PotatoOK
  <2>4. CASE Line("passed") /\ GoOn("unlock") /\ UNCHANGED <<potato, potato_lock>>
    <3>a. local[curr_running].line = "passed" /\ InSection(curr_running) /\ potato_lock = 1
      BY <1>a, <2>4, <2>a, AtLine DEF InSection
    <3> QED
      BY <2>4, <2>b, <2>c, <3>a
  <2>5. CASE Line("unlock") /\ GoOn("moved") /\ potato_lock' = 0 /\ UNCHANGED potato
    <3>a. /\ local[curr_running].line = "unlock" /\ InSection(curr_running)
          /\ local'[curr_running].line = "moved"
      BY <1>a, <2>5, <2>a, AtLine, GoOnEffect DEF InSection
    <3>1. \A t \in Others : ~InSection(t)'
      BY <2>c, <3>a DEF InSection
    <3>2. \A t \in Others : local[t].line # "pass" /\ local'[t].line \notin {"pass", "passed"}
      BY <2>c, <3>a DEF InSection
    <3>3. \A n : Hot(n)' <=> Hot(n)
      BY <2>5 DEF Hot
    <3> QED
      BY <2>a, <3>1, <3>2, <3>3 DEF PotatoOK
  <2> QED
    BY <1>3, <2>1, <2>2, <2>3, <2>4, <2>5 DEF MovePotato
<1> QED
  BY <1>1, <1>2, <1>3

-----------------------------------------------------------------------------
(* The tests of wakeup.  The threads in the queue are distinct and work,   *)
(* so they are at most NTHREADS, and fewer when one who works is not there.*)
LEMMA SleeperFacts ==
  ASSUME Live, Sleeping
  PROVE  /\ Asleep \in Seq(Tid) /\ Len(Asleep) \in Nat /\ nr_sleeping \in Nat
         /\ \A i \in 1 .. Len(Asleep) :
              Asleep[i] \in Others /\ Asleep[i] \in Working /\ local[Asleep[i]].line = "slept"
         /\ Len(Asleep) = nr_sleeping + Taken
         /\ local[0].line = "take" => enough_sleep
         /\ \A t \in Others : local[t].line = "slept" => spun[t] \/ InAsleep(t)
         /\ local[0].line = "wakeup" =>
              \A i \in 1 .. Len(Asleep) : all \/ i = 1 => spun[Asleep[i]]
         /\ local[0].line = "prepare" => \A t \in Others :
              /\ local[t].line \in {"prepare", "off", "sleep", "slept"}
              /\ local[t].line = "slept" => thread_index[t] = "sleep"
         /\ all \in BOOLEAN
         /\ \A i, j \in 1 .. Len(Asleep) : Asleep[i] = Asleep[j] => i = j
<1>1. Asleep \in Seq(Tid) /\ Len(Asleep) \in Nat
  BY LiveFacts, ConstantFacts DEF TypeOK, Asleep
<1>2. \A i, j \in 1 .. Len(Asleep) : Asleep[i] = Asleep[j] => i = j
  BY ConstantFacts DEF Live, Calm, QueuesHoldSleepers, Asleep
<1>3. /\ \A i \in 1 .. Len(Asleep) : Asleep[i] \in Others /\ local[Asleep[i]].line = "slept"
      /\ Len(Asleep) = nr_sleeping + Taken
      /\ local[0].line = "take" => enough_sleep
      /\ \A t \in Others : local[t].line = "slept" => spun[t] \/ InAsleep(t)
      /\ local[0].line = "wakeup" =>
           \A i \in 1 .. Len(Asleep) : all \/ i = 1 => spun[Asleep[i]]
      /\ local[0].line = "prepare" => \A t \in Others :
           /\ local[t].line \in {"prepare", "off", "sleep", "slept"}
           /\ local[t].line = "slept" => thread_index[t] = "sleep"
  BY LiveFacts DEF SleepersOK
<1>4. \A i \in 1 .. Len(Asleep) : Asleep[i] \in Working
  BY <1>3 DEF Working
<1>5. nr_sleeping \in Nat /\ all \in BOOLEAN
  BY LiveFacts DEF PlacesOK, all
<1> QED
  BY <1>1, <1>2, <1>3, <1>4, <1>5

LEMMA SleepersFit ==
  ASSUME Live, Sleeping, NEW S \in SUBSET Working,
         \A i \in 1 .. Len(Asleep) : Asleep[i] \in S
  PROVE  Len(Asleep) <= Cardinality(S)
<1>1. PICK n \in Nat : n = Len(Asleep)
  BY SleeperFacts
<1>2. IsFiniteSet(S)
  BY WorkingFinite, FS_Subset
<1>3. PICK f : f = [i \in 1 .. n |-> Asleep[i]]
  OBVIOUS
<1>4. f \in [1 .. n -> S] /\ \A i, j \in 1 .. n : f[i] = f[j] => i = j
  BY <1>1, <1>3, SleeperFacts
<1>5. f \in Injection(1 .. n, S)
  BY <1>4 DEF Injection, IsInjective
<1>6. Cardinality(1 .. n) <= Cardinality(S)
  BY <1>2, <1>5, FS_Injection
<1>7. Cardinality(1 .. n) = n
  BY FS_Interval
<1> QED
  BY <1>1, <1>6, <1>7

LEMMA Pigeons ==
  ASSUME Live, Sleeping
  PROVE  /\ Len(Asleep) <= NTHREADS
         /\ \A t \in Working : ~InAsleep(t) => Len(Asleep) < NTHREADS
<1>1. PICK k \in Nat : k = Cardinality(Working)
  BY WorkingFinite
<1>2. test # "potato"
  BY DEF Sleeping
<1>3. k <= NTHREADS
  BY <1>1, <1>2, LiveFacts, ConstantFacts DEF WorkersOK, PlacesOK
<1>4. Len(Asleep) <= k
  BY <1>1, SleeperFacts, SleepersFit
<1>5. ASSUME NEW t \in Working, ~InAsleep(t)
      PROVE  Len(Asleep) < NTHREADS
  <2>1. \A i \in 1 .. Len(Asleep) : Asleep[i] \in Working \ {t}
    BY <1>5, SleeperFacts DEF InAsleep
  <2>2. Len(Asleep) <= Cardinality(Working \ {t})
    BY <2>1, SleepersFit
  <2>3. Cardinality(Working \ {t}) = k - 1
    BY <1>1, <1>5, WorkingFinite, FS_RemoveElement
  <2> QED
    BY <1>3, <2>2, <2>3, SleeperFacts, ConstantFacts
<1> QED
  BY <1>3, <1>4, <1>5, SleeperFacts, ConstantFacts

LEMMA SleepersKept ==
  ASSUME Live, Sleeping, UNCHANGED <<test, nr_sleeping, spun, queue>>,
         \A t \in Others : local'[t].line = "slept" => local[t].line = "slept",
         \A i \in 1 .. Len(Asleep) : local'[Asleep[i]].line = "slept",
         Taken' = Taken,
         local'[0].line = "take" => enough_sleep,
         local'[0].line = "wakeup" => local[0].line = "wakeup",
         local'[0].line = "prepare" => \A t \in Others :
           /\ local'[t].line \in {"prepare", "off", "sleep", "slept"}
           /\ local'[t].line = "slept" => thread_index'[t] = "sleep"
  PROVE  SleepersOK'
<1>1. Asleep' = Asleep /\ enough_sleep' = enough_sleep /\ all' = all
  BY DEF Asleep, enough_sleep, all
<1>2. \A t \in Tid : InAsleep(t)' <=> InAsleep(t)
  BY <1>1 DEF InAsleep
<1> QED
  BY <1>1, <1>2, SleeperFacts DEF SleepersOK, Others

LEMMA SleepersLibrary ==
  ASSUME Live, ThreadStep \/ CallStep \/ MonitorKill, UNCHANGED test_vars
  PROVE  SleepersOK'
<1>a. UNCHANGED <<test, local, nr_sleeping, spun>> /\ Sleeping' = Sleeping
  BY SameTest DEF test_vars, shared
<1>1. CASE ~Sleeping
  BY <1>a, <1>1 DEF SleepersOK
<1>2. CASE Sleeping /\ ThreadStep
  <2>1. queue' = queue /\ SameSleepers
    BY <1>2, ThreadStepQuiet DEF Live, Quiet
  <2>2. Taken' = Taken
    BY <1>a, SameTest DEF Taken
  <2> QED
    BY <1>a, <1>2, <2>1, <2>2, SleepersKept, SleeperFacts DEF SameSleepers, Others
<1>3. ~Sleeping \/ ~CallStep
  <2>1. SUFFICES ASSUME CallStep PROVE ~Sleeping
    OBVIOUS
  <2>2. curr_running \in Others /\ local[curr_running].line \in {"write1", "while", "woken"}
    BY <2>1, InsideCall
  <2> QED
    BY <2>2, LiveFacts DEF PlacesOK, OtherLines
<1>4. ~Sleeping \/ ~MonitorKill
  BY KillingThread DEF Sleeping
<1> QED
  BY <1>1, <1>2, <1>3, <1>4

LEMMA SleepersMain ==
  ASSUME TestProgram, Live, MainStep
  PROVE  SleepersOK'
<1>a. /\ curr_running = 0 /\ test' = test /\ Sleeping' = Sleeping /\ all' = all
      /\ Batch' = Batch
  BY AtMain, SameTest
<1>1. CASE ~Sleeping
  BY <1>a, <1>1 DEF SleepersOK
<1>2. CASE Sleeping /\ (Prepare \/ Destroy)
  <2>1. WaitQueueCreate \/ WaitQueueDestroy
    BY <1>2 DEF Prepare, Destroy, LockCreate, CvCreate, PlainCreate, LockDestroy,
                CvDestroy, PlainDestroy
  <2>2. UNCHANGED <<thread_index, queue, local, nr_sleeping, spun>>
    BY <1>2, <2>1, MadeQuiet DEF Prepare, Destroy, test_vars, shared, TestProgram, Live
  <2>3. Taken' = Taken
    BY <1>a, <2>2 DEF Taken
  <2> QED
    BY <1>a, <1>2, <2>2, <2>3, SleepersKept, SleeperFacts
<1>3. CASE Sleeping /\ CreateThread
  <2>1. /\ Create /\ Line("prepare") /\ local[0].line = "prepare"
        /\ UNCHANGED <<nr_sleeping, spun>>
    BY <1>3, <1>a, AtLine DEF CreateThread, shared
  <2>2. PICK n \in Tid :
          /\ tid_generator(n)
          /\ local' = [local EXCEPT ![n] = [line |-> FirstLine, num |-> created, i |-> 0]]
    BY <1>3 DEF CreateThread
  <2>3. /\ n # 0 /\ ~Alive(n)
        /\ \A t \in Tid \ {n} : thread_index'[t] = thread_index[t]
        /\ queue' = queue
    BY <1>a, <2>1, <2>2, CreateEffect DEF Live
  <2>4. /\ \A t \in Tid \ {n} : local'[t] = local[t]
        /\ local'[n].line = "off"
    <3>1. FirstLine = "off"
      BY <1>3 DEF FirstLine, Sleeping
    <3> QED
      BY <2>2, <3>1, LiveFacts
  <2>5. n \notin Working
    BY <2>1, <2>3, LiveFacts DEF WorkersOK
  <2>6. \A i \in 1 .. Len(Asleep) : local'[Asleep[i]].line = "slept"
    BY <1>3, <2>4, <2>5, SleeperFacts DEF Others
  <2>7. local'[0] = local[0] /\ Taken' = Taken
    BY <1>a, <2>3, <2>4, ConstantFacts DEF Taken
  <2>8. \A t \in Others : local'[t].line = "slept" => local[t].line = "slept"
    BY <2>4 DEF Others
  <2>9. \A t \in Others :
          /\ local'[t].line \in {"prepare", "off", "sleep", "slept"}
          /\ local'[t].line = "slept" => thread_index'[t] = "sleep"
    BY <1>3, <2>1, <2>3, <2>4, SleeperFacts DEF Others
  <2> QED
    BY <1>a, <1>3, <2>1, <2>3, <2>6, <2>7, <2>8, <2>9, SleepersKept
<1>4. CASE Sleeping /\ MainSteps
  <2>a. /\ Asleep \in Seq(Tid) /\ UNCHANGED spun
        /\ \A i \in 1 .. Len(Asleep) : Asleep[i] # 0
    BY <1>4, SleeperFacts DEF MainSteps, Others
  <2>1. ASSUME NEW to \in {"poll", "count", "take"}, GoOn(to),
               UNCHANGED <<allvars, nr_sleeping>>, to = "take" => enough_sleep,
               local[0].line \notin {"spin", "wakeup"}
        PROVE  SleepersOK'
    <3>1. /\ local'[0].line = to
          /\ \A t \in Tid \ {0} : local'[t] = local[t]
      BY <1>a, <2>1, GoOnEffect
    <3>2. Taken' = Taken
      BY <2>1, <3>1 DEF Taken
    <3>3. /\ \A t \in Others : local'[t].line = "slept" => local[t].line = "slept"
          /\ \A i \in 1 .. Len(Asleep) : local'[Asleep[i]].line = "slept"
      BY <1>4, <3>1, SleeperFacts DEF Others
    <3> QED
      BY <1>a, <1>4, <2>a, <2>1, <3>1, <3>2, <3>3, SleepersKept DEF allvars, vars
  <2>2. CASE Line("prepare") /\ GoOn(IF Sleeping THEN "poll"
                                     ELSE IF test = "potato" THEN "kill" ELSE "yield")
             /\ UNCHANGED <<allvars, nr_sleeping>>
    BY <1>a, <1>4, <2>1, <2>2, AtLine
  <2>3. CASE Line("yield")
    BY <1>4, <2>3, AtMainLine
  <2>4. CASE Line("poll") /\ GoOn("count") /\ UNCHANGED <<allvars, nr_sleeping>>
    BY <1>a, <1>4, <2>1, <2>4, AtLine
  <2>5. CASE Line("count") /\ GoOn(IF enough_sleep THEN "take" ELSE "poll")
             /\ UNCHANGED <<allvars, nr_sleeping>>
    BY <1>a, <1>4, <2>1, <2>5, AtLine
  <2>6. CASE Line("take") /\ GoOn("spin") /\ UNCHANGED allvars
             /\ nr_sleeping' = IF all THEN 0 ELSE nr_sleeping - 1
    <3>1. /\ local'[0].line = "spin" /\ local[0].line = "take"
          /\ \A t \in Tid \ {0} : local'[t] = local[t]
      BY <1>a, <2>6, GoOnEffect, AtLine
    <3>2. enough_sleep /\ Taken = 0 /\ Taken' = Batch
      BY <1>a, <1>4, <3>1, SleeperFacts DEF Taken
    <3>3. Asleep' = Asleep
      BY <2>6 DEF Asleep, allvars, vars
    <3>4. Len(Asleep) = nr_sleeping' + Batch
      <4>1. Len(Asleep) = nr_sleeping /\ nr_sleeping \in Nat
        BY <1>4, <3>2, SleeperFacts
      <4>2. CASE all
        BY <2>6, <3>2, <4>1, <4>2, ConstantFacts DEF enough_sleep, Batch
      <4>3. CASE ~all
        BY <2>6, <3>2, <4>1, <4>3 DEF enough_sleep, Batch
      <4> QED
        BY <4>2, <4>3
    <3>5. \A i \in 1 .. Len(Asleep) : Asleep[i] \in Others /\ local'[Asleep[i]].line = "slept"
      BY <1>4, <3>1, SleeperFacts DEF Others
    <3>6. \A t \in Others : local'[t].line = "slept" => spun'[t] \/ InAsleep(t)'
      BY <1>4, <2>a, <3>1, <3>3, SleeperFacts DEF Others, InAsleep
    <3> QED
      BY <3>1, <3>2, <3>3, <3>4, <3>5, <3>6 DEF SleepersOK, Others
  <2> QED
    BY <1>4, <2>2, <2>3, <2>4, <2>5, <2>6 DEF MainSteps, MainWait
<1>5. CASE Sleeping /\ WakeUp /\ Line("spin")
  <2>1. Spin5ms /\ GoOn("wakeup") /\ UNCHANGED <<allvars, nr_sleeping>>
    BY <1>5, AtLine DEF WakeUp, shared
  <2>2. /\ local'[0].line = "wakeup" /\ local[0].line = "spin"
        /\ \A t \in Tid \ {0} : local'[t] = local[t]
    BY <1>a, <1>5, <2>1, GoOnEffect, AtLine
  <2>3. Asleep' = Asleep /\ Taken' = Taken
    BY <1>a, <2>1, <2>2 DEF Asleep, allvars, vars, Taken
  <2>4. \A t \in Tid : spun'[t]
    BY <2>1 DEF Spin5ms
  <2>5. \A i \in 1 .. Len(Asleep) : Asleep[i] \in Others /\ local'[Asleep[i]].line = "slept"
    BY <1>5, <2>2, SleeperFacts DEF Others
  <2> QED
    BY <1>5, <2>1, <2>2, <2>3, <2>4, <2>5, SleeperFacts DEF SleepersOK, Others
<1>6. CASE Sleeping /\ WakeUp /\ Line("wakeup")
  <2>1. WakeOn(queue_tested, all) /\ GoOn("poll") /\ UNCHANGED <<nr_sleeping, spun>>
    BY <1>6, AtLine DEF WakeUp, shared
  <2>2. /\ local'[0].line = "poll" /\ local[0].line = "wakeup"
        /\ \A t \in Tid \ {0} : local'[t] = local[t]
    BY <1>a, <1>6, <2>1, GoOnEffect, AtLine
  <2>3. Asleep' = left(queue_tested, all) /\ Asleep # <<>>
    BY <2>1, LiveFacts, ConstantFacts DEF WakeOn, Asleep, TypeOK
  <2>4. PICK n \in Nat : n = Len(Asleep)
    BY <1>6, SleeperFacts
  <2>5. /\ Taken = Batch /\ Taken' = 0 /\ n = nr_sleeping + Batch /\ n <= NTHREADS
        /\ \A i \in 1 .. n : all \/ i = 1 => spun[Asleep[i]]
    BY <1>6, <2>2, <2>4, SleeperFacts, Pigeons DEF Taken
  <2>6. \A t \in Others : local'[t].line = "slept" <=> local[t].line = "slept"
    BY <2>2 DEF Others
  <2>7. CASE all
    <3>1. Asleep' = <<>> /\ nr_sleeping = 0
      BY <1>6, <2>3, <2>5, <2>7, SleeperFacts, ConstantFacts DEF left, Batch
    <3>2. \A t \in Others : local[t].line = "slept" => spun[t]
      BY <1>6, <2>4, <2>5, <2>7, SleeperFacts DEF InAsleep
    <3> QED
      BY <2>1, <2>2, <2>5, <2>6, <3>1, <3>2 DEF SleepersOK
  <2>8. CASE ~all
    <3>1. /\ Asleep' = Tail(Asleep) /\ n \in Nat \ {0} /\ n = nr_sleeping + 1
          /\ Asleep \in Seq(Tid)
      BY <1>6, <2>3, <2>4, <2>5, <2>8, SleeperFacts DEF left, Batch, Asleep
    <3>2. /\ Len(Asleep') = n - 1
          /\ \A i \in 1 .. n - 1 : Asleep'[i] = Asleep[i + 1]
      <4>1. PICK s \in Seq(Tid) : s = Asleep /\ Len(s) = n /\ s # <<>>
        BY <2>3, <2>4, <3>1
      <4>2. Len(Tail(s)) = n - 1 /\ \A i \in 1 .. n - 1 : Tail(s)[i] = s[i + 1]
        BY <4>1
      <4> QED
        BY <3>1, <4>1, <4>2
    <3>3. \A i \in 1 .. n - 1 : Asleep'[i] \in Others /\ local'[Asleep'[i]].line = "slept"
      <4>1. \A i \in 1 .. n - 1 : i + 1 \in 1 .. Len(Asleep)
        BY <2>4
      <4> QED
        BY <1>6, <2>2, <3>2, <4>1, SleeperFacts DEF Others
    <3>4. ASSUME NEW t \in Others, local'[t].line = "slept"
          PROVE  spun'[t] \/ InAsleep(t)'
      <4>1. spun[t] \/ InAsleep(t)
        BY <1>6, <2>6, <3>4, SleeperFacts
      <4>2. ASSUME InAsleep(t) PROVE spun[t] \/ InAsleep(t)'
        <5>1. PICK i \in 1 .. n : Asleep[i] = t
          BY <2>4, <4>2 DEF InAsleep
        <5>2. CASE i = 1
          BY <2>5, <5>1, <5>2
        <5>3. CASE i # 1
          <6>1. i - 1 \in 1 .. n - 1 /\ Asleep'[i - 1] = Asleep[(i - 1) + 1]
            BY <3>1, <3>2, <5>1, <5>3
          <6>2. (i - 1) + 1 = i
            BY <5>1
          <6> QED
            BY <3>2, <5>1, <6>1, <6>2 DEF InAsleep
        <5> QED
          BY <5>2, <5>3
      <4> QED
        BY <2>1, <4>1, <4>2
    <3>5. n - 1 = nr_sleeping' + 0
      BY <1>6, <2>1, <3>1, SleeperFacts
    <3> QED
      BY <2>2, <2>5, <3>2, <3>3, <3>4, <3>5 DEF SleepersOK
  <2> QED
    BY <2>7, <2>8
<1>7. ~Sleeping \/ ~Killing
  BY AtMainLine DEF Killing, Sleeping
<1> QED
  BY <1>1, <1>2, <1>3, <1>4, <1>5, <1>6, <1>7 DEF MainStep, WakeUp

LEMMA SleepersOther ==
  ASSUME Live, OtherStep
  PROVE  SleepersOK'
<1>a. /\ Moved /\ test' = test /\ Sleeping' = Sleeping /\ curr_running \in Others
      /\ \A t \in Tid \ {curr_running} : local'[t] = local[t]
      /\ local'[0] = local[0] /\ InCall("none") /\ here.at = "user"
  BY OtherEffect, SameTest, ConstantFacts DEF Moved, Others, InCall, Running
<1>b. thread_index[curr_running] = "running"
  BY <1>a, LiveFacts DEF CallerRuns
<1>c. Taken' = Taken
  BY <1>a, SameTest DEF Taken
<1>1. CASE ~Sleeping
  BY <1>a, <1>1 DEF SleepersOK
<1>d. \A i \in 1 .. Len(Asleep) : Asleep[i] # curr_running
  BY <1>b, NotQueued, ConstantFacts DEF Asleep
<1>e. ASSUME Sleeping, UNCHANGED <<nr_sleeping, spun, queue>>,
             local'[curr_running].line # "slept",
             local[0].line # "prepare"
               \/ (local[curr_running].line = "off" /\ local'[curr_running].line = "sleep"
                   /\ thread_index' = thread_index)
      PROVE  SleepersOK'
  <2>1. \A t \in Others : local'[t].line = "slept" => local[t].line = "slept"
    BY <1>a, <1>e DEF Others
  <2>2. \A i \in 1 .. Len(Asleep) : local'[Asleep[i]].line = "slept"
    BY <1>a, <1>d, <1>e, SleeperFacts DEF Others
  <2>3. local'[0].line = "take" => enough_sleep
    BY <1>a, <1>e, SleeperFacts
  <2>4. local'[0].line = "prepare" => \A t \in Others :
           /\ local'[t].line \in {"prepare", "off", "sleep", "slept"}
           /\ local'[t].line = "slept" => thread_index'[t] = "sleep"
    BY <1>a, <1>e, SleeperFacts DEF Others
  <2> QED
    BY <1>a, <1>c, <1>e, <2>1, <2>2, <2>3, <2>4, SleepersKept
<1>f. ASSUME Sleeping, local[curr_running].line \notin {"off", "sleep"}
      PROVE  local[0].line # "prepare"
  <2>1. local[curr_running].line # "prepare"
    BY <1>a DEF Moved
  <2> QED
    BY <1>a, <1>b, <1>f, <2>1, SleeperFacts
<1>2. CASE Sleeping /\ InterruptsOff
  <2>1. /\ local[curr_running].line = "off" /\ local'[curr_running].line = "sleep"
        /\ UNCHANGED <<nr_sleeping, spun, queue, thread_index>>
    BY <1>2, AtLine, GoOnEffect DEF InterruptsOff, InterruptsSet, shared
  <2> QED
    BY <1>2, <1>e, <2>1
<1>3. CASE Sleeping /\ Slept
  <2>1. /\ local[curr_running].line \in {"slept", "next"} /\ UNCHANGED <<nr_sleeping, spun>>
        /\ (InterruptsSet \/ UNCHANGED allvars)
    BY <1>3, AtLine DEF Slept, shared
  <2>2. queue' = queue
    BY <2>1 DEF InterruptsSet, allvars, vars
  <2>3. local'[curr_running].line # "slept"
    BY <1>3, GoOnEffect, LoopEffect DEF Slept, TimeCheck, FirstLine
  <2> QED
    BY <1>3, <1>e, <1>f, <2>1, <2>2, <2>3
<1>4. CASE Sleeping /\ Finish
  <2>1. /\ local[curr_running].line \in {"done", "exit"}
        /\ UNCHANGED <<nr_sleeping, spun>>
        /\ MonitorExit \/ UNCHANGED allvars
        /\ GoOn("exit") \/ local' = local
    BY <1>4, AtLine DEF Finish
  <2>2. queue' = queue
    BY <2>1 DEF MonitorExit, ThreadExit, allvars, vars
  <2>3. local'[curr_running].line # "slept"
    BY <2>1, GoOnEffect
  <2> QED
    BY <1>4, <1>e, <1>f, <2>1, <2>2, <2>3
<1>5. CASE Sleeping /\ SleepTested
  <2>1. /\ local[curr_running].line = "sleep" /\ SleepOn(queue_tested, "user")
        /\ nr_sleeping' = nr_sleeping + 1 /\ GoOn("slept") /\ WaitBegins
    BY <1>5, AtLine DEF SleepTested
  <2>2. /\ thread_index'[curr_running] = "sleep"
        /\ \A t \in Tid \ {curr_running} : thread_index'[t] = thread_index[t]
        /\ queue' = [queue EXCEPT ![queue_tested] = Append(@, curr_running)]
    BY <1>a, <2>1, SleepSteady, ConstantFacts DEF Live, InCall
  <2>3. local'[curr_running].line = "slept"
    BY <2>1, GoOnEffect
  <2>4. PICK n \in Nat : n = Len(Asleep)
    BY <1>5, SleeperFacts
  <2>5. /\ Asleep \in Seq(Tid) /\ Asleep' = Append(Asleep, curr_running)
        /\ curr_running \in Tid
    BY <2>2, LiveFacts, ConstantFacts DEF TypeOK, Asleep
  <2>6. /\ Len(Asleep') = n + 1 /\ Asleep'[n + 1] = curr_running
        /\ \A i \in 1 .. n : Asleep'[i] = Asleep[i]
    <3>1. PICK s \in Seq(Tid) : s = Asleep
      BY <2>5
    <3>2. PICK c \in Tid : c = curr_running
      BY <2>5
    <3>3. /\ Len(Append(s, c)) = n + 1 /\ Append(s, c)[n + 1] = c
          /\ \A i \in 1 .. n : Append(s, c)[i] = s[i]
      BY <2>4, <3>1
    <3> QED
      BY <2>5, <3>1, <3>2, <3>3
  <2>7. \A i \in 1 .. n + 1 : i \in 1 .. n \/ i = n + 1
    BY <2>4
  <2>8. n + 1 = nr_sleeping' + Taken
    <3>1. Taken \in Nat
      BY ConstantFacts DEF Taken, Batch
    <3>2. n = nr_sleeping + Taken /\ nr_sleeping \in Nat
      BY <1>5, <2>4, SleeperFacts
    <3> QED
      BY <2>1, <3>1, <3>2
  <2>9. \A i \in 1 .. n + 1 : Asleep'[i] \in Others /\ local'[Asleep'[i]].line = "slept"
    BY <1>a, <1>5, <2>3, <2>4, <2>6, <2>7, <1>d, SleeperFacts DEF Others
  <2>10. n < NTHREADS
    <3>1. curr_running \in Working
      BY <1>a, <2>1 DEF Working
    <3>2. ~InAsleep(curr_running)
      BY <1>d DEF InAsleep
    <3> QED
      BY <1>5, <2>4, <3>1, <3>2, Pigeons
  <2>11. local'[0].line = "take" => enough_sleep'
    <3>1. SUFFICES ASSUME local'[0].line = "take" PROVE enough_sleep'
      OBVIOUS
    <3>2. enough_sleep /\ Taken = 0 /\ n = nr_sleeping
      BY <1>a, <1>5, <2>4, <3>1, SleeperFacts DEF Taken
    <3>3. ~all /\ nr_sleeping > 0
      BY <2>10, <3>2, ConstantFacts DEF enough_sleep
    <3> QED
      BY <1>a, <1>5, <2>1, <3>3, SleeperFacts DEF enough_sleep, all
  <2>12. ASSUME NEW t \in Others, local'[t].line = "slept"
         PROVE  spun'[t] \/ InAsleep(t)'
    <3>1. CASE t = curr_running
      <4>1. n + 1 \in 1 .. Len(Asleep')
        BY <2>4, <2>6
      <4> QED
        BY <2>6, <3>1, <4>1 DEF InAsleep
    <3>2. CASE t # curr_running
      <4>1. spun[t] \/ InAsleep(t)
        BY <1>a, <1>5, <2>12, <3>2, SleeperFacts DEF Others
      <4>2. spun'[t] = spun[t]
        BY <2>1, <3>2, LiveFacts DEF WaitBegins, Others
      <4>3. ASSUME InAsleep(t) PROVE InAsleep(t)'
        <5>1. PICK i \in 1 .. n : Asleep[i] = t
          BY <2>4, <4>3 DEF InAsleep
        <5>2. i \in 1 .. Len(Asleep')
          BY <2>4, <2>6
        <5> QED
          BY <2>6, <5>1, <5>2 DEF InAsleep
      <4> QED
        BY <4>1, <4>2, <4>3
    <3> QED
      BY <3>1, <3>2
  <2>13. ASSUME local'[0].line = "wakeup"
         PROVE  \A i \in 1 .. n + 1 : all \/ i = 1 => spun'[Asleep'[i]]
    <3>1. /\ n = nr_sleeping + Batch
          /\ \A i \in 1 .. n : all \/ i = 1 => spun[Asleep[i]]
      BY <1>a, <1>5, <2>4, <2>13, SleeperFacts DEF Taken
    <3>2. ~all
      <4>1. all => nr_sleeping + NTHREADS < NTHREADS
        BY <2>10, <3>1 DEF Batch
      <4> QED
        BY <1>5, <4>1, SleeperFacts, ConstantFacts
    <3>3. n >= 1 /\ 1 \in 1 .. n
      BY <1>5, <3>1, <3>2, SleeperFacts DEF Batch
    <3>4. spun[Asleep[1]] /\ Asleep'[1] = Asleep[1] /\ Asleep[1] # curr_running
          /\ Asleep[1] \in Tid
      BY <1>5, <1>d, <2>4, <2>6, <3>1, <3>3, SleeperFacts DEF Others
    <3>5. spun'[Asleep[1]] = spun[Asleep[1]]
      BY <2>1, <3>4, LiveFacts DEF WaitBegins
    <3> QED
      BY <3>2, <3>4, <3>5
  <2>14. local'[0].line = "prepare" => \A t \in Others :
           /\ local'[t].line \in {"prepare", "off", "sleep", "slept"}
           /\ local'[t].line = "slept" => thread_index'[t] = "sleep"
    BY <1>a, <1>5, <2>2, <2>3, SleeperFacts DEF Others
  <2>15. all' = all
    BY <1>a DEF all
  <2> QED
    BY <1>c, <2>6, <2>8, <2>9, <2>11, <2>12, <2>13, <2>14, <2>15 DEF SleepersOK
<1>6. ~Sleeping \/ ~(Acquire \/ WriteAndYield \/ Release \/ WhileNotMine \/ PassTurn \/ Notify
                     \/ MovePotato \/ Scramble)
  BY AtOtherLine DEF Acquire, WriteAndYield, Release, WhileNotMine, PassTurn, Notify,
                     MovePotato, Scramble, CvTest, Sleeping
<1> QED
  BY <1>1, <1>2, <1>3, <1>4, <1>5, <1>6 DEF OtherStep

(* Nobody finds that its wait was short: it is in no queue any more, so    *)
(* someone has spun since it began.                                        *)
LEMMA NotBusyOther ==
  ASSUME Live, OtherStep
  PROVE  busy' = busy
<1>a. curr_running \in Others /\ thread_index[curr_running] = "running" /\ mine.pc = "none"
  BY OtherEffect, LiveFacts DEF Moved, CallerRuns, InCall, Running
<1>b. \A q \in Queues : \A i \in 1 .. Len(queue[q]) : queue[q][i] # curr_running
  BY <1>a, NotQueued
<1>1. CASE Slept
  <2>1. CASE Line("slept") /\ TimeCheck("next")
    <3>1. Sleeping /\ local[curr_running].line = "slept"
      BY <2>1, AtOtherLine, AtLine
    <3>2. ~InAsleep(curr_running)
      BY <1>b, ConstantFacts DEF InAsleep, Asleep
    <3>3. spun[curr_running]
      BY <1>a, <3>1, <3>2, SleeperFacts
    <3> QED
      BY <2>1, <3>3 DEF TimeCheck
  <2> QED
    BY <1>1, <2>1 DEF Slept
<1>2. CASE WhileNotMine
  <2>1. CASE Line("woken") /\ TimeCheck("while")
    <3>1. local[curr_running].line = "woken" /\ curr_running \in Tid
      BY <1>a, <2>1, AtLine DEF Others
    <3>2. ~Waits(curr_running)
      BY <1>a, <1>b, ConstantFacts DEF Waits, mine
    <3>3. spun[curr_running]
      BY <3>1, <3>2, LiveFacts DEF CvOK
    <3> QED
      BY <2>1, <3>3 DEF TimeCheck
  <2> QED
    BY <1>2, <2>1 DEF WhileNotMine
<1>3. CASE ~Slept /\ ~WhileNotMine
  <2>1. CASE InterruptsOff \/ SleepTested \/ Acquire \/ WriteAndYield \/ Release
    BY <2>1 DEF InterruptsOff, SleepTested, Acquire, WriteAndYield, Release
  <2>2. CASE PassTurn \/ Notify \/ MovePotato \/ Scramble \/ Finish
    BY <2>2 DEF PassTurn, Notify, MovePotato, Scramble, Finish
  <2> QED
    BY <1>3, <2>1, <2>2 DEF OtherStep
<1> QED
  BY <1>1, <1>2, <1>3

LEMMA NotBusy ==
  ASSUME Live, TestNext
  PROVE  busy' = busy
<1>1. CASE MainStep \/ Return
  BY <1>1 DEF MainStep, Prepare, CreateThread, MainSteps, WakeUp, Killing, Destroy, Return,
              test_vars
<1>2. CASE LibraryStep \/ TestEnded
  BY <1>2 DEF LibraryStep, TestEnded, test_vars
<1> QED
  BY <1>1, <1>2, NotBusyOther DEF TestNext, ProgramStep, MainStep, OtherStep

-----------------------------------------------------------------------------
(* The invariant.                                                          *)
LEMMA TestInitInv ==
  TestInit => Inv /\ MInv /\ HInv /\ Calm /\ TestInv
<1> SUFFICES ASSUME TestInit
             PROVE  Inv /\ MInv /\ HInv /\ Calm /\ TestInv
  OBVIOUS
<1>1. /\ MonitorInit /\ Init /\ test \in Tests /\ NoneTooFast
      /\ local = [t \in Tid |-> [line |-> "prepare", num |-> 0, i |-> 0]]
      /\ created = 0 /\ done = 0 /\ nr_sleeping = 0 /\ potato_lock = 0
      /\ potato = [n \in Nums |-> IF n = 0 THEN 1 ELSE 0]
      /\ testval = <<IF CvTest THEN NTHREADS - 1 ELSE 0, 0, 0>>
      /\ spun = [t \in Tid |-> FALSE]
  BY DEF TestInit, MonitorInit, NoneTooFast, Nums
<1>2. Inv /\ MInv /\ HInv /\ Calm
  BY <1>1, InitInv, MonitorInitInv, DisciplineInit
     DEF DInv, MonitorInit, HInv, HolderOwns
<1>3. /\ \A t \in Tid : local[t].line = "prepare" /\ local[t].num = 0 /\ local[t].i = 0
      /\ 0 \in Nums /\ NTHREADS - 1 \in Nums
      /\ "prepare" \in MainLines \cap OtherLines
  BY <1>1, ConstantFacts DEF Nums, MainLines, OtherLines
<1>4. PlacesOK
  <2>1. [line |-> "prepare", num |-> 0, i |-> 0] \in Locals
    BY <1>3 DEF Locals
  <2>2. local \in [Tid -> Locals] /\ spun \in [Tid -> BOOLEAN]
    BY <1>1, <2>1
  <2>3. testval \in [1 .. 3 -> Nums] /\ potato \in [Nums -> {0, 1}]
    BY <1>1, <1>3
  <2> QED
    BY <1>1, <1>3, <2>2, <2>3, ConstantFacts DEF PlacesOK, Others
<1>5. /\ \A t \in Tid : /\ call[t].pc = "none" /\ stack[t].back = "none"
                        /\ stack[t].at \notin {"create_ret", "kill_chk"}
                        /\ stack[t].wants = TRUE
                        /\ thread_index[t] = IF t = 0 THEN "running" ELSE "NULL"
      /\ made = {} /\ \A q \in Queues : queue[q] = <<>>
  BY <1>1 DEF MonitorInit, Init, Fresh, NoCall
<1>6. MainOK
  BY <1>5, ConstantFacts DEF MainOK, InTail, Others
<1>7. WorkersOK
  <2>1. Working = {}
    BY <1>3 DEF Working, Others
  <2>2. Cardinality(Working) = 0
    BY <2>1, FS_EmptySet
  <2> QED
    BY <1>1, <1>3, <1>5, <2>1, <2>2 DEF WorkersOK, Others
<1>8. \A t \in Tid : CallFits(t) /\ HoldFits(t)
  BY <1>3, <1>5 DEF CallFits, HoldFits, Inner
<1>9. ValsOK /\ CvOK
  BY <1>3 DEF ValsOK, CvOK
<1>10. SleepersOK
  <2>1. Asleep = <<>> /\ local[0].line = "prepare"
    BY <1>3, <1>5, ConstantFacts DEF Asleep
  <2>2. Len(Asleep) = 0 /\ Taken = 0
    BY <2>1 DEF Taken
  <2> QED
    BY <1>1, <1>3, <2>1, <2>2 DEF SleepersOK, Others
<1>11. PotatoOK
  <2>1. Hot(0)
    BY <1>1 DEF Hot
  <2> QED
    BY <1>3, <2>1 DEF PotatoOK, InSection, Others
<1> QED
  BY <1>1, <1>2, <1>4, <1>6, <1>7, <1>8, <1>9, <1>10, <1>11 DEF TestInv, Groups

LEMMA LiveStep ==
  ASSUME TestProgram, Live, TestNext
  PROVE  outcome' = "live" => Groups'
<1>a. Inv' /\ test' = test
  BY LibraryInv, TestKept
<1>1. CASE MainStep
  <2>1. \A t \in Tid : CallFits(t)' /\ HoldFits(t)'
    BY <1>1, FitsMain
  <2> QED
    BY <1>a, <1>1, <2>1, PlacesMain, MainMain, WorkersMain, ValsMain, CvMain, SleepersMain,
       PotatoMain DEF Groups, MainStep
<1>2. CASE OtherStep
  <2>1. \A t \in Tid : CallFits(t)' /\ HoldFits(t)'
    BY <1>2, FitsOther
  <2> QED
    BY <1>a, <1>2, <2>1, PlacesOther, MainOther, WorkersOther, ValsOther, CvOther,
       SleepersOther, PotatoOther DEF Groups
<1>3. CASE (ThreadStep \/ CallStep \/ MonitorKill) /\ UNCHANGED test_vars
  <2>1. \A t \in Tid : CallFits(t)' /\ HoldFits(t)'
    BY <1>3, FitsLibrary
  <2>2. UNCHANGED <<test, local, created, done, nr_sleeping, potato, potato_lock, testval,
                    spun>>
    BY <1>3 DEF test_vars, shared
  <2>3. PlacesOK'
    BY <1>a, <2>2, SameTest, LiveFacts DEF PlacesOK
  <2>4. ValsOK' /\ PotatoOK'
    BY <2>2, LiveFacts DEF ValsOK, Wrote, PotatoOK, InSection, Hot
  <2> QED
    BY <1>a, <1>3, <2>1, <2>3, <2>4, MainLibrary, WorkersLibrary, CvLibrary, SleepersLibrary
       DEF Groups
<1>4. CASE Return \/ CreateFails
  <2>1. outcome' # "live"
    BY <1>4 DEF Return, CreateFails, CreateFault, Stop
  <2> QED
    BY <2>1
<1>5. ~TestEnded
  BY DEF TestEnded, MonitorEnded, Ended, Live
<1> QED
  BY <1>1, <1>2, <1>3, <1>4, <1>5
     DEF TestNext, ProgramStep, LibraryStep, MainStep, OtherStep

LEMMA OnlyEnded ==
  ASSUME TestNext, outcome # "live"
  PROVE  TestEnded
<1>1. \A at : ~Running(at)
  BY DEF Running
<1>2. \A line : ~Line(line)
  BY <1>1 DEF Line, InCall
<1>3. ~(Prepare \/ CreateThread \/ MainSteps \/ WakeUp \/ Killing \/ Destroy \/ Return)
  BY <1>2 DEF Prepare, CreateThread, MainSteps, MainWait, WakeUp, Killing, Destroy,
              Return, AllDone
<1>4. ~(InterruptsOff \/ SleepTested \/ Slept \/ Acquire \/ WriteAndYield \/ Release)
  BY <1>2 DEF InterruptsOff, SleepTested, Slept, Acquire, WriteAndYield, Release
<1>5. ~(WhileNotMine \/ PassTurn \/ Notify \/ MovePotato \/ Scramble \/ Finish)
  BY <1>2 DEF WhileNotMine, PassTurn, Notify, MovePotato, Scramble, Finish
<1>6. ~ThreadStep
  BY <1>1 DEF ThreadStep, Preempt, Stub, CreateReturn, YieldSwitch, YieldReturn,
              SleepSwitch, SleepReturn
<1>7. ~(CallStep \/ MonitorKill \/ CreateFails)
  BY <1>1 DEF CallStep, AcquireSleep, AcquireFree, AcquireTake, CvRelease, CvSleep,
              Leave, InCall, MonitorKill, Kill, CreateFails, CreateFault
<1> QED
  BY <1>3, <1>4, <1>5, <1>6, <1>7 DEF TestNext, ProgramStep, LibraryStep

LEMMA TestStep ==
  ASSUME TestProgram, Inv, MInv, HInv, Calm, TestInv, [TestNext]_testing
  PROVE  Inv' /\ MInv' /\ HInv' /\ Calm' /\ TestInv'
<1>1. CASE Live /\ TestNext
  BY <1>1, LibraryInv, LiveStep, NotBusy DEF TestInv, NoneTooFast
<1>2. CASE UNCHANGED testing
  <2>1. /\ UNCHANGED <<thread_index, curr_running, setcontext_called, queue, made, enabled,
                       next, stack, outcome>>
        /\ UNCHANGED <<lockstatus, locked_tid, call, holds>>
        /\ UNCHANGED <<test, local, created, done, nr_sleeping, potato, potato_lock, testval,
                       spun, busy>>
    BY <1>2 DEF testing, allvars, vars, mvars, test_vars, shared
  <2>2. Inv' /\ Calm'
    BY <2>1 DEF Inv, TypeOK, CallerOK, FrameOK, ParkedOK, here, Running, Calm,
                QueuesHoldSleepers, CallerRuns, NextReady
  <2>3. MInv' /\ HInv'
    BY <2>1 DEF MInv, MonitorTypeOK, CallOK, HInv, HolderOwns, here
  <2>4. /\ Sleeping' = Sleeping /\ CvTest' = CvTest /\ all' = all /\ Locals' = Locals
        /\ MainLines' = MainLines /\ OtherLines' = OtherLines /\ Needed' = Needed
        /\ Batch' = Batch /\ Working' = Working
    BY <2>1, SameTest DEF Working
  <2>5. /\ PlacesOK' <=> PlacesOK
        /\ MainOK' <=> MainOK
        /\ WorkersOK' <=> WorkersOK
    BY <2>1, <2>4 DEF PlacesOK, MainOK, InTail, Alive, WorkersOK
  <2>6. /\ \A t \in Tid : (CallFits(t)' <=> CallFits(t)) /\ (HoldFits(t)' <=> HoldFits(t))
        /\ ValsOK' <=> ValsOK
        /\ CvOK' <=> CvOK
    BY <2>1 DEF CallFits, HoldFits, ValsOK, Wrote, CvOK, Waits
  <2>7. SleepersOK' <=> SleepersOK
    BY <2>1, <2>4 DEF SleepersOK, Asleep, InAsleep, Taken, enough_sleep
  <2>8. PotatoOK' <=> PotatoOK
    BY <2>1 DEF PotatoOK, InSection, Hot
  <2> QED
    BY <2>1, <2>2, <2>3, <2>5, <2>6, <2>7, <2>8 DEF TestInv, Groups, NoneTooFast
<1>3. CASE outcome # "live" /\ TestNext
  <2>1. /\ UNCHANGED <<thread_index, curr_running, setcontext_called, queue, made, enabled,
                       next, stack, outcome>>
        /\ UNCHANGED <<lockstatus, locked_tid, call, holds, busy>>
    <3>1. TestEnded
      BY <1>3, OnlyEnded
    <3> QED
      BY <3>1 DEF TestEnded, MonitorEnded, Ended, vars, mvars, test_vars
  <2>2. Inv' /\ Calm'
    BY <2>1 DEF Inv, TypeOK, CallerOK, FrameOK, ParkedOK, here, Running, Calm,
                QueuesHoldSleepers, CallerRuns, NextReady
  <2>3. MInv' /\ HInv'
    BY <2>1 DEF MInv, MonitorTypeOK, CallOK, HInv, HolderOwns, here
  <2> QED
    BY <1>3, <2>1, <2>2, <2>3 DEF TestInv, NoneTooFast
<1> QED
  BY <1>1, <1>2, <1>3 DEF Live, TestInv

LEMMA TestHolds ==
  ASSUME TestProgram
  PROVE  TestSpec => [](Inv /\ MInv /\ HInv /\ Calm /\ TestInv)
<1>1. TestInit => Inv /\ MInv /\ HInv /\ Calm /\ TestInv
  BY TestInitInv
<1>2. Inv /\ MInv /\ HInv /\ Calm /\ TestInv /\ [TestNext]_testing
        => (Inv /\ MInv /\ HInv /\ Calm /\ TestInv)'
  BY TestStep
<1> QED
  BY <1>1, <1>2, PTL DEF TestSpec

(* What the invariant says where a test asserts it.                        *)
LEMMA LiveAsserts ==
  ASSUME TestProgram, Live
  PROVE  AssertionsHold
<1>1. here.at = "kill_chk" => thread_index[here.arg] # "NULL"
  <2>1. SUFFICES ASSUME here.at = "kill_chk" PROVE thread_index[here.arg] # "NULL"
    OBVIOUS
  <2>2. InTail(curr_running, "kill_chk")
    BY <2>1 DEF InTail, here
  <2>3. curr_running = 0
    BY <2>2, LiveFacts DEF MainOK, Others
  <2> QED
    BY <2>2, <2>3, LiveFacts DEF MainOK, Alive, here
<1>2. here.at = "create_ret" /\ (Sleeping \/ test = "potato") => thread_index[here.arg] # "NULL"
  <2>1. SUFFICES ASSUME here.at = "create_ret", Sleeping \/ test = "potato"
                 PROVE  thread_index[here.arg] # "NULL"
    OBVIOUS
  <2>2. InTail(curr_running, "create_ret")
    BY <2>1 DEF InTail, here
  <2>3. curr_running = 0
    BY <2>2, LiveFacts DEF MainOK, Others
  <2>4. local[0].line = "prepare" /\ here.arg \in Working
    BY <2>1, <2>2, <2>3, LiveFacts DEF MainOK, here
  <2> QED
    BY <2>4, LiveFacts DEF WorkersOK, Alive
<1>3. InCall("none") /\ me.line \notin {"sleep", "slept"} => enabled
  <2>1. SUFFICES ASSUME InCall("none"), me.line \notin {"sleep", "slept"} PROVE enabled
    OBVIOUS
  <2>2. Line(me.line)
    BY <2>1 DEF Line
  <2> QED
    BY <2>1, <2>2, AtLine
<1>4. Line("sleep") \/ Line("write1") \/ Line("write2") \/ Line("moved") => ~NoneReady
  BY AtOtherLine
<1>5. Line("wakeup") => Len(queue[queue_tested]) >= IF all THEN NTHREADS ELSE 1
  <2>1. SUFFICES ASSUME Line("wakeup") PROVE Len(Asleep) >= Batch
    BY DEF Asleep, Batch
  <2>2. Sleeping /\ local[0].line = "wakeup"
    BY <2>1, AtMainLine, AtLine
  <2>3. Len(Asleep) = nr_sleeping + Batch /\ nr_sleeping \in Nat /\ Batch \in Nat
    BY <2>2, SleeperFacts, ConstantFacts DEF Taken, Batch
  <2> QED
    BY <2>3
<1>6. Line("poll") /\ done = NTHREADS => nr_sleeping = 0
  <2>1. SUFFICES ASSUME Line("poll"), done = NTHREADS PROVE nr_sleeping = 0
    OBVIOUS
  <2>2. Sleeping /\ local[0].line = "poll"
    BY <2>1, AtMainLine, AtLine
  <2>3. Working = {}
    BY <2>1, <2>2, NoneWorks DEF Sleeping
  <2>4. Len(Asleep) <= 0
    BY <2>2, <2>3, SleeperFacts
  <2> QED
    BY <2>2, <2>4, SleeperFacts DEF Taken
<1>7. Line("release") /\ test = "lock" => testval = <<num, num, num>>
  <2>1. SUFFICES ASSUME Line("release"), test = "lock" PROVE testval = <<num, num, num>>
    OBVIOUS
  <2>2. local[curr_running].line = "release"
    BY <2>1, AtLine
  <2>3. testval[1] = num /\ testval[2] = num /\ testval[3] = num
    BY <2>1, <2>2, LiveFacts DEF ValsOK, Wrote, num, me
  <2> QED
    BY <2>3, LiveFacts
<1>8. Line("passed") => potato[num] = 0 /\ potato[next_num] = 1
  <2>1. SUFFICES ASSUME Line("passed") PROVE potato[num] = 0 /\ potato[next_num] = 1
    OBVIOUS
  <2>2. test = "potato" /\ curr_running \in Others /\ local[curr_running].line = "passed"
    BY <2>1, AtOtherLine, AtLine
  <2>3. Hot(next_num)
    BY <2>2, LiveFacts DEF PotatoOK, next_num, num, me
  <2>4. NTHREADS > 1 /\ num \in Nums /\ NTHREADS \in Nat
    BY <2>2, LiveFacts, ConstantFacts DEF TestProgram, PlacesOK
  <2>5. next_num \in Nums /\ next_num # num
    <3>1. CASE num + 1 < NTHREADS
      BY <2>4, <3>1 DEF next_num, Nums
    <3>2. CASE num + 1 = NTHREADS
      BY <2>4, <3>2 DEF next_num, Nums
    <3> QED
      BY <2>4, <3>1, <3>2 DEF Nums
  <2> QED
    BY <2>3, <2>4, <2>5 DEF Hot
<1>9. Line("unlock") => potato_lock = 1
  <2>1. SUFFICES ASSUME Line("unlock") PROVE potato_lock = 1
    OBVIOUS
  <2>2. test = "potato" /\ curr_running \in Others /\ local[curr_running].line = "unlock"
    BY <2>1, AtOtherLine, AtLine
  <2> QED
    BY <2>2, LiveFacts DEF PotatoOK, InSection
<1> QED
  BY <1>1, <1>2, <1>3, <1>4, <1>5, <1>6, <1>7, <1>8, <1>9 DEF AssertionsHold

(* Every assertion of the timer's tests holds, for any number of threads,  *)
(* of turns and of identifiers, and wherever a preemption falls: the       *)
(* results of the calls, who is in the critical section, how many sleep    *)
(* when the main thread wakes them, one hot potato, interrupts on around   *)
(* every call, and a thread that is there when thread_create and           *)
(* thread_kill, called with interrupts on, come to use it.                 *)
THEOREM AssertionsHoldHolds ==
  ASSUME TestProgram
  PROVE  TestSpec => []AssertionsHold
<1>1. Inv /\ MInv /\ HInv /\ Calm /\ TestInv => AssertionsHold
  BY LiveAsserts DEF Live, TestInv, AssertionsHold
<1> QED
  BY <1>1, TestHolds, PTL

(* No test prints "You must be busy looping": whoever comes back from      *)
(* thread_sleep or cv_wait was woken by someone who had spun for 5 ms      *)
(* since the wait began.                                                   *)
THEOREM NoneTooFastHolds ==
  ASSUME TestProgram
  PROVE  TestSpec => []NoneTooFast
<1>1. TestInv => NoneTooFast
  BY DEF TestInv
<1> QED
  BY <1>1, TestHolds, PTL

-----------------------------------------------------------------------------
(* How a test can end.                                                     *)
EndsWell ==
  \/ outcome \in {"live", "exit"}
  \/ outcome = "create_null" /\ (CvTest \/ test = "lock")

LEMMA OutcomeStep ==
  ASSUME TestProgram, Live, TestNext
  PROVE  EndsWell'
<1>a. /\ test' = test /\ CvTest' = CvTest /\ outcome = "live" /\ Inv
      /\ DestroyOf \subseteq {"empty"}
  BY TestKept, SameTest DEF Live, TestProgram
<1>1. CASE Prepare \/ Destroy
  <2>1. WaitQueueCreate \/ WaitQueueDestroy
    BY <1>1 DEF Prepare, Destroy, LockCreate, CvCreate, PlainCreate, LockDestroy,
                CvDestroy, PlainDestroy
  <2> QED
    BY <1>a, <2>1, MadeQuiet DEF EndsWell
<1>2. CASE CreateThread \/ Killing
  BY <1>a, <1>2 DEF CreateThread, Create, Killing, MonitorKillCheck, KillCheck, EndsWell
<1>3. CASE MainSteps \/ WakeUp
  BY <1>a, <1>3, WaitSteady DEF Steady, EndsWell
<1>4. CASE Return
  BY <1>4 DEF Return, Stop, EndsWell
<1>5. CASE OtherStep
  <2>1. CASE Steady
    BY <1>a, <2>1 DEF Steady, EndsWell
  <2>2. CASE Exits
    BY <1>a, <2>2, ExitEffect DEF Exits, MonitorExit, EndsWell
  <2> QED
    BY <1>5, <2>1, <2>2, OtherSteady
<1>6. CASE ThreadStep \/ CallStep
  <2>1. Steady
    BY <1>6, ThreadStepQuiet, QuietSteady, CallSteady DEF Live
  <2> QED
    BY <1>a, <2>1 DEF Steady, EndsWell
<1>7. CASE MonitorKill
  BY <1>a, <1>7, KillEffect DEF MonitorKill, EndsWell
<1>8. CASE CreateFails
  <2>1. here.at = "create_ret" /\ thread_index[here.arg] = "NULL" /\ outcome' = "create_null"
    BY <1>8 DEF CreateFails, CreateFault, Running, Stop
  <2>2. ~Sleeping /\ test # "potato"
    BY <1>a, <2>1, LiveAsserts DEF AssertionsHold
  <2>3. CvTest \/ test = "lock"
    BY <2>2, LiveFacts, TestAssumption DEF PlacesOK, Sleeping, CvTest
  <2> QED
    BY <1>a, <2>1, <2>3 DEF EndsWell
<1>9. CASE TestEnded
  BY <1>9 DEF TestEnded, MonitorEnded, Ended, Live
<1> QED
  BY <1>1, <1>2, <1>3, <1>4, <1>5, <1>6, <1>7, <1>8, <1>9
     DEF TestNext, ProgramStep, LibraryStep, OtherStep

LEMMA EndsStep ==
  ASSUME TestProgram, Inv, MInv, HInv, Calm, TestInv, EndsWell, [TestNext]_testing
  PROVE  EndsWell'
<1>1. CASE outcome = "live" /\ TestNext
  BY <1>1, OutcomeStep DEF Live, TestInv
<1>2. CASE UNCHANGED <<outcome, test>>
  BY <1>2 DEF EndsWell, CvTest
<1>3. CASE outcome # "live" /\ TestNext
  <2>1. TestEnded
    BY <1>3, OnlyEnded
  <2> QED
    BY <1>2, <2>1 DEF TestEnded, MonitorEnded, Ended, vars, test_vars
<1> QED
  BY <1>1, <1>2, <1>3 DEF testing, allvars, vars, test_vars

(* No test ends in a fault or an assertion of the library.  It ends by     *)
(* exit; or, in the tests of locks and of condition variables, whose       *)
(* threads can come to their end by themselves, in a thread_create that    *)
(* finds its new thread gone.                                              *)
THEOREM TestsEndWell ==
  ASSUME TestProgram
  PROVE  TestSpec => []EndsWell
<1>1. TestInit => EndsWell
  BY DEF TestInit, MonitorInit, Init, EndsWell
<1>2. Inv /\ MInv /\ HInv /\ Calm /\ TestInv /\ EndsWell /\ [TestNext]_testing => EndsWell'
  BY EndsStep
<1> QED
  BY <1>1, <1>2, TestHolds, PTL DEF TestSpec

(* No two threads of a test hold a lock, though thread_create is called    *)
(* with interrupts on.                                                     *)
THEOREM TestsExclude ==
  ASSUME TestProgram
  PROVE  TestSpec => []MutualExclusion
<1>1. HInv => MutualExclusion
  BY DEF HInv, HolderOwns, MutualExclusion
<1> QED
  BY <1>1, TestHolds, PTL
=============================================================================
