----------------------------- MODULE TestThread -----------------------------
(***************************************************************************)
(* The tests of threads/test_thread.c that run with the timer, as clients  *)
(* of Monitor: test_wakeup for one and for all, test_lock, test_cv_signal, *)
(* test_cv_broadcast and test_preemptive, which passes a hot potato.  The  *)
(* main thread creates NTHREADS threads, with interrupts on.  A step of a  *)
(* test is one call or one access to a variable that threads share.        *)
(***************************************************************************)
EXTENDS Monitor

CONSTANTS
  Tests,               \* those to run
  NTHREADS, LOOPS,
  Scrambling,          \* the num of threads that yield between two moves
  queue_tested, testlock, testcv_signal, testcv_broadcast   \* wait queues

ASSUME TestAssumption ==
  /\ NTHREADS \in Nat \ {0} /\ NTHREADS < MaxThreads
  /\ LOOPS \in Nat \ {0}
  /\ Tests \subseteq {"wakeup", "wakeup_all", "lock", "signal", "broadcast", "potato"}
  /\ testcv_signal \in [0 .. NTHREADS - 1 -> CVs]
  /\ testlock \in Locks /\ testcv_broadcast \in CVs
  /\ queue_tested \in Queues \ (Locks \cup CVs)

VARIABLES
  test,        \* the test that runs
  local,       \* of every thread: the line it is at, its num, its loops done
  created,     \* ii, when the main thread creates
  done, nr_sleeping, potato, potato_lock,
  testval,     \* who wrote testval1, 2 and 3; in the cv tests, testval1
  spun,        \* since each thread's last wait began, has someone spun 5 ms?
  busy         \* threads that printed "You must be busy looping"

shared == <<done, nr_sleeping, potato, potato_lock, testval>>
test_vars == <<test, local, created, shared, spun, busy>>
testing == <<allvars, test_vars>>

Sleeping == test \in {"wakeup", "wakeup_all"}
CvTest == test \in {"signal", "broadcast"}
all == test = "wakeup_all"

me == local[curr_running]
num == me.num
Line(line) == InCall("none") /\ me.line = line
GoOn(line) == local' = [local EXCEPT ![curr_running].line = line]

FirstLine ==
  CASE Sleeping -> "off" [] test = "potato" -> "cas" [] OTHER -> "acquire"
Loop ==                                    \* the end of a turn of a for loop
  local' = [local EXCEPT ![curr_running] =
              [line |-> IF me.i + 1 < LOOPS THEN FirstLine ELSE "done",
               num |-> num, i |-> me.i + 1]]

TestInit ==
  /\ MonitorInit
  /\ test \in Tests
  /\ local = [t \in Tid |-> [line |-> "prepare", num |-> 0, i |-> 0]]
  /\ created = 0 /\ done = 0 /\ nr_sleeping = 0
  /\ potato = [n \in 0 .. NTHREADS - 1 |-> IF n = 0 THEN 1 ELSE 0]
  /\ potato_lock = 0
  /\ testval = <<IF CvTest THEN NTHREADS - 1 ELSE 0, 0, 0>>
  /\ spun = [t \in Tid |-> FALSE]
  /\ busy = {}

WaitBegins == spun' = [spun EXCEPT ![curr_running] = FALSE]
Spin5ms == spun' = [t \in Tid |-> TRUE]
TimeCheck(line) ==                       \* a wait of less than 4 ms: goto out
  IF spun[curr_running] THEN GoOn(line) /\ UNCHANGED busy
  ELSE GoOn("done") /\ busy' = busy \cup {curr_running}

-----------------------------------------------------------------------------
(* The main thread.  The wait queue, lock and condition variables it       *)
(* creates; the cv tests do not destroy their lock.                        *)
CVsOf == CASE test = "signal" -> Range(testcv_signal)
           [] test = "broadcast" -> {testcv_broadcast}
           [] OTHER -> {}
Needed == CVsOf \cup (IF Sleeping THEN {queue_tested} ELSE {})
                \cup (IF CvTest \/ test = "lock" THEN {testlock} ELSE {})
Destroyed == IF CvTest THEN CVsOf ELSE Needed

Prepare ==
  /\ Line("prepare") /\ made # Needed
  /\ LockCreate \/ CvCreate \/ (PlainCreate /\ UNCHANGED mvars)
  /\ made' \subseteq Needed
  /\ UNCHANGED test_vars

CreateThread ==
  /\ Line("prepare") /\ made = Needed /\ created < NTHREADS
  /\ Create
  /\ \E t \in Tid :
       /\ tid_generator(t)
       /\ local' = [local EXCEPT ![t] = [line |-> FirstLine, num |-> created, i |-> 0]]
  /\ created' = created + 1
  /\ UNCHANGED <<mvars, test, shared, spun, busy>>

(* Its waits for the others: it polls, or yields, or spins DURATION long.  *)
enough_sleep == IF all THEN nr_sleeping = NTHREADS ELSE nr_sleeping > 0
MainWait ==
  \/ /\ Line("prepare") /\ created = NTHREADS
     /\ GoOn(IF Sleeping THEN "poll" ELSE IF test = "potato" THEN "kill" ELSE "yield")
     /\ UNCHANGED <<allvars, nr_sleeping>>
  \/ /\ Line("yield") /\ done < NTHREADS
     /\ YieldAny
     /\ UNCHANGED <<mvars, local, nr_sleeping>>
  \/ /\ Line("poll") /\ done < NTHREADS
     /\ GoOn("count")
     /\ UNCHANGED <<allvars, nr_sleeping>>
  \/ /\ Line("count")
     /\ GoOn(IF enough_sleep THEN "take" ELSE "poll")
     /\ UNCHANGED <<allvars, nr_sleeping>>
  \/ /\ Line("take")
     /\ GoOn("spin")
     /\ nr_sleeping' = IF all THEN 0 ELSE nr_sleeping - 1
     /\ UNCHANGED allvars
MainSteps ==
  MainWait /\ UNCHANGED <<test, created, done, potato, potato_lock, testval, spun, busy>>

WakeUp ==
  /\ \/ Line("spin") /\ Spin5ms /\ GoOn("wakeup") /\ UNCHANGED allvars
     \/ /\ Line("wakeup") /\ WakeOn(queue_tested, all) /\ GoOn("poll")
        /\ UNCHANGED <<mvars, spun>>
  /\ UNCHANGED <<test, created, shared, busy>>

Killing ==
  /\ Line("kill") /\ me.i < NTHREADS
  /\ MonitorKillCheck
  /\ local[stack'[curr_running].arg].num = me.i
  /\ local' = [local EXCEPT ![curr_running].i = @ + 1]
  /\ UNCHANGED <<test, created, shared, spun, busy>>

AllDone == Line("yield") \/ Line("poll")
Destroy ==
  /\ AllDone /\ done = NTHREADS
  /\ LockDestroy \/ CvDestroy \/ (PlainDestroy /\ UNCHANGED mvars)
  /\ made \ made' \subseteq Destroyed
  /\ UNCHANGED test_vars

Return ==                                      \* main returns: exit
  /\ \/ AllDone /\ done = NTHREADS /\ made \cap Destroyed = {}
     \/ Line("kill") /\ me.i = NTHREADS
  /\ Stop("exit")
  /\ UNCHANGED <<mvars, test_vars>>

-----------------------------------------------------------------------------
(* test_wakeup_thread.                                                     *)
InterruptsOff ==
  /\ Line("off") /\ InterruptsSet /\ GoOn("sleep")
  /\ UNCHANGED <<mvars, test, created, shared, spun, busy>>

SleepTested ==
  /\ Line("sleep") /\ SleepOn(queue_tested, "user")
  /\ nr_sleeping' = nr_sleeping + 1
  /\ GoOn("slept") /\ WaitBegins
  /\ UNCHANGED <<mvars, test, created, done, potato, potato_lock, testval, busy>>

Slept ==
  /\ \/ /\ Line("slept") /\ InterruptsSet /\ TimeCheck("next")
        /\ UNCHANGED mvars
     \/ Line("next") /\ Loop /\ UNCHANGED <<allvars, busy>>
  /\ UNCHANGED <<test, created, shared, spun>>

-----------------------------------------------------------------------------
(* test_lock_thread: it yields twice inside the lock.                      *)
Acquire ==
  /\ Line("acquire") /\ LockAcquire
  /\ GoOn(IF CvTest THEN "while" ELSE "write1")
  /\ UNCHANGED <<test, created, shared, spun, busy>>

Writes(n) == testval' = [testval EXCEPT ![n] = num]
WriteAndYield ==
  /\ \/ Line("write1") /\ Writes(1) /\ YieldAny /\ GoOn("write2")
     \/ Line("write2") /\ Writes(2) /\ YieldAny /\ GoOn("write3")
     \/ Line("write3") /\ Writes(3) /\ GoOn("release") /\ UNCHANGED vars
  /\ UNCHANGED <<mvars, test, created, done, nr_sleeping, potato, potato_lock,
                 spun, busy>>

Release ==
  /\ Line("release") /\ LockRelease /\ Loop
  /\ UNCHANGED <<test, created, shared, spun, busy>>

-----------------------------------------------------------------------------
(* test_cv_signal_thread and test_cv_broadcast_thread.                     *)
cv == IF test = "signal" THEN testcv_signal[num] ELSE testcv_broadcast
WhileNotMine ==
  /\ \/ /\ Line("while") /\ testval[1] # num
        /\ CvWait /\ call'[curr_running].cv = cv
        /\ GoOn("woken") /\ WaitBegins /\ UNCHANGED busy
     \/ /\ Line("while") /\ testval[1] = num
        /\ GoOn("mine") /\ UNCHANGED <<allvars, spun, busy>>
     \/ Line("woken") /\ TimeCheck("while") /\ UNCHANGED <<allvars, spun>>
  /\ UNCHANGED <<test, created, shared>>

PassTurn ==
  /\ Line("mine")
  /\ testval' = [testval EXCEPT ![1] = (@ + NTHREADS - 1) % NTHREADS]
  /\ Spin5ms /\ GoOn("notify")
  /\ UNCHANGED <<allvars, test, created, done, nr_sleeping, potato, potato_lock, busy>>

Notify ==
  /\ Line("notify") /\ owns(testlock)
  /\ IF test = "signal" THEN WakeupIn(testcv_signal[testval[1]], FALSE)
     ELSE WakeupIn(testcv_broadcast, TRUE)
  /\ GoOn("release")
  /\ UNCHANGED <<mvars, test, created, shared, spun, busy>>

-----------------------------------------------------------------------------
(* do_potato and try_move_potato.                                          *)
next_num == (num + 1) % NTHREADS
MovePotato ==
  /\ \/ /\ Line("cas") /\ GoOn(IF potato_lock = 0 THEN "move" ELSE "moved")
        /\ potato_lock' = 1 /\ UNCHANGED potato
     \/ /\ Line("move") /\ GoOn(IF potato[num] = 1 THEN "pass" ELSE "unlock")
        /\ potato' = [potato EXCEPT ![num] = 0] /\ UNCHANGED potato_lock
     \/ /\ Line("pass") /\ GoOn("passed")
        /\ potato' = [potato EXCEPT ![next_num] = 1] /\ UNCHANGED potato_lock
     \/ /\ Line("passed") /\ GoOn("unlock") /\ UNCHANGED <<potato, potato_lock>>
     \/ /\ Line("unlock") /\ GoOn("moved")
        /\ potato_lock' = 0 /\ UNCHANGED potato
  /\ UNCHANGED <<allvars, test, created, done, nr_sleeping, testval, spun, busy>>

Scramble ==
  /\ Line("moved")
  /\ \/ num \in Scrambling /\ YieldAny /\ GoOn("moved")
     \/ GoOn("cas") /\ UNCHANGED vars
  /\ UNCHANGED <<mvars, test, created, shared, spun, busy>>

-----------------------------------------------------------------------------
(* The end of a thread: it counts itself, and thread_stub calls            *)
(* thread_exit.                                                            *)
Finish ==
  /\ \/ Line("done") /\ done' = done + 1 /\ GoOn("exit") /\ UNCHANGED allvars
     \/ Line("exit") /\ MonitorExit /\ UNCHANGED <<local, done>>
  /\ UNCHANGED <<test, created, nr_sleeping, potato, potato_lock, testval, spun, busy>>

ProgramStep ==
  \/ Prepare \/ CreateThread \/ MainSteps \/ WakeUp \/ Killing \/ Destroy \/ Return
  \/ InterruptsOff \/ SleepTested \/ Slept
  \/ Acquire \/ WriteAndYield \/ Release \/ WhileNotMine \/ PassTurn \/ Notify
  \/ MovePotato \/ Scramble \/ Finish

(* thread_create follows NULL when its thread has come to its end and was  *)
(* freed before the last line of thread_create.                            *)
CreateFails == CreateFault /\ UNCHANGED mvars
LibraryStep ==
  (ThreadStep \/ CallStep \/ MonitorKill \/ CreateFails) /\ UNCHANGED test_vars
TestEnded == MonitorEnded /\ UNCHANGED test_vars

TestNext == ProgramStep \/ LibraryStep \/ TestEnded
TestSpec == TestInit /\ [][TestNext]_testing

(* As for Monitor; and a thread that keeps getting the processor gets on   *)
(* with its program: a tick of the timer is long.                          *)
UnmaskedStep == (CreateReturn /\ UNCHANGED mvars) \/ CreateFails \/ MonitorKill
TestFairness ==
  /\ WF_testing(LibraryStep)
  /\ SF_testing(Preempt /\ UNCHANGED <<mvars, test_vars>>)
  /\ \A t \in Tid :
       SF_testing(curr_running = t
                    /\ (ProgramStep \/ (UnmaskedStep /\ UNCHANGED test_vars)))
TestFairSpec == TestSpec /\ TestFairness
-----------------------------------------------------------------------------
(* The assertions of the tests hold.  thread_create and thread_kill are    *)
(* called with interrupts on: no victim is gone when thread_kill acts, and *)
(* no new thread when thread_create returns, as long as threads cannot end *)
(* without the main thread (test_lock's and the cv tests' can).  Then:     *)
(* interrupts_enabled around every call; the results of thread_yield,      *)
(* thread_sleep and thread_wakeup; what is left at the end; no other       *)
(* thread in the critical section, and one hot potato.                     *)
AssertionsHold ==
  outcome = "live" =>
    /\ here.at = "kill_chk" => thread_index[here.arg] # "NULL"
    /\ here.at = "create_ret" /\ (Sleeping \/ test = "potato") =>
         thread_index[here.arg] # "NULL"
    /\ InCall("none") /\ me.line \notin {"sleep", "slept"} => enabled
    /\ Line("sleep") \/ Line("write1") \/ Line("write2") \/ Line("moved") => ~NoneReady
    /\ Line("wakeup") => Len(queue[queue_tested]) >= IF all THEN NTHREADS ELSE 1
    /\ Line("poll") /\ done = NTHREADS => nr_sleeping = 0
    /\ Line("release") /\ test = "lock" => testval = <<num, num, num>>
    /\ Line("passed") => potato[num] = 0 /\ potato[next_num] = 1
    /\ Line("unlock") => potato_lock = 1

(* Nobody comes back from thread_sleep or cv_wait before somebody has spun *)
(* for 5 ms: no test prints "You must be busy looping".                    *)
NoneTooFast == busy = {}

(* Every test comes to its end, unless a thread_create fails.              *)
TestsEnd == <>(outcome \in {"exit", "create_null"})
=============================================================================
