------------------------------ MODULE Threads ------------------------------
(***************************************************************************)
(* The preemptive user-level threads of threads/thread.c (labs 2 and 3)    *)
(* and the timer interrupt of threads/interrupt.c.  One processor runs     *)
(* thread curr_running; a context switch is a getcontext that returns      *)
(* twice, told apart by setcontext_called; SIGALRM preempts a thread       *)
(* wherever it left interrupts enabled.                                    *)
(*                                                                         *)
(* The program above the library is any sequence of calls; the constants   *)
(* say which calls it may make.                                            *)
(***************************************************************************)
EXTENDS Integers, Sequences, Functions

CONSTANTS
  MaxThreads,   \* THREAD_MAX_THREADS
  Queues,       \* the wait queues the program creates
  Preemptive,   \* register_interrupt_handler was called
  Masks,        \* the program calls interrupts_on and interrupts_off
  Unmasked,     \* calls made with interrupts enabled: "id", "create", "kill"
  YieldTo,      \* thread_yield's argument: "any", or the target's status
  KillOf,       \* status of the threads it kills, or "main" for thread 0
  ExitBy,       \* who calls thread_exit: "main", "other"
  DestroyOf     \* wait_queue_destroy of an "empty" queue or one with "waiting"

ASSUME ThreadsAssumption ==
  /\ MaxThreads \in Nat \ {0}
  /\ Preemptive \in BOOLEAN /\ Masks \in BOOLEAN
  /\ Unmasked \subseteq {"id", "create", "kill"}
  /\ YieldTo \subseteq {"any", "ready", "sleep", "killed"}
  /\ KillOf \subseteq {"ready", "sleep", "killed", "main"}
  /\ ExitBy \subseteq {"main", "other"}
  /\ DestroyOf \subseteq {"empty", "waiting"}

(* The programs that keep clear of what the library does not check:        *)
(* interrupts are off around thread_id, thread_create and thread_kill, no  *)
(* sleeping or exited thread is named to thread_yield, no sleeping one     *)
(* killed, thread 0 neither exits nor is killed, only empty queues are     *)
(* destroyed.                                                              *)
Disciplined ==
  /\ YieldTo \subseteq {"any", "ready"}
  /\ KillOf \subseteq {"ready", "killed"}
  /\ ExitBy \subseteq {"other"}
  /\ DestroyOf \subseteq {"empty"}
  /\ Preemptive => Unmasked = {}

VARIABLES
  thread_index,      \* status of every slot of the thread table
  curr_running,
  setcontext_called,
  queue,             \* thread ids of a wait queue's nodes, first to last
  made,              \* wait queues created and not destroyed
  enabled,           \* is SIGALRM unblocked?
  next,              \* ready_thread / want_tid of the switch in progress
  stack,             \* what each thread keeps on its stack
  outcome            \* "live", or how the process ended

vars == <<thread_index, curr_running, setcontext_called, queue, made,
          enabled, next, stack, outcome>>

Tid == 0 .. MaxThreads - 1
NoTid == -1

Status == {"NULL", "running", "ready", "sleep", "killed"}
Outcome == {"live", "exit", "id_null", "create_null", "kill_null", "free_main",
            "yield_null", "wakeup_null", "wakes_dead", "sleep_assert",
            "stale_context"}

(* Where a thread is: not there, at the entry of thread_stub, in the       *)
(* program's own code, between the two reads of a slot in thread_id,       *)
(* before the last line of thread_create, between the checks and the       *)
(* effect of thread_kill, and at the getcontext of thread_yield and of     *)
(* thread_sleep.                                                           *)
At ==
  {"none", "stub", "user", "id_chk", "create_ret", "kill_chk", "yield", "sleep"}

(* arg: i of thread_id, new_place of thread_create, tid of thread_kill.    *)
(* back and interrupts_status: where the call in progress returns to, and  *)
(* the mask it restores.  wants: the mask the thread's own code last asked *)
(* for.                                                                    *)
Frame == [at : At, back : At, interrupts_status : BOOLEAN,
          arg : Tid \cup {NoTid}, wants : BOOLEAN]
Fresh(at) == [at |-> at, back |-> "none", interrupts_status |-> FALSE,
              arg |-> NoTid, wants |-> TRUE]

here == stack[curr_running]

-----------------------------------------------------------------------------
(* The table's helpers.                                                    *)

tid_generator(t) ==
  thread_index[t] = "NULL" /\ \A u \in Tid : thread_index[u] = "NULL" => t <= u

(* How many slots find_ready looks at before t's, starting after the       *)
(* caller's and wrapping around: the caller's own comes last.              *)
scan_from_zero(t) == t
scan(t) == IF t > curr_running THEN t - curr_running - 1
           ELSE t - curr_running - 1 + MaxThreads

find_not_gone(t) ==
  /\ thread_index[t] \in {"ready", "sleep"}
  /\ \A u \in Tid : thread_index[u] \in {"ready", "sleep"} => scan(t) <= scan(u)
find_ready(t) ==
  /\ thread_index[t] = "ready"
  /\ \A u \in Tid : thread_index[u] = "ready" => scan(t) <= scan(u)

NoneReady == \A t \in Tid : thread_index[t] # "ready"

free_killed == [t \in Tid |-> IF thread_index[t] = "killed" THEN "NULL"
                              ELSE thread_index[t]]

flag_kept(t) == setcontext_called
flag_cleared(t) == [setcontext_called EXCEPT ![t] = FALSE]

-----------------------------------------------------------------------------
Init ==                                                     \* thread_init
  /\ thread_index = [t \in Tid |-> IF t = 0 THEN "running" ELSE "NULL"]
  /\ curr_running = 0
  /\ setcontext_called = [t \in Tid |-> FALSE]
  /\ queue = [q \in Queues |-> <<>>]
  /\ made = {}
  /\ enabled = TRUE
  /\ next = NoTid
  /\ stack = [t \in Tid |-> Fresh(IF t = 0 THEN "user" ELSE "none")]
  /\ outcome = "live"

Running(at) == outcome = "live" /\ here.at = at

(* The process ends: a fault, an assertion or exit().                      *)
Stop(how) ==
  /\ outcome' = how
  /\ UNCHANGED <<thread_index, curr_running, setcontext_called, queue, made,
                 enabled, next, stack>>

(* The first half of a switch: interrupts off, the mask remembered, the    *)
(* thread to run chosen, the caller at its getcontext.                     *)
Suspend(at, back, mask, t) ==
  /\ stack' = [stack EXCEPT ![curr_running] =
                 [@ EXCEPT !.at = at, !.back = back, !.interrupts_status = mask]]
  /\ enabled' = FALSE
  /\ next' = t

(* setcontext: t's context was saved with SIGALRM blocked.                 *)
Switch(t) ==
  /\ curr_running' = t
  /\ enabled' = FALSE
  /\ next' = NoTid

(* The end of thread_yield and thread_sleep when getcontext returns again. *)
mask_always_on == TRUE
saved_mask == here.interrupts_status
Resume ==
  /\ setcontext_called' = flag_cleared(curr_running)
  /\ enabled' = saved_mask
  /\ stack' = [stack EXCEPT ![curr_running] =
                 [@ EXCEPT !.at = here.back, !.back = "none",
                           !.interrupts_status = FALSE]]
  /\ next' = NoTid
  /\ UNCHANGED <<curr_running, queue, made, outcome>>

-----------------------------------------------------------------------------
(* A program that cannot stand a preemption inside f masks interrupts      *)
(* around its call.                                                        *)
MayCall(f) == Preemptive /\ enabled => f \in Unmasked

(* thread_id tests a slot for NULL and then reads its status, for each     *)
(* slot up to the first that says running.  It changes nothing, so that a  *)
(* preemption between two slots is one of the program's own code.          *)
ThreadIdCheck ==
  /\ Running("user") /\ MayCall("id")
  /\ \E i \in Tid :
       /\ \A t \in Tid : t < i => thread_index[t] # "running"
       /\ thread_index[i] # "NULL"
       /\ stack' = [stack EXCEPT ![curr_running] =
                      [@ EXCEPT !.at = "id_chk", !.arg = i]]
  /\ UNCHANGED <<thread_index, curr_running, setcontext_called, queue, made,
                 enabled, next, outcome>>

ThreadIdRead ==
  /\ Running("id_chk")
  /\ thread_index[here.arg] # "NULL"
  /\ stack' = [stack EXCEPT ![curr_running] =
                 [@ EXCEPT !.at = "user", !.arg = NoTid]]
  /\ UNCHANGED <<thread_index, curr_running, setcontext_called, queue, made,
                 enabled, next, outcome>>

ThreadIdFault ==
  /\ Running("id_chk")
  /\ thread_index[here.arg] = "NULL"
  /\ Stop("id_null")

-----------------------------------------------------------------------------
(* thread_stub and thread_create.                                          *)

Stub ==
  /\ Running("stub")
  /\ enabled' = TRUE
  /\ stack' = [stack EXCEPT ![curr_running].at = "user"]
  /\ UNCHANGED <<thread_index, curr_running, setcontext_called, queue, made,
                 next, outcome>>

Create ==
  /\ Running("user") /\ MayCall("create")
  /\ \E n \in Tid :
       /\ tid_generator(n)
       /\ thread_index' = [thread_index EXCEPT ![n] = "ready"]
       /\ setcontext_called' = flag_cleared(n)
       /\ stack' = [stack EXCEPT ![n] = Fresh("stub"),
                                 ![curr_running] =
                    [@ EXCEPT !.at = "create_ret", !.arg = n]]
  /\ UNCHANGED <<curr_running, queue, made, enabled, next, outcome>>

(* return thread_index[new_place]->threadid, interrupts already restored.  *)
CreateReturn ==
  /\ Running("create_ret")
  /\ thread_index[here.arg] # "NULL"
  /\ stack' = [stack EXCEPT ![curr_running] =
                 [@ EXCEPT !.at = "user", !.arg = NoTid]]
  /\ UNCHANGED <<thread_index, curr_running, setcontext_called, queue, made,
                 enabled, next, outcome>>

CreateFault ==
  /\ Running("create_ret")
  /\ thread_index[here.arg] = "NULL"
  /\ Stop("create_null")

-----------------------------------------------------------------------------
(* thread_yield.  A call that fails changes nothing and is a stutter.      *)

YieldStart(back, t, mask) ==
  /\ Suspend("yield", back, mask, t)
  /\ UNCHANGED <<thread_index, curr_running, setcontext_called, queue, made,
                 outcome>>

YieldAny ==
  /\ Running("user") /\ "any" \in YieldTo
  /\ \E t \in Tid : find_ready(t) /\ YieldStart("user", t, enabled)

YieldTid ==
  /\ Running("user")
  /\ \E t \in Tid \ {curr_running} :
       thread_index[t] \in YieldTo /\ YieldStart("user", t, enabled)

(* interrupt_handler: thread_yield(THREAD_ANY) wherever SIGALRM is         *)
(* unblocked; the return from the handler unblocks it again.               *)
Preempt ==
  /\ Preemptive /\ enabled
  /\ outcome = "live" /\ here.at \in {"user", "id_chk", "create_ret", "kill_chk"}
  /\ \E t \in Tid : find_ready(t) /\ YieldStart(here.at, t, TRUE)

(* free(&dummy): thread 0's block is static.                               *)
YieldFreesMain ==
  /\ Running("yield")
  /\ thread_index[0] = "killed"
  /\ Stop("free_main")

(* thread_index[want_tid] was killed, and free_killed has just freed it.   *)
YieldFault ==
  /\ Running("yield") /\ ~setcontext_called[curr_running]
  /\ thread_index[0] # "killed"
  /\ thread_index[next] = "killed"
  /\ Stop("yield_null")

not_requeued == free_killed
requeued == [free_killed EXCEPT ![curr_running] = "ready"]

YieldSwitch ==
  /\ Running("yield") /\ ~setcontext_called[curr_running]
  /\ thread_index[0] # "killed"
  /\ thread_index[next] # "killed"
  /\ setcontext_called' = [setcontext_called EXCEPT ![curr_running] = TRUE]
  /\ thread_index' = [requeued EXCEPT ![next] = "running"]
  /\ Switch(next)
  /\ UNCHANGED <<queue, made, stack, outcome>>

YieldReturn ==
  /\ Running("yield") /\ setcontext_called[curr_running]
  /\ thread_index[0] # "killed"
  /\ thread_index' = free_killed
  /\ Resume

-----------------------------------------------------------------------------
(* thread_exit and thread_kill.                                            *)

exiting == IF curr_running = 0 THEN "main" ELSE "other"

(* Without a ready thread the call returns THREAD_NONE and changes         *)
(* nothing; thread_stub then ends the process.                             *)
ThreadExit ==
  /\ Running("user") /\ exiting \in ExitBy
  /\ \E t \in Tid \ {curr_running} :
       /\ find_ready(t)
       /\ thread_index' = [thread_index EXCEPT ![curr_running] = "killed",
                                               ![t] = "running"]
       /\ Switch(t)
  /\ stack' = [stack EXCEPT ![curr_running] = Fresh("none")]
  /\ UNCHANGED <<setcontext_called, queue, made, outcome>>

StubExit ==
  /\ Running("user") /\ curr_running # 0 /\ "other" \in ExitBy
  /\ NoneReady
  /\ Stop("exit")

(* A late wakeup made the caller itself ready, and first in line: it would *)
(* jump to the context of a call that has already returned.                *)
ExitFault ==
  /\ Running("user") /\ exiting \in ExitBy
  /\ find_ready(curr_running)
  /\ Stop("stale_context")

kill_any(t) == thread_index[t] # "NULL"
killable(t) == thread_index[t] # "NULL" /\ t # curr_running

(* The checks, before interrupts are turned off.                           *)
KillCheck ==
  /\ Running("user") /\ MayCall("kill")
  /\ \E t \in Tid :
       /\ killable(t)
       /\ (IF t = 0 THEN "main" ELSE thread_index[t]) \in KillOf
       /\ stack' = [stack EXCEPT ![curr_running] =
                      [@ EXCEPT !.at = "kill_chk", !.arg = t]]
  /\ UNCHANGED <<thread_index, curr_running, setcontext_called, queue, made,
                 enabled, next, outcome>>

Kill ==
  /\ Running("kill_chk")
  /\ here.arg # 0 /\ thread_index[here.arg] # "NULL"
  /\ thread_index' = [thread_index EXCEPT ![here.arg] = "NULL"]
  /\ stack' = [stack EXCEPT ![here.arg] = Fresh("none"),
                            ![curr_running] =
                 [@ EXCEPT !.at = "user", !.arg = NoTid]]
  /\ UNCHANGED <<curr_running, setcontext_called, queue, made, enabled, next,
                 outcome>>

KillFault ==
  /\ Running("kill_chk")
  /\ \/ here.arg = 0 /\ Stop("free_main")
     \/ here.arg # 0 /\ thread_index[here.arg] = "NULL" /\ Stop("kill_null")

-----------------------------------------------------------------------------
(* Wait queues, thread_sleep and thread_wakeup.                            *)

WaitQueueCreate ==
  /\ Running("user")
  /\ \E q \in Queues \ made : made' = made \cup {q}
  /\ UNCHANGED <<thread_index, curr_running, setcontext_called, queue, enabled,
                 next, stack, outcome>>

WaitQueueDestroy ==
  /\ Running("user")
  /\ \E q \in made :
       /\ (IF queue[q] = <<>> THEN "empty" ELSE "waiting") \in DestroyOf
       /\ made' = made \ {q}
       /\ queue' = [queue EXCEPT ![q] = <<>>]
  /\ UNCHANGED <<thread_index, curr_running, setcontext_called, enabled, next,
                 stack, outcome>>

push_front(q, t) == [queue EXCEPT ![q] = <<t>> \o @]
push_unset(q, t) == [queue EXCEPT ![q] = Append(@, next)]
push_ele(q, t) == [queue EXCEPT ![q] = Append(@, t)]

(* Everything thread_sleep does up to its getcontext, when a thread other  *)
(* than the caller is ready (with none it returns THREAD_NONE).            *)
SleepOn(q, back) ==
  /\ \E t \in Tid \ {curr_running} :
       find_ready(t) /\ Suspend("sleep", back, enabled, t)
  /\ thread_index' = [thread_index EXCEPT ![curr_running] = "sleep"]
  /\ queue' = push_ele(q, curr_running)
  /\ UNCHANGED <<curr_running, setcontext_called, made, outcome>>

Sleep == Running("user") /\ \E q \in made : SleepOn(q, "user")

(* assert(curr_running != any_ready_thread)                                *)
SleepFault ==
  /\ Running("user") /\ made # {}
  /\ find_ready(curr_running)
  /\ Stop("sleep_assert")

SleepSwitch ==
  /\ Running("sleep") /\ ~setcontext_called[curr_running]
  /\ setcontext_called' = [setcontext_called EXCEPT ![curr_running] = TRUE]
  /\ thread_index' = [thread_index EXCEPT ![next] = "running"]
  /\ Switch(next)
  /\ UNCHANGED <<queue, made, stack, outcome>>

SleepReturn ==
  /\ Running("sleep") /\ setcontext_called[curr_running]
  /\ Resume
  /\ UNCHANGED thread_index

popped(q, all) == IF all THEN Range(queue[q]) ELSE {Head(queue[q])}

left_first(q, all) == IF all THEN <<>> ELSE queue[q]
left_rest(q, all) == Tail(queue[q])
left(q, all) == IF all THEN <<>> ELSE Tail(queue[q])

WakeOn(q, all) ==
  /\ queue[q] # <<>>
  /\ \A t \in popped(q, all) : thread_index[t] \notin {"NULL", "killed"}
  /\ thread_index' = [t \in Tid |-> IF t \in popped(q, all) THEN "ready"
                                    ELSE thread_index[t]]
  /\ queue' = [queue EXCEPT ![q] = left(q, all)]
  /\ UNCHANGED <<curr_running, setcontext_called, made, enabled, next, stack,
                 outcome>>

Wakeup == Running("user") /\ \E q \in made, all \in BOOLEAN : WakeOn(q, all)

(* A node outlived its thread: its slot is empty, or holds a thread that   *)
(* exited, which would be put in the ready queue.                          *)
WakeupFault ==
  /\ Running("user")
  /\ \E q \in made, all \in BOOLEAN :
       /\ queue[q] # <<>>
       /\ \E t \in popped(q, all) :
            \/ thread_index[t] = "NULL" /\ Stop("wakeup_null")
            \/ thread_index[t] = "killed" /\ Stop("wakes_dead")

-----------------------------------------------------------------------------
InterruptsSet ==
  /\ Masks /\ Running("user")
  /\ enabled' = ~enabled
  /\ stack' = [stack EXCEPT ![curr_running].wants = ~enabled]
  /\ UNCHANGED <<thread_index, curr_running, setcontext_called, queue, made,
                 next, outcome>>

Ended == outcome # "live" /\ UNCHANGED vars

(* The library's own steps, in which no program code runs.                 *)
Library ==
  \/ Stub \/ ThreadIdRead \/ CreateReturn \/ Kill
  \/ YieldSwitch \/ YieldReturn \/ SleepSwitch \/ SleepReturn
Fault ==
  \/ ThreadIdFault \/ CreateFault \/ KillFault \/ YieldFreesMain \/ YieldFault
  \/ SleepFault \/ WakeupFault \/ ExitFault
Program ==
  \/ ThreadIdCheck \/ Create \/ YieldAny \/ YieldTid \/ ThreadExit \/ StubExit
  \/ KillCheck
  \/ WaitQueueCreate \/ WaitQueueDestroy \/ Sleep \/ Wakeup \/ InterruptsSet

Next == Program \/ Preempt \/ Library \/ Fault \/ Ended
Spec == Init /\ [][Next]_vars
-----------------------------------------------------------------------------
(* Every variable stays in its range.                                      *)
TypeOK ==
  /\ thread_index \in [Tid -> Status]
  /\ curr_running \in Tid
  /\ setcontext_called \in [Tid -> BOOLEAN]
  /\ queue \in [Queues -> Seq(Tid)]
  /\ made \subseteq Queues
  /\ enabled \in BOOLEAN
  /\ next \in Tid \cup {NoTid}
  /\ stack \in [Tid -> Frame]
  /\ outcome \in Outcome

(* A saved context resumes where it was saved: when a thread that is not   *)
(* running gets the processor, its getcontext returns a second time and    *)
(* finds the flag set, and a new thread (even one in the slot of a thread  *)
(* that was killed while switched out) first finds it clear, as does the   *)
(* running thread at its next switch.  Holds for every program.            *)
ContextFlag ==
  outcome = "live" =>
    /\ \A t \in Tid \ {curr_running} :
         thread_index[t] \in {"ready", "sleep"} =>
           \/ stack[t].at = "stub" /\ ~setcontext_called[t]
           \/ stack[t].at \in {"yield", "sleep"} /\ setcontext_called[t]
    /\ here.at \notin {"yield", "sleep"} => ~setcontext_called[curr_running]

(* The stack the processor is on is never freed, and no slot but the       *)
(* caller's says running: free_killed, thread_kill, exits and late wakeups *)
(* never take the running thread's slot.  Holds for every program.         *)
RunningAllocated ==
  outcome = "live" =>
    /\ here.at # "none"
    /\ thread_index[curr_running] \notin {"NULL", "killed"}
    /\ \A t \in Tid \ {curr_running} : thread_index[t] # "running"

(* thread_id(), which looks for a slot that says running, names the        *)
(* caller whenever program code runs.                                      *)
ThreadIdIsCaller ==
  outcome = "live" /\ here.at \notin {"yield", "sleep"} =>
    \A t \in Tid : thread_index[t] = "running" <=> t = curr_running

(* Every sleeping thread is in exactly one node of one wait queue, so that *)
(* some thread_wakeup can find it; every node's thread is asleep.          *)
QueuesHoldSleepers ==
  outcome = "live" =>
    /\ \A q \in Queues : \A i \in 1 .. Len(queue[q]) :
         thread_index[queue[q][i]] = "sleep"
    /\ \A t \in Tid : thread_index[t] = "sleep" =>
         \E q \in made : \E i \in 1 .. Len(queue[q]) : queue[q][i] = t
    /\ \A p, q \in Queues :
         \A i \in 1 .. Len(queue[p]), j \in 1 .. Len(queue[q]) :
           queue[p][i] = queue[q][j] => p = q /\ i = j

(* However often a thread is switched out, preempted or woken, program     *)
(* code runs with the interrupts its own thread asked for: every call      *)
(* returns with the mask it was made with (test_thread.c asserts           *)
(* interrupts_enabled() around every call).                                *)
MaskPreserved ==
  outcome = "live" /\ here.at \in {"user", "id_chk", "create_ret", "kill_chk"} =>
    enabled = here.wants

(* No call of a disciplined program reaches a NULL slot, a dead thread,    *)
(* free(&dummy) or a failed assertion.                                     *)
NoFault == outcome \in {"live", "exit"}

(* Round robin: a switch never passes over a ready thread.  Each change of *)
(* curr_running brings the scan closer to every thread left ready, so      *)
(* between two turns of a ready thread every other thread runs at most     *)
(* once.                                                                   *)
NotPassedOver ==
  [][\A t \in Tid :
       curr_running' # curr_running /\ t # curr_running
         /\ thread_index[t] = "ready" /\ thread_index'[t] = "ready"
       => scan(t)' < scan(t)]_vars

(* A ready thread gets the processor, or is killed: preemption alone sees  *)
(* to it, whatever the other threads do.                                   *)
NoStarvation ==
  \A t \in Tid : thread_index[t] = "ready" ~> thread_index[t] # "ready"

(* The scheduler thread.h describes.  A thread that has exited is gone,    *)
(* though its slot is freed later; one that is about to switch still runs. *)
Seen(status) == IF status = "sleep" THEN "blocked"
                ELSE IF status = "ready" THEN "ready" ELSE "none"
SchedulerState ==
  [t \in Tid |-> IF t = curr_running THEN "running" ELSE Seen(thread_index[t])]
Sched == INSTANCE Scheduler
           WITH Main <- 0, state <- SchedulerState, current <- curr_running
ImplementsScheduler == Sched!Spec
=============================================================================
