------------------------------ MODULE Monitor ------------------------------
(***************************************************************************)
(* The locks and condition variables of threads/thread.c (lab 3), built on *)
(* Threads: every step of a lock call is a step of the thread library or   *)
(* leaves it alone, so MonitorSpec implements Spec.  A lock or condition   *)
(* variable is named by its wait queue.  What goes wrong in the library    *)
(* under a program that is not Disciplined is in Threads, not here;        *)
(* thread_id, which a disciplined program calls with interrupts off, then  *)
(* changes nothing and has no step here.                                   *)
(*                                                                         *)
(* lock_release, cv_signal and cv_broadcast never give up the processor    *)
(* and run with SIGALRM blocked from their first line to their last: each  *)
(* is one step, after which the mask is what it was.                       *)
(***************************************************************************)
EXTENDS Threads

CONSTANTS
  Locks, CVs,
  Misuses   \* what the program does against thread.h: "relock" a lock it
            \* holds, "release_other"'s lock, "destroy_locked" locks,
            \* "die_holding" a lock

ASSUME MonitorAssumption ==
  /\ Locks \cup CVs \subseteq Queues /\ Locks \cap CVs = {}
  /\ Masks
  /\ Misuses \subseteq {"relock", "release_other", "destroy_locked", "die_holding"}

VARIABLES
  lockstatus, locked_tid,   \* the fields of struct lock
  call,                     \* the lock_acquire or cv_wait each thread is in
  holds                     \* locks each thread has acquired and not released

mvars == <<lockstatus, locked_tid, call, holds>>
allvars == <<vars, mvars>>

(* pc: outside any call; at the while test of lock_acquire, past it, at    *)
(* the end of the outermost call; at cv_wait's lock_release and at its     *)
(* thread_sleep.  mask: the interrupts_status of the outermost call.       *)
NoQueue == "no queue"
Call == [pc : {"none", "test", "take", "leave", "cv_release", "cv_sleep"},
         lock : Locks \cup {NoQueue}, cv : CVs \cup {NoQueue}, mask : BOOLEAN]
NoCall == [pc |-> "none", lock |-> NoQueue, cv |-> NoQueue, mask |-> FALSE]

mine == call[curr_running]
InCall(pc) == Running("user") /\ mine.pc = pc
Goto(pc) == call' = [call EXCEPT ![curr_running].pc = pc]

MonitorInit ==
  /\ Init
  /\ lockstatus = [l \in Locks |-> "FREE"]
  /\ locked_tid = [l \in Locks |-> NoTid]
  /\ call = [t \in Tid |-> NoCall]
  /\ holds = [t \in Tid |-> {}]

-----------------------------------------------------------------------------
(* interrupts_set inside a call.                                           *)
SetInterrupts(on) == IF enabled = on THEN UNCHANGED vars ELSE InterruptsSet

(* thread_sleep inside a call: it returns at once when no thread is ready. *)
SleepIn(q) == IF NoneReady THEN UNCHANGED vars ELSE SleepOn(q, "user")

(* thread_wakeup inside a call.                                            *)
WakeupIn(q, all) == IF queue[q] = <<>> THEN UNCHANGED vars ELSE WakeOn(q, all)

(* The first line of lock_acquire and cv_wait.                             *)
entry_unmasked == enabled
entry_mask == FALSE
Enter(pc, l, c) ==
  /\ InCall("none")
  /\ SetInterrupts(entry_mask)
  /\ call' = [call EXCEPT ![curr_running] =
                [pc |-> pc, lock |-> l, cv |-> c, mask |-> enabled]]
  /\ UNCHANGED <<lockstatus, locked_tid, holds>>

(* interrupts_set(interrupts_status) and the return to the program.        *)
Leave ==
  /\ InCall("leave")
  /\ SetInterrupts(mine.mask)
  /\ call' = [call EXCEPT ![curr_running] = NoCall]
  /\ UNCHANGED <<lockstatus, locked_tid, holds>>

-----------------------------------------------------------------------------
LockAcquire ==
  \E l \in Locks \cap made :
    /\ l \in holds[curr_running] => "relock" \in Misuses
    /\ Enter("test", l, NoQueue)

(* With no ready thread, thread_sleep returns at once and the loop spins,  *)
(* interrupts off.                                                         *)
AcquireSleep ==
  /\ InCall("test") /\ lockstatus[mine.lock] = "LOCKED"
  /\ SleepIn(mine.lock)
  /\ UNCHANGED mvars

AcquireFree ==
  /\ InCall("test") /\ lockstatus[mine.lock] # "LOCKED"
  /\ Goto("take")
  /\ UNCHANGED <<vars, lockstatus, locked_tid, holds>>

AcquireTake ==
  /\ InCall("take")
  /\ lockstatus' = [lockstatus EXCEPT ![mine.lock] = "LOCKED"]
  /\ locked_tid' = [locked_tid EXCEPT ![mine.lock] = curr_running]
  /\ holds' = [holds EXCEPT ![curr_running] = @ \cup {mine.lock}]
  /\ Goto("leave")
  /\ UNCHANGED vars

wakes_one(l) == WakeupIn(l, FALSE)
wakes_none(l) == UNCHANGED vars
wakes_all(l) == WakeupIn(l, TRUE)

(* The body of lock_release.                                               *)
Free(l) ==
  /\ lockstatus' = [lockstatus EXCEPT ![l] = "FREE"]
  /\ locked_tid' = [locked_tid EXCEPT ![l] = NoTid]
  /\ holds' = [holds EXCEPT ![curr_running] = @ \ {l}]
  /\ wakes_all(l)

LockRelease ==
  /\ InCall("none")
  /\ \E l \in Locks \cap made :
       /\ l \notin holds[curr_running] => "release_other" \in Misuses
       /\ Free(l)
  /\ UNCHANGED call

-----------------------------------------------------------------------------
any_locked(l) == lockstatus[l] = "LOCKED"
owns(l) == lockstatus[l] = "LOCKED" /\ locked_tid[l] = curr_running

(* A cv_wait, cv_signal or cv_broadcast by a thread that does not own the  *)
(* lock changes nothing.                                                   *)
CvWait ==
  \E c \in CVs \cap made, l \in Locks \cap made :
    owns(l) /\ Enter("cv_release", l, c)

keeps_lock == UNCHANGED <<vars, lockstatus, locked_tid, holds>>
gives_lock_up == Free(mine.lock)

CvRelease ==
  /\ InCall("cv_release")
  /\ gives_lock_up
  /\ Goto("cv_sleep")

CvSleep ==
  /\ InCall("cv_sleep")
  /\ SleepIn(mine.cv)
  /\ Goto("test")
  /\ UNCHANGED <<lockstatus, locked_tid, holds>>

CvNotify(all) ==
  /\ InCall("none")
  /\ \E c \in CVs \cap made, l \in Locks \cap made : owns(l) /\ WakeupIn(c, all)
  /\ UNCHANGED mvars
CvSignal == CvNotify(FALSE)
CvBroadcast == CvNotify(TRUE)

-----------------------------------------------------------------------------
(* Creating and destroying locks and condition variables.  A program may   *)
(* not destroy one that a call in progress uses.                           *)

uninitialised == MaxThreads      \* what malloc may have left there
initial_tid == NoTid

LockCreate ==
  /\ InCall("none") /\ WaitQueueCreate
  /\ \E l \in Locks \ made :
       /\ made' = made \cup {l}
       /\ lockstatus' = [lockstatus EXCEPT ![l] = "FREE"]
       /\ locked_tid' = [locked_tid EXCEPT ![l] = initial_tid]
  /\ UNCHANGED <<call, holds>>

LockDestroy ==
  /\ InCall("none") /\ WaitQueueDestroy
  /\ \E l \in Locks \cap made :
       /\ made' = made \ {l}
       /\ \A t \in Tid : call[t].lock # l
       /\ lockstatus[l] = "LOCKED" => "destroy_locked" \in Misuses
  /\ UNCHANGED mvars

CvCreate ==
  /\ InCall("none") /\ WaitQueueCreate
  /\ \E c \in CVs \ made : made' = made \cup {c}
  /\ UNCHANGED mvars

CvDestroy ==
  /\ InCall("none") /\ WaitQueueDestroy
  /\ \E c \in CVs \cap made : made' = made \ {c}
  /\ UNCHANGED mvars

-----------------------------------------------------------------------------
(* The rest of the library, which the program uses outside lock calls.     *)

MayDie(t) == holds[t] # {} => "die_holding" \in Misuses

MonitorKillCheck ==
  /\ InCall("none") /\ KillCheck
  /\ MayDie(stack'[curr_running].arg)
  /\ UNCHANGED mvars

(* The victim's stack goes, with the call it was in; its locks stay.       *)
MonitorKill ==
  /\ Kill
  /\ call' = [call EXCEPT ![here.arg] = NoCall]
  /\ holds' = [holds EXCEPT ![here.arg] = {}]
  /\ UNCHANGED <<lockstatus, locked_tid>>

MonitorExit ==
  /\ InCall("none") /\ MayDie(curr_running)
  /\ ThreadExit
  /\ holds' = [holds EXCEPT ![curr_running] = {}]
  /\ UNCHANGED <<lockstatus, locked_tid, call>>

Plain == Queues \ (Locks \cup CVs)
MonitorSleep == \E q \in Plain \cap made : SleepOn(q, "user")
MonitorWakeup == \E q \in Plain \cap made, all \in BOOLEAN : WakeOn(q, all)
PlainCreate == WaitQueueCreate /\ \E q \in Plain : made' = made \cup {q}
PlainDestroy == WaitQueueDestroy /\ \E q \in Plain : made' = made \ {q}

ThreadCall ==
  /\ InCall("none")
  /\ \/ Create \/ YieldAny \/ YieldTid \/ StubExit \/ InterruptsSet
     \/ MonitorSleep \/ MonitorWakeup \/ PlainCreate \/ PlainDestroy
  /\ UNCHANGED mvars

ThreadStep ==
  /\ \/ Preempt \/ Stub \/ CreateReturn
     \/ YieldSwitch \/ YieldReturn \/ SleepSwitch \/ SleepReturn
  /\ UNCHANGED mvars

MonitorEnded == Ended /\ UNCHANGED mvars

(* The steps of a call in progress.                                        *)
CallStep ==
  AcquireSleep \/ AcquireFree \/ AcquireTake \/ CvRelease \/ CvSleep \/ Leave

MonitorNext ==
  \/ LockAcquire \/ LockRelease \/ CvWait \/ CvSignal \/ CvBroadcast
  \/ LockCreate \/ LockDestroy \/ CvCreate \/ CvDestroy
  \/ MonitorKillCheck \/ MonitorKill \/ MonitorExit
  \/ ThreadCall \/ ThreadStep \/ CallStep \/ MonitorEnded

MonitorSpec == MonitorInit /\ [][MonitorNext]_allvars

(* The processor keeps running the library's code; the timer is re-armed   *)
(* on every tick and stays pending while it is masked, so it cannot be     *)
(* outrun; a program that masks interrupts unmasks them again; and a       *)
(* thread that is inside a lock leaves it, if it keeps getting to run.     *)
MonitorFairness ==
  /\ WF_allvars(ThreadStep \/ MonitorKill \/ CallStep)
  /\ SF_allvars(Preempt /\ UNCHANGED mvars)
  /\ SF_allvars(InCall("none") /\ InterruptsSet /\ ~enabled /\ UNCHANGED mvars)
  /\ \A t \in Tid : SF_allvars(curr_running = t /\ holds[t] # {} /\ LockRelease)
MonitorFairSpec == MonitorSpec /\ MonitorFairness
-----------------------------------------------------------------------------
MonitorTypeOK ==
  /\ lockstatus \in [Locks -> {"LOCKED", "FREE"}]
  /\ locked_tid \in [Locks -> Tid \cup {NoTid}]
  /\ call \in [Tid -> Call]
  /\ holds \in [Tid -> SUBSET Locks]

(* One thread at a time is between its lock_acquire and its lock_release,  *)
(* though the while test and the assignment of lock_acquire are apart and  *)
(* the timer may strike wherever a call leaves interrupts on.              *)
MutualExclusion ==
  \A t, u \in Tid : holds[t] \cap holds[u] # {} => t = u

(* A thread that holds a lock is the one the lock records, so that its own *)
(* cv_wait, cv_signal and cv_broadcast are never ignored.                  *)
HolderOwns ==
  \A t \in Tid : \A l \in holds[t] : lockstatus[l] = "LOCKED" /\ locked_tid[l] = t

(* No thread sleeps on a free lock: whoever sleeps in lock_acquire has a   *)
(* lock_release ahead that will wake it.                                   *)
WaitersHaveOwner ==
  \A l \in Locks : queue[l] # <<>> => lockstatus[l] = "LOCKED"

(* No other thread runs while a cv_wait is between lock_release and        *)
(* thread_sleep: a signal in that gap would be lost.                       *)
WaitIsAtomic ==
  \A t \in Tid :
    call[t].pc = "cv_sleep" => t = curr_running /\ here.at = "user"

(* With one lock, lock_acquire never spins with interrupts off: whenever   *)
(* the lock is taken, another thread is ready to run.                      *)
AcquireFindsReady == InCall("test") /\ lockstatus[mine.lock] = "LOCKED" => ~NoneReady

(* A lock that is free while threads wait for it (asleep on it, or woken   *)
(* and not yet back at the test) is taken again.                           *)
Wants(t, l) == /\ call[t].pc = "test" /\ call[t].lock = l
               /\ \A c \in CVs : t \notin Range(queue[c])
Wanted(l) == \E t \in Tid : Wants(t, l)
WantedLockTaken ==
  \A l \in Locks : lockstatus[l] = "FREE" /\ Wanted(l)
                     ~> lockstatus[l] = "LOCKED" \/ ~Wanted(l)

(* The locks and condition variables thread.h describes.                   *)
Inside(l) == {t \in Tid : \/ l \in holds[t]
                          \/ call[t].pc = "cv_sleep" /\ call[t].lock = l}
InsideState == [l \in Locks |-> Inside(l)]
WaitingState == [c \in CVs |-> Range(queue[c])]
Monitors == INSTANCE Mesa WITH inside <- InsideState, waiting <- WaitingState
ImplementsMesa == Monitors!Spec
=============================================================================
