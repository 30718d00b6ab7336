------------------------------- MODULE Mesa --------------------------------
(***************************************************************************)
(* What threads/thread.h promises of locks and condition variables: one    *)
(* thread at a time is inside a lock; cv_wait leaves the lock and joins    *)
(* the waiters in one step; only a thread inside some lock signals; a      *)
(* signalled thread competes for its lock like any other (Mesa style).     *)
(***************************************************************************)
CONSTANTS Tid, Locks, CVs
VARIABLES
  inside,    \* threads inside each lock
  waiting    \* threads waiting on each condition variable

vars == <<inside, waiting>>

Init ==
  /\ inside = [l \in Locks |-> {}]
  /\ waiting = [c \in CVs |-> {}]

Acquire(t, l) ==
  /\ inside[l] = {}
  /\ inside' = [inside EXCEPT ![l] = {t}]
  /\ UNCHANGED waiting

Release(t, l) ==
  /\ t \in inside[l]
  /\ inside' = [inside EXCEPT ![l] = @ \ {t}]
  /\ UNCHANGED waiting

Wait(t, c, l) ==
  /\ t \in inside[l]
  /\ inside' = [inside EXCEPT ![l] = @ \ {t}]
  /\ waiting' = [waiting EXCEPT ![c] = @ \cup {t}]

Signal(t, c) ==
  /\ \E l \in Locks : t \in inside[l]
  /\ \E u \in waiting[c] : waiting' = [waiting EXCEPT ![c] = @ \ {u}]
  /\ UNCHANGED inside

Broadcast(t, c) ==
  /\ \E l \in Locks : t \in inside[l]
  /\ waiting' = [waiting EXCEPT ![c] = {}]
  /\ UNCHANGED inside

(* thread_exit or thread_kill of a thread that is inside locks.            *)
Die(t) ==
  /\ inside' = [l \in Locks |-> inside[l] \ {t}]
  /\ UNCHANGED waiting

Next ==
  \E t \in Tid :
    \/ \E l \in Locks : Acquire(t, l) \/ Release(t, l)
    \/ \E l \in Locks, c \in CVs : Wait(t, c, l)
    \/ \E c \in CVs : Signal(t, c) \/ Broadcast(t, c)
    \/ Die(t)

Spec == Init /\ [][Next]_vars
=============================================================================
