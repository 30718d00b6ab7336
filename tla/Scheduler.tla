----------------------------- MODULE Scheduler -----------------------------
(***************************************************************************)
(* What threads/thread.h promises of the scheduler, without contexts,      *)
(* masks, flags or a table to scan: every thread is absent, ready, running *)
(* or blocked, one runs, and the processor only ever goes to a ready one.  *)
(***************************************************************************)
CONSTANTS Tid, Main
VARIABLES state, current

vars == <<state, current>>

Init ==
  /\ current = Main
  /\ state = [t \in Tid |-> IF t = Main THEN "running" ELSE "none"]

(* thread_create *)
Spawn(t) ==
  /\ state[t] = "none"
  /\ state' = [state EXCEPT ![t] = "ready"]
  /\ UNCHANGED current

(* thread_yield, thread_sleep and thread_exit: the caller becomes          *)
(* becomes, and a ready thread runs.                                       *)
Dispatch(t, becomes) ==
  /\ state[t] = "ready"
  /\ becomes \in {"ready", "blocked", "none"}
  /\ state' = [state EXCEPT ![current] = becomes, ![t] = "running"]
  /\ current' = t

(* thread_wakeup *)
Wake(S) ==
  /\ \A t \in S : state[t] = "blocked"
  /\ state' = [t \in Tid |-> IF t \in S THEN "ready" ELSE state[t]]
  /\ UNCHANGED current

(* thread_kill *)
Remove(t) ==
  /\ t # current /\ state[t] # "none"
  /\ state' = [state EXCEPT ![t] = "none"]
  /\ UNCHANGED current

Next ==
  \/ \E t \in Tid : Spawn(t) \/ Remove(t)
  \/ \E t \in Tid, becomes \in {"ready", "blocked", "none"} :
       Dispatch(t, becomes)
  \/ \E S \in SUBSET Tid : Wake(S)

Spec == Init /\ [][Next]_vars
=============================================================================
