---------------------------- MODULE RequestQueue ----------------------------
(***************************************************************************)
(* What the web server promises of its connections: accepted ones wait in  *)
(* a FIFO queue of bounded length, each is served once, by one thread.     *)
(***************************************************************************)
EXTENDS Naturals, Sequences
CONSTANT Fds
VARIABLES
  bound,      \* of the queue
  arriving,   \* accepted, not yet in the queue
  fifo,
  serving     \* in the hands of a thread that serves them

vars == <<bound, arriving, fifo, serving>>

Init == bound \in Nat /\ arriving = {} /\ fifo = <<>> /\ serving = {}

Known == arriving \cup serving \cup {fifo[i] : i \in 1 .. Len(fifo)}

Accept(fd) ==
  /\ fd \notin Known /\ arriving = {}
  /\ arriving' = {fd}
  /\ UNCHANGED <<bound, fifo, serving>>

Enqueue(fd) ==
  /\ fd \in arriving /\ Len(fifo) < bound
  /\ arriving' = {}
  /\ fifo' = Append(fifo, fd)
  /\ UNCHANGED <<bound, serving>>

Dequeue ==
  /\ fifo # <<>>
  /\ serving' = serving \cup {Head(fifo)}
  /\ fifo' = Tail(fifo)
  /\ UNCHANGED <<bound, arriving>>

(* A server without worker threads serves what it accepts.                 *)
Direct(fd) ==
  /\ fd \notin Known
  /\ serving' = serving \cup {fd}
  /\ UNCHANGED <<bound, arriving, fifo>>

Finish(fd) ==
  /\ fd \in serving
  /\ serving' = serving \ {fd}
  /\ UNCHANGED <<bound, arriving, fifo>>

Next ==
  \/ \E fd \in Fds : Accept(fd) \/ Enqueue(fd) \/ Direct(fd) \/ Finish(fd)
  \/ Dequeue

Spec == Init /\ [][Next]_vars
=============================================================================
