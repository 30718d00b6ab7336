------------------------------ MODULE PointBag ------------------------------
(***************************************************************************)
(* What warmup/sorted_points.h promises: a bag of points from which the    *)
(* point at an index can be taken, in the order of their distance from the *)
(* origin, then x, then y.                                                 *)
(***************************************************************************)
EXTENDS Integers, FiniteSets
CONSTANT Coords
VARIABLES
  count,    \* how many times each point is in the bag
  ret       \* the index and the point of the last removal

vars == <<count, ret>>

Points == Coords \X Coords
Dist(p) == p[1] * p[1] + p[2] * p[2]
Before(p, q) ==
  \/ Dist(p) < Dist(q)
  \/ Dist(p) = Dist(q) /\ p[1] < q[1]
  \/ Dist(p) = Dist(q) /\ p[1] = q[1] /\ p[2] < q[2]

(* The copies of points that come before p, as pairs of point and number.  *)
Earlier(p) ==
  Cardinality(UNION {{q} \X (1 .. count[q]) : q \in {r \in Points : Before(r, p)}})

Size == Cardinality(UNION {{q} \X (1 .. count[q]) : q \in Points})

Init == count = [p \in Points |-> 0] /\ ret = <<>>

Add(p) == count' = [count EXCEPT ![p] = @ + 1] /\ UNCHANGED ret

(* The point at an index: of the points in order, index others come first. *)
Take(index) ==
  \E p \in Points :
    /\ Earlier(p) <= index /\ index < Earlier(p) + count[p]
    /\ count' = [count EXCEPT ![p] = @ - 1]
    /\ ret' = <<index, p>>

Dedup ==
  /\ count' = [p \in Points |-> IF count[p] > 1 THEN 1 ELSE count[p]]
  /\ UNCHANGED ret

Clear == count' = [p \in Points |-> 0] /\ UNCHANGED ret

Next ==
  \/ \E p \in Points : Add(p)
  \/ \E index \in 0 .. Size - 1 : Take(index)
  \/ Dedup \/ Clear

Spec == Init /\ [][Next]_vars
=============================================================================
