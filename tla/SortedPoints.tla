---------------------------- MODULE SortedPoints ----------------------------
(***************************************************************************)
(* The sorted list of points of warmup/sorted_points.c, a chain of nodes   *)
(* behind a header node: here the sequence of the points of its nodes.     *)
(* Coordinates are integers, for which comparing square roots and          *)
(* comparing squares is the same.                                          *)
(***************************************************************************)
EXTENDS Integers, Sequences, SequencesExt

CONSTANTS
  Coords,       \* coordinates of the points that are added
  MaxPoints,    \* bound on the length of the list
  MallocFails,  \* may malloc return NULL?
  DeleteSingle  \* is sp_delete_duplicates called on a list of one point?

ASSUME PointsAssumption ==
  /\ Coords \subseteq Int /\ MaxPoints \in Nat
  /\ MallocFails \in BOOLEAN /\ DeleteSingle \in BOOLEAN

VARIABLES
  list,
  ret,        \* the index of the last removal, and what it stored in *ret
  outcome     \* "live", or the NULL pointer that was followed

vars == <<list, ret, outcome>>

Point == Coords \X Coords

length2(p) == (p[1] * p[1]) + (p[2] * p[2])
point_compare(p, q) ==
  IF length2(p) < length2(q) THEN -1 ELSE IF length2(p) = length2(q) THEN 0 ELSE 1

Init == list = <<>> /\ ret = <<>> /\ outcome = "live"

Fault(how) == outcome' = how /\ UNCHANGED <<list, ret>>

(* sp_add_point walks to the first node that is not closer to the origin,  *)
(* then past the equally close ones that come before the new point.        *)
End == Len(list) + 1
not_closer(p) ==
  Min({i \in 1 .. Len(list) : point_compare(p, list[i]) # 1} \cup {End})
after_equal(p, q) ==
  point_compare(p, q) = 0 /\ (p[1] > q[1] \/ (p[1] = q[1] /\ p[2] > q[2]))
ties_ignored(p) == not_closer(p)
place(p) ==
  Min({i \in not_closer(p) .. Len(list) : ~after_equal(p, list[i])} \cup {End})

sp_add_point ==
  /\ outcome = "live" /\ Len(list) < MaxPoints
  /\ \E p \in Point : list' = InsertAt(list, place(p), p)
  /\ UNCHANGED <<ret, outcome>>

(* data->x of an unchecked malloc.                                         *)
AddFault == outcome = "live" /\ MallocFails /\ Fault("add_null")

(* Taking out the node at i (from 1): its point goes to *ret.              *)
Unlink(i) ==
  /\ ret' = <<i - 1, list[i]>>
  /\ list' = RemoveAt(list, i)
  /\ UNCHANGED outcome

sp_remove_first == outcome = "live" /\ list # <<>> /\ Unlink(1)
sp_remove_last == outcome = "live" /\ list # <<>> /\ Unlink(Len(list))

sp_remove_by_index ==
  /\ outcome = "live"
  /\ \E index \in 0 .. Len(list) - 1 : Unlink(index + 1)

(* A node goes when its point is the one the node kept before it holds.    *)
same_x(p, prev) == p[1] = prev[1]
duplicate(p, prev) == p = prev
keep(kept, p) == IF kept # <<>> /\ duplicate(p, Last(kept)) THEN kept ELSE Append(kept, p)
sp_delete_duplicates ==
  /\ outcome = "live" /\ Len(list) # 1
  /\ list' = FoldLeft(keep, <<>>, list)
  /\ UNCHANGED <<ret, outcome>>

(* sp_destroy; the program goes on with a new list from sp_init.           *)
sp_destroy ==
  /\ outcome = "live"
  /\ list' = <<>>
  /\ UNCHANGED <<ret, outcome>>

(* On a list of one point the loop compares with the node after the last.  *)
DeleteFault ==
  outcome = "live" /\ DeleteSingle /\ Len(list) = 1 /\ Fault("delete_null")

Ended == outcome # "live" /\ UNCHANGED vars

Next ==
  \/ sp_add_point \/ sp_remove_first \/ sp_remove_last
  \/ sp_remove_by_index \/ sp_delete_duplicates \/ sp_destroy
  \/ AddFault \/ DeleteFault \/ Ended
Spec == Init /\ [][Next]_vars
-----------------------------------------------------------------------------
Bag == INSTANCE PointBag WITH
         count <- [p \in Point |-> Cardinality({i \in 1 .. Len(list) : list[i] = p})]

(* The list stays in the order sorted_points.h describes, ties on the      *)
(* distance broken by x and then by y, whatever was added and removed.     *)
Sorted ==
  \A i \in 1 .. Len(list) : \A j \in i + 1 .. Len(list) : ~Bag!Before(list[j], list[i])

(* Every removal hands out the point that the order and the index say, and *)
(* nothing is lost, left or added otherwise; after sp_delete_duplicates    *)
(* one copy of each point is left.                                         *)
ImplementsBag == Bag!Spec
=============================================================================
