---------------------------- MODULE MCTestThread ----------------------------
(***************************************************************************)
(* TestThread with three threads beside the main one, for TLC.             *)
(***************************************************************************)
EXTENDS TestThread

MCSignal ==
  [n \in 0 .. NTHREADS - 1 |-> CASE n = 0 -> "cv0" [] n = 1 -> "cv1" [] OTHER -> "cv2"]
=============================================================================
