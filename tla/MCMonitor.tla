----------------------------- MODULE MCMonitor -----------------------------
(***************************************************************************)
(* Monitor on a small table, for TLC.                                      *)
(***************************************************************************)
EXTENDS Monitor
=============================================================================
