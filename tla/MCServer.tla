------------------------------ MODULE MCServer ------------------------------
(***************************************************************************)
(* Server with a small ring and a few workers, for TLC.                    *)
(***************************************************************************)
EXTENDS Server
=============================================================================
