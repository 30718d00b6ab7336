------------------------------- MODULE MCWeb -------------------------------
(***************************************************************************)
(* Web with three clients, for TLC.                                        *)
(***************************************************************************)
EXTENDS Web

MCKind == [f |-> "full", g |-> "full", e |-> "empty", m |-> "missing"]

is(m, fs) == [manner |-> m, files |-> fs]
MCMixes ==
  {<<is("get", {"f"}), is("get", {"g", "e"}), is("post", {"f"})>>,
   <<is("get", {"f"}), is("simple", {"m"}), is("silent", {"f"})>>,
   <<is("get", {"f"}), is("simple", {"e"}), is("partial", {"f"})>>}
=============================================================================
