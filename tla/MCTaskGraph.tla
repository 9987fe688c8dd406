---------------------------- MODULE MCTaskGraph ----------------------------
(***************************************************************************)
(* Model-checking instance of TaskGraph.                                   *)
(***************************************************************************)
EXTENDS TaskGraphInvariant
=============================================================================
