-------------------------- MODULE MCEscalatingLock --------------------------
(* Model-checking instance of EscalatingLock.                              *)
EXTENDS EscalatingLock
=============================================================================
