------------------------------ MODULE MCHistory ------------------------------
(* History for TLC: every constant is given in the configuration. *)
EXTENDS History
=============================================================================
