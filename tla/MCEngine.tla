------------------------------ MODULE MCEngine ------------------------------
(***************************************************************************)
(* Engine with two cases: every constant is given in the configurations.   *)
(***************************************************************************)
EXTENDS Engine
=============================================================================
