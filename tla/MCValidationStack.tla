-------------------------- MODULE MCValidationStack --------------------------
(***************************************************************************)
(* ValidationStack for model checking: the cfg gives the constants one     *)
(* schema value, one composition type and a stack of at most four          *)
(* positions.                                                              *)
(***************************************************************************)
EXTENDS ValidationStack
=============================================================================
