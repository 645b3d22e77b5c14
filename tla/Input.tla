------------------------------- MODULE Input -------------------------------
(* The input on which the operators of a module are compared with what they *)
(* should compute.  Inputs grow step by step, so that every input up to a   *)
(* bound is a state.                                                        *)
VARIABLE in
=============================================================================
