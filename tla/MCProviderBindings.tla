------------------------- MODULE MCProviderBindings -------------------------
(***************************************************************************)
(* A small instance of ProviderBindings: three concurrent turns of one     *)
(* agent, across a bump of its version or a change of its configuration.   *)
(***************************************************************************)
EXTENDS ProviderBindings, TLC

CallerSymmetry == Permutations(Callers)
=============================================================================
