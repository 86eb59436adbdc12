----------------------------- MODULE MCCopassApi -----------------------------
(***************************************************************************)
(* A small instance of CopassApi: two calls of ensure_data_source, or a    *)
(* call of any method beside one through the compute gateway; two attempts *)
(* each.                                                                   *)
(***************************************************************************)
EXTENDS CopassApi

CONSTANTS c1, c2

MCMixes ==
  {[c \in Calls |-> IF c = c1 THEN p[1] ELSE p[2]] :
     p \in {<<"ensure", "ensure">>, <<"method", "fetch">>}}
=============================================================================
