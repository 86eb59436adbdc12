------------------------- MODULE MCManagedAgentTurn -------------------------
(***************************************************************************)
(* A small instance of ManagedAgentTurn: two custom calls, one of them of  *)
(* a tool the agent does not have, and one server-run call over two turns  *)
(* on one session.                                                         *)
(***************************************************************************)
EXTENDS ManagedAgentTurn
=============================================================================
