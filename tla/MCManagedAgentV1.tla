-------------------------- MODULE MCManagedAgentV1 --------------------------
(***************************************************************************)
(* A small instance of ManagedAgentV1: two turns, one agent with and       *)
(* without the gateway, one custom call and one server-run call.           *)
(***************************************************************************)
EXTENDS ManagedAgentV1
=============================================================================
