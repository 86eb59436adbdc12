----------------------------- MODULE MCAgentTurns -----------------------------
(***************************************************************************)
(* A small instance of AgentTurns: an agent of each class over one window, *)
(* two calls that may overlap on one agent or not, one retry, two deltas   *)
(* an answer; t1 and t2 begin with the same 500 characters.  Both calls    *)
(* are answered with the same words, a second request with others.         *)
(* MCHermes is the plan of a single caller of the Hermes agent.            *)
(***************************************************************************)
EXTENDS AgentTurns

CONSTANTS managed, google, hermes, t1, t2, d1, s1, s2

MCDigest(text) ==
  [k \in DOMAIN text |->
     IF text[k] \in Texts THEN d1 ELSE <<text[k][2], text[k][3]>>]
MCKind   == [a \in Agents |-> CASE a = hermes -> "hermes"
                               [] a = google -> "google"
                               [] OTHER      -> "managed"]
MCInputs ==
  {<<[role |-> "user", text |-> t1], [role |-> "user", text |-> t2],
     [role |-> "assistant", text |-> t1]>>}
MCHermes == {[s \in Streams |-> hermes]}
MCPlans  == {[s \in Streams |-> managed],
             [s \in Streams |-> IF s = s1 THEN hermes ELSE google]}
MCAttempts == 1..(MaxRetries + 1)
=============================================================================
