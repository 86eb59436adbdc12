--------------------------- MODULE MCNetworkBroker ---------------------------
(* NetworkBroker with interchangeable ids and agents. *)
EXTENDS NetworkBroker, TLC

BrokerSymmetry == Permutations(Ids) \union Permutations(Agents)
=============================================================================
