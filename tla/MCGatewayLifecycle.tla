------------------------- MODULE MCGatewayLifecycle -------------------------
(* GatewayLifecycle on small instances: wiring slots are interchangeable,    *)
(* which the runs without a temporal property use.                           *)
EXTENDS GatewayLifecycle, TLC

WiringSymmetry == Permutations(Wirings)
=============================================================================
