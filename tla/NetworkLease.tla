----------------------------- MODULE NetworkLease -----------------------------
(***************************************************************************)
(* What the network broker promises about the sandbox or shell tool behind *)
(* each network instance, whatever starts, stops and failures overlap:     *)
(* it is acquired by one start only, it is let go for good, and once the   *)
(* start has returned it is never out of the broker's hands while it is    *)
(* alive, unless a call that should have released it failed.               *)
(***************************************************************************)
CONSTANT Ids

VARIABLES
  phase,      \* absent, starting, held, released, lost
  unreleased  \* instances for which a release call failed

vars == <<phase, unreleased>>

Init == phase = [id \in Ids |-> "absent"] /\ unreleased = {}

Goes(id, from, to) == phase[id] \in from /\ phase' = [phase EXCEPT ![id] = to]

Begin(id) == Goes(id, {"absent"}, "starting") /\ UNCHANGED unreleased

Acquire(id) == Goes(id, {"starting"}, "held") /\ UNCHANGED unreleased

Release(id) ==
  Goes(id, {"starting", "held", "lost"}, "released") /\ UNCHANGED unreleased

ReleaseFails(id) ==
  /\ unreleased' = unreleased \union {id}
  /\ \/ Goes(id, {"starting", "held"}, "lost")
     \/ Goes(id, {"starting"}, "released")
     \/ UNCHANGED phase

Next == \E id \in Ids : Begin(id) \/ Acquire(id) \/ Release(id) \/ ReleaseFails(id)

Spec == Init /\ [][Next]_vars
=============================================================================
