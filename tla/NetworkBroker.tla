---------------------------- MODULE NetworkBroker ----------------------------
(***************************************************************************)
(* NetworkBrokerNode (network-broker-node.ts): the daemon's o://networks   *)
(* tool, which starts and stops network instances backed by an E2B sandbox *)
(* or by a shell tool mounted in the daemon.                               *)
(*                                                                         *)
(* Calls of the tool overlap: a step is the code between two awaits.  The  *)
(* `instances' map holds a record with an instance object and a provider   *)
(* handle.  An id has at most two instance objects: the one reserved by    *)
(* _tool_start, and the final one that replaces it, a copy made when the   *)
(* start ends.  A stop in flight keeps the object it found, and puts it    *)
(* back.  Ids are the random UUIDs: each is used by one start.             *)
(*                                                                         *)
(* The sandbox, the kill call and the mounting of tools are external.      *)
(* MaxStops bounds the stop calls of one instance in flight.               *)
(***************************************************************************)
EXTENDS Naturals, FiniteSets

CONSTANTS
  Ids,       \* instance ids
  Agents,    \* agent session ids
  SoftCap,   \* brokerConfig.softCap
  MaxStops   \* bound: stop calls in flight on one instance object

ASSUME IdsAssumption == IsFiniteSet(Ids)
ASSUME BoundAssumption == SoftCap \in Nat /\ MaxStops \in Nat

Objects == {"reserved", "final"}
Status  == {"provisioning", "running", "stopping", "stopped", "failed"}

VARIABLES
  start,       \* the start call: idle, creating, booting, cleaning, done
  backend,     \* e2b or local
  current,     \* the object the map's record holds, "none" before the start
  status,      \* each object's status
  attached,    \* each object's attachedAgents
  handle,      \* the record's providerHandle is not null
  resource,    \* the sandbox or mounted tool: none, live, gone
  stops,       \* kill calls of stops in flight, by the object they hold
  \* history
  raced,       \* instances stopped before their start returned
  unreleased,  \* instances for which a kill or unmount failed
  members      \* agents attached and not detached since

recordVars  == <<current, status, attached, handle>>
historyVars == <<raced, unreleased, members>>
vars == <<start, backend, recordVars, resource, stops, historyVars>>

StatusOf(id)   == status[id][current[id]]
AttachedTo(id) == attached[id][current[id]]
Known          == {id \in Ids : current[id] # "none"}
Active == {id \in Known : StatusOf(id) \notin {"stopped", "failed"}}

TypeOK ==
  /\ start \in [Ids -> {"idle", "creating", "booting", "cleaning", "done"}]
  /\ backend \in [Ids -> {"e2b", "local"}]
  /\ current \in [Ids -> Objects \union {"none"}]
  /\ status \in [Ids -> [Objects -> Status]]
  /\ attached \in [Ids -> [Objects -> SUBSET Agents]]
  /\ handle \in [Ids -> BOOLEAN]
  /\ resource \in [Ids -> {"none", "live", "gone"}]
  /\ stops \in [Ids -> [Objects -> Nat]]
  /\ raced \subseteq Ids
  /\ unreleased \subseteq Ids
  /\ members \in [Ids -> SUBSET Agents]
  /\ \A id \in Ids : current[id] = "none" <=> start[id] = "idle"

Init ==
  /\ start = [id \in Ids |-> "idle"]
  /\ backend = [id \in Ids |-> "e2b"]
  /\ current = [id \in Ids |-> "none"]
  /\ status = [id \in Ids |-> [o \in Objects |-> "provisioning"]]
  /\ attached = [id \in Ids |-> [o \in Objects |-> {}]]
  /\ handle = [id \in Ids |-> FALSE]
  /\ resource = [id \in Ids |-> "none"]
  /\ stops = [id \in Ids |-> [o \in Objects |-> 0]]
  /\ raced = {} /\ unreleased = {}
  /\ members = [id \in Ids |-> {}]

-----------------------------------------------------------------------------
(* _tool_start.                                                            *)

StartGoes(id, from, to) == start[id] = from /\ start' = [start EXCEPT ![id] = to]

\* Mutant: the copy starts from a snapshot taken when the id was reserved.
FinishFromSnapshot(id, st, held) ==
  /\ current' = [current EXCEPT ![id] = "final"]
  /\ status' = [status EXCEPT ![id]["final"] = st]
  /\ UNCHANGED attached
  /\ handle' = [handle EXCEPT ![id] = held]

\* The ends of a start: a copy of the reserved object replaces the record.
Finish(id, st, held) ==
  /\ current' = [current EXCEPT ![id] = "final"]
  /\ status' = [status EXCEPT ![id]["final"] = st]
  /\ attached' = [attached EXCEPT ![id]["final"] = attached[id]["reserved"]]
  /\ handle' = [handle EXCEPT ![id] = held]

\* Mutant: the id is put in the map only when the provider has answered.
StartReservesLate(id, b) ==
  /\ Cardinality(Active) < SoftCap
  /\ StartGoes(id, "idle", "creating")
  /\ backend' = [backend EXCEPT ![id] = b]
  /\ UNCHANGED <<recordVars, resource, stops, historyVars>>

\* Check the cap and reserve the id, before the first await.
Start(id, b) ==
  /\ Cardinality(Active) < SoftCap
  /\ StartGoes(id, "idle", "creating")
  /\ backend' = [backend EXCEPT ![id] = b]
  /\ current' = [current EXCEPT ![id] = "reserved"]
  /\ UNCHANGED <<status, attached, handle, resource, stops, historyVars>>

\* Mutant: a failed start removes its record, which its caller may still name.
CreateRejectedForgets(id) ==
  /\ StartGoes(id, "creating", "done")
  /\ current' = [current EXCEPT ![id] = "none"]
  /\ UNCHANGED <<backend, status, attached, handle, resource, stops, historyVars>>

\* getSandboxClass, Sandbox.create or registerLocalTool rejects.
CreateRejected(id) ==
  /\ StartGoes(id, "creating", "done")
  /\ Finish(id, "failed", FALSE)
  /\ UNCHANGED <<backend, resource, stops, historyVars>>

\* Sandbox.create resolves: the handle is parked beside the reserved object.
Created(id) ==
  /\ backend[id] = "e2b"
  /\ StartGoes(id, "creating", "booting")
  /\ current' = [current EXCEPT ![id] = "reserved"]
  /\ handle' = [handle EXCEPT ![id] = TRUE]
  /\ resource' = [resource EXCEPT ![id] = "live"]
  /\ UNCHANGED <<backend, status, attached, stops, historyVars>>

\* The sandbox has an id and wrote its multiaddrs: RUNNING.
Booted(id) ==
  /\ StartGoes(id, "booting", "done")
  /\ Finish(id, "running", TRUE)
  /\ UNCHANGED <<backend, resource, stops, historyVars>>

\* No id, a failed exec, or the boot deadline: kill the sandbox, best-effort.
BootFails(id) ==
  /\ StartGoes(id, "booting", "cleaning")
  /\ UNCHANGED <<backend, recordVars, resource, stops, historyVars>>

Cleaned(id) ==
  /\ StartGoes(id, "cleaning", "done")
  /\ resource' = [resource EXCEPT ![id] = "gone"]
  /\ Finish(id, "failed", FALSE)
  /\ UNCHANGED <<backend, stops, historyVars>>

CleanupFails(id) ==
  /\ StartGoes(id, "cleaning", "done")
  /\ Finish(id, "failed", FALSE)
  /\ unreleased' = unreleased \union {id}
  /\ UNCHANGED <<backend, resource, stops, raced, members>>

\* registerLocalTool resolves: the shell tool is mounted and RUNNING.
Mounted(id) ==
  /\ backend[id] = "local"
  /\ StartGoes(id, "creating", "done")
  /\ resource' = [resource EXCEPT ![id] = "live"]
  /\ Finish(id, "running", TRUE)
  /\ UNCHANGED <<backend, stops, historyVars>>

-----------------------------------------------------------------------------
(* _tool_stop.                                                             *)

RaceWithStart(id) ==
  raced' = IF start[id] = "done" THEN raced ELSE raced \union {id}

\* Without a handle there is nothing to await: STOPPING and STOPPED at once.
StopWithoutHandle(id) ==
  /\ id \in Known /\ ~handle[id]
  /\ status' = [status EXCEPT ![id][current[id]] = "stopped"]
  /\ RaceWithStart(id)
  /\ UNCHANGED <<start, backend, current, attached, handle, resource, stops>>
  /\ UNCHANGED <<unreleased, members>>

\* Mutant: the record drops its handle before the kill call has resolved.
StopForgetsHandle(id) ==
  /\ id \in Known /\ handle[id]
  /\ stops[id][current[id]] < MaxStops
  /\ status' = [status EXCEPT ![id][current[id]] = "stopping"]
  /\ stops' = [stops EXCEPT ![id][current[id]] = @ + 1]
  /\ handle' = [handle EXCEPT ![id] = FALSE]
  /\ RaceWithStart(id)
  /\ UNCHANGED <<start, backend, current, attached, resource>>
  /\ UNCHANGED <<unreleased, members>>

StopBegins(id) ==
  /\ id \in Known /\ handle[id]
  /\ stops[id][current[id]] < MaxStops
  /\ status' = [status EXCEPT ![id][current[id]] = "stopping"]
  /\ stops' = [stops EXCEPT ![id][current[id]] = @ + 1]
  /\ RaceWithStart(id)
  /\ UNCHANGED <<start, backend, current, attached, handle, resource>>
  /\ UNCHANGED <<unreleased, members>>

\* The kill call of a stop that holds object o has ended.
KillEnds(id, o) == stops[id][o] > 0 /\ stops' = [stops EXCEPT ![id][o] = @ - 1]

\* Mutant: only the handle is cleared, in whatever record the map now holds.
ClearHandle(id, o) ==
  /\ status' = [status EXCEPT ![id][o] = "stopped"]
  /\ handle' = [handle EXCEPT ![id] = FALSE]
  /\ UNCHANGED <<current, attached>>

\* The object the stop holds is STOPPED and becomes the record's again.
PutBackStopped(id, o) ==
  /\ current' = [current EXCEPT ![id] = o]
  /\ status' = [status EXCEPT ![id][o] = "stopped"]
  /\ handle' = [handle EXCEPT ![id] = FALSE]
  /\ UNCHANGED attached

Killed(id, o) ==
  /\ KillEnds(id, o)
  /\ resource' = [resource EXCEPT ![id] = "gone"]
  /\ PutBackStopped(id, o)
  /\ UNCHANGED <<start, backend, historyVars>>

\* The e2b kill call rejects: FAILED, and the record keeps its handle.
KillRejected(id, o) ==
  /\ backend[id] = "e2b"
  /\ KillEnds(id, o)
  /\ status' = [status EXCEPT ![id][o] = "failed"]
  /\ unreleased' = unreleased \union {id}
  /\ UNCHANGED <<start, backend, current, attached, handle, resource>>
  /\ UNCHANGED <<raced, members>>

\* The shell tool does not stop: unregisterLocalTool swallows the error.
UnmountFails(id, o) ==
  /\ backend[id] = "local"
  /\ KillEnds(id, o)
  /\ PutBackStopped(id, o)
  /\ unreleased' = unreleased \union {id}
  /\ UNCHANGED <<start, backend, resource, raced, members>>

-----------------------------------------------------------------------------
(* _tool_attach and _tool_detach write the object the record holds now.    *)

Attach(id, a) ==
  /\ id \in Known
  /\ attached' = [attached EXCEPT ![id][current[id]] = @ \union {a}]
  /\ members' = [members EXCEPT ![id] = @ \union {a}]
  /\ UNCHANGED <<start, backend, current, status, handle, resource, stops>>
  /\ UNCHANGED <<raced, unreleased>>

Detach(id, a) ==
  /\ id \in Known
  /\ attached' = [attached EXCEPT ![id][current[id]] = @ \ {a}]
  /\ members' = [members EXCEPT ![id] = @ \ {a}]
  /\ UNCHANGED <<start, backend, current, status, handle, resource, stops>>
  /\ UNCHANGED <<raced, unreleased>>

\* E2B ends a sandbox on its own.
SandboxExpires(id) ==
  /\ backend[id] = "e2b" /\ resource[id] = "live"
  /\ resource' = [resource EXCEPT ![id] = "gone"]
  /\ UNCHANGED <<start, backend, recordVars, stops, historyVars>>

-----------------------------------------------------------------------------
StartStep(id) ==
  \/ \E b \in {"e2b", "local"} : Start(id, b)
  \/ CreateRejected(id) \/ Created(id) \/ Booted(id) \/ BootFails(id)
  \/ Cleaned(id) \/ CleanupFails(id) \/ Mounted(id)

StopStep(id) ==
  \/ StopWithoutHandle(id) \/ StopBegins(id)
  \/ \E o \in Objects : Killed(id, o) \/ KillRejected(id, o) \/ UnmountFails(id, o)

Next ==
  \E id \in Ids :
    \/ StartStep(id) \/ StopStep(id) \/ SandboxExpires(id)
    \/ \E a \in Agents : Attach(id, a) \/ Detach(id, a)

Spec == Init /\ [][Next]_vars

-----------------------------------------------------------------------------
(* Properties.                                                             *)

\* The soft cap counts every instance that was not stopped while it was being
\* started and whose kill calls all worked, although starts overlap: the id is
\* reserved before the first await.
CapBoundsInstances == Cardinality(Active \ (raced \union unreleased)) <= SoftCap

\* What list() and status() show as RUNNING can be stopped: the record of a
\* RUNNING instance has the handle that a stop needs to reach the sandbox.
RunningHasHandle == \A id \in Known : StatusOf(id) = "running" => handle[id]

\* An agent attached while the instance was still provisioning stays attached
\* through the switch to the final object, and detached agents stay out.
AttachmentsKept == \A id \in Known \ raced : AttachedTo(id) = members[id]

\* The lease of the sandbox or tool that the abstract specification follows.
LeasePhase(id) ==
  CASE start[id] = "idle" -> "absent"
    [] start[id] \in {"creating", "booting", "cleaning"} -> "starting"
    [] start[id] = "done" /\ resource[id] # "live" -> "released"
    [] start[id] = "done" /\ resource[id] = "live" /\ handle[id] -> "held"
    [] start[id] = "done" /\ resource[id] = "live" /\ ~handle[id] -> "lost"

Lease == INSTANCE NetworkLease WITH phase <- [id \in Ids |-> LeasePhase(id)]

\* The broker implements the lease: nothing overlapping makes it drop a live
\* sandbox after its start returned, or take one back that was let go.
ImplementsLease == Lease!Spec

\* network-broker-node.ts:31: "Soft cap of 100 instances per daemon".
SoftCapRespected == Cardinality(Active) <= SoftCap
=============================================================================
