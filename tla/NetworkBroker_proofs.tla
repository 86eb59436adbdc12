------------------------- MODULE NetworkBroker_proofs -------------------------
(***************************************************************************)
(* Proofs about NetworkBroker, for any set of instances, any agents and    *)
(* any soft cap.                                                           *)
(***************************************************************************)
EXTENDS NetworkBroker, FiniteSetTheorems, TLAPS

Starting == {"creating", "booting", "cleaning"}

\* What holds of one instance in every reachable state.  The first two lines
\* are about every instance; the others say that one which was not stopped
\* during its start uses its two objects in turn, first reserved, then final.
InstanceInv(id) ==
  /\ start[id] \in {"idle", "creating"} => resource[id] # "live"
  /\ status[id]["reserved"] # "running"
  /\ start[id] \in Starting => current[id] = "reserved"
  /\ start[id] # "done" => stops[id]["final"] = 0
  /\ start[id] = "idle" => /\ stops[id]["reserved"] = 0
                           /\ members[id] = {} /\ attached[id]["reserved"] = {}
  /\ id \notin raced =>
       /\ stops[id]["reserved"] = 0
       /\ start[id] = "done" => current[id] = "final"
       /\ status[id]["reserved"] = "provisioning"
  /\ id \notin raced \union unreleased /\ start[id] = "done" /\ handle[id] =>
       status[id]["final"] \in {"running", "stopping"}

\* What the properties say of one instance.
RecordInv(id) ==
  current[id] # "none" =>
    /\ StatusOf(id) = "running" => handle[id]
    /\ id \notin raced => AttachedTo(id) = members[id]

InstancesInv == \A id \in Ids : InstanceInv(id) /\ RecordInv(id)

\* The inductive invariant; the cap is added to it in the last section.
IInv == TypeOK /\ InstancesInv

-----------------------------------------------------------------------------
LEMMA InitIInv == Init => IInv
BY DEF Init, IInv, TypeOK, InstancesInv, InstanceInv, RecordInv,
       StatusOf, AttachedTo, Objects, Status, Starting

LEMMA TypeStep == TypeOK /\ InstancesInv /\ [Next]_vars => TypeOK'
<1> USE DEF TypeOK, Objects, Status, recordVars, historyVars
<1>1. ASSUME TypeOK, InstancesInv, NEW id \in Ids, StartStep(id) PROVE TypeOK'
  <2>1. ASSUME NEW b \in {"e2b", "local"}, Start(id, b) PROVE TypeOK'
    BY <1>1, <2>1 DEF Start, StartGoes
  <2>2. CASE CreateRejected(id)
    BY <1>1, <2>2 DEF CreateRejected, StartGoes, Finish
  <2>3. CASE Created(id)
    BY <1>1, <2>3 DEF Created, StartGoes
  <2>4. CASE Booted(id)
    BY <1>1, <2>4 DEF Booted, StartGoes, Finish
  <2>5. CASE BootFails(id)
    BY <1>1, <2>5 DEF BootFails, StartGoes
  <2>6. CASE Cleaned(id)
    BY <1>1, <2>6 DEF Cleaned, StartGoes, Finish
  <2>7. CASE CleanupFails(id)
    BY <1>1, <2>7 DEF CleanupFails, StartGoes, Finish
  <2>8. CASE Mounted(id)
    BY <1>1, <2>8 DEF Mounted, StartGoes, Finish
  <2> QED
    BY <1>1, <2>1, <2>2, <2>3, <2>4, <2>5, <2>6, <2>7, <2>8 DEF StartStep
<1>2. ASSUME TypeOK, InstancesInv, NEW id \in Ids, StopStep(id) PROVE TypeOK'
  <2>1. CASE StopWithoutHandle(id)
    BY <1>2, <2>1 DEF StopWithoutHandle, RaceWithStart, Known
  <2>2. CASE StopBegins(id)
    BY <1>2, <2>2 DEF StopBegins, RaceWithStart, Known
  <2>3. ASSUME NEW o \in Objects, Killed(id, o) PROVE TypeOK'
    <3>1. stops[id][o] > 0 /\ stops' \in [Ids -> [Objects -> Nat]]
      BY <1>2, <2>3 DEF Killed, KillEnds
    <3>2. current' \in [Ids -> Objects \union {"none"}] /\ current'[id] = o
      BY <1>2, <2>3 DEF Killed, PutBackStopped
    <3>3. status' \in [Ids -> [Objects -> Status]] /\ handle' \in [Ids -> BOOLEAN]
      BY <1>2, <2>3 DEF Killed, PutBackStopped
    <3>4. resource' \in [Ids -> {"none", "live", "gone"}]
      BY <1>2, <2>3 DEF Killed
    <3>5. UNCHANGED <<start, backend, historyVars, attached>>
      BY <2>3 DEF Killed, PutBackStopped
    <3>6. start[id] # "idle"
      BY <1>2, <3>1 DEF InstancesInv, InstanceInv
    <3>7. \A j \in Ids \ {id} : current'[j] = current[j]
      BY <1>2, <2>3 DEF Killed, PutBackStopped
    <3>8. \A j \in Ids : current'[j] = "none" <=> start'[j] = "idle"
      BY <1>2, <3>2, <3>5, <3>6, <3>7
    <3> QED
      BY <1>2, <3>1, <3>2, <3>3, <3>4, <3>5, <3>8
  <2>4. ASSUME NEW o \in Objects, KillRejected(id, o) PROVE TypeOK'
    BY <1>2, <2>4 DEF KillRejected, KillEnds
  <2>5. ASSUME NEW o \in Objects, UnmountFails(id, o) PROVE TypeOK'
    <3>1. stops[id][o] > 0 /\ stops' \in [Ids -> [Objects -> Nat]]
      BY <1>2, <2>5 DEF UnmountFails, KillEnds
    <3>2. current' \in [Ids -> Objects \union {"none"}] /\ current'[id] = o
      BY <1>2, <2>5 DEF UnmountFails, PutBackStopped
    <3>3. status' \in [Ids -> [Objects -> Status]] /\ handle' \in [Ids -> BOOLEAN]
      BY <1>2, <2>5 DEF UnmountFails, PutBackStopped
    <3>4. unreleased' \subseteq Ids
      BY <1>2, <2>5 DEF UnmountFails
    <3>5. UNCHANGED <<start, backend, resource, raced, members, attached>>
      BY <2>5 DEF UnmountFails, PutBackStopped
    <3>6. start[id] # "idle"
      BY <1>2, <3>1 DEF InstancesInv, InstanceInv
    <3>7. \A j \in Ids \ {id} : current'[j] = current[j]
      BY <1>2, <2>5 DEF UnmountFails, PutBackStopped
    <3>8. \A j \in Ids : current'[j] = "none" <=> start'[j] = "idle"
      BY <1>2, <3>2, <3>5, <3>6, <3>7
    <3> QED
      BY <1>2, <3>1, <3>2, <3>3, <3>4, <3>5, <3>8
  <2> QED
    BY <1>2, <2>1, <2>2, <2>3, <2>4, <2>5 DEF StopStep
<1>3. ASSUME TypeOK, InstancesInv, NEW id \in Ids, SandboxExpires(id) PROVE TypeOK'
  BY <1>3 DEF SandboxExpires
<1>4. ASSUME TypeOK, InstancesInv, NEW id \in Ids, NEW a \in Agents, Attach(id, a) PROVE TypeOK'
  BY <1>4 DEF Attach, Known
<1>5. ASSUME TypeOK, InstancesInv, NEW id \in Ids, NEW a \in Agents, Detach(id, a) PROVE TypeOK'
  BY <1>5 DEF Detach, Known
<1>6. ASSUME TypeOK, InstancesInv, UNCHANGED vars PROVE TypeOK'
  BY <1>6 DEF vars
<1> QED
  BY <1>1, <1>2, <1>3, <1>4, <1>5, <1>6 DEF Next

\* One step keeps what InstancesInv says of every instance j: of the one it is
\* about, and of the others, whose part of the state it leaves alone.
LEMMA InstancesStep == IInv /\ [Next]_vars => InstancesInv'
<1> USE DEF IInv, InstancesInv, InstanceInv, RecordInv, StatusOf, AttachedTo,
            Starting, Objects, Status, TypeOK, recordVars, historyVars
<1>1. ASSUME IInv, NEW id \in Ids, StartStep(id), NEW j \in Ids
      PROVE  (InstanceInv(j) /\ RecordInv(j))'
  <2>1. ASSUME NEW b \in {"e2b", "local"}, Start(id, b) PROVE (InstanceInv(j) /\ RecordInv(j))'
    <3>1. start[id] = "idle" /\ current' = [current EXCEPT ![id] = "reserved"]
      BY <2>1 DEF Start, StartGoes
    <3>2. CASE j = id
      <4>1. current'[id] = "reserved" /\ start'[id] = "creating"
        BY <1>1, <2>1 DEF Start, StartGoes
      <4>2. UNCHANGED <<status, attached, handle, resource, stops, historyVars>>
        BY <2>1 DEF Start
      <4> QED
        BY <1>1, <3>1, <3>2, <4>1, <4>2
    <3>3. CASE j # id
      BY <1>1, <2>1, <3>3 DEF Start, StartGoes
    <3> QED
      BY <3>2, <3>3
  <2>2. CASE CreateRejected(id)
    BY <1>1, <2>2 DEF CreateRejected, StartGoes, Finish
  <2>3. CASE Created(id)
    BY <1>1, <2>3 DEF Created, StartGoes
  <2>4. CASE Booted(id)
    BY <1>1, <2>4 DEF Booted, StartGoes, Finish
  <2>5. CASE BootFails(id)
    BY <1>1, <2>5 DEF BootFails, StartGoes
  <2>6. CASE Cleaned(id)
    BY <1>1, <2>6 DEF Cleaned, StartGoes, Finish
  <2>7. CASE CleanupFails(id)
    BY <1>1, <2>7 DEF CleanupFails, StartGoes, Finish
  <2>8. CASE Mounted(id)
    BY <1>1, <2>8 DEF Mounted, StartGoes, Finish
  <2> QED
    BY <1>1, <2>1, <2>2, <2>3, <2>4, <2>5, <2>6, <2>7, <2>8 DEF StartStep
<1>2. ASSUME IInv, NEW id \in Ids, StopStep(id), NEW j \in Ids
      PROVE  (InstanceInv(j) /\ RecordInv(j))'
  <2>1. CASE StopWithoutHandle(id)
    BY <1>2, <2>1 DEF StopWithoutHandle, RaceWithStart, Known
  <2>2. CASE StopBegins(id)
    BY <1>2, <2>2 DEF StopBegins, RaceWithStart, Known
  <2>3. ASSUME NEW o \in Objects, Killed(id, o) PROVE (InstanceInv(j) /\ RecordInv(j))'
    BY <1>2, <2>3 DEF Killed, KillEnds, PutBackStopped
  <2>4. ASSUME NEW o \in Objects, KillRejected(id, o) PROVE (InstanceInv(j) /\ RecordInv(j))'
    BY <1>2, <2>4 DEF KillRejected, KillEnds
  <2>5. ASSUME NEW o \in Objects, UnmountFails(id, o) PROVE (InstanceInv(j) /\ RecordInv(j))'
    BY <1>2, <2>5 DEF UnmountFails, KillEnds, PutBackStopped
  <2> QED
    BY <1>2, <2>1, <2>2, <2>3, <2>4, <2>5 DEF StopStep
<1>3. ASSUME IInv, NEW id \in Ids, SandboxExpires(id), NEW j \in Ids
      PROVE  (InstanceInv(j) /\ RecordInv(j))'
  BY <1>3 DEF SandboxExpires
<1>4. ASSUME IInv, NEW id \in Ids, NEW a \in Agents, Attach(id, a), NEW j \in Ids
      PROVE  (InstanceInv(j) /\ RecordInv(j))'
  <2>1. current[id] \in Objects
    BY <1>4 DEF Attach, Known
  <2>2. CASE j = id
    BY <1>4, <2>1, <2>2 DEF Attach
  <2>3. CASE j # id
    BY <1>4, <2>3 DEF Attach
  <2> QED
    BY <2>2, <2>3
<1>5. ASSUME IInv, NEW id \in Ids, NEW a \in Agents, Detach(id, a), NEW j \in Ids
      PROVE  (InstanceInv(j) /\ RecordInv(j))'
  <2>1. current[id] \in Objects
    BY <1>5 DEF Detach, Known
  <2>2. CASE j = id
    BY <1>5, <2>1, <2>2 DEF Detach
  <2>3. CASE j # id
    BY <1>5, <2>3 DEF Detach
  <2> QED
    BY <2>2, <2>3
<1>6. ASSUME IInv, UNCHANGED vars PROVE InstancesInv'
  BY <1>6 DEF vars
<1> QED
  <2> SUFFICES ASSUME IInv, Next PROVE InstancesInv'
    BY <1>6
  <2> QED
    BY <1>1, <1>2, <1>3, <1>4, <1>5 DEF Next

LEMMA IInvInvariant == Spec => []IInv
<1>1. IInv /\ [Next]_vars => IInv'
  BY TypeStep, InstancesStep DEF IInv
<1> QED
  BY InitIInv, <1>1, PTL DEF Spec

\* Every variable keeps its type, and an instance is in the map from the
\* moment its id is reserved, for any set of instances and any soft cap.
THEOREM TypesHold == Spec => []TypeOK
<1>1. IInv => TypeOK
  BY DEF IInv
<1> QED
  BY IInvInvariant, <1>1, PTL

\* A record that shows RUNNING always has the handle a stop needs.
THEOREM RunningCanBeStopped == Spec => []RunningHasHandle
<1>1. IInv => RunningHasHandle
  BY DEF IInv, InstancesInv, RecordInv, RunningHasHandle, Known
<1> QED
  BY IInvInvariant, <1>1, PTL

\* No attachment is lost, and none comes back, when the record's object is
\* replaced: for every instance that was not stopped during its start.
THEOREM AttachmentsAreKept == Spec => []AttachmentsKept
<1>1. IInv => AttachmentsKept
  BY DEF IInv, InstancesInv, RecordInv, AttachmentsKept, Known
<1> QED
  BY IInvInvariant, <1>1, PTL

-----------------------------------------------------------------------------
(* The soft cap.                                                           *)

\* The instances the cap is claimed for.
Counted == Active \ (raced \union unreleased)

\* Only a start adds an instance to the counted ones: a stopped or failed one
\* is never counted again.
LEMMA CountedShrinks ==
  ASSUME IInv, [Next]_vars, ~(\E id \in Ids, b \in {"e2b", "local"} : Start(id, b))
  PROVE  Counted' \subseteq Counted
<1> USE DEF IInv, InstancesInv, InstanceInv, TypeOK, Starting, Objects, Status,
            Counted, Active, Known, StatusOf, recordVars, historyVars
<1>1. ASSUME NEW id \in Ids, StartStep(id), NEW j \in Counted' PROVE j \in Counted
  <2>1. CASE CreateRejected(id)
    BY <1>1, <2>1 DEF CreateRejected, StartGoes, Finish
  <2>2. CASE Created(id)
    BY <1>1, <2>2 DEF Created, StartGoes
  <2>3. CASE Booted(id)
    BY <1>1, <2>3 DEF Booted, StartGoes, Finish
  <2>4. CASE BootFails(id)
    BY <1>1, <2>4 DEF BootFails, StartGoes
  <2>5. CASE Cleaned(id)
    BY <1>1, <2>5 DEF Cleaned, StartGoes, Finish
  <2>6. CASE CleanupFails(id)
    BY <1>1, <2>6 DEF CleanupFails, StartGoes, Finish
  <2>7. CASE Mounted(id)
    BY <1>1, <2>7 DEF Mounted, StartGoes, Finish
  <2> QED
    BY <1>1, <2>1, <2>2, <2>3, <2>4, <2>5, <2>6, <2>7 DEF StartStep
<1>2. ASSUME NEW id \in Ids, StopStep(id), NEW j \in Counted' PROVE j \in Counted
  <2>1. CASE StopWithoutHandle(id)
    BY <1>2, <2>1 DEF StopWithoutHandle, RaceWithStart, Known
  <2>2. CASE StopBegins(id)
    BY <1>2, <2>2 DEF StopBegins, RaceWithStart, Known
  <2>3. ASSUME NEW o \in Objects, Killed(id, o) PROVE j \in Counted
    BY <1>2, <2>3 DEF Killed, KillEnds, PutBackStopped
  <2>4. ASSUME NEW o \in Objects, KillRejected(id, o) PROVE j \in Counted
    BY <1>2, <2>4 DEF KillRejected, KillEnds
  <2>5. ASSUME NEW o \in Objects, UnmountFails(id, o) PROVE j \in Counted
    BY <1>2, <2>5 DEF UnmountFails, KillEnds, PutBackStopped
  <2> QED
    BY <1>2, <2>1, <2>2, <2>3, <2>4, <2>5 DEF StopStep
<1>3. ASSUME NEW id \in Ids, SandboxExpires(id) PROVE Counted' = Counted
  BY <1>3 DEF SandboxExpires
<1>4. ASSUME NEW id \in Ids, NEW a \in Agents, Attach(id, a) \/ Detach(id, a)
      PROVE  Counted' = Counted
  BY <1>4 DEF Attach, Detach
<1>5. ASSUME UNCHANGED vars PROVE Counted' = Counted
  BY <1>5 DEF vars
<1> QED
  <2> HIDE DEF Counted
  <2> QED
    BY <1>1, <1>2, <1>3, <1>4, <1>5 DEF Next

\* A start adds one instance, and only below the cap.
LEMMA StartKeepsCap ==
  ASSUME IInv, NEW id \in Ids, NEW b \in {"e2b", "local"}, Start(id, b)
  PROVE  Cardinality(Counted') <= SoftCap
<1>1. Counted' \subseteq Active \union {id}
  BY DEF IInv, TypeOK, Start, StartGoes, Counted, Active, Known, StatusOf,
         Objects, historyVars
<1>2. IsFiniteSet(Active)
  BY IdsAssumption, FS_Subset DEF Active, Known
<1>3. IsFiniteSet(Active \union {id})
  BY <1>2, FS_AddElement
<1>4. Cardinality(Active \union {id}) <= Cardinality(Active) + 1
  <2>1. \/ Cardinality(Active \union {id}) = Cardinality(Active)
        \/ Cardinality(Active \union {id}) = Cardinality(Active) + 1
    BY <1>2, FS_AddElement, Zenon
  <2>2. Cardinality(Active) \in Nat
    BY <1>2, FS_CardinalityType
  <2> QED
    BY <2>1, <2>2
<1>5. Cardinality(Counted') <= Cardinality(Active \union {id})
  BY <1>1, <1>3, FS_Subset
<1>6. IsFiniteSet(Counted')
  BY <1>1, <1>3, FS_Subset
<1>7. /\ Cardinality(Active) \in Nat
      /\ Cardinality(Active \union {id}) \in Nat
      /\ Cardinality(Counted') \in Nat
  BY <1>2, <1>3, <1>6, FS_CardinalityType
<1> QED
  BY <1>4, <1>5, <1>7, BoundAssumption DEF Start

\* Overlapping starts never exceed the soft cap: the counted instances, those
\* not stopped during their start and whose kill calls worked, stay within it.
THEOREM CapHolds == Spec => []CapBoundsInstances
<1>1. Init => CapBoundsInstances
  <2> SUFFICES ASSUME Init PROVE CapBoundsInstances
    OBVIOUS
  <2>1. Active \ (raced \union unreleased) = {}
    BY DEF Init, Active, Known
  <2> QED
    BY <2>1, FS_EmptySet, BoundAssumption DEF CapBoundsInstances
<1>2. IInv /\ CapBoundsInstances /\ [Next]_vars => CapBoundsInstances'
  <2> SUFFICES ASSUME IInv, CapBoundsInstances, [Next]_vars
               PROVE  Cardinality(Counted') <= SoftCap
    BY DEF CapBoundsInstances, Counted
  <2>1. CASE \E id \in Ids, b \in {"e2b", "local"} : Start(id, b)
    BY <2>1, StartKeepsCap
  <2>2. CASE ~(\E id \in Ids, b \in {"e2b", "local"} : Start(id, b))
    <3>1. Counted' \subseteq Counted
      BY <2>2, CountedShrinks
    <3>2. IsFiniteSet(Counted)
      BY IdsAssumption, FS_Subset DEF Counted, Active, Known
    <3>3. Cardinality(Counted') <= Cardinality(Counted) /\ IsFiniteSet(Counted')
      BY <3>1, <3>2, FS_Subset
    <3>4. Cardinality(Counted') \in Nat /\ Cardinality(Counted) \in Nat
      BY <3>2, <3>3, FS_CardinalityType
    <3> QED
      BY <3>3, <3>4, BoundAssumption DEF CapBoundsInstances, Counted
  <2> QED
    BY <2>1, <2>2
<1> QED
  BY <1>1, <1>2, IInvInvariant, PTL DEF Spec

-----------------------------------------------------------------------------
(* The refinement of NetworkLease.                                         *)

\* A step that leaves start, resource and handle of every other instance
\* alone moves at most the lease of instance id.
LEMMA OneLeaseMoves ==
  ASSUME NEW id \in Ids,
         \A j \in Ids \ {id} : /\ start'[j] = start[j]
                               /\ resource'[j] = resource[j]
                               /\ handle'[j] = handle[j]
  PROVE  [j \in Ids |-> LeasePhase(j)]'
           = [[j \in Ids |-> LeasePhase(j)] EXCEPT ![id] = LeasePhase(id)']
<1>1. ASSUME NEW j \in Ids, j # id PROVE LeasePhase(j)' = LeasePhase(j)
  BY <1>1 DEF LeasePhase
<1> HIDE DEF LeasePhase
<1> QED
  BY <1>1

LEMMA LeaseInit == Init => Lease!Init
BY DEF Init, Lease!Init, LeasePhase

LEMMA LeaseStep == IInv /\ [Next]_vars => [Lease!Next]_(Lease!vars)
<1> USE DEF IInv, InstancesInv, InstanceInv, TypeOK, Objects, recordVars,
            historyVars
<1> DEFINE Phases == [j \in Ids |-> LeasePhase(j)]
           Allowed(id, from, to) == LeasePhase(id) \in from /\ LeasePhase(id)' = to
           Moved(id) == Phases' = [Phases EXCEPT ![id] = LeasePhase(id)']
           LeaseMoves(id) ==
             \/ /\ UNCHANGED unreleased
                /\ \/ Allowed(id, {"absent"}, "starting")
                   \/ Allowed(id, {"starting"}, "held")
                   \/ Allowed(id, {"starting", "held", "lost"}, "released")
                   \/ LeasePhase(id)' = LeasePhase(id)
             \/ /\ unreleased' = unreleased \union {id}
                /\ \/ Allowed(id, {"starting", "held"}, "lost")
                   \/ Allowed(id, {"starting"}, "released")
                   \/ LeasePhase(id)' = LeasePhase(id)
           Step(id) == Moved(id) /\ LeaseMoves(id)
<1>0. ASSUME NEW id \in Ids, Step(id) PROVE [Lease!Next]_(Lease!vars)
  <2>1. Phases' = [Phases EXCEPT ![id] = LeasePhase(id)'] /\ Phases[id] = LeasePhase(id)
    BY <1>0
  <2>2. LeasePhase(id)' = LeasePhase(id) => Phases' = Phases
    BY <2>1
  <2> HIDE DEF Phases
  <2>3. LeaseMoves(id)
    BY <1>0
  <2> QED
    BY <2>1, <2>2, <2>3 DEF Lease!Next, Lease!vars, Lease!Goes, Lease!Begin,
       Lease!Acquire, Lease!Release, Lease!ReleaseFails, Phases
<1>1. ASSUME IInv, NEW id \in Ids, StartStep(id) PROVE Step(id)
  <2>1. ASSUME NEW b \in {"e2b", "local"}, Start(id, b) PROVE Step(id)
    <3>1. Moved(id)
      BY <1>1, <2>1, OneLeaseMoves DEF Start, StartGoes
    <3>2. LeaseMoves(id)
      BY <1>1, <2>1 DEF Start, StartGoes, LeasePhase
    <3> QED
      BY <3>1, <3>2
  <2>2. CASE CreateRejected(id)
    <3>1. Moved(id)
      BY <1>1, <2>2, OneLeaseMoves DEF CreateRejected, StartGoes, Finish
    <3>2. LeaseMoves(id)
      BY <1>1, <2>2 DEF CreateRejected, StartGoes, Finish, LeasePhase
    <3> QED
      BY <3>1, <3>2
  <2>3. CASE Created(id)
    <3>1. Moved(id)
      BY <1>1, <2>3, OneLeaseMoves DEF Created, StartGoes
    <3>2. LeaseMoves(id)
      BY <1>1, <2>3 DEF Created, StartGoes, LeasePhase
    <3> QED
      BY <3>1, <3>2
  <2>4. CASE Booted(id)
    <3>1. Moved(id)
      BY <1>1, <2>4, OneLeaseMoves DEF Booted, StartGoes, Finish
    <3>2. LeaseMoves(id)
      BY <1>1, <2>4 DEF Booted, StartGoes, Finish, LeasePhase
    <3> QED
      BY <3>1, <3>2
  <2>5. CASE BootFails(id)
    <3>1. Moved(id)
      BY <1>1, <2>5, OneLeaseMoves DEF BootFails, StartGoes
    <3>2. LeaseMoves(id)
      BY <1>1, <2>5 DEF BootFails, StartGoes, LeasePhase
    <3> QED
      BY <3>1, <3>2
  <2>6. CASE Cleaned(id)
    <3>1. Moved(id)
      BY <1>1, <2>6, OneLeaseMoves DEF Cleaned, StartGoes, Finish
    <3>2. LeaseMoves(id)
      BY <1>1, <2>6 DEF Cleaned, StartGoes, Finish, LeasePhase
    <3> QED
      BY <3>1, <3>2
  <2>7. CASE CleanupFails(id)
    <3>1. Moved(id)
      BY <1>1, <2>7, OneLeaseMoves DEF CleanupFails, StartGoes, Finish
    <3>2. LeaseMoves(id)
      BY <1>1, <2>7 DEF CleanupFails, StartGoes, Finish, LeasePhase
    <3> QED
      BY <3>1, <3>2
  <2>8. CASE Mounted(id)
    <3>1. Moved(id)
      BY <1>1, <2>8, OneLeaseMoves DEF Mounted, StartGoes, Finish
    <3>2. LeaseMoves(id)
      BY <1>1, <2>8 DEF Mounted, StartGoes, Finish, LeasePhase
    <3> QED
      BY <3>1, <3>2
  <2> QED
    BY <1>1, <2>1, <2>2, <2>3, <2>4, <2>5, <2>6, <2>7, <2>8 DEF StartStep
<1>2. ASSUME IInv, NEW id \in Ids, StopStep(id) PROVE Step(id)
  <2>1. CASE StopWithoutHandle(id)
    <3>1. Moved(id)
      BY <1>2, <2>1, OneLeaseMoves DEF StopWithoutHandle, RaceWithStart, Known
    <3>2. LeaseMoves(id)
      BY <1>2, <2>1 DEF StopWithoutHandle, RaceWithStart, Known, LeasePhase
    <3> QED
      BY <3>1, <3>2
  <2>2. CASE StopBegins(id)
    <3>1. Moved(id)
      BY <1>2, <2>2, OneLeaseMoves DEF StopBegins, RaceWithStart, Known
    <3>2. LeaseMoves(id)
      BY <1>2, <2>2 DEF StopBegins, RaceWithStart, Known, LeasePhase
    <3> QED
      BY <3>1, <3>2
  <2>3. ASSUME NEW o \in Objects, Killed(id, o) PROVE Step(id)
    <3>1. Moved(id)
      BY <1>2, <2>3, OneLeaseMoves DEF Killed, KillEnds, PutBackStopped
    <3>2. LeaseMoves(id)
      BY <1>2, <2>3 DEF Killed, KillEnds, PutBackStopped, LeasePhase
    <3> QED
      BY <3>1, <3>2
  <2>4. ASSUME NEW o \in Objects, KillRejected(id, o) PROVE Step(id)
    <3>1. Moved(id)
      BY <1>2, <2>4, OneLeaseMoves DEF KillRejected, KillEnds
    <3>2. LeaseMoves(id)
      BY <1>2, <2>4 DEF KillRejected, KillEnds, LeasePhase
    <3> QED
      BY <3>1, <3>2
  <2>5. ASSUME NEW o \in Objects, UnmountFails(id, o) PROVE Step(id)
    <3>1. Moved(id)
      BY <1>2, <2>5, OneLeaseMoves DEF UnmountFails, KillEnds, PutBackStopped
    <3>2. LeaseMoves(id)
      BY <1>2, <2>5 DEF UnmountFails, KillEnds, PutBackStopped, LeasePhase
    <3> QED
      BY <3>1, <3>2
  <2> QED
    BY <1>2, <2>1, <2>2, <2>3, <2>4, <2>5 DEF StopStep
<1>3. ASSUME IInv, NEW id \in Ids, SandboxExpires(id) PROVE Step(id)
  <2>1. Moved(id)
    BY <1>3, OneLeaseMoves DEF SandboxExpires
  <2>2. LeaseMoves(id)
    BY <1>3 DEF SandboxExpires, LeasePhase
  <2> QED
    BY <2>1, <2>2
<1>4. ASSUME NEW id \in Ids, NEW a \in Agents, Attach(id, a) \/ Detach(id, a)
      PROVE  UNCHANGED <<Phases, unreleased>>
  <2>1. UNCHANGED <<start, resource, handle, unreleased>>
    BY <1>4 DEF Attach, Detach
  <2> QED
    BY <2>1 DEF LeasePhase
<1>5. ASSUME UNCHANGED vars PROVE UNCHANGED <<Phases, unreleased>>
  BY <1>5 DEF vars, LeasePhase
<1>6. UNCHANGED <<Phases, unreleased>> => UNCHANGED Lease!vars
  BY DEF Lease!vars
<1> HIDE DEF Phases, Step
<1> QED
  BY <1>0, <1>1, <1>2, <1>3, <1>4, <1>5, <1>6 DEF Next

\* Overlapping starts, stops and failures implement the lease: a sandbox or
\* tool is acquired by its start only, never taken back once let go, and never
\* out of the broker's hands while alive unless a release call failed.
THEOREM BrokerImplementsLease == Spec => ImplementsLease
<1>1. IInv /\ [Next]_vars => [Lease!Next]_(Lease!vars)
  BY LeaseStep
<1> QED
  BY LeaseInit, <1>1, IInvInvariant, PTL DEF Spec, Lease!Spec, ImplementsLease
=============================================================================
