------------------------ MODULE ProviderBindings_proofs ------------------------
(***************************************************************************)
(* Proofs about ProviderBindings, for any number of turns, versions and    *)
(* configurations and any sequence of failures and cancellations.          *)
(***************************************************************************)
EXTENDS ProviderBindings, SequenceTheorems, TLAPS

\* The lock is held exactly across the two paid calls.
LockInv == \A c \in Callers : Provisioning(c) <=> holder = c

\* A caller provisions only what is still missing.
MissInv == \A c \in Callers : Provisioning(c) => ~Serves(version[c])

\* b is complete: its agent exists and was created for its version.
Complete(b) == b.agent \in 1 .. Len(agents) /\ agents[b.agent].version = b.version

MadeInv ==
  \A c \in Callers :
    pc[c] = "environment" => Complete([agent |-> made[c], version |-> version[c]])

BoundInv ==
  /\ stored # NoBinding => Complete(stored)
  /\ \A c \in Callers : got[c] # NoBinding => Complete(got[c])
  /\ \A c \in Callers :
       pc[c] = "done" => got[c] # NoBinding /\ got[c].version >= version[c]

IInv == TypeOK /\ LockInv /\ MissInv /\ MadeInv /\ BoundInv

-----------------------------------------------------------------------------
\* A waiter that leaves the queue leaves a queue of callers behind.
LEMMA RemoveAtType ==
  ASSUME NEW S, NEW s \in Seq(S), NEW i \in 1 .. Len(s)
  PROVE  RemoveAt(s, i) \in Seq(S)
<1>1. SubSeq(s, 1, i - 1) \in Seq(S)
  BY SubSeqProperties
<1>2. SubSeq(s, i + 1, Len(s)) \in Seq(S)
  BY SubSeqProperties
<1> QED
  BY <1>1, <1>2, ConcatProperties DEF RemoveAt

\* Creating an agent numbers it last and changes no earlier one.
LEMMA NewAgentProperties ==
  ASSUME TypeOK, NEW c \in Callers, agents' = NewAgent(c)
  PROVE  /\ agents' \in Seq([config : Configs, version : Versions])
         /\ Len(agents') = Len(agents) + 1
         /\ agents'[Len(agents')].version = version[c]
         /\ \A i \in 1 .. Len(agents) : agents'[i] = agents[i]
BY AppendProperties DEF TypeOK, NewAgent

LEMMA InitIInv == Init => IInv
BY NoneAssumption
   DEF Init, IInv, TypeOK, LockInv, MissInv, MadeInv, BoundInv, Provisioning

Stages == {"idle", "waiting", "agent", "environment", "done", "failed"}

LEMMA EnterLockTypes ==
  ASSUME TypeOK, NEW c \in Callers, NEW v, EnterLock(c, v)
  PROVE  /\ holder' \in Callers \union {NoCaller}
         /\ got' \in [Callers -> Bindings \union {NoBinding}]
         /\ pc' \in [Callers -> Stages]
<1>1. CASE Serves(v) /\ UNCHANGED holder
  BY <1>1 DEF TypeOK, EnterLock, Stages
<1>2. CASE ~Serves(v) /\ UNCHANGED got
  BY <1>2 DEF TypeOK, EnterLock, Stages
<1> QED
  BY <1>1, <1>2 DEF EnterLock

LEMMA QueueTypes ==
  ASSUME TypeOK, NEW c \in Callers
  PROVE  /\ Append(waiters, c) \in Seq(Callers)
         /\ waiters # <<>> => Tail(waiters) \in Seq(Callers)
BY AppendProperties, HeadTailProperties DEF TypeOK

\* Every step keeps the inductive invariant.
LEMMA NextIInv == IInv /\ [Next]_vars => IInv'
<1> USE NoneAssumption, NumberAssumption
        DEF Provisioning, Serves, callVars, Bindings
<1>1. ASSUME IInv, NEW c \in Callers, NEW v \in Versions, NEW f \in Configs,
             Ask(c, v, f)
      PROVE  IInv'
  <2>1. TypeOK'
    <3>1. waiters' \in Seq(Callers)
      BY <1>1, QueueTypes DEF IInv, TypeOK, Ask
    <3>2. CASE EnterLock(c, v)
      BY <1>1, <3>1, <3>2, EnterLockTypes DEF IInv, TypeOK, Ask, Stages
    <3>3. CASE pc' = [pc EXCEPT ![c] = "waiting"] /\ UNCHANGED <<holder, got>>
      BY <1>1, <3>1, <3>3 DEF IInv, TypeOK, Ask
    <3> QED
      BY <1>1, <3>2, <3>3 DEF Ask
  <2>2. LockInv'
    BY <1>1 DEF IInv, TypeOK, LockInv, MissInv, MadeInv, BoundInv, Complete, Ask, EnterLock
  <2>3. MissInv'
    BY <1>1 DEF IInv, TypeOK, LockInv, MissInv, MadeInv, BoundInv, Complete, Ask, EnterLock
  <2>4. MadeInv'
    BY <1>1 DEF IInv, TypeOK, LockInv, MissInv, MadeInv, BoundInv, Complete, Ask, EnterLock
  <2>5. BoundInv'
    BY <1>1 DEF IInv, TypeOK, LockInv, MissInv, MadeInv, BoundInv, Complete, Ask, EnterLock
  <2> QED
    BY <2>1, <2>2, <2>3, <2>4, <2>5 DEF IInv
<1>2. ASSUME IInv, NEW c \in Callers, Acquire(c) PROVE IInv'
  <2>1. TypeOK'
    <3>1. waiters' \in Seq(Callers)
      BY <1>2, QueueTypes DEF IInv, Acquire
    <3> QED
      BY <1>2, <3>1, EnterLockTypes DEF IInv, TypeOK, Acquire, Stages
  <2>2. LockInv'
    BY <1>2 DEF IInv, TypeOK, LockInv, MissInv, MadeInv, BoundInv, Complete, Acquire, EnterLock
  <2>3. MissInv'
    BY <1>2 DEF IInv, TypeOK, LockInv, MissInv, MadeInv, BoundInv, Complete, Acquire, EnterLock
  <2>4. MadeInv'
    BY <1>2 DEF IInv, TypeOK, LockInv, MissInv, MadeInv, BoundInv, Complete, Acquire, EnterLock
  <2>5. BoundInv'
    BY <1>2 DEF IInv, TypeOK, LockInv, MissInv, MadeInv, BoundInv, Complete, Acquire, EnterLock
  <2> QED
    BY <2>1, <2>2, <2>3, <2>4, <2>5 DEF IInv
<1>3. ASSUME IInv, NEW c \in Callers, AgentCreated(c) PROVE IInv'
  <2>1. TypeOK'
    <3>1. agents' \in Seq([config : Configs, version : Versions]) /\ Len(agents') \in Nat
      BY <1>3, NewAgentProperties, LenProperties DEF IInv, AgentCreated
    <3> QED
      BY <1>3, <3>1 DEF IInv, TypeOK, AgentCreated
  <2>2. LockInv'
    BY <1>3, NewAgentProperties DEF IInv, TypeOK, LockInv, MissInv, MadeInv, BoundInv, Complete, AgentCreated
  <2>3. MissInv'
    BY <1>3, NewAgentProperties DEF IInv, TypeOK, LockInv, MissInv, MadeInv, BoundInv, Complete, AgentCreated
  <2>4. MadeInv'
    BY <1>3, NewAgentProperties DEF IInv, TypeOK, LockInv, MissInv, MadeInv, BoundInv, Complete, AgentCreated
  <2>5. BoundInv'
    <3>1. \A b : Complete(b) => Complete(b)'
      <4>1. Len(agents) \in Nat /\ Len(agents') = Len(agents) + 1
        BY <1>3, NewAgentProperties, LenProperties DEF IInv, TypeOK, AgentCreated
      <4>2. \A i \in 1 .. Len(agents) : agents'[i] = agents[i]
        BY <1>3, NewAgentProperties DEF IInv, AgentCreated
      <4> QED
        BY <4>1, <4>2 DEF Complete
    <3> QED
      BY <1>3, <3>1 DEF IInv, TypeOK, BoundInv, AgentCreated
  <2> QED
    BY <2>1, <2>2, <2>3, <2>4, <2>5 DEF IInv
<1>4. ASSUME IInv, NEW c \in Callers, EnvironmentCreated(c) PROVE IInv'
  <2>1. TypeOK'
    BY <1>4 DEF IInv, TypeOK, LockInv, MissInv, MadeInv, BoundInv, Complete, EnvironmentCreated
  <2>2. LockInv'
    BY <1>4 DEF IInv, TypeOK, LockInv, MissInv, MadeInv, BoundInv, Complete, EnvironmentCreated
  <2>3. MissInv'
    BY <1>4 DEF IInv, TypeOK, LockInv, MissInv, MadeInv, BoundInv, Complete, EnvironmentCreated
  <2>4. MadeInv'
    BY <1>4 DEF IInv, TypeOK, LockInv, MissInv, MadeInv, BoundInv, Complete, EnvironmentCreated
  <2>5. BoundInv'
    <3> DEFINE new == [agent |-> made[c], version |-> version[c]]
    <3>1. stored' = new /\ got' = [got EXCEPT ![c] = new]
      BY <1>4 DEF EnvironmentCreated
    <3>2. new \in Bindings /\ new # NoBinding /\ Complete(new)
      BY <1>4 DEF IInv, TypeOK, MadeInv, EnvironmentCreated
    <3>3. version[c] \in Nat
      BY <1>4 DEF IInv, TypeOK
    <3>4. new.version >= version'[c]
      BY <1>4, <3>3 DEF EnvironmentCreated
    <3>5. \A b : Complete(b)' <=> Complete(b)
      BY <1>4 DEF EnvironmentCreated, Complete
    <3> HIDE DEF new
    <3> QED
      BY <1>4, <3>1, <3>2, <3>4, <3>5 DEF IInv, TypeOK, BoundInv, EnvironmentCreated
  <2> QED
    BY <2>1, <2>2, <2>3, <2>4, <2>5 DEF IInv
<1>5. ASSUME IInv, NEW c \in Callers, ProvisionFails(c) PROVE IInv'
  <2>1. TypeOK'
    BY <1>5, NewAgentProperties DEF IInv, TypeOK, LockInv, MissInv, MadeInv, BoundInv, Complete, ProvisionFails
  <2>2. LockInv'
    BY <1>5, NewAgentProperties DEF IInv, TypeOK, LockInv, MissInv, MadeInv, BoundInv, Complete, ProvisionFails
  <2>3. MissInv'
    BY <1>5, NewAgentProperties DEF IInv, TypeOK, LockInv, MissInv, MadeInv, BoundInv, Complete, ProvisionFails
  <2>4. MadeInv'
    BY <1>5, NewAgentProperties DEF IInv, TypeOK, LockInv, MissInv, MadeInv, BoundInv, Complete, ProvisionFails
  <2>5. BoundInv'
    BY <1>5, NewAgentProperties DEF IInv, TypeOK, LockInv, MissInv, MadeInv, BoundInv, Complete, ProvisionFails
  <2> QED
    BY <2>1, <2>2, <2>3, <2>4, <2>5 DEF IInv
<1>6. ASSUME IInv, NEW c \in Callers, WaitCancelled(c) PROVE IInv'
  <2>1. TypeOK'
    BY <1>6, RemoveAtType DEF IInv, TypeOK, LockInv, MissInv, MadeInv, BoundInv, Complete, WaitCancelled
  <2>2. LockInv'
    BY <1>6 DEF IInv, TypeOK, LockInv, MissInv, MadeInv, BoundInv, Complete, WaitCancelled
  <2>3. MissInv'
    BY <1>6 DEF IInv, TypeOK, LockInv, MissInv, MadeInv, BoundInv, Complete, WaitCancelled
  <2>4. MadeInv'
    BY <1>6 DEF IInv, TypeOK, LockInv, MissInv, MadeInv, BoundInv, Complete, WaitCancelled
  <2>5. BoundInv'
    BY <1>6 DEF IInv, TypeOK, LockInv, MissInv, MadeInv, BoundInv, Complete, WaitCancelled
  <2> QED
    BY <2>1, <2>2, <2>3, <2>4, <2>5 DEF IInv
<1>7. ASSUME IInv, UNCHANGED vars PROVE IInv'
  BY <1>7 DEF vars, IInv, TypeOK, LockInv, MissInv, MadeInv, BoundInv, Complete
<1> QED
  BY <1>1, <1>2, <1>3, <1>4, <1>5, <1>6, <1>7 DEF Next, Settle

LEMMA IInvInvariant == Spec => []IInv
BY InitIInv, NextIInv, PTL DEF Spec

-----------------------------------------------------------------------------
\* Every variable keeps its type.
THEOREM TypesHold == Spec => []TypeOK
<1>1. IInv => TypeOK
  BY DEF IInv
<1> QED
  BY IInvInvariant, <1>1, PTL

\* No turn goes on with a binding that is missing, half made or too old.
THEOREM AnswersHold == Spec => []AnswersAreCurrent
<1>1. IInv => AnswersAreCurrent
  BY DEF IInv, BoundInv, AnswersAreCurrent, Complete
<1> QED
  BY IInvInvariant, <1>1, PTL

\* Only the holder of the lock creates an agent, and only on a miss.
LEMMA CreateStep ==
  ASSUME IInv, Next
  PROVE  CreatedOnMiss
<1> SUFFICES ASSUME agents' # agents
             PROVE  \E c \in Callers :
                      /\ holder = c
                      /\ \A d \in Callers : Provisioning(d) => d = c
                      /\ ~Serves(agents'[Len(agents')].version)
  BY DEF CreatedOnMiss
<1>1. PICK c \in Callers : AgentCreated(c) \/ ProvisionFails(c)
  BY DEF Next, Ask, Acquire, EnvironmentCreated, WaitCancelled, Settle
<1>2. agents' = NewAgent(c) /\ pc[c] = "agent"
  BY <1>1 DEF AgentCreated, ProvisionFails
<1>3. agents'[Len(agents')].version = version[c]
  BY <1>2, NewAgentProperties DEF IInv
<1>4. Provisioning(c) /\ holder = c /\ ~Serves(version[c])
  BY <1>2 DEF IInv, LockInv, MissInv, Provisioning
<1>5. \A d \in Callers : Provisioning(d) => d = c
  BY <1>4 DEF IInv, LockInv
<1> QED
  BY <1>3, <1>4, <1>5

\* Racing turns pay for one agent per version, however many there are.
THEOREM CreatesOnceHolds == Spec => CreatesOnce
<1>1. IInv /\ [Next]_vars => [CreatedOnMiss]_vars
  BY CreateStep
<1> QED
  BY IInvInvariant, <1>1, PTL DEF Spec, CreatesOnce

-----------------------------------------------------------------------------
(* The registry implements BindingStore.                                   *)

LEMMA StoreInit == Init => Store!Init
BY DEF Init, Store!Init

LEMMA StoreStep == IInv /\ [Next]_vars => [Store!Next]_Store!vars
<1> SUFFICES ASSUME IInv, [Next]_vars PROVE [Store!Next]_Store!vars
  OBVIOUS
<1> USE DEF Store!vars
<1>1. ASSUME NEW c \in Callers, NEW v, EnterLock(c, v), UNCHANGED stored
      PROVE  Store!Reuse(c) \/ UNCHANGED Store!vars
  BY <1>1 DEF EnterLock, Serves, Store!Reuse
<1>2. ASSUME NEW c \in Callers, NEW v \in Versions, NEW f \in Configs, Ask(c, v, f)
      PROVE  Store!Reuse(c) \/ UNCHANGED Store!vars
  BY <1>1, <1>2 DEF Ask
<1>3. ASSUME NEW c \in Callers, Acquire(c)
      PROVE  Store!Reuse(c) \/ UNCHANGED Store!vars
  BY <1>1, <1>3 DEF Acquire
<1>4. ASSUME NEW c \in Callers, EnvironmentCreated(c)
      PROVE  Store!Provision(c, stored')
  <2>1. stored' = [agent |-> made[c], version |-> version[c]]
    BY <1>4 DEF EnvironmentCreated
  <2>2. stored' # NoBinding
    BY <1>4, <2>1, NoneAssumption DEF IInv, TypeOK, Bindings
  <2>3. stored = NoBinding \/ stored.version < stored'.version
    <3>1. Provisioning(c)
      BY <1>4 DEF EnvironmentCreated, Provisioning
    <3>2. ~Serves(version[c])
      BY <3>1 DEF IInv, MissInv
    <3>3. version[c] \in Nat
      BY NumberAssumption DEF IInv, TypeOK
    <3>4. stored # NoBinding => stored.version \in Nat
      BY NumberAssumption DEF IInv, TypeOK, Bindings
    <3> QED
      BY <3>2, <3>3, <3>4, <2>1 DEF Serves
  <2> QED
    BY <1>4, <2>2, <2>3 DEF EnvironmentCreated, Store!Provision
<1>5. ASSUME NEW c \in Callers,
             AgentCreated(c) \/ ProvisionFails(c) \/ WaitCancelled(c)
      PROVE  UNCHANGED Store!vars
  BY <1>5 DEF AgentCreated, ProvisionFails, WaitCancelled
<1>6. CASE UNCHANGED vars
  BY <1>6 DEF vars
<1> QED
  BY <1>2, <1>3, <1>4, <1>5, <1>6 DEF Next, Settle, Store!Next

\* Under failures and cancellations the registry is one atomic register.
THEOREM RegistryImplementsStore == Spec => ImplementsStore
<1> QED
  BY IInvInvariant, StoreInit, StoreStep, PTL DEF Spec, ImplementsStore, Store!Spec
=============================================================================
