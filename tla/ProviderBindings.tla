--------------------------- MODULE ProviderBindings ---------------------------
(***************************************************************************)
(* InMemoryProviderBindingRegistry (in_memory_provider_binding_registry.py)*)
(* under turns that provision concurrently: get_or_provision() holds the   *)
(* key's asyncio.Lock across the two paid calls of                         *)
(* _provision_anthropic_agent() (managed_agent_backend_v2.py), which may   *)
(* fail or be cancelled by the turn's total timeout.                       *)
(*                                                                         *)
(* One key (user_id, agent_id, provider): keys share nothing.  An agent is *)
(* known by its number, in the order Anthropic created them.               *)
(***************************************************************************)
EXTENDS Naturals, Sequences, SequencesExt

CONSTANTS
  Callers,     \* turns that run at once; each may ask more than once
  Versions,    \* for_version values
  Configs,     \* what _fingerprint_agent tells apart
  NoCaller,    \* no holder of the lock
  NoBinding,   \* None
  MaxAgents    \* bound: agents created

Bindings == [agent : Nat, version : Versions]

ASSUME NoneAssumption == NoCaller \notin Callers /\ NoBinding \notin Bindings
ASSUME NumberAssumption == Versions \subseteq Nat /\ MaxAgents \in Nat

VARIABLES
  agents,     \* the agents created so far: config and version of their caller
  stored,     \* _bindings[key]
  holder,     \* the caller that holds _locks[key]
  waiters,    \* the lock's queue
  pc,         \* where each caller is
  version,    \* the for_version of its call
  config,     \* the agent configuration of its turn
  made,       \* the agent its provision() has created, 0 before and after
  got         \* what its last call returned

callVars == <<version, config>>
vars == <<agents, stored, holder, waiters, pc, callVars, made, got>>

TypeOK ==
  /\ agents \in Seq([config : Configs, version : Versions])
  /\ stored \in Bindings \union {NoBinding}
  /\ holder \in Callers \union {NoCaller}
  /\ waiters \in Seq(Callers)
  /\ pc \in [Callers -> {"idle", "waiting", "agent", "environment", "done", "failed"}]
  /\ version \in [Callers -> Versions]
  /\ config \in [Callers -> Configs]
  /\ made \in [Callers -> Nat]
  /\ got \in [Callers -> Bindings \union {NoBinding}]

Init ==
  /\ agents = <<>> /\ stored = NoBinding /\ holder = NoCaller /\ waiters = <<>>
  /\ pc = [c \in Callers |-> "idle"]
  /\ version \in [Callers -> Versions] /\ config \in [Callers -> Configs]
  /\ made = [c \in Callers |-> 0]
  /\ got = [c \in Callers |-> NoBinding]

Provisioning(c) == pc[c] \in {"agent", "environment"}

\* Mutant: a stored binding of any version is returned.
ServesAny(v) == stored # NoBinding

Serves(v) == stored # NoBinding /\ stored.version >= v

\* c has the lock: it reads again, and provisions on a miss.
EnterLock(c, v) ==
  \/ /\ Serves(v)
     /\ pc' = [pc EXCEPT ![c] = "done"]
     /\ got' = [got EXCEPT ![c] = stored]
     /\ UNCHANGED holder
  \/ /\ ~Serves(v)
     /\ pc' = [pc EXCEPT ![c] = "agent"]
     /\ holder' = c
     /\ UNCHANGED got

-----------------------------------------------------------------------------
\* Mutant: every call constructs a lock of its own.
AskUnlocked(c, v, f) ==
  /\ pc[c] \in {"idle", "done", "failed"}
  /\ version' = [version EXCEPT ![c] = v]
  /\ config' = [config EXCEPT ![c] = f]
  /\ EnterLock(c, v)
  /\ UNCHANGED <<agents, stored, waiters, made>>

\* A turn asks for its binding.  A free lock nobody waits for is taken at
\* once, otherwise the caller queues.
Ask(c, v, f) ==
  /\ pc[c] \in {"idle", "done", "failed"}
  /\ version' = [version EXCEPT ![c] = v]
  /\ config' = [config EXCEPT ![c] = f]
  /\ \/ /\ holder = NoCaller /\ waiters = <<>>
        /\ EnterLock(c, v)
        /\ UNCHANGED waiters
     \/ /\ holder # NoCaller \/ waiters # <<>>
        /\ pc' = [pc EXCEPT ![c] = "waiting"]
        /\ waiters' = Append(waiters, c)
        /\ UNCHANGED <<holder, got>>
  /\ UNCHANGED <<agents, stored, made>>

\* Mutant: a caller that waited does not read the binding again.
AcquireWithoutReread(c) ==
  /\ pc[c] = "waiting" /\ holder = NoCaller
  /\ waiters # <<>> /\ Head(waiters) = c
  /\ waiters' = Tail(waiters)
  /\ pc' = [pc EXCEPT ![c] = "agent"]
  /\ holder' = c
  /\ UNCHANGED <<agents, stored, callVars, made, got>>

\* The first waiter gets the lock.
Acquire(c) ==
  /\ pc[c] = "waiting" /\ holder = NoCaller
  /\ waiters # <<>> /\ Head(waiters) = c
  /\ waiters' = Tail(waiters)
  /\ EnterLock(c, version[c])
  /\ UNCHANGED <<agents, stored, callVars, made>>

NewAgent(c) == Append(agents, [config |-> config[c], version |-> version[c]])

\* agents.create returns.
AgentCreated(c) ==
  /\ pc[c] = "agent" /\ Len(agents) < MaxAgents
  /\ agents' = NewAgent(c)
  /\ made' = [made EXCEPT ![c] = Len(agents')]
  /\ pc' = [pc EXCEPT ![c] = "environment"]
  /\ UNCHANGED <<stored, holder, waiters, callVars, got>>

\* Mutant: the fields of the new binding are swapped.
EnvironmentCreatedSwapped(c) ==
  /\ pc[c] = "environment"
  /\ LET new == [agent |-> version[c], version |-> made[c]] IN
       /\ stored' = new
       /\ got' = [got EXCEPT ![c] = new]
  /\ holder' = NoCaller
  /\ made' = [made EXCEPT ![c] = 0]
  /\ pc' = [pc EXCEPT ![c] = "done"]
  /\ UNCHANGED <<agents, waiters, callVars>>

\* environments.create returns: the binding is stored and the lock released.
EnvironmentCreated(c) ==
  /\ pc[c] = "environment"
  /\ LET new == [agent |-> made[c], version |-> version[c]] IN
       /\ stored' = new
       /\ got' = [got EXCEPT ![c] = new]
  /\ holder' = NoCaller
  /\ made' = [made EXCEPT ![c] = 0]
  /\ pc' = [pc EXCEPT ![c] = "done"]
  /\ UNCHANGED <<agents, waiters, callVars>>

\* Mutant: the lock is not released when provision() raises.
ProvisionFailsHoldingLock(c) ==
  /\ Provisioning(c)
  /\ made' = [made EXCEPT ![c] = 0]
  /\ pc' = [pc EXCEPT ![c] = "failed"]
  /\ UNCHANGED <<agents, stored, holder, waiters, callVars, got>>

\* A paid call raises, or its await is cancelled and the server may have
\* served it all the same: the lock is released and nothing is stored.
ProvisionFails(c) ==
  /\ Provisioning(c)
  /\ \/ UNCHANGED agents
     \/ pc[c] = "agent" /\ Len(agents) < MaxAgents /\ agents' = NewAgent(c)
  /\ holder' = NoCaller
  /\ made' = [made EXCEPT ![c] = 0]
  /\ pc' = [pc EXCEPT ![c] = "failed"]
  /\ UNCHANGED <<stored, waiters, callVars, got>>

\* The turn's total timeout cancels a caller in the lock's queue.
WaitCancelled(c) ==
  /\ pc[c] = "waiting"
  /\ \E i \in 1 .. Len(waiters) : waiters[i] = c /\ waiters' = RemoveAt(waiters, i)
  /\ pc' = [pc EXCEPT ![c] = "failed"]
  /\ UNCHANGED <<agents, stored, holder, callVars, made, got>>

Settle(c) == AgentCreated(c) \/ EnvironmentCreated(c) \/ ProvisionFails(c)

Next == \E c \in Callers :
  \/ \E v \in Versions, f \in Configs : Ask(c, v, f)
  \/ Acquire(c) \/ Settle(c) \/ WaitCancelled(c)

(***************************************************************************)
(* The event loop runs a woken waiter, and a paid call returns, raises or  *)
(* is cancelled by the total timeout of its turn.                          *)
(***************************************************************************)
Spec ==
  /\ Init /\ [][Next]_vars
  /\ \A c \in Callers : WF_vars(Acquire(c)) /\ WF_vars(Settle(c))

-----------------------------------------------------------------------------
(* Properties.                                                             *)

\* An agent is created by the one caller that holds the lock, on a miss.
CreatedOnMiss ==
  agents' # agents =>
    \E c \in Callers : /\ holder = c
                       /\ \A d \in Callers : Provisioning(d) => d = c
                       /\ ~Serves(agents'[Len(agents')].version)

\* Racing callers never pay twice: once a binding is stored, no agent is
\* created for its version or an older one, by whatever interleaving.
CreatesOnce == [][CreatedOnMiss]_vars

\* A turn goes on with a binding that is complete and not older than it asked.
AnswersAreCurrent ==
  \A c \in Callers :
    pc[c] = "done" => /\ got[c] # NoBinding /\ got[c].version >= version[c]
                      /\ got[c].agent \in 1 .. Len(agents)
                      /\ agents[got[c].agent].version = got[c].version

\* Failures and cancellations do not wedge the key: whoever waits for the lock
\* or provisions gets an answer.
EveryCallEnds ==
  \A c \in Callers : pc[c] \notin {"idle", "done", "failed"} ~> pc[c] \in {"done", "failed"}

\* The registry is an atomic register that only moves to newer versions.
Store == INSTANCE BindingStore WITH current <- stored, returned <- got
ImplementsStore == Store!Spec
=============================================================================
