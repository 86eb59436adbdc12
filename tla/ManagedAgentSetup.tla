--------------------------- MODULE ManagedAgentSetup ---------------------------
(***************************************************************************)
(* How turns of one ManagedAgentBackend (managed_agent_backend.py) come to *)
(* a session: the tools are built, the agent and the environment are       *)
(* looked up in the caches of the backend or created, the session is       *)
(* created or handed over by the caller.  Turns overlap and share the      *)
(* caches; a step is the code between two awaits.                          *)
(*                                                                         *)
(* An agent at the provider is known by what it was created with.          *)
(***************************************************************************)
EXTENDS Naturals

CONSTANTS
  MaxTurns,   \* bound: calls of stream()
  None,       \* None
  Tools       \* what the model, prompt and tools of an agent can be

\* The calls of stream(), numbered as they begin.
Turns == 1 .. MaxTurns

Configs == [tools : Tools, gateway : BOOLEAN]

ASSUME NoneAssumption == MaxTurns \in Nat /\ None \notin Turns \union Configs

VARIABLES
  step,           \* what each turn awaits
  config,         \* its agent, effective tools and gateway flag
  continues,      \* context.handles has a session id
  agentOf,        \* agent_id
  agentIds,       \* _agent_ids, by fingerprint
  environment     \* _environment_id is set

cacheVars == <<agentIds, environment>>
callVars  == <<config, continues, agentOf>>
setupVars == <<step, callVars, cacheVars>>

Preparing == {"building", "agent", "environment", "session"}

SetupTypeOK ==
  /\ config \in [Turns -> Configs \union {None}]
  /\ continues \in [Turns -> BOOLEAN]
  /\ agentOf \in [Turns -> Configs \union {None}]
  /\ agentIds \in [Configs -> Configs \union {None}]
  /\ environment \in BOOLEAN

SetupInit ==
  /\ step = [t \in Turns |-> "idle"]
  /\ config = [t \in Turns |-> None]
  /\ continues = [t \in Turns |-> FALSE]
  /\ agentOf = [t \in Turns |-> None]
  /\ agentIds = [k \in Configs |-> None]
  /\ environment = FALSE

At(t, S) == step[t] \in S
Go(t, s) == step' = [step EXCEPT ![t] = s]

\* stream() is over: its local variables are gone.
Return(t) ==
  /\ Go(t, "done")
  /\ config' = [config EXCEPT ![t] = None]
  /\ agentOf' = [agentOf EXCEPT ![t] = None]
  /\ continues' = [continues EXCEPT ![t] = FALSE]

\* Mutant: the key forgets the flag that a single call may override.
FingerprintWithoutGateway(c) == [c EXCEPT !.gateway = FALSE]

\* The key of an agent: the values that are hashed, among them the gateway.
Fingerprint(c) == c

\* The checks of the caches run on to the next await.
SessionStep(t) == IF continues[t] THEN "opening" ELSE "session"
EnvironmentStep(t) ==
  IF environment THEN SessionStep(t) ELSE "environment"

\* stream() is called with user messages; without any it raises ValueError.
Call(t, again) ==
  /\ At(t, {"idle"}) /\ \A u \in 1 .. t - 1 : ~At(u, {"idle"})
  /\ \/ Go(t, "done") /\ UNCHANGED continues
     \/ Go(t, "building") /\ continues' = [continues EXCEPT ![t] = again]
  /\ UNCHANGED <<config, agentOf, cacheVars>>

\* build_tools() has returned: _ensure_agent_id() finds the agent or goes on
\* to create it.
ToolsBuilt(t) ==
  /\ At(t, {"building"})
  /\ \E c \in Configs :
       /\ config' = [config EXCEPT ![t] = c]
       /\ agentOf' = [agentOf EXCEPT ![t] = agentIds[Fingerprint(c)]]
  /\ Go(t, IF agentOf'[t] # None THEN EnvironmentStep(t) ELSE "agent")
  /\ UNCHANGED <<continues, cacheVars>>

AgentCreated(t) ==
  /\ At(t, {"agent"})
  /\ agentIds' = [agentIds EXCEPT ![Fingerprint(config[t])] = config[t]]
  /\ agentOf' = [agentOf EXCEPT ![t] = config[t]]
  /\ Go(t, EnvironmentStep(t))
  /\ UNCHANGED <<config, continues, environment>>

EnvironmentCreated(t) ==
  /\ At(t, {"environment"})
  /\ environment' = TRUE
  /\ Go(t, SessionStep(t))
  /\ UNCHANGED <<callVars, agentIds>>

SessionCreated(t) ==
  /\ At(t, {"session"})
  /\ Go(t, "opening")
  /\ UNCHANGED <<callVars, cacheVars>>

\* A request fails or the caller cancels its task: there is nothing to clean up.
SetupFails(t) ==
  /\ At(t, Preparing)
  /\ Return(t)
  /\ UNCHANGED cacheVars

Prepare(t) ==
  ToolsBuilt(t) \/ AgentCreated(t) \/ EnvironmentCreated(t) \/ SessionCreated(t)

=============================================================================
