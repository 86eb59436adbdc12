------------------------- MODULE ManagedAgentV1_proofs -------------------------
(***************************************************************************)
(* Proofs about ManagedAgentV1, for any number of turns, any agents and    *)
(* tool uses, and an event stream of any length.                           *)
(***************************************************************************)
EXTENDS ManagedAgentV1, FiniteSetTheorems, SequenceTheorems, TLAPS

-----------------------------------------------------------------------------
(* The unread signals that cite a tool use, and how many they are.         *)

OnWire(w, i) == {n \in 1 .. Len(w) : w[n].kind = "idle" /\ i \in w[n].ids}

Citations(w, i) == Cardinality(OnWire(w, i))

Cites(e, i) == e.kind = "idle" /\ i \in e.ids

\* The signals of a stream are finitely many.
LEMMA CitationsFinite ==
  ASSUME NEW w \in Seq(Event), NEW i
  PROVE  /\ IsFiniteSet(OnWire(w, i)) /\ Citations(w, i) \in Nat
         /\ Citations(w, i) = 0 <=> OnWire(w, i) = {}
<1>1. IsFiniteSet(1 .. Len(w))
  BY FS_Interval, LenProperties
<1>2. IsFiniteSet(OnWire(w, i))
  BY <1>1, FS_Subset DEF OnWire
<1> QED
  BY <1>2, FS_CardinalityType, FS_EmptySet DEF Citations

\* A stream without events cites nothing.
LEMMA EmptyCites == ASSUME NEW i PROVE Citations(<<>>, i) = 0 /\ OnWire(<<>>, i) = {}
<1>1. OnWire(<<>>, i) = {}
  BY DEF OnWire
<1> QED
  BY <1>1, FS_EmptySet DEF Citations

\* An event appended to a stream adds one citation or none.
LEMMA AppendCites ==
  ASSUME NEW w \in Seq(Event), NEW e \in Event, NEW i
  PROVE  /\ Append(w, e) \in Seq(Event)
         /\ Citations(Append(w, e), i)
              = Citations(w, i) + (IF Cites(e, i) THEN 1 ELSE 0)
<1> DEFINE v == Append(w, e)
           n == Len(w) + 1
<1>1. v \in Seq(Event) /\ Len(v) = n /\ v[n] = e /\ \A k \in 1 .. Len(w) : v[k] = w[k]
  BY AppendProperties
<1>2. Len(w) \in Nat /\ n \notin OnWire(w, i)
  BY LenProperties DEF OnWire
<1>3. 1 .. n = (1 .. Len(w)) \union {n}
  BY <1>2
<1> HIDE DEF v, n
<1>4. OnWire(v, i) = IF Cites(e, i) THEN OnWire(w, i) \union {n} ELSE OnWire(w, i)
  BY <1>1, <1>3 DEF OnWire, Cites
<1>5. /\ IsFiniteSet(OnWire(w, i)) /\ Cardinality(OnWire(w, i)) \in Nat
      /\ Cardinality(OnWire(w, i) \union {n}) = Cardinality(OnWire(w, i)) + 1
  BY <1>2, CitationsFinite, FS_AddElement DEF Citations
<1>6. Citations(v, i) = Citations(w, i) + (IF Cites(e, i) THEN 1 ELSE 0)
  BY <1>4, <1>5 DEF Citations
<1> QED
  BY <1>1, <1>6 DEF v

\* Reading an event takes its citation, if it is one, from the stream.
LEMMA TailCites ==
  ASSUME NEW w \in Seq(Event), w # <<>>, NEW i
  PROVE  /\ Head(w) \in Event /\ Tail(w) \in Seq(Event)
         /\ Citations(w, i)
              = Citations(Tail(w), i) + (IF Cites(Head(w), i) THEN 1 ELSE 0)
<1> DEFINE t == Tail(w)
           S == OnWire(t, i)
           T == OnWire(w, i) \ {1}
           f == [k \in S |-> k + 1]
<1>1. /\ Head(w) = w[1] /\ Head(w) \in Event /\ t \in Seq(Event) /\ Len(t) = Len(w) - 1
      /\ \A k \in 1 .. Len(t) : t[k] = w[k + 1]
  BY HeadTailProperties
<1>2. Len(w) \in Nat \ {0}
  BY EmptySeq, LenProperties
<1>3. \A k \in 1 .. Len(t) : k + 1 \in 1 .. Len(w) /\ k + 1 # 1
  BY <1>1, <1>2
<1>4. \A m \in 1 .. Len(w) : m # 1 => m - 1 \in 1 .. Len(t) /\ (m - 1) + 1 = m
  BY <1>1, <1>2
<1> HIDE DEF t
<1>5. f \in [S -> T]
  BY <1>1, <1>3 DEF OnWire
<1>6. \A k, l \in S : f[k] = f[l] => k = l
  BY DEF OnWire
<1>7. \A m \in T : \E k \in S : f[k] = m
  <2> SUFFICES ASSUME NEW m \in T PROVE \E k \in S : f[k] = m
    OBVIOUS
  <2>1. m - 1 \in S /\ (m - 1) + 1 = m
    BY <1>1, <1>4 DEF OnWire
  <2> QED
    BY <2>1
<1> HIDE DEF f, S, T
<1>8. f \in Bijection(S, T)
  BY <1>5, <1>6, <1>7 DEF Bijection, Injection, Surjection, IsInjective
<1>9. Cardinality(T) = Cardinality(S)
  BY <1>1, <1>8, CitationsFinite, FS_Bijection DEF ExistsBijection, S
<1>10. 1 \in OnWire(w, i) <=> Cites(Head(w), i)
  BY <1>1, <1>2 DEF OnWire, Cites
<1>11. Citations(w, i) = Citations(t, i) + (IF Cites(Head(w), i) THEN 1 ELSE 0)
  <2>1. /\ IsFiniteSet(OnWire(w, i)) /\ Cardinality(OnWire(w, i)) \in Nat
        /\ Cardinality(T) = IF 1 \in OnWire(w, i) THEN Cardinality(OnWire(w, i)) - 1
                            ELSE Cardinality(OnWire(w, i))
    BY CitationsFinite, FS_RemoveElement DEF Citations, T
  <2> QED
    BY <1>9, <1>10, <2>1 DEF Citations, S
<1> QED
  BY <1>1, <1>11 DEF t

\* The events of a round are as many citations as its signal makes.
LEMMA RoundCites ==
  ASSUME NEW w \in Seq(Event), NEW S \in SUBSET Ids, NEW C \in SUBSET Ids,
         NEW es \in RoundOrders(S, C), NEW i
  PROVE  /\ w \o es \in Seq(Event)
         /\ Citations(w \o es, i) = Citations(w, i) + (IF i \in C THEN 1 ELSE 0)
<1> DEFINE u == UsesEvent(S)
           e == IdleEvent(C)
<1>1. u \in Event /\ e \in Event /\ ~Cites(u, i) /\ (Cites(e, i) <=> i \in C)
  BY DEF UsesEvent, IdleEvent, Event, Cites
<1> HIDE DEF u, e
<1>2. \A v \in Seq(Event) : \A a \in Event : v \o <<a>> = Append(v, a)
  OBVIOUS
<1>3. \A a, b \in Event : w \o <<a, b>> = Append(Append(w, a), b)
  OBVIOUS
<1>4. es \in {<<u, e>>, <<e, u>>, <<e>>}
  BY DEF RoundOrders, u, e
<1>5. \A v \in Seq(Event) :
        /\ Append(v, u) \in Seq(Event) /\ Citations(Append(v, u), i) = Citations(v, i)
        /\ Append(v, e) \in Seq(Event)
        /\ Citations(Append(v, e), i) = Citations(v, i) + (IF i \in C THEN 1 ELSE 0)
        /\ Citations(v, i) \in Nat
  <2> TAKE v \in Seq(Event)
  <2>1. Citations(v, i) \in Nat
    BY CitationsFinite
  <2>2. Append(v, u) \in Seq(Event) /\ Citations(Append(v, u), i) = Citations(v, i)
    BY <1>1, <2>1, AppendCites
  <2>3. /\ Append(v, e) \in Seq(Event)
        /\ Citations(Append(v, e), i) = Citations(v, i) + (IF i \in C THEN 1 ELSE 0)
    BY <1>1, <2>1, AppendCites
  <2> QED
    BY <2>1, <2>2, <2>3
<1>6. CASE es = <<u, e>>
  BY <1>1, <1>3, <1>5, <1>6
<1>7. CASE es = <<e, u>>
  BY <1>1, <1>3, <1>5, <1>7
<1>8. CASE es = <<e>>
  BY <1>1, <1>2, <1>5, <1>8
<1> QED
  BY <1>4, <1>6, <1>7, <1>8

\* A single event that is no requires_action signal cites nothing.
LEMMA SignalCites ==
  ASSUME NEW w \in Seq(Event), NEW k \in {"noid", "other", "end"}, NEW i
  PROVE  /\ w \o <<Signal(k)>> \in Seq(Event)
         /\ Citations(w \o <<Signal(k)>>, i) = Citations(w, i)
<1>1. Signal(k) \in Event /\ ~Cites(Signal(k), i)
  BY DEF Signal, Event, Cites
<1>2. w \o <<Signal(k)>> = Append(w, Signal(k))
  BY <1>1
<1>3. Citations(w, i) \in Nat
  BY CitationsFinite
<1>4. /\ Append(w, Signal(k)) \in Seq(Event)
      /\ Citations(Append(w, Signal(k)), i) = Citations(w, i)
  BY <1>1, <1>3, AppendCites
<1> QED
  BY <1>2, <1>4

-----------------------------------------------------------------------------
(* The inductive invariant.                                                *)

Labels == Preparing \union Streaming \union {"idle", "opening", "done"}

StepsOK ==
  /\ step \in [Turns -> Labels]
  /\ driver \in Turns \union {None}
  /\ \A t \in Turns : At(t, Streaming) => driver = t

LoopOK ==
  /\ session \in Configs \union {None}
  /\ model \in {"idle", "running", "waiting", "dead"}
  /\ log \subseteq Ids /\ pending \subseteq log
  /\ asked \in [CustomCalls -> Nat]
  /\ wire \in Seq(Event) /\ owed \subseteq log
  /\ buffer \in [Ids -> {"none", "custom", "server"}]
  /\ cycle \subseteq Ids /\ replied \subseteq cycle
  /\ runs \in [Ids -> Nat]

\* The turn knows its agent.
Settled == {"environment", "session", "opening"} \union Streaming

\* The cache holds each agent under the key it is found by, so that a turn knows
\* an agent of its own configuration or none.
AgentInv ==
  /\ \A k \in Configs : agentIds[k] \in {None, k}
  /\ \A t \in Turns : At(t, {"agent"}) => config[t] \in Configs
  /\ \A t \in Turns : At(t, Settled) => agentOf[t] # None
  /\ \A t \in Turns : agentOf[t] # None => agentOf[t] = config[t]

Cycling == driver # None /\ At(driver, {"listing", "executing", "posting"})

\* Whoever is not in its loop has nothing of it, and nothing of a cycle between
\* two cycles.
QuietInv ==
  /\ ~Listening => wire = <<>> /\ owed = {} /\ buffer = [i \in Ids |-> "none"]
  /\ ~Cycling => cycle = {} /\ replied = {}

\* A buffered use has the envelope of its id, and no call of the server runs.
LabelInv ==
  /\ \A i \in Ids : buffer[i] \in {"none", Envelope(i)}
  /\ \A i \in ServerCalls : runs[i] = 0

\* A custom call that was cited and is still pending is on the stream or in the
\* cycle in progress.
OwedInv ==
  \A i \in CustomCalls : i \in owed \intersect pending => Citations(wire, i) > 0 \/ i \in cycle

\* What the loop may still run is what it was asked and has not run.
CountInv ==
  \A i \in CustomCalls :
    runs[i] + Citations(wire, i) + (IF i \in cycle \ replied THEN 1 ELSE 0) <= asked[i]

IInv == /\ SetupTypeOK /\ StepsOK /\ AgentInv
        /\ LoopOK /\ QuietInv /\ LabelInv /\ OwedInv /\ CountInv

LEMMA InitInv == Init => IInv
<1> SUFFICES ASSUME Init PROVE IInv
  OBVIOUS
<1> USE DEF Init, SetupInit
<1>1. SetupTypeOK
  BY DEF SetupTypeOK
<1>2. StepsOK
  BY DEF StepsOK, Labels, Preparing, At, Streaming, Looping
<1>3. AgentInv
  BY DEF AgentInv, At, Settled, Streaming, Looping
<1>4. LoopOK
  <2>1. wire \in Seq(Event) /\ runs \in [Ids -> Nat] /\ asked \in [CustomCalls -> Nat]
    OBVIOUS
  <2> QED
    BY <2>1 DEF LoopOK
<1>5. QuietInv
  BY DEF QuietInv
<1>6. LabelInv
  BY DEF LabelInv, Ids
<1>7. OwedInv
  BY DEF OwedInv
<1>8. CountInv
  BY EmptyCites DEF CountInv, Ids
<1> QED
  BY <1>1, <1>2, <1>3, <1>4, <1>5, <1>6, <1>7, <1>8 DEF IInv

-----------------------------------------------------------------------------
(* The agents and the caches.                                              *)

\* Only the turn that takes a step moves.
LEMMA Moves ==
  ASSUME StepsOK, NEW t \in Turns, NEW s, Go(t, s)
  PROVE  step'[t] = s /\ \A u \in Turns : u # t => step'[u] = step[u]
BY DEF StepsOK, Go

\* A step that changes no turn's agent and takes no turn to where it knows one.
LEMMA AgentKept ==
  ASSUME AgentInv, UNCHANGED <<config, agentOf, agentIds>>,
         \A u \in Turns : At(u, {"agent"})' => At(u, {"agent"}),
         \A u \in Turns : At(u, Settled)' => At(u, Settled)
  PROVE  AgentInv'
BY DEF AgentInv

\* A turn that is over keeps nothing.
LEMMA ReturnSetup ==
  ASSUME SetupTypeOK, StepsOK, AgentInv, NEW t \in Turns, Return(t), UNCHANGED cacheVars
  PROVE  SetupTypeOK' /\ AgentInv'
<1> USE DEF Return, cacheVars
<1>1. SetupTypeOK'
  BY DEF SetupTypeOK
<1>2. \A u \in Turns : At(u, {"agent"})' => u # t /\ At(u, {"agent"})
  BY Moves DEF At
<1>3. \A u \in Turns : At(u, Settled)' => u # t /\ At(u, Settled)
  BY Moves DEF At, Settled, Streaming, Looping
<1>4. AgentInv'
  BY <1>2, <1>3 DEF AgentInv, SetupTypeOK
<1> QED
  BY <1>1, <1>4

\* A turn past its setup leaves the agents and the caches alone.
LEMMA GoSetup ==
  ASSUME SetupTypeOK, StepsOK, AgentInv, UNCHANGED <<callVars, cacheVars>>,
         NEW t \in Turns, At(t, Settled), NEW s \in Labels \ {"agent"}, Go(t, s)
  PROVE  SetupTypeOK' /\ AgentInv'
<1> USE DEF callVars, cacheVars
<1>1. SetupTypeOK'
  BY DEF SetupTypeOK
<1>2. \A u \in Turns : At(u, {"agent"})' => At(u, {"agent"})
  BY Moves DEF At
<1>3. \A u \in Turns : At(u, Settled)' => At(u, Settled)
  BY Moves DEF At
<1>4. AgentInv'
  BY <1>2, <1>3, AgentKept
<1> QED
  BY <1>1, <1>4

LEMMA CallSetup ==
  ASSUME SetupTypeOK, StepsOK, AgentInv, NEW t \in Turns, NEW again \in BOOLEAN, Call(t, again)
  PROVE  SetupTypeOK' /\ AgentInv'
<1> USE DEF Call, cacheVars
<1>1. SetupTypeOK'
  BY DEF SetupTypeOK
<1>2. \A u \in Turns : At(u, {"agent"})' => At(u, {"agent"})
  BY Moves DEF At
<1>3. \A u \in Turns : At(u, Settled)' => At(u, Settled)
  BY Moves DEF At, Settled, Streaming, Looping
<1>4. AgentInv'
  BY <1>2, <1>3, AgentKept
<1> QED
  BY <1>1, <1>4

LEMMA PrepareSetup ==
  ASSUME SetupTypeOK, StepsOK, AgentInv, NEW t \in Turns, Prepare(t)
  PROVE  SetupTypeOK' /\ AgentInv'
<1> USE DEF callVars, cacheVars
<1>1. ASSUME NEW s, Go(t, s)
      PROVE  \A u \in Turns :
               /\ At(u, {"agent"})' => (u = t /\ s = "agent") \/ (u # t /\ At(u, {"agent"}))
               /\ At(u, Settled)' => (u = t /\ s \in Settled) \/ (u # t /\ At(u, Settled))
  <2>1. step'[t] = s /\ \A u \in Turns : u # t => step'[u] = step[u]
    BY <1>1, Moves
  <2> QED
    BY <2>1 DEF At
<1>2. EnvironmentStep(t) # "agent" /\ SessionStep(t) # "agent" /\ "agent" \notin Settled
  BY DEF EnvironmentStep, SessionStep, Settled, Streaming, Looping
<1>3. CASE ToolsBuilt(t)
  <2>1. PICK c \in Configs :
          /\ config' = [config EXCEPT ![t] = c]
          /\ agentOf' = [agentOf EXCEPT ![t] = agentIds[c]]
    BY <1>3 DEF ToolsBuilt, Fingerprint
  <2>2. agentIds[c] \in {None, c} /\ UNCHANGED <<continues, cacheVars>>
    BY <1>3 DEF ToolsBuilt, AgentInv
  <2>3. SetupTypeOK'
    BY <2>1, <2>2 DEF SetupTypeOK
  <2>4. \A u \in Turns : At(u, {"agent"})' => u = t \/ At(u, {"agent"})
    BY <1>1, <1>2, <1>3 DEF ToolsBuilt
  <2>5. \A u \in Turns : At(u, Settled)' =>
          (u = t /\ agentOf'[t] # None) \/ (u # t /\ At(u, Settled))
    BY <1>1, <1>2, <1>3 DEF ToolsBuilt
  <2>6. AgentInv'
    BY <2>1, <2>2, <2>4, <2>5 DEF AgentInv, SetupTypeOK
  <2> QED
    BY <2>3, <2>6
<1>4. CASE AgentCreated(t)
  <2>1. config[t] \in Configs /\ config' = config /\ continues' = continues /\ environment' = environment
    BY <1>4 DEF AgentCreated, AgentInv
  <2>2. /\ agentIds' = [agentIds EXCEPT ![config[t]] = config[t]]
        /\ agentOf' = [agentOf EXCEPT ![t] = config[t]]
    BY <1>4 DEF AgentCreated, Fingerprint
  <2>3. SetupTypeOK'
    BY <2>1, <2>2 DEF SetupTypeOK
  <2>4. \A u \in Turns : At(u, {"agent"})' => At(u, {"agent"})
    BY <1>1, <1>2, <1>4 DEF AgentCreated
  <2>5. \A u \in Turns : At(u, Settled)' => u = t \/ At(u, Settled)
    BY <1>1, <1>2, <1>4 DEF AgentCreated
  <2>6. AgentInv'
    BY <2>1, <2>2, <2>4, <2>5, NoneAssumption DEF AgentInv, SetupTypeOK
  <2> QED
    BY <2>3, <2>6
<1>5. CASE EnvironmentCreated(t)
  <2>1. \A u \in Turns : At(u, {"agent"})' => At(u, {"agent"})
    BY <1>1, <1>2, <1>5 DEF EnvironmentCreated
  <2>2. \A u \in Turns : At(u, Settled)' => At(u, Settled)
    BY <1>1, <1>2, <1>5 DEF EnvironmentCreated, At, Settled
  <2>3. AgentInv'
    BY <1>5, <2>1, <2>2, AgentKept DEF EnvironmentCreated
  <2> QED
    BY <1>5, <2>3 DEF EnvironmentCreated, SetupTypeOK
<1>6. CASE SessionCreated(t)
  <2>1. \A u \in Turns : At(u, {"agent"})' => At(u, {"agent"})
    BY <1>1, <1>2, <1>6 DEF SessionCreated
  <2>2. \A u \in Turns : At(u, Settled)' => At(u, Settled)
    BY <1>1, <1>2, <1>6 DEF SessionCreated, At, Settled
  <2>3. AgentInv'
    BY <1>6, <2>1, <2>2, AgentKept DEF SessionCreated
  <2> QED
    BY <1>6, <2>3 DEF SessionCreated, SetupTypeOK
<1> QED
  BY <1>3, <1>4, <1>5, <1>6 DEF Prepare

-----------------------------------------------------------------------------
(* The server.                                                             *)

\* What the server does to a turn: it pushes on an open stream what it counts.
Effect ==
  /\ model' \in {"idle", "running", "waiting", "dead"}
  /\ log' \subseteq Ids /\ pending' \subseteq log'
  /\ asked' \in [CustomCalls -> Nat]
  /\ wire' \in Seq(Event) /\ owed' \subseteq log'
  /\ ~Listening => wire' = wire /\ owed' = owed
  /\ \A i \in CustomCalls :
       /\ asked[i] <= asked'[i]
       /\ Listening => Citations(wire', i) + asked[i] = Citations(wire, i) + asked'[i]
       /\ i \in owed' \intersect pending' =>
            i \in owed \intersect pending \/ Citations(wire', i) > 0

\* A round pushed and counted, whatever it cites.
LEMMA RoundEffect ==
  ASSUME IInv, NEW S \in SUBSET Ids, NEW C \in SUBSET Ids, NEW es \in RoundOrders(S, C),
         Push(es), Cite(C)
  PROVE  /\ wire' \in Seq(Event) /\ owed' \subseteq owed \union C /\ asked' \in [CustomCalls -> Nat]
         /\ ~Listening => wire' = wire /\ owed' = owed
         /\ \A i \in CustomCalls :
              /\ asked[i] <= asked'[i]
              /\ Listening => /\ Citations(wire', i) + asked[i] = Citations(wire, i) + asked'[i]
                              /\ i \in C => Citations(wire', i) > 0
<1> USE DEF IInv, LoopOK
<1>1. wire' \in Seq(Event)
  BY RoundCites DEF Push
<1>2. owed' \subseteq owed \union C /\ (~Listening => wire' = wire /\ owed' = owed)
  BY DEF Push, Cite
<1>3. asked' = [i \in CustomCalls |-> IF i \in C THEN asked[i] + 1 ELSE asked[i]]
  BY DEF Cite
<1>4. asked' \in [CustomCalls -> Nat]
  BY <1>3
<1>5. ASSUME NEW i \in CustomCalls
      PROVE  /\ asked[i] <= asked'[i]
             /\ Listening => /\ Citations(wire', i) + asked[i] = Citations(wire, i) + asked'[i]
                             /\ i \in C => Citations(wire', i) > 0
  <2>1. asked[i] \in Nat /\ asked'[i] = IF i \in C THEN asked[i] + 1 ELSE asked[i]
    BY <1>3
  <2>2. Citations(wire, i) \in Nat /\ Citations(wire', i) \in Nat
    BY <1>1, CitationsFinite
  <2>3. Listening => Citations(wire', i) = Citations(wire, i) + (IF i \in C THEN 1 ELSE 0)
    BY RoundCites DEF Push
  <2>4. \A a, b, m, n \in Nat :
          /\ b = a + 1 /\ n = m + 1 => n + a = m + b /\ n > 0
          /\ b = a + 1 \/ b = a => a <= b
          /\ b = a /\ n = m => n + a = m + b
    OBVIOUS
  <2>5. asked'[i] \in Nat
    BY <1>4
  <2>6. asked[i] <= asked'[i]
    BY <2>1, <2>4, <2>5
  <2>7. ASSUME Listening
        PROVE  /\ Citations(wire', i) + asked[i] = Citations(wire, i) + asked'[i]
               /\ i \in C => Citations(wire', i) > 0
    <3>1. CASE i \in C
      <4>1. asked'[i] = asked[i] + 1 /\ Citations(wire', i) = Citations(wire, i) + 1
        BY <2>1, <2>3, <2>7, <3>1
      <4> HIDE DEF IInv, LoopOK
      <4> QED
        BY <2>1, <2>2, <2>4, <2>5, <4>1
    <3>2. CASE i \notin C
      BY <2>1, <2>2, <2>3, <2>7, <3>2
    <3> QED
      BY <3>1, <3>2
  <2> QED
    BY <2>6, <2>7
<1> QED
  BY <1>1, <1>2, <1>4, <1>5

LEMMA ServerEffect == IInv /\ Server => Effect /\ UNCHANGED <<setupVars, driver, session, loopVars, runs>>
<1> SUFFICES ASSUME IInv, Server
             PROVE  Effect /\ UNCHANGED <<setupVars, driver, session, loopVars, runs>>
  OBVIOUS
<1>a. LoopOK
  BY DEF IInv
<1>b. \A i \in CustomCalls : asked[i] \in Nat /\ Citations(wire, i) \in Nat
  BY <1>a, CitationsFinite DEF LoopOK
<1>1. ASSUME NEW S \in SUBSET Ids, ModelCalls(S) PROVE Effect
  <2>1. log' = log \union S /\ pending' = pending \union S /\ S \intersect log = {} /\ model' = "waiting"
    BY <1>1 DEF ModelCalls
  <2>2. PICK C \in {S, pending'} : \E es \in RoundOrders(S, C) : Push(es) /\ Cite(C)
    BY <1>1 DEF ModelCalls
  <2>3. PICK es \in RoundOrders(S, C) : Push(es) /\ Cite(C)
    BY <2>2
  <2>4. C \in SUBSET Ids /\ C \subseteq log'
    BY <1>a, <2>1 DEF LoopOK
  <2>5. /\ wire' \in Seq(Event) /\ owed' \subseteq owed \union C /\ asked' \in [CustomCalls -> Nat]
        /\ ~Listening => wire' = wire /\ owed' = owed
        /\ \A i \in CustomCalls :
              /\ asked[i] <= asked'[i]
              /\ Listening => /\ Citations(wire', i) + asked[i] = Citations(wire, i) + asked'[i]
                              /\ i \in C => Citations(wire', i) > 0
    BY <2>3, <2>4, RoundEffect
  <2>6. ASSUME NEW i \in CustomCalls, i \in owed' \intersect pending'
        PROVE  i \in owed \intersect pending \/ Citations(wire', i) > 0
    <3>1. ~Listening => owed = {}
      BY DEF IInv, QuietInv
    <3>2. CASE i \in C
      BY <2>5, <2>6, <3>1, <3>2
    <3>3. CASE i \notin C
      BY <1>a, <2>1, <2>2, <2>5, <2>6, <3>3 DEF LoopOK
    <3> QED
      BY <3>2, <3>3
  <2> QED
    BY <1>a, <2>1, <2>4, <2>5, <2>6 DEF Effect, LoopOK
<1>2. ASSUME CitesAgain PROVE Effect
  <2>1. /\ <<IdleEvent(pending)>> \in RoundOrders({}, pending)
        /\ pending \in SUBSET Ids /\ {} \in SUBSET Ids
    BY <1>a DEF RoundOrders, LoopOK
  <2>2. Push(<<IdleEvent(pending)>>) /\ Cite(pending) /\ UNCHANGED <<model, log, pending>> /\ Listening
    BY <1>2 DEF CitesAgain
  <2>3. /\ wire' \in Seq(Event) /\ owed' \subseteq owed \union pending
        /\ asked' \in [CustomCalls -> Nat]
        /\ ~Listening => wire' = wire /\ owed' = owed
        /\ \A i \in CustomCalls :
              /\ asked[i] <= asked'[i]
              /\ Listening => /\ Citations(wire', i) + asked[i] = Citations(wire, i) + asked'[i]
                              /\ i \in pending => Citations(wire', i) > 0
    BY <2>1, <2>2, RoundEffect
  <2> QED
    BY <1>a, <2>2, <2>3 DEF Effect, LoopOK
<1>3. ASSUME ServerMovesOn PROVE Effect
  BY <1>3, <1>a, <1>b DEF ServerMovesOn, Effect, LoopOK, streamVars
<1>4. ASSUME NEW k \in {"noid", "other", "end"}, Push(<<Signal(k)>>), UNCHANGED <<log, pending, asked, owed>>,
             model' \in {"idle", "running", "waiting", "dead"}
      PROVE  Effect
  <2>1. wire' \in Seq(Event) /\ (~Listening => wire' = wire)
    BY <1>4, <1>a, SignalCites DEF Push, LoopOK
  <2>2. \A i \in CustomCalls : Citations(wire', i) = Citations(wire, i)
    BY <1>4, <1>a, SignalCites DEF Push, LoopOK
  <2> QED
    BY <1>4, <1>a, <1>b, <2>1, <2>2 DEF Effect, LoopOK
<1>5. ASSUME ModelEnds PROVE Effect
  BY <1>4, <1>5 DEF ModelEnds
<1>6. ASSUME SessionDies PROVE Effect
  BY <1>4, <1>6 DEF SessionDies
<1>7. ASSUME OtherEvent PROVE Effect
  BY <1>4, <1>7, <1>a DEF OtherEvent, serverVars, LoopOK
<1>8. UNCHANGED <<setupVars, driver, session, loopVars, runs>>
  BY DEF Server, ModelCalls, CitesAgain, ServerMovesOn, ModelEnds, SessionDies, OtherEvent,
         serverVars
<1> QED
  BY <1>1, <1>2, <1>3, <1>5, <1>6, <1>7, <1>8 DEF Server

LEMMA ServerInv == IInv /\ Server => IInv'
<1> SUFFICES ASSUME IInv, Server PROVE IInv'
  OBVIOUS
<1> USE DEF IInv
<1>1. Effect /\ UNCHANGED <<setupVars, driver, session, loopVars, runs>>
  BY ServerEffect
<1> USE DEF setupVars, callVars, cacheVars, loopVars
<1>2. SetupTypeOK' /\ StepsOK' /\ AgentInv'
  BY <1>1 DEF SetupTypeOK, StepsOK, AgentInv, At
<1>3. LoopOK'
  BY <1>1 DEF LoopOK, Effect
<1>4. QuietInv' /\ LabelInv'
  BY <1>1 DEF QuietInv, LabelInv, Effect, Listening, Cycling, At
<1>5. OwedInv'
  <2> SUFFICES ASSUME NEW i \in CustomCalls, i \in owed' \intersect pending'
               PROVE  Citations(wire', i) > 0 \/ i \in cycle'
    BY DEF OwedInv
  <2>1. asked[i] \in Nat /\ asked'[i] \in Nat /\ Citations(wire, i) \in Nat /\ Citations(wire', i) \in Nat
    BY <1>1, CitationsFinite DEF LoopOK, Effect
  <2>2. ~Listening => owed' = {}
    BY <1>1 DEF Effect, QuietInv
  <2> QED
    BY <1>1, <2>1, <2>2 DEF Effect, OwedInv
<1>6. CountInv'
  <2> SUFFICES ASSUME NEW i \in CustomCalls
               PROVE  runs'[i] + Citations(wire', i) + (IF i \in cycle' \ replied' THEN 1 ELSE 0) <= asked'[i]
    BY DEF CountInv
  <2>1. /\ asked[i] \in Nat /\ asked'[i] \in Nat /\ Citations(wire, i) \in Nat
        /\ Citations(wire', i) \in Nat /\ runs[i] \in Nat
    BY <1>1, CitationsFinite DEF LoopOK, Effect, Ids
  <2>2. runs[i] + Citations(wire, i) + (IF i \in cycle \ replied THEN 1 ELSE 0) <= asked[i]
    BY DEF CountInv
  <2>3. CASE Listening
    BY <1>1, <2>1, <2>2, <2>3 DEF Effect
  <2>4. CASE ~Listening
    BY <1>1, <2>1, <2>2, <2>4 DEF Effect
  <2> QED
    BY <2>3, <2>4
<1> QED
  BY <1>2, <1>3, <1>4, <1>5, <1>6

-----------------------------------------------------------------------------
(* Beginning and ending of turns.                                          *)

LoopInv == LoopOK /\ QuietInv /\ LabelInv /\ OwedInv /\ CountInv

\* What a request may do to a session whose turn stops: nothing is asked and
\* nothing runs, or the session is another one.
Serves ==
  /\ session' \in Configs \union {None} /\ model' \in {"idle", "running", "waiting", "dead"}
  /\ log' \subseteq Ids /\ pending' \subseteq log'
  /\ \/ UNCHANGED <<asked, runs>>
     \/ asked' = [i \in CustomCalls |-> 0] /\ runs' = [i \in Ids |-> 0]

LEMMA RequestServes ==
  ASSUME LoopOK,
         \/ UNCHANGED <<serverVars, runs>>
         \/ TakesReplies /\ UNCHANGED runs
         \/ InterruptServed /\ UNCHANGED runs
         \/ \E agent \in Configs \union {None} : Blank(agent)
  PROVE  Serves
<1> USE DEF LoopOK, Serves
<1>1. CASE UNCHANGED <<serverVars, runs>>
  BY <1>1 DEF serverVars
<1>2. CASE TakesReplies /\ UNCHANGED runs
  BY <1>2 DEF TakesReplies
<1>3. CASE InterruptServed /\ UNCHANGED runs
  BY <1>3 DEF InterruptServed
<1>4. CASE \E agent \in Configs \union {None} : Blank(agent)
  BY <1>4 DEF Blank
<1> QED
  BY <1>1, <1>2, <1>3, <1>4

\* Without local state the invariants of the loop hold.
LEMMA Emptied ==
  ASSUME LoopInv, Serves, wire' = <<>>, owed' = {}, buffer' = [i \in Ids |-> "none"],
         cycle' = {}, replied' = {}
  PROVE  LoopInv'
<1> USE DEF LoopInv
<1>1. LoopOK'
  <2>1. /\ wire' \in Seq(Event) /\ [i \in CustomCalls |-> 0] \in [CustomCalls -> Nat]
        /\ [i \in Ids |-> 0] \in [Ids -> Nat]
    OBVIOUS
  <2> QED
    BY <2>1 DEF LoopOK, Serves
<1>2. QuietInv'
  BY DEF QuietInv
<1>3. LabelInv'
  BY DEF LabelInv, Serves, Ids
<1>4. OwedInv'
  BY DEF OwedInv
<1>5. CountInv'
  <2> SUFFICES ASSUME NEW i \in CustomCalls PROVE runs'[i] <= asked'[i]
    BY <1>1, EmptyCites DEF CountInv, LoopOK, Ids
  <2>1. runs[i] \in Nat /\ asked[i] \in Nat /\ Citations(wire, i) \in Nat /\ i \in Ids
    BY CitationsFinite DEF LoopOK, Ids
  <2>2. runs[i] <= asked[i]
    BY <2>1 DEF CountInv
  <2> QED
    BY <2>1, <2>2 DEF Serves
<1> QED
  BY <1>1, <1>2, <1>3, <1>4, <1>5

\* Outside the loop the local state is empty.
LEMMA NotInLoop ==
  ASSUME StepsOK, QuietInv, ~Listening
  PROVE  /\ wire = <<>> /\ owed = {} /\ buffer = [i \in Ids |-> "none"]
         /\ cycle = {} /\ replied = {}
BY DEF QuietInv, Listening, Cycling, At, Looping

\* A turn in its setup does not disturb the one in its loop.
LEMMA Undisturbed ==
  ASSUME StepsOK, LoopInv, UNCHANGED <<serverVars, streamVars, loopVars, runs>>,
         NEW t \in Turns, ~At(t, Streaming), NEW s \in Labels \ Streaming, Go(t, s),
         \/ driver' = driver
         \/ driver = None /\ driver' = t
         \/ Free
  PROVE  StepsOK' /\ LoopInv'
<1> USE DEF serverVars, streamVars, loopVars
<1>1. step'[t] = s /\ \A u \in Turns : u # t => step'[u] = step[u]
  BY Moves
<1>2. \A u \in Turns : At(u, Streaming) => u = driver /\ At(u, Streaming)' /\ step'[u] # "done"
  BY <1>1 DEF StepsOK, At, Streaming, Looping
<1>3. \A u \in Turns : At(u, Streaming)' => At(u, Streaming)
  BY <1>1 DEF At
<1>4. driver \in Turns /\ At(driver, Streaming) => driver' = driver
  BY <1>2, NoneAssumption DEF Free
<1>5. driver' \in Turns \union {None}
  BY DEF StepsOK, Free
<1>6. step' \in [Turns -> Labels]
  BY DEF StepsOK, Go
<1>7. StepsOK'
  BY <1>2, <1>3, <1>4, <1>5, <1>6 DEF StepsOK
<1>8. /\ Listening' <=> Listening
      /\ Cycling' <=> Cycling
  <2>1. CASE driver \in Turns /\ At(driver, Streaming)
    <3>1. driver' = driver /\ step'[driver] = step[driver]
      BY <1>1, <1>4, <2>1
    <3> QED
      BY <3>1 DEF Listening, Cycling, At
  <2>2. CASE ~(driver \in Turns /\ At(driver, Streaming))
    <3>1. ~Listening /\ ~Cycling
      BY <2>2 DEF StepsOK, Listening, Cycling, At, Streaming, Looping
    <3>2. ~(driver \in Turns /\ At(driver, Streaming))'
      <4>1. SUFFICES ASSUME NEW u \in Turns, u = driver', At(u, Streaming)' PROVE FALSE
        BY DEF At
      <4> QED
        BY <1>2, <1>3, <2>2, <4>1
    <3>3. ~Listening' /\ ~Cycling'
      BY <1>5, <3>2 DEF Listening, Cycling, At, Streaming, Looping
    <3> QED
      BY <3>1, <3>3
  <2> QED
    BY <2>1, <2>2
<1>9. LoopInv'
  BY <1>8 DEF LoopInv, LoopOK, QuietInv, LabelInv, OwedInv, CountInv
<1> QED
  BY <1>7, <1>9

LEMMA StartInv == ASSUME IInv, NEW t \in Turns, Start(t) PROVE IInv'
<1> USE DEF IInv
<1>1. PICK again \in BOOLEAN :
        /\ again => session # None /\ driver = None
        /\ Call(t, again)
        /\ driver' = IF again /\ At(t, {"building"})' THEN t ELSE driver
  BY DEF Start
<1>2. PICK s \in {"done", "building"} : Go(t, s)
  BY <1>1 DEF Call
<1>3. SetupTypeOK' /\ AgentInv'
  BY <1>1, CallSetup
<1>4. /\ ~At(t, Streaming) /\ s \in Labels \ Streaming
      /\ UNCHANGED <<serverVars, streamVars, loopVars, runs>>
  BY <1>1 DEF Start, Call, At, Streaming, Looping, Labels, Preparing
<1>5. StepsOK' /\ LoopInv'
  BY <1>1, <1>2, <1>4, Undisturbed DEF LoopInv
<1> QED
  BY <1>3, <1>5 DEF LoopInv

LEMMA SetupInv == ASSUME IInv, NEW t \in Turns, SetupStep(t) PROVE IInv'
<1> USE DEF IInv
<1>1. SetupTypeOK' /\ AgentInv'
  <2>1. CASE Prepare(t)
    BY <2>1, PrepareSetup
  <2>2. CASE SetupFails(t)
    BY <2>2, ReturnSetup DEF SetupFails
  <2> QED
    BY <2>1, <2>2 DEF SetupStep
<1>2. PICK s \in Preparing \union {"opening", "done"} : Go(t, s)
  BY DEF SetupStep, Prepare, ToolsBuilt, AgentCreated, EnvironmentCreated, SessionCreated,
         SetupFails, Return, EnvironmentStep, SessionStep, Preparing
<1>3. At(t, Preparing)
  BY DEF SetupStep, Prepare, ToolsBuilt, AgentCreated, EnvironmentCreated, SessionCreated,
         SetupFails, At, Preparing
<1>4. ~At(t, Streaming) /\ s \in Labels \ Streaming
  BY <1>3 DEF At, Streaming, Looping, Labels, Preparing
<1>5. Free /\ UNCHANGED <<serverVars, streamVars, loopVars, runs>>
  BY DEF SetupStep
<1>6. StepsOK' /\ LoopInv'
  BY <1>2, <1>4, <1>5, Undisturbed DEF LoopInv
<1> QED
  BY <1>1, <1>6 DEF LoopInv

LEMMA OpenFailsInv == ASSUME IInv, NEW t \in Turns, OpenFails(t) PROVE IInv'
<1> USE DEF IInv
<1>1. SetupTypeOK' /\ AgentInv'
  BY ReturnSetup DEF OpenFails
<1>2. Go(t, "done") /\ Free /\ UNCHANGED <<serverVars, streamVars, loopVars, runs>>
  BY DEF OpenFails, Return
<1>3. ~At(t, Streaming) /\ "done" \in Labels \ Streaming
  BY DEF OpenFails, At, Streaming, Looping, Labels, Preparing
<1>4. StepsOK' /\ LoopInv'
  BY <1>2, <1>3, Undisturbed DEF LoopInv
<1> QED
  BY <1>1, <1>4 DEF LoopInv

LEMMA OpenInv == ASSUME IInv, NEW t \in Turns, OpenStream(t) PROVE IInv'
<1> USE DEF IInv
<1>1. Go(t, "sending") /\ driver' = t /\ driver \in {t, None} /\ step[t] = "opening"
  BY DEF OpenStream, At
<1>2. SetupTypeOK' /\ AgentInv'
  BY <1>1, GoSetup DEF OpenStream, Labels, Streaming, Looping, At, Settled
<1>3. step'[t] = "sending" /\ \A u \in Turns : u # t => step'[u] = step[u]
  BY <1>1, Moves
<1>4. StepsOK'
  <2>1. step' \in [Turns -> Labels]
    BY <1>1 DEF StepsOK, Go, Labels, Streaming, Looping
  <2>2. \A u \in Turns : At(u, Streaming)' => u = t
    BY <1>1, <1>3, NoneAssumption DEF StepsOK, At
  <2> QED
    BY <1>1, <2>1, <2>2 DEF StepsOK
<1>5. ~Listening
  BY <1>1 DEF Listening, At, Looping
<1>6. Serves
  <2>1. agentOf[t] \in Configs \union {None}
    BY DEF SetupTypeOK
  <2> QED
    BY <2>1, RequestServes DEF OpenStream, Connects
<1>7. UNCHANGED <<wire, owed, buffer, cycle, replied>>
  BY DEF OpenStream, streamVars, loopVars
<1>8. LoopInv'
  BY <1>5, <1>6, <1>7, NotInLoop, Emptied DEF LoopInv
<1> QED
  BY <1>2, <1>4, <1>8 DEF LoopInv

-----------------------------------------------------------------------------
(* The loop and the finally block.                                         *)

\* A step of the driver within its loop and its finally block.
LEMMA DriverMoves ==
  ASSUME StepsOK, NEW d \in Turns, At(d, Streaming), NEW s \in Streaming, Go(d, s),
         driver' = driver
  PROVE  /\ StepsOK' /\ driver = d /\ driver # None /\ step'[driver'] = s
         /\ Listening <=> step[d] \in Looping
         /\ Listening' <=> s \in Looping
         /\ Cycling <=> step[d] \in {"listing", "executing", "posting"}
         /\ Cycling' <=> s \in {"listing", "executing", "posting"}
<1>1. step'[d] = s /\ \A u \in Turns : u # d => step'[u] = step[u]
  BY Moves DEF Labels
<1>2. driver = d /\ driver # None
  BY NoneAssumption DEF StepsOK
<1>3. step' \in [Turns -> Labels]
  BY DEF StepsOK, Go, Labels
<1>4. StepsOK'
  BY <1>1, <1>2, <1>3 DEF StepsOK, At
<1> QED
  BY <1>1, <1>2, <1>4 DEF Listening, Cycling, At

\* The turn that is in its finally block returns.
LEMMA DriverReturns ==
  ASSUME StepsOK, NEW d \in Turns, At(d, Streaming), Go(d, "done"), Free
  PROVE  StepsOK' /\ driver' = None /\ driver = d
<1>1. step'[d] = "done" /\ \A u \in Turns : u # d => step'[u] = step[u]
  BY Moves DEF Labels
<1>2. driver = d /\ driver' = None
  BY <1>1 DEF StepsOK, Free
<1>3. step' \in [Turns -> Labels]
  BY DEF StepsOK, Go, Labels
<1>4. \A u \in Turns : ~At(u, Streaming)'
  BY <1>1, <1>2 DEF StepsOK, At, Streaming, Looping
<1> QED
  BY <1>2, <1>3, <1>4 DEF StepsOK

\* Leaving the loop keeps the invariant, whatever is served meanwhile.
LEMMA LeavesInv ==
  ASSUME IInv, NEW d \in Turns, At(d, Streaming), UNCHANGED callerVars, Serves,
         NEW s \in {"closing", "finishing", "interrupting"}, Leaves(d, s)
  PROVE  IInv'
<1> USE DEF IInv
<1>1. s \in Streaming /\ s \in Labels \ {"agent"}
  BY DEF Streaming, Labels, Looping, Preparing
<1>2. Go(d, s) /\ UNCHANGED <<callVars, cacheVars>> /\ driver' = driver
  BY DEF Leaves, callerVars
<1>3. SetupTypeOK' /\ AgentInv'
  BY <1>1, <1>2, GoSetup DEF At, Settled
<1>4. StepsOK'
  BY <1>1, <1>2, DriverMoves
<1>5. LoopInv'
  BY Emptied DEF LoopInv, Leaves
<1> QED
  BY <1>3, <1>4, <1>5 DEF LoopInv

\* What the driver awaits or yields is past its setup.
LEMMA LoopSteps ==
  ASSUME NEW d, Loop(d) \/ Breaks(d)
  PROVE  At(d, Streaming)
BY DEF Loop, SendMessages, SendFails, ReadUses, ReadWithoutId, ReadOther, ReadEnd, ReadIdle,
       Reads, Sees, Rehydrate, ExecuteCall, RepliesTaken, PostFails, InterruptSent, FinishTaken,
       CloseSettles, DeleteSettles, Breaks, At, Streaming, Looping

\* A turn whose loop goes on.
Stays(d) ==
  \/ SendMessages(d) \/ ReadUses(d) \/ ReadOther(d) \/ ReadIdle(d)
  \/ At(d, {"listing"}) /\ Go(d, "executing") /\ Rehydrate(d)
  \/ \E i \in Ids : ExecuteCall(d, i)
  \/ RepliesTaken(d)

\* A turn whose loop is over, or its finally block.
Stops(d) ==
  \/ SendFails(d) \/ ReadWithoutId(d) \/ ReadEnd(d) \/ (Rehydrate(d) /\ GiveUp(d))
  \/ PostFails(d) \/ InterruptSent(d) \/ FinishTaken(d)

LEMMA LoopSplits ==
  ASSUME NEW d, Loop(d)
  PROVE  Stays(d) \/ Stops(d) \/ CloseSettles(d) \/ DeleteSettles(d)
BY DEF Loop, Stays, Stops, Rehydrate

LEMMA StopsInv ==
  ASSUME IInv, NEW d \in Turns, Stops(d)
  PROVE  IInv'
<1>1. At(d, Streaming)
  BY DEF Stops, SendFails, ReadWithoutId, ReadEnd, Sees, Rehydrate, PostFails, InterruptSent,
         FinishTaken, At, Streaming, Looping
<1>2. UNCHANGED callerVars
  BY DEF Stops, SendFails, ReadWithoutId, ReadEnd, Rehydrate, PostFails, InterruptSent, FinishTaken
<1>3. PICK s \in {"closing", "finishing", "interrupting"} : Leaves(d, s)
  BY DEF Stops, SendFails, ReadWithoutId, ReadEnd, PostFails, InterruptSent, FinishTaken,
         Unwind, Finish, GiveUp
<1>4. \/ UNCHANGED <<serverVars, runs>>
      \/ TakesReplies /\ UNCHANGED runs
      \/ InterruptServed /\ UNCHANGED runs
  BY DEF Stops, SendFails, ReadWithoutId, ReadEnd, Rehydrate, PostFails, InterruptSent, FinishTaken
<1>5. Serves
  BY <1>4, RequestServes DEF IInv
<1> QED
  BY <1>1, <1>2, <1>3, <1>5, LeavesInv

LEMMA CleanupInv ==
  ASSUME IInv, NEW d \in Turns, CloseSettles(d) \/ DeleteSettles(d) \/ Breaks(d)
  PROVE  IInv'
<1> USE DEF IInv
<1>1. At(d, Streaming) /\ ("deleting" \in Streaming) /\ ("deleting" \in Labels \ {"agent"})
  BY DEF CloseSettles, DeleteSettles, Breaks, At, Streaming, Looping, Labels, Preparing
<1>2. ASSUME At(d, {"closing", "deleting"})
      PROVE  ~Listening
  BY <1>1, <1>2, NoneAssumption DEF StepsOK, Listening, At, Looping
<1>3. ASSUME At(d, {"closing", "deleting"}), Serves, UNCHANGED <<streamVars, loopVars>>
      PROVE  LoopInv'
  BY <1>2, <1>3, NotInLoop, Emptied DEF LoopInv, streamVars, loopVars
<1>4. ASSUME Return(d), Free, UNCHANGED cacheVars
      PROVE  SetupTypeOK' /\ AgentInv' /\ StepsOK'
  BY <1>1, <1>4, ReturnSetup, DriverReturns DEF Return
<1>5. CASE CloseSettles(d)
  <2>1. LoopInv'
    BY <1>3, <1>5, RequestServes DEF CloseSettles, At
  <2>2. CASE Return(d)
    BY <1>4, <1>5, <2>1, <2>2 DEF CloseSettles, LoopInv
  <2>3. CASE Go(d, "deleting") /\ UNCHANGED callVars
    <3>1. driver' = driver
      BY <1>1, <2>3, <1>5, Moves DEF CloseSettles, Free, StepsOK
    <3>2. SetupTypeOK' /\ AgentInv' /\ StepsOK'
      BY <1>1, <1>5, <2>3, <3>1, GoSetup, DriverMoves DEF CloseSettles, At, Settled
    <3> QED
      BY <2>1, <3>2 DEF LoopInv
  <2> QED
    BY <1>5, <2>2, <2>3 DEF CloseSettles
<1>6. CASE DeleteSettles(d)
  <2>1. Serves
    BY <1>6, RequestServes DEF DeleteSettles
  <2>2. LoopInv'
    BY <1>3, <1>6, <2>1 DEF DeleteSettles, At
  <2> QED
    BY <1>4, <1>6, <2>2 DEF DeleteSettles, LoopInv
<1>7. CASE Breaks(d)
  <2>1. Serves
    BY <1>7, RequestServes DEF Breaks, MayBeServed
  <2>2. CASE At(d, {"closing", "deleting"})
    <3>1. LoopInv'
      BY <1>3, <1>7, <2>1, <2>2 DEF Breaks
    <3> QED
      BY <1>4, <1>7, <2>2, <3>1 DEF Breaks, LoopInv
  <2>3. CASE ~At(d, {"closing", "deleting"})
    <3>1. Leaves(d, "closing") /\ UNCHANGED <<callVars, cacheVars>> /\ Free
      BY <1>7, <2>3 DEF Breaks, Unwind
    <3>2. driver' = driver
      BY <1>1, <3>1, Moves DEF Leaves, Free, StepsOK, Labels, Streaming, Looping
    <3> QED
      BY <1>1, <2>1, <3>1, <3>2, LeavesInv DEF callerVars
  <2> QED
    BY <2>2, <2>3
<1> QED
  BY <1>5, <1>6, <1>7

\* A turn that stays in its loop keeps the invariants of its setup.
LEMMA StaysSetup ==
  ASSUME IInv, NEW d \in Turns, Stays(d)
  PROVE  /\ SetupTypeOK' /\ AgentInv' /\ StepsOK' /\ Listening /\ Listening'
         /\ Cycling <=> step[d] \in {"listing", "executing", "posting"}
         /\ Cycling' <=> step'[d] \in {"listing", "executing", "posting"}
<1> USE DEF IInv
<1>1. PICK s \in Looping : Go(d, s)
  <2>1. CASE ReadUses(d) \/ ReadOther(d)
    <3>1. step' = step /\ step[d] = "reading"
      BY <2>1 DEF ReadUses, ReadOther, Reads, Sees, At
    <3> QED
      BY <3>1 DEF Go, StepsOK, Looping
  <2>2. CASE ~(ReadUses(d) \/ ReadOther(d))
    BY <2>2 DEF Stays, SendMessages, ReadIdle, ExecuteCall, RepliesTaken, Looping
  <2> QED
    BY <2>1, <2>2
<1>2. step[d] \in Looping
  BY DEF Stays, SendMessages, ReadUses, ReadOther, ReadIdle, ExecuteCall, RepliesTaken,
         Reads, Sees, At, Looping
<1>3. UNCHANGED callerVars
  BY DEF Stays, SendMessages, ReadUses, ReadOther, ReadIdle, Rehydrate, ExecuteCall, RepliesTaken
<1>4. s \in Streaming /\ s \in Labels \ {"agent"} /\ At(d, Streaming)
  BY <1>2 DEF At, Streaming, Looping, Labels, Preparing
<1>5. SetupTypeOK' /\ AgentInv'
  BY <1>1, <1>3, <1>4, GoSetup DEF callerVars, At, Settled
<1>6. step'[d] = s
  BY <1>1, Moves
<1> QED
  BY <1>1, <1>2, <1>3, <1>4, <1>5, <1>6, DriverMoves DEF callerVars

\* The first event and what remains of the stream.
LEMMA Unread ==
  ASSUME LoopOK, NEW d, NEW k, Reads(d, k)
  PROVE  /\ wire' \in Seq(Event) /\ Head(wire).ids \in SUBSET Ids
         /\ \A i : /\ Citations(wire, i) \in Nat /\ Citations(wire', i) \in Nat
                   /\ Citations(wire, i)
                        = Citations(wire', i)
                          + (IF k = "idle" /\ i \in Head(wire).ids THEN 1 ELSE 0)
<1>1. wire \in Seq(Event) /\ wire # <<>> /\ wire' = Tail(wire) /\ Head(wire).kind = k
  BY DEF LoopOK, Reads, Sees
<1>2. Head(wire) \in Event /\ Tail(wire) \in Seq(Event)
  BY <1>1, TailCites
<1>3. ASSUME NEW i
      PROVE  /\ Citations(wire, i) \in Nat /\ Citations(wire', i) \in Nat
             /\ Citations(wire, i)
                  = Citations(wire', i) + (IF k = "idle" /\ i \in Head(wire).ids THEN 1 ELSE 0)
  BY <1>1, <1>2, TailCites, CitationsFinite DEF Cites
<1> QED
  BY <1>1, <1>2, <1>3 DEF Event

LEMMA StaysInv ==
  ASSUME IInv, NEW d \in Turns, Stays(d)
  PROVE  IInv'
<1> USE DEF IInv
<1>1. SetupTypeOK' /\ AgentInv' /\ StepsOK' /\ Listening /\ Listening'
  BY StaysSetup
<1>2. /\ Cycling <=> step[d] \in {"listing", "executing", "posting"}
      /\ Cycling' <=> step'[d] \in {"listing", "executing", "posting"}
  BY StaysSetup
<1>3. SUFFICES LoopInv'
  BY <1>1 DEF LoopInv
<1>4. \A s : Go(d, s) => step'[d] = s
  BY DEF Go, StepsOK
<1>5. \A i \in CustomCalls :
        /\ i \in Ids /\ runs[i] \in Nat /\ asked[i] \in Nat /\ Citations(wire, i) \in Nat
        /\ runs[i] + Citations(wire, i) + (IF i \in cycle \ replied THEN 1 ELSE 0) <= asked[i]
  BY CitationsFinite DEF LoopOK, CountInv, Ids
<1>6. CASE SendMessages(d)
  <2> USE <1>6 DEF SendMessages, streamVars, loopVars
  <2>1. LoopOK'
    BY DEF LoopOK
  <2>2. QuietInv'
    BY <1>1, <1>2, <1>4 DEF QuietInv, At
  <2>3. LabelInv' /\ OwedInv' /\ CountInv'
    BY DEF LabelInv, OwedInv, CountInv
  <2> QED
    BY <2>1, <2>2, <2>3 DEF LoopInv
<1>7. CASE ReadUses(d)
  <2> USE <1>7 DEF ReadUses, serverVars
  <2>1. /\ wire' \in Seq(Event) /\ Head(wire).ids \in SUBSET Ids
        /\ \A i : Citations(wire', i) = Citations(wire, i)
    BY Unread DEF ReadUses
  <2>2. LoopOK' /\ LabelInv'
    BY <2>1 DEF LoopOK, LabelInv, Buffered, Envelope
  <2>3. QuietInv'
    BY <1>1, <1>2 DEF QuietInv
  <2>4. OwedInv' /\ CountInv'
    BY <2>1 DEF OwedInv, CountInv
  <2> QED
    BY <2>2, <2>3, <2>4 DEF LoopInv
<1>8. CASE ReadOther(d)
  <2> USE <1>8 DEF ReadOther, serverVars, loopVars
  <2>1. wire' \in Seq(Event) /\ \A i : Citations(wire', i) = Citations(wire, i)
    BY Unread DEF ReadOther
  <2>2. LoopOK' /\ LabelInv'
    BY <2>1 DEF LoopOK, LabelInv
  <2>3. QuietInv'
    BY <1>1, <1>2 DEF QuietInv
  <2>4. OwedInv' /\ CountInv'
    BY <2>1 DEF OwedInv, CountInv
  <2> QED
    BY <2>2, <2>3, <2>4 DEF LoopInv
<1>9. CASE ReadIdle(d)
  <2> USE <1>9 DEF ReadIdle, serverVars
  <2>1. /\ wire' \in Seq(Event) /\ cycle' \in SUBSET Ids /\ cycle' = Head(wire).ids
        /\ \A i : /\ Citations(wire', i) \in Nat
                  /\ Citations(wire, i) = Citations(wire', i) + (IF i \in cycle' THEN 1 ELSE 0)
    BY Unread DEF ReadIdle
  <2>2. cycle = {} /\ replied' = {}
    BY <1>2 DEF QuietInv, Reads, Sees, At
  <2>3. LoopOK' /\ LabelInv'
    BY <2>1, <2>2 DEF LoopOK, LabelInv
  <2>4. QuietInv'
    BY <1>1, <1>2, <1>4 DEF QuietInv
  <2>5. OwedInv'
    <3> SUFFICES ASSUME NEW i \in CustomCalls, i \in owed \intersect pending, i \notin cycle'
                 PROVE  Citations(wire', i) > 0
      BY DEF OwedInv
    <3>1. Citations(wire, i) > 0
      BY <2>2 DEF OwedInv
    <3> QED
      BY <2>1, <3>1
  <2>6. CountInv'
    <3> SUFFICES ASSUME NEW i \in CustomCalls
                 PROVE  runs[i] + Citations(wire', i)
                          + (IF i \in cycle' \ replied' THEN 1 ELSE 0) <= asked[i]
      BY DEF CountInv
    <3>1. runs[i] + Citations(wire, i) <= asked[i]
      BY <1>5, <2>2
    <3>2. Citations(wire, i) = Citations(wire', i) + (IF i \in cycle' \ replied' THEN 1 ELSE 0)
      BY <2>1, <2>2
    <3> QED
      BY <1>5, <2>1, <3>1, <3>2
  <2> QED
    BY <2>3, <2>4, <2>5, <2>6 DEF LoopInv
<1>10. CASE At(d, {"listing"}) /\ Go(d, "executing") /\ Rehydrate(d)
  <2>1. "executing" # "interrupting" /\ step'[d] = "executing"
    BY <1>4, <1>10
  <2>2. ~GiveUp(d)
    BY <1>4, <2>1 DEF GiveUp, Leaves
  <2>3. buffer' = Buffered(cycle) /\ UNCHANGED <<serverVars, streamVars, cycle, replied, runs>>
    BY <1>10, <2>2 DEF Rehydrate
  <2> USE <2>3 DEF serverVars, streamVars
  <2>4. LoopOK' /\ LabelInv'
    BY DEF LoopOK, LabelInv, Buffered, Envelope
  <2>5. QuietInv'
    BY <1>1, <1>2, <2>1 DEF QuietInv
  <2>6. OwedInv' /\ CountInv'
    BY DEF OwedInv, CountInv
  <2> QED
    BY <2>4, <2>5, <2>6 DEF LoopInv
<1>11. ASSUME NEW i \in Ids, ExecuteCall(d, i) PROVE LoopInv'
  <2> USE <1>11 DEF ExecuteCall, serverVars, streamVars
  <2>1. (runs' = [runs EXCEPT ![i] = @ + 1] /\ buffer[i] = "custom") \/ runs' = runs
    OBVIOUS
  <2>2. i \in cycle \ replied /\ replied' = replied \union {i} /\ cycle' = cycle
    OBVIOUS
  <2>3. LoopOK'
    BY <2>1, <2>2 DEF LoopOK
  <2>4. LabelInv'
    BY <2>1, CallAssumption DEF LoopOK, LabelInv, Envelope, Ids
  <2>5. QuietInv'
    BY <1>1, <1>2, <1>4 DEF QuietInv
  <2>6. OwedInv'
    BY DEF OwedInv
  <2>7. CountInv'
    <3> SUFFICES ASSUME NEW j \in CustomCalls
                 PROVE  runs'[j] + Citations(wire, j)
                          + (IF j \in cycle \ replied' THEN 1 ELSE 0) <= asked[j]
      BY DEF CountInv
    <3>1. CASE j = i
      <4>1. runs'[j] \in {runs[j], runs[j] + 1}
        BY <2>1, <3>1 DEF LoopOK
      <4>2. runs[j] + Citations(wire, j) + 1 <= asked[j] /\ j \notin cycle \ replied'
        BY <1>5, <2>2, <3>1
      <4> QED
        BY <1>5, <4>1, <4>2
    <3>2. CASE j # i
      <4>1. runs'[j] = runs[j]
        BY <1>5, <2>1, <3>2 DEF LoopOK
      <4>2. j \in cycle \ replied' <=> j \in cycle \ replied
        BY <2>2, <3>2
      <4> QED
        BY <1>5, <4>1, <4>2
    <3> QED
      BY <3>1, <3>2
  <2> QED
    BY <2>3, <2>4, <2>5, <2>6, <2>7 DEF LoopInv
<1>12. CASE RepliesTaken(d)
  <2> USE <1>12 DEF RepliesTaken, TakesReplies, streamVars
  <2>1. LoopOK' /\ LabelInv'
    BY DEF LoopOK, LabelInv
  <2>2. QuietInv'
    BY <1>1 DEF QuietInv
  <2>3. OwedInv'
    BY DEF OwedInv
  <2>4. CountInv'
    <3> SUFFICES ASSUME NEW j \in CustomCalls PROVE runs[j] + Citations(wire, j) + 0 <= asked[j]
      BY DEF CountInv
    <3> QED
      BY <1>5
  <2> QED
    BY <2>1, <2>2, <2>3, <2>4 DEF LoopInv
<1> QED
  BY <1>6, <1>7, <1>8, <1>9, <1>10, <1>11, <1>12 DEF Stays

-----------------------------------------------------------------------------
(* The theorems.                                                           *)

LEMMA StepInv == IInv /\ [Next]_vars => IInv'
<1> SUFFICES ASSUME IInv, [Next]_vars PROVE IInv'
  OBVIOUS
<1>1. CASE UNCHANGED vars
  BY <1>1 DEF vars, setupVars, callVars, cacheVars, serverVars, streamVars, loopVars, IInv,
              SetupTypeOK, StepsOK, AgentInv, LoopOK, QuietInv, LabelInv,
              OwedInv, CountInv, Listening, Cycling, At
<1>2. ASSUME NEW d \in Turns, Loop(d) PROVE IInv'
  BY <1>2, LoopSplits, StaysInv, StopsInv, CleanupInv
<1> QED
  BY <1>1, <1>2, ServerInv, StartInv, SetupInv, OpenInv, OpenFailsInv, CleanupInv
     DEF Next, AllTurnsDone

LEMMA Invariant == Spec => []IInv
BY InitInv, StepInv, PTL DEF Spec

\* Every reachable state is well typed, and whoever streams is the driver.
THEOREM TypeCorrect == Spec => []TypeOK
<1>1. IInv => TypeOK
  BY DEF IInv, SetupTypeOK, StepsOK, LoopOK, TypeOK, Labels
<1> QED
  BY <1>1, Invariant, PTL

\* What a turn past its setup does to the session and to its own configuration:
\* nothing, unless it is over.
LEMMA LoopSession ==
  ASSUME NEW d, Loop(d) \/ Breaks(d)
  PROVE  UNCHANGED <<session, config, continues>> \/ Return(d)
<1>1. CASE Breaks(d)
  BY <1>1 DEF Breaks, MayBeServed, TakesReplies, InterruptServed, serverVars, callVars, At
<1>2. CASE CloseSettles(d) \/ DeleteSettles(d)
  BY <1>2 DEF CloseSettles, DeleteSettles, serverVars, callVars
<1>3. CASE Stays(d)
  BY <1>3 DEF Stays, SendMessages, ReadUses, ReadOther, ReadIdle, Rehydrate, ExecuteCall,
              RepliesTaken, TakesReplies, serverVars, callerVars, callVars
<1>4. CASE Stops(d)
  BY <1>4 DEF Stops, SendFails, ReadWithoutId, ReadEnd, Rehydrate, PostFails, InterruptSent,
              FinishTaken, TakesReplies, InterruptServed, serverVars, callerVars, callVars
<1> QED
  BY <1>1, <1>2, <1>3, <1>4, LoopSplits

\* A turn that only moves itself leaves the sessions of the others as they are.
LEMMA OthersFit ==
  ASSUME IInv, SessionFitsTurn, NEW t \in Turns, session' = session,
         ~At(t, Streaming)' \/ (At(t, Streaming) /\ config'[t] = config[t] /\ continues'[t] = continues[t]),
         \A u \in Turns : u # t => /\ step'[u] = step[u] /\ config'[u] = config[u]
                                   /\ continues'[u] = continues[u]
  PROVE  SessionFitsTurn'
BY DEF SessionFitsTurn, At

\* A step of the setup, or the return of a turn, moves one turn.
LEMMA OneMoves ==
  ASSUME IInv, NEW t \in Turns,
         \/ \E again \in BOOLEAN : Call(t, again)
         \/ Prepare(t)
         \/ Return(t)
  PROVE  /\ ~At(t, Streaming)'
         /\ \A u \in Turns : u # t => /\ step'[u] = step[u] /\ config'[u] = config[u]
                                      /\ continues'[u] = continues[u]
<1> USE DEF IInv, SetupTypeOK, callVars, cacheVars
<1>1. PICK s \in Labels \ Streaming : Go(t, s)
  BY DEF Call, Prepare, ToolsBuilt, AgentCreated, EnvironmentCreated, SessionCreated, Return,
         EnvironmentStep, SessionStep, Labels, Preparing, Streaming, Looping
<1>2. step'[t] = s /\ \A u \in Turns : u # t => step'[u] = step[u]
  BY <1>1, Moves
<1>3. \A u \in Turns : u # t => config'[u] = config[u] /\ continues'[u] = continues[u]
  BY DEF Call, Prepare, ToolsBuilt, AgentCreated, EnvironmentCreated, SessionCreated, Return
<1> QED
  BY <1>2, <1>3 DEF At

LEMMA SessionStepFits ==
  ASSUME IInv, SessionFitsTurn, [Next]_vars
  PROVE  SessionFitsTurn'
<1> USE DEF setupVars, callVars
<1>1. CASE Server \/ UNCHANGED vars
  BY <1>1, ServerEffect DEF SessionFitsTurn, At, vars, serverVars
<1>2. ASSUME NEW t \in Turns, Start(t) PROVE SessionFitsTurn'
  BY <1>2, OneMoves, OthersFit DEF Start, serverVars
<1>3. ASSUME NEW t \in Turns, SetupStep(t) PROVE SessionFitsTurn'
  BY <1>3, OneMoves, OthersFit DEF SetupStep, SetupFails, serverVars
<1>4. ASSUME NEW t \in Turns, OpenFails(t) PROVE SessionFitsTurn'
  BY <1>4, OneMoves, OthersFit DEF OpenFails, serverVars
<1>5. ASSUME NEW t \in Turns, OpenStream(t) PROVE SessionFitsTurn'
  <2>1. At(t, {"opening"}) /\ driver \in {t, None} /\ Go(t, "sending") /\ UNCHANGED callVars
    BY <1>5 DEF OpenStream
  <2>2. \A u \in Turns : At(u, Streaming)' => u = t
    BY <2>1, Moves, NoneAssumption DEF IInv, StepsOK, At
  <2>3. agentOf[t] # None /\ agentOf[t] = config[t]
    BY <2>1 DEF IInv, AgentInv, At, Settled
  <2>4. ~continues[t] => session' = config[t]
    BY <1>5, <2>3 DEF OpenStream, Connects, Blank
  <2> QED
    BY <2>1, <2>2, <2>4 DEF SessionFitsTurn
<1>6. ASSUME NEW t \in Turns, Loop(t) \/ Breaks(t) PROVE SessionFitsTurn'
  <2>1. At(t, Streaming) /\ driver = t
    BY <1>6, LoopSteps DEF IInv, StepsOK
  <2>2. CASE Return(t)
    <3>1. \A u \in Turns : ~At(u, Streaming)'
      BY <2>1, <2>2, OneMoves DEF IInv, StepsOK, At
    <3> QED
      BY <3>1 DEF SessionFitsTurn
  <2>3. CASE UNCHANGED <<session, config, continues>>
    <3>1. PICK s : Go(t, s)
      BY <1>6 DEF Loop, Breaks, SendMessages, SendFails, ReadUses, ReadWithoutId, ReadOther,
             ReadEnd, ReadIdle, Rehydrate, ExecuteCall, RepliesTaken, PostFails, InterruptSent,
             FinishTaken, CloseSettles, DeleteSettles, Return, Unwind, Finish, GiveUp, Leaves,
             IInv, StepsOK, Go
    <3>2. \A u \in Turns : At(u, Streaming)' => At(u, Streaming)
      BY <2>1, <3>1, Moves DEF IInv, At
    <3> QED
      BY <2>3, <3>2 DEF SessionFitsTurn
  <2> QED
    BY <1>6, <2>2, <2>3, LoopSession
<1> QED
  BY <1>1, <1>2, <1>3, <1>4, <1>5, <1>6 DEF Next, AllTurnsDone

\* A session that a turn makes runs on an agent of that turn's configuration,
\* however many turns fill the caches at once.
THEOREM SessionsFit == Spec => []SessionFitsTurn
<1>1. Init => SessionFitsTurn
  BY DEF Init, SetupInit, SessionFitsTurn, At, Streaming, Looping
<1>2. IInv /\ SessionFitsTurn /\ [Next]_vars => SessionFitsTurn'
  BY SessionStepFits
<1> QED
  BY <1>1, <1>2, Invariant, PTL DEF Spec

\* A custom tool runs at most as often as the session asked for it, and a call
\* of the server never runs here.
THEOREM OnlyAskedRuns == Spec => []RunsAreAsked
<1>1. IInv => RunsAreAsked
  <2> SUFFICES ASSUME IInv, NEW i \in Ids
               PROVE  runs[i] <= IF i \in CustomCalls THEN asked[i] ELSE 0
    BY DEF RunsAreAsked
  <2>1. CASE i \in CustomCalls
    <3>1. /\ runs[i] \in Nat /\ asked[i] \in Nat /\ Citations(wire, i) \in Nat
          /\ runs[i] + Citations(wire, i) + (IF i \in cycle \ replied THEN 1 ELSE 0) <= asked[i]
      BY <2>1, CitationsFinite DEF IInv, LoopOK, CountInv
    <3> QED
      BY <2>1, <3>1
  <2>2. CASE i \notin CustomCalls
    BY <2>2 DEF IInv, LabelInv, Ids
  <2> QED
    BY <2>1, <2>2
<1> QED
  BY <1>1, Invariant, PTL

\* The turn and the session never wait for each other.
THEOREM NeverBothWait == Spec => []NoMutualWait
<1>1. IInv => NoMutualWait
  <2> SUFFICES ASSUME IInv, NEW t \in Turns, At(t, {"reading"}), wire = <<>>
               PROVE  owed \intersect pending \intersect CustomCalls = {}
    BY DEF NoMutualWait
  <2>1. driver = t /\ cycle = {}
    BY NoneAssumption DEF IInv, StepsOK, QuietInv, Cycling, At, Streaming, Looping
  <2>2. \A i : Citations(wire, i) = 0
    BY EmptyCites
  <2> QED
    BY <2>1, <2>2 DEF IInv, OwedInv
<1> QED
  BY <1>1, Invariant, PTL
=============================================================================
