------------------------ MODULE ManagedAgentTurn_proofs ------------------------
(***************************************************************************)
(* Proofs about ManagedAgentTurn, for any sets of calls, any number of     *)
(* turns, cycles and faults, and an event stream of any length.            *)
(***************************************************************************)
EXTENDS ManagedAgentTurn, SequenceTheorems, TLAPS

-----------------------------------------------------------------------------
(* The tool uses that a sequence of events holds.                          *)

UsesAt(w, k) == IF w[k].kind = "uses" THEN w[k].ids ELSE {}

Unread(w) == UNION {UsesAt(w, k) : k \in 1 .. Len(w)}

NoneTwice(w) ==
  \A k, l \in 1 .. Len(w) : k # l => UsesAt(w, k) \intersect UsesAt(w, l) = {}

\* Events appended to a stream add their tool uses to the unread ones.
LEMMA AppendedUses ==
  ASSUME NEW w \in Seq(Event), NEW es \in Seq(Event)
  PROVE  /\ w \o es \in Seq(Event)
         /\ Unread(w \o es) = Unread(w) \union Unread(es)
         /\ NoneTwice(w) /\ NoneTwice(es) /\ Unread(w) \intersect Unread(es) = {}
              => NoneTwice(w \o es)
<1> DEFINE v == w \o es
<1>1. /\ v \in Seq(Event)
      /\ Len(w) \in Nat /\ Len(es) \in Nat /\ Len(v) = Len(w) + Len(es)
      /\ \A k \in 1 .. Len(w) + Len(es) :
           v[k] = IF k <= Len(w) THEN w[k] ELSE es[k - Len(w)]
  BY ConcatProperties
<1>2. \A k \in 1 .. Len(w) : UsesAt(v, k) = UsesAt(w, k)
  BY <1>1 DEF UsesAt
<1>3. \A k \in 1 .. Len(es) : UsesAt(v, Len(w) + k) = UsesAt(es, k)
  BY <1>1 DEF UsesAt
<1>4. \A k \in 1 .. Len(v) :
        k \in 1 .. Len(w) \/ \E l \in 1 .. Len(es) : k = Len(w) + l
  <2> SUFFICES ASSUME NEW k \in 1 .. Len(v), k \notin 1 .. Len(w)
               PROVE  \E l \in 1 .. Len(es) : k = Len(w) + l
    OBVIOUS
  <2>1. k - Len(w) \in 1 .. Len(es) /\ k = Len(w) + (k - Len(w))
    BY <1>1
  <2> QED
    BY <2>1
<1>5. \A k \in 1 .. Len(w) : k \in 1 .. Len(v)
  BY <1>1
<1>6. \A k \in 1 .. Len(es) : Len(w) + k \in 1 .. Len(v)
  BY <1>1
<1> HIDE DEF v
<1>7. Unread(v) = Unread(w) \union Unread(es)
  <2>1. Unread(v) \subseteq Unread(w) \union Unread(es)
    <3> SUFFICES ASSUME NEW k \in 1 .. Len(v), NEW i \in UsesAt(v, k)
                 PROVE  i \in Unread(w) \union Unread(es)
      BY DEF Unread
    <3>1. CASE k \in 1 .. Len(w)
      BY <1>2, <3>1 DEF Unread
    <3>2. CASE \E l \in 1 .. Len(es) : k = Len(w) + l
      BY <1>3, <3>2 DEF Unread
    <3> QED
      BY <1>4, <3>1, <3>2
  <2>2. Unread(w) \subseteq Unread(v)
    BY <1>2, <1>5 DEF Unread
  <2>3. Unread(es) \subseteq Unread(v)
    BY <1>3, <1>6 DEF Unread
  <2> QED
    BY <2>1, <2>2, <2>3
<1>8. ASSUME NoneTwice(w), NoneTwice(es), Unread(w) \intersect Unread(es) = {}
      PROVE  NoneTwice(v)
  <2> SUFFICES ASSUME NEW k \in 1 .. Len(v), NEW l \in 1 .. Len(v), k # l
               PROVE  UsesAt(v, k) \intersect UsesAt(v, l) = {}
    BY DEF NoneTwice
  <2>1. \A i \in 1 .. Len(w) : UsesAt(v, i) \subseteq Unread(w)
    BY <1>2 DEF Unread
  <2>2. \A i \in 1 .. Len(es) : UsesAt(v, Len(w) + i) \subseteq Unread(es)
    BY <1>3 DEF Unread
  <2>3. CASE k \in 1 .. Len(w) /\ l \in 1 .. Len(w)
    BY <1>2, <1>8, <2>3 DEF NoneTwice
  <2>4. CASE k \in 1 .. Len(w) /\ l \notin 1 .. Len(w)
    BY <1>4, <1>8, <2>1, <2>2, <2>4
  <2>5. CASE k \notin 1 .. Len(w) /\ l \in 1 .. Len(w)
    BY <1>4, <1>8, <2>1, <2>2, <2>5
  <2>6. CASE k \notin 1 .. Len(w) /\ l \notin 1 .. Len(w)
    <3>1. PICK i \in 1 .. Len(es) : k = Len(w) + i
      BY <1>4, <2>6
    <3>2. PICK j \in 1 .. Len(es) : l = Len(w) + j
      BY <1>4, <2>6
    <3>3. i # j
      BY <3>1, <3>2
    <3> QED
      BY <1>3, <1>8, <3>1, <3>2, <3>3 DEF NoneTwice
  <2> QED
    BY <2>3, <2>4, <2>5, <2>6
<1> QED
  BY <1>1, <1>7, <1>8 DEF v

\* Reading the first event takes its tool uses from the unread ones.
LEMMA ReadUsesLeave ==
  ASSUME NEW w \in Seq(Event), w # <<>>
  PROVE  /\ Head(w) \in Event /\ Tail(w) \in Seq(Event)
         /\ Unread(Tail(w)) \subseteq Unread(w)
         /\ Head(w).kind = "uses" => Head(w).ids \subseteq Unread(w)
         /\ NoneTwice(w) =>
              /\ NoneTwice(Tail(w))
              /\ Head(w).kind = "uses" => Head(w).ids \intersect Unread(Tail(w)) = {}
<1> DEFINE t == Tail(w)
<1>1. /\ Head(w) \in Event /\ t \in Seq(Event) /\ Len(t) = Len(w) - 1
      /\ \A i \in 1 .. Len(t) : t[i] = w[i + 1]
  BY HeadTailProperties
<1>2. Len(w) \in Nat \ {0} /\ Head(w) = w[1]
  BY EmptySeq
<1>3. \A i \in 1 .. Len(t) : i + 1 \in 1 .. Len(w) /\ UsesAt(t, i) = UsesAt(w, i + 1)
  BY <1>1, <1>2 DEF UsesAt
<1>4. 1 \in 1 .. Len(w) /\ (Head(w).kind = "uses" => Head(w).ids = UsesAt(w, 1))
  BY <1>2 DEF UsesAt
<1> HIDE DEF t
<1>5. Unread(t) \subseteq Unread(w)
  BY <1>3 DEF Unread
<1>6. Head(w).kind = "uses" => Head(w).ids \subseteq Unread(w)
  BY <1>4 DEF Unread
<1>7. ASSUME NoneTwice(w)
      PROVE  NoneTwice(t) /\ (UsesAt(w, 1) \intersect Unread(t) = {})
  <2>1. NoneTwice(t)
    <3> SUFFICES ASSUME NEW k \in 1 .. Len(t), NEW l \in 1 .. Len(t), k # l
                 PROVE  UsesAt(t, k) \intersect UsesAt(t, l) = {}
      BY DEF NoneTwice
    <3>1. k + 1 # l + 1
      OBVIOUS
    <3> QED
      BY <1>3, <1>7, <3>1 DEF NoneTwice
  <2>2. \A i \in 1 .. Len(t) : UsesAt(w, 1) \intersect UsesAt(t, i) = {}
    <3> SUFFICES ASSUME NEW i \in 1 .. Len(t)
                 PROVE  UsesAt(w, 1) \intersect UsesAt(t, i) = {}
      OBVIOUS
    <3>1. i + 1 # 1
      OBVIOUS
    <3> QED
      BY <1>3, <1>4, <1>7, <3>1 DEF NoneTwice
  <2>3. UsesAt(w, 1) \intersect Unread(t) = {}
    BY <2>2 DEF Unread
  <2> QED
    BY <2>1, <2>3
<1> QED
  BY <1>1, <1>4, <1>5, <1>6, <1>7 DEF t

LEMMA EventsAreEvents ==
  /\ \A S \in SUBSET Ids : UsesEvent(S) \in Event /\ IdleEvent(S) \in Event
  /\ \A k \in {"noid", "end", "terminated"} : Signal(k) \in Event
BY DEF Event, UsesEvent, IdleEvent, Signal

\* A single signal holds no tool use.
LEMMA SignalUses ==
  ASSUME NEW e \in Event, e.kind # "uses"
  PROVE  <<e>> \in Seq(Event) /\ Unread(<<e>>) = {} /\ NoneTwice(<<e>>)
<1>1. <<e>> \in Seq(Event) /\ Len(<<e>>) = 1 /\ <<e>>[1] = e
  OBVIOUS
<1>2. \A k \in 1 .. 1 : UsesAt(<<e>>, k) = {}
  BY DEF UsesAt
<1> QED
  BY <1>1, <1>2 DEF Unread, NoneTwice

\* However a round is ordered, it holds its tool uses once.
LEMMA RoundUses ==
  ASSUME NEW S \in SUBSET Ids, NEW C \in SUBSET Ids, NEW es \in RoundOrders(S, C)
  PROVE  es \in Seq(Event) /\ Unread(es) = S /\ NoneTwice(es) /\ Len(es) \in {2, 3}
<1> DEFINE u == UsesEvent(S)
           i == IdleEvent(C)
<1>1. u \in Event /\ i \in Event
  BY EventsAreEvents
<1>2. u.kind = "uses" /\ u.ids = S /\ i.kind = "idle"
  BY DEF UsesEvent, IdleEvent
<1> HIDE DEF u, i
<1>3. es \in {<<u, i>>, <<i, u>>, <<u, i, i>>, <<i, u, i>>}
  BY DEF RoundOrders, u, i
<1>4. /\ es \in Seq(Event) /\ Len(es) \in {2, 3}
      /\ \E n \in 1 .. Len(es) : \A k \in 1 .. Len(es) :
           UsesAt(es, k) = IF k = n THEN S ELSE {}
  <2>1. CASE es = <<u, i>>
    <3>1. es \in Seq(Event) /\ Len(es) = 2 /\ es[1] = u /\ es[2] = i
      BY <1>1, <2>1
    <3> QED
      BY <1>2, <3>1 DEF UsesAt
  <2>2. CASE es = <<i, u>>
    <3>1. es \in Seq(Event) /\ Len(es) = 2 /\ es[1] = i /\ es[2] = u
      BY <1>1, <2>2
    <3> QED
      BY <1>2, <3>1 DEF UsesAt
  <2>3. CASE es = <<u, i, i>>
    <3>1. es \in Seq(Event) /\ Len(es) = 3 /\ es[1] = u /\ es[2] = i /\ es[3] = i
      BY <1>1, <2>3
    <3> QED
      BY <1>2, <3>1 DEF UsesAt
  <2>4. CASE es = <<i, u, i>>
    <3>1. es \in Seq(Event) /\ Len(es) = 3 /\ es[1] = i /\ es[2] = u /\ es[3] = i
      BY <1>1, <2>4
    <3> QED
      BY <1>2, <3>1 DEF UsesAt
  <2> QED
    BY <1>3, <2>1, <2>2, <2>3, <2>4
<1>5. PICK n \in 1 .. Len(es) : \A k \in 1 .. Len(es) :
        UsesAt(es, k) = IF k = n THEN S ELSE {}
  BY <1>4
<1>6. Unread(es) = S
  BY <1>5 DEF Unread
<1>7. NoneTwice(es)
  BY <1>5 DEF NoneTwice
<1> QED
  BY <1>4, <1>6, <1>7

-----------------------------------------------------------------------------
(* The inductive invariant.                                                *)

\* Unread tool uses have surfaced on this stream, each of them once.
WireInv == Unread(wire) \subseteq surfaced /\ NoneTwice(wire)

\* A turn that has not begun to read has nothing of an earlier one.
SetupInv ==
  pc \in {"creating", "opening", "sending"} =>
    wire = <<>> /\ surfaced = {} /\ buffer = {} /\ cycle = {}

RunsInv == \A i \in CustomCalls : runs[i] > 0 => i \in emitted

\* Calls of the cycle in progress that are executed and still buffered.
Done == IF pc \in {"executing", "posting"} THEN replied ELSE {}

\* While events are read, a tool use is unread or buffered and not both, the
\* session waits for it, and it was not executed.
ListenInv ==
  Listening =>
    /\ Unread(wire) \intersect buffer = {}
    /\ (buffer \union Unread(wire)) \intersect CustomCalls \subseteq pending
    /\ \A i \in CustomCalls : i \in (buffer \ Done) \union Unread(wire) => runs[i] = 0

CycleInv ==
  /\ pc \in {"executing", "posting"} => cycle \subseteq buffer
  /\ pc = "posting" => replied = cycle

\* The interrupt is sent for one of two reasons.
WhyInv == pc = "interrupting" => why \in {"max_cycles", "bad_request"}

IInv == /\ TypeOK /\ WireInv /\ SetupInv /\ RunsInv
        /\ ListenInv /\ CycleInv /\ WhyInv /\ ToolsRunOnce

LEMMA InitInv == Init => IInv
<1> SUFFICES ASSUME Init PROVE IInv
  OBVIOUS
<1>1. wire = <<>> /\ Len(wire) = 0 /\ wire \in Seq(Event)
  BY DEF Init
<1>2. Unread(wire) = {} /\ NoneTwice(wire)
  BY <1>1 DEF Unread, NoneTwice
<1>3. 0 \in 0 .. MaxFaults /\ 0 \in 0 .. MaxTurns /\ 0 \in 0 .. MaxCycles
  BY PolicyAssumption
<1>4. runs \in [CustomCalls -> Nat]
  BY DEF Init
<1>5. TypeOK
  BY <1>1, <1>3, <1>4 DEF Init, TypeOK
<1> QED
  BY <1>2, <1>5 DEF Init, IInv, WireInv, SetupInv, RunsInv, ListenInv, Listening,
                    CycleInv, WhyInv, ToolsRunOnce

-----------------------------------------------------------------------------
(* Types.                                                                  *)

\* What is pushed on the stream is a sequence of events.
LEMMA PushTypes ==
  ASSUME wire \in Seq(Event), NEW es \in Seq(Event), Push(es)
  PROVE  wire' \in Seq(Event)
BY AppendedUses DEF Push

LEMMA TypeServer == TypeOK /\ Server => TypeOK'
<1> SUFFICES ASSUME TypeOK, Server PROVE TypeOK'
  OBVIOUS
<1> USE PolicyAssumption DEF TypeOK, Awaiting, serverVars, streamVars, cycleVars, turnVars,
                            Fault, Listening
<1>1. ASSUME NEW S \in SUBSET Ids, ModelCalls(S) PROVE TypeOK'
  <2>1. pending' \subseteq emitted' /\ emitted' \subseteq Ids
    BY <1>1 DEF ModelCalls
  <2>2. PICK C \in {S, pending'} : \E es \in RoundOrders(S, C) :
          Push(es) /\ Cite(C, surfaced', es[Len(es)])
    BY <1>1 DEF ModelCalls
  <2>3. PICK es \in RoundOrders(S, C) : Push(es) /\ Cite(C, surfaced', es[Len(es)])
    BY <2>2
  <2>4. C \in SUBSET Ids
    BY <2>1
  <2>5. wire' \in Seq(Event)
    BY <2>3, <2>4, RoundUses, PushTypes
  <2>6. surfaced' \subseteq emitted' /\ surfaced \subseteq surfaced'
    BY <1>1 DEF ModelCalls
  <2>7. owed' \subseteq surfaced'
    BY <2>3, <2>6 DEF Cite
  <2> QED
    BY <1>1, <2>1, <2>5, <2>6, <2>7 DEF ModelCalls
<1>2. ASSUME CitesAgain PROVE TypeOK'
  <2>1. <<IdleEvent(pending)>> \in Seq(Event)
    BY EventsAreEvents
  <2>2. wire' \in Seq(Event)
    BY <1>2, <2>1, PushTypes DEF CitesAgain
  <2> QED
    BY <1>2, <2>2 DEF CitesAgain, Cite
<1>3. ASSUME ServerMovesOn PROVE TypeOK'
  BY <1>3 DEF ServerMovesOn
<1>4. \A k \in {"noid", "end", "terminated"} : 
        <<Signal(k)>> \in Seq(Event) /\ (Push(<<Signal(k)>>) => wire' \in Seq(Event))
  <2> TAKE k \in {"noid", "end", "terminated"}
  <2>1. <<Signal(k)>> \in Seq(Event)
    BY EventsAreEvents
  <2> QED
    BY <2>1, PushTypes
<1>5. ASSUME ModelEnds PROVE TypeOK'
  BY <1>4, <1>5 DEF ModelEnds
<1>6. ASSUME SessionDies PROVE TypeOK'
  BY <1>4, <1>6 DEF SessionDies
<1>7. ASSUME EventWithoutId PROVE TypeOK'
  BY <1>4, <1>7 DEF EventWithoutId
<1> QED
  BY <1>1, <1>2, <1>3, <1>5, <1>6, <1>7 DEF Server

LEMMA TypeSetup == TypeOK /\ (Start \/ Setup) => TypeOK'
<1> SUFFICES ASSUME TypeOK, Start \/ Setup PROVE TypeOK'
  OBVIOUS
<1> USE PolicyAssumption DEF TypeOK, Awaiting, serverVars, streamVars, cycleVars, turnVars,
                            Fault, InnerEnds, Unwind, Verdict
<1>1. CASE Start
  <2>1. wire' = <<>> /\ <<>> \in Seq(Event)
    BY <1>1 DEF Start
  <2>2. turn' \in 0 .. MaxTurns /\ cycles' \in 0 .. MaxCycles
    BY <1>1 DEF Start
  <2> QED
    BY <1>1, <2>1, <2>2 DEF Start
<1>2. CASE CreateSession
  BY <1>2 DEF CreateSession
<1>3. CASE OpenStream
  BY <1>3 DEF OpenStream
<1>4. CASE SetupFails
  BY <1>4 DEF SetupFails
<1>5. CASE SendMessages
  BY <1>5 DEF SendMessages
<1>6. CASE SendFails
  BY <1>6 DEF SendFails
<1> QED
  BY <1>1, <1>2, <1>3, <1>4, <1>5, <1>6 DEF Setup

LEMMA TypeLoop == TypeOK /\ WireInv /\ WhyInv /\ Loop => TypeOK'
<1> SUFFICES ASSUME TypeOK, WireInv, WhyInv, Loop PROVE TypeOK'
  OBVIOUS
<1> USE PolicyAssumption DEF TypeOK, Awaiting, serverVars, streamVars, cycleVars, turnVars,
                            Fault, Unwind, Finish
<1>1. ASSUME NEW k, Reads(k) PROVE wire' \in Seq(Event) /\ Head(wire) \in Event
  BY <1>1, ReadUsesLeave DEF Reads
<1>2. CASE ReadUses
  <2>1. Head(wire).ids \subseteq surfaced
    BY <1>2, ReadUsesLeave DEF ReadUses, Reads, WireInv
  <2> QED
    BY <1>1, <1>2, <2>1 DEF ReadUses
<1>3. CASE ReadWithoutId
  BY <1>1, <1>3 DEF ReadWithoutId
<1>4. CASE ReadEnd
  BY <1>1, <1>4 DEF ReadEnd
<1>5. CASE StreamEnds
  <2>1. CASE Finish("end")
    BY <1>5, <2>1 DEF StreamEnds
  <2>2. CASE Unwind("raise")
    BY <1>5, <2>2 DEF StreamEnds
  <2> QED
    BY <1>5, <2>1, <2>2 DEF StreamEnds
<1>6. CASE BeginCycle
  BY <1>1, <1>6 DEF BeginCycle
<1>7. CASE SkipCycle
  BY <1>1, <1>7 DEF SkipCycle
<1>8. CASE TooManyCycles
  BY <1>1, <1>8 DEF TooManyCycles
<1>9. ASSUME NEW i \in Ids, ExecuteCall(i) PROVE TypeOK'
  <2>1. runs' \in [CustomCalls -> Nat]
    BY <1>9 DEF ExecuteCall, Invokes
  <2> QED
    BY <1>9, <2>1 DEF ExecuteCall
<1>10. CASE RepliesTaken
  BY <1>10 DEF RepliesTaken, TakesReplies
<1>11. CASE RepliesRefused
  BY <1>11 DEF RepliesRefused
<1>12. CASE PostFails
  BY <1>12 DEF PostFails, TakesReplies
<1>13. CASE InterruptSent
  BY <1>13 DEF InterruptSent, InterruptServed, WhyInv
<1> QED
  BY <1>2, <1>3, <1>4, <1>5, <1>6, <1>7, <1>8, <1>9, <1>10, <1>11, <1>12, <1>13 DEF Loop

Ends == FinishTaken \/ Cleanup \/ Timers \/ CallerStops

\* A cancelled call of the cycle is one that had not run.
LEMMA CancelledTool ==
  ASSUME TypeOK, MayHaveRun
  PROVE  /\ runs' \in [CustomCalls -> Nat]
         /\ \/ runs' = runs
            \/ /\ pc = "executing"
               /\ \E i \in (cycle \ replied) \intersect (CustomCalls \ Unregistered) :
                    runs' = [runs EXCEPT ![i] = @ + 1]
BY DEF TypeOK, MayHaveRun, Invokes

LEMMA TypeEnds == TypeOK /\ Ends => TypeOK'
<1> SUFFICES ASSUME TypeOK, Ends PROVE TypeOK'
  OBVIOUS
<1> USE DEF TypeOK, Awaiting, serverVars, streamVars, cycleVars, turnVars,
           InnerEnds, Unwind, Verdict
<1>1. ASSUME MayBeServed
      PROVE  /\ session' \in {"live", "deleted", session}
             /\ model' \in {"idle", "running", "waiting", "dead"}
             /\ emitted' = emitted /\ pending' \subseteq pending
  BY <1>1 DEF MayBeServed, TakesReplies, InterruptServed
<1>2. CASE FinishTaken
  BY <1>2 DEF FinishTaken
<1>3. CASE CloseSettles
  BY <1>3 DEF CloseSettles
<1>4. CASE DeleteSettles
  BY <1>4 DEF DeleteSettles
<1>5. CASE DeadlineCancels
  BY <1>1, <1>5, CancelledTool DEF DeadlineCancels, Awaiting
<1>6. CASE DeadlineAtYield
  BY <1>6 DEF DeadlineAtYield
<1>7. CASE CloseBudgetSpent
  BY <1>1, <1>7 DEF CloseBudgetSpent
<1>8. CASE CallerStops
  BY <1>8 DEF CallerStops
<1> QED
  BY <1>2, <1>3, <1>4, <1>5, <1>6, <1>7, <1>8 DEF Ends, Cleanup, Timers

LEMMA TypeStep == TypeOK /\ WireInv /\ WhyInv /\ [Next]_vars => TypeOK'
<1> SUFFICES ASSUME TypeOK, WireInv, WhyInv, [Next]_vars PROVE TypeOK'
  OBVIOUS
<1>1. CASE UNCHANGED vars
  BY <1>1 DEF vars, serverVars, streamVars, cycleVars, turnVars, TypeOK
<1> QED
  BY <1>1, TypeServer, TypeSetup, TypeLoop, TypeEnds DEF Next, Ends, AllTurnsDone

-----------------------------------------------------------------------------
(* The rest of the invariant.                                              *)

Rest == /\ WireInv /\ SetupInv /\ RunsInv /\ ListenInv
        /\ CycleInv /\ WhyInv /\ ToolsRunOnce

\* A step that stops reading events keeps it.
LEMMA LeavesKeepRest ==
  ASSUME IInv,
         Unread(wire') \subseteq Unread(wire), NoneTwice(wire'), surfaced' = surfaced,
         runs' = runs \/ (RunsInv' /\ ToolsRunOnce'), emitted' = emitted,
         pc' \in {"idle", "finishing", "interrupting", "closing", "deleting"},
         pc' = "interrupting" => why' \in {"max_cycles", "bad_request"}
  PROVE  Rest'
<1>1. WireInv' /\ RunsInv' /\ ToolsRunOnce' /\ WhyInv'
  BY DEF IInv, WireInv, RunsInv, ToolsRunOnce, WhyInv
<1>2. SetupInv' /\ ListenInv' /\ CycleInv'
  BY DEF SetupInv, ListenInv, Listening, CycleInv
<1> QED
  BY <1>1, <1>2 DEF Rest

\* What is pushed is read later, if the stream is open.
LEMMA PushUses ==
  ASSUME IInv, NEW es \in Seq(Event), Push(es), NoneTwice(es),
         Unread(es) \intersect surfaced = {}
  PROVE  /\ Listening => Unread(wire') = Unread(wire) \union Unread(es)
         /\ ~Listening => wire' = wire
         /\ NoneTwice(wire')
<1>1. wire \in Seq(Event) /\ Unread(wire) \subseteq surfaced /\ NoneTwice(wire)
  BY DEF IInv, TypeOK, WireInv
<1>2. CASE Listening
  BY <1>1, <1>2, AppendedUses DEF Push
<1>3. CASE ~Listening
  BY <1>1, <1>3 DEF Push
<1> QED
  BY <1>2, <1>3

\* A step of the server that uses no tool keeps it, if no custom call is
\* settled behind the reader's back.
LEMMA SignalsKeepRest ==
  ASSUME IInv, ServerActs, NEW e \in Event, e.kind # "uses", Push(<<e>>),
         pending' = pending, emitted' = emitted, surfaced' = surfaced,
         UNCHANGED <<cycleVars, pc, why>>
  PROVE  Rest'
<1> USE DEF cycleVars
<1>1. Unread(<<e>>) = {} /\ <<e>> \in Seq(Event) /\ NoneTwice(<<e>>)
  BY SignalUses
<1>2. Unread(wire') = Unread(wire) /\ NoneTwice(wire')
  BY <1>1, PushUses
<1>3. WireInv' /\ RunsInv' /\ ToolsRunOnce' /\ WhyInv' /\ CycleInv'
  BY <1>2 DEF IInv, WireInv, RunsInv, ToolsRunOnce, WhyInv, CycleInv
<1>4. SetupInv'
  BY DEF ServerActs, Listening, SetupInv
<1>5. ListenInv'
  BY <1>2 DEF IInv, ListenInv, Listening, Done
<1> QED
  BY <1>3, <1>4, <1>5 DEF Rest

LEMMA RestServer == IInv /\ Server => Rest'
<1> SUFFICES ASSUME IInv, Server PROVE Rest'
  OBVIOUS
<1> USE DEF serverVars, streamVars, cycleVars, turnVars
<1>1. ASSUME NEW S \in SUBSET Ids, ModelCalls(S) PROVE Rest'
  <2>1. /\ ServerActs /\ S \intersect emitted = {} /\ emitted' = emitted \union S
        /\ pending' = pending \union S
        /\ surfaced' = IF Listening THEN surfaced \union S ELSE surfaced
        /\ UNCHANGED <<buffer, cycle, replied, cycles, runs, pc, why>>
    BY <1>1 DEF ModelCalls
  <2>2. /\ pending \subseteq emitted /\ emitted \subseteq Ids
        /\ surfaced \subseteq emitted /\ buffer \subseteq surfaced
    BY DEF IInv, TypeOK
  <2>3. PICK C \in {S, pending'} : \E es \in RoundOrders(S, C) : Push(es)
    BY <1>1 DEF ModelCalls
  <2>4. PICK es \in RoundOrders(S, C) : Push(es)
    BY <2>3
  <2>5. es \in Seq(Event) /\ Unread(es) = S /\ NoneTwice(es)
    BY <2>1, <2>2, RoundUses
  <2>6. /\ Listening => Unread(wire') = Unread(wire) \union S
        /\ ~Listening => wire' = wire
        /\ NoneTwice(wire')
    BY <2>1, <2>2, <2>4, <2>5, PushUses
  <2>7. WireInv'
    BY <2>1, <2>6 DEF IInv, WireInv
  <2>8. RunsInv' /\ ToolsRunOnce' /\ WhyInv' /\ CycleInv'
    BY <2>1 DEF IInv, RunsInv, ToolsRunOnce, WhyInv, CycleInv
  <2>9. SetupInv'
    BY <2>1 DEF ServerActs, Listening, SetupInv
  <2>10. ASSUME Listening' PROVE ListenInv'
    <3>1. Listening
      BY <2>1, <2>10 DEF Listening
    <3>2. \A i \in CustomCalls : i \in S => runs[i] = 0
      BY <2>1 DEF IInv, RunsInv, TypeOK
    <3>3. Unread(wire) \subseteq emitted /\ S \intersect buffer = {}
      BY <2>1, <2>2 DEF IInv, WireInv
    <3>4. Unread(wire') = Unread(wire) \union S
      BY <2>6, <3>1
    <3>5. Done' = Done
      BY <2>1 DEF Done
    <3> QED
      BY <2>1, <3>1, <3>2, <3>3, <3>4, <3>5 DEF IInv, ListenInv
  <2> QED
    BY <2>7, <2>8, <2>9, <2>10 DEF Rest, ListenInv
<1>2. ASSUME CitesAgain PROVE Rest'
  <2>1. IdleEvent(pending) \in Event /\ IdleEvent(pending).kind # "uses"
    BY EventsAreEvents DEF IInv, TypeOK, IdleEvent
  <2> QED
    BY <1>2, <2>1, SignalsKeepRest DEF CitesAgain
<1>3. ASSUME ServerMovesOn PROVE Rest'
  <2>1. /\ ServerActs /\ pending \intersect CustomCalls = {} /\ pending' = {}
        /\ UNCHANGED <<emitted, wire, surfaced, buffer, cycle, replied, runs, pc, why>>
    BY <1>3 DEF ServerMovesOn
  <2>2. WireInv' /\ RunsInv' /\ ToolsRunOnce' /\ WhyInv' /\ CycleInv'
    BY <2>1 DEF IInv, WireInv, RunsInv, ToolsRunOnce, WhyInv, CycleInv
  <2>3. SetupInv'
    BY <2>1 DEF ServerActs, Listening, SetupInv
  <2>4. ListenInv'
    BY <2>1 DEF IInv, ListenInv, Listening, Done
  <2> QED
    BY <2>2, <2>3, <2>4 DEF Rest
<1>4. \A k \in {"noid", "end", "terminated"} : Signal(k) \in Event /\ Signal(k).kind # "uses"
  BY EventsAreEvents DEF Signal
<1>5. ASSUME ModelEnds PROVE Rest'
  BY <1>4, <1>5, SignalsKeepRest DEF ModelEnds
<1>6. ASSUME SessionDies PROVE Rest'
  BY <1>4, <1>6, SignalsKeepRest DEF SessionDies
<1>7. ASSUME EventWithoutId PROVE Rest'
  BY <1>4, <1>7, SignalsKeepRest DEF EventWithoutId
<1> QED
  BY <1>1, <1>2, <1>3, <1>5, <1>6, <1>7 DEF Server

LEMMA RestSetup == IInv /\ (Start \/ Setup) => Rest'
<1> SUFFICES ASSUME IInv, Start \/ Setup PROVE Rest'
  OBVIOUS
<1> USE DEF serverVars, streamVars, cycleVars, turnVars
<1>1. NoneTwice(wire) /\ Unread(<<>>) = {} /\ NoneTwice(<<>>)
  BY DEF IInv, WireInv, Unread, NoneTwice
<1>2. ASSUME pc' \in {"creating", "opening", "sending"},
             wire' = <<>>, surfaced' = {}, buffer' = {}, cycle' = {},
             UNCHANGED <<runs, emitted>>
      PROVE  Rest'
  <2>1. WireInv' /\ RunsInv' /\ ToolsRunOnce'
    BY <1>1, <1>2 DEF IInv, WireInv, RunsInv, ToolsRunOnce
  <2>2. SetupInv' /\ ListenInv' /\ CycleInv' /\ WhyInv'
    BY <1>2 DEF SetupInv, ListenInv, Listening, CycleInv, WhyInv
  <2> QED
    BY <2>1, <2>2 DEF Rest
<1>3. CASE Start
  BY <1>2, <1>3 DEF Start
<1>4. CASE CreateSession
  BY <1>2, <1>4 DEF CreateSession, IInv, SetupInv
<1>5. CASE OpenStream
  BY <1>2, <1>5 DEF OpenStream, IInv, SetupInv
<1>6. CASE SetupFails
  BY <1>1, <1>6, LeavesKeepRest DEF SetupFails, InnerEnds
<1>7. CASE SendMessages
  <2>1. /\ pc' = "reading" /\ wire' = <<>> /\ surfaced' = {} /\ buffer' = {}
        /\ UNCHANGED <<runs, emitted>>
    BY <1>7 DEF SendMessages, IInv, SetupInv
  <2>2. WireInv' /\ RunsInv' /\ ToolsRunOnce'
    BY <1>1, <2>1 DEF IInv, WireInv, RunsInv, ToolsRunOnce
  <2>3. SetupInv' /\ CycleInv' /\ WhyInv'
    BY <2>1 DEF SetupInv, CycleInv, WhyInv
  <2>4. ListenInv'
    BY <1>1, <2>1 DEF ListenInv
  <2> QED
    BY <2>2, <2>3, <2>4 DEF Rest
<1>8. CASE SendFails
  BY <1>1, <1>8, LeavesKeepRest DEF SendFails, Unwind
<1> QED
  BY <1>3, <1>4, <1>5, <1>6, <1>7, <1>8 DEF Setup

\* A step between two reads of the stream, with the facts each one owes.
LEMMA ReadersKeepRest ==
  ASSUME IInv, Listening, pc' \in {"reading", "executing", "posting"},
         UNCHANGED <<surfaced, emitted>>,
         Unread(wire') \subseteq Unread(wire), NoneTwice(wire'),
         ListenInv', CycleInv', RunsInv', ToolsRunOnce'
  PROVE  Rest'
<1>1. WireInv'
  BY DEF IInv, WireInv
<1>2. SetupInv' /\ WhyInv'
  BY DEF SetupInv, WhyInv
<1> QED
  BY <1>1, <1>2 DEF Rest

LEMMA RestLoop == IInv /\ Loop => Rest'
<1> SUFFICES ASSUME IInv, Loop PROVE Rest'
  OBVIOUS
<1> USE DEF serverVars, streamVars, cycleVars, turnVars
<1>1. wire \in Seq(Event) /\ NoneTwice(wire) /\ Unread(wire) \subseteq surfaced
  BY DEF IInv, TypeOK, WireInv
<1>2. ASSUME NEW k, Reads(k)
      PROVE  /\ Listening /\ wire # <<>> /\ wire' = Tail(wire) /\ pc = "reading"
             /\ Unread(wire') \subseteq Unread(wire) /\ NoneTwice(wire')
  BY <1>1, <1>2, ReadUsesLeave DEF Reads, Listening
<1>3. ReadUses => Rest'
  <2> SUFFICES ASSUME ReadUses PROVE Rest'
    OBVIOUS
  <2>1. /\ pc = "reading" /\ pc' = "reading" /\ Head(wire).kind = "uses"
        /\ buffer' = buffer \union Head(wire).ids
        /\ UNCHANGED <<pending, emitted, surfaced, cycle, replied, runs>>
    BY DEF ReadUses, Reads
  <2>2. Reads("uses")
    BY DEF ReadUses
  <2>3. /\ Head(wire).ids \subseteq Unread(wire)
        /\ Head(wire).ids \intersect Unread(wire') = {}
    BY <1>1, <1>2, <2>1, <2>2, ReadUsesLeave
  <2>4. ListenInv'
    BY <1>2, <2>1, <2>2, <2>3 DEF IInv, ListenInv, Listening, Done
  <2>5. CycleInv' /\ RunsInv' /\ ToolsRunOnce'
    BY <2>1 DEF IInv, CycleInv, RunsInv, ToolsRunOnce
  <2> QED
    BY <1>2, <2>1, <2>2, <2>4, <2>5, ReadersKeepRest
<1>4. ReadWithoutId => Rest'
  BY <1>2, LeavesKeepRest DEF ReadWithoutId, Unwind
<1>5. ReadEnd => Rest'
  BY <1>2, LeavesKeepRest DEF ReadEnd, Finish
<1>6. StreamEnds => Rest'
  BY <1>1, LeavesKeepRest DEF StreamEnds, Finish, Unwind
<1>7. BeginCycle => Rest'
  <2> SUFFICES ASSUME BeginCycle PROVE Rest'
    OBVIOUS
  <2>1. /\ Reads("idle") /\ pc' = "executing" /\ cycle' \subseteq buffer /\ replied' = {}
        /\ UNCHANGED <<pending, emitted, surfaced, buffer, runs>>
    BY DEF BeginCycle
  <2>2. ListenInv'
    BY <1>2, <2>1 DEF IInv, ListenInv, Listening, Done
  <2>3. CycleInv' /\ RunsInv' /\ ToolsRunOnce'
    BY <2>1 DEF IInv, CycleInv, RunsInv, ToolsRunOnce
  <2> QED
    BY <1>2, <2>1, <2>2, <2>3, ReadersKeepRest
<1>8. SkipCycle => Rest'
  <2> SUFFICES ASSUME SkipCycle PROVE Rest'
    OBVIOUS
  <2>1. /\ Reads("idle") /\ pc' = pc
        /\ UNCHANGED <<pending, emitted, surfaced, buffer, cycle, replied, runs>>
    BY DEF SkipCycle
  <2>2. ListenInv'
    BY <1>2, <2>1 DEF IInv, ListenInv, Listening, Done
  <2>3. CycleInv' /\ RunsInv' /\ ToolsRunOnce'
    BY <2>1 DEF IInv, CycleInv, RunsInv, ToolsRunOnce
  <2> QED
    BY <1>2, <2>1, <2>2, <2>3, ReadersKeepRest
<1>9. TooManyCycles => Rest'
  BY <1>2, LeavesKeepRest DEF TooManyCycles
<1>10. ASSUME NEW i \in Ids, ExecuteCall(i) PROVE Rest'
  <2>1. /\ pc = "executing" /\ i \in cycle /\ i \notin replied
        /\ runs' = IF i \in CustomCalls \ Unregistered THEN [runs EXCEPT ![i] = @ + 1] ELSE runs
        /\ replied' = replied \union {i}
        /\ pc' \in {"executing", "posting"}
        /\ pc' = "posting" => replied' = cycle
        /\ UNCHANGED <<pending, emitted, surfaced, wire, buffer, cycle>>
    BY <1>10 DEF ExecuteCall, Invokes
  <2>2. /\ runs \in [CustomCalls -> Nat] /\ buffer \subseteq surfaced
        /\ surfaced \subseteq emitted
    BY DEF IInv, TypeOK
  <2>3. Listening /\ Listening' /\ Done = replied /\ Done' = replied \union {i}
    BY <2>1 DEF Listening, Done
  <2>4. i \in buffer /\ i \notin Unread(wire)
    BY <2>1, <2>3 DEF IInv, CycleInv, ListenInv
  <2>5. i \in CustomCalls => runs[i] = 0
    BY <2>1, <2>3, <2>4 DEF IInv, ListenInv
  <2>6. \A j \in CustomCalls : j # i => runs'[j] = runs[j]
    BY <2>1, <2>2
  <2>7. i \in CustomCalls => runs'[i] \in {0, 1}
    BY <2>1, <2>2, <2>5
  <2>8. ToolsRunOnce'
    BY <2>6, <2>7 DEF IInv, ToolsRunOnce
  <2>9. RunsInv'
    BY <2>1, <2>2, <2>4, <2>6 DEF IInv, RunsInv
  <2>10. CycleInv'
    BY <2>1 DEF IInv, CycleInv
  <2>11. ListenInv'
    <3>1. \A j \in CustomCalls : j \in (buffer \ Done') \union Unread(wire) => runs'[j] = 0
      BY <2>3, <2>4, <2>6 DEF IInv, ListenInv
    <3>2. Unread(wire') = Unread(wire)
      BY <2>1
    <3> QED
      BY <2>1, <2>3, <3>1, <3>2 DEF IInv, ListenInv
  <2> QED
    BY <1>1, <2>1, <2>3, <2>8, <2>9, <2>10, <2>11, ReadersKeepRest
<1>11. RepliesTaken => Rest'
  <2> SUFFICES ASSUME RepliesTaken PROVE Rest'
    OBVIOUS
  <2>1. /\ pc = "posting" /\ pc' = "reading" /\ buffer' = buffer \ cycle
        /\ pending' \intersect CustomCalls = (pending \ cycle) \intersect CustomCalls
        /\ UNCHANGED <<emitted, surfaced, wire, cycle, replied, runs>>
    BY DEF RepliesTaken, TakesReplies
  <2>2. Listening /\ replied = cycle /\ cycle \subseteq buffer /\ Done = cycle /\ Done' = {}
    BY <2>1 DEF Listening, Done, IInv, CycleInv
  <2>3. Unread(wire') = Unread(wire) /\ Unread(wire) \intersect cycle = {}
    BY <2>1, <2>2 DEF IInv, ListenInv
  <2>4. ListenInv'
    BY <2>1, <2>2, <2>3 DEF IInv, ListenInv
  <2>5. CycleInv' /\ RunsInv' /\ ToolsRunOnce'
    BY <2>1 DEF IInv, CycleInv, RunsInv, ToolsRunOnce
  <2> QED
    BY <1>1, <2>1, <2>2, <2>4, <2>5, ReadersKeepRest
<1>12. RepliesRefused => Rest'
  BY <1>1, LeavesKeepRest DEF RepliesRefused
<1>13. PostFails => Rest'
  BY <1>1, LeavesKeepRest DEF PostFails, TakesReplies, Unwind
<1>14. InterruptSent => Rest'
  BY <1>1, LeavesKeepRest DEF InterruptSent, InterruptServed, Finish
<1> QED
  BY <1>3, <1>4, <1>5, <1>6, <1>7, <1>8, <1>9, <1>10, <1>11, <1>12, <1>13, <1>14 DEF Loop

LEMMA RestEnds == IInv /\ Ends => Rest'
<1> SUFFICES ASSUME IInv, Ends PROVE Rest'
  OBVIOUS
<1> USE DEF serverVars, streamVars, cycleVars, turnVars, Unwind, InnerEnds
<1>1. NoneTwice(wire)
  BY DEF IInv, WireInv
<1>2. MayBeServed => emitted' = emitted
  BY DEF MayBeServed, TakesReplies, InterruptServed
<1>3. CASE FinishTaken
  BY <1>1, <1>3, LeavesKeepRest DEF FinishTaken
<1>4. CASE CloseSettles
  BY <1>1, <1>4, LeavesKeepRest DEF CloseSettles
<1>5. CASE DeleteSettles
  BY <1>1, <1>5, LeavesKeepRest DEF DeleteSettles
<1>6. CASE DeadlineCancels
  <2>1. ASSUME NEW i \in (cycle \ replied) \intersect (CustomCalls \ Unregistered),
               pc = "executing", runs' = [runs EXCEPT ![i] = @ + 1], emitted' = emitted
        PROVE  RunsInv' /\ ToolsRunOnce'
    <3>1. i \in buffer \ Done /\ Listening
      BY <2>1 DEF IInv, CycleInv, Done, Listening
    <3>2. runs[i] = 0 /\ i \in emitted /\ runs \in [CustomCalls -> Nat]
      BY <2>1, <3>1 DEF IInv, ListenInv, TypeOK
    <3> QED
      BY <2>1, <3>2 DEF IInv, RunsInv, ToolsRunOnce
  <2>2. runs' = runs \/ (RunsInv' /\ ToolsRunOnce')
    BY <1>2, <1>6, <2>1, CancelledTool DEF DeadlineCancels, IInv
  <2> QED
    BY <1>1, <1>2, <1>6, <2>2, LeavesKeepRest DEF DeadlineCancels
<1>7. CASE DeadlineAtYield
  BY <1>1, <1>7, LeavesKeepRest DEF DeadlineAtYield
<1>8. CASE CloseBudgetSpent
  BY <1>1, <1>2, <1>8, LeavesKeepRest DEF CloseBudgetSpent
<1>9. CASE CallerStops
  BY <1>1, <1>9, LeavesKeepRest DEF CallerStops
<1> QED
  BY <1>3, <1>4, <1>5, <1>6, <1>7, <1>8, <1>9 DEF Ends, Cleanup, Timers

LEMMA StepInv == IInv /\ [Next]_vars => IInv'
<1> SUFFICES ASSUME IInv, [Next]_vars PROVE IInv'
  OBVIOUS
<1>1. TypeOK'
  BY TypeStep DEF IInv
<1>2. CASE UNCHANGED vars
  <2>1. UNCHANGED <<wire, surfaced, pc, why, buffer, cycle, replied, runs, emitted, pending>>
    BY <1>2 DEF vars, serverVars, streamVars, cycleVars, turnVars
  <2>2. WireInv' /\ SetupInv' /\ RunsInv' /\ CycleInv' /\ WhyInv' /\ ToolsRunOnce'
    BY <2>1 DEF IInv, WireInv, SetupInv, RunsInv, CycleInv, WhyInv, ToolsRunOnce
  <2>3. ListenInv'
    BY <2>1 DEF IInv, ListenInv, Listening, Done
  <2> QED
    BY <1>1, <2>2, <2>3 DEF IInv
<1>3. CASE Next /\ ~AllTurnsDone
  <2>1. Rest'
    BY <1>3, RestServer, RestSetup, RestLoop, RestEnds DEF Next, Ends
  <2> QED
    BY <1>1, <2>1 DEF IInv, Rest
<1> QED
  BY <1>2, <1>3 DEF AllTurnsDone

-----------------------------------------------------------------------------
(* The ends of a turn.                                                     *)

OneVerdict == \A a, b \in reports \ {"timeout", "stopped"} : a = b

\* Nothing is reported before the generator ends, it reports one thing, and
\* what it did not report is reported when it is gone.
EndInv ==
  /\ OneVerdict
  /\ pc \in {"creating", "opening", "sending", "reading", "executing", "posting",
             "interrupting"} => reports = {}
  /\ pc \in {"creating", "opening", "sending", "reading", "executing",
             "posting"} => why = "run"
  /\ pc = "finishing" => reports # {}
  /\ pc \in {"closing", "deleting"} =>
       /\ why \in {"finish", "raise", "cancel", "late", "stopped"}
       /\ why = "finish" => reports # {}
       /\ why = "raise" => reports = {}
  /\ pc = "idle" /\ turn > 0 => reports # {}

LEMMA EndStep == TypeOK /\ WhyInv /\ EndInv /\ [Next]_vars => EndInv'
<1> SUFFICES ASSUME TypeOK, WhyInv, EndInv, [Next]_vars PROVE EndInv'
  OBVIOUS
<1> USE DEF EndInv, OneVerdict
<1>1. CASE UNCHANGED <<pc, why, reports, turn>>
  BY <1>1
<1>2. ASSUME pc # "idle",
             pc' \in {"creating", "opening", "sending", "reading", "executing", "posting"},
             pc \notin {"interrupting", "finishing", "closing", "deleting"},
             UNCHANGED <<why, reports, turn>>
      PROVE  EndInv'
  BY <1>2 DEF TypeOK, Awaiting
<1>3. ASSUME NEW r, pc' = "finishing", why' = "finish", reports = {}, reports' = {r}
      PROVE  EndInv'
  BY <1>3
<1>4. ASSUME NEW w \in {"finish", "raise", "cancel", "late", "stopped"},
             Unwind(w), w = "finish" => reports # {}, w = "raise" => reports = {}
      PROVE  EndInv'
  BY <1>4 DEF Unwind
<1>5. ASSUME NEW w \in {"finish", "raise", "cancel", "late", "stopped"},
             InnerEnds(w), w = "finish" => reports # {}, w = "raise" => reports = {}
      PROVE  EndInv'
  BY <1>5 DEF InnerEnds, Verdict
<1>6. CASE Server
  BY <1>1, <1>6 DEF Server, ModelCalls, CitesAgain, ServerMovesOn, ModelEnds, SessionDies,
                    EventWithoutId, turnVars
<1>7. CASE Start
  BY <1>7 DEF Start
<1>8. CASE Setup
  BY <1>2, <1>4, <1>5, <1>8
    DEF Setup, CreateSession, OpenStream, SetupFails, SendMessages, SendFails, turnVars
<1>9. ASSUME Loop PROVE EndInv'
  <2> USE DEF turnVars
  <2>1. CASE ReadUses \/ SkipCycle
    BY <1>1, <2>1 DEF ReadUses, SkipCycle
  <2>2. CASE ReadWithoutId
    BY <1>4, <2>2 DEF ReadWithoutId, Reads
  <2>3. CASE ReadEnd
    BY <1>3, <2>3 DEF ReadEnd, Reads, Finish
  <2>4. CASE StreamEnds
    BY <1>3, <1>4, <2>4 DEF StreamEnds, Finish
  <2>5. CASE BeginCycle
    BY <1>2, <2>5 DEF BeginCycle, Reads
  <2>6. CASE TooManyCycles
    BY <2>6 DEF TooManyCycles, Reads
  <2>7. CASE \E i \in Ids : ExecuteCall(i)
    BY <1>2, <2>7 DEF ExecuteCall
  <2>8. CASE RepliesTaken
    BY <1>2, <2>8 DEF RepliesTaken
  <2>9. CASE RepliesRefused
    BY <2>9 DEF RepliesRefused
  <2>10. CASE PostFails
    BY <1>4, <2>10 DEF PostFails
  <2>11. CASE InterruptSent
    BY <1>3, <2>11 DEF InterruptSent, Finish
  <2> QED
    BY <1>9, <2>1, <2>2, <2>3, <2>4, <2>5, <2>6, <2>7, <2>8, <2>9, <2>10, <2>11 DEF Loop
<1>10. ASSUME Ends PROVE EndInv'
  <2> USE DEF turnVars
  <2>1. CASE FinishTaken
    BY <1>4, <2>1 DEF FinishTaken
  <2>2. CASE CloseSettles
    <3>1. CASE InnerEnds(why)
      BY <1>5, <2>2, <3>1 DEF CloseSettles
    <3>2. CASE pc' = "deleting" /\ UNCHANGED <<why, reports>>
      BY <2>2, <3>2 DEF CloseSettles
    <3> QED
      BY <2>2, <3>1, <3>2 DEF CloseSettles
  <2>3. CASE DeleteSettles
    BY <1>5, <2>3 DEF DeleteSettles
  <2>4. CASE DeadlineCancels
    BY <1>4, <1>5, <2>4 DEF DeadlineCancels
  <2>5. CASE DeadlineAtYield
    BY <1>4, <2>5 DEF DeadlineAtYield
  <2>6. CASE CloseBudgetSpent
    BY <1>5, <2>6 DEF CloseBudgetSpent
  <2>7. CASE CallerStops
    BY <1>4, <2>7 DEF CallerStops
  <2> QED
    BY <1>10, <2>1, <2>2, <2>3, <2>4, <2>5, <2>6, <2>7 DEF Ends, Timers, Cleanup
<1> QED
  BY <1>1, <1>6, <1>7, <1>8, <1>9, <1>10 DEF Next, Ends, AllTurnsDone, vars, turnVars

-----------------------------------------------------------------------------
(* The signals that are still to come.                                     *)

UsesBefore(w, k) == UNION {UsesAt(w, j) : j \in 1 .. k - 1}

\* A signal for exactly the calls R is unread, and when it is read they are
\* buffered, if B is buffered now.
CitedAhead(w, B, R) ==
  \E k \in 1 .. Len(w) :
    w[k].kind = "idle" /\ w[k].ids = R /\ R \subseteq B \union UsesBefore(w, k)

LEMMA AppendedCites ==
  ASSUME NEW w \in Seq(Event), NEW es \in Seq(Event), NEW B, NEW R
  PROVE  /\ CitedAhead(w, B, R) => CitedAhead(w \o es, B, R)
         /\ CitedAhead(es, {}, R) => CitedAhead(w \o es, B, R)
         /\ \A k \in 1 .. Len(w \o es) :
              \/ \E j \in 1 .. Len(w) : (w \o es)[k] = w[j]
              \/ \E j \in 1 .. Len(es) : (w \o es)[k] = es[j]
<1> DEFINE v == w \o es
<1>1. /\ Len(w) \in Nat /\ Len(es) \in Nat /\ Len(v) = Len(w) + Len(es)
      /\ \A k \in 1 .. Len(w) + Len(es) :
           v[k] = IF k <= Len(w) THEN w[k] ELSE es[k - Len(w)]
  BY ConcatProperties
<1>2. \A k \in 1 .. Len(w) : k \in 1 .. Len(v) /\ v[k] = w[k]
  BY <1>1
<1>3. \A k \in 1 .. Len(es) : Len(w) + k \in 1 .. Len(v) /\ v[Len(w) + k] = es[k]
  BY <1>1
<1>4. ASSUME NEW k \in 1 .. Len(v), k \notin 1 .. Len(w)
      PROVE  k - Len(w) \in 1 .. Len(es) /\ v[k] = es[k - Len(w)]
  BY <1>1, <1>4
<1> HIDE DEF v
<1>5. ASSUME CitedAhead(w, B, R) PROVE CitedAhead(v, B, R)
  <2>1. PICK k \in 1 .. Len(w) :
          w[k].kind = "idle" /\ w[k].ids = R /\ R \subseteq B \union UsesBefore(w, k)
    BY <1>5 DEF CitedAhead
  <2>2. \A j \in 1 .. k - 1 : j \in 1 .. Len(w)
    BY <1>1
  <2>3. UsesBefore(w, k) \subseteq UsesBefore(v, k)
    BY <1>2, <2>2 DEF UsesBefore, UsesAt
  <2> QED
    BY <1>2, <2>1, <2>3 DEF CitedAhead
<1>6. ASSUME CitedAhead(es, {}, R) PROVE CitedAhead(v, B, R)
  <2>1. PICK k \in 1 .. Len(es) :
          es[k].kind = "idle" /\ es[k].ids = R /\ R \subseteq UsesBefore(es, k)
    BY <1>6 DEF CitedAhead
  <2>2. \A j \in 1 .. k - 1 : j \in 1 .. Len(es) /\ Len(w) + j \in 1 .. (Len(w) + k) - 1
    BY <1>1
  <2>3. UsesBefore(es, k) \subseteq UsesBefore(v, Len(w) + k)
    <3> SUFFICES ASSUME NEW j \in 1 .. k - 1, NEW i \in UsesAt(es, j)
                 PROVE  i \in UsesBefore(v, Len(w) + k)
      BY DEF UsesBefore
    <3>1. i \in UsesAt(v, Len(w) + j)
      BY <1>3, <2>2 DEF UsesAt
    <3> QED
      BY <2>2, <3>1 DEF UsesBefore
  <2> QED
    BY <1>3, <2>1, <2>3 DEF CitedAhead
<1> QED
  BY <1>2, <1>4, <1>5, <1>6 DEF v

\* What reading the first event leaves to come.
LEMMA ReadCites ==
  ASSUME NEW w \in Seq(Event), w # <<>>, NEW B, NEW R
  PROVE  /\ Unread(w) = UsesAt(w, 1) \union Unread(Tail(w))
         /\ CitedAhead(w, B, R) =>
              \/ CitedAhead(Tail(w), B \union UsesAt(w, 1), R)
              \/ Head(w).kind = "idle" /\ Head(w).ids = R /\ R \subseteq B
         /\ \A k \in 1 .. Len(Tail(w)) : \E j \in 1 .. Len(w) : Tail(w)[k] = w[j]
         /\ 1 \in 1 .. Len(w) /\ Head(w) = w[1]
<1> DEFINE t == Tail(w)
<1>1. /\ Len(t) = Len(w) - 1
      /\ \A i \in 1 .. Len(t) : t[i] = w[i + 1]
  BY HeadTailProperties
<1>2. Len(w) \in Nat \ {0} /\ Head(w) = w[1]
  BY EmptySeq
<1>3. \A i \in 1 .. Len(t) : i + 1 \in 1 .. Len(w) /\ UsesAt(t, i) = UsesAt(w, i + 1)
  BY <1>1, <1>2 DEF UsesAt
<1>4. 1 \in 1 .. Len(w)
  BY <1>2
<1>5. \A i \in 1 .. Len(w) : i = 1 \/ (i - 1 \in 1 .. Len(t) /\ w[i] = t[i - 1])
  BY <1>1, <1>2
<1> HIDE DEF t
<1>6. Unread(w) = UsesAt(w, 1) \union Unread(t)
  <2>1. \A i \in 1 .. Len(w) : UsesAt(w, i) \subseteq UsesAt(w, 1) \union Unread(t)
    <3> SUFFICES ASSUME NEW i \in 1 .. Len(w), i # 1 PROVE UsesAt(w, i) \subseteq Unread(t)
      OBVIOUS
    <3>1. i - 1 \in 1 .. Len(t) /\ UsesAt(w, i) = UsesAt(t, i - 1)
      BY <1>5 DEF UsesAt
    <3> QED
      BY <3>1 DEF Unread
  <2>2. UsesAt(w, 1) \subseteq Unread(w)
    BY <1>4 DEF Unread
  <2>3. Unread(t) \subseteq Unread(w)
    BY <1>3 DEF Unread
  <2>4. Unread(w) \subseteq UsesAt(w, 1) \union Unread(t)
    BY <2>1 DEF Unread
  <2> QED
    BY <2>2, <2>3, <2>4
<1>7. ASSUME CitedAhead(w, B, R), ~(w[1].kind = "idle" /\ w[1].ids = R /\ R \subseteq B)
      PROVE  CitedAhead(t, B \union UsesAt(w, 1), R)
  <2>1. PICK k \in 1 .. Len(w) :
          w[k].kind = "idle" /\ w[k].ids = R /\ R \subseteq B \union UsesBefore(w, k)
    BY <1>7 DEF CitedAhead
  <2>2. k # 1
    <3>1. UsesBefore(w, 1) = {}
      BY DEF UsesBefore
    <3> QED
      BY <1>7, <2>1, <3>1
  <2>3. k - 1 \in 1 .. Len(t) /\ t[k - 1] = w[k]
    BY <1>5, <2>2
  <2>4. UsesBefore(w, k) \subseteq UsesAt(w, 1) \union UsesBefore(t, k - 1)
    <3> SUFFICES ASSUME NEW j \in 1 .. k - 1, j # 1
                 PROVE  UsesAt(w, j) \subseteq UsesBefore(t, k - 1)
      BY DEF UsesBefore
    <3>1. j \in 1 .. Len(w) /\ j - 1 \in 1 .. (k - 1) - 1
      BY <1>2
    <3>2. UsesAt(w, j) = UsesAt(t, j - 1)
      BY <1>5, <3>1 DEF UsesAt
    <3> QED
      BY <3>1, <3>2 DEF UsesBefore
  <2> QED
    BY <2>1, <2>3, <2>4 DEF CitedAhead
<1> QED
  BY <1>2, <1>3, <1>4, <1>6, <1>7, <1>1 DEF t

\* However a round is ordered, its signals cite the calls C; the last event,
\* when it is a signal, comes after the tool uses.
LEMMA RoundCites ==
  ASSUME NEW S \in SUBSET Ids, NEW C \in SUBSET Ids, NEW es \in RoundOrders(S, C)
  PROVE  /\ \A k \in 1 .. Len(es) : es[k].kind = "idle" => es[k].ids = C
         /\ es[Len(es)].kind = "idle" /\ C \subseteq S => CitedAhead(es, {}, C)
<1> DEFINE u == UsesEvent(S)
           i == IdleEvent(C)
<1>1. u.kind = "uses" /\ u.ids = S /\ i.kind = "idle" /\ i.ids = C
  BY DEF UsesEvent, IdleEvent
<1> HIDE DEF u, i
<1>2. es \in {<<u, i>>, <<i, u>>, <<u, i, i>>, <<i, u, i>>}
  BY DEF RoundOrders, u, i
<1>3. ASSUME NEW j \in 1 .. Len(es), NEW k \in 1 .. Len(es),
             j < k, es[j] = u, es[k] = i, C \subseteq S, Len(es) \in {2, 3}
      PROVE  CitedAhead(es, {}, C)
  <2>1. j \in 1 .. k - 1 /\ UsesAt(es, j) = S
    BY <1>1, <1>3 DEF UsesAt
  <2>2. S \subseteq UsesBefore(es, k)
    BY <2>1 DEF UsesBefore
  <2> QED
    BY <1>1, <1>3, <2>2 DEF CitedAhead
<1>4. CASE es = <<u, i>>
  <2>1. Len(es) = 2 /\ es[1] = u /\ es[2] = i
    BY <1>4
  <2> QED
    BY <1>1, <1>3, <2>1
<1>5. CASE es = <<i, u>>
  <2>1. Len(es) = 2 /\ es[1] = i /\ es[2] = u
    BY <1>5
  <2> QED
    BY <1>1, <2>1
<1>6. CASE es = <<u, i, i>>
  <2>1. Len(es) = 3 /\ es[1] = u /\ es[2] = i /\ es[3] = i
    BY <1>6
  <2> QED
    BY <1>1, <1>3, <2>1
<1>7. CASE es = <<i, u, i>>
  <2>1. Len(es) = 3 /\ es[1] = i /\ es[2] = u /\ es[3] = i
    BY <1>7
  <2> QED
    BY <1>1, <1>3, <2>1
<1> QED
  BY <1>2, <1>4, <1>5, <1>6, <1>7

-----------------------------------------------------------------------------
(* The turn and the session do not wait for each other.                    *)

\* The calls of this stream the session waits for: one round of them.
Round == pending \intersect surfaced

\* A cycle C answers the whole round R or nothing of it.
Whole(R, C) == R \subseteq C \/ R \intersect C = {}

Cycling == pc \in {"executing", "posting"}

\* While events are read, a round that is owed is in the cycle in progress, or
\* a signal for it is still to be read and will find its calls buffered.
WaitInv ==
  Listening =>
    /\ Round \subseteq buffer \union Unread(wire)
    /\ model = "running" => Round = {}
    /\ \A k \in 1 .. Len(wire) :
         wire[k].kind = "idle" => wire[k].ids \subseteq emitted /\ Whole(Round, wire[k].ids)
    /\ Cycling => Whole(Round, cycle)
    /\ owed \intersect pending # {} =>
         (Cycling /\ Round \subseteq cycle) \/ CitedAhead(wire, buffer, Round)

\* A stream on which nothing has surfaced.
LEMMA EmptyRoundWaits ==
  ASSUME TypeOK', Round' = {},
         \A k \in 1 .. Len(wire') : (wire'[k].kind = "idle") => wire'[k].ids \subseteq emitted'
  PROVE  WaitInv'
<1>1. owed' \intersect pending' = {}
  BY DEF TypeOK, Round
<1> QED
  BY <1>1 DEF WaitInv, Whole

LEMMA WaitServer == IInv /\ WaitInv /\ TypeOK' /\ Server => WaitInv'
<1> SUFFICES ASSUME IInv, WaitInv, TypeOK', Server, Listening' PROVE WaitInv'
  BY DEF WaitInv
<1> USE DEF serverVars, streamVars, cycleVars, turnVars
<1>1. UNCHANGED <<pc, buffer, cycle>>
  BY DEF Server, ModelCalls, CitesAgain, ServerMovesOn, ModelEnds, SessionDies, EventWithoutId
<1>2. Listening /\ (Cycling' <=> Cycling)
  BY <1>1 DEF Listening, Cycling
<1>3. /\ wire \in Seq(Event) /\ wire' \in Seq(Event)
      /\ pending \subseteq emitted /\ emitted \subseteq Ids /\ surfaced \subseteq emitted
      /\ owed \subseteq surfaced /\ cycle \subseteq surfaced
  BY DEF IInv, TypeOK
<1>4. /\ Round \subseteq buffer \union Unread(wire)
      /\ model = "running" => Round = {}
      /\ \A k \in 1 .. Len(wire) :
           wire[k].kind = "idle" => wire[k].ids \subseteq emitted /\ Whole(Round, wire[k].ids)
      /\ Cycling => Whole(Round, cycle)
      /\ owed \intersect pending # {} =>
           (Cycling /\ Round \subseteq cycle) \/ CitedAhead(wire, buffer, Round)
  BY <1>2 DEF WaitInv
<1>5. ASSUME NEW S \in SUBSET Ids, ModelCalls(S) PROVE WaitInv'
  <2>1. /\ Round = {} /\ S \intersect emitted = {} /\ S # {} /\ model' = "waiting"
        /\ emitted' = emitted \union S /\ pending' = pending \union S
        /\ surfaced' = surfaced \union S
    BY <1>2, <1>4, <1>5 DEF ModelCalls
  <2>2. PICK C \in {S, pending'} : \E es \in RoundOrders(S, C) :
          Push(es) /\ Cite(C, surfaced', es[Len(es)])
    BY <1>5 DEF ModelCalls
  <2>3. PICK es \in RoundOrders(S, C) : Push(es) /\ Cite(C, surfaced', es[Len(es)])
    BY <2>2
  <2>4. C \in SUBSET Ids /\ S \subseteq C /\ C \subseteq emitted'
    BY <1>3, <2>1
  <2>5. Round' = S /\ owed \intersect pending' = {}
    BY <1>3, <2>1 DEF Round
  <2>6. es \in Seq(Event) /\ Unread(es) = S
    BY <2>4, RoundUses
  <2>7. wire' = wire \o es /\ Unread(wire') = Unread(wire) \union S
    BY <1>2, <1>3, <2>3, <2>6, AppendedUses DEF Push
  <2>8. ASSUME NEW k \in 1 .. Len(wire'), wire'[k].kind = "idle"
        PROVE  wire'[k].ids \subseteq emitted' /\ Whole(Round', wire'[k].ids)
    <3>1. CASE \E j \in 1 .. Len(wire) : wire'[k] = wire[j]
      BY <1>4, <2>1, <2>5, <2>8, <3>1 DEF Whole
    <3>2. CASE \E j \in 1 .. Len(es) : wire'[k] = es[j]
      BY <2>4, <2>5, <2>8, <3>2, RoundCites DEF Whole
    <3> QED
      BY <1>3, <2>6, <2>7, <3>1, <3>2, AppendedCites
  <2>9. Whole(Round', cycle')
    BY <1>1, <1>3, <2>1, <2>5 DEF Whole
  <2>10. ASSUME owed' \intersect pending' # {} PROVE CitedAhead(wire', buffer', Round')
    <3>1. es[Len(es)].kind = "idle" /\ C \subseteq surfaced' /\ C \subseteq pending'
      BY <2>1, <2>3, <2>5, <2>10 DEF Cite
    <3>2. C = S
      BY <2>4, <2>5, <3>1 DEF Round
    <3>3. CitedAhead(es, {}, S)
      BY <2>4, <3>1, <3>2, RoundCites
    <3> QED
      BY <1>3, <2>5, <2>6, <2>7, <3>3, AppendedCites
  <2>11. Round' \subseteq buffer' \union Unread(wire')
    BY <2>5, <2>7
  <2> QED
    BY <2>1, <2>8, <2>9, <2>10, <2>11 DEF WaitInv
<1>6. ASSUME NEW e \in Event, e.kind # "uses", Push(<<e>>),
             UNCHANGED <<pending, surfaced, emitted>>,
             model' = "running" => model = "running",
             e.kind = "idle" => e.ids = pending,
             owed' = owed \/ (e.kind = "idle" /\ pending \subseteq surfaced)
      PROVE  WaitInv'
  <2>1. <<e>> \in Seq(Event) /\ Len(<<e>>) = 1 /\ <<e>>[1] = e /\ Unread(<<e>>) = {}
    BY <1>6, SignalUses
  <2>2. wire' = wire \o <<e>> /\ Unread(wire') = Unread(wire)
    <3>1. wire' = wire \o <<e>>
      BY <1>2, <1>6 DEF Push
    <3>2. Unread(wire \o <<e>>) = Unread(wire) \union Unread(<<e>>)
      BY <1>3, <2>1, AppendedUses
    <3> QED
      BY <2>1, <3>1, <3>2
  <2>3. Round' = Round
    BY <1>6 DEF Round
  <2>4. ASSUME NEW k \in 1 .. Len(wire'), wire'[k].kind = "idle"
        PROVE  wire'[k].ids \subseteq emitted' /\ Whole(Round', wire'[k].ids)
    <3>1. CASE \E j \in 1 .. Len(wire) : wire'[k] = wire[j]
      BY <1>4, <1>6, <2>3, <2>4, <3>1 DEF Whole
    <3>2. CASE \E j \in 1 .. 1 : wire'[k] = <<e>>[j]
      BY <1>3, <1>6, <2>1, <2>3, <2>4, <3>2 DEF Whole, Round
    <3> QED
      BY <1>3, <2>1, <2>2, <3>1, <3>2, AppendedCites
  <2>5. ASSUME owed' \intersect pending' # {}
        PROVE  (Cycling' /\ Round' \subseteq cycle') \/ CitedAhead(wire', buffer', Round')
    <3>1. CASE owed' = owed
      BY <1>1, <1>2, <1>3, <1>4, <1>6, <2>1, <2>2, <2>3, <2>5, <3>1, AppendedCites
    <3>2. CASE e.kind = "idle" /\ pending \subseteq surfaced
      <4>1. Round = pending
        BY <3>2 DEF Round
      <4>2. /\ Len(wire) \in Nat /\ Len(wire') = Len(wire) + 1
            /\ wire'[Len(wire) + 1] = e
            /\ \A j \in 1 .. Len(wire) : wire'[j] = wire[j]
        BY <1>3, <2>1, <2>2, ConcatProperties
      <4>3. \A j \in 1 .. Len(wire) : j \in 1 .. (Len(wire) + 1) - 1
        BY <4>2
      <4>4. Unread(wire) \subseteq UsesBefore(wire', Len(wire) + 1)
        BY <4>2, <4>3 DEF Unread, UsesBefore, UsesAt
      <4>5. Len(wire) + 1 \in 1 .. Len(wire')
        BY <4>2
      <4>6. CitedAhead(wire', buffer, Round)
        BY <1>4, <1>6, <3>2, <4>1, <4>2, <4>4, <4>5 DEF CitedAhead
      <4> QED
        BY <1>1, <2>3, <4>6
    <3> QED
      BY <1>6, <3>1, <3>2
  <2>6. Cycling' => Whole(Round', cycle')
    BY <1>1, <1>2, <1>4, <2>3 DEF Whole
  <2>7. Round' \subseteq buffer' \union Unread(wire')
    BY <1>1, <1>4, <2>2, <2>3
  <2>8. model' = "running" => Round' = {}
    BY <1>4, <1>6, <2>3
  <2> QED
    BY <2>4, <2>5, <2>6, <2>7, <2>8 DEF WaitInv
<1>7. CASE CitesAgain
  <2>1. IdleEvent(pending) \in Event /\ IdleEvent(pending).kind = "idle"
        /\ IdleEvent(pending).ids = pending
    BY <1>3, EventsAreEvents DEF IdleEvent
  <2>2. owed' = owed \/ (pending \subseteq surfaced)
    BY <1>7 DEF CitesAgain, Cite
  <2> QED
    BY <1>6, <1>7, <2>1, <2>2 DEF CitesAgain
<1>8. CASE ServerMovesOn
  <2>1. pending' = {} /\ UNCHANGED <<wire, emitted>>
    BY <1>8 DEF ServerMovesOn
  <2>2. Round' = {}
    BY <2>1 DEF Round
  <2> QED
    BY <1>4, <2>1, <2>2, EmptyRoundWaits
<1>9. \A k \in {"noid", "end", "terminated"} :
        Signal(k) \in Event /\ Signal(k).kind \notin {"uses", "idle"}
  BY EventsAreEvents DEF Signal
<1>10. CASE ModelEnds
  BY <1>6, <1>9, <1>10 DEF ModelEnds
<1>11. CASE SessionDies
  BY <1>6, <1>9, <1>11 DEF SessionDies
<1>12. CASE EventWithoutId
  BY <1>6, <1>9, <1>12 DEF EventWithoutId
<1> QED
  BY <1>5, <1>7, <1>8, <1>10, <1>11, <1>12 DEF Server

LEMMA WaitLoop == IInv /\ WaitInv /\ TypeOK' /\ Loop => WaitInv'
<1> SUFFICES ASSUME IInv, WaitInv, TypeOK', Loop, Listening' PROVE WaitInv'
  BY DEF WaitInv
<1> USE DEF serverVars, streamVars, cycleVars, turnVars
<1>1. wire \in Seq(Event) /\ owed \subseteq surfaced
  BY DEF IInv, TypeOK
<1>2. Listening =>
      /\ Round \subseteq buffer \union Unread(wire)
      /\ model = "running" => Round = {}
      /\ \A k \in 1 .. Len(wire) :
           wire[k].kind = "idle" => wire[k].ids \subseteq emitted /\ Whole(Round, wire[k].ids)
      /\ Cycling => Whole(Round, cycle)
      /\ owed \intersect pending # {} =>
           (Cycling /\ Round \subseteq cycle) \/ CitedAhead(wire, buffer, Round)
  BY DEF WaitInv
\* What every read leaves of it.
<1>3. ASSUME NEW k, Reads(k), UNCHANGED <<pending, surfaced, emitted, model, owed>>
      PROVE  /\ Listening /\ ~Cycling /\ Round' = Round
             /\ model' = "running" => Round' = {}
             /\ \A n \in 1 .. Len(wire') :
                  wire'[n].kind = "idle" =>
                    wire'[n].ids \subseteq emitted' /\ Whole(Round', wire'[n].ids)
             /\ Head(wire).kind = "idle" => Whole(Round, Head(wire).ids)
             /\ Round \subseteq (buffer \union UsesAt(wire, 1)) \union Unread(wire')
             /\ owed' \intersect pending' # {} =>
                  \/ CitedAhead(wire', buffer \union UsesAt(wire, 1), Round)
                  \/ /\ Head(wire).kind = "idle" /\ Head(wire).ids = Round
                     /\ Round \subseteq buffer
             /\ UsesAt(wire, 1) = IF k = "uses" THEN Head(wire).ids ELSE {}
  <2>1. /\ pc = "reading" /\ wire # <<>> /\ Head(wire).kind = k /\ wire' = Tail(wire)
    BY <1>3 DEF Reads
  <2>2. Listening /\ ~Cycling
    BY <2>1 DEF Listening, Cycling
  <2>3. Round' = Round
    BY <1>3 DEF Round, Whole
  <2>4. /\ \A n \in 1 .. Len(wire') : \E j \in 1 .. Len(wire) : wire'[n] = wire[j]
        /\ 1 \in 1 .. Len(wire) /\ Head(wire) = wire[1]
        /\ Unread(wire) = UsesAt(wire, 1) \union Unread(wire')
        /\ CitedAhead(wire, buffer, Round) =>
             \/ CitedAhead(wire', buffer \union UsesAt(wire, 1), Round)
             \/ Head(wire).kind = "idle" /\ Head(wire).ids = Round /\ Round \subseteq buffer
    <3>1. wire # <<>> /\ wire' = Tail(wire)
      BY <2>1
    <3>2. /\ \A n \in 1 .. Len(Tail(wire)) : \E j \in 1 .. Len(wire) : Tail(wire)[n] = wire[j]
          /\ 1 \in 1 .. Len(wire) /\ Head(wire) = wire[1]
          /\ Unread(wire) = UsesAt(wire, 1) \union Unread(Tail(wire))
          /\ CitedAhead(wire, buffer, Round) =>
               \/ CitedAhead(Tail(wire), buffer \union UsesAt(wire, 1), Round)
               \/ Head(wire).kind = "idle" /\ Head(wire).ids = Round /\ Round \subseteq buffer
      BY <1>1, <3>1, ReadCites, Zenon
    <3> QED
      BY <3>1, <3>2, Zenon
  <2>5. \A n \in 1 .. Len(wire') :
          wire'[n].kind = "idle" => wire'[n].ids \subseteq emitted' /\ Whole(Round, wire'[n].ids)
    BY <1>2, <1>3, <2>2, <2>4
  <2>6. Head(wire).kind = "idle" => Whole(Round, Head(wire).ids)
    BY <1>2, <2>2, <2>4
  <2>7. UsesAt(wire, 1) = IF k = "uses" THEN Head(wire).ids ELSE {}
    BY <2>1, <2>4 DEF UsesAt
  <2>8. owed' \intersect pending' # {} => CitedAhead(wire, buffer, Round)
    BY <1>2, <1>3, <2>2
  <2>9. \A n \in 1 .. Len(wire') :
          wire'[n].kind = "idle" => wire'[n].ids \subseteq emitted' /\ Whole(Round', wire'[n].ids)
    BY <2>3, <2>5 DEF Whole
  <2> QED
    BY <1>2, <1>3, <2>2, <2>3, <2>4, <2>6, <2>7, <2>8, <2>9
<1>4. CASE ReadUses
  <2>1. /\ Reads("uses") /\ buffer' = buffer \union Head(wire).ids /\ pc' = pc
        /\ UNCHANGED <<pending, surfaced, emitted, model, owed, cycle>>
    BY <1>4 DEF ReadUses
  <2>2. buffer' = buffer \union UsesAt(wire, 1) /\ Head(wire).kind = "uses" /\ ~Cycling'
    BY <1>3, <2>1 DEF Reads, Cycling
  <2> QED
    BY <1>3, <2>1, <2>2 DEF WaitInv
<1>5. CASE BeginCycle
  <2>1. /\ Reads("idle") /\ cycle' = Head(wire).ids /\ cycle' \subseteq buffer
        /\ pc' = "executing" /\ Head(wire).kind = "idle"
        /\ UNCHANGED <<pending, surfaced, emitted, model, owed, buffer>>
    BY <1>5 DEF BeginCycle, Reads
  <2>2. UsesAt(wire, 1) = {} /\ Cycling'
    BY <1>3, <2>1 DEF Cycling
  <2>3. Whole(Round', cycle')
    BY <1>3, <2>1 DEF Whole
  <2> QED
    BY <1>3, <2>1, <2>2, <2>3 DEF WaitInv
<1>6. CASE SkipCycle
  <2>1. /\ Reads("idle") /\ pc' = pc /\ ~(Head(wire).ids \subseteq buffer)
        /\ UNCHANGED <<pending, surfaced, emitted, model, owed, buffer, cycle>>
    BY <1>6 DEF SkipCycle
  <2>2. UsesAt(wire, 1) = {} /\ ~Cycling'
    BY <1>3, <2>1 DEF Cycling, Reads
  <2> QED
    BY <1>3, <2>1, <2>2 DEF WaitInv
<1>7. ASSUME NEW i \in Ids, ExecuteCall(i) PROVE WaitInv'
  <2>1. /\ pc = "executing" /\ pc' \in {"executing", "posting"}
        /\ UNCHANGED <<pending, surfaced, emitted, model, owed, buffer, cycle, wire>>
    BY <1>7 DEF ExecuteCall
  <2>2. Listening /\ Cycling /\ Cycling'
    BY <2>1 DEF Listening, Cycling
  <2>3. Round' = Round
    BY <2>1 DEF Round
  <2>4. /\ Round' \subseteq buffer' \union Unread(wire')
        /\ model' = "running" => Round' = {}
        /\ Whole(Round', cycle')
        /\ owed' \intersect pending' # {} =>
             Round' \subseteq cycle' \/ CitedAhead(wire', buffer', Round')
    BY <1>2, <2>1, <2>2, <2>3 DEF Whole
  <2>5. \A k \in 1 .. Len(wire') :
          wire'[k].kind = "idle" => wire'[k].ids \subseteq emitted' /\ Whole(Round', wire'[k].ids)
    BY <1>2, <2>1, <2>2, <2>3 DEF Whole
  <2> QED
    BY <2>2, <2>4, <2>5 DEF WaitInv
<1>8. CASE RepliesTaken
  <2>1. /\ pc = "posting" /\ pc' = "reading" /\ buffer' = buffer \ cycle
        /\ UNCHANGED <<surfaced, emitted, owed, wire>>
        /\ \/ pending' = {}
           \/ pending' = pending \ cycle /\ model' = model
    BY <1>8 DEF RepliesTaken, TakesReplies
  <2>2. Listening /\ Cycling /\ ~Cycling'
    BY <2>1 DEF Listening, Cycling
  <2>3. CASE Round' = {}
    BY <1>2, <2>1, <2>2, <2>3, EmptyRoundWaits
  <2>4. CASE Round' # {}
    <3>1. pending' = pending \ cycle /\ model' = model
      BY <2>1, <2>4 DEF Round
    <3>2. Round \intersect cycle = {} /\ Round' = Round
      BY <1>2, <2>1, <2>2, <2>4, <3>1 DEF Round, Whole
    <3>3. ASSUME CitedAhead(wire, buffer, Round) PROVE CitedAhead(wire', buffer', Round')
      BY <2>1, <3>2, <3>3 DEF CitedAhead
    <3>4. owed' \intersect pending' # {} => CitedAhead(wire', buffer', Round')
      <4>1. owed' \intersect pending' \subseteq owed \intersect pending
        BY <2>1, <3>1
      <4>2. ~(Round \subseteq cycle)
        BY <2>4, <3>2
      <4> QED
        BY <1>2, <2>2, <3>3, <4>1, <4>2
    <3>5. Round' \subseteq buffer' \union Unread(wire')
      BY <1>2, <2>1, <2>2, <3>2
    <3>6. \A k \in 1 .. Len(wire') :
            wire'[k].kind = "idle" => wire'[k].ids \subseteq emitted' /\ Whole(Round', wire'[k].ids)
      BY <1>2, <2>1, <2>2, <3>2 DEF Whole
    <3>7. model' = "running" => Round' = {}
      BY <1>2, <2>2, <3>1, <3>2
    <3> QED
      BY <2>2, <3>4, <3>5, <3>6, <3>7 DEF WaitInv
  <2> QED
    BY <2>3, <2>4
<1>9. ASSUME pc' \in {"finishing", "closing", "interrupting"} PROVE FALSE
  BY <1>9 DEF Listening
<1>10. ~ (ReadWithoutId \/ ReadEnd \/ StreamEnds \/ TooManyCycles \/ RepliesRefused
          \/ PostFails \/ InterruptSent)
  BY <1>9 DEF ReadWithoutId, ReadEnd, StreamEnds, TooManyCycles, RepliesRefused, PostFails,
              InterruptSent, Finish, Unwind
<1> QED
  BY <1>4, <1>5, <1>6, <1>7, <1>8, <1>10 DEF Loop

LEMMA WaitStep == IInv /\ WaitInv /\ TypeOK' /\ [Next]_vars => WaitInv'
<1> SUFFICES ASSUME IInv, WaitInv, TypeOK', [Next]_vars, Listening' PROVE WaitInv'
  BY DEF WaitInv
<1> USE DEF serverVars, streamVars, cycleVars, turnVars
<1>1. CASE UNCHANGED vars
  <2>1. UNCHANGED <<pc, model, wire, pending, surfaced, emitted, owed, buffer, cycle>>
    BY <1>1 DEF vars
  <2>2. Round' = Round /\ (Listening' <=> Listening) /\ (Cycling' <=> Cycling)
    BY <2>1 DEF Round, Listening, Cycling
  <2> QED
    BY <2>1, <2>2 DEF WaitInv, Whole
<1>2. CASE SendMessages
  <2>1. wire' = <<>> /\ surfaced' = {}
    BY <1>2 DEF SendMessages, IInv, SetupInv
  <2>2. Round' = {} /\ Len(wire') = 0
    BY <2>1 DEF Round
  <2> QED
    BY <2>2, EmptyRoundWaits
<1>3. ~(Start \/ CreateSession \/ OpenStream \/ SetupFails \/ SendFails)
  BY DEF Start, CreateSession, OpenStream, SetupFails, SendFails, InnerEnds, Unwind, Listening
<1>4. ~Ends
  <2>1. ASSUME pc' \in {"idle", "closing", "deleting"} PROVE FALSE
    BY <2>1 DEF Listening
  <2> QED
    BY <2>1 DEF Ends, FinishTaken, Cleanup, CloseSettles, DeleteSettles, Timers, DeadlineCancels,
                DeadlineAtYield, CloseBudgetSpent, CallerStops, InnerEnds, Unwind
<1> QED
  BY <1>1, <1>2, <1>3, <1>4, WaitServer, WaitLoop DEF Next, Setup, Ends, AllTurnsDone

-----------------------------------------------------------------------------
(* The ledger of client tool calls.                                        *)

\* A reply that is built is the result of a run, if there is such a tool.
RanInv == \A i \in replied \intersect (CustomCalls \ Unregistered) : runs[i] > 0

LEMMA RanStep == TypeOK /\ RanInv /\ [Next]_vars => RanInv'
<1> SUFFICES ASSUME TypeOK, RanInv, [Next]_vars PROVE RanInv'
  OBVIOUS
<1>1. CASE replied' = {} \/ UNCHANGED <<replied, runs>>
  BY <1>1 DEF RanInv
<1>2. CASE \E i \in Ids : ExecuteCall(i)
  <2>1. PICK i \in Ids : ExecuteCall(i)
    BY <1>2
  <2>2. /\ replied' = replied \union {i}
        /\ runs' = IF i \in CustomCalls \ Unregistered THEN [runs EXCEPT ![i] = @ + 1] ELSE runs
    BY <2>1 DEF ExecuteCall, Invokes
  <2>3. runs \in [CustomCalls -> Nat]
    BY DEF TypeOK
  <2> QED
    BY <2>2, <2>3 DEF RanInv
<1>3. CASE Server \/ UNCHANGED vars
  BY <1>1, <1>3 DEF Server, ModelCalls, CitesAgain, ServerMovesOn, ModelEnds, SessionDies,
                    EventWithoutId, vars, cycleVars
<1>4. CASE Start \/ Setup
  BY <1>1, <1>4 DEF Start, Setup, CreateSession, OpenStream, SetupFails, SendMessages,
                    SendFails, cycleVars
<1>5. CASE Loop
  BY <1>1, <1>2, <1>5 DEF Loop, ReadUses, ReadWithoutId, ReadEnd, StreamEnds, BeginCycle,
                    SkipCycle, TooManyCycles, RepliesTaken, RepliesRefused, PostFails,
                    InterruptSent, cycleVars
<1>6. CASE Ends
  <2>1. CASE DeadlineCancels
    <3>1. replied' = replied /\ MayHaveRun
      BY <2>1 DEF DeadlineCancels
    <3>2. runs \in [CustomCalls -> Nat]
      BY DEF TypeOK
    <3>3. \A i \in CustomCalls : runs'[i] >= runs[i] /\ runs'[i] \in Nat
      BY <3>1, <3>2, CancelledTool
    <3> QED
      BY <3>1, <3>2, <3>3 DEF RanInv
  <2> QED
    BY <1>1, <1>6, <2>1 DEF Ends, FinishTaken, Cleanup, CloseSettles, DeleteSettles,
                      Timers, DeadlineAtYield, CloseBudgetSpent, CallerStops, cycleVars
<1> QED
  BY <1>3, <1>4, <1>5, <1>6 DEF Next, Ends, AllTurnsDone

LedgerUnchanged == UNCHANGED <<emitted, pending, runs>>

LedgerStep == [Ledger!Next]_(Ledger!vars)

LEMMA LedgerStutters == LedgerUnchanged => LedgerStep
BY DEF LedgerUnchanged, LedgerStep, Ledger!vars

\* A batch the session takes answers calls it waits for, all of which have run.
LEMMA BatchAnswers ==
  ASSUME IInv, RanInv, pc = "posting", TakesReplies, UNCHANGED runs
  PROVE  LedgerStep
<1> DEFINE S == cycle \intersect CustomCalls \intersect pending
<1>1. pending' \intersect CustomCalls = (pending \intersect CustomCalls) \ S
      /\ emitted' = emitted
  BY DEF TakesReplies
<1>2. ASSUME NEW i \in S \ Unregistered PROVE runs[i] = 1
  <2>1. i \in replied /\ runs[i] \in Nat
    BY DEF IInv, CycleInv, TypeOK
  <2>2. runs[i] > 0 /\ runs[i] <= 1
    BY <2>1 DEF RanInv, IInv, ToolsRunOnce
  <2> QED
    BY <2>1, <2>2
<1>3. Ledger!Answer(S)
  BY <1>1, <1>2 DEF Ledger!Answer
<1>4. S \in SUBSET CustomCalls
  OBVIOUS
<1> QED
  BY <1>3, <1>4 DEF LedgerStep, Ledger!Next

\* An interrupt drops every call.
LEMMA InterruptDrops ==
  ASSUME InterruptServed, UNCHANGED runs
  PROVE  LedgerStep
<1>1. Ledger!Drop
  BY DEF InterruptServed, Ledger!Drop
<1> QED
  BY <1>1 DEF LedgerStep, Ledger!Next

\* What a cancelled request did at the server is a step of the ledger.
LEMMA CancelledRequest ==
  ASSUME IInv, RanInv, MayBeServed, UNCHANGED runs
  PROVE  LedgerStep
<1>1. CASE UNCHANGED serverVars \/ UNCHANGED <<model, emitted, pending>>
  BY <1>1, LedgerStutters DEF serverVars, LedgerUnchanged
<1>2. CASE pc = "posting" /\ TakesReplies
  BY <1>2, BatchAnswers
<1>3. CASE InterruptServed
  BY <1>3, InterruptDrops
<1> QED
  BY <1>1, <1>2, <1>3 DEF MayBeServed

\* A call of the cycle in progress that has no reply yet may run.
LEMMA CallRuns ==
  ASSUME IInv, pc = "executing",
         NEW i \in (cycle \ replied) \intersect (CustomCalls \ Unregistered),
         runs' = [runs EXCEPT ![i] = @ + 1], UNCHANGED <<emitted, pending>>
  PROVE  LedgerStep
<1>1. i \in buffer \ Done /\ Listening
  BY DEF IInv, CycleInv, Done, Listening
<1>2. runs[i] = 0 /\ i \in pending
  BY <1>1 DEF IInv, ListenInv
<1>3. Ledger!Run(i)
  BY <1>2 DEF Ledger!Run
<1> QED
  BY <1>3 DEF LedgerStep, Ledger!Next

LEMMA LedgerOfServer == IInv /\ Server => LedgerStep
<1> SUFFICES ASSUME IInv, Server PROVE LedgerStep
  OBVIOUS
<1>1. ASSUME NEW S \in SUBSET Ids, ModelCalls(S) PROVE LedgerStep
  <2> DEFINE C == S \intersect CustomCalls
  <2>1. /\ S \intersect emitted = {}
        /\ emitted' = emitted \union S /\ pending' = pending \union S /\ runs' = runs
    BY <1>1 DEF ModelCalls, cycleVars
  <2>2. Ledger!Ask(C)
    BY <2>1 DEF Ledger!Ask
  <2>3. C \in SUBSET CustomCalls
    OBVIOUS
  <2> QED
    BY <2>2, <2>3 DEF LedgerStep, Ledger!Next
<1>2. CASE ServerMovesOn
  <2>1. /\ pending \intersect CustomCalls = {} /\ pending' = {}
        /\ UNCHANGED <<emitted, runs>>
    BY <1>2 DEF ServerMovesOn, cycleVars
  <2> QED
    BY <2>1 DEF LedgerStep, Ledger!vars
<1>3. CASE CitesAgain \/ ModelEnds \/ SessionDies \/ EventWithoutId
  BY <1>3, LedgerStutters DEF CitesAgain, ModelEnds, SessionDies, EventWithoutId,
       LedgerUnchanged, serverVars, cycleVars
<1> QED
  BY <1>1, <1>2, <1>3 DEF Server

LEMMA LedgerOfLoop == IInv /\ RanInv /\ Loop => LedgerStep
<1> SUFFICES ASSUME IInv, RanInv, Loop PROVE LedgerStep
  OBVIOUS
<1> USE DEF LedgerUnchanged, serverVars, cycleVars
<1>1. CASE ReadUses \/ ReadWithoutId \/ ReadEnd \/ StreamEnds \/ BeginCycle \/ SkipCycle
           \/ TooManyCycles \/ RepliesRefused
  BY <1>1, LedgerStutters DEF ReadUses, ReadWithoutId, ReadEnd, StreamEnds, BeginCycle,
       SkipCycle, TooManyCycles, RepliesRefused
<1>2. ASSUME NEW i \in Ids, ExecuteCall(i) PROVE LedgerStep
  <2>1. /\ pc = "executing" /\ i \in cycle \ replied
        /\ runs' = IF i \in CustomCalls \ Unregistered THEN [runs EXCEPT ![i] = @ + 1] ELSE runs
        /\ UNCHANGED <<emitted, pending>>
    BY <1>2 DEF ExecuteCall, Invokes
  <2>2. CASE i \notin CustomCalls \ Unregistered
    BY <2>1, <2>2, LedgerStutters
  <2>3. CASE i \in CustomCalls \ Unregistered
    BY <2>1, <2>3, CallRuns
  <2> QED
    BY <2>2, <2>3
<1>3. CASE RepliesTaken
  BY <1>3, BatchAnswers DEF RepliesTaken
<1>4. CASE PostFails
  BY <1>4, BatchAnswers, LedgerStutters DEF PostFails
<1>5. CASE InterruptSent
  BY <1>5, InterruptDrops, LedgerStutters DEF InterruptSent
<1> QED
  BY <1>1, <1>2, <1>3, <1>4, <1>5 DEF Loop

LEMMA LedgerOfEnds == IInv /\ RanInv /\ Ends => LedgerStep
<1> SUFFICES ASSUME IInv, RanInv, Ends PROVE LedgerStep
  OBVIOUS
<1> USE DEF LedgerUnchanged, serverVars, cycleVars
<1>1. CASE FinishTaken \/ Cleanup \/ DeadlineAtYield \/ CallerStops
  BY <1>1, LedgerStutters DEF FinishTaken, Cleanup, CloseSettles, DeleteSettles,
       DeadlineAtYield, CallerStops
<1>2. CASE DeadlineCancels
  <2>1. MayBeServed /\ MayHaveRun /\ TypeOK
    BY <1>2 DEF DeadlineCancels, IInv
  <2>2. CASE UNCHANGED runs
    BY <2>1, <2>2, CancelledRequest
  <2>3. CASE pc = "executing" /\ runs' # runs
    <3>1. UNCHANGED <<emitted, pending>>
      BY <2>1, <2>3 DEF MayBeServed
    <3> QED
      BY <2>1, <2>3, <3>1, CancelledTool, CallRuns
  <2> QED
    BY <2>1, <2>2, <2>3, CancelledTool
<1>3. CASE CloseBudgetSpent
  BY <1>3, CancelledRequest DEF CloseBudgetSpent
<1> QED
  BY <1>1, <1>2, <1>3 DEF Ends, Timers

LEMMA LedgerNext == IInv /\ RanInv /\ [Next]_vars => LedgerStep
<1> SUFFICES ASSUME IInv, RanInv, [Next]_vars PROVE LedgerStep
  OBVIOUS
<1>1. CASE Start \/ Setup \/ UNCHANGED vars
  BY <1>1, LedgerStutters DEF Start, Setup, CreateSession, OpenStream, SetupFails,
       SendMessages, SendFails, LedgerUnchanged, vars, serverVars, cycleVars
<1> QED
  BY <1>1, LedgerOfServer, LedgerOfLoop, LedgerOfEnds DEF Next, Ends, AllTurnsDone

-----------------------------------------------------------------------------
(* The theorems.                                                           *)

\* Every state of the turn and of its session is well typed: what is pending
\* was used, what is buffered has surfaced, a cycle answers no more than that.
THEOREM TypesHold == Spec => []TypeOK
<1>1. IInv => TypeOK
  BY DEF IInv
<1> QED
  BY <1>1, InitInv, StepInv, PTL DEF Spec

\* No custom tool runs twice for one call, however often and in whatever order
\* the session cites it, over all turns on the session.
THEOREM ToolsNeverRunTwice == Spec => []ToolsRunOnce
<1>1. IInv => ToolsRunOnce
  BY DEF IInv
<1> QED
  BY <1>1, InitInv, StepInv, PTL DEF Spec

\* A batch of replies holds no custom result the session does not wait for.
THEOREM RepliesAreAwaited == Spec => []RepliesArePending
<1>1. IInv => RepliesArePending
  BY DEF IInv, CycleInv, ListenInv, Listening, RepliesArePending
<1> QED
  BY <1>1, InitInv, StepInv, PTL DEF Spec

\* A turn that is over was reported to its caller, with one verdict of the
\* generator at most: a finish is not followed by an error or another finish.
THEOREM EndsAreReported == Spec => []EndIsReported
<1>1. Init => EndInv
  BY DEF Init, EndInv, OneVerdict
<1>2. IInv /\ EndInv /\ [Next]_vars => EndInv'
  BY EndStep DEF IInv
<1>3. EndInv => EndIsReported
  BY DEF EndInv, OneVerdict, EndIsReported
<1> QED
  BY <1>1, <1>2, <1>3, InitInv, StepInv, PTL DEF Spec

\* The turn does not wait for an event while the session waits for a reply it
\* has asked for properly, whatever events and faults came before.
THEOREM NobodyWaitsForNothing == Spec => []NoMutualWait
<1>1. Init => WaitInv
  BY DEF Init, WaitInv, Listening
<1>2. IInv /\ WaitInv /\ [Next]_vars => WaitInv'
  <2>1. IInv /\ [Next]_vars => TypeOK'
    BY StepInv DEF IInv
  <2> QED
    BY <2>1, WaitStep
<1>3. WaitInv => NoMutualWait
  <2> SUFFICES ASSUME WaitInv, pc = "reading", wire = <<>> PROVE owed \intersect pending = {}
    BY DEF NoMutualWait
  <2>1. Listening /\ ~Cycling /\ Len(wire) = 0
    BY DEF Listening, Cycling
  <2>2. ~CitedAhead(wire, buffer, Round)
    BY <2>1 DEF CitedAhead
  <2> QED
    BY <2>1, <2>2 DEF WaitInv
<1> QED
  BY <1>1, <1>2, <1>3, InitInv, StepInv, PTL DEF Spec
\* The turns implement the ledger: over any number of turns, deadlines and
\* faults, a client tool runs once, for a call the session waits for, no call
\* is answered before its tool ran, and only an interrupt drops one.
THEOREM LedgerIsKept == Spec => ImplementsLedger
<1>1. Init => Ledger!Init /\ RanInv
  BY DEF Init, Ledger!Init, RanInv
<1>2. IInv /\ RanInv /\ [Next]_vars => RanInv'
  BY RanStep DEF IInv
<1>3. IInv /\ RanInv /\ [Next]_vars => [Ledger!Next]_(Ledger!vars)
  BY LedgerNext DEF LedgerStep
<1> QED
  BY <1>1, <1>2, <1>3, InitInv, StepInv, PTL DEF Spec, ImplementsLedger, Ledger!Spec
=============================================================================
