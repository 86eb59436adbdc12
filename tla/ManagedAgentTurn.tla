--------------------------- MODULE ManagedAgentTurn ---------------------------
(***************************************************************************)
(* A turn of ManagedAgentBackendV2 (managed_agent_backend_v2.py): stream() *)
(* drives the generator _stream_impl() over the event stream of a managed  *)
(* session, answers each requires_action signal as one RequiresActionCycle *)
(* and bounds the whole turn by policy.total_timeout_s.                    *)
(*                                                                         *)
(* Successive turns use one session: the caller passes its handle on.  A   *)
(* step of the turn is the code between two awaits or yields.              *)
(*                                                                         *)
(* The session's server is outside the repository.  It is what the code    *)
(* and its comments rely on: tool-use events and the idle signal that      *)
(* cites them come in either order, an idle comes once or twice            *)
(* (session.status_idle, session.thread_status_idle), a custom call blocks *)
(* the model until it is answered, a server-run call does not.             *)
(***************************************************************************)
EXTENDS Naturals, Sequences

CONSTANTS
  CustomCalls,      \* ids of tool uses the client executes
  ServerCalls,      \* ids of tool uses the client only confirms
  Unregistered,     \* those of CustomCalls whose tool the agent does not have
  DeleteOnFinish,   \* delete_session_on_finish
  MaxCycles,        \* policy.max_cycles
  MaxTurns,         \* bound: turns on the session
  MaxWire,          \* bound: unread events when the server cites ids again
  MaxFaults         \* bound: failed calls and broken events

Ids == CustomCalls \union ServerCalls

ASSUME CallAssumption == /\ CustomCalls \intersect ServerCalls = {}
                         /\ Unregistered \subseteq CustomCalls
ASSUME PolicyAssumption == /\ DeleteOnFinish \in BOOLEAN
                           /\ {MaxCycles, MaxTurns, MaxWire, MaxFaults} \subseteq Nat

VARIABLES
  session,   \* none, live, deleted
  model,     \* the session's model: idle, running, waiting, dead
  emitted,   \* ids of all tool uses so far
  pending,   \* ids the session waits for a reply to
  wire,      \* events sent on the open stream and not read yet
  surfaced,  \* ids whose tool-use event was sent on this stream
  owed,      \* ids an idle signal cited after all of its ids had surfaced
  faults,    \* faults so far
  turn,      \* turns started
  pc,        \* what the turn awaits
  why,       \* how the generator is ending
  created,   \* created_session_id is set
  buffer,    \* ids in events_by_id
  cycle,     \* requested_ids of the cycle in progress
  replied,   \* ids whose reply is built
  cycles,    \* cycle_count
  runs,      \* how often each custom tool call was invoked
  reports    \* how the turn ended, as its caller sees it

serverVars == <<session, model, emitted, pending>>
streamVars == <<wire, surfaced, owed>>
cycleVars  == <<buffer, cycle, replied, cycles, runs>>
turnVars   == <<turn, created>>
vars == <<serverVars, streamVars, cycleVars, turnVars, faults, pc, why, reports>>

Event == [kind : {"uses", "idle", "noid", "end", "terminated"}, ids : SUBSET Ids]

Awaiting == {"creating", "opening", "sending", "reading", "executing",
             "posting", "interrupting", "closing", "deleting"}

TypeOK ==
  /\ session \in {"none", "live", "deleted"}
  /\ model \in {"idle", "running", "waiting", "dead"}
  /\ emitted \subseteq Ids /\ pending \subseteq emitted
  /\ wire \in Seq(Event)
  /\ surfaced \subseteq emitted /\ owed \subseteq surfaced
  /\ faults \in 0 .. MaxFaults
  /\ turn \in 0 .. MaxTurns
  /\ pc \in Awaiting \union {"idle", "finishing"}
  /\ why \in {"run", "max_cycles", "bad_request", "finish", "raise", "cancel",
              "late", "stopped"}
  /\ created \in BOOLEAN
  /\ buffer \subseteq surfaced /\ cycle \subseteq surfaced /\ replied \subseteq cycle
  /\ cycles \in 0 .. MaxCycles
  /\ runs \in [CustomCalls -> Nat]
  /\ reports \subseteq {"end", "terminated", "max_cycles", "bad_request",
                        "raised", "timeout", "stopped"}

Init ==
  /\ session = "none" /\ model = "idle" /\ emitted = {} /\ pending = {}
  /\ wire = <<>> /\ surfaced = {} /\ owed = {}
  /\ faults = 0 /\ turn = 0 /\ pc = "idle" /\ why = "run" /\ created = FALSE
  /\ buffer = {} /\ cycle = {} /\ replied = {} /\ cycles = 0
  /\ runs = [i \in CustomCalls |-> 0]
  /\ reports = {}

Fault == faults < MaxFaults /\ faults' = faults + 1

-----------------------------------------------------------------------------
(* The session's server.                                                   *)

Listening == pc \in {"reading", "executing", "posting"}
ServerActs == session = "live" /\ (Listening \/ pc = "idle")

UsesEvent(S) == [kind |-> "uses", ids |-> S]
IdleEvent(C) == [kind |-> "idle", ids |-> C]
Signal(k)    == [kind |-> k, ids |-> {}]

\* The orders in which a round of tool uses and its idle signals are sent.
RoundOrders(S, C) ==
  { <<UsesEvent(S), IdleEvent(C)>>,
    <<IdleEvent(C), UsesEvent(S)>>,
    <<UsesEvent(S), IdleEvent(C), IdleEvent(C)>>,
    <<IdleEvent(C), UsesEvent(S), IdleEvent(C)>> }

Push(es) == wire' = IF Listening THEN wire \o es ELSE wire

\* The ids C are owed when all of them have surfaced before a signal.
Cite(C, known, last) ==
  owed' = IF Listening /\ last.kind = "idle" /\ C \subseteq known
          THEN owed \union C ELSE owed

\* The model uses the tools S and stops; ids left from an earlier turn may be
\* cited again without their events.
ModelCalls(S) ==
  /\ ServerActs /\ model = "running"
  /\ S # {} /\ S \intersect emitted = {}
  /\ model' = "waiting"
  /\ emitted' = emitted \union S
  /\ pending' = pending \union S
  /\ surfaced' = IF Listening THEN surfaced \union S ELSE surfaced
  /\ \E C \in {S, pending'} : \E es \in RoundOrders(S, C) :
       /\ Push(es)
       /\ Cite(C, surfaced', es[Len(es)])
  /\ UNCHANGED <<session, cycleVars, turnVars, faults, pc, why, reports>>

CitesAgain ==
  /\ ServerActs /\ Listening /\ model = "waiting" /\ pending # {}
  /\ Len(wire) < MaxWire
  /\ Push(<<IdleEvent(pending)>>)
  /\ Cite(pending, surfaced, IdleEvent(pending))
  /\ UNCHANGED <<serverVars, surfaced, cycleVars, turnVars, faults, pc, why, reports>>

\* Server-run tools finish without the client's confirmation.
ServerMovesOn ==
  /\ ServerActs /\ model = "waiting" /\ pending \intersect CustomCalls = {}
  /\ model' = "running" /\ pending' = {}
  /\ UNCHANGED <<session, emitted, streamVars, cycleVars, turnVars>>
  /\ UNCHANGED <<faults, pc, why, reports>>

ModelEnds ==
  /\ ServerActs /\ model = "running"
  /\ model' = "idle"
  /\ Push(<<Signal("end")>>)
  /\ UNCHANGED <<session, emitted, pending, surfaced, owed, cycleVars, turnVars>>
  /\ UNCHANGED <<faults, pc, why, reports>>

SessionDies ==
  /\ ServerActs /\ model # "dead" /\ Fault
  /\ model' = "dead"
  /\ Push(<<Signal("terminated")>>)
  /\ UNCHANGED <<session, emitted, pending, surfaced, owed, cycleVars, turnVars>>
  /\ UNCHANGED <<pc, why, reports>>

\* A tool-use event without an id.
EventWithoutId ==
  /\ ServerActs /\ Listening /\ Fault
  /\ Push(<<Signal("noid")>>)
  /\ UNCHANGED <<serverVars, surfaced, owed, cycleVars, turnVars, pc, why, reports>>

-----------------------------------------------------------------------------
(* The ends of the generator and what stream() makes of them.              *)

Verdict(w) == CASE w = "raise"              -> {"raised"}
                [] w \in {"cancel", "late"} -> {"timeout"}
                [] w = "stopped"            -> {"stopped"}
                [] OTHER                    -> {}

\* The generator is gone, for the reason w.
InnerEnds(w) == pc' = "idle" /\ why' = w /\ reports' = reports \union Verdict(w)

\* Its finally block begins.
Unwind(w) == pc' = "closing" /\ why' = w /\ UNCHANGED reports

\* It yields AgentFinish and is suspended there.
Finish(reason) ==
  /\ pc' = "finishing" /\ why' = "finish"
  /\ reports' = reports \union {reason}

-----------------------------------------------------------------------------
(* The turn up to its stream.                                              *)

\* Mutant: events_by_id lives on the backend and outlasts the turn.
StartKeepsBuffer ==
  /\ pc = "idle" /\ turn < MaxTurns /\ session # "deleted"
  /\ turn' = turn + 1
  /\ created' = FALSE
  /\ pc' = IF session = "none" THEN "creating" ELSE "opening"
  /\ why' = "run" /\ reports' = {}
  /\ cycle' = {} /\ replied' = {} /\ cycles' = 0
  /\ wire' = <<>> /\ surfaced' = {} /\ owed' = {}
  /\ UNCHANGED <<serverVars, faults, buffer, runs>>

Start ==
  /\ pc = "idle" /\ turn < MaxTurns /\ session # "deleted"
  /\ turn' = turn + 1
  /\ created' = FALSE
  /\ pc' = IF session = "none" THEN "creating" ELSE "opening"
  /\ why' = "run" /\ reports' = {}
  /\ buffer' = {} /\ cycle' = {} /\ replied' = {} /\ cycles' = 0
  /\ wire' = <<>> /\ surfaced' = {} /\ owed' = {}
  /\ UNCHANGED <<serverVars, faults, runs>>

CreateSession ==
  /\ pc = "creating"
  /\ session' = "live" /\ created' = TRUE
  /\ pc' = "opening"
  /\ UNCHANGED <<model, emitted, pending, streamVars, cycleVars, turn>>
  /\ UNCHANGED <<faults, why, reports>>

OpenStream ==
  /\ pc = "opening"
  /\ pc' = "sending"
  /\ UNCHANGED <<serverVars, streamVars, cycleVars, turnVars, faults, why, reports>>

\* Nothing before the try block is cleaned up.
SetupFails ==
  /\ pc \in {"creating", "opening"} /\ Fault
  /\ InnerEnds("raise")
  /\ UNCHANGED <<serverVars, streamVars, cycleVars, turnVars>>

SendMessages ==
  /\ pc = "sending" /\ model # "dead"
  /\ model' = "running"
  /\ pc' = "reading"
  /\ UNCHANGED <<session, emitted, pending, streamVars, cycleVars, turnVars>>
  /\ UNCHANGED <<faults, why, reports>>

\* A session that is dead or waits for old replies may refuse user messages.
SendFails ==
  /\ pc = "sending"
  /\ IF model = "dead" \/ pending # {} THEN UNCHANGED faults ELSE Fault
  /\ Unwind("raise")
  /\ UNCHANGED <<serverVars, streamVars, cycleVars, turnVars>>

-----------------------------------------------------------------------------
(* The stream loop.                                                        *)

Reads(k) == pc = "reading" /\ wire # <<>> /\ Head(wire).kind = k /\ wire' = Tail(wire)

ReadUses ==
  /\ Reads("uses")
  /\ buffer' = buffer \union Head(wire).ids
  /\ UNCHANGED <<serverVars, surfaced, owed, cycle, replied, cycles, runs>>
  /\ UNCHANGED <<turnVars, faults, pc, why, reports>>

ReadWithoutId ==
  /\ Reads("noid")
  /\ Unwind("raise")
  /\ UNCHANGED <<serverVars, surfaced, owed, cycleVars, turnVars, faults>>

ReadEnd ==
  /\ \E k \in {"end", "terminated"} : Reads(k) /\ Finish(k)
  /\ UNCHANGED <<serverVars, surfaced, owed, cycleVars, turnVars, faults>>

\* Mutant: the cap on cycles is off by one.
BeginCycleOffByOne ==
  /\ Reads("idle") /\ cycles <= MaxCycles
  /\ Head(wire).ids \subseteq buffer
  /\ cycles' = cycles + 1
  /\ cycle' = Head(wire).ids /\ replied' = {}
  /\ pc' = "executing"
  /\ UNCHANGED <<serverVars, surfaced, owed, buffer, runs, turnVars, faults, why, reports>>

\* requires_action: every id it cites is buffered, and the cycle begins.
BeginCycle ==
  /\ Reads("idle") /\ cycles < MaxCycles
  /\ Head(wire).ids \subseteq buffer
  /\ cycles' = cycles + 1
  /\ cycle' = Head(wire).ids /\ replied' = {}
  /\ pc' = "executing"
  /\ UNCHANGED <<serverVars, surfaced, owed, buffer, runs, turnVars, faults, why, reports>>

\* Mutant: waiting for the missing ids drains the stream past the loop.
SkipCycleDrains ==
  /\ pc = "reading" /\ wire # <<>> /\ Head(wire).kind = "idle"
  /\ cycles < MaxCycles /\ ~(Head(wire).ids \subseteq buffer)
  /\ wire' = <<>>
  /\ cycles' = cycles + 1
  /\ UNCHANGED <<serverVars, surfaced, owed, buffer, cycle, replied, runs>>
  /\ UNCHANGED <<turnVars, faults, pc, why, reports>>

\* An id is missing: the loop goes on, and the cycle counts all the same.
SkipCycle ==
  /\ Reads("idle") /\ cycles < MaxCycles
  /\ ~(Head(wire).ids \subseteq buffer)
  /\ cycles' = cycles + 1
  /\ UNCHANGED <<serverVars, surfaced, owed, buffer, cycle, replied, runs>>
  /\ UNCHANGED <<turnVars, faults, pc, why, reports>>

TooManyCycles ==
  /\ Reads("idle") /\ cycles >= MaxCycles
  /\ pc' = "interrupting" /\ why' = "max_cycles"
  /\ UNCHANGED <<serverVars, surfaced, owed, cycleVars, turnVars, faults, reports>>

\* The stream ends or breaks before a terminal event.
StreamEnds ==
  /\ pc = "reading" /\ Fault
  /\ Finish("end") \/ Unwind("raise")
  /\ UNCHANGED <<serverVars, streamVars, cycleVars, turnVars>>

Invokes(i) == runs' = [runs EXCEPT ![i] = @ + 1]

\* A custom tool is invoked, its failure an error payload, and so is a tool
\* the agent does not have; a server-run call gets a confirmation.  Once all
\* replies are built they are posted.
ExecuteCall(i) ==
  /\ pc = "executing" /\ i \in cycle \ replied
  /\ IF i \in CustomCalls \ Unregistered THEN Invokes(i) ELSE UNCHANGED runs
  /\ replied' = replied \union {i}
  /\ pc' = IF replied' = cycle THEN "posting" ELSE "executing"
  /\ UNCHANGED <<serverVars, streamVars, buffer, cycle, cycles, turnVars>>
  /\ UNCHANGED <<faults, why, reports>>

\* The session takes the batch; the model goes on when no custom call is left,
\* and then waits for none.
TakesReplies ==
  /\ IF model = "waiting" /\ (pending \ cycle) \intersect CustomCalls = {}
     THEN model' = "running" /\ pending' = {}
     ELSE pending' = pending \ cycle /\ UNCHANGED model
  /\ UNCHANGED <<session, emitted>>

Refused == model = "dead" \/ ~(cycle \subseteq pending)

\* Mutant: executed entries stay in the buffer.
RepliesKeptBuffered ==
  /\ pc = "posting" /\ model # "dead" /\ cycle \intersect CustomCalls \subseteq pending
  /\ TakesReplies
  /\ pc' = "reading"
  /\ UNCHANGED <<streamVars, cycleVars, turnVars, faults, why, reports>>

RepliesTaken ==
  /\ pc = "posting" /\ model # "dead" /\ cycle \intersect CustomCalls \subseteq pending
  /\ TakesReplies
  /\ buffer' = buffer \ cycle
  /\ pc' = "reading"
  /\ UNCHANGED <<streamVars, cycle, replied, cycles, runs, turnVars>>
  /\ UNCHANGED <<faults, why, reports>>

RepliesRefused ==
  /\ pc = "posting" /\ Refused
  /\ pc' = "interrupting" /\ why' = "bad_request"
  /\ UNCHANGED <<serverVars, streamVars, cycleVars, turnVars, faults, reports>>

\* Any other error of the POST, which may have been served.
PostFails ==
  /\ pc = "posting" /\ Fault
  /\ UNCHANGED serverVars \/ (~Refused /\ TakesReplies)
  /\ Unwind("raise")
  /\ UNCHANGED <<streamVars, cycleVars, turnVars>>

InterruptServed ==
  /\ pending' = {}
  /\ model' = IF model = "dead" THEN "dead" ELSE "idle"
  /\ UNCHANGED <<session, emitted>>

\* user.interrupt, whose failure is swallowed, then AgentFinish.
InterruptSent ==
  /\ pc = "interrupting"
  /\ UNCHANGED serverVars \/ InterruptServed
  /\ Finish(why)
  /\ UNCHANGED <<streamVars, cycleVars, turnVars, faults>>

-----------------------------------------------------------------------------
(* The finally block, the deadline and the caller.                         *)

\* Mutant: the finish after the loop is yielded even if there was one.
FinishRepeated ==
  /\ pc = "finishing"
  /\ pc' = "closing" /\ why' = "finish"
  /\ reports' = reports \union {"end"}
  /\ UNCHANGED <<serverVars, streamVars, cycleVars, turnVars, faults>>

\* The caller has handled AgentFinish and asks for the next event.
FinishTaken ==
  /\ pc = "finishing"
  /\ Unwind("finish")
  /\ UNCHANGED <<serverVars, streamVars, cycleVars, turnVars, faults>>

\* stream.close() returned or raised.
CloseSettles ==
  /\ pc = "closing"
  /\ IF created /\ DeleteOnFinish
     THEN pc' = "deleting" /\ UNCHANGED <<why, reports>>
     ELSE InnerEnds(why)
  /\ UNCHANGED <<serverVars, streamVars, cycleVars, turnVars, faults>>

DeleteSettles ==
  /\ pc = "deleting"
  /\ session' \in {"live", "deleted"}
  /\ InnerEnds(why)
  /\ UNCHANGED <<model, emitted, pending, streamVars, cycleVars, turnVars, faults>>

\* What the request a cancelled await has sent may still do at the server.
MayBeServed ==
  \/ UNCHANGED serverVars
  \/ pc = "posting" /\ ~Refused /\ TakesReplies
  \/ pc = "interrupting" /\ InterruptServed
  \/ pc = "deleting" /\ session' = "deleted" /\ UNCHANGED <<model, emitted, pending>>

\* Mutant: the deadline bounds the calls before the loop only.
DeadlineForSetup ==
  /\ pc \in {"creating", "opening"}
  /\ InnerEnds("cancel")
  /\ UNCHANGED <<serverVars, streamVars, cycleVars, turnVars, faults>>

\* A tool that is cancelled was invoked.
MayHaveRun ==
  \/ UNCHANGED runs
  \/ pc = "executing" /\ \E i \in (cycle \ replied) \intersect (CustomCalls \ Unregistered) :
       Invokes(i)

\* wait_for cancels the generator at an await.  Before the try block it is
\* gone at once, in the finally block too and the session is not deleted;
\* elsewhere its finally block runs, and wait_for waits for it to end.
DeadlineCancels ==
  /\ pc \in Awaiting
  /\ why \in {"run", "max_cycles", "bad_request", "finish", "raise"}
  /\ MayBeServed /\ MayHaveRun
  /\ IF pc \in {"creating", "opening", "closing", "deleting"}
     THEN InnerEnds("cancel") ELSE Unwind("cancel")
  /\ UNCHANGED <<streamVars, buffer, cycle, replied, cycles, turnVars, faults>>

\* The generator is suspended at a yield: nothing of it is awaited.
AtYield ==
  /\ why \in {"run", "finish"}
  /\ \/ pc \in {"reading", "posting", "finishing"}
     \/ pc = "executing" /\ replied # {}

\* The deadline has passed when the caller asks on: aclose().
DeadlineAtYield ==
  /\ AtYield
  /\ Unwind("late")
  /\ UNCHANGED <<serverVars, streamVars, cycleVars, turnVars, faults>>

CallerStops ==
  /\ AtYield
  /\ Unwind("stopped")
  /\ UNCHANGED <<serverVars, streamVars, cycleVars, turnVars, faults>>

\* aclose() is cancelled when its budget is spent.
CloseBudgetSpent ==
  /\ pc \in {"closing", "deleting"} /\ why \in {"late", "stopped"}
  /\ MayBeServed
  /\ InnerEnds(why)
  /\ UNCHANGED <<streamVars, cycleVars, turnVars, faults>>

-----------------------------------------------------------------------------
Server ==
  \/ \E S \in SUBSET Ids : ModelCalls(S)
  \/ CitesAgain \/ ServerMovesOn \/ ModelEnds \/ SessionDies \/ EventWithoutId

Setup == CreateSession \/ OpenStream \/ SetupFails \/ SendMessages \/ SendFails

Loop ==
  \/ ReadUses \/ ReadWithoutId \/ ReadEnd \/ StreamEnds
  \/ BeginCycle \/ SkipCycle \/ TooManyCycles
  \/ \E i \in Ids : ExecuteCall(i)
  \/ RepliesTaken \/ RepliesRefused \/ PostFails \/ InterruptSent

Timers  == DeadlineCancels \/ DeadlineAtYield \/ CloseBudgetSpent
Cleanup == CloseSettles \/ DeleteSettles

AllTurnsDone == pc = "idle" /\ (turn = MaxTurns \/ session = "deleted") /\ UNCHANGED vars

Next ==
  \/ Server \/ Start \/ Setup \/ Loop \/ FinishTaken \/ Cleanup \/ Timers
  \/ CallerStops \/ AllTurnsDone

(***************************************************************************)
(* Timers fire and a caller that holds an event asks on or gives up.  The  *)
(* session's server owes nothing: any call may hang.                       *)
(***************************************************************************)
Spec == Init /\ [][Next]_vars /\ WF_vars(Timers) /\ WF_vars(FinishTaken)

\* The same, and the two cleanup calls return or raise.
SettlingSpec == Spec /\ WF_vars(Cleanup)

-----------------------------------------------------------------------------
(* Properties.                                                             *)

\* However idle signals are doubled or come before their tool uses, and
\* whatever an earlier turn left behind, no custom tool runs twice for a call.
ToolsRunOnce == \A i \in CustomCalls : runs[i] <= 1

\* The session and the turns keep the ledger of client tool calls.
Ledger == INSTANCE ToolLedger WITH
  Calls <- CustomCalls, Lacking <- Unregistered,
  asked <- emitted \intersect CustomCalls,
  open  <- pending \intersect CustomCalls

ImplementsLedger == Ledger!Spec

\* Every custom result that is posted is one the live session waits for: a
\* cycle answers nothing stale and nothing of another turn.
RepliesArePending ==
  pc = "posting" => cycle \intersect CustomCalls \subseteq pending

\* The turn and the session never wait for each other: when the turn has read
\* all events, each custom call cited after it surfaced has been answered.
NoMutualWait ==
  pc = "reading" /\ wire = <<>> => owed \intersect pending \intersect CustomCalls = {}

\* A turn ends with one verdict of its generator at most (AgentFinish or an
\* exception), and never with nothing at all.
EndIsReported ==
  pc = "idle" /\ turn > 0 =>
    /\ reports # {}
    /\ \A a, b \in reports \ {"timeout", "stopped"} : a = b

\* Whatever the session and the tools do, the turn is over some day, if only
\* the cleanup calls return.
TurnEnds == pc # "idle" ~> pc = "idle"
=============================================================================
