---------------------------- MODULE ManagedAgentV1 ----------------------------
(***************************************************************************)
(* The event loop of ManagedAgentBackend.stream(): the first backend, that *)
(* has no deadline and no cap on cycles and that looks up tool uses it has *)
(* not seen in the log of the session (events.list) before it gives up.    *)
(*                                                                         *)
(* Sessions share nothing but the caches, so one turn at a time is past    *)
(* its setup (driver); a turn that continues a session is it from its      *)
(* call on.  The session's server is outside the repository: it is what    *)
(* the code, its comments and docs/adr/0001 tell of it, as in              *)
(* ManagedAgentTurn.                                                       *)
(***************************************************************************)
EXTENDS ManagedAgentSetup, Naturals, Sequences

CONSTANTS
  CustomCalls,      \* ids of tool uses the client executes
  ServerCalls,      \* ids of tool uses the client only confirms
  DeleteOnFinish,   \* delete_session_on_finish
  MaxWire           \* bound: unread events when the server adds one unasked

Ids == CustomCalls \union ServerCalls

ASSUME CallAssumption == CustomCalls \intersect ServerCalls = {}
ASSUME BoundAssumption ==
  DeleteOnFinish \in BOOLEAN /\ MaxWire \in Nat

VARIABLES
  driver,    \* the turn past its setup
  session,   \* of the last driver: the agent it was made with, None if it is gone
  model,     \* its model: idle, running, waiting, dead
  log,       \* ids of its tool uses so far
  pending,   \* ids the session waits for a reply to
  asked,     \* how many signals cited each custom call
  wire,      \* events sent on the open stream and not read yet
  owed,      \* ids cited on the open stream
  buffer,    \* pending_tool_events and pending_tool_envelope
  cycle,     \* event_ids of the signal in progress
  replied,   \* ids whose reply is built
  runs       \* how often each tool was invoked

serverVars == <<session, model, log, pending, asked>>
streamVars == <<wire, owed>>
loopVars   == <<buffer, cycle, replied>>
vars == <<setupVars, driver, serverVars, streamVars, loopVars, runs>>

Event == [kind : {"uses", "idle", "noid", "other", "end"}, ids : SUBSET Ids]

Looping   == {"sending", "reading", "listing", "executing", "posting"}
Streaming == Looping \union {"interrupting", "finishing", "closing", "deleting"}

TypeOK ==
  /\ SetupTypeOK
  /\ step \in [Turns -> Preparing \union Streaming \union {"idle", "opening", "done"}]
  /\ driver \in Turns \union {None}
  /\ \A t \in Turns : At(t, Streaming) => driver = t
  /\ session \in Configs \union {None}
  /\ model \in {"idle", "running", "waiting", "dead"}
  /\ log \subseteq Ids /\ pending \subseteq log
  /\ asked \in [CustomCalls -> Nat]
  /\ wire \in Seq(Event) /\ owed \subseteq log
  /\ buffer \in [Ids -> {"none", "custom", "server"}]
  /\ cycle \subseteq Ids /\ replied \subseteq cycle
  /\ runs \in [Ids -> Nat]

Init ==
  /\ SetupInit
  /\ driver = None
  /\ session = None /\ model = "idle" /\ log = {} /\ pending = {}
  /\ asked = [i \in CustomCalls |-> 0]
  /\ wire = <<>> /\ owed = {}
  /\ buffer = [i \in Ids |-> "none"] /\ cycle = {} /\ replied = {}
  /\ runs = [i \in Ids |-> 0]

-----------------------------------------------------------------------------
(* The session's server.                                                   *)

Listening == driver # None /\ At(driver, Looping)

\* A session acts on its own as long as somebody may still come back to it.
Acting ==
  session # None /\ (Listening \/ \E t \in Turns : At(t, {"idle"}) \/ continues[t])

UsesEvent(S) == [kind |-> "uses", ids |-> S]
IdleEvent(C) == [kind |-> "idle", ids |-> C]
Signal(k)    == [kind |-> k, ids |-> {}]

\* A round of tool uses and its idle signal come in any order, or the uses
\* never do; CitesAgain repeats the signal.
RoundOrders(S, C) ==
  { <<UsesEvent(S), IdleEvent(C)>>,
    <<IdleEvent(C), UsesEvent(S)>>,
    <<IdleEvent(C)>> }

Push(es) == wire' = IF Listening THEN wire \o es ELSE wire

Cite(C) ==
  /\ owed' = IF Listening THEN owed \union C ELSE owed
  /\ asked' = [i \in CustomCalls |-> IF i \in C THEN asked[i] + 1 ELSE asked[i]]

\* The model uses the tools S and stops; ids left from an earlier turn may be
\* cited again without their events.
ModelCalls(S) ==
  /\ Acting /\ model = "running"
  /\ S # {} /\ S \intersect log = {}
  /\ model' = "waiting"
  /\ log' = log \union S
  /\ pending' = pending \union S
  /\ \E C \in {S, pending'} :
       /\ \E es \in RoundOrders(S, C) : Push(es)
       /\ Cite(C)
  /\ UNCHANGED <<setupVars, driver, session, loopVars, runs>>

CitesAgain ==
  /\ Acting /\ Listening /\ model = "waiting" /\ pending # {}
  /\ Len(wire) < MaxWire
  /\ Push(<<IdleEvent(pending)>>)
  /\ Cite(pending)
  /\ UNCHANGED <<setupVars, driver, session, model, log, pending, loopVars, runs>>

\* Server-run tools finish without the client's confirmation.
ServerMovesOn ==
  /\ Acting /\ model = "waiting" /\ pending \intersect CustomCalls = {}
  /\ model' = "running" /\ pending' = {}
  /\ UNCHANGED <<setupVars, driver, session, log, asked, streamVars, loopVars, runs>>

\* The turn of the model ends: end_turn or another stop reason.
ModelEnds ==
  /\ Acting /\ model = "running"
  /\ model' = "idle"
  /\ Push(<<Signal("end")>>)
  /\ UNCHANGED <<setupVars, driver, session, log, pending, asked, owed, loopVars, runs>>

\* The session is terminated or reports an error that ends it.
SessionDies ==
  /\ Acting /\ model # "dead"
  /\ model' = "dead"
  /\ Push(<<Signal("end")>>)
  /\ UNCHANGED <<setupVars, driver, session, log, pending, asked, owed, loopVars, runs>>

\* A tool use without an id, text, or an event of a type nobody knows.
OtherEvent ==
  /\ Acting /\ Listening /\ model = "running" /\ Len(wire) < MaxWire
  /\ \E k \in {"noid", "other"} : Push(<<Signal(k)>>)
  /\ UNCHANGED <<setupVars, driver, serverVars, owed, loopVars, runs>>

-----------------------------------------------------------------------------
(* A turn takes its session.                                               *)

Free == driver' = IF driver \in Turns /\ step'[driver] = "done" THEN None ELSE driver

\* A call that continues a session is the only one past its setup.
Start(t) ==
  /\ \E again \in BOOLEAN :
       /\ again => session # None /\ driver = None
       /\ Call(t, again)
       /\ driver' = IF again /\ At(t, {"building"})' THEN t ELSE driver
  /\ UNCHANGED <<serverVars, streamVars, loopVars, runs>>

SetupStep(t) ==
  /\ Prepare(t) \/ SetupFails(t)
  /\ Free
  /\ UNCHANGED <<serverVars, streamVars, loopVars, runs>>

\* A session on an agent, or none, in which nothing has happened.
Blank(agent) ==
  /\ session' = agent /\ model' = "idle" /\ log' = {} /\ pending' = {}
  /\ asked' = [i \in CustomCalls |-> 0] /\ runs' = [i \in Ids |-> 0]

\* The session of a turn of its own is new and on the agent of the turn; one that
\* is continued stays on the agent it was made with, whatever the turn looked up.
Connects(t) ==
  IF continues[t]
  THEN UNCHANGED <<serverVars, runs>>
  ELSE Blank(agentOf[t])

OpenStream(t) ==
  /\ At(t, {"opening"}) /\ driver \in {t, None}
  /\ Go(t, "sending")
  /\ driver' = t
  /\ Connects(t)
  /\ UNCHANGED <<callVars, cacheVars, streamVars, loopVars>>

\* Opening fails or is cancelled before the try block: a session that was
\* created for the turn is left behind.
OpenFails(t) ==
  /\ At(t, {"opening"})
  /\ Return(t) /\ Free
  /\ UNCHANGED cacheVars
  /\ UNCHANGED <<serverVars, streamVars, loopVars, runs>>

-----------------------------------------------------------------------------
(* The loop.  d is the driver.                                             *)

\* The loop is over: its local state is gone and nobody reads the stream.
Leaves(d, s) ==
  /\ Go(d, s)
  /\ wire' = <<>> /\ owed' = {}
  /\ buffer' = [i \in Ids |-> "none"] /\ cycle' = {} /\ replied' = {}

\* An exception or a break: the finally block begins.
Unwind(d) == Leaves(d, "closing")

\* It yields AgentFinish and is suspended there.
Finish(d) == Leaves(d, "finishing")

\* It interrupts the session before it yields AgentFinish.
GiveUp(d) == Leaves(d, "interrupting")

\* What the loop leaves alone.
callerVars == <<callVars, cacheVars, driver>>

SendMessages(d) ==
  /\ At(d, {"sending"}) /\ model # "dead"
  /\ model' = "running"
  /\ Go(d, "reading")
  /\ UNCHANGED <<callerVars, session, log, pending, asked, streamVars, loopVars, runs>>

\* A session that is dead or waits for old replies may refuse user messages.
SendFails(d) ==
  /\ At(d, {"sending"})
  /\ model = "dead" \/ pending # {}
  /\ Unwind(d)
  /\ UNCHANGED <<callerVars, serverVars, runs>>

Sees(d, k)  == At(d, {"reading"}) /\ wire # <<>> /\ Head(wire).kind = k
Reads(d, k) == Sees(d, k) /\ wire' = Tail(wire)

Envelope(i) == IF i \in CustomCalls THEN "custom" ELSE "server"

Buffered(ids) == [i \in Ids |-> IF i \in ids THEN Envelope(i) ELSE buffer[i]]

\* A tool use is buffered, also one that was answered from the log already.
ReadUses(d) ==
  /\ Reads(d, "uses")
  /\ buffer' = Buffered(Head(wire).ids)
  /\ UNCHANGED <<step, callerVars, serverVars, owed, cycle, replied, runs>>

ReadWithoutId(d) ==
  /\ Sees(d, "noid")
  /\ Unwind(d)
  /\ UNCHANGED <<callerVars, serverVars, runs>>

\* Text, usage, lifecycle and unknown events do not change the loop.
ReadOther(d) ==
  /\ Reads(d, "other")
  /\ UNCHANGED <<step, callerVars, serverVars, owed, loopVars, runs>>

\* Mutant: the end of the session is one of the events that are ignored.
ReadEndIgnored(d) ==
  /\ Reads(d, "end")
  /\ UNCHANGED <<step, callerVars, serverVars, owed, loopVars, runs>>

\* AgentFinish with the stop reason, terminated or error.
ReadEnd(d) ==
  /\ Sees(d, "end")
  /\ Finish(d)
  /\ UNCHANGED <<callerVars, serverVars, runs>>

Missing(ids) == {i \in ids : buffer[i] = "none"}

\* Mutant: every call in the buffer is executed, not those that are cited.
ReadIdleRunsAll(d) ==
  /\ Reads(d, "idle")
  /\ replied' = {}
  /\ IF Missing(Head(wire).ids) = {}
     THEN Go(d, "executing") /\ cycle' = Ids \ Missing(Ids)
     ELSE Go(d, "listing") /\ cycle' = Head(wire).ids
  /\ UNCHANGED <<callerVars, serverVars, owed, buffer, runs>>

\* requires_action: ids that are not buffered are looked up in the log.
ReadIdle(d) ==
  /\ Reads(d, "idle")
  /\ cycle' = Head(wire).ids /\ replied' = {}
  /\ Go(d, IF Missing(cycle') = {} THEN "executing" ELSE "listing")
  /\ UNCHANGED <<callerVars, serverVars, owed, buffer, runs>>

\* Mutant: when the log cannot be read the loop goes on and waits.
RehydrateWaits(d) ==
  /\ At(d, {"listing"})
  /\ Go(d, "reading")
  /\ UNCHANGED <<callerVars, serverVars, streamVars, loopVars, runs>>

\* _rehydrate_pending_tool_events(): the log has every use, answered or not;
\* an error in between is swallowed.  Ids that are still missing end the turn.
Rehydrate(d) ==
  /\ At(d, {"listing"})
  /\ \/ /\ Missing(cycle) \subseteq log
        /\ buffer' = Buffered(cycle)
        /\ Go(d, "executing")
        /\ UNCHANGED <<streamVars, cycle, replied>>
     \/ GiveUp(d)
  /\ UNCHANGED <<callerVars, serverVars, runs>>

\* A custom tool is invoked if the agent has it, its failure an error payload;
\* a server-run call gets a confirmation.  Then all replies are posted.
ExecuteCall(d, i) ==
  /\ At(d, {"executing"}) /\ i \in cycle \ replied
  /\ \/ buffer[i] = "custom" /\ runs' = [runs EXCEPT ![i] = @ + 1]
     \/ UNCHANGED runs
  /\ replied' = replied \union {i}
  /\ Go(d, IF replied' = cycle THEN "posting" ELSE "executing")
  /\ UNCHANGED <<callerVars, serverVars, streamVars, buffer, cycle>>

\* The session takes the batch; the model goes on when no custom call is left.
TakesReplies ==
  /\ pending' = pending \ cycle
  /\ model' = IF pending' \intersect CustomCalls = {} /\ model = "waiting"
              THEN "running" ELSE model
  /\ UNCHANGED <<session, log, asked>>

\* _build_user_event_for_tool_use(): the reply to a buffered use.
Reply(use) == IF use = "custom" THEN "custom_tool_result" ELSE "tool_confirmation"

\* The session refuses a batch with a reply of the wrong envelope or to a call
\* it does not wait for.
Acceptable ==
  /\ model # "dead"
  /\ \A i \in cycle : Reply(buffer[i]) = Reply(Envelope(i))
  /\ cycle \intersect CustomCalls \subseteq pending

\* Mutant: the list of results is kept for the next cycle.
RepliesTakenKeepsResults(d) ==
  /\ At(d, {"posting"}) /\ Acceptable
  /\ TakesReplies
  /\ buffer' = [i \in Ids |-> IF i \in cycle THEN "none" ELSE buffer[i]]
  /\ cycle' = {}
  /\ Go(d, "reading")
  /\ UNCHANGED <<callerVars, streamVars, replied, runs>>

RepliesTaken(d) ==
  /\ At(d, {"posting"}) /\ Acceptable
  /\ TakesReplies
  /\ buffer' = [i \in Ids |-> IF i \in cycle THEN "none" ELSE buffer[i]]
  /\ cycle' = {} /\ replied' = {}
  /\ Go(d, "reading")
  /\ UNCHANGED <<callerVars, streamVars, runs>>

\* The POST fails, refused or for another reason after which it may have been
\* served; _send_events_soft() interrupts the session.
PostFails(d) ==
  /\ At(d, {"posting"})
  /\ UNCHANGED serverVars \/ (Acceptable /\ TakesReplies)
  /\ GiveUp(d)
  /\ UNCHANGED <<callerVars, runs>>

InterruptServed ==
  /\ pending' = {}
  /\ model' = IF model = "dead" THEN "dead" ELSE "idle"
  /\ UNCHANGED <<session, log, asked>>

\* user.interrupt, whose failure is swallowed, then AgentFinish.
InterruptSent(d) ==
  /\ At(d, {"interrupting"})
  /\ UNCHANGED serverVars \/ InterruptServed
  /\ Finish(d)
  /\ UNCHANGED <<callerVars, runs>>

-----------------------------------------------------------------------------
(* The finally block and the caller.                                       *)

FinishTaken(d) ==
  /\ At(d, {"finishing"})
  /\ Unwind(d)
  /\ UNCHANGED <<callerVars, serverVars, runs>>

\* stream.close() has returned or raised.
CloseSettles(d) ==
  /\ At(d, {"closing"})
  /\ IF ~continues[d] /\ DeleteOnFinish
     THEN Go(d, "deleting") /\ UNCHANGED callVars
     ELSE Return(d)
  /\ Free
  /\ UNCHANGED cacheVars
  /\ UNCHANGED <<serverVars, streamVars, loopVars, runs>>

DeleteSettles(d) ==
  /\ At(d, {"deleting"})
  /\ Blank(None) \/ UNCHANGED <<serverVars, runs>>
  /\ Return(d) /\ Free
  /\ UNCHANGED <<cacheVars, streamVars, loopVars>>

\* What the request of a cancelled await may still do at the server.
MayBeServed(d) ==
  \/ UNCHANGED <<serverVars, runs>>
  \/ At(d, {"posting"}) /\ Acceptable /\ TakesReplies /\ UNCHANGED runs
  \/ At(d, {"interrupting"}) /\ InterruptServed /\ UNCHANGED runs
  \/ At(d, {"deleting"}) /\ Blank(None)

\* The stream breaks or ends without AgentFinish, a request raises, the caller
\* cancels its task at an await or closes the generator at a yield: the finally
\* block runs, which a cancellation cuts short in its turn.
Breaks(d) ==
  /\ At(d, Streaming)
  /\ MayBeServed(d)
  /\ IF At(d, {"closing", "deleting"})
     THEN Return(d) /\ UNCHANGED <<streamVars, loopVars>>
     ELSE Unwind(d) /\ UNCHANGED callVars
  /\ Free
  /\ UNCHANGED cacheVars

-----------------------------------------------------------------------------
Server ==
  \/ \E S \in SUBSET Ids : ModelCalls(S)
  \/ CitesAgain \/ ServerMovesOn \/ ModelEnds \/ SessionDies \/ OtherEvent

Loop(d) ==
  \/ SendMessages(d) \/ SendFails(d)
  \/ ReadUses(d) \/ ReadWithoutId(d) \/ ReadOther(d) \/ ReadEnd(d)
  \/ ReadIdle(d) \/ Rehydrate(d) \/ \E i \in Ids : ExecuteCall(d, i)
  \/ RepliesTaken(d) \/ PostFails(d) \/ InterruptSent(d)
  \/ FinishTaken(d) \/ CloseSettles(d) \/ DeleteSettles(d)

AllTurnsDone == (\A t \in Turns : At(t, {"done"})) /\ UNCHANGED vars

Next ==
  \/ Server
  \/ \E t \in Turns : Start(t) \/ SetupStep(t) \/ OpenStream(t) \/ OpenFails(t)
  \/ \E t \in Turns : Loop(t) \/ Breaks(t)
  \/ AllTurnsDone

Spec == Init /\ [][Next]_vars

(***************************************************************************)
(* Every request settles, tools return, an event that arrived is read and  *)
(* the caller asks for the next one.  Nothing is assumed of the session's  *)
(* server: V1 has neither a timer nor a cap on cycles, so no turn has to   *)
(* end.                                                                    *)
(***************************************************************************)
LiveSpec == Spec /\ \A t \in Turns : WF_vars(Loop(t))

-----------------------------------------------------------------------------
(* Properties.                                                             *)

\* A tool runs at most as often as the session asked for it, and a call of
\* the server never runs here, however uses are late, lost or repeated, found
\* in the log or left from an earlier turn.
RunsAreAsked ==
  \A i \in Ids : runs[i] <= IF i \in CustomCalls THEN asked[i] ELSE 0

\* The turn and the session never wait for each other: when the turn has read
\* all events, every custom call that was cited on its stream is answered.
NoMutualWait ==
  \A t \in Turns :
    At(t, {"reading"}) /\ wire = <<>> => owed \intersect pending \intersect CustomCalls = {}

\* A session that a turn makes runs on an agent with that turn's own model,
\* prompt, tools and gateway, however creations overlap and calls override the
\* gateway flag: the caches never serve an agent made for another configuration.
\* A session that is continued keeps its agent (docs/adr/0001: the id that is
\* supplied is not validated against the fingerprint).
SessionFitsTurn ==
  \A t \in Turns : At(t, Streaming) /\ ~continues[t] => session = config[t]

\* Whatever the session does: a custom call that was cited to a turn is answered,
\* unless the turn is over some day; and once the session's end is on the stream,
\* the turn is over some day.
StreamIsServed ==
  \A t \in Turns :
    /\ \A i \in CustomCalls :
         At(t, Looping) /\ i \in owed \intersect pending
           ~> i \notin pending \/ At(t, {"done"})
    /\ At(t, Looping) /\ (\E n \in DOMAIN wire : wire[n].kind = "end")
         ~> At(t, {"done"})
=============================================================================
