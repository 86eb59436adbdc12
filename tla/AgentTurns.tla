------------------------------ MODULE AgentTurns ------------------------------
(***************************************************************************)
(* Turns of agents that mirror what is said into one window:               *)
(* CopassManagedAgent and CopassGoogleAgent, whose backend streams one     *)
(* answer from a session, and CopassHermesAgent, whose backend posts the   *)
(* conversation to a stateless server and posts it again after a transient *)
(* error.  stream() may prefetch context, records what the user said, then *)
(* hands the backend's events through record_stream() to its caller, who   *)
(* may cancel it at every await or stop reading.                           *)
(***************************************************************************)
EXTENDS TurnRecorder

CONSTANTS
  Kind,       \* of each agent: the class it is of
  Inputs,     \* the messages one call may pass
  Blank,      \* the text of a message that has none
  Plans,      \* which agent each call may be made on
  MaxRetries  \* _HERMES_MAX_RETRIES

Kinds == {"managed", "google", "hermes"}

ASSUME KindAssumption == Kind \in [Agents -> Kinds]
ASSUME PlansAssumption == Plans # {} /\ Plans \subseteq [Streams -> Agents]
Message == [role : Roles, text : Texts \cup {Blank}]

ASSUME InputsAssumption == Inputs \subseteq Seq(Message)
ASSUME RetriesAssumption == MaxRetries \in Nat /\ Attempts = 1..(MaxRetries + 1)

\* What can end a request: an error of the network that is retried, one that
\* is not, and the two ranges of error statuses.
Errors == {"transient", "other", "status4xx", "status5xx"}

Places == {"idle", "discover", "open", "stream", "backoff", "flush", "done",
           "abandoned"}

VARIABLES
  turn,     \* each call of stream()
  built     \* the agents that were constructed

vars == <<recording, turn, built>>

TypeOK ==
  /\ RecordingTypeOK
  /\ turn \in [Streams ->
       [agent : Agents, texts : Seq(Texts), place : Places,
        attempt : Attempts, said : 0..MaxDeltas, told : BOOLEAN,
        waits : SUBSET DOMAIN tasks]]
  /\ built \subseteq Agents

Init ==
  /\ RecordingInit
  /\ \E plan \in Plans :
       turn = [s \in Streams |->
         [agent |-> plan[s], texts |-> <<>>, place |-> "idle", attempt |-> 1,
          said |-> 0, told |-> FALSE, waits |-> {}]]
  /\ built = {}

At(s, place) == turn[s].place = place
Of(s)        == turn[s].agent

-----------------------------------------------------------------------------
(***************************************************************************)
(* Construction.                                                           *)
(***************************************************************************)
\* An agent that is never called changes nothing.
Construct(a) ==
  /\ a \notin built /\ \E s \in Streams : Of(s) = a
  /\ built' = built \cup {a}
  /\ Seed(a)
  /\ UNCHANGED turn

-----------------------------------------------------------------------------
(***************************************************************************)
(* stream() up to the first request of the backend.                        *)
(***************************************************************************)
\* _user_contents: the texts of the user's messages that have one.
UserContents(messages) ==
  LET out[i \in 0..Len(messages)] ==
        IF i = 0 THEN <<>>
        ELSE IF messages[i].role = "user" /\ messages[i].text # Blank
             THEN Append(out[i - 1], messages[i].text) ELSE out[i - 1]
  IN out[Len(messages)]

\* _prepare_messages asks discover about the last text; not when the call
\* continues a session, which Hermes has none of.
ManagedPrefetches(texts, continues) == texts # <<>> /\ ~continues
GooglePrefetches(texts, continues)  == texts # <<>> /\ ~continues
HermesPrefetches(texts)             == texts # <<>>

Prefetches(a, texts, continues) ==
  \/ Kind[a] = "managed" /\ ManagedPrefetches(texts, continues)
  \/ Kind[a] = "google" /\ GooglePrefetches(texts, continues)
  \/ Kind[a] = "hermes" /\ HermesPrefetches(texts)

\* Recording and the backend's start happen without an await between them.
RecordAndOpen(s, texts) ==
  /\ Becomes(Of(s), s, RecordUsers(Recorder(Of(s)), texts))
  /\ turn' = [turn EXCEPT ![s].place = "open", ![s].texts = <<>>]

Call(s) ==
  /\ At(s, "idle") /\ Of(s) \in built
  /\ \E messages \in Inputs, continues \in BOOLEAN :
       LET texts == UserContents(messages)
       IN IF Prefetches(Of(s), texts, continues)
          THEN /\ turn' = [turn EXCEPT ![s].place = "discover",
                                       ![s].texts = texts]
               /\ UNCHANGED recording
          ELSE RecordAndOpen(s, texts)
  /\ UNCHANGED built

\* discover answers or fails; the turn goes on either way.
Discovered(s) ==
  /\ At(s, "discover")
  /\ RecordAndOpen(s, turn[s].texts)
  /\ UNCHANGED built

-----------------------------------------------------------------------------
(***************************************************************************)
(* The end of record_stream(): flush(), which waits for the pushes that    *)
(* are pending when it begins, then the end of the stream.                 *)
(***************************************************************************)
\* Mutant: the turns of the last event are not waited for.
FlushEarly(s, r) ==
  turn' = [turn EXCEPT ![s].place = "flush", ![s].waits = Pending(Of(s))]

\* r is the recorder's state after the last event: its new turns are pending.
Flush(s, r) ==
  turn' = [turn EXCEPT
    ![s].place = "flush",
    ![s].waits = Pending(Of(s)) \cup (Len(tasks) + 1)..(Len(tasks) + Len(r.new))]

FlushDone(s) ==
  /\ At(s, "flush")
  /\ \A i \in turn[s].waits : tasks[i].stage = "over"
  /\ turn' = [turn EXCEPT ![s].place = "done", ![s].waits = {}]
  /\ UNCHANGED <<recording, built>>

-----------------------------------------------------------------------------
(***************************************************************************)
(* The backend's events.                                                   *)
(***************************************************************************)
Opened(s) ==
  /\ At(s, "open")
  /\ turn' = [turn EXCEPT ![s].place = "stream"]
  /\ UNCHANGED <<recording, built>>

TextDelta(s) ==
  /\ At(s, "stream") /\ ~turn[s].told /\ turn[s].said < MaxDeltas
  /\ LET n == turn[s].said + 1
     IN /\ Becomes(Of(s), s,
                   RecordDelta(Recorder(Of(s)), <<s, turn[s].attempt, n>>))
        /\ turn' = [turn EXCEPT ![s].said = n]
  /\ UNCHANGED built

\* AgentFinish: the Hermes stream goes on to its [DONE], a session's ends.
Finish(s) ==
  /\ At(s, "stream") /\ ~turn[s].told
  /\ Becomes(Of(s), s, FlushAssistant(Recorder(Of(s))))
  /\ turn' = [turn EXCEPT ![s].told = TRUE]
  /\ UNCHANGED built

\* Google's stream that ends was an answer, whatever came in it.
GoogleReports(s) == Kind[Of(s)] = "google" /\ ~turn[s].told

\* Hermes reports an ending that has no [DONE] and no finish_reason; [DONE]
\* alone is not reported.
HermesReports(s, closed) == Kind[Of(s)] = "hermes" /\ ~turn[s].told /\ closed

\* The stream ends.  The backend may report it; a managed session that closes
\* does not.
EndOfStream(s) ==
  /\ At(s, "stream")
  /\ \E closed \in BOOLEAN :
       LET reports == GoogleReports(s) \/ HermesReports(s, closed)
           r == IF reports THEN FlushAssistant(Recorder(Of(s)))
                           ELSE Recorder(Of(s))
       IN /\ Becomes(Of(s), s, r)
          /\ Flush(s, r)
  /\ UNCHANGED built

\* Mutant: the requests are not counted.
RetriesAlways(s, e) == Kind[Of(s)] = "hermes" /\ e \in {"transient", "status5xx"}

\* The except clauses of HermesAgentBackend.stream().
Retries(s, e) ==
  /\ Kind[Of(s)] = "hermes"
  /\ e \in {"transient", "status5xx"}
  /\ turn[s].attempt <= MaxRetries

\* A status is an error before the first line, the others at any time; a
\* session that reported its end is not read any more.
Fail(s, e) ==
  /\ \/ At(s, "open")
     \/ /\ At(s, "stream") /\ e \in {"transient", "other"}
        /\ turn[s].told => Kind[Of(s)] = "hermes"
  /\ IF Retries(s, e)
     THEN turn' = [turn EXCEPT ![s].place = "backoff"]
     ELSE Flush(s, Recorder(Of(s)))
  /\ UNCHANGED <<recording, built>>

\* Mutant: the next request begins like the last one.
BackoffUncounted(s) ==
  /\ At(s, "backoff")
  /\ turn' = [turn EXCEPT ![s].place = "open"]
  /\ UNCHANGED <<recording, built>>

Backoff(s) ==
  /\ At(s, "backoff")
  /\ turn' = [turn EXCEPT ![s].place = "open", ![s].attempt = @ + 1,
                          ![s].said = 0, ![s].told = FALSE]
  /\ UNCHANGED <<recording, built>>

-----------------------------------------------------------------------------
(***************************************************************************)
(* The caller.                                                             *)
(***************************************************************************)
Cancel(s) ==
  /\ \/ /\ At(s, "discover")
        /\ turn' = [turn EXCEPT ![s].place = "done"]
        /\ UNCHANGED recording
     \/ /\ turn[s].place \in {"open", "stream", "backoff"}
        /\ Flush(s, Recorder(Of(s)))
        /\ UNCHANGED recording
     \/ /\ At(s, "flush")
        /\ CancelPushes(turn[s].waits)
        /\ turn' = [turn EXCEPT ![s].place = "done", ![s].waits = {}]
  /\ UNCHANGED built

\* A caller that stops reading: the generators are left to the collector.
Abandon(s) ==
  /\ At(s, "stream")
  /\ turn' = [turn EXCEPT ![s].place = "abandoned"]
  /\ UNCHANGED <<recording, built>>

Step(s) ==
  \/ Discovered(s)
  \/ Opened(s)
  \/ TextDelta(s)
  \/ Finish(s)
  \/ EndOfStream(s)
  \/ \E e \in Errors : Fail(s, e)
  \/ Backoff(s)
  \/ FlushDone(s)

Push ==
  /\ \E i \in DOMAIN tasks : EndPush(i)
  /\ UNCHANGED <<turn, built>>

Next ==
  \/ \E a \in Agents : Construct(a)
  \/ \E s \in Streams : Call(s) \/ Step(s) \/ Cancel(s) \/ Abandon(s)
  \/ Push

\* Every await of a call ends, by an answer or by httpx's time out.
Fairness == (\A s \in Streams : WF_vars(Step(s))) /\ WF_vars(Push)

Spec == Init /\ [][Next]_vars /\ Fairness

-----------------------------------------------------------------------------
InTurn(d, i) ==
  /\ tasks[i].turn.role = "assistant"
  /\ \E k \in DOMAIN tasks[i].turn.text : tasks[i].turn.text[k] = d

InRepeat(d) ==
  \E old \in repeats :
    old.role = "assistant" /\ \E k \in DOMAIN old.text : old.text[k] = d

InBuffer(d, a) == \E k \in DOMAIN buffer[a] : buffer[a][k] = d

Said(s) == {<<s, turn[s].attempt, n>> : n \in 1..turn[s].said}

(***************************************************************************)
(* DeltasKept.  Each delta a caller was given in the current request is in *)
(* one place, whatever other calls of the same agent do: in one turn of    *)
(* the log, or in the buffer, or in an answer that was dropped; not in the *)
(* buffer once the end of the answer was reported.  Answers are dropped    *)
(* for one reason only: the window has a turn that begins alike            *)
(* (turn_recorder.py:12-19).                                               *)
(***************************************************************************)
DeltasKept ==
  /\ \A s \in Streams : \A d \in Said(s) :
       /\ \A i, j \in DOMAIN tasks : InTurn(d, i) /\ InTurn(d, j) => i = j
       /\ InRepeat(d) => \A i \in DOMAIN tasks : ~InTurn(d, i)
       /\ InBuffer(d, Of(s)) <=>
            ~InRepeat(d) /\ \A i \in DOMAIN tasks : ~InTurn(d, i)
       /\ turn[s].told => ~InBuffer(d, Of(s))
  /\ \A old \in repeats : DedupeKey(old) \in LoggedKeys

(***************************************************************************)
(* FlushCompletes.  When a call has ended, other than by its caller who    *)
(* stopped reading, no push it started is still under way ("pending        *)
(* background pushes complete before the wrapper returns",                 *)
(* turn_recorder.py:188-189).                                              *)
(***************************************************************************)
FlushCompletes ==
  \A s \in Streams :
    At(s, "done") =>
      \A i \in DOMAIN tasks : tasks[i].by = s => tasks[i].stage = "over"

(***************************************************************************)
(* TurnEnds.  Every call ends, whatever the server, the network and the    *)
(* pushes do.                                                              *)
(***************************************************************************)
TurnEnds == \A s \in Streams : ~At(s, "idle") ~> At(s, "done") \/ At(s, "abandoned")

(***************************************************************************)
(* OneAnswerPerTurn.  "one LLM response becomes one ``assistant`` turn in  *)
(* the window, not N partial deltas" (turn_recorder.py:17-18).             *)
(***************************************************************************)
OneAnswerPerTurn ==
  \A i \in DOMAIN tasks : tasks[i].turn.role = "assistant" =>
    \A j, k \in DOMAIN tasks[i].turn.text :
      /\ tasks[i].turn.text[j][1] = tasks[i].turn.text[k][1]
      /\ tasks[i].turn.text[j][2] = tasks[i].turn.text[k][2]
=============================================================================
