----------------------------- MODULE TurnRecorder -----------------------------
(***************************************************************************)
(* CopassTurnRecorder and the ContextWindow it mirrors turns into.  Every  *)
(* agent has a recorder of its own; the agents share one window.  A turn   *)
(* is recorded synchronously and pushed by a background task, which        *)
(* appends it to the window's log and makes one ingest request, whose      *)
(* failure is logged and forgotten.  Tasks start in the order of creation, *)
(* so the turns of `tasks' are the log.                                    *)
(*                                                                         *)
(* A text is a sequence of pieces: one text of the user, or the deltas of  *)
(* an answer, none of them blank.  The recorder tells texts apart by the   *)
(* hash of their first 500 characters, their digest: any two answers, like *)
(* any two texts of the user, may have the same.                           *)
(***************************************************************************)
EXTENDS Naturals, Sequences

CONSTANTS
  Agents,   \* agents of the process, each with its recorder
  Streams,  \* calls of stream()
  Texts,    \* what a user may say
  Digest(_),\* of a text: any function of its pieces
  Attempts, \* requests one call may make
  MaxDeltas \* text deltas in one answer

ASSUME DeltasAssumption == MaxDeltas \in Nat

\* A delta is known by the call it was streamed to, the request and its place.
Delta == Streams \X Attempts \X (1..MaxDeltas)

Roles == {"user", "assistant"}

Turn == [role : {"user"}, text : {<<t>> : t \in Texts}]
          \cup [role : {"assistant"}, text : Seq(Delta)]

DedupeKey(turn) == <<turn.role, Digest(turn.text)>>

VARIABLES
  seen,    \* each recorder's keys
  buffer,  \* each recorder's deltas that are in no turn yet
  tasks,   \* the pushes, in the order they were created
  repeats  \* history: the turns that were dropped as seen before

recording == <<seen, buffer, tasks, repeats>>

\* A push that is over has succeeded, has failed and was logged, or was
\* cancelled: nobody asks which.
Stages == {"pushing", "over"}

Task == [agent : Agents, by : Streams, turn : Turn, stage : Stages]

\* _pending_pushes of a recorder.
Pending(a) == {i \in DOMAIN tasks : tasks[i].agent = a /\ tasks[i].stage # "over"}

-----------------------------------------------------------------------------
(***************************************************************************)
(* Recording.  Each operator gives the recorder's state after a call that  *)
(* runs without a suspension: r has the keys seen, the buffered deltas     *)
(* (text), the new turns to push and the old ones that were dropped.       *)
(***************************************************************************)
Recorder(a) ==
  [seen |-> seen[a], text |-> buffer[a], new |-> <<>>, old |-> {}]

\* Mutant: the key is added by the push, when it succeeded.
RecordUnmarked(r, turn) == [r EXCEPT !.new = Append(@, turn)]

\* _record: a turn seen before is dropped; the key is added before the push.
Record(r, turn) ==
  IF DedupeKey(turn) \in r.seen THEN [r EXCEPT !.old = @ \cup {turn}]
  ELSE [r EXCEPT !.seen = @ \cup {DedupeKey(turn)}, !.new = Append(@, turn)]

\* Mutant: deltas that belong to no finished answer are forgotten.
DropAssistant(r) == [r EXCEPT !.text = <<>>]

\* _flush_assistant: the buffered deltas are one turn.
FlushAssistant(r) ==
  IF r.text = <<>> THEN r
  ELSE Record([r EXCEPT !.text = <<>>], [role |-> "assistant", text |-> r.text])

RecordUser(r, t) == Record(FlushAssistant(r), [role |-> "user", text |-> <<t>>])

\* record_user() of every text of one call, in order.
RecordUsers(r, texts) ==
  LET after[i \in 0..Len(texts)] ==
        IF i = 0 THEN r ELSE RecordUser(after[i - 1], texts[i])
  IN after[Len(texts)]

RecordDelta(r, d) == [r EXCEPT !.text = Append(@, d)]

\* Each new turn gets a task: asyncio.create_task(self._push(turn)).
Becomes(a, s, r) ==
  /\ seen' = [seen EXCEPT ![a] = r.seen]
  /\ buffer' = [buffer EXCEPT ![a] = r.text]
  /\ tasks' = tasks \o
       [i \in 1..Len(r.new) |->
          [agent |-> a, by |-> s, turn |-> r.new[i], stage |-> "pushing"]]
  /\ repeats' = repeats \cup r.old

-----------------------------------------------------------------------------
(***************************************************************************)
(* The pushes.                                                             *)
(***************************************************************************)
\* The request succeeds, or _push logs a warning.
EndPush(i) ==
  /\ i \in DOMAIN tasks /\ tasks[i].stage = "pushing"
  /\ tasks' = [tasks EXCEPT ![i].stage = "over"]
  /\ UNCHANGED <<seen, buffer, repeats>>

\* A flush() that is cancelled takes the pushes it gathered along.
CancelPushes(waits) ==
  /\ tasks' = [i \in DOMAIN tasks |->
                 IF i \in waits THEN [tasks[i] EXCEPT !.stage = "over"]
                                ELSE tasks[i]]
  /\ UNCHANGED <<seen, buffer, repeats>>

LoggedKeys == {DedupeKey(tasks[i].turn) : i \in DOMAIN tasks}

\* A recorder that is made for a window knows the turns it has.
Seed(a) ==
  /\ seen' = [seen EXCEPT ![a] = LoggedKeys]
  /\ UNCHANGED <<buffer, tasks, repeats>>

-----------------------------------------------------------------------------
RecordingTypeOK ==
  /\ seen \in [Agents -> SUBSET LoggedKeys]
  /\ buffer \in [Agents -> Seq(Delta)]
  /\ tasks \in Seq(Task)
  /\ repeats \subseteq Turn

RecordingInit ==
  /\ seen = [a \in Agents |-> {}]
  /\ buffer = [a \in Agents |-> <<>>]
  /\ tasks = <<>>
  /\ repeats = {}

-----------------------------------------------------------------------------
(***************************************************************************)
(* RecordedOnce.  One recorder pushes no turn twice, however often the     *)
(* caller replays its messages and while the first push is in flight or    *)
(* has failed ("_record dedupes, so replaying an already-seen message is a *)
(* no-op", managed_agent.py:353).                                          *)
(***************************************************************************)
RecordedOnce ==
  \A i, j \in DOMAIN tasks :
    (/\ tasks[i].agent = tasks[j].agent
     /\ DedupeKey(tasks[i].turn) = DedupeKey(tasks[j].turn)) => i = j
=============================================================================
