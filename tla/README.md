# Copass: TLA+ models and proofs

Copass is a set of SDKs and tools (TypeScript under `typescript/packages/`, Python under
`python/`) around a hosted context and agent service. Most of it forwards calls to that service.
The parts with a state of their own, and with several things going on at once, are the ones
modelled here:

| Module | Code | State and hard part |
|---|---|---|
| `GatewayLifecycle` | `olane-agents`: `os-host.ts`, `gateway-registrar.ts`, `auto-resolve-gateway.ts` | timers, loops and a reconnect cycle that outlive each other |
| `NetworkBroker`, `NetworkLease` | `olane-agents`: `network-broker-node.ts` | start, stop and attach that overlap over records replaced in between |
| `ManagedAgentTurn`, `ToolLedger` | `copass-anthropic-agents`: `managed_agent_backend_v2.py`, `requires_action_cycle.py` | reordered and doubled events, two deadlines, cleanup |
| `ProviderBindings`, `BindingStore` | `copass-anthropic-agents`: `in_memory_provider_binding_registry.py` and the two paid calls of the V2 backend | a lock held across failing, cancelled calls |
| `ManagedAgentV1`, `ManagedAgentSetup` | `copass-anthropic-agents`: `managed_agent_backend.py` | unlocked caches, a lookup in the session's log, no deadline |
| `AgentTurns`, `TurnRecorder` | `managed_agent.py`, `google_agent.py`, `hermes_agent.py` and `hermes_agent_backend.py`, `turn_recorder.py`, `context_window.py` | calls that overlap on one recorder, background pushes, retries in mid-answer |
| `CopassApi` | `copass-core`: `http/`, `resources/`, `data_sources.py` | requests that are lost, late or served twice |
| `WatchSync` | `datasource-fs`: `watch/runtime.ts`, `watch/state.ts`, `scan/files.ts`, `file-system-data-source.ts` | debounced flushes, reconciles and a crash over one state file |

Each `MC*` module instantiates the specification of the same name for TLC; each `*_proofs` module
holds its theorems. `PROJECT.json` maps every definition to the lines it translates.

Every one of these systems runs on one event loop (Node or asyncio). A **step is the code between two
awaits**; everything that can happen at an await (another handler, a timer, an answer, a failure,
a cancellation) is an action that may come there. What lies outside `src/` (the network, E2B, the
gateway's registry, Anthropic's server, chokidar, the disk) is modelled from how the code uses it
and marked external in the map. Most modules count failures with a `faults` variable, bounded by
`MaxFaults`; in `NetworkBroker` and `ProviderBindings` a call may fail every time.

## Inventory

For each component: its state, its operations, what is hard, what makes it correct.

**Gateway registration lifecycle** (modelled). State: per wiring the heartbeat timer,
`consecutiveFailures`, `reconnectFired`, a keepalive loop; in the host `gatewayHandle`,
`keepaliveStop`, `reconnecting`, `shuttingDown`. Operations: wire, heartbeat tick, keepalive tick,
reconnect, graceful shutdown. The heartbeat and the keepalive both call back into `reconnect`,
which tears both down. Correct: no loop without an owner, no reconnect request lost, nothing
started after shutdown, registered in the end.

**Network broker** (modelled). State: the `instances` map of records (instance object, provider
handle). Operations: start, stop, attach, detach, list, status, discover. The provider (E2B or a
shell tool mounted in the daemon) is called across awaits. Correct: the soft cap, a handle for
everything that runs, attachments kept, no live sandbox dropped.

**Managed agent turn, V2** (modelled). State: the buffer of tool uses, the cycle, the replies, the
cycle counter, the created session. Operations: stream, the generator's loop, `send_replies`,
interrupt, the `finally` block, the total timeout. Correct: no tool run twice, no stale reply, no
mutual wait, an ending for every turn.

**Provider binding registry** (modelled). State: `_bindings`, `_locks`. Operations: `get_binding`,
`get_or_provision`. Correct: no double payment, complete and current answers, no wedged key.

**Filesystem watch** (partly). State: the runtime held by the data source; per runtime the chokidar
watcher, the queue and its debounce timer; one state file for all of them. Operations: start, stop,
reconcile, event, flush. Correct: one watcher, no stranded and no stale event, every noticed
change ingested or logged.

**Managed agent backend V1** (modelled). State: the caches of agents and of the environment, and
per turn the two dictionaries of pending tool uses, the ids of the signal in progress and the
results. Operations: `stream` from the setup over the session to its exits; `events.list` recovers
tool uses the stream has not shown. Calls of one backend overlap. Correct: no session made on an
agent of another configuration, no tool run unasked, no mutual wait, an end that is reported is the
turn's end.

**Agents, turn recorder, context window** (modelled). State: per recorder the keys seen, the buffer
of deltas, the pending pushes; the log of the window all of them share. Operations: construction
over a window with turns, `stream` of the three agents (prefetch, recording of the user's turns,
the backend's events, flush), cancellation, a caller that stops reading. Correct: nothing pushed
twice, no delta lost or doubled other than with an answer that is taken for a repetition, no push
left behind.

**Hermes and Google backends** (partly). The Hermes requests, retries and endings and the way a
Google stream ends are part of `AgentTurns`; Google's sessions and the conversion of its events
are not modelled.

**Copass API client, Python** (modelled). State: none but the calls in flight. Operations: every
method of every resource, as the request it makes; `request()` with its retries;
`ensure_data_source()`; `ComputeSession.fetch()`. Correct: what makes something new is repeated
only where the code means to, an existing source is found, every call ends.

**Agent session daemons** (not modelled). `agent-broker.ts` registers a session by spawning a detached
daemon and waiting for its session file; `agent-daemon.ts` removes that file at the end. Concurrent
registers, the 60 s wait, SIGTERM and SIGKILL, stale files.

**OS manager and olane client** (not modelled). One process start and one call per client.

**Local shell tool** (not modelled). `exec` settles on exit, error or timeout.

**HTTP client, retry, auth and resources, TypeScript** (not modelled). The retries and the
resources are those of the Python port, which is modelled. Concurrent refreshes of one rotating
token (`supabase.ts`) are a hazard that no module covers.

**Agent router** (not modelled). The redirect of a connect flow races its polling.

**Out of scope**: the TypeScript context window and data sources (the Python ports are modelled);
the adapters for langchain, ai-sdk, mastra, pydantic-ai and MCP (they wrap client calls);
`deploy.py` of the Google agent and the provider tools; management, configuration and scaffolding
(schemas, templates and text); the launchd and systemd unit files.

Interactions: the olane host runs the registrar and mounts the broker; a V2 turn calls the registry
before it opens its stream; an agent drives one backend and mirrors its events into a window, whose
pushes are requests of the API client; the data source owns the runtimes. The registry is
checked together with the provisioning code of the backend that it calls back, the agents with
the recorder and the window, the V1 loop with its setup. The other components share no state with
each other, so they are checked one by one: `AgentTurns` takes from a backend the order of its
events, from the client that a request ends.

## GatewayLifecycle

One call of `wireGatewayRegistrationAndKeepalive` uses a *wiring slot*: `armed` is the registrar's
timer (`~stopped`), `failures` and `fired` its counters, `beats` and `reregisters` its calls in
flight, `loop` and `cancelled` its keepalive. `cycle` is where the host's wiring or reconnect
awaits, `life` where the process is, and `reconnecting` is read off `cycle`. Outside: `link`,
`session` (the api's view of the sandbox), `row` (the live gateway's registry) and whether a slot
holds the live sandbox's address. A slot is used again when nothing of its last use is in flight.

Actions by code: `Reconnect`, `ReconnectUnregistered`, `Resolved`, `ResolvedStale`, `ResolveNull`,
`Wired`, `WireThrows`, `BackoffOver` for `os-host.ts`; `TickStart`, `HeartbeatAnswered`,
`HeartbeatRejected`, `ReregisterAnswered`, `ReregisterRejected` for the tick;
`KeepaliveWakes`, `KeepaliveAnswered`, `GatewayGone` for the keepalive; `Shutdown` and its
successors for SIGTERM. A reconnect request is part of the action that makes it.

Left out: the mode with an explicit multiaddr (no keepalive; each reconnect mints a new id) and a
signal during boot, which has no handler yet and kills the process.

*Fairness*: the link comes back, the host's awaits settle, timers fire, and calls settle per slot.
All are timers or calls with their own timeouts. Nothing obliges the environment to fail, or to
stop failing other than by `MaxFaults`.

*Properties*: `NoOrphanLoop` (what runs is held), `SignalNotLost` (the current registrar has not
spent its only request and its keepalive exists), `NoAttemptAfterShutdown`,
`EventuallyRegistered`. The last one excepts a daemon that gave up: `os-host.ts:315` returns when
the gateway cannot be resolved, `autoResolveGateway` answers null to any network error, and both
loops are gone by then, although `os-host.ts:273` promises a retry until shutdown or success.

## NetworkBroker and NetworkLease

An id has two instance objects, `reserved` (stored before the first await) and `final` (a copy made
when the start ends); `current` is the one the map's record holds. A stop holds the object it found
and puts it back after its kill settles, so `stops` counts kills in flight by object. `resource`
is the sandbox or the mounted tool. `raced`, `unreleased` and `members` are history variables.

`NetworkLease` is the promise, seen from the sandbox: acquired by one start, let go for good, never
out of the broker's hands while alive unless a releasing call failed. The mapping is `LeasePhase`.
`NetworkBroker` implements it (`ImplementsLease`). `CapBoundsInstances` excepts instances
stopped while starting (the finding) and ones whose kill failed, which the broker keeps as FAILED
or RUNNING with an unknown sandbox behind them.

The comment at `network-broker-node.ts:377-379` says that a handle parked while booting is cleaned
by the catch of `_tool_start`. It is an inner catch that kills the sandbox, and the outer one drops
the handle whatever the kill answered: a live sandbox is then `lost`, which the lease allows only
after a failed release.

## ManagedAgentTurn and ToolLedger

`pc` is what the turn awaits and `why` how its generator is ending. `buffer` is `events_by_id`,
`cycle` and `replied` the `RequiresActionCycle` in progress, `cycles` its counter, `reports` what
the caller has seen. Outside: the session, its `model`, the `pending` ids it waits for and the
`wire` of unread events. The server may send an idle signal before, with or after the tool uses it
cites, once or twice (`session.status_idle` and `session.thread_status_idle`), may cite ids again,
may end the turn or break. Successive turns share the session.

The generator's exits are all there: `end_turn`, `terminated`, `max_cycles`, a 400, an exception,
the end of the stream, the deadline at any await or at a yield, a caller that stops iterating. Each
runs the `finally` block (`close`, then `delete`). Text deltas, usage, and the wording of results
are left out; so are tools that run in parallel, which the code does not do.

`NoMutualWait` needs one thing of the server that no code here can ensure: once the model goes on, the
session waits for no earlier call (`TakesReplies`, `ServerMovesOn`). A server that cited an old
call, answered in the meantime, together with a new one would have the new one skipped with it, and
both sides would wait until the deadline.

*Fairness*: `Spec` has timers (`total_timeout_s`, the close budget) and `FinishTaken` (a consumer
that iterates goes on). `SettlingSpec` adds that the two cleanup calls return. The session's server
and the tools owe nothing: `TurnEnds` rests on the deadline.

`ToolLedger` is what a session is promised about each client tool call: its tool runs once at most,
for a call the session waits for; a result is taken for such a call only, once the tool has run;
and only an interrupt drops calls. `Unregistered` are the calls of tools the agent does not have,
which are answered with an error and run nothing. A tool that a deadline cut off may count as run
(`MayHaveRun`). `ImplementsLedger` maps what was `emitted` and is `pending` to it: one ledger for all
turns on the session, whatever buffers and cycles come and go.

*Properties*: `ImplementsLedger`, `RepliesArePending`, `NoMutualWait` (each needs several events in
an unlucky order), `EndIsReported`, `TurnEnds`.

Seen while modelling, with no run of its own: `wait_for` waits for the generator it cancelled
(`managed_agent_backend_v2.py:327`), so that the cleanup may outlive the budget, which the header
at line 33 says includes the `finally` block; a `requires_action` that lacks ids is skipped and the
loop goes on, where `managed_agent_backend_v2.py:9-13` and `requires_action_cycle.py:17-22`
describe an interrupt and an error; a doubled idle signal uses up a cycle; a session that was
created but whose stream could not be opened is deleted by nobody; the total timeout leaves the
session waiting without an interrupt; `AgentFinish` may be seen twice when the cleanup outlives
the deadline.

## ProviderBindings and BindingStore

One key, since keys share nothing. A caller asks with its version; on a miss it queues for the
key's lock (`holder`, `waiters`, in `asyncio.Lock`'s order), reads again and provisions:
`AgentCreated`, then `EnvironmentCreated`, each of which may fail or be cancelled. `agents` is what
Anthropic has created and charged for. `BindingStore` is the promise: an atomic register that is
replaced by newer versions only. `ImplementsStore` maps `stored` and `got` to it.

Seen while modelling: the registry is asked without the fingerprint
(`managed_agent_backend_v2.py:407`), so a binding may be of another configuration, unlike what line
1062 says.

*Fairness*: the lock is granted and the paid calls settle (they may fail); nobody has to ask.

## ManagedAgentSetup and ManagedAgentV1

`ManagedAgentSetup` has the caches of one backend and the setup of each turn: `step` is what turn
`t` awaits, `config` its agent, effective tools and gateway flag, `agentOf` the agent it got. An
agent at the provider is known by what it was created with. The caches are checked before an await
and written after it, with no lock, so two turns may each create an agent or an environment (the
ADR 0001 accepts that); what may not happen is that a turn makes its session on an agent of another
configuration (`SessionFitsTurn`). A turn that continues a session is another matter: the code uses
the agent it looked up, or paid for, only in `_create_session` (`managed_agent_backend.py:413-421`),
and the session keeps the agent it was made with (`session`). The two may differ, and in the run
they do: a supplied session "is not validated against the agent fingerprint" (ADR 0001,
`docs/adr/0001-managed-agent-backend-v2.md:42`). No property covers continued sessions.

`ManagedAgentV1` is the loop. Sessions share nothing but the caches, so one turn at a time is past
its setup, the `driver`; a turn that continues a session is it from its call on, which is how one
session sees several turns. `buffer` stands for `pending_tool_events` and
`pending_tool_envelope`, `cycle` for `event_ids`, `replied` for the results built so far. Of the
session there are its `model`, the `log` that `events.list` reads, the ids `pending`, how often
each custom call was cited (`asked`), and the events not read yet (`wire`). Uses and their signal
come in either order or the uses never, signals are repeated, ids of an earlier turn are cited
again. `Rehydrate` takes any use of the log, answered or not, as the code does, so a repeated signal
makes a custom tool run again (ADR 0001 says so); what the code keeps is `RunsAreAsked`: no tool runs
more often than it was cited, and no call of the server runs.

Exits: the end of the model's turn, an error, ids that are nowhere, a refused or failed reply
(both with an interrupt), an exception, a cancellation at any await, a generator that is closed at
a yield. Each goes through the `finally` block, which a cancellation cuts short.

The session's server acts on its own only while a turn listens, has yet to begin or will come back
to the session (`Acting`): what happens on a session nobody returns to is seen by nobody.

*Fairness*: requests settle and the consumer goes on (`FinishTaken` is in `Loop`); the session's
server owes nothing. V1 has neither a deadline nor a cap on its cycles: a session that is silent, or
uses new tools for ever, holds a turn for ever, and no property says that a turn ends. The total
timeout of the ADR 0001 is the V2 backend's. What V1 itself owes is `StreamIsServed`: a custom call that
was cited is answered, or the turn ends; and once the session's end is on the stream, the turn ends.

Seen while modelling: `run()`, which folds the events of `stream()`, reports its default
`stop_reason` "end_turn" for a stream that ended without `AgentFinish`; a session made before the
`try` is left behind when the stream cannot be opened.

## TurnRecorder and AgentTurns

`TurnRecorder` has the recorders of all agents and the window they share. `_record`, its callers
and the creation of the push are one synchronous piece, so each operator maps a recorder's state
`[seen, text, new, old]` to the next, and `Becomes` stores it and appends the new pushes to `tasks`,
which are also the window's log. A text is a sequence of pieces: one text of the user, or deltas,
none of them blank, each known by the call, the request and its place. `DedupeKey` is the role and
the `Digest` of the text, which stands for the hash of its first 500 characters. It is a constant,
any function of a text's pieces: any two answers, like any two texts of the user, may have one
digest. `repeats` is a history variable: the turns that were dropped as seen before (`old`), which
the code keeps nowhere.

`AgentTurns` has the calls: `discover` (the prefetch), `open` and `stream` (the request),
`backoff` (Hermes), `flush`, `done`. The flush waits for the pushes it finds when it begins
(`waits`), and takes them along when it is cancelled (`asyncio.gather`). An abandoned stream is
left to the collector.

*Fairness*: every await of a call ends (httpx has time outs) and pushes end. Nobody has to call.

*Properties*: `RecordedOnce`, `DeltasKept` (each delta of the current request is in exactly one
turn, in the buffer or in an answer that was dropped, not in the buffer when the end was reported;
and an answer is dropped only if the window has a turn with its key), `FlushCompletes`, `TurnEnds`.

Seen while modelling: an answer with the same first 500 characters as an earlier one of the same
recorder, say a second "Done.", is dropped without a word after the buffer was emptied
(`turn_recorder.py:217`, `237-239`), and so is the first piece of an answer that a new call cuts in two,
where `turn_recorder.py:22-24` says that a flush guarantees that no turn is dropped; a Hermes stream that ends with `[DONE]` and no `finish_reason` yields no
`AgentFinish`, so the answer stays in the buffer until the next user turn or for good; the comment
at `hermes_agent_backend.py:241` says "retried once", the code retries `_HERMES_MAX_RETRIES` times;
a cancelled `flush()` cancels pushes of other calls of the same agent; two texts with the same
first 500 characters are one turn; Hermes prefetches on every turn; two agents over one window may
have different projects, which `managed_agent.py:193` forbids and nobody checks.

## CopassApi

The catalogue (`Compute` to `BaseDataSource`) says of every method the verb, what a delivery does on
the server (`nothing`; the `same` as before; something `new`) and what becomes of an empty answer.
The effects are external: they are what the verbs, names and docstrings of the methods say. A call
goes `auth`, `send`, `wait`, `backoff`, `done`; `flying` has the requests that have left,
which may be served after their caller gave up, or never; `rows` are the new things on the
server, known by call and attempt. `retry_with_backoff` tells errors apart by their text only:
`silent` is a failure whose text has none of the tokens, `unlucky` a parse error whose position
reads like a status. The token is fetched once, before the retries.

`EnsureOnce` excepts a call whose list came back empty-bodied or that was told not to reuse
(`blind`). Two calls that overlap may both register; no code or doc forbids it.

*Fairness*: an attempt ends at the latest with the time out of httpx. The server owes nothing.

## WatchSync

Each `start()` and each one-time `reconcile()` makes a runtime with a `phase`. Runs of
`reconcile()` and of `flushPendingChanges()` are *jobs* that load the state file, work path by
path and write it back; any number of them overlap. `up`, `del`, `timer` are the queue, `unseen`
what chokidar has noticed and not reported. `awaits` is the runtime whose `stop()` a call awaits.
A file is a modification time and a text, and the text stands for its hash. `saved` is
what a reader of the state file finds: while a write is in flight the file is truncated and reads
as empty, and overlapping writes (`mixed`) may end in either order or as invalid JSON.

`Diffs` is `diffFiles` with its renames by hash and the `maxFiles` cap, which keep some choice of
paths open because their order is the order of names; `Fingerprint` keeps the old hash when the
mtime is the old one.

Abstractions: equal file sizes; the steps of a path are one step where no await of the code lies
between two reads of shared state that the properties tell apart (stat and hash of a scanned file,
read and ingest of a reconciled file); paths are worked on in one fixed order; chokidar's baseline
is the disk when the watch starts; a path is one that scanner and matcher both accept. Not
modelled: `rebuildWatchState`, the ignore rules and `planIncrementalIndex`, which reads only.

*Fairness*: `WF(Progress)`: chokidar reports what it noticed, timers fire and awaits settle. Nobody
has to edit, start or stop, and the closing of chokidar has no fairness.

*Properties*: `NothingStranded` (a queued event of a watching runtime has a timer),
`QueueIsCurrent` (once reported, the queue says what the disk says), `StoppedIsQuiet` (no flush
begins on a stopped runtime), `EventsArePushed`.

What the model has and no property forbids: changes made between the initial scan and the watch are
seen by nobody until the next start; overlapping jobs lose an update of the state file, which costs
a second ingest; a flush takes the mtime after the text (`runtime.ts:216-219`), and an old hash with
a new mtime makes the next reconcile after a crash skip the file; a failed ingest is only logged,
where the package's `README.md:50` says "Every file event is pushed".

## Runs

| Run | Result | Distinct states | Shows |
|---|---|---|---|
| `gateway` | pass | 820k | two wirings, two ticks in flight, three faults |
| `gateway_clean_leave` | violation | | finding 1 |
| `broker` | pass | 461k | two instances over a cap of one, two stops each |
| `broker_cap` | violation | | finding 2 |
| `turn` | pass | 978k | two turns, three calls (one of a tool the agent lacks), three cycles, one fault |
| `bindings` | pass | 65k | three turns, two versions, three agents |
| `watch` | pass | 269k | two runtimes, two jobs, one fault |
| `watch_one` | violation | | finding 3 |
| `api` | pass | 442k | two calls, two attempts, every method |
| `agent` | pass | 549k | two calls on one agent, or on two of different classes; both answered with the same words |
| `agent_answer` | violation | | finding 4 |
| `v1` | pass | 171k | two turns, one custom and one server call |

Every property of a passing run is paired in `PROJECT.json` with a mutant of the code (an operator
of the module, marked "Mutant") that violates it under the same configuration.

*Why the bounds are enough.* Gateway: an old wiring and its successor are what can interfere; a
third would need a slot whose calls have all settled, and that slot is free again. The threshold of
two separates "one more failure" from "ask", and three faults lose the link, the row and the
sandbox in one behaviour. Broker: instances only meet at the cap, so two over a cap of one; two
stops, one per object or both on one. Turn: two custom calls make a cycle that is half stale, and
one of them has no tool; one server call makes the mixed batch, two turns the leftover of an earlier one, three cycles reach the cap
with a doubled signal. Bindings: a holder and two waiters, so that a cancelled waiter leaves one
behind. Watch: two runtimes and two jobs overlap in every pair (reconcile/reconcile,
reconcile/flush, flush/flush); `MaxEvents` allows two starts with one edit or one start with two
edits. Api: calls meet only in `ensure_data_source`, so two of them, or any method next to a
fetch; two attempts are a first and a last one. Agent: two calls overlap on one recorder or
share only the window; the two texts have one digest and are passed by both calls, so that a replay
is in every behaviour; two deltas an answer let a new call cut an answer in two, and since both calls
are answered with the same words, either piece may be dropped as seen before; one retry makes two
answers in one call. V1: two turns overlap in every pair of setup steps, which three
would repeat; one custom and one server call make batches of either kind and both; `MaxWire` bounds
only what the server adds unasked. What the last three leave to larger instances is
covered by the proofs.

Deadlock is checked except in the runs `api`, `agent` and `agent_answer`, whose calls are each made
once and may then all be over. Where another model really ends, an action of its own says so:
`Exited` (the process is gone), `AllTurnsDone` and `Quiet` (the bounds are used up).

## Findings

1. **A daemon registers after it left** (`CleanLeave`). A heartbeat tick that awaited its call
   registers again without looking at `stopped` (`gateway-registrar.ts:252`), after `unregister()`.
   `os-host.ts:415` counts on the unregister as a clean signal.
2. **The soft cap is exceeded** (`SoftCapRespected`). A stop during provisioning frees the place and
   the start in flight stores RUNNING (`network-broker-node.ts:404`).
3. **Two watchers** (`OneWatcher`). `start()` during a first reconcile: the first runtime has no
   chokidar watcher to close yet and makes one later (`runtime.ts:75`), although
   `file-system-data-source.ts:122` says that the call replaces the previous watcher. `stop()` in
   that time has the same effect: the runtime watches, and nothing holds it.
4. **One turn with two answers** (`OneAnswerPerTurn`). A Hermes request that breaks after deltas were
   handed on is posted again (`hermes_agent_backend.py:221`), and the pieces of both answers
   become one assistant turn, where `turn_recorder.py:17` says that one response becomes one turn.

## Proofs

Checked by `tlapm` with SMT, Zenon and PTL; nothing is omitted. The theorems hold for every value
of the constants under the modules' named assumptions: bounds are naturals, `None`-like
values are not members, sets of calls are disjoint, `Ids` of the broker is finite.

Most theorems state a property of a run. Six more say what no run lists: `FaultlessIsRegistered`,
`QuietLeaveIsClean`, `AnswersAreKept`, `OrderIsKept`, `NothingIsDropped` and `ToolsNeverRunTwice`
(which the ledger's refinement now covers in the run `turn`). Their invariants and action properties
were checked with TLC on the instances of the runs before they were proved.

- **GatewayLifecycle**: `TypesHold`, `NoLoopIsOrphaned`, `NoSignalIsLost`, `ShutdownIsFinal`,
  `FaultlessIsRegistered`, `QuietLeaveIsClean`. The
  invariants alone are not inductive: whether a torn-down wiring is orphaned depends on where the
  cycle is. `IInv` adds `HandlesInv` (both handles change together and are null while the cycle
  builds a wiring), `SlotsInv` (the slot being wired is unused), `BootInv` and `ServingInv` (a
  serving keepalive was not unsubscribed). `QuietLeaveIsClean` is what is left of `CleanLeave`
  (finding 1): a daemon that leaves with no heartbeat in flight, and in which nothing failed, leaves
  no row, and nothing puts one back. It rests on `FaultlessInv`: until the first fault the one
  wiring is never replaced, it is registered, and the calls in flight are its own.
- **NetworkBroker**: `TypesHold`, `RunningCanBeStopped`, `AttachmentsAreKept`, `CapHolds`,
  `BrokerImplementsLease`. `InstancesInv` says, per id, which of the two objects is in use by the
  progress of the start, and what status and handle say of the resource. The cap is a counting
  argument on top: only `Start` adds to the counted set, and it checks and reserves in one step.
  The refinement shows that each action moves the phase of one lease, or none.
- **ManagedAgentTurn**: `TypesHold`, `LedgerIsKept`, `ToolsNeverRunTwice`, `RepliesAreAwaited`,
  `EndsAreReported`, `NobodyWaitsForNothing`. A tool runs only for an id whose event is in the buffer, so `IInv`
  follows an id along its way: its tool use is at one place of the wire (`WireInv`) or in the
  buffer, not in both; while it is, the session waits for it and it has not run (`ListenInv`); the
  cycle in progress is in the buffer (`CycleInv`); a new tool use has never run (`RunsInv`). The
  lemmas about appended and removed events carry this along the stream, of any length. Two
  invariants stand on `IInv`: `EndInv` says what was reported at each await, and `WaitInv` that a
  round of calls is cited whole or not at all, and that an owed round is in the cycle in progress or
  cited by an event ahead, behind the last of its tool uses. The refinement adds `RanInv` (a reply
  that is built is the result of a run) and shows that each action is one step of the ledger or none.
- **ProviderBindings**: `TypesHold`, `AnswersHold`, `CreatesOnceHolds`,
  `RegistryImplementsStore`. The key is `LockInv`: a caller is in the paid calls exactly when it
  holds the lock; `MissInv` keeps the miss it saw true until it stores.
- **WatchSync**: `TypesHold`, `NothingIsStranded`, `QueueStaysCurrent`, `StopsAreQuiet`,
  `NothingIsDropped`. The queue
  of a runtime is touched before it watches by nothing (`FreshInv`), and a timer implies that it
  watches (`TimerInv`); the two make the properties inductive. They rest on `JobsInv` and
  `ReconcilesRun`: a runtime has at most one reconcile, and its phase says so, so the end of a job
  moves the phase of no other runtime. The steps of a job share one lemma (`JobGoesOn`), after
  each is shown to leave a job of the same runtime. `NothingIsDropped` is the safety half of
  `EventsArePushed`: a change that was noticed is `Covered` (unreported, queued, or in a flush that
  has not read the file or read what it holds) until a step ingests what the file holds by then
  or logs an error of its path.
- **ManagedAgentV1**: `TypeCorrect`, `SessionsFit`, `OnlyAskedRuns`, `NeverBothWait`. `AgentInv` says
  that each cached agent is the one of its key, which no overlap of creations breaks, and that a turn
  past its lookup has an agent of its own configuration; `SessionsFit` carries this to the session
  the turn makes and shows that no other turn's step touches it. Runs are
  counted against citations (`CountInv`): what ran, what the unread signals cite and what the
  cycle in progress has left to run are together at most what was asked; `Citations` counts
  signals in a stream of any length by the cardinality of their positions. `OwedInv` (a call that
  was cited and is pending is cited by an unread event or is in the cycle) gives `NoMutualWait`.
- **CopassApi**: `TypeCorrect`, `NoSilentRepeat`, `EnsuredOnce`, `AnswersAreKept`. A row may appear at any time, so
  `FailureInv` ranges over attempts and not over rows: every attempt of such a call before
  its last one failed with an error the retry test matches. `RowInv` ties rows and requests in
  flight to a call whose request makes something new; `EnsureInv` says that an answer on its
  way shows at least the sources there were when the call began. `AnswersAreKept` says that what a
  call returns is true: what it was to make was made by the attempt whose answer it took, and an
  attempt refused with a 4xx leaves nothing, then or later. Its `TruthInv` follows each attempt's one
  request from the wire to its row (`FlightInv`) and the answer back (`AnswerInv`).
- **AgentTurns**: `TypeCorrect`, `PushedOnce`, `NoDeltaLost`, `NoPushLeft`, `OrderIsKept`. All hold
  for any digest, also one that is the same for all texts. `KeysInv`: a recorder
  knows the key of every turn it pushed, and only keys of turns in the log, as is the key of every
  dropped turn. `PendInv`: a push under
  way belongs to a call that is not over, and a flushing call waits for it. `DeltaInv` follows the
  deltas of a call from the stream to the turn or to the dropped answer; the deltas used so far (`Used`) make the next one
  new. The loop of `record_user` is a recursive function: that it exists and what it keeps is
  shown with the least number of rounds that would break it, and `Sound` is what holds of a
  recorder in the middle of a call. `OrderIsKept` (what the window gets of an answer is in the order
  it was streamed, in however many turns and whatever was dropped in between) follows from the same invariants, since a turn once in
  the log stays.

Only model-checked: the liveness properties (`EventuallyRegistered`, `TurnEnds`, `EveryCallEnds`,
`EventsArePushed`, `CallsEnd`, `StreamIsServed`), which need fairness and are out of this prover's reach. Every
invariant and action property of the passing runs is proved. No module uses a RECURSIVE operator.
The inductive invariants were checked with TLC before they were proved.

## Not modelled, and what a next step would be

- Agent sessions: register and deregister against daemons, session files and signals
  (`agent-broker.ts`, `agent-daemon.ts`); the abstract specification is one daemon per session.
- Token refresh in the TypeScript client (`supabase.ts` 110-171).
- Full index workers (`full-index.ts` 96-142) and the state entries of the watch whose hash is
  older than their mtime.
- Connect flow (`connect-flow.ts` 113-188), shell `exec` (`local-network-shell.tool.ts` 131-201),
  concurrent starts of the OS manager.
- Google's sessions and the conversion of events; `run()` of the backends, which folds `stream()`.

They are small next to what is modelled, have few states of their own, and are independent of the
modules above. Schemas, templates, adapters and forwarding code have no behaviour that a model
would show more of than their tests.
