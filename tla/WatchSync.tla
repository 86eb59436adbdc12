------------------------------- MODULE WatchSync -------------------------------
(***************************************************************************)
(* The filesystem source of datasource-fs: FileSystemDataSource starts,    *)
(* replaces and stops ProjectWatchRuntimes (watch/runtime.ts), each of     *)
(* which reconciles the project once and then watches it, ingesting the    *)
(* changes in debounced flushes.  All of them share one state file.        *)
(*                                                                         *)
(* A step is the code between two awaits.  Runs of reconcile() and of      *)
(* flushPendingChanges() are jobs; they overlap freely.  Files are equally *)
(* long, so the size in a fingerprint tells nothing; a text stands for its *)
(* hash.  A path is one scanProjectFiles and the matcher of the watcher    *)
(* both accept.                                                            *)
(*                                                                         *)
(* Outside the repository: the disk, chokidar, and the api that ingests.   *)
(* Chokidar reports every change made while it watches, repeated changes   *)
(* of a path once or more often.                                           *)
(***************************************************************************)
EXTENDS Naturals, FiniteSets

CONSTANTS
  Paths,
  Texts,       \* contents of files
  First,       \* the text of each path at first, None where there is no file
  None,        \* neither a path nor a text
  MaxFiles,    \* options.maxFiles, 0 if it is not set
  MaxStarts,   \* bound: calls of start() and reconcile()
  MaxEdits,    \* bound: changes on disk
  MaxEvents,   \* bound: both together
  MaxJobs,     \* bound: reconciles and flushes at one time
  MaxFaults    \* bound: failed calls and crashes

ASSUME PathAssumption == Paths # {}
ASSUME NoneAssumption == None \notin Paths \union Texts
ASSUME FirstAssumption == First \in [Paths -> Texts \union {None}]
ASSUME BoundAssumption == {MaxFiles, MaxStarts, MaxEdits, MaxEvents, MaxJobs, MaxFaults} \subseteq Nat

Runtimes == 1 .. MaxStarts
Jobs     == 1 .. MaxJobs

\* What a path holds on disk, and its entry in the state file.
File   == [mtime : 0 .. MaxEdits, text : Texts]
NoFile == [mtime |-> 0, text |-> None]
Files  == [Paths -> File \union {NoFile}]
Empty  == [p \in Paths |-> NoFile]

VARIABLES
  disk,      \* the project's files
  clock,     \* changes so far
  ingested,  \* texts the api has
  saved,     \* the entries a reader of the state file finds
  mixed,     \* writes of the state file have overlapped
  watcher,   \* this.watcher of the data source, 0 for null
  awaits,    \* the runtime whose stop() a call awaits; call 0 is stop()
  phase,     \* of each runtime
  up, del,   \* pendingUpserts, pendingDeletes
  timer,     \* debounceTimer is running
  unseen,    \* changed paths chokidar has not reported yet
  job,       \* reconciles and flushes in flight
  logged,    \* paths with an error line in the watch log
  faults     \* faults so far

diskVars    == <<disk, clock>>
driverVars  == <<watcher, awaits>>
queueVars   == <<up, del, timer, unseen>>
vars == <<diskVars, ingested, saved, mixed, driverVars, phase, queueVars, job, logged, faults>>

Phases == {"none", "replacing", "reconciling", "once", "watching", "closing", "over"}

Job == [at    : {"free", "load", "scan", "ingest", "stat", "saving"},
        kind  : {"flush", "reconcile"},
        owner : 0 .. MaxStarts,
        todo  : SUBSET Paths,           \* paths still to be scanned or ingested
        gone  : SUBSET Paths,           \* entries to delete at the end
        moved : SUBSET Paths,           \* targets of renames
        seen  : Files,                  \* the fingerprints of the scan
        state : Files,                  \* the state file as loaded and updated
        held  : Texts \union {None}]    \* what was read of the next path

FreeJob == [at |-> "free", kind |-> "flush", owner |-> 0, todo |-> {}, gone |-> {},
            moved |-> {}, seen |-> Empty, state |-> Empty, held |-> None]

\* A runtime is in its reconcile as long as a job runs it.
ReconcilesRun ==
  \A r \in Runtimes : phase[r] \in {"reconciling", "once"} <=>
    \E j \in Jobs : job[j].kind = "reconcile" /\ job[j].owner = r

TypeOK ==
  /\ disk \in Files /\ clock \in 0 .. MaxEdits
  /\ ingested \subseteq Texts
  /\ saved \in Files /\ mixed \in BOOLEAN
  /\ watcher \in 0 .. MaxStarts
  /\ awaits \in [0 .. MaxStarts -> 0 .. MaxStarts]
  /\ phase \in [Runtimes -> Phases]
  /\ \A r \in Runtimes : phase[r] = "replacing" => awaits[r] \in Runtimes
  /\ up \in [Runtimes -> SUBSET Paths] /\ del \in [Runtimes -> SUBSET Paths]
  /\ timer \in [Runtimes -> BOOLEAN]
  /\ unseen \in [Runtimes -> SUBSET Paths]
  /\ job \in [Jobs -> Job]
  /\ ReconcilesRun
  /\ logged \subseteq Paths
  /\ faults \in 0 .. MaxFaults

Init ==
  /\ disk = [p \in Paths |-> [mtime |-> 0, text |-> First[p]]]
  /\ clock = 0 /\ ingested = {} /\ saved = Empty /\ mixed = FALSE
  /\ watcher = 0 /\ awaits = [c \in 0 .. MaxStarts |-> 0]
  /\ phase = [r \in Runtimes |-> "none"]
  /\ up = [r \in Runtimes |-> {}] /\ del = [r \in Runtimes |-> {}]
  /\ timer = [r \in Runtimes |-> FALSE] /\ unseen = [r \in Runtimes |-> {}]
  /\ job = [j \in Jobs |-> FreeJob]
  /\ logged = {} /\ faults = 0

Started == {r \in Runtimes : phase[r] # "none"}

WithinBounds == clock + Cardinality(Started) < MaxEvents

Fault == faults < MaxFaults /\ faults' = faults + 1

-----------------------------------------------------------------------------
(* The disk, and chokidar's notice of it.                                  *)

Changes(p, file) ==
  /\ clock < MaxEdits /\ WithinBounds /\ clock' = clock + 1
  /\ disk' = [disk EXCEPT ![p] = file]
  /\ unseen' = [r \in Runtimes |-> IF phase[r] = "watching" THEN unseen[r] \union {p}
                                                            ELSE unseen[r]]
  /\ UNCHANGED <<ingested, saved, mixed, driverVars, up, del, timer, logged, faults>>

Write(p, t) ==
  /\ Changes(p, [mtime |-> clock + 1, text |-> t])
  /\ UNCHANGED <<phase, job>>

Remove(p) ==
  /\ disk[p] # NoFile
  /\ Changes(p, NoFile)
  /\ UNCHANGED <<phase, job>>

-----------------------------------------------------------------------------
(* FileSystemDataSource: start(), stop() and reconcile().                  *)

NextCall(r) == r \notin Started /\ 1 .. r - 1 \subseteq Started /\ WithinBounds

\* Jobs take the first free place.
FreePlace(j) == job[j].at = "free" /\ \A k \in 1 .. j - 1 : job[k].at # "free"

\* A reconcile of runtime r begins.
Reconciles(r, j, ph) ==
  /\ FreePlace(j)
  /\ job' = [job EXCEPT ![j] = [FreeJob EXCEPT !.at = "load", !.kind = "reconcile", !.owner = r]]
  /\ phase' = [phase EXCEPT ![r] = ph]

\* Mutant: the debounce timer survives stop().
ClosesButTimer(r) ==
  /\ UNCHANGED timer
  /\ unseen' = [unseen EXCEPT ![r] = {}]

\* runtime.stop() up to its await.
Closes(r) ==
  /\ timer' = [timer EXCEPT ![r] = FALSE]
  /\ unseen' = [unseen EXCEPT ![r] = {}]

Closing(r) == IF phase[r] = "watching" THEN "closing" ELSE phase[r]

StartFresh(r, j) ==
  /\ NextCall(r) /\ watcher = 0
  /\ watcher' = r
  /\ Reconciles(r, j, "reconciling")
  /\ UNCHANGED <<diskVars, ingested, saved, mixed, awaits, queueVars, logged, faults>>

\* start() stops the runtime it holds before it makes its own.
StartReplaces(r) ==
  /\ NextCall(r) /\ watcher # 0
  /\ awaits' = [awaits EXCEPT ![r] = watcher]
  /\ Closes(watcher)
  /\ phase' = [phase EXCEPT ![watcher] = Closing(watcher), ![r] = "replacing"]
  /\ UNCHANGED <<diskVars, ingested, saved, mixed, watcher, up, del, job, logged, faults>>

Replaced(r, j) ==
  /\ phase[r] = "replacing" /\ phase[awaits[r]] # "closing"
  /\ watcher' = r
  /\ awaits' = [awaits EXCEPT ![r] = 0]
  /\ Reconciles(r, j, "reconciling")
  /\ UNCHANGED <<diskVars, ingested, saved, mixed, queueVars, logged, faults>>

Stop ==
  /\ awaits[0] = 0 /\ watcher # 0
  /\ awaits' = [awaits EXCEPT ![0] = watcher]
  /\ Closes(watcher)
  /\ phase' = [phase EXCEPT ![watcher] = Closing(watcher)]
  /\ UNCHANGED <<diskVars, ingested, saved, mixed, watcher, up, del, job, logged, faults>>

Stopped ==
  /\ awaits[0] # 0 /\ phase[awaits[0]] # "closing"
  /\ watcher' = 0
  /\ awaits' = [awaits EXCEPT ![0] = 0]
  /\ UNCHANGED <<diskVars, ingested, saved, mixed, phase, queueVars, job, logged, faults>>

\* chokidar's close() resolves.
CloseSettles(r) ==
  /\ phase[r] = "closing"
  /\ phase' = [phase EXCEPT ![r] = "over"]
  /\ UNCHANGED <<diskVars, ingested, saved, mixed, driverVars, queueVars, job, logged, faults>>

\* reconcile() of the data source, on a runtime that never watches.
ReconcileOnce(r, j) ==
  /\ NextCall(r)
  /\ Reconciles(r, j, "once")
  /\ UNCHANGED <<diskVars, ingested, saved, mixed, driverVars, queueVars, logged, faults>>

-----------------------------------------------------------------------------
(* Events and the debounce timer.                                          *)

\* Mutant: an event of one kind leaves that of the other in the queue.
EventKeepsOther(r, p) ==
  /\ phase[r] = "watching" /\ p \in unseen[r]
  /\ unseen' = [unseen EXCEPT ![r] = @ \ {p}]
  /\ IF disk[p] = NoFile THEN del' = [del EXCEPT ![r] = @ \union {p}] /\ UNCHANGED up
                         ELSE up'  = [up EXCEPT ![r] = @ \union {p}] /\ UNCHANGED del
  /\ timer' = [timer EXCEPT ![r] = TRUE]
  /\ UNCHANGED <<diskVars, ingested, saved, mixed, driverVars, phase, job, logged, faults>>

\* queueEvent: unlink, or add and change.
Event(r, p) ==
  /\ phase[r] = "watching" /\ p \in unseen[r]
  /\ unseen' = [unseen EXCEPT ![r] = @ \ {p}]
  /\ IF disk[p] = NoFile
     THEN del' = [del EXCEPT ![r] = @ \union {p}] /\ up' = [up EXCEPT ![r] = @ \ {p}]
     ELSE up' = [up EXCEPT ![r] = @ \union {p}] /\ del' = [del EXCEPT ![r] = @ \ {p}]
  /\ timer' = [timer EXCEPT ![r] = TRUE]
  /\ UNCHANGED <<diskVars, ingested, saved, mixed, driverVars, phase, job, logged, faults>>

\* The timer fires: flushPendingChanges takes what is pending.
Flush(r, j) ==
  /\ timer[r] /\ FreePlace(j)
  /\ job' = [job EXCEPT ![j] = [FreeJob EXCEPT !.at = "load", !.owner = r,
                                               !.todo = up[r], !.gone = del[r]]]
  /\ timer' = [timer EXCEPT ![r] = FALSE]
  /\ up' = [up EXCEPT ![r] = {}] /\ del' = [del EXCEPT ![r] = {}]
  /\ UNCHANGED <<diskVars, ingested, saved, mixed, driverVars, phase, unseen, logged, faults>>

-----------------------------------------------------------------------------
(* Jobs.                                                                   *)

JobAt(j, at) == job[j].at = at

\* Paths are worked on in some fixed order.
NextPath(todo) == CHOOSE p \in todo : TRUE

\* Only job j moves on, to the record new.
Moves(j, new) ==
  /\ job' = [job EXCEPT ![j] = new]
  /\ UNCHANGED <<diskVars, driverVars, queueVars>>

\* readWatchState: a file that is not valid JSON reads as empty.
Load(j) ==
  /\ JobAt(j, "load")
  /\ Moves(j, IF job[j].kind = "flush"
              THEN [job[j] EXCEPT !.state = saved, !.at = "ingest"]
              ELSE [job[j] EXCEPT !.state = saved, !.at = "scan", !.todo = Paths])
  /\ UNCHANGED <<ingested, saved, mixed, phase, logged, faults>>

\* Mutant: start() swallows the error.
RejectsSilently(j) ==
  /\ job' = [job EXCEPT ![j] = FreeJob]
  /\ UNCHANGED phase

\* A job rejects: start() does, a flush is logged without a path.
Rejects(j) ==
  /\ job' = [job EXCEPT ![j] = FreeJob]
  /\ phase' = IF job[j].kind = "flush" THEN phase
              ELSE [phase EXCEPT ![job[j].owner] = "over"]

\* fingerprintFile keeps the old hash if the mtime (and size) is the old one.
Fingerprint(j, p) ==
  LET old == job[j].state[p] IN
  IF disk[p] # NoFile /\ old # NoFile /\ old.mtime = disk[p].mtime THEN old ELSE disk[p]

\* A file that vanishes between its isEligiblePath and its hash fails the scan.
VanishesInScan(j, p) ==
  /\ JobAt(j, "scan") /\ p = NextPath(job[j].todo)
  /\ disk[p] # NoFile
  /\ Changes(p, NoFile)
  /\ Rejects(j)

\* The sets of new paths that takeRenameMatch pairs with lost ones by hash.
Renames(new, lost, seen, old) ==
  LET N(t, M) == Cardinality({p \in M : seen[p].text = t})
      L(t)    == Cardinality({p \in lost : old[p].text = t}) IN
  {M \in SUBSET new : \A t \in Texts :
     N(t, M) = IF N(t, new) <= L(t) THEN N(t, new) ELSE L(t)}

\* At most maxFiles upserts are kept.
Capped(U) ==
  IF MaxFiles = 0 \/ Cardinality(U) <= MaxFiles
  THEN {U} ELSE {S \in SUBSET U : Cardinality(S) = MaxFiles}

\* diffFiles: moved paths get their entry without being ingested.
Diffs(scanned) ==
  LET seen == scanned.seen
      old  == scanned.state
      differ == {p \in Paths : seen[p] # NoFile /\ seen[p] # old[p]}
      new    == {p \in differ : old[p] = NoFile}
      lost   == {p \in Paths : seen[p] = NoFile /\ old[p] # NoFile} IN
  UNION {{[scanned EXCEPT !.at = "ingest", !.todo = U, !.gone = lost, !.moved = M,
             !.seen = [p \in Paths |-> IF p \in U \union M THEN seen[p] ELSE NoFile]] :
            U \in Capped(differ \ M)} : M \in Renames(new, lost, seen, old)}

\* One file is fingerprinted; after the last one the snapshots are compared.
Scan(j, p) ==
  /\ JobAt(j, "scan") /\ p = NextPath(job[j].todo)
  /\ LET scanned == [job[j] EXCEPT !.todo = @ \ {p}, !.seen[p] = Fingerprint(j, p)] IN
     \E new \in IF scanned.todo = {} THEN Diffs(scanned) ELSE {scanned} : Moves(j, new)
  /\ UNCHANGED <<ingested, saved, mixed, phase, logged, faults>>

\* A path that cannot be read or ingested is logged and left out.
Errs(j, p) ==
  /\ Moves(j, [job[j] EXCEPT !.at = "ingest", !.todo = @ \ {p}, !.held = None])
  /\ logged' = logged \union {p}

\* A text is ingested and the entry of its path is updated.
Ingests(j, p, text, entry) ==
  /\ ingested' = ingested \union {text}
  /\ Moves(j, [job[j] EXCEPT !.at = "ingest", !.todo = @ \ {p}, !.held = None,
                             !.state[p] = entry])
  /\ UNCHANGED <<logged, faults>>

\* Reading, ingest() or its answer fails.
IngestFails(j, p, text) ==
  /\ Fault
  /\ ingested' \in {ingested, ingested \union {text}}
  /\ Errs(j, p)

\* A reconcile ingests what it reads now and records the fingerprint of its scan.
ReconcileFile(j, p) ==
  /\ JobAt(j, "ingest") /\ job[j].kind = "reconcile"
  /\ job[j].todo # {} /\ p = NextPath(job[j].todo)
  /\ \/ disk[p] = NoFile /\ Errs(j, p) /\ UNCHANGED <<ingested, faults>>
     \/ disk[p] # NoFile /\ Ingests(j, p, disk[p].text, job[j].seen[p])
     \/ disk[p] # NoFile /\ IngestFails(j, p, disk[p].text)
  /\ UNCHANGED <<saved, mixed, phase>>

\* A flush reads the text,
ReadFile(j, p) ==
  /\ JobAt(j, "ingest") /\ job[j].kind = "flush"
  /\ job[j].todo # {} /\ p = NextPath(job[j].todo)
  /\ IF disk[p] = NoFile
     THEN Errs(j, p)
     ELSE /\ Moves(j, [job[j] EXCEPT !.at = "stat", !.held = disk[p].text])
          /\ UNCHANGED logged
  /\ UNCHANGED <<ingested, saved, mixed, phase, faults>>

\* then takes the mtime, and ingests the one and records both.
FlushFile(j, p) ==
  /\ JobAt(j, "stat") /\ p = NextPath(job[j].todo)
  /\ \/ disk[p] = NoFile /\ Errs(j, p) /\ UNCHANGED <<ingested, faults>>
     \/ /\ disk[p] # NoFile
        /\ Ingests(j, p, job[j].held, [mtime |-> disk[p].mtime, text |-> job[j].held])
     \/ disk[p] # NoFile /\ IngestFails(j, p, job[j].held)
  /\ UNCHANGED <<saved, mixed, phase>>

OthersSave(j) == \E k \in Jobs \ {j} : JobAt(k, "saving")

\* All paths are done: the renames and deletes are applied, and writeFile
\* truncates the state file.
Save(j) ==
  /\ JobAt(j, "ingest") /\ job[j].todo = {}
  /\ Moves(j, [job[j] EXCEPT !.at = "saving",
       !.state = [p \in Paths |-> IF p \in job[j].moved THEN job[j].seen[p]
                                  ELSE IF p \in job[j].gone THEN NoFile ELSE @[p]]])
  /\ saved' = Empty
  /\ mixed' = (mixed \/ OthersSave(j))
  /\ UNCHANGED <<ingested, phase, logged, faults>>

\* What a write leaves in the file; overlapping ones end in any order or
\* leave no valid JSON.
Written(j) ==
  /\ saved' \in IF mixed THEN {Empty, saved, job[j].state} ELSE {job[j].state}
  /\ mixed' = (mixed /\ OthersSave(j))

\* Mutant: a flush clears the timer when it is done.
FlushSavedClearsTimer(j) ==
  /\ JobAt(j, "saving") /\ job[j].kind = "flush"
  /\ Written(j)
  /\ job' = [job EXCEPT ![j] = FreeJob]
  /\ timer' = [timer EXCEPT ![job[j].owner] = FALSE]
  /\ UNCHANGED <<diskVars, driverVars, up, del, unseen, ingested, phase, logged, faults>>

\* Mutant: a flush clears the queue when it is done.
FlushSavedClearsQueue(j) ==
  /\ JobAt(j, "saving") /\ job[j].kind = "flush"
  /\ Written(j)
  /\ job' = [job EXCEPT ![j] = FreeJob]
  /\ up' = [up EXCEPT ![job[j].owner] = {}] /\ del' = [del EXCEPT ![job[j].owner] = {}]
  /\ UNCHANGED <<diskVars, driverVars, timer, unseen, ingested, phase, logged, faults>>

FlushSaved(j) ==
  /\ JobAt(j, "saving") /\ job[j].kind = "flush"
  /\ Written(j)
  /\ Moves(j, FreeJob)
  /\ UNCHANGED <<ingested, phase, logged, faults>>

\* reconcile() returns: start() makes the watcher, whatever happened to the
\* data source since.
ReconcileSaved(j) ==
  /\ JobAt(j, "saving") /\ job[j].kind = "reconcile"
  /\ Written(j)
  /\ Moves(j, FreeJob)
  /\ phase' = [phase EXCEPT ![job[j].owner] = IF @ = "once" THEN "over" ELSE "watching"]
  /\ UNCHANGED <<ingested, logged, faults>>

SaveFails(j) ==
  /\ JobAt(j, "saving") /\ Fault
  /\ mixed' = (mixed /\ OthersSave(j))
  /\ Rejects(j)
  /\ UNCHANGED <<diskVars, driverVars, queueVars, ingested, saved, logged>>

-----------------------------------------------------------------------------
\* The process dies; disk, state file, log and api remain.
Crash ==
  /\ Fault
  /\ watcher' = 0 /\ awaits' = [c \in 0 .. MaxStarts |-> 0]
  /\ phase' = [r \in Runtimes |-> IF phase[r] = "none" THEN "none" ELSE "over"]
  /\ up' = [r \in Runtimes |-> {}] /\ del' = [r \in Runtimes |-> {}]
  /\ timer' = [r \in Runtimes |-> FALSE] /\ unseen' = [r \in Runtimes |-> {}]
  /\ job' = [j \in Jobs |-> FreeJob] /\ mixed' = FALSE
  /\ UNCHANGED <<diskVars, ingested, saved, logged>>

User ==
  \/ \E p \in Paths : \/ Remove(p)
                      \/ \E t \in Texts : Write(p, t)
                      \/ \E j \in Jobs : VanishesInScan(j, p)
  \/ Stop
  \/ \E r \in Runtimes : StartReplaces(r) \/ \E j \in Jobs : StartFresh(r, j) \/ ReconcileOnce(r, j)

Settles(r) == Stopped \/ CloseSettles(r) \/ \E j \in Jobs : Replaced(r, j)

JobStep(j) ==
  \/ Load(j)
  \/ \E p \in Paths : Scan(j, p) \/ ReconcileFile(j, p) \/ ReadFile(j, p) \/ FlushFile(j, p)
  \/ Save(j) \/ FlushSaved(j) \/ ReconcileSaved(j) \/ SaveFails(j)

Quiet == ~WithinBounds /\ UNCHANGED vars

Progress ==
  \/ \E r \in Runtimes : (\E p \in Paths : Event(r, p)) \/ (\E j \in Jobs : Flush(r, j))
  \/ \E j \in Jobs : JobStep(j)

Next == User \/ Crash \/ Quiet \/ Progress \/ \E r \in Runtimes : Settles(r)

(***************************************************************************)
(* Chokidar reports what it has noticed, timers fire and the awaits of     *)
(* jobs settle, in whatever order; nobody has to edit, start or stop.      *)
(***************************************************************************)
Spec == Init /\ [][Next]_vars /\ WF_vars(Progress)

-----------------------------------------------------------------------------
(* Properties.                                                             *)

\* While a runtime watches, an event that is queued has a timer that will
\* flush it: flushes in flight take neither the timer of the next one nor
\* leave anything behind.
NothingStranded ==
  \A r \in Runtimes : phase[r] = "watching" /\ up[r] \union del[r] # {} => timer[r]

\* Once all changes of a path are reported the queue tells what the disk does.
QueueIsCurrent ==
  \A r \in Runtimes : phase[r] = "watching" =>
    \A p \in Paths \ unseen[r] : /\ p \in up[r]  => disk[p] # NoFile
                                 /\ p \in del[r] => disk[p] = NoFile

\* No flush begins on a runtime that is being stopped or was stopped.
StoppedIsQuiet ==
  [][\A j \in Jobs : job[j].at = "free" /\ job'[j].at # "free" /\ job'[j].kind = "flush"
       => phase[job'[j].owner] = "watching"]_vars

\* What a path holds after a change made while a runtime watches is ingested
\* or its error logged some day, if the runtime goes on watching.
EventsArePushed ==
  \A r \in Runtimes, p \in Paths :
    phase[r] = "watching" /\ p \in unseen[r]
      ~> disk[p].text \in ingested \union {None} \/ p \in logged \/ phase[r] # "watching"

\* file-system-data-source.ts:122: "Idempotent — calling twice replaces the
\* previous watcher".
OneWatcher ==
  \A r, s \in Runtimes : phase[r] = "watching" /\ phase[s] = "watching" => r = s
=============================================================================
