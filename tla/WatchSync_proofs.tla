--------------------------- MODULE WatchSync_proofs ---------------------------
(***************************************************************************)
(* Proofs about WatchSync, for any files and texts and any number of       *)
(* starts, edits, overlapping reconciles and flushes, and faults.          *)
(***************************************************************************)
EXTENDS WatchSync, TLAPS

\* What is to be ingested was read, and a runtime has one reconcile at most.
JobsInv ==
  /\ \A j \in Jobs : job[j].at = "free" => job[j].kind = "flush"
  /\ \A j \in Jobs : job[j].at = "stat" => job[j].held \in Texts
  /\ \A j \in Jobs : job[j].kind = "reconcile" => job[j].owner \in Runtimes
  /\ \A j, k \in Jobs : /\ job[j].kind = "reconcile" /\ job[k].kind = "reconcile"
                        /\ job[j].owner = job[k].owner
                        => j = k

\* Only a runtime that watches has a timer, and one that does not watch yet
\* has an empty queue.
TimerInv == \A r \in Runtimes : timer[r] => phase[r] = "watching"

FreshInv == \A r \in Runtimes :
  phase[r] \in {"none", "replacing", "reconciling", "once"} => up[r] = {} /\ del[r] = {}

QueuesInv == TimerInv /\ FreshInv /\ NothingStranded /\ QueueIsCurrent

IInv == TypeOK /\ JobsInv /\ QueuesInv

-----------------------------------------------------------------------------
(* Jobs and the phases of their runtimes.                                  *)

JobsFit == job \in [Jobs -> Job] /\ phase \in [Runtimes -> Phases] /\ JobsInv /\ ReconcilesRun

LEMMA Constants ==
  /\ FreeJob \in Job /\ FreeJob.at = "free" /\ FreeJob.kind = "flush"
  /\ NoFile \in File \union {NoFile} /\ Empty \in Files
  /\ Runtimes \subseteq 0 .. MaxStarts /\ 0 \notin Runtimes /\ 0 \in 0 .. MaxStarts
  BY BoundAssumption DEF FreeJob, Job, Empty, Files, Runtimes

\* A job goes on for its runtime.
LEMMA JobGoesOn ==
  ASSUME JobsFit, NEW j \in Jobs, NEW new \in Job,
         job[j].at # "free", new.at # "free", new.at = "stat" => new.held \in Texts,
         new.kind = job[j].kind, new.owner = job[j].owner,
         job' = [job EXCEPT ![j] = new], UNCHANGED phase
  PROVE  JobsFit'
<1>1. \A k \in Jobs : /\ job'[k].kind = job[k].kind /\ job'[k].owner = job[k].owner
                      /\ job'[k].at = "free" => job[k].at = "free"
                      /\ job'[k].at = "stat" => job'[k].held \in Texts
  BY DEF JobsFit, JobsInv
<1>2. job' \in [Jobs -> Job]
  BY DEF JobsFit
<1> QED
  BY <1>1, <1>2 DEF JobsFit, JobsInv, ReconcilesRun

\* A job ends; the runtime of a reconcile leaves it.
LEMMA JobEnds ==
  ASSUME JobsFit, NEW j \in Jobs, NEW ph \in Phases \ {"reconciling", "once"},
         job' = [job EXCEPT ![j] = FreeJob],
         phase' = IF job[j].kind = "flush" THEN phase
                  ELSE [phase EXCEPT ![job[j].owner] = ph]
  PROVE  JobsFit'
<1>1. \A k \in Jobs : job'[k] = IF k = j THEN FreeJob ELSE job[k]
  BY DEF JobsFit
<1>2. job[j].kind \in {"flush", "reconcile"} /\ job[j] \in Job
  BY DEF JobsFit, Job
<1>3. job' \in [Jobs -> Job] /\ phase' \in [Runtimes -> Phases]
  BY Constants DEF JobsFit
<1>4. JobsInv'
  BY <1>1, Constants DEF JobsFit, JobsInv
<1>5. ReconcilesRun'
  <2>1. CASE job[j].kind = "flush"
    BY <2>1, <1>1, Constants DEF JobsFit, ReconcilesRun
  <2>2. CASE job[j].kind = "reconcile"
    <3>1. job[j].owner \in Runtimes
      BY <2>2 DEF JobsFit, JobsInv
    <3>2. \A k \in Jobs \ {j} : job[k].kind = "reconcile" => job[k].owner # job[j].owner
      BY <2>2 DEF JobsFit, JobsInv
    <3>3. \A r \in Runtimes : phase'[r] = IF r = job[j].owner THEN ph ELSE phase[r]
      BY <2>2, <3>1 DEF JobsFit
    <3> QED
      BY <1>1, <2>2, <3>1, <3>2, <3>3, Constants DEF JobsFit, ReconcilesRun
  <2> QED
    BY <1>2, <2>1, <2>2
<1> QED
  BY <1>3, <1>4, <1>5 DEF JobsFit

\* A runtime that has no job begins its reconcile.
LEMMA ReconcileBegins ==
  ASSUME JobsFit, NEW r \in Runtimes, NEW j \in Jobs, NEW ph \in {"reconciling", "once"},
         phase[r] \notin {"reconciling", "once"}, Reconciles(r, j, ph)
  PROVE  JobsFit'
<1> DEFINE new == [FreeJob EXCEPT !.at = "load", !.kind = "reconcile", !.owner = r]
<1>1. new \in Job /\ new.at = "load" /\ new.kind = "reconcile" /\ new.owner = r
  BY Constants DEF FreeJob, Job
<1>2. /\ job' = [job EXCEPT ![j] = new] /\ phase' = [phase EXCEPT ![r] = ph]
      /\ job[j].at = "free"
  BY DEF Reconciles, FreePlace
<1> HIDE DEF new
<1>3. \A k \in Jobs : job'[k] = IF k = j THEN new ELSE job[k]
  BY <1>2 DEF JobsFit
<1>4. \A s \in Runtimes : phase'[s] = IF s = r THEN ph ELSE phase[s]
  BY <1>2 DEF JobsFit
<1>5. job[j].kind = "flush"
  BY <1>2 DEF JobsFit, JobsInv
<1>6. \A k \in Jobs : job[k].kind = "reconcile" => job[k].owner # r
  BY DEF JobsFit, ReconcilesRun
<1>7. job' \in [Jobs -> Job] /\ phase' \in [Runtimes -> Phases]
  BY <1>1, <1>2 DEF JobsFit, Phases
<1>8. JobsInv'
  BY <1>1, <1>3, <1>6 DEF JobsFit, JobsInv
<1>9. ReconcilesRun'
  BY <1>1, <1>3, <1>4, <1>5, <1>6 DEF JobsFit, ReconcilesRun
<1> QED
  BY <1>7, <1>8, <1>9 DEF JobsFit

\* What a comparison yields is a job that goes on to ingest.
LEMMA DiffsAreJobs ==
  ASSUME NEW s \in Job, NEW new \in Diffs(s)
  PROVE  /\ new \in Job /\ new.at = "ingest"
         /\ new.kind = s.kind /\ new.owner = s.owner
<1> DEFINE seen   == s.seen
           old    == s.state
           differ == {p \in Paths : seen[p] # NoFile /\ seen[p] # old[p]}
           fresh  == {p \in differ : old[p] = NoFile}
           lost   == {p \in Paths : seen[p] = NoFile /\ old[p] # NoFile}
           entries(U, M) == [p \in Paths |-> IF p \in U \union M THEN seen[p] ELSE NoFile]
           next(U, M) == [s EXCEPT !.at = "ingest", !.todo = U, !.gone = lost,
                                   !.moved = M, !.seen = entries(U, M)]
<1>0. new \in UNION {{next(U, M) : U \in Capped(differ \ M)} :
                       M \in Renames(fresh, lost, seen, old)}
  BY Zenon DEF Diffs
<1>1. PICK M \in Renames(fresh, lost, seen, old) :
        \E U \in Capped(differ \ M) : new = next(U, M)
  <2> HIDE DEF next, fresh, lost, seen, old, differ
  <2> QED
    BY <1>0
<1>2. PICK U \in Capped(differ \ M) : new = next(U, M)
  BY <1>1
<1>3. M \subseteq Paths /\ U \subseteq Paths /\ lost \subseteq Paths
  BY <1>1, <1>2 DEF Renames, Capped
<1>4. seen \in Files /\ entries(U, M) \in Files
  BY DEF Job, Files
<1> HIDE DEF entries, lost
<1> QED
  BY <1>2, <1>3, <1>4 DEF Job

\* Every step of a job that does not end it leaves a job of its runtime.
Working(j, new) ==
  /\ new \in Job /\ new.at # "free" /\ job[j].at # "free"
  /\ new.at = "stat" => new.held \in Texts
  /\ new.kind = job[j].kind /\ new.owner = job[j].owner
  /\ Moves(j, new)

LEMMA LoadWorks ==
  ASSUME TypeOK, NEW j \in Jobs, Load(j)
  PROVE  \E new : Working(j, new)
<1>1. saved \in Files /\ job[j] \in Job
  BY DEF TypeOK
<1>2. CASE job[j].kind = "flush"
  <2> DEFINE new == [job[j] EXCEPT !.state = saved, !.at = "ingest"]
  <2>1. new \in Job /\ new.at = "ingest" /\ new.kind = job[j].kind /\ new.owner = job[j].owner
    BY <1>1 DEF Job
  <2>2. Moves(j, new) /\ job[j].at = "load"
    BY <1>2 DEF Load, JobAt
  <2> HIDE DEF new
  <2> QED
    BY <2>1, <2>2 DEF Working
<1>3. CASE job[j].kind # "flush"
  <2> DEFINE new == [job[j] EXCEPT !.state = saved, !.at = "scan", !.todo = Paths]
  <2>1. new \in Job /\ new.at = "scan" /\ new.kind = job[j].kind /\ new.owner = job[j].owner
    BY <1>1 DEF Job
  <2>2. Moves(j, new) /\ job[j].at = "load"
    BY <1>3 DEF Load, JobAt
  <2> HIDE DEF new
  <2> QED
    BY <2>1, <2>2 DEF Working
<1> QED
  BY <1>2, <1>3

LEMMA ScanWorks ==
  ASSUME TypeOK, NEW j \in Jobs, NEW p \in Paths, Scan(j, p)
  PROVE  \E new : Working(j, new)
<1> DEFINE print   == Fingerprint(j, p)
           scanned == [job[j] EXCEPT !.todo = @ \ {p}, !.seen[p] = print]
<1>1. job[j] \in Job /\ job[j].at = "scan" /\ disk \in Files
  BY DEF TypeOK, Scan, JobAt
<1>2. job[j].state \in Files /\ job[j].seen \in Files /\ job[j].todo \subseteq Paths
  BY <1>1 DEF Job
<1>3. print \in File \union {NoFile}
  BY <1>1, <1>2 DEF Fingerprint, Files
<1> HIDE DEF print
<1>4. [job[j].seen EXCEPT ![p] = print] \in Files
  BY <1>2, <1>3 DEF Files
<1>5. /\ scanned \in Job /\ scanned.at = "scan"
      /\ scanned.kind = job[j].kind /\ scanned.owner = job[j].owner
  BY <1>1, <1>2, <1>4 DEF Job
<1>6. PICK new \in IF scanned.todo = {} THEN Diffs(scanned) ELSE {scanned} : Moves(j, new)
  BY DEF Scan, print
<1> HIDE DEF scanned
<1>7. CASE scanned.todo = {}
  <2>1. new \in Diffs(scanned)
    BY <1>6, <1>7
  <2>2. new \in Job /\ new.at = "ingest" /\ new.kind = scanned.kind /\ new.owner = scanned.owner
    BY <1>5, <2>1, DiffsAreJobs
  <2> QED
    BY <1>1, <1>5, <1>6, <2>2 DEF Working
<1>8. CASE scanned.todo # {}
  BY <1>1, <1>5, <1>6, <1>8 DEF Working
<1> QED
  BY <1>7, <1>8

LEMMA ErrsWorks ==
  ASSUME TypeOK, NEW j \in Jobs, NEW p \in Paths, job[j].at # "free", Errs(j, p)
  PROVE  \E new : Working(j, new)
<1> DEFINE new == [job[j] EXCEPT !.at = "ingest", !.todo = @ \ {p}, !.held = None]
<1>1. new \in Job /\ new.at = "ingest" /\ new.kind = job[j].kind /\ new.owner = job[j].owner
  BY DEF TypeOK, Job
<1>2. Moves(j, new)
  BY DEF Errs
<1> HIDE DEF new
<1> QED
  BY <1>1, <1>2 DEF Working

LEMMA IngestsWorks ==
  ASSUME TypeOK, NEW j \in Jobs, NEW p \in Paths, NEW text, NEW entry \in File \union {NoFile},
         job[j].at # "free", Ingests(j, p, text, entry)
  PROVE  \E new : Working(j, new)
<1> DEFINE new == [job[j] EXCEPT !.at = "ingest", !.todo = @ \ {p}, !.held = None,
                                 !.state[p] = entry]
<1>1. job[j] \in Job
  BY DEF TypeOK
<1>2. [job[j].state EXCEPT ![p] = entry] \in Files
  BY <1>1 DEF Job, Files
<1>3. new \in Job /\ new.at = "ingest" /\ new.kind = job[j].kind /\ new.owner = job[j].owner
  BY <1>1, <1>2 DEF Job
<1>4. Moves(j, new)
  BY DEF Ingests
<1> HIDE DEF new
<1> QED
  BY <1>3, <1>4 DEF Working

LEMMA ReconcileFileWorks ==
  ASSUME TypeOK, NEW j \in Jobs, NEW p \in Paths, ReconcileFile(j, p)
  PROVE  \E new : Working(j, new)
<1>1. job[j] \in Job /\ job[j].at # "free"
  BY DEF TypeOK, ReconcileFile, JobAt
<1>2. job[j].seen[p] \in File \union {NoFile}
  BY <1>1 DEF Job, Files
<1> QED
  BY <1>1, <1>2, ErrsWorks, IngestsWorks DEF ReconcileFile, IngestFails

LEMMA ReadFileWorks ==
  ASSUME TypeOK, NEW j \in Jobs, NEW p \in Paths, ReadFile(j, p)
  PROVE  \E new : Working(j, new)
<1>1. job[j] \in Job /\ job[j].at # "free"
  BY DEF TypeOK, ReadFile, JobAt
<1>2. CASE disk[p] = NoFile
  BY <1>1, <1>2, ErrsWorks DEF ReadFile
<1>3. CASE disk[p] # NoFile
  <2> DEFINE new == [job[j] EXCEPT !.at = "stat", !.held = disk[p].text]
  <2>1. disk[p].text \in Texts
    BY <1>3 DEF TypeOK, Files, File
  <2>2. /\ new \in Job /\ new.at = "stat" /\ new.held \in Texts
        /\ new.kind = job[j].kind /\ new.owner = job[j].owner
    BY <1>1, <2>1 DEF Job
  <2>3. Moves(j, new)
    BY <1>3 DEF ReadFile
  <2> HIDE DEF new
  <2> QED
    BY <1>1, <2>2, <2>3 DEF Working
<1> QED
  BY <1>2, <1>3

LEMMA FlushFileWorks ==
  ASSUME TypeOK, JobsInv,
         NEW j \in Jobs, NEW p \in Paths, FlushFile(j, p)
  PROVE  \E new : Working(j, new)
<1>1. job[j] \in Job /\ job[j].at = "stat" /\ job[j].held \in Texts
  BY DEF TypeOK, JobsInv, FlushFile, JobAt
<1>2. CASE disk[p] # NoFile
  <2>1. disk[p] \in File
    BY <1>2 DEF TypeOK, Files
  <2>2. [mtime |-> disk[p].mtime, text |-> job[j].held] \in File \union {NoFile}
    BY <1>1, <2>1 DEF File
  <2> QED
    BY <1>1, <1>2, <2>2, ErrsWorks, IngestsWorks DEF FlushFile, IngestFails
<1>3. CASE disk[p] = NoFile
  BY <1>1, <1>3, ErrsWorks DEF FlushFile
<1> QED
  BY <1>2, <1>3

LEMMA SaveWorks ==
  ASSUME TypeOK, NEW j \in Jobs, Save(j)
  PROVE  \E new : Working(j, new)
<1> DEFINE state == [p \in Paths |-> IF p \in job[j].moved THEN job[j].seen[p]
                                     ELSE IF p \in job[j].gone THEN NoFile ELSE job[j].state[p]]
           new == [job[j] EXCEPT !.at = "saving", !.state = state]
<1>1. job[j] \in Job /\ job[j].at = "ingest"
  BY DEF TypeOK, Save, JobAt
<1>2. state \in Files
  BY <1>1 DEF Job, Files
<1>3. Moves(j, new)
  BY <1>1 DEF Save, Job
<1> HIDE DEF state
<1>4. new \in Job /\ new.at = "saving" /\ new.kind = job[j].kind /\ new.owner = job[j].owner
  BY <1>1, <1>2 DEF Job
<1> HIDE DEF new
<1> QED
  BY <1>1, <1>3, <1>4 DEF Working

\* A timer that fires starts a flush.
LEMMA FlushBegins ==
  ASSUME TypeOK, JobsFit, NEW r \in Runtimes, NEW j \in Jobs, Flush(r, j)
  PROVE  JobsFit'
<1> DEFINE new == [FreeJob EXCEPT !.at = "load", !.owner = r, !.todo = up[r], !.gone = del[r]]
<1>1. up[r] \subseteq Paths /\ del[r] \subseteq Paths
  BY DEF TypeOK
<1>2. new \in Job /\ new.at = "load" /\ new.kind = "flush"
  BY <1>1, Constants DEF FreeJob, Job
<1>3. job' = [job EXCEPT ![j] = new] /\ job[j].at = "free" /\ UNCHANGED phase
  BY DEF Flush, FreePlace
<1> HIDE DEF new
<1>4. \A k \in Jobs : job'[k] = IF k = j THEN new ELSE job[k]
  BY <1>3 DEF JobsFit
<1>5. job[j].kind = "flush"
  BY <1>3 DEF JobsFit, JobsInv
<1>6. job' \in [Jobs -> Job] /\ phase' \in [Runtimes -> Phases]
  BY <1>2, <1>3 DEF JobsFit
<1>7. JobsInv'
  BY <1>2, <1>4 DEF JobsFit, JobsInv
<1>8. ReconcilesRun'
  BY <1>2, <1>3, <1>4, <1>5 DEF JobsFit, ReconcilesRun
<1> QED
  BY <1>6, <1>7, <1>8 DEF JobsFit

\* The steps that leave a job in flight, and the ones that end it.
Works(j) ==
  \/ Load(j) \/ Save(j)
  \/ \E p \in Paths : Scan(j, p) \/ ReconcileFile(j, p) \/ ReadFile(j, p) \/ FlushFile(j, p)

LEMMA WorksKeep ==
  ASSUME TypeOK, JobsFit, NEW j \in Jobs, Works(j)
  PROVE  JobsFit' /\ UNCHANGED <<diskVars, driverVars, queueVars, phase>>
<1>1. \E new : Working(j, new)
  BY LoadWorks, SaveWorks, ScanWorks, ReconcileFileWorks, ReadFileWorks, FlushFileWorks
     DEF Works, JobsFit
<1>2. UNCHANGED phase
  BY DEF Works, Load, Save, Scan, ReconcileFile, ReadFile, FlushFile
<1> QED
  BY <1>1, <1>2, JobGoesOn DEF Working, Moves

Ends(j) == FlushSaved(j) \/ ReconcileSaved(j) \/ SaveFails(j)

LEMMA EndsKeep ==
  ASSUME TypeOK, JobsFit, NEW j \in Jobs, Ends(j)
  PROVE  /\ JobsFit' /\ UNCHANGED <<diskVars, driverVars, queueVars>>
         /\ job' = [job EXCEPT ![j] = FreeJob]
         /\ \E ph \in {"over", "watching"} :
              phase' = IF job[j].kind = "flush" THEN phase
                       ELSE [phase EXCEPT ![job[j].owner] = ph]
<1>1. \E ph \in {"over", "watching"} :
        phase' = IF job[j].kind = "flush" THEN phase
                 ELSE [phase EXCEPT ![job[j].owner] = ph]
  <2>1. CASE FlushSaved(j)
    BY <2>1 DEF FlushSaved
  <2>2. CASE ReconcileSaved(j)
    <3> DEFINE ph == IF phase[job[j].owner] = "once" THEN "over" ELSE "watching"
    <3>1. job[j].kind = "reconcile"
      BY <2>2 DEF ReconcileSaved
    <3>2. phase' = [phase EXCEPT ![job[j].owner] = ph]
      BY <2>2 DEF ReconcileSaved
    <3>3. ph \in {"over", "watching"}
      OBVIOUS
    <3> QED
      BY <3>1, <3>2, <3>3
  <2>3. CASE SaveFails(j)
    BY <2>3 DEF SaveFails, Rejects
  <2> QED
    BY <2>1, <2>2, <2>3 DEF Ends
<1>2. /\ job' = [job EXCEPT ![j] = FreeJob]
      /\ UNCHANGED <<diskVars, driverVars, queueVars>>
  BY DEF Ends, FlushSaved, ReconcileSaved, SaveFails, Rejects, Moves
<1> QED
  BY <1>1, <1>2, JobEnds DEF Phases

\* Jobs and phases stay as they are, but for phases outside of a reconcile.
LEMMA PhasesKeep ==
  ASSUME JobsFit, UNCHANGED job, phase' \in [Runtimes -> Phases],
         \A r \in Runtimes : phase'[r] = phase[r] \/
           ({phase[r], phase'[r]} \intersect {"reconciling", "once"} = {})
  PROVE  JobsFit'
<1>1. \A r \in Runtimes :
        phase'[r] \in {"reconciling", "once"} <=> phase[r] \in {"reconciling", "once"}
  OBVIOUS
<1> QED
  BY <1>1 DEF JobsFit, JobsInv, ReconcilesRun

LEMMA JobsStep == TypeOK /\ JobsFit /\ [Next]_vars => JobsFit'
<1> SUFFICES ASSUME TypeOK, JobsFit, [Next]_vars
             PROVE  JobsFit'
  OBVIOUS
<1>0. phase \in [Runtimes -> Phases] /\ watcher \in 0 .. MaxStarts
  BY DEF TypeOK
<1>1. CASE UNCHANGED <<phase, job>>
  BY <1>1 DEF JobsFit, JobsInv, ReconcilesRun
<1>2. ASSUME NEW p \in Paths, NEW j \in Jobs, VanishesInScan(j, p)
      PROVE  JobsFit'
  BY <1>2, JobEnds DEF VanishesInScan, Rejects, Phases
<1>3. ASSUME NEW p \in Paths, Remove(p) \/ (\E t \in Texts : Write(p, t))
      PROVE  JobsFit'
  BY <1>1, <1>3 DEF Remove, Write
<1>4. CASE Stop
  <2>1. UNCHANGED job /\ phase' = [phase EXCEPT ![watcher] = Closing(watcher)]
    BY <1>4 DEF Stop
  <2>2. phase' \in [Runtimes -> Phases]
    BY <1>0, <2>1 DEF Closing, Phases
  <2>3. \A r \in Runtimes : phase'[r] = phase[r] \/ (phase[r] = "watching" /\ phase'[r] = "closing")
    BY <1>0, <2>1 DEF Closing
  <2> QED
    BY <2>1, <2>2, <2>3, PhasesKeep
<1>5. ASSUME NEW r \in Runtimes, StartReplaces(r)
      PROVE  JobsFit'
  <2>1. /\ phase[r] = "none" /\ UNCHANGED job
        /\ phase' = [phase EXCEPT ![watcher] = Closing(watcher), ![r] = "replacing"]
    BY <1>5 DEF StartReplaces, NextCall, Started
  <2>2. phase' \in [Runtimes -> Phases]
    BY <1>0, <2>1 DEF Closing, Phases
  <2>3. \A s \in Runtimes : \/ phase'[s] = phase[s]
                            \/ phase[s] = "watching" /\ phase'[s] = "closing"
                            \/ phase[s] = "none" /\ phase'[s] = "replacing"
    BY <1>0, <2>1 DEF Closing
  <2> QED
    BY <2>1, <2>2, <2>3, PhasesKeep
<1>6. ASSUME NEW r \in Runtimes, NEW j \in Jobs,
             StartFresh(r, j) \/ ReconcileOnce(r, j) \/ Replaced(r, j)
      PROVE  JobsFit'
  <2>1. phase[r] \in {"none", "replacing"}
    BY <1>6 DEF StartFresh, ReconcileOnce, Replaced, NextCall, Started
  <2>2. Reconciles(r, j, "reconciling") \/ Reconciles(r, j, "once")
    BY <1>6 DEF StartFresh, ReconcileOnce, Replaced
  <2> QED
    BY <2>1, <2>2, ReconcileBegins
<1>7. ASSUME NEW r \in Runtimes, CloseSettles(r)
      PROVE  JobsFit'
  <2>1. phase[r] = "closing" /\ UNCHANGED job /\ phase' = [phase EXCEPT ![r] = "over"]
    BY <1>7 DEF CloseSettles
  <2>2. phase' \in [Runtimes -> Phases]
    BY <1>0, <2>1 DEF Phases
  <2>3. \A s \in Runtimes : phase'[s] = phase[s] \/ (phase[s] = "closing" /\ phase'[s] = "over")
    BY <1>0, <2>1
  <2> QED
    BY <2>1, <2>2, <2>3, PhasesKeep
<1>8. CASE Stopped
  BY <1>1, <1>8 DEF Stopped
<1>9. CASE Crash
  <2>1. phase' \in [Runtimes -> Phases] /\ \A r \in Runtimes : phase'[r] \in {"none", "over"}
    BY <1>9 DEF Crash, Phases
  <2>2. job' = [j \in Jobs |-> FreeJob]
    BY <1>9 DEF Crash
  <2> QED
    BY <2>1, <2>2, Constants DEF JobsFit, JobsInv, ReconcilesRun
<1>10. ASSUME NEW r \in Runtimes, NEW p \in Paths, Event(r, p)
       PROVE  JobsFit'
  BY <1>1, <1>10 DEF Event
<1>11. ASSUME NEW r \in Runtimes, NEW j \in Jobs, Flush(r, j)
       PROVE  JobsFit'
  BY <1>11, FlushBegins
<1>12. ASSUME NEW j \in Jobs, JobStep(j)
       PROVE  JobsFit'
  <2>1. Works(j) \/ Ends(j)
    BY <1>12 DEF JobStep, Works, Ends
  <2> QED
    BY <2>1, WorksKeep, EndsKeep
<1> QED
  BY <1>1, <1>2, <1>3, <1>4, <1>5, <1>6, <1>7, <1>8, <1>9, <1>10, <1>11, <1>12
     DEF Next, User, Progress, Settles, Quiet, vars

-----------------------------------------------------------------------------
(* The types of the other variables.                                       *)

DataOK ==
  /\ disk \in Files /\ clock \in 0 .. MaxEdits
  /\ ingested \subseteq Texts
  /\ saved \in Files /\ mixed \in BOOLEAN
  /\ logged \subseteq Paths /\ faults \in 0 .. MaxFaults

LEMMA FileOf ==
  ASSUME TypeOK, NEW p \in Paths, disk[p] # NoFile
  PROVE  disk[p].text \in Texts
  BY DEF TypeOK, Files, File

LEMMA FaultCounts == TypeOK /\ Fault => faults' \in 0 .. MaxFaults
  BY BoundAssumption DEF TypeOK, Fault

LEMMA ChangesTypes ==
  ASSUME TypeOK, NEW p \in Paths, NEW file \in [mtime : {clock + 1}, text : Texts] \union {NoFile},
         Changes(p, file)
  PROVE  DataOK'
<1>1. clock \in Nat /\ clock < MaxEdits /\ MaxEdits \in Nat
  BY BoundAssumption DEF TypeOK, Changes
<1>2. clock + 1 \in 0 .. MaxEdits
  BY <1>1
<1>3. file \in File \union {NoFile}
  BY <1>2 DEF File
<1>4. disk' \in Files /\ clock' \in 0 .. MaxEdits
  BY <1>2, <1>3 DEF TypeOK, Changes, Files
<1> QED
  BY <1>4 DEF Changes, DataOK, TypeOK

LEMMA DataStep == TypeOK /\ JobsInv /\ [Next]_vars => DataOK'
<1> SUFFICES ASSUME TypeOK, JobsInv, [Next]_vars
             PROVE  DataOK'
  OBVIOUS
<1>1. CASE UNCHANGED <<diskVars, ingested, saved, mixed, logged, faults>>
  BY <1>1 DEF DataOK, TypeOK, diskVars
<1>2. ASSUME NEW p \in Paths,
             Remove(p) \/ (\E t \in Texts : Write(p, t)) \/ \E j \in Jobs : VanishesInScan(j, p)
      PROVE  DataOK'
  BY <1>2, ChangesTypes DEF Remove, Write, VanishesInScan
<1>3. CASE Stop \/ Stopped \/ \E r \in Runtimes : StartReplaces(r) \/ CloseSettles(r)
  BY <1>1, <1>3 DEF Stop, Stopped, StartReplaces, CloseSettles
<1>4. ASSUME NEW r \in Runtimes, NEW j \in Jobs,
             StartFresh(r, j) \/ ReconcileOnce(r, j) \/ Replaced(r, j) \/ Flush(r, j)
      PROVE  DataOK'
  BY <1>1, <1>4 DEF StartFresh, ReconcileOnce, Replaced, Flush
<1>5. CASE Crash
  BY <1>5, FaultCounts DEF Crash, DataOK, TypeOK, diskVars
<1>6. ASSUME NEW r \in Runtimes, NEW p \in Paths, Event(r, p)
      PROVE  DataOK'
  BY <1>1, <1>6 DEF Event
<1>7. ASSUME NEW j \in Jobs, JobStep(j)
      PROVE  DataOK'
  <2>1. CASE Load(j) \/ \E p \in Paths : Scan(j, p)
    BY <1>1, <2>1 DEF Load, Scan, Moves
  <2>2. ASSUME NEW p \in Paths, ReconcileFile(j, p)
        PROVE  DataOK'
    BY <2>2, FileOf, FaultCounts
       DEF ReconcileFile, Errs, Ingests, IngestFails, Moves, DataOK, TypeOK, diskVars
  <2>3. ASSUME NEW p \in Paths, ReadFile(j, p)
        PROVE  DataOK'
    BY <2>3 DEF ReadFile, Errs, Moves, DataOK, TypeOK, diskVars
  <2>4. ASSUME NEW p \in Paths, FlushFile(j, p)
        PROVE  DataOK'
    <3>1. job[j].held \in Texts
      BY <2>4 DEF JobsInv, FlushFile, JobAt
    <3> QED
      BY <2>4, <3>1, FaultCounts
         DEF FlushFile, Errs, Ingests, IngestFails, Moves, DataOK, TypeOK, diskVars
  <2>5. CASE Save(j)
    <3>1. mixed' \in BOOLEAN
      BY <2>5 DEF Save, OthersSave, TypeOK
    <3> QED
      BY <2>5, <3>1, Constants DEF Save, Moves, DataOK, TypeOK, diskVars
  <2>6. CASE FlushSaved(j) \/ ReconcileSaved(j)
    <3>1. job[j].state \in Files
      BY DEF TypeOK, Job
    <3>2. saved' \in Files
      BY <2>6, <3>1, Constants DEF FlushSaved, ReconcileSaved, Written, TypeOK
    <3>3. mixed' \in BOOLEAN
      BY <2>6 DEF FlushSaved, ReconcileSaved, Written, OthersSave, TypeOK
    <3> QED
      BY <2>6, <3>2, <3>3 DEF FlushSaved, ReconcileSaved, Moves, DataOK, TypeOK, diskVars
  <2>7. CASE SaveFails(j)
    <3>1. mixed' \in BOOLEAN
      BY <2>7 DEF SaveFails, OthersSave, TypeOK
    <3> QED
      BY <2>7, <3>1, FaultCounts DEF SaveFails, DataOK, TypeOK, diskVars
  <2> QED
    BY <1>7, <2>1, <2>2, <2>3, <2>4, <2>5, <2>6, <2>7 DEF JobStep
<1> QED
  BY <1>1, <1>2, <1>3, <1>4, <1>5, <1>6, <1>7
     DEF Next, User, Progress, Settles, Quiet, vars

QueueTypes ==
  /\ watcher \in 0 .. MaxStarts
  /\ awaits \in [0 .. MaxStarts -> 0 .. MaxStarts]
  /\ \A r \in Runtimes : phase[r] = "replacing" => awaits[r] \in Runtimes
  /\ up \in [Runtimes -> SUBSET Paths] /\ del \in [Runtimes -> SUBSET Paths]
  /\ timer \in [Runtimes -> BOOLEAN]
  /\ unseen \in [Runtimes -> SUBSET Paths]

LEMMA QueueTypesStep == TypeOK /\ JobsFit /\ [Next]_vars => QueueTypes'
<1> SUFFICES ASSUME TypeOK, JobsFit, [Next]_vars
             PROVE  QueueTypes'
  OBVIOUS
<1>0. QueueTypes /\ phase \in [Runtimes -> Phases] /\ Runtimes \subseteq 0 .. MaxStarts
        /\ 0 \notin Runtimes /\ 0 \in 0 .. MaxStarts
  BY Constants DEF TypeOK, QueueTypes
<1>1. ASSUME UNCHANGED <<driverVars, queueVars>>,
             \A r \in Runtimes : phase'[r] = "replacing" => phase[r] = "replacing"
      PROVE  QueueTypes'
  BY <1>0, <1>1 DEF QueueTypes, driverVars, queueVars
<1>2. ASSUME NEW p \in Paths, NEW file, Changes(p, file), JobsFit',
             \A r \in Runtimes : phase'[r] = "replacing" => phase[r] = "replacing"
      PROVE  QueueTypes'
  BY <1>0, <1>2 DEF Changes, QueueTypes, driverVars
<1>3. ASSUME NEW p \in Paths,
             Remove(p) \/ (\E t \in Texts : Write(p, t)) \/ \E j \in Jobs : VanishesInScan(j, p)
      PROVE  QueueTypes'
  <2>1. \A r \in Runtimes : phase'[r] = "replacing" => phase[r] = "replacing"
    BY <1>0, <1>3 DEF Remove, Write, VanishesInScan, Rejects
  <2> QED
    BY <1>2, <1>3, <2>1, JobsStep DEF Remove, Write, VanishesInScan
<1>4. CASE Stop
  BY <1>0, <1>4 DEF Stop, Closes, Closing, QueueTypes
<1>5. CASE Stopped
  BY <1>0, <1>5 DEF Stopped, QueueTypes, queueVars
<1>6. ASSUME NEW r \in Runtimes, StartReplaces(r)
      PROVE  QueueTypes'
  <2>1. watcher \in Runtimes
    BY <1>0, <1>6 DEF StartReplaces, QueueTypes, Runtimes
  <2>2. awaits' \in [0 .. MaxStarts -> 0 .. MaxStarts]
    BY <1>0, <1>6 DEF StartReplaces, QueueTypes
  <2>3. \A s \in Runtimes : phase'[s] = "replacing" => awaits'[s] \in Runtimes
    BY <1>0, <1>6, <2>1 DEF StartReplaces, Closing, QueueTypes
  <2>4. timer' \in [Runtimes -> BOOLEAN] /\ unseen' \in [Runtimes -> SUBSET Paths]
    BY <1>0, <1>6 DEF StartReplaces, Closes, QueueTypes
  <2> QED
    BY <1>0, <1>6, <2>2, <2>3, <2>4 DEF StartReplaces, QueueTypes
<1>7. ASSUME NEW r \in Runtimes, NEW j \in Jobs, StartFresh(r, j) \/ Replaced(r, j)
      PROVE  QueueTypes'
  <2>1. /\ watcher' = r /\ UNCHANGED <<up, del, timer, unseen>>
        /\ awaits' = awaits \/ awaits' = [awaits EXCEPT ![r] = 0]
        /\ phase' = [phase EXCEPT ![r] = "reconciling"]
        /\ \A s \in Runtimes \ {r} : awaits'[s] = awaits[s]
    BY <1>0, <1>7 DEF StartFresh, Replaced, Reconciles, QueueTypes, queueVars
  <2>2. awaits' \in [0 .. MaxStarts -> 0 .. MaxStarts]
    BY <1>0, <2>1 DEF QueueTypes
  <2>3. \A s \in Runtimes : phase'[s] = "replacing" => awaits'[s] \in Runtimes
    BY <1>0, <2>1 DEF QueueTypes
  <2> QED
    BY <1>0, <2>1, <2>2, <2>3 DEF QueueTypes
<1>8. ASSUME NEW r \in Runtimes, NEW j \in Jobs, ReconcileOnce(r, j)
      PROVE  QueueTypes'
  BY <1>0, <1>1, <1>8 DEF ReconcileOnce, Reconciles
<1>9. ASSUME NEW r \in Runtimes, CloseSettles(r)
      PROVE  QueueTypes'
  BY <1>0, <1>1, <1>9 DEF CloseSettles
<1>10. CASE Crash
  BY <1>0, <1>10 DEF Crash, QueueTypes
<1>11. ASSUME NEW r \in Runtimes, NEW p \in Paths, Event(r, p)
       PROVE  QueueTypes'
  BY <1>0, <1>11 DEF Event, QueueTypes, driverVars
<1>12. ASSUME NEW r \in Runtimes, NEW j \in Jobs, Flush(r, j)
       PROVE  QueueTypes'
  BY <1>0, <1>12 DEF Flush, QueueTypes, driverVars
<1>13. ASSUME NEW j \in Jobs, JobStep(j)
       PROVE  QueueTypes'
  <2>1. CASE Works(j)
    BY <1>1, <2>1, WorksKeep
  <2>2. CASE Ends(j)
    BY <1>0, <1>1, <2>2, EndsKeep
  <2> QED
    BY <1>13, <2>1, <2>2 DEF JobStep, Works, Ends
<1>14. CASE UNCHANGED vars
  BY <1>1, <1>14 DEF vars
<1> QED
  BY <1>3, <1>4, <1>5, <1>6, <1>7, <1>8, <1>9, <1>10, <1>11, <1>12, <1>13, <1>14
     DEF Next, User, Progress, Settles, Quiet

-----------------------------------------------------------------------------
(* Queues and timers.                                                      *)

Fresh == {"none", "replacing", "reconciling", "once"}

\* Phases move without harm from one that has an empty queue, or from one that
\* does not watch to one that will not.
PhasesMove ==
  \A r \in Runtimes : \/ phase'[r] = phase[r]
                      \/ phase[r] \in Fresh
                      \/ phase[r] # "watching" /\ phase'[r] \notin Fresh \union {"watching"}

LEMMA QueuesKeep ==
  ASSUME QueuesInv, PhasesMove, UNCHANGED <<disk, queueVars>>
  PROVE  QueuesInv'
<1>1. UNCHANGED <<disk, up, del, timer, unseen>>
  BY DEF queueVars
<1>2. TimerInv' /\ FreshInv'
  BY <1>1 DEF QueuesInv, TimerInv, FreshInv, Fresh, PhasesMove
<1>3. NothingStranded' /\ QueueIsCurrent'
  BY <1>1 DEF QueuesInv, NothingStranded, QueueIsCurrent, FreshInv, Fresh, PhasesMove
<1> QED
  BY <1>2, <1>3 DEF QueuesInv

\* A change on disk is unseen by every runtime that watches.
LEMMA ChangesKeepQueues ==
  ASSUME TypeOK, QueuesInv, NEW p \in Paths, NEW file, Changes(p, file),
         \A r \in Runtimes : phase'[r] = phase[r] \/
           (phase[r] \in {"reconciling", "once"} /\ phase'[r] = "over")
  PROVE  QueuesInv'
<1>1. /\ UNCHANGED <<up, del, timer>>
      /\ \A q \in Paths \ {p} : disk'[q] = disk[q]
      /\ \A r \in Runtimes : phase[r] = "watching" => unseen'[r] = unseen[r] \union {p}
  BY DEF Changes, TypeOK, Files
<1>2. TimerInv' /\ FreshInv' /\ NothingStranded'
  BY <1>1 DEF QueuesInv, TimerInv, FreshInv, NothingStranded
<1>3. QueueIsCurrent'
  BY <1>1 DEF QueuesInv, QueueIsCurrent
<1> QED
  BY <1>2, <1>3 DEF QueuesInv

\* A runtime that is stopped watches no more and has no timer.
LEMMA ClosesKeepQueues ==
  ASSUME TypeOK, QueuesInv, NEW r \in 0 .. MaxStarts, Closes(r), UNCHANGED <<disk, up, del>>,
         \A s \in Runtimes :
           \/ phase'[s] = IF s = r THEN Closing(s) ELSE phase[s]
           \/ phase[s] = "none" /\ phase'[s] = "replacing"
  PROVE  QueuesInv'
<1>1. \A s \in Runtimes : /\ timer'[s] = IF s = r THEN FALSE ELSE timer[s]
                          /\ s # r => unseen'[s] = unseen[s]
                          /\ s = r => phase'[s] # "watching"
  BY DEF Closes, TypeOK, Closing
<1>2. TimerInv' /\ FreshInv'
  BY <1>1 DEF QueuesInv, TimerInv, FreshInv, Closing
<1>3. NothingStranded' /\ QueueIsCurrent'
  BY <1>1 DEF QueuesInv, NothingStranded, QueueIsCurrent
<1> QED
  BY <1>2, <1>3 DEF QueuesInv

LEMMA EventKeepsQueues ==
  ASSUME TypeOK, QueuesInv, NEW r \in Runtimes, NEW p \in Paths, Event(r, p)
  PROVE  QueuesInv'
<1>1. /\ phase[r] = "watching" /\ UNCHANGED <<disk, phase>>
      /\ \A s \in Runtimes \ {r} : /\ up'[s] = up[s] /\ del'[s] = del[s]
                                   /\ timer'[s] = timer[s] /\ unseen'[s] = unseen[s]
      /\ timer'[r] = TRUE /\ unseen'[r] = unseen[r] \ {p}
      /\ disk[p] = NoFile => up'[r] = up[r] \ {p} /\ del'[r] = del[r] \union {p}
      /\ disk[p] # NoFile => up'[r] = up[r] \union {p} /\ del'[r] = del[r] \ {p}
  BY DEF Event, TypeOK, diskVars
<1>2. TimerInv' /\ FreshInv' /\ NothingStranded'
  BY <1>1 DEF QueuesInv, TimerInv, FreshInv, NothingStranded
<1>3. QueueIsCurrent'
  BY <1>1 DEF QueuesInv, QueueIsCurrent
<1> QED
  BY <1>2, <1>3 DEF QueuesInv

LEMMA FlushKeepsQueues ==
  ASSUME TypeOK, QueuesInv, NEW r \in Runtimes, NEW j \in Jobs, Flush(r, j)
  PROVE  QueuesInv'
<1>1. /\ UNCHANGED <<disk, phase, unseen>>
      /\ \A s \in Runtimes \ {r} : /\ up'[s] = up[s] /\ del'[s] = del[s]
                                   /\ timer'[s] = timer[s]
      /\ timer'[r] = FALSE /\ up'[r] = {} /\ del'[r] = {}
  BY DEF Flush, TypeOK, diskVars
<1> QED
  BY <1>1 DEF QueuesInv, TimerInv, FreshInv, NothingStranded, QueueIsCurrent

LEMMA QueuesStep == IInv /\ [Next]_vars => QueuesInv'
<1> SUFFICES ASSUME TypeOK, JobsInv, QueuesInv, [Next]_vars
             PROVE  QueuesInv'
  BY DEF IInv
<1>0. JobsFit /\ phase \in [Runtimes -> Phases] /\ watcher \in 0 .. MaxStarts
  BY DEF TypeOK, JobsFit
<1>1. ASSUME NEW j \in Jobs, NEW ph \in {"over", "watching"},
             phase' = IF job[j].kind = "flush" THEN phase
                      ELSE [phase EXCEPT ![job[j].owner] = ph]
      PROVE  \A r \in Runtimes : phase'[r] = phase[r] \/
               (phase[r] \in {"reconciling", "once"} /\ phase'[r] = ph)
  <2>1. job[j].kind \in {"flush", "reconcile"}
    BY DEF TypeOK, Job
  <2>2. job[j].kind = "reconcile" =>
          job[j].owner \in Runtimes /\ phase[job[j].owner] \in {"reconciling", "once"}
    BY <1>0 DEF JobsFit, JobsInv, ReconcilesRun
  <2> QED
    BY <1>0, <1>1, <2>1, <2>2
<1>2. ASSUME NEW p \in Paths, Remove(p) \/ \E t \in Texts : Write(p, t)
      PROVE  QueuesInv'
  BY <1>2, ChangesKeepQueues DEF Remove, Write
<1>3. ASSUME NEW p \in Paths, NEW j \in Jobs, VanishesInScan(j, p)
      PROVE  QueuesInv'
  BY <1>1, <1>3, ChangesKeepQueues DEF VanishesInScan, Rejects
<1>4. CASE Stop
  BY <1>0, <1>4, ClosesKeepQueues DEF Stop, diskVars
<1>5. ASSUME NEW r \in Runtimes, StartReplaces(r)
      PROVE  QueuesInv'
  <2>1. \A s \in Runtimes :
          \/ phase'[s] = IF s = watcher THEN Closing(s) ELSE phase[s]
          \/ phase[s] = "none" /\ phase'[s] = "replacing"
    BY <1>0, <1>5 DEF StartReplaces, NextCall, Started
  <2> QED
    BY <1>0, <1>5, <2>1, ClosesKeepQueues DEF StartReplaces, diskVars
<1>6. ASSUME NEW r \in Runtimes, NEW j \in Jobs,
             StartFresh(r, j) \/ ReconcileOnce(r, j) \/ Replaced(r, j)
      PROVE  QueuesInv'
  <2>1. phase[r] \in Fresh
    BY <1>6 DEF StartFresh, ReconcileOnce, Replaced, NextCall, Started, Fresh
  <2>2. PhasesMove
    BY <1>0, <1>6, <2>1 DEF StartFresh, ReconcileOnce, Replaced, Reconciles, PhasesMove
  <2> QED
    BY <1>6, <2>2, QueuesKeep DEF StartFresh, ReconcileOnce, Replaced, diskVars
<1>7. ASSUME NEW r \in Runtimes, CloseSettles(r)
      PROVE  QueuesInv'
  <2>1. PhasesMove
    BY <1>0, <1>7 DEF CloseSettles, PhasesMove, Fresh
  <2> QED
    BY <1>7, <2>1, QueuesKeep DEF CloseSettles, diskVars
<1>8. CASE Stopped \/ UNCHANGED vars
  BY <1>8, QueuesKeep DEF Stopped, PhasesMove, diskVars, vars
<1>9. CASE Crash
  BY <1>9 DEF Crash, QueuesInv, TimerInv, FreshInv, NothingStranded, QueueIsCurrent
<1>10. ASSUME NEW j \in Jobs, JobStep(j)
       PROVE  QueuesInv'
  <2>1. CASE Works(j)
    BY <1>0, <2>1, WorksKeep, QueuesKeep DEF PhasesMove, diskVars
  <2>2. CASE Ends(j)
    <3>1. PhasesMove
      BY <1>0, <1>1, <2>2, EndsKeep DEF PhasesMove, Fresh
    <3> QED
      BY <1>0, <2>2, <3>1, EndsKeep, QueuesKeep DEF diskVars
  <2> QED
    BY <1>10, <2>1, <2>2 DEF JobStep, Works, Ends
<1> QED
  BY <1>2, <1>3, <1>4, <1>5, <1>6, <1>7, <1>8, <1>9, <1>10, EventKeepsQueues, FlushKeepsQueues
     DEF Next, User, Progress, Settles, Quiet

-----------------------------------------------------------------------------
(* The theorems.                                                           *)

LEMMA InitInv == Init => IInv
<1> SUFFICES ASSUME Init PROVE IInv
  OBVIOUS
<1>1. \A p \in Paths : First[p] \in Texts \union {None}
  BY FirstAssumption
<1>2. 0 \in 0 .. MaxEdits /\ 0 \in 0 .. MaxFaults
  BY BoundAssumption
<1>3. disk \in Files
  BY <1>1, <1>2 DEF Init, Files, File, NoFile
<1>4. JobsInv /\ ReconcilesRun /\ QueuesInv
  BY Constants DEF Init, JobsInv, ReconcilesRun, QueuesInv, TimerInv, FreshInv,
                   NothingStranded, QueueIsCurrent
<1>5. TypeOK
  BY <1>2, <1>3, <1>4, Constants DEF Init, TypeOK, Phases
<1> QED
  BY <1>4, <1>5 DEF IInv

LEMMA StepInv == IInv /\ [Next]_vars => IInv'
<1> SUFFICES ASSUME IInv, [Next]_vars PROVE IInv'
  OBVIOUS
<1>1. TypeOK /\ JobsInv /\ JobsFit
  BY DEF IInv, TypeOK, JobsFit
<1>2. JobsFit' /\ DataOK' /\ QueueTypes'
  BY <1>1, JobsStep, DataStep, QueueTypesStep
<1>3. TypeOK'
  BY <1>2 DEF TypeOK, JobsFit, DataOK, QueueTypes
<1> QED
  BY <1>2, <1>3, QueuesStep DEF IInv, JobsFit

LEMMA IInvInvariant == Spec => []IInv
  BY InitInv, StepInv, PTL DEF Spec

\* Every variable keeps its type, and a runtime reconciles exactly as long as
\* one job does it for the runtime.
THEOREM TypesHold == Spec => []TypeOK
<1>1. IInv => TypeOK
  BY DEF IInv
<1> QED
  BY <1>1, IInvInvariant, PTL

\* However flushes, reconciles and stops of any number of runtimes overlap, no
\* queued event of a runtime that watches is left without a timer.
THEOREM NothingIsStranded == Spec => []NothingStranded
<1>1. IInv => NothingStranded
  BY DEF IInv, QueuesInv
<1> QED
  BY <1>1, IInvInvariant, PTL

\* Whatever changes follow each other, the queue holds the last one reported.
THEOREM QueueStaysCurrent == Spec => []QueueIsCurrent
<1>1. IInv => QueueIsCurrent
  BY DEF IInv, QueuesInv
<1> QED
  BY <1>1, IInvInvariant, PTL

\* Flush is the only step that takes a free place for a flush.
LEMMA OnlyFlushBegins ==
  ASSUME IInv, [Next]_vars, NEW j \in Jobs,
         job[j].at = "free", job'[j].at # "free", job'[j].kind = "flush"
  PROVE  phase[job'[j].owner] = "watching"
<1>0. TypeOK /\ JobsFit /\ job \in [Jobs -> Job]
  BY DEF IInv, TypeOK, JobsFit
<1>1. job'[j] # job[j]
  OBVIOUS
<1>2. ASSUME NEW r \in Runtimes, NEW k \in Jobs, Flush(r, k)
      PROVE  phase[job'[j].owner] = "watching"
  <2>1. k = j /\ job'[j].owner = r
    BY <1>0, <1>1, <1>2 DEF Flush, FreeJob
  <2>2. timer[r]
    BY <1>2 DEF Flush
  <2> QED
    BY <2>1, <2>2 DEF IInv, QueuesInv, TimerInv
<1>3. ASSUME NEW r \in Runtimes, NEW k \in Jobs, NEW ph, Reconciles(r, k, ph)
      PROVE  FALSE
  BY <1>0, <1>1, <1>3 DEF Reconciles, FreeJob
<1>4. ASSUME NEW k \in Jobs, job' = [job EXCEPT ![k] = FreeJob]
      PROVE  FALSE
  BY <1>0, <1>1, <1>4, Constants
<1>5. ASSUME NEW k \in Jobs, Works(k)
      PROVE  FALSE
  <2>1. PICK new : Working(k, new)
    BY <1>0, <1>5, LoadWorks, SaveWorks, ScanWorks, ReconcileFileWorks, ReadFileWorks,
       FlushFileWorks DEF Works, JobsFit
  <2> QED
    BY <1>0, <1>1, <2>1 DEF Working, Moves
<1>6. ASSUME NEW k \in Jobs, JobStep(k)
      PROVE  FALSE
  <2>1. Works(k) \/ Ends(k)
    BY <1>6 DEF JobStep, Works, Ends
  <2>2. ASSUME Ends(k) PROVE FALSE
    BY <1>0, <1>4, <2>2, EndsKeep
  <2> QED
    BY <1>5, <2>1, <2>2
<1>7. ASSUME NEW p \in Paths, NEW k \in Jobs, VanishesInScan(k, p)
      PROVE  FALSE
  BY <1>4, <1>7 DEF VanishesInScan, Rejects
<1>8. ASSUME NEW r \in Runtimes, NEW k \in Jobs,
             StartFresh(r, k) \/ ReconcileOnce(r, k) \/ Replaced(r, k)
      PROVE  FALSE
  BY <1>3, <1>8 DEF StartFresh, ReconcileOnce, Replaced
<1>9. ~Crash
  BY Constants DEF Crash
<1>10. ~UNCHANGED job
  BY <1>1
<1> QED
  BY <1>2, <1>6, <1>7, <1>8, <1>9, <1>10
     DEF Next, User, Progress, Settles, Quiet, vars, Remove, Write, Stop, StartReplaces,
         Stopped, CloseSettles, Event

\* For any number of runtimes, no flush begins on one that is being stopped or
\* was stopped, or that was never watching.
THEOREM StopsAreQuiet == Spec => StoppedIsQuiet
<1> DEFINE Step == \A j \in Jobs :
             job[j].at = "free" /\ job'[j].at # "free" /\ job'[j].kind = "flush"
               => phase[job'[j].owner] = "watching"
<1>1. IInv /\ [Next]_vars => [Step]_vars
  BY OnlyFlushBegins
<1>2. Spec => [][Step]_vars
  BY <1>1, IInvInvariant, PTL DEF Spec
<1> QED
  BY <1>2 DEF StoppedIsQuiet

-----------------------------------------------------------------------------
(* No reported change is dropped.                                          *)

\* Job x is a flush of runtime r that still has path p before it; if it has
\* read the path already, it holds what the file has.
Carries(x, r, p, file) ==
  /\ x.at \in {"load", "ingest", "stat"} /\ x.kind = "flush"
  /\ x.owner = r /\ p \in x.todo
  /\ x.at = "stat" /\ p = NextPath(x.todo) => x.held = file.text

\* Path p is still to be ingested for runtime r: unreported, queued, or in a flush.
Covered(r, p) ==
  \/ p \in unseen[r] \union up[r]
  \/ \E j \in Jobs : Carries(job[j], r, p, disk[p])

Watches(r) == phase[r] = "watching"

\* A step that drops the path dealt with it: what the file holds has been
\* ingested, there is no file, or the step logs an error of the path.
DealtWith(r, p) ==
  Watches(r) /\ Watches(r)' /\ Covered(r, p) /\ ~Covered(r, p)' =>
    disk'[p].text \in ingested' \union {None} \/ \E j \in Jobs : Errs(j, p)

\* A job that goes on, or another one, carries the path as before.
LEMMA StaysCovered ==
  ASSUME job \in [Jobs -> Job], NEW r \in Runtimes, NEW p \in Paths, Covered(r, p),
         NEW k \in Jobs, NEW new, job' = [job EXCEPT ![k] = new],
         Carries(job[k], r, p, disk[p]) => Carries(new, r, p, disk[p]),
         disk'[p] = disk[p],
         p \in unseen[r] \union up[r] => p \in unseen'[r] \union up'[r]
  PROVE  Covered(r, p)'
<1>1. CASE p \in unseen[r] \union up[r]
  BY <1>1 DEF Covered
<1>2. ASSUME NEW j \in Jobs, Carries(job[j], r, p, disk[p]) PROVE Covered(r, p)'
  <2>1. Carries(job'[j], r, p, disk'[p])
    BY <1>2
  <2> QED
    BY <2>1 DEF Covered
<1> QED
  BY <1>1, <1>2 DEF Covered

\* A flush drops a path only when it ingests it or logs an error.
LEMMA WorksDeal ==
  ASSUME IInv, NEW r \in Runtimes, NEW p \in Paths, NEW k \in Jobs, Works(k)
  PROVE  DealtWith(r, p)
<1> SUFFICES ASSUME Covered(r, p), ~Covered(r, p)'
             PROVE  disk'[p].text \in ingested' \union {None} \/ \E j \in Jobs : Errs(j, p)
  BY DEF DealtWith
<1>0. /\ TypeOK /\ job \in [Jobs -> Job] /\ job[k] \in Job
      /\ disk' = disk /\ unseen' = unseen /\ up' = up
  <2>1. TypeOK /\ JobsFit
    BY DEF IInv, TypeOK, JobsFit
  <2> QED
    BY <2>1, WorksKeep DEF TypeOK, diskVars, queueVars
<1>1. ASSUME NEW new, job' = [job EXCEPT ![k] = new],
             Carries(job[k], r, p, disk[p]) => Carries(new, r, p, disk[p])
      PROVE  FALSE
  BY <1>0, <1>1, StaysCovered
<1>2. CASE Load(k)
  <2>1. CASE job[k].kind = "flush"
    <3> DEFINE new == [job[k] EXCEPT !.state = saved, !.at = "ingest"]
    <3>1. job' = [job EXCEPT ![k] = new]
      BY <1>2, <2>1 DEF Load, Moves
    <3>2. Carries(job[k], r, p, disk[p]) => Carries(new, r, p, disk[p])
      BY <1>0 DEF Carries, Job
    <3> QED
      BY <1>1, <3>1, <3>2
  <2>2. CASE job[k].kind # "flush"
    <3>1. \E new : job' = [job EXCEPT ![k] = new]
      BY <1>2, <2>2 DEF Load, Moves
    <3> QED
      BY <1>1, <2>2, <3>1 DEF Carries
  <2> QED
    BY <2>1, <2>2
<1>3. CASE Save(k)
  <2>1. \E new : job' = [job EXCEPT ![k] = new]
    BY <1>0, <1>3, SaveWorks DEF Working, Moves
  <2> QED
    BY <1>1, <1>3, <2>1 DEF Save, Carries
<1>4. ASSUME NEW q \in Paths, Scan(k, q) PROVE FALSE
  <2>1. \E new : job' = [job EXCEPT ![k] = new]
    BY <1>4 DEF Scan, Moves
  <2> QED
    BY <1>1, <1>4, <2>1 DEF Scan, JobAt, Carries
<1>5. ASSUME NEW q \in Paths, ReconcileFile(k, q) PROVE FALSE
  <2>1. \E new : job' = [job EXCEPT ![k] = new]
    BY <1>5 DEF ReconcileFile, Errs, Ingests, IngestFails, Moves
  <2> QED
    BY <1>1, <1>5, <2>1 DEF ReconcileFile, Carries
<1>6. ASSUME NEW q \in Paths, Errs(k, q) PROVE \E j \in Jobs : Errs(j, p)
  <2> DEFINE new == [job[k] EXCEPT !.at = "ingest", !.todo = @ \ {q}, !.held = None]
  <2>1. job' = [job EXCEPT ![k] = new]
    BY <1>6 DEF Errs, Moves
  <2>2. q # p => (Carries(job[k], r, p, disk[p]) => Carries(new, r, p, disk[p]))
    BY <1>0 DEF Carries, Job
  <2> HIDE DEF new
  <2>3. q = p
    BY <1>1, <2>1, <2>2
  <2> QED
    BY <1>6, <2>3
<1>7. ASSUME NEW q \in Paths, ReadFile(k, q) PROVE \E j \in Jobs : Errs(j, p)
  <2>1. CASE disk[q] = NoFile
    BY <1>6, <1>7, <2>1 DEF ReadFile
  <2>2. CASE disk[q] # NoFile
    <3> DEFINE new == [job[k] EXCEPT !.at = "stat", !.held = disk[q].text]
    <3>1. job' = [job EXCEPT ![k] = new] /\ q = NextPath(job[k].todo)
      BY <1>7, <2>2 DEF ReadFile, Moves
    <3>2. Carries(job[k], r, p, disk[p]) => Carries(new, r, p, disk[p])
      BY <1>0, <3>1 DEF Carries, Job
    <3> QED
      BY <1>1, <3>1, <3>2
  <2> QED
    BY <2>1, <2>2
<1>8. ASSUME NEW q \in Paths, FlushFile(k, q)
      PROVE  disk'[p].text \in ingested' \union {None} \/ \E j \in Jobs : Errs(j, p)
  <2>1. CASE Errs(k, q)
    BY <1>6, <2>1
  <2>2. ASSUME NEW entry, Ingests(k, q, job[k].held, entry)
        PROVE  disk'[p].text \in ingested'
    <3> DEFINE new == [job[k] EXCEPT !.at = "ingest", !.todo = @ \ {q}, !.held = None,
                                     !.state[q] = entry]
    <3>1. job' = [job EXCEPT ![k] = new] /\ job[k].held \in ingested'
      BY <2>2 DEF Ingests, Moves
    <3>2. q # p => (Carries(job[k], r, p, disk[p]) => Carries(new, r, p, disk[p]))
      BY <1>0 DEF Carries, Job
    <3> HIDE DEF new
    <3>3. q = p /\ Carries(job[k], r, p, disk[p])
      BY <1>1, <3>1, <3>2
    <3>4. job[k].held = disk[p].text
      BY <1>8, <3>3 DEF FlushFile, JobAt, Carries
    <3> QED
      BY <1>0, <3>1, <3>4
  <2> QED
    BY <1>8, <2>1, <2>2 DEF FlushFile, IngestFails
<1> QED
  BY <1>2, <1>3, <1>4, <1>5, <1>7, <1>8 DEF Works

LEMMA StepDeals ==
  ASSUME IInv, [Next]_vars, NEW r \in Runtimes, NEW p \in Paths
  PROVE  DealtWith(r, p)
<1> SUFFICES ASSUME Watches(r), Watches(r)', Covered(r, p), ~Covered(r, p)'
             PROVE  disk'[p].text \in ingested' \union {None} \/ \E j \in Jobs : Errs(j, p)
  BY DEF DealtWith
<1>0. /\ TypeOK /\ JobsFit /\ job \in [Jobs -> Job]
      /\ phase[r] = "watching" /\ phase'[r] = "watching"
  BY DEF IInv, TypeOK, JobsFit, Watches
<1>1. ASSUME job' = job, disk'[p] = disk[p],
             p \in unseen[r] \union up[r] => p \in unseen'[r] \union up'[r]
      PROVE  FALSE
  BY <1>1 DEF Covered
<1>2. ASSUME NEW k \in Jobs, NEW new, job' = [job EXCEPT ![k] = new],
             job[k].at \notin {"load", "ingest", "stat"}, disk'[p] = disk[p],
             p \in unseen[r] \union up[r] => p \in unseen'[r] \union up'[r]
      PROVE  FALSE
  BY <1>0, <1>2, StaysCovered DEF Carries
<1>3. ASSUME NEW q \in Paths, NEW file, Changes(q, file)
      PROVE  disk'[p] = disk[p] /\ unseen[r] \union up[r] \subseteq unseen'[r] \union up'[r]
  <2>1. unseen'[r] = unseen[r] \union {q} /\ up' = up
    BY <1>0, <1>3 DEF Changes
  <2>2. p # q
    BY <2>1 DEF Covered
  <2> QED
    BY <1>0, <1>3, <2>1, <2>2 DEF Changes, TypeOK, Files
<1>4. ASSUME NEW q \in Paths, Remove(q) \/ \E t \in Texts : Write(q, t) PROVE FALSE
  BY <1>1, <1>3, <1>4 DEF Remove, Write
<1>5. ASSUME NEW q \in Paths, NEW k \in Jobs, VanishesInScan(k, q) PROVE FALSE
  BY <1>2, <1>3, <1>5 DEF VanishesInScan, Rejects, JobAt
<1>6. ASSUME NEW w \in 0 .. MaxStarts, Closes(w), UNCHANGED <<disk, up, job>>,
             w = r => phase'[r] = Closing(r)
      PROVE  FALSE
  <2>1. w # r
    BY <1>0, <1>6 DEF Closing
  <2> QED
    BY <1>0, <1>1, <1>6, <2>1 DEF Closes, TypeOK
<1>7. CASE Stop
  BY <1>0, <1>6, <1>7 DEF Stop, TypeOK, diskVars
<1>8. ASSUME NEW s \in Runtimes, StartReplaces(s) PROVE FALSE
  <2>1. s # r
    BY <1>0, <1>8 DEF StartReplaces, NextCall, Started
  <2> QED
    BY <1>0, <1>6, <1>8, <2>1 DEF StartReplaces, TypeOK, diskVars
<1>9. ASSUME NEW s \in Runtimes, NEW k \in Jobs,
             StartFresh(s, k) \/ ReconcileOnce(s, k) \/ Replaced(s, k)
      PROVE  FALSE
  BY <1>2, <1>9 DEF StartFresh, ReconcileOnce, Replaced, Reconciles, FreePlace, diskVars, queueVars
<1>10. CASE Stopped \/ (\E s \in Runtimes : CloseSettles(s)) \/ UNCHANGED vars
  BY <1>1, <1>10 DEF Stopped, CloseSettles, vars, diskVars, queueVars
<1>11. CASE Crash
  BY <1>0, <1>11 DEF Crash
<1>12. ASSUME NEW s \in Runtimes, NEW q \in Paths, Event(s, q)
       PROVE  disk'[p].text = None
  <2>1. s = r /\ q = p
    BY <1>0, <1>1, <1>12 DEF Event, TypeOK, diskVars
  <2>2. disk[p] = NoFile /\ disk' = disk
    BY <1>0, <1>12, <2>1 DEF Event, Covered, TypeOK, diskVars
  <2> QED
    BY <2>2 DEF NoFile
<1>13. ASSUME NEW s \in Runtimes, NEW k \in Jobs, Flush(s, k) PROVE FALSE
  <2> DEFINE new == [FreeJob EXCEPT !.at = "load", !.owner = s, !.todo = up[s], !.gone = del[s]]
  <2>1. /\ job' = [job EXCEPT ![k] = new] /\ job[k].at = "free"
        /\ disk' = disk /\ unseen' = unseen
        /\ s # r => up'[r] = up[r]
    BY <1>0, <1>13 DEF Flush, FreePlace, diskVars, TypeOK
  <2>2. new.at = "load" /\ new.kind = "flush" /\ new.owner = s /\ new.todo = up[s]
    BY DEF FreeJob
  <2> HIDE DEF new
  <2>3. s = r /\ p \in up[r] /\ p \notin unseen[r]
    <3>1. CASE s # r
      BY <1>2, <2>1, <3>1
    <3>2. CASE p \notin up[r] \/ p \in unseen[r]
      BY <1>2, <2>1, <3>2
    <3> QED
      BY <3>1, <3>2
  <2>4. Carries(job'[k], r, p, disk'[p])
    BY <1>0, <2>1, <2>2, <2>3 DEF Carries
  <2> QED
    BY <2>4 DEF Covered
<1>14. ASSUME NEW k \in Jobs, JobStep(k)
       PROVE  disk'[p].text \in ingested' \union {None} \/ \E j \in Jobs : Errs(j, p)
  <2>1. CASE Works(k)
    BY <2>1, WorksDeal DEF DealtWith
  <2>2. CASE Ends(k)
    <3>1. job[k].at = "saving"
      BY <2>2 DEF Ends, FlushSaved, ReconcileSaved, SaveFails, JobAt
    <3> QED
      BY <1>0, <1>2, <2>2, <3>1, EndsKeep DEF diskVars, queueVars
  <2> QED
    BY <1>14, <2>1, <2>2 DEF JobStep, Works, Ends
<1> QED
  BY <1>4, <1>5, <1>7, <1>8, <1>9, <1>10, <1>11, <1>12, <1>13, <1>14
     DEF Next, User, Progress, Settles, Quiet

\* The safety half of EventsArePushed, for any number of runtimes, flushes and
\* edits: a change noticed by a runtime that goes on watching stays queued or in
\* a flush until a step ingests what the file holds by then or logs an error of
\* its path; a flush that read the file before an edit does not count.
THEOREM NothingIsDropped == Spec => [][\A r \in Runtimes, p \in Paths : DealtWith(r, p)]_vars
<1> DEFINE Step == \A r \in Runtimes, p \in Paths : DealtWith(r, p)
<1>1. IInv /\ [Next]_vars => [Step]_vars
  BY StepDeals
<1> QED
  BY <1>1, IInvInvariant, PTL DEF Spec
=============================================================================
