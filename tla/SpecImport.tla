----------------------------- MODULE SpecImport -----------------------------
(***************************************************************************)
(* The specification imports of a REST process (spec_import_engine.py):    *)
(* the job records it keeps in memory, the task that drives a job, and the *)
(* work itself, done either by a Node process (rest-spec-import-worker.ts, *)
(* whose incremental mode commits the project, the revision and each class *)
(* by itself) or by an adapter of the REST process (import_source_pipeline *)
(* .py, which stores project, revision and source one after the other).    *)
(*                                                                         *)
(* The engine's tasks share one event loop and no task holds _jobs_lock    *)
(* across an await, so what a task does between two awaits is one step.    *)
(* The jobs of the Node worker import one document into one revision; each *)
(* adapter job has a project of its own.  Progress snapshots of a running  *)
(* job change nothing here and are left out.                               *)
(* Specification and type invariant have names of their own, as one module *)
(* proves about this one and SchemaMerge (RevisionContentsProofs).         *)
(***************************************************************************)
EXTENDS Naturals, FiniteSets

CONSTANTS Jobs,
          Classes,     \* the classes of the document
          Paths,       \* its paths and security schemes
          MaxRestarts, \* bound: restarts of the REST process
          None

ASSUME NoneAssumption == None \notin Jobs /\ Paths \notin Classes
ASSUME RestartsAssumption == MaxRestarts \in Nat

VARIABLES
  kind,     \* per job: what was asked for
  rec,      \* per job: what the REST process remembers of it
  drive,    \* per job: where its task is
  worker,   \* per job: its Node process
  project,  \* the workers' project exists
  version,  \* the job that created the workers' revision
  contents, \* what is in that revision
  stored,   \* per job: how much of its own project an adapter has stored
  restarts

importVars == <<kind, rec, drive, worker, project, version, contents, stored, restarts>>

Parts    == Classes \cup {Paths}
Ended    == {"completed", "failed", "canceled"}
States   == {"none", "queued", "running", "lost"} \cup Ended
Drives   == {"none", "created", "spawning", "reading", "persisting", "scoring"}
Writing  == {"project", "insert", "version", "library", "classes", "paths"}
Alive    == Writing \cup {"over"}
WorkerPhases   == Alive \cup {"none", "exited", "dead"}
Stages   == 0..3 \* nothing, project, revision, source

\* adapter: the source kind has one; dry: dry_run; skip: skip_duplicate_versions.
Kinds  == [adapter : BOOLEAN, dry : BOOLEAN, skip : BOOLEAN]
\* cancel: cancel_requested; proc: a process is registered;
\* response: commit_response was built.
Record == [state : States, cancel : BOOLEAN, proc : BOOLEAN, response : BOOLEAN]
\* told: the state of the final line; result: it names a revision.
Worker == [at : WorkerPhases, left : SUBSET Classes, failed : SUBSET Parts,
           told : {"none", "completed", "failed"}, result : BOOLEAN]

ImportTypeOK ==
  /\ kind \in [Jobs -> Kinds]
  /\ rec \in [Jobs -> Record]
  /\ drive \in [Jobs -> Drives]
  /\ worker \in [Jobs -> Worker]
  /\ project \in BOOLEAN
  /\ version \in Jobs \cup {None}
  /\ contents \in SUBSET Parts
  /\ stored \in [Jobs -> Stages]
  /\ restarts \in 0..MaxRestarts

ImportInit ==
  /\ kind = [j \in Jobs |-> [adapter |-> FALSE, dry |-> FALSE, skip |-> FALSE]]
  /\ rec = [j \in Jobs |-> [state |-> "none", cancel |-> FALSE, proc |-> FALSE, response |-> FALSE]]
  /\ drive = [j \in Jobs |-> "none"]
  /\ worker = [j \in Jobs |-> [at |-> "none", left |-> Classes, failed |-> {},
                               told |-> "none", result |-> FALSE]]
  /\ project = FALSE
  /\ version = None
  /\ contents = {}
  /\ stored = [j \in Jobs |-> 0]
  /\ restarts = 0

catalog == <<project, version, contents>>

-----------------------------------------------------------------------------
(* The task of a job.                                                      *)
(* The final assignment under _jobs_lock; response as _maybe_build_commit_response
   has it. *)
Settle(j, state, result) ==
  /\ rec' = [rec EXCEPT ![j] = [state |-> state, cancel |-> @.cancel, proc |-> FALSE,
                                response |-> state = "completed" /\ result]]
  /\ drive' = [drive EXCEPT ![j] = "none"]

(* The check before the final assignment: an accepted cancel wins. *)
Verdict(j, state) == IF rec[j].cancel THEN "canceled" ELSE state

Schedule(j, k) ==
  /\ rec[j].state = "none"
  /\ kind' = [kind EXCEPT ![j] = k]
  /\ rec' = [rec EXCEPT ![j].state = "queued"]
  /\ drive' = [drive EXCEPT ![j] = "created"]
  /\ UNCHANGED <<worker, catalog, stored, restarts>>

(* Mutant: the task of a canceled job just returns. *)
BeginNothing(j) ==
  /\ drive[j] = "created" /\ rec[j].cancel
  /\ drive' = [drive EXCEPT ![j] = "none"]
  /\ UNCHANGED <<kind, rec, worker, catalog, stored, restarts>>
BeginCanceled(j) ==
  /\ drive[j] = "created" /\ rec[j].cancel
  /\ Settle(j, "canceled", FALSE)
  /\ UNCHANGED <<kind, worker, catalog, stored, restarts>>

BeginWorker(j) ==
  /\ drive[j] = "created" /\ ~rec[j].cancel /\ ~kind[j].adapter
  /\ rec' = [rec EXCEPT ![j].state = "running"]
  /\ drive' = [drive EXCEPT ![j] = "spawning"]
  /\ UNCHANGED <<kind, worker, catalog, stored, restarts>>

\* Decode, parse, normalize, fingerprint and lint await nothing that suspends: one step.
BeginAdapter(j) ==
  /\ drive[j] = "created" /\ ~rec[j].cancel /\ kind[j].adapter
  /\ \/ Settle(j, "failed", FALSE) \* the adapter refuses the document
     \/ kind[j].dry /\ Settle(j, "completed", FALSE)
     \/ /\ ~kind[j].dry
        /\ rec' = [rec EXCEPT ![j].state = "running"]
        /\ drive' = [drive EXCEPT ![j] = "persisting"]
  /\ UNCHANGED <<kind, worker, catalog, stored, restarts>>

\* The process is registered and only then given the payload it waits for.
Spawn(j) ==
  /\ drive[j] = "spawning"
  /\ drive' = [drive EXCEPT ![j] = "reading"]
  /\ rec' = [rec EXCEPT ![j].proc = TRUE]
  /\ worker' = [worker EXCEPT ![j].at = "project"]
  /\ UNCHANGED <<kind, catalog, stored, restarts>>

HasEnded(j) == worker[j].at \in {"exited", "dead"}

(* No program to run, or a line longer than the stream limit: failed, canceled
   or not.  Mutant: the process is not waited for. *)
RaisesAtOnce(j) ==
  /\ drive[j] \in {"spawning", "reading"}
  /\ Settle(j, "failed", FALSE)
  /\ UNCHANGED <<kind, worker, catalog, stored, restarts>>
RunnerRaises(j) ==
  /\ drive[j] = "spawning" \/ (drive[j] = "reading" /\ HasEnded(j))
  /\ Settle(j, "failed", FALSE)
  /\ UNCHANGED <<kind, worker, catalog, stored, restarts>>

\* End of stdout and of the process.  garbled: a line was no JSON.
Finish(j) ==
  /\ drive[j] = "reading" /\ HasEnded(j)
  /\ \E garbled \in BOOLEAN :
       LET ok == worker[j].at = "exited" /\ ~garbled
       IN  Settle(j, Verdict(j, IF ok THEN worker[j].told ELSE "failed"), ok /\ worker[j].result)
  /\ UNCHANGED <<kind, worker, catalog, stored, restarts>>

(* persist_adapter_import, in a thread: three writes, each committed.
   Mutant: it writes once more before it returns. *)
PersistOnce(j) ==
  /\ drive[j] = "persisting"
  /\ stored' = [stored EXCEPT ![j] = @ + 1]
  /\ IF stored[j] < 3 THEN UNCHANGED drive ELSE drive' = [drive EXCEPT ![j] = "scoring"]
  /\ UNCHANGED <<kind, rec, worker, catalog, restarts>>
Persist(j) ==
  /\ drive[j] = "persisting"
  /\ \/ /\ stored[j] < 3
        /\ stored' = [stored EXCEPT ![j] = @ + 1]
        /\ UNCHANGED <<rec, drive>>
     \/ /\ stored[j] = 3
        /\ drive' = [drive EXCEPT ![j] = "scoring"]
        /\ UNCHANGED <<rec, stored>>
  /\ UNCHANGED <<kind, worker, catalog, restarts>>

PersistFails(j) ==
  /\ drive[j] = "persisting" /\ stored[j] < 3
  /\ Settle(j, Verdict(j, "failed"), FALSE)
  /\ UNCHANGED <<kind, worker, catalog, stored, restarts>>

\* The score is captured in a second thread, whatever comes of it.
FinishAdapter(j) ==
  /\ drive[j] = "scoring"
  /\ Settle(j, Verdict(j, "completed"), TRUE)
  /\ UNCHANGED <<kind, worker, catalog, stored, restarts>>

(* DELETE /imports/{job}.  The kill ends a worker run by node itself; where *)
(* yarn, npm or npx started it, only that runner, and the import goes on.   *)
Cancel(j) ==
  /\ rec[j].state \in {"queued", "running"}
  /\ rec' = [rec EXCEPT ![j].cancel = TRUE]
  /\ \/ UNCHANGED worker
     \/ rec[j].proc /\ worker[j].at \in Alive /\ worker' = [worker EXCEPT ![j].at = "dead"]
  /\ UNCHANGED <<kind, drive, catalog, stored, restarts>>

\* The jobs are forgotten, their threads gone; Node processes may live on.
Restart ==
  /\ restarts < MaxRestarts
  /\ restarts' = restarts + 1
  /\ rec' = [j \in Jobs |-> IF rec[j].state = "none" THEN rec[j]
                            ELSE [state |-> "lost", cancel |-> FALSE, proc |-> FALSE, response |-> FALSE]]
  /\ drive' = [j \in Jobs |-> "none"]
  /\ UNCHANGED <<kind, worker, catalog, stored>>

-----------------------------------------------------------------------------
(* The Node process of a job.                                              *)
engine == <<kind, rec, drive, stored, restarts>>

GoTo(j, at) == worker' = [worker EXCEPT ![j].at = at]

\* The job of import-helper.ts has ended; the final line is written.
Over(j, told, result) ==
  worker' = [worker EXCEPT ![j].at = "over", ![j].told = told, ![j].result = result]

DryRunCompletes(j) ==
  /\ worker[j].at = "project" /\ kind[j].dry
  /\ Over(j, "completed", FALSE)
  /\ UNCHANGED <<engine, catalog>>

FindProject(j) ==
  /\ worker[j].at = "project" /\ ~kind[j].dry
  /\ GoTo(j, IF project THEN "version" ELSE "insert")
  /\ UNCHANGED <<engine, catalog>>

\* Project and revision are written in autocommit; the slug is unique.
InsertProject(j) ==
  /\ worker[j].at = "insert" /\ ~project
  /\ project' = TRUE
  /\ GoTo(j, "version")
  /\ UNCHANGED <<engine, version, contents>>

(* UNIQUE (project_id, version_id).  Mutant: an existing revision is filled. *)
CreateOrReuse(j) ==
  /\ worker[j].at = "version"
  /\ version' = IF version = None THEN j ELSE version
  /\ GoTo(j, "library")
  /\ UNCHANGED <<engine, project, contents>>
CreateVersion(j) ==
  /\ worker[j].at = "version" /\ version = None
  /\ version' = j
  /\ GoTo(j, "library")
  /\ UNCHANGED <<engine, project, contents>>

DuplicateSkipped(j) ==
  /\ worker[j].at = "version" /\ version # None /\ kind[j].skip
  /\ Over(j, "completed", TRUE)
  /\ UNCHANGED <<engine, catalog>>

Duplicate(j) ==
  \/ worker[j].at = "insert" /\ project
  \/ worker[j].at = "version" /\ version # None /\ ~kind[j].skip

Refused(j) ==
  /\ Duplicate(j)
  /\ Over(j, "failed", FALSE)
  /\ UNCHANGED <<engine, catalog>>

\* The property library is a transaction of its own.
BuildLibrary(j) ==
  /\ worker[j].at = "library"
  /\ GoTo(j, "classes")
  /\ UNCHANGED <<engine, catalog>>

\* One transaction a class; a class that fails is reported and skipped.
WriteClass(j, c) ==
  /\ worker[j].at = "classes" /\ c \in worker[j].left
  /\ worker' = [worker EXCEPT ![j].left = @ \ {c}]
  /\ contents' = contents \cup {c}
  /\ UNCHANGED <<engine, project, version>>

SkipClass(j, c) ==
  /\ worker[j].at = "classes" /\ c \in worker[j].left
  /\ worker' = [worker EXCEPT ![j].left = @ \ {c}, ![j].failed = @ \cup {c}]
  /\ UNCHANGED <<engine, catalog>>

AllWritten(j) == worker[j].at = "classes" /\ worker[j].left = {}

ImportPaths(j) ==
  /\ AllWritten(j)
  /\ \/ GoTo(j, "paths") /\ contents' = contents \cup {Paths}
     \/ /\ worker' = [worker EXCEPT ![j].at = "paths", ![j].failed = @ \cup {Paths}]
        /\ UNCHANGED contents
  /\ UNCHANGED <<engine, project, version>>

Complete(j) ==
  /\ worker[j].at = "paths"
  /\ Over(j, "completed", TRUE)
  /\ UNCHANGED <<engine, catalog>>

\* Outside the loop over the classes an error ends the import; nothing is taken back.
Fails(j) ==
  /\ worker[j].at \in Writing /\ (worker[j].at = "classes" => AllWritten(j))
  /\ Over(j, "failed", FALSE)
  /\ UNCHANGED <<engine, catalog>>

Exit(j) ==
  /\ worker[j].at = "over"
  /\ GoTo(j, "exited")
  /\ UNCHANGED <<engine, catalog>>

\* Out of memory, or a pipe its parent no longer reads.
Die(j) ==
  /\ worker[j].at \in Alive
  /\ GoTo(j, "dead")
  /\ UNCHANGED <<engine, catalog>>

-----------------------------------------------------------------------------
Drive(j) ==
  \/ BeginCanceled(j) \/ BeginWorker(j) \/ BeginAdapter(j)
  \/ Spawn(j) \/ RunnerRaises(j) \/ Finish(j)
  \/ Persist(j) \/ PersistFails(j) \/ FinishAdapter(j)

Work(j) ==
  \/ DryRunCompletes(j) \/ FindProject(j) \/ InsertProject(j) \/ CreateVersion(j)
  \/ DuplicateSkipped(j) \/ Refused(j) \/ BuildLibrary(j)
  \/ \E c \in Classes : WriteClass(j, c) \/ SkipClass(j, c)
  \/ ImportPaths(j) \/ Complete(j) \/ Fails(j) \/ Exit(j)

ImportNext ==
  \/ \E j \in Jobs : (\E k \in Kinds : Schedule(j, k)) \/ Drive(j) \/ Cancel(j) \/ Work(j) \/ Die(j)
  \/ Restart

ImportSpec == ImportInit /\ [][ImportNext]_importVars

\* The event loop runs every task and a live Node process goes on.
ImportFairSpec == ImportSpec /\ \A j \in Jobs : WF_importVars(Drive(j)) /\ WF_importVars(Work(j))

-----------------------------------------------------------------------------
(* Once a job is reported ended, nothing of it is written any more: the    *)
(* task waits for the process to end, killed or not, before it settles.    *)
EndedJobsAreQuiet ==
  [][\A j \in Jobs : rec[j].state \in Ended =>
       /\ stored'[j] = stored[j]
       /\ worker'[j] = worker[j]]_importVars

(* The revision has the contents of one import: of two imports at once     *)
(* into the same revision, the one that did not create it writes nothing.  *)
OneImportFillsTheRevision ==
  [][contents' # contents => \E j \in Jobs : version = j /\ worker'[j] # worker[j]]_importVars

(* A job whose cancellation was accepted never completes: whoever was told *)
(* that the import stops is not told later that it is there.  Proved, and  *)
(* in no run.                                                              *)
CanceledNeverCompletes == \A j \in Jobs : rec[j].cancel => rec[j].state # "completed"

(* A completed job that was no dry run, and only such a job, answers with  *)
(* the revision it names, and that is there: all an adapter stores, or, of *)
(* the worker that made it, the whole document but for the classes and     *)
(* paths it reported as failed.  Proved, and in no run.                    *)
CompletedIsStored ==
  \A j \in Jobs :
    /\ rec[j].response <=> rec[j].state = "completed" /\ ~kind[j].dry
    /\ rec[j].response => IF kind[j].adapter THEN stored[j] = 3
                          ELSE /\ version # None
                               /\ version = j => Parts \subseteq contents \cup worker[j].failed

(* Every accepted job ends, whatever its worker does, unless the REST      *)
(* process restarts and forgets it.                                        *)
EveryJobSettles ==
  \A j \in Jobs : rec[j].state = "queued" ~> rec[j].state \in Ended \cup {"lost"}

(* "complete successfully without re-importing (idempotent no-op)"         *)
(* (skip_duplicate_versions, models.py): once the import that made the     *)
(* revision is over, a completed job, skipped or not, finds the document   *)
(* in it, but for the classes that were reported as failed.  False, see the *)
(* README.                                                                 *)
SkippedIsIdempotent ==
  \A j \in Jobs :
    /\ rec[j].state = "completed" /\ ~kind[j].adapter /\ ~kind[j].dry
    /\ version # None /\ HasEnded(version)
    => Parts \subseteq contents \cup UNION {worker[k].failed : k \in Jobs}
=============================================================================
