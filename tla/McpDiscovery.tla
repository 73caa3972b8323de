---------------------------- MODULE McpDiscovery ----------------------------
(***************************************************************************)
(* Discovery of one endpoint of the MCP catalog: the manual trigger, the   *)
(* periodic sweep, the job both create and drive (mcp_discovery_engine.py, *)
(* mcp_discovery_sweep.py) and the database methods under them, in one     *)
(* REST process.                                                           *)
(*                                                                         *)
(* The runs are asyncio tasks.  Every database method runs in a worker     *)
(* thread (asyncio.to_thread), and all threads use the one connection of   *)
(* the process, that is one PostgreSQL session: the advisory lock under    *)
(* which enqueue looks for an active job is re-entrant in a session and    *)
(* keeps no thread of this process out, so enqueue is two steps here.      *)
(*                                                                         *)
(* The sweep bounds a run by asyncio.wait_for, which cancels the coroutine *)
(* but not the thread a database call of it runs in.  So a job has up to   *)
(* two threads: "drive", and "late", what the time limit left behind.      *)
(*                                                                         *)
(* Of last_discovered_at and next_discovery_after only their use is kept:  *)
(* rest, the time left until neither defers the endpoint.  Job rows that   *)
(* are over are reused, so that Jobs bounds the rows kept and not the runs *)
(* made.                                                                   *)
(***************************************************************************)
EXTENDS Integers, Sequences

CONSTANTS Jobs,         \* discovery job rows, numbers
          Manual,       \* clients of POST .../discover
          Sweep,        \* the sweep task
          Surfaces,     \* fingerprints of the surfaces a server may show
          NoSurface,    \* no answer yet
          MaxEvents,    \* bound: how often something comes in between
          MaxFailures,  \* bound: the failure count saturates here
          Threshold,    \* mcp_discovery_quarantine_threshold
          Cadence,      \* the endpoint's discovery cadence, in ticks
          Base, MaxBackoff,  \* the backoff's unit and ceiling
          RetryAfter    \* pacings a server may ask for, 0 for none

Callers == Manual \cup {Sweep}
Threads == Jobs \X {"drive", "late"}

ASSUME JobsAssumption == Jobs \subseteq Nat
ASSUME SurfacesAssumption == Surfaces # {} /\ NoSurface \notin Surfaces
ASSUME NumbersAssumption ==
  /\ MaxEvents \in Nat /\ MaxFailures \in Nat \ {0} /\ Threshold \in 0..MaxFailures
  /\ Cadence \in Nat \ {0} /\ Base \in Nat \ {0} /\ MaxBackoff \in Nat
  /\ RetryAfter \subseteq Nat

VARIABLES
  endpoint,  \* the mcp_endpoints row
  versions,  \* the fingerprints of mcp_endpoint_versions, by version_seq
  job,       \* the mcp_discovery_jobs rows
  caller,    \* per caller: where it is in enqueueing, and the job it awaits
  thread,    \* per thread: where it is in a run
  surface,   \* the surface the server shows
  events,    \* how often something came in between
  lost       \* history: jobs whose run is gone and left no word

vars == <<endpoint, versions, job, caller, thread, surface, events, lost>>

NoJob  == [state |-> "none", version |-> 0, surface |-> NoSurface]
NoTask == [pc |-> "none", seen |-> NoSurface, version |-> 0]
Resting == [pc |-> "idle", job |-> 0]

Active(j) == job[j].state \in {"queued", "running"}
Latest == Len(versions)

Init ==
  /\ endpoint = [deleted |-> FALSE, enabled |-> TRUE, current |-> 0, failures |-> 0,
                 quarantined |-> FALSE, rest |-> 0]
  /\ versions = <<>>
  /\ job = [j \in Jobs |-> NoJob]
  /\ caller = [c \in Callers |-> Resting]
  /\ thread = [t \in Threads |-> NoTask]
  /\ surface = CHOOSE s \in Surfaces : TRUE  \* any: they are alike
  /\ events = 0
  /\ lost = {}

\* Bound: what happens to a run from outside, a deletion apart.
Upset == events < MaxEvents /\ events' = events + 1

-----------------------------------------------------------------------------
(* list_due_mcp_endpoints *)
Due ==
  /\ ~endpoint.deleted /\ endpoint.enabled /\ ~endpoint.quarantined
  /\ endpoint.rest = 0

Steps(c, pc) == caller' = [caller EXCEPT ![c].pc = pc]

Elsewhere == <<endpoint, versions, surface, events>>

(* discover_mcp_endpoint: the row is read; a deleted endpoint is a 404. *)
Request(c) ==
  /\ c \in Manual /\ caller[c].pc = "idle"
  /\ ~endpoint.deleted
  /\ Steps(c, "ready")
  /\ UNCHANGED <<job, thread, lost>> /\ UNCHANGED Elsewhere

(* process_mcp_discovery_sweep finds the endpoint due ... *)
List ==
  /\ caller[Sweep].pc = "idle" /\ Due
  /\ Steps(Sweep, "ready")
  /\ UNCHANGED <<job, thread, lost>> /\ UNCHANGED Elsewhere

(* ... and its tick ends with the run it awaits. *)
TickEnds ==
  /\ caller[Sweep].pc \in {"driving", "limited"} /\ thread[<<caller[Sweep].job, "drive">>].pc = "none"
  /\ caller' = [caller EXCEPT ![Sweep] = Resting]
  /\ UNCHANGED <<job, thread, lost>> /\ UNCHANGED Elsewhere

\* enqueue_mcp_discovery_job: an active job is handed back and nothing starts.
Look(c) ==
  /\ caller[c].pc = "ready"
  /\ Steps(c, IF \E j \in Jobs : Active(j) THEN "idle" ELSE "looked")
  /\ UNCHANGED <<job, thread, lost>> /\ UNCHANGED Elsewhere

\* Rows that are over and that no thread works on any more.
Spare == {j \in Jobs : ~Active(j) /\ \A k \in {"drive", "late"} : thread[<<j, k>>].pc = "none"}

(* The row is inserted and the run starts: detached for a client, awaited with
   a time limit by the sweep. *)
Insert(c) ==
  /\ caller[c].pc = "looked" /\ Spare # {}
  /\ LET j == CHOOSE k \in Spare : TRUE
     IN /\ job' = [job EXCEPT ![j] = [NoJob EXCEPT !.state = "queued"]]
        /\ thread' = [thread EXCEPT ![<<j, "drive">>] = [NoTask EXCEPT !.pc = "queued"]]
        /\ caller' = [caller EXCEPT ![c] = IF c = Sweep THEN [pc |-> "driving", job |-> j] ELSE Resting]
        /\ lost' = lost \ {j}
  /\ UNCHANGED Elsewhere

-----------------------------------------------------------------------------
Goes(t, pc) == thread' = [thread EXCEPT ![t].pc = pc]

\* What a run has read is forgotten with it, or with its turning into a failure.
Turns(t, pc) == thread' = [thread EXCEPT ![t] = [NoTask EXCEPT !.pc = pc]]

World == <<caller, surface, events, lost>>

\* mark_mcp_discovery_job_running: a row that is gone ends the run.
Start(t) ==
  /\ thread[t].pc = "queued"
  /\ IF job[t[1]].state = "queued"
     THEN job' = [job EXCEPT ![t[1]].state = "running"] /\ Goes(t, "net")
     ELSE Turns(t, "none") /\ UNCHANGED job
  /\ UNCHANGED <<endpoint, versions>> /\ UNCHANGED World

\* The MCP client comes back with the server's surface, ...
Discover(t) ==
  /\ thread[t].pc = "net"
  /\ thread' = [thread EXCEPT ![t].pc = "read", ![t].seen = surface]
  /\ UNCHANGED <<endpoint, versions, job>> /\ UNCHANGED World

\* ... or does not: a refused connection, a bad answer, the network budget.
NetworkFails(t) ==
  /\ thread[t].pc = "net"
  /\ Turns(t, "failing")
  /\ UNCHANGED <<endpoint, versions, job>> /\ UNCHANGED World

(* _persist_outcome, from the snapshot it read on *)
Unchanged(t) == Latest > 0 /\ versions[Latest] = thread[t].seen

\* Mutant of ReadLatest: version_seq counted from zero.
ReadLatestFromZero(t) ==
  /\ thread[t].pc = "read"
  /\ thread' = [thread EXCEPT ![t].pc = IF Unchanged(t) THEN "touch" ELSE "record",
                              ![t].version = Latest - 1]
  /\ UNCHANGED <<endpoint, versions, job>> /\ UNCHANGED World

ReadLatest(t) ==
  /\ thread[t].pc = "read"
  /\ thread' = [thread EXCEPT ![t].pc = IF Unchanged(t) THEN "touch" ELSE "record",
                              ![t].version = Latest]
  /\ UNCHANGED <<endpoint, versions, job>> /\ UNCHANGED World

\* Mutant of Healthy: the anchor stays.
StillDue(e) == [e EXCEPT !.failures = 0, !.quarantined = FALSE]

\* Contact with the server clears backoff and quarantine and moves the anchor.
Healthy(e) ==
  [e EXCEPT !.failures = 0, !.quarantined = FALSE, !.rest = Cadence]

\* touch_mcp_endpoint_discovery
Touch(t) ==
  /\ thread[t].pc = "touch"
  /\ endpoint' = Healthy(endpoint)
  /\ Goes(t, "finish")
  /\ UNCHANGED <<versions, job>> /\ UNCHANGED World

\* Mutant of Record: the number comes from the snapshot that was compared with.
RecordAfterPrevious(t) ==
  /\ thread[t].pc = "record"
  /\ versions' = Append(versions, thread[t].seen)
  /\ endpoint' = [Healthy(endpoint) EXCEPT !.current = thread[t].version + 1]
  /\ thread' = [thread EXCEPT ![t].pc = "finish", ![t].version = thread[t].version + 1]
  /\ UNCHANGED job /\ UNCHANGED World

\* record_mcp_discovery_version, one transaction.  It asks neither whether the
\* endpoint is deleted nor whether the snapshot read is still the latest.
Record(t) ==
  /\ thread[t].pc = "record"
  /\ versions' = Append(versions, thread[t].seen)
  /\ endpoint' = [Healthy(endpoint) EXCEPT !.current = Latest + 1]
  /\ thread' = [thread EXCEPT ![t].pc = "finish", ![t].version = Latest + 1]
  /\ UNCHANGED job /\ UNCHANGED World

\* An exception of one of these calls: the driving coroutine records a failure,
\* and nobody hears of it in a thread left behind.
PersistRaises(t) ==
  /\ thread[t].pc \in {"read", "touch", "record", "finish"}
  /\ Turns(t, IF t[2] = "drive" THEN "failing" ELSE "none")
  /\ UNCHANGED <<endpoint, versions, job>> /\ UNCHANGED World

\* Mutant of Finished: the row is put back if it is gone.
FinishedForSure(j, row) == job' = [job EXCEPT ![j] = row]

\* finish_mcp_discovery_job writes whatever state the row, if any, is in.
Finished(j, row) == job' = [job EXCEPT ![j] = IF @.state = "none" THEN @ ELSE row]

Finish(t) ==
  /\ thread[t].pc = "finish"
  /\ Finished(t[1], [state |-> "completed", version |-> thread[t].version, surface |-> thread[t].seen])
  /\ Turns(t, "none")
  /\ UNCHANGED <<endpoint, versions>> /\ UNCHANGED World

-----------------------------------------------------------------------------
(* _persist_failure *)
Larger(a, b) == IF a > b THEN a ELSE b
Smaller(a, b) == IF a < b THEN a ELSE b

\* compute_backoff_seconds: exponential up to the ceiling, above it only by the
\* server's own wish.
Backoff(n, retryAfter) == Larger(Smaller(Base * 2^(n - 1), Larger(Base, MaxBackoff)), retryAfter)

\* record_mcp_discovery_failure
RecordFailure(t) ==
  /\ thread[t].pc = "failing"
  /\ LET n == Smaller(endpoint.failures + 1, MaxFailures)
     IN \E r \in RetryAfter :
          endpoint' = [endpoint EXCEPT !.failures = n, !.rest = Larger(Cadence, Backoff(n, r)),
                                       !.quarantined = @ \/ (Threshold > 0 /\ n >= Threshold)]
  /\ Goes(t, "failed")
  /\ UNCHANGED <<versions, job>> /\ UNCHANGED World

\* A failed job keeps no snapshot: result is the error.
FinishFailed(t) ==
  /\ thread[t].pc = "failed"
  /\ Finished(t[1], [state |-> "failed", version |-> 0, surface |-> NoSurface])
  /\ Turns(t, "none")
  /\ UNCHANGED <<endpoint, versions>> /\ UNCHANGED World

\* Mutant of TimeLimit: the run is ended and nothing is recorded.
TimeLimitSilent ==
  /\ caller[Sweep].pc = "driving" /\ thread[<<caller[Sweep].job, "drive">>].pc # "none"
  /\ Upset
  /\ caller' = [caller EXCEPT ![Sweep].pc = "limited"]
  /\ thread' = [thread EXCEPT ![<<caller[Sweep].job, "drive">>] = NoTask]
  /\ UNCHANGED <<endpoint, versions, job, surface, lost>>

\* run_discovery_job's limit, for the sweep's run only: the coroutine is gone,
\* a failure is recorded, and a thread inside _persist_outcome or
\* _persist_failure goes on.
TimeLimit ==
  LET j == caller[Sweep].job
      t == thread[<<j, "drive">>]
  IN /\ caller[Sweep].pc = "driving" /\ t.pc # "none"
     /\ Upset
     /\ caller' = [caller EXCEPT ![Sweep].pc = "limited"]
     /\ thread' = [thread EXCEPT ![<<j, "late">>] = IF t.pc \in {"queued", "net"} THEN NoTask ELSE t,
                                 ![<<j, "drive">>] = [NoTask EXCEPT !.pc = "failing"]]
     /\ UNCHANGED <<endpoint, versions, job, surface, lost>>

\* The last-resort guard: the failure itself cannot be recorded, and the job
\* stays as it is.
RecordingRaises(t) ==
  /\ thread[t].pc \in {"failing", "failed"}
  /\ Turns(t, "none")
  /\ lost' = lost \cup {t[1]}
  /\ UNCHANGED <<endpoint, versions, job, caller, surface, events>>

-----------------------------------------------------------------------------
\* update_mcp_endpoint, as far as the sweep reads it.
Enable(b) ==
  /\ ~endpoint.deleted /\ endpoint.enabled # b
  /\ Upset
  /\ endpoint' = [endpoint EXCEPT !.enabled = b]
  /\ UNCHANGED <<versions, job, caller, thread, surface, lost>>

\* soft_delete_mcp_endpoint: the row stays, its jobs and snapshots go.  Threads
\* that are at work on it are not told.
Delete ==
  /\ ~endpoint.deleted
  /\ endpoint' = [endpoint EXCEPT !.deleted = TRUE, !.enabled = FALSE, !.current = 0]
  /\ versions' = <<>>
  /\ job' = [j \in Jobs |-> NoJob]
  /\ lost' = {}
  /\ UNCHANGED <<thread, caller, surface, events>>

\* The process dies with its tasks and threads and is started again.
Restart ==
  /\ Upset
  /\ caller' = [c \in Callers |-> Resting]
  /\ thread' = [t \in Threads |-> NoTask]
  /\ lost' = {j \in Jobs : Active(j)}
  /\ UNCHANGED <<endpoint, versions, job, surface>>

ServerChanges ==
  /\ Upset
  /\ surface' \in Surfaces \ {surface}
  /\ UNCHANGED <<endpoint, versions, job, caller, thread, lost>>

Tick ==
  /\ endpoint.rest > 0
  /\ endpoint' = [endpoint EXCEPT !.rest = @ - 1]
  /\ UNCHANGED <<versions, job, thread>> /\ UNCHANGED World

-----------------------------------------------------------------------------
Enqueue(c) == Look(c) \/ Insert(c)

Run(t) ==
  \/ Start(t) \/ Discover(t) \/ NetworkFails(t) \/ ReadLatest(t) \/ Touch(t) \/ Record(t)
  \/ PersistRaises(t) \/ Finish(t) \/ RecordFailure(t) \/ FinishFailed(t) \/ RecordingRaises(t)

Next ==
  \/ \E c \in Callers : Request(c) \/ Enqueue(c)
  \/ List \/ TickEnds \/ TimeLimit
  \/ \E t \in Threads : Run(t)
  \/ \E b \in BOOLEAN : Enable(b)
  \/ Delete \/ Restart \/ ServerChanges \/ Tick

Spec == Init /\ [][Next]_vars

(* The event loop gets round to every caller, the sweep wakes for ever, and a
   thread ends: the client has a time budget, and PostgreSQL answers. *)
FairSpec ==
  /\ Spec
  /\ WF_vars(List) /\ WF_vars(TickEnds)
  /\ \A c \in Callers : WF_vars(Enqueue(c))
  /\ \A t \in Threads : WF_vars(Run(t))

-----------------------------------------------------------------------------
JobStates == {"none", "queued", "running", "completed", "failed"}
RunSteps == {"none", "queued", "net", "read", "touch", "record", "finish", "failing", "failed"}

TypeOK ==
  /\ endpoint \in [deleted : BOOLEAN, enabled : BOOLEAN, current : Nat, failures : 0..MaxFailures,
                   quarantined : BOOLEAN, rest : Nat]
  /\ versions \in Seq(Surfaces)
  /\ job \in [Jobs -> [state : JobStates, version : Nat, surface : Surfaces \cup {NoSurface}]]
  /\ caller \in [Callers -> [pc : {"idle", "ready", "looked", "driving", "limited"}, job : Jobs \cup {0}]]
  /\ thread \in [Threads -> [pc : RunSteps, seen : Surfaces \cup {NoSurface}, version : Nat]]
  /\ surface \in Surfaces /\ events \in 0..MaxEvents /\ lost \subseteq Jobs

(* The quarantine says what the failure count says, whichever of a run, the
   thread it left behind and a client's run wrote last. *)
QuarantineFollowsCount ==
  endpoint.quarantined <=> (Threshold > 0 /\ endpoint.failures >= Threshold)

(* current_version_id is the snapshot with the highest version_seq: two runs
   that persist at once, and a deletion between their reads and writes, leave
   no older snapshot, and none that is gone, as the current one. *)
CurrentIsLatest == endpoint.current = Latest

(* A completed job names a snapshot that is there, and it is the one of the
   surface that very run saw. *)
CompletedNamesItsSnapshot ==
  \A j \in Jobs : job[j].state = "completed" =>
    job[j].version \in 1..Latest /\ versions[job[j].version] = job[j].surface

(* Every job reaches completed or failed, or goes with its endpoint, and no
   client polls it for ever; but for those the process died over, or whose
   failure could not be recorded. *)
JobsEnd == \A j \in Jobs : Active(j) ~> (~Active(j) \/ j \in lost)

(* An endpoint that is due is attempted, be it that its run fails: its anchor,
   its backoff or its quarantine ends its being due.  Only a lost job, which
   every later enqueue takes for an active one, is in the way. *)
DueIsAttempted == Due ~> (~Due \/ lost # {})

(* soft_delete_mcp_endpoint hard-deletes the snapshots, "so no stale or
   sensitive data survives the endpoint".  False, see the README. *)
NothingSurvivesDelete == endpoint.deleted => versions = <<>>
=============================================================================
