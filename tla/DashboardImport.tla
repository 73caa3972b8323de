--------------------------- MODULE DashboardImport ---------------------------
(***************************************************************************)
(* The catalog imports of the dashboard (import-helper.ts): jobs that one  *)
(* Node process keeps in memory, each a loop of queries on one pooled      *)
(* connection, with the user's accept, reject, cancel and undo arriving    *)
(* between the queries.  In transaction mode the whole import is one       *)
(* transaction that stays open until the user accepts or rejects it; in    *)
(* incremental mode every class is committed by itself.                    *)
(*                                                                         *)
(* A connection answers its queries in the order they were asked, so a     *)
(* step here is an answer: the query runs, and what waited for it goes on  *)
(* to its next await.  All imports have one project slug.  The plan check, *)
(* the search of the parent revision and the INSERT of a revision are one  *)
(* query here; so are a class and its properties.  Every document has a    *)
(* property to add to the library and paths to import.                     *)
(***************************************************************************)
EXTENDS Naturals, Sequences, FiniteSets

CONSTANTS Jobs,
          Clients,    \* the connections of the pool
          Inputs,     \* what may be asked for
          Given,      \* a project that is there before any import
          GivenLine,  \* and the one version line it has
          None,
          Overlap,    \* a reject or cancel may reach a loop that has begun
          MaxCrashes  \* bound: restarts of the Node process

ASSUME NamesAssumption == Given \notin Jobs /\ None \notin Jobs \cup Clients \cup {Given}
ASSUME InputsAssumption ==
  \A i \in Inputs : /\ i.mode \in {"dry", "transaction", "incremental"}
                    /\ i.names \in Seq({i.names[k] : k \in DOMAIN i.names})
                    /\ i.skip \in BOOLEAN
ASSUME BoundsAssumption == MaxCrashes \in Nat /\ Overlap \in BOOLEAN

VARIABLES
  input,    \* per job: what was asked for
  job,      \* per job: the entry of the jobs map
  loop,     \* per job: where its loop is, and what it holds in locals
  user,     \* per job: what the user's request in flight waits for
  queue,    \* per connection: who waits for an answer, in order
  pg,       \* per connection: its transaction and what that has written
  free,     \* the idle connections of the pool
  db,       \* the committed rows
  accepted, \* the jobs whose commit was asked for
  crashes

vars == <<input, job, loop, user, queue, pg, free, db, accepted, crashes>>

States == {"none", "running", "pending-approval", "committing", "completed",
           "failed", "canceled", "rolled-back", "lost"}
Ats    == {"none", "connect", "begin", "find", "merge", "project", "version",
           "lookup", "library", "class", "verify", "paths", "undo", "over"}
Projects == Jobs \cup {Given}

NoJob   == [state |-> "none", canceled |-> FALSE, pending |-> FALSE, client |-> None]
NoLoop  == [at |-> "none", client |-> None, project |-> None, done |-> 0]
Idle    == [tx |-> "idle", staged |-> {}]
NoInput == [mode |-> "none", line |-> None, names |-> <<>>, skip |-> FALSE]

\* A row: what it is, the import that wrote it, the project it is in.
Row(kind, j, p, name) == [kind |-> kind, by |-> j, project |-> p, name |-> name]
GivenRows == {Row("project", Given, Given, None), Row("version", Given, Given, GivenLine)}

Rows == [kind : {"project", "meta", "version", "class", "paths"}, by : Projects,
         project : Projects,
         name : {None, GivenLine} \cup {i.line : i \in Inputs}
                \cup UNION {{i.names[k] : k \in DOMAIN i.names} : i \in Inputs}]

TypeOK ==
  /\ input \in [Jobs -> Inputs \cup {NoInput}]
  /\ job \in [Jobs -> [state : States, canceled : BOOLEAN, pending : BOOLEAN,
                       client : Clients \cup {None}]]
  /\ loop \in [Jobs -> [at : Ats, client : Clients \cup {None},
                        project : Projects \cup {None}, done : Nat]]
  /\ user \in [Jobs -> {"idle", "commit", "rollback", "paths"}]
  /\ queue \in [Clients -> Seq(Jobs \X {"loop", "user"})]
  /\ pg \in [Clients -> [tx : {"idle", "open", "aborted"}, staged : SUBSET Rows]]
  /\ free \subseteq Clients
  /\ db \subseteq Rows
  /\ accepted \subseteq Jobs
  /\ crashes \in 0..MaxCrashes

Init ==
  /\ input = [j \in Jobs |-> NoInput]
  /\ job = [j \in Jobs |-> NoJob]
  /\ loop = [j \in Jobs |-> NoLoop]
  /\ user = [j \in Jobs |-> "idle"]
  /\ queue = [c \in Clients |-> <<>>]
  /\ pg = [c \in Clients |-> Idle]
  /\ free = Clients
  /\ db \in {{}, GivenRows}
  /\ accepted = {}
  /\ crashes = 0

----------------------------------------------------------------------------
(* A connection.                                                           *)

Asked(j, who, c) == queue[c] # <<>> /\ Head(queue[c]) = <<j, who>>

Answered(c)    == queue' = [queue EXCEPT ![c] = Tail(@)]
AnsweredAsk(j, c) == queue' = [queue EXCEPT ![c] = Append(Tail(@), <<j, "loop">>)]

Aborted(c) == pg[c].tx = "aborted"
Seen(c)    == db \cup pg[c].staged
Others(c)  == UNION {pg[d].staged : d \in Clients \ {c}}

\* A write is part of the open transaction, or committed at once without one.
Write(c, row) ==
  IF pg[c].tx = "open"
  THEN pg' = [pg EXCEPT ![c].staged = @ \cup {row}] /\ UNCHANGED db
  ELSE db' = db \cup {row} /\ UNCHANGED pg

\* A statement that fails aborts the open transaction, and its writes with it.
Fails(c) ==
  /\ pg' = [pg EXCEPT ![c] = IF @.tx = "idle" THEN @ ELSE [tx |-> "aborted", staged |-> {}]]
  /\ UNCHANGED db

----------------------------------------------------------------------------
(* The loop of a job: its next query, or the way out of it.                *)

LoopAt(j, at) == loop[j].at = at /\ Asked(j, "loop", loop[j].client)

Goto(j, next) == /\ loop' = [loop EXCEPT ![j] = next]
                 /\ AnsweredAsk(j, loop[j].client)
                 /\ UNCHANGED <<job, free>>

(* The connection goes back to the pool; releasing it twice throws, and the
   job then keeps its reference.  Mutant: the job always keeps it. *)
LeaveKeeps(j, state) ==
  /\ loop' = [loop EXCEPT ![j].at = "over"]
  /\ free' = free \cup {loop[j].client}
  /\ job' = [job EXCEPT ![j].state = state, ![j].pending = FALSE]
Leave(j, state) ==
  LET c == loop[j].client
  IN /\ loop' = [loop EXCEPT ![j].at = "over"]
     /\ free' = free \cup {c}
     /\ job' = [job EXCEPT ![j].state = state, ![j].pending = FALSE,
                           ![j].client = IF c \in free THEN @ ELSE None]

Verdict(j) == IF job[j].canceled THEN "canceled" ELSE "failed"

\* The loop's catch block: roll back what is pending first.
Throw(j) ==
  IF job[j].pending
  THEN Goto(j, [loop[j] EXCEPT !.at = "undo"])
  ELSE Leave(j, Verdict(j)) /\ Answered(loop[j].client)

(* job.canceled is looked at before most queries.  Mutant: the loop returns
   where the code throws. *)
CheckedReturns(j, next) ==
  IF job[j].canceled
  THEN /\ loop' = [loop EXCEPT ![j].at = "over"]
       /\ Answered(loop[j].client)
       /\ UNCHANGED <<job, free>>
  ELSE Goto(j, next)
Checked(j, next) == IF job[j].canceled THEN Throw(j) ELSE Goto(j, next)

Start(j, i) ==
  /\ job[j].state = "none"
  /\ input' = [input EXCEPT ![j] = i]
  /\ job' = [job EXCEPT ![j].state = IF i.mode = "dry" THEN "completed" ELSE "running"]
  /\ loop' = [loop EXCEPT ![j].at = IF i.mode = "dry" THEN "over" ELSE "connect"]
  /\ UNCHANGED <<user, queue, pg, free, db, accepted, crashes>>

Retry(j, k) == job[j].state \in {"failed", "canceled"} /\ Start(k, input[j])

\* The idle connections are alike: it does not matter which one is taken.
Pooled == CHOOSE c \in free : TRUE

Connect(j) ==
  /\ loop[j].at = "connect" /\ free # {}
  /\ IF input[j].mode = "incremental" /\ job[j].canceled
     THEN /\ job' = [job EXCEPT ![j].state = "canceled"]
          /\ loop' = [loop EXCEPT ![j].at = "over"]
          /\ UNCHANGED <<free, queue>>
     ELSE /\ free' = free \ {Pooled}
          /\ job' = [job EXCEPT ![j].client = Pooled]
          /\ loop' = [loop EXCEPT ![j].client = Pooled,
                        ![j].at = IF input[j].mode = "incremental" THEN "find" ELSE "begin"]
          /\ queue' = [queue EXCEPT ![Pooled] = Append(@, <<j, "loop">>)]
  /\ UNCHANGED <<input, user, pg, db, accepted, crashes>>

\* Mutant: BEGIN is forgotten.
BeginNothing(j) ==
  /\ LoopAt(j, "begin")
  /\ job' = [job EXCEPT ![j].pending = TRUE]
  /\ loop' = [loop EXCEPT ![j].at = IF job[j].canceled THEN "undo" ELSE "find"]
  /\ AnsweredAsk(j, loop[j].client)
  /\ UNCHANGED <<input, user, pg, free, db, accepted, crashes>>
BeginTransaction(j) ==
  LET c == loop[j].client
  IN /\ LoopAt(j, "begin")
     /\ IF Aborted(c)
        THEN Throw(j) /\ UNCHANGED pg
        ELSE /\ pg' = [pg EXCEPT ![c].tx = "open"]
             /\ job' = [job EXCEPT ![j].pending = TRUE]
             /\ loop' = [loop EXCEPT ![j].at = IF job[j].canceled THEN "undo" ELSE "find"]
             /\ AnsweredAsk(j, c)
             /\ UNCHANGED free
     /\ UNCHANGED <<input, user, db, accepted, crashes>>

FindProject(j) ==
  LET c == loop[j].client
      found == {r \in Seen(c) : r.kind = "project"}
  IN /\ LoopAt(j, "find")
     /\ \/ Aborted(c) /\ Throw(j)
        \/ ~Aborted(c) /\ found = {} /\ Goto(j, [loop[j] EXCEPT !.at = "project"])
        \/ /\ ~Aborted(c)
           /\ \E r \in found : Goto(j, [loop[j] EXCEPT !.at = "merge", !.project = r.project])
     /\ UNCHANGED <<input, user, pg, db, accepted, crashes>>

\* The description and metadata of the document go to the project found.
MergeProject(j) ==
  LET c == loop[j].client
      p == loop[j].project
      gone == ~\E r \in Seen(c) : r.kind = "project" /\ r.project = p
  IN /\ LoopAt(j, "merge")
     /\ \/ Aborted(c) \/ gone
        \/ ~\E r \in Others(c) : r.kind = "meta" /\ r.project = p
     /\ IF Aborted(c) \/ gone
        THEN Throw(j) /\ UNCHANGED <<pg, db>>
        ELSE /\ Write(c, Row("meta", j, p, None))
             /\ Checked(j, [loop[j] EXCEPT !.at = "version"])
     /\ UNCHANGED <<input, user, accepted, crashes>>

CreateProject(j) ==
  LET c == loop[j].client
      taken == \E r \in db : r.kind = "project"
  IN /\ LoopAt(j, "project")
     /\ Aborted(c) \/ ~\E r \in Others(c) : r.kind = "project"
     /\ \/ Throw(j) /\ UNCHANGED <<pg, db>> \* the user's plan has no room
        \/ (taken \/ Aborted(c)) /\ Fails(c) /\ Throw(j)
        \/ /\ ~taken /\ ~Aborted(c)
           /\ Write(c, Row("project", j, j, None))
           /\ Checked(j, [loop[j] EXCEPT !.at = "version", !.project = j])
     /\ UNCHANGED <<input, user, accepted, crashes>>

CreateVersion(j) ==
  LET c == loop[j].client
      p == loop[j].project
      SameLine(r) == r.kind = "version" /\ r.project = p /\ r.name = input[j].line
      duplicate == ~Aborted(c) /\ \E r \in Seen(c) : SameLine(r)
      refused == \/ Aborted(c) \/ duplicate
                 \/ ~\E r \in Seen(c) : r.kind = "project" /\ r.project = p
  IN /\ LoopAt(j, "version")
     /\ Aborted(c) \/ ~\E r \in Others(c) : SameLine(r)
     /\ \/ Throw(j) /\ UNCHANGED <<pg, db>> \* the user's plan has no room
        \/ /\ refused
           /\ Fails(c)
           /\ IF duplicate /\ input[j].skip
              THEN Goto(j, [loop[j] EXCEPT !.at = "lookup"])
              ELSE Throw(j)
        \/ /\ ~refused
           /\ Write(c, Row("version", j, p, input[j].line))
           /\ Checked(j, [loop[j] EXCEPT !.at = "library"])
     /\ UNCHANGED <<input, user, accepted, crashes>>

\* skipDuplicateVersions: look for the revision there is.  A transaction has
\* just been aborted by the INSERT, so only incremental mode gets an answer.
LookupVersion(j) ==
  LET c == loop[j].client
  IN /\ LoopAt(j, "lookup")
     /\ IF Aborted(c) THEN Throw(j)
        ELSE Leave(j, "completed") /\ Answered(c)
     /\ UNCHANGED <<input, user, pg, db, accepted, crashes>>

NextClass(j, done) ==
  [loop[j] EXCEPT !.done = done, !.at = IF done = Len(input[j].names) THEN "verify" ELSE "class"]

\* The properties go in under a SAVEPOINT, which needs an open transaction;
\* incremental mode opens and commits one around it.
BuildLibrary(j) ==
  LET c == loop[j].client
  IN /\ LoopAt(j, "library")
     /\ IF Aborted(c) \/ (input[j].mode = "transaction" /\ pg[c].tx = "idle")
        THEN Throw(j)
        ELSE Checked(j, NextClass(j, 0))
     /\ UNCHANGED <<input, user, pg, db, accepted, crashes>>

\* A class that cannot be written is noted and the loop goes on.
WriteClass(j) ==
  LET c == loop[j].client
      done == loop[j].done + 1
      row == Row("class", j, loop[j].project, input[j].names[done])
      refused == \/ Aborted(c) \/ row \in Seen(c)
                 \/ ~\E r \in Seen(c) : r.kind = "version" /\ r.by = j
  IN /\ LoopAt(j, "class")
     /\ IF refused THEN Fails(c) ELSE Write(c, row)
     /\ Checked(j, NextClass(j, done))
     /\ UNCHANGED <<input, user, accepted, crashes>>

(* The verification never stops an import, whatever it finds.  Mutant: both
   modes end alike. *)
VerifyAlike(j) ==
  /\ LoopAt(j, "verify")
  /\ Answered(loop[j].client)
  /\ loop' = [loop EXCEPT ![j].at = "over"]
  /\ job' = [job EXCEPT ![j].state = "pending-approval"]
  /\ UNCHANGED <<input, user, pg, free, db, accepted, crashes>>
Verify(j) ==
  /\ LoopAt(j, "verify")
  /\ Answered(loop[j].client)
  /\ IF input[j].mode = "incremental"
     THEN loop' = [loop EXCEPT ![j].at = "paths"] /\ UNCHANGED job
     ELSE /\ loop' = [loop EXCEPT ![j].at = "over"]
          /\ job' = [job EXCEPT ![j].state = "pending-approval"]
  /\ UNCHANGED <<input, user, pg, free, db, accepted, crashes>>

\* Paths and security schemes: a transaction of its own on a second
\* connection, whose failure is a warning.
ImportPaths(j) ==
  /\ free # {}
  /\ \/ UNCHANGED db
     \/ /\ \E r \in db : r.kind = "version" /\ r.by = j
        /\ db' = db \cup {Row("paths", j, loop[j].project, None)}

IncrementalPaths(j) ==
  /\ loop[j].at = "paths"
  /\ ImportPaths(j)
  /\ Leave(j, "completed")
  /\ UNCHANGED <<input, user, queue, pg, accepted, crashes>>

(* The ROLLBACK of the catch block is answered.  Mutant: it was a COMMIT. *)
UndoCommits(j) ==
  LET c == loop[j].client
  IN /\ LoopAt(j, "undo")
     /\ db' = db \cup pg[c].staged
     /\ pg' = [pg EXCEPT ![c] = Idle]
     /\ Leave(j, Verdict(j))
     /\ Answered(c)
     /\ UNCHANGED <<input, user, accepted, crashes>>
Undo(j) ==
  LET c == loop[j].client
  IN /\ LoopAt(j, "undo")
     /\ pg' = [pg EXCEPT ![c] = Idle]
     /\ Leave(j, Verdict(j))
     /\ Answered(c)
     /\ UNCHANGED <<input, user, db, accepted, crashes>>

----------------------------------------------------------------------------
(* The requests of the user.  A page sends its requests one at a time.     *)

Known(j) == job[j].state \notin {"none", "lost"} /\ user[j] = "idle"

Holds(j) == job[j].client # None /\ job[j].pending

Ask(j, what) ==
  /\ user' = [user EXCEPT ![j] = what]
  /\ queue' = [queue EXCEPT ![job[j].client] = Append(@, <<j, "user">>)]

RollbackAsked(j) == (Overlap \/ loop[j].at = "over") /\ Ask(j, "rollback")

CommitImport(j) ==
  /\ Known(j) /\ Holds(j)
  /\ job[j].state = "pending-approval"
  /\ job' = [job EXCEPT ![j].state = "committing"]
  /\ accepted' = accepted \cup {j}
  /\ Ask(j, "commit")
  /\ UNCHANGED <<input, loop, pg, free, db, crashes>>

(* COMMIT of an aborted transaction is a rollback, and no error.  Mutant: the
   job's reference is cleared before it is released. *)
CommittedClearedFirst(j) ==
  LET c == job[j].client
  IN /\ user[j] = "commit" /\ Asked(j, "user", c)
     /\ db' = db \cup pg[c].staged
     /\ pg' = [pg EXCEPT ![c] = Idle]
     /\ Answered(c)
     /\ job' = [job EXCEPT ![j].pending = FALSE, ![j].client = None]
     /\ free' = free \cup {job'[j].client}
     /\ user' = [user EXCEPT ![j] = "paths"]
     /\ UNCHANGED <<input, loop, accepted, crashes>>
Committed(j) ==
  LET c == job[j].client
  IN /\ user[j] = "commit" /\ Asked(j, "user", c)
     /\ db' = db \cup pg[c].staged
     /\ pg' = [pg EXCEPT ![c] = Idle]
     /\ Answered(c)
     /\ free' = free \cup {c}
     /\ job' = [job EXCEPT ![j].pending = FALSE, ![j].client = None]
     /\ user' = [user EXCEPT ![j] = "paths"]
     /\ UNCHANGED <<input, loop, accepted, crashes>>

\* The connection breaks under the COMMIT, which the server did or did not do.
CommitLost(j) ==
  LET c == job[j].client
  IN /\ user[j] = "commit" /\ queue[c] = <<<<j, "user">>>>
     /\ db' \in {db, db \cup pg[c].staged}
     /\ pg' = [pg EXCEPT ![c] = Idle]
     /\ Answered(c)
     /\ free' = free \cup {c}
     /\ job' = [job EXCEPT ![j].state = "failed", ![j].client = None]
     /\ user' = [user EXCEPT ![j] = "idle"]
     /\ UNCHANGED <<input, loop, accepted, crashes>>

CommitPaths(j) ==
  /\ user[j] = "paths"
  /\ ImportPaths(j)
  /\ job' = [job EXCEPT ![j].state = "completed"]
  /\ user' = [user EXCEPT ![j] = "idle"]
  /\ UNCHANGED <<input, loop, queue, pg, free, accepted, crashes>>

RollbackImport(j) ==
  /\ Known(j)
  /\ job[j].state \in {"pending-approval", "running"}
  /\ IF Holds(j)
     THEN RollbackAsked(j) /\ UNCHANGED job
     ELSE /\ job' = [job EXCEPT ![j].state = "rolled-back"]
          /\ UNCHANGED <<user, queue>>
  /\ UNCHANGED <<input, loop, pg, free, db, accepted, crashes>>

CancelImport(j) ==
  /\ Known(j)
  /\ job' = [job EXCEPT ![j].canceled = TRUE]
  /\ IF Holds(j) /\ job[j].state \in {"pending-approval", "running"}
     THEN RollbackAsked(j)
     ELSE UNCHANGED <<user, queue>>
  /\ UNCHANGED <<input, loop, pg, free, db, accepted, crashes>>

\* By now the loop may have given the connection back: then the release
\* throws and the state of the job stays.
RolledBack(j) ==
  \E c \in Clients :
    /\ user[j] = "rollback" /\ Asked(j, "user", c)
    /\ pg' = [pg EXCEPT ![c] = Idle]
    /\ Answered(c)
    /\ IF job[j].client \in {None} \cup free
       THEN job' = [job EXCEPT ![j].pending = FALSE] /\ UNCHANGED free
       ELSE /\ job' = [job EXCEPT ![j] = [state |-> "rolled-back", canceled |-> TRUE,
                                          pending |-> FALSE, client |-> None]]
            /\ free' = free \cup {job[j].client}
    /\ user' = [user EXCEPT ![j] = "idle"]
    /\ UNCHANGED <<input, loop, db, accepted, crashes>>

\* The whole project goes, once no open transaction has a row in it.
RollbackCompleted(j) ==
  LET p == loop[j].project
  IN /\ Known(j) /\ free # {}
     /\ job[j].state = "completed" /\ p # None
     /\ \A c \in Clients : \A r \in pg[c].staged : r.project # p
     /\ db' = {r \in db : r.project # p}
     /\ job' = [job EXCEPT ![j].state = "rolled-back"]
     /\ UNCHANGED <<input, loop, user, queue, pg, free, accepted, crashes>>

\* The process restarts: the jobs are forgotten, open transactions undone.
Crash ==
  /\ crashes < MaxCrashes
  /\ crashes' = crashes + 1
  /\ job' = [j \in Jobs |-> IF job[j].state = "none" THEN NoJob ELSE [NoJob EXCEPT !.state = "lost"]]
  /\ loop' = [j \in Jobs |-> IF job[j].state = "none" THEN NoLoop ELSE [NoLoop EXCEPT !.at = "over"]]
  /\ user' = [j \in Jobs |-> "idle"]
  /\ queue' = [c \in Clients |-> <<>>]
  /\ pg' = [c \in Clients |-> Idle]
  /\ free' = Clients
  /\ UNCHANGED <<input, db, accepted>>

LoopStep(j) ==
  \/ Connect(j) \/ BeginTransaction(j) \/ FindProject(j) \/ MergeProject(j)
  \/ CreateProject(j) \/ CreateVersion(j) \/ LookupVersion(j) \/ BuildLibrary(j)
  \/ WriteClass(j) \/ Verify(j) \/ IncrementalPaths(j) \/ Undo(j)

AnswerStep(j) == Committed(j) \/ CommitPaths(j) \/ RolledBack(j)

UserStep(j) == CommitImport(j) \/ RollbackImport(j) \/ CancelImport(j) \/ RollbackCompleted(j)

Next ==
  \/ \E j \in Jobs, i \in Inputs : Start(j, i)
  \/ \E j, k \in Jobs : Retry(j, k)
  \/ \E j \in Jobs : LoopStep(j) \/ AnswerStep(j) \/ UserStep(j) \/ CommitLost(j)
  \/ Crash

Spec == Init /\ [][Next]_vars
FairSpec == Spec /\ \A j \in Jobs : WF_vars(LoopStep(j)) /\ WF_vars(AnswerStep(j))

----------------------------------------------------------------------------
(* Properties.                                                             *)

InTransaction(j) == input[j].mode = "transaction"

\* The connections a job may still put a query on, or release.
Uses(j) ==
  (IF loop[j].at \in {"none", "connect", "over"} THEN {} ELSE {loop[j].client})
    \cup ({job[j].client} \ {None})

\* Two imports never share a connection, and none goes on using one it has
\* given back: otherwise one import's COMMIT would save another's writes.
OneImportPerConnection ==
  \A j \in Jobs : /\ Uses(j) \cap free = {}
                   /\ \A k \in Jobs \ {j} : Uses(j) \cap Uses(k) = {}

Whole(j) == {input[j].line} \cup {input[j].names[k] : k \in DOMAIN input[j].names}

Written(j, rows) == {r.name : r \in {s \in rows : s.by = j /\ s.kind \in {"version", "class"}}}

\* What waits for the user's approval is a transaction that holds the whole
\* document, or one the database has already given up, and nothing else.
ApprovalIsBacked ==
  \A j \in Jobs : job[j].state = "pending-approval" =>
    /\ Holds(j)
    /\ \/ Aborted(job[j].client)
       \/ user[j] = "rollback"
       \/ /\ pg[job[j].client].tx = "open"
          /\ Written(j, pg[job[j].client].staged) = Whole(j)
          /\ \A r \in pg[job[j].client].staged : r.by = j

\* In transaction mode no row of an import is saved, its project and the
\* merged metadata included, unless the user accepted it and all of it is.
SavedIsAcceptedAndWhole ==
  \A r \in db : (r.by \in Jobs /\ InTransaction(r.by)) =>
    r.by \in accepted /\ Written(r.by, db) = Whole(r.by)

\* The imports of transaction mode are what AtomicImport promises.
Promise == INSTANCE AtomicImport WITH
  Imports  <- Jobs,
  Items    <- UNION {{i.line} \cup {i.names[k] : k \in DOMAIN i.names} : i \in Inputs},
  wanted   <- [j \in Jobs |-> IF InTransaction(j) THEN Whole(j) ELSE {}],
  accepted <- accepted,
  content  <- [j \in Jobs |-> IF InTransaction(j) THEN Written(j, db) ELSE {}]

RefinesAtomicImport == Promise!Spec

\* With more connections than imports, a loop that runs comes to an end,
\* unless it waits for rows of an import whose user has not decided yet.
RunningSettles ==
  \A j \in Jobs : job[j].state = "running" ~>
    (job[j].state # "running" \/ \E k \in Jobs : job[k].state = "pending-approval")

\* An import that says it is completed has its revision in the catalog.
CompletedIsSaved ==
  \A j \in Jobs : (InTransaction(j) /\ job[j].state = "completed") =>
    \E r \in db : r.kind = "version" /\ r.by = j

\* In transaction mode nothing is saved of an import nobody has accepted.
OnlyAcceptedIsSaved ==
  \A r \in db : (r.by \in Jobs /\ InTransaction(r.by)) => r.by \in accepted
=============================================================================
