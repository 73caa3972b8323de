------------------------ MODULE DashboardImportProofs -------------------------
(***************************************************************************)
(* Proofs about DashboardImport for any jobs, connections and documents,   *)
(* where a reject or cancel does not overtake a running loop (~Overlap).   *)
(*                                                                         *)
(* Every connection has one owner at most (Owned), the job whose client it *)
(* is: so who waits for an answer (Place), what the transaction holds      *)
(* (Stage) and what of the import is saved (Saved) can be said job by job, *)
(* and a step of one job leaves the others' parts alone (OneJob).          *)
(***************************************************************************)
EXTENDS DashboardImport, TLAPS

Mine(j, R) == {r \in R : r.by = j}

Asking == Ats \ {"none", "connect", "paths", "over"}

Place(j) ==
  LET at == loop[j].at
      c == job[j].client
  IN /\ at = "none" <=> job[j].state = "none"
     /\ at \in {"none", "connect"} =>
          c = None /\ user[j] = "idle" /\ ~job[j].pending /\ Mine(j, db) = {}
     /\ at \notin {"none", "over"} => input[j].mode \in {"transaction", "incremental"}
     /\ IF at = "none" THEN input[j] = NoInput ELSE input[j] \in Inputs
     /\ at \in Asking =>
          c # None /\ c = loop[j].client /\ user[j] = "idle" /\ queue[c] = <<<<j, "loop">>>>
     /\ at = "paths" =>
          c # None /\ c = loop[j].client /\ user[j] = "idle" /\ queue[c] = <<>> /\ ~InTransaction(j)
     /\ at = "over" /\ c # None =>
          queue[c] = IF user[j] \in {"commit", "rollback"} THEN <<<<j, "user">>>> ELSE <<>>
     /\ user[j] \in {"commit", "rollback"} => at = "over" /\ c # None
     /\ user[j] = "paths" => at = "over" /\ c = None
     /\ user[j] \in {"commit", "paths"} => job[j].state = "committing"
     /\ job[j].state = "pending-approval" => at = "over" /\ c # None

\* What an open transaction holds of the document, by where the loop is.
Wrote(j, l, rows) ==
  /\ l.at \in {"merge", "version"} => Written(j, rows) = {}
  /\ l.at = "library" => Written(j, rows) = {input[j].line}
  /\ l.at = "class" =>
       Written(j, rows) = {input[j].line} \cup {input[j].names[k] : k \in 1..l.done}
  /\ l.at \in {"verify", "over"} => Written(j, rows) = Whole(j)

Progress(j) == Wrote(j, loop[j], pg[job[j].client].staged)

Stage(j) ==
  LET at == loop[j].at
      c == job[j].client
  IN /\ c # None =>
          /\ job[j].pending <=> pg[c].tx # "idle"
          /\ \A r \in pg[c].staged : r.by = j /\ (at # "undo" => r.project = loop[j].project)
          /\ job[j].pending <=> (InTransaction(j) /\ at # "begin")
          /\ pg[c].tx = "open" => Progress(j)
          /\ at = "lookup" => pg[c].tx # "open"
          /\ at \in {"begin", "undo", "over"} => InTransaction(j)
          /\ at \in {"begin", "find", "project"} => pg[c].staged = {}
     /\ at = "class" => loop[j].done < Len(input[j].names)
     /\ at \in {"merge", "version", "lookup", "library", "class", "verify", "paths"}
          \/ (at = "over" /\ c # None) \/ user[j] = "paths" => loop[j].project \in Projects

Saved(j) ==
  /\ user[j] = "commit" => j \in accepted
  /\ InTransaction(j) =>
       /\ loop[j].at # "over" \/ job[j].client # None => Mine(j, db) = {}
       /\ Mine(j, db) # {} => j \in accepted /\ Written(j, db) = Whole(j)
       /\ \A r, s \in Mine(j, db) : r.project = s.project
       /\ user[j] = "paths" => \A r \in Mine(j, db) : r.project = loop[j].project

Owned ==
  /\ \A j \in Jobs : job[j].client \notin free
  /\ \A j, k \in Jobs : j # k /\ job[j].client # None => job[j].client # job[k].client
  /\ \A c \in Clients : (\A j \in Jobs : job[j].client # c) => pg[c] = Idle /\ queue[c] = <<>>
  /\ \A c \in Clients : pg[c].tx # "open" => pg[c].staged = {}

IInv == TypeOK /\ Owned /\ \A j \in Jobs : Place(j) /\ Stage(j) /\ Saved(j)

-----------------------------------------------------------------------------
(* Types.                                                                  *)

JobOf  == [state : States, canceled : BOOLEAN, pending : BOOLEAN, client : Clients \cup {None}]
LoopOf == [at : Ats, client : Clients \cup {None}, project : Projects \cup {None}, done : Nat]
PgOf   == [tx : {"idle", "open", "aborted"}, staged : SUBSET Rows]

LEMMA Types ==
  TypeOK <=> /\ input \in [Jobs -> Inputs \cup {NoInput}] /\ job \in [Jobs -> JobOf]
             /\ loop \in [Jobs -> LoopOf] /\ user \in [Jobs -> {"idle", "commit", "rollback", "paths"}]
             /\ queue \in [Clients -> Seq(Jobs \X {"loop", "user"})] /\ pg \in [Clients -> PgOf]
             /\ free \subseteq Clients /\ db \subseteq Rows /\ accepted \subseteq Jobs
             /\ crashes \in 0..MaxCrashes
  BY DEF TypeOK, JobOf, LoopOf, PgOf

LEMMA TypesPrimed ==
  TypeOK' <=> /\ input' \in [Jobs -> Inputs \cup {NoInput}] /\ job' \in [Jobs -> JobOf]
              /\ loop' \in [Jobs -> LoopOf] /\ user' \in [Jobs -> {"idle", "commit", "rollback", "paths"}]
              /\ queue' \in [Clients -> Seq(Jobs \X {"loop", "user"})] /\ pg' \in [Clients -> PgOf]
              /\ free' \subseteq Clients /\ db' \subseteq Rows /\ accepted' \subseteq Jobs
              /\ crashes' \in 0..MaxCrashes
  BY DEF TypeOK, JobOf, LoopOf, PgOf

LEMMA RowTypes ==
  ASSUME NEW r \in Rows
  PROVE  r.project \in Projects /\ r.by \in Projects
  BY DEF Rows

\* A row of an import is one the catalog can hold.
LEMMA MetaRow ==
  ASSUME NEW kind \in {"project", "meta", "paths"}, NEW j \in Jobs, NEW p \in Projects
  PROVE  /\ Row(kind, j, p, None) \in Rows
         /\ Row(kind, j, p, None).by = j /\ Row(kind, j, p, None).project = p
         /\ Row(kind, j, p, None).kind = kind
  BY DEF Row, Rows, Projects

LEMMA NamedRow ==
  ASSUME NEW kind \in {"version", "class"}, NEW j \in Jobs, NEW p \in Projects,
         NEW i \in Inputs \cup {NoInput},
         NEW name, name = i.line \/ \E k \in DOMAIN i.names : name = i.names[k]
  PROVE  /\ Row(kind, j, p, name) \in Rows
         /\ Row(kind, j, p, name).by = j /\ Row(kind, j, p, name).project = p
         /\ Row(kind, j, p, name).kind = kind /\ Row(kind, j, p, name).name = name
<1> DEFINE names == {None, GivenLine} \cup {x.line : x \in Inputs}
                      \cup UNION {{x.names[k] : k \in DOMAIN x.names} : x \in Inputs}
<1>1. name \in names
  <2>1. CASE i \in Inputs
    BY <2>1
  <2>2. CASE i = NoInput
    <3>1. i.line = None /\ DOMAIN i.names = {}
      BY <2>2 DEF NoInput
    <3>2. QED
      BY <3>1
  <2>3. QED
    BY <2>1, <2>2
<1> HIDE DEF names
<1>2. Rows = [kind : {"project", "meta", "version", "class", "paths"}, by : Projects,
              project : Projects, name : names]
  BY DEF Rows, names
<1>3. QED
  BY <1>1, <1>2 DEF Row, Projects

LEMMA WrittenMine ==
  ASSUME NEW j, NEW R, NEW S, Mine(j, R) = Mine(j, S)
  PROVE  Written(j, R) = Written(j, S)
<1>1. \A T : {s \in T : s.by = j /\ s.kind \in {"version", "class"}}
              = {s \in Mine(j, T) : s.kind \in {"version", "class"}}
  BY DEF Mine
<1>2. QED
  BY <1>1 DEF Written

LEMMA NamesAreSequences ==
  ASSUME TypeOK, NEW j \in Jobs
  PROVE  /\ Len(input[j].names) \in Nat /\ DOMAIN input[j].names = 1..Len(input[j].names)
         /\ input[j] \in Inputs \cup {NoInput}
<1>1. input[j] \in Inputs \cup {NoInput}
  BY DEF TypeOK
<1>2. \E S : input[j].names \in Seq(S)
  <2>1. CASE input[j] \in Inputs
    BY <2>1, InputsAssumption
  <2>2. CASE input[j] = NoInput
    <3>1. input[j].names = <<>> /\ <<>> \in Seq({})
      BY <2>2 DEF NoInput
    <3>2. QED
      BY <3>1
  <2>3. QED
    BY <1>1, <2>1, <2>2
<1>3. QED
  BY <1>1, <1>2

-----------------------------------------------------------------------------
(* The parts of a step.                                                    *)

\* What a step of another job leaves as it is.
LEMMA Frame ==
  ASSUME NEW k \in Jobs, Place(k), Stage(k), Saved(k),
         input'[k] = input[k], job'[k] = job[k], loop'[k] = loop[k], user'[k] = user[k],
         job[k].client # None => /\ queue'[job[k].client] = queue[job[k].client]
                                 /\ pg'[job[k].client] = pg[job[k].client],
         Mine(k, db') = Mine(k, db), k \in accepted => k \in accepted'
  PROVE  Place(k)' /\ Stage(k)' /\ Saved(k)'
<1>1. InTransaction(k)' = InTransaction(k) /\ Whole(k)' = Whole(k)
  BY DEF InTransaction, Whole
<1>2. Place(k)'
  BY <1>1 DEF Place, Mine
<1>3. Stage(k)'
  <2>1. ASSUME job[k].client # None
        PROVE  Progress(k)' <=> Progress(k)
    <3>1. pg'[job'[k].client].staged = pg[job[k].client].staged
      BY <2>1
    <3>2. Written(k, pg[job[k].client].staged)' = Written(k, pg'[job'[k].client].staged)
      BY DEF Written
    <3>3. Written(k, pg[job[k].client].staged)' = Written(k, pg[job[k].client].staged)
      BY <3>1, <3>2
    <3>4. QED
      BY <1>1, <3>3 DEF Progress, Wrote
  <2>2. QED
    BY <1>1, <2>1 DEF Stage
<1>4. Saved(k)'
  <2>1. Written(k, db') = Written(k, db)
    BY WrittenMine
  <2>2. Written(k, db)' = Written(k, db')
    BY DEF Written
  <2>3. QED
    BY <1>1, <2>1, <2>2 DEF Saved, Mine
<1>5. QED
  BY <1>2, <1>3, <1>4

\* A step of one job.
LEMMA OneJob ==
  ASSUME IInv, NEW j \in Jobs, TypeOK', Owned', Place(j)', Stage(j)', Saved(j)',
         \A k \in Jobs \ {j} : /\ input'[k] = input[k] /\ job'[k] = job[k]
                               /\ loop'[k] = loop[k] /\ user'[k] = user[k]
                               /\ Mine(k, db') = Mine(k, db),
         accepted \subseteq accepted',
         \A d \in Clients : d # job[j].client /\ d # job'[j].client =>
                              queue'[d] = queue[d] /\ pg'[d] = pg[d]
  PROVE  IInv'
<1> SUFFICES ASSUME NEW k \in Jobs PROVE Place(k)' /\ Stage(k)' /\ Saved(k)'
  BY DEF IInv
<1>1. CASE k = j
  BY <1>1
<1>2. CASE k # j
  <2>1. job'[k] = job[k] /\ Place(k) /\ Stage(k) /\ Saved(k)
    BY <1>2 DEF IInv
  <2>2. job[k].client # None => /\ job[k].client \in Clients
                                /\ job[k].client # job[j].client
                                /\ job[k].client # job'[j].client
    BY <1>2, <2>1, Types DEF IInv, JobOf, Owned
  <2>3. QED
    BY <1>2, <2>1, <2>2, Frame
<1>3. QED
  BY <1>1, <1>2

\* The connections keep their owners.
LEMMA OwnedStay ==
  ASSUME IInv, NEW j \in Jobs, job[j].client \in Clients, free' = free,
         \A k \in Jobs : job'[k].client = job[k].client,
         \A d \in Clients \ {job[j].client} : queue'[d] = queue[d] /\ pg'[d] = pg[d],
         pg'[job[j].client].tx # "open" => pg'[job[j].client].staged = {}
  PROVE  Owned'
<1>1. Owned
  BY DEF IInv
<1>2. \A d \in Clients : (\A k \in Jobs : job'[k].client # d) => pg'[d] = Idle /\ queue'[d] = <<>>
  BY <1>1 DEF Owned
<1>3. \A d \in Clients : pg'[d].tx # "open" => pg'[d].staged = {}
  BY <1>1 DEF Owned
<1>4. Idle' = Idle
  BY DEF Idle
<1>5. QED
  BY <1>1, <1>2, <1>3, <1>4 DEF Owned

\* A connection goes back to the pool.
LEMMA OwnedLess ==
  ASSUME IInv, NEW j \in Jobs, job[j].client \in Clients, free' = free \cup {job[j].client},
         job'[j].client = None, \A k \in Jobs \ {j} : job'[k].client = job[k].client,
         \A d \in Clients \ {job[j].client} : queue'[d] = queue[d] /\ pg'[d] = pg[d],
         pg'[job[j].client] = Idle, queue'[job[j].client] = <<>>
  PROVE  Owned'
<1> DEFINE c == job[j].client
<1>1. Owned /\ free \subseteq Clients /\ None \notin Clients
  BY NamesAssumption DEF IInv, TypeOK
<1>2. \A k \in Jobs : job'[k].client \notin free'
  BY <1>1 DEF Owned
<1>3. \A k, l \in Jobs : k # l /\ job'[k].client # None => job'[k].client # job'[l].client
  BY <1>1 DEF Owned
<1>4. \A d \in Clients : (\A k \in Jobs : job'[k].client # d) => pg'[d] = Idle /\ queue'[d] = <<>>
  <2> SUFFICES ASSUME NEW d \in Clients, d # c, \A k \in Jobs : job'[k].client # d
               PROVE  pg'[d] = Idle /\ queue'[d] = <<>>
    OBVIOUS
  <2>1. \A k \in Jobs : job[k].client # d
    OBVIOUS
  <2>2. QED
    BY <1>1, <2>1 DEF Owned
<1>5. \A d \in Clients : pg'[d].tx # "open" => pg'[d].staged = {}
  BY <1>1 DEF Owned, Idle
<1>6. Idle' = Idle
  BY DEF Idle
<1>7. QED
  BY <1>2, <1>3, <1>4, <1>5, <1>6 DEF Owned

\* An import takes an idle connection.
LEMMA OwnedMore ==
  ASSUME IInv, NEW j \in Jobs, NEW c \in free, job[j].client = None, free' = free \ {c},
         job'[j].client = c, \A k \in Jobs \ {j} : job'[k].client = job[k].client,
         \A d \in Clients \ {c} : queue'[d] = queue[d], pg' = pg
  PROVE  Owned'
<1>1. Owned /\ c \in Clients /\ \A k \in Jobs : job[k].client # c
  BY DEF IInv, TypeOK, Owned
<1>2. \A k \in Jobs : job'[k].client \notin free'
  BY <1>1 DEF Owned
<1>3. \A k, l \in Jobs : k # l /\ job'[k].client # None => job'[k].client # job'[l].client
  BY <1>1 DEF Owned
<1>4. \A d \in Clients : (\A k \in Jobs : job'[k].client # d) => pg'[d] = Idle /\ queue'[d] = <<>>
  <2> SUFFICES ASSUME NEW d \in Clients, \A k \in Jobs : job'[k].client # d
               PROVE  pg'[d] = Idle /\ queue'[d] = <<>>
    OBVIOUS
  <2>1. d # c /\ \A k \in Jobs : job[k].client # d
    BY NamesAssumption
  <2>2. QED
    BY <1>1, <2>1 DEF Owned
<1>5. \A d \in Clients : pg'[d].tx # "open" => pg'[d].staged = {}
  BY <1>1 DEF Owned
<1>6. Idle' = Idle
  BY DEF Idle
<1>7. QED
  BY <1>2, <1>3, <1>4, <1>5, <1>6 DEF Owned

-----------------------------------------------------------------------------
(* What a query of an import does to the database.                         *)

DbStep(j) ==
  LET c == job[j].client
  IN /\ pg' \in [Clients -> PgOf] /\ db' \subseteq Rows
     /\ \A d \in Clients \ {c} : pg'[d] = pg[d]
     /\ pg'[c].tx # "open" => pg'[c].staged = {}
     /\ \A k \in Jobs \ {j} : Mine(k, db') = Mine(k, db)
     /\ InTransaction(j) => Mine(j, db') = {}

KeepsTx(j) ==
  LET c == job[j].client
  IN /\ pg'[c].tx = "idle" <=> pg[c].tx = "idle"
     /\ \A r \in pg'[c].staged : r.by = j

\* What is known of an import whose query is answered.
LEMMA AskingFacts ==
  ASSUME IInv, NEW j \in Jobs, loop[j].at \in Asking
  PROVE  /\ job[j].client = loop[j].client /\ job[j].client \in Clients
         /\ job[j].client \notin free /\ job[j].client # None
         /\ queue[job[j].client] = <<<<j, "loop">>>> /\ user[j] = "idle"
         /\ job[j].state \notin {"none", "pending-approval"}
         /\ input[j] \in Inputs /\ input[j].mode \in {"transaction", "incremental"}
         /\ job[j] \in JobOf /\ loop[j] \in LoopOf /\ pg[job[j].client] \in PgOf
         /\ InTransaction(j) => Mine(j, db) = {}
<1>1. TypeOK /\ Owned /\ Place(j) /\ Saved(j)
  BY DEF IInv
<1>2. job[j] \in JobOf /\ loop[j] \in LoopOf
  BY <1>1, Types
<1>3. loop[j].at \notin {"none", "connect", "paths", "over"}
  BY DEF Asking
<1>4. job[j].client = loop[j].client /\ job[j].client \in Clients
  BY <1>1, <1>2, <1>3 DEF Place, JobOf
<1>5. pg[job[j].client] \in PgOf /\ job[j].client \notin free
  BY <1>1, <1>4, Types DEF Owned
<1>6. InTransaction(j) => Mine(j, db) = {}
  BY <1>1, <1>3 DEF Saved
<1>7. QED
  BY <1>1, <1>2, <1>3, <1>4, <1>5, <1>6 DEF Place

LEMMA StageFacts ==
  ASSUME IInv, NEW j \in Jobs, loop[j].at \in Asking
  PROVE  LET c == job[j].client
             at == loop[j].at
         IN /\ job[j].pending <=> pg[c].tx # "idle"
            /\ job[j].pending <=> (InTransaction(j) /\ at # "begin")
            /\ \A r \in pg[c].staged : r.by = j /\ (at # "undo" => r.project = loop[j].project)
            /\ pg[c].tx # "open" => pg[c].staged = {}
<1>1. Stage(j) /\ Owned /\ job[j].client # None /\ job[j].client \in Clients
  BY AskingFacts DEF IInv
<1>2. QED
  BY <1>1 DEF Stage, Owned

LEMMA NoWrite ==
  ASSUME IInv, NEW j \in Jobs, loop[j].at \in Asking, pg' = pg, db' = db
  PROVE  DbStep(j) /\ KeepsTx(j)
<1>1. pg \in [Clients -> PgOf] /\ db \subseteq Rows
  BY Types DEF IInv
<1>2. QED
  BY <1>1, AskingFacts, StageFacts DEF DbStep, KeepsTx

LEMMA FailsEffect ==
  ASSUME IInv, NEW j \in Jobs, loop[j].at \in Asking, Fails(job[j].client)
  PROVE  DbStep(j) /\ KeepsTx(j) /\ pg'[job[j].client].tx # "open" /\ pg'[job[j].client].staged = {}
<1> DEFINE c == job[j].client
           new == IF pg[c].tx = "idle" THEN pg[c] ELSE [tx |-> "aborted", staged |-> {}]
<1>1. /\ pg \in [Clients -> PgOf] /\ db \subseteq Rows /\ c \in Clients /\ pg[c] \in PgOf
      /\ pg[c].tx # "open" => pg[c].staged = {}
  BY Types, AskingFacts, StageFacts DEF IInv
<1>2. pg' = [pg EXCEPT ![c] = new] /\ db' = db
  BY DEF Fails
<1>3. new \in PgOf /\ new.tx # "open" /\ new.staged = {} /\ (new.tx = "idle" <=> pg[c].tx = "idle")
  BY <1>1 DEF PgOf
<1> HIDE DEF new
<1>4. pg' \in [Clients -> PgOf] /\ pg'[c] = new /\ \A d \in Clients \ {c} : pg'[d] = pg[d]
  BY <1>1, <1>2, <1>3
<1>5. QED
  BY <1>1, <1>2, <1>3, <1>4, AskingFacts DEF DbStep, KeepsTx

LEMMA WriteEffect ==
  ASSUME IInv, NEW j \in Jobs, loop[j].at \in Asking \ {"begin"}, NEW row \in Rows, row.by = j,
         ~Aborted(job[j].client), Write(job[j].client, row)
  PROVE  /\ DbStep(j) /\ KeepsTx(j)
         /\ pg'[job[j].client].tx = pg[job[j].client].tx
         /\ IF pg[job[j].client].tx = "open"
            THEN pg'[job[j].client].staged = pg[job[j].client].staged \cup {row}
            ELSE pg'[job[j].client].staged = {}
<1> DEFINE c == job[j].client
<1>1. /\ pg \in [Clients -> PgOf] /\ db \subseteq Rows /\ c \in Clients /\ pg[c] \in PgOf
      /\ pg[c].tx # "open" => pg[c].staged = {}
      /\ InTransaction(j) => pg[c].tx # "idle" /\ Mine(j, db) = {}
      /\ \A r \in pg[c].staged : r.by = j
  BY Types, AskingFacts, StageFacts DEF IInv
<1>2. CASE pg[c].tx = "open"
  <2> DEFINE new == [pg[c] EXCEPT !.staged = @ \cup {row}]
  <2>1. pg' = [pg EXCEPT ![c] = new] /\ db' = db
    BY <1>2 DEF Write
  <2>2. new \in PgOf /\ new.tx = "open" /\ new.staged = pg[c].staged \cup {row}
    BY <1>1, <1>2 DEF PgOf
  <2> HIDE DEF new
  <2>3. pg' \in [Clients -> PgOf] /\ pg'[c] = new /\ \A d \in Clients \ {c} : pg'[d] = pg[d]
    BY <1>1, <2>1, <2>2
  <2>4. QED
    BY <1>1, <1>2, <2>1, <2>2, <2>3 DEF DbStep, KeepsTx
<1>3. CASE pg[c].tx # "open"
  <2>1. pg' = pg /\ db' = db \cup {row}
    BY <1>3 DEF Write
  <2>2. pg[c].tx \in {"idle", "open", "aborted"}
    BY <1>1 DEF PgOf
  <2>3. ~InTransaction(j)
    BY <1>1, <1>3, <2>2 DEF Aborted
  <2>4. \A k \in Jobs \ {j} : Mine(k, db') = Mine(k, db)
    BY <2>1 DEF Mine
  <2>5. QED
    BY <1>1, <1>3, <2>1, <2>3, <2>4 DEF DbStep, KeepsTx
<1>4. QED
  BY <1>2, <1>3

-----------------------------------------------------------------------------
(* How a step of a loop ends: with the next query, or back in the pool.    *)

LEMMA AskAgain ==
  ASSUME IInv, NEW j \in Jobs, loop[j].at \in Asking, AnsweredAsk(j, loop[j].client)
  PROVE  /\ queue' \in [Clients -> Seq(Jobs \X {"loop", "user"})]
         /\ queue'[job[j].client] = <<<<j, "loop">>>>
         /\ \A d \in Clients \ {job[j].client} : queue'[d] = queue[d]
<1> DEFINE c == job[j].client
<1>1. /\ queue \in [Clients -> Seq(Jobs \X {"loop", "user"})] /\ c \in Clients
      /\ queue[c] = <<<<j, "loop">>>> /\ c = loop[j].client
  BY Types, AskingFacts DEF IInv
<1>2. Append(Tail(queue[c]), <<j, "loop">>) = <<<<j, "loop">>>>
  BY <1>1
<1>3. <<<<j, "loop">>>> \in Seq(Jobs \X {"loop", "user"})
  OBVIOUS
<1>4. queue' = [queue EXCEPT ![c] = <<<<j, "loop">>>>]
  BY <1>1, <1>2 DEF AnsweredAsk
<1>5. QED
  BY <1>1, <1>3, <1>4

LEMMA AnswerLast ==
  ASSUME IInv, NEW j \in Jobs, NEW c \in Clients, NEW who \in {"loop", "user"},
         queue[c] = <<<<j, who>>>>, Answered(c)
  PROVE  /\ queue' \in [Clients -> Seq(Jobs \X {"loop", "user"})]
         /\ queue'[c] = <<>>
         /\ \A d \in Clients \ {c} : queue'[d] = queue[d]
<1>1. queue \in [Clients -> Seq(Jobs \X {"loop", "user"})]
  BY Types DEF IInv
<1>2. Tail(queue[c]) = <<>> /\ <<>> \in Seq(Jobs \X {"loop", "user"})
  OBVIOUS
<1>3. queue' = [queue EXCEPT ![c] = <<>>]
  BY <1>2 DEF Answered
<1>4. QED
  BY <1>1, <1>2, <1>3

LEMMA GotoStep ==
  ASSUME IInv, NEW j \in Jobs, loop[j].at \in Asking,
         NEW next \in LoopOf, next.at \in Asking, next.client = loop[j].client,
         loop' = [loop EXCEPT ![j] = next], AnsweredAsk(j, loop[j].client),
         job' \in [Jobs -> JobOf], job'[j].client = job[j].client,
         job'[j].state = job[j].state, \A k \in Jobs \ {j} : job'[k] = job[k],
         DbStep(j), Stage(j)', UNCHANGED <<input, user, free, accepted, crashes>>
  PROVE  IInv'
<1>1. /\ loop' \in [Jobs -> LoopOf] /\ loop'[j] = next
      /\ \A k \in Jobs \ {j} : loop'[k] = loop[k]
  BY Types DEF IInv
<1>2. TypeOK'
  BY <1>1, Types, TypesPrimed, AskAgain DEF IInv, DbStep
<1>3. Owned'
  <2>1. \A k \in Jobs : job'[k].client = job[k].client
    OBVIOUS
  <2>2. /\ job[j].client \in Clients
        /\ \A d \in Clients \ {job[j].client} : queue'[d] = queue[d]
    BY AskingFacts, AskAgain
  <2>3. QED
    BY <2>1, <2>2, OwnedStay DEF DbStep
<1>4. Place(j)'
  <2>1. next.at \notin {"none", "connect", "paths", "over"} /\ loop[j].at # "none"
    BY DEF Asking
  <2>2. QED
    BY <1>1, <2>1, AskingFacts, AskAgain DEF Place
<1>5. Saved(j)'
  <2>1. InTransaction(j)' <=> InTransaction(j)
    BY DEF InTransaction
  <2>2. Mine(j, db)' = Mine(j, db')
    BY DEF Mine
  <2>3. InTransaction(j) => Mine(j, db') = {}
    BY DEF DbStep
  <2>4. user'[j] = "idle"
    BY AskingFacts
  <2>5. QED
    BY <2>1, <2>2, <2>3, <2>4 DEF Saved
<1>6. QED
  BY <1>1, <1>2, <1>3, <1>4, <1>5, AskAgain, AskingFacts, OneJob DEF DbStep

\* The import is over and its connection idle.
LEMMA LeaveStep ==
  ASSUME IInv, NEW j \in Jobs, loop[j].at \in Asking \cup {"paths"},
         NEW state \in {"completed", "failed", "canceled"}, Leave(j, state),
         queue' \in [Clients -> Seq(Jobs \X {"loop", "user"})], queue'[job[j].client] = <<>>,
         \A d \in Clients \ {job[j].client} : queue'[d] = queue[d],
         DbStep(j), pg'[job[j].client] = Idle, UNCHANGED <<input, user, accepted, crashes>>
  PROVE  IInv'
<1> DEFINE c == job[j].client
<1>1. /\ c = loop[j].client /\ c \in Clients /\ c \notin free /\ user[j] = "idle"
      /\ loop[j] \in LoopOf /\ job[j] \in JobOf /\ job[j].state # "none"
      /\ loop \in [Jobs -> LoopOf] /\ job \in [Jobs -> JobOf]
      /\ input[j] \in Inputs /\ loop[j].at \notin {"none", "over"}
  <2>1. loop[j].at # "none" /\ loop[j].at # "over"
    BY DEF Asking
  <2>2. Place(j) /\ Owned /\ TypeOK
    BY DEF IInv
  <2>3. loop \in [Jobs -> LoopOf] /\ job \in [Jobs -> JobOf]
    BY <2>2, Types
  <2>4. c = loop[j].client /\ c # None /\ user[j] = "idle"
    BY <2>2, AskingFacts DEF Place
  <2>5. c \in Clients
    BY <2>3, <2>4 DEF JobOf
  <2>6. QED
    BY <2>1, <2>2, <2>3, <2>4, <2>5 DEF Place, Owned
<1>2. /\ free' = free \cup {c}
      /\ loop' = [loop EXCEPT ![j] = [loop[j] EXCEPT !.at = "over"]]
      /\ job' = [job EXCEPT ![j] = [job[j] EXCEPT !.state = state, !.pending = FALSE,
                                                  !.client = None]]
  BY <1>1 DEF Leave
<1>3. /\ [loop[j] EXCEPT !.at = "over"] \in LoopOf
      /\ [job[j] EXCEPT !.state = state, !.pending = FALSE, !.client = None] \in JobOf
  BY <1>1 DEF LoopOf, JobOf, Ats, States
<1>4. /\ loop' \in [Jobs -> LoopOf] /\ job' \in [Jobs -> JobOf]
      /\ loop'[j].at = "over" /\ job'[j].client = None /\ job'[j].state = state
      /\ \A k \in Jobs \ {j} : job'[k] = job[k] /\ loop'[k] = loop[k]
  BY <1>1, <1>2, <1>3 DEF LoopOf, JobOf
<1>5. TypeOK'
  BY <1>1, <1>2, <1>4, Types, TypesPrimed DEF IInv, DbStep
<1>6. Owned'
  BY <1>1, <1>2, <1>4, OwnedLess DEF DbStep
<1>7. Place(j)'
  <2>1. /\ user'[j] = "idle" /\ input'[j] \in Inputs
        /\ job'[j].state \notin {"none", "pending-approval"}
    BY <1>1, <1>4
  <2>2. QED
    BY <1>4, <2>1 DEF Place, Asking
<1>8. Stage(j)'
  BY <1>1, <1>4 DEF Stage
<1>9. Saved(j)'
  <2>1. InTransaction(j)' <=> InTransaction(j)
    BY DEF InTransaction
  <2>2. Mine(j, db)' = Mine(j, db')
    BY DEF Mine
  <2>3. InTransaction(j) => Mine(j, db') = {}
    BY DEF DbStep
  <2>4. QED
    BY <1>1, <2>1, <2>2, <2>3 DEF Saved
<1>10. QED
  BY <1>1, <1>4, <1>5, <1>6, <1>7, <1>8, <1>9, OneJob DEF DbStep

LEMMA ThrowStep ==
  ASSUME IInv, NEW j \in Jobs, loop[j].at \in Asking, Throw(j), DbStep(j), KeepsTx(j),
         UNCHANGED <<input, user, accepted, crashes>>
  PROVE  IInv'
<1> DEFINE c == job[j].client
           next == [loop[j] EXCEPT !.at = "undo"]
<1>1. /\ c = loop[j].client /\ c \in Clients /\ c # None /\ queue[c] = <<<<j, "loop">>>>
      /\ loop[j] \in LoopOf /\ job \in [Jobs -> JobOf]
      /\ job[j].pending <=> pg'[c].tx # "idle"
      /\ job[j].pending => InTransaction(j)
      /\ pg'[c] \in PgOf
  BY Types, AskingFacts, StageFacts DEF IInv, DbStep, KeepsTx
<1>2. CASE job[j].pending
  <2>1. loop' = [loop EXCEPT ![j] = next] /\ AnsweredAsk(j, c) /\ job' = job /\ free' = free
    BY <1>1, <1>2 DEF Throw, Goto
  <2>2. next \in LoopOf /\ next.at = "undo" /\ next.client = loop[j].client
    BY <1>1 DEF LoopOf, Ats
  <2> HIDE DEF next
  <2>3. loop'[j].at = "undo"
    BY <2>1, <2>2, Types DEF IInv
  <2>4. InTransaction(j)' <=> InTransaction(j)
    BY DEF InTransaction
  <2>5. Progress(j)'
    BY <2>3 DEF Progress, Wrote
  <2>6. Stage(j)'
    BY <1>1, <1>2, <2>1, <2>3, <2>4, <2>5, AskingFacts DEF Stage, KeepsTx
  <2>7. "undo" \in Asking
    BY DEF Asking, Ats
  <2>8. QED
    BY <1>1, <2>1, <2>2, <2>6, <2>7, GotoStep
<1>3. CASE ~job[j].pending
  <2>1. Leave(j, Verdict(j)) /\ Answered(c) /\ Verdict(j) \in {"failed", "canceled"}
    BY <1>1, <1>3 DEF Throw, Verdict
  <2>2. /\ queue' \in [Clients -> Seq(Jobs \X {"loop", "user"})] /\ queue'[c] = <<>>
        /\ \A d \in Clients \ {c} : queue'[d] = queue[d]
    BY <1>1, <2>1, AnswerLast
  <2>3. pg'[c] = Idle
    <3>1. pg'[c].tx = "idle" /\ pg'[c].staged = {}
      BY <1>1, <1>3 DEF DbStep, KeepsTx
    <3>2. QED
      BY <1>1, <3>1 DEF PgOf, Idle
  <2>4. QED
    BY <2>1, <2>2, <2>3, LeaveStep
<1>4. QED
  BY <1>2, <1>3

\* The next query, unless a cancel was asked for.
LEMMA CheckedStep ==
  ASSUME IInv, NEW j \in Jobs, loop[j].at \in Asking,
         NEW next \in LoopOf, next.at \in Asking, next.client = loop[j].client,
         Checked(j, next), DbStep(j), KeepsTx(j), UNCHANGED <<input, user, accepted, crashes>>,
         job' = job /\ loop' = [loop EXCEPT ![j] = next] => Stage(j)'
  PROVE  IInv'
<1>1. CASE job[j].canceled
  BY <1>1, ThrowStep DEF Checked
<1>2. CASE ~job[j].canceled
  <2>1. /\ loop' = [loop EXCEPT ![j] = next] /\ AnsweredAsk(j, loop[j].client)
        /\ job' = job /\ free' = free
    BY <1>2 DEF Checked, Goto
  <2>2. job' \in [Jobs -> JobOf]
    BY <2>1, Types DEF IInv
  <2>3. QED
    BY <2>1, <2>2, GotoStep
<1>3. QED
  BY <1>1, <1>2

-----------------------------------------------------------------------------
(* The steps of a loop.                                                    *)

LEMMA ConnectStep == ASSUME IInv, NEW j \in Jobs, Connect(j) PROVE IInv'
<1> DEFINE c == Pooled
<1>1. /\ TypeOK /\ Owned /\ Place(j) /\ Stage(j) /\ Saved(j)
      /\ job[j] \in JobOf /\ loop[j] \in LoopOf
      /\ job \in [Jobs -> JobOf] /\ loop \in [Jobs -> LoopOf]
      /\ loop[j].at = "connect" /\ job[j].client = None
      /\ user[j] = "idle" /\ ~job[j].pending /\ Mine(j, db) = {} /\ job[j].state # "none"
      /\ input[j] \in Inputs /\ input[j].mode \in {"transaction", "incremental"}
      /\ UNCHANGED <<input, user, pg, db, accepted, crashes>>
  BY Types DEF IInv, Connect, Place
<1>2. c \in free /\ c \in Clients
  BY <1>1 DEF Connect, Pooled, TypeOK
<1> HIDE DEF c
<1>3. /\ pg[c] = Idle /\ queue[c] = <<>> /\ \A k \in Jobs : job[k].client # c
  BY <1>1, <1>2 DEF Owned
<1>4. InTransaction(j)' <=> InTransaction(j)
  BY <1>1 DEF InTransaction
<1>5. Saved(j)' /\ \A k \in Jobs \ {j} : Mine(k, db') = Mine(k, db)
  <2>1. Mine(j, db)' = {}
    BY <1>1 DEF Mine
  <2>2. QED
    BY <1>1, <2>1 DEF Saved
<1>6. CASE input[j].mode = "incremental" /\ job[j].canceled
  <2> DEFINE over == [loop[j] EXCEPT !.at = "over"]
             gone == [job[j] EXCEPT !.state = "canceled"]
  <2>1. /\ loop' = [loop EXCEPT ![j] = over] /\ job' = [job EXCEPT ![j] = gone]
        /\ free' = free /\ queue' = queue
    BY <1>6 DEF Connect
  <2>2. /\ over \in LoopOf /\ gone \in JobOf /\ over.at = "over"
        /\ gone.client = None /\ gone.state = "canceled"
    BY <1>1 DEF LoopOf, JobOf, Ats, States
  <2> HIDE DEF over, gone
  <2>3. /\ loop' \in [Jobs -> LoopOf] /\ job' \in [Jobs -> JobOf]
        /\ loop'[j] = over /\ job'[j] = gone
        /\ \A k \in Jobs \ {j} : job'[k] = job[k] /\ loop'[k] = loop[k]
    BY <1>1, <2>1, <2>2
  <2>4. TypeOK'
    BY <1>1, <2>1, <2>3, Types, TypesPrimed
  <2>5. Owned'
    <3>1. \A k \in Jobs : job'[k].client = job[k].client
      BY <1>1, <2>2, <2>3
    <3>2. Idle' = Idle
      BY DEF Idle
    <3>3. QED
      BY <1>1, <2>1, <3>1, <3>2 DEF Owned
  <2>6. Place(j)'
    BY <1>1, <2>2, <2>3 DEF Place, Asking
  <2>7. Stage(j)'
    BY <1>1, <2>2, <2>3 DEF Stage
  <2>8. QED
    BY <1>1, <1>5, <2>1, <2>3, <2>4, <2>5, <2>6, <2>7, OneJob
<1>7. CASE ~(input[j].mode = "incremental" /\ job[j].canceled)
  <2> DEFINE at == IF input[j].mode = "incremental" THEN "find" ELSE "begin"
             next == [loop[j] EXCEPT !.client = c, !.at = at]
             mine == [job[j] EXCEPT !.client = c]
  <2>1. /\ loop' = [loop EXCEPT ![j] = next] /\ job' = [job EXCEPT ![j] = mine]
        /\ free' = free \ {c} /\ queue' = [queue EXCEPT ![c] = Append(queue[c], <<j, "loop">>)]
    BY <1>7 DEF Connect, c
  <2>2. /\ next \in LoopOf /\ mine \in JobOf /\ next.at = at /\ next.client = c
        /\ mine.client = c /\ mine.state = job[j].state /\ mine.pending = job[j].pending
    BY <1>1, <1>2 DEF LoopOf, JobOf, Ats
  <2> HIDE DEF next, mine
  <2>3. /\ loop' \in [Jobs -> LoopOf] /\ job' \in [Jobs -> JobOf]
        /\ loop'[j] = next /\ job'[j] = mine
        /\ \A k \in Jobs \ {j} : job'[k] = job[k] /\ loop'[k] = loop[k]
    BY <1>1, <2>1, <2>2
  <2>4. Append(queue[c], <<j, "loop">>) = <<<<j, "loop">>>>
    BY <1>3
  <2>5. /\ queue' \in [Clients -> Seq(Jobs \X {"loop", "user"})]
        /\ queue'[c] = <<<<j, "loop">>>> /\ \A d \in Clients \ {c} : queue'[d] = queue[d]
    <3>1. <<<<j, "loop">>>> \in Seq(Jobs \X {"loop", "user"})
      OBVIOUS
    <3>2. QED
      BY <1>1, <1>2, <2>1, <2>4, <3>1, Types
  <2>6. TypeOK'
    BY <1>1, <2>1, <2>3, <2>5, Types, TypesPrimed
  <2>7. Owned'
    BY <1>1, <1>2, <2>1, <2>2, <2>3, <2>5, OwnedMore
  <2>8. at \in {"find", "begin"} /\ at \in Asking /\ c # None /\ c \in Clients
    BY <1>2, NamesAssumption DEF Asking, Ats
  <2>9. Place(j)'
    <3>1. job'[j].client = c /\ loop'[j].client = c /\ loop'[j].at = at /\ user'[j] = "idle"
      BY <1>1, <2>2, <2>3
    <3>2. job'[j].state \notin {"none", "pending-approval"}
      BY <1>1, <2>2, <2>3 DEF Place
    <3>3. QED
      BY <1>1, <2>5, <2>8, <3>1, <3>2 DEF Place
  <2>10. Stage(j)'
    <3>1. /\ pg'[c].tx = "idle" /\ pg'[c].staged = {}
      BY <1>1, <1>3 DEF Idle
    <3>2. at = "begin" <=> InTransaction(j)
      BY <1>1 DEF InTransaction
    <3>3. /\ job'[j].client = c /\ loop'[j].at = at /\ user'[j] = "idle" /\ ~job'[j].pending
      BY <1>1, <2>2, <2>3
    <3>4. QED
      BY <1>4, <2>8, <3>1, <3>2, <3>3 DEF Stage
  <2>11. \A d \in Clients : d # job[j].client /\ d # job'[j].client =>
                              queue'[d] = queue[d] /\ pg'[d] = pg[d]
    BY <1>1, <2>2, <2>3, <2>5
  <2>12. QED
    BY <1>1, <1>5, <2>3, <2>6, <2>7, <2>9, <2>10, <2>11, OneJob
<1>8. QED
  BY <1>6, <1>7

LEMMA BeginTransactionStep == ASSUME IInv, NEW j \in Jobs, BeginTransaction(j) PROVE IInv'
<1> DEFINE c == job[j].client
<1>1. /\ loop[j].at = "begin" /\ loop[j].at \in Asking /\ c = loop[j].client /\ c \in Clients
      /\ c # None /\ ~job[j].pending /\ pg[c].tx = "idle" /\ pg[c].staged = {}
      /\ InTransaction(j) /\ Mine(j, db) = {} /\ pg[c] \in PgOf
      /\ job[j] \in JobOf /\ loop[j] \in LoopOf
      /\ pg \in [Clients -> PgOf] /\ db \subseteq Rows
      /\ job \in [Jobs -> JobOf] /\ loop \in [Jobs -> LoopOf]
      /\ UNCHANGED <<input, user, db, accepted, crashes>>
  <2>1. loop[j].at = "begin" /\ loop[j].at \in Asking
    BY DEF BeginTransaction, LoopAt, Asking, Ats
  <2>2. InTransaction(j)
    BY <2>1, AskingFacts DEF IInv, Stage
  <2>3. QED
    BY <2>1, <2>2, AskingFacts, StageFacts, Types DEF IInv, BeginTransaction
<1> DEFINE at == IF job[j].canceled THEN "undo" ELSE "find"
           next == [loop[j] EXCEPT !.at = at]
           mine == [job[j] EXCEPT !.pending = TRUE]
           new == [pg[c] EXCEPT !.tx = "open"]
<1>2. /\ loop' = [loop EXCEPT ![j] = next] /\ job' = [job EXCEPT ![j] = mine]
      /\ pg' = [pg EXCEPT ![c] = new] /\ free' = free /\ AnsweredAsk(j, loop[j].client)
  BY <1>1 DEF BeginTransaction, Aborted
<1>3. /\ next \in LoopOf /\ mine \in JobOf /\ new \in PgOf
      /\ next.at = at /\ next.client = loop[j].client
      /\ mine.client = c /\ mine.state = job[j].state /\ mine.pending
      /\ new.tx = "open" /\ new.staged = {}
  BY <1>1 DEF LoopOf, JobOf, PgOf, Ats
<1> HIDE DEF next, mine, new
<1>4. /\ job' \in [Jobs -> JobOf] /\ loop'[j] = next /\ job'[j] = mine
      /\ pg' \in [Clients -> PgOf] /\ pg'[c] = new /\ \A d \in Clients \ {c} : pg'[d] = pg[d]
      /\ \A k \in Jobs \ {j} : job'[k] = job[k]
  BY <1>1, <1>2, <1>3
<1>5. DbStep(j)
  BY <1>1, <1>3, <1>4 DEF DbStep
<1>6. at \in {"undo", "find"} /\ at \in Asking
  BY DEF Asking, Ats
<1>7. Stage(j)'
  <2>1. InTransaction(j)'
    BY <1>1 DEF InTransaction
  <2>2. loop'[j].at = at /\ job'[j].client = c /\ job'[j].pending /\ user'[j] = "idle"
    BY <1>1, <1>3, <1>4, AskingFacts
  <2>3. pg'[c].tx = "open" /\ pg'[c].staged = {}
    BY <1>3, <1>4
  <2>4. Progress(j)'
    BY <1>6, <2>2 DEF Progress, Wrote
  <2>5. QED
    BY <1>6, <2>1, <2>2, <2>3, <2>4 DEF Stage
<1>8. QED
  BY <1>1, <1>2, <1>3, <1>4, <1>5, <1>6, <1>7, GotoStep

LEMMA WrittenAdds ==
  ASSUME NEW j, NEW R, NEW row, row.by = j
  PROVE  Written(j, R \cup {row})
           = IF row.kind \in {"version", "class"} THEN Written(j, R) \cup {row.name}
             ELSE Written(j, R)
BY DEF Written

\* Where the next query finds its import.
LEMMA NextStage ==
  ASSUME IInv, NEW j \in Jobs, loop[j].at \in Asking \ {"begin"},
         NEW next \in LoopOf, next.at \in Asking \ {"begin", "undo"},
         job' = job, loop' = [loop EXCEPT ![j] = next], input' = input, user' = user,
         KeepsTx(j), \A r \in pg'[job[j].client].staged : r.project = next.project,
         IF next.at = "project" THEN pg'[job[j].client].staged = {} ELSE next.project \in Projects,
         next.at # "find",
         next.at = "class" => next.done < Len(input[j].names),
         next.at = "lookup" => pg'[job[j].client].tx # "open",
         pg'[job[j].client].tx = "open" => Wrote(j, next, pg'[job[j].client].staged)
  PROVE  Stage(j)'
<1> DEFINE c == job[j].client
<1>1. /\ loop'[j] = next /\ job'[j] = job[j] /\ input'[j] = input[j] /\ user'[j] = "idle"
      /\ c # None /\ InTransaction(j)' <=> InTransaction(j)
      /\ next.at \notin {"none", "connect", "paths", "over"}
  BY Types, AskingFacts DEF IInv, InTransaction, Asking
<1>2. /\ job[j].pending <=> pg'[c].tx # "idle"
      /\ job[j].pending <=> InTransaction(j)
      /\ \A r \in pg'[c].staged : r.by = j
  BY StageFacts DEF KeepsTx
<1>3. pg'[c].tx = "open" => Progress(j)'
  <2>1. Written(j, pg[c].staged)' = Written(j, pg'[c].staged)
    BY DEF Written
  <2>2. Whole(j)' = Whole(j)
    BY <1>1 DEF Whole
  <2>3. QED
    BY <1>1, <2>1, <2>2 DEF Progress, Wrote
<1>4. QED
  BY <1>1, <1>2, <1>3 DEF Stage

LEMMA FindProjectStep == ASSUME IInv, NEW j \in Jobs, FindProject(j) PROVE IInv'
<1> DEFINE c == job[j].client
<1>1. loop[j].at = "find" /\ loop[j].at \in Asking \ {"begin"}
  BY DEF FindProject, LoopAt, Asking, Ats
<1>2. /\ DbStep(j) /\ KeepsTx(j) /\ c = loop[j].client /\ c \in Clients
      /\ UNCHANGED <<input, user, pg, db, accepted, crashes>>
      /\ pg'[c].staged = {} /\ loop[j] \in LoopOf /\ db \subseteq Rows /\ job \in [Jobs -> JobOf]
  <2>1. UNCHANGED <<input, user, pg, db, accepted, crashes>>
    BY DEF FindProject
  <2>2. pg[c].staged = {}
    BY <1>1, AskingFacts DEF IInv, Stage
  <2>3. QED
    BY <1>1, <2>1, <2>2, NoWrite, AskingFacts, Types DEF IInv
<1>3. CASE Aborted(c) /\ Throw(j)
  BY <1>1, <1>2, <1>3, ThrowStep
<1>4. CASE Goto(j, [loop[j] EXCEPT !.at = "project"])
  <2> DEFINE next == [loop[j] EXCEPT !.at = "project"]
  <2>1. next \in LoopOf /\ next.at = "project" /\ next.client = loop[j].client
    BY <1>2 DEF LoopOf, Ats
  <2>2. /\ loop' = [loop EXCEPT ![j] = next] /\ AnsweredAsk(j, loop[j].client)
        /\ job' = job /\ free' = free
    BY <1>4 DEF Goto
  <2> HIDE DEF next
  <2>3. next.at \in Asking \ {"begin", "undo"}
    BY <2>1 DEF Asking, Ats
  <2>4. Wrote(j, next, pg'[c].staged)
    BY <2>1 DEF Wrote
  <2>5. Stage(j)'
    BY <1>1, <1>2, <2>1, <2>2, <2>3, <2>4, NextStage
  <2>6. QED
    BY <1>1, <1>2, <2>1, <2>2, <2>3, <2>5, GotoStep
<1>5. ASSUME NEW r \in Seen(c), Goto(j, [loop[j] EXCEPT !.at = "merge", !.project = r.project])
      PROVE  IInv'
  <2> DEFINE next == [loop[j] EXCEPT !.at = "merge", !.project = r.project]
  <2>1. r.project \in Projects
    BY <1>2, RowTypes DEF Seen
  <2>2. next \in LoopOf /\ next.at = "merge" /\ next.client = loop[j].client /\ next.project = r.project
    BY <1>2, <2>1 DEF LoopOf, Ats
  <2>3. /\ loop' = [loop EXCEPT ![j] = next] /\ AnsweredAsk(j, loop[j].client)
        /\ job' = job /\ free' = free
    BY <1>5 DEF Goto
  <2> HIDE DEF next
  <2>4. next.at \in Asking \ {"begin", "undo"}
    BY <2>2 DEF Asking, Ats
  <2>5. Wrote(j, next, pg'[c].staged)
    BY <1>2, <2>2 DEF Wrote, Written
  <2>6. Stage(j)'
    BY <1>1, <1>2, <2>1, <2>2, <2>3, <2>4, <2>5, NextStage
  <2>7. QED
    BY <1>1, <1>2, <2>2, <2>3, <2>4, <2>6, GotoStep
<1>6. QED
  BY <1>2, <1>3, <1>4, <1>5 DEF FindProject

LEMMA MergeProjectStep == ASSUME IInv, NEW j \in Jobs, MergeProject(j) PROVE IInv'
<1> DEFINE c == job[j].client
           p == loop[j].project
           row == Row("meta", j, p, None)
           next == [loop[j] EXCEPT !.at = "version"]
           gone == ~\E r \in Seen(c) : r.kind = "project" /\ r.project = p
<1>1. loop[j].at = "merge" /\ loop[j].at \in Asking \ {"begin"}
  BY DEF MergeProject, LoopAt, Asking, Ats
<1>2. /\ c = loop[j].client /\ c \in Clients /\ c # None
      /\ UNCHANGED <<input, user, accepted, crashes>> /\ loop[j] \in LoopOf
  BY <1>1, AskingFacts DEF MergeProject
<1>3. p \in Projects /\ (pg[c].tx = "open" => Written(j, pg[c].staged) = {})
  BY <1>1, <1>2 DEF IInv, Stage, Progress, Wrote
<1>4. CASE Aborted(c) \/ gone
  <2>1. Throw(j) /\ pg' = pg /\ db' = db
    BY <1>2, <1>4 DEF MergeProject
  <2>2. QED
    BY <1>1, <1>2, <2>1, NoWrite, ThrowStep
<1>5. CASE ~(Aborted(c) \/ gone)
  <2>1. Write(c, row) /\ Checked(j, next) /\ ~Aborted(c)
    BY <1>2, <1>5 DEF MergeProject
  <2>2. row \in Rows /\ row.by = j /\ row.project = p /\ row.kind = "meta"
    BY <1>3, MetaRow
  <2>3. next \in LoopOf /\ next.at = "version" /\ next.client = loop[j].client /\ next.project = p
    BY <1>2 DEF LoopOf, Ats
  <2> HIDE DEF row, next
  <2>4. next.at \in Asking \ {"begin", "undo"}
    BY <2>3 DEF Asking, Ats
  <2>5. /\ DbStep(j) /\ KeepsTx(j) /\ pg'[c].tx = pg[c].tx
        /\ IF pg[c].tx = "open" THEN pg'[c].staged = pg[c].staged \cup {row} ELSE pg'[c].staged = {}
    BY <1>1, <2>1, <2>2, WriteEffect
  <2>6. pg'[c].tx = "open" => Wrote(j, next, pg'[c].staged)
    <3>1. Written(j, pg[c].staged \cup {row}) = Written(j, pg[c].staged)
      BY <2>2, WrittenAdds
    <3>2. QED
      BY <1>3, <2>3, <2>5, <3>1 DEF Wrote
  <2>7. \A r \in pg'[c].staged : r.project = next.project
    BY <1>1, <2>2, <2>3, <2>5, StageFacts
  <2>8. job' = job /\ loop' = [loop EXCEPT ![j] = next] => Stage(j)'
    BY <1>1, <1>2, <1>3, <2>3, <2>4, <2>5, <2>6, <2>7, NextStage
  <2>9. QED
    BY <1>1, <1>2, <2>1, <2>3, <2>4, <2>5, <2>8, CheckedStep
<1>6. QED
  BY <1>4, <1>5

\* A row is written, and the loop goes on.
LEMMA WriteStep ==
  ASSUME IInv, NEW j \in Jobs, loop[j].at \in Asking \ {"begin"},
         NEW next \in LoopOf, next.at \in {"version", "library", "class", "verify"},
         next.client = loop[j].client, next.project \in Projects,
         next.at = "class" => next.done < Len(input[j].names),
         NEW row \in Rows, row.by = j, row.project = next.project,
         \A r \in pg[job[j].client].staged : r.project = next.project,
         ~Aborted(job[j].client), Write(job[j].client, row), Checked(j, next),
         pg[job[j].client].tx = "open" => Wrote(j, next, pg[job[j].client].staged \cup {row}),
         UNCHANGED <<input, user, accepted, crashes>>
  PROVE  IInv'
<1> DEFINE c == job[j].client
<1>1. /\ DbStep(j) /\ KeepsTx(j) /\ pg'[c].tx = pg[c].tx
      /\ IF pg[c].tx = "open" THEN pg'[c].staged = pg[c].staged \cup {row} ELSE pg'[c].staged = {}
  BY WriteEffect
<1>2. next.at \in Asking \ {"begin", "undo"}
  BY DEF Asking, Ats
<1>3. \A r \in pg'[c].staged : r.project = next.project
  BY <1>1
<1>4. job' = job /\ loop' = [loop EXCEPT ![j] = next] => Stage(j)'
  BY <1>1, <1>2, <1>3, NextStage
<1>5. QED
  BY <1>1, <1>2, <1>4, CheckedStep

LEMMA CreateProjectStep == ASSUME IInv, NEW j \in Jobs, CreateProject(j) PROVE IInv'
<1> DEFINE c == job[j].client
           row == Row("project", j, j, None)
           next == [loop[j] EXCEPT !.at = "version", !.project = j]
<1>1. loop[j].at = "project" /\ loop[j].at \in Asking \ {"begin"}
  BY DEF CreateProject, LoopAt, Asking, Ats
<1>2. /\ c = loop[j].client /\ c \in Clients /\ c # None
      /\ UNCHANGED <<input, user, accepted, crashes>> /\ loop[j] \in LoopOf
  BY <1>1, AskingFacts DEF CreateProject
<1>3. pg[c].staged = {} /\ j \in Projects
  BY <1>1, <1>2 DEF IInv, Stage, Projects
<1>4. CASE Throw(j) /\ pg' = pg /\ db' = db
  BY <1>1, <1>2, <1>4, NoWrite, ThrowStep
<1>5. CASE Fails(c) /\ Throw(j)
  BY <1>1, <1>2, <1>5, FailsEffect, ThrowStep
<1>6. CASE ~Aborted(c) /\ Write(c, row) /\ Checked(j, next)
  <2>1. row \in Rows /\ row.by = j /\ row.project = j /\ row.kind = "project"
    BY <1>3, MetaRow
  <2>2. next \in LoopOf /\ next.at = "version" /\ next.client = loop[j].client /\ next.project = j
    BY <1>2, <1>3 DEF LoopOf, Ats
  <2> HIDE DEF row, next
  <2>3. Wrote(j, next, pg[c].staged \cup {row})
    <3>1. Written(j, pg[c].staged \cup {row}) = Written(j, pg[c].staged)
      BY <2>1, WrittenAdds
    <3>2. Written(j, pg[c].staged) = {}
      BY <1>3 DEF Written
    <3>3. QED
      BY <2>2, <3>1, <3>2 DEF Wrote
  <2>4. QED
    BY <1>1, <1>2, <1>3, <1>6, <2>1, <2>2, <2>3, WriteStep
<1>7. QED
  BY <1>2, <1>4, <1>5, <1>6 DEF CreateProject

LEMMA CreateVersionStep == ASSUME IInv, NEW j \in Jobs, CreateVersion(j) PROVE IInv'
<1> DEFINE c == job[j].client
           p == loop[j].project
           row == Row("version", j, p, input[j].line)
           next == [loop[j] EXCEPT !.at = "library"]
           look == [loop[j] EXCEPT !.at = "lookup"]
<1>1. loop[j].at = "version" /\ loop[j].at \in Asking \ {"begin"}
  BY DEF CreateVersion, LoopAt, Asking, Ats
<1>2. /\ c = loop[j].client /\ c \in Clients /\ c # None /\ input[j] \in Inputs
      /\ UNCHANGED <<input, user, accepted, crashes>> /\ loop[j] \in LoopOf
      /\ job \in [Jobs -> JobOf]
  BY <1>1, AskingFacts, Types DEF CreateVersion, IInv
<1>3. p \in Projects /\ (pg[c].tx = "open" => Written(j, pg[c].staged) = {})
  BY <1>1, <1>2 DEF IInv, Stage, Progress, Wrote
<1>4. CASE Throw(j) /\ pg' = pg /\ db' = db
  BY <1>1, <1>2, <1>4, NoWrite, ThrowStep
<1>5. CASE Fails(c) /\ Throw(j)
  BY <1>1, <1>2, <1>5, FailsEffect, ThrowStep
<1>6. CASE Fails(c) /\ Goto(j, look)
  <2>1. look \in LoopOf /\ look.at = "lookup" /\ look.client = loop[j].client /\ look.project = p
    BY <1>2 DEF LoopOf, Ats
  <2>2. /\ loop' = [loop EXCEPT ![j] = look] /\ AnsweredAsk(j, loop[j].client)
        /\ job' = job /\ free' = free
    BY <1>6 DEF Goto
  <2> HIDE DEF look
  <2>3. look.at \in Asking \ {"begin", "undo"}
    BY <2>1 DEF Asking, Ats
  <2>4. DbStep(j) /\ KeepsTx(j) /\ pg'[c].tx # "open" /\ pg'[c].staged = {}
    BY <1>1, <1>6, FailsEffect
  <2>5. Stage(j)'
    BY <1>1, <1>2, <1>3, <2>1, <2>2, <2>3, <2>4, NextStage
  <2>6. QED
    BY <1>1, <1>2, <2>1, <2>2, <2>3, <2>4, <2>5, GotoStep
<1>7. CASE ~Aborted(c) /\ Write(c, row) /\ Checked(j, next)
  <2>1. row \in Rows /\ row.by = j /\ row.project = p /\ row.kind = "version" /\ row.name = input[j].line
    BY <1>2, <1>3, NamedRow
  <2>2. next \in LoopOf /\ next.at = "library" /\ next.client = loop[j].client /\ next.project = p
    BY <1>2 DEF LoopOf, Ats
  <2> HIDE DEF row, next
  <2>3. pg[c].tx = "open" => Wrote(j, next, pg[c].staged \cup {row})
    <3>1. Written(j, pg[c].staged \cup {row}) = Written(j, pg[c].staged) \cup {row.name}
      BY <2>1, WrittenAdds
    <3>2. QED
      BY <1>3, <2>1, <2>2, <3>1 DEF Wrote
  <2>4. \A r \in pg[c].staged : r.project = next.project
    BY <1>1, <2>2, StageFacts
  <2>5. QED
    BY <1>1, <1>2, <1>3, <1>7, <2>1, <2>2, <2>3, <2>4, WriteStep
<1>8. QED
  BY <1>2, <1>4, <1>5, <1>6, <1>7 DEF CreateVersion

LEMMA LookupVersionStep == ASSUME IInv, NEW j \in Jobs, LookupVersion(j) PROVE IInv'
<1> DEFINE c == job[j].client
<1>1. loop[j].at = "lookup" /\ loop[j].at \in Asking \ {"begin"}
  BY DEF LookupVersion, LoopAt, Asking, Ats
<1>2. /\ c = loop[j].client /\ c \in Clients /\ c # None /\ queue[c] = <<<<j, "loop">>>>
      /\ UNCHANGED <<input, user, pg, db, accepted, crashes>> /\ pg[c] \in PgOf
      /\ DbStep(j) /\ KeepsTx(j)
  <2>1. UNCHANGED <<input, user, pg, db, accepted, crashes>>
    BY DEF LookupVersion
  <2>2. QED
    BY <1>1, <2>1, AskingFacts, NoWrite
<1>3. CASE Aborted(c)
  <2>1. Throw(j)
    BY <1>2, <1>3 DEF LookupVersion
  <2>2. QED
    BY <1>1, <1>2, <2>1, ThrowStep
<1>4. CASE ~Aborted(c)
  <2>1. Leave(j, "completed") /\ Answered(c)
    BY <1>2, <1>4 DEF LookupVersion
  <2>2. pg[c].tx # "open" /\ pg[c].staged = {}
    BY <1>1, <1>2 DEF IInv, Stage, Owned
  <2>3. pg'[c] = Idle
    BY <1>2, <1>4, <2>2 DEF Aborted, PgOf, Idle
  <2>4. /\ queue' \in [Clients -> Seq(Jobs \X {"loop", "user"})] /\ queue'[c] = <<>>
        /\ \A d \in Clients \ {c} : queue'[d] = queue[d]
    BY <1>2, <2>1, AnswerLast
  <2>5. QED
    BY <1>1, <1>2, <2>1, <2>3, <2>4, LeaveStep
<1>5. QED
  BY <1>3, <1>4

LEMMA NextClassIs ==
  ASSUME IInv, NEW j \in Jobs, loop[j].at \in Asking, NEW done \in 0..Len(input[j].names)
  PROVE  /\ NextClass(j, done) \in LoopOf
         /\ NextClass(j, done).client = loop[j].client
         /\ NextClass(j, done).project = loop[j].project
         /\ NextClass(j, done).at = IF done = Len(input[j].names) THEN "verify" ELSE "class"
         /\ NextClass(j, done).done = done
         /\ NextClass(j, done).at = "class" => done < Len(input[j].names)
<1>1. loop[j] \in LoopOf /\ Len(input[j].names) \in Nat
  BY AskingFacts, NamesAreSequences DEF IInv
<1>2. done \in Nat
  BY <1>1
<1> DEFINE at == IF done = Len(input[j].names) THEN "verify" ELSE "class"
<1>3. NextClass(j, done) = [loop[j] EXCEPT !.done = done, !.at = at]
  BY DEF NextClass
<1>4. at \in Ats /\ (at = "class" => done < Len(input[j].names))
  BY <1>1 DEF Ats
<1> DEFINE new == [loop[j] EXCEPT !.done = done, !.at = at]
<1>5. /\ new \in LoopOf /\ new.client = loop[j].client /\ new.project = loop[j].project
      /\ new.at = at /\ new.done = done
  <2> HIDE DEF at
  <2>1. QED
    BY <1>1, <1>2, <1>4 DEF LoopOf
<1>6. QED
  BY <1>3, <1>4, <1>5

\* The classes written so far and the next one.
LEMMA NextClassWrote ==
  ASSUME IInv, NEW j \in Jobs, loop[j].at \in Asking, NEW done \in 0..Len(input[j].names), NEW R,
         Written(j, R) = {input[j].line} \cup {input[j].names[k] : k \in 1..done}
  PROVE  Wrote(j, NextClass(j, done), R)
<1>1. DOMAIN input[j].names = 1..Len(input[j].names)
  BY NamesAreSequences DEF IInv
<1>2. CASE done = Len(input[j].names)
  BY <1>1, <1>2, NextClassIs DEF Wrote, Whole
<1>3. CASE done # Len(input[j].names)
  BY <1>3, NextClassIs DEF Wrote
<1>4. QED
  BY <1>2, <1>3

LEMMA BuildLibraryStep == ASSUME IInv, NEW j \in Jobs, BuildLibrary(j) PROVE IInv'
<1> DEFINE c == job[j].client
           next == NextClass(j, 0)
<1>1. loop[j].at = "library" /\ loop[j].at \in Asking \ {"begin"}
  BY DEF BuildLibrary, LoopAt, Asking, Ats
<1>2. /\ c = loop[j].client /\ c \in Clients /\ c # None
      /\ UNCHANGED <<input, user, pg, db, accepted, crashes>>
      /\ DbStep(j) /\ KeepsTx(j) /\ 0 \in 0..Len(input[j].names)
  <2>1. UNCHANGED <<input, user, pg, db, accepted, crashes>>
    BY DEF BuildLibrary
  <2>2. QED
    BY <1>1, <2>1, AskingFacts, NoWrite, NamesAreSequences DEF IInv
<1>3. /\ loop[j].project \in Projects
      /\ pg[c].tx = "open" => Written(j, pg[c].staged) = {input[j].line}
  BY <1>1, <1>2 DEF IInv, Stage, Progress, Wrote
<1>4. CASE Throw(j)
  BY <1>1, <1>2, <1>4, ThrowStep
<1>5. CASE Checked(j, next)
  <2>1. /\ next \in LoopOf /\ next.client = loop[j].client /\ next.project = loop[j].project
        /\ next.at \in {"verify", "class"} /\ (next.at = "class" => next.done < Len(input[j].names))
    BY <1>1, <1>2, NextClassIs
  <2>2. pg[c].tx = "open" => Wrote(j, next, pg[c].staged)
    <3> SUFFICES ASSUME pg[c].tx = "open" PROVE Wrote(j, next, pg[c].staged)
      OBVIOUS
    <3>1. {input[j].names[k] : k \in 1..0} = {}
      OBVIOUS
    <3>2. Written(j, pg[c].staged) = {input[j].line} \cup {input[j].names[k] : k \in 1..0}
      BY <1>3, <3>1
    <3>3. QED
      BY <1>1, <1>2, <3>2, NextClassWrote
  <2> HIDE DEF next
  <2>3. next.at \in Asking \ {"begin", "undo"}
    BY <2>1 DEF Asking, Ats
  <2>4. \A r \in pg[c].staged : r.project = next.project
    BY <1>1, <2>1, StageFacts
  <2>5. job' = job /\ loop' = [loop EXCEPT ![j] = next] => Stage(j)'
    BY <1>1, <1>2, <1>3, <2>1, <2>2, <2>3, <2>4, NextStage
  <2>6. QED
    BY <1>1, <1>2, <1>5, <2>1, <2>3, <2>5, CheckedStep
<1>6. QED
  BY <1>2, <1>4, <1>5 DEF BuildLibrary

LEMMA WriteClassStep == ASSUME IInv, NEW j \in Jobs, WriteClass(j) PROVE IInv'
<1> DEFINE c == job[j].client
           p == loop[j].project
           done == loop[j].done + 1
           name == input[j].names[done]
           row == Row("class", j, p, name)
           next == NextClass(j, done)
<1>1. loop[j].at = "class" /\ loop[j].at \in Asking \ {"begin"}
  BY DEF WriteClass, LoopAt, Asking, Ats
<1>2. /\ c = loop[j].client /\ c \in Clients /\ c # None /\ input[j] \in Inputs
      /\ UNCHANGED <<input, user, accepted, crashes>> /\ Checked(j, next)
      /\ loop[j] \in LoopOf
  BY <1>1, AskingFacts DEF WriteClass
<1>3. /\ p \in Projects /\ loop[j].done < Len(input[j].names)
      /\ pg[c].tx = "open" =>
           Written(j, pg[c].staged)
             = {input[j].line} \cup {input[j].names[k] : k \in 1..loop[j].done}
  BY <1>1, <1>2 DEF IInv, Stage, Progress, Wrote
<1>4. /\ loop[j].done \in Nat /\ done \in 0..Len(input[j].names)
      /\ done \in DOMAIN input[j].names
  <2>1. loop[j].done \in Nat
    BY <1>2 DEF LoopOf
  <2>2. QED
    BY <1>3, <2>1, NamesAreSequences DEF IInv
<1>5. /\ next \in LoopOf /\ next.client = loop[j].client /\ next.project = p
      /\ next.at \in {"verify", "class"} /\ (next.at = "class" => next.done < Len(input[j].names))
  BY <1>1, <1>4, NextClassIs
<1>6. CASE Fails(c)
  <2>1. DbStep(j) /\ KeepsTx(j) /\ pg'[c].tx # "open" /\ pg'[c].staged = {}
    BY <1>1, <1>6, FailsEffect
  <2> HIDE DEF next
  <2>2. next.at \in Asking \ {"begin", "undo"}
    BY <1>5 DEF Asking, Ats
  <2>3. job' = job /\ loop' = [loop EXCEPT ![j] = next] => Stage(j)'
    BY <1>1, <1>2, <1>3, <1>5, <2>1, <2>2, NextStage
  <2>4. QED
    BY <1>1, <1>2, <1>5, <2>1, <2>2, <2>3, CheckedStep
<1>7. CASE ~Aborted(c) /\ Write(c, row)
  <2>1. row \in Rows /\ row.by = j /\ row.project = p /\ row.kind = "class" /\ row.name = name
    BY <1>2, <1>3, <1>4, NamedRow
  <2>2. pg[c].tx = "open" => Wrote(j, next, pg[c].staged \cup {row})
    <3> SUFFICES ASSUME pg[c].tx = "open" PROVE Wrote(j, next, pg[c].staged \cup {row})
      OBVIOUS
    <3> HIDE DEF row, next
    <3>1. Written(j, pg[c].staged \cup {row}) = Written(j, pg[c].staged) \cup {name}
      <4>1. row.by = j /\ row.kind \in {"version", "class"} /\ row.name = name
        BY <2>1
      <4> HIDE DEF c, name
      <4>2. QED
        BY <4>1, WrittenAdds
    <3>2. {input[j].names[k] : k \in 1..done}
            = {input[j].names[k] : k \in 1..loop[j].done} \cup {name}
      <4>1. 1..done = 1..loop[j].done \cup {done}
        BY <1>4
      <4>2. QED
        BY <4>1
    <3>3. Written(j, pg[c].staged \cup {row})
            = {input[j].line} \cup {input[j].names[k] : k \in 1..done}
      BY <1>3, <3>1, <3>2
    <3>4. QED
      BY <1>1, <1>4, <3>3, NextClassWrote DEF next
  <2>3. \A r \in pg[c].staged : r.project = next.project
    BY <1>1, <1>5, StageFacts
  <2> HIDE DEF row, next
  <2>4. QED
    BY <1>1, <1>2, <1>3, <1>5, <1>7, <2>1, <2>2, <2>3, WriteStep
<1>8. QED
  BY <1>2, <1>6, <1>7 DEF WriteClass

LEMMA VerifyStep == ASSUME IInv, NEW j \in Jobs, Verify(j) PROVE IInv'
<1> DEFINE c == job[j].client
           at == IF input[j].mode = "incremental" THEN "paths" ELSE "over"
           state == IF input[j].mode = "incremental" THEN job[j].state ELSE "pending-approval"
           next == [loop[j] EXCEPT !.at = at]
           mine == [job[j] EXCEPT !.state = state]
<1>1. loop[j].at = "verify" /\ loop[j].at \in Asking \ {"begin"}
  BY DEF Verify, LoopAt, Asking, Ats
<1>2. /\ c = loop[j].client /\ c \in Clients /\ c # None /\ queue[c] = <<<<j, "loop">>>>
      /\ loop[j] \in LoopOf /\ job[j] \in JobOf /\ user[j] = "idle" /\ input[j] \in Inputs
      /\ job[j].state \notin {"none", "pending-approval"}
      /\ input[j].mode \in {"transaction", "incremental"}
      /\ job \in [Jobs -> JobOf] /\ loop \in [Jobs -> LoopOf]
      /\ UNCHANGED <<input, user, pg, free, db, accepted, crashes>>
      /\ InTransaction(j) => Mine(j, db) = {}
  BY <1>1, AskingFacts, Types DEF IInv, Verify
<1>3. /\ Stage(j) /\ Saved(j) /\ Owned /\ TypeOK
      /\ loop[j].project \in Projects
      /\ pg[c].tx = "open" => Written(j, pg[c].staged) = Whole(j)
      /\ \A r \in pg[c].staged : r.by = j /\ r.project = loop[j].project
      /\ job[j].pending <=> pg[c].tx # "idle"
      /\ job[j].pending <=> InTransaction(j)
  BY <1>1, <1>2 DEF IInv, Stage, Progress, Wrote
<1>4. /\ loop' = [loop EXCEPT ![j] = next] /\ job' = [job EXCEPT ![j] = mine] /\ Answered(c)
  <2>1. CASE input[j].mode = "incremental"
    <3>1. mine = job[j]
      BY <1>2, <2>1 DEF JobOf
    <3>2. QED
      BY <1>2, <2>1, <3>1 DEF Verify
  <2>2. CASE input[j].mode # "incremental"
    BY <1>2, <2>2 DEF Verify
  <2>3. QED
    BY <2>1, <2>2
<1>5. at \in Ats /\ state \in States \ {"none"} /\ at \in {"paths", "over"}
  BY <1>2 DEF Ats, States, JobOf
<1>6. /\ next \in LoopOf /\ mine \in JobOf /\ next.at = at /\ next.client = c
      /\ next.project = loop[j].project
      /\ mine.client = c /\ mine.state = state /\ mine.pending = job[j].pending
  <2> HIDE DEF at, state
  <2>1. QED
    BY <1>2, <1>5 DEF LoopOf, JobOf
<1> HIDE DEF next, mine
<1>7. /\ loop' \in [Jobs -> LoopOf] /\ job' \in [Jobs -> JobOf]
      /\ loop'[j] = next /\ job'[j] = mine
      /\ \A k \in Jobs \ {j} : job'[k] = job[k] /\ loop'[k] = loop[k]
  BY <1>2, <1>4, <1>6
<1>8. /\ queue' \in [Clients -> Seq(Jobs \X {"loop", "user"})] /\ queue'[c] = <<>>
      /\ \A d \in Clients \ {c} : queue'[d] = queue[d]
  BY <1>2, <1>4, AnswerLast
<1>9. TypeOK'
  BY <1>2, <1>3, <1>7, <1>8, Types, TypesPrimed
<1>10. Owned'
  <2>1. \A k \in Jobs : job'[k].client = job[k].client
    BY <1>6, <1>7
  <2>2. pg'[c].tx # "open" => pg'[c].staged = {}
    BY <1>2, <1>3 DEF Owned
  <2>3. QED
    BY <1>2, <1>8, <2>1, <2>2, OwnedStay
<1>11. InTransaction(j)' <=> InTransaction(j)
  BY <1>2 DEF InTransaction
<1>12. InTransaction(j) <=> at = "over"
  BY <1>2 DEF InTransaction
<1>13. Place(j)'
  <2>1. /\ loop'[j].at = at /\ loop'[j].client = c /\ job'[j].client = c /\ job'[j].state = state
        /\ user'[j] = "idle"
    BY <1>2, <1>6, <1>7
  <2>2. state = "pending-approval" => at = "over"
    BY <1>2
  <2>3. QED
    BY <1>2, <1>5, <1>8, <1>11, <1>12, <2>1, <2>2 DEF Place, Asking
<1>14. Stage(j)'
  <2>1. /\ job'[j].client = c /\ job'[j].pending = job[j].pending /\ user'[j] = "idle"
        /\ loop'[j].at = at /\ loop'[j].project = loop[j].project /\ pg'[c] = pg[c]
    BY <1>2, <1>6, <1>7
  <2>2. pg[c].tx = "open" => Progress(j)'
    <3>1. pg'[job'[j].client].staged = pg[c].staged
      BY <2>1
    <3>2. Written(j, pg[job[j].client].staged)' = Written(j, pg[c].staged)
      BY <3>1 DEF Written
    <3>3. Whole(j)' = Whole(j)
      BY <1>2 DEF Whole
    <3>4. QED
      BY <1>3, <1>5, <2>1, <3>2, <3>3 DEF Progress, Wrote
  <2>3. QED
    BY <1>2, <1>3, <1>5, <1>11, <1>12, <2>1, <2>2 DEF Stage
<1>15. Saved(j)'
  <2>1. Mine(j, db)' = Mine(j, db)
    BY <1>2 DEF Mine
  <2>2. QED
    BY <1>2, <1>11, <2>1 DEF Saved
<1>16. \A k \in Jobs \ {j} : Mine(k, db') = Mine(k, db)
  BY <1>2
<1>17. QED
  BY <1>2, <1>7, <1>8, <1>9, <1>10, <1>13, <1>14, <1>15, <1>16, OneJob

LEMMA IncrementalPathsStep == ASSUME IInv, NEW j \in Jobs, IncrementalPaths(j) PROVE IInv'
<1> DEFINE c == job[j].client
<1>1. /\ loop[j].at = "paths" /\ Place(j) /\ Stage(j) /\ Owned /\ TypeOK /\ Leave(j, "completed")
      /\ UNCHANGED <<input, user, queue, pg, accepted, crashes>> /\ ImportPaths(j)
  BY DEF IInv, IncrementalPaths
<1>2. c # None /\ c \in Clients /\ queue[c] = <<>> /\ ~InTransaction(j)
  BY <1>1, Types DEF Place, JobOf
<1>3. pg[c] \in PgOf /\ queue \in [Clients -> Seq(Jobs \X {"loop", "user"})]
  BY <1>1, <1>2, Types
<1>4. pg'[c] = Idle
  <2>1. pg[c].tx = "idle" /\ pg[c].staged = {}
    BY <1>1, <1>2 DEF Stage, Owned
  <2>2. QED
    BY <1>1, <1>3, <2>1 DEF PgOf, Idle
<1>5. DbStep(j)
  <2> DEFINE row == Row("paths", j, loop[j].project, None)
  <2>1. loop[j].project \in Projects
    BY <1>1 DEF Stage
  <2>2. row \in Rows /\ row.by = j
    BY <2>1, MetaRow
  <2>3. db' = db \/ db' = db \cup {row}
    BY <1>1 DEF ImportPaths
  <2> HIDE DEF row
  <2>4. db' \subseteq Rows /\ \A k \in Jobs \ {j} : Mine(k, db') = Mine(k, db)
    BY <1>1, <2>2, <2>3, Types DEF Mine
  <2>5. pg \in [Clients -> PgOf]
    BY <1>1, Types
  <2>6. QED
    BY <1>1, <1>2, <1>4, <2>4, <2>5 DEF DbStep, Idle
<1>6. QED
  BY <1>1, <1>2, <1>3, <1>4, <1>5, LeaveStep

LEMMA UndoStep == ASSUME IInv, NEW j \in Jobs, Undo(j) PROVE IInv'
<1> DEFINE c == job[j].client
<1>1. loop[j].at = "undo" /\ loop[j].at \in Asking
  BY DEF Undo, LoopAt, Asking, Ats
<1>2. /\ c = loop[j].client /\ c \in Clients /\ queue[c] = <<<<j, "loop">>>>
      /\ pg \in [Clients -> PgOf] /\ db \subseteq Rows
      /\ InTransaction(j) => Mine(j, db) = {}
      /\ UNCHANGED <<input, user, db, accepted, crashes>>
  BY <1>1, AskingFacts, Types DEF IInv, Undo
<1>3. /\ pg' = [pg EXCEPT ![c] = Idle] /\ Leave(j, Verdict(j)) /\ Answered(c)
      /\ Verdict(j) \in {"failed", "canceled"}
  BY <1>2 DEF Undo, Verdict
<1>4. Idle \in PgOf /\ Idle.staged = {}
  BY DEF Idle, PgOf
<1>5. pg' \in [Clients -> PgOf] /\ pg'[c] = Idle /\ \A d \in Clients \ {c} : pg'[d] = pg[d]
  BY <1>2, <1>3, <1>4
<1>6. DbStep(j)
  BY <1>2, <1>4, <1>5 DEF DbStep
<1>7. /\ queue' \in [Clients -> Seq(Jobs \X {"loop", "user"})] /\ queue'[c] = <<>>
      /\ \A d \in Clients \ {c} : queue'[d] = queue[d]
  BY <1>2, <1>3, AnswerLast
<1>8. QED
  BY <1>1, <1>2, <1>3, <1>5, <1>6, <1>7, LeaveStep

LEMMA LoopSteps == ASSUME IInv, NEW j \in Jobs, LoopStep(j) PROVE IInv'
  BY ConnectStep, BeginTransactionStep, FindProjectStep, MergeProjectStep, CreateProjectStep,
     CreateVersionStep, LookupVersionStep, BuildLibraryStep, WriteClassStep, VerifyStep,
     IncrementalPathsStep, UndoStep DEF LoopStep

-----------------------------------------------------------------------------
(* The requests of the user.                                               *)

\* An import whose loop is over and that still has its connection.
LEMMA HeldFacts ==
  ASSUME IInv, NEW j \in Jobs, loop[j].at = "over", job[j].client # None
  PROVE  LET c == job[j].client
         IN /\ c \in Clients /\ c \notin free /\ InTransaction(j) /\ Mine(j, db) = {}
            /\ \A r \in pg[c].staged : r.by = j /\ r.project = loop[j].project
            /\ pg[c].tx = "open" => Written(j, pg[c].staged) = Whole(j)
            /\ pg[c].tx # "open" => pg[c].staged = {}
            /\ pg[c] \in PgOf /\ loop[j].project \in Projects
            /\ input[j] \in Inputs /\ job[j].state # "none"
            /\ queue[c] = IF user[j] \in {"commit", "rollback"} THEN <<<<j, "user">>>> ELSE <<>>
<1>1. TypeOK /\ Owned /\ Place(j) /\ Stage(j) /\ Saved(j)
  BY DEF IInv
<1>2. job[j].client \in Clients
  BY <1>1, Types DEF JobOf
<1>3. pg[job[j].client] \in PgOf
  BY <1>1, <1>2, Types
<1>4. pg[job[j].client].tx = "open" => Written(j, pg[job[j].client].staged) = Whole(j)
  BY <1>1 DEF Stage, Progress, Wrote
<1>5. InTransaction(j) /\ Mine(j, db) = {}
  BY <1>1 DEF Stage, Saved
<1>6. QED
  BY <1>1, <1>2, <1>3, <1>4, <1>5 DEF Place, Stage, Owned

\* A request that puts a query on the connection of its import.
LEMMA AskStep ==
  ASSUME IInv, NEW j \in Jobs, loop[j].at = "over", job[j].client # None, user[j] = "idle",
         NEW what \in {"commit", "rollback"}, Ask(j, what),
         NEW new \in JobOf, job' = [job EXCEPT ![j] = new], new.client = job[j].client,
         new.pending = job[j].pending, new.state # "none",
         what = "commit" => j \in accepted' /\ new.state = "committing", accepted \subseteq accepted', accepted' \subseteq Jobs,
         UNCHANGED <<input, loop, pg, free, db, crashes>>
  PROVE  IInv'
<1> DEFINE c == job[j].client
<1>1. /\ c \in Clients /\ queue[c] = <<>> /\ InTransaction(j) /\ Mine(j, db) = {}
      /\ TypeOK /\ Owned /\ Place(j) /\ Stage(j) /\ Saved(j)
      /\ job \in [Jobs -> JobOf] /\ queue \in [Clients -> Seq(Jobs \X {"loop", "user"})]
      /\ user \in [Jobs -> {"idle", "commit", "rollback", "paths"}]
  BY HeldFacts, Types DEF IInv
<1>2. /\ job' \in [Jobs -> JobOf] /\ job'[j] = new /\ \A k \in Jobs \ {j} : job'[k] = job[k]
  BY <1>1
<1>3. /\ user' \in [Jobs -> {"idle", "commit", "rollback", "paths"}] /\ user'[j] = what
      /\ \A k \in Jobs \ {j} : user'[k] = user[k]
  BY <1>1 DEF Ask
<1>4. /\ queue' \in [Clients -> Seq(Jobs \X {"loop", "user"})] /\ queue'[c] = <<<<j, "user">>>>
      /\ \A d \in Clients \ {c} : queue'[d] = queue[d]
  <2>1. Append(queue[c], <<j, "user">>) = <<<<j, "user">>>>
    BY <1>1
  <2>2. <<<<j, "user">>>> \in Seq(Jobs \X {"loop", "user"})
    OBVIOUS
  <2>3. queue' = [queue EXCEPT ![c] = <<<<j, "user">>>>]
    BY <2>1 DEF Ask
  <2>4. QED
    BY <1>1, <2>2, <2>3
<1>5. TypeOK'
  BY <1>1, <1>2, <1>3, <1>4, Types, TypesPrimed
<1>6. Owned'
  <2>1. \A k \in Jobs : job'[k].client = job[k].client
    BY <1>2
  <2>2. pg'[c].tx # "open" => pg'[c].staged = {}
    BY <1>1 DEF Owned
  <2>3. QED
    BY <1>1, <1>4, <2>1, <2>2, OwnedStay
<1>7. InTransaction(j)'
  BY <1>1 DEF InTransaction
<1>8. Place(j)'
  <2>1. input[j] \in Inputs
    BY HeldFacts
  <2>2. QED
    BY <1>1, <1>2, <1>3, <1>4, <2>1 DEF Place, Asking
<1>9. Stage(j)'
  <2>1. pg[c].tx = "open" => Progress(j)'
    <3>1. pg'[job'[j].client].staged = pg[c].staged
      BY <1>2
    <3>2. Written(j, pg[job[j].client].staged)' = Written(j, pg[c].staged)
      BY <3>1 DEF Written
    <3>3. Whole(j)' = Whole(j)
      BY DEF Whole
    <3>4. QED
      BY <1>1, <3>2, <3>3, HeldFacts DEF Progress, Wrote
  <2>2. QED
    BY <1>1, <1>2, <1>3, <1>7, <2>1, HeldFacts DEF Stage
<1>10. Saved(j)'
  <2>1. Mine(j, db)' = {}
    BY <1>1 DEF Mine
  <2>2. QED
    BY <1>1, <1>3, <2>1 DEF Saved
<1>11. \A k \in Jobs \ {j} : Mine(k, db') = Mine(k, db)
  OBVIOUS
<1>12. QED
  BY <1>2, <1>3, <1>4, <1>5, <1>6, <1>8, <1>9, <1>10, <1>11, OneJob

\* A request that changes nothing but the entry of its import.
LEMMA EntryStep ==
  ASSUME IInv, NEW j \in Jobs, loop[j].at # "none", user[j] = "idle",
         NEW new \in JobOf, job' = [job EXCEPT ![j] = new], new.client = job[j].client,
         new.pending = job[j].pending,
         new.state = job[j].state \/ new.state \notin {"none", "pending-approval"},
         UNCHANGED <<input, loop, user, queue, pg, free, db, accepted, crashes>>
  PROVE  IInv'
<1>1. /\ TypeOK /\ Owned /\ Place(j) /\ Stage(j) /\ Saved(j) /\ job \in [Jobs -> JobOf]
  BY Types DEF IInv
<1>2. /\ job' \in [Jobs -> JobOf] /\ job'[j] = new /\ \A k \in Jobs \ {j} : job'[k] = job[k]
  BY <1>1
<1>3. TypeOK'
  BY <1>1, <1>2, Types, TypesPrimed
<1>4. Owned'
  <2>1. \A k \in Jobs : job'[k].client = job[k].client
    BY <1>2
  <2>2. Idle' = Idle
    BY DEF Idle
  <2>3. QED
    BY <1>1, <2>1, <2>2 DEF Owned
<1>5. InTransaction(j)' <=> InTransaction(j)
  BY DEF InTransaction
<1>6. Mine(j, db)' = Mine(j, db)
  BY DEF Mine
<1>7. Place(j)'
  BY <1>1, <1>2, <1>5, <1>6 DEF Place
<1>8. Stage(j)'
  <2>1. job[j].client # None => (Progress(j)' <=> Progress(j))
    <3>1. pg'[job'[j].client].staged = pg[job[j].client].staged
      BY <1>2
    <3>2. Written(j, pg[job[j].client].staged)' = Written(j, pg[job[j].client].staged)
      BY <3>1 DEF Written
    <3>3. Whole(j)' = Whole(j)
      BY DEF Whole
    <3>4. QED
      BY <3>2, <3>3 DEF Progress, Wrote
  <2>2. QED
    BY <1>1, <1>2, <1>5, <2>1 DEF Stage
<1>9. Saved(j)'
  <2>1. Written(j, db)' = Written(j, db) /\ Whole(j)' = Whole(j)
    BY DEF Written, Whole
  <2>2. QED
    BY <1>1, <1>2, <1>5, <1>6, <2>1 DEF Saved
<1>10. \A k \in Jobs \ {j} : Mine(k, db') = Mine(k, db)
  OBVIOUS
<1>11. QED
  BY <1>2, <1>3, <1>4, <1>7, <1>8, <1>9, <1>10, OneJob

\* The answer to an accept or a reject: the connection goes back to the pool.
LEMMA GiveBackStep ==
  ASSUME IInv, NEW j \in Jobs, loop[j].at = "over", job[j].client # None,
         queue[job[j].client] = <<<<j, "user">>>>, Answered(job[j].client),
         pg' = [pg EXCEPT ![job[j].client] = Idle], free' = free \cup {job[j].client},
         db' = db \/ (db' = db \cup pg[job[j].client].staged /\ j \in accepted),
         NEW new \in JobOf, job' = [job EXCEPT ![j] = new], new.client = None,
         new.state \notin {"none", "pending-approval"},
         NEW what \in {"idle", "paths"}, what = "paths" => new.state = "committing", user' = [user EXCEPT ![j] = what],
         UNCHANGED <<input, loop, accepted, crashes>>
  PROVE  IInv'
<1> DEFINE c == job[j].client
           staged == pg[c].staged
<1>1. /\ TypeOK /\ Owned /\ c \in Clients /\ InTransaction(j) /\ Mine(j, db) = {}
      /\ job \in [Jobs -> JobOf] /\ pg \in [Clients -> PgOf] /\ db \subseteq Rows
      /\ user \in [Jobs -> {"idle", "commit", "rollback", "paths"}]
      /\ pg[c] \in PgOf /\ loop[j].project \in Projects /\ input[j] \in Inputs
      /\ \A r \in staged : r.by = j /\ r.project = loop[j].project
      /\ pg[c].tx = "open" => Written(j, staged) = Whole(j)
      /\ pg[c].tx # "open" => staged = {}
  BY HeldFacts, Types DEF IInv
<1>2. Idle \in PgOf /\ staged \subseteq Rows
  BY <1>1 DEF Idle, PgOf
<1>3. /\ job' \in [Jobs -> JobOf] /\ job'[j] = new /\ \A k \in Jobs \ {j} : job'[k] = job[k]
      /\ pg' \in [Clients -> PgOf] /\ pg'[c] = Idle /\ \A d \in Clients \ {c} : pg'[d] = pg[d]
      /\ user' \in [Jobs -> {"idle", "commit", "rollback", "paths"}] /\ user'[j] = what
      /\ \A k \in Jobs \ {j} : user'[k] = user[k]
  BY <1>1, <1>2
<1>4. /\ queue' \in [Clients -> Seq(Jobs \X {"loop", "user"})] /\ queue'[c] = <<>>
      /\ \A d \in Clients \ {c} : queue'[d] = queue[d]
  BY <1>1, AnswerLast
<1>5. db' \subseteq Rows /\ \A k \in Jobs \ {j} : Mine(k, db') = Mine(k, db)
  BY <1>1, <1>2 DEF Mine
<1>6. TypeOK'
  BY <1>1, <1>3, <1>4, <1>5, Types, TypesPrimed
<1>7. Owned'
  BY <1>1, <1>3, <1>4, OwnedLess
<1>8. InTransaction(j)' /\ Whole(j)' = Whole(j)
  BY <1>1 DEF InTransaction, Whole
<1>9. Place(j)'
  BY <1>1, <1>3 DEF Place, Asking
<1>10. Stage(j)'
  BY <1>1, <1>3 DEF Stage
<1>11. Saved(j)'
  <2>1. Mine(j, db)' = Mine(j, db') /\ Written(j, db)' = Written(j, db')
    BY DEF Mine, Written
  <2>2. CASE db' = db
    BY <1>1, <1>3, <1>8, <2>1, <2>2 DEF Saved
  <2>3. CASE db' = db \cup staged /\ j \in accepted
    <3>1. Mine(j, db') = staged /\ Mine(j, staged) = staged
      BY <1>1, <2>3 DEF Mine
    <3>2. Written(j, db') = Written(j, staged)
      BY <3>1, WrittenMine
    <3>3. CASE pg[c].tx = "open"
      <4>1. Mine(j, db)' = staged /\ Written(j, db)' = Whole(j)'
        BY <1>1, <1>8, <2>1, <3>1, <3>2, <3>3
      <4>2. \A r \in staged : r.project = loop'[j].project
        BY <1>1
      <4>3. loop'[j].at = "over" /\ job'[j].client = None /\ user'[j] # "commit" /\ j \in accepted'
        BY <1>3, <2>3
      <4>4. QED
        BY <4>1, <4>2, <4>3 DEF Saved
    <3>4. CASE pg[c].tx # "open"
      BY <1>1, <1>3, <1>8, <2>1, <2>3, <3>1, <3>4 DEF Saved
    <3>5. QED
      BY <3>3, <3>4
  <2>4. QED
    BY <2>2, <2>3
<1>12. QED
  BY <1>3, <1>4, <1>5, <1>6, <1>7, <1>9, <1>10, <1>11, OneJob

LEMMA CommitImportStep == ASSUME IInv, NEW j \in Jobs, CommitImport(j) PROVE IInv'
<1> DEFINE new == [job[j] EXCEPT !.state = "committing"]
<1>1. /\ job[j] \in JobOf /\ job[j].state = "pending-approval" /\ user[j] = "idle"
      /\ Place(j) /\ accepted \subseteq Jobs /\ accepted' = accepted \cup {j}
      /\ job' = [job EXCEPT ![j] = new] /\ Ask(j, "commit")
      /\ UNCHANGED <<input, loop, pg, free, db, crashes>>
  BY Types DEF IInv, CommitImport, Known
<1>2. loop[j].at = "over" /\ job[j].client # None
  BY <1>1 DEF Place
<1>3. /\ new \in JobOf /\ new.client = job[j].client /\ new.pending = job[j].pending
      /\ new.state = "committing"
  BY <1>1 DEF JobOf, States
<1> HIDE DEF new
<1>4. QED
  BY <1>1, <1>2, <1>3, AskStep

LEMMA CommittedStep == ASSUME IInv, NEW j \in Jobs, Committed(j) PROVE IInv'
<1> DEFINE c == job[j].client
           new == [job[j] EXCEPT !.pending = FALSE, !.client = None]
<1>1. /\ job[j] \in JobOf /\ user[j] = "commit" /\ Place(j) /\ Saved(j)
      /\ job' = [job EXCEPT ![j] = new]
      /\ db' = db \cup pg[c].staged /\ pg' = [pg EXCEPT ![c] = Idle] /\ Answered(c)
      /\ free' = free \cup {c} /\ user' = [user EXCEPT ![j] = "paths"]
      /\ UNCHANGED <<input, loop, accepted, crashes>>
  BY Types DEF IInv, Committed
<1>2. loop[j].at = "over" /\ c # None /\ queue[c] = <<<<j, "user">>>> /\ j \in accepted
  BY <1>1 DEF Place, Saved
<1>3. new \in JobOf /\ new.client = None /\ new.state = "committing"
  BY <1>1 DEF JobOf, Place
<1> HIDE DEF new
<1>4. QED
  BY <1>1, <1>2, <1>3, GiveBackStep

LEMMA CommitLostStep == ASSUME IInv, NEW j \in Jobs, CommitLost(j) PROVE IInv'
<1> DEFINE c == job[j].client
           new == [job[j] EXCEPT !.state = "failed", !.client = None]
<1>1. /\ job[j] \in JobOf /\ user[j] = "commit" /\ Place(j) /\ Saved(j)
      /\ job' = [job EXCEPT ![j] = new] /\ queue[c] = <<<<j, "user">>>>
      /\ db' \in {db, db \cup pg[c].staged} /\ pg' = [pg EXCEPT ![c] = Idle] /\ Answered(c)
      /\ free' = free \cup {c} /\ user' = [user EXCEPT ![j] = "idle"]
      /\ UNCHANGED <<input, loop, accepted, crashes>>
  BY Types DEF IInv, CommitLost
<1>2. loop[j].at = "over" /\ c # None /\ j \in accepted
  BY <1>1 DEF Place, Saved
<1>3. new \in JobOf /\ new.client = None /\ new.state = "failed"
  BY <1>1 DEF JobOf, States
<1> HIDE DEF new
<1>4. QED
  BY <1>1, <1>2, <1>3, GiveBackStep

LEMMA CommitPathsStep == ASSUME IInv, NEW j \in Jobs, CommitPaths(j) PROVE IInv'
<1> DEFINE row == Row("paths", j, loop[j].project, None)
           new == [job[j] EXCEPT !.state = "completed"]
<1>1. /\ TypeOK /\ Owned /\ Place(j) /\ Stage(j) /\ Saved(j)
      /\ job[j] \in JobOf /\ job \in [Jobs -> JobOf]
      /\ user \in [Jobs -> {"idle", "commit", "rollback", "paths"}] /\ user[j] = "paths"
      /\ job' = [job EXCEPT ![j] = new] /\ user' = [user EXCEPT ![j] = "idle"] /\ ImportPaths(j)
      /\ UNCHANGED <<input, loop, queue, pg, free, accepted, crashes>>
  BY Types DEF IInv, CommitPaths
<1>2. loop[j].at = "over" /\ job[j].client = None /\ loop[j].project \in Projects
  BY <1>1 DEF Place, Stage
<1>3. new \in JobOf /\ new.client = None /\ new.state = "completed"
  BY <1>1, <1>2 DEF JobOf, States
<1> HIDE DEF new
<1>4. /\ job' \in [Jobs -> JobOf] /\ job'[j] = new /\ \A k \in Jobs \ {j} : job'[k] = job[k]
      /\ user' \in [Jobs -> {"idle", "commit", "rollback", "paths"}] /\ user'[j] = "idle"
      /\ \A k \in Jobs \ {j} : user'[k] = user[k]
  BY <1>1, <1>3
<1>5. row \in Rows /\ row.by = j /\ row.project = loop[j].project /\ row.kind = "paths"
  BY <1>2, MetaRow
<1>6. db' = db \/ (db' = db \cup {row} /\ Mine(j, db) # {})
  <2>1. ASSUME NEW r \in db, r.by = j PROVE Mine(j, db) # {}
    BY <2>1 DEF Mine
  <2>2. QED
    BY <1>1, <2>1 DEF ImportPaths
<1> HIDE DEF row
<1>7. /\ db' \subseteq Rows /\ \A k \in Jobs \ {j} : Mine(k, db') = Mine(k, db)
      /\ Mine(j, db') = Mine(j, db) \/ (Mine(j, db') = Mine(j, db) \cup {row} /\ Mine(j, db) # {})
  BY <1>1, <1>5, <1>6, Types DEF Mine
<1>8. Written(j, db') = Written(j, db)
  <2>1. Written(j, db \cup {row}) = Written(j, db)
    BY <1>5, WrittenAdds
  <2>2. QED
    BY <1>6, <2>1
<1>9. TypeOK'
  BY <1>1, <1>4, <1>7, Types, TypesPrimed
<1>10. Owned'
  <2>1. \A k \in Jobs : job'[k].client = job[k].client
    BY <1>2, <1>3, <1>4
  <2>2. Idle' = Idle
    BY DEF Idle
  <2>3. QED
    BY <1>1, <2>1, <2>2 DEF Owned
<1>11. (InTransaction(j)' <=> InTransaction(j)) /\ Whole(j)' = Whole(j)
  BY <1>1 DEF InTransaction, Whole
<1>12. Place(j)'
  BY <1>1, <1>2, <1>3, <1>4 DEF Place, Asking
<1>13. Stage(j)'
  BY <1>1, <1>2, <1>3, <1>4 DEF Stage
<1>14. Saved(j)'
  <2>1. Mine(j, db)' = Mine(j, db') /\ Written(j, db)' = Written(j, db')
    BY DEF Mine, Written
  <2>2. QED
    BY <1>1, <1>2, <1>3, <1>4, <1>5, <1>7, <1>8, <1>11, <2>1 DEF Saved
<1>15. QED
  BY <1>1, <1>4, <1>7, <1>9, <1>10, <1>12, <1>13, <1>14, OneJob

LEMMA RollbackImportStep ==
  ASSUME IInv, ~Overlap, NEW j \in Jobs, RollbackImport(j)
  PROVE  IInv'
<1>1. /\ job[j] \in JobOf /\ job \in [Jobs -> JobOf] /\ Place(j) /\ user[j] = "idle"
      /\ job[j].state \in {"pending-approval", "running"} /\ accepted \subseteq Jobs
      /\ UNCHANGED <<input, loop, pg, free, db, accepted, crashes>>
  BY Types DEF IInv, RollbackImport, Known
<1>2. CASE Holds(j)
  <2>1. loop[j].at = "over" /\ Ask(j, "rollback") /\ job' = job /\ job[j].client # None
    BY <1>2 DEF RollbackImport, RollbackAsked, Holds
  <2>2. job' = [job EXCEPT ![j] = job[j]]
    BY <1>1, <2>1
  <2>3. QED
    BY <1>1, <2>1, <2>2, AskStep
<1>3. CASE ~Holds(j)
  <2> DEFINE new == [job[j] EXCEPT !.state = "rolled-back"]
  <2>1. job' = [job EXCEPT ![j] = new] /\ user' = user /\ queue' = queue
    BY <1>3 DEF RollbackImport
  <2>2. /\ new \in JobOf /\ new.client = job[j].client /\ new.pending = job[j].pending
        /\ new.state = "rolled-back"
    BY <1>1 DEF JobOf, States
  <2>3. loop[j].at # "none"
    BY <1>1 DEF Place
  <2> HIDE DEF new
  <2>4. QED
    BY <1>1, <2>1, <2>2, <2>3, EntryStep
<1>4. QED
  BY <1>2, <1>3

LEMMA CancelImportStep ==
  ASSUME IInv, ~Overlap, NEW j \in Jobs, CancelImport(j)
  PROVE  IInv'
<1> DEFINE new == [job[j] EXCEPT !.canceled = TRUE]
<1>1. /\ job[j] \in JobOf /\ job \in [Jobs -> JobOf] /\ Place(j) /\ user[j] = "idle"
      /\ job[j].state # "none" /\ accepted \subseteq Jobs /\ job' = [job EXCEPT ![j] = new]
      /\ UNCHANGED <<input, loop, pg, free, db, accepted, crashes>>
  BY Types DEF IInv, CancelImport, Known
<1>2. /\ new \in JobOf /\ new.client = job[j].client /\ new.pending = job[j].pending
      /\ new.state = job[j].state
  BY <1>1 DEF JobOf
<1> HIDE DEF new
<1>3. loop[j].at # "none"
  BY <1>1 DEF Place
<1>4. CASE Holds(j) /\ RollbackAsked(j)
  <2>1. loop[j].at = "over" /\ Ask(j, "rollback") /\ job[j].client # None
    BY <1>4 DEF RollbackAsked, Holds
  <2>2. QED
    BY <1>1, <1>2, <2>1, AskStep
<1>5. CASE UNCHANGED <<user, queue>>
  BY <1>1, <1>2, <1>3, <1>5, EntryStep
<1>6. QED
  BY <1>4, <1>5 DEF CancelImport

\* Only the import a connection belongs to waits for its answer.
LEMMA AskedByOwner ==
  ASSUME IInv, NEW j \in Jobs, NEW c \in Clients, Asked(j, "user", c)
  PROVE  c = job[j].client /\ c # None /\ loop[j].at = "over" /\ queue[c] = <<<<j, "user">>>>
<1>1. Owned /\ queue[c] # <<>> /\ Head(queue[c]) = <<j, "user">>
  BY DEF IInv, Asked
<1>2. PICK k \in Jobs : job[k].client = c
  BY <1>1 DEF Owned
<1>3. Place(k) /\ c # None /\ loop[k].at \in Ats
  BY <1>2, NamesAssumption, Types DEF IInv, LoopOf
<1>4. loop[k].at \in Asking \/ loop[k].at = "over"
  BY <1>1, <1>2, <1>3 DEF Place, Asking
<1>5. loop[k].at = "over" /\ queue[c] = <<<<k, "user">>>>
  BY <1>1, <1>2, <1>3, <1>4 DEF Place
<1>6. k = j
  BY <1>1, <1>5
<1>7. QED
  BY <1>2, <1>3, <1>5, <1>6

LEMMA RolledBackStep == ASSUME IInv, NEW j \in Jobs, RolledBack(j) PROVE IInv'
<1> DEFINE new == [state |-> "rolled-back", canceled |-> TRUE, pending |-> FALSE, client |-> None]
<1>1. PICK c \in Clients :
        /\ user[j] = "rollback" /\ Asked(j, "user", c)
        /\ pg' = [pg EXCEPT ![c] = Idle]
        /\ Answered(c)
        /\ IF job[j].client \in {None} \cup free
           THEN job' = [job EXCEPT ![j].pending = FALSE] /\ UNCHANGED free
           ELSE job' = [job EXCEPT ![j] = new] /\ free' = free \cup {job[j].client}
        /\ user' = [user EXCEPT ![j] = "idle"]
        /\ UNCHANGED <<input, loop, db, accepted, crashes>>
  BY DEF RolledBack
<1>2. c = job[j].client /\ c # None /\ loop[j].at = "over" /\ queue[c] = <<<<j, "user">>>>
  BY <1>1, AskedByOwner
<1>3. c \notin free
  BY <1>2, HeldFacts
<1>4. new \in JobOf /\ new.client = None /\ new.state = "rolled-back"
  BY DEF JobOf, States
<1> HIDE DEF new
<1>5. QED
  BY <1>1, <1>2, <1>3, <1>4, GiveBackStep

LEMMA RollbackCompletedStep == ASSUME IInv, NEW j \in Jobs, RollbackCompleted(j) PROVE IInv'
<1> DEFINE p == loop[j].project
           new == [job[j] EXCEPT !.state = "rolled-back"]
<1>1. /\ TypeOK /\ Owned /\ job[j] \in JobOf /\ job \in [Jobs -> JobOf]
      /\ user[j] = "idle" /\ job[j].state = "completed"
      /\ db' = {r \in db : r.project # p} /\ job' = [job EXCEPT ![j] = new]
      /\ UNCHANGED <<input, loop, user, queue, pg, free, accepted, crashes>>
  BY Types DEF IInv, RollbackCompleted, Known
<1>2. /\ new \in JobOf /\ new.client = job[j].client /\ new.pending = job[j].pending
      /\ new.state = "rolled-back"
  BY <1>1 DEF JobOf, States
<1> HIDE DEF new
<1>3. /\ job' \in [Jobs -> JobOf] /\ job'[j] = new /\ \A k \in Jobs \ {j} : job'[k] = job[k]
      /\ \A k \in Jobs : job'[k].client = job[k].client /\ job'[k].pending = job[k].pending
  BY <1>1, <1>2
<1>4. TypeOK'
  BY <1>1, <1>3, Types, TypesPrimed
<1>5. Owned'
  <2>1. Idle' = Idle
    BY DEF Idle
  <2>2. QED
    BY <1>1, <1>3, <2>1 DEF Owned
<1>6. ASSUME NEW k \in Jobs
      PROVE  Place(k)' /\ Stage(k)' /\ Saved(k)'
  <2>1. Place(k) /\ Stage(k) /\ Saved(k)
    BY DEF IInv
  <2>2. (InTransaction(k)' <=> InTransaction(k)) /\ Whole(k)' = Whole(k)
    BY <1>1 DEF InTransaction, Whole
  <2>3. Mine(k, db)' = Mine(k, db') /\ Mine(k, db') \subseteq Mine(k, db)
    BY <1>1 DEF Mine
  <2>4. Place(k)'
    <3>1. CASE k = j
      BY <1>1, <1>2, <1>3, <2>1, <2>2, <2>3, <3>1 DEF Place
    <3>2. CASE k # j
      BY <1>1, <1>3, <2>1, <2>2, <2>3, <3>2 DEF Place
    <3>3. QED
      BY <3>1, <3>2
  <2>5. Stage(k)'
    <3>1. pg'[job'[k].client].staged = pg[job[k].client].staged
      BY <1>1, <1>3
    <3>2. Written(k, pg[job[k].client].staged)' = Written(k, pg[job[k].client].staged)
      BY <3>1 DEF Written
    <3>3. Progress(k)' <=> Progress(k)
      BY <1>1, <2>2, <3>2 DEF Progress, Wrote
    <3>4. QED
      BY <1>1, <1>3, <2>1, <2>2, <3>3 DEF Stage
  <2>6. InTransaction(k) => Mine(k, db') = {} \/ Mine(k, db') = Mine(k, db)
    <3> SUFFICES ASSUME InTransaction(k), NEW r \in Mine(k, db') PROVE Mine(k, db') = Mine(k, db)
      OBVIOUS
    <3>1. r \in Mine(k, db) /\ r.project # p
      BY <1>1 DEF Mine
    <3>2. \A s \in Mine(k, db) : s.project # p
      BY <2>1, <3>1 DEF Saved
    <3>3. QED
      BY <1>1, <3>2 DEF Mine
  <2>7. Mine(k, db') = Mine(k, db) => Written(k, db') = Written(k, db)
    BY WrittenMine
  <2>8. Written(k, db)' = Written(k, db')
    BY DEF Written
  <2>9. Saved(k)'
    BY <1>1, <1>3, <2>1, <2>2, <2>3, <2>6, <2>7, <2>8 DEF Saved
  <2>10. QED
    BY <2>4, <2>5, <2>9
<1>7. QED
  BY <1>4, <1>5, <1>6 DEF IInv

LEMMA StartStep == ASSUME IInv, NEW j \in Jobs, NEW i \in Inputs, Start(j, i) PROVE IInv'
<1> DEFINE dry == i.mode = "dry"
           new == [job[j] EXCEPT !.state = IF dry THEN "completed" ELSE "running"]
           next == [loop[j] EXCEPT !.at = IF dry THEN "over" ELSE "connect"]
<1>1. /\ TypeOK /\ Owned /\ Place(j) /\ Saved(j)
      /\ job[j] \in JobOf /\ loop[j] \in LoopOf /\ loop[j].at = "none"
      /\ job \in [Jobs -> JobOf] /\ loop \in [Jobs -> LoopOf]
      /\ input \in [Jobs -> Inputs \cup {NoInput}]
      /\ job[j].client = None /\ ~job[j].pending /\ user[j] = "idle" /\ Mine(j, db) = {}
      /\ input' = [input EXCEPT ![j] = i] /\ job' = [job EXCEPT ![j] = new]
      /\ loop' = [loop EXCEPT ![j] = next]
      /\ UNCHANGED <<user, queue, pg, free, db, accepted, crashes>>
  BY Types DEF IInv, Start, Place
<1>2. /\ new \in JobOf /\ new.client = None /\ ~new.pending
      /\ new.state = IF dry THEN "completed" ELSE "running"
  <2>1. (IF dry THEN "completed" ELSE "running") \in States
    BY DEF States
  <2> HIDE DEF dry
  <2>2. QED
    BY <1>1, <2>1 DEF JobOf
<1>3. next \in LoopOf /\ next.at = IF dry THEN "over" ELSE "connect"
  <2>1. (IF dry THEN "over" ELSE "connect") \in Ats
    BY DEF Ats
  <2> HIDE DEF dry
  <2>2. QED
    BY <1>1, <2>1 DEF LoopOf
<1> HIDE DEF new, next
<1>4. /\ job' \in [Jobs -> JobOf] /\ loop' \in [Jobs -> LoopOf]
      /\ input' \in [Jobs -> Inputs \cup {NoInput}]
      /\ job'[j] = new /\ loop'[j] = next /\ input'[j] = i
      /\ \A k \in Jobs \ {j} : job'[k] = job[k] /\ loop'[k] = loop[k] /\ input'[k] = input[k]
  BY <1>1, <1>2, <1>3
<1>5. TypeOK'
  BY <1>1, <1>4, Types, TypesPrimed
<1>6. Owned'
  <2>1. \A k \in Jobs : job'[k].client = job[k].client
    BY <1>1, <1>2, <1>4
  <2>2. Idle' = Idle
    BY DEF Idle
  <2>3. QED
    BY <1>1, <2>1, <2>2 DEF Owned
<1>7. Mine(j, db)' = {}
  BY <1>1 DEF Mine
<1>8. i.mode \in {"dry", "transaction", "incremental"}
  BY InputsAssumption
<1>9. Place(j)'
  BY <1>1, <1>2, <1>3, <1>4, <1>7, <1>8 DEF Place, Asking
<1>10. Stage(j)'
  BY <1>1, <1>2, <1>3, <1>4 DEF Stage
<1>11. Saved(j)'
  BY <1>1, <1>7 DEF Saved
<1>12. \A k \in Jobs \ {j} : Mine(k, db') = Mine(k, db)
  BY <1>1
<1>13. QED
  BY <1>1, <1>4, <1>5, <1>6, <1>9, <1>10, <1>11, <1>12, OneJob

LEMMA RetryStep == ASSUME IInv, NEW j \in Jobs, NEW k \in Jobs, Retry(j, k) PROVE IInv'
<1>1. Place(j) /\ job[j].state # "none" /\ Start(k, input[j])
  BY DEF IInv, Retry
<1>2. input[j] \in Inputs
  BY <1>1 DEF Place
<1>3. QED
  BY <1>1, <1>2, StartStep

LEMMA CrashStep == ASSUME IInv, Crash PROVE IInv'
<1> DEFINE Fresh(k) == job[k].state = "none"
           gone == [NoJob EXCEPT !.state = "lost"]
           over == [NoLoop EXCEPT !.at = "over"]
<1>1. /\ TypeOK /\ Owned /\ crashes \in 0..MaxCrashes
      /\ crashes < MaxCrashes /\ crashes' = crashes + 1
      /\ job' = [k \in Jobs |-> IF Fresh(k) THEN NoJob ELSE gone]
      /\ loop' = [k \in Jobs |-> IF Fresh(k) THEN NoLoop ELSE over]
      /\ user' = [k \in Jobs |-> "idle"] /\ queue' = [c \in Clients |-> <<>>]
      /\ pg' = [c \in Clients |-> Idle] /\ free' = Clients
      /\ UNCHANGED <<input, db, accepted>>
  BY Types DEF IInv, Crash
<1>2. /\ NoJob \in JobOf /\ gone \in JobOf /\ NoLoop \in LoopOf /\ over \in LoopOf /\ Idle \in PgOf
      /\ NoJob.client = None /\ gone.client = None /\ NoJob.state = "none" /\ gone.state = "lost"
      /\ ~NoJob.pending /\ NoLoop.at = "none" /\ over.at = "over"
  BY DEF NoJob, NoLoop, Idle, JobOf, LoopOf, PgOf, States, Ats
<1> HIDE DEF gone, over
<1>3. /\ job' \in [Jobs -> JobOf] /\ loop' \in [Jobs -> LoopOf] /\ pg' \in [Clients -> PgOf]
      /\ user' \in [Jobs -> {"idle", "commit", "rollback", "paths"}]
      /\ queue' \in [Clients -> Seq(Jobs \X {"loop", "user"})]
      /\ crashes' \in 0..MaxCrashes
  <2>1. <<>> \in Seq(Jobs \X {"loop", "user"})
    OBVIOUS
  <2>2. crashes' \in 0..MaxCrashes
    BY <1>1, BoundsAssumption
  <2>3. QED
    BY <1>1, <1>2, <2>1, <2>2
<1>4. TypeOK'
  BY <1>1, <1>3, Types, TypesPrimed
<1>5. \A k \in Jobs : job'[k].client = None
  BY <1>1, <1>2
<1>6. Owned'
  <2>1. Idle' = Idle /\ Idle.staged = {}
    BY DEF Idle
  <2>2. None \notin free'
    BY <1>1, NamesAssumption
  <2>3. \A c \in Clients : pg'[c] = Idle /\ queue'[c] = <<>>
    BY <1>1
  <2>4. QED
    BY <1>5, <2>1, <2>2, <2>3 DEF Owned
<1>7. ASSUME NEW k \in Jobs
      PROVE  Place(k)' /\ Stage(k)' /\ Saved(k)'
  <2>1. Place(k) /\ Saved(k)
    BY DEF IInv
  <2>2. (InTransaction(k)' <=> InTransaction(k)) /\ Whole(k)' = Whole(k)
    BY <1>1 DEF InTransaction, Whole
  <2>3. Mine(k, db)' = Mine(k, db) /\ Written(k, db)' = Written(k, db)
    BY <1>1 DEF Mine, Written
  <2>4. NoInput' = NoInput
    BY DEF NoInput
  <2>5. user'[k] = "idle" /\ job'[k].client = None /\ input'[k] = input[k] /\ accepted' = accepted
    BY <1>1, <1>5
  <2>6. CASE Fresh(k)
    <3>1. job'[k] = NoJob /\ loop'[k] = NoLoop /\ loop[k].at = "none"
      BY <1>1, <2>1, <2>6 DEF Place
    <3>2. Place(k)'
      BY <1>2, <2>1, <2>3, <2>4, <2>5, <3>1 DEF Place, Asking
    <3>3. Stage(k)'
      BY <1>2, <2>5, <3>1 DEF Stage
    <3>4. Saved(k)'
      BY <1>2, <2>1, <2>2, <2>3, <2>5, <3>1 DEF Saved, Place
    <3>5. QED
      BY <3>2, <3>3, <3>4
  <2>7. CASE ~Fresh(k)
    <3>1. job'[k] = gone /\ loop'[k] = over /\ loop[k].at # "none"
      BY <1>1, <2>1, <2>7 DEF Place
    <3>2. Place(k)'
      BY <1>2, <2>1, <2>3, <2>5, <3>1 DEF Place, Asking
    <3>3. Stage(k)'
      BY <1>2, <2>5, <3>1 DEF Stage
    <3>4. Saved(k)'
      BY <1>2, <2>1, <2>2, <2>3, <2>5, <3>1 DEF Saved
    <3>5. QED
      BY <3>2, <3>3, <3>4
  <2>8. QED
    BY <2>6, <2>7
<1>8. QED
  BY <1>4, <1>6, <1>7 DEF IInv

LEMMA InitIInv == Init => IInv
<1> SUFFICES ASSUME Init PROVE IInv
  OBVIOUS
<1>1. /\ NoJob \in JobOf /\ NoLoop \in LoopOf /\ Idle \in PgOf /\ Idle.staged = {}
      /\ NoJob.client = None /\ NoJob.state = "none" /\ ~NoJob.pending /\ NoLoop.at = "none"
  BY DEF NoJob, NoLoop, Idle, JobOf, LoopOf, PgOf, States, Ats
<1>2. GivenRows \subseteq Rows /\ \A r \in GivenRows : r.by = Given
  <2>1. Given \in Projects
    BY DEF Projects
  <2>2. \A r \in GivenRows : r.kind \in {"project", "version"} /\ r.by = Given /\ r.project = Given
                              /\ r.name \in {None, GivenLine}
    BY DEF GivenRows, Row
  <2>3. Row("project", Given, Given, None) \in Rows /\ Row("version", Given, Given, GivenLine) \in Rows
    BY <2>1 DEF Row, Rows
  <2>4. QED
    BY <2>2, <2>3 DEF GivenRows
<1>3. db \subseteq Rows /\ \A k \in Jobs : Mine(k, db) = {}
  BY <1>2, NamesAssumption DEF Init, Mine
<1>4. <<>> \in Seq(Jobs \X {"loop", "user"}) /\ crashes \in 0..MaxCrashes
  BY BoundsAssumption DEF Init
<1>5. TypeOK
  BY <1>1, <1>3, <1>4, Types DEF Init
<1>6. Owned
  BY <1>1, NamesAssumption DEF Init, Owned
<1>7. ASSUME NEW k \in Jobs
      PROVE  Place(k) /\ Stage(k) /\ Saved(k)
  <2>1. /\ job[k] = NoJob /\ loop[k] = NoLoop /\ user[k] = "idle" /\ input[k] = NoInput
        /\ Mine(k, db) = {}
    BY <1>3 DEF Init
  <2>2. QED
    BY <1>1, <2>1 DEF Place, Stage, Saved, Asking
<1>8. QED
  BY <1>5, <1>6, <1>7 DEF IInv

LEMMA StepIInv == ASSUME ~Overlap, IInv, [Next]_vars PROVE IInv'
<1>1. CASE Next
  BY <1>1, LoopSteps, StartStep, RetryStep, CommitImportStep, CommittedStep, CommitLostStep,
     CommitPathsStep, RollbackImportStep, CancelImportStep, RolledBackStep, RollbackCompletedStep,
     CrashStep DEF Next, AnswerStep, UserStep
<1>2. CASE UNCHANGED vars
  <2>1. UNCHANGED <<input, job, loop, user, queue, pg, free, db, accepted, crashes>>
    BY <1>2 DEF vars
  <2>2. TypeOK'
    BY <2>1, Types, TypesPrimed DEF IInv
  <2>3. Idle' = Idle
    BY DEF Idle
  <2>4. Owned'
    BY <2>1, <2>3 DEF IInv, Owned
  <2>5. \A k \in Jobs : Place(k)' /\ Stage(k)' /\ Saved(k)'
    BY <2>1, Frame DEF IInv
  <2>6. QED
    BY <2>2, <2>4, <2>5 DEF IInv
<1>3. QED
  BY <1>1, <1>2

-----------------------------------------------------------------------------
(* What holds of every reachable state.                                    *)

(* The jobs map, the loops, the connections and the catalog have the shapes
   of import-helper.ts and import-transaction.ts. *)
THEOREM TypesHold == ASSUME ~Overlap PROVE Spec => []TypeOK
<1>1. IInv /\ [Next]_vars => IInv'
  BY StepIInv
<1>2. IInv => TypeOK
  BY DEF IInv
<1>3. QED
  BY InitIInv, <1>1, <1>2, PTL DEF Spec

(* No two imports ever use one connection of the pool, and none uses a
   connection it has released (getTransactionClient, releaseClient). *)
THEOREM ConnectionsAreApart == ASSUME ~Overlap PROVE Spec => []OneImportPerConnection
<1>1. IInv => OneImportPerConnection
  <2> SUFFICES ASSUME IInv PROVE OneImportPerConnection
    OBVIOUS
  <2>1. \A j \in Jobs : Uses(j) \subseteq {job[j].client} \ {None}
    <3> SUFFICES ASSUME NEW j \in Jobs PROVE Uses(j) \subseteq {job[j].client} \ {None}
      OBVIOUS
    <3>1. Place(j) /\ loop[j].at \in Ats
      BY Types DEF IInv, LoopOf
    <3>2. CASE loop[j].at \in {"none", "connect", "over"}
      BY <3>2 DEF Uses
    <3>3. CASE loop[j].at \notin {"none", "connect", "over"}
      <4>1. loop[j].client = job[j].client /\ job[j].client # None
        BY <3>1, <3>3 DEF Place, Asking
      <4>2. QED
        BY <3>3, <4>1 DEF Uses
    <3>4. QED
      BY <3>2, <3>3
  <2>2. Owned
    BY DEF IInv
  <2>3. ASSUME NEW j \in Jobs
        PROVE  Uses(j) \cap free = {} /\ \A k \in Jobs \ {j} : Uses(j) \cap Uses(k) = {}
    BY <2>1, <2>2 DEF Owned
  <2>4. QED
    BY <2>3 DEF OneImportPerConnection
<1>2. IInv /\ [Next]_vars => IInv'
  BY StepIInv
<1>3. QED
  BY InitIInv, <1>1, <1>2, PTL DEF Spec

(* An import that waits for its user's approval holds an open transaction
   with the whole document, or one the database has given up. *)
THEOREM ApprovalsAreBacked == ASSUME ~Overlap PROVE Spec => []ApprovalIsBacked
<1>1. IInv => ApprovalIsBacked
  <2> SUFFICES ASSUME IInv, NEW j \in Jobs, job[j].state = "pending-approval"
               PROVE  /\ Holds(j)
                      /\ \/ Aborted(job[j].client)
                         \/ /\ pg[job[j].client].tx = "open"
                            /\ Written(j, pg[job[j].client].staged) = Whole(j)
                            /\ \A r \in pg[job[j].client].staged : r.by = j
    BY DEF ApprovalIsBacked
  <2>1. loop[j].at = "over" /\ job[j].client # None /\ Stage(j)
    BY DEF IInv, Place
  <2>2. job[j].pending /\ pg[job[j].client].tx # "idle"
    BY <2>1 DEF Stage
  <2>3. pg[job[j].client].tx \in {"idle", "open", "aborted"}
    BY <2>1, HeldFacts DEF PgOf
  <2>4. QED
    BY <2>1, <2>2, <2>3, HeldFacts DEF Holds, Aborted
<1>2. IInv /\ [Next]_vars => IInv'
  BY StepIInv
<1>3. QED
  BY InitIInv, <1>1, <1>2, PTL DEF Spec

(* In transaction mode nothing of an import is saved that its user has not
   accepted, and nothing less than the whole of it. *)
THEOREM AcceptedIsSavedWhole == ASSUME ~Overlap PROVE Spec => []SavedIsAcceptedAndWhole
<1>1. IInv => SavedIsAcceptedAndWhole
  <2> SUFFICES ASSUME IInv, NEW r \in db, r.by \in Jobs, InTransaction(r.by)
               PROVE  r.by \in accepted /\ Written(r.by, db) = Whole(r.by)
    BY DEF SavedIsAcceptedAndWhole
  <2>1. Saved(r.by) /\ Mine(r.by, db) # {}
    BY DEF IInv, Mine
  <2>2. QED
    BY <2>1 DEF Saved
<1>2. IInv /\ [Next]_vars => IInv'
  BY StepIInv
<1>3. QED
  BY InitIInv, <1>1, <1>2, PTL DEF Spec

-----------------------------------------------------------------------------
(* The imports of transaction mode implement AtomicImport.                 *)

Wanted  == [j \in Jobs |-> IF InTransaction(j) THEN Whole(j) ELSE {}]
Content == [j \in Jobs |-> IF InTransaction(j) THEN Written(j, db) ELSE {}]
Items   == UNION {{i.line} \cup {i.names[k] : k \in DOMAIN i.names} : i \in Inputs}

LEMMA NothingWritten == ASSUME NEW j, NEW R, Mine(j, R) = {} PROVE Written(j, R) = {}
  BY DEF Mine, Written

LEMMA PrimedContent ==
  ASSUME NEW k \in Jobs, input'[k] = input[k]
  PROVE  /\ Content'[k] = IF InTransaction(k) THEN Written(k, db') ELSE {}
         /\ Wanted'[k] = IF InTransaction(k) THEN Whole(k) ELSE {}
<1>1. Written(k, db)' = Written(k, db')
  BY DEF Written
<1>2. (InTransaction(k)' <=> InTransaction(k)) /\ Whole(k)' = Whole(k)
  BY DEF InTransaction, Whole
<1>3. QED
  BY <1>1, <1>2 DEF Content, Wanted

\* A step that saves nothing of an import of transaction mode.
LEMMA SameContent ==
  ASSUME input' = input, \A k \in Jobs : InTransaction(k) => Written(k, db') = Written(k, db)
  PROVE  Wanted' = Wanted /\ Content' = Content
<1>1. \A k \in Jobs : Content'[k] = Content[k] /\ Wanted'[k] = Wanted[k]
  BY PrimedContent DEF Content, Wanted
<1>2. /\ Content = [k \in Jobs |-> Content[k]] /\ Wanted = [k \in Jobs |-> Wanted[k]]
      /\ Content' = [k \in Jobs |-> Content'[k]] /\ Wanted' = [k \in Jobs |-> Wanted'[k]]
  BY DEF Content, Wanted
<1>3. QED
  BY <1>1, <1>2

LEMMA PathsAreNoContent ==
  ASSUME NEW j \in Jobs, ImportPaths(j)
  PROVE  \A k \in Jobs : Written(k, db') = Written(k, db)
<1> DEFINE row == Row("paths", j, loop[j].project, None)
<1>1. db' = db \/ db' = db \cup {row}
  BY DEF ImportPaths
<1>2. row.kind = "paths"
  BY DEF Row
<1> HIDE DEF row
<1>3. \A k \in Jobs : Written(k, db \cup {row}) = Written(k, db)
  BY <1>2 DEF Written
<1>4. QED
  BY <1>1, <1>3

\* What a query of a loop does leaves the saved part of the others alone, and
\* in transaction mode its own.
LEMMA QueryContent ==
  ASSUME IInv, NEW j \in Jobs, loop[j].at \in Asking, DbStep(j),
         NEW k \in Jobs, InTransaction(k)
  PROVE  Written(k, db') = Written(k, db)
<1>1. Mine(k, db') = Mine(k, db)
  <2>1. CASE k = j
    BY <2>1, AskingFacts DEF DbStep
  <2>2. CASE k # j
    BY <2>2 DEF DbStep
  <2>3. QED
    BY <2>1, <2>2
<1>2. QED
  BY <1>1, WrittenMine

LEMMA LoopContent ==
  ASSUME IInv, NEW j \in Jobs, LoopStep(j)
  PROVE  /\ input' = input /\ accepted' = accepted
         /\ \A k \in Jobs : InTransaction(k) => Written(k, db') = Written(k, db)
<1>1. /\ "merge" \in Asking \ {"begin"} /\ "project" \in Asking \ {"begin"}
      /\ "version" \in Asking \ {"begin"} /\ "class" \in Asking \ {"begin"}
  BY DEF Asking, Ats
<1>2. CASE \/ Connect(j) \/ BeginTransaction(j) \/ FindProject(j) \/ LookupVersion(j)
           \/ BuildLibrary(j) \/ Verify(j) \/ Undo(j)
  BY <1>2 DEF Connect, BeginTransaction, FindProject, LookupVersion, BuildLibrary, Verify, Undo
<1>3. CASE MergeProject(j)
  <2>1. loop[j].at = "merge" /\ loop[j].client = job[j].client /\ UNCHANGED <<input, accepted>>
    BY <1>1, <1>3, AskingFacts DEF MergeProject, LoopAt
  <2>2. DbStep(j)
    <3> DEFINE row == Row("meta", j, loop[j].project, None)
    <3>1. loop[j].project \in Projects
      BY <2>1 DEF IInv, Stage
    <3>2. row \in Rows /\ row.by = j
      BY <3>1, MetaRow
    <3>3. (pg' = pg /\ db' = db) \/ (~Aborted(job[j].client) /\ Write(job[j].client, row))
      BY <1>3, <2>1 DEF MergeProject
    <3> HIDE DEF row
    <3>4. QED
      BY <1>1, <2>1, <3>2, <3>3, NoWrite, WriteEffect
  <2>3. QED
    BY <1>1, <2>1, <2>2, QueryContent
<1>4. CASE CreateProject(j)
  <2>1. loop[j].at = "project" /\ loop[j].client = job[j].client /\ UNCHANGED <<input, accepted>>
    BY <1>1, <1>4, AskingFacts DEF CreateProject, LoopAt
  <2>2. DbStep(j)
    <3> DEFINE row == Row("project", j, j, None)
    <3>1. row \in Rows /\ row.by = j
      BY MetaRow DEF Projects
    <3>2. \/ pg' = pg /\ db' = db
          \/ Fails(job[j].client)
          \/ ~Aborted(job[j].client) /\ Write(job[j].client, row)
      BY <1>4, <2>1 DEF CreateProject
    <3> HIDE DEF row
    <3>3. QED
      BY <1>1, <2>1, <3>1, <3>2, NoWrite, FailsEffect, WriteEffect
  <2>3. QED
    BY <1>1, <2>1, <2>2, QueryContent
<1>5. CASE CreateVersion(j)
  <2>1. loop[j].at = "version" /\ loop[j].client = job[j].client /\ UNCHANGED <<input, accepted>>
    BY <1>1, <1>5, AskingFacts DEF CreateVersion, LoopAt
  <2>2. DbStep(j)
    <3> DEFINE row == Row("version", j, loop[j].project, input[j].line)
    <3>1. loop[j].project \in Projects /\ input[j] \in Inputs
      BY <1>1, <2>1, AskingFacts DEF IInv, Stage
    <3>2. row \in Rows /\ row.by = j
      BY <3>1, NamedRow
    <3>3. \/ pg' = pg /\ db' = db
          \/ Fails(job[j].client)
          \/ ~Aborted(job[j].client) /\ Write(job[j].client, row)
      BY <1>5, <2>1 DEF CreateVersion
    <3> HIDE DEF row
    <3>4. QED
      BY <1>1, <2>1, <3>2, <3>3, NoWrite, FailsEffect, WriteEffect
  <2>3. QED
    BY <1>1, <2>1, <2>2, QueryContent
<1>6. CASE WriteClass(j)
  <2>1. loop[j].at = "class" /\ loop[j].client = job[j].client /\ UNCHANGED <<input, accepted>>
    BY <1>1, <1>6, AskingFacts DEF WriteClass, LoopAt
  <2>2. DbStep(j)
    <3> DEFINE done == loop[j].done + 1
               row == Row("class", j, loop[j].project, input[j].names[done])
    <3>1. /\ loop[j].project \in Projects /\ input[j] \in Inputs
          /\ loop[j].done < Len(input[j].names) /\ loop[j] \in LoopOf
      BY <1>1, <2>1, AskingFacts DEF IInv, Stage
    <3>2. loop[j].done \in Nat
      BY <3>1 DEF LoopOf
    <3>3. done \in DOMAIN input[j].names
      BY <3>1, <3>2, NamesAreSequences DEF IInv
    <3>4. row \in Rows /\ row.by = j
      BY <3>1, <3>3, NamedRow
    <3>5. Fails(job[j].client) \/ (~Aborted(job[j].client) /\ Write(job[j].client, row))
      BY <1>6, <2>1 DEF WriteClass
    <3> HIDE DEF row
    <3>6. QED
      BY <1>1, <2>1, <3>4, <3>5, FailsEffect, WriteEffect
  <2>3. QED
    BY <1>1, <2>1, <2>2, QueryContent
<1>7. CASE IncrementalPaths(j)
  BY <1>7, PathsAreNoContent DEF IncrementalPaths
<1>8. QED
  BY <1>2, <1>3, <1>4, <1>5, <1>6, <1>7 DEF LoopStep

LEMMA StartRefines ==
  ASSUME IInv, NEW j \in Jobs, NEW i \in Inputs, Start(j, i)
  PROVE  Promise!Next
<1>1. /\ Place(j) /\ loop[j].at = "none" /\ input[j] = NoInput /\ Mine(j, db) = {}
      /\ input \in [Jobs -> Inputs \cup {NoInput}]
      /\ input' = [input EXCEPT ![j] = i] /\ db' = db /\ accepted' = accepted
  BY Types DEF IInv, Start, Place
<1>2. input'[j] = i /\ \A k \in Jobs \ {j} : input'[k] = input[k]
  BY <1>1
<1>3. Wanted[j] = {} /\ Content[j] = {} /\ Content'[j] = {}
  <2>1. ~InTransaction(j)
    BY <1>1 DEF InTransaction, NoInput
  <2>2. Written(j, db)' = {}
    <3>1. Written(j, db)' = Written(j, db)
      BY <1>1 DEF Written
    <3>2. QED
      BY <1>1, <3>1, NothingWritten
  <2>3. QED
    BY <2>1, <2>2 DEF Wanted, Content
<1>4. \A k \in Jobs \ {j} : Content'[k] = Content[k] /\ Wanted'[k] = Wanted[k]
  BY <1>1, <1>2, PrimedContent DEF Content, Wanted
<1>5. Wanted'[j] \in SUBSET Items
  <2>1. Whole(j)' = {i.line} \cup {i.names[k] : k \in DOMAIN i.names}
    BY <1>2 DEF Whole
  <2>2. {i.line} \cup {i.names[k] : k \in DOMAIN i.names} \subseteq Items
    BY DEF Items
  <2>3. QED
    BY <2>1, <2>2 DEF Wanted
<1>6. Content' = Content
  <2>1. Content = [k \in Jobs |-> Content[k]] /\ Content' = [k \in Jobs |-> Content'[k]]
    BY DEF Content
  <2>2. \A k \in Jobs : Content'[k] = Content[k]
    BY <1>3, <1>4
  <2>3. QED
    BY <2>1, <2>2
<1>7. Wanted' = [Wanted EXCEPT ![j] = Wanted'[j]]
  <2>1. Wanted = [k \in Jobs |-> Wanted[k]] /\ Wanted' = [k \in Jobs |-> Wanted'[k]]
    BY DEF Wanted
  <2>2. QED
    BY <1>4, <2>1
<1>8. Promise!Request(j, Wanted'[j])
  BY <1>1, <1>3, <1>6, <1>7 DEF Promise!Request, Wanted, Content
<1>9. QED
  BY <1>5, <1>8 DEF Promise!Next, Items

\* The answer to a COMMIT: all of the import is saved, or nothing.
LEMMA CommitRefines ==
  ASSUME IInv, NEW j \in Jobs, user[j] = "commit",
         db' = db \/ db' = db \cup pg[job[j].client].staged, input' = input, accepted' = accepted
  PROVE  Promise!Next \/ (Wanted' = Wanted /\ Content' = Content)
<1> DEFINE staged == pg[job[j].client].staged
<1>1. /\ loop[j].at = "over" /\ job[j].client # None /\ j \in accepted
  BY DEF IInv, Place, Saved
<1>2. /\ InTransaction(j) /\ Mine(j, db) = {} /\ \A r \in staged : r.by = j
      /\ pg[job[j].client].tx = "open" => Written(j, staged) = Whole(j)
      /\ pg[job[j].client].tx # "open" => staged = {}
  BY <1>1, HeldFacts
<1>3. CASE db' = db
  BY <1>3, SameContent
<1>4. CASE db' = db \cup staged /\ staged = {}
  <2>1. db' = db
    BY <1>4
  <2>2. QED
    BY <2>1, SameContent
<1>5. CASE db' = db \cup staged /\ staged # {}
  <2>1. \A k \in Jobs \ {j} : Written(k, db') = Written(k, db)
    <3>1. \A k \in Jobs \ {j} : Mine(k, db') = Mine(k, db)
      BY <1>2, <1>5 DEF Mine
    <3>2. QED
      BY <3>1, WrittenMine
  <2>2. Written(j, db') = Whole(j)
    <3>1. Mine(j, db') = Mine(j, staged)
      BY <1>2, <1>5 DEF Mine
    <3>2. QED
      BY <1>2, <1>5, <3>1, WrittenMine
  <2>3. /\ \A k \in Jobs \ {j} : Content'[k] = Content[k]
        /\ \A k \in Jobs : Wanted'[k] = Wanted[k]
        /\ Content'[j] = Wanted[j]
    BY <1>2, <2>1, <2>2, PrimedContent DEF Content, Wanted
  <2>4. /\ Content = [k \in Jobs |-> Content[k]] /\ Content' = [k \in Jobs |-> Content'[k]]
        /\ Wanted = [k \in Jobs |-> Wanted[k]] /\ Wanted' = [k \in Jobs |-> Wanted'[k]]
    BY DEF Content, Wanted
  <2>5. Content' = [Content EXCEPT ![j] = Wanted[j]] /\ Wanted' = Wanted
    BY <2>3, <2>4
  <2>6. Promise!Store(j)
    BY <1>1, <2>5 DEF Promise!Store, Content, Wanted
  <2>7. QED
    BY <2>6 DEF Promise!Next
<1>6. QED
  BY <1>3, <1>4, <1>5

LEMMA RemoveRefines ==
  ASSUME IInv, NEW j \in Jobs, RollbackCompleted(j)
  PROVE  Promise!Next
<1> DEFINE p == loop[j].project
           S == {k \in Jobs : \E r \in Mine(k, db) : r.project = p}
<1>1. db' = {r \in db : r.project # p} /\ input' = input /\ accepted' = accepted
  BY DEF RollbackCompleted
<1>2. ASSUME NEW k \in Jobs
      PROVE  Content'[k] = (IF k \in S THEN {} ELSE Content[k]) /\ Wanted'[k] = Wanted[k]
  <2>1. Saved(k)
    BY DEF IInv
  <2>2. CASE ~InTransaction(k)
    BY <1>1, <2>2, PrimedContent DEF Content, Wanted
  <2>3. CASE InTransaction(k) /\ k \in S
    <3>1. Mine(k, db') = {}
      BY <1>1, <2>1, <2>3 DEF Saved, Mine
    <3>2. Written(k, db') = {}
      BY <3>1, NothingWritten
    <3>3. QED
      BY <1>1, <2>3, <3>2, PrimedContent DEF Wanted
  <2>4. CASE InTransaction(k) /\ k \notin S
    <3>1. Mine(k, db') = Mine(k, db)
      BY <1>1, <2>4 DEF Mine
    <3>2. Written(k, db') = Written(k, db)
      BY <3>1, WrittenMine
    <3>3. QED
      BY <1>1, <2>4, <3>2, PrimedContent DEF Content, Wanted
  <2>5. QED
    BY <2>2, <2>3, <2>4
<1> HIDE DEF S
<1>3. Content' = [k \in Jobs |-> IF k \in S THEN {} ELSE Content[k]] /\ Wanted' = Wanted
  <2>1. /\ Content' = [k \in Jobs |-> Content'[k]]
        /\ Wanted = [k \in Jobs |-> Wanted[k]] /\ Wanted' = [k \in Jobs |-> Wanted'[k]]
    BY DEF Content, Wanted
  <2>2. QED
    BY <1>2, <2>1
<1>4. Promise!Remove(S)
  BY <1>1, <1>3 DEF Promise!Remove, Content, Wanted
<1>5. S \in SUBSET Jobs
  BY DEF S
<1>6. QED
  BY <1>4, <1>5 DEF Promise!Next

LEMMA StepRefines ==
  ASSUME ~Overlap, IInv, [Next]_vars
  PROVE  Promise!Next \/ (Wanted' = Wanted /\ Content' = Content /\ accepted' = accepted)
<1> DEFINE Same == Wanted' = Wanted /\ Content' = Content /\ accepted' = accepted
<1>1. ASSUME NEW j \in Jobs, NEW i \in Inputs, Start(j, i) PROVE Promise!Next
  BY <1>1, StartRefines
<1>2. ASSUME NEW j \in Jobs, NEW k \in Jobs, Retry(j, k) PROVE Promise!Next
  <2>1. input[j] \in Inputs /\ Start(k, input[j])
    BY <1>2 DEF IInv, Place, Retry
  <2>2. QED
    BY <2>1, StartRefines
<1>3. ASSUME NEW j \in Jobs, LoopStep(j) PROVE Same
  BY <1>3, LoopContent, SameContent
<1>4. ASSUME NEW j \in Jobs, Committed(j) \/ CommitLost(j) PROVE Promise!Next \/ Same
  <2>1. /\ user[j] = "commit" /\ input' = input /\ accepted' = accepted
        /\ db' = db \/ db' = db \cup pg[job[j].client].staged
    BY <1>4 DEF Committed, CommitLost
  <2>2. QED
    BY <2>1, CommitRefines
<1>5. ASSUME NEW j \in Jobs, CommitPaths(j) PROVE Same
  <2>1. input' = input /\ accepted' = accepted /\ ImportPaths(j)
    BY <1>5 DEF CommitPaths
  <2>2. QED
    BY <2>1, PathsAreNoContent, SameContent
<1>6. ASSUME NEW j \in Jobs, CommitImport(j) PROVE Promise!Next
  <2>1. input' = input /\ db' = db /\ accepted' = accepted \cup {j}
    BY <1>6 DEF CommitImport
  <2>2. Wanted' = Wanted /\ Content' = Content
    BY <2>1, SameContent
  <2>3. Promise!Accept(j)
    BY <2>1, <2>2 DEF Promise!Accept, Wanted, Content
  <2>4. QED
    BY <2>3 DEF Promise!Next
<1>7. ASSUME NEW j \in Jobs, RollbackCompleted(j) PROVE Promise!Next
  BY <1>7, RemoveRefines
<1>8. CASE \/ \E j \in Jobs : RollbackImport(j) \/ CancelImport(j) \/ RolledBack(j)
           \/ Crash \/ UNCHANGED vars
  <2>1. input' = input /\ db' = db /\ accepted' = accepted
    BY <1>8 DEF RollbackImport, CancelImport, RolledBack, Crash, vars
  <2>2. QED
    BY <2>1, SameContent
<1>9. QED
  BY <1>1, <1>2, <1>3, <1>4, <1>5, <1>6, <1>7, <1>8 DEF Next, AnswerStep, UserStep

(* With an approval step the content of an import appears in one step, whole
   and only once it is accepted: transaction mode implements AtomicImport. *)
THEOREM ImportsAreAtomic == ASSUME ~Overlap PROVE Spec => RefinesAtomicImport
<1>1. Init => Promise!Init
  <2> SUFFICES ASSUME Init PROVE Promise!Init
    OBVIOUS
  <2>1. \A k \in Jobs : ~InTransaction(k)
    BY DEF Init, InTransaction, NoInput
  <2>2. QED
    BY <2>1 DEF Init, Promise!Init
<1>2. IInv /\ [Next]_vars => [Promise!Next]_(Promise!vars)
  BY StepRefines DEF Promise!vars, Wanted, Content
<1>3. IInv /\ [Next]_vars => IInv'
  BY StepIInv
<1>4. QED
  BY InitIInv, <1>1, <1>2, <1>3, PTL DEF Spec, RefinesAtomicImport, Promise!Spec
=============================================================================
