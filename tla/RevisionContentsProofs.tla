----------------------- MODULE RevisionContentsProofs -----------------------
(***************************************************************************)
(* Proofs about the two that fill a new revision class by class: a merge   *)
(* (SchemaMerge) and an import (SpecImport).                               *)
(*                                                                         *)
(* SchemaMerge, for any classes, keys and values: what the three-way merge *)
(* computes, and that what a merge commits is that.  The revision is       *)
(* written from tips that may be edited meanwhile: a class nobody edited   *)
(* is the target's until it is settled, and the merged one afterwards.     *)
(*                                                                         *)
(* SpecImport, for any jobs, classes and restarts: a job that has ended is *)
(* quiet, the revision is filled by the job that created it (JobInv), and  *)
(* a completed job has stored what its answer names (Claims).              *)
(***************************************************************************)
EXTENDS SchemaMerge, SpecImport, TLAPS

-----------------------------------------------------------------------------
(* The merge.                                                              *)

LEMMA ThreeWaySymmetric ==
  ASSUME NEW b, NEW o, NEW t, NEW d
  PROVE  ThreeWay(b, o, t, d) = ThreeWay(b, t, o, d)
  BY DEF ThreeWay

\* What a merge without conflict gives: the side that changed wins.
LEMMA ThreeWayTakesChange ==
  ASSUME NEW b, NEW o, NEW t, ThreeWay(b, o, t, Conflict) # Conflict
  PROVE  /\ o # b => ThreeWay(b, o, t, Conflict) = o
         /\ t # b => ThreeWay(b, o, t, Conflict) = t
         /\ o = b /\ t = b => ThreeWay(b, o, t, Conflict) = b
  BY DEF ThreeWay

LEMMA MergeObjectsSymmetric ==
  ASSUME NEW b, NEW o, NEW t
  PROVE  MergeObjects(b, o, t) = MergeObjects(b, t, o)
<1>1. MergeKeys(b, o, t) = MergeKeys(b, t, o)
  BY ThreeWaySymmetric DEF MergeKeys
<1>2. {b, o, t} = {b, t, o}
  OBVIOUS
<1>3. QED
  BY <1>1, <1>2 DEF MergeObjects

\* The merge of two branches does not depend on which one is the target.
THEOREM MergeSymmetric == Spec => []MergeIsSymmetric
<1>1. MergeIsSymmetric
  <2> SUFFICES ASSUME NEW n \in Names
      PROVE Merged[n] = MergeClass(read.base[n], read.theirs[n], read.ours[n])
    BY DEF MergeIsSymmetric
  <2> DEFINE b == read.base[n]
             o == read.ours[n]
             t == read.theirs[n]
  <2>1. MergeClass(b, o, t) = MergeClass(b, t, o)
    BY ThreeWaySymmetric, MergeObjectsSymmetric DEF MergeClass
  <2>2. QED
    BY <2>1 DEF Merged
<1>2. QED
  BY <1>1, PTL

\* A class merged key by key has what either side changed.
LEMMA ObjectsKeepKeys ==
  ASSUME NEW b, NEW o, NEW t, MergeObjects(b, o, t) # Conflict, NEW k \in Keys
  PROVE  /\ {b, o, t} \subseteq Objects
         /\ MergeObjects(b, o, t) \in [Keys -> Atoms \cup {Missing}]
         /\ o[k] # b[k] => MergeObjects(b, o, t)[k] = o[k]
         /\ t[k] # b[k] => MergeObjects(b, o, t)[k] = t[k]
         /\ o[k] = b[k] /\ t[k] = b[k] => MergeObjects(b, o, t)[k] = b[k]
<1>1. /\ MergeObjects(b, o, t) = MergeKeys(b, o, t) /\ {b, o, t} \subseteq Objects
      /\ \A j \in Keys : MergeKeys(b, o, t)[j] # Conflict
  BY DEF MergeObjects
<1>2. \A j \in Keys : MergeKeys(b, o, t)[j] = ThreeWay(b[j], o[j], t[j], Conflict)
  BY DEF MergeKeys
<1>3. ThreeWay(b[k], o[k], t[k], Conflict) # Conflict
  BY <1>1, <1>2
<1>4. MergeKeys(b, o, t) \in [Keys -> Atoms \cup {Missing}]
  <2>1. ASSUME NEW j \in Keys PROVE ThreeWay(b[j], o[j], t[j], Conflict) \in Atoms \cup {Missing}
    <3>1. b[j] \in Atoms \cup {Missing} /\ o[j] \in Atoms \cup {Missing} /\ t[j] \in Atoms \cup {Missing}
      BY <1>1 DEF Objects
    <3>2. ThreeWay(b[j], o[j], t[j], Conflict) # Conflict
      BY <1>1, <1>2
    <3>3. QED
      BY <3>1, <3>2 DEF ThreeWay
  <2>2. QED
    BY <2>1 DEF MergeKeys
<1>5. QED
  BY <1>1, <1>2, <1>3, <1>4, ThreeWayTakesChange

(* Every key of a merged class is as the side that changed it has it
   (merge_json_three_way). *)
THEOREM KeysKept == Spec => []MergeKeepsKeys
<1>1. MergeKeepsKeys
  <2> SUFFICES ASSUME NEW n \in Names,
                      {read.base[n], read.ours[n], read.theirs[n]} \subseteq Objects,
                      Merged[n] # Conflict, NEW k \in Keys
      PROVE /\ read.ours[n][k] # read.base[n][k] => Merged[n][k] = read.ours[n][k]
            /\ read.theirs[n][k] # read.base[n][k] => Merged[n][k] = read.theirs[n][k]
            /\ read.ours[n][k] = read.base[n][k] /\ read.theirs[n][k] = read.base[n][k]
                 => Merged[n][k] = read.base[n][k]
    BY DEF MergeKeepsKeys
  <2> DEFINE b == read.base[n]
             o == read.ours[n]
             t == read.theirs[n]
  <2>1. Merged[n] = ThreeWay(b, o, t, MergeObjects(b, o, t))
    BY DEF Merged, MergeClass
  <2>2. CASE o = t \/ o = b \/ t = b
    BY <2>1, <2>2 DEF ThreeWay
  <2>3. CASE o # t /\ o # b /\ t # b
    <3>1. Merged[n] = MergeObjects(b, o, t)
      BY <2>1, <2>3 DEF ThreeWay
    <3>2. QED
      BY <3>1, ObjectsKeepKeys
  <2>4. QED
    BY <2>2, <2>3
<1>2. QED
  BY <1>1, PTL

-----------------------------------------------------------------------------
\* Rows of the new revision, class by class, while and after it is written.
Written(n) ==
  IF n \in todo THEN Live(n) = read.ours[n] ELSE Live(n) = Merged[n]

Unedited ==
  phase \in {"merging", "copied"} => \A n \in Names \ edited :
    ours[n] = read.ours[n] /\ theirs[n] = read.theirs[n]

Progress ==
  phase \in {"copied", "done"} =>
    /\ Conflicts = {} /\ Blends = {}
    /\ todo \subseteq ToSettle
    /\ phase = "done" => todo = {}
    /\ \A n \in Names \ edited : Written(n)

IInv == TypeOK /\ Unedited /\ Progress

LEMMA InitIInv == Init => IInv
<1> SUFFICES ASSUME Init PROVE IInv
  OBVIOUS
<1>1. NothingRead \in Specs
  BY DEF NothingRead, Specs, MaybeObjects
<1>2. [n \in Names |-> NoRow] \in [Names -> Row]
  BY DEF Row
<1>3. TypeOK
  BY <1>1, <1>2 DEF Init, TypeOK, Phases
<1>4. Unedited /\ Progress
  BY DEF Init, Unedited, Progress
<1>5. QED
  BY <1>3, <1>4 DEF IInv

\* A class that can be settled from one of the tips.
LEMMA MergedIsATip ==
  ASSUME Conflicts = {}, Blends = {}, NEW n \in Names
  PROVE  Merged[n] # Conflict /\ Merged[n] \in {read.ours[n], read.theirs[n]}
  BY DEF Conflicts, Blends, Blended

LEMMA StepIInv == IInv /\ [Next]_vars => IInv'
<1> SUFFICES ASSUME IInv, [Next]_vars PROVE IInv'
  OBVIOUS
<1> USE DEF IInv
<1>1. CASE Preview
  BY <1>1 DEF Preview, Read, TypeOK, Unedited, Progress, Specs
<1>2. CASE MergeRead
  <2>1. TypeOK'
    BY <1>2 DEF MergeRead, Read, TypeOK, Phases
  <2>2. Unedited' /\ Progress'
    BY <1>2 DEF MergeRead, Read, Unedited, Progress
  <2>3. QED
    BY <2>1, <2>2
<1>3. CASE MergeRefused
  BY <1>3 DEF MergeRefused, TypeOK, Unedited, Progress, Phases
<1>4. CASE CopyTarget
  <2>1. \A n \in Names : rows'[n] = IF ours[n] = Missing THEN NoRow ELSE [class |-> ours[n], live |-> TRUE]
    BY <1>4 DEF CopyTarget
  <2>2. \A n \in Names : ours[n] \in Objects \/ ours[n] = Missing
    BY DEF TypeOK, Specs, MaybeObjects
  <2>3. rows' \in [Names -> Row]
    BY <1>4, <2>2 DEF CopyTarget, Row
  <2>4. TypeOK'
    BY <1>4, <2>3 DEF CopyTarget, TypeOK, Phases, ToSettle
  <2>5. Unedited'
    BY <1>4 DEF CopyTarget, Unedited
  <2>6. /\ UNCHANGED read /\ Merged' = Merged /\ Conflicts' = Conflicts /\ Blends' = Blends
        /\ ToSettle' = ToSettle /\ todo' = ToSettle
    BY <1>4 DEF CopyTarget, Merged, Conflicts, Blends, Blended, ToSettle
  <2>7. ASSUME NEW n \in Names \ edited' PROVE Written(n)'
    <3>1. ours[n] = read.ours[n]
      BY <1>4, <2>7 DEF CopyTarget, Unedited
    <3>2. Live(n)' = ours[n]
      <4>1. CASE ours[n] = Missing
        <5>1. rows'[n] = NoRow /\ NoRow.live = FALSE
          BY <2>1, <2>7, <4>1 DEF NoRow
        <5>2. QED
          BY <4>1, <5>1 DEF Live
      <4>2. CASE ours[n] # Missing
        <5>1. rows'[n] = [class |-> ours[n], live |-> TRUE]
          BY <2>1, <2>7, <4>2
        <5>2. QED
          BY <5>1 DEF Live
      <4>3. QED
        BY <4>1, <4>2
    <3>3. n \notin todo' => Merged[n] = read.ours[n]
      BY <2>6 DEF ToSettle
    <3>4. QED
      BY <2>6, <3>1, <3>2, <3>3 DEF Written
  <2>8. Progress'
    BY <1>4, <2>6, <2>7 DEF CopyTarget, Progress
  <2>9. QED
    BY <2>4, <2>5, <2>8
<1>5. CASE Commit
  <2>1. TypeOK' /\ Unedited'
    BY <1>5 DEF Commit, TypeOK, Unedited, Phases
  <2>2. Merged' = Merged /\ Conflicts' = Conflicts /\ Blends' = Blends /\ ToSettle' = ToSettle
    BY <1>5 DEF Commit, Merged, Conflicts, Blends, Blended, ToSettle
  <2>3. \A n \in Names : Written(n)' <=> Written(n)
    BY <1>5, <2>2 DEF Commit, Written, Live
  <2>4. Progress'
    BY <1>5, <2>2, <2>3 DEF Commit, Progress
  <2>5. QED
    BY <2>1, <2>4
<1>6. ASSUME NEW n \in Names, Edit(n) PROVE IInv'
  <2>1. ours' \in Specs /\ theirs' \in Specs
    BY <1>6 DEF Edit, TypeOK, Specs
  <2>2. /\ \A m \in Names \ edited' : ours'[m] = ours[m] /\ theirs'[m] = theirs[m]
        /\ edited' = edited \cup {n}
    BY <1>6 DEF Edit, TypeOK, Specs
  <2>3. TypeOK' /\ Unedited'
    BY <1>6, <2>1, <2>2 DEF Edit, TypeOK, Unedited
  <2>4. Merged' = Merged /\ Conflicts' = Conflicts /\ Blends' = Blends /\ ToSettle' = ToSettle
    BY <1>6 DEF Edit, Merged, Conflicts, Blends, Blended, ToSettle
  <2>5. \A m \in Names : Written(m)' <=> Written(m)
    BY <1>6, <2>4 DEF Edit, Written, Live
  <2>6. Progress'
    BY <1>6, <2>2, <2>4, <2>5 DEF Edit, Progress
  <2>7. QED
    BY <2>3, <2>6
<1>7. ASSUME NEW n \in Names, Remove(n) \/ Take(n) PROVE IInv'
  <2>1. /\ phase = "copied" /\ n \in todo /\ todo' = todo \ {n}
        /\ UNCHANGED <<base, ours, theirs, read, phase, edited, promised>>
    BY <1>7 DEF Remove, Take
  <2>2. Merged' = Merged /\ Conflicts' = Conflicts /\ Blends' = Blends /\ ToSettle' = ToSettle
    BY <2>1 DEF Merged, Conflicts, Blends, Blended, ToSettle
  <2>3. PICK r \in Row : rows' = [rows EXCEPT ![n] = r]
    <3>1. CASE Remove(n)
      <4>1. Deleted(n) \in Row
        <5>1. rows[n] \in [class : Objects, live : BOOLEAN] \/ rows[n] = NoRow
          BY DEF TypeOK, Row
        <5>2. CASE rows[n] \in [class : Objects, live : BOOLEAN]
          BY <5>2 DEF Deleted, Row
        <5>3. CASE rows[n] = NoRow
          <6>1. Deleted(n) = NoRow
            BY <5>3 DEF NoRow, Deleted
          <6>2. QED
            BY <6>1 DEF Row
        <5>4. QED
          BY <5>1, <5>2, <5>3
      <4>2. QED
        BY <3>1, <4>1 DEF Remove
    <3>2. CASE Take(n)
      <4>1. theirs[n] \in Objects
        BY <3>2 DEF Take, TypeOK, Specs, MaybeObjects
      <4>2. [class |-> theirs[n], live |-> TRUE] \in Row
        BY <4>1 DEF Row
      <4>3. QED
        BY <3>2, <4>2 DEF Take
    <3>3. QED
      BY <1>7, <3>1, <3>2
  <2>4. TypeOK' /\ Unedited'
    BY <2>1, <2>3 DEF TypeOK, Unedited
  <2>5. \A m \in Names : m # n => (Written(m)' <=> Written(m))
    BY <2>1, <2>2, <2>3 DEF Written, Live, TypeOK
  <2>6. n \notin edited => Written(n)'
    <3>1. SUFFICES ASSUME n \notin edited PROVE Written(n)'
      OBVIOUS
    <3>2. Merged[n] # read.ours[n] /\ Merged[n] \in {read.ours[n], read.theirs[n]}
      BY <2>1, MergedIsATip DEF Progress, ToSettle
    <3>3. theirs[n] = read.theirs[n]
      BY <2>1, <3>1 DEF Unedited
    <3>4. CASE Remove(n)
      <4>1. Live(n)' = Missing /\ Merged[n] = Missing
        BY <3>4 DEF Remove, Live, Deleted, TypeOK
      <4>2. QED
        BY <2>1, <2>2, <4>1 DEF Written
    <3>5. CASE Take(n)
      <4>1. Live(n)' = theirs[n]
        BY <3>5 DEF Take, Live, TypeOK
      <4>2. QED
        BY <2>1, <2>2, <3>2, <3>3, <4>1 DEF Written
    <3>6. QED
      BY <1>7, <3>4, <3>5
  <2>7. Progress'
    BY <2>1, <2>2, <2>5, <2>6 DEF Progress
  <2>8. QED
    BY <2>4, <2>7
<1>8. ASSUME NEW n \in Names, TakeFails(n) PROVE IInv'
  BY <1>8 DEF TakeFails, TypeOK, Unedited, Progress, Phases, Row
<1>9. CASE UNCHANGED vars
  BY <1>9 DEF vars, TypeOK, Unedited, Progress, Written, Live, Conflicts, Blends, Blended, Merged, ToSettle
<1>10. QED
  BY <1>1, <1>2, <1>3, <1>4, <1>5, <1>6, <1>7, <1>8, <1>9 DEF Next

LEMMA Inductive == Spec => []IInv
  BY InitIInv, StepIInv, PTL DEF Spec

(* Type correctness, for any classes, keys and values. *)
THEOREM TypesHold == Spec => []TypeOK
<1>1. IInv => TypeOK
  BY DEF IInv
<1>2. QED
  BY <1>1, Inductive, PTL

(* A committed merge holds what either side changed, class by class and key by
   key, whatever the Studio edits meanwhile (version_branch_merge). *)
THEOREM MergeTakesChanges == Spec => []CommittedTakesChanges
<1>1. IInv => CommittedTakesChanges
  <2> SUFFICES ASSUME IInv, phase = "done", NEW n \in Names \ edited
      PROVE /\ ~OursChanged(n) => Live(n) = read.theirs[n]
            /\ ~TheirsChanged(n) => Live(n) = read.ours[n]
            /\ HasChangesOf(read.ours[n], n) /\ HasChangesOf(read.theirs[n], n)
    BY DEF CommittedTakesChanges
  <2> DEFINE b == read.base[n]
             o == read.ours[n]
             t == read.theirs[n]
  <2>1. Live(n) = Merged[n] /\ Merged[n] # Conflict
    BY MergedIsATip DEF IInv, Progress, Written
  <2>2. Merged[n] = ThreeWay(b, o, t, MergeObjects(b, o, t))
    BY DEF Merged, MergeClass
  <2>3. /\ o = b => Merged[n] = t
        /\ t = b => Merged[n] = o
    BY <2>2 DEF ThreeWay
  <2>4. \A k \in Keys : /\ Key(o, k) # Key(b, k) => Key(Merged[n], k) = Key(o, k)
                        /\ Key(t, k) # Key(b, k) => Key(Merged[n], k) = Key(t, k)
    <3>1. CASE o = t
      BY <2>2, <3>1 DEF ThreeWay
    <3>2. CASE o # t /\ o # b /\ t # b
      <4>1. Merged[n] = MergeObjects(b, o, t) /\ MergeObjects(b, o, t) # Conflict
        BY <2>1, <2>2, <3>2 DEF ThreeWay
      <4> TAKE k \in Keys
      <4>3. {b, o, t} \subseteq Objects /\ Merged[n] \in Objects
        BY <4>1, ObjectsKeepKeys DEF Objects
      <4>4. b # Missing /\ o # Missing /\ t # Missing /\ Merged[n] # Missing
        BY <4>3, MarkersAssumption
      <4>5. QED
        BY <4>1, <4>4, ObjectsKeepKeys DEF Key
    <3>3. QED
      BY <2>3, <3>1, <3>2
  <2>5. /\ ~OursChanged(n) => Live(n) = t
        /\ ~TheirsChanged(n) => Live(n) = o
    BY <2>1, <2>3 DEF OursChanged, TheirsChanged
  <2>6. \A k \in Keys : /\ Key(o, k) # Key(b, k) => Key(Live(n), k) = Key(o, k)
                        /\ Key(t, k) # Key(b, k) => Key(Live(n), k) = Key(t, k)
    BY <2>1, <2>4
  <2>7. HasChangesOf(o, n) /\ HasChangesOf(t, n)
    BY <2>6 DEF HasChangesOf
  <2>8. QED
    BY <2>5, <2>7
<1>2. QED
  BY <1>1, Inductive, PTL

-----------------------------------------------------------------------------
(* The import.                                                             *)

\* Where the task of a job is before a process of it is started.
Before  == {"created", "spawning", "persisting", "scoring"}
\* Where a worker writes into the revision.
Filling == {"library", "classes", "paths"}

\* What a job, its task, its worker and the revision know of each other.
JobInv(j) ==
  /\ rec[j].state \in Ended => drive[j] = "none" /\ worker[j].at \notin Alive
  /\ rec[j].state = "none" => drive[j] = "none" /\ worker[j].at = "none"
  /\ drive[j] \in Before => worker[j].at = "none"
  /\ worker[j].at \in {"over", "exited"} => worker[j].told # "none"
  /\ worker[j].at \in Filling => version = j

ImportInv == ImportTypeOK /\ \A j \in Jobs : JobInv(j)

\* A step of one job is none of the others: a revision has one creator.
LEMMA OneJobSteps ==
  ASSUME ImportInv, NEW j \in Jobs, ImportTypeOK', JobInv(j)',
         \A i \in Jobs \ {j} : /\ rec'[i] = rec[i] /\ drive'[i] = drive[i]
                               /\ worker'[i] = worker[i],
         version' = version \/ version = None
  PROVE  ImportInv'
<1>1. ASSUME NEW i \in Jobs \ {j} PROVE JobInv(i)'
  <2>1. JobInv(i) /\ i # None
    BY NoneAssumption DEF ImportInv
  <2>2. QED
    BY <2>1 DEF JobInv
<1>2. QED
  BY <1>1 DEF ImportInv

\* The final state of a job.
LEMMA Settles ==
  ASSUME ImportInv, NEW j \in Jobs, NEW state \in Ended, NEW result \in BOOLEAN,
         Settle(j, state, result), UNCHANGED <<kind, worker, catalog, stored, restarts>>,
         worker[j].at \notin Alive
  PROVE  ImportInv'
<1>1. /\ rec \in [Jobs -> Record] /\ drive \in [Jobs -> Drives] /\ rec[j] \in Record
  BY DEF ImportInv, ImportTypeOK
<1>2. /\ rec' = [rec EXCEPT ![j] = [state |-> state, cancel |-> rec[j].cancel, proc |-> FALSE,
                                    response |-> state = "completed" /\ result]]
      /\ drive' = [drive EXCEPT ![j] = "none"]
  BY DEF Settle
<1>3. [state |-> state, cancel |-> rec[j].cancel, proc |-> FALSE,
       response |-> state = "completed" /\ result] \in Record
  BY <1>1 DEF Record, States
<1>4. /\ rec' \in [Jobs -> Record] /\ drive' \in [Jobs -> Drives]
      /\ rec'[j].state = state /\ drive'[j] = "none"
      /\ \A i \in Jobs \ {j} : rec'[i] = rec[i] /\ drive'[i] = drive[i]
  BY <1>1, <1>2, <1>3 DEF Drives
<1>5. ImportTypeOK'
  BY <1>4 DEF ImportInv, ImportTypeOK, catalog
<1>6. JobInv(j)'
  BY <1>4 DEF ImportInv, JobInv, Ended, Before, catalog
<1>7. QED
  BY <1>4, <1>5, <1>6, OneJobSteps DEF catalog

\* The task goes on, the job still under way.
LEMMA TaskGoesOn ==
  ASSUME ImportInv, NEW j \in Jobs, NEW r \in Record, NEW d \in Drives, NEW s \in Stages,
         rec' = [rec EXCEPT ![j] = r], drive' = [drive EXCEPT ![j] = d],
         stored' = [stored EXCEPT ![j] = s],
         kind' \in [Jobs -> Kinds], UNCHANGED <<worker, catalog, restarts>>,
         r.state \notin Ended \cup {"none"}, d \in Before => worker[j].at = "none"
  PROVE  ImportInv'
<1>1. ImportTypeOK'
  BY DEF ImportInv, ImportTypeOK, catalog
<1>2. /\ rec'[j] = r /\ drive'[j] = d
      /\ \A i \in Jobs \ {j} : rec'[i] = rec[i] /\ drive'[i] = drive[i]
  BY DEF ImportInv, ImportTypeOK
<1>3. JobInv(j)'
  BY <1>2 DEF ImportInv, JobInv, catalog
<1>4. QED
  BY <1>1, <1>2, <1>3, OneJobSteps DEF catalog

\* The worker goes on; only the revision's creator fills it.
LEMMA WorkerGoesOn ==
  ASSUME ImportInv, NEW j \in Jobs, NEW w \in Worker,
         worker' = [worker EXCEPT ![j] = w], UNCHANGED engine,
         worker[j].at \in Alive, w.at # "none",
         w.at \in {"over", "exited"} => w.told # "none",
         w.at \in Filling => version' = j,
         project' \in BOOLEAN, contents' \in SUBSET Parts,
         version' = version \/ (version = None /\ version' = j)
  PROVE  ImportInv'
<1>1. version' \in Jobs \cup {None} /\ worker' \in [Jobs -> Worker]
  BY DEF ImportInv, ImportTypeOK
<1>2. ImportTypeOK'
  BY <1>1 DEF ImportInv, ImportTypeOK, engine
<1>3. worker'[j] = w /\ \A i \in Jobs \ {j} : worker'[i] = worker[i]
  BY DEF ImportInv, ImportTypeOK
<1>4. worker[j].at # "none" /\ JobInv(j)
  BY DEF Alive, Writing, ImportInv
<1>5. JobInv(j)'
  BY <1>3, <1>4 DEF JobInv, engine
<1>6. QED
  BY <1>2, <1>3, <1>5, OneJobSteps DEF engine

LEMMA DriveKeeps == ASSUME ImportInv, NEW j \in Jobs, Drive(j) PROVE ImportInv'
<1>1. /\ rec[j] \in Record /\ drive[j] \in Drives /\ worker[j] \in Worker /\ stored[j] \in Stages
      /\ JobInv(j) /\ worker[j].at \in WorkerPhases
      /\ rec \in [Jobs -> Record] /\ drive \in [Jobs -> Drives] /\ stored \in [Jobs -> Stages]
      /\ worker \in [Jobs -> Worker] /\ kind \in [Jobs -> Kinds]
  BY DEF ImportInv, ImportTypeOK, Worker
<1>2. /\ rec = [rec EXCEPT ![j] = rec[j]] /\ drive = [drive EXCEPT ![j] = drive[j]]
      /\ stored = [stored EXCEPT ![j] = stored[j]]
  BY <1>1
<1>3. /\ drive[j] # "none" => rec[j].state \notin Ended \cup {"none"}
      /\ drive[j] \in Before => worker[j].at \notin Alive
      /\ HasEnded(j) => worker[j].at \notin Alive
      /\ "canceled" \in Ended /\ "failed" \in Ended /\ "completed" \in Ended
  BY <1>1 DEF JobInv, Alive, Writing, HasEnded, Ended
<1>4. CASE BeginCanceled(j)
  BY <1>1, <1>3, <1>4, Settles DEF BeginCanceled, Before
<1>5. CASE BeginWorker(j)
  <2>1. [rec[j] EXCEPT !.state = "running"] \in Record
    BY <1>1 DEF Record, States
  <2>2. rec' = [rec EXCEPT ![j] = [rec[j] EXCEPT !.state = "running"]]
    BY <1>5 DEF BeginWorker
  <2>3. [rec[j] EXCEPT !.state = "running"].state = "running"
    BY <1>1 DEF Record
  <2>4. worker[j].at = "none" /\ "running" \notin Ended \cup {"none"} /\ "spawning" \in Drives
    BY <1>1, <1>5 DEF BeginWorker, JobInv, Before, Ended, Drives
  <2>5. /\ drive' = [drive EXCEPT ![j] = "spawning"] /\ stored' = [stored EXCEPT ![j] = stored[j]]
        /\ kind' \in [Jobs -> Kinds] /\ UNCHANGED <<worker, catalog, restarts>>
    BY <1>1, <1>2, <1>5 DEF BeginWorker
  <2>6. QED
    BY <1>1, <2>1, <2>2, <2>3, <2>4, <2>5, TaskGoesOn
<1>6. CASE BeginAdapter(j)
  <2>1. worker[j].at = "none" /\ worker[j].at \notin Alive
    BY <1>1, <1>3, <1>6 DEF BeginAdapter, JobInv, Before
  <2>2. CASE Settle(j, "failed", FALSE) \/ Settle(j, "completed", FALSE)
    BY <1>3, <1>6, <2>1, <2>2, Settles DEF BeginAdapter
  <2>3. CASE rec' = [rec EXCEPT ![j].state = "running"] /\ drive' = [drive EXCEPT ![j] = "persisting"]
    <3>1. [rec[j] EXCEPT !.state = "running"] \in Record
      BY <1>1 DEF Record, States
    <3>2. rec' = [rec EXCEPT ![j] = [rec[j] EXCEPT !.state = "running"]]
      BY <2>3
    <3>3. [rec[j] EXCEPT !.state = "running"].state = "running"
      BY <1>1 DEF Record
    <3>4. "running" \notin Ended \cup {"none"} /\ "persisting" \in Drives
      BY DEF Ended, Drives
    <3>5. /\ stored' = [stored EXCEPT ![j] = stored[j]]
          /\ kind' \in [Jobs -> Kinds] /\ UNCHANGED <<worker, catalog, restarts>>
      BY <1>1, <1>2, <1>6 DEF BeginAdapter
    <3> DEFINE r == [rec[j] EXCEPT !.state = "running"]
    <3>6. r \in Record /\ rec' = [rec EXCEPT ![j] = r] /\ r.state \notin Ended \cup {"none"}
      BY <3>1, <3>2, <3>3, <3>4
    <3>7. stored[j] \in Stages /\ drive' = [drive EXCEPT ![j] = "persisting"]
      BY <1>1, <2>3
    <3> HIDE DEF r
    <3>8. QED
      BY <2>1, <3>4, <3>5, <3>6, <3>7, TaskGoesOn
  <2>4. QED
    BY <1>6, <2>2, <2>3 DEF BeginAdapter
<1>7. CASE Spawn(j)
  <2> DEFINE r == [rec[j] EXCEPT !.proc = TRUE]
             w == [worker[j] EXCEPT !.at = "project"]
  <2>1. r \in Record /\ r.state = rec[j].state
    BY <1>1 DEF Record
  <2>2. w \in Worker /\ w.at = "project" /\ "reading" \in Drives
    BY <1>1 DEF Worker, WorkerPhases, Alive, Writing, Drives
  <2>3. rec' = [rec EXCEPT ![j] = r] /\ worker' = [worker EXCEPT ![j] = w]
    BY <1>7 DEF Spawn
  <2> HIDE DEF r, w
  <2>4. /\ rec' \in [Jobs -> Record] /\ drive' \in [Jobs -> Drives] /\ worker' \in [Jobs -> Worker]
        /\ rec'[j].state = rec[j].state /\ drive'[j] = "reading" /\ worker'[j].at = "project"
        /\ \A i \in Jobs \ {j} : /\ rec'[i] = rec[i] /\ drive'[i] = drive[i]
                                 /\ worker'[i] = worker[i]
    <3>1. /\ rec' \in [Jobs -> Record] /\ rec'[j].state = rec[j].state
          /\ \A i \in Jobs \ {j} : rec'[i] = rec[i]
      BY <1>1, <2>1, <2>3
    <3>2. /\ worker' \in [Jobs -> Worker] /\ worker'[j].at = "project"
          /\ \A i \in Jobs \ {j} : worker'[i] = worker[i]
      BY <1>1, <2>2, <2>3
    <3>3. drive' = [drive EXCEPT ![j] = "reading"]
      BY <1>7 DEF Spawn
    <3>4. /\ drive' \in [Jobs -> Drives] /\ drive'[j] = "reading"
          /\ \A i \in Jobs \ {j} : drive'[i] = drive[i]
      BY <1>1, <2>2, <3>3
    <3>5. QED
      BY <3>1, <3>2, <3>4
  <2>5. ImportTypeOK'
    BY <1>7, <2>4 DEF Spawn, catalog, ImportInv, ImportTypeOK
  <2>6. rec[j].state \notin Ended \cup {"none"}
    BY <1>3, <1>7 DEF Spawn
  <2>7. JobInv(j)'
    BY <2>4, <2>6 DEF JobInv, Before, Filling
  <2>8. QED
    BY <1>7, <2>4, <2>5, <2>7, OneJobSteps DEF Spawn, catalog
<1>8. CASE RunnerRaises(j)
  BY <1>3, <1>8, Settles DEF RunnerRaises, Before
<1>9. CASE Finish(j)
  <2>1. PICK garbled \in BOOLEAN :
          LET ok == worker[j].at = "exited" /\ ~garbled
          IN  Settle(j, Verdict(j, IF ok THEN worker[j].told ELSE "failed"), ok /\ worker[j].result)
    BY <1>9 DEF Finish
  <2> DEFINE ok == worker[j].at = "exited" /\ ~garbled
             state == IF ok THEN worker[j].told ELSE "failed"
  <2>2. state \in Ended /\ Verdict(j, state) \in Ended
    <3>1. worker[j].told \in {"none", "completed", "failed"}
      BY <1>1 DEF Worker
    <3>2. worker[j].at = "exited" => worker[j].told # "none"
      BY <1>1 DEF JobInv
    <3>3. QED
      BY <3>1, <3>2 DEF Verdict, Ended
  <2>3. (ok /\ worker[j].result) \in BOOLEAN
    OBVIOUS
  <2>4. worker[j].at \notin Alive /\ UNCHANGED <<kind, worker, catalog, stored, restarts>>
    BY <1>3, <1>9 DEF Finish
  <2>5. Settle(j, Verdict(j, state), ok /\ worker[j].result)
    BY <2>1
  <2> HIDE DEF ok, state
  <2>6. QED
    BY <2>2, <2>3, <2>4, <2>5, Settles
<1>10. CASE Persist(j)
  <2>1. /\ drive[j] = "persisting" /\ rec' = rec /\ worker[j].at = "none"
        /\ rec[j].state \notin Ended \cup {"none"}
        /\ UNCHANGED <<kind, worker, catalog, restarts>>
    BY <1>1, <1>3, <1>10 DEF Persist, JobInv, Before
  <2>2. CASE stored[j] < 3 /\ stored' = [stored EXCEPT ![j] = @ + 1] /\ drive' = drive
    <3>1. stored[j] + 1 \in Stages
      BY <1>1, <2>2 DEF Stages
    <3>2. /\ rec' = [rec EXCEPT ![j] = rec[j]] /\ drive' = [drive EXCEPT ![j] = drive[j]]
          /\ stored' = [stored EXCEPT ![j] = stored[j] + 1] /\ kind' \in [Jobs -> Kinds]
      BY <1>1, <1>2, <2>1, <2>2
    <3>3. QED
      BY <1>1, <2>1, <3>1, <3>2, TaskGoesOn
  <2>3. CASE drive' = [drive EXCEPT ![j] = "scoring"] /\ stored' = stored
    <3>1. "scoring" \in Drives
      BY DEF Drives
    <3>2. /\ rec' = [rec EXCEPT ![j] = rec[j]] /\ stored' = [stored EXCEPT ![j] = stored[j]]
          /\ kind' \in [Jobs -> Kinds] /\ UNCHANGED <<worker, catalog, restarts>>
      BY <1>1, <1>2, <2>1, <2>3
    <3>3. rec[j] \in Record /\ stored[j] \in Stages
      BY <1>1
    <3>4. drive' = [drive EXCEPT ![j] = "scoring"]
      BY <2>3
    <3>5. QED
      BY <2>1, <3>1, <3>2, <3>3, <3>4, TaskGoesOn
  <2>4. QED
    BY <1>10, <2>2, <2>3 DEF Persist
<1>11. CASE PersistFails(j)
  BY <1>3, <1>11, Settles DEF PersistFails, Before, Verdict
<1>12. CASE FinishAdapter(j)
  BY <1>3, <1>12, Settles DEF FinishAdapter, Before, Verdict
<1>13. QED
  BY <1>4, <1>5, <1>6, <1>7, <1>8, <1>9, <1>10, <1>11, <1>12 DEF Drive

\* A worker that goes from one phase to another.
LEMMA WorkerAt ==
  ASSUME ImportInv, NEW j \in Jobs, NEW at \in WorkerPhases
  PROVE  /\ [worker[j] EXCEPT !.at = at] \in Worker
         /\ [worker[j] EXCEPT !.at = at].at = at
         /\ [worker[j] EXCEPT !.at = at].told = worker[j].told
<1>1. worker[j] \in Worker
  BY DEF ImportInv, ImportTypeOK
<1>2. QED
  BY <1>1 DEF Worker

LEMMA WorkerOver ==
  ASSUME ImportInv, NEW j \in Jobs, worker[j].at \in Alive, NEW told \in {"completed", "failed"},
         NEW result \in BOOLEAN, Over(j, told, result), UNCHANGED <<engine, catalog>>
  PROVE  ImportInv'
<1> DEFINE w == [worker[j] EXCEPT !.at = "over", !.told = told, !.result = result]
<1>1. worker[j] \in Worker /\ project \in BOOLEAN /\ contents \in SUBSET Parts
  BY DEF ImportInv, ImportTypeOK
<1>2. w \in Worker /\ w.at = "over" /\ w.told = told
  BY <1>1 DEF Worker, WorkerPhases, Alive
<1>3. worker' = [worker EXCEPT ![j] = w]
  BY DEF Over
<1> HIDE DEF w
<1>4. QED
  BY <1>1, <1>2, <1>3, WorkerGoesOn DEF Filling, catalog

LEMMA WorkKeeps == ASSUME ImportInv, NEW j \in Jobs, Work(j) \/ Die(j) PROVE ImportInv'
<1>1. /\ worker[j] \in Worker /\ worker \in [Jobs -> Worker] /\ project \in BOOLEAN
      /\ version \in Jobs \cup {None} /\ contents \in SUBSET Parts /\ JobInv(j)
  BY DEF ImportInv, ImportTypeOK
<1>2. /\ Writing \subseteq Alive /\ Alive \subseteq WorkerPhases /\ "over" \in Alive
      /\ {"dead", "exited"} \subseteq WorkerPhases
      /\ {"project", "insert", "version", "library", "classes", "paths"} \subseteq Alive
  BY DEF Alive, Writing, WorkerPhases
<1>3. CASE DryRunCompletes(j) \/ DuplicateSkipped(j) \/ Refused(j) \/ Complete(j) \/ Fails(j)
  <2>1. worker[j].at \in Alive /\ UNCHANGED <<engine, catalog>>
    BY <1>2, <1>3 DEF DryRunCompletes, DuplicateSkipped, Refused, Duplicate, Complete, Fails
  <2>2. \E told \in {"completed", "failed"}, result \in BOOLEAN : Over(j, told, result)
    BY <1>3 DEF DryRunCompletes, DuplicateSkipped, Refused, Complete, Fails
  <2>3. QED
    BY <2>1, <2>2, WorkerOver
<1>4. CASE FindProject(j) \/ InsertProject(j)
  <2>1. PICK at \in {"version", "insert"} : GoTo(j, at)
    BY <1>4 DEF FindProject, InsertProject
  <2>2. /\ worker[j].at \in Alive /\ UNCHANGED engine /\ project' \in BOOLEAN
        /\ UNCHANGED <<version, contents>>
    BY <1>1, <1>2, <1>4 DEF FindProject, InsertProject, catalog
  <2>3. worker' = [worker EXCEPT ![j] = [worker[j] EXCEPT !.at = at]]
    BY <2>1 DEF GoTo
  <2>4. at \in WorkerPhases /\ at \notin Filling /\ at \notin {"over", "exited", "none"}
    BY <1>2, <2>1 DEF Filling
  <2> DEFINE w == [worker[j] EXCEPT !.at = at]
  <2>5. w \in Worker /\ w.at = at
    BY <2>4, WorkerAt
  <2> HIDE DEF w
  <2>6. QED
    BY <1>1, <2>2, <2>3, <2>4, <2>5, WorkerGoesOn DEF w
<1>5. CASE CreateVersion(j)
  <2>1. worker' = [worker EXCEPT ![j] = [worker[j] EXCEPT !.at = "library"]]
    BY <1>5 DEF CreateVersion, GoTo
  <2>2. /\ worker[j].at \in Alive /\ UNCHANGED engine /\ version = None /\ version' = j
        /\ UNCHANGED <<project, contents>> /\ "library" \in WorkerPhases
    BY <1>2, <1>5 DEF CreateVersion
  <2>3. QED
    BY <1>1, <2>1, <2>2, WorkerAt, WorkerGoesOn
<1>6. CASE BuildLibrary(j)
  <2>1. worker' = [worker EXCEPT ![j] = [worker[j] EXCEPT !.at = "classes"]]
    BY <1>6 DEF BuildLibrary, GoTo
  <2>2. /\ worker[j].at \in Alive /\ UNCHANGED engine /\ version = j
        /\ UNCHANGED <<project, contents, version>> /\ "classes" \in WorkerPhases
    BY <1>1, <1>2, <1>6 DEF BuildLibrary, catalog, JobInv, Filling
  <2>3. QED
    BY <1>1, <2>1, <2>2, WorkerAt, WorkerGoesOn
<1>7. ASSUME NEW c \in Classes, WriteClass(j, c) \/ SkipClass(j, c) PROVE ImportInv'
  <2>1. PICK failed \in SUBSET Parts :
          worker' = [worker EXCEPT ![j] = [worker[j] EXCEPT !.left = worker[j].left \ {c},
                                                            !.failed = failed]]
    <3>1. CASE WriteClass(j, c)
      <4>1. worker' = [worker EXCEPT ![j] = [worker[j] EXCEPT !.left = worker[j].left \ {c}]]
        BY <3>1 DEF WriteClass
      <4>2. [worker[j] EXCEPT !.left = worker[j].left \ {c}]
              = [worker[j] EXCEPT !.left = worker[j].left \ {c}, !.failed = worker[j].failed]
        BY <1>1 DEF Worker
      <4>3. worker[j].failed \in SUBSET Parts
        BY <1>1 DEF Worker
      <4>4. QED
        BY <4>1, <4>2, <4>3
    <3>2. CASE SkipClass(j, c)
      <4>1. worker[j].failed \cup {c} \in SUBSET Parts
        BY <1>1 DEF Worker, Parts
      <4>2. worker' = [worker EXCEPT ![j] = [worker[j] EXCEPT !.left = worker[j].left \ {c},
                                                              !.failed = worker[j].failed \cup {c}]]
        BY <3>2 DEF SkipClass
      <4>3. QED
        BY <4>1, <4>2
    <3>3. QED
      BY <1>7, <3>1, <3>2
  <2> DEFINE w == [worker[j] EXCEPT !.left = worker[j].left \ {c}, !.failed = failed]
  <2>2. /\ worker[j].at = "classes" /\ UNCHANGED <<engine, project, version>>
        /\ contents' \in SUBSET Parts
    BY <1>1, <1>7 DEF WriteClass, SkipClass, Parts, catalog
  <2>3. w \in Worker /\ w.at = "classes"
    BY <1>1, <2>2 DEF Worker
  <2>4. version = j
    BY <1>1, <2>2 DEF JobInv, Filling
  <2> HIDE DEF w
  <2>5. QED
    BY <1>1, <1>2, <2>1, <2>2, <2>3, <2>4, WorkerGoesOn DEF w
<1>8. CASE ImportPaths(j)
  <2>1. /\ worker[j].at = "classes" /\ UNCHANGED <<engine, project, version>>
        /\ contents' \in SUBSET Parts
    BY <1>1, <1>8 DEF ImportPaths, AllWritten, Parts
  <2>2. PICK w \in Worker : w.at = "paths" /\ worker' = [worker EXCEPT ![j] = w]
    <3>1. CASE GoTo(j, "paths")
      BY <1>2, <3>1, WorkerAt DEF GoTo
    <3>2. CASE worker' = [worker EXCEPT ![j].at = "paths", ![j].failed = @ \cup {Paths}]
      <4> DEFINE w == [worker[j] EXCEPT !.at = "paths", !.failed = worker[j].failed \cup {Paths}]
      <4>1. w \in Worker /\ w.at = "paths"
        BY <1>1, <1>2 DEF Worker, Parts
      <4>2. worker' = [worker EXCEPT ![j] = w]
        BY <3>2
      <4>3. QED
        BY <4>1, <4>2
    <3>3. QED
      BY <1>8, <3>1, <3>2 DEF ImportPaths
  <2>3. version = j
    BY <1>1, <2>1 DEF JobInv, Filling
  <2>4. QED
    BY <1>1, <1>2, <2>1, <2>2, <2>3, WorkerGoesOn
<1>9. CASE Exit(j)
  <2>1. worker' = [worker EXCEPT ![j] = [worker[j] EXCEPT !.at = "exited"]]
    BY <1>9 DEF Exit, GoTo
  <2>2. worker[j].at = "over" /\ worker[j].told # "none" /\ UNCHANGED <<engine, catalog>>
    BY <1>1, <1>9 DEF Exit, JobInv
  <2> DEFINE w == [worker[j] EXCEPT !.at = "exited"]
  <2>3. w \in Worker /\ w.at = "exited" /\ w.told # "none"
    BY <1>2, <2>2, WorkerAt
  <2> HIDE DEF w
  <2>4. QED
    BY <1>1, <1>2, <2>1, <2>2, <2>3, WorkerGoesOn DEF Filling, catalog, w
<1>10. CASE Die(j)
  <2>1. worker' = [worker EXCEPT ![j] = [worker[j] EXCEPT !.at = "dead"]]
    BY <1>10 DEF Die, GoTo
  <2>2. worker[j].at \in Alive /\ UNCHANGED <<engine, catalog>>
    BY <1>10 DEF Die
  <2> DEFINE w == [worker[j] EXCEPT !.at = "dead"]
  <2>3. w \in Worker /\ w.at = "dead"
    BY <1>2, WorkerAt
  <2> HIDE DEF w
  <2>4. QED
    BY <1>1, <1>2, <2>1, <2>2, <2>3, WorkerGoesOn DEF Filling, catalog, w
<1>11. QED
  BY <1>3, <1>4, <1>5, <1>6, <1>7, <1>8, <1>9, <1>10 DEF Work

LEMMA ScheduleKeeps ==
  ASSUME ImportInv, NEW j \in Jobs, NEW k \in Kinds, Schedule(j, k) PROVE ImportInv'
<1> DEFINE r == [rec[j] EXCEPT !.state = "queued"]
<1>1. /\ rec[j] \in Record /\ stored \in [Jobs -> Stages] /\ stored[j] \in Stages
      /\ kind' \in [Jobs -> Kinds] /\ worker[j].at = "none"
  BY DEF ImportInv, ImportTypeOK, Schedule, JobInv
<1>2. r \in Record /\ r.state = "queued" /\ rec' = [rec EXCEPT ![j] = r]
  BY <1>1 DEF Record, States, Schedule
<1>3. stored' = [stored EXCEPT ![j] = stored[j]]
  BY <1>1 DEF Schedule
<1>4. "queued" \notin Ended \cup {"none"} /\ "created" \in Drives
  BY DEF Ended, Drives
<1>5. drive' = [drive EXCEPT ![j] = "created"] /\ UNCHANGED <<worker, catalog, restarts>>
  BY DEF Schedule
<1> HIDE DEF r
<1>6. QED
  BY <1>1, <1>2, <1>3, <1>4, <1>5, TaskGoesOn

LEMMA CancelKeeps == ASSUME ImportInv, NEW j \in Jobs, Cancel(j) PROVE ImportInv'
<1> DEFINE r == [rec[j] EXCEPT !.cancel = TRUE]
<1>1. /\ rec[j] \in Record /\ worker[j] \in Worker /\ JobInv(j)
      /\ rec \in [Jobs -> Record] /\ worker \in [Jobs -> Worker]
  BY DEF ImportInv, ImportTypeOK
<1>2. r \in Record /\ r.state = rec[j].state /\ rec' = [rec EXCEPT ![j] = r]
  BY <1>1 DEF Record, Cancel
<1> HIDE DEF r
<1>3. PICK w \in Worker : /\ worker' = [worker EXCEPT ![j] = w]
                          /\ w = worker[j] \/ (worker[j].at \in Alive /\ w.at = "dead")
  <2>1. CASE UNCHANGED worker
    <3>1. worker' = [worker EXCEPT ![j] = worker[j]]
      BY <1>1, <2>1
    <3>2. QED
      BY <1>1, <3>1
  <2>2. CASE worker[j].at \in Alive /\ worker' = [worker EXCEPT ![j].at = "dead"]
    <3>1. "dead" \in WorkerPhases
      BY DEF WorkerPhases
    <3>2. QED
      BY <2>2, <3>1, WorkerAt
  <2>3. QED
    BY <2>1, <2>2 DEF Cancel
<1>4. /\ rec' \in [Jobs -> Record] /\ worker' \in [Jobs -> Worker]
      /\ rec'[j] = r /\ worker'[j] = w
      /\ \A i \in Jobs \ {j} : rec'[i] = rec[i] /\ worker'[i] = worker[i]
      /\ UNCHANGED <<kind, drive, catalog, stored, restarts>>
  BY <1>1, <1>2, <1>3 DEF Cancel
<1>5. ImportTypeOK'
  BY <1>4 DEF ImportInv, ImportTypeOK, catalog
<1>6. rec[j].state \notin Ended \cup {"none"}
  BY DEF Cancel, Ended
<1>7. worker[j].at \in Alive => drive[j] \notin Before
  BY <1>1 DEF JobInv, Alive, Writing
<1>8. JobInv(j)'
  BY <1>1, <1>2, <1>3, <1>4, <1>6, <1>7 DEF JobInv, Filling, catalog
<1>9. QED
  BY <1>4, <1>5, <1>8, OneJobSteps DEF catalog

LEMMA RestartKeeps == ASSUME ImportInv, Restart PROVE ImportInv'
<1> DEFINE lost == [state |-> "lost", cancel |-> FALSE, proc |-> FALSE, response |-> FALSE]
<1>1. lost \in Record /\ lost.state = "lost" /\ "none" \in Drives
  BY DEF Record, States, Drives
<1>2. /\ rec' = [j \in Jobs |-> IF rec[j].state = "none" THEN rec[j] ELSE lost]
      /\ drive' = [j \in Jobs |-> "none"] /\ restarts' = restarts + 1 /\ restarts < MaxRestarts
      /\ UNCHANGED <<kind, worker, catalog, stored>>
  BY DEF Restart
<1> HIDE DEF lost
<1>3. ImportTypeOK'
  BY <1>1, <1>2, RestartsAssumption DEF ImportInv, ImportTypeOK, catalog
<1>4. ASSUME NEW j \in Jobs PROVE JobInv(j)'
  <2>1. JobInv(j)
    BY DEF ImportInv
  <2>2. QED
    BY <1>1, <1>2, <2>1 DEF JobInv, Ended, Before, catalog
<1>5. QED
  BY <1>3, <1>4 DEF ImportInv

LEMMA ImportInductive == ImportSpec => []ImportInv
<1>1. ImportInit => ImportInv
  <2> SUFFICES ASSUME ImportInit PROVE ImportInv
    OBVIOUS
  <2>1. ImportTypeOK
    <3>1. /\ [adapter |-> FALSE, dry |-> FALSE, skip |-> FALSE] \in Kinds
          /\ [state |-> "none", cancel |-> FALSE, proc |-> FALSE, response |-> FALSE] \in Record
          /\ [at |-> "none", left |-> Classes, failed |-> {}, told |-> "none", result |-> FALSE]
               \in Worker
          /\ "none" \in Drives /\ 0 \in Stages
      BY DEF Kinds, Record, States, Worker, WorkerPhases, Drives, Stages
    <3>2. /\ kind \in [Jobs -> Kinds] /\ rec \in [Jobs -> Record] /\ drive \in [Jobs -> Drives]
          /\ worker \in [Jobs -> Worker] /\ stored \in [Jobs -> Stages]
      BY <3>1 DEF ImportInit
    <3>3. project = FALSE /\ version = None /\ contents = {} /\ restarts = 0
      BY DEF ImportInit
    <3>4. project \in BOOLEAN /\ version \in Jobs \cup {None} /\ contents \in SUBSET Parts
      BY <3>3
    <3>5. restarts \in 0..MaxRestarts
      BY <3>3, RestartsAssumption
    <3>6. QED
      BY <3>2, <3>4, <3>5 DEF ImportTypeOK
  <2>2. \A j \in Jobs : JobInv(j)
    BY DEF ImportInit, JobInv, Ended, Before, Filling
  <2>3. QED
    BY <2>1, <2>2 DEF ImportInv
<1>2. ImportInv /\ [ImportNext]_importVars => ImportInv'
  <2> SUFFICES ASSUME ImportInv, [ImportNext]_importVars PROVE ImportInv'
    OBVIOUS
  <2>1. CASE ImportNext
    BY <2>1, ScheduleKeeps, DriveKeeps, CancelKeeps, WorkKeeps, RestartKeeps DEF ImportNext
  <2>2. CASE UNCHANGED importVars
    BY <2>2 DEF importVars, ImportInv, ImportTypeOK, JobInv
  <2>3. QED
    BY <2>1, <2>2
<1>3. QED
  BY <1>1, <1>2, PTL DEF ImportSpec

(* Type correctness of jobs, tasks, workers and the revision, for any jobs,
   classes and restarts. *)
THEOREM ImportTypesHold == ImportSpec => []ImportTypeOK
<1>1. ImportInv => ImportTypeOK
  BY DEF ImportInv
<1>2. QED
  BY <1>1, ImportInductive, PTL

\* Who may step once a job has ended.
LEMMA EndedIsQuiet ==
  ASSUME ImportInv, ImportNext, NEW j \in Jobs, rec[j].state \in Ended
  PROVE  stored'[j] = stored[j] /\ worker'[j] = worker[j]
<1>1. /\ drive[j] = "none" /\ worker[j].at \notin Alive /\ stored \in [Jobs -> Stages]
      /\ worker \in [Jobs -> Worker]
  BY DEF ImportInv, JobInv, ImportTypeOK
<1>2. CASE Restart
  BY <1>2 DEF Restart
<1>3. ASSUME NEW i \in Jobs, NEW k \in Kinds, Schedule(i, k)
      PROVE  stored' = stored /\ worker' = worker
  BY <1>3 DEF Schedule
<1>4. ASSUME NEW i \in Jobs, Drive(i) PROVE stored'[j] = stored[j] /\ worker'[j] = worker[j]
  <2>1. i # j
    BY <1>1, <1>4 DEF Drive, BeginCanceled, BeginWorker, BeginAdapter, Spawn, RunnerRaises, Finish,
       Persist, PersistFails, FinishAdapter
  <2>2. /\ stored' = stored \/ stored' = [stored EXCEPT ![i] = @ + 1]
        /\ worker' = worker \/ worker' = [worker EXCEPT ![i].at = "project"]
    BY <1>4 DEF Drive, BeginCanceled, BeginWorker, BeginAdapter, Spawn, RunnerRaises, Finish,
       Persist, PersistFails, FinishAdapter
  <2>3. QED
    BY <1>1, <2>1, <2>2
<1>5. ASSUME NEW i \in Jobs, Cancel(i) PROVE stored'[j] = stored[j] /\ worker'[j] = worker[j]
  <2>1. stored' = stored /\ (worker' = worker \/ worker' = [worker EXCEPT ![i].at = "dead"])
    BY <1>5 DEF Cancel
  <2>2. i # j
    BY <1>5 DEF Cancel, Ended
  <2>3. QED
    BY <1>1, <2>1, <2>2
<1>6. ASSUME NEW i \in Jobs, Work(i) \/ Die(i) PROVE stored'[j] = stored[j] /\ worker'[j] = worker[j]
  <2>1. stored' = stored /\ worker[i].at \in Alive
    BY <1>6 DEF Work, Die, engine, DryRunCompletes, FindProject, InsertProject, CreateVersion,
       DuplicateSkipped, Refused, Duplicate, BuildLibrary, WriteClass, SkipClass, ImportPaths,
       AllWritten, Complete, Fails, Exit, Alive, Writing
  <2>2. \E w : worker' = [worker EXCEPT ![i] = w]
    BY <1>6 DEF Work, Die, DryRunCompletes, FindProject, InsertProject, CreateVersion,
       DuplicateSkipped, Refused, BuildLibrary, WriteClass, SkipClass, ImportPaths,
       Complete, Fails, Exit, GoTo, Over
  <2>3. QED
    BY <1>1, <2>1, <2>2
<1>7. QED
  BY <1>2, <1>3, <1>4, <1>5, <1>6 DEF ImportNext

(* Once a job is reported ended, neither its worker nor its thread writes any
   more (_run_subprocess_worker waits for the process it has killed). *)
THEOREM EndedImportsAreQuiet == ImportSpec => EndedJobsAreQuiet
<1> DEFINE A == \A j \in Jobs : rec[j].state \in Ended =>
                   /\ stored'[j] = stored[j]
                   /\ worker'[j] = worker[j]
<1>1. ImportInv /\ [ImportNext]_importVars => [A]_importVars
  BY EndedIsQuiet
<1>2. QED
  BY <1>1, ImportInductive, PTL DEF ImportSpec, EndedJobsAreQuiet

(* Two imports of one document do not mix in its revision: whoever adds to it
   has created it (createVersionTx, UNIQUE (project_id, version_id)). *)
THEOREM CreatorFillsTheRevision == ImportSpec => OneImportFillsTheRevision
<1> DEFINE A == contents' # contents => \E j \in Jobs : version = j /\ worker'[j] # worker[j]
<1>1. ASSUME ImportInv, ImportNext, contents' # contents
      PROVE  \E j \in Jobs : version = j /\ worker'[j] # worker[j]
  <2>1. PICK j \in Jobs : ImportPaths(j) \/ \E c \in Classes : WriteClass(j, c)
    BY <1>1 DEF ImportNext, Restart, Schedule, Cancel, catalog, Drive, BeginCanceled, BeginWorker,
       BeginAdapter, Spawn, RunnerRaises, Finish, Persist, PersistFails, FinishAdapter,
       Work, Die, DryRunCompletes, FindProject, InsertProject, CreateVersion,
       DuplicateSkipped, Refused, BuildLibrary, SkipClass, Complete, Fails, Exit
  <2>2. /\ worker[j].at = "classes" /\ version = j
        /\ worker \in [Jobs -> Worker] /\ worker[j] \in Worker
    BY <1>1, <2>1 DEF ImportPaths, AllWritten, WriteClass, ImportInv, ImportTypeOK, JobInv, Filling
  <2>3. CASE ImportPaths(j)
    <3>1. worker'[j].at = "paths"
      BY <2>2, <2>3 DEF ImportPaths, GoTo, Worker
    <3>2. QED
      BY <2>2, <3>1
  <2>4. ASSUME NEW c \in Classes, WriteClass(j, c) PROVE worker'[j] # worker[j]
    <3>1. worker'[j].left = worker[j].left \ {c} /\ c \in worker[j].left
      BY <2>2, <2>4 DEF WriteClass, Worker
    <3>2. QED
      BY <3>1
  <2>5. QED
    BY <2>1, <2>2, <2>3, <2>4
<1>2. ImportInv /\ [ImportNext]_importVars => [A]_importVars
  BY <1>1 DEF importVars
<1>3. QED
  BY <1>2, ImportInductive, PTL DEF ImportSpec, OneImportFillsTheRevision
-----------------------------------------------------------------------------
(* What a completed job claims.                                            *)

\* What is behind the final line of a worker and the answer of a job: who is
\* told of what, and how far the import is that says so.
Claims(j) ==
  /\ kind[j].adapter => worker[j].at = "none"
  /\ drive[j] \in {"spawning", "reading"} => ~kind[j].adapter
  /\ drive[j] \in {"persisting", "scoring"} => kind[j].adapter /\ ~kind[j].dry
  /\ drive[j] = "scoring" => stored[j] = 3
  /\ worker[j].at \in Filling \cup {"insert", "version"} => ~kind[j].dry
  /\ worker[j].at \in {"none", "project", "insert", "version"} => version # j
  /\ worker[j].at \in Writing \cup {"none"} => worker[j].told = "none"
  /\ Classes \ worker[j].left \subseteq contents \cup worker[j].failed
  /\ worker[j].at = "paths" => worker[j].left = {} /\ Paths \in contents \cup worker[j].failed
  /\ worker[j].told = "completed" =>
       /\ worker[j].result <=> ~kind[j].dry
       /\ worker[j].result => version # None
       /\ version = j => Parts \subseteq contents \cup worker[j].failed
  /\ rec[j].response <=> rec[j].state = "completed" /\ ~kind[j].dry
  /\ rec[j].response => IF kind[j].adapter THEN stored[j] = 3 ELSE worker[j].told = "completed"
  /\ rec[j].cancel => rec[j].state # "completed"

\* A step of another job, and what it adds to the revision.
LEMMA ClaimsStay ==
  ASSUME NEW j \in Jobs, Claims(j),
         kind'[j] = kind[j], rec'[j] = rec[j], drive'[j] = drive[j],
         worker'[j] = worker[j], stored'[j] = stored[j], contents \subseteq contents',
         version' = version \/ (version = None /\ version' \in Jobs \ {j})
  PROVE  Claims(j)'
<1>1. version = None => version # j
  BY NoneAssumption
<1>2. CASE version' = version
  BY <1>2 DEF Claims
<1>3. CASE version = None /\ version' \in Jobs \ {j}
  BY <1>3, NoneAssumption DEF Claims
<1>4. QED
  BY <1>2, <1>3

LEMMA SettleClaims ==
  ASSUME ImportInv, NEW j \in Jobs, Claims(j), NEW state, NEW result \in BOOLEAN,
         Settle(j, state, result), UNCHANGED <<kind, worker, catalog, stored, restarts>>,
         state = "completed" =>
           /\ ~rec[j].cancel
           /\ result <=> ~kind[j].dry
           /\ result => IF kind[j].adapter THEN stored[j] = 3 ELSE worker[j].told = "completed"
  PROVE  Claims(j)'
<1>1. rec \in [Jobs -> Record] /\ drive \in [Jobs -> Drives]
  BY DEF ImportInv, ImportTypeOK
<1>2. /\ rec'[j].state = state /\ rec'[j].response = (state = "completed" /\ result)
      /\ rec'[j].cancel = rec[j].cancel /\ drive'[j] = "none"
  BY <1>1 DEF Settle
<1>3. kind' = kind /\ worker' = worker /\ version' = version /\ contents' = contents /\ stored' = stored
  BY DEF catalog
<1>4. QED
  BY <1>2, <1>3 DEF Claims

LEMMA DriveClaims == ASSUME ImportInv, NEW j \in Jobs, Claims(j), Drive(j) PROVE Claims(j)'
<1>1. /\ rec[j] \in Record /\ worker[j] \in Worker /\ stored[j] \in Stages /\ JobInv(j)
      /\ rec \in [Jobs -> Record] /\ drive \in [Jobs -> Drives] /\ stored \in [Jobs -> Stages]
      /\ worker \in [Jobs -> Worker]
  BY DEF ImportInv, ImportTypeOK
<1>2. UNCHANGED <<kind, catalog>>
  BY DEF Drive, BeginCanceled, BeginWorker, BeginAdapter, Spawn, RunnerRaises, Finish,
     Persist, PersistFails, FinishAdapter
<1>3. CASE BeginCanceled(j)
  BY <1>3, SettleClaims DEF BeginCanceled
<1>4. CASE BeginWorker(j)
  <2>1. /\ rec'[j].state = "running" /\ rec'[j].response = rec[j].response
        /\ drive'[j] = "spawning" /\ drive[j] = "created" /\ ~kind[j].adapter
        /\ worker' = worker /\ stored' = stored
    BY <1>1, <1>4 DEF BeginWorker, Record
  <2>2. rec[j].state # "completed"
    BY <1>1, <2>1 DEF JobInv, Ended
  <2>3. QED
    BY <1>2, <2>1, <2>2 DEF Claims, catalog
<1>5. CASE BeginAdapter(j)
  <2>1. CASE Settle(j, "failed", FALSE)
    BY <1>5, <2>1, SettleClaims DEF BeginAdapter
  <2>2. CASE kind[j].dry /\ Settle(j, "completed", FALSE)
    BY <1>5, <2>2, SettleClaims DEF BeginAdapter
  <2>3. CASE /\ ~kind[j].dry
             /\ rec' = [rec EXCEPT ![j].state = "running"]
             /\ drive' = [drive EXCEPT ![j] = "persisting"]
    <3>1. /\ rec'[j].state = "running" /\ rec'[j].response = rec[j].response
          /\ drive'[j] = "persisting" /\ drive[j] = "created" /\ kind[j].adapter
          /\ worker' = worker /\ stored' = stored
      BY <1>1, <1>5, <2>3 DEF BeginAdapter, Record
    <3>2. rec[j].state # "completed"
      BY <1>1, <3>1 DEF JobInv, Ended
    <3>3. QED
      BY <1>2, <2>3, <3>1, <3>2 DEF Claims, catalog
  <2>4. QED
    BY <1>5, <2>1, <2>2, <2>3 DEF BeginAdapter
<1>6. CASE Spawn(j)
  <2>1. /\ rec'[j].state = rec[j].state /\ rec'[j].response = rec[j].response
        /\ rec'[j].cancel = rec[j].cancel
        /\ drive'[j] = "reading" /\ drive[j] = "spawning" /\ stored' = stored
    BY <1>1, <1>6 DEF Spawn, Record
  <2>2. /\ worker'[j].at = "project" /\ worker'[j].left = worker[j].left
        /\ worker'[j].failed = worker[j].failed /\ worker'[j].told = worker[j].told
        /\ worker'[j].result = worker[j].result
    BY <1>1, <1>6 DEF Spawn, Worker
  <2>3. worker[j].at = "none"
    BY <1>1, <2>1 DEF JobInv, Before
  <2>4. worker[j].told = "none" /\ version # j /\ ~kind[j].adapter
    BY <2>1, <2>3 DEF Claims
  <2>5. QED
    BY <1>2, <2>1, <2>2, <2>4 DEF Claims, catalog, Filling, Writing
<1>7. CASE RunnerRaises(j)
  BY <1>7, SettleClaims DEF RunnerRaises
<1>8. CASE Finish(j)
  <2>1. PICK garbled \in BOOLEAN :
          LET ok == worker[j].at = "exited" /\ ~garbled
          IN  Settle(j, Verdict(j, IF ok THEN worker[j].told ELSE "failed"), ok /\ worker[j].result)
    BY <1>8 DEF Finish
  <2> DEFINE ok == worker[j].at = "exited" /\ ~garbled
             state == Verdict(j, IF ok THEN worker[j].told ELSE "failed")
             result == ok /\ worker[j].result
  <2>2. state = "completed" => ok /\ worker[j].told = "completed" /\ ~rec[j].cancel
    BY DEF Verdict
  <2>3. state = "completed" => /\ ~rec[j].cancel
                               /\ result <=> ~kind[j].dry
                               /\ result => worker[j].told = "completed"
    <3>1. worker[j].told = "completed" => (worker[j].result <=> ~kind[j].dry)
      BY DEF Claims
    <3>2. QED
      BY <2>2, <3>1
  <2>4. ~kind[j].adapter
    BY <1>8 DEF Finish, Claims
  <2>5. Settle(j, state, result) /\ UNCHANGED <<kind, worker, catalog, stored, restarts>>
    BY <1>8, <2>1 DEF Finish
  <2>6. result \in BOOLEAN
    OBVIOUS
  <2> HIDE DEF ok, state, result
  <2>7. QED
    BY <2>3, <2>4, <2>5, <2>6, SettleClaims
<1>9. CASE Persist(j)
  <2>1. rec' = rec /\ worker' = worker /\ drive[j] = "persisting"
    BY <1>9 DEF Persist
  <2>2. rec[j].state # "completed" /\ ~rec[j].response /\ kind[j].adapter /\ ~kind[j].dry
    BY <1>1, <2>1 DEF JobInv, Ended, Claims
  <2>3. \/ drive'[j] = "persisting"
        \/ drive'[j] = "scoring" /\ stored'[j] = 3
    BY <1>1, <1>9, <2>1 DEF Persist
  <2>4. QED
    BY <1>2, <2>1, <2>2, <2>3 DEF Claims, catalog
<1>10. CASE PersistFails(j)
  BY <1>10, SettleClaims DEF PersistFails, Verdict
<1>11. CASE FinishAdapter(j)
  <2>1. /\ stored[j] = 3 /\ kind[j].adapter /\ ~kind[j].dry
        /\ Verdict(j, "completed") = "completed" => ~rec[j].cancel
    BY <1>11 DEF FinishAdapter, Claims, Verdict
  <2>2. QED
    BY <1>11, <2>1, SettleClaims DEF FinishAdapter
<1>12. QED
  BY <1>3, <1>4, <1>5, <1>6, <1>7, <1>8, <1>9, <1>10, <1>11 DEF Drive

\* A step of a worker that is alive: its job has not ended.
LEMMA WorkerClaims ==
  ASSUME ImportInv, NEW j \in Jobs, Claims(j), UNCHANGED engine, worker[j].at \in Alive,
         worker'[j].at # "none",
         worker'[j].at \in Filling \cup {"insert", "version"} => ~kind[j].dry,
         worker'[j].at \in {"project", "insert", "version"} => version' # j,
         worker'[j].at \in Writing => worker'[j].told = "none",
         Classes \ worker'[j].left \subseteq contents' \cup worker'[j].failed,
         worker'[j].at = "paths" =>
           worker'[j].left = {} /\ Paths \in contents' \cup worker'[j].failed,
         worker'[j].told = "completed" =>
           /\ worker'[j].result <=> ~kind[j].dry
           /\ worker'[j].result => version' # None
           /\ version' = j => Parts \subseteq contents' \cup worker'[j].failed
  PROVE  Claims(j)'
<1>1. JobInv(j) /\ worker[j].at # "none" /\ ~kind[j].adapter
  BY DEF ImportInv, Claims, Alive, Writing
<1>2. rec[j].state # "completed" /\ ~rec[j].response
  BY <1>1 DEF JobInv, Ended, Claims
<1>3. kind' = kind /\ rec' = rec /\ drive' = drive /\ stored' = stored
  BY DEF engine
<1>4. QED
  BY <1>1, <1>2, <1>3 DEF Claims

\* A worker that goes to another phase and leaves the rest as it is.
LEMMA PhaseClaims ==
  ASSUME ImportInv, NEW j \in Jobs, Claims(j), NEW at \in WorkerPhases, GoTo(j, at),
         UNCHANGED engine, worker[j].at \in Alive, at \notin {"none", "project", "paths"},
         at \in Filling \cup {"insert", "version"} => ~kind[j].dry /\ worker[j].at \in Writing,
         at \in {"insert", "version"} => version' # j,
         worker[j].told = "completed" => version' = version,
         contents \subseteq contents'
  PROVE  Claims(j)'
<1>1. worker \in [Jobs -> Worker] /\ worker[j] \in Worker
  BY DEF ImportInv, ImportTypeOK
<1>2. /\ worker'[j].at = at /\ worker'[j].left = worker[j].left
      /\ worker'[j].failed = worker[j].failed /\ worker'[j].told = worker[j].told
      /\ worker'[j].result = worker[j].result
  BY <1>1 DEF GoTo, Worker
<1>3. at \in Writing => worker[j].told = "none"
  BY DEF Claims, Writing, Filling
<1>4. worker[j].told = "completed" =>
        /\ worker[j].result <=> ~kind[j].dry
        /\ worker[j].result => version' # None
        /\ version' = j => Parts \subseteq contents' \cup worker[j].failed
  BY DEF Claims
<1>5. Classes \ worker[j].left \subseteq contents' \cup worker[j].failed
  BY DEF Claims
<1>6. QED
  BY <1>2, <1>3, <1>4, <1>5, WorkerClaims

\* The final line of a worker.
LEMMA OverClaims ==
  ASSUME ImportInv, NEW j \in Jobs, Claims(j), NEW told \in {"completed", "failed"},
         NEW result \in BOOLEAN, Over(j, told, result), UNCHANGED <<engine, catalog>>,
         worker[j].at \in Alive,
         told = "completed" =>
           /\ result <=> ~kind[j].dry
           /\ result => version # None
           /\ version = j => Parts \subseteq contents \cup worker[j].failed
  PROVE  Claims(j)'
<1>1. worker \in [Jobs -> Worker] /\ worker[j] \in Worker
  BY DEF ImportInv, ImportTypeOK
<1>2. /\ worker'[j].at = "over" /\ worker'[j].left = worker[j].left
      /\ worker'[j].failed = worker[j].failed /\ worker'[j].told = told
      /\ worker'[j].result = result
  BY <1>1 DEF Over, Worker
<1>3. version' = version /\ contents' = contents
  BY DEF catalog
<1>4. Classes \ worker[j].left \subseteq contents \cup worker[j].failed
  BY DEF Claims
<1>5. QED
  BY <1>2, <1>3, <1>4, WorkerClaims DEF Filling, Writing

LEMMA WorkClaims == ASSUME ImportInv, NEW j \in Jobs, Claims(j), Work(j) \/ Die(j) PROVE Claims(j)'
<1>1. /\ worker[j] \in Worker /\ worker \in [Jobs -> Worker] /\ JobInv(j)
  BY DEF ImportInv, ImportTypeOK
<1>2. /\ Writing \subseteq Alive /\ Alive \subseteq WorkerPhases /\ "over" \in Alive
      /\ {"dead", "exited"} \subseteq WorkerPhases
      /\ Writing = {"project", "insert", "version"} \cup Filling
  BY DEF Alive, Writing, WorkerPhases, Filling
<1>3. CASE DryRunCompletes(j)
  BY <1>2, <1>3, OverClaims DEF DryRunCompletes, Claims
<1>4. CASE DuplicateSkipped(j)
  BY <1>2, <1>4, OverClaims DEF DuplicateSkipped, Claims
<1>5. CASE Refused(j) \/ Fails(j)
  BY <1>2, <1>5, OverClaims DEF Refused, Duplicate, Fails
<1>6. CASE Complete(j)
  <2>1. /\ worker[j].at = "paths" /\ worker[j].left = {} /\ Paths \in contents \cup worker[j].failed
        /\ Classes \ worker[j].left \subseteq contents \cup worker[j].failed /\ ~kind[j].dry
    BY <1>6 DEF Complete, Claims, Filling
  <2>2. Parts \subseteq contents \cup worker[j].failed
    BY <2>1 DEF Parts
  <2>3. version # None
    BY <1>1, <2>1, NoneAssumption DEF JobInv, Filling
  <2>4. QED
    BY <1>2, <1>6, <2>1, <2>2, <2>3, OverClaims DEF Complete, Filling
<1>7. CASE FindProject(j)
  <2>1. PICK at \in {"version", "insert"} : GoTo(j, at)
    BY <1>7 DEF FindProject
  <2>2. /\ worker[j].at = "project" /\ ~kind[j].dry /\ version # j /\ version' = version
        /\ contents' = contents /\ UNCHANGED engine
    BY <1>7 DEF FindProject, Claims, catalog
  <2>3. at \in WorkerPhases /\ at \notin {"none", "project", "paths"}
    BY <1>2, <2>1
  <2>4. QED
    BY <1>2, <2>1, <2>2, <2>3, PhaseClaims
<1>8. CASE InsertProject(j)
  <2>1. /\ worker[j].at = "insert" /\ ~kind[j].dry /\ version # j /\ version' = version
        /\ contents' = contents /\ UNCHANGED engine /\ GoTo(j, "version")
    BY <1>8 DEF InsertProject, Claims
  <2>2. QED
    BY <1>2, <2>1, PhaseClaims
<1>9. CASE CreateVersion(j) \/ BuildLibrary(j)
  <2>1. PICK at \in {"library", "classes"} : GoTo(j, at)
    BY <1>9 DEF CreateVersion, BuildLibrary
  <2>2. /\ worker[j].at \in {"version", "library"} /\ UNCHANGED engine /\ contents' = contents
    BY <1>9 DEF CreateVersion, BuildLibrary, catalog
  <2>3. ~kind[j].dry /\ worker[j].told # "completed"
    BY <1>2, <2>2 DEF Claims, Filling
  <2>4. at \in WorkerPhases /\ at \notin {"none", "project", "paths", "insert", "version"}
    BY <1>2, <2>1 DEF Filling
  <2>5. worker[j].at \in Writing
    BY <1>2, <2>2 DEF Filling
  <2>6. QED
    BY <1>2, <2>1, <2>2, <2>3, <2>4, <2>5, PhaseClaims
<1>10. ASSUME NEW c \in Classes, WriteClass(j, c) \/ SkipClass(j, c) PROVE Claims(j)'
  <2>1. /\ worker[j].at = "classes" /\ UNCHANGED engine
        /\ worker'[j].at = "classes" /\ worker'[j].left = worker[j].left \ {c}
        /\ worker'[j].told = worker[j].told
        /\ contents \subseteq contents' /\ worker[j].failed \subseteq worker'[j].failed
        /\ c \in contents' \cup worker'[j].failed
    BY <1>1, <1>10 DEF WriteClass, SkipClass, Worker, catalog
  <2>2. /\ ~kind[j].dry /\ worker[j].told = "none" /\ worker[j].at \in Alive
        /\ Classes \ worker[j].left \subseteq contents \cup worker[j].failed
    BY <1>2, <2>1 DEF Claims, Filling
  <2>3. Classes \ worker'[j].left \subseteq contents' \cup worker'[j].failed
    BY <2>1, <2>2
  <2>4. QED
    BY <2>1, <2>2, <2>3, WorkerClaims
<1>11. CASE ImportPaths(j)
  <2>1. /\ worker[j].at = "classes" /\ UNCHANGED engine /\ worker[j].left = {}
        /\ worker'[j].at = "paths" /\ worker'[j].left = worker[j].left
        /\ worker'[j].told = worker[j].told
        /\ contents \subseteq contents' /\ worker[j].failed \subseteq worker'[j].failed
        /\ Paths \in contents' \cup worker'[j].failed
    BY <1>1, <1>11 DEF ImportPaths, AllWritten, GoTo, Worker
  <2>2. /\ ~kind[j].dry /\ worker[j].told = "none" /\ worker[j].at \in Alive
        /\ Classes \ worker[j].left \subseteq contents \cup worker[j].failed
    BY <1>2, <2>1 DEF Claims, Filling
  <2>3. Classes \ worker'[j].left \subseteq contents' \cup worker'[j].failed
    BY <2>1, <2>2
  <2>4. QED
    BY <2>1, <2>2, <2>3, WorkerClaims
<1>12. CASE Exit(j) \/ Die(j)
  <2>1. PICK at \in {"exited", "dead"} : GoTo(j, at)
    BY <1>12 DEF Exit, Die
  <2>2. /\ worker[j].at \in Alive /\ UNCHANGED engine /\ contents' = contents /\ version' = version
    BY <1>2, <1>12 DEF Exit, Die, catalog
  <2>3. at \in WorkerPhases /\ at \notin {"none"} \cup Writing
    BY <1>2, <2>1 DEF Writing
  <2>4. QED
    BY <1>2, <2>1, <2>2, <2>3, PhaseClaims
<1>13. QED
  BY <1>3, <1>4, <1>5, <1>6, <1>7, <1>8, <1>9, <1>10, <1>11, <1>12 DEF Work

LEMMA CancelClaims == ASSUME ImportInv, NEW j \in Jobs, Claims(j), Cancel(j) PROVE Claims(j)'
<1>1. /\ rec \in [Jobs -> Record] /\ worker \in [Jobs -> Worker]
      /\ rec[j] \in Record /\ worker[j] \in Worker
  BY DEF ImportInv, ImportTypeOK
<1>2. /\ rec'[j].state = rec[j].state /\ rec'[j].response = rec[j].response
      /\ rec[j].state # "completed" /\ UNCHANGED <<kind, drive, catalog, stored>>
  BY <1>1 DEF Cancel, Record
<1>3. CASE worker' = worker
  BY <1>2, <1>3 DEF Claims, catalog
<1>4. CASE worker[j].at \in Alive /\ worker' = [worker EXCEPT ![j].at = "dead"]
  <2>1. /\ worker'[j].at = "dead" /\ worker'[j].left = worker[j].left
        /\ worker'[j].failed = worker[j].failed /\ worker'[j].told = worker[j].told
        /\ worker'[j].result = worker[j].result /\ worker[j].at # "none"
    BY <1>1, <1>4 DEF Worker, Alive, Writing
  <2>2. QED
    BY <1>2, <2>1 DEF Claims, catalog, Filling, Writing
<1>5. QED
  BY <1>3, <1>4 DEF Cancel

LEMMA ScheduleClaims ==
  ASSUME ImportInv, NEW j \in Jobs, NEW k \in Kinds, Claims(j), Schedule(j, k) PROVE Claims(j)'
<1>1. /\ rec \in [Jobs -> Record] /\ rec[j] \in Record /\ worker[j].at = "none"
      /\ kind \in [Jobs -> Kinds] /\ drive \in [Jobs -> Drives] /\ rec[j].state = "none"
  BY DEF ImportInv, ImportTypeOK, Schedule, JobInv
<1>2. /\ rec'[j].state = "queued" /\ rec'[j].response = rec[j].response /\ drive'[j] = "created"
      /\ UNCHANGED <<worker, catalog, stored>>
  BY <1>1 DEF Schedule, Record
<1>3. ~rec[j].response /\ worker[j].told = "none" /\ version # j
  BY <1>1 DEF Claims
<1>4. QED
  BY <1>1, <1>2, <1>3 DEF Claims, catalog, Filling

LEMMA RestartClaims == ASSUME ImportInv, NEW j \in Jobs, Claims(j), Restart PROVE Claims(j)'
<1>1. /\ drive'[j] = "none" /\ UNCHANGED <<kind, worker, catalog, stored>>
      /\ \/ rec'[j] = rec[j]
         \/ rec'[j].state = "lost" /\ ~rec'[j].response
  BY DEF Restart
<1>2. QED
  BY <1>1 DEF Claims, catalog

\* What a step of one job does to the others, and to the revision.
LEMMA OthersStay ==
  ASSUME ImportInv, NEW i \in Jobs, NEW j \in Jobs \ {i},
         (\E k \in Kinds : Schedule(i, k)) \/ Drive(i) \/ Cancel(i) \/ Work(i) \/ Die(i)
  PROVE  /\ kind'[j] = kind[j] /\ rec'[j] = rec[j] /\ drive'[j] = drive[j]
         /\ worker'[j] = worker[j] /\ stored'[j] = stored[j] /\ contents \subseteq contents'
         /\ version' = version \/ (version = None /\ version' = i)
<1>1. /\ kind \in [Jobs -> Kinds] /\ rec \in [Jobs -> Record] /\ drive \in [Jobs -> Drives]
      /\ worker \in [Jobs -> Worker] /\ stored \in [Jobs -> Stages]
  BY DEF ImportInv, ImportTypeOK
<1>2. CASE \E k \in Kinds : Schedule(i, k)
  BY <1>1, <1>2 DEF Schedule, catalog
<1>3. CASE Drive(i)
  BY <1>1, <1>3 DEF Drive, BeginCanceled, BeginWorker, BeginAdapter, Spawn, RunnerRaises, Finish,
     Persist, PersistFails, FinishAdapter, Settle, catalog
<1>4. CASE Cancel(i)
  BY <1>1, <1>4 DEF Cancel, catalog
<1>5. CASE Work(i) \/ Die(i)
  BY <1>1, <1>5 DEF Work, Die, engine, catalog, DryRunCompletes, FindProject, InsertProject,
     CreateVersion, DuplicateSkipped, Refused, BuildLibrary, WriteClass, SkipClass, ImportPaths,
     Complete, Fails, Exit, GoTo, Over
<1>6. QED
  BY <1>2, <1>3, <1>4, <1>5

\* Every claim holds of every job.
LEMMA ClaimsHold == ImportSpec => [](\A j \in Jobs : Claims(j))
<1> DEFINE Backed == \A j \in Jobs : Claims(j)
<1>1. ImportInit => Backed
  BY NoneAssumption DEF ImportInit, Claims, Filling, Writing
<1>2. ImportInv /\ Backed /\ [ImportNext]_importVars => Backed'
  <2> SUFFICES ASSUME ImportInv, Backed, [ImportNext]_importVars, NEW j \in Jobs PROVE Claims(j)'
    OBVIOUS
  <2>1. CASE Restart
    BY <2>1, RestartClaims
  <2>2. ASSUME NEW i \in Jobs,
               (\E k \in Kinds : Schedule(i, k)) \/ Drive(i) \/ Cancel(i) \/ Work(i) \/ Die(i)
        PROVE  Claims(j)'
    <3>1. CASE i = j
      BY <2>2, <3>1, ScheduleClaims, DriveClaims, CancelClaims, WorkClaims
    <3>2. CASE i # j
      <4>1. j \in Jobs \ {i} /\ i \in Jobs \ {j} /\ Claims(j)
        BY <3>2
      <4>2. /\ kind'[j] = kind[j] /\ rec'[j] = rec[j] /\ drive'[j] = drive[j]
            /\ worker'[j] = worker[j] /\ stored'[j] = stored[j] /\ contents \subseteq contents'
            /\ version' = version \/ (version = None /\ version' = i)
        BY <2>2, <4>1, OthersStay
      <4>3. QED
        BY <4>1, <4>2, ClaimsStay
    <3>3. QED
      BY <3>1, <3>2
  <2>3. CASE UNCHANGED importVars
    BY <2>3 DEF importVars, Claims
  <2>4. QED
    BY <2>1, <2>2, <2>3 DEF ImportNext
<1>3. QED
  BY <1>1, <1>2, ImportInductive, PTL DEF ImportSpec

(* The answer of a completed import is backed by what it stored, whatever
   cancels, deaths and restarts came between (_maybe_build_commit_response,
   persist_adapter_import, import-helper.ts). *)
THEOREM CompletedImportsAreStored == ImportSpec => []CompletedIsStored
<1>1. (\A j \in Jobs : Claims(j)) => CompletedIsStored
  BY DEF Claims, CompletedIsStored
<1>2. QED
  BY <1>1, ClaimsHold, PTL

(* A cancelled import never completes, wherever the cancel met it
   (cancel_spec_import_job, and the checks before the final state). *)
THEOREM CanceledImportsStayCanceled == ImportSpec => []CanceledNeverCompletes
<1>1. (\A j \in Jobs : Claims(j)) => CanceledNeverCompletes
  BY DEF Claims, CanceledNeverCompletes
<1>2. QED
  BY <1>1, ClaimsHold, PTL
-----------------------------------------------------------------------------
(* That an import ends, but for the scheduling: somebody is always there to go
   on with it, and it only goes forward.                                     *)

(* The safety half of EveryJobSettles: a job that has not ended has a task  *)
(* to go on with it, and a task that reads has a process to read from.      *)
NoImportIsStuck ==
  \A j \in Jobs : rec[j].state \in {"queued", "running"} =>
    drive[j] # "none" /\ (drive[j] = "reading" => worker[j].at # "none")

\* How far a task and a process are.
TaskRank(d) ==
  CASE d = "created" -> 1 [] d \in {"spawning", "persisting"} -> 2
    [] d \in {"reading", "scoring"} -> 3 [] d = "none" -> 4
WorkerRank(at) ==
  CASE at = "none" -> 0 [] at = "project" -> 1 [] at = "insert" -> 2 [] at = "version" -> 3
    [] at = "library" -> 4 [] at = "classes" -> 5 [] at = "paths" -> 6 [] at = "over" -> 7
    [] at \in {"exited", "dead"} -> 8

(* An import only goes forward, canceled or not: its task starts once and  *)
(* never turns back, its process goes on or has one class less to write.   *)
ImportsGoForward ==
  [][\A j \in Jobs :
       /\ drive'[j] # drive[j] => \/ TaskRank(drive'[j]) > TaskRank(drive[j])
                                  \/ rec[j].state = "none" /\ drive'[j] = "created"
       /\ worker'[j] # worker[j] =>
            \/ WorkerRank(worker'[j].at) > WorkerRank(worker[j].at)
            \/ /\ worker'[j].at = worker[j].at
               /\ \E c \in worker[j].left : worker'[j].left = worker[j].left \ {c}]_importVars

\* The task of a job that has not ended, and the process it waits for.
Driven(j) ==
  /\ rec[j].state \in {"queued", "running"} => drive[j] # "none"
  /\ drive[j] = "reading" => worker[j].at # "none"

LEMMA SettleDrives ==
  ASSUME ImportInv, NEW j \in Jobs, NEW state \in Ended, NEW result, Settle(j, state, result)
  PROVE  Driven(j)'
<1>1. rec \in [Jobs -> Record] /\ drive \in [Jobs -> Drives]
  BY DEF ImportInv, ImportTypeOK
<1>2. rec'[j].state = state /\ drive'[j] = "none"
  BY <1>1 DEF Settle
<1>3. QED
  BY <1>2 DEF Driven, Ended

\* A step of a task: it goes on, and starts a process that was not there.
LEMMA TaskAdvances ==
  ASSUME ImportInv, NEW i \in Jobs, Drive(i), NEW j \in Jobs
  PROVE  /\ drive'[j] # drive[j] => TaskRank(drive'[j]) > TaskRank(drive[j])
         /\ worker'[j] # worker[j] => WorkerRank(worker'[j].at) > WorkerRank(worker[j].at)
<1>1. /\ drive \in [Jobs -> Drives] /\ worker \in [Jobs -> Worker]
      /\ drive[i] \in Drives /\ worker[i] \in Worker /\ JobInv(i)
  BY DEF ImportInv, ImportTypeOK
<1>2. PICK d \in Drives : drive' = [drive EXCEPT ![i] = d] /\ (d # drive[i] => TaskRank(d) > TaskRank(drive[i]))
  <2>1. CASE drive[i] = "created" /\ \E d \in {"none", "spawning", "persisting"} :
                drive' = [drive EXCEPT ![i] = d]
    <3>1. PICK d \in {"none", "spawning", "persisting"} : drive' = [drive EXCEPT ![i] = d]
      BY <2>1
    <3>2. d \in Drives /\ TaskRank(d) > TaskRank(drive[i])
      BY <2>1 DEF TaskRank, Drives
    <3>3. QED
      BY <3>1, <3>2
  <2>2. CASE drive[i] \in {"spawning", "reading", "persisting", "scoring"}
             /\ drive' = [drive EXCEPT ![i] = "none"]
    BY <2>2 DEF TaskRank, Drives
  <2>3. CASE \/ drive[i] = "spawning" /\ drive' = [drive EXCEPT ![i] = "reading"]
             \/ drive[i] = "persisting" /\ drive' = [drive EXCEPT ![i] = "scoring"]
    BY <2>3 DEF TaskRank, Drives
  <2>4. CASE drive' = drive
    <3>1. drive' = [drive EXCEPT ![i] = drive[i]]
      BY <1>1, <2>4
    <3>2. QED
      BY <1>1, <3>1
  <2>5. QED
    BY <2>1, <2>2, <2>3, <2>4 DEF Drive, BeginCanceled, BeginWorker, BeginAdapter, Spawn, RunnerRaises, Finish,
       Persist, PersistFails, FinishAdapter, Settle
<1>3. \/ worker' = worker
      \/ worker[i].at = "none" /\ worker' = [worker EXCEPT ![i].at = "project"]
  BY <1>1 DEF Drive, BeginCanceled, BeginWorker, BeginAdapter, Spawn, RunnerRaises, Finish,
     Persist, PersistFails, FinishAdapter, JobInv, Before
<1>4. worker'[j] # worker[j] => worker[j].at = "none" /\ worker'[j].at = "project"
  BY <1>1, <1>3 DEF Worker
<1>5. drive'[j] # drive[j] => j = i /\ drive'[j] = d
  BY <1>1, <1>2
<1>6. QED
  BY <1>2, <1>4, <1>5 DEF WorkerRank

\* A step of a process: it goes on, or has one class less to write.
LEMMA WorkAdvances ==
  ASSUME ImportInv, NEW i \in Jobs, Work(i) \/ Die(i), NEW j \in Jobs
  PROVE  worker'[j] # worker[j] =>
           /\ worker'[j].at # "none"
           /\ \/ WorkerRank(worker'[j].at) > WorkerRank(worker[j].at)
              \/ /\ worker'[j].at = worker[j].at
                 /\ \E c \in worker[j].left : worker'[j].left = worker[j].left \ {c}
<1>1. worker \in [Jobs -> Worker] /\ worker[i] \in Worker /\ worker[j] \in Worker
  BY DEF ImportInv, ImportTypeOK
<1>2. SUFFICES ASSUME worker'[j] # worker[j]
               PROVE  /\ worker'[j].at # "none"
                      /\ \/ WorkerRank(worker'[j].at) > WorkerRank(worker[j].at)
                         \/ /\ worker'[j].at = worker[j].at
                            /\ \E c \in worker[j].left : worker'[j].left = worker[j].left \ {c}
  OBVIOUS
<1>3. j = i
  <2>1. \E w : worker' = [worker EXCEPT ![i] = w]
    BY DEF Work, Die, DryRunCompletes, FindProject, InsertProject, CreateVersion,
       DuplicateSkipped, Refused, BuildLibrary, WriteClass, SkipClass, ImportPaths,
       Complete, Fails, Exit, GoTo, Over
  <2>2. QED
    BY <1>1, <1>2, <2>1
<1>4. CASE \E told, result : Over(j, told, result) /\ worker[j].at \in Writing
  <2>1. worker'[j].at = "over"
    BY <1>1, <1>4 DEF Over, Worker
  <2>2. QED
    BY <1>4, <2>1 DEF WorkerRank, Writing
<1>5. CASE \/ worker[j].at = "project" /\ (GoTo(j, "version") \/ GoTo(j, "insert"))
           \/ worker[j].at = "insert" /\ GoTo(j, "version")
           \/ worker[j].at = "version" /\ GoTo(j, "library")
           \/ worker[j].at = "library" /\ GoTo(j, "classes")
           \/ worker[j].at = "over" /\ GoTo(j, "exited")
           \/ worker[j].at \in Alive /\ GoTo(j, "dead")
  <2>1. ASSUME NEW at, GoTo(j, at) PROVE worker'[j].at = at
    BY <1>1, <2>1 DEF GoTo, Worker
  <2>2. QED
    BY <1>5, <2>1 DEF WorkerRank, Alive, Writing
<1>6. CASE \E c \in Classes : WriteClass(j, c) \/ SkipClass(j, c)
  <2>1. PICK c \in worker[j].left :
          /\ worker[j].at = "classes"
          /\ \/ worker' = [worker EXCEPT ![j].left = @ \ {c}]
             \/ worker' = [worker EXCEPT ![j].left = @ \ {c}, ![j].failed = @ \cup {c}]
    BY <1>6 DEF WriteClass, SkipClass
  <2>2. worker'[j].at = "classes" /\ worker'[j].left = worker[j].left \ {c}
    BY <1>1, <2>1 DEF Worker
  <2>3. QED
    BY <2>1, <2>2
<1>7. CASE ImportPaths(j)
  <2>1. worker[j].at = "classes" /\ worker'[j].at = "paths"
    BY <1>1, <1>7 DEF ImportPaths, AllWritten, GoTo, Worker
  <2>2. QED
    BY <2>1 DEF WorkerRank
<1>8. QED
  BY <1>3, <1>4, <1>5, <1>6, <1>7 DEF Work, Die, DryRunCompletes, FindProject, InsertProject, CreateVersion,
       DuplicateSkipped, Refused, Duplicate, BuildLibrary, Complete, Fails, Exit, Writing

LEMMA StepDriven ==
  ASSUME ImportInv, NEW j \in Jobs, Driven(j), [ImportNext]_importVars
  PROVE  Driven(j)'
<1>1. /\ rec \in [Jobs -> Record] /\ drive \in [Jobs -> Drives] /\ worker \in [Jobs -> Worker]
      /\ rec[j] \in Record /\ worker[j] \in Worker
      /\ worker[j].told \in {"none", "completed", "failed"} /\ JobInv(j)
      /\ "canceled" \in Ended /\ "failed" \in Ended /\ "completed" \in Ended
  BY DEF ImportInv, ImportTypeOK, Worker, Ended
<1>2. ASSUME NEW i \in Jobs, NEW k \in Kinds, Schedule(i, k) PROVE Driven(j)'
  BY <1>1, <1>2 DEF Schedule, Driven
<1>3. ASSUME Drive(j) PROVE Driven(j)'
  <2>1. CASE \E state \in Ended : \E result : Settle(j, state, result)
    BY <2>1, SettleDrives
  <2>2. CASE BeginWorker(j) \/ Spawn(j) \/ Persist(j)
    <3>1. CASE BeginWorker(j)
      BY <1>1, <3>1 DEF BeginWorker, Driven
    <3>2. CASE Spawn(j)
      <4>1. worker'[j].at = "project" /\ drive'[j] = "reading"
        BY <1>1, <3>2 DEF Spawn, Worker
      <4>2. QED
        BY <4>1 DEF Driven
    <3>3. CASE Persist(j)
      BY <1>1, <3>3 DEF Persist, Driven
    <3>4. QED
      BY <2>2, <3>1, <3>2, <3>3
  <2>3. CASE BeginAdapter(j) /\ drive' = [drive EXCEPT ![j] = "persisting"]
    BY <1>1, <2>3 DEF BeginAdapter, Driven
  <2>4. BeginCanceled(j) => Settle(j, "canceled", FALSE)
    BY DEF BeginCanceled
  <2>5. BeginAdapter(j) => \/ Settle(j, "failed", FALSE) \/ Settle(j, "completed", FALSE)
                           \/ drive' = [drive EXCEPT ![j] = "persisting"]
    BY DEF BeginAdapter
  <2>6. RunnerRaises(j) => Settle(j, "failed", FALSE)
    BY DEF RunnerRaises
  <2>7. PersistFails(j) \/ FinishAdapter(j) => \E state \in Ended : \E result : Settle(j, state, result)
    BY <1>1 DEF PersistFails, FinishAdapter, Verdict
  <2>8. ASSUME Finish(j) PROVE \E state \in Ended : \E result : Settle(j, state, result)
    <3>1. PICK garbled \in BOOLEAN :
            LET ok == worker[j].at = "exited" /\ ~garbled
            IN  Settle(j, Verdict(j, IF ok THEN worker[j].told ELSE "failed"), ok /\ worker[j].result)
      BY <2>8 DEF Finish
    <3> DEFINE ok == worker[j].at = "exited" /\ ~garbled
               state == Verdict(j, IF ok THEN worker[j].told ELSE "failed")
    <3>2. worker[j].at = "exited" => worker[j].told # "none"
      BY <1>1 DEF JobInv
    <3>3. state \in Ended
      BY <1>1, <3>2 DEF Verdict
    <3>4. Settle(j, state, ok /\ worker[j].result)
      BY <3>1
    <3> HIDE DEF ok, state
    <3>5. QED
      BY <3>3, <3>4
  <2>9. QED
    BY <1>1, <1>3, <2>1, <2>2, <2>3, <2>4, <2>5, <2>6, <2>7, <2>8 DEF Drive
<1>4. ASSUME NEW i \in Jobs \ {j}, Drive(i) PROVE Driven(j)'
  <2>1. /\ \E r : rec' = [rec EXCEPT ![i] = r] \/ rec' = rec
        /\ \E d : drive' = [drive EXCEPT ![i] = d] \/ drive' = drive
        /\ \E w : worker' = [worker EXCEPT ![i] = w] \/ worker' = worker
    BY <1>4 DEF Drive, BeginCanceled, BeginWorker, BeginAdapter, Spawn, RunnerRaises, Finish,
       Persist, PersistFails, FinishAdapter, Settle
  <2>2. rec'[j] = rec[j] /\ drive'[j] = drive[j] /\ worker'[j] = worker[j]
    BY <1>1, <2>1
  <2>3. QED
    BY <2>2 DEF Driven
<1>5. ASSUME NEW i \in Jobs, Cancel(i) PROVE Driven(j)'
  <2>1. /\ rec' = [rec EXCEPT ![i].cancel = TRUE] /\ drive' = drive
        /\ worker' = worker \/ worker' = [worker EXCEPT ![i].at = "dead"]
    BY <1>5 DEF Cancel
  <2>2. rec'[j].state = rec[j].state
    BY <1>1, <2>1 DEF Record
  <2>3. worker'[j].at = worker[j].at \/ worker'[j].at = "dead"
    BY <1>1, <2>1 DEF Worker
  <2>4. QED
    BY <2>1, <2>2, <2>3 DEF Driven
<1>6. ASSUME NEW i \in Jobs, Work(i) \/ Die(i) PROVE Driven(j)'
  <2>1. rec' = rec /\ drive' = drive
    BY <1>6 DEF Work, Die, engine, DryRunCompletes, FindProject, InsertProject, CreateVersion,
       DuplicateSkipped, Refused, BuildLibrary, WriteClass, SkipClass, ImportPaths, Complete,
       Fails, Exit
  <2>2. worker'[j] = worker[j] \/ worker'[j].at # "none"
    BY <1>1, <1>6, WorkAdvances DEF WorkerRank
  <2>3. QED
    BY <2>1, <2>2 DEF Driven
<1>7. CASE Restart
  BY <1>1, <1>7 DEF Restart, Driven
<1>8. CASE UNCHANGED importVars
  BY <1>8 DEF importVars, Driven
<1>9. QED
  BY <1>2, <1>3, <1>4, <1>5, <1>6, <1>7, <1>8 DEF ImportNext

(* Every accepted import that has not ended has its task, and its Node process
   once the task reads from one, so that it cannot wait for nobody: half of
   EveryJobSettles (_run_job, _run_subprocess_worker). *)
THEOREM NoImportForgotten == ImportSpec => []NoImportIsStuck
<1>1. ImportInit => \A j \in Jobs : Driven(j)
  BY DEF ImportInit, Driven
<1>2. ImportInv /\ (\A j \in Jobs : Driven(j)) /\ [ImportNext]_importVars
      => (\A j \in Jobs : Driven(j))'
  BY StepDriven
<1>3. (\A j \in Jobs : Driven(j)) => NoImportIsStuck
  BY DEF Driven, NoImportIsStuck
<1>4. QED
  BY ImportInductive, <1>1, <1>2, <1>3, PTL DEF ImportSpec

(* An import goes from one commit to the next and never back, so that it is
   over after as many steps as its document has classes and a handful more: the
   other half of EveryJobSettles, but for the scheduling. *)
THEOREM ImportsNeverTurnBack == ImportSpec => ImportsGoForward
<1> DEFINE Forward == \A j \in Jobs :
       /\ drive'[j] # drive[j] => \/ TaskRank(drive'[j]) > TaskRank(drive[j])
                                  \/ rec[j].state = "none" /\ drive'[j] = "created"
       /\ worker'[j] # worker[j] =>
            \/ WorkerRank(worker'[j].at) > WorkerRank(worker[j].at)
            \/ /\ worker'[j].at = worker[j].at
               /\ \E c \in worker[j].left : worker'[j].left = worker[j].left \ {c}
<1>1. ASSUME ImportInv, ImportNext, NEW j \in Jobs
      PROVE  /\ drive'[j] # drive[j] => \/ TaskRank(drive'[j]) > TaskRank(drive[j])
                                        \/ rec[j].state = "none" /\ drive'[j] = "created"
             /\ worker'[j] # worker[j] =>
                  \/ WorkerRank(worker'[j].at) > WorkerRank(worker[j].at)
                  \/ /\ worker'[j].at = worker[j].at
                     /\ \E c \in worker[j].left : worker'[j].left = worker[j].left \ {c}
  <2>1. /\ drive \in [Jobs -> Drives] /\ worker \in [Jobs -> Worker]
        /\ drive[j] \in Drives /\ worker[j] \in Worker
        /\ JobInv(j)
    BY <1>1 DEF ImportInv, ImportTypeOK
  <2>2. ASSUME NEW i \in Jobs, NEW k \in Kinds, Schedule(i, k)
        PROVE  /\ worker' = worker
               /\ drive'[j] # drive[j] => rec[j].state = "none" /\ drive'[j] = "created"
    BY <2>1, <2>2 DEF Schedule
  <2>3. ASSUME NEW i \in Jobs, Drive(i)
        PROVE  /\ drive'[j] # drive[j] => TaskRank(drive'[j]) > TaskRank(drive[j])
               /\ worker'[j] # worker[j] => WorkerRank(worker'[j].at) > WorkerRank(worker[j].at)
    BY <1>1, <2>3, TaskAdvances
  <2>4. ASSUME NEW i \in Jobs, Cancel(i)
        PROVE  /\ drive' = drive
               /\ worker'[j] # worker[j] => WorkerRank(worker'[j].at) > WorkerRank(worker[j].at)
    <3>1. /\ drive' = drive
          /\ \/ worker' = worker
             \/ worker[i].at \in Alive /\ worker' = [worker EXCEPT ![i].at = "dead"]
      BY <2>4 DEF Cancel
    <3>2. worker'[j] # worker[j] => worker[j].at \in Alive /\ worker'[j].at = "dead"
      BY <2>1, <3>1 DEF Worker
    <3>3. QED
      BY <3>1, <3>2 DEF WorkerRank, Alive, Writing
  <2>5. ASSUME NEW i \in Jobs, Work(i) \/ Die(i)
        PROVE  /\ drive' = drive
               /\ worker'[j] # worker[j] =>
                    \/ WorkerRank(worker'[j].at) > WorkerRank(worker[j].at)
                    \/ /\ worker'[j].at = worker[j].at
                       /\ \E c \in worker[j].left : worker'[j].left = worker[j].left \ {c}
    <3>1. drive' = drive
      BY <2>5 DEF Work, Die, engine, DryRunCompletes, FindProject, InsertProject, CreateVersion,
         DuplicateSkipped, Refused, BuildLibrary, WriteClass, SkipClass, ImportPaths, Complete,
         Fails, Exit
    <3>2. QED
      BY <1>1, <2>5, <3>1, WorkAdvances
  <2>6. CASE Restart
    <3>1. drive'[j] = "none" /\ worker' = worker
      BY <2>6 DEF Restart
    <3>2. QED
      BY <2>1, <3>1 DEF TaskRank, Drives
  <2>7. QED
    BY <1>1, <2>2, <2>3, <2>4, <2>5, <2>6 DEF ImportNext
<1>2. ImportInv /\ [ImportNext]_importVars => [Forward]_importVars
  BY <1>1
<1>3. QED
  BY ImportInductive, <1>2, PTL DEF ImportSpec, ImportsGoForward
=============================================================================
