----------------------------- MODULE SchemaMerge ----------------------------
(***************************************************************************)
(* A merge of one branch into another: the three-way merge of the classes  *)
(* of both tips and of their merge base (schema_merge.py) and the rows of  *)
(* odb.classes the merge writes for the new revision                       *)
(* (version_merge_routes.py), while the Studio edits the classes of the    *)
(* two tips.  VersionBranches models what a merge does to the branches.    *)
(*                                                                         *)
(* A class is a JSON object: a function from Keys to atoms, or Missing.    *)
(***************************************************************************)
EXTENDS FiniteSets

CONSTANTS Names,   \* class names
          Keys,    \* keys of a class
          Atoms,   \* values of a key
          Missing, \* _MISSING
          Conflict \* what a merge of overlapping changes gives

Objects == [Keys -> Atoms \cup {Missing}]
MaybeObjects == Objects \cup {Missing}

ASSUME MarkersAssumption ==
  /\ Missing \notin Atoms /\ Missing \notin Objects
  /\ Conflict \notin Atoms /\ Conflict \notin MaybeObjects

VARIABLES
  base, ours, theirs, \* classes of the merge base, the target tip, the source tip
  read,     \* the three as the merge read them
  phase,    \* where the merge is
  rows,     \* rows of the new revision: NoRow, or a class and deleted_at IS NULL
  todo,     \* classes still to be settled
  edited,   \* history: classes edited since the preview or the merge read them
  promised  \* history: the preview answered canAutoMerge

vars == <<base, ours, theirs, read, phase, rows, todo, edited, promised>>

Specs  == [Names -> MaybeObjects]
NoRow  == [class |-> Missing, live |-> FALSE]
Row    == [class : Objects, live : BOOLEAN] \cup {NoRow}
Phases == {"start", "merging", "copied", "done", "refused", "failed"}

TypeOK ==
  /\ base \in Specs /\ ours \in Specs /\ theirs \in Specs
  /\ read \in [base : Specs, ours : Specs, theirs : Specs]
  /\ phase \in Phases
  /\ rows \in [Names -> Row]
  /\ todo \in SUBSET Names
  /\ edited \in SUBSET Names
  /\ promised \in BOOLEAN

-----------------------------------------------------------------------------
(* merge_json_three_way: the side that differs from the base, if only one
   does; deeper where both do.  Mutant: the base wins over our change. *)
BaseWins(b, o, t, deeper) == IF o = t THEN o ELSE IF t = b THEN t ELSE IF o = b THEN t ELSE deeper
ThreeWay(b, o, t, deeper) ==
  IF o = t THEN o ELSE IF o = b THEN t ELSE IF t = b THEN o ELSE deeper

MergeKeys(b, o, t) == [k \in Keys |-> ThreeWay(b[k], o[k], t[k], Conflict)]

MergeObjects(b, o, t) ==
  IF {b, o, t} \subseteq Objects /\ \A k \in Keys : MergeKeys(b, o, t)[k] # Conflict
  THEN MergeKeys(b, o, t) ELSE Conflict

MergeClass(b, o, t) == ThreeWay(b, o, t, MergeObjects(b, o, t))

\* merge_components_schemas_three_way, of what was read.
Merged == [n \in Names |-> MergeClass(read.base[n], read.ours[n], read.theirs[n])]
Conflicts == {n \in Names : Merged[n] = Conflict}

(* schema_merge_materializable_paths: a class is copied from one of the tips,
   so a blend of both cannot be written. *)
Blended(n) == Merged[n] \notin {read.ours[n], read.theirs[n]}

Blends == {n \in Names : Merged[n] # Conflict /\ Blended(n)}

-----------------------------------------------------------------------------
NothingRead == [n \in Names |-> Missing]

Init ==
  /\ base \in Specs /\ ours \in Specs /\ theirs \in Specs
  /\ read = [base |-> NothingRead, ours |-> NothingRead, theirs |-> NothingRead]
  /\ phase = "start"
  /\ rows = [n \in Names |-> NoRow]
  /\ todo = {} /\ edited = {} /\ promised = FALSE

(* The Studio creates, updates or deletes a class of a tip that is neither
   published nor frozen.  Each class is edited at most once. *)
Edit(n) ==
  /\ phase \in {"start", "merging", "copied"} /\ n \notin edited
  /\ edited' = edited \cup {n}
  /\ \/ \E c \in MaybeObjects : c # ours[n] /\ ours' = [ours EXCEPT ![n] = c] /\ UNCHANGED theirs
     \/ \E c \in MaybeObjects : c # theirs[n] /\ theirs' = [theirs EXCEPT ![n] = c] /\ UNCHANGED ours
  /\ UNCHANGED <<base, read, phase, rows, todo, promised>>

Read == read' = [base |-> base, ours |-> ours, theirs |-> theirs]

\* version_branch_merge_preview; an empty merge counts as no merge.
Preview ==
  /\ phase = "start"
  /\ Read
  /\ promised' = (Conflicts' = {} /\ Blends' = {} /\ \E n \in Names : Merged'[n] # Missing)
  /\ edited' = {}
  /\ UNCHANGED <<base, ours, theirs, phase, rows, todo>>

\* version_branch_merge reads the specs of the base and of both tips.
MergeRead ==
  /\ phase = "start"
  /\ Read
  /\ edited' = IF promised THEN edited ELSE {}
  /\ phase' = "merging"
  /\ UNCHANGED <<base, ours, theirs, rows, todo, promised>>

\* 409: MERGE_CONFLICT or MERGE_BLEND.
MergeRefused ==
  /\ phase = "merging"
  /\ Conflicts # {} \/ Blends # {}
  /\ phase' = "refused"
  /\ UNCHANGED <<base, ours, theirs, read, rows, todo, edited, promised>>

(* The classes to delete or to take from the source.  Mutant: deletions on
   the source side are forgotten. *)
ToTake == {n \in Names : Merged[n] \notin {read.ours[n], Missing}}
ToSettle == {n \in Names : Merged[n] # read.ours[n]}

\* copy_classes_from_version_for_merge: the target tip, as it is now.
CopyTarget ==
  /\ phase = "merging"
  /\ Conflicts = {} /\ Blends = {}
  /\ rows' = [n \in Names |-> IF ours[n] = Missing THEN NoRow ELSE [class |-> ours[n], live |-> TRUE]]
  /\ todo' = ToSettle
  /\ phase' = "copied"
  /\ UNCHANGED <<base, ours, theirs, read, edited, promised>>

(* delete_class_by_name_for_version: a soft delete, if there is a live row.
   Mutant: the class is emptied instead. *)
Emptied(n) == [class |-> Missing, live |-> rows[n].live]
Deleted(n) == [class |-> rows[n].class, live |-> FALSE]

\* A class the merge does not keep.
Remove(n) ==
  /\ phase = "copied" /\ n \in todo /\ Merged[n] = Missing
  /\ rows' = [rows EXCEPT ![n] = Deleted(n)]
  /\ todo' = todo \ {n}
  /\ UNCHANGED <<base, ours, theirs, read, phase, edited, promised>>

\* UNIQUE (version_id, name) of odb.classes counts deleted rows.
Taken(n) == rows[n] # NoRow

\* copy_single_class_between_versions_for_merge, of the source tip as it is now.
Take(n) ==
  /\ phase = "copied" /\ n \in todo /\ Merged[n] # Missing
  /\ theirs[n] # Missing /\ ~Taken(n)
  /\ rows' = [rows EXCEPT ![n] = [class |-> theirs[n], live |-> TRUE]]
  /\ todo' = todo \ {n}
  /\ UNCHANGED <<base, ours, theirs, read, phase, edited, promised>>

\* 500 and a rollback: the class is gone from the source, or its row is in the way.
TakeFails(n) ==
  /\ phase = "copied" /\ n \in todo /\ Merged[n] # Missing
  /\ theirs[n] = Missing \/ Taken(n)
  /\ phase' = "failed"
  /\ rows' = [m \in Names |-> NoRow]
  /\ UNCHANGED <<base, ours, theirs, read, todo, edited, promised>>

Commit ==
  /\ phase = "copied" /\ todo = {}
  /\ phase' = "done"
  /\ UNCHANGED <<base, ours, theirs, read, rows, todo, edited, promised>>

Next ==
  \/ Preview \/ MergeRead \/ MergeRefused \/ CopyTarget \/ Commit
  \/ \E n \in Names : Edit(n) \/ Remove(n) \/ Take(n) \/ TakeFails(n)

Spec == Init /\ [][Next]_vars

-----------------------------------------------------------------------------
\* What one side did to a class, or to a key of it, since the merge base.
OursChanged(n) == read.ours[n] # read.base[n]
TheirsChanged(n) == read.theirs[n] # read.base[n]
Live(n) == IF rows[n].live THEN rows[n].class ELSE Missing

Key(class, k) == IF class = Missing THEN Missing ELSE class[k]
HasChangesOf(class, n) ==
  \A k \in Keys : Key(class, k) # Key(read.base[n], k) => Key(Live(n), k) = Key(class, k)

(* The revision a merge commits holds every class nobody edited during the
   merge as the side that changed it has it, and key by key what either side
   changed: no change and no deletion of one side is lost or undone. *)
CommittedTakesChanges ==
  phase = "done" => \A n \in Names \ edited :
    /\ ~OursChanged(n) => Live(n) = read.theirs[n]
    /\ ~TheirsChanged(n) => Live(n) = read.ours[n]
    /\ HasChangesOf(read.ours[n], n) /\ HasChangesOf(read.theirs[n], n)

\* Merging ours into theirs computes what merging theirs into ours does.
MergeIsSymmetric ==
  \A n \in Names : Merged[n] = MergeClass(read.base[n], read.theirs[n], read.ours[n])

(* Key by key the merge of a class has every change of either side, also when
   the whole differs from both sides (the merged OpenAPI of a preview). *)
MergeKeepsKeys ==
  \A n \in Names : LET b == read.base[n]  o == read.ours[n]  t == read.theirs[n] IN
    {b, o, t} \subseteq Objects /\ Merged[n] # Conflict =>
      \A k \in Keys : /\ o[k] # b[k] => Merged[n][k] = o[k]
                      /\ t[k] # b[k] => Merged[n][k] = t[k]
                      /\ o[k] = b[k] /\ t[k] = b[k] => Merged[n][k] = b[k]

(* MergeBranchesDialog.tsx, of a preview that can merge automatically: "apply
   is allowed if the target tip has not moved".  False, see the README. *)
PromisedIsMerged == promised /\ edited = {} => phase \notin {"refused", "failed"}
=============================================================================
