-------------------------- MODULE VersionBranches ---------------------------
(***************************************************************************)
(* The revisions of one project and its named branches: push, merge,       *)
(* rollback, branch creation, deletion and policy (versions_routes.py,     *)
(* version_merge_routes.py, database.py, and the Studio's own server,      *)
(* objectified-ui/lib/db/helper.ts, which writes the same tables).         *)
(*                                                                         *)
(* A request is two steps.  The first reads tips, policies and flags, each *)
(* read a transaction of its own, and takes every decision of the route;   *)
(* the second is the write transaction.  Between the two other processes   *)
(* write.  Revisions are numbered in the order of created_at.              *)
(***************************************************************************)
EXTENDS Integers, Sequences, FiniteSets

CONSTANTS Clients,    \* requests that can be in flight at once
          Admins,     \* those made by tenant administrators
          Branches,   \* branch rows; a deleted row's id is not used again
          Main,       \* the branch row named main
          None,
          Chosen,     \* version numbers clients type in themselves
          Patches,    \* bodies of the policy requests administrators send
          MaxRev,     \* bound: revisions
          MaxNumber,  \* bound: version numbers
          MaxRoots,   \* bound: revisions created outside the push protocol
          MaxMarked   \* bound: revisions that are deleted or immutable

(* What a branch may be set to, and what a PATCH body may hold. *)
Policies == {"requireMergePath", "protected"}
Fields   == Policies \cup {"isDefault", "noMergePath", "unprotected"}

ASSUME ClientsAssumption == Admins \subseteq Clients /\ Main \in Branches
ASSUME PatchAssumption == Patches \subseteq SUBSET Fields
ASSUME BoundsAssumption == MaxRev \in Nat /\ MaxNumber \in Nat /\ Chosen \subseteq 1..MaxNumber

VARIABLES
  rev,      \* odb.versions: a sequence of revisions, in creation order
  branch,   \* odb.version_branches: row or None
  spent,    \* ids of deleted branch rows
  req       \* per client: what a request carries from its reads to its write

vars == <<rev, branch, spent, req>>

Number == 1..MaxNumber

(* parents: {parent_version_id, merge_parent_version_id} without NULL *)
Revision == [parents : SUBSET (1..MaxRev), number : Number,
             live : BOOLEAN, immutable : BOOLEAN]

BranchRow == [tip : 1..MaxRev, default : BOOLEAN, policy : SUBSET Policies]

ASSUME NoneAssumption == None \notin BranchRow /\ None \notin Branches

Kinds == {"push", "merge", "rollback", "delete"}

(* tip: the branch tip the request read; other: merge source tip or rollback
   target; number: the version number it will insert. *)
Request == [kind : Kinds, branch : Branches \cup {None}, tip : 0..MaxRev,
            other : 0..MaxRev, number : 0..MaxNumber]

Idle == [kind |-> "idle", branch |-> None, tip |-> 0, other |-> 0, number |-> 0]

TypeOK ==
  /\ rev \in Seq(Revision)
  /\ Len(rev) <= MaxRev
  /\ branch \in [Branches -> BranchRow \cup {None}]
  /\ spent \in SUBSET Branches
  /\ req \in [Clients -> Request \cup {Idle}]

Init ==
  /\ rev = <<>>
  /\ branch = [b \in Branches |-> None]
  /\ spent = {}
  /\ req = [c \in Clients |-> Idle]

-----------------------------------------------------------------------------
(* Reads *)

Revs == DOMAIN rev
Live == {r \in Revs : rev[r].live}
Rows == {b \in Branches : branch[b] # None}

\* get_latest_revision_id_for_project: 0 when there is none.
Latest == IF Live = {} THEN 0 ELSE CHOOSE r \in Live : \A q \in Live : q <= r

\* get_latest_version_for_project and bump_patch_version.
NextNumber == IF Latest = 0 THEN 1 ELSE rev[Latest].number + 1

\* UNIQUE (project_id, version_id) counts soft-deleted rows too.
Taken(n) == \E r \in Revs : rev[r].number = n

(* collect_revision_ancestors: a soft-deleted revision is not readable, so the
   walk reports it and does not go on to its parents. *)
Walk ==
  LET walk[r \in Revs] ==
        {r} \cup (IF rev[r].live THEN UNION {walk[p] : p \in rev[r].parents} ELSE {})
  IN  walk

(* compute_merge_base_revision_id: the newest of the common ancestors that are
   no strict ancestor of another one; 0 for unrelated histories. *)
MergeBase(a, b) ==
  LET common == Walk[a] \cap Walk[b]
      best   == {x \in common : ~\E y \in common : x # y /\ x \in Walk[y]}
  IN  IF best = {} THEN 0 ELSE CHOOSE x \in best : \A y \in best : y <= x

\* A write on a published, immutable tip needs an administrator's override.
MayOverride(c, tips) ==
  c \in Admins \/ ~\E r \in tips : rev[r].live /\ rev[r].immutable

Carry(c, kind, b, tip, other, number) ==
  req' = [req EXCEPT ![c] = [kind |-> kind, branch |-> b, tip |-> tip,
                             other |-> other, number |-> number]]

Answer(c) == req' = [req EXCEPT ![c] = Idle]

NewId == Len(rev) + 1

Insert(parents, number) ==
  /\ Len(rev) < MaxRev
  /\ rev' = Append(rev, [parents |-> parents, number |-> number,
                         live |-> TRUE, immutable |-> FALSE])

\* The bumped number, and the numbers a push may carry.
AutoNumbers == {NextNumber} \cap Number
PushNumbers == AutoNumbers \cup Chosen

(* The checks made again under a lock, or in the WHERE of the UPDATE.  Mutants:
   the branch still exists; the newest revision is not looked at. *)
BranchExists(r) == r.branch \in Rows
TipUnmoved(r) == r.branch \in Rows /\ branch[r.branch].tip = r.tip

HeadIgnored(r) == TRUE
HeadUnmoved(r) == Latest = r.tip

\* The parent of a push without a branch.  Mutant: NULL is kept as a parent.
ParentOrNull(r) == {r.tip}
Parent(r) == {r.tip} \ {0}

-----------------------------------------------------------------------------
(* create_version: the push *)

\* baseRevisionId equals the tip just read, or the route answers 409.
PushRead(c) ==
  /\ req[c] = Idle
  /\ \E n \in PushNumbers :
       \/ \E b \in Rows :
            /\ "requireMergePath" \in branch[b].policy => c \in Admins
            /\ MayOverride(c, {branch[b].tip})
            /\ Carry(c, "push", b, branch[b].tip, 0, n)
       \/ /\ Rows = {}
          /\ MayOverride(c, {Latest} \ {0})
          /\ Carry(c, "push", None, Latest, 0, n)
  /\ UNCHANGED <<rev, branch, spent>>

\* The branch row is locked and its tip compared once more.
PushCommit(c) ==
  LET r == req[c] IN
  /\ r.kind = "push" /\ r.branch # None
  /\ TipUnmoved(r) /\ ~Taken(r.number)
  /\ Insert({r.tip}, r.number)
  /\ branch' = [branch EXCEPT ![r.branch].tip = NewId]
  /\ Answer(c)
  /\ UNCHANGED spent

(* No branches when the request read them: the project row is locked and the
   newest revision compared; the first revision brings the branch main.
   UNIQUE (project_id) WHERE is_default refuses a second default branch. *)
BootstrapRefused(r) == r.tip = 0 /\ \E b \in Rows \ {Main} : branch[b].default

PushCommitNoBranch(c) ==
  LET r == req[c] IN
  /\ r.kind = "push" /\ r.branch = None
  /\ HeadUnmoved(r) /\ ~Taken(r.number) /\ ~BootstrapRefused(r)
  /\ Insert(Parent(r), r.number)
  /\ branch' = IF r.tip # 0 THEN branch
               ELSE [branch EXCEPT ![Main] =
                 [tip |-> NewId, default |-> TRUE,
                  policy |-> {"requireMergePath"} \cup (IF Main \in Rows THEN @.policy ELSE {})]]
  /\ Answer(c)
  /\ UNCHANGED spent

\* STALE_HEAD, branch gone, or a UNIQUE constraint: rolled back.
PushRefused(c) ==
  LET r == req[c] IN
  /\ r.kind = "push"
  /\ \/ Taken(r.number)
     \/ r.branch = None /\ (~HeadUnmoved(r) \/ BootstrapRefused(r))
     \/ r.branch # None /\ ~TipUnmoved(r)
  /\ Answer(c)
  /\ UNCHANGED <<rev, branch, spent>>

-----------------------------------------------------------------------------
(* version_branch_merge *)

(* Both tips readable, the override guard, a readable merge base, a three-way
   merge without conflicts (its outcome is a free choice: refusing changes
   nothing), and the bumped number. *)
MergeRead(c) ==
  /\ req[c] = Idle
  /\ \E s, t \in Rows :
       LET st == branch[s].tip
           tt == branch[t].tip
       IN  /\ {st, tt} \subseteq Live
           /\ MayOverride(c, {st, tt})
           /\ MergeBase(st, tt) \in Live
           /\ \E n \in AutoNumbers : Carry(c, "merge", t, tt, st, n)
  /\ UNCHANGED <<rev, branch, spent>>

\* INSERT, then UPDATE ... WHERE id: the tip read before is not compared again.
MergeCommit(c) ==
  LET r == req[c] IN
  /\ r.kind = "merge"
  /\ ~Taken(r.number)
  /\ Insert({r.tip, r.other}, r.number)
  /\ branch' = [b \in Branches |->
                  IF b = r.branch /\ b \in Rows
                  THEN [branch[b] EXCEPT !.tip = NewId] ELSE branch[b]]
  /\ Answer(c)
  /\ UNCHANGED spent

MergeRefused(c) ==
  /\ req[c].kind = "merge" /\ Taken(req[c].number)
  /\ Answer(c)
  /\ UNCHANGED <<rev, branch, spent>>

-----------------------------------------------------------------------------
(* version_branch_rollback: a new revision with an ancestor's content *)

RollbackRead(c) ==
  /\ req[c] = Idle
  /\ \E b \in Rows :
       LET tip == branch[b].tip
       IN  /\ tip \in Live
           /\ MayOverride(c, {tip})
           /\ "protected" \in branch[b].policy => c \in Admins
           /\ \E target \in (Walk[tip] \ {tip}) \cap Live, n \in AutoNumbers :
                Carry(c, "rollback", b, tip, target, n)
  /\ UNCHANGED <<rev, branch, spent>>

\* UPDATE ... WHERE id AND tip_version_id: no row means 409 and no revision.
RollbackCommit(c) ==
  LET r == req[c] IN
  /\ r.kind = "rollback"
  /\ TipUnmoved(r) /\ ~Taken(r.number)
  /\ Insert({r.tip}, r.number)
  /\ branch' = [branch EXCEPT ![r.branch].tip = NewId]
  /\ Answer(c)
  /\ UNCHANGED spent

RollbackRefused(c) ==
  /\ req[c].kind = "rollback"
  /\ Taken(req[c].number) \/ ~TipUnmoved(req[c])
  /\ Answer(c)
  /\ UNCHANGED <<rev, branch, spent>>

-----------------------------------------------------------------------------
(* Branch rows *)

\* create_version_branch_from_revision, and createVersionBranch in the Studio.
CreateBranch(b, r) ==
  /\ b \notin Rows \cup spent /\ r \in Live
  /\ branch' = [branch EXCEPT ![b] = [tip |-> r, default |-> FALSE, policy |-> {}]]
  /\ UNCHANGED <<rev, spent, req>>

\* deleteVersionBranch (Studio): the checks, and then DELETE ... WHERE id.
DeleteBranchRead(c, b) ==
  /\ req[c] = Idle /\ b \in Rows \ {Main}
  /\ ~branch[b].default
  /\ "protected" \in branch[b].policy => c \in Admins
  /\ Carry(c, "delete", b, 0, 0, 0)
  /\ UNCHANGED <<rev, branch, spent>>

DeleteBranchCommit(c) ==
  /\ req[c].kind = "delete"
  /\ branch' = [branch EXCEPT ![req[c].branch] = None]
  /\ spent' = spent \cup {req[c].branch}
  /\ Answer(c)
  /\ UNCHANGED rev

\* The branches a promotion demotes.  Mutant: those that are not protected.
DemotedUnprotected(b, body) ==
  IF "isDefault" \in body
  THEN {x \in Rows \ {b} : "protected" \notin branch[x].policy} ELSE {}
Demoted(b, body) == IF "isDefault" \in body THEN Rows \ {b} ELSE {}

(* update_version_branch_protection_policy: a promotion demotes the others and
   requires the merge path unless the body says otherwise. *)
PatchBranch(b, body) ==
  LET promoted == "isDefault" \in body /\ ~branch[b].default
      add  == (body \cap Policies)
                \cup (IF promoted THEN {"requireMergePath"} ELSE {})
      drop == (IF "noMergePath" \in body THEN {"requireMergePath"} ELSE {})
                \cup (IF "unprotected" \in body THEN {"protected"} ELSE {})
  IN  /\ b \in Rows
      /\ branch' = [x \in Branches |->
           IF x = b
           THEN [branch[b] EXCEPT !.default = @ \/ "isDefault" \in body,
                                  !.policy = (@ \cup add) \ drop]
           ELSE IF x \in Demoted(b, body)
           THEN [branch[x] EXCEPT !.default = FALSE]
           ELSE branch[x]]
      /\ UNCHANGED <<rev, spent, req>>

-----------------------------------------------------------------------------
(* Revisions outside the branch protocol *)

\* createVersion (Studio) and create_version (imports): no parent, no branch.
CreateLoose(n) ==
  /\ Cardinality({r \in Revs : rev[r].parents = {}}) < MaxRoots
  /\ ~Taken(n)
  /\ Insert({}, n)
  /\ UNCHANGED <<branch, spent, req>>

\* The bound on deletions and publications, with r among them.
WithinMarked(r) == Cardinality({q \in Revs : ~rev[q].live \/ rev[q].immutable} \cup {r}) <= MaxMarked

\* delete_version: a soft delete, whatever points at the revision.
DeleteRevision(r) ==
  /\ r \in Live /\ WithinMarked(r)
  /\ rev' = [rev EXCEPT ![r].live = FALSE]
  /\ UNCHANGED <<branch, spent, req>>

\* publish_version sets the flag, unpublish_version clears it.
SetPublished(r, p) ==
  /\ r \in Live /\ rev[r].immutable # p
  /\ p => WithinMarked(r)
  /\ rev' = [rev EXCEPT ![r].immutable = p]
  /\ UNCHANGED <<branch, spent, req>>

-----------------------------------------------------------------------------
Client(c) ==
  \/ PushRead(c) \/ PushCommit(c) \/ PushCommitNoBranch(c) \/ PushRefused(c)
  \/ MergeRead(c) \/ MergeCommit(c) \/ MergeRefused(c)
  \/ RollbackRead(c) \/ RollbackCommit(c) \/ RollbackRefused(c)
  \/ \E b \in Branches : DeleteBranchRead(c, b)
  \/ DeleteBranchCommit(c)

Next ==
  \/ \E c \in Clients : Client(c)
  \/ \E b \in Branches :
       \/ \E r \in Revs : CreateBranch(b, r)
       \/ \E body \in Patches : PatchBranch(b, body)
  \/ \E n \in PushNumbers : CreateLoose(n)
  \/ \E r \in Revs : DeleteRevision(r) \/ \E p \in BOOLEAN : SetPublished(r, p)

Spec == Init /\ [][Next]_vars

-----------------------------------------------------------------------------
(* Properties *)

(* Two branches of a project are never its default at the same time, whatever
   promotions, first pushes and deletions come together. *)
AtMostOneDefault ==
  \A b, d \in Rows : branch[b].default /\ branch[d].default => b = d

\* Branch b moves from a revision that can still be read to another one.
Moves(b) == b \in Rows /\ b \in Rows' /\ branch'[b].tip # branch[b].tip
            /\ branch[b].tip \in Live

\* A merge in flight whose target branch has moved since it was read.
Overtaken(c, b) == req[c].kind = "merge" /\ req[c].branch = b
                   /\ req[c].tip # branch[b].tip

Continues(b) == branch[b].tip \in rev'[branch'[b].tip].parents

(* A branch moves to a revision whose parent is the tip it had, so that no
   push or rollback takes another client's revision out of the branch; the
   only exception is the write of a merge that was overtaken. *)
PushAndRollbackKeepHistory ==
  [][\A b \in Branches : Moves(b) =>
        \/ Continues(b)
        \/ \E c \in Clients : Overtaken(c, b) /\ req'[c] = Idle]_vars

(* The same without the exception: baseRevisionId is an optimistic lock on the
   target branch (version_merge_routes.py, STALE_HEAD). *)
HistoryKept == [][\A b \in Branches : Moves(b) => Continues(b)]_vars

(* While a project has never had a branch its readable revisions do not fork:
   two of them never build on the same parent. *)
NoBranchHistoryIsLinear ==
  Rows = {} /\ spent = {} =>
    \A p, q \in Live : p # q => rev[p].parents \cap rev[q].parents = {}
=============================================================================
