----------------------------- MODULE StudioGroups -----------------------------
(***************************************************************************)
(* The group frames of the studio's canvas: pages that show one version    *)
(* and edit its groups in a React context (page.tsx), and the server       *)
(* actions that store them (helper.ts).  Every edit is followed by a save  *)
(* of the whole canvas, in which syncGroupsForVersion deletes the groups   *)
(* of the version and inserts the ones the page sent, under new ids that   *)
(* the page never learns.                                                  *)
(*                                                                         *)
(* A page's server actions run one at a time, in order.  The queries of    *)
(* one action go through the pool and not through a client of their own;   *)
(* they get the same connection as long as nobody waits for one, which is  *)
(* assumed here.  A group is its name, its parent and its classes; its     *)
(* frame and style, and the layouts saved along with it, are left out.     *)
(***************************************************************************)
EXTENDS Naturals, Sequences, FiniteSets

CONSTANTS Pages,      \* open pages of the studio, all on one version
          Classes,
          Names,      \* what a user calls a group; the program's n is "Group n"
          Stored,     \* what may have been stored before
          MaxEdits    \* bound: what the users do

ASSUME BoundsAssumption == MaxEdits \in Nat

VARIABLES
  groups,   \* per page: the groups of its context
  copying,  \* per page: a duplication under way and the groups it started from
  actions,  \* per page: its server actions, the first one is in flight
  tx,       \* per page: how far that one is, and its transaction
  db,       \* the committed groups of the version
  lastId,   \* ids are uuids: here the next number
  edits

vars == <<groups, copying, actions, tx, db, lastId, edits>>

Group(id, name, parent, classes) ==
  [id |-> id, name |-> name, parent |-> parent, classes |-> classes]
NoParent == 0

GroupsOf == [id : Nat, name : Nat, parent : Nat, classes : SUBSET Classes]

Ids(G)      == {g.id : g \in G}
NamesOf(G)  == {g.name : g \in G}
At(G, id)   == CHOOSE g \in G : g.id = id
Without(G, ids) == {g \in G : g.id \notin ids}

NotCopying == [at |-> "none", from |-> {}, group |-> Group(0, 0, NoParent, {})]
NoTx == [at |-> "idle", seen |-> {}, gone |-> {}, ids |-> {}, rows |-> {}, alone |-> TRUE]

Save(G)   == [kind |-> "save", groups |-> G, id |-> 0, classes |-> {}]
Load      == [kind |-> "load", groups |-> {}, id |-> 0, classes |-> {}]
Copy      == [kind |-> "copy", groups |-> {}, id |-> 0, classes |-> {}]
Add(id, c) == [kind |-> "add", groups |-> {}, id |-> id, classes |-> {c}]

TypeOK ==
  /\ groups \in [Pages -> SUBSET GroupsOf]
  /\ copying \in [Pages -> [at : {"none", "asked", "added"}, from : SUBSET GroupsOf,
                            group : GroupsOf]]
  /\ actions \in [Pages -> Seq([kind : {"save", "load", "copy", "add"},
                                groups : SUBSET GroupsOf, id : Nat,
                                classes : SUBSET Classes])]
  /\ tx \in [Pages -> [at : {"idle", "delete", "insert", "classes"}, seen : SUBSET Nat,
                       gone : SUBSET Nat, ids : SUBSET (Nat \X Nat),
                       rows : SUBSET GroupsOf, alone : BOOLEAN]]
  /\ db \in SUBSET GroupsOf
  /\ lastId \in Nat
  /\ edits \in 0..MaxEdits

\* The pages have loaded the groups, which another one may have deleted since.
Init ==
  /\ \E loaded \in Stored : groups = [p \in Pages |-> loaded] /\ db \in {loaded, {}}
  /\ copying = [p \in Pages |-> NotCopying]
  /\ actions = [p \in Pages |-> <<>>]
  /\ tx = [p \in Pages |-> NoTx]
  /\ lastId = Cardinality(UNION Stored)
  /\ edits = 0

----------------------------------------------------------------------------
(* The hierarchy (canvas-nested-groups.ts).                                *)

MAX_CANVAS_GROUP_DEPTH == 3

Children(G, ids)   == {g.id : g \in {h \in G : h.parent \in ids}}
\* All groups below, by as many levels as there may be.
Descendants(G, id) ==
  LET first == Children(G, {id})
      second == Children(G, first)
  IN first \cup second \cup Children(G, second)
Subtree(G, id) == {id} \cup Descendants(G, id)

Parents(G, ids) == {g.parent : g \in {h \in G : h.id \in ids}} \ {NoParent}

UniqueIds(G) == \A g, h \in G : g.id = h.id => g = h

\* The groups are trees of at most three levels.
Nested(G) ==
  /\ UniqueIds(G)
  /\ \A g \in G : g.parent \in Ids(G) \cup {NoParent}
  /\ \A g \in G : Parents(G, Parents(G, Parents(G, {g.id}))) = {}

\* The groups stored before were numbered from 1 on, and their ids are used.
ASSUME StoredAssumption ==
  /\ Names \subseteq Nat
  /\ Stored \subseteq SUBSET GroupsOf /\ IsFiniteSet(UNION Stored)
  /\ \A G \in Stored : Nested(G) /\ Ids(G) \subseteq 1..Cardinality(UNION Stored)

\* The levels of a group and above it, and those below it.
GroupDepth(G, id) ==
  LET above == Parents(G, {id})
  IN IF above = {} THEN 1 ELSE IF Parents(G, above) = {} THEN 2 ELSE 3
ChildChain(G, id) ==
  LET first == Children(G, {id})
  IN IF first = {} THEN 0 ELSE IF Children(G, first) = {} THEN 1 ELSE 2

(* Mutant: what hangs below the group that moves is not counted. *)
NestExceedsOwn(G, id, parent) == GroupDepth(G, parent) + 1 > MAX_CANVAS_GROUP_DEPTH
WouldNestExceedMaxDepth(G, id, parent) ==
  GroupDepth(G, parent) + 1 + ChildChain(G, id) > MAX_CANVAS_GROUP_DEPTH

----------------------------------------------------------------------------
(* The handlers of a page.                                                 *)

Edit == edits < MaxEdits /\ edits' = edits + 1
Send(p, a) == actions' = [actions EXCEPT ![p] = Append(@, a)]

\* updateGroup and save: the groups the handler closed over, with the change.
Change(p, G) == groups' = [groups EXCEPT ![p] = G] /\ Send(p, Save(G))

(* Mutant: the new group has no list of classes. *)
NewGroupBare(p) == [id |-> lastId + 1, name |-> Cardinality(groups[p]) + 1, parent |-> NoParent]
NewGroup(p) == Group(lastId + 1, Cardinality(groups[p]) + 1, NoParent, {})

\* The toolbar's button: what is saved are the groups without the new one.
CreateGroup(p) ==
  /\ Edit
  /\ groups' = [groups EXCEPT ![p] = @ \cup {NewGroup(p)}]
  /\ lastId' = lastId + 1
  /\ Send(p, Save(groups[p]))
  /\ UNCHANGED <<copying, tx, db>>

CreateGroupAtPosition(p) ==
  /\ Edit
  /\ Change(p, groups[p] \cup {NewGroup(p)})
  /\ lastId' = lastId + 1
  /\ UNCHANGED <<copying, tx, db>>

RenameGroup(p, g, name) ==
  /\ Edit
  /\ Change(p, (groups[p] \ {g}) \cup {[g EXCEPT !.name = name]})
  /\ UNCHANGED <<copying, tx, db, lastId>>

\* A frame dropped in another one, or on the empty canvas.
DragGroup(p, g, parent) ==
  /\ Edit
  /\ parent # g.parent
  /\ parent \notin Subtree(groups[p], g.id)
  /\ parent = NoParent \/ ~WouldNestExceedMaxDepth(groups[p], g.id, parent)
  /\ Change(p, (groups[p] \ {g}) \cup {[g EXCEPT !.parent = parent]})
  /\ UNCHANGED <<copying, tx, db, lastId>>

DeleteGroup(p, g) ==
  /\ Edit
  /\ Change(p, Without(groups[p], Subtree(groups[p], g.id)))
  /\ UNCHANGED <<copying, tx, db, lastId>>

\* Bound: one duplication at a time.
\* The classes of the group are duplicated first; the groups the handler
\* closed over stay what they were when it began.
DuplicateGroup(p, g) ==
  /\ Edit
  /\ copying[p].at = "none" /\ g.classes # {}
  /\ copying' = [copying EXCEPT ![p].at = "asked", ![p].from = groups[p]]
  /\ Send(p, Copy)
  /\ UNCHANGED <<groups, tx, db, lastId>>

\* The classes have been loaded anew: the old groups and the copy are saved.
SaveDuplicate(p) ==
  /\ copying[p].at = "added"
  /\ Send(p, Save(copying[p].from \cup {copying[p].group}))
  /\ copying' = [copying EXCEPT ![p] = NotCopying]
  /\ UNCHANGED <<groups, tx, db, lastId, edits>>

\* A class dropped in a frame leaves the first frame that has it, in the page,
\* and is added to the new one by a statement of its own.
DropClass(p, g, c) ==
  LET had == {h \in groups[p] : c \in h.classes}
  IN /\ Edit
     /\ \E from \in IF had = {} THEN {{}} ELSE {{h} : h \in had \ {g}} :
          groups' = [groups EXCEPT ![p] =
            (@ \ (from \cup {g})) \cup {[h EXCEPT !.classes = @ \ {c}] : h \in from}
                                  \cup {[g EXCEPT !.classes = @ \cup {c}]}]
     /\ IF g \in had THEN UNCHANGED actions ELSE Send(p, Add(g.id, c))
     /\ UNCHANGED <<copying, tx, db, lastId>>

\* A class dragged out of its frame: nothing is sent.
RemoveNodeFromGroup(p, g, c) ==
  /\ Edit
  /\ c \in g.classes
  /\ groups' = [groups EXCEPT ![p] = (@ \ {g}) \cup {[g EXCEPT !.classes = @ \ {c}]}]
  /\ UNCHANGED <<copying, actions, tx, db, lastId>>

\* A frame's colour, style or tags change.
RestyleGroup(p, g) ==
  /\ Edit
  /\ Change(p, groups[p])
  /\ UNCHANGED <<copying, tx, db, lastId>>

AutoSave(p) ==
  /\ Edit
  /\ Send(p, Save(groups[p]))
  /\ UNCHANGED <<groups, copying, tx, db, lastId>>

LoadClasses(p) ==
  /\ Edit
  /\ Send(p, Load)
  /\ UNCHANGED <<groups, copying, tx, db, lastId>>

----------------------------------------------------------------------------
(* The server actions.                                                     *)

InFlight(p, kind, at) ==
  actions[p] # <<>> /\ Head(actions[p]).kind = kind /\ tx[p].at = at

Answer(p) == /\ actions' = [actions EXCEPT ![p] = Tail(@)]
             /\ tx' = [tx EXCEPT ![p] = NoTx]

Open(p)  == tx[p].at \in {"delete", "insert"}
Sent(p)  == Head(actions[p]).groups
Todo(p)  == {g \in Sent(p) : \A m \in tx[p].ids : m[1] # g.id}

(* BEGIN, and the DELETE takes its snapshot.  Mutant: only groups with an id
   the page sent are deleted. *)
BeginSyncOfSent(p) ==
  /\ InFlight(p, "save", "idle")
  /\ LET alone == \A q \in Pages : ~Open(q)
     IN tx' = [q \in Pages |->
                 IF q = p THEN [NoTx EXCEPT !.at = "delete", !.alone = alone,
                                            !.seen = Ids(db) \cap Ids(Sent(p))]
                          ELSE [tx[q] EXCEPT !.alone = @ /\ ~Open(q)]]
  /\ UNCHANGED <<groups, copying, actions, db, lastId, edits>>
BeginSync(p) ==
  /\ InFlight(p, "save", "idle")
  /\ LET alone == \A q \in Pages : ~Open(q)
     IN tx' = [q \in Pages |->
                 IF q = p THEN [NoTx EXCEPT !.at = "delete", !.seen = Ids(db), !.alone = alone]
                          ELSE [tx[q] EXCEPT !.alone = @ /\ ~Open(q)]]
  /\ UNCHANGED <<groups, copying, actions, db, lastId, edits>>

\* What a statement waits for: a transaction that has deleted a row it has to
\* delete, or has written or deleted the name it has to write.
Blocks(q, p, name) ==
  /\ Open(q) /\ q # p
  /\ \/ tx[p].at = "delete" /\ tx[q].gone \cap tx[p].seen # {}
     \/ tx[p].at = "insert" /\ \/ name \in NamesOf(tx[q].rows)
                               \/ \E r \in db : r.name = name /\ r.id \in tx[q].gone
Waits(p, name) == \E q \in Pages : Blocks(q, p, name)

(* The DELETE skips what another transaction has deleted meanwhile, and does
   not see what that one has inserted.  Mutant: it is committed at once. *)
DeleteGroupsCommits(p) ==
  /\ InFlight(p, "save", "delete") /\ ~Waits(p, 0)
  /\ db' = Without(db, tx[p].seen)
  /\ tx' = [tx EXCEPT ![p].at = "insert"]
  /\ UNCHANGED <<groups, copying, actions, lastId, edits>>
DeleteGroups(p) ==
  /\ InFlight(p, "save", "delete")
  /\ ~Waits(p, 0)
  /\ tx' = [tx EXCEPT ![p].at = "insert", ![p].gone = tx[p].seen \cap Ids(db)]
  /\ UNCHANGED <<groups, copying, actions, db, lastId, edits>>

\* Parents first: the groups of least depth that are not inserted yet.
NextGroups(p) ==
  {g \in Todo(p) : \A h \in Todo(p) : GroupDepth(Sent(p), g.id) <= GroupDepth(Sent(p), h.id)}

Resolved(p, g) == g.parent = NoParent \/ \E m \in tx[p].ids : m[1] = g.parent
ParentId(p, g) ==
  IF g.parent = NoParent THEN NoParent ELSE (CHOOSE m \in tx[p].ids : m[1] = g.parent)[2]

Taken(p, name) == name \in NamesOf(Without(db, tx[p].gone) \cup tx[p].rows)

InsertGroup(p) ==
  /\ InFlight(p, "save", "insert")
  /\ \E g \in NextGroups(p) :
       /\ Resolved(p, g) /\ ~Taken(p, g.name) /\ ~Waits(p, g.name)
       /\ tx' = [tx EXCEPT ![p].ids = @ \cup {<<g.id, lastId + 1>>},
            ![p].rows = @ \cup {Group(lastId + 1, g.name, ParentId(p, g), g.classes)}]
  /\ lastId' = lastId + 1
  /\ UNCHANGED <<groups, copying, actions, db, edits>>

\* Two groups of one name, or two transactions that wait for each other: the
\* transaction is rolled back, the layout is saved without the groups, and the
\* page is told that all was saved.
Stuck(p, g) ==
  \E q \in Pages : /\ tx[q].at = "insert" /\ Blocks(q, p, g.name)
                  /\ \E h \in NextGroups(q) : Blocks(p, q, h.name)
Refused(p, g) ==
  ~Resolved(p, g) \/ (Taken(p, g.name) /\ ~Waits(p, g.name)) \/ Stuck(p, g)
FailSync(p) ==
  /\ InFlight(p, "save", "insert")
  /\ \E g \in NextGroups(p) : Refused(p, g)
  /\ Answer(p)
  /\ UNCHANGED <<groups, copying, db, lastId, edits>>

(* Mutant: a save of no groups returns before its COMMIT, and the transaction
   stays open. *)
CommitOfSome(p) ==
  /\ InFlight(p, "save", "insert") /\ Todo(p) = {} /\ Sent(p) # {}
  /\ db' = Without(db, tx[p].gone) \cup tx[p].rows
  /\ Answer(p)
  /\ UNCHANGED <<groups, copying, lastId, edits>>
Commit(p) ==
  /\ InFlight(p, "save", "insert") /\ Todo(p) = {}
  /\ db' = Without(db, tx[p].gone) \cup tx[p].rows
  /\ Answer(p)
  /\ UNCHANGED <<groups, copying, lastId, edits>>

\* The group a page knows may have another id by now: then nothing is added,
\* and the page only logs it.
AddClassToGroup(p) ==
  LET a == Head(actions[p])
  IN /\ InFlight(p, "add", "idle")
     /\ \A q \in Pages : a.id \notin tx[q].gone
     /\ db' = {IF r.id = a.id THEN [r EXCEPT !.classes = @ \cup a.classes] ELSE r : r \in db}
     /\ Answer(p)
     /\ UNCHANGED <<groups, copying, lastId, edits>>

\* getGroupsForVersion: the groups, and then the classes of each.
ReadGroups(p) ==
  /\ InFlight(p, "load", "idle")
  /\ tx' = [tx EXCEPT ![p].at = "classes", ![p].rows = db]
  /\ UNCHANGED <<groups, copying, actions, db, lastId, edits>>

ReadClasses(p) ==
  /\ InFlight(p, "load", "classes")
  /\ groups' = [groups EXCEPT ![p] =
       {[g EXCEPT !.classes = UNION {r.classes : r \in {s \in db : s.id = g.id}}] : g \in tx[p].rows}]
  /\ Answer(p)
  /\ UNCHANGED <<copying, db, lastId, edits>>

\* "... Copy", "... Copy 2" and so on are the numbers from CopyName on.
CopyName == 100
FreeCopyName(G) ==
  CHOOSE n \in CopyName..(CopyName + Cardinality(G)) : n \notin NamesOf(G)

\* The copies of the classes are there: the page adds the new group.
CopyClasses(p) ==
  LET name == FreeCopyName(copying[p].from)
      copy == Group(lastId + 1, name, NoParent, {})
  IN /\ InFlight(p, "copy", "idle")
     /\ copying' = [copying EXCEPT ![p].at = "added", ![p].group = copy]
     /\ groups' = [groups EXCEPT ![p] = @ \cup {copy}]
     /\ lastId' = lastId + 1
     /\ Answer(p)
     /\ UNCHANGED <<db, edits>>
----------------------------------------------------------------------------

PageStep(p) ==
  \/ CreateGroup(p) \/ CreateGroupAtPosition(p) \/ AutoSave(p) \/ LoadClasses(p)
  \/ SaveDuplicate(p)
  \/ \E g \in groups[p] :
       \/ \E name \in Names : RenameGroup(p, g, name)
       \/ \E parent \in Ids(groups[p]) \cup {NoParent} : DragGroup(p, g, parent)
       \/ RestyleGroup(p, g) \/ DeleteGroup(p, g) \/ DuplicateGroup(p, g)
       \/ \E c \in Classes : DropClass(p, g, c) \/ RemoveNodeFromGroup(p, g, c)

ServerStep(p) ==
  \/ BeginSync(p) \/ DeleteGroups(p) \/ InsertGroup(p) \/ FailSync(p) \/ Commit(p)
  \/ AddClassToGroup(p) \/ ReadGroups(p) \/ ReadClasses(p) \/ CopyClasses(p)

Next == \E p \in Pages : PageStep(p) \/ ServerStep(p)

Spec == Init /\ [][Next]_vars
FairSpec == Spec /\ \A p \in Pages : WF_vars(ServerStep(p))

----------------------------------------------------------------------------
(* Properties.                                                             *)

\* Whatever the pages do and however their saves interleave: the groups of a
\* page, of a save on its way and of the database are trees of three levels
\* at most, so no save fails because a parent is missing.
GroupsAreNested ==
  /\ Nested(db)
  /\ \A p \in Pages : Nested(groups[p]) /\ Nested(copying[p].from)
  /\ \A p \in Pages : \A k \in DOMAIN actions[p] : Nested(actions[p][k].groups)

\* A group by what the user sees of it.
Shape(G) == {<<g.name, {At(G, i).name : i \in {g.parent} \ {NoParent}}, g.classes>> : g \in G}

SaveEnds(p) == tx[p].at = "insert" /\ tx'[p].at = "idle"

\* The stored groups come and go only when a save ends, and then all that it
\* was sent come: no one ever loads half a canvas.
OnlyWholeSavesAreStored ==
  [][Ids(db') # Ids(db) =>
       \E p \in Pages :
          /\ SaveEnds(p)
          /\ NamesOf({r \in db' : r.id \notin Ids(db)}) = NamesOf(Sent(p))]_vars

Distinct(G) == \A g, h \in G : g.name = h.name => g = h

\* A save that no other save overlaps leaves exactly the groups it was sent,
\* or, when two of them have one name, those that were there.
AloneSaveReplaces ==
  [][\A p \in Pages : (SaveEnds(p) /\ tx[p].alone) =>
        IF Distinct(Sent(p)) THEN Shape(db') = Shape(Sent(p)) ELSE db' = db]_vars

\* A save that has begun ends, though saves wait for each other's rows.
SavesEnd == \A p \in Pages : tx[p].at = "delete" ~> tx[p].at = "idle"

\* A save replaces all groups of the version by the ones it was sent.  False,
\* see the README: two that overlap leave the groups of both.
SaveReplacesAll ==
  [][\A p \in Pages : (SaveEnds(p) /\ db' # db) => Shape(db') = Shape(Sent(p))]_vars

\* A class is in one group at most.  False, see the README: a class that is
\* dropped in another frame stays in the stored rows of the first.
ClassInOneGroup == \A g, h \in db : g.classes \cap h.classes # {} => g = h
=============================================================================
