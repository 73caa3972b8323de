-------------------------- MODULE StudioGroupsProofs --------------------------
(***************************************************************************)
(* Proofs about StudioGroups for any pages, classes, names and edits.      *)
(*                                                                         *)
(* A canvas is Sound when it is a forest of three levels whose ids have    *)
(* been given out.  Edits keep it so by the checks of the page.  A save    *)
(* that is stored keeps the database so for two reasons: the rows it       *)
(* deletes are whole trees (Closed), and the rows it inserts stand one for *)
(* one for groups it was sent (StandsFor), under ids nobody else has       *)
(* (Apart).                                                                *)
(***************************************************************************)
EXTENDS StudioGroups, FiniteSetTheorems, TLAPS

Sound(G, n) == /\ G \in SUBSET GroupsOf /\ IsFiniteSet(G)
               /\ Nested(G) /\ Ids(G) \subseteq 1..n

Closed(G, S) == \A r \in G : r.parent # NoParent => (r.id \in S <=> r.parent \in S)

Stands(r, g, ids) ==
  /\ <<g.id, r.id>> \in ids /\ r.name = g.name /\ r.classes = g.classes
  /\ IF g.parent = NoParent THEN r.parent = NoParent ELSE <<g.parent, r.parent>> \in ids

StandsFor(R, G, ids) ==
  /\ \A r \in R : \E g \in G : Stands(r, g, ids)
  /\ \A m \in ids : \E r \in R, g \in G : m = <<g.id, r.id>> /\ Stands(r, g, ids)
  /\ \A m, n \in ids : m[1] = n[1] <=> m[2] = n[2]

Uncommitted(p) == IF tx[p].at = "insert" THEN tx[p].rows ELSE {}

PagesSound ==
  \A p \in Pages :
    /\ Sound(groups[p], lastId) /\ Sound(copying[p].from, lastId)
    /\ copying[p].at = "added" =>
         /\ copying[p].group.parent = NoParent
         /\ copying[p].group.id \in 1..lastId \ Ids(copying[p].from)

ActionsSound ==
  \A p \in Pages : \A k \in DOMAIN actions[p] : Sound(actions[p][k].groups, lastId)

TxKinds ==
  \A p \in Pages : tx[p].at # "idle" =>
    /\ actions[p] # <<>>
    /\ Head(actions[p]).kind = IF tx[p].at = "classes" THEN "load" ELSE "save"

RowsSound ==
  \A p \in Pages :
    /\ tx[p].at = "classes" => Sound(tx[p].rows, lastId)
    /\ IsFiniteSet(tx[p].rows) /\ UniqueIds(tx[p].rows) /\ Ids(tx[p].rows) \subseteq 1..lastId
    /\ tx[p].at = "insert" => StandsFor(tx[p].rows, Sent(p), tx[p].ids)
    /\ tx[p].at = "delete" => tx[p].rows = {} /\ tx[p].ids = {}

SeenClosed ==
  \A p \in Pages : /\ tx[p].seen \cup tx[p].gone \subseteq 1..lastId
                   /\ Closed(db, tx[p].seen) /\ Closed(db, tx[p].gone)

Apart ==
  \A p \in Pages :
    /\ Ids(Uncommitted(p)) \cap Ids(db) = {}
    /\ \A q \in Pages : /\ Ids(Uncommitted(p)) \cap (tx[q].seen \cup tx[q].gone) = {}
                        /\ q # p => Ids(Uncommitted(p)) \cap Ids(Uncommitted(q)) = {}

IInv == /\ TypeOK /\ PagesSound /\ ActionsSound /\ Sound(db, lastId)
        /\ TxKinds /\ RowsSound /\ SeenClosed /\ Apart

-----------------------------------------------------------------------------
(* Forests.                                                                *)

\* Nested, without sets of parents of parents.
Forest(G) ==
  /\ UniqueIds(G)
  /\ \A g \in G : g.parent # NoParent => \E h \in G : h.id = g.parent
  /\ \A x, y, z \in G : x.parent = y.id /\ y.parent = z.id => z.parent = NoParent

LEMMA NestedIsForest ==
  ASSUME NEW G, \A g \in G : g.id # NoParent
  PROVE  Nested(G) <=> Forest(G)
<1>1. ASSUME Nested(G), NEW x \in G, NEW y \in G, NEW z \in G,
             x.parent = y.id, y.parent = z.id
      PROVE  z.parent = NoParent
  <2>1. y.id \in Parents(G, {x.id})
    BY <1>1 DEF Parents
  <2>2. z.id \in Parents(G, Parents(G, {x.id}))
    BY <1>1, <2>1 DEF Parents
  <2>3. z.parent # NoParent => z.parent \in Parents(G, Parents(G, Parents(G, {x.id})))
    BY <2>2 DEF Parents
  <2>4. QED
    BY <1>1, <2>3 DEF Nested
<1>2. ASSUME Forest(G), NEW g \in G
      PROVE  Parents(G, Parents(G, Parents(G, {g.id}))) = {}
  <2>1. SUFFICES ASSUME NEW i \in Parents(G, Parents(G, Parents(G, {g.id})))
                 PROVE  FALSE
    OBVIOUS
  <2>2. PICK z \in G : z.id \in Parents(G, Parents(G, {g.id})) /\ z.parent # NoParent
    BY <2>1 DEF Parents
  <2>3. PICK y \in G : y.id \in Parents(G, {g.id}) /\ y.parent = z.id
    BY <2>2 DEF Parents
  <2>4. PICK x \in G : x.parent = y.id
    BY <2>3 DEF Parents
  <2>5. QED
    BY <1>2, <2>2, <2>3, <2>4 DEF Forest
<1>3. QED
  BY <1>1, <1>2 DEF Nested, Forest, Ids

LEMMA SoundForest ==
  ASSUME NEW n, NEW G, Sound(G, n)
  PROVE  /\ Forest(G)
         /\ \A g \in G : /\ g \in GroupsOf /\ g.id \in Nat /\ g.parent \in Nat
                         /\ g.id \in 1..n /\ g.id # NoParent
<1>1. \A g \in G : g \in GroupsOf /\ g.id \in 1..n
  BY DEF Sound, Ids
<1>2. \A g \in G : g.id # NoParent /\ g.id \in Nat /\ g.parent \in Nat
  BY <1>1 DEF NoParent, GroupsOf
<1>3. QED
  BY <1>1, <1>2, NestedIsForest DEF Sound

LEMMA ForestSound ==
  ASSUME NEW n \in Nat, NEW G, G \subseteq GroupsOf, IsFiniteSet(G), Forest(G),
         \A g \in G : g.id \in 1..n
  PROVE  Sound(G, n)
<1>1. \A g \in G : g.id # NoParent
  BY DEF NoParent
<1>2. QED
  BY <1>1, NestedIsForest DEF Sound, Ids

LEMMA SoundGrows ==
  ASSUME NEW n \in Nat, NEW m \in Nat, n <= m, NEW G, Sound(G, n)
  PROVE  Sound(G, m)
<1>1. 1..n \subseteq 1..m
  OBVIOUS
<1>2. QED
  BY <1>1 DEF Sound

LEMMA SoundEmpty == ASSUME NEW n \in Nat PROVE Sound({}, n)
<1>1. Forest({}) /\ IsFiniteSet({})
  BY FS_EmptySet DEF Forest, UniqueIds
<1>2. QED
  BY <1>1, ForestSound

\* Two canvases with the same ids under the same parents.
LEMMA SameTree ==
  ASSUME NEW n \in Nat, NEW G, NEW H, Sound(G, n),
         H \subseteq GroupsOf, IsFiniteSet(H), UniqueIds(H),
         \A h \in H : \E g \in G : h.id = g.id /\ h.parent = g.parent,
         \A g \in G : \E h \in H : h.id = g.id /\ h.parent = g.parent
  PROVE  Sound(H, n)
<1>1. Forest(G) /\ \A g \in G : g.id \in 1..n
  BY SoundForest
<1>2. \A g \in H : g.parent # NoParent => \E h \in H : h.id = g.parent
  BY <1>1 DEF Forest
<1>3. ASSUME NEW x \in H, NEW y \in H, NEW z \in H, x.parent = y.id, y.parent = z.id
      PROVE  z.parent = NoParent
  <2>1. PICK u \in G : u.id = x.id /\ u.parent = x.parent
    OBVIOUS
  <2>2. PICK v \in G : v.id = y.id /\ v.parent = y.parent
    OBVIOUS
  <2>3. PICK w \in G : w.id = z.id /\ w.parent = z.parent
    OBVIOUS
  <2>4. QED
    BY <1>1, <1>3, <2>1, <2>2, <2>3 DEF Forest
<1>4. Forest(H)
  BY <1>2, <1>3 DEF Forest
<1>5. QED
  BY <1>1, <1>4, ForestSound

\* A new group at the top.
LEMMA AddTop ==
  ASSUME NEW n \in Nat, NEW G, Sound(G, n), NEW t \in GroupsOf,
         t.parent = NoParent, t.id \in 1..n, t.id \notin Ids(G)
  PROVE  Sound(G \cup {t}, n)
<1>1. Forest(G) /\ \A g \in G : g.id \in 1..n
  BY SoundForest
<1>2. \A g \in G : g.id # t.id /\ g.parent # t.id
  BY <1>1 DEF Ids, Forest, NoParent
<1>3. Forest(G \cup {t})
  <2>1. UniqueIds(G \cup {t})
    BY <1>1, <1>2 DEF Forest, UniqueIds
  <2>2. \A g \in G \cup {t} : g.parent # NoParent => \E h \in G \cup {t} : h.id = g.parent
    BY <1>1 DEF Forest
  <2>3. t.id # NoParent
    BY DEF NoParent
  <2>4. ASSUME NEW x \in G \cup {t}, NEW y \in G \cup {t}, NEW z \in G \cup {t},
               x.parent = y.id, y.parent = z.id
        PROVE  z.parent = NoParent
    <3>1. y # t /\ x # t /\ (z = t => z.parent = NoParent)
      BY <1>1, <1>2, <2>3, <2>4 DEF NoParent
    <3>2. QED
      BY <1>1, <2>4, <3>1 DEF Forest
  <2>5. QED
    BY <2>1, <2>2, <2>4 DEF Forest
<1>4. IsFiniteSet(G \cup {t}) /\ G \cup {t} \subseteq GroupsOf
  BY FS_AddElement DEF Sound
<1>5. QED
  BY <1>1, <1>3, <1>4, ForestSound

\* What the depths that DragGroup asks for say about the groups around.
LEMMA Depths ==
  ASSUME NEW G, UniqueIds(G), \A g \in G : g.id # NoParent, NEW y \in G
  PROVE  /\ GroupDepth(G, y.id) \in 1..3
         /\ y.parent # NoParent => GroupDepth(G, y.id) >= 2
         /\ \A z \in G : y.parent = z.id /\ z.parent # NoParent => GroupDepth(G, y.id) = 3
         /\ ChildChain(G, y.id) \in 0..2
         /\ \A x \in G : x.parent = y.id => ChildChain(G, y.id) >= 1
         /\ \A w, x \in G : w.parent = x.id /\ x.parent = y.id => ChildChain(G, y.id) = 2
<1> DEFINE above == Parents(G, {y.id})
           first == Children(G, {y.id})
<1>1. y.parent # NoParent => y.parent \in above
  BY DEF Parents
<1>2. \A z \in G : z.id \in above /\ z.parent # NoParent => z.parent \in Parents(G, above)
  BY DEF Parents
<1>3. /\ GroupDepth(G, y.id) \in 1..3
      /\ above # {} => GroupDepth(G, y.id) >= 2
      /\ above # {} /\ Parents(G, above) # {} => GroupDepth(G, y.id) = 3
  BY DEF GroupDepth
<1>4. ASSUME NEW z \in G, y.parent = z.id, z.parent # NoParent
      PROVE  GroupDepth(G, y.id) = 3
  BY <1>1, <1>2, <1>3, <1>4
<1>5. \A x \in G : x.parent = y.id => x.id \in first
  BY DEF Children
<1>6. \A w, x \in G : w.parent = x.id /\ x.id \in first => w.id \in Children(G, first)
  BY DEF Children
<1>7. /\ ChildChain(G, y.id) \in 0..2
      /\ first # {} => ChildChain(G, y.id) >= 1
      /\ first # {} /\ Children(G, first) # {} => ChildChain(G, y.id) = 2
  BY DEF ChildChain
<1>8. ASSUME NEW w \in G, NEW x \in G, w.parent = x.id, x.parent = y.id
      PROVE  ChildChain(G, y.id) = 2
  BY <1>5, <1>6, <1>7, <1>8
<1> HIDE DEF above, first
<1>9. QED
  BY <1>1, <1>3, <1>4, <1>5, <1>7, <1>8

Moved(G, g, parent) == (G \ {g}) \cup {[g EXCEPT !.parent = parent]}

\* A group hung under another one, where the page allows it.
LEMMA DragKeepsForest ==
  ASSUME NEW n \in Nat, NEW G, Sound(G, n), NEW g \in G,
         NEW parent \in Ids(G) \cup {NoParent},
         parent \notin Subtree(G, g.id),
         parent = NoParent \/ ~WouldNestExceedMaxDepth(G, g.id, parent)
  PROVE  Sound(Moved(G, g, parent), n)
<1> DEFINE m == [g EXCEPT !.parent = parent]
           H == Moved(G, g, parent)
<1>1. Forest(G) /\ \A h \in G : /\ h \in GroupsOf /\ h.id \in 1..n /\ h.id # NoParent
                                /\ h.id \in Nat /\ h.parent \in Nat
  BY SoundForest
<1>2. parent \in Nat
  BY <1>1 DEF Ids, NoParent
<1>3. m \in GroupsOf /\ m.id = g.id /\ m.parent = parent
  BY <1>1, <1>2 DEF GroupsOf
<1>4. parent # g.id /\ \A h \in G : h.parent = g.id => h.id # parent
  BY DEF Subtree, Descendants, Children
<1>5. \A h \in H : h = m \/ (h \in G /\ h # g /\ h.id # g.id)
  BY <1>1 DEF Moved, Forest, UniqueIds
<1>6. UniqueIds(H)
  BY <1>1, <1>3, <1>5 DEF Forest, UniqueIds
<1>7. \A h \in G : \E k \in H : k.id = h.id
  BY <1>3 DEF Moved
<1>8. \A h \in H : h.parent # NoParent => \E k \in H : k.id = h.parent
  <2>1. m.parent # NoParent => \E k \in G : k.id = m.parent
    BY <1>3 DEF Ids
  <2>2. \A h \in G : h.parent # NoParent => \E k \in G : k.id = h.parent
    BY <1>1 DEF Forest
  <2> HIDE DEF H, m
  <2>3. QED
    BY <1>5, <1>7, <2>1, <2>2
<1>9. ASSUME NEW x \in H, NEW y \in H, NEW z \in H,
             x.parent = y.id, y.parent = z.id, z.parent # NoParent
      PROVE  FALSE
  <2>1. /\ GroupDepth(G, parent) + 1 + ChildChain(G, g.id) <= 3 \/ parent = NoParent
        /\ ChildChain(G, g.id) \in 0..2
        /\ parent # NoParent => GroupDepth(G, parent) \in 1..3
    <3>1. UniqueIds(G)
      BY <1>1 DEF Forest
    <3>2. ChildChain(G, g.id) \in 0..2
      BY <1>1, <3>1, Depths
    <3>3. parent # NoParent => GroupDepth(G, parent) \in 1..3
      BY <1>1, <3>1, Depths DEF Ids
    <3>4. QED
      BY <3>2, <3>3 DEF WouldNestExceedMaxDepth, MAX_CANVAS_GROUP_DEPTH
  <2>2. UniqueIds(G)
    BY <1>1 DEF Forest
  <2> HIDE DEF m, H
  <2>3. CASE x = m
    <3>1. y \in G /\ z \in G /\ y.id = parent /\ y # g /\ y.parent # NoParent
      BY <1>1, <1>3, <1>4, <1>5, <1>9, <2>3
    <3>2. GroupDepth(G, y.id) = 3
      BY <1>1, <1>9, <2>2, <3>1, Depths
    <3>3. QED
      BY <1>1, <2>1, <3>1, <3>2
  <2>4. CASE y = m
    <3>1. x \in G /\ z \in G /\ z.id = parent /\ x.parent = g.id
      BY <1>1, <1>3, <1>4, <1>5, <1>9, <2>4
    <3>2. GroupDepth(G, z.id) >= 2
      BY <1>9, <1>1, <2>2, <3>1, Depths
    <3>3. ChildChain(G, g.id) >= 1
      BY <1>1, <2>2, <3>1, Depths
    <3>4. QED
      BY <1>1, <2>1, <3>1, <3>2, <3>3
  <2>5. CASE z = m /\ x # m /\ y # m
    <3>1. x \in G /\ y \in G /\ x.parent = y.id /\ y.parent = g.id /\ parent # NoParent
      BY <1>3, <1>5, <1>9, <2>5
    <3>2. ChildChain(G, g.id) = 2
      BY <1>1, <2>2, <3>1, Depths
    <3>3. QED
      BY <2>1, <3>1, <3>2
  <2>6. CASE x # m /\ y # m /\ z # m
    BY <1>1, <1>5, <1>9, <2>6 DEF Forest
  <2>7. QED
    BY <2>3, <2>4, <2>5, <2>6
<1>10. IsFiniteSet(H) /\ H \subseteq GroupsOf
  <2>1. IsFiniteSet(G \ {g})
    BY FS_Subset DEF Sound
  <2>2. QED
    BY <1>1, <1>3, <2>1, FS_AddElement DEF Moved
<1>11. \A h \in H : h.id \in 1..n
  BY <1>1, <1>3, <1>5
<1>12. Forest(H)
  BY <1>6, <1>8, <1>9 DEF Forest
<1> HIDE DEF H
<1>13. QED
  BY <1>10, <1>11, <1>12, ForestSound DEF H

\* A group taken out with all that hangs below it.
LEMMA DeleteKeepsForest ==
  ASSUME NEW n \in Nat, NEW G, Sound(G, n), NEW g \in G
  PROVE  Sound(Without(G, Subtree(G, g.id)), n)
<1> DEFINE H == Without(G, Subtree(G, g.id))
           C1 == Children(G, {g.id})
           C2 == Children(G, C1)
           C3 == Children(G, C2)
<1>1. Forest(G) /\ \A h \in G : /\ h \in GroupsOf /\ h.id \in 1..n /\ h.id # NoParent
  BY SoundForest
<1>2. Subtree(G, g.id) = {g.id} \cup C1 \cup C2 \cup C3
  BY DEF Subtree, Descendants
<1>3. ASSUME NEW h \in H, h.parent \in Subtree(G, g.id), h.parent # NoParent
      PROVE  FALSE
  <2>1. h \in G /\ h.id \notin {g.id} \cup C1 \cup C2 \cup C3
    BY <1>2 DEF Without
  <2>2. \A S : h.parent \in S => h.id \in Children(G, S)
    BY <2>1 DEF Children
  <2>3. h.parent \in C3
    BY <1>2, <1>3, <2>1, <2>2
  <2>4. PICK u \in G : u.id = h.parent /\ u.parent \in C2
    BY <2>3 DEF Children
  <2>5. PICK v \in G : v.id = u.parent /\ v.parent \in C1
    BY <2>4 DEF Children
  <2>6. PICK w \in G : w.id = v.parent /\ w.parent = g.id
    BY <2>5 DEF Children
  <2>7. QED
    BY <1>1, <2>4, <2>5, <2>6 DEF Forest
<1>4. H \subseteq G /\ \A h \in G : h \notin H => h.id \in Subtree(G, g.id)
  BY DEF Without
<1>5. \A h \in H : h.parent # NoParent => \E k \in H : k.id = h.parent
  BY <1>1, <1>3, <1>4 DEF Forest
<1> HIDE DEF H
<1>6. Forest(H)
  BY <1>1, <1>4, <1>5 DEF Forest, UniqueIds
<1>7. IsFiniteSet(H)
  BY <1>4, FS_Subset DEF Sound
<1>8. QED
  BY <1>1, <1>4, <1>6, <1>7, ForestSound DEF H

-----------------------------------------------------------------------------
(* Rows that stand for the groups a save was sent.                         *)

LEMMA StandsSound ==
  ASSUME NEW n \in Nat, NEW m, NEW G, Sound(G, m), NEW R, NEW ids, StandsFor(R, G, ids),
         R \subseteq GroupsOf, IsFiniteSet(R), UniqueIds(R), Ids(R) \subseteq 1..n
  PROVE  Sound(R, n)
<1>1. Forest(G) /\ \A g \in G : g.id # NoParent
  BY SoundForest
<1>2. \A r \in R : r.id \in 1..n /\ r.id # NoParent
  BY DEF Ids, NoParent
<1>3. \A r \in R : \E g \in G : Stands(r, g, ids)
  BY DEF StandsFor
<1>4. \A a, b, c : /\ <<a, c>> \in ids /\ <<b, c>> \in ids => a = b
  BY DEF StandsFor
<1>5. ASSUME NEW r \in R, r.parent # NoParent
      PROVE  \E s \in R : s.id = r.parent
  <2>1. PICK g \in G : <<g.parent, r.parent>> \in ids
    BY <1>3, <1>5 DEF Stands
  <2>2. QED
    BY <2>1 DEF StandsFor
<1>6. ASSUME NEW x \in R, NEW y \in R, NEW z \in R,
             x.parent = y.id, y.parent = z.id, z.parent # NoParent
      PROVE  FALSE
  <2>1. PICK u \in G : Stands(x, u, ids)
    BY <1>3
  <2>2. PICK v \in G : Stands(y, v, ids)
    BY <1>3
  <2>3. PICK w \in G : Stands(z, w, ids)
    BY <1>3
  <2>4. x.parent # NoParent /\ y.parent # NoParent
    BY <1>2, <1>6
  <2>5. u.parent = v.id
    BY <1>4, <1>6, <2>1, <2>2, <2>4 DEF Stands
  <2>6. v.parent = w.id
    BY <1>4, <1>6, <2>2, <2>3, <2>4 DEF Stands
  <2>7. w.parent # NoParent
    BY <1>6, <2>3 DEF Stands
  <2>8. QED
    BY <1>1, <2>5, <2>6, <2>7 DEF Forest
<1>7. Forest(R)
  BY <1>5, <1>6 DEF Forest
<1>8. QED
  BY <1>2, <1>7, ForestSound

\* One more group is inserted, its parent before it.
LEMMA StandsForMore ==
  ASSUME NEW G, UniqueIds(G), NEW R, NEW ids, StandsFor(R, G, ids), NEW g \in G,
         \A m \in ids : m[1] # g.id, NEW i, \A m \in ids : m[2] # i,
         NEW r, r.id = i, r.name = g.name, r.classes = g.classes,
         IF g.parent = NoParent THEN r.parent = NoParent ELSE <<g.parent, r.parent>> \in ids
  PROVE  StandsFor(R \cup {r}, G, ids \cup {<<g.id, i>>})
<1> DEFINE new == ids \cup {<<g.id, i>>}
<1>1. Stands(r, g, new)
  BY DEF Stands
<1>2. \A s, h : Stands(s, h, ids) => Stands(s, h, new)
  BY DEF Stands
<1>3. \A s \in R \cup {r} : \E h \in G : Stands(s, h, new)
  BY <1>1, <1>2 DEF StandsFor
<1>4. \A m \in new : \E s \in R \cup {r}, h \in G : m = <<h.id, s.id>> /\ Stands(s, h, new)
  <2> SUFFICES ASSUME NEW m \in new
               PROVE  \E s \in R \cup {r}, h \in G : m = <<h.id, s.id>> /\ Stands(s, h, new)
    OBVIOUS
  <2>1. CASE m \in ids
    <3>1. PICK s \in R, h \in G : m = <<h.id, s.id>> /\ Stands(s, h, ids)
      BY <2>1 DEF StandsFor
    <3> HIDE DEF new
    <3>2. QED
      BY <3>1, <1>2
  <2>2. CASE m = <<g.id, i>>
    BY <1>1, <2>2
  <2>3. QED
    BY <2>1, <2>2
<1>5. \A m, k \in new : m[1] = k[1] <=> m[2] = k[2]
  <2>1. \A m, k \in ids : m[1] = k[1] <=> m[2] = k[2]
    BY DEF StandsFor
  <2>2. QED
    BY <2>1
<1>6. QED
  BY <1>3, <1>4, <1>5 DEF StandsFor

LEMMA StandsForNone == ASSUME NEW G PROVE StandsFor({}, G, {})
  BY DEF StandsFor

\* When all groups are inserted, the rows have the names that were sent.
LEMMA AllNames ==
  ASSUME NEW G, UniqueIds(G), NEW R, NEW ids, StandsFor(R, G, ids),
         \A g \in G : \E m \in ids : m[1] = g.id
  PROVE  NamesOf(R) = NamesOf(G)
<1>1. \A r \in R : \E g \in G : r.name = g.name
  BY DEF StandsFor, Stands
<1>2. ASSUME NEW g \in G PROVE \E r \in R : r.name = g.name
  <2>1. PICK m \in ids : m[1] = g.id
    OBVIOUS
  <2>2. PICK r \in R, h \in G : m = <<h.id, r.id>> /\ r.name = h.name
    BY DEF StandsFor, Stands
  <2>3. QED
    BY <2>1, <2>2 DEF UniqueIds
<1>3. QED
  BY <1>1, <1>2 DEF NamesOf

LEMMA CommitSound ==
  ASSUME NEW n \in Nat, NEW D, Sound(D, n), NEW S, Closed(D, S), NEW R, Sound(R, n),
         Ids(R) \cap Ids(D) = {}
  PROVE  Sound(Without(D, S) \cup R, n)
<1> DEFINE K == Without(D, S)
<1>1. K \subseteq D /\ \A d \in D : d \in K <=> d.id \notin S
  BY DEF Without
<1>2. Forest(D) /\ Forest(R) /\ \A g \in D \cup R : g \in GroupsOf /\ g.id \in 1..n /\ g.id # NoParent
  BY SoundForest
<1>3. \A d \in D, r \in R : d.id # r.id
  BY DEF Ids
<1>4. UniqueIds(K \cup R)
  BY <1>1, <1>2, <1>3 DEF Forest, UniqueIds
<1>5. \A g \in K : g.parent # NoParent => \E h \in K : h.id = g.parent
  BY <1>1, <1>2 DEF Forest, Closed
<1>6. \A g \in R : g.parent # NoParent => \E h \in R : h.id = g.parent
  BY <1>2 DEF Forest
<1> HIDE DEF K
<1>7. ASSUME NEW x \in K \cup R, NEW y \in K \cup R, x.parent = y.id
      PROVE  (x \in K /\ y \in K) \/ (x \in R /\ y \in R)
  BY <1>1, <1>2, <1>3, <1>5, <1>6, <1>7
<1>8. ASSUME NEW x \in K \cup R, NEW y \in K \cup R, NEW z \in K \cup R,
             x.parent = y.id, y.parent = z.id
      PROVE  z.parent = NoParent
  <2>1. (x \in D /\ y \in D /\ z \in D) \/ (x \in R /\ y \in R /\ z \in R)
    BY <1>1, <1>3, <1>7, <1>8
  <2>2. QED
    BY <1>2, <1>8, <2>1 DEF Forest
<1>9. Forest(K \cup R)
  BY <1>4, <1>5, <1>6, <1>8 DEF Forest
<1>10. IsFiniteSet(K \cup R)
  BY <1>1, FS_Subset, FS_Union DEF Sound
<1>11. QED
  BY <1>1, <1>2, <1>9, <1>10, ForestSound DEF K

LEMMA CommitClosed ==
  ASSUME NEW n, NEW D, NEW S, Closed(D, S), NEW X, NEW R, Sound(R, n), Ids(R) \cap S = {}
  PROVE  Closed(Without(D, X) \cup R, S)
<1>1. \A r \in R : r.id \notin S
  BY DEF Ids
<1>2. \A r \in R : r.parent # NoParent => r.parent \notin S
  BY <1>1, SoundForest DEF Forest
<1>3. QED
  BY <1>1, <1>2 DEF Closed, Without

-----------------------------------------------------------------------------
(* Names and numbers of new groups.                                        *)

LEMMA NewNumber ==
  ASSUME NEW n, NEW G, Sound(G, n)
  PROVE  Cardinality(G) \in Nat
  BY FS_CardinalityType DEF Sound

\* There are fewer groups than numbers to try.
LEMMA FreeNumber ==
  ASSUME NEW n, NEW G, Sound(G, n)
  PROVE  FreeCopyName(G) \in Nat
<1> DEFINE k == Cardinality(G)
           T == CopyName..(CopyName + k)
<1>1. k \in Nat
  BY NewNumber
<1>2. IsFiniteSet(NamesOf(G)) /\ Cardinality(NamesOf(G)) <= k
  <2> DEFINE f == [g \in G |-> g.name]
  <2>1. NamesOf(G) = {f[g] : g \in G}
    BY DEF NamesOf
  <2>2. f \in Surjection(G, NamesOf(G))
    BY DEF NamesOf, Surjection
  <2>3. QED
    BY <2>2, FS_Surjection DEF Sound
<1>3. IsFiniteSet(T) /\ Cardinality(T) = k + 1
  BY <1>1, FS_Interval DEF CopyName
<1>4. ~(T \subseteq NamesOf(G))
  <2> HIDE DEF T, k
  <2>1. T \subseteq NamesOf(G) => Cardinality(T) <= Cardinality(NamesOf(G))
    BY <1>2, FS_Subset
  <2>2. Cardinality(NamesOf(G)) \in Nat
    BY <1>2, FS_CardinalityType
  <2>3. QED
    BY <1>1, <1>2, <1>3, <2>1, <2>2
<1>5. \E j \in T : j \notin NamesOf(G)
  BY <1>4
<1>6. FreeCopyName(G) \in T
  BY <1>5 DEF FreeCopyName
<1>7. QED
  BY <1>1, <1>6 DEF CopyName

\* The same groups, with other names or classes.
LEMMA Relabelled ==
  ASSUME NEW n \in Nat, NEW G, Sound(G, n), NEW H, IsFiniteSet(H), H \subseteq GroupsOf,
         \A h \in H : \E g \in G : h.id = g.id /\ h.parent = g.parent,
         \A g \in G : \E h \in H : h.id = g.id /\ h.parent = g.parent,
         UniqueIds(H)
  PROVE  Sound(H, n) /\ Ids(H) = Ids(G)
<1>1. Ids(H) = Ids(G)
  BY DEF Ids
<1>2. Sound(H, n)
  BY SameTree
<1>3. QED
  BY <1>1, <1>2

LEMMA FiniteImage ==
  ASSUME NEW S, IsFiniteSet(S), NEW f
  PROVE  IsFiniteSet({f[s] : s \in S})
<1> DEFINE h == [s \in S |-> f[s]]
           H == {f[s] : s \in S}
<1>1. h \in Surjection(S, H)
  BY DEF Surjection
<1> HIDE DEF h, H
<1>2. IsFiniteSet(H)
  BY <1>1, FS_Surjection
<1>3. QED
  BY <1>2 DEF H

\* One group changes its name or its classes.
LEMMA OneRelabelled ==
  ASSUME NEW n \in Nat, NEW G, Sound(G, n), NEW g \in G, NEW h \in GroupsOf,
         h.id = g.id, h.parent = g.parent
  PROVE  Sound((G \ {g}) \cup {h}, n)
<1> DEFINE H == (G \ {g}) \cup {h}
<1>1. Forest(G) /\ \A k \in G : k \in GroupsOf
  BY SoundForest
<1>2. H \subseteq GroupsOf /\ UniqueIds(H)
  BY <1>1 DEF Forest, UniqueIds
<1>3. IsFiniteSet(H)
  BY FS_Subset, FS_AddElement DEF Sound
<1>4. /\ \A r \in H : \E k \in G : r.id = k.id /\ r.parent = k.parent
      /\ \A k \in G : \E r \in H : r.id = k.id /\ r.parent = k.parent
  OBVIOUS
<1> HIDE DEF H
<1>5. QED
  BY <1>2, <1>3, <1>4, SameTree DEF H

-----------------------------------------------------------------------------
(* The invariant of a step.                                                *)

ActionOf == [kind : {"save", "load", "copy", "add"}, groups : SUBSET GroupsOf, id : Nat,
             classes : SUBSET Classes]
TxOf == [at : {"idle", "delete", "insert", "classes"}, seen : SUBSET Nat,
         gone : SUBSET Nat, ids : SUBSET (Nat \X Nat),
         rows : SUBSET GroupsOf, alone : BOOLEAN]

CopyOf == [at : {"none", "asked", "added"}, from : SUBSET GroupsOf, group : GroupsOf]

LEMMA TypeParts ==
  TypeOK <=> /\ groups \in [Pages -> SUBSET GroupsOf] /\ copying \in [Pages -> CopyOf]
             /\ actions \in [Pages -> Seq(ActionOf)] /\ tx \in [Pages -> TxOf]
             /\ db \in SUBSET GroupsOf /\ lastId \in Nat /\ edits \in 0..MaxEdits
  BY DEF TypeOK, ActionOf, TxOf, CopyOf

LEMMA TypePartsPrimed ==
  TypeOK' <=> /\ groups' \in [Pages -> SUBSET GroupsOf] /\ copying' \in [Pages -> CopyOf]
              /\ actions' \in [Pages -> Seq(ActionOf)] /\ tx' \in [Pages -> TxOf]
              /\ db' \in SUBSET GroupsOf /\ lastId' \in Nat /\ edits' \in 0..MaxEdits
  BY DEF TypeOK, ActionOf, TxOf, CopyOf

LEMMA Typed ==
  ASSUME TypeOK
  PROVE  /\ lastId \in Nat /\ edits \in 0..MaxEdits /\ db \subseteq GroupsOf
         /\ \A p \in Pages : /\ actions[p] \in Seq(ActionOf) /\ tx[p] \in TxOf
                             /\ groups[p] \subseteq GroupsOf
                             /\ copying[p].from \subseteq GroupsOf
  BY DEF TypeOK, ActionOf, TxOf

\* The page's step: its groups and its queue change, the database does not.
LEMMA PageSide ==
  ASSUME IInv, TypeOK', PagesSound', lastId <= lastId', UNCHANGED <<tx, db>>,
         \A q \in Pages :
           \/ actions'[q] = actions[q]
           \/ \E a \in ActionOf : actions'[q] = Append(actions[q], a) /\ Sound(a.groups, lastId')
  PROVE  IInv'
<1>1. lastId \in Nat /\ lastId' \in Nat
  BY DEF IInv, TypeOK
<1>2. \A G : Sound(G, lastId) => Sound(G, lastId')
  BY <1>1, SoundGrows
<1>3. \A q \in Pages : actions[q] \in Seq(ActionOf)
  BY Typed DEF IInv
<1>4. \A q \in Pages : actions[q] # <<>> => actions'[q] # <<>> /\ Head(actions'[q]) = Head(actions[q])
  BY <1>3
<1>5. ActionsSound'
  <2> SUFFICES ASSUME NEW q \in Pages, NEW k \in DOMAIN actions'[q]
               PROVE  Sound(actions'[q][k].groups, lastId')
    BY DEF ActionsSound
  <2>1. CASE actions'[q] = actions[q]
    BY <1>2, <2>1 DEF IInv, ActionsSound
  <2>2. CASE \E a \in ActionOf : actions'[q] = Append(actions[q], a) /\ Sound(a.groups, lastId')
    <3>1. PICK a \in ActionOf : actions'[q] = Append(actions[q], a) /\ Sound(a.groups, lastId')
      BY <2>2
    <3>2. (k \in DOMAIN actions[q] /\ actions'[q][k] = actions[q][k]) \/ actions'[q][k] = a
      BY <1>3, <3>1
    <3>3. QED
      BY <1>2, <3>1, <3>2 DEF IInv, ActionsSound
  <2>3. QED
    BY <2>1, <2>2
<1>6. TxKinds'
  BY <1>4 DEF IInv, TxKinds
<1>7. RowsSound'
  <2> SUFFICES ASSUME NEW q \in Pages
      PROVE  /\ tx[q].at = "classes" => Sound(tx[q].rows, lastId')
             /\ IsFiniteSet(tx[q].rows) /\ UniqueIds(tx[q].rows) /\ Ids(tx[q].rows) \subseteq 1..lastId'
             /\ tx[q].at = "insert" => StandsFor(tx[q].rows, Head(actions'[q]).groups, tx[q].ids)
             /\ tx[q].at = "delete" => tx[q].rows = {} /\ tx[q].ids = {}
    BY DEF RowsSound, Sent
  <2>1. tx[q].at = "insert" => Head(actions'[q]) = Head(actions[q])
    BY <1>4 DEF IInv, TxKinds
  <2>2. 1..lastId \subseteq 1..lastId'
    BY <1>1
  <2>3. QED
    BY <1>2, <2>1, <2>2 DEF IInv, RowsSound, Sent
<1>8. SeenClosed' /\ Apart'
  <2>1. 1..lastId \subseteq 1..lastId'
    BY <1>1
  <2>2. SeenClosed'
    BY <2>1 DEF IInv, SeenClosed
  <2>3. Apart'
    BY DEF IInv, Apart, Uncommitted
  <2>4. QED
    BY <2>2, <2>3
<1>9. QED
  BY <1>2, <1>5, <1>6, <1>7, <1>8 DEF IInv

LEMMA TailAt ==
  ASSUME NEW S, NEW s \in Seq(S), s # <<>>, NEW k \in DOMAIN Tail(s)
  PROVE  k + 1 \in DOMAIN s /\ Tail(s)[k] = s[k + 1]
<1>1. Len(s) \in Nat /\ Len(s) # 0 /\ DOMAIN s = 1..Len(s)
  OBVIOUS
<1>2. k \in 1..(Len(s) - 1)
  BY <1>1
<1>3. QED
  BY <1>1, <1>2

\* The server's answer: the action is done and its transaction over.
LEMMA Answers ==
  ASSUME IInv, NEW p \in Pages, actions[p] # <<>>, Answer(p), TypeOK', PagesSound',
         lastId <= lastId', Sound(db', lastId'),
         \A q \in Pages \ {p} : /\ Closed(db', tx[q].seen) /\ Closed(db', tx[q].gone)
                                /\ Ids(Uncommitted(q)) \cap Ids(db') = {}
  PROVE  IInv'
<1>1. lastId \in Nat /\ lastId' \in Nat /\ 1..lastId \subseteq 1..lastId'
  BY DEF IInv, TypeOK
<1>2. \A G : Sound(G, lastId) => Sound(G, lastId')
  BY <1>1, SoundGrows
<1>3. tx \in [Pages -> TxOf] /\ \A q \in Pages : actions[q] \in Seq(ActionOf)
  BY Typed DEF IInv, TypeOK, TxOf
<1>4. /\ tx'[p] = NoTx /\ actions'[p] = Tail(actions[p])
      /\ \A q \in Pages \ {p} : tx'[q] = tx[q] /\ actions'[q] = actions[q]
  BY <1>3 DEF Answer, IInv, TypeOK
<1>5. ActionsSound'
  <2> SUFFICES ASSUME NEW q \in Pages, NEW k \in DOMAIN actions'[q]
               PROVE  Sound(actions'[q][k].groups, lastId')
    BY DEF ActionsSound
  <2>1. \E j \in DOMAIN actions[q] : actions'[q][k] = actions[q][j]
    <3>1. CASE q = p
      <4>1. actions[q] \in Seq(ActionOf) /\ actions[q] # <<>> /\ actions'[q] = Tail(actions[q])
        BY <1>3, <1>4, <3>1
      <4>2. k + 1 \in DOMAIN actions[q] /\ actions'[q][k] = actions[q][k + 1]
        BY <4>1, TailAt
      <4>3. QED
        BY <4>2
    <3>2. QED
      BY <1>4, <3>1
  <2>2. QED
    BY <1>2, <2>1 DEF IInv, ActionsSound
<1>6. TxKinds'
  BY <1>4 DEF IInv, TxKinds, NoTx
<1>7. RowsSound'
  <2> SUFFICES ASSUME NEW q \in Pages
      PROVE  /\ tx'[q].at = "classes" => Sound(tx'[q].rows, lastId')
             /\ IsFiniteSet(tx'[q].rows) /\ UniqueIds(tx'[q].rows) /\ Ids(tx'[q].rows) \subseteq 1..lastId'
             /\ tx'[q].at = "insert" => StandsFor(tx'[q].rows, Head(actions'[q]).groups, tx'[q].ids)
             /\ tx'[q].at = "delete" => tx'[q].rows = {} /\ tx'[q].ids = {}
    BY DEF RowsSound, Sent
  <2>1. CASE q = p
    <3>1. tx'[q].rows = {} /\ tx'[q].at = "idle"
      BY <1>4, <2>1 DEF NoTx
    <3>2. QED
      BY <3>1, FS_EmptySet DEF UniqueIds, Ids
  <2>2. CASE q # p
    BY <1>1, <1>2, <1>4, <2>2 DEF IInv, RowsSound, Sent
  <2>3. QED
    BY <2>1, <2>2
<1>8. SeenClosed'
  <2> SUFFICES ASSUME NEW q \in Pages
      PROVE  /\ tx'[q].seen \cup tx'[q].gone \subseteq 1..lastId'
             /\ Closed(db', tx'[q].seen) /\ Closed(db', tx'[q].gone)
    BY DEF SeenClosed
  <2>1. CASE q = p
    BY <1>4, <2>1 DEF NoTx, Closed
  <2>2. CASE q # p
    BY <1>1, <1>4, <2>2 DEF IInv, SeenClosed
  <2>3. QED
    BY <2>1, <2>2
<1>9. Apart'
  <2>1. /\ Uncommitted(p)' = {} /\ tx'[p].seen \cup tx'[p].gone = {}
        /\ \A q \in Pages \ {p} : /\ Uncommitted(q)' = Uncommitted(q)
                                  /\ tx'[q].seen = tx[q].seen /\ tx'[q].gone = tx[q].gone
    BY <1>4 DEF Uncommitted, NoTx
  <2>2. Ids(Uncommitted(p)') = {}
    BY <2>1 DEF Ids
  <2>3. \A q \in Pages \ {p} : Ids(Uncommitted(q)') = Ids(Uncommitted(q))
    BY <2>1
  <2>4. \A q, r \in Pages : /\ Ids(Uncommitted(q)) \cap (tx[r].seen \cup tx[r].gone) = {}
                            /\ q # r => Ids(Uncommitted(q)) \cap Ids(Uncommitted(r)) = {}
    BY DEF IInv, Apart
  <2>5. \A q \in Pages : Ids(Uncommitted(q)') \cap Ids(db') = {}
    BY <2>2, <2>3
  <2>6. \A q, r \in Pages : Ids(Uncommitted(q)') \cap (tx'[r].seen \cup tx'[r].gone) = {}
    BY <2>1, <2>2, <2>3, <2>4
  <2>7. \A q, r \in Pages : q # r => Ids(Uncommitted(q)') \cap Ids(Uncommitted(r)') = {}
    BY <2>2, <2>3, <2>4
  <2>8. QED
    BY <2>5, <2>6, <2>7 DEF Apart, Ids
<1>10. QED
  BY <1>5, <1>6, <1>7, <1>8, <1>9 DEF IInv

-----------------------------------------------------------------------------
(* The steps of a page.                                                    *)

\* A step that changes the groups of one page and may send a save.
LEMMA PageChange ==
  ASSUME IInv, NEW p \in Pages, NEW G, lastId' \in Nat, lastId <= lastId', Sound(G, lastId'),
         groups' = [groups EXCEPT ![p] = G], Edit, UNCHANGED <<copying, tx, db>>,
         \/ UNCHANGED actions
         \/ \E a \in ActionOf : Send(p, a) /\ Sound(a.groups, lastId')
  PROVE  IInv'
<1>1. TypeOK /\ lastId \in Nat
  BY DEF IInv, TypeOK
<1>2. edits' \in 0..MaxEdits
  BY <1>1, BoundsAssumption DEF Edit, TypeOK
<1>3. G \subseteq GroupsOf
  BY DEF Sound
<1>4. groups' \in [Pages -> SUBSET GroupsOf]
  BY <1>1, <1>3 DEF TypeOK
<1>5. /\ actions' \in [Pages -> Seq(ActionOf)]
      /\ \A q \in Pages :
           \/ actions'[q] = actions[q]
           \/ \E a \in ActionOf : actions'[q] = Append(actions[q], a) /\ Sound(a.groups, lastId')
  <2>1. actions \in [Pages -> Seq(ActionOf)]
    BY <1>1 DEF TypeOK, ActionOf
  <2>2. CASE UNCHANGED actions
    BY <2>1, <2>2
  <2>3. CASE \E a \in ActionOf : Send(p, a) /\ Sound(a.groups, lastId')
    <3>1. PICK a \in ActionOf : Send(p, a) /\ Sound(a.groups, lastId')
      BY <2>3
    <3>2. actions' = [actions EXCEPT ![p] = Append(actions[p], a)]
      BY <3>1 DEF Send
    <3>3. Append(actions[p], a) \in Seq(ActionOf)
      BY <2>1
    <3>4. QED
      BY <2>1, <3>1, <3>2, <3>3
  <2>4. QED
    BY <2>2, <2>3
<1>6. TypeOK'
  BY <1>1, <1>2, <1>4, <1>5 DEF TypeOK, ActionOf
<1>7. PagesSound'
  <2> SUFFICES ASSUME NEW q \in Pages
               PROVE  /\ Sound(groups'[q], lastId') /\ Sound(copying[q].from, lastId')
                      /\ copying[q].at = "added" =>
                           /\ copying[q].group.parent = NoParent
                           /\ copying[q].group.id \in 1..lastId' \ Ids(copying[q].from)
    BY DEF PagesSound
  <2>1. groups'[q] = IF q = p THEN G ELSE groups[q]
    BY <1>1 DEF TypeOK
  <2>2. 1..lastId \subseteq 1..lastId'
    BY <1>1
  <2>3. QED
    BY <1>1, <2>1, <2>2, SoundGrows DEF IInv, PagesSound
<1>8. QED
  BY <1>5, <1>6, <1>7, PageSide

LEMMA SaveIsAction ==
  ASSUME NEW G, G \subseteq GroupsOf
  PROVE  Save(G) \in ActionOf /\ Save(G).groups = G
  BY DEF Save, ActionOf

\* What a page and its handlers close over is sound, and one may be saved.
LEMMA PageIsSound ==
  ASSUME IInv, NEW p \in Pages
  PROVE  /\ lastId \in Nat /\ Sound(groups[p], lastId) /\ Sound(copying[p].from, lastId)
         /\ \A n \in Nat : n >= lastId => Sound(groups[p], n)
<1>1. lastId \in Nat /\ Sound(groups[p], lastId) /\ Sound(copying[p].from, lastId)
  BY DEF IInv, TypeOK, PagesSound
<1>2. QED
  BY <1>1, SoundGrows

LEMMA NewGroupIsTop ==
  ASSUME IInv, NEW p \in Pages
  PROVE  Sound(groups[p] \cup {NewGroup(p)}, lastId + 1)
<1>1. /\ lastId \in Nat /\ Sound(groups[p], lastId + 1)
      /\ Ids(groups[p]) \subseteq 1..lastId /\ Cardinality(groups[p]) \in Nat
  BY PageIsSound, NewNumber DEF Sound
<1>2. NewGroup(p) \in GroupsOf /\ NewGroup(p).parent = NoParent /\ NewGroup(p).id = lastId + 1
  BY <1>1 DEF NewGroup, Group, GroupsOf, NoParent
<1>3. QED
  BY <1>1, <1>2, AddTop

LEMMA CreateGroupStep == ASSUME IInv, NEW p \in Pages, CreateGroup(p) PROVE IInv'
<1>1. lastId \in Nat /\ Sound(groups[p], lastId') /\ lastId' = lastId + 1
  BY PageIsSound DEF CreateGroup
<1>2. Sound(groups[p] \cup {NewGroup(p)}, lastId')
  BY <1>1, NewGroupIsTop
<1>3. groups' = [groups EXCEPT ![p] = groups[p] \cup {NewGroup(p)}]
  BY DEF CreateGroup
<1>4. Save(groups[p]) \in ActionOf /\ Save(groups[p]).groups = groups[p]
  BY <1>1, SaveIsAction DEF Sound
<1>5. Edit /\ Send(p, Save(groups[p])) /\ UNCHANGED <<copying, tx, db>>
  BY DEF CreateGroup
<1>6. \E a \in ActionOf : Send(p, a) /\ Sound(a.groups, lastId')
  BY <1>1, <1>4, <1>5
<1>7. lastId' \in Nat /\ lastId <= lastId'
  BY <1>1
<1>8. QED
  BY <1>2, <1>3, <1>5, <1>6, <1>7, PageChange

\* Every handler that updates the groups and saves them as they are then.
LEMMA ChangeStep ==
  ASSUME IInv, NEW p \in Pages, NEW G, Sound(G, lastId'), lastId' \in Nat, lastId <= lastId',
         Edit, Change(p, G), UNCHANGED <<copying, tx, db>>
  PROVE  IInv'
<1>1. Save(G) \in ActionOf /\ Save(G).groups = G
  BY SaveIsAction DEF Sound
<1>2. groups' = [groups EXCEPT ![p] = G] /\ Send(p, Save(G))
  BY DEF Change
<1>3. QED
  BY <1>1, <1>2, PageChange

LEMMA CreateAtStep == ASSUME IInv, NEW p \in Pages, CreateGroupAtPosition(p) PROVE IInv'
<1>1. lastId \in Nat /\ lastId' = lastId + 1 /\ Sound(groups[p] \cup {NewGroup(p)}, lastId')
  BY PageIsSound, NewGroupIsTop DEF CreateGroupAtPosition
<1>2. QED
  BY <1>1, ChangeStep DEF CreateGroupAtPosition

LEMMA RenameStep ==
  ASSUME IInv, NEW p \in Pages, NEW g \in groups[p], NEW name \in Names, RenameGroup(p, g, name)
  PROVE  IInv'
<1> DEFINE h == [g EXCEPT !.name = name]
<1>1. lastId \in Nat /\ lastId' = lastId /\ Sound(groups[p], lastId) /\ g \in GroupsOf
  BY PageIsSound, SoundForest DEF RenameGroup
<1>2. h \in GroupsOf /\ h.id = g.id /\ h.parent = g.parent
  BY <1>1, StoredAssumption DEF GroupsOf
<1> HIDE DEF h
<1>3. Sound((groups[p] \ {g}) \cup {h}, lastId)
  BY <1>1, <1>2, OneRelabelled
<1>4. QED
  BY <1>1, <1>3, ChangeStep DEF RenameGroup, h

LEMMA DragStep ==
  ASSUME IInv, NEW p \in Pages, NEW g \in groups[p],
         NEW parent \in Ids(groups[p]) \cup {NoParent}, DragGroup(p, g, parent)
  PROVE  IInv'
<1>1. lastId \in Nat /\ lastId' = lastId /\ Sound(groups[p], lastId)
  BY PageIsSound DEF DragGroup
<1>2. Sound(Moved(groups[p], g, parent), lastId)
  BY <1>1, DragKeepsForest DEF DragGroup
<1>3. QED
  BY <1>1, <1>2, ChangeStep DEF DragGroup, Moved

LEMMA DeleteStep ==
  ASSUME IInv, NEW p \in Pages, NEW g \in groups[p], DeleteGroup(p, g)
  PROVE  IInv'
<1>1. lastId \in Nat /\ lastId' = lastId /\ Sound(groups[p], lastId)
  BY PageIsSound DEF DeleteGroup
<1>2. Sound(Without(groups[p], Subtree(groups[p], g.id)), lastId)
  BY <1>1, DeleteKeepsForest
<1>3. QED
  BY <1>1, <1>2, ChangeStep DEF DeleteGroup

LEMMA SendStep ==
  ASSUME IInv, NEW p \in Pages, NEW g, RestyleGroup(p, g) \/ AutoSave(p) \/ LoadClasses(p)
  PROVE  IInv'
<1>1. /\ lastId \in Nat /\ lastId' = lastId /\ Sound(groups[p], lastId)
      /\ groups[p] \subseteq GroupsOf /\ groups = [groups EXCEPT ![p] = groups[p]]
  BY PageIsSound DEF RestyleGroup, AutoSave, LoadClasses, IInv, TypeOK
<1>2. CASE RestyleGroup(p, g)
  BY <1>1, <1>2, ChangeStep DEF RestyleGroup
<1>3. CASE AutoSave(p)
  BY <1>1, <1>3, SaveIsAction, PageChange DEF AutoSave
<1>4. CASE LoadClasses(p)
  <2>1. Load \in ActionOf /\ Sound(Load.groups, lastId)
    BY <1>1, SoundEmpty DEF Load, ActionOf
  <2>2. QED
    BY <1>1, <1>4, <2>1, PageChange DEF LoadClasses
<1>5. QED
  BY <1>2, <1>3, <1>4

LEMMA RemoveStep ==
  ASSUME IInv, NEW p \in Pages, NEW g \in groups[p], NEW c \in Classes, RemoveNodeFromGroup(p, g, c)
  PROVE  IInv'
<1> DEFINE h == [g EXCEPT !.classes = @ \ {c}]
<1>1. lastId \in Nat /\ lastId' = lastId /\ Sound(groups[p], lastId) /\ g \in GroupsOf
  BY PageIsSound, SoundForest DEF RemoveNodeFromGroup
<1>2. h \in GroupsOf /\ h.id = g.id /\ h.parent = g.parent
  BY <1>1 DEF GroupsOf
<1> HIDE DEF h
<1>3. Sound((groups[p] \ {g}) \cup {h}, lastId)
  BY <1>1, <1>2, OneRelabelled
<1>4. /\ Edit /\ UNCHANGED <<copying, actions, tx, db>>
      /\ groups' = [groups EXCEPT ![p] = (groups[p] \ {g}) \cup {h}]
  BY DEF RemoveNodeFromGroup, h
<1>5. lastId' \in Nat /\ lastId <= lastId' /\ Sound((groups[p] \ {g}) \cup {h}, lastId')
  BY <1>1, <1>3
<1>6. QED
  BY <1>4, <1>5, PageChange

LEMMA DropStep ==
  ASSUME IInv, NEW p \in Pages, NEW g \in groups[p], NEW c \in Classes, DropClass(p, g, c)
  PROVE  IInv'
<1> DEFINE G == groups[p]
           had == {h \in G : c \in h.classes}
           k == [g EXCEPT !.classes = @ \cup {c}]
           Left(from) == (G \ (from \cup {g})) \cup {[h EXCEPT !.classes = @ \ {c}] : h \in from}
                                                \cup {k}
<1>1. /\ lastId \in Nat /\ lastId' = lastId /\ Sound(G, lastId)
      /\ \A h \in G : h \in GroupsOf
  BY PageIsSound, SoundForest DEF DropClass
<1>2. PICK from \in IF had = {} THEN {{}} ELSE {{h} : h \in had \ {g}} :
        groups' = [groups EXCEPT ![p] = Left(from)]
  BY DEF DropClass
<1>3. k \in GroupsOf /\ k.id = g.id /\ k.parent = g.parent
  BY <1>1 DEF GroupsOf
<1>4. Sound(Left(from), lastId)
  <2>1. CASE from = {}
    <3> HIDE DEF k
    <3>1. Left(from) = (G \ {g}) \cup {k}
      BY <2>1
    <3>2. QED
      BY <1>1, <1>3, <3>1, OneRelabelled
  <2>2. CASE \E h \in G \ {g} : from = {h}
    <3>1. PICK h \in G \ {g} : from = {h}
      BY <2>2
    <3> DEFINE m == [h EXCEPT !.classes = @ \ {c}]
    <3>2. m \in GroupsOf /\ m.id = h.id /\ m.parent = h.parent
      BY <1>1 DEF GroupsOf
    <3>3. Left(from) = (((G \ {h}) \cup {m}) \ {g}) \cup {k}
      <4>1. h # g /\ h.id # g.id
        BY <1>1, <3>1, SoundForest DEF Forest, UniqueIds
      <4>2. m # g
        BY <3>2, <4>1
      <4>3. {[x EXCEPT !.classes = @ \ {c}] : x \in from} = {m}
        BY <3>1
      <4> HIDE DEF k, m
      <4>4. QED
        BY <3>1, <4>1, <4>2, <4>3
    <3> HIDE DEF m, k
    <3>4. Sound((G \ {h}) \cup {m}, lastId)
      BY <1>1, <3>2, OneRelabelled
    <3>5. g \in (G \ {h}) \cup {m}
      BY <3>1
    <3>6. QED
      BY <1>1, <1>3, <3>3, <3>4, <3>5, OneRelabelled
  <2>3. QED
    BY <1>2, <2>1, <2>2
<1>5. UNCHANGED actions \/ \E a \in ActionOf : Send(p, a) /\ Sound(a.groups, lastId)
  <2>1. Add(g.id, c) \in ActionOf /\ Add(g.id, c).groups = {}
    BY <1>1 DEF Add, ActionOf, GroupsOf
  <2>2. Sound({}, lastId)
    BY <1>1, SoundEmpty
  <2>3. QED
    BY <2>1, <2>2 DEF DropClass
<1> HIDE DEF Left
<1>6. QED
  BY <1>1, <1>2, <1>4, <1>5, PageChange DEF DropClass

\* A duplication begins, or ends by a save of what it has closed over.
LEMMA CopyingStep ==
  ASSUME IInv, NEW p \in Pages, NEW k, copying' = [copying EXCEPT ![p] = k],
         k \in CopyOf,
         Sound(k.from, lastId), k.at # "added", UNCHANGED <<groups, tx, db, lastId>>,
         edits' \in 0..MaxEdits,
         NEW a \in ActionOf, Send(p, a), Sound(a.groups, lastId)
  PROVE  IInv'
<1>1. TypeOK /\ lastId \in Nat
  BY DEF IInv, TypeOK
<1>2. /\ actions' \in [Pages -> Seq(ActionOf)]
      /\ \A q \in Pages : actions'[q] = IF q = p THEN Append(actions[q], a) ELSE actions[q]
  <2>1. actions \in [Pages -> Seq(ActionOf)]
    BY <1>1 DEF TypeOK, ActionOf
  <2>2. actions' = [actions EXCEPT ![p] = Append(actions[p], a)]
    BY DEF Send
  <2>3. Append(actions[p], a) \in Seq(ActionOf)
    BY <2>1
  <2>4. QED
    BY <2>1, <2>2, <2>3
<1>3. TypeOK'
  BY <1>1, <1>2, TypeParts, TypePartsPrimed
<1>4. \A q \in Pages : copying'[q] = IF q = p THEN k ELSE copying[q]
  BY <1>1, TypeParts
<1>5. PagesSound'
  BY <1>4 DEF IInv, PagesSound
<1>6. QED
  BY <1>1, <1>2, <1>3, <1>5, PageSide

LEMMA DuplicateStep ==
  ASSUME IInv, NEW p \in Pages, NEW g \in groups[p], DuplicateGroup(p, g)
  PROVE  IInv'
<1> DEFINE k == [copying[p] EXCEPT !.at = "asked", !.from = groups[p]]
<1>1. /\ lastId \in Nat /\ Sound(groups[p], lastId) /\ groups[p] \subseteq GroupsOf
      /\ copying[p] \in CopyOf
  BY PageIsSound, TypeParts DEF Sound, IInv
<1>2. /\ copying' = [copying EXCEPT ![p] = k]
      /\ k \in CopyOf
      /\ k.from = groups[p] /\ k.at = "asked"
  BY <1>1 DEF DuplicateGroup, CopyOf
<1>3. edits' \in 0..MaxEdits
  BY BoundsAssumption DEF DuplicateGroup, Edit, IInv, TypeOK
<1>4. Copy \in ActionOf /\ Sound(Copy.groups, lastId)
  BY <1>1, SoundEmpty DEF Copy, ActionOf
<1>5. Send(p, Copy) /\ UNCHANGED <<groups, tx, db, lastId>>
  BY DEF DuplicateGroup
<1> HIDE DEF k
<1>6. QED
  BY <1>1, <1>2, <1>3, <1>4, <1>5, CopyingStep

LEMMA SaveDuplicateStep == ASSUME IInv, NEW p \in Pages, SaveDuplicate(p) PROVE IInv'
<1> DEFINE G == copying[p].from \cup {copying[p].group}
<1>1. /\ lastId \in Nat /\ Sound(copying[p].from, lastId)
      /\ copying[p].group \in GroupsOf /\ copying[p].group.parent = NoParent
      /\ copying[p].group.id \in 1..lastId /\ copying[p].group.id \notin Ids(copying[p].from)
  BY PageIsSound DEF SaveDuplicate, IInv, PagesSound, TypeOK
<1>2. Sound(G, lastId)
  BY <1>1, AddTop
<1>3. Save(G) \in ActionOf /\ Save(G).groups = G
  BY <1>2, SaveIsAction DEF Sound
<1>4. /\ NotCopying \in CopyOf
      /\ Sound(NotCopying.from, lastId) /\ NotCopying.at = "none"
  BY <1>1, SoundEmpty DEF NotCopying, CopyOf, Group, GroupsOf, NoParent
<1>5. Send(p, Save(G)) /\ UNCHANGED <<groups, tx, db, lastId>>
  BY DEF SaveDuplicate
<1>6. edits' \in 0..MaxEdits /\ copying' = [copying EXCEPT ![p] = NotCopying]
  BY TypeParts DEF SaveDuplicate, IInv
<1> HIDE DEF G
<1>7. QED
  BY <1>2, <1>3, <1>4, <1>5, <1>6, CopyingStep

LEMMA PageStepKeeps == ASSUME IInv, NEW p \in Pages, PageStep(p) PROVE IInv'
  BY CreateGroupStep, CreateAtStep, SendStep, SaveDuplicateStep, RenameStep, DragStep, DeleteStep,
     DuplicateStep, DropStep, RemoveStep DEF PageStep

-----------------------------------------------------------------------------
(* The steps of the server.                                                *)

LEMMA InFlightFacts ==
  ASSUME IInv, NEW p \in Pages, NEW kind, NEW at, InFlight(p, kind, at)
  PROVE  /\ actions[p] # <<>> /\ Head(actions[p]) \in ActionOf
         /\ Sound(Head(actions[p]).groups, lastId)
         /\ tx[p].at = at /\ Head(actions[p]).kind = kind
         /\ lastId \in Nat /\ Sound(db, lastId) /\ tx[p] \in TxOf
<1>1. actions[p] \in Seq(ActionOf) /\ actions[p] # <<>>
  BY Typed DEF IInv, InFlight
<1>2. Head(actions[p]) = actions[p][1] /\ 1 \in DOMAIN actions[p]
  BY <1>1
<1>3. Head(actions[p]) \in ActionOf /\ Sound(Head(actions[p]).groups, lastId)
  BY <1>1, <1>2 DEF IInv, ActionsSound
<1>4. QED
  BY <1>1, <1>3, Typed DEF IInv, InFlight

\* Answers that change neither the pages nor the transactions of the others.
LEMMA AnswerTyped ==
  ASSUME IInv, NEW p \in Pages, actions[p] # <<>>, Answer(p)
  PROVE  /\ actions' \in [Pages -> Seq(ActionOf)] /\ tx' \in [Pages -> TxOf]
<1>1. actions \in [Pages -> Seq(ActionOf)] /\ tx \in [Pages -> TxOf]
  BY DEF IInv, TypeOK, ActionOf, TxOf
<1>2. Tail(actions[p]) \in Seq(ActionOf) /\ NoTx \in TxOf
  BY <1>1 DEF NoTx, TxOf
<1>3. QED
  BY <1>1, <1>2 DEF Answer

LEMMA FailSyncStep == ASSUME IInv, NEW p \in Pages, FailSync(p) PROVE IInv'
<1>1. actions[p] # <<>> /\ Sound(db, lastId) /\ Answer(p) /\ UNCHANGED <<groups, copying, db, lastId, edits>>
  BY InFlightFacts DEF FailSync
<1>2. TypeOK' /\ lastId <= lastId'
  BY <1>1, AnswerTyped, TypeParts, TypePartsPrimed DEF IInv
<1>3. PagesSound'
  BY <1>1 DEF IInv, PagesSound
<1>4. \A q \in Pages : /\ Closed(db', tx[q].seen) /\ Closed(db', tx[q].gone)
                       /\ Ids(Uncommitted(q)) \cap Ids(db') = {}
  BY <1>1 DEF IInv, SeenClosed, Apart
<1>5. QED
  BY <1>1, <1>2, <1>3, <1>4, Answers

LEMMA AddClassStep == ASSUME IInv, NEW p \in Pages, AddClassToGroup(p) PROVE IInv'
<1> DEFINE a == Head(actions[p])
           f == [r \in db |-> IF r.id = a.id THEN [r EXCEPT !.classes = @ \cup a.classes] ELSE r]
<1>1. /\ actions[p] # <<>> /\ a \in ActionOf /\ lastId \in Nat /\ Sound(db, lastId) /\ Answer(p)
      /\ UNCHANGED <<groups, copying, lastId, edits>>
  BY InFlightFacts DEF AddClassToGroup
<1>2. \A r \in db : f[r] \in GroupsOf /\ f[r].id = r.id /\ f[r].parent = r.parent
  <2>1. \A r \in db : r \in GroupsOf
    BY <1>1, SoundForest
  <2>2. a.classes \subseteq Classes
    BY <1>1 DEF ActionOf
  <2> HIDE DEF a
  <2>3. QED
    BY <2>1, <2>2 DEF GroupsOf
<1>3. db' = {f[r] : r \in db}
  BY DEF AddClassToGroup
<1> HIDE DEF f
<1>4. Sound(db', lastId) /\ Ids(db') = Ids(db)
  <2>1. IsFiniteSet(db')
    BY <1>1, <1>3, FiniteImage DEF Sound
  <2>2. /\ db' \subseteq GroupsOf
        /\ \A h \in db' : \E g \in db : h.id = g.id /\ h.parent = g.parent
        /\ \A g \in db : \E h \in db' : h.id = g.id /\ h.parent = g.parent
    BY <1>2, <1>3
  <2>3. UniqueIds(db')
    BY <1>1, <1>2, <1>3, SoundForest DEF Forest, UniqueIds
  <2>4. QED
    BY <1>1, <2>1, <2>2, <2>3, Relabelled
<1>5. TypeOK' /\ lastId <= lastId'
  BY <1>1, <1>4, AnswerTyped, TypeParts, TypePartsPrimed DEF IInv, Sound
<1>6. PagesSound'
  BY <1>1 DEF IInv, PagesSound
<1>7. \A S : Closed(db, S) => Closed(db', S)
  BY <1>2, <1>3 DEF Closed
<1>8. \A q \in Pages : /\ Closed(db', tx[q].seen) /\ Closed(db', tx[q].gone)
                       /\ Ids(Uncommitted(q)) \cap Ids(db') = {}
  BY <1>4, <1>7 DEF IInv, SeenClosed, Apart
<1>9. QED
  BY <1>1, <1>4, <1>5, <1>6, <1>8, Answers

LEMMA ReadClassesStep == ASSUME IInv, NEW p \in Pages, ReadClasses(p) PROVE IInv'
<1> DEFINE R == tx[p].rows
           f == [g \in R |-> [g EXCEPT !.classes = UNION {r.classes : r \in {s \in db : s.id = g.id}}]]
           G == {f[g] : g \in R}
<1>1. /\ actions[p] # <<>> /\ lastId \in Nat /\ Sound(db, lastId) /\ Answer(p)
      /\ tx[p].at = "classes" /\ UNCHANGED <<copying, db, lastId, edits>>
  BY InFlightFacts DEF ReadClasses
<1>2. Sound(R, lastId)
  BY <1>1 DEF IInv, RowsSound
<1>3. \A g \in R : f[g] \in GroupsOf /\ f[g].id = g.id /\ f[g].parent = g.parent
  <2>1. \A r \in db \cup R : r \in GroupsOf
    BY <1>1, <1>2, SoundForest
  <2>2. \A g \in R : UNION {r.classes : r \in {s \in db : s.id = g.id}} \in SUBSET Classes
    BY <2>1 DEF GroupsOf
  <2>3. QED
    BY <2>1, <2>2 DEF GroupsOf
<1>4. groups' = [groups EXCEPT ![p] = G]
  BY DEF ReadClasses
<1> HIDE DEF f, R
<1>5. Sound(G, lastId)
  <2>1. IsFiniteSet(G)
    BY <1>2, FiniteImage DEF Sound
  <2>2. /\ G \subseteq GroupsOf
        /\ \A h \in G : \E g \in R : h.id = g.id /\ h.parent = g.parent
        /\ \A g \in R : \E h \in G : h.id = g.id /\ h.parent = g.parent
    BY <1>3
  <2>3. UniqueIds(G)
    BY <1>2, <1>3, SoundForest DEF Forest, UniqueIds
  <2>4. lastId \in Nat
    BY <1>1
  <2> HIDE DEF G
  <2>5. QED
    BY <1>2, <2>1, <2>2, <2>3, <2>4, Relabelled
<1> HIDE DEF G
<1>6. groups' \in [Pages -> SUBSET GroupsOf] /\ \A q \in Pages : groups'[q] = IF q = p THEN G ELSE groups[q]
  BY <1>4, <1>5 DEF IInv, TypeOK, Sound
<1>7. TypeOK' /\ lastId <= lastId'
  BY <1>1, <1>6, AnswerTyped, TypeParts, TypePartsPrimed DEF IInv
<1>8. PagesSound'
  BY <1>1, <1>5, <1>6 DEF IInv, PagesSound
<1>9. \A q \in Pages : /\ Closed(db', tx[q].seen) /\ Closed(db', tx[q].gone)
                       /\ Ids(Uncommitted(q)) \cap Ids(db') = {}
  BY <1>1 DEF IInv, SeenClosed, Apart
<1>10. QED
  BY <1>1, <1>7, <1>8, <1>9, Answers

LEMMA CopyClassesStep == ASSUME IInv, NEW p \in Pages, CopyClasses(p) PROVE IInv'
<1> DEFINE name == FreeCopyName(copying[p].from)
           copy == Group(lastId + 1, name, NoParent, {})
           k == [copying[p] EXCEPT !.at = "added", !.group = copy]
<1>1. /\ actions[p] # <<>> /\ lastId \in Nat /\ Sound(db, lastId) /\ Answer(p)
      /\ lastId' = lastId + 1 /\ UNCHANGED <<db, edits>>
  BY InFlightFacts DEF CopyClasses
<1>2. /\ Sound(groups[p], lastId) /\ Sound(groups[p], lastId') /\ Sound(db, lastId')
      /\ Sound(copying[p].from, lastId)
  BY <1>1, PageIsSound, SoundGrows
<1>3. copy \in GroupsOf /\ copy.id = lastId + 1 /\ copy.parent = NoParent
  BY <1>1, <1>2, FreeNumber DEF Group, GroupsOf, NoParent
<1>4. Ids(groups[p]) \subseteq 1..lastId /\ Ids(copying[p].from) \subseteq 1..lastId
  BY <1>2 DEF Sound
<1>5. /\ copying' = [copying EXCEPT ![p] = k]
      /\ groups' = [groups EXCEPT ![p] = groups[p] \cup {copy}]
  BY DEF CopyClasses
<1> HIDE DEF name, copy
<1>6. Sound(groups[p] \cup {copy}, lastId')
  BY <1>1, <1>2, <1>3, <1>4, AddTop
<1>7. /\ k \in CopyOf
      /\ k.from = copying[p].from /\ k.group = copy
  BY <1>3, TypeParts DEF IInv, CopyOf
<1> HIDE DEF k
<1>8. /\ copying' \in [Pages -> CopyOf]
      /\ groups' \in [Pages -> SUBSET GroupsOf]
      /\ \A q \in Pages : /\ copying'[q] = IF q = p THEN k ELSE copying[q]
                          /\ groups'[q] = IF q = p THEN groups[p] \cup {copy} ELSE groups[q]
  <2>1. /\ groups \in [Pages -> SUBSET GroupsOf] /\ copying \in [Pages -> CopyOf]
        /\ groups[p] \cup {copy} \in SUBSET GroupsOf
    BY <1>3, TypeParts DEF IInv
  <2>2. QED
    BY <1>5, <1>7, <2>1
<1>9. TypeOK' /\ lastId <= lastId'
  BY <1>1, <1>8, AnswerTyped, TypeParts, TypePartsPrimed DEF IInv
<1>10. PagesSound'
  <2> SUFFICES ASSUME NEW q \in Pages
               PROVE  /\ Sound(groups'[q], lastId') /\ Sound(copying'[q].from, lastId')
                      /\ copying'[q].at = "added" =>
                           /\ copying'[q].group.parent = NoParent
                           /\ copying'[q].group.id \in 1..lastId' \ Ids(copying'[q].from)
    BY DEF PagesSound
  <2> DEFINE inside == 1..lastId \subseteq 1..lastId'
  <2>3. inside /\ lastId' \in Nat /\ lastId <= lastId' /\ lastId' \in 1..lastId' \ (1..lastId)
    BY <1>1
  <2>4. \A G : Sound(G, lastId) => Sound(G, lastId')
    BY <1>1, <2>3, SoundGrows
  <2>1. CASE q = p
    <3>1. groups'[q] = groups[p] \cup {copy} /\ copying'[q] = k
      BY <1>8, <2>1
    <3>2. lastId + 1 \notin Ids(copying[p].from)
      BY <1>1, <1>4
    <3>3. QED
      BY <1>1, <1>2, <1>3, <1>6, <1>7, <2>3, <2>4, <3>1, <3>2
  <2>2. CASE q # p
    <3>1. groups'[q] = groups[q] /\ copying'[q] = copying[q]
      BY <1>8, <2>2
    <3>2. /\ Sound(groups[q], lastId) /\ Sound(copying[q].from, lastId)
          /\ copying[q].at = "added" =>
               /\ copying[q].group.parent = NoParent
               /\ copying[q].group.id \in 1..lastId \ Ids(copying[q].from)
      BY DEF IInv, PagesSound
    <3>3. QED
      BY <2>3, <2>4, <3>1, <3>2
  <2>5. QED
    BY <2>1, <2>2
<1>11. \A q \in Pages : /\ Closed(db', tx[q].seen) /\ Closed(db', tx[q].gone)
                        /\ Ids(Uncommitted(q)) \cap Ids(db') = {}
  BY <1>1 DEF IInv, SeenClosed, Apart
<1>12. QED
  BY <1>1, <1>2, <1>9, <1>10, <1>11, Answers

LEMMA CommitStep == ASSUME IInv, NEW p \in Pages, Commit(p) PROVE IInv'
<1> DEFINE R == tx[p].rows
           S == tx[p].gone
<1>1. /\ actions[p] # <<>> /\ lastId \in Nat /\ Sound(db, lastId) /\ Answer(p) /\ tx[p].at = "insert"
      /\ Sound(Sent(p), lastId) /\ UNCHANGED <<groups, copying, lastId, edits>>
  BY InFlightFacts DEF Commit, Sent
<1>2. db' = Without(db, S) \cup R
  BY DEF Commit
<1>3. R \subseteq GroupsOf
  BY TypeParts DEF IInv, TxOf
<1>4. Sound(R, lastId)
  BY <1>1, <1>3, StandsSound DEF IInv, RowsSound
<1>5. /\ Closed(db, S) /\ Ids(R) \cap Ids(db) = {}
      /\ \A q \in Pages : /\ Closed(db, tx[q].seen) /\ Closed(db, tx[q].gone)
                          /\ Ids(R) \cap tx[q].seen = {} /\ Ids(R) \cap tx[q].gone = {}
                          /\ Ids(Uncommitted(q)) \cap Ids(db) = {}
                          /\ q # p => Ids(R) \cap Ids(Uncommitted(q)) = {}
  BY <1>1 DEF IInv, SeenClosed, Apart, Uncommitted
<1> HIDE DEF R, S
<1>6. Sound(db', lastId)
  BY <1>1, <1>2, <1>4, <1>5, CommitSound
<1>7. Ids(db') \subseteq Ids(db) \cup Ids(R)
  BY <1>2 DEF Ids, Without
<1>8. \A q \in Pages \ {p} : /\ Closed(db', tx[q].seen) /\ Closed(db', tx[q].gone)
                             /\ Ids(Uncommitted(q)) \cap Ids(db') = {}
  <2> TAKE q \in Pages \ {p}
  <2>1. /\ Closed(db, tx[q].seen) /\ Closed(db, tx[q].gone)
        /\ Ids(R) \cap tx[q].seen = {} /\ Ids(R) \cap tx[q].gone = {}
        /\ Ids(Uncommitted(q)) \cap Ids(db) = {} /\ Ids(R) \cap Ids(Uncommitted(q)) = {}
    BY <1>5
  <2>2. Closed(db', tx[q].seen) /\ Closed(db', tx[q].gone)
    BY <1>2, <1>4, <2>1, CommitClosed
  <2>3. QED
    BY <1>7, <2>1, <2>2
<1>9. TypeOK' /\ lastId <= lastId'
  BY <1>1, <1>6, AnswerTyped, TypeParts, TypePartsPrimed DEF IInv, Sound
<1>10. PagesSound'
  BY <1>1 DEF IInv, PagesSound
<1>11. QED
  BY <1>1, <1>6, <1>8, <1>9, <1>10, Answers

\* A step inside the transaction of one page, or one that begins it.
LEMMA TxSide ==
  ASSUME IInv, NEW p \in Pages, UNCHANGED <<groups, copying, actions, db, edits>>,
         lastId' \in Nat, lastId <= lastId', tx' \in [Pages -> TxOf],
         \A q \in Pages \ {p} :
           /\ tx'[q].at = tx[q].at /\ tx'[q].rows = tx[q].rows /\ tx'[q].ids = tx[q].ids
           /\ tx'[q].seen = tx[q].seen /\ tx'[q].gone = tx[q].gone,
         actions[p] # <<>>,
         Head(actions[p]).kind = IF tx'[p].at = "classes" THEN "load" ELSE "save",
         tx'[p].at = "classes" => Sound(tx'[p].rows, lastId'),
         IsFiniteSet(tx'[p].rows), UniqueIds(tx'[p].rows), Ids(tx'[p].rows) \subseteq 1..lastId',
         tx'[p].at = "insert" => StandsFor(tx'[p].rows, Sent(p), tx'[p].ids),
         tx'[p].at = "delete" => tx'[p].rows = {} /\ tx'[p].ids = {},
         tx'[p].seen \cup tx'[p].gone \subseteq Ids(db) \cup tx[p].seen \cup tx[p].gone,
         Closed(db, tx'[p].seen), Closed(db, tx'[p].gone),
         Ids(Uncommitted(p)') \subseteq Ids(Uncommitted(p)) \cup (lastId + 1)..lastId'
  PROVE  IInv'
<1> DEFINE new == (lastId + 1)..lastId'
<1>1. TypeOK' /\ lastId \in Nat
  BY TypeParts, TypePartsPrimed DEF IInv
<1>2. /\ \A G : Sound(G, lastId) => Sound(G, lastId')
      /\ 1..lastId \subseteq 1..lastId' /\ new \cap 1..lastId = {}
  BY <1>1, SoundGrows
<1> HIDE DEF new
<1>3. PagesSound'
  BY <1>2 DEF IInv, PagesSound
<1>4. ActionsSound'
  BY <1>2 DEF IInv, ActionsSound
<1>5. TxKinds'
  BY DEF IInv, TxKinds
<1>6. RowsSound'
  <2> SUFFICES ASSUME NEW q \in Pages
      PROVE  /\ tx'[q].at = "classes" => Sound(tx'[q].rows, lastId')
             /\ IsFiniteSet(tx'[q].rows) /\ UniqueIds(tx'[q].rows) /\ Ids(tx'[q].rows) \subseteq 1..lastId'
             /\ tx'[q].at = "insert" => StandsFor(tx'[q].rows, Sent(q), tx'[q].ids)
             /\ tx'[q].at = "delete" => tx'[q].rows = {} /\ tx'[q].ids = {}
    BY DEF RowsSound, Sent
  <2>1. CASE q = p
    BY <2>1
  <2>2. CASE q # p
    <3>1. /\ tx[q].at = "classes" => Sound(tx[q].rows, lastId)
          /\ IsFiniteSet(tx[q].rows) /\ UniqueIds(tx[q].rows) /\ Ids(tx[q].rows) \subseteq 1..lastId
          /\ tx[q].at = "insert" => StandsFor(tx[q].rows, Sent(q), tx[q].ids)
          /\ tx[q].at = "delete" => tx[q].rows = {} /\ tx[q].ids = {}
      BY DEF IInv, RowsSound
    <3>2. QED
      BY <1>2, <2>2, <3>1
  <2>3. QED
    BY <2>1, <2>2
<1>7. SeenClosed'
  <2> SUFFICES ASSUME NEW q \in Pages
      PROVE  /\ tx'[q].seen \cup tx'[q].gone \subseteq 1..lastId'
             /\ Closed(db, tx'[q].seen) /\ Closed(db, tx'[q].gone)
    BY DEF SeenClosed
  <2>1. CASE q = p
    <3>1. Ids(db) \cup tx[p].seen \cup tx[p].gone \subseteq 1..lastId
      BY DEF IInv, Sound, SeenClosed
    <3>2. QED
      BY <1>2, <2>1, <3>1
  <2>2. CASE q # p
    <3>1. /\ tx[q].seen \cup tx[q].gone \subseteq 1..lastId
          /\ Closed(db, tx[q].seen) /\ Closed(db, tx[q].gone)
      BY DEF IInv, SeenClosed
    <3>2. QED
      BY <1>2, <2>2, <3>1
  <2>3. QED
    BY <2>1, <2>2
<1>8. Apart'
  <2>1. \A q \in Pages \ {p} : Ids(Uncommitted(q)') = Ids(Uncommitted(q))
    BY DEF Uncommitted
  <2>2. /\ \A q \in Pages : Ids(Uncommitted(q)) \cap Ids(db) = {}
        /\ \A q, r \in Pages : Ids(Uncommitted(q)) \cap (tx[r].seen \cup tx[r].gone) = {}
        /\ \A q, r \in Pages : q # r => Ids(Uncommitted(q)) \cap Ids(Uncommitted(r)) = {}
    BY DEF IInv, Apart
  <2>3. /\ Ids(db) \subseteq 1..lastId
        /\ \A q \in Pages : Ids(Uncommitted(q)) \subseteq 1..lastId
        /\ \A q \in Pages : tx[q].seen \cup tx[q].gone \subseteq 1..lastId
    <3>1. Ids({}) = {}
      BY DEF Ids
    <3>2. QED
      BY <3>1 DEF IInv, RowsSound, SeenClosed, Sound, Uncommitted
  <2>4. /\ Ids(Uncommitted(p)') \subseteq Ids(Uncommitted(p)) \cup new
        /\ \A X : X \subseteq 1..lastId /\ Ids(Uncommitted(p)) \cap X = {} => Ids(Uncommitted(p)') \cap X = {}
    <3>1. Ids(Uncommitted(p)') \subseteq Ids(Uncommitted(p)) \cup new
      BY DEF new
    <3>2. QED
      BY <1>2, <3>1
  <2>5. \A q \in Pages : Ids(Uncommitted(q)') \cap Ids(db) = {}
    BY <2>1, <2>2, <2>3, <2>4
  <2>6. ASSUME NEW q \in Pages, NEW r \in Pages
        PROVE  Ids(Uncommitted(q)') \cap (tx'[r].seen \cup tx'[r].gone) = {}
    <3>1. CASE r = p
      <4>1. Ids(Uncommitted(q)') \cap (tx[p].seen \cup tx[p].gone) = {}
        <5>1. CASE q = p
          BY <2>2, <2>3, <2>4, <5>1
        <5>2. CASE q # p
          BY <2>1, <2>2, <5>2
        <5>3. QED
          BY <5>1, <5>2
      <4>2. QED
        BY <2>5, <3>1, <4>1
    <3>2. CASE r # p /\ q = p
      BY <2>2, <2>3, <2>4, <3>2
    <3>3. CASE r # p /\ q # p
      BY <2>1, <2>2, <3>3
    <3>4. QED
      BY <3>1, <3>2, <3>3
  <2>7. ASSUME NEW q \in Pages, NEW r \in Pages, q # r
        PROVE  Ids(Uncommitted(q)') \cap Ids(Uncommitted(r)') = {}
    <3>1. CASE q = p
      BY <2>1, <2>2, <2>3, <2>4, <2>7, <3>1
    <3>2. CASE r = p
      BY <2>1, <2>2, <2>3, <2>4, <2>7, <3>2
    <3>3. CASE q # p /\ r # p
      BY <2>1, <2>2, <2>7, <3>3
    <3>4. QED
      BY <3>1, <3>2, <3>3
  <2>8. QED
    BY <2>5, <2>6, <2>7 DEF Apart, Ids
<1>9. Sound(db', lastId')
  BY <1>2 DEF IInv
<1>10. QED
  BY <1>1, <1>3, <1>4, <1>5, <1>6, <1>7, <1>8, <1>9 DEF IInv

LEMMA BeginStep == ASSUME IInv, NEW p \in Pages, BeginSync(p) PROVE IInv'
<1>1. /\ actions[p] # <<>> /\ Head(actions[p]).kind = "save" /\ lastId \in Nat /\ Sound(db, lastId)
      /\ tx[p].at = "idle" /\ UNCHANGED <<groups, copying, actions, db, lastId, edits>>
  BY InFlightFacts DEF BeginSync
<1>2. /\ tx' \in [Pages -> TxOf]
      /\ tx'[p].at = "delete" /\ tx'[p].rows = {} /\ tx'[p].ids = {}
      /\ tx'[p].seen = Ids(db) /\ tx'[p].gone = {}
      /\ \A q \in Pages \ {p} :
           /\ tx'[q].at = tx[q].at /\ tx'[q].rows = tx[q].rows /\ tx'[q].ids = tx[q].ids
           /\ tx'[q].seen = tx[q].seen /\ tx'[q].gone = tx[q].gone
  <2> DEFINE alone == \A q \in Pages : ~Open(q)
  <2>1. /\ tx' = [q \in Pages |->
              IF q = p THEN [NoTx EXCEPT !.at = "delete", !.seen = Ids(db), !.alone = alone]
              ELSE [tx[q] EXCEPT !.alone = @ /\ ~Open(q)]]
    BY DEF BeginSync
  <2>2. \A q \in Pages : tx[q] \in TxOf
    BY TypeParts DEF IInv
  <2>3. Ids(db) \subseteq Nat
    BY <1>1 DEF Sound
  <2>4. alone \in BOOLEAN /\ \A q \in Pages : Open(q) \in BOOLEAN
    BY DEF Open
  <2> HIDE DEF alone
  <2>5. /\ tx'[p] = [at |-> "delete", seen |-> Ids(db), gone |-> {}, ids |-> {}, rows |-> {}, alone |-> alone]
        /\ \A q \in Pages \ {p} : tx'[q] = [tx[q] EXCEPT !.alone = @ /\ ~Open(q)]
    BY <2>1 DEF NoTx
  <2>6. tx'[p] \in TxOf
    BY <2>3, <2>4, <2>5 DEF TxOf
  <2>7. \A q \in Pages \ {p} : [tx[q] EXCEPT !.alone = @ /\ ~Open(q)] \in TxOf
    BY <2>2, <2>4 DEF TxOf
  <2>8. \A q \in Pages \ {p} :
           /\ tx'[q].at = tx[q].at /\ tx'[q].rows = tx[q].rows /\ tx'[q].ids = tx[q].ids
           /\ tx'[q].seen = tx[q].seen /\ tx'[q].gone = tx[q].gone
    BY <2>2, <2>5 DEF TxOf
  <2>9. tx' \in [Pages -> TxOf]
    BY <2>1, <2>5, <2>6, <2>7
  <2>10. QED
    BY <2>5, <2>8, <2>9
<1>3. Closed(db, Ids(db)) /\ Closed(db, {})
  BY <1>1, SoundForest DEF Closed, Ids, Forest
<1>4. IsFiniteSet({}) /\ UniqueIds({}) /\ Ids({}) = {}
  BY FS_EmptySet DEF UniqueIds, Ids
<1>5. Ids(Uncommitted(p)') = {}
  BY <1>2, <1>4 DEF Uncommitted
<1>6. lastId' \in Nat /\ lastId <= lastId' /\ Ids({}) \subseteq 1..lastId'
  BY <1>1, <1>4
<1>7. QED
  BY <1>1, <1>2, <1>3, <1>4, <1>5, <1>6, TxSide

LEMMA DeleteGroupsStep == ASSUME IInv, NEW p \in Pages, DeleteGroups(p) PROVE IInv'
<1> DEFINE S == tx[p].seen \cap Ids(db)
<1>1. /\ actions[p] # <<>> /\ Head(actions[p]).kind = "save" /\ lastId \in Nat /\ Sound(db, lastId)
      /\ tx[p].at = "delete" /\ tx[p] \in TxOf /\ UNCHANGED <<groups, copying, actions, db, lastId, edits>>
      /\ tx[p].rows = {} /\ tx[p].ids = {}
  BY InFlightFacts DEF DeleteGroups, IInv, RowsSound
<1>2. /\ tx' = [tx EXCEPT ![p] = [tx[p] EXCEPT !.at = "insert", !.gone = S]]
  BY DEF DeleteGroups
<1>3. tx[p].seen \subseteq 1..lastId /\ Closed(db, tx[p].seen)
  BY DEF IInv, SeenClosed
<1>4. S \in SUBSET Nat /\ Closed(db, S) /\ S \subseteq Ids(db)
  <2>1. \A r \in db : r.parent # NoParent => r.id \in Ids(db) /\ r.parent \in Ids(db)
    BY <1>1, SoundForest DEF Forest, Ids
  <2>2. QED
    BY <1>3, <2>1 DEF Closed
<1> HIDE DEF S
<1>5. /\ tx' \in [Pages -> TxOf]
      /\ tx'[p].at = "insert" /\ tx'[p].rows = {} /\ tx'[p].ids = {}
      /\ tx'[p].seen = tx[p].seen /\ tx'[p].gone = S
      /\ \A q \in Pages \ {p} : tx'[q] = tx[q]
  <2>1. [tx[p] EXCEPT !.at = "insert", !.gone = S] \in TxOf
    BY <1>1, <1>4 DEF TxOf
  <2>2. tx \in [Pages -> TxOf]
    BY TypeParts DEF IInv
  <2>3. tx' \in [Pages -> TxOf]
    BY <1>2, <2>1, <2>2
  <2>4. QED
    BY <1>1, <1>2, <2>2, <2>3 DEF TxOf
<1>6. IsFiniteSet({}) /\ UniqueIds({}) /\ Ids({}) = {} /\ StandsFor({}, Sent(p), {})
  BY FS_EmptySet, StandsForNone DEF UniqueIds, Ids
<1>7. Ids(Uncommitted(p)') = {}
  BY <1>5, <1>6 DEF Uncommitted
<1>8. lastId' \in Nat /\ lastId <= lastId' /\ Ids({}) \subseteq 1..lastId'
  BY <1>1, <1>6
<1>9. /\ Head(actions[p]).kind = IF tx'[p].at = "classes" THEN "load" ELSE "save"
      /\ tx'[p].at # "classes" /\ tx'[p].at # "delete"
      /\ tx'[p].seen \cup tx'[p].gone \subseteq Ids(db) \cup tx[p].seen \cup tx[p].gone
      /\ Ids(Uncommitted(p)') \subseteq Ids(Uncommitted(p)) \cup (lastId + 1)..lastId'
  BY <1>1, <1>4, <1>5, <1>7
<1>10. QED
  BY <1>1, <1>3, <1>4, <1>5, <1>6, <1>8, <1>9, TxSide

LEMMA ReadGroupsStep == ASSUME IInv, NEW p \in Pages, ReadGroups(p) PROVE IInv'
<1>1. /\ actions[p] # <<>> /\ Head(actions[p]).kind = "load" /\ lastId \in Nat /\ Sound(db, lastId)
      /\ tx[p].at = "idle" /\ tx[p] \in TxOf /\ UNCHANGED <<groups, copying, actions, db, lastId, edits>>
  BY InFlightFacts DEF ReadGroups
<1>2. tx' = [tx EXCEPT ![p] = [tx[p] EXCEPT !.at = "classes", !.rows = db]]
  BY DEF ReadGroups
<1>3. /\ tx' \in [Pages -> TxOf]
      /\ tx'[p].at = "classes" /\ tx'[p].rows = db
      /\ tx'[p].seen = tx[p].seen /\ tx'[p].gone = tx[p].gone
      /\ \A q \in Pages \ {p} : tx'[q] = tx[q]
  <2>1. [tx[p] EXCEPT !.at = "classes", !.rows = db] \in TxOf
    BY <1>1 DEF TxOf, Sound
  <2>2. tx \in [Pages -> TxOf]
    BY TypeParts DEF IInv
  <2>3. tx' \in [Pages -> TxOf]
    BY <1>2, <2>1, <2>2
  <2>4. QED
    BY <1>1, <1>2, <2>2, <2>3 DEF TxOf
<1>4. IsFiniteSet(db) /\ UniqueIds(db) /\ Ids(db) \subseteq 1..lastId
  BY <1>1 DEF Sound, Nested
<1>5. Ids(Uncommitted(p)') = {}
  BY <1>3 DEF Uncommitted, Ids
<1>6. Closed(db, tx[p].seen) /\ Closed(db, tx[p].gone)
  BY DEF IInv, SeenClosed
<1>7. lastId' \in Nat /\ lastId <= lastId' /\ Sound(db, lastId')
  BY <1>1
<1>8. /\ Head(actions[p]).kind = IF tx'[p].at = "classes" THEN "load" ELSE "save"
      /\ tx'[p].at # "insert" /\ tx'[p].at # "delete"
      /\ tx'[p].seen \cup tx'[p].gone \subseteq Ids(db) \cup tx[p].seen \cup tx[p].gone
      /\ Ids(Uncommitted(p)') \subseteq Ids(Uncommitted(p)) \cup (lastId + 1)..lastId'
  BY <1>1, <1>3, <1>5
<1>9. QED
  BY <1>1, <1>3, <1>4, <1>6, <1>7, <1>8, TxSide

LEMMA InsertStep == ASSUME IInv, NEW p \in Pages, InsertGroup(p) PROVE IInv'
<1> DEFINE i == lastId + 1
           R == tx[p].rows
<1>1. /\ actions[p] # <<>> /\ Head(actions[p]).kind = "save" /\ lastId \in Nat /\ lastId' = i
      /\ tx[p].at = "insert" /\ tx[p] \in TxOf /\ UNCHANGED <<groups, copying, actions, db, edits>>
      /\ Sound(Sent(p), lastId)
  BY InFlightFacts DEF InsertGroup, Sent
<1>2. PICK g \in NextGroups(p) :
        /\ Resolved(p, g)
        /\ tx' = [tx EXCEPT ![p].ids = @ \cup {<<g.id, lastId + 1>>},
             ![p].rows = @ \cup {Group(lastId + 1, g.name, ParentId(p, g), g.classes)}]
  BY DEF InsertGroup
<1> DEFINE r == Group(i, g.name, ParentId(p, g), g.classes)
<1>3. g \in Sent(p) /\ g \in GroupsOf /\ \A m \in tx[p].ids : m[1] # g.id
  BY <1>1, SoundForest DEF NextGroups, Todo
<1>4. /\ StandsFor(R, Sent(p), tx[p].ids) /\ IsFiniteSet(R) /\ UniqueIds(R)
      /\ Ids(R) \subseteq 1..lastId /\ R \subseteq GroupsOf
  BY <1>1 DEF IInv, RowsSound, TxOf
<1>5. /\ ParentId(p, g) \in Nat
      /\ IF g.parent = NoParent THEN ParentId(p, g) = NoParent
         ELSE <<g.parent, ParentId(p, g)>> \in tx[p].ids
  <2>1. CASE g.parent = NoParent
    BY <2>1 DEF ParentId, NoParent
  <2>2. CASE g.parent # NoParent
    <3>1. \E m \in tx[p].ids : m[1] = g.parent
      BY <1>2, <2>2 DEF Resolved
    <3>2. PICK m \in tx[p].ids : m[1] = g.parent /\ ParentId(p, g) = m[2]
      BY <2>2, <3>1 DEF ParentId
    <3>3. m \in Nat \X Nat
      BY <1>1 DEF TxOf
    <3>4. m = <<g.parent, ParentId(p, g)>>
      BY <3>2, <3>3
    <3>5. QED
      BY <2>2, <3>2, <3>3, <3>4
  <2>3. QED
    BY <2>1, <2>2
<1>6. /\ r \in GroupsOf /\ r.id = i /\ r.name = g.name /\ r.parent = ParentId(p, g)
      /\ r.classes = g.classes
  BY <1>1, <1>3, <1>5 DEF Group, GroupsOf
<1>7. /\ tx' = [tx EXCEPT ![p] = [tx[p] EXCEPT !.ids = @ \cup {<<g.id, i>>}, !.rows = R \cup {r}]]
  BY <1>2
<1> HIDE DEF r, R
<1>8. /\ tx' \in [Pages -> TxOf]
      /\ tx'[p].at = "insert" /\ tx'[p].rows = R \cup {r}
      /\ tx'[p].ids = tx[p].ids \cup {<<g.id, i>>}
      /\ tx'[p].seen = tx[p].seen /\ tx'[p].gone = tx[p].gone
      /\ \A q \in Pages \ {p} : tx'[q] = tx[q]
  <2>1. <<g.id, i>> \in Nat \X Nat
    BY <1>1, <1>3 DEF GroupsOf
  <2>2. [tx[p] EXCEPT !.ids = @ \cup {<<g.id, i>>}, !.rows = R \cup {r}] \in TxOf
    BY <1>1, <1>4, <1>6, <2>1 DEF TxOf
  <2>3. tx \in [Pages -> TxOf]
    BY TypeParts DEF IInv
  <2>4. tx' \in [Pages -> TxOf]
    BY <1>7, <2>2, <2>3
  <2>5. QED
    BY <1>1, <1>7, <2>3, <2>4 DEF TxOf
<1>9. \A m \in tx[p].ids : m[2] # i
  <2>1. \A m \in tx[p].ids : \E s \in R : m[2] = s.id
    BY <1>4 DEF StandsFor
  <2>2. \A s \in R : s.id \in 1..lastId
    BY <1>4 DEF Ids
  <2>3. QED
    BY <1>1, <2>1, <2>2
<1>10. StandsFor(R \cup {r}, Sent(p), tx[p].ids \cup {<<g.id, i>>})
  <2>1. UniqueIds(Sent(p))
    BY <1>1 DEF Sound, Nested
  <2> HIDE DEF i
  <2>2. QED
    BY <1>3, <1>4, <1>5, <1>6, <1>9, <2>1, StandsForMore
<1>11. IsFiniteSet(R \cup {r}) /\ UniqueIds(R \cup {r}) /\ Ids(R \cup {r}) = Ids(R) \cup {i}
  <2>1. IsFiniteSet(R \cup {r})
    BY <1>4, FS_AddElement
  <2>2. Ids(R \cup {r}) = Ids(R) \cup {i}
    BY <1>6 DEF Ids
  <2>3. i \notin Ids(R)
    BY <1>1, <1>4
  <2>4. UniqueIds(R \cup {r})
    BY <1>4, <1>6, <2>3 DEF UniqueIds, Ids
  <2>5. QED
    BY <2>1, <2>2, <2>4
<1>12. /\ Ids(Uncommitted(p)') \subseteq Ids(Uncommitted(p)) \cup (lastId + 1)..lastId'
       /\ Ids(R \cup {r}) \subseteq 1..lastId'
  <2>1. Uncommitted(p)' = R \cup {r} /\ Uncommitted(p) = R
    BY <1>1, <1>8 DEF Uncommitted, R
  <2>2. i \in (lastId + 1)..lastId' /\ 1..lastId \cup {i} \subseteq 1..lastId'
    BY <1>1
  <2>3. Ids(Uncommitted(p)') = Ids(R) \cup {i} /\ Ids(Uncommitted(p)) = Ids(R)
    BY <1>11, <2>1
  <2>4. QED
    BY <1>4, <1>11, <2>2, <2>3
<1>13. Closed(db, tx[p].seen) /\ Closed(db, tx[p].gone)
  BY DEF IInv, SeenClosed
<1>14. lastId' \in Nat /\ lastId <= lastId'
  BY <1>1
<1> HIDE DEF i
<1>15. QED
  BY <1>1, <1>8, <1>10, <1>11, <1>12, <1>13, <1>14, TxSide

LEMMA ServerStepKeeps == ASSUME IInv, NEW p \in Pages, ServerStep(p) PROVE IInv'
  BY BeginStep, DeleteGroupsStep, InsertStep, FailSyncStep, CommitStep, AddClassStep,
     ReadGroupsStep, ReadClassesStep, CopyClassesStep DEF ServerStep

-----------------------------------------------------------------------------
(* The theorems.                                                           *)

LEMMA InitIInv == Init => IInv
<1> SUFFICES ASSUME Init PROVE IInv
  OBVIOUS
<1>1. PICK G \in Stored : groups = [p \in Pages |-> G] /\ db \in {G, {}}
  BY DEF Init
<1>2. lastId \in Nat /\ lastId = Cardinality(UNION Stored)
  BY StoredAssumption, FS_CardinalityType DEF Init
<1>3. Sound(G, lastId) /\ Sound({}, lastId)
  <2>1. G \subseteq UNION Stored
    OBVIOUS
  <2>2. IsFiniteSet(G)
    BY <2>1, StoredAssumption, FS_Subset
  <2>3. QED
    BY <1>2, <2>2, StoredAssumption, SoundEmpty DEF Sound
<1>4. /\ Sound(db, lastId) /\ \A p \in Pages : /\ groups[p] = G /\ copying[p] = NotCopying
                                              /\ actions[p] = <<>> /\ tx[p] = NoTx
  BY <1>1, <1>3 DEF Init
<1>5. TypeOK
  <2>1. NotCopying \in CopyOf /\ NoTx \in TxOf /\ <<>> \in Seq(ActionOf)
    BY DEF NotCopying, CopyOf, NoTx, TxOf, Group, GroupsOf, NoParent
  <2>2. 0 \in 0..MaxEdits
    BY BoundsAssumption
  <2>3. QED
    BY <1>1, <1>2, <1>3, <1>4, <2>1, <2>2, TypeParts DEF Init, Sound
<1>6. PagesSound
  <2>1. NotCopying.from = {} /\ NotCopying.at = "none"
    BY DEF NotCopying
  <2>2. QED
    BY <1>3, <1>4, <2>1 DEF PagesSound
<1>7. ActionsSound /\ TxKinds
  BY <1>4 DEF ActionsSound, TxKinds, NoTx
<1>8. RowsSound
  <2>1. NoTx.rows = {} /\ NoTx.at = "idle"
    BY DEF NoTx
  <2>2. IsFiniteSet({}) /\ UniqueIds({}) /\ Ids({}) = {}
    BY FS_EmptySet DEF UniqueIds, Ids
  <2>3. QED
    BY <1>4, <2>1, <2>2 DEF RowsSound
<1>9. SeenClosed /\ Apart
  BY <1>4 DEF SeenClosed, Apart, NoTx, Closed, Uncommitted, Ids
<1>10. QED
  BY <1>4, <1>5, <1>6, <1>7, <1>8, <1>9 DEF IInv

LEMMA StepIInv == IInv /\ [Next]_vars => IInv'
<1> SUFFICES ASSUME IInv, [Next]_vars PROVE IInv'
  OBVIOUS
<1>1. CASE Next
  BY <1>1, PageStepKeeps, ServerStepKeeps DEF Next
<1>2. CASE UNCHANGED vars
  <2>1. TypeOK' /\ PagesSound' /\ ActionsSound' /\ Sound(db, lastId)'
    BY <1>2 DEF vars, IInv, TypeOK, PagesSound, ActionsSound
  <2>2. TxKinds' /\ RowsSound' /\ SeenClosed' /\ Apart'
    BY <1>2 DEF vars, IInv, TxKinds, RowsSound, SeenClosed, Apart, Uncommitted, Sent
  <2>3. QED
    BY <2>1, <2>2 DEF IInv
<1>3. QED
  BY <1>1, <1>2

LEMMA Inductive == Spec => []IInv
  BY InitIInv, StepIInv, PTL DEF Spec

\* Every variable keeps its type, whatever the pages do (page.tsx, helper.ts).
THEOREM TypesHold == Spec => []TypeOK
<1>1. IInv => TypeOK
  BY DEF IInv
<1>2. QED
  BY <1>1, Inductive, PTL

\* The groups of a page, of a save on its way and of the database are trees of
\* three levels at most: the page's own check of the depth (page.tsx) and the
\* delete-and-insert of syncGroupsForVersion together never break one.
THEOREM GroupsStayNested == Spec => []GroupsAreNested
<1>1. IInv => GroupsAreNested
  BY DEF IInv, PagesSound, ActionsSound, Sound, GroupsAreNested
<1>2. QED
  BY <1>1, Inductive, PTL

\* The stored groups come and go only when a save ends, and then under the
\* names it was sent.
THEOREM WholeSavesStored == Spec => OnlyWholeSavesAreStored
<1> DEFINE A == Ids(db') # Ids(db) =>
       \E p \in Pages :
          /\ SaveEnds(p)
          /\ NamesOf({r \in db' : r.id \notin Ids(db)}) = NamesOf(Sent(p))
<1>1. ASSUME IInv, Next, Ids(db') # Ids(db)
      PROVE  \E p \in Pages :
               /\ SaveEnds(p)
               /\ NamesOf({r \in db' : r.id \notin Ids(db)}) = NamesOf(Sent(p))
  <2>1. PICK p \in Pages : PageStep(p) \/ ServerStep(p)
    BY <1>1 DEF Next
  <2>2. PageStep(p) => db' = db
    BY DEF PageStep, CreateGroup, CreateGroupAtPosition, AutoSave, LoadClasses, SaveDuplicate,
           RenameGroup, DragGroup, RestyleGroup, DeleteGroup, DuplicateGroup, DropClass,
           RemoveNodeFromGroup
  <2>3. AddClassToGroup(p) => Ids(db') = Ids(db)
    <3> SUFFICES ASSUME AddClassToGroup(p) PROVE Ids(db') = Ids(db)
      OBVIOUS
    <3> DEFINE a == Head(actions[p])
               f == [r \in db |-> IF r.id = a.id THEN [r EXCEPT !.classes = @ \cup a.classes] ELSE r]
    <3>1. db' = {f[r] : r \in db}
      BY DEF AddClassToGroup
    <3>2. \A r \in db : f[r].id = r.id
      <4>1. \A r \in db : r \in GroupsOf
        BY <1>1, SoundForest DEF IInv
      <4>2. QED
        BY <4>1 DEF GroupsOf
    <3> HIDE DEF f
    <3>3. QED
      BY <3>1, <3>2 DEF Ids
  <2>4. ServerStep(p) => Commit(p) \/ AddClassToGroup(p) \/ db' = db
    BY DEF ServerStep, BeginSync, DeleteGroups, InsertGroup, FailSync, ReadGroups, ReadClasses,
           CopyClasses
  <2>5. Commit(p)
    BY <1>1, <2>1, <2>2, <2>3, <2>4
  <2>6. /\ actions[p] # <<>> /\ Answer(p) /\ tx[p].at = "insert" /\ Todo(p) = {}
        /\ Sound(Sent(p), lastId) /\ db' = Without(db, tx[p].gone) \cup tx[p].rows
    BY <1>1, <2>5, InFlightFacts DEF Commit, Sent
  <2>7. SaveEnds(p)
    <3>1. tx'[p] = NoTx
      BY <1>1, <2>6 DEF Answer, IInv, TypeOK
    <3>2. QED
      BY <2>6, <3>1 DEF SaveEnds, NoTx
  <2>8. {r \in db' : r.id \notin Ids(db)} = tx[p].rows
    <3>1. Ids(tx[p].rows) \cap Ids(db) = {}
      BY <1>1, <2>6 DEF IInv, Apart, Uncommitted
    <3>2. QED
      BY <2>6, <3>1 DEF Ids, Without
  <2>9. NamesOf(tx[p].rows) = NamesOf(Sent(p))
    <3>1. StandsFor(tx[p].rows, Sent(p), tx[p].ids)
      BY <1>1, <2>6 DEF IInv, RowsSound
    <3>2. UniqueIds(Sent(p)) /\ \A g \in Sent(p) : \E m \in tx[p].ids : m[1] = g.id
      BY <2>6 DEF Todo, Sound, Nested
    <3>3. QED
      BY <3>1, <3>2, AllNames
  <2>10. QED
    BY <2>7, <2>8, <2>9
<1>2. UNCHANGED vars => A
  BY DEF vars
<1>3. IInv /\ [Next]_vars => [A]_vars
  BY <1>1, <1>2
<1>4. QED
  BY <1>3, Inductive, PTL DEF Spec, OnlyWholeSavesAreStored

-----------------------------------------------------------------------------
(* A save that no other save overlaps.                                     *)

\* While a save is alone, no other one is open, and what it deletes is all
\* that is stored.
Solitary ==
  \A p \in Pages : Open(p) /\ tx[p].alone =>
    /\ \A q \in Pages : Open(q) => q = p
    /\ tx[p].at = "delete" => tx[p].seen = Ids(db)
    /\ tx[p].at = "insert" => tx[p].gone = Ids(db)

\* No two rows of a save have one name.
RowsDistinct == \A p \in Pages : tx[p].at = "insert" => Distinct(tx[p].rows)

\* What the steps leave alone that change no transaction but p's.
LEMMA OthersAlone ==
  ASSUME IInv, Solitary, RowsDistinct, NEW p \in Pages, tx' \in [Pages -> TxOf],
         \A q \in Pages \ {p} : tx'[q] = tx[q],
         Ids(db') = Ids(db) \/ Open(p),
         tx'[p].at = "insert" => Distinct(tx'[p].rows),
         tx'[p].at \in {"delete", "insert"} =>
            /\ tx'[p].at = "insert" /\ Open(p) /\ tx'[p].alone = tx[p].alone
            /\ tx[p].alone => tx'[p].gone = Ids(db')
  PROVE  (Solitary /\ RowsDistinct)'
<1>1. \A q \in Pages : Open(q)' => Open(q)
  BY DEF Open
<1>2. ASSUME NEW q \in Pages, Open(q)', tx'[q].alone
      PROVE  /\ \A r \in Pages : Open(r)' => r = q
             /\ tx'[q].at = "delete" => tx'[q].seen = Ids(db')
             /\ tx'[q].at = "insert" => tx'[q].gone = Ids(db')
  <2>1. CASE q = p
    BY <1>1, <1>2, <2>1 DEF Solitary, Open
  <2>2. CASE q # p
    <3>1. tx'[q] = tx[q] /\ Open(q) /\ tx[q].alone
      BY <1>1, <1>2, <2>2
    <3>2. ~Open(p)
      BY <2>2, <3>1 DEF Solitary
    <3>3. QED
      BY <1>1, <3>1, <3>2 DEF Solitary
  <2>3. QED
    BY <2>1, <2>2
<1>3. Solitary'
  BY <1>2 DEF Solitary
<1>4. RowsDistinct'
  BY DEF RowsDistinct
<1>5. QED
  BY <1>3, <1>4

LEMMA AnswerEnds ==
  ASSUME IInv, Solitary, RowsDistinct, NEW p \in Pages, actions[p] # <<>>, Answer(p),
         Ids(db') = Ids(db) \/ Open(p)
  PROVE  (Solitary /\ RowsDistinct)'
<1>1. tx' \in [Pages -> TxOf] /\ tx \in [Pages -> TxOf]
  BY AnswerTyped, TypeParts DEF IInv
<1>2. tx'[p] = NoTx /\ \A q \in Pages \ {p} : tx'[q] = tx[q]
  BY <1>1 DEF Answer
<1>3. tx'[p].at = "idle"
  BY <1>2 DEF NoTx
<1>4. QED
  BY <1>1, <1>2, <1>3, OthersAlone

LEMMA AddClassIds ==
  ASSUME IInv, NEW p \in Pages, AddClassToGroup(p)
  PROVE  Ids(db') = Ids(db)
<1> DEFINE a == Head(actions[p])
           f == [r \in db |-> IF r.id = a.id THEN [r EXCEPT !.classes = @ \cup a.classes] ELSE r]
<1>1. db' = {f[r] : r \in db}
  BY DEF AddClassToGroup
<1>2. \A r \in db : f[r].id = r.id
  <2>1. \A r \in db : r \in GroupsOf
    BY SoundForest DEF IInv
  <2>2. QED
    BY <2>1 DEF GroupsOf
<1> HIDE DEF f
<1>3. QED
  BY <1>1, <1>2 DEF Ids

LEMMA PageStepFrame ==
  ASSUME NEW p \in Pages, PageStep(p)
  PROVE  UNCHANGED <<tx, db>>
  BY DEF PageStep, CreateGroup, CreateGroupAtPosition, AutoSave, LoadClasses, SaveDuplicate,
         RenameGroup, DragGroup, RestyleGroup, DeleteGroup, DuplicateGroup, DropClass,
         RemoveNodeFromGroup

LEMMA BeginAlone ==
  ASSUME IInv, Solitary, RowsDistinct, NEW p \in Pages, BeginSync(p)
  PROVE  (Solitary /\ RowsDistinct)'
<1> DEFINE alone == \A q \in Pages : ~Open(q)
<1>1. /\ tx' = [q \in Pages |->
            IF q = p THEN [NoTx EXCEPT !.at = "delete", !.seen = Ids(db), !.alone = alone]
            ELSE [tx[q] EXCEPT !.alone = @ /\ ~Open(q)]]
      /\ db' = db
  BY DEF BeginSync
<1>2. \A q \in Pages : tx[q] \in TxOf
  BY TypeParts DEF IInv
<1> HIDE DEF alone
<1>3. /\ tx'[p].at = "delete" /\ tx'[p].seen = Ids(db) /\ tx'[p].alone = alone
      /\ \A q \in Pages \ {p} : tx'[q] = [tx[q] EXCEPT !.alone = @ /\ ~Open(q)]
  BY <1>1 DEF NoTx
<1>4. \A q \in Pages \ {p} : /\ tx'[q].at = tx[q].at /\ tx'[q].rows = tx[q].rows
                             /\ tx'[q].alone = (tx[q].alone /\ ~Open(q))
  BY <1>2, <1>3 DEF TxOf
<1>5. \A q \in Pages \ {p} : Open(q)' = Open(q)
  BY <1>4 DEF Open
<1>6. \A q \in Pages : Open(q)' /\ tx'[q].alone => q = p /\ \A r \in Pages \ {p} : ~Open(r)'
  BY <1>3, <1>4, <1>5 DEF alone
<1>7. Solitary'
  BY <1>1, <1>3, <1>6 DEF Solitary
<1>8. RowsDistinct'
  BY <1>3, <1>4 DEF RowsDistinct
<1>9. QED
  BY <1>7, <1>8

LEMMA DeleteAlone ==
  ASSUME IInv, Solitary, RowsDistinct, NEW p \in Pages, DeleteGroups(p)
  PROVE  (Solitary /\ RowsDistinct)'
<1> DEFINE S == tx[p].seen \cap Ids(db)
<1>1. tx[p].at = "delete" /\ tx[p] \in TxOf /\ tx[p].rows = {} /\ tx \in [Pages -> TxOf] /\ db' = db
  BY InFlightFacts, TypeParts DEF DeleteGroups, IInv, RowsSound
<1>2. tx' = [tx EXCEPT ![p] = [tx[p] EXCEPT !.at = "insert", !.gone = S]]
  BY DEF DeleteGroups
<1>3. tx[p].alone => S = Ids(db)
  BY <1>1 DEF Solitary, Open
<1>4. S \in SUBSET Nat
  BY <1>1 DEF TxOf
<1> HIDE DEF S
<1>5. [tx[p] EXCEPT !.at = "insert", !.gone = S] \in TxOf
  BY <1>1, <1>4 DEF TxOf
<1>6. /\ tx' \in [Pages -> TxOf] /\ tx'[p].at = "insert" /\ tx'[p].rows = {}
      /\ tx'[p].alone = tx[p].alone /\ tx'[p].gone = S
      /\ \A q \in Pages \ {p} : tx'[q] = tx[q]
  BY <1>1, <1>2, <1>5 DEF TxOf
<1>7. Distinct({}) /\ Open(p)
  BY <1>1 DEF Distinct, Open
<1>8. QED
  BY <1>1, <1>3, <1>6, <1>7, OthersAlone

LEMMA InsertAlone ==
  ASSUME IInv, Solitary, RowsDistinct, NEW p \in Pages, InsertGroup(p)
  PROVE  (Solitary /\ RowsDistinct)'
<1> DEFINE R == tx[p].rows
<1>1. tx[p].at = "insert" /\ tx[p] \in TxOf /\ tx \in [Pages -> TxOf] /\ db' = db
  BY InFlightFacts, TypeParts DEF InsertGroup, IInv
<1>2. PICK g \in NextGroups(p) :
        /\ ~Taken(p, g.name)
        /\ tx' = [tx EXCEPT ![p].ids = @ \cup {<<g.id, lastId + 1>>},
             ![p].rows = @ \cup {Group(lastId + 1, g.name, ParentId(p, g), g.classes)}]
  BY DEF InsertGroup
<1> DEFINE r == Group(lastId + 1, g.name, ParentId(p, g), g.classes)
<1>3. r.name = g.name
  BY DEF Group
<1>4. \A s \in R : s.name # g.name
  BY <1>2 DEF Taken, NamesOf
<1> HIDE DEF r
<1>5. /\ tx'[p].at = "insert" /\ tx'[p].rows = R \cup {r} /\ tx'[p].alone = tx[p].alone
      /\ tx'[p].gone = tx[p].gone /\ \A q \in Pages \ {p} : tx'[q] = tx[q]
  BY <1>1, <1>2 DEF TxOf, r
<1>6. tx' \in [Pages -> TxOf]
  BY InsertStep, TypePartsPrimed DEF IInv
<1>7. Distinct(R \cup {r})
  BY <1>1, <1>3, <1>4 DEF RowsDistinct, Distinct
<1>8. Open(p) /\ (tx[p].alone => tx[p].gone = Ids(db))
  BY <1>1 DEF Open, Solitary
<1>9. QED
  BY <1>1, <1>5, <1>6, <1>7, <1>8, OthersAlone

LEMMA AloneServerStep ==
  ASSUME IInv, Solitary, RowsDistinct, NEW p \in Pages, ServerStep(p)
  PROVE  (Solitary /\ RowsDistinct)'
<1>1. CASE FailSync(p) \/ Commit(p)
  <2>1. tx[p].at = "insert" /\ actions[p] # <<>> /\ Answer(p)
    BY <1>1, InFlightFacts DEF FailSync, Commit
  <2>2. QED
    BY <2>1, AnswerEnds DEF Open
<1>2. CASE AddClassToGroup(p) \/ ReadClasses(p) \/ CopyClasses(p)
  <2>1. actions[p] # <<>> /\ Answer(p)
    BY <1>2, InFlightFacts DEF AddClassToGroup, ReadClasses, CopyClasses
  <2>2. Ids(db') = Ids(db)
    BY <1>2, AddClassIds DEF ReadClasses, CopyClasses
  <2>3. QED
    BY <2>1, <2>2, AnswerEnds
<1>3. CASE ReadGroups(p)
  <2>1. tx[p] \in TxOf /\ tx \in [Pages -> TxOf] /\ db' = db /\ tx' \in [Pages -> TxOf]
    BY <1>3, InFlightFacts, ReadGroupsStep, TypeParts, TypePartsPrimed DEF ReadGroups, IInv
  <2>2. tx'[p].at = "classes" /\ \A q \in Pages \ {p} : tx'[q] = tx[q]
    BY <1>3, <2>1 DEF ReadGroups, TxOf
  <2>3. QED
    BY <2>1, <2>2, OthersAlone
<1>4. QED
  BY <1>1, <1>2, <1>3, BeginAlone, DeleteAlone, InsertAlone DEF ServerStep

LEMMA InductiveAlone == Spec => [](IInv /\ Solitary /\ RowsDistinct)
<1>1. Init => Solitary /\ RowsDistinct
  BY DEF Init, Solitary, RowsDistinct, Open, NoTx
<1>2. IInv /\ Solitary /\ RowsDistinct /\ [Next]_vars => (Solitary /\ RowsDistinct)'
  <2> SUFFICES ASSUME IInv, Solitary, RowsDistinct, [Next]_vars
               PROVE  (Solitary /\ RowsDistinct)'
    OBVIOUS
  <2>1. ASSUME NEW p \in Pages, PageStep(p) PROVE (Solitary /\ RowsDistinct)'
    BY <2>1, PageStepFrame DEF Solitary, RowsDistinct, Open
  <2>2. CASE UNCHANGED vars
    BY <2>2 DEF vars, Solitary, RowsDistinct, Open
  <2>3. QED
    BY <2>1, <2>2, AloneServerStep DEF Next
<1>3. QED
  BY <1>1, <1>2, InitIInv, StepIInv, PTL DEF Spec

\* A group lies deeper than its parent.
LEMMA ParentsFirst ==
  ASSUME NEW n, NEW G, Sound(G, n), NEW g \in G, NEW h \in G, g.parent = h.id
  PROVE  GroupDepth(G, h.id) < GroupDepth(G, g.id)
<1>1. Forest(G) /\ \A k \in G : k.id # NoParent
  BY SoundForest
<1>2. UniqueIds(G)
  BY <1>1 DEF Forest
<1>3. CASE h.parent = NoParent
  <2>1. Parents(G, {h.id}) = {}
    BY <1>2, <1>3 DEF Parents, UniqueIds
  <2>2. GroupDepth(G, h.id) = 1
    BY <2>1 DEF GroupDepth
  <2>3. GroupDepth(G, g.id) \in 2..3
    BY <1>1, <1>2, Depths
  <2>4. QED
    BY <2>2, <2>3
<1>4. CASE h.parent # NoParent
  <2>1. Parents(G, {h.id}) = {h.parent}
    BY <1>2, <1>4 DEF Parents, UniqueIds
  <2>2. PICK k \in G : k.id = h.parent
    BY <1>1, <1>4 DEF Forest
  <2>3. k.parent = NoParent
    BY <1>1, <2>2 DEF Forest
  <2>4. Parents(G, {h.parent}) = {}
    BY <1>2, <2>2, <2>3 DEF Parents, UniqueIds
  <2>5. GroupDepth(G, h.id) = 2
    BY <2>1, <2>4 DEF GroupDepth
  <2>6. GroupDepth(G, g.id) = 3
    BY <1>1, <1>2, <1>4, Depths
  <2>7. QED
    BY <2>5, <2>6
<1>5. QED
  BY <1>3, <1>4

\* Rows that stand for all groups look like them.
LEMMA SameShape ==
  ASSUME NEW G, UniqueIds(G), \A g \in G : g.id # NoParent,
         NEW R, UniqueIds(R), \A r \in R : r.id # NoParent,
         NEW ids, StandsFor(R, G, ids), \A g \in G : \E m \in ids : m[1] = g.id
  PROVE  Shape(R) = Shape(G)
<1> DEFINE Above(S, r) == {At(S, i).name : i \in {r.parent} \ {NoParent}}
<1>1. ASSUME NEW S, UniqueIds(S), NEW s \in S PROVE At(S, s.id) = s
  BY <1>1 DEF At, UniqueIds
<1>2. ASSUME NEW r \in R, NEW g \in G, Stands(r, g, ids)
      PROVE  Above(R, r) = Above(G, g)
  <2>1. CASE g.parent = NoParent
    BY <1>2, <2>1 DEF Stands
  <2>2. CASE g.parent # NoParent
    <3>1. <<g.parent, r.parent>> \in ids
      BY <1>2, <2>2 DEF Stands
    <3>2. PICK s \in R, h \in G : <<g.parent, r.parent>> = <<h.id, s.id>> /\ s.name = h.name
      <4>1. PICK s \in R, h \in G : <<g.parent, r.parent>> = <<h.id, s.id>> /\ Stands(s, h, ids)
        BY <3>1 DEF StandsFor
      <4>2. s.name = h.name
        BY <4>1 DEF Stands
      <4>3. QED
        BY <4>1, <4>2
    <3>3. At(R, r.parent) = s /\ At(G, g.parent) = h /\ r.parent # NoParent
      BY <1>1, <3>2
    <3>4. Above(R, r) = {At(R, r.parent).name} /\ Above(G, g) = {At(G, g.parent).name}
      BY <2>2, <3>3
    <3>5. QED
      BY <3>2, <3>3, <3>4
  <2>3. QED
    BY <2>1, <2>2
<1>3. \A r \in R : \E g \in G : Stands(r, g, ids)
  BY DEF StandsFor
<1>4. ASSUME NEW g \in G PROVE \E r \in R : Stands(r, g, ids)
  <2>1. PICK m \in ids : m[1] = g.id
    OBVIOUS
  <2>2. PICK r \in R, h \in G : m = <<h.id, r.id>> /\ Stands(r, h, ids)
    BY DEF StandsFor
  <2>3. QED
    BY <2>1, <2>2 DEF UniqueIds
<1>5. \A r \in R, g \in G : Stands(r, g, ids) => r.name = g.name /\ r.classes = g.classes
  BY DEF Stands
<1>6. /\ Shape(R) = {<<r.name, Above(R, r), r.classes>> : r \in R}
      /\ Shape(G) = {<<g.name, Above(G, g), g.classes>> : g \in G}
  BY DEF Shape
<1> HIDE DEF Above
<1>7. Shape(R) \subseteq Shape(G)
  BY <1>2, <1>3, <1>5, <1>6
<1>8. Shape(G) \subseteq Shape(R)
  BY <1>2, <1>4, <1>5, <1>6
<1>9. QED
  BY <1>7, <1>8

\* The database as a save that is alone leaves it, when it is not rolled back.
LEMMA CommitAlone ==
  ASSUME IInv, Solitary, RowsDistinct, NEW p \in Pages, Commit(p), tx[p].alone
  PROVE  Distinct(Sent(p)) /\ Shape(db') = Shape(Sent(p))
<1>1. /\ tx[p].at = "insert" /\ Sound(Sent(p), lastId) /\ Todo(p) = {}
      /\ db' = Without(db, tx[p].gone) \cup tx[p].rows
  BY InFlightFacts DEF Commit, Sent
<1> DEFINE G == Sent(p)
           R == tx[p].rows
           ids == tx[p].ids
<1>2. /\ StandsFor(R, G, ids) /\ UniqueIds(R) /\ Ids(R) \subseteq 1..lastId /\ Distinct(R)
      /\ tx[p].gone = Ids(db)
  BY <1>1 DEF IInv, RowsSound, RowsDistinct, Solitary, Open
<1>3. UniqueIds(G) /\ (\A g \in G : g.id # NoParent) /\ \A g \in G : \E m \in ids : m[1] = g.id
  BY <1>1, SoundForest DEF Forest, Todo
<1>4. \A r \in R : r.id # NoParent
  BY <1>2 DEF Ids, NoParent
<1>5. db' = R
  BY <1>1, <1>2 DEF Without, Ids
<1>6. ASSUME NEW g \in G, NEW h \in G, g.name = h.name PROVE g = h
  <2>1. PICK m \in ids, k \in ids : m[1] = g.id /\ k[1] = h.id
    BY <1>3
  <2>2. PICK r \in R, u \in G : m = <<u.id, r.id>> /\ Stands(r, u, ids)
    BY <1>2 DEF StandsFor
  <2>3. PICK s \in R, v \in G : k = <<v.id, s.id>> /\ Stands(s, v, ids)
    BY <1>2 DEF StandsFor
  <2>4. u = g /\ v = h
    BY <1>3, <2>1, <2>2, <2>3 DEF UniqueIds
  <2>5. r = s
    BY <1>2, <1>6, <2>2, <2>3, <2>4 DEF Stands, Distinct
  <2>6. m[2] = k[2]
    BY <2>2, <2>3, <2>5
  <2>7. QED
    BY <1>2, <1>3, <2>1, <2>6 DEF StandsFor, UniqueIds
<1> HIDE DEF G, R, ids
<1>7. Shape(R) = Shape(G)
  BY <1>2, <1>3, <1>4, SameShape
<1>8. QED
  BY <1>5, <1>6, <1>7 DEF Distinct, G

\* Alone, a save is only refused for two groups of one name.
LEMMA FailAlone ==
  ASSUME IInv, Solitary, NEW p \in Pages, FailSync(p), tx[p].alone
  PROVE  ~Distinct(Sent(p))
<1> SUFFICES ASSUME Distinct(Sent(p)) PROVE FALSE
  OBVIOUS
<1>1. tx[p].at = "insert" /\ Sound(Sent(p), lastId) /\ tx[p] \in TxOf
  BY InFlightFacts DEF FailSync, Sent
<1>2. PICK g \in NextGroups(p) : Refused(p, g)
  BY DEF FailSync
<1>3. /\ g \in Sent(p) /\ \A m \in tx[p].ids : m[1] # g.id
      /\ \A h \in Todo(p) : GroupDepth(Sent(p), g.id) <= GroupDepth(Sent(p), h.id)
  BY <1>2 DEF NextGroups, Todo
<1>4. (\A q \in Pages : Open(q) => q = p) /\ tx[p].gone = Ids(db)
  BY <1>1 DEF Solitary, Open
<1>5. Resolved(p, g)
  <2> SUFFICES ASSUME g.parent # NoParent, \A m \in tx[p].ids : m[1] # g.parent PROVE FALSE
    BY DEF Resolved
  <2>1. PICK h \in Sent(p) : h.id = g.parent
    BY <1>1, <1>3, SoundForest DEF Forest
  <2>2. h \in Todo(p)
    BY <2>1 DEF Todo
  <2>3. GroupDepth(Sent(p), h.id) < GroupDepth(Sent(p), g.id)
    BY <1>1, <1>3, <2>1, ParentsFirst
  <2>4. GroupDepth(Sent(p), g.id) \in Nat /\ GroupDepth(Sent(p), h.id) \in Nat
    BY DEF GroupDepth
  <2>5. QED
    BY <1>3, <2>2, <2>3, <2>4
<1>6. ~Taken(p, g.name)
  <2> SUFFICES ASSUME NEW r \in Without(db, tx[p].gone) \cup tx[p].rows, r.name = g.name
               PROVE  FALSE
    BY DEF Taken, NamesOf
  <2>1. r \in tx[p].rows
    BY <1>4 DEF Without, Ids
  <2>2. StandsFor(tx[p].rows, Sent(p), tx[p].ids)
    BY <1>1 DEF IInv, RowsSound
  <2>3. PICK h \in Sent(p) : <<h.id, r.id>> \in tx[p].ids /\ r.name = h.name
    BY <2>1, <2>2 DEF StandsFor, Stands
  <2>4. h = g
    BY <1>3, <2>3 DEF Distinct
  <2>5. QED
    BY <1>3, <2>3, <2>4
<1>7. ~Stuck(p, g)
  BY <1>4 DEF Stuck, Blocks, Open
<1>8. QED
  BY <1>2, <1>5, <1>6, <1>7 DEF Refused

\* Which steps end a save.
LEMMA EndsBy ==
  ASSUME IInv, NEW p \in Pages, NEW q \in Pages, ServerStep(q), SaveEnds(p)
  PROVE  FailSync(p) \/ Commit(p)
<1>1. /\ tx \in [Pages -> TxOf] /\ tx[p] \in TxOf /\ tx[p].at = "insert" /\ tx'[p].at = "idle"
  BY TypeParts DEF IInv, SaveEnds
<1>2. ASSUME tx'[p] = tx[p] PROVE FALSE
  BY <1>1, <1>2
<1>3. CASE BeginSync(q)
  <2>1. tx'[p].at \in {"delete", tx[p].at}
    BY <1>1, <1>3 DEF BeginSync, TxOf, NoTx
  <2>2. QED
    BY <1>1, <2>1
<1>4. CASE DeleteGroups(q) \/ InsertGroup(q) \/ ReadGroups(q)
  <2>1. q # p => tx'[p] = tx[p]
    BY <1>1, <1>4 DEF DeleteGroups, InsertGroup, ReadGroups
  <2>2. ~DeleteGroups(p) /\ ~ReadGroups(p)
    BY <1>1 DEF DeleteGroups, ReadGroups, InFlight
  <2>3. ASSUME InsertGroup(p) PROVE FALSE
    <3>1. \E ids, rows : tx' = [tx EXCEPT ![p].ids = ids, ![p].rows = rows]
      BY <2>3 DEF InsertGroup
    <3>2. tx'[p].at = "insert"
      BY <1>1, <3>1 DEF TxOf
    <3>3. QED
      BY <1>1, <3>2
  <2>4. QED
    BY <1>1, <1>2, <1>4, <2>1, <2>2, <2>3
<1>5. CASE AddClassToGroup(q) \/ ReadClasses(q) \/ CopyClasses(q)
  <2>1. tx[q].at # "insert"
    BY <1>5 DEF AddClassToGroup, ReadClasses, CopyClasses, InFlight
  <2>2. tx' = [tx EXCEPT ![q] = NoTx]
    BY <1>5 DEF AddClassToGroup, ReadClasses, CopyClasses, Answer
  <2>3. QED
    BY <1>1, <1>2, <2>1, <2>2
<1>6. CASE FailSync(q) \/ Commit(q)
  <2>1. tx' = [tx EXCEPT ![q] = NoTx]
    BY <1>6 DEF FailSync, Commit, Answer
  <2>2. q = p
    BY <1>1, <1>2, <2>1
  <2>3. QED
    BY <1>6, <2>2
<1>7. QED
  BY <1>3, <1>4, <1>5, <1>6 DEF ServerStep

\* A save that no other save overlaps (the transaction of syncGroupsForVersion)
\* leaves exactly the groups it was sent: parents are inserted before what they
\* hold, so none is refused, unless two groups have one name.
THEOREM AloneSavesReplace == Spec => AloneSaveReplaces
<1> DEFINE A == \A p \in Pages : (SaveEnds(p) /\ tx[p].alone) =>
                  IF Distinct(Sent(p)) THEN Shape(db') = Shape(Sent(p)) ELSE db' = db
<1>1. ASSUME IInv, Solitary, RowsDistinct, [Next]_vars, NEW p \in Pages, SaveEnds(p), tx[p].alone
      PROVE  IF Distinct(Sent(p)) THEN Shape(db') = Shape(Sent(p)) ELSE db' = db
  <2>1. tx' # tx
    BY <1>1 DEF SaveEnds
  <2>2. PICK q \in Pages : PageStep(q) \/ ServerStep(q)
    BY <1>1, <2>1 DEF Next, vars
  <2>3. FailSync(p) \/ Commit(p)
    BY <1>1, <2>1, <2>2, PageStepFrame, EndsBy
  <2>4. FailSync(p) => db' = db
    BY DEF FailSync
  <2>5. QED
    BY <1>1, <2>3, <2>4, CommitAlone, FailAlone
<1>2. IInv /\ Solitary /\ RowsDistinct /\ [Next]_vars => [A]_vars
  BY <1>1
<1>3. QED
  BY <1>2, InductiveAlone, PTL DEF Spec, AloneSaveReplaces
=============================================================================
