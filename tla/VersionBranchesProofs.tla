----------------------- MODULE VersionBranchesProofs ------------------------
(***************************************************************************)
(* For any clients, branches, version numbers and bounds: the types, the   *)
(* single default branch and the history of every branch.                  *)
(* What the invariant needs beyond the types is that a request which will  *)
(* insert a revision carries what the insertion needs.                     *)
(***************************************************************************)
EXTENDS VersionBranches, SequenceTheorems, WellFoundedInduction,
        TLAPS

RequestsComplete ==
  \A c \in Clients :
    /\ req[c].kind \in {"push", "merge", "rollback"} => req[c].number \in Number
    /\ req[c].kind = "merge" =>
         req[c].branch \in Branches /\ req[c].tip > 0 /\ req[c].other > 0
    /\ req[c].kind = "delete" => req[c].branch \in Branches

IInv == TypeOK /\ RequestsComplete

-----------------------------------------------------------------------------
(* The newest readable revision *)

LEMMA LiveIsBounded ==
  ASSUME rev \in Seq(Revision), Len(rev) <= MaxRev
  PROVE  Live \subseteq 1..Len(rev) /\ Live \subseteq 1..MaxRev /\ Len(rev) \in Nat
  BY BoundsAssumption DEF Live, Revs

LEMMA NewestExists ==
  ASSUME rev \in Seq(Revision), Len(rev) <= MaxRev, Live # {}
  PROVE  \E r \in Live : \A q \in Live : q <= r
<1> DEFINE Less == {p \in Nat \X Nat : p[1] < p[2]}
           Age == {n \in Nat : \E q \in Live : n = Len(rev) - q}
<1>1. IsWellFoundedOn(Less, Nat)
  <2>1. Less = OpToRel(<, Nat)
    BY DEF OpToRel
  <2>2. QED
    BY <2>1, NatLessThanWellFounded
<1>2. Age # {}
  BY LiveIsBounded
<1>3. PICK n \in Age : \A m \in Age : ~(<<m, n>> \in Less)
  <2> HIDE DEF Less
  <2>1. Age \subseteq Nat
    OBVIOUS
  <2> HIDE DEF Age
  <2>2. QED
    BY <1>1, <1>2, <2>1, WFMin
<1>4. PICK r \in Live : n = Len(rev) - r
  BY <1>3
<1>5. ASSUME NEW q \in Live PROVE q <= r
  <2>1. Len(rev) - q \in Age
    BY LiveIsBounded
  <2>2. ~(<<Len(rev) - q, n>> \in Less)
    BY <1>3, <2>1
  <2>3. ~(Len(rev) - q < n)
    BY <2>2, <2>1, <1>3
  <2>4. QED
    BY <2>3, <1>4, LiveIsBounded
<1>6. QED
  BY <1>5

LEMMA LatestType ==
  ASSUME rev \in Seq(Revision), Len(rev) <= MaxRev
  PROVE  Latest \in Live \cup {0} /\ Latest \in 0..MaxRev /\ (Latest = 0 <=> Live = {})
<1>1. CASE Live = {}
  BY <1>1, BoundsAssumption DEF Latest
<1>2. CASE Live # {}
  <2>1. Latest \in Live
    BY <1>2, NewestExists DEF Latest
  <2>2. QED
    BY <1>2, <2>1, LiveIsBounded
<1>3. QED
  BY <1>1, <1>2

-----------------------------------------------------------------------------
(* Adding and changing revisions *)

LEMMA InsertKeeps ==
  ASSUME rev \in Seq(Revision), Len(rev) <= MaxRev,
         NEW parents \in SUBSET (1..MaxRev), NEW number \in Number,
         Insert(parents, number)
  PROVE  /\ rev' \in Seq(Revision) /\ Len(rev') <= MaxRev
         /\ NewId \in 1..MaxRev
         /\ rev'[NewId].parents = parents
<1>1. [parents |-> parents, number |-> number, live |-> TRUE, immutable |-> FALSE] \in Revision
  BY DEF Revision
<1>2. QED
  BY <1>1, BoundsAssumption DEF Insert, NewId

LEMMA FlagKeeps ==
  ASSUME rev \in Seq(Revision), Len(rev) <= MaxRev, NEW r \in Live,
         NEW p \in BOOLEAN,
         \/ rev' = [rev EXCEPT ![r].live = FALSE]
         \/ rev' = [rev EXCEPT ![r].immutable = p]
  PROVE  rev' \in Seq(Revision) /\ Len(rev') <= MaxRev
<1>1. r \in DOMAIN rev
  BY DEF Live, Revs
<1>2. rev[r] \in Revision
  BY <1>1
<1>3. /\ [rev[r] EXCEPT !.live = FALSE] \in Revision
      /\ [rev[r] EXCEPT !.immutable = p] \in Revision
  BY <1>2 DEF Revision
<1>4. r \in 1..Len(rev)
  BY <1>1
<1>5. CASE rev' = [rev EXCEPT ![r].live = FALSE]
  <2>1. rev' = [rev EXCEPT ![r] = [rev[r] EXCEPT !.live = FALSE]]
    BY <1>5
  <2>2. QED
    BY <1>3, <1>4, <2>1, ExceptSeq
<1>6. CASE rev' = [rev EXCEPT ![r].immutable = p]
  <2>1. rev' = [rev EXCEPT ![r] = [rev[r] EXCEPT !.immutable = p]]
    BY <1>6
  <2>2. QED
    BY <1>3, <1>4, <2>1, ExceptSeq
<1>7. QED
  BY <1>5, <1>6

LEMMA CarryKeeps ==
  ASSUME req \in [Clients -> Request \cup {Idle}], NEW c \in Clients,
         NEW kind \in Kinds, NEW b \in Branches \cup {None}, NEW tip \in 0..MaxRev,
         NEW other \in 0..MaxRev, NEW number \in 0..MaxNumber,
         Carry(c, kind, b, tip, other, number)
  PROVE  /\ req' \in [Clients -> Request \cup {Idle}]
         /\ req'[c] = [kind |-> kind, branch |-> b, tip |-> tip,
                       other |-> other, number |-> number]
         /\ \A d \in Clients \ {c} : req'[d] = req[d]
<1>1. [kind |-> kind, branch |-> b, tip |-> tip, other |-> other, number |-> number] \in Request
  BY DEF Request
<1>2. QED
  BY <1>1, Zenon DEF Carry

LEMMA AnswerKeeps ==
  ASSUME req \in [Clients -> Request \cup {Idle}], NEW c \in Clients, Answer(c)
  PROVE  /\ req' \in [Clients -> Request \cup {Idle}]
         /\ req'[c] = Idle
         /\ \A d \in Clients \ {c} : req'[d] = req[d]
  BY Zenon DEF Answer

-----------------------------------------------------------------------------
(* The invariant *)

LEMMA RevsAre ==
  ASSUME IInv
  PROVE  /\ rev \in Seq(Revision) /\ Len(rev) <= MaxRev /\ Len(rev) \in Nat
         /\ Revs = 1..Len(rev) /\ Live \subseteq Revs
         /\ \A r \in Revs : rev[r] \in Revision
         /\ branch \in [Branches -> BranchRow \cup {None}]
         /\ req \in [Clients -> Request \cup {Idle}] /\ RequestsComplete
  BY DEF IInv, TypeOK, Revs, Live

\* A promotion or a new policy leaves every row a row, with the tip it had.
LEMMA PatchedRow ==
  ASSUME IInv, NEW d \in Branches, NEW body \in Patches, PatchBranch(d, body), NEW b \in Rows
  PROVE  branch'[b] \in BranchRow /\ branch'[b] # None /\ branch'[b].tip = branch[b].tip
<1> DEFINE promoted == "isDefault" \in body /\ ~branch[d].default
           add  == (body \cap Policies) \cup (IF promoted THEN {"requireMergePath"} ELSE {})
           drop == (IF "noMergePath" \in body THEN {"requireMergePath"} ELSE {})
                     \cup (IF "unprotected" \in body THEN {"protected"} ELSE {})
           set  == [branch[b] EXCEPT !.default = @ \/ "isDefault" \in body,
                                     !.policy = (@ \cup add) \ drop]
           down == [branch[b] EXCEPT !.default = FALSE]
<1>1. branch[b] \in BranchRow /\ add \subseteq Policies /\ b \in Branches
  BY RevsAre DEF Policies, Rows
<1>2. down \in BranchRow /\ down.tip = branch[b].tip
  BY <1>1 DEF BranchRow
<1>3. set \in BranchRow /\ set.tip = branch[b].tip
  <2> HIDE DEF add, drop
  <2>1. (branch[b].policy \cup add) \ drop \in SUBSET Policies
    BY <1>1 DEF BranchRow
  <2>2. (branch[b].default \/ "isDefault" \in body) \in BOOLEAN
    OBVIOUS
  <2>3. QED
    BY <1>1, <2>1, <2>2 DEF BranchRow
<1>4. branch'[b] \in {branch[b], set, down}
  BY <1>1 DEF PatchBranch
<1>5. QED
  BY <1>1, <1>2, <1>3, <1>4, NoneAssumption

LEMMA InitIInv == Init => IInv
<1> SUFFICES ASSUME Init PROVE IInv
  OBVIOUS
<1>1. rev \in Seq(Revision) /\ Len(rev) <= MaxRev
  BY BoundsAssumption DEF Init
<1>2. branch \in [Branches -> BranchRow \cup {None}] /\ spent \in SUBSET Branches
  BY Zenon DEF Init
<1>3. req \in [Clients -> Request \cup {Idle}]
  BY Zenon DEF Init
<1>4. RequestsComplete
  BY DEF Init, RequestsComplete, Idle
<1>5. QED
  BY <1>1, <1>2, <1>3, <1>4 DEF IInv, TypeOK

LEMMA StepIInv == ASSUME IInv, [Next]_vars PROVE IInv'
<1> USE DEF IInv, TypeOK
<1> DEFINE Reqs == req' \in [Clients -> Request \cup {Idle}] /\ RequestsComplete'
<1> DEFINE Rest == /\ rev' \in Seq(Revision) /\ Len(rev') <= MaxRev
                   /\ branch' \in [Branches -> BranchRow \cup {None}]
                   /\ spent' \in SUBSET Branches
<1>a. ASSUME NEW c \in Clients, Answer(c) PROVE Reqs
  <2>1. /\ req' \in [Clients -> Request \cup {Idle}]
        /\ req'[c] = Idle
        /\ \A d \in Clients \ {c} : req'[d] = req[d]
    BY <1>a, AnswerKeeps
  <2>2. QED
    BY <2>1 DEF RequestsComplete, Idle
<1>b. ASSUME NEW c \in Clients,
             NEW kind \in Kinds, NEW b \in Branches \cup {None}, NEW tip \in 0..MaxRev,
             NEW other \in 0..MaxRev, NEW number \in 0..MaxNumber,
             Carry(c, kind, b, tip, other, number),
             kind \in {"push", "merge", "rollback"} => number \in Number,
             kind = "merge" => b \in Branches /\ tip > 0 /\ other > 0,
             kind = "delete" => b \in Branches
      PROVE  Reqs
  <2>1. /\ req' \in [Clients -> Request \cup {Idle}]
        /\ req'[c] = [kind |-> kind, branch |-> b, tip |-> tip,
                      other |-> other, number |-> number]
        /\ \A d \in Clients \ {c} : req'[d] = req[d]
    BY <1>b, CarryKeeps
  <2>2. QED
    BY <1>b, <2>1 DEF RequestsComplete
<1>c. UNCHANGED req => Reqs
  BY DEF RequestsComplete
<1>d. UNCHANGED <<rev, branch, spent>> => Rest
  BY BoundsAssumption
<1>e. ASSUME NEW b \in Rows PROVE branch[b] \in BranchRow /\ branch[b].tip \in 1..MaxRev
  BY <1>e DEF Rows, BranchRow
<1>f. ASSUME NEW c \in Clients, req[c] # Idle PROVE req[c] \in Request
  BY <1>f
<1>g. Reqs /\ Rest => IInv'
  OBVIOUS
<1> HIDE DEF IInv, TypeOK
<1>h. /\ rev \in Seq(Revision) /\ Len(rev) <= MaxRev
      /\ branch \in [Branches -> BranchRow \cup {None}]
      /\ spent \in SUBSET Branches /\ RequestsComplete
  BY DEF IInv, TypeOK
<1> HIDE DEF Reqs, Rest
<1>1. ASSUME NEW c \in Clients, PushRead(c) PROVE IInv'
  <2>1. Rest
    BY <1>1, <1>d DEF PushRead
  <2>2. PICK n \in PushNumbers :
           \/ \E b \in Rows : Carry(c, "push", b, branch[b].tip, 0, n)
           \/ Carry(c, "push", None, Latest, 0, n)
    BY <1>1 DEF PushRead
  <2>3. n \in Number
    BY BoundsAssumption DEF PushNumbers, AutoNumbers, Number
  <2>4. n \in 0..MaxNumber /\ 0 \in 0..MaxRev /\ "push" \in Kinds
    BY <2>3, BoundsAssumption DEF Number, Kinds
  <2>5. ASSUME NEW b \in Rows, Carry(c, "push", b, branch[b].tip, 0, n) PROVE Reqs
    BY <2>3, <2>4, <2>5, <1>b, <1>e, BoundsAssumption DEF Rows
  <2>6. ASSUME Carry(c, "push", None, Latest, 0, n) PROVE Reqs
    BY <2>3, <2>4, <2>6, <1>b, <1>h, LatestType
  <2>7. QED
    BY <2>1, <2>2, <2>5, <2>6, <1>g
<1>2. ASSUME NEW c \in Clients, PushCommit(c) PROVE IInv'
  <2>1. req[c].number \in Number /\ req[c].branch \in Rows
    BY <1>2, <1>h DEF PushCommit, TipUnmoved, RequestsComplete
  <2>2. {req[c].tip} \in SUBSET (1..MaxRev)
    BY <1>2, <2>1, <1>e DEF PushCommit, TipUnmoved
  <2>3. rev' \in Seq(Revision) /\ Len(rev') <= MaxRev /\ NewId \in 1..MaxRev
    BY <1>2, <1>h, <2>1, <2>2, InsertKeeps DEF PushCommit
  <2>4. branch' \in [Branches -> BranchRow \cup {None}]
    BY <1>2, <1>h, <2>1, <2>3, <1>e DEF PushCommit, BranchRow, Rows
  <2>5. Rest /\ Reqs
    BY <1>2, <1>a, <1>h, <2>3, <2>4 DEF PushCommit, Rest
  <2>6. QED
    BY <2>5, <1>g
<1>3. ASSUME NEW c \in Clients, PushCommitNoBranch(c) PROVE IInv'
  <2>1. req[c].number \in Number
    BY <1>3, <1>h DEF PushCommitNoBranch, RequestsComplete
  <2>2. Parent(req[c]) \in SUBSET (1..MaxRev)
    BY <1>3, <1>h, LatestType DEF PushCommitNoBranch, HeadUnmoved, Parent
  <2>3. rev' \in Seq(Revision) /\ Len(rev') <= MaxRev /\ NewId \in 1..MaxRev
    BY <1>3, <1>h, <2>1, <2>2, InsertKeeps DEF PushCommitNoBranch
  <2>4. ({"requireMergePath"} \cup (IF Main \in Rows THEN branch[Main].policy ELSE {}))
          \in SUBSET Policies
    BY <1>e DEF Policies, BranchRow
  <2>5. branch' \in [Branches -> BranchRow \cup {None}]
    BY <1>3, <1>h, <2>3, <2>4, ClientsAssumption DEF PushCommitNoBranch, BranchRow
  <2>6. Rest /\ Reqs
    BY <1>3, <1>a, <1>h, <2>3, <2>5 DEF PushCommitNoBranch, Rest
  <2>7. QED
    BY <2>6, <1>g
<1>4. ASSUME NEW c \in Clients, PushRefused(c) PROVE IInv'
  BY <1>4, <1>a, <1>d, <1>g DEF PushRefused
<1>5. ASSUME NEW c \in Clients, MergeRead(c) PROVE IInv'
  <2>1. Rest
    BY <1>5, <1>d DEF MergeRead
  <2>2. PICK s \in Rows, t \in Rows, n \in AutoNumbers :
           Carry(c, "merge", t, branch[t].tip, branch[s].tip, n)
    BY <1>5 DEF MergeRead
  <2>3. n \in Number /\ n \in 0..MaxNumber /\ "merge" \in Kinds
    BY BoundsAssumption DEF AutoNumbers, Number, Kinds
  <2>4. /\ t \in Branches
        /\ branch[t].tip \in 0..MaxRev /\ branch[t].tip > 0
        /\ branch[s].tip \in 0..MaxRev /\ branch[s].tip > 0
    BY <1>e, BoundsAssumption DEF Rows
  <2>5. Reqs
    BY <2>2, <2>3, <2>4, <1>b
  <2>6. QED
    BY <2>1, <2>5, <1>g
<1>6. ASSUME NEW c \in Clients, MergeCommit(c) PROVE IInv'
  <2>1. req[c].number \in Number
    BY <1>6, <1>h DEF MergeCommit, RequestsComplete
  <2>2. {req[c].tip, req[c].other} \in SUBSET (1..MaxRev)
    <3>1. req[c] \in Request /\ req[c].tip > 0 /\ req[c].other > 0
      BY <1>6, <1>f, <1>h DEF MergeCommit, Idle, RequestsComplete
    <3>2. QED
      BY <3>1, BoundsAssumption DEF Request
  <2>3. rev' \in Seq(Revision) /\ Len(rev') <= MaxRev /\ NewId \in 1..MaxRev
    BY <1>6, <1>h, <2>1, <2>2, InsertKeeps DEF MergeCommit
  <2>4. branch' \in [Branches -> BranchRow \cup {None}]
    <3>1. ASSUME NEW b \in Rows PROVE [branch[b] EXCEPT !.tip = NewId] \in BranchRow
      BY <1>e, <2>3 DEF BranchRow
    <3>2. QED
      BY <1>6, <1>h, <3>1 DEF MergeCommit
  <2>5. Rest /\ Reqs
    BY <1>6, <1>a, <1>h, <2>3, <2>4 DEF MergeCommit, Rest
  <2>6. QED
    BY <2>5, <1>g
<1>7. ASSUME NEW c \in Clients, MergeRefused(c) PROVE IInv'
  BY <1>7, <1>a, <1>d, <1>g DEF MergeRefused
<1>8. ASSUME NEW c \in Clients, RollbackRead(c) PROVE IInv'
  <2>1. Rest
    BY <1>8, <1>d DEF RollbackRead
  <2>2. PICK b \in Rows, target \in Live, n \in AutoNumbers :
           Carry(c, "rollback", b, branch[b].tip, target, n)
    BY <1>8 DEF RollbackRead
  <2>3. n \in Number /\ n \in 0..MaxNumber /\ "rollback" \in Kinds
    BY BoundsAssumption DEF AutoNumbers, Number, Kinds
  <2>4. b \in Branches /\ branch[b].tip \in 0..MaxRev /\ target \in 0..MaxRev
    BY <1>e, <1>h, LiveIsBounded, BoundsAssumption DEF Rows
  <2>5. Reqs
    BY <2>2, <2>3, <2>4, <1>b
  <2>6. QED
    BY <2>1, <2>5, <1>g
<1>9. ASSUME NEW c \in Clients, RollbackCommit(c) PROVE IInv'
  <2>1. req[c].number \in Number /\ req[c].branch \in Rows
    BY <1>9, <1>h DEF RollbackCommit, TipUnmoved, RequestsComplete
  <2>2. {req[c].tip} \in SUBSET (1..MaxRev)
    BY <1>9, <2>1, <1>e DEF RollbackCommit, TipUnmoved
  <2>3. rev' \in Seq(Revision) /\ Len(rev') <= MaxRev /\ NewId \in 1..MaxRev
    BY <1>9, <1>h, <2>1, <2>2, InsertKeeps DEF RollbackCommit
  <2>4. branch' \in [Branches -> BranchRow \cup {None}]
    BY <1>9, <1>h, <2>1, <2>3, <1>e DEF RollbackCommit, BranchRow, Rows
  <2>5. Rest /\ Reqs
    BY <1>9, <1>a, <1>h, <2>3, <2>4 DEF RollbackCommit, Rest
  <2>6. QED
    BY <2>5, <1>g
<1>10. ASSUME NEW c \in Clients, RollbackRefused(c) PROVE IInv'
  BY <1>10, <1>a, <1>d, <1>g DEF RollbackRefused
<1>11. ASSUME NEW c \in Clients, NEW b \in Branches, DeleteBranchRead(c, b) PROVE IInv'
  <2>1. Rest
    BY <1>11, <1>d DEF DeleteBranchRead
  <2>2. 0 \in 0..MaxRev /\ 0 \in 0..MaxNumber /\ "delete" \in Kinds
    BY BoundsAssumption DEF Kinds
  <2>3. Reqs
    BY <1>11, <2>2, <1>b DEF DeleteBranchRead
  <2>4. QED
    BY <2>1, <2>3, <1>g
<1>12. ASSUME NEW c \in Clients, DeleteBranchCommit(c) PROVE IInv'
  <2>1. req[c].branch \in Branches
    BY <1>12, <1>h DEF DeleteBranchCommit, RequestsComplete
  <2>2. Rest /\ Reqs
    BY <1>12, <1>a, <1>h, <2>1 DEF DeleteBranchCommit, Rest
  <2>3. QED
    BY <2>2, <1>g
<1>13. ASSUME NEW b \in Branches, NEW r \in Revs, CreateBranch(b, r) PROVE IInv'
  <2>1. r \in 1..MaxRev
    BY <1>13, <1>h, LiveIsBounded DEF CreateBranch
  <2>2. [tip |-> r, default |-> FALSE, policy |-> {}] \in BranchRow
    BY <2>1 DEF BranchRow
  <2>3. Rest /\ Reqs
    BY <1>13, <1>c, <1>h, <2>2 DEF CreateBranch, Rest
  <2>4. QED
    BY <2>3, <1>g
<1>14. ASSUME NEW b \in Branches, NEW body \in Patches, PatchBranch(b, body) PROVE IInv'
  <2>1. branch' \in [Branches -> BranchRow \cup {None}]
    <3>1. \A x \in Rows : branch'[x] \in BranchRow
      BY <1>14, PatchedRow
    <3>2. \A x \in Branches \ Rows : branch'[x] = None
      BY <1>14 DEF PatchBranch, Demoted, Rows
    <3>3. \A x \in Branches : branch'[x] \in BranchRow \cup {None}
      BY <3>1, <3>2 DEF Rows
    <3>4. QED
      BY <1>14, <3>3 DEF PatchBranch
  <2>2. Rest /\ Reqs
    BY <1>14, <1>c, <1>h, <2>1 DEF PatchBranch, Rest
  <2>3. QED
    BY <2>2, <1>g
<1>15. ASSUME NEW n \in PushNumbers, CreateLoose(n) PROVE IInv'
  <2>1. n \in Number
    BY BoundsAssumption DEF PushNumbers, AutoNumbers, Number
  <2>2. rev' \in Seq(Revision) /\ Len(rev') <= MaxRev
    BY <1>15, <1>h, <2>1, InsertKeeps DEF CreateLoose
  <2>3. Rest /\ Reqs
    BY <1>15, <1>c, <1>h, <2>2 DEF CreateLoose, Rest
  <2>4. QED
    BY <2>3, <1>g
<1>16. ASSUME NEW r \in Revs, DeleteRevision(r) PROVE IInv'
  <2>1. rev' \in Seq(Revision) /\ Len(rev') <= MaxRev
    BY <1>16, <1>h, FlagKeeps DEF DeleteRevision
  <2>2. Rest /\ Reqs
    BY <1>16, <1>c, <1>h, <2>1 DEF DeleteRevision, Rest
  <2>3. QED
    BY <2>2, <1>g
<1>17. ASSUME NEW r \in Revs, NEW p \in BOOLEAN, SetPublished(r, p) PROVE IInv'
  <2>1. rev' \in Seq(Revision) /\ Len(rev') <= MaxRev
    BY <1>17, <1>h, FlagKeeps DEF SetPublished
  <2>2. Rest /\ Reqs
    BY <1>17, <1>c, <1>h, <2>1 DEF SetPublished, Rest
  <2>3. QED
    BY <2>2, <1>g
<1>18. CASE UNCHANGED vars
  BY <1>18, <1>c, <1>d, <1>g DEF vars
<1>19. QED
  BY <1>1, <1>2, <1>3, <1>4, <1>5, <1>6, <1>7, <1>8, <1>9, <1>10, <1>11, <1>12,
     <1>13, <1>14, <1>15, <1>16, <1>17, <1>18 DEF Next, Client

(* Every state has the types the tables' columns and constraints promise. *)
THEOREM TypesHold == Spec => []TypeOK
<1>1. IInv => TypeOK
  BY DEF IInv
<1>2. IInv /\ [Next]_vars => IInv'
  BY StepIInv
<1>3. QED
  BY InitIInv, <1>1, <1>2, PTL DEF Spec

-----------------------------------------------------------------------------
(* One default branch *)

(* At no time do two branches of a project both claim to be its default. *)
THEOREM OneDefault == Spec => []AtMostOneDefault
<1>1. Init => AtMostOneDefault
  BY DEF Init, AtMostOneDefault, Rows
<1>2. ASSUME IInv, AtMostOneDefault, [Next]_vars PROVE AtMostOneDefault'
  <2> USE DEF AtMostOneDefault, Rows
  <2>a. /\ branch \in [Branches -> BranchRow \cup {None}] /\ Main \in Branches
        /\ \A b \in Rows : branch[b] \in BranchRow
        /\ \A b \in Rows : branch[b].default \in BOOLEAN
    BY <1>2, ClientsAssumption DEF IInv, TypeOK, BranchRow
  <2>b. UNCHANGED branch => AtMostOneDefault'
    BY <1>2
  <2>1. ASSUME NEW c \in Clients, PushCommit(c) PROVE AtMostOneDefault'
    BY <1>2, <2>1, <2>a DEF PushCommit, TipUnmoved, BranchRow
  <2>2. ASSUME NEW c \in Clients, PushCommitNoBranch(c) PROVE AtMostOneDefault'
    BY <1>2, <2>2, <2>a DEF PushCommitNoBranch, BootstrapRefused
  <2>3. ASSUME NEW c \in Clients, MergeCommit(c) PROVE AtMostOneDefault'
    BY <1>2, <2>3, <2>a DEF MergeCommit, BranchRow
  <2>4. ASSUME NEW c \in Clients, RollbackCommit(c) PROVE AtMostOneDefault'
    BY <1>2, <2>4, <2>a DEF RollbackCommit, TipUnmoved, BranchRow
  <2>5. ASSUME NEW c \in Clients, DeleteBranchCommit(c) PROVE AtMostOneDefault'
    BY <1>2, <2>5, <2>a DEF DeleteBranchCommit
  <2>6. ASSUME NEW b \in Branches, NEW r \in Revs, CreateBranch(b, r) PROVE AtMostOneDefault'
    BY <1>2, <2>6, <2>a DEF CreateBranch
  <2>7. ASSUME NEW b \in Branches, NEW body \in Patches, PatchBranch(b, body)
        PROVE  AtMostOneDefault'
    BY <1>2, <2>7, <2>a DEF PatchBranch, Demoted, BranchRow
  <2>8. QED
    BY <1>2, <2>b, <2>1, <2>2, <2>3, <2>4, <2>5, <2>6, <2>7
    DEF Next, Client, vars, PushRead, PushRefused, MergeRead, MergeRefused,
        RollbackRead, RollbackRefused, DeleteBranchRead, Carry,
        CreateLoose, DeleteRevision, SetPublished
<1>3. IInv /\ [Next]_vars => IInv'
  BY StepIInv
<1>4. QED
  BY InitIInv, <1>1, <1>2, <1>3, PTL DEF Spec

-----------------------------------------------------------------------------
(* History *)

\* Where a write may move a branch.
LEMMA StepKeepsHistory ==
  ASSUME IInv, [Next]_vars, NEW b \in Branches, Moves(b)
  PROVE  Continues(b) \/ \E c \in Clients : Overtaken(c, b) /\ req'[c] = Idle
<1> DEFINE Kept == Continues(b) \/ \E c \in Clients : Overtaken(c, b) /\ req'[c] = Idle
<1>a. /\ rev \in Seq(Revision) /\ Len(rev) <= MaxRev
      /\ branch \in [Branches -> BranchRow \cup {None}]
      /\ req \in [Clients -> Request \cup {Idle}]
      /\ RequestsComplete
  BY DEF IInv, TypeOK
<1>b. branch[b] \in BranchRow
  BY <1>a DEF Moves, Rows
<1>c. ASSUME NEW parents \in SUBSET (1..MaxRev), NEW number \in Number,
             Insert(parents, number), branch[b].tip \in parents,
             branch'[b].tip = NewId
      PROVE  Continues(b)
  BY <1>a, <1>c, InsertKeeps DEF Continues
<1>d. branch[b].tip \in 1..MaxRev
  BY <1>b DEF BranchRow
<1>e. ASSUME NEW c \in Clients, req[c].kind \in {"push", "merge", "rollback"}
      PROVE  req[c].number \in Number
  BY <1>a, <1>e DEF RequestsComplete
<1>f. UNCHANGED branch => FALSE
  BY DEF Moves
<1>1. ASSUME NEW c \in Clients, PushCommit(c) PROVE Kept
  <2>1. req[c].branch = b /\ branch'[b].tip = NewId /\ branch[b].tip = req[c].tip
    BY <1>1, <1>a, <1>b DEF PushCommit, TipUnmoved, Moves, Rows, BranchRow
  <2>2. QED
    BY <1>1, <1>c, <1>d, <1>e, <2>1 DEF PushCommit
<1>2. ASSUME NEW c \in Clients, PushCommitNoBranch(c) PROVE Kept
  <2>1. CASE req[c].tip = 0
    BY <1>2, <1>a, <2>1, LatestType DEF PushCommitNoBranch, HeadUnmoved, Moves
  <2>2. CASE req[c].tip # 0
    BY <1>2, <1>f, <2>2 DEF PushCommitNoBranch
  <2>3. QED
    BY <2>1, <2>2
<1>3. ASSUME NEW c \in Clients, MergeCommit(c) PROVE Kept
  <2>1. req[c].branch = b /\ branch'[b].tip = NewId
    BY <1>3, <1>a, <1>b DEF MergeCommit, Moves, Rows, BranchRow
  <2>2. CASE req[c].tip = branch[b].tip
    <3>1. req[c] \in Request /\ req[c].other > 0
      BY <1>3, <1>a DEF MergeCommit, Idle, RequestsComplete
    <3>2. {req[c].tip, req[c].other} \in SUBSET (1..MaxRev)
      BY <3>1, <1>d, <2>2, BoundsAssumption DEF Request
    <3>3. QED
      BY <1>3, <1>c, <1>e, <2>1, <2>2, <3>2 DEF MergeCommit
  <2>3. CASE req[c].tip # branch[b].tip
    <3>1. req'[c] = Idle
      BY <1>3, <1>a, AnswerKeeps DEF MergeCommit
    <3>2. QED
      BY <1>3, <2>1, <2>3, <3>1 DEF MergeCommit, Overtaken
  <2>4. QED
    BY <2>2, <2>3
<1>4. ASSUME NEW c \in Clients, RollbackCommit(c) PROVE Kept
  <2>1. req[c].branch = b /\ branch'[b].tip = NewId /\ branch[b].tip = req[c].tip
    BY <1>4, <1>a, <1>b DEF RollbackCommit, TipUnmoved, Moves, Rows, BranchRow
  <2>2. QED
    BY <1>4, <1>c, <1>d, <1>e, <2>1 DEF RollbackCommit
<1>5. ASSUME NEW c \in Clients, DeleteBranchCommit(c) PROVE FALSE
  BY <1>5, <1>a DEF DeleteBranchCommit, Moves, Rows
<1>6. ASSUME NEW d \in Branches, NEW r \in Revs, CreateBranch(d, r) PROVE FALSE
  BY <1>6, <1>a DEF CreateBranch, Moves, Rows
<1>7. ASSUME NEW d \in Branches, NEW body \in Patches, PatchBranch(d, body) PROVE FALSE
  BY <1>7, <1>a, <1>b DEF PatchBranch, Demoted, Moves, Rows, BranchRow
<1>8. QED
  BY <1>f, <1>1, <1>2, <1>3, <1>4, <1>5, <1>6, <1>7
  DEF Next, Client, vars, PushRead, PushRefused, MergeRead, MergeRefused,
      RollbackRead, RollbackRefused, DeleteBranchRead, CreateLoose,
      DeleteRevision, SetPublished

(* A branch always moves to a child of the tip it had, except by the write of
   a merge whose target was overtaken. *)
THEOREM HistoryOfPushes == Spec => PushAndRollbackKeepHistory
<1>1. IInv /\ [Next]_vars =>
        [\A b \in Branches : Moves(b) =>
           \/ Continues(b)
           \/ \E c \in Clients : Overtaken(c, b) /\ req'[c] = Idle]_vars
  BY StepKeepsHistory
<1>2. QED
  BY InitIInv, StepIInv, <1>1, PTL DEF Spec, PushAndRollbackKeepHistory

-----------------------------------------------------------------------------
(* A project without branches                                              *)

Unbranched == Rows = {} /\ spent = {}

Older == \A q \in Revs : \A p \in rev[q].parents : p < q

\* Before the first branch every request is a push that read none, and the
\* revisions form a line.
Line ==
  Unbranched =>
    /\ \A c \in Clients : /\ req[c].kind \notin {"merge", "rollback", "delete"}
                          /\ req[c].kind = "push" => req[c].branch = None
    /\ Older
    /\ \A p, q \in Live : p # q => rev[p].parents \cap rev[q].parents = {}

\* The first branch ends it for good, even when it is deleted.
LEMMA NeverUnbranchedAgain ==
  ASSUME IInv, [Next]_vars, Unbranched'
  PROVE  Unbranched
<1>1. branch \in [Branches -> BranchRow \cup {None}]
  BY DEF IInv, TypeOK
<1>2. ASSUME NEW b \in Branches, branch'[b] = None, spent' = spent PROVE branch[b] = None
  <2>1. CASE UNCHANGED branch
    BY <1>2, <2>1
  <2>2. ASSUME NEW c \in Clients, PushCommit(c) \/ MergeCommit(c) \/ RollbackCommit(c)
        PROVE  branch[b] = None
    <3> SUFFICES ASSUME branch[b] # None PROVE FALSE
      OBVIOUS
    <3>1. branch[b] \in BranchRow
      BY <1>1
    <3>2. NewId \in 1..MaxRev
      BY <2>2, BoundsAssumption
      DEF PushCommit, MergeCommit, RollbackCommit, Insert, NewId, IInv, TypeOK
    <3>3. [branch[b] EXCEPT !.tip = NewId] \in BranchRow
      BY <3>1, <3>2 DEF BranchRow
    <3>4. branch'[b] = branch[b] \/ branch'[b] = [branch[b] EXCEPT !.tip = NewId]
      <4>1. CASE PushCommit(c)
        BY <1>1, <4>1 DEF PushCommit
      <4>2. CASE MergeCommit(c)
        BY <1>1, <4>2 DEF MergeCommit
      <4>3. CASE RollbackCommit(c)
        BY <1>1, <4>3 DEF RollbackCommit
      <4>4. QED
        BY <2>2, <4>1, <4>2, <4>3
    <3>5. QED
      BY <1>2, <3>3, <3>4, NoneAssumption
  <2>3. ASSUME NEW c \in Clients, PushCommitNoBranch(c) PROVE branch[b] = None
    <3>1. CASE req[c].tip # 0
      BY <1>2, <2>3, <3>1 DEF PushCommitNoBranch
    <3>2. CASE req[c].tip = 0 /\ b # Main
      BY <1>1, <1>2, <2>3, <3>2 DEF PushCommitNoBranch
    <3>3. CASE req[c].tip = 0 /\ b = Main
      <4> DEFINE policy == {"requireMergePath"} \cup (IF Main \in Rows THEN branch[Main].policy ELSE {})
                 row == [tip |-> NewId, default |-> TRUE, policy |-> policy]
      <4>1. branch'[b] = row
        BY <1>1, <2>3, <3>3 DEF PushCommitNoBranch
      <4>2. NewId \in 1..MaxRev
        BY <2>3, BoundsAssumption DEF PushCommitNoBranch, Insert, NewId, IInv, TypeOK
      <4>3. policy \in SUBSET Policies
        BY <1>1, ClientsAssumption DEF Rows, BranchRow, Policies
      <4>4. row \in BranchRow
        BY <4>2, <4>3 DEF BranchRow
      <4>5. QED
        BY <1>2, <4>1, <4>4, NoneAssumption
    <3>4. QED
      BY <3>1, <3>2, <3>3
  <2>4. ASSUME NEW c \in Clients, DeleteBranchCommit(c) PROVE branch[b] = None
    BY <2>4 DEF DeleteBranchCommit, Unbranched
  <2>5. ASSUME NEW d \in Branches, NEW r \in Revs, CreateBranch(d, r) PROVE branch[b] = None
    BY <1>1, <1>2, <2>5 DEF CreateBranch, Rows
  <2>6. ASSUME NEW d \in Branches, NEW body \in Patches, PatchBranch(d, body)
        PROVE  branch[b] = None
    BY <1>2, <2>6, PatchedRow DEF Rows
  <2>7. QED
    BY <2>1, <2>2, <2>3, <2>4, <2>5, <2>6
    DEF Next, Client, vars, PushRead, PushRefused, MergeRead, MergeRefused, RollbackRead,
        RollbackRefused, DeleteBranchRead, CreateLoose, DeleteRevision, SetPublished
<1>3. spent' = spent /\ spent = {}
  BY DEF Unbranched, Next, Client, vars, PushRead, PushCommit, PushCommitNoBranch, PushRefused,
         MergeRead, MergeCommit, MergeRefused, RollbackRead, RollbackCommit, RollbackRefused,
         DeleteBranchRead, DeleteBranchCommit, CreateBranch, PatchBranch, CreateLoose,
         DeleteRevision, SetPublished
<1>4. QED
  BY <1>2, <1>3 DEF Unbranched, Rows

\* A revision whose parents are readable and the newest makes no fork.
LEMMA InsertInLine ==
  ASSUME rev \in Seq(Revision), Len(rev) <= MaxRev, Older,
         \A p, q \in Live : p # q => rev[p].parents \cap rev[q].parents = {},
         NEW parents \in SUBSET Live, \A p \in parents : \A q \in Live : q <= p,
         NEW number \in Number, Insert(parents, number)
  PROVE  /\ Older'
         /\ \A p, q \in Live' : p # q => rev'[p].parents \cap rev'[q].parents = {}
<1> DEFINE new == [parents |-> parents, number |-> number, live |-> TRUE, immutable |-> FALSE]
<1>1. /\ rev' = Append(rev, new) /\ Len(rev) \in Nat /\ Revs = 1..Len(rev) /\ Live \subseteq Revs
  BY DEF Insert, Revs, Live
<1>2. /\ DOMAIN rev' = 1..(Len(rev) + 1) /\ rev'[Len(rev) + 1] = new
      /\ \A q \in Revs : rev'[q] = rev[q]
  BY <1>1
<1>3. \A p \in parents : p \in Revs /\ p < Len(rev) + 1
  BY <1>1
<1>4. Older'
  <2> SUFFICES ASSUME NEW q \in DOMAIN rev', NEW p \in rev'[q].parents PROVE p < q
    BY DEF Older, Revs
  <2>1. CASE q \in Revs
    BY <1>2, <2>1 DEF Older
  <2>2. CASE q = Len(rev) + 1
    BY <1>2, <1>3, <2>2
  <2>3. QED
    BY <1>1, <1>2, <2>1, <2>2
<1>5. \A q \in Live' : q \in Live \/ q = Len(rev) + 1
  BY <1>1, <1>2 DEF Live, Revs
<1>6. \A q \in Live : rev[q].parents \cap parents = {}
  <2> SUFFICES ASSUME NEW q \in Live, NEW x \in rev[q].parents, x \in parents PROVE FALSE
    OBVIOUS
  <2>1. x < q /\ q <= x
    BY <1>1 DEF Older
  <2>2. x \in Nat /\ q \in Nat
    BY <1>1
  <2>3. QED
    BY <2>1, <2>2
<1>7. \A q \in Live : rev'[q].parents = rev[q].parents
  BY <1>1, <1>2
<1>8. QED
  BY <1>2, <1>4, <1>5, <1>6, <1>7

LEMMA LineSteps == ASSUME IInv, Line, [Next]_vars PROVE Line'
<1> SUFFICES ASSUME Unbranched'
             PROVE  /\ \A c \in Clients : /\ req'[c].kind \notin {"merge", "rollback", "delete"}
                                          /\ req'[c].kind = "push" => req'[c].branch = None
                    /\ Older'
                    /\ \A p, q \in Live' : p # q => rev'[p].parents \cap rev'[q].parents = {}
  BY DEF Line
<1>1. /\ Rows = {} /\ spent = {} /\ Older
      /\ \A c \in Clients : /\ req[c].kind \notin {"merge", "rollback", "delete"}
                            /\ req[c].kind = "push" => req[c].branch = None
      /\ \A p, q \in Live : p # q => rev[p].parents \cap rev[q].parents = {}
  BY NeverUnbranchedAgain DEF Line, Unbranched
<1>2. /\ rev \in Seq(Revision) /\ Len(rev) <= MaxRev /\ req \in [Clients -> Request \cup {Idle}]
  BY DEF IInv, TypeOK
<1> DEFINE Requests == \A c \in Clients : /\ req'[c].kind \notin {"merge", "rollback", "delete"}
                                          /\ req'[c].kind = "push" => req'[c].branch = None
           Straight == /\ Older'
                       /\ \A p, q \in Live' : p # q => rev'[p].parents \cap rev'[q].parents = {}
<1>3. req' = req => Requests
  BY <1>1
<1>4. rev' = rev => Straight
  BY <1>1 DEF Older, Revs, Live
<1>5. ASSUME NEW c \in Clients, Answer(c) PROVE Requests
  BY <1>1, <1>2, <1>5, AnswerKeeps DEF Idle
<1>6. ASSUME NEW c \in Clients, PushRead(c) PROVE Requests /\ Straight
  <2>1. PICK n \in PushNumbers : Carry(c, "push", None, Latest, 0, n)
    BY <1>1, <1>6 DEF PushRead
  <2>2. \A d \in Clients : req'[d] = IF d = c
                                     THEN [kind |-> "push", branch |-> None, tip |-> Latest,
                                           other |-> 0, number |-> n]
                                     ELSE req[d]
    BY <1>2, <2>1 DEF Carry
  <2>3. Requests
    BY <1>1, <2>2
  <2>4. QED
    BY <1>4, <1>6, <2>3 DEF PushRead
<1>7. ASSUME NEW c \in Clients, PushCommitNoBranch(c) PROVE Requests /\ Straight
  <2>1. req[c].tip # 0
    <3> SUFFICES ASSUME req[c].tip = 0 PROVE FALSE
      OBVIOUS
    <3> DEFINE policy == {"requireMergePath"} \cup (IF Main \in Rows THEN branch[Main].policy ELSE {})
               row == [tip |-> NewId, default |-> TRUE, policy |-> policy]
    <3>1. branch'[Main] = row
      BY <1>7, ClientsAssumption DEF PushCommitNoBranch, IInv, TypeOK
    <3>2. NewId \in 1..MaxRev /\ policy \in SUBSET Policies
      BY <1>1, <1>2, <1>7, BoundsAssumption DEF PushCommitNoBranch, Insert, NewId, Policies
    <3>3. row \in BranchRow
      BY <3>2 DEF BranchRow
    <3>4. QED
      BY <3>1, <3>3, NoneAssumption, ClientsAssumption DEF Unbranched, Rows
  <2>2. /\ Latest = req[c].tip /\ Insert({Latest}, req[c].number) /\ req[c].number \in Number
        /\ Answer(c)
    BY <1>7, <2>1 DEF PushCommitNoBranch, HeadUnmoved, Parent, IInv, RequestsComplete
  <2>3. Latest \in Live
    BY <1>2, <2>1, <2>2, LatestType
  <2>4. \A q \in Live : q <= Latest
    BY <1>2, <2>3, NewestExists DEF Latest
  <2>5. Straight
    <3>1. {Latest} \in SUBSET Live /\ \A p \in {Latest} : \A q \in Live : q <= p
      BY <2>3, <2>4
    <3>2. QED
      BY <1>1, <1>2, <2>2, <3>1, InsertInLine
  <2>6. QED
    BY <1>5, <2>2, <2>5
<1>8. ASSUME NEW c \in Clients, PushRefused(c) \/ MergeRefused(c) \/ RollbackRefused(c)
      PROVE  Requests /\ Straight
  BY <1>4, <1>5, <1>8 DEF PushRefused, MergeRefused, RollbackRefused
<1>9. ASSUME NEW c \in Clients,
             \/ PushCommit(c) \/ MergeRead(c) \/ MergeCommit(c) \/ RollbackRead(c)
             \/ RollbackCommit(c) \/ DeleteBranchCommit(c)
             \/ \E b \in Branches : DeleteBranchRead(c, b)
      PROVE  FALSE
  BY <1>1, <1>9 DEF PushCommit, TipUnmoved, MergeRead, MergeCommit, RollbackRead, RollbackCommit,
                    DeleteBranchCommit, DeleteBranchRead
<1>10. ASSUME NEW b \in Branches, NEW r \in Revs, CreateBranch(b, r) PROVE FALSE
  <2> DEFINE row == [tip |-> r, default |-> FALSE, policy |-> {}]
  <2>1. branch'[b] = row
    BY <1>10 DEF CreateBranch, IInv, TypeOK
  <2>2. row \in BranchRow
    BY <1>2, <1>10, BoundsAssumption DEF BranchRow, Revs
  <2>3. QED
    BY <2>1, <2>2, NoneAssumption DEF Unbranched, Rows
<1>11. ASSUME NEW b \in Branches, NEW body \in Patches, PatchBranch(b, body) PROVE FALSE
  BY <1>1, <1>11 DEF PatchBranch
<1>12. ASSUME NEW n \in PushNumbers, CreateLoose(n) PROVE Requests /\ Straight
  <2>1. n \in Number
    BY BoundsAssumption DEF PushNumbers, AutoNumbers, Number
  <2>2. Insert({}, n) /\ req' = req
    BY <1>12 DEF CreateLoose
  <2>3. Straight
    BY <1>1, <1>2, <2>1, <2>2, InsertInLine
  <2>4. QED
    BY <1>3, <2>2, <2>3
<1>13. ASSUME NEW r \in Revs, DeleteRevision(r) \/ \E p \in BOOLEAN : SetPublished(r, p)
       PROVE  Requests /\ Straight
  <2>1. /\ req' = req /\ DOMAIN rev' = DOMAIN rev
        /\ \A q \in Revs : /\ rev'[q].parents = rev[q].parents
                           /\ rev'[q].live => rev[q].live
    <3>1. \A q \in Revs : rev[q] \in Revision
      BY <1>2 DEF Revs
    <3>2. QED
      BY <1>13, <3>1 DEF DeleteRevision, SetPublished, Revs, Revision
  <2>2. Live' \subseteq Live
    BY <2>1 DEF Live, Revs
  <2>3. Straight
    BY <1>1, <2>1, <2>2 DEF Older, Revs, Live
  <2>4. QED
    BY <1>3, <2>1, <2>3
<1>14. CASE UNCHANGED vars
  BY <1>3, <1>4, <1>14 DEF vars
<1>15. Requests /\ Straight
  BY <1>6, <1>7, <1>8, <1>9, <1>10, <1>11, <1>12, <1>13, <1>14 DEF Next, Client
<1>16. QED
  BY <1>15

(* While a project has never had a branch, its readable revisions never build
   twice on one parent: the push without a branch compares the newest one. *)
THEOREM NoForkWithoutBranches == Spec => []NoBranchHistoryIsLinear
<1>1. Init => Line
  BY DEF Init, Line, Older, Revs, Live, Idle
<1>2. IInv /\ Line /\ [Next]_vars => IInv' /\ Line'
  BY StepIInv, LineSteps
<1>3. Line => NoBranchHistoryIsLinear
  BY DEF Line, Unbranched, NoBranchHistoryIsLinear
<1>4. QED
  BY InitIInv, <1>1, <1>2, <1>3, PTL DEF Spec

-----------------------------------------------------------------------------
(* The graph of revisions                                                  *)

Acyclic == \A r \in Revs : \A p \in rev[r].parents : p \in Revs /\ p < r
Numbered == \A p, q \in Revs : p # q => rev[p].number # rev[q].number
TipsExist == \A b \in Rows : branch[b].tip \in Revs

\* The revisions of a project are a graph without cycles whose numbers differ,
\* and every branch points into it.
HistoryIsSound == Acyclic /\ Numbered /\ TipsExist

\* What a merge has read is there when it writes.
Grounded ==
  /\ HistoryIsSound
  /\ \A c \in Clients : req[c].kind = "merge" => req[c].tip \in Revs /\ req[c].other \in Revs

LEMMA InsertGrounds ==
  ASSUME IInv, Acyclic, Numbered, NEW parents \in SUBSET Revs, NEW number,
         ~Taken(number), Insert(parents, number)
  PROVE  Acyclic' /\ Numbered' /\ Revs' = Revs \cup {NewId}
<1> DEFINE new == [parents |-> parents, number |-> number, live |-> TRUE, immutable |-> FALSE]
<1>1. rev' = Append(rev, new) /\ rev \in Seq(Revision) /\ Len(rev) \in Nat /\ Revs = 1..Len(rev)
  BY RevsAre DEF Insert
<1>2. /\ DOMAIN rev' = 1..(Len(rev) + 1) /\ rev'[Len(rev) + 1] = new
      /\ \A q \in Revs : rev'[q] = rev[q]
  BY <1>1
<1>3. Revs' = Revs \cup {NewId} /\ NewId = Len(rev) + 1 /\ NewId \notin Revs
  BY <1>1, <1>2 DEF Revs, NewId
<1>4. Acyclic'
  <2> SUFFICES ASSUME NEW q \in Revs', NEW p \in rev'[q].parents PROVE p \in Revs' /\ p < q
    BY DEF Acyclic
  <2>1. CASE q \in Revs
    BY <1>2, <1>3, <2>1 DEF Acyclic
  <2>2. CASE q = NewId
    <3>1. p \in Revs
      BY <1>2, <1>3, <2>2
    <3>2. QED
      BY <1>1, <1>3, <2>2, <3>1
  <2>3. QED
    BY <1>3, <2>1, <2>2
<1>5. Numbered'
  BY <1>2, <1>3 DEF Numbered, Taken
<1>6. QED
  BY <1>3, <1>4, <1>5

\* Where the branches point after the write of a new revision.
LEMMA TipsMove ==
  ASSUME IInv, TipsExist, Revs' = Revs \cup {NewId},
         \A b \in Branches : \/ branch'[b] = branch[b]
                             \/ branch'[b].tip = NewId
  PROVE  TipsExist'
  BY DEF TipsExist, Rows

LEMMA StepGrounded ==
  ASSUME IInv, Grounded, [Next]_vars
  PROVE  Grounded'
<1> DEFINE Carried == \A c \in Clients : req'[c].kind = "merge" =>
                                           req'[c].tip \in Revs' /\ req'[c].other \in Revs'
<1>1. /\ rev \in Seq(Revision) /\ Len(rev) \in Nat /\ Revs = 1..Len(rev) /\ Live \subseteq Revs
      /\ \A r \in Revs : rev[r] \in Revision
      /\ branch \in [Branches -> BranchRow \cup {None}]
      /\ req \in [Clients -> Request \cup {Idle}] /\ RequestsComplete
      /\ Acyclic /\ Numbered /\ TipsExist
      /\ \A c \in Clients : req[c].kind = "merge" => req[c].tip \in Revs /\ req[c].other \in Revs
  BY RevsAre DEF Grounded, HistoryIsSound
<1>2. rev' = rev => Acyclic' /\ Numbered' /\ Revs' = Revs
  BY <1>1 DEF Acyclic, Numbered, Revs
<1>3. ASSUME NEW c \in Clients, Answer(c), Revs \subseteq Revs' PROVE Carried
  BY <1>1, <1>3, AnswerKeeps DEF Idle
<1>4. req' = req /\ Revs \subseteq Revs' => Carried
  BY <1>1
<1>5. branch' = branch /\ Revs \subseteq Revs' => TipsExist'
  BY <1>1 DEF TipsExist, Rows
<1>6. ASSUME NEW c \in Clients, NEW kind \in Kinds, NEW b \in Branches \cup {None},
             NEW tip \in 0..MaxRev, NEW other \in 0..MaxRev, NEW number \in 0..MaxNumber,
             Carry(c, kind, b, tip, other, number), rev' = rev, branch' = branch,
             kind = "merge" => tip \in Revs /\ other \in Revs
      PROVE  Grounded'
  <2>1. /\ req'[c] = [kind |-> kind, branch |-> b, tip |-> tip, other |-> other, number |-> number]
        /\ \A d \in Clients \ {c} : req'[d] = req[d]
    <3>1. req \in [Clients -> Request \cup {Idle}]
      BY <1>1
    <3>2. QED
      BY <1>6, <3>1, CarryKeeps
  <2>2. Revs' = Revs
    BY <1>2, <1>6
  <2>3. Carried
    BY <1>1, <1>6, <2>1, <2>2
  <2>4. QED
    BY <1>2, <1>5, <1>6, <2>3 DEF Grounded, HistoryIsSound
<1>7. ASSUME NEW c \in Clients, Answer(c), NEW parents \in SUBSET Revs, NEW number,
             ~Taken(number), Insert(parents, number),
             \A b \in Branches : branch'[b] = branch[b] \/ branch'[b].tip = NewId
      PROVE  Grounded'
  <2>1. Acyclic' /\ Numbered' /\ Revs' = Revs \cup {NewId}
    BY <1>1, <1>7, InsertGrounds
  <2>2. TipsExist'
    BY <1>1, <1>7, <2>1, TipsMove
  <2>3. Carried
    BY <1>3, <1>7, <2>1
  <2>4. QED
    BY <2>1, <2>2, <2>3 DEF Grounded, HistoryIsSound
<1>8. \A b \in Rows : branch[b] \in BranchRow /\ branch[b].tip \in Revs /\ branch[b].tip \in 0..MaxRev
  BY <1>1, BoundsAssumption DEF Rows, TipsExist, BranchRow
<1>9. Latest \in Revs \cup {0} /\ Latest \in 0..MaxRev
  BY <1>1, LatestType DEF IInv, TypeOK
<1>10. PushNumbers \subseteq 0..MaxNumber /\ AutoNumbers \subseteq 0..MaxNumber
       /\ 0 \in 0..MaxRev /\ 0 \in 0..MaxNumber /\ Live \subseteq 0..MaxRev
  <2>1. AutoNumbers \subseteq 0..MaxNumber
    BY BoundsAssumption DEF AutoNumbers, Number
  <2>2. PushNumbers \subseteq 0..MaxNumber
    BY <2>1, BoundsAssumption DEF PushNumbers
  <2>3. Live \subseteq 1..MaxRev
    BY LiveIsBounded DEF IInv, TypeOK
  <2>4. QED
    BY <2>1, <2>2, <2>3, BoundsAssumption
<1>11. ASSUME NEW c \in Clients, PushRead(c) PROVE Grounded'
  <2>1. /\ rev' = rev /\ branch' = branch /\ "push" \in Kinds
        /\ \E n \in PushNumbers : \/ \E b \in Rows : Carry(c, "push", b, branch[b].tip, 0, n)
                                  \/ Carry(c, "push", None, Latest, 0, n)
    BY <1>11 DEF PushRead, Kinds
  <2>2. PICK n \in PushNumbers : \/ \E b \in Rows : Carry(c, "push", b, branch[b].tip, 0, n)
                                 \/ Carry(c, "push", None, Latest, 0, n)
    BY <2>1
  <2>3. CASE Carry(c, "push", None, Latest, 0, n)
    BY <1>6, <1>9, <1>10, <2>1, <2>3
  <2>4. ASSUME NEW b \in Rows, Carry(c, "push", b, branch[b].tip, 0, n) PROVE Grounded'
    BY <1>6, <1>8, <1>10, <2>1, <2>4 DEF Rows
  <2>5. QED
    BY <2>2, <2>3, <2>4
<1>12. ASSUME NEW c \in Clients, MergeRead(c) PROVE Grounded'
  <2>1. rev' = rev /\ branch' = branch /\ "merge" \in Kinds
    BY <1>12 DEF MergeRead, Kinds
  <2>2. PICK f \in Rows, t \in Rows, n \in AutoNumbers :
           Carry(c, "merge", t, branch[t].tip, branch[f].tip, n)
    BY <1>12 DEF MergeRead
  <2>3. QED
    BY <1>6, <1>8, <1>10, <2>1, <2>2 DEF Rows
<1>13. ASSUME NEW c \in Clients, RollbackRead(c) PROVE Grounded'
  <2>1. rev' = rev /\ branch' = branch /\ "rollback" \in Kinds
    BY <1>13 DEF RollbackRead, Kinds
  <2>2. PICK b \in Rows, target \in Live, n \in AutoNumbers :
           Carry(c, "rollback", b, branch[b].tip, target, n)
    BY <1>13 DEF RollbackRead
  <2>3. QED
    BY <1>6, <1>8, <1>10, <2>1, <2>2 DEF Rows
<1>14. ASSUME NEW c \in Clients, NEW b \in Branches, DeleteBranchRead(c, b) PROVE Grounded'
  BY <1>6, <1>10, <1>14 DEF DeleteBranchRead, Kinds
<1>15. ASSUME NEW c \in Clients, PushCommit(c) PROVE Grounded'
  <2>1. {req[c].tip} \in SUBSET Revs
    BY <1>8, <1>15 DEF PushCommit, TipUnmoved
  <2>2. \A b \in Branches : branch'[b] = branch[b] \/ branch'[b].tip = NewId
    <3>1. branch[req[c].branch] \in BranchRow
      BY <1>8, <1>15 DEF PushCommit, TipUnmoved
    <3>2. QED
      BY <1>1, <1>15, <3>1 DEF PushCommit, BranchRow
  <2>3. QED
    BY <1>7, <1>15, <2>1, <2>2 DEF PushCommit
<1>16. ASSUME NEW c \in Clients, PushCommitNoBranch(c) PROVE Grounded'
  <2>1. Parent(req[c]) \in SUBSET Revs
    BY <1>9, <1>16 DEF PushCommitNoBranch, HeadUnmoved, Parent
  <2>2. \A b \in Branches : branch'[b] = branch[b] \/ branch'[b].tip = NewId
    BY <1>1, <1>16 DEF PushCommitNoBranch
  <2>3. QED
    BY <1>7, <1>16, <2>1, <2>2 DEF PushCommitNoBranch
<1>17. ASSUME NEW c \in Clients, MergeCommit(c) PROVE Grounded'
  <2>1. {req[c].tip, req[c].other} \in SUBSET Revs
    BY <1>1, <1>17 DEF MergeCommit
  <2>2. \A b \in Branches : branch'[b] = branch[b] \/ branch'[b].tip = NewId
    BY <1>8, <1>17 DEF MergeCommit, BranchRow
  <2>3. QED
    BY <1>7, <1>17, <2>1, <2>2 DEF MergeCommit
<1>18. ASSUME NEW c \in Clients, RollbackCommit(c) PROVE Grounded'
  <2>1. {req[c].tip} \in SUBSET Revs
    BY <1>8, <1>18 DEF RollbackCommit, TipUnmoved
  <2>2. \A b \in Branches : branch'[b] = branch[b] \/ branch'[b].tip = NewId
    <3>1. branch[req[c].branch] \in BranchRow
      BY <1>8, <1>18 DEF RollbackCommit, TipUnmoved
    <3>2. QED
      BY <1>1, <1>18, <3>1 DEF RollbackCommit, BranchRow
  <2>3. QED
    BY <1>7, <1>18, <2>1, <2>2 DEF RollbackCommit
<1>19. ASSUME NEW c \in Clients, PushRefused(c) \/ MergeRefused(c) \/ RollbackRefused(c)
       PROVE  Grounded'
  BY <1>2, <1>3, <1>5, <1>19 DEF PushRefused, MergeRefused, RollbackRefused, Grounded, HistoryIsSound
<1>20. ASSUME NEW c \in Clients, DeleteBranchCommit(c) PROVE Grounded'
  <2>1. /\ rev' = rev /\ Answer(c)
        /\ \A b \in Branches : branch'[b] = branch[b] \/ branch'[b] = None
    BY <1>1, <1>20 DEF DeleteBranchCommit
  <2>2. TipsExist'
    BY <1>1, <1>2, <2>1 DEF TipsExist, Rows
  <2>3. QED
    BY <1>2, <1>3, <2>1, <2>2 DEF Grounded, HistoryIsSound
<1>21. ASSUME NEW b \in Branches, NEW r \in Revs, CreateBranch(b, r) PROVE Grounded'
  <2>1. TipsExist'
    BY <1>1, <1>2, <1>21 DEF CreateBranch, TipsExist, Rows
  <2>2. QED
    BY <1>2, <1>4, <1>21, <2>1 DEF CreateBranch, Grounded, HistoryIsSound
<1>22. ASSUME NEW d \in Branches, NEW body \in Patches, PatchBranch(d, body) PROVE Grounded'
  <2>1. rev' = rev /\ req' = req
    BY <1>22 DEF PatchBranch
  <2>2. \A b \in Branches : b \notin Rows => branch'[b] = None
    BY <1>1, <1>22 DEF PatchBranch, Demoted, Rows
  <2>3. TipsExist'
    BY <1>1, <1>2, <1>22, <2>1, <2>2, PatchedRow DEF TipsExist, Rows
  <2>4. QED
    BY <1>2, <1>4, <2>1, <2>3 DEF Grounded, HistoryIsSound
<1>23. ASSUME NEW n \in PushNumbers, CreateLoose(n) PROVE Grounded'
  <2>1. Acyclic' /\ Numbered' /\ Revs' = Revs \cup {NewId}
    BY <1>1, <1>23, InsertGrounds DEF CreateLoose
  <2>2. QED
    BY <1>4, <1>5, <1>23, <2>1 DEF CreateLoose, Grounded, HistoryIsSound
<1>24. ASSUME NEW r \in Revs, DeleteRevision(r) \/ \E p \in BOOLEAN : SetPublished(r, p)
       PROVE  Grounded'
  <2>1. /\ req' = req /\ branch' = branch /\ Revs' = Revs
        /\ \A q \in Revs : rev'[q].parents = rev[q].parents /\ rev'[q].number = rev[q].number
    <3>1. CASE DeleteRevision(r)
      BY <1>1, <3>1 DEF DeleteRevision, Revs, Revision
    <3>2. ASSUME NEW p \in BOOLEAN, SetPublished(r, p)
          PROVE  /\ req' = req /\ branch' = branch /\ Revs' = Revs
                 /\ \A q \in Revs : /\ rev'[q].parents = rev[q].parents
                                    /\ rev'[q].number = rev[q].number
      BY <1>1, <3>2 DEF SetPublished, Revs, Revision
    <3>3. QED
      BY <1>24, <3>1, <3>2
  <2>2. Acyclic' /\ Numbered'
    BY <1>1, <2>1 DEF Acyclic, Numbered
  <2>3. QED
    BY <1>4, <1>5, <2>1, <2>2 DEF Grounded, HistoryIsSound
<1>25. CASE UNCHANGED vars
  BY <1>2, <1>4, <1>5, <1>25 DEF vars, Grounded, HistoryIsSound
<1>26. QED
  BY <1>11, <1>12, <1>13, <1>14, <1>15, <1>16, <1>17, <1>18, <1>19, <1>20, <1>21, <1>22, <1>23,
     <1>24, <1>25 DEF Next, Client

(* The revisions of a project are a graph without cycles, each older than what
   is built on it and with a number of its own, and every branch points into
   it, whatever requests, deletions and imports come together (create_version,
   version_branch_merge): the walks of collect_revision_ancestors end. *)
THEOREM HistoryStaysSound == Spec => []HistoryIsSound
<1>1. Init => Grounded
  BY DEF Init, Grounded, HistoryIsSound, Acyclic, Numbered, TipsExist, Revs, Rows, Idle
<1>2. Grounded => HistoryIsSound
  BY DEF Grounded
<1>3. QED
  BY InitIInv, StepIInv, StepGrounded, <1>1, <1>2, PTL DEF Spec

-----------------------------------------------------------------------------
(* One request at a time                                                   *)

\* A merge on its way writes over the tip it has read.
NotOvertaken ==
  \A c \in Clients : req[c].kind = "merge" =>
    req[c].branch \in Rows /\ req[c].tip = branch[req[c].branch].tip

LEMMA StepNotOvertaken ==
  ASSUME IInv, NotOvertaken, \A c, d \in Clients : c = d, [Next]_vars
  PROVE  NotOvertaken'
<1>1. req \in [Clients -> Request \cup {Idle}] /\ branch \in [Branches -> BranchRow \cup {None}]
  BY RevsAre
<1>2. branch' = branch /\ req' = req => NotOvertaken'
  BY DEF NotOvertaken, Rows
<1>3. ASSUME NEW c \in Clients, Answer(c) PROVE NotOvertaken'
  BY <1>1, <1>3, AnswerKeeps DEF NotOvertaken, Idle
<1>4. ASSUME NEW c \in Clients, PushRead(c) \/ RollbackRead(c) \/ \E b \in Branches : DeleteBranchRead(c, b)
      PROVE  NotOvertaken'
  <2>1. \E kind \in {"push", "rollback", "delete"} : \E b, tip, other, number :
          Carry(c, kind, b, tip, other, number)
    BY <1>4 DEF PushRead, RollbackRead, DeleteBranchRead
  <2>2. req'[c].kind # "merge"
    BY <1>1, <2>1 DEF Carry
  <2>3. QED
    BY <2>2 DEF NotOvertaken
<1>5. ASSUME NEW c \in Clients, MergeRead(c) PROVE NotOvertaken'
  <2>1. PICK f \in Rows, t \in Rows, n \in AutoNumbers :
           Carry(c, "merge", t, branch[t].tip, branch[f].tip, n)
    BY <1>5 DEF MergeRead
  <2>2. req'[c].branch = t /\ req'[c].tip = branch[t].tip /\ branch' = branch
    BY <1>1, <1>5, <2>1 DEF Carry, MergeRead
  <2>3. QED
    BY <2>2 DEF NotOvertaken, Rows
<1>6. ASSUME NEW b \in Branches, NEW r \in Revs, CreateBranch(b, r) PROVE NotOvertaken'
  <2>1. req' = req /\ \A d \in Branches \ {b} : branch'[d] = branch[d]
    BY <1>1, <1>6 DEF CreateBranch
  <2>2. b \notin Rows
    BY <1>6 DEF CreateBranch
  <2>3. QED
    BY <2>1, <2>2 DEF NotOvertaken, Rows
<1>7. ASSUME NEW d \in Branches, NEW body \in Patches, PatchBranch(d, body) PROVE NotOvertaken'
  <2>1. req' = req
    BY <1>7 DEF PatchBranch
  <2>2. \A b \in Rows : b \in Rows' /\ branch'[b].tip = branch[b].tip
    BY <1>7, PatchedRow DEF Rows
  <2>3. QED
    BY <2>1, <2>2 DEF NotOvertaken
<1>8. QED
  BY <1>2, <1>3, <1>4, <1>5, <1>6, <1>7
  DEF Next, Client, vars, PushCommit, PushCommitNoBranch, PushRefused, MergeCommit, MergeRefused,
      RollbackCommit, RollbackRefused, DeleteBranchCommit, CreateLoose, DeleteRevision, SetPublished

(* When the requests come one after another, a branch always moves to a child
   of the tip it had: what the optimistic lock on baseRevisionId is meant to
   give is lost to requests that run at once, and to nothing else, be it the
   Studio, deletions or imports (version_branch_merge). *)
THEOREM SerialHistoryKept == ASSUME \A c, d \in Clients : c = d PROVE Spec => HistoryKept
<1>1. ASSUME IInv, NotOvertaken, [Next]_vars, NEW b \in Branches, Moves(b)
      PROVE  Continues(b)
  <2>1. Continues(b) \/ \E c \in Clients : Overtaken(c, b) /\ req'[c] = Idle
    BY <1>1, StepKeepsHistory
  <2>2. \A c \in Clients : ~Overtaken(c, b)
    BY <1>1 DEF NotOvertaken, Overtaken
  <2>3. QED
    BY <2>1, <2>2
<1>2. Init => NotOvertaken
  BY DEF Init, NotOvertaken, Idle
<1>3. IInv /\ NotOvertaken /\ [Next]_vars => [\A b \in Branches : Moves(b) => Continues(b)]_vars
  BY <1>1
<1>4. IInv /\ NotOvertaken /\ [Next]_vars => NotOvertaken'
  BY StepNotOvertaken
<1>5. QED
  BY InitIInv, StepIInv, <1>2, <1>3, <1>4, PTL DEF Spec, HistoryKept
=============================================================================
