-------------------------- MODULE DraftLockProofs ---------------------------
(***************************************************************************)
(* For every set of users, every lease length and ONE REST process: the    *)
(* draft lock is an exclusive lease, and implements ExclusiveLease.        *)
(* The argument: a lease is always backed by the row, and a request that   *)
(* has committed half way still finds the row as it judged it, because the *)
(* process runs nothing else before it writes.                             *)
(* With several processes the types stay, and the owner's lease holds.     *)
(***************************************************************************)
EXTENDS DraftLock, TLAPS

OneProcess == \A v, w \in Workers : v = w

\* A handler that stopped half way still knows the truth about the row.
HandlerFresh ==
  \A w \in Workers :
    \/ handler[w] = Idle
    \/ /\ handler[w].op \in Ops
       /\ handler[w].user \in Users
       /\ lock.owner # None
       /\ handler[w].op = "takeover" => lock.left = 0
       /\ handler[w].op \in {"refresh", "renew"} => lock.owner = handler[w].user

IInv == TypeOK /\ LeaseBacked /\ HandlerFresh

LEMMA NoLockType == NoLock \in [owner : Users \cup {None}, left : 0..Lease]
  BY LeaseAssumption DEF NoLock

\* A lease told to one user is the only one while the row backs it.
LEMMA BackedIsExclusive == ASSUME LeaseBacked, NoneAssumption PROVE Exclusive
  BY DEF LeaseBacked, Exclusive

LEMMA InitIInv == Init => IInv
<1> SUFFICES ASSUME Init PROVE IInv
  OBVIOUS
<1>1. TypeOK
  <2>1. live \in BOOLEAN /\ published \in BOOLEAN /\ gone \in SUBSET Users
    BY Zenon DEF Init
  <2>2. lock \in [owner : Users \cup {None}, left : 0..Lease]
    BY NoLockType DEF Init
  <2>3. Idle \in [user : Users \cup {None}, op : Ops \cup {"idle"}]
    BY DEF Idle
  <2>4. handler \in [Workers -> [user : Users \cup {None}, op : Ops \cup {"idle"}]]
    BY <2>3, Zenon DEF Init
  <2>5. lease \in [Users -> 0..Lease]
    BY LeaseAssumption DEF Init
  <2>6. QED
    BY <2>1, <2>2, <2>4, <2>5 DEF TypeOK
<1>2. LeaseBacked
  BY DEF Init, LeaseBacked
<1>3. HandlerFresh
  BY DEF Init, HandlerFresh
<1>4. QED
  BY <1>1, <1>2, <1>3 DEF IInv

\* One step of the single process keeps the invariant.
LEMMA StepIInv == ASSUME OneProcess, IInv, [Next]_vars PROVE IInv'
<1> USE LeaseAssumption, NoneAssumption, NoLockType
    DEF IInv, TypeOK, LeaseBacked, HandlerFresh, Told, Begin, Finish, Free,
        HasRow, Active, Idle, NoLock, Ops, Editable
<1>1. ASSUME NEW w \in Workers, NEW u \in Users, AcquireInsert(w, u) PROVE IInv'
  BY <1>1 DEF AcquireInsert, OneProcess
<1>2. ASSUME NEW w \in Workers, NEW u \in Users, AcquireConflict(w, u) PROVE IInv'
  BY <1>2 DEF AcquireConflict
<1>3. ASSUME NEW w \in Workers, NEW u \in Users, AcquireRead(w, u) PROVE IInv'
  BY <1>3 DEF AcquireRead
<1>4. ASSUME NEW w \in Workers, NEW u \in Users, RenewRefused(w, u) PROVE IInv'
  BY <1>4 DEF RenewRefused
<1>5. ASSUME NEW w \in Workers, NEW u \in Users, RenewRead(w, u) PROVE IInv'
  BY <1>5 DEF RenewRead
<1>6. ASSUME NEW w \in Workers, NEW u \in Users, Release(w, u) PROVE IInv'
  BY <1>6 DEF Release, OneProcess
<1>7. ASSUME NEW w \in Workers, Write(w) PROVE IInv'
  BY <1>7 DEF Write, RowMatches, NewLeft, OneProcess
<1>11. ASSUME NEW w \in Workers, ForceRelease(w) PROVE IInv'
  BY <1>11 DEF ForceRelease, OneProcess
<1>12. CASE Publish
  BY <1>12 DEF Publish
<1>13. CASE Unpublish
  BY <1>13 DEF Unpublish
<1>14. CASE Delete
  BY <1>14 DEF Delete
<1>15. ASSUME NEW u \in Users, Leave(u) PROVE IInv'
  BY <1>15 DEF Leave
<1>16. CASE Tick
  BY <1>16 DEF Tick, Less
<1>17. CASE UNCHANGED vars
  BY <1>17 DEF vars
<1>18. QED
  BY <1>1, <1>2, <1>3, <1>4, <1>5, <1>6, <1>7, <1>11,
     <1>12, <1>13, <1>14, <1>15, <1>16, <1>17 DEF Next, Acquire

(* With one process, two users are never both told that the draft is theirs. *)
THEOREM OneProcessExclusive == ASSUME OneProcess PROVE Spec => []Exclusive
<1>1. IInv => Exclusive
  BY BackedIsExclusive, NoneAssumption DEF IInv
<1>2. IInv /\ [Next]_vars => IInv'
  BY StepIInv
<1>3. QED
  BY InitIInv, <1>1, <1>2, PTL DEF Spec

(* With one process, every lease a user was told of is the row's. *)
THEOREM OneProcessLeaseBacked == ASSUME OneProcess PROVE Spec => []LeaseBacked
<1>1. IInv => LeaseBacked
  BY DEF IInv
<1>2. IInv /\ [Next]_vars => IInv'
  BY StepIInv
<1>3. QED
  BY InitIInv, <1>1, <1>2, PTL DEF Spec

(* Every step of the single process is a step of the exclusive lease. *)
LEMMA StepRefines == ASSUME OneProcess, IInv, [Next]_vars
                     PROVE [Promise!Next]_lease
<1> USE LeaseAssumption, NoneAssumption
    DEF IInv, TypeOK, LeaseBacked, HandlerFresh, Told, Free, HasRow, Active,
        Idle, NoLock, Ops, Editable
<1>1. ASSUME NEW u \in Users, Promise!Grant(u) \/ Promise!Drop(u)
      PROVE Promise!Next
  BY <1>1 DEF Promise!Next
<1>2. ASSUME NEW w \in Workers, NEW u \in Users, AcquireInsert(w, u)
      PROVE Promise!Grant(u)
  <2>1. \A v \in Users : lease[v] = 0
    BY <1>2 DEF AcquireInsert
  <2>2. QED
    BY <1>2, <2>1 DEF AcquireInsert, Promise!Grant, Promise!Free
<1>3. ASSUME NEW w \in Workers, NEW u \in Users,
             AcquireConflict(w, u) \/ RenewRefused(w, u) \/ Release(w, u)
      PROVE Promise!Drop(u)
  BY <1>3 DEF AcquireConflict, RenewRefused, Release, Promise!Drop
<1>4. ASSUME NEW w \in Workers, Write(w)
      PROVE /\ handler[w].user \in Users
            /\ Promise!Grant(handler[w].user)
  <2>1. \A v \in Users \ {handler[w].user} : lease[v] = 0
    BY <1>4 DEF Write
  <2>2. RowMatches(w)
    BY <1>4 DEF Write, RowMatches
  <2>3. handler[w].op = "takeover" \/ lock.owner = handler[w].user
    BY <1>4 DEF Write
  <2>4. handler[w].user \in Users /\ Told(handler[w].user, Lease)
    BY <1>4, <2>2, <2>3 DEF Write
  <2>5. QED
    BY <2>1, <2>4 DEF Promise!Grant, Promise!Free
<1>7. ASSUME NEW w \in Workers, ForceRelease(w) PROVE Promise!Next
  BY <1>7 DEF ForceRelease, Promise!Next, Promise!Revoke
<1>8. CASE Tick
  BY <1>8 DEF Tick, Less, Promise!Next, Promise!Elapse
<1>9. ASSUME NEW w \in Workers, NEW u \in Users,
             \/ AcquireRead(w, u) \/ RenewRead(w, u)
             \/ Publish \/ Unpublish \/ Delete \/ Leave(u) \/ UNCHANGED vars
      PROVE UNCHANGED lease
  BY <1>9 DEF AcquireRead, RenewRead, Publish, Unpublish,
              Delete, Leave, vars
<1>10. CASE \/ Publish \/ Unpublish \/ Delete \/ UNCHANGED vars
             \/ \E u \in Users : Leave(u)
  BY <1>10 DEF Publish, Unpublish, Delete, Leave, vars
<1>11. QED
  BY <1>1, <1>2, <1>3, <1>4, <1>7, <1>8, <1>9, <1>10
     DEF Next, Acquire

(* With one process the draft lock implements the exclusive lease. *)
THEOREM OneProcessRefinesLease == ASSUME OneProcess PROVE Spec => RefinesLease
<1>1. Init => Promise!Init
  BY DEF Init, Promise!Init
<1>2. IInv /\ [Next]_vars => [Promise!Next]_lease
  BY StepRefines
<1>3. IInv /\ [Next]_vars => IInv'
  BY StepIInv
<1>4. QED
  BY InitIInv, <1>1, <1>2, <1>3, PTL DEF Spec, RefinesLease, Promise!Spec
-----------------------------------------------------------------------------
(* Any number of processes                                                 *)

\* A request that has committed half way knows whose it is.
HandlerTyped == \A w \in Workers : handler[w] = Idle \/ handler[w].user \in Users

\* Whoever the row names was told of no more time than the row has left.
OwnerBacked == \A u \in Users : lock.owner = u => lease[u] <= lock.left

AnyInv == TypeOK /\ HandlerTyped /\ OwnerBacked

LEMMA InitAnyInv == Init => AnyInv
  BY InitIInv, NoneAssumption DEF Init, IInv, AnyInv, HandlerTyped, OwnerBacked, NoLock

\* What a write leaves, whichever process decided what in between.
LEMMA WriteAny ==
  ASSUME AnyInv, NEW w \in Workers, Write(w)
  PROVE  AnyInv'
<1> DEFINE u == handler[w].user
<1>1. /\ lock \in [owner : Users \cup {None}, left : 0..Lease] /\ lease \in [Users -> 0..Lease]
      /\ handler \in [Workers -> [user : Users \cup {None}, op : Ops \cup {"idle"}]]
      /\ u \in Users /\ Lease \in 0..Lease /\ 0 \in 0..Lease
  BY LeaseAssumption DEF AnyInv, TypeOK, HandlerTyped, Write
<1>2. Idle \in [user : Users \cup {None}, op : Ops \cup {"idle"}]
  BY DEF Idle
<1>3. /\ handler' = [handler EXCEPT ![w] = Idle]
      /\ UNCHANGED <<live, published, gone>>
  BY DEF Write, Finish
<1>4. handler' \in [Workers -> [user : Users \cup {None}, op : Ops \cup {"idle"}]] /\ HandlerTyped'
  BY <1>1, <1>2, <1>3 DEF AnyInv, HandlerTyped
<1>5. CASE RowMatches(w)
  <2> DEFINE o == IF handler[w].op = "takeover" THEN u ELSE lock.owner
  <2>1. o \in Users \cup {None}
    BY <1>1
  <2>2. lock' = [owner |-> o, left |-> Lease]
    BY <1>5 DEF Write, NewLeft
  <2>3. lease' = [lease EXCEPT ![u] = IF o = u THEN Lease ELSE 0]
    BY <1>5, <2>2 DEF Write, Told
  <2>4. lease' \in [Users -> 0..Lease] /\ lock' \in [owner : Users \cup {None}, left : 0..Lease]
    BY <1>1, <2>1, <2>2, <2>3
  <2>5. OwnerBacked'
    BY <2>2, <2>4, LeaseAssumption DEF OwnerBacked
  <2>6. QED
    BY <1>3, <1>4, <2>4, <2>5 DEF AnyInv, TypeOK
<1>6. CASE ~RowMatches(w)
  BY <1>1, <1>3, <1>4, <1>6 DEF Write, AnyInv, TypeOK, OwnerBacked
<1>7. QED
  BY <1>5, <1>6

LEMMA StepAnyInv == ASSUME AnyInv, [Next]_vars PROVE AnyInv'
<1> USE LeaseAssumption, NoneAssumption, NoLockType
    DEF AnyInv, TypeOK, HandlerTyped, OwnerBacked, Told, Begin, Idle, NoLock, Ops
<1>1. ASSUME NEW w \in Workers, NEW u \in Users, AcquireInsert(w, u) PROVE AnyInv'
  BY <1>1 DEF AcquireInsert
<1>2. ASSUME NEW w \in Workers, NEW u \in Users, AcquireConflict(w, u) \/ RenewRefused(w, u) PROVE AnyInv'
  BY <1>2 DEF AcquireConflict, RenewRefused
<1>3. ASSUME NEW w \in Workers, NEW u \in Users, AcquireRead(w, u) \/ RenewRead(w, u) PROVE AnyInv'
  BY <1>3 DEF AcquireRead, RenewRead
<1>4. ASSUME NEW w \in Workers, NEW u \in Users, Release(w, u) PROVE AnyInv'
  BY <1>4 DEF Release
<1>5. ASSUME NEW w \in Workers, ForceRelease(w) PROVE AnyInv'
  BY <1>5 DEF ForceRelease
<1>6. CASE Tick
  BY <1>6 DEF Tick, Less
<1>7. CASE Publish \/ Unpublish \/ Delete \/ (\E u \in Users : Leave(u)) \/ UNCHANGED vars
  BY <1>7 DEF Publish, Unpublish, Delete, Leave, vars
<1>8. QED
  BY <1>1, <1>2, <1>3, <1>4, <1>5, <1>6, <1>7, WriteAny DEF Next, Acquire

(* The lock row, the handlers and what the users were told keep their types,
   with any number of processes. *)
THEOREM TypesHold == Spec => []TypeOK
<1>1. AnyInv => TypeOK
  BY DEF AnyInv
<1>2. QED
  BY InitAnyInv, StepAnyInv, <1>1, PTL DEF Spec

(* What is left of exclusion when several processes serve the lock: two users
   may both have been told that the draft is theirs, but never more than one
   of them has the row, and she has it for at least as long as she was told
   (acquire_version_draft_lock, renew_version_draft_lock). *)
THEOREM OwnersLeaseHolds == Spec => []OwnerBacked
<1>1. AnyInv => OwnerBacked
  BY DEF AnyInv
<1>2. QED
  BY InitAnyInv, StepAnyInv, <1>1, PTL DEF Spec
=============================================================================
