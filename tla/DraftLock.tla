----------------------------- MODULE DraftLock ------------------------------
(***************************************************************************)
(* The edit lock of one draft revision (draft_lock_routes.py and the four  *)
(* lock methods of database.py).                                           *)
(*                                                                         *)
(* Every REST process runs its handlers one at a time: they are "async     *)
(* def" functions whose database calls block the event loop.  Workers is   *)
(* the set of those processes.  Each method opens a transaction and takes  *)
(* the version row and the lock row FOR UPDATE, but the helper that asks   *)
(* the database for the time runs through execute_query, which COMMITS on  *)
(* the same connection.  So a request that meets an existing row is two    *)
(* transactions: one that reads the row and decides, one that writes.      *)
(*                                                                         *)
(* Times are kept as the time left, so that the model needs no bound on    *)
(* the clock: Tick lowers every one of them.                               *)
(***************************************************************************)
EXTENDS Naturals

CONSTANTS Users,    \* users holding a JWT and the EDIT permission
          Workers,  \* REST processes
          Lease,    \* leaseSeconds, in ticks
          None

ASSUME LeaseAssumption == Lease \in Nat \ {0}
ASSUME NoneAssumption == None \notin Users

VARIABLES
  live,       \* the version row is not soft-deleted
  published,  \* odb.versions.published
  lock,       \* the odb.version_draft_lock row, NoLock when there is none
  handler,    \* per process: the request between its two transactions
  gone,       \* users who closed the Studio and send nothing any more
  lease       \* history: time left of the lease each user was last told of

vars == <<live, published, lock, handler, gone, lease>>

NoLock == [owner |-> None, left |-> 0]
Idle   == [user |-> None, op |-> "idle"]
Ops    == {"takeover", "refresh", "renew"}

TypeOK ==
  /\ live \in BOOLEAN
  /\ published \in BOOLEAN
  /\ lock \in [owner : Users \cup {None}, left : 0..Lease]
  /\ handler \in [Workers -> [user : Users \cup {None}, op : Ops \cup {"idle"}]]
  /\ gone \in SUBSET Users
  /\ lease \in [Users -> 0..Lease]

Init ==
  /\ live = TRUE
  /\ published = FALSE
  /\ lock = NoLock
  /\ handler = [w \in Workers |-> Idle]
  /\ gone = {}
  /\ lease = [u \in Users |-> 0]

-----------------------------------------------------------------------------
HasRow == lock # NoLock

\* Mutants of Active: one tick early; a row that never expires.
ActiveOneTickEarly == lock.left > 1
ActiveForever == HasRow

\* _draft_lock_expires_active: expires_at lies in the future.
Active == lock.left > 0

Editable == live /\ ~published

Free(w) == handler[w] = Idle

\* What user u knows after an answer: the lease granted, or that there is none.
Told(u, left) == lease' = [lease EXCEPT ![u] = left]

Begin(w, u, op) == handler' = [handler EXCEPT ![w] = [user |-> u, op |-> op]]

Finish(w) == handler' = [handler EXCEPT ![w] = Idle]

-----------------------------------------------------------------------------
(* acquire_version_draft_lock *)

\* No row: the INSERT is in the transaction that holds the version row.
AcquireInsert(w, u) ==
  /\ Free(w) /\ u \notin gone /\ Editable /\ ~HasRow
  /\ lock' = [owner |-> u, left |-> Lease]
  /\ Told(u, Lease)
  /\ UNCHANGED <<live, published, handler, gone>>

\* An active row of somebody else: 409 DRAFT_LOCK_CONFLICT.
AcquireConflict(w, u) ==
  /\ Free(w) /\ u \notin gone /\ Editable /\ HasRow
  /\ Active /\ lock.owner # u
  /\ Told(u, 0)
  /\ UNCHANGED <<live, published, lock, handler, gone>>

\* Mutant of AcquireRead: the expiry is not looked at.
AcquireReadAnyRow(w, u) ==
  /\ Free(w) /\ u \notin gone /\ Editable /\ HasRow
  /\ Begin(w, u, "takeover")
  /\ UNCHANGED <<live, published, lock, gone, lease>>

\* An expired row, or an own one: the decision is taken and the row locks end.
AcquireRead(w, u) ==
  /\ Free(w) /\ u \notin gone /\ Editable /\ HasRow
  /\ \/ ~Active /\ Begin(w, u, "takeover")
     \/ Active /\ lock.owner = u /\ Begin(w, u, "refresh")
  /\ UNCHANGED <<live, published, lock, gone, lease>>

(* renew_version_draft_lock *)

RenewRefused(w, u) ==
  /\ Free(w) /\ u \notin gone /\ Editable
  /\ ~HasRow \/ ~Active \/ lock.owner # u
  /\ Told(u, 0)
  /\ UNCHANGED <<live, published, lock, handler, gone>>

RenewRead(w, u) ==
  /\ Free(w) /\ u \notin gone /\ Editable
  /\ HasRow /\ Active /\ lock.owner = u
  /\ Begin(w, u, "renew")
  /\ UNCHANGED <<live, published, lock, gone, lease>>

(* The UPDATE a request ends with.  Acquire's names the revision only, so that
   it writes the row of whoever has it by now; renew's names the owner too. *)
RowMatches(w) == IF handler[w].op = "renew" THEN lock.owner = handler[w].user ELSE HasRow

\* Mutant of NewLeft: the new lease is added to what is left of the old one.
LeftAdded == lock.left + Lease
NewLeft == Lease

\* A row that is gone makes RETURNING empty and the answer a 500.
Write(w) ==
  /\ handler[w] # Idle
  /\ IF RowMatches(w)
     THEN /\ lock' = [owner |-> IF handler[w].op = "takeover" THEN handler[w].user ELSE lock.owner,
                      left |-> NewLeft]
          /\ Told(handler[w].user, IF lock'.owner = handler[w].user THEN Lease ELSE 0)
     ELSE UNCHANGED <<lock, lease>>
  /\ Finish(w)
  /\ UNCHANGED <<live, published, gone>>

-----------------------------------------------------------------------------
(* release_version_draft_lock: the own row goes, expired or not, whatever the
   revision's state; a row of somebody else stays (403). *)
Release(w, u) ==
  /\ Free(w) /\ u \notin gone /\ live
  /\ lock' = IF lock.owner = u THEN NoLock ELSE lock
  /\ Told(u, 0)
  /\ UNCHANGED <<live, published, handler, gone>>

(* force_release_version_draft_lock, by a tenant administrator: every lease
   granted so far ends by decision. *)
ForceRelease(w) ==
  /\ Free(w) /\ live /\ HasRow
  /\ lock' = NoLock
  /\ lease' = [u \in Users |-> 0]
  /\ UNCHANGED <<live, published, handler, gone>>

(* The version routes and the Studio's own server, which writes the same
   tables from another process, publish and delete with no look at the lock. *)
Publish ==
  /\ Editable
  /\ published' = TRUE
  /\ UNCHANGED <<live, lock, handler, gone, lease>>

Unpublish ==
  /\ live /\ published
  /\ published' = FALSE
  /\ UNCHANGED <<live, lock, handler, gone, lease>>

Delete ==
  /\ live
  /\ live' = FALSE
  /\ UNCHANGED <<published, lock, handler, gone, lease>>

\* A user leaves for good without a release (a closed laptop).
Leave(u) ==
  /\ u \notin gone
  /\ gone' = gone \cup {u}
  /\ UNCHANGED <<live, published, lock, handler, lease>>

Less(n) == IF n = 0 THEN 0 ELSE n - 1

\* The database clock advances.
Tick ==
  /\ lock' = [lock EXCEPT !.left = Less(@)]
  /\ lease' = [u \in Users |-> Less(lease[u])]
  /\ UNCHANGED <<live, published, handler, gone>>

-----------------------------------------------------------------------------
Acquire(w, u) == AcquireInsert(w, u) \/ AcquireConflict(w, u) \/ AcquireRead(w, u)

Next ==
  \/ \E w \in Workers, u \in Users :
       \/ Acquire(w, u)
       \/ RenewRefused(w, u) \/ RenewRead(w, u)
       \/ Release(w, u)
  \/ \E w \in Workers : Write(w) \/ ForceRelease(w)
  \/ Publish \/ Unpublish \/ Delete
  \/ \E u \in Users : Leave(u)
  \/ Tick

Spec == Init /\ [][Next]_vars

(* A handler that has begun goes on to its write (nothing in it waits), time
   passes, and an editor who stays keeps asking for the lock. *)
Fairness ==
  /\ WF_vars(Tick)
  /\ \A w \in Workers : WF_vars(Write(w))
  /\ \A u \in Users : SF_vars(\E w \in Workers : AcquireInsert(w, u) \/ AcquireRead(w, u))

FairSpec == Spec /\ Fairness

-----------------------------------------------------------------------------
(* Mutual exclusion: two users never both hold the answer that the draft is
   theirs to edit, unless an administrator stepped in.  The route answers 409
   "when another user holds an active lock". *)
Exclusive ==
  \A u, v \in Users : u # v => ~(lease[u] > 0 /\ lease[v] > 0)

(* A lease a user was told of is backed by the row: the row is hers and runs
   at least as long, so the header chip and the holder agree. *)
LeaseBacked ==
  \A u \in Users : lease[u] > 0 => lock.owner = u /\ lock.left >= lease[u]

(* A revision whose editor vanished without a release does not stay locked:
   with no sweeper, the next editor who asks finds the row expired. *)
AbandonedLockIsTakenOver ==
  \A u, v \in Users :
    (lock.owner = u /\ u \in gone /\ v \notin gone)
      ~> (lock.owner # u \/ v \in gone \/ ~Editable)

\* The promise the lock is meant to keep.
Promise == INSTANCE ExclusiveLease WITH Users <- Users, Lease <- Lease, lease <- lease

RefinesLease == Promise!Spec
=============================================================================
