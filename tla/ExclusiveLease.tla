--------------------------- MODULE ExclusiveLease ---------------------------
(***************************************************************************)
(* What a draft edit lock promises, with no row, no handler and no clock   *)
(* column: at most one user at a time has been told of a lease that has    *)
(* not run out.  lease[u] is the time left of the lease user u last heard  *)
(* of, 0 when u has none.                                                  *)
(***************************************************************************)
EXTENDS Naturals

CONSTANTS Users,    \* the users who may edit a draft revision
          Lease     \* the length of a lease, in clock ticks

VARIABLE lease

Free(u) == \A v \in Users \ {u} : lease[v] = 0

Init == lease = [u \in Users |-> 0]

\* A lease is granted, or extended, to one user while nobody else has one.
Grant(u) == /\ Free(u)
            /\ lease' = [lease EXCEPT ![u] = Lease]

\* A user gives up the lease or learns that it is lost.
Drop(u) == lease' = [lease EXCEPT ![u] = 0]

\* An administrator takes every lease away.
Revoke == lease' = [u \in Users |-> 0]

\* Time passes for every lease at once.
Elapse == lease' = [u \in Users |-> IF lease[u] = 0 THEN 0 ELSE lease[u] - 1]

Next == \/ \E u \in Users : Grant(u) \/ Drop(u)
        \/ Revoke
        \/ Elapse

Spec == Init /\ [][Next]_lease
=============================================================================
