\* One REST process, three users; a lease of two ticks.
CONSTANTS
  Users = {u1, u2, u3}
  Workers = {w1}
  Lease = 2
  None = None
SPECIFICATION FairSpec
INVARIANTS TypeOK Exclusive
PROPERTIES RefinesLease AbandonedLockIsTakenOver
