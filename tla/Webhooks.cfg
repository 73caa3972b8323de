\* Two sweeps, two events and three attempts; two failures of the database.
CONSTANTS
  Events = {e1, e2}
  Workers = {w1, w2}
  MaxAttempts = 3
  Backoffs = 2
  MaxFailures = 2
  None = None
SPECIFICATION FairSpec
INVARIANTS TypeOK AttemptsMatchCount BoundedPosts
PROPERTIES RefinesBoundedDelivery SettledOrDropped
