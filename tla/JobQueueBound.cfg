\* Three instances, so that a third may find the lock that a DEL sent again removes;
\* three jobs for two slots of concurrency. See Focus for where behaviours are cut.
SPECIFICATION FleetSpec
CONSTANTS
  NoJob = NoJob
  Polling = {w1}
  NoLock = NoLock
  Jobs = {j1, j2, j3}
  Workers = {w1, w2, w3}
  Slots = {s1, s2, s3}
  Retriers = {}
  Concurrency = 2
  MaxAttempts = 1
  MaxTicks = 2
  Priority <- EqualPriority
  Budget <- OneExitOneError
INVARIANTS FleetWithinConcurrency HandlersApart TickServed
CONSTRAINT Focus
SYMMETRY Symmetry
