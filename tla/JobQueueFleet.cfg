\* Fair scheduling, one stop or crash and one retryDLQ call.
SPECIFICATION FairSpec
CONSTANTS
  j1 = j1
  j2 = j2
  NoJob = NoJob
  Jobs = {j1}
  Workers = {w1, w2}
  Slots = {s1}
  Retriers = {a1}
  Concurrency = 1
  MaxAttempts = 2
  Priority <- EqualPriority
  Budget <- OneExitOneRetry
INVARIANT Accounted
PROPERTY EverySettles
