SPECIFICATION Spec
CONSTANTS
  j1 = j1
  j2 = j2
  NoJob = NoJob
  Jobs = {j1}
  Workers = {w1, w2}
  Slots = {s1}
  Retriers = {}
  Concurrency = 1
  MaxAttempts = 2
  Priority <- EqualPriority
  Budget <- NoFault
INVARIANT MovedAtomically
