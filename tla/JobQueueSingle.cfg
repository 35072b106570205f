SPECIFICATION Spec
CONSTANTS
  j1 = j1
  j2 = j2
  NoJob = NoJob
  Jobs = {j1, j2}
  Workers = {w1}
  Slots = {s1, s2}
  Retriers = {a1}
  Concurrency = 2
  MaxAttempts = 2
  Priority <- MCPriority
  Budget <- OneOfEach
INVARIANTS TypeOK OneOwner HashAgrees
PROPERTY ImplementsLedger
