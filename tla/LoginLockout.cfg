SPECIFICATION FrontSpec
CONSTANTS
  Requests = {r1, r2, r3}
  Limit = 2
  LockFor = 2
  MaxTime = 4
  MaxTries = 1
  Ips = {ip1}
  MaxLogins = 3
  Window = 3
  Calls = {c1, c2}
  PerWindow = 1
  CallWindow = 2
  Traffic = {"logins", "calls"}
INVARIANTS TypeOK GuessesBounded LoginsLimited CountersEnd WindowBudgets
PROPERTY LockHolds
SYMMETRY Symmetry
\* The run ends when the clock does and the account is locked.
CHECK_DEADLOCK FALSE
