SPECIFICATION Spec
CONSTANTS
  Users = {u1}
  Access = {a1, a2, a3}
  Refresh = {f1, f2, f3}
  Requests = {r1, r2}
  None = None
  Ticks = 2
  AccessTTL = 1
  MaxTime = 2
  MaxOutages = 1
  MaxDbErrors = 1
SYMMETRY Symmetry
\* The run ends when the clock or the token ids do.
CHECK_DEADLOCK FALSE
INVARIANTS TypeOK LoggedOutIsRefused SessionSurvives RotatedIsDead
