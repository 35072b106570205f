SPECIFICATION Spec
CONSTANTS
  Users = {u1}
  Access = {a1, a2}
  Refresh = {f1, f2}
  Requests = {r1}
  None = None
  Ticks = 2
  AccessTTL = 1
  MaxTime = 1
  MaxOutages = 0
  MaxDbErrors = 0
SYMMETRY Symmetry
\* The run ends when the clock or the token ids do.
CHECK_DEADLOCK FALSE
INVARIANT LogoutEndsSession
