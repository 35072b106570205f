SPECIFICATION Spec
CONSTANTS
  Roles = {admin, member}
  Requests = {r1}
  None = None
  Blank = Blank
  CacheTTL = 2
  Life = 2
INVARIANT GrantsComplete
