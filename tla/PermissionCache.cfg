SPECIFICATION FairSpec
CONSTANTS
  Roles = {admin, member}
  Requests = {r1, r2}
  None = None
  Blank = Blank
  CacheTTL = 2
  Life = 1
INVARIANTS TypeOK OldRightsEnd InvalidationWorks
PROPERTY SettlesOnRole
