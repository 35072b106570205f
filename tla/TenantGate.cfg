SPECIFICATION Spec
CONSTANTS
  Signups = {s1, s2}
  MaxSuffix = 1
  Visitors = {v1}
  Keys = {slug}
  GateTTL = 2
INVARIANTS TypeOK SlugsDistinct ActiveIsComplete GateFollows
SYMMETRY Symmetry
