SPECIFICATION Spec
CONSTANTS
  p1 = p1
  p2 = p2
  k1 = k1
  k2 = k2
  Procs = {p1, p2}
  LocalKeys = {k1, k2}
  NoLocalKey = NoLocalKey
  BatchSize = 1
  Threshold = 0
  LateRequests = TRUE
  MaxMishaps = 1
  MaxTakes = 0
SYMMETRY AnyOrder
INVARIANTS
  LoneSetupAgrees
PROPERTIES
  LoneSetupUnlocks

