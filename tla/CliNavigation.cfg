SPECIFICATION Spec
CONSTANTS
  Procs = {p1, p2}
  Users = {u1, u2}
  OtherPaths = {x1}
  None = None
  MaxKeys = 3
  MaxStarts = 2
SYMMETRY AnyOrder
INVARIANTS
  TypeOK
  KeysAreKept
  NobodyIsSentBack
PROPERTIES
  ImplementsSession
CHECK_DEADLOCK FALSE
