SPECIFICATION Spec
CONSTANTS
  Users = {u1, u2}
  Devices = {d1}
  None = None
  Requests = {q1, q2}
  MaxRequests = 3
  Start = 10
  MaxTime = 12
  AccessLifetime = 1
  RefreshLifetime = 2
  ParamTypes = {"string", "number"}
SYMMETRY AnyOrder
INVARIANTS
  SignedOutIsDead
CHECK_DEADLOCK FALSE
