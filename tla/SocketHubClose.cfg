SPECIFICATION Spec
CONSTANTS
  s1 = s1
  s2 = s2
  s3 = s3
  r1 = r1
  r2 = r2
  l1 = l1
  Sockets = {s1}
  Rooms = {r1}
  Listeners = {l1}
  MaxEvents = 1
PROPERTIES
  CloseListenersAreCalled

