SPECIFICATION Spec
CONSTANTS
  s1 = s1
  s2 = s2
  s3 = s3
  r1 = r1
  r2 = r2
  l1 = l1
  Sockets = {s1, s2}
  Rooms = {r1}
  Listeners = {}
  MaxEvents = 1
INVARIANTS
  EveryMemberReceives

