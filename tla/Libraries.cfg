SPECIFICATION LibrariesSpec
CONSTANTS
  Participants = {alice, bob}
  MaxPairs = 8
  MaxSessions = 2
  Views = {v1, v2}
  startView = v1
  MaxDepths = {0, 1, 4}
  Depths = {0, 1, 2, 3}
  Callbacks = {l1, l2, l3}
  EventNames = {"greet", "leave"}
  MaxMessages = 2
INVARIANTS
  SecretsAgree
  SecretsAreFresh
  SessionsAreSigned
  StackIsBounded
  ListenersAreCalled
CHECK_DEADLOCK FALSE
