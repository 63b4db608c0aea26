SPECIFICATION SettlingSpec
CONSTANTS
  root = root
  sub = sub
  auth = auth
  users = users
  participants = participants
  opks = opks
  Routers = {root, sub, auth, users, participants, opks}
  Root = root
  NoRouter = NoRouter
  NoPathname = NoPathname
  Plain = {"a", "b", "5", "7", "api", "auth", "signin", "rt", "users",
           "check-username-exists", "e2ee_participants", "onetime_prekeys"}
  Cases <- MostCases
  ErrorValues = {"truthy", "falsy"}
  MaxLate = 1
INVARIANTS
  TypeOK
  CalledInOrder
  ParamsBelong
PROPERTIES
  ImplementsHandlerChain
  EveryRequestIsAnswered
CHECK_DEADLOCK FALSE
