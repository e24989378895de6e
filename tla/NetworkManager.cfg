\* Two ids, two routers, a named channel made twice, and up to two connections,
\* each from one router to the other or from a router to itself.
CONSTANTS
  a = a
  b = b
  RouterId = {a, b}
  Options = Options
  Connections <- MCConnections
  Name <- MCName
  MaxRouters = 2
  MaxEdges = 2
  MaxNamed = 2
SPECIFICATION Spec
INVARIANTS
  TypeOK
  PanicsAreCaused
  LinksFollowTopology
  ReceiversAreUnique
  CommandReachesAll
PROPERTY JoinAllReturns
CHECK_DEADLOCK FALSE
