\* Two routers with a link.
CONSTANTS
  a = a
  b = b
  RouterId = {a, b}
  Options = Options
  Connections <- MCConnections
  Ids <- MCIds
  Edges <- MCEdges
  Name = {}
  MaxRouters = 2
  MaxEdges = 1
  MaxNamed = 0
SPECIFICATION MainSpec
PROPERTY MainCleansUp
CHECK_DEADLOCK FALSE
