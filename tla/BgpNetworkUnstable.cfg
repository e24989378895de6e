\* One announcement enters, and the routers never stop telling each other.
CONSTANTS
  r1 = r1
  r2 = r2
  out = out
  Router <- MCRouter
  Outside <- out
  Sessions <- MCSessions
  Address <- MCAddress
  Peer <- MCPeer
  Prefix <- MCPrefix
  Hop <- MCHop
  NoHop <- MCNoHop
  Path <- MCPath
  Bound = 1
  InSize = 1
  Injected <- MCInjected
  MaxInjected = 1
  MaxReported = 2
SPECIFICATION FairSpec
PROPERTY NetworkStabilizes
