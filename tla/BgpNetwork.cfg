\* Two advertisements enter, announcements or withdrawals; links hold two messages,
\* buffers one.
CONSTANTS
  r1 = r1
  r2 = r2
  out = out
  Router <- MCRouter
  Outside <- out
  Sessions <- MCSessions
  Address <- MCAddress
  Peer <- MCPeer
  Prefix <- MCPrefix
  Hop <- MCHop
  NoHop <- MCNoHop
  Path <- MCPath
  Bound = 2
  InSize = 1
  Injected <- MCInjected
  MaxInjected = 2
  MaxReported = 2
SPECIFICATION FairSpec
INVARIANTS
  TypeOK
  LearnedRoutesAreHeld
PROPERTY RoutersKeepSending
