\* Three clients share a RIB with masks of two bits: one of them is too many.
\* When all threads have died of panics nothing is left to happen.
CONSTANTS
  Router = {r1, r2, r3}
  Nobody = Nobody
  Width = 2
  Peer <- MCPeer
  Prefix <- MCPrefix
  Hop <- MCHop
  NoHop <- MCNoHop
  Path <- MCPath
  Announced <- MCAnnounced
  Withdrawn <- MCWithdrawn
  Batch <- MCBatch
  MaxUpdates = 2
SPECIFICATION RibInterfaceSpec
INVARIANT RibInterfaceInv
PROPERTIES
  UpdatesAreAtomic
  ReportedIsMaximal
  PoisonedRibIsFrozen
  UpdateReturns
CHECK_DEADLOCK FALSE
