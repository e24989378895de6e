\* Two routers share a RIB of masks of two bits, so that every bit is in use.
CONSTANTS
  Router = {r1, r2}
  Width = 2
  Peer <- MCPeer
  Prefix <- MCPrefix
  Hop <- MCHop
  NoHop <- MCNoHop
  Path <- MCPath
  Announced <- MCAnnounced
  Withdrawn <- MCWithdrawn
SPECIFICATION Spec
INVARIANTS
  RibInv
  LookupFindsOwnBest
PROPERTIES
  SharedRibIsPrivate
  ChoicesChangeForCause
