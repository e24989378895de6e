\* A withdrawal that update is given is never reported.
CONSTANTS
  Router = {r1, r2}
  Nobody = Nobody
  Width = 2
  Peer <- MCPeer
  Prefix <- MCPrefix
  Hop <- MCHop
  NoHop <- MCNoHop
  Path <- MCPath
  Announced <- MCAnnounced
  Withdrawn <- MCWithdrawn
  Batch <- MCBatch
  MaxUpdates = 2
SPECIFICATION RibInterfaceSpec
PROPERTY WithdrawalsAreReported
CHECK_DEADLOCK FALSE
