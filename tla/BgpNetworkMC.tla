---------------------------- MODULE BgpNetworkMC ----------------------------
(***************************************************************************)
(* A small instance of BgpNetwork: two routers with a link between them,   *)
(* one of which has a session with the outside.  Both have the same        *)
(* address, the default, as those of main.rs do.                           *)
(***************************************************************************)
EXTENDS BgpNetwork

CONSTANTS r1, r2, out

MCRouter == {r1, r2}
MCSessions == [r \in MCRouter |-> IF r = r1 THEN <<r2, out>> ELSE <<r1>>]
MCAddress == [r \in MCRouter |-> 1]
MCPeer == {1, 3}
Net == {1}
MCPrefix == {Net}
MCHop == {"h1", "h2"}
MCNoHop == ""
MCPath == {<<>>, <<7>>}

Announcing(hop) ==
  [peer |-> 3, path |-> <<7>>,
   announcements |-> <<[hop |-> hop, prefix |-> Net]>>, withdrawals |-> <<>>]
Withdrawing ==
  [peer |-> 3, path |-> <<7>>, announcements |-> <<>>, withdrawals |-> <<Net>>]
MCInjected == {Announcing("h1"), Announcing("h2"), Withdrawing}
=============================================================================
