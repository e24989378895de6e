------------------------- MODULE BgpRibInterfaceMC -------------------------
(***************************************************************************)
(* A small instance of BgpRibInterface: two peers announce one prefix, one *)
(* of them with two next hops in one advertisement, and withdraw it.       *)
(***************************************************************************)
EXTENDS BgpRibInterface

MCPeer == {1, 2}
Net == {1}
MCPrefix == {Net}
MCHop == {"h1", "h2"}
MCNoHop == ""
MCPath == {<<7>>, <<7, 8>>}

Announce(hop) == [hop |-> hop, prefix |-> Net]

Both == [peer |-> 1, path |-> <<7>>, announcements |-> <<Announce("h1"), Announce("h2")>>,
         withdrawals |-> <<>>]
Gone == [peer |-> 1, path |-> <<7>>, announcements |-> <<>>, withdrawals |-> <<Net>>]
Flap == [peer |-> 2, path |-> <<7, 8>>, announcements |-> <<Announce("h1")>>,
         withdrawals |-> <<Net>>]
Far == [peer |-> 2, path |-> <<7, 8>>, announcements |-> <<Announce("h2")>>,
        withdrawals |-> <<>>]

MCBatch == {<<Both>>, <<Far, Flap>>, <<Gone>>}

MCAnnounced == { [peer |-> p, prefix |-> Net, hop |-> h, path |-> s] :
                 p \in MCPeer, h \in MCHop, s \in MCPath }
MCWithdrawn == { [peer |-> p, prefix |-> Net, hop |-> "", path |-> s] :
                 p \in MCPeer, s \in MCPath }
=============================================================================
