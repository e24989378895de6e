------------------------------ MODULE BgpRibMC ------------------------------
(***************************************************************************)
(* A small instance of BgpRib: two peers announce paths of one and two     *)
(* hops to a prefix, and one of them announces a longer prefix in it.      *)
(***************************************************************************)
EXTENDS BgpRib

MCPeer == {1, 2}
Wide == {1, 2}      (* a prefix of two addresses                           *)
Narrow == {1}       (* a longer prefix inside Wide                         *)
MCPrefix == {Wide, Narrow}
MCHop == {"h1", "h2"}
MCNoHop == ""
MCPath == {<<7>>, <<7, 8>>}

Announce(peer, prefix, hop, path) ==
  [peer |-> peer, prefix |-> prefix, hop |-> hop, path |-> path]

MCAnnounced == {
  Announce(1, Wide, "h1", <<7>>),
  Announce(1, Wide, "h2", <<7>>),
  Announce(2, Wide, "h1", <<7>>),
  Announce(2, Wide, "h2", <<7, 8>>),
  Announce(1, Narrow, "h1", <<7>>) }

(* Advertisement::get_withdrawals gives a withdrawal no next hop.          *)
MCWithdrawn ==
  { Announce(r.peer, r.prefix, "", <<7>>) : r \in MCAnnounced }
=============================================================================
