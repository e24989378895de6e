--------------------------- MODULE Advertisement ---------------------------
(***************************************************************************)
(* src/components/advertisement.rs: what an advertisement says about       *)
(* routes.  An advertisement is a record of its peer, its AS path, the     *)
(* announcements, pairs of a next hop and a prefix in the order of the two *)
(* nested Vecs, and the prefixes withdrawn.  Peers and prefixes are those  *)
(* that parse; get_announcements and get_withdrawals skip the others.      *)
(***************************************************************************)
EXTENDS Route

Announcements == Seq([hop : Hop, prefix : Prefix])
Advertisements ==
  [peer : Peer, path : Path, announcements : Announcements, withdrawals : Seq(Prefix)]

GetAnnouncements(ad) ==
  [i \in DOMAIN ad.announcements |->
     [peer |-> ad.peer, prefix |-> ad.announcements[i].prefix,
      hop |-> ad.announcements[i].hop, path |-> ad.path]]

(* A withdrawal names no next hop: get_withdrawals puts "" in its place.   *)
GetWithdrawals(ad) ==
  [i \in DOMAIN ad.withdrawals |->
     [peer |-> ad.peer, prefix |-> ad.withdrawals[i],
      hop |-> NoHop, path |-> ad.path]]

(* What update does for an advertisement: it inserts the routes announced, *)
(* then removes those withdrawn.                                           *)
Op(kind, routes) == [i \in DOMAIN routes |-> [kind |-> kind, route |-> routes[i]]]
Operations(ad) ==
  Op("insert", GetAnnouncements(ad)) \o Op("remove", GetWithdrawals(ad))
=============================================================================
