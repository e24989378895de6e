----------------------------- MODULE RouterRibs -----------------------------
(***************************************************************************)
(* What a RIB that several routers share promises: to each of them it is a *)
(* RIB of its own.  held[id] is the set of routes that router id has       *)
(* inserted and not withdrawn; nothing a router does changes what another  *)
(* one holds, except clear, which empties the RIBs of all.                 *)
(***************************************************************************)
CONSTANTS
  Router,      (* the routers that share the RIB                           *)
  Announced,   (* the routes they insert                                   *)
  Peer, Prefix

VARIABLE held

Insert(id, route) ==
  held' = [held EXCEPT ![id] = @ \cup {route}]

(* A withdrawal takes every route of a peer to a prefix.                   *)
Withdraw(id, peer, prefix) ==
  held' = [held EXCEPT ![id] =
             { route \in @ : ~ (route.peer = peer /\ route.prefix = prefix) }]

Clear == held' = [id \in Router |-> {}]

Init == held = [id \in Router |-> {}]
Next ==
  \/ \E id \in Router, route \in Announced : Insert(id, route)
  \/ \E id \in Router, peer \in Peer, prefix \in Prefix : Withdraw(id, peer, prefix)
  \/ Clear
Spec == Init /\ [][Next]_held
=============================================================================
