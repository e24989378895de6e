------------------------------- MODULE BgpRib -------------------------------
(***************************************************************************)
(* src/components/bgp/bgp_rib.rs, struct BgpRib: a table of routes that    *)
(* several routers share.  Each element of the table carries the mask of   *)
(* the routers that use it.  Every operation runs under the RIB's mutex    *)
(* and is one step; BgpRibInterface models the mutex and the clients.      *)
(***************************************************************************)
EXTENDS RouterMaskMap, RibTable

CONSTANTS
  Announced,   (* the routes that clients insert                           *)
  Withdrawn    (* the routes that clients remove                           *)

ASSUME RoutesAssumption == Announced \subseteq Routes /\ Withdrawn \subseteq Routes

VARIABLE table   (* treebitmap: from prefixes to entries                   *)

vars == <<mask, map, table>>

RegisterRouter(id) == Get(id) /\ UNCHANGED table

(* The router's mask is the one that get returns, allocated if need be.    *)
InsertRoute(id, route) ==
  /\ Get(id)
  /\ table' = TableInsert(table, map'[id], route)

RemoveRoute(id, route) ==
  /\ Get(id)
  /\ table' = TableRemove(table, map'[id], route)

(* A faulty variant that forgets the routers but not their routes.         *)
ClearOnlyMasks ==
  /\ UNCHANGED table
  /\ mask' = {}
  /\ map' = [r \in {} |-> {}]

Clear ==
  /\ table' = EmptyTable
  /\ mask' = {}
  /\ map' = [r \in {} |-> {}]

Init == MaskInit /\ table = EmptyTable

Next ==
  \/ \E id \in Router :
       \/ RegisterRouter(id)
       \/ \E route \in Announced : InsertRoute(id, route)
       \/ \E route \in Withdrawn : RemoveRoute(id, route)
  \/ Clear

Spec == Init /\ [][Next]_vars

(* get_routes_for_router and get_bestroute_for_router of a router.         *)
RoutesForRouter(id, address) == RoutesFor(table, TryGet(id), address)
BestRouteForRouter(id, address) == BestRouteFor(table, TryGet(id), address)

-----------------------------------------------------------------------------
Elements == [mask : SUBSET Bit, route : Announced, pos : Nat]

TableTypeOK ==
  /\ DOMAIN table \subseteq Prefix
  /\ table = [p \in DOMAIN table |-> table[p]]
  /\ \A p \in DOMAIN table : table[p] \subseteq Elements /\ IsFiniteSet(table[p])

(* The state of the entries: no entry is empty, an entry holds routes to   *)
(* its own prefix only, no route twice, and each for some router.          *)
EntriesOK ==
  \A p \in DOMAIN table :
    /\ table[p] # {}
    /\ \A x \in table[p] : x.route.prefix = p /\ x.mask # {}
    /\ \A x, y \in table[p] : x.route = y.route => x = y

(* The table mentions no bit that no router has.  A router that registers  *)
(* later gets a free bit, so it does not inherit routes of others.         *)
OnlyUsedBits ==
  \A p \in DOMAIN table : \A x \in table[p] : x.mask \subseteq mask

TypeOK == MaskTypeOK /\ TableTypeOK
EntriesAreVecs == \A p \in DOMAIN table : IsVec(table[p])
RibInv == TypeOK /\ MaskInv /\ EntriesOK /\ EntriesAreVecs /\ OnlyUsedBits

(* What a router holds: the routes whose mask contains its own.            *)
Held(id) ==
  { r \in Announced :
      \E p \in DOMAIN table :
        \E x \in table[p] : x.route = r /\ MaskContains(x.mask, TryGet(id)) }

(* A RIB that routers share is a RIB of its own for each of them.          *)
Ribs == INSTANCE RouterRibs WITH held <- [id \in Router |-> Held(id)]
SharedRibIsPrivate == Ribs!Spec

(* What a lookup finds is routes the router itself holds, all of those to  *)
(* one prefix that covers the address, and that prefix is the longest of   *)
(* the router's own.                                                       *)
FindsOwn(id, address) ==
  LET found == { x.route : x \in RoutesForRouter(id, address) } IN
  found # {} =>
    \E p \in Prefix :
      /\ address \in p
      /\ found = { r \in Held(id) : r.prefix = p }
      /\ \A r \in Held(id) : address \in r.prefix => p \subseteq r.prefix

(* No route found has a shorter path than the one picked, and of those     *)
(* with paths as short, none has a higher peer.                            *)
PicksBest(id, address) ==
  \A b \in BestRouteForRouter(id, address), x \in RoutesForRouter(id, address) :
    \/ Len(b.path) < Len(x.route.path)
    \/ Len(b.path) = Len(x.route.path) /\ b.peer >= x.route.peer

(* A lookup at an address never answers with another router's route, nor   *)
(* with a worse one of the router's own, although the routers share a      *)
(* table, and the longest prefix in it may be another's: then it answers   *)
(* nothing.                                                                *)
LookupFindsOwnBest ==
  \A id \in Router : \A address \in UNION Prefix :
    FindsOwn(id, address) /\ PicksBest(id, address)

(* What a lookup of a router answers if it matches the prefix p.           *)
Choice(id, p) == Calculate(GetWithMask(EntryAt(table, p), TryGet(id)))

(* Which of several equally good routes a router uses depends on their     *)
(* order in a Vec that all routers push to and remove from.  Still its     *)
(* choice changes for causes of its own only: the new one is a route the   *)
(* router did not hold, or the old one is a route it no longer holds.      *)
ChoicesChangeForCause ==
  [][\A id \in Router, p \in Prefix :
       \/ Choice(id, p)' = Choice(id, p)
       \/ Choice(id, p)' # {} /\ Choice(id, p)' \cap Held(id) = {}
       \/ ~ (Choice(id, p) \subseteq Held(id)')]_vars

=============================================================================
