------------------------------ MODULE RibTable ------------------------------
(***************************************************************************)
(* The data of a RIB: src/components/bgp/bgp_rib_entry.rs and the table of *)
(* src/components/bgp/bgp_rib.rs.  An entry is the Vec of the routes to    *)
(* one prefix, each with the mask of the routers that use it; the table is *)
(* a function from the prefixes that have an entry to their entries.  The  *)
(* operators are pure: BgpRib turns them into steps.                       *)
(***************************************************************************)
EXTENDS Route

(* A Vec keeps the order of its elements when some of them are removed.    *)
Reindex(e) ==
  { [x EXCEPT !.pos = Cardinality({ y \in e : y.pos <= x.pos })] : x \in e }

(* A faulty variant that pushes the joined element at the end of the Vec.  *)
EntryInsertMoves(e, m, route) ==
  LET old == { x \in e : x.route = route }
  IN  Reindex(e \ old) \cup
        {[mask  |-> m \cup UNION { x.mask : x \in old },
          route |-> route,
          pos   |-> Cardinality(e \ old) + 1]}

(* BgpRibEntry::insert: the router joins the mask of an equal route, or a  *)
(* new element is pushed.                                                  *)
EntryInsert(e, m, route) ==
  IF \E x \in e : x.route = route
  THEN { IF x.route = route THEN [x EXCEPT !.mask = @ \cup m] ELSE x : x \in e }
  ELSE e \cup {[mask |-> m, route |-> route, pos |-> Cardinality(e) + 1]}

(* BgpRibEntry::withdraw compares peers and prefixes: next hop and path of *)
(* the withdrawal do not matter.                                           *)
SameSource(a, b) == a.peer = b.peer /\ a.prefix = b.prefix

(* The elements left by retain, and what remove leaves of their masks.     *)
Retained(e, m, route) == { x \in e : ~ (x.mask = m /\ SameSource(x.route, route)) }
Unmask(x, m, route) ==
  IF SameSource(x.route, route) THEN [x EXCEPT !.mask = @ \ m] ELSE x

(* A faulty variant that withdraws the route for every router.             *)
EntryWithdrawForAll(e, m, route) ==
  Reindex({ x \in e : ~ SameSource(x.route, route) })

EntryWithdraw(e, m, route) ==
  Reindex({ Unmask(x, m, route) : x \in Retained(e, m, route) })

(* RouterMask::contains: the empty mask is contained in none.              *)
MaskContains(m, other) == other # {} /\ other \subseteq m
GetWithAnyMask(e, m) == e   (* a faulty variant that ignores the mask       *)
GetWithMask(e, m) == { x \in e : MaskContains(x.mask, m) }

-----------------------------------------------------------------------------
EmptyTable == [p \in {} |-> {}]

(* The entry at an exact prefix, the empty Vec if there is none.           *)
EntryAt(t, p) == IF p \in DOMAIN t THEN t[p] ELSE {}

(* insert_route on the table, for a router whose mask is m.                *)
TableInsert(t, m, route) ==
  [p \in DOMAIN t \cup {route.prefix} |->
     IF p = route.prefix THEN EntryInsert(EntryAt(t, p), m, route) ELSE t[p]]

NewBestAlways(t, route) == {route}   (* a faulty variant that does not compare *)

(* The best route insert_route returns: the new one, if it comes out of    *)
(* all the routes of the entry, whosever they are, with it pushed at their *)
(* end.                                                                    *)
NewBest(t, route) ==
  LET e == EntryAt(t, route.prefix)
  IN  Calculate(e \cup {[mask |-> {}, route |-> route, pos |-> Cardinality(e) + 1]})
        \cap {route}

(* A faulty variant that leaves empty entries behind.                      *)
TableRemoveKeepsEntry(t, m, route) ==
  [p \in DOMAIN t |->
     IF p = route.prefix THEN EntryWithdraw(t[p], m, route) ELSE t[p]]

(* remove_route on the table: an entry that becomes empty is removed.      *)
TableRemove(t, m, route) ==
  LET e == EntryWithdraw(EntryAt(t, route.prefix), m, route)
  IN  [p \in IF e = {} THEN DOMAIN t \ {route.prefix} ELSE DOMAIN t |->
         IF p = route.prefix THEN e ELSE t[p]]

(* The best route remove_route returns: the best of the entry before the   *)
(* withdrawal, if it is equal, in every field, to the route withdrawn.     *)
WithdrawnBest(t, route) == Calculate(EntryAt(t, route.prefix)) \cap {route}

(* Vec::extend with an Option.                                             *)
Extend(s, option) == IF option = {} THEN s ELSE Append(s, CHOOSE r \in option : TRUE)

-----------------------------------------------------------------------------
(* IpNetworkTable::longest_match: of the prefixes that cover an address    *)
(* the one that covers the fewest.  Prefixes that cover an address are     *)
(* nested.                                                                 *)
LongestMatch(t, address) ==
  { p \in DOMAIN t : /\ address \in p
                     /\ \A q \in DOMAIN t : address \in q => p \subseteq q }

(* get_routes_for_router and get_bestroute_for_router, for a mask.         *)
RoutesFor(t, m, address) ==
  UNION { GetWithMask(t[p], m) : p \in LongestMatch(t, address) }
BestRouteFor(t, m, address) == Calculate(RoutesFor(t, m, address))
=============================================================================
