------------------------------- MODULE Route -------------------------------
(***************************************************************************)
(* Routes and the order that picks the best of them:                       *)
(* src/components/route.rs and src/components/bgp/bgp_bestroute.rs.        *)
(*                                                                         *)
(* Data is kept as far as the order and equality on routes look at it: a   *)
(* peer is an address, of which only the order matters, an AS path is a    *)
(* sequence, of which the length is compared, and a next hop is an opaque  *)
(* value.  NoHop is the empty string that Advertisement::get_withdrawals   *)
(* puts in the place of a next hop.                                        *)
(***************************************************************************)
EXTENDS Integers, Sequences, FiniteSets

CONSTANTS
  Peer,     (* addresses of BGP peers, as numbers: IpAddr is ordered       *)
  Prefix,   (* IP networks; a prefix is the set of addresses it covers     *)
  Hop,      (* next hops an announcement carries                           *)
  NoHop,    (* the empty next hop of a withdrawal                          *)
  Path      (* AS paths                                                    *)

ASSUME RouteAssumption ==
  /\ Peer \subseteq Nat
  /\ Path \subseteq Seq(Nat)
  /\ NoHop \notin Hop

Routes == [peer : Peer, prefix : Prefix, hop : Hop \cup {NoHop}, path : Path]

(* A faulty variant that forgets to reverse the comparison of lengths.     *)
LessUnreversed(a, b) ==
  \/ Len(a.path) < Len(b.path)
  \/ Len(a.path) = Len(b.path) /\ a.peer < b.peer

(* Ord::cmp says "Less": a longer AS path is worse, then a smaller peer    *)
(* address is worse.  Routes that agree on both compare as Equal, whatever *)
(* their next hops and paths.                                              *)
Less(a, b) ==
  \/ Len(a.path) > Len(b.path)
  \/ Len(a.path) = Len(b.path) /\ a.peer < b.peer

(***************************************************************************)
(* A Vec is the set of its elements, each a record with its index in the   *)
(* field pos: the elements of a Vec of n have the positions 1 .. n.        *)
(***************************************************************************)
IsVec(v) ==
  /\ \A x \in v : x.pos \in 1 .. Cardinality(v)
  /\ \A x, y \in v : x.pos = y.pos => x = y

(* BestRoute::calculate.  Iterator::max returns the last of the elements   *)
(* that are not less than another one.  An Option is a set of at most one. *)
Calculate(v) ==
  { x.route : x \in { x \in v :
      \A y \in v : /\ ~ Less(x.route, y.route)
                   /\ Less(y.route, x.route) \/ y.pos <= x.pos } }

-----------------------------------------------------------------------------
(* Iterator::max as the standard library runs it: a left fold that keeps   *)
(* the element it has only if that is greater than the next one.  best[i]  *)
(* is what it has after i elements.                                        *)
At(v, i) == (CHOOSE x \in v : x.pos = i).route
Later(best, next) == IF Less(next, best) THEN best ELSE next
FoldMax(v) ==
  LET best[i \in 1 .. Cardinality(v)] ==
        IF i = 1 THEN At(v, 1) ELSE Later(best[i - 1], At(v, i))
  IN  best[Cardinality(v)]
=============================================================================
