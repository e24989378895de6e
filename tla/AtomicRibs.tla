----------------------------- MODULE AtomicRibs -----------------------------
(***************************************************************************)
(* What the clients of a shared RIB rely on: each has a RIB of its own,    *)
(* and an advertisement is applied to it as a whole, its announcements     *)
(* first, or not at all.  Only clear touches what others hold.             *)
(***************************************************************************)
CONSTANTS
  Router,                (* the clients                                    *)
  Changes                (* the pairs of a set of routes that an           *)
                         (* advertisement announces and a set of routes    *)
                         (* that it withdraws                              *)

VARIABLE held

Matches(route, w) == route.peer = w.peer /\ route.prefix = w.prefix

Apply(id, change) ==
  held' = [held EXCEPT ![id] =
             { route \in @ \cup change[1] : \A w \in change[2] : ~ Matches(route, w) }]

Clear == held' = [id \in Router |-> {}]

Init == held = [id \in Router |-> {}]
Next == Clear \/ \E id \in Router, change \in Changes : Apply(id, change)
Spec == Init /\ [][Next]_held
=============================================================================
