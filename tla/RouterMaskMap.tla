--------------------------- MODULE RouterMaskMap ---------------------------
(***************************************************************************)
(* src/utils/router_mask.rs: the table that gives every router that uses a *)
(* RIB one bit of a fixed-width mask.  A RouterMask is the set of the bits *)
(* that are 1, so that | is \cup, & is \cap, & ! is \ and contains is      *)
(* \subseteq.  The code's width is 64.                                     *)
(***************************************************************************)
EXTENDS Integers, FiniteSets

CONSTANTS
  Router,   (* the ids of routers                                          *)
  Width     (* the number of bits of a RouterMask                          *)

ASSUME WidthAssumption == Width \in Nat

VARIABLES
  mask,     (* the bits in use                                             *)
  map       (* the mask of each registered router                          *)

maskVars == <<mask, map>>

Bit == 0 .. Width - 1
Free == Bit \ mask

(* try_get: a router that is not registered gets the default, empty mask.  *)
TryGet(id) == IF id \in DOMAIN map THEN map[id] ELSE {}

Known(id) == id \in DOMAIN map /\ UNCHANGED maskVars

(* Faulty variants: get that forgets to mark the bit as used, that does    *)
(* not look the router up first, and remove that forgets to clear the bit. *)
AllocateUnmarked(id) ==
  /\ id \notin DOMAIN map
  /\ \E bit \in Free :
       /\ map' = [r \in DOMAIN map \cup {id} |-> IF r = id THEN {bit} ELSE map[r]]
       /\ mask' = mask
AllocateAgain(id) ==
  \E bit \in Free :
    /\ map' = [r \in DOMAIN map \cup {id} |-> IF r = id THEN {bit} ELSE map[r]]
    /\ mask' = mask \cup {bit}
RemoveKeepsBit(id) ==
  /\ id \in DOMAIN map
  /\ map' = [r \in DOMAIN map \ {id} |-> map[r]]
  /\ mask' = mask

(* The loop over the bits of get: the lowest free one becomes the mask.    *)
Allocate(id) ==
  /\ id \notin DOMAIN map
  /\ \E bit \in Free :
       /\ \A other \in Free : bit <= other
       /\ map' = [r \in DOMAIN map \cup {id} |-> IF r = id THEN {bit} ELSE map[r]]
       /\ mask' = mask \cup {bit}

(* get returns map'[id]; it panics, changing nothing, when the map is full *)
(* and the router is not in it.                                            *)
Get(id) == Known(id) \/ Allocate(id)
GetPanics(id) == id \notin DOMAIN map /\ Free = {}

(* remove clears the router's bits with an exclusive or.  It panics on a   *)
(* router that is not registered.                                          *)
Remove(id) ==
  /\ id \in DOMAIN map
  /\ map' = [r \in DOMAIN map \ {id} |-> map[r]]
  /\ mask' = (mask \ map[id]) \cup (map[id] \ mask)

MaskInit == mask = {} /\ map = [r \in {} |-> {}]
MaskNext == \E id \in Router : Get(id) \/ Remove(id)
MaskSpec == MaskInit /\ [][MaskNext]_maskVars

-----------------------------------------------------------------------------
(* Masks hold bits of the width, and only routers have one.                *)
MaskTypeOK ==
  /\ mask \subseteq Bit
  /\ DOMAIN map \subseteq Router
  /\ map \in [DOMAIN map -> SUBSET Bit]

OneBitEach == \A r \in DOMAIN map : \E b \in Bit : map[r] = {b}

(* No two routers share a bit: the reason why a route that one router      *)
(* inserts or withdraws in a shared RIB is not another router's.           *)
BitsDisjoint ==
  \A r, s \in DOMAIN map : r # s => map[r] \cap map[s] = {}

(* The bits in use are exactly the bits of the registered routers: get     *)
(* leaks none and remove, an exclusive or, clears what it should.          *)
MaskIsUnion == mask = UNION { map[r] : r \in DOMAIN map }

MaskInv == MaskTypeOK /\ OneBitEach /\ BitsDisjoint /\ MaskIsUnion

(* get panics as full only if as many routers as there are bits are        *)
(* registered at that moment.                                              *)
PanicsOnlyWhenFull ==
  (\E id \in Router : GetPanics(id)) => Cardinality(DOMAIN map) = Width

(* The bit of a router does not change while it is registered: the RIB     *)
(* stores bits, not routers.                                               *)
StableBits ==
  [][\A r \in DOMAIN map \cap DOMAIN map' : map'[r] = map[r]]_maskVars
=============================================================================
