---------------------------- MODULE BgpRibProofs ----------------------------
(***************************************************************************)
(* Proofs about RouterMaskMap and BgpRib, for any routers, routes and      *)
(* width of the mask: masks are disjoint and accounted for, the table is   *)
(* well formed, and the shared RIB is a private one for each router.       *)
(***************************************************************************)
EXTENDS BgpRib, RibTableProofs

(* The mask map.                                                           *)

(* get keeps the invariant, whether it finds the router or allocates.      *)
LEMMA GetKeepsMaskInv ==
  ASSUME MaskInv, NEW id \in Router, Get(id)
  PROVE  MaskInv'
<1>1. CASE Known(id)
  BY <1>1 DEF Known, maskVars, MaskInv, MaskTypeOK, OneBitEach, BitsDisjoint,
              MaskIsUnion
<1>2. CASE Allocate(id)
  <2>1. PICK bit \in Free :
          /\ map' = [r \in DOMAIN map \cup {id} |-> IF r = id THEN {bit} ELSE map[r]]
          /\ mask' = mask \cup {bit}
    BY <1>2 DEF Allocate
  <2>2. bit \in Bit /\ bit \notin mask /\ id \notin DOMAIN map
    BY <1>2 DEF Free, Allocate
  <2>3. /\ DOMAIN map' = DOMAIN map \cup {id}
        /\ map'[id] = {bit}
        /\ \A r \in DOMAIN map : map'[r] = map[r]
    BY <2>1, <2>2
  <2>4. MaskTypeOK'
    BY <2>1, <2>2, <2>3 DEF MaskInv, MaskTypeOK
  <2>5. OneBitEach'
    BY <2>2, <2>3 DEF MaskInv, OneBitEach
  <2>6. BitsDisjoint'
    BY <2>2, <2>3 DEF MaskInv, BitsDisjoint, MaskIsUnion
  <2>7. MaskIsUnion'
    BY <2>1, <2>2, <2>3 DEF MaskInv, MaskIsUnion
  <2> QED BY <2>4, <2>5, <2>6, <2>7 DEF MaskInv
<1> QED BY <1>1, <1>2 DEF Get

(* remove keeps it too: the exclusive or clears the router's own bit.      *)
LEMMA RemoveKeepsMaskInv ==
  ASSUME MaskInv, NEW id \in Router, Remove(id)
  PROVE  MaskInv'
<1>1. /\ id \in DOMAIN map
      /\ DOMAIN map' = DOMAIN map \ {id}
      /\ \A r \in DOMAIN map' : map'[r] = map[r]
      /\ map' = [r \in DOMAIN map \ {id} |-> map[r]]
  BY DEF Remove
<1>2. mask' = mask \ map[id]
  BY <1>1 DEF Remove, MaskInv, MaskIsUnion
<1>3. MaskTypeOK'
  BY <1>1, <1>2 DEF MaskInv, MaskTypeOK
<1>4. OneBitEach' /\ BitsDisjoint'
  BY <1>1 DEF MaskInv, OneBitEach, BitsDisjoint
<1>5. MaskIsUnion'
  <2>1. ASSUME NEW b \in mask' PROVE \E r \in DOMAIN map' : b \in map'[r]
    <3>1. PICK r \in DOMAIN map : b \in map[r]
      BY <1>2, <2>1 DEF MaskInv, MaskIsUnion
    <3>2. r # id
      BY <1>2, <2>1, <3>1
    <3> QED BY <1>1, <3>1, <3>2
  <2>2. ASSUME NEW r \in DOMAIN map', NEW b \in map'[r] PROVE b \in mask'
    <3>1. r \in DOMAIN map /\ r # id /\ b \in map[r]
      BY <1>1, <2>2
    <3>2. b \in mask
      BY <3>1 DEF MaskInv, MaskIsUnion
    <3>3. b \notin map[id]
      BY <1>1, <3>1 DEF MaskInv, BitsDisjoint
    <3> QED BY <1>2, <3>2, <3>3
  <2> QED BY <2>1, <2>2 DEF MaskIsUnion
<1> QED BY <1>3, <1>4, <1>5 DEF MaskInv

(* The bits of registered routers are always one each, disjoint, and in    *)
(* use: get and remove neither leak a bit nor give one out twice.          *)
THEOREM MaskSafety == MaskSpec => []MaskInv
<1>1. MaskInit => MaskInv
  BY DEF MaskInit, MaskInv, MaskTypeOK, OneBitEach, BitsDisjoint, MaskIsUnion
<1>2. MaskInv /\ [MaskNext]_maskVars => MaskInv'
  <2> SUFFICES ASSUME MaskInv, [MaskNext]_maskVars PROVE MaskInv'
    OBVIOUS
  <2>1. CASE MaskNext
    BY <2>1, GetKeepsMaskInv, RemoveKeepsMaskInv DEF MaskNext
  <2>2. CASE UNCHANGED maskVars
    BY <2>2 DEF maskVars, MaskInv, MaskTypeOK, OneBitEach, BitsDisjoint, MaskIsUnion
  <2> QED BY <2>1, <2>2
<1> QED BY <1>1, <1>2, PTL DEF MaskSpec

(* No two registered routers ever share a bit.                             *)
THEOREM RoutersNeverShareABit == MaskSpec => []BitsDisjoint
BY MaskSafety, PTL DEF MaskInv

(* The bits in use are those of the registered routers.                    *)
THEOREM NoBitLeaks == MaskSpec => []MaskIsUnion
BY MaskSafety, PTL DEF MaskInv

(* When all bits are in use, each has exactly one router.                  *)
LEMMA FullMapIsBijective ==
  ASSUME MaskInv, mask = Bit
  PROVE  Cardinality(DOMAIN map) = Width
<1> DEFINE f == [r \in DOMAIN map |-> CHOOSE b \in Bit : map[r] = {b}]
<1>1. \A r \in DOMAIN map : f[r] \in Bit /\ map[r] = {f[r]}
  BY DEF MaskInv, OneBitEach
<1>2. f \in Injection(DOMAIN map, Bit)
  <2>1. f \in [DOMAIN map -> Bit]
    BY <1>1
  <2>2. \A r, s \in DOMAIN map : f[r] = f[s] => r = s
    BY <1>1 DEF MaskInv, BitsDisjoint
  <2> HIDE DEF f
  <2> QED BY <2>1, <2>2 DEF Injection, IsInjective
<1>3. f \in Surjection(DOMAIN map, Bit)
  <2>1. \A b \in Bit : \E r \in DOMAIN map : f[r] = b
    BY <1>1 DEF MaskInv, MaskIsUnion
  <2>2. f \in [DOMAIN map -> Bit]
    BY <1>1
  <2> HIDE DEF f
  <2> QED BY <2>1, <2>2 DEF Surjection
<1>4. IsFiniteSet(Bit) /\ Cardinality(Bit) = Width
  BY WidthAssumption, FS_Interval DEF Bit
<1> HIDE DEF f
<1> QED BY <1>2, <1>3, <1>4, FS_Injection

(* get panics only when each bit has a router: as many are registered as   *)
(* the mask has bits, and none of the bits was lost before.                *)
THEOREM PanicMeansFull == MaskSpec => []PanicsOnlyWhenFull
<1>1. MaskInv => PanicsOnlyWhenFull
  <2> SUFFICES ASSUME MaskInv, NEW id \in Router, GetPanics(id)
               PROVE  Cardinality(DOMAIN map) = Width
    BY DEF PanicsOnlyWhenFull
  <2>1. mask = Bit
    BY DEF GetPanics, Free, MaskInv, MaskTypeOK
  <2> QED BY <2>1, FullMapIsBijective
<1> QED BY <1>1, MaskSafety, PTL

(* A router's bit is the same for as long as it is registered.             *)
THEOREM BitsAreStable == MaskSpec => StableBits
<1>1. [MaskNext]_maskVars
        => [\A r \in DOMAIN map \cap DOMAIN map' : map'[r] = map[r]]_maskVars
  BY DEF MaskNext, Get, Known, Allocate, Remove, maskVars
<1> QED BY <1>1, PTL DEF MaskSpec, StableBits

-----------------------------------------------------------------------------
(* The invariant.                                                          *)

LEMMA RibInvIsTableOK == RibInv <=> MaskInv /\ TableOK(table, mask, Announced)
<1>1. Bit \subseteq Nat
  BY WidthAssumption DEF Bit
<1>2. ASSUME RibInv PROVE TableOK(table, mask, Announced)
  <2>1. \A p \in DOMAIN table : table[p] \subseteq Element(Announced)
    BY <1>1, <1>2 DEF RibInv, TypeOK, TableTypeOK, Elements, Element
  <2> QED BY <1>2, <2>1 DEF RibInv, TypeOK, TableTypeOK, EntriesOK, EntriesAreVecs,
             OnlyUsedBits, TableOK, EntryOK
<1>3. ASSUME MaskInv, TableOK(table, mask, Announced) PROVE RibInv
  <2>1. mask \subseteq Bit
    BY <1>3 DEF MaskInv, MaskTypeOK
  <2>2. \A p \in DOMAIN table : table[p] \subseteq Elements
    BY <1>3, <2>1 DEF TableOK, EntryOK, Elements, Element
  <2> QED BY <1>3, <2>2 DEF MaskInv, RibInv, TypeOK, TableTypeOK, EntriesOK,
             EntriesAreVecs, OnlyUsedBits, TableOK, EntryOK
<1> QED BY <1>2, <1>3 DEF RibInv

(* get leaves the table in order and gives the router a bit of its own.    *)
LEMMA GetForRib ==
  ASSUME RibInv, NEW id \in Router, Get(id)
  PROVE  /\ MaskInv' /\ TableOK(table, mask', Announced)
         /\ id \in DOMAIN map'
         /\ \E bit \in Bit : map'[id] = {bit} /\ bit \in mask'
<1>1. MaskInv /\ TableOK(table, mask, Announced)
  BY RibInvIsTableOK
<1>2. MaskInv'
  BY <1>1, GetKeepsMaskInv
<1>3. id \in DOMAIN map' /\ mask \subseteq mask'
  BY DEF Get, Known, Allocate, maskVars
<1>4. \E bit \in Bit : map'[id] = {bit} /\ bit \in mask'
  BY <1>2, <1>3 DEF MaskInv, OneBitEach, MaskIsUnion
<1>5. TableOK(table, mask', Announced)
  BY <1>1, <1>3 DEF TableOK, EntryOK
<1> QED BY <1>2, <1>3, <1>4, <1>5

LEMMA StepKeepsRibInv ==
  ASSUME RibInv, [Next]_vars
  PROVE  RibInv'
<1>1. MaskInv /\ TableOK(table, mask, Announced)
  BY RibInvIsTableOK
<1>2. ASSUME MaskInv', TableOK(table, mask, Announced)' PROVE RibInv'
  BY <1>2, RibInvIsTableOK, PTL
<1>3. ASSUME NEW id \in Router, RegisterRouter(id) PROVE RibInv'
  BY <1>2, <1>3, GetForRib DEF RegisterRouter
<1>4. ASSUME NEW id \in Router, NEW route \in Announced, InsertRoute(id, route)
      PROVE  RibInv'
  <2>1. PICK bit \in Bit : map'[id] = {bit} /\ bit \in mask'
    BY <1>4, GetForRib DEF InsertRoute
  <2>2. bit \in Nat /\ Announced \in SUBSET Routes
    BY WidthAssumption, RoutesAssumption DEF Bit
  <2>3. MaskInv' /\ TableOK(table, mask', Announced)
    BY <1>4, GetForRib DEF InsertRoute
  <2>4. TableOK(TableInsert(table, {bit}, route), mask', Announced)
    BY <2>1, <2>2, <2>3, InsertTable
  <2> QED BY <1>2, <1>4, <2>1, <2>3, <2>4 DEF InsertRoute
<1>5. ASSUME NEW id \in Router, NEW route \in Withdrawn, RemoveRoute(id, route)
      PROVE  RibInv'
  BY <1>2, <1>5, GetForRib, RemoveTable DEF RemoveRoute
<1>6. CASE Clear
  <2>1. MaskInv'
    BY <1>6 DEF Clear, MaskInv, MaskTypeOK, OneBitEach, BitsDisjoint, MaskIsUnion
  <2>2. TableOK(table, mask, Announced)'
    BY <1>6, EmptyTableOK DEF Clear
  <2> QED BY <1>2, <2>1, <2>2
<1>7. CASE UNCHANGED vars
  <2>1. MaskInv'
    BY <1>1, <1>7 DEF vars, MaskInv, MaskTypeOK, OneBitEach, BitsDisjoint, MaskIsUnion
  <2>2. TableOK(table, mask, Announced)'
    BY <1>1, <1>7 DEF vars
  <2> QED BY <1>2, <2>1, <2>2
<1> QED BY <1>3, <1>4, <1>5, <1>6, <1>7 DEF Next

(* The type and all of the representation of a RIB: masks as the map gives *)
(* them, no empty entry, no route twice in an entry, Vecs in order, and no *)
(* bit in the table that no router has.                                    *)
THEOREM RibSafety == Spec => []RibInv
<1>1. Init => RibInv
  <2> SUFFICES ASSUME Init PROVE MaskInv /\ TableOK(table, mask, Announced)
    BY RibInvIsTableOK
  <2>1. MaskInv
    BY DEF Init, MaskInit, MaskInv, MaskTypeOK, OneBitEach, BitsDisjoint, MaskIsUnion
  <2> QED BY <2>1, EmptyTableOK DEF Init
<1>2. RibInv /\ [Next]_vars => RibInv'
  BY StepKeepsRibInv
<1> QED BY <1>1, <1>2, PTL DEF Spec

-----------------------------------------------------------------------------
(* The shared RIB implements a private RIB for each router.                *)

(* Held, for any table and any map of masks.                               *)
HeldOf(t, mp, id) ==
  { r \in Announced :
      \E p \in DOMAIN t :
        \E x \in t[p] :
          x.route = r /\ MaskContains(x.mask, IF id \in DOMAIN mp THEN mp[id] ELSE {}) }

LEMMA HeldIsHeldOf == \A id : Held(id) = HeldOf(table, map, id)
BY DEF Held, HeldOf, TryGet

LEMMA HeldByBit ==
  ASSUME NEW t, NEW mp, NEW id, NEW bit, id \in DOMAIN mp, mp[id] = {bit}
  PROVE  HeldOf(t, mp, id) = { r \in Announced : UsesIn(t, bit, r) }
BY DEF HeldOf, MaskContains, UsesIn, Uses

LEMMA HeldByNone ==
  ASSUME NEW t, NEW mp, NEW id, id \notin DOMAIN mp
  PROVE  HeldOf(t, mp, id) = {}
BY DEF HeldOf, MaskContains

(* When get gives a router its bit, the router holds what it held before.  *)
LEMMA GetKeepsOwn ==
  ASSUME RibInv, NEW id \in Router, Get(id), NEW bit, map'[id] = {bit}
  PROVE  Held(id) = { r \in Announced : UsesIn(table, bit, r) }
<1>1. CASE Known(id)
  <2>1. id \in DOMAIN map /\ map[id] = {bit}
    BY <1>1 DEF Known, maskVars
  <2> QED BY <2>1, HeldByBit, HeldIsHeldOf
<1>2. CASE Allocate(id)
  <2>1. id \notin DOMAIN map /\ bit \notin mask
    BY <1>2 DEF Allocate, Free
  <2>2. \A r : ~ UsesIn(table, bit, r)
    BY <2>1, RibInvIsTableOK DEF TableOK, EntryOK, UsesIn, Uses
  <2> QED BY <2>1, <2>2, HeldByNone, HeldIsHeldOf
<1> QED BY <1>1, <1>2 DEF Get

(* A change of the table that leaves all other bits alone leaves the other *)
(* routers what they hold.                                                 *)
LEMMA OthersKeepTheirs ==
  ASSUME RibInv, NEW id \in Router, Get(id), NEW bit, map'[id] = {bit}, NEW n,
         \A b, r : b # bit => (UsesIn(n, b, r) <=> UsesIn(table, b, r)),
         NEW other \in Router \ {id}
  PROVE  HeldOf(n, map', other) = Held(other)
<1>1. /\ DOMAIN map' = DOMAIN map \cup {id}
      /\ \A r \in DOMAIN map : map'[r] = map[r]
      /\ MaskInv'
  BY GetKeepsMaskInv, RibInvIsTableOK DEF Get, Known, Allocate, maskVars
<1>2. CASE other \in DOMAIN map
  <2>1. PICK b \in Bit : map[other] = {b}
    BY <1>2, RibInvIsTableOK DEF MaskInv, OneBitEach
  <2>2. b # bit
    BY <1>1, <1>2, <2>1 DEF MaskInv, BitsDisjoint
  <2>3. HeldOf(n, map', other) = { r \in Announced : UsesIn(n, b, r) }
    BY <1>1, <1>2, <2>1, HeldByBit
  <2>4. Held(other) = { r \in Announced : UsesIn(table, b, r) }
    BY <1>2, <2>1, HeldByBit, HeldIsHeldOf
  <2> QED BY <2>2, <2>3, <2>4
<1>3. CASE other \notin DOMAIN map
  BY <1>1, <1>3, HeldByNone, HeldIsHeldOf
<1> QED BY <1>2, <1>3

(* The three steps of a router: its own routes are what the step says, and *)
(* those of the others stay.                                               *)

LEMMA RegisterHolds ==
  ASSUME RibInv, NEW id \in Router, RegisterRouter(id)
  PROVE  \A r \in Router : Held(r)' = Held(r)
<1>1. \A r : Held(r)' = HeldOf(table', map', r)
  BY DEF Held, HeldOf, TryGet
<1>2. Get(id) /\ table' = table
  BY DEF RegisterRouter
<1>3. PICK bit \in Bit : map'[id] = {bit} /\ id \in DOMAIN map'
  BY <1>2, GetForRib
<1>4. Held(id)' = Held(id)
  BY <1>1, <1>2, <1>3, GetKeepsOwn, HeldByBit
<1>5. \A other \in Router \ {id} : Held(other)' = Held(other)
  BY <1>1, <1>2, <1>3, OthersKeepTheirs
<1> QED BY <1>4, <1>5

LEMMA InsertHolds ==
  ASSUME RibInv, NEW id \in Router, NEW route \in Announced, InsertRoute(id, route)
  PROVE  /\ Held(id)' = Held(id) \cup {route}
         /\ \A other \in Router \ {id} : Held(other)' = Held(other)
<1>1. \A r : Held(r)' = HeldOf(table', map', r)
  BY DEF Held, HeldOf, TryGet
<1>2. Get(id)
  BY DEF InsertRoute
<1>3. PICK bit \in Bit : map'[id] = {bit} /\ id \in DOMAIN map' /\ bit \in mask'
  BY <1>2, GetForRib
<1>4. table' = TableInsert(table, {bit}, route)
  BY <1>3 DEF InsertRoute
<1>5. \A b, r : UsesIn(table', b, r) <=> UsesIn(table, b, r) \/ (r = route /\ b = bit)
  <2>1. bit \in Nat /\ Announced \in SUBSET Routes
    BY WidthAssumption, RoutesAssumption DEF Bit
  <2>2. TableOK(table, mask', Announced)
    BY <1>2, GetForRib
  <2> QED BY <1>3, <1>4, <2>1, <2>2, InsertTable
<1>6. Held(id)' = Held(id) \cup {route}
  <2>1. Held(id) = { r \in Announced : UsesIn(table, bit, r) }
    BY <1>2, <1>3, GetKeepsOwn
  <2>2. Held(id)' = { r \in Announced : UsesIn(table', bit, r) }
    BY <1>1, <1>3, HeldByBit
  <2> QED BY <1>5, <2>1, <2>2
<1>7. \A other \in Router \ {id} : Held(other)' = Held(other)
  BY <1>1, <1>2, <1>3, <1>5, OthersKeepTheirs
<1> QED BY <1>6, <1>7

LEMMA RemoveHolds ==
  ASSUME RibInv, NEW id \in Router, NEW route \in Withdrawn, RemoveRoute(id, route)
  PROVE  /\ Held(id)' = { r \in Held(id) : ~ SameSource(r, route) }
         /\ \A other \in Router \ {id} : Held(other)' = Held(other)
<1>1. \A r : Held(r)' = HeldOf(table', map', r)
  BY DEF Held, HeldOf, TryGet
<1>2. Get(id)
  BY DEF RemoveRoute
<1>3. PICK bit \in Bit : map'[id] = {bit} /\ id \in DOMAIN map' /\ bit \in mask'
  BY <1>2, GetForRib
<1>4. table' = TableRemove(table, {bit}, route)
  BY <1>3 DEF RemoveRoute
<1>5. \A b, r : UsesIn(table', b, r)
               <=> UsesIn(table, b, r) /\ ~ (b = bit /\ SameSource(r, route))
  BY <1>2, <1>3, <1>4, GetForRib, RemoveTable
<1>6. Held(id)' = { r \in Held(id) : ~ SameSource(r, route) }
  <2>1. Held(id) = { r \in Announced : UsesIn(table, bit, r) }
    BY <1>2, <1>3, GetKeepsOwn
  <2>2. Held(id)' = { r \in Announced : UsesIn(table', bit, r) }
    BY <1>1, <1>3, HeldByBit
  <2> QED BY <1>5, <2>1, <2>2
<1>7. \A other \in Router \ {id} : Held(other)' = Held(other)
  BY <1>1, <1>2, <1>3, <1>5, OthersKeepTheirs
<1> QED BY <1>6, <1>7

heldNow == [id \in Router |-> Held(id)]

LEMMA StepRefines ==
  ASSUME RibInv, [Next]_vars
  PROVE  [Ribs!Next]_heldNow
<1>1. ASSUME NEW id \in Router, RegisterRouter(id) PROVE UNCHANGED heldNow
  BY <1>1, RegisterHolds DEF heldNow
<1>2. ASSUME NEW id \in Router, NEW route \in Announced, InsertRoute(id, route)
      PROVE  Ribs!Next
  <2>1. heldNow' = [heldNow EXCEPT ![id] = @ \cup {route}]
    BY <1>2, InsertHolds DEF heldNow
  <2> QED BY <2>1 DEF Ribs!Next, Ribs!Insert, heldNow
<1>3. ASSUME NEW id \in Router, NEW route \in Withdrawn, RemoveRoute(id, route)
      PROVE  Ribs!Next
  <2>1. heldNow' = [heldNow EXCEPT ![id] =
                      { r \in @ : ~ (r.peer = route.peer /\ r.prefix = route.prefix) }]
    BY <1>3, RemoveHolds DEF heldNow, SameSource
  <2>2. route.peer \in Peer /\ route.prefix \in Prefix
    BY RoutesAssumption DEF Routes
  <2>3. Ribs!Withdraw(id, route.peer, route.prefix)
    BY <2>1 DEF Ribs!Withdraw, heldNow
  <2> QED BY <2>2, <2>3 DEF Ribs!Next
<1>4. CASE Clear
  <2>1. \A id \in Router : Held(id)' = {}
    BY <1>4, HeldByNone DEF Clear, Held, HeldOf, TryGet
  <2> QED BY <2>1 DEF Ribs!Next, Ribs!Clear, heldNow
<1>5. CASE UNCHANGED vars
  BY <1>5 DEF vars, heldNow, Held, TryGet
<1> QED BY <1>1, <1>2, <1>3, <1>4, <1>5 DEF Next

(* Routers that share a RIB do not see each other's routes: each of them   *)
(* holds what it inserted and has not withdrawn, whatever the others do.   *)
THEOREM SharedRibImplementsPrivateRibs == Spec => SharedRibIsPrivate
<1>1. Init => Ribs!Init
  BY DEF Init, MaskInit, EmptyTable, Ribs!Init, Held
<1>2. RibInv /\ [Next]_vars => [Ribs!Next]_heldNow
  BY StepRefines
<1> QED BY <1>1, <1>2, RibSafety, PTL DEF Spec, Ribs!Spec, SharedRibIsPrivate, heldNow

-----------------------------------------------------------------------------
(* Lookups.                                                                *)

(* The longest prefix that covers an address is one at most.               *)
LEMMA LongestMatchIsUnique ==
  ASSUME NEW t, NEW address, NEW p \in LongestMatch(t, address)
  PROVE  /\ p \in DOMAIN t /\ address \in p
         /\ \A q \in DOMAIN t : address \in q => p \subseteq q
         /\ LongestMatch(t, address) = {p}
<1>1. /\ p \in DOMAIN t /\ address \in p
      /\ \A q \in DOMAIN t : address \in q => p \subseteq q
  BY DEF LongestMatch
<1>2. ASSUME NEW q \in LongestMatch(t, address) PROVE q = p
  <2>1. q \in DOMAIN t /\ address \in q /\ q \subseteq p
    BY <1>1, <1>2 DEF LongestMatch
  <2> QED BY <1>1, <2>1
<1> QED BY <1>1, <1>2

LEMMA LookupsFindOwn ==
  ASSUME RibInv, NEW id \in Router, NEW address
  PROVE  FindsOwn(id, address)
<1> DEFINE m == TryGet(id)
           found == { x.route : x \in RoutesForRouter(id, address) }
<1> SUFFICES ASSUME found # {}
             PROVE  \E p \in Prefix :
                      /\ address \in p
                      /\ found = { r \in Held(id) : r.prefix = p }
                      /\ \A r \in Held(id) : address \in r.prefix => p \subseteq r.prefix
  BY DEF FindsOwn
<1>1. PICK p \in LongestMatch(table, address) : GetWithMask(table[p], m) # {}
  BY DEF RoutesForRouter, RoutesFor
<1>2. /\ p \in DOMAIN table /\ address \in p
      /\ \A q \in DOMAIN table : address \in q => p \subseteq q
      /\ LongestMatch(table, address) = {p}
  BY LongestMatchIsUnique
<1>3. RoutesForRouter(id, address) = { x \in table[p] : MaskContains(x.mask, m) }
  BY <1>2 DEF RoutesForRouter, RoutesFor, GetWithMask
<1>4. p \in Prefix /\ table[p] \subseteq Elements
  BY <1>2 DEF RibInv, TypeOK, TableTypeOK
<1>5. \A q \in DOMAIN table : \A x \in table[q] : x.route.prefix = q
  BY DEF RibInv, EntriesOK
<1>6. found = { r \in Held(id) : r.prefix = p }
  <2>1. ASSUME NEW x \in table[p], MaskContains(x.mask, m)
        PROVE  x.route \in Held(id) /\ x.route.prefix = p
    BY <1>2, <1>4, <1>5, <2>1 DEF Held, Elements
  <2>2. ASSUME NEW r \in Held(id), r.prefix = p
        PROVE  \E x \in table[p] : x.route = r /\ MaskContains(x.mask, m)
    BY <1>5, <2>2 DEF Held
  <2> QED BY <1>3, <2>1, <2>2
<1>7. \A r \in Held(id) : address \in r.prefix => p \subseteq r.prefix
  BY <1>2, <1>5 DEF Held
<1> QED BY <1>2, <1>4, <1>6, <1>7

LEMMA LookupsPickBest ==
  ASSUME RibInv, NEW id \in Router, NEW address
  PROVE  PicksBest(id, address)
<1> DEFINE routes == RoutesForRouter(id, address)
<1>1. \A x \in routes : x.route \in Routes
  BY RoutesAssumption DEF RoutesForRouter, RoutesFor, GetWithMask, LongestMatch,
     RibInv, TypeOK, TableTypeOK, Elements
<1>2. \A r \in Routes : Len(r.path) \in Nat /\ r.peer \in Nat
  <2>1. \A r \in Routes : r.path \in Path /\ r.peer \in Peer
    BY DEF Routes
  <2>2. \A path \in Seq(Nat) : Len(path) \in Nat
    OBVIOUS
  <2>3. \A r \in Routes : r.path \in Seq(Nat) /\ r.peer \in Nat
    BY <2>1, RouteAssumption
  <2> QED BY <2>2, <2>3
<1>3. BestRouteForRouter(id, address) = Calculate(routes)
  BY DEF BestRouteForRouter, BestRouteFor, RoutesForRouter
<1> SUFFICES ASSUME NEW b \in Calculate(routes), NEW x \in routes
             PROVE  \/ Len(b.path) < Len(x.route.path)
                    \/ Len(b.path) = Len(x.route.path) /\ b.peer >= x.route.peer
  BY <1>3 DEF PicksBest
<1>4. PICK y \in routes : b = y.route /\ ~ Less(y.route, x.route)
  BY DEF Calculate
<1>5. /\ Len(b.path) \in Nat /\ b.peer \in Nat
      /\ Len(x.route.path) \in Nat /\ x.route.peer \in Nat
  BY <1>1, <1>2, <1>4
<1> HIDE DEF routes
<1> QED BY <1>4, <1>5 DEF Less

(* In a table that routers share, a lookup answers with the router's own   *)
(* routes only, all of those to its longest prefix, and with the best one. *)
THEOREM LookupsAnswerOwnBest == Spec => []LookupFindsOwnBest
<1>1. RibInv => LookupFindsOwnBest
  BY LookupsFindOwn, LookupsPickBest DEF LookupFindsOwnBest
<1> QED BY <1>1, RibSafety, PTL
-----------------------------------------------------------------------------
(* The best route.                                                         *)

LEMMA RoutesAreComparable ==
  ASSUME NEW e, \A x \in e : x.route \in Announced
  PROVE  Comparable(e)
<1>1. \A r \in Routes : r.peer \in Peer /\ r.path \in Path
  BY DEF Routes
<1> QED BY <1>1, RoutesAssumption, RouteAssumption DEF Comparable

(* Of some elements of a Vec that a RIB can have, calculate picks the one  *)
(* that the loop of Iterator::max over them, in their order, ends with.    *)
LEMMA PartIsFold ==
  ASSUME NEW e, IsFiniteSet(e), IsVec(e), e \subseteq Element(Announced),
         NEW found \in SUBSET e, found # {}
  PROVE  Calculate(found) = {FoldMax(Reindex(found))}
<1>1. IsFiniteSet(found) /\ found \subseteq Element(Announced)
  BY FS_Subset
<1>2. \A x, y \in found : x.pos = y.pos => x = y
  BY DEF IsVec
<1>3. /\ Reindex(found) \subseteq Element(Announced)
      /\ IsFiniteSet(Reindex(found)) /\ IsVec(Reindex(found))
      /\ \A x \in found : \E y \in Reindex(found) : y.route = x.route
  BY <1>1, <1>2, ReindexIsVec
<1>4. Reindex(found) # {}
  BY <1>3
<1>5. Comparable(Reindex(found))
  <2>1. \A x \in Reindex(found) : x.route \in Announced
    BY <1>3 DEF Element
  <2> QED BY <2>1, RoutesAreComparable
<1>6. Calculate(Reindex(found)) = {FoldMax(Reindex(found))}
  BY <1>3, <1>4, <1>5, CalculateIsLoop
<1>7. Calculate(Reindex(found)) = Calculate(found)
  BY <1>1, ReindexKeepsBest
<1> QED BY <1>6, <1>7

(* A lookup runs the loop over the elements that its filter lets through.  *)
(* If there are any it answers with exactly one route, the one that the    *)
(* loop over these elements, in their order, ends with.                    *)
LookupIsFold ==
  \A id \in Router : \A address \in UNION Prefix :
    LET found == RoutesForRouter(id, address) IN
    BestRouteForRouter(id, address)
      = IF found = {} THEN {} ELSE {FoldMax(Reindex(found))}

THEOREM LookupsAnswerOne == Spec => []LookupIsFold
<1>1. ASSUME RibInv, NEW id \in Router, NEW address
      PROVE  LET found == RoutesForRouter(id, address) IN
             BestRouteForRouter(id, address)
               = IF found = {} THEN {} ELSE {FoldMax(Reindex(found))}
  <2> DEFINE found == RoutesForRouter(id, address)
  <2>1. BestRouteForRouter(id, address) = Calculate(found)
    BY DEF BestRouteForRouter, BestRouteFor, RoutesForRouter
  <2>2. CASE found = {}
    BY <2>1, <2>2 DEF Calculate
  <2>3. CASE found # {}
    <3>1. PICK p \in LongestMatch(table, address) : GetWithMask(table[p], TryGet(id)) # {}
      BY <2>3 DEF RoutesForRouter, RoutesFor
    <3>2. p \in DOMAIN table /\ LongestMatch(table, address) = {p}
      BY LongestMatchIsUnique
    <3>3. found \in SUBSET table[p]
      BY <3>2 DEF RoutesForRouter, RoutesFor, GetWithMask
    <3>4. IsFiniteSet(table[p]) /\ IsVec(table[p]) /\ table[p] \subseteq Element(Announced)
      BY <1>1, <3>2, RibInvIsTableOK DEF TableOK, EntryOK
    <3>5. Calculate(found) = {FoldMax(Reindex(found))}
      BY <2>3, <3>3, <3>4, PartIsFold
    <3> QED BY <2>1, <2>3, <3>5
  <2> QED BY <2>2, <2>3
<1>2. RibInv => LookupIsFold
  BY <1>1 DEF LookupIsFold
<1> QED BY <1>2, RibSafety, PTL

-----------------------------------------------------------------------------
(* The choice of a router.                                                 *)

(* If the elements left of an entry, v before and w after a step, are in   *)
(* the order they had, then the best of w is the best of v, or is new, or  *)
(* the best of v is gone.                                                  *)
LEMMA BestOfSameOrder ==
  ASSUME NEW e, NEW n, KeepsOrder(e, n), IsVec(e),
         NEW v \in SUBSET e, NEW w \in SUBSET n,
         NEW b, Calculate(v) = {b}, NEW c, Calculate(w) = {c},
         \E y \in w : y.route = b, \E x \in v : x.route = c,
         \A x \in e \cup n : x.pos \in Nat
  PROVE  b = c
<1>1. PICK xb \in v : /\ xb.route = b
                      /\ \A y \in v : ~ Less(b, y.route)
                      /\ \A y \in v : Less(y.route, b) \/ y.pos <= xb.pos
  BY DEF Calculate
<1>2. PICK yc \in w : /\ yc.route = c
                      /\ \A y \in w : ~ Less(c, y.route)
                      /\ \A y \in w : Less(y.route, c) \/ y.pos <= yc.pos
  BY DEF Calculate
<1>3. PICK yb \in w : yb.route = b
  OBVIOUS
<1>4. PICK xc \in v : xc.route = c
  OBVIOUS
<1>5. ~ Less(b, c) /\ ~ Less(c, b)
  BY <1>1, <1>2, <1>3, <1>4
<1>6. xc.pos <= xb.pos
  BY <1>1, <1>4, <1>5
<1>7. yb.pos <= yc.pos
  BY <1>2, <1>3, <1>5
<1>8. xb.pos <= xc.pos
  BY <1>1, <1>2, <1>3, <1>4, <1>7 DEF KeepsOrder
<1>9. xb = xc
  BY <1>6, <1>8 DEF IsVec
<1> QED BY <1>1, <1>4, <1>9

(* Every step keeps the order of every entry.                              *)
LEMMA StepKeepsOrder ==
  ASSUME RibInv, [Next]_vars, NEW p
  PROVE  KeepsOrder(EntryAt(table, p), EntryAt(table', p))
<1>1. TableOK(table, mask, Announced)
  BY RibInvIsTableOK
<1>2. ASSUME table' = table
      PROVE  KeepsOrder(EntryAt(table, p), EntryAt(table', p))
  <2>1. NoneOrOK(EntryAt(table, p), p, mask, Announced)
    BY <1>1 DEF EntryAt, TableOK, NoneOrOK
  <2> QED BY <1>2, <2>1, SameOrder
<1>3. ASSUME NEW id \in Router, NEW route \in Announced, InsertRoute(id, route)
      PROVE  KeepsOrder(EntryAt(table, p), EntryAt(table', p))
  BY <1>1, <1>3, InsertTableKeepsOrder DEF InsertRoute
<1>4. ASSUME NEW id \in Router, NEW route \in Withdrawn, RemoveRoute(id, route)
      PROVE  KeepsOrder(EntryAt(table, p), EntryAt(table', p))
  BY <1>1, <1>4, RemoveTableKeepsOrder DEF RemoveRoute
<1>5. CASE Clear
  BY <1>5 DEF Clear, EmptyTable, EntryAt, KeepsOrder
<1> QED BY <1>2, <1>3, <1>4, <1>5 DEF Next, RegisterRouter, vars

(* The elements among which a lookup of a router chooses at a prefix: all  *)
(* of the routes it holds to it, and if there are any it chooses one.      *)
Own(id, p) == GetWithMask(EntryAt(table, p), TryGet(id))
ChoosesOwn(id, p) ==
  /\ Own(id, p) \subseteq EntryAt(table, p) /\ IsVec(EntryAt(table, p))
  /\ \A x \in EntryAt(table, p) : x.pos \in Nat
  /\ \A r \in Held(id) : r.prefix = p => \E x \in Own(id, p) : x.route = r
  /\ \A x \in Own(id, p) : x.route \in Held(id) /\ x.route.prefix = p
  /\ Choice(id, p) = Calculate(Own(id, p))
  /\ Own(id, p) # {} => \E b : Choice(id, p) = {b}

LEMMA ChoiceIsOwn ==
  ASSUME RibInv, NEW id, NEW p
  PROVE  ChoosesOwn(id, p)
<1> DEFINE e == EntryAt(table, p)
           own == GetWithMask(e, TryGet(id))
<1>1. TableOK(table, mask, Announced)
  BY RibInvIsTableOK
<1>2. /\ NoneOrOK(e, p, mask, Announced)
      /\ e # {} => p \in DOMAIN table /\ e = table[p]
  BY <1>1 DEF EntryAt, TableOK, NoneOrOK
<1>3. /\ own \in SUBSET e /\ IsVec(e) /\ e \subseteq Element(Announced)
      /\ IsFiniteSet(e)
  BY <1>2, FS_EmptySet DEF NoneOrOK, EntryOK, GetWithMask, IsVec
<1>4. \A x \in e : x.pos \in Nat
  BY <1>3 DEF Element
<1>5. ASSUME NEW r \in Held(id), r.prefix = p
      PROVE  \E x \in own : x.route = r
  <2>1. PICK q \in DOMAIN table :
          \E x \in table[q] : x.route = r /\ MaskContains(x.mask, TryGet(id))
    BY DEF Held
  <2>2. q = p
    BY <1>1, <1>5, <2>1 DEF TableOK, EntryOK
  <2> QED BY <2>1, <2>2 DEF EntryAt, GetWithMask
<1>6. ASSUME NEW x \in own
      PROVE  x.route \in Held(id) /\ x.route.prefix = p
  <2>1. x \in e /\ MaskContains(x.mask, TryGet(id))
    BY DEF GetWithMask
  <2>2. x.route \in Announced /\ x.route.prefix = p
    BY <1>2, <1>3, <2>1 DEF NoneOrOK, EntryOK, Element
  <2> QED BY <1>2, <2>1, <2>2 DEF Held
<1>7. Own(id, p) = own /\ Choice(id, p) = Calculate(own)
  BY DEF Choice, Own
<1>8. own # {} => Calculate(own) = {FoldMax(Reindex(own))}
  <2> HIDE DEF e, own
  <2> QED BY <1>3, PartIsFold
<1> HIDE DEF own
<1> QED BY <1>3, <1>4, <1>5, <1>6, <1>7, <1>8 DEF ChoosesOwn

(* Which of equally good routes a router uses does not change with what    *)
(* the other routers do to the entry, nor with what it does to the routes  *)
(* it does not use: a new choice is a new route, or the old one is gone.   *)
THEOREM ChoicesAreStable == Spec => ChoicesChangeForCause
<1>1. ASSUME RibInv, [Next]_vars, NEW id \in Router, NEW p \in Prefix
      PROVE  \/ Choice(id, p)' = Choice(id, p)
             \/ Choice(id, p)' # {} /\ Choice(id, p)' \cap Held(id) = {}
             \/ ~ (Choice(id, p) \subseteq Held(id)')
  <2> DEFINE e == EntryAt(table, p)
             n == EntryAt(table', p)
             v == Own(id, p)
             w == Own(id, p)'
  <2>1. ChoosesOwn(id, p)
    BY <1>1, ChoiceIsOwn
  <2>2. ChoosesOwn(id, p)'
    <3>1. RibInv'
      BY <1>1, StepKeepsRibInv
    <3> QED BY <3>1, ChoiceIsOwn, PTL
  <2>3. /\ v \subseteq e /\ IsVec(e) /\ \A x \in e : x.pos \in Nat
        /\ \A x \in v : x.route \in Held(id) /\ x.route.prefix = p
        /\ \A r \in Held(id) : r.prefix = p => \E x \in v : x.route = r
        /\ Choice(id, p) = Calculate(v)
        /\ v # {} => \E b : Choice(id, p) = {b}
    BY <2>1 DEF ChoosesOwn
  <2>4. /\ w \subseteq n /\ \A x \in n : x.pos \in Nat
        /\ \A x \in w : x.route.prefix = p
        /\ \A r \in Held(id)' : r.prefix = p => \E x \in w : x.route = r
        /\ Choice(id, p)' = Calculate(w)
        /\ w # {} => \E c : Choice(id, p)' = {c}
    <3>1. EntryAt(table, p)' = n /\ Calculate(Own(id, p))' = Calculate(w)
      BY DEF EntryAt, Calculate
    <3> QED BY <2>2, <3>1 DEF ChoosesOwn
  <2>5. KeepsOrder(e, n)
    BY <1>1, StepKeepsOrder
  <2>6. \A r \in Choice(id, p) : r.prefix = p /\ \E x \in v : x.route = r
    BY <2>3 DEF Calculate
  <2>7. \A r \in Choice(id, p)' : r.prefix = p /\ \E x \in w : x.route = r
    BY <2>4 DEF Calculate
  <2> HIDE DEF e, n, v, w
  <2> SUFFICES ASSUME Choice(id, p) \subseteq Held(id)',
                      Choice(id, p)' = {} \/ Choice(id, p)' \cap Held(id) # {}
               PROVE  Choice(id, p)' = Choice(id, p)
    OBVIOUS
  <2>8. CASE v = {}
    <3>1. Choice(id, p) = {}
      BY <2>6, <2>8
    <3>2. Choice(id, p)' = {}
      BY <2>3, <2>7, <2>8
    <3> QED BY <3>1, <3>2
  <2>9. CASE v # {}
    <3>1. PICK b : Choice(id, p) = {b}
      BY <2>3, <2>9
    <3>2. \E y \in w : y.route = b
      BY <2>4, <2>6, <3>1
    <3>3. PICK c : Choice(id, p)' = {c}
      BY <2>4, <3>2
    <3>4. \E x \in v : x.route = c
      BY <2>3, <2>7, <3>3
    <3>5. Calculate(v) = {b} /\ Calculate(w) = {c}
      BY <2>3, <2>4, <3>1, <3>3
    <3>6. v \in SUBSET e /\ w \in SUBSET n /\ IsVec(e)
          /\ \A x \in e \cup n : x.pos \in Nat
      BY <2>3, <2>4
    <3>7. b = c
      BY <2>5, <3>2, <3>4, <3>5, <3>6, BestOfSameOrder
    <3> QED BY <3>1, <3>3, <3>7
  <2> QED BY <2>8, <2>9
<1>2. RibInv /\ [Next]_vars
        => [\A id \in Router, p \in Prefix :
              \/ Choice(id, p)' = Choice(id, p)
              \/ Choice(id, p)' # {} /\ Choice(id, p)' \cap Held(id) = {}
              \/ ~ (Choice(id, p) \subseteq Held(id)')]_vars
  BY <1>1
<1> QED BY <1>2, RibSafety, PTL DEF Spec, ChoicesChangeForCause

=============================================================================
