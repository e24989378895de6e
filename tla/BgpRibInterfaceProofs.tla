----------------------- MODULE BgpRibInterfaceProofs -----------------------
(***************************************************************************)
(* Proofs about the clients of a shared RIB, for any number of them, any   *)
(* width of the mask and any advertisements: the RIB's invariant under the *)
(* lock and after panics, and that each advertisement takes effect as a    *)
(* whole or not at all.                                                    *)
(***************************************************************************)
EXTENDS BgpRibInterface, BgpRibProofs

Operation ==
  [kind : {"insert"}, route : Announced] \cup [kind : {"remove"}, route : Withdrawn]

(* The inserts of a sequence of operations come before its removals.       *)
InsertsFirst(s) ==
  \A i, j \in DOMAIN s : i < j /\ s[i].kind = "remove" => s[j].kind = "remove"

ClientTypeOK ==
  /\ lock \in Router \cup {Nobody}
  /\ phase \in [Router -> Phases]
  /\ ads \in [Router -> Seq(Ads)]
  /\ ops \in [Router -> Seq(Operation)]

(* Who panics lets the lock go, and no one gets it afterwards.             *)
PoisonFreesLock == poisoned => lock = Nobody

(* A client that has the lock and no mask yet has the whole of its         *)
(* advertisement before it.                                                *)
WholeUntilMasked ==
  \A c \in Router :
    lock = c /\ c \notin DOMAIN map => \E ad \in Ads : ops[c] = Operations(ad)

IInv ==
  /\ RibInterfaceInv /\ ClientTypeOK /\ PoisonFreesLock /\ WholeUntilMasked
  /\ \A c \in Router : InsertsFirst(ops[c])

-----------------------------------------------------------------------------
(* The operations of an advertisement.                                     *)

RoutesOf(s, kind) == { s[i].route : i \in { i \in DOMAIN s : s[i].kind = kind } }
AnnouncedBy(ad) == { GetAnnouncements(ad)[i] : i \in DOMAIN ad.announcements }
WithdrawnBy(ad) == { GetWithdrawals(ad)[i] : i \in DOMAIN ad.withdrawals }

LEMMA AdsAreAdvertisements == Ads \subseteq Advertisements
BY InterfaceAssumption DEF Ads

LEMMA BatchesHaveAds == \A batch \in Batch : batch \in Seq(Ads) /\ batch # <<>>
<1> SUFFICES ASSUME NEW batch \in Batch PROVE batch \in Seq(Ads) /\ batch # <<>>
  OBVIOUS
<1>1. batch \in Seq(Advertisements) /\ batch # <<>>
  BY InterfaceAssumption
<1>2. \A i \in 1 .. Len(batch) : batch[i] \in Ads
  BY <1>1 DEF Ads
<1> QED BY <1>1, <1>2

LEMMA OperationsOfAd ==
  ASSUME NEW ad \in Ads
  PROVE  /\ Operations(ad) \in Seq(Operation)
         /\ InsertsFirst(Operations(ad))
         /\ RoutesOf(Operations(ad), "insert") = AnnouncedBy(ad)
         /\ RoutesOf(Operations(ad), "remove") = WithdrawnBy(ad)
<1> DEFINE a == Len(ad.announcements)
           w == Len(ad.withdrawals)
           s == Op("insert", GetAnnouncements(ad))
           t == Op("remove", GetWithdrawals(ad))
           o == s \o t
<1>1. /\ a \in Nat /\ DOMAIN ad.announcements = 1 .. a
      /\ w \in Nat /\ DOMAIN ad.withdrawals = 1 .. w
  BY AdsAreAdvertisements DEF Advertisements, Announcements
<1>2. /\ DOMAIN GetAnnouncements(ad) = 1 .. a
      /\ DOMAIN GetWithdrawals(ad) = 1 .. w
  BY <1>1 DEF GetAnnouncements, GetWithdrawals
<1>3. /\ \A i \in 1 .. a : GetAnnouncements(ad)[i] \in Announced
      /\ \A i \in 1 .. w : GetWithdrawals(ad)[i] \in Withdrawn
  BY <1>1, InterfaceAssumption
<1> HIDE DEF a, w
<1>4. /\ s = [i \in 1 .. a |-> [kind |-> "insert", route |-> GetAnnouncements(ad)[i]]]
      /\ t = [i \in 1 .. w |-> [kind |-> "remove", route |-> GetWithdrawals(ad)[i]]]
  BY <1>2 DEF Op
<1> HIDE DEF s, t
<1>5. s \in Seq(Operation) /\ t \in Seq(Operation) /\ Len(s) = a /\ Len(t) = w
  BY <1>1, <1>3, <1>4 DEF Operation
<1>6. /\ o \in Seq(Operation) /\ DOMAIN o = 1 .. a + w
      /\ \A i \in 1 .. a : o[i] = s[i]
      /\ \A i \in 1 .. w : o[a + i] = t[i]
  BY <1>1, <1>5
<1>7. /\ \A i \in 1 .. a : o[i].kind = "insert" /\ o[i].route = GetAnnouncements(ad)[i]
      /\ \A i \in 1 .. w : o[a + i].kind = "remove" /\ o[a + i].route = GetWithdrawals(ad)[i]
  <2>1. ASSUME NEW i \in 1 .. a
        PROVE  s[i] = [kind |-> "insert", route |-> GetAnnouncements(ad)[i]]
    BY <1>4
  <2>2. ASSUME NEW i \in 1 .. w
        PROVE  t[i] = [kind |-> "remove", route |-> GetWithdrawals(ad)[i]]
    BY <1>4
  <2> HIDE DEF o
  <2>3. ASSUME NEW i \in 1 .. a
        PROVE  o[i].kind = "insert" /\ o[i].route = GetAnnouncements(ad)[i]
    <3>1. o[i] = [kind |-> "insert", route |-> GetAnnouncements(ad)[i]]
      BY <1>6, <2>1, <2>3
    <3> QED BY <3>1
  <2>4. ASSUME NEW i \in 1 .. w
        PROVE  o[a + i].kind = "remove" /\ o[a + i].route = GetWithdrawals(ad)[i]
    <3>1. o[a + i] = [kind |-> "remove", route |-> GetWithdrawals(ad)[i]]
      BY <1>6, <2>2, <2>4
    <3> QED BY <3>1
  <2> QED BY <2>3, <2>4
<1> HIDE DEF o
<1>8. \A i \in 1 .. a + w : (o[i].kind = "insert" /\ i <= a) \/ (o[i].kind = "remove" /\ a < i)
  <2> SUFFICES ASSUME NEW i \in 1 .. a + w
               PROVE  (o[i].kind = "insert" /\ i <= a) \/ (o[i].kind = "remove" /\ a < i)
    OBVIOUS
  <2>1. CASE i <= a
    <3>1. i \in 1 .. a
      BY <1>1, <2>1
    <3> QED BY <1>7, <2>1, <3>1
  <2>2. CASE a < i
    <3>1. i - a \in 1 .. w /\ a + (i - a) = i
      BY <1>1, <2>2
    <3>2. o[a + (i - a)].kind = "remove"
      BY <1>7, <3>1
    <3> QED BY <2>2, <3>1, <3>2
  <2> QED BY <1>1, <2>1, <2>2
<1>9. InsertsFirst(o)
  <2> SUFFICES ASSUME NEW i \in 1 .. a + w, NEW j \in 1 .. a + w,
                      i < j, o[i].kind = "remove"
               PROVE  o[j].kind = "remove"
    BY <1>6 DEF InsertsFirst
  <2>1. a < i
    BY <1>8
  <2> QED BY <1>1, <1>8, <2>1
<1>10. RoutesOf(o, "insert") = AnnouncedBy(ad)
  <2>1. { i \in DOMAIN o : o[i].kind = "insert" } = 1 .. a
    <3>1. \A i \in 1 .. a : i \in DOMAIN o
      BY <1>1, <1>6
    <3>2. \A i \in 1 .. a + w : o[i].kind = "insert" => i \in 1 .. a
      BY <1>1, <1>8
    <3> QED BY <1>6, <1>7, <3>1, <3>2
  <2>2. RoutesOf(o, "insert") = { o[i].route : i \in 1 .. a }
    BY <2>1 DEF RoutesOf
  <2> QED BY <1>1, <1>7, <2>2 DEF AnnouncedBy
<1>11. RoutesOf(o, "remove") = WithdrawnBy(ad)
  <2>1. { i \in DOMAIN o : o[i].kind = "remove" } = { a + i : i \in 1 .. w }
    <3>1. \A i \in 1 .. w : a + i \in DOMAIN o
      BY <1>1, <1>6
    <3>2. ASSUME NEW i \in 1 .. a + w, o[i].kind = "remove"
          PROVE  i - a \in 1 .. w /\ i = a + (i - a)
      BY <1>1, <1>8, <3>2
    <3> QED BY <1>6, <1>7, <3>1, <3>2
  <2>2. RoutesOf(o, "remove") = { o[i].route : i \in { a + i : i \in 1 .. w } }
    BY <2>1 DEF RoutesOf
  <2>3. RoutesOf(o, "remove") = { o[a + i].route : i \in 1 .. w }
    BY <2>2
  <2> QED BY <1>1, <1>7, <2>3 DEF WithdrawnBy
<1> QED BY <1>6, <1>9, <1>10, <1>11 DEF Operations, o, s, t

LEMMA FirstOperation ==
  ASSUME NEW s \in Seq(Operation), s # <<>>, InsertsFirst(s)
  PROVE  /\ Head(s) \in Operation /\ Tail(s) \in Seq(Operation)
         /\ InsertsFirst(Tail(s))
         /\ Head(s).kind = "insert" =>
              /\ RoutesOf(s, "insert") = RoutesOf(Tail(s), "insert") \cup {Head(s).route}
              /\ RoutesOf(s, "remove") = RoutesOf(Tail(s), "remove")
         /\ Head(s).kind = "remove" =>
              /\ RoutesOf(s, "insert") = {} /\ RoutesOf(Tail(s), "insert") = {}
              /\ RoutesOf(s, "remove") = RoutesOf(Tail(s), "remove") \cup {Head(s).route}
<1> DEFINE t == Tail(s)
<1>1. /\ Len(s) \in Nat \ {0} /\ DOMAIN s = 1 .. Len(s)
      /\ Head(s) = s[1] /\ Head(s) \in Operation
      /\ t \in Seq(Operation) /\ DOMAIN t = 1 .. Len(s) - 1
      /\ \A i \in DOMAIN t : t[i] = s[i + 1]
  OBVIOUS
<1> HIDE DEF t
<1>2. /\ \A i \in DOMAIN s : i = 1 \/ (i - 1 \in DOMAIN t /\ t[i - 1] = s[i])
      /\ \A i \in DOMAIN t : i + 1 \in DOMAIN s
      /\ 1 \in DOMAIN s
  BY <1>1
<1>3. InsertsFirst(t)
  BY <1>1, <1>2 DEF InsertsFirst
<1>4. \A k : RoutesOf(s, k)
               = RoutesOf(t, k) \cup (IF s[1].kind = k THEN {s[1].route} ELSE {})
  BY <1>1, <1>2 DEF RoutesOf
<1>5. s[1].kind = "remove" => RoutesOf(s, "insert") = {} /\ RoutesOf(t, "insert") = {}
  <2> SUFFICES ASSUME s[1].kind = "remove"
               PROVE  RoutesOf(s, "insert") = {} /\ RoutesOf(t, "insert") = {}
    OBVIOUS
  <2>1. \A i \in DOMAIN s : s[i].kind = "remove"
    BY <1>1, <1>2 DEF InsertsFirst
  <2> QED BY <1>1, <1>2, <2>1 DEF RoutesOf
<1> QED BY <1>1, <1>3, <1>4, <1>5 DEF t

-----------------------------------------------------------------------------
(* The invariant.                                                          *)

(* What a client does is an operation of the RIB, or does not touch it.    *)
LEMMA StepIsRibStep ==
  ASSUME IInv, [RibInterfaceNext]_allVars
  PROVE  [Next]_vars
<1>1. ASSUME NEW c \in Router, Operate(c) PROVE Next
  <2>1. ops[c] \in Seq(Operation) /\ ops[c] # <<>> /\ InsertsFirst(ops[c])
    BY <1>1 DEF IInv, ClientTypeOK, Operate
  <2>2. Head(ops[c]) \in Operation
    BY <2>1, FirstOperation
  <2>3. CASE Insert(c)
    <3>1. Head(ops[c]).route \in Announced
      BY <2>2, <2>3 DEF Operation, Insert
    <3> QED BY <2>3, <3>1 DEF Insert, Next
  <2>4. CASE Withdraw(c)
    <3>1. Head(ops[c]).route \in Withdrawn
      BY <2>2, <2>4 DEF Operation, Withdraw
    <3> QED BY <2>4, <3>1 DEF Withdraw, Next
  <2> QED BY <1>1, <2>3, <2>4 DEF Operate
<1>2. ASSUME NEW c \in Router, New(c) PROVE Next
  BY <1>2 DEF New, Next
<1>3. ASSUME NEW c \in Router, ClearRib(c) PROVE Next
  BY <1>3 DEF ClearRib, Next
<1>4. ASSUME NEW c \in Router,
             \/ SetRib(c) \/ (\E batch \in Batch : BeginUpdate(c, batch))
             \/ Acquire(c) \/ Skip(c) \/ Release(c) \/ TakeUpdates(c)
             \/ PanicWhenFull(c) \/ PanicOnPoison(c)
      PROVE  UNCHANGED vars
  BY <1>4 DEF SetRib, BeginUpdate, Acquire, TakeLock, Skip, Release, TakeUpdates,
              PanicWhenFull, PanicOnPoison, Die, ribVars, vars
<1>5. CASE UNCHANGED allVars
  BY <1>5 DEF allVars, ribVars, vars
<1> QED BY <1>1, <1>2, <1>3, <1>4, <1>5 DEF RibInterfaceNext, Goes

LockFollowsPhase ==
  /\ \A c \in Router : (lock = c) <=> (phase[c] = "locked")
  /\ \A c \in Router : ops[c] # <<>> => lock = c
  /\ \A c \in Router : phase[c] = "waiting" => ads[c] # <<>>

LEMMA RibInterfaceInvParts ==
  ASSUME ClientTypeOK
  PROVE  RibInterfaceInv <=> RibInv /\ LockFollowsPhase
BY DEF ClientTypeOK, RibInterfaceInv, LockFollowsPhase

ClientInv ==
  /\ ClientTypeOK /\ LockFollowsPhase /\ PoisonFreesLock /\ WholeUntilMasked
  /\ \A c \in Router : InsertsFirst(ops[c])

LEMMA IInvParts == IInv <=> RibInv /\ ClientInv
BY RibInterfaceInvParts DEF IInv, ClientInv

LEMMA StepKeepsClients ==
  ASSUME IInv, [RibInterfaceNext]_allVars
  PROVE  ClientInv'
<1> USE IInvParts, InterfaceAssumption
        DEF ClientInv, ClientTypeOK, LockFollowsPhase, PoisonFreesLock
<1>1. ASSUME NEW c \in Router, New(c) \/ SetRib(c) \/ ClearRib(c) PROVE ClientInv'
  <2>1. /\ UNCHANGED <<lock, poisoned, ads, ops>>
        /\ \/ phase[c] = "new" /\ phase' = [phase EXCEPT ![c] = "idle"]
           \/ UNCHANGED phase
        /\ (lock = Nobody \/ UNCHANGED map)
    BY <1>1 DEF New, SetRib, ClearRib, clientVars, ribVars
  <2>2. WholeUntilMasked'
    BY <2>1 DEF WholeUntilMasked
  <2> QED BY <2>1, <2>2 DEF Phases
<1>2. ASSUME NEW c \in Router, NEW batch \in Batch, BeginUpdate(c, batch)
      PROVE  ClientInv'
  <2>1. batch \in Seq(Ads) /\ batch # <<>>
    BY BatchesHaveAds
  <2>2. /\ UNCHANGED <<lock, poisoned, ops, map>> /\ phase[c] = "idle"
        /\ phase' = [phase EXCEPT ![c] = "waiting"]
        /\ ads' = [ads EXCEPT ![c] = batch]
    BY <1>2 DEF BeginUpdate, ribVars
  <2>3. WholeUntilMasked'
    BY <2>2 DEF WholeUntilMasked
  <2> QED BY <2>1, <2>2, <2>3 DEF Phases
<1>3. ASSUME NEW c \in Router, Acquire(c) PROVE ClientInv'
  <2> DEFINE ad == Head(ads[c])
  <2>1. /\ ads[c] \in Seq(Ads) /\ ads[c] # <<>>
        /\ ad \in Ads /\ Tail(ads[c]) \in Seq(Ads)
    BY <1>3 DEF Acquire, TakeLock
  <2> HIDE DEF ad
  <2>2. Operations(ad) \in Seq(Operation) /\ InsertsFirst(Operations(ad))
    BY <2>1, OperationsOfAd
  <2>3. /\ UNCHANGED <<poisoned, map>> /\ phase[c] = "waiting" /\ lock = Nobody
        /\ ~ poisoned
        /\ lock' = c /\ phase' = [phase EXCEPT ![c] = "locked"]
        /\ ops' = [ops EXCEPT ![c] = Operations(ad)]
        /\ ads' = [ads EXCEPT ![c] = Tail(@)]
    BY <1>3 DEF Acquire, TakeLock, ribVars, ad
  <2>4. ClientTypeOK'
    BY <2>1, <2>2, <2>3 DEF Phases
  <2>5. LockFollowsPhase' /\ PoisonFreesLock'
    BY <2>3
  <2>6. WholeUntilMasked'
    BY <2>1, <2>3 DEF WholeUntilMasked
  <2>7. \A r \in Router : InsertsFirst(ops[r])'
    BY <2>2, <2>3
  <2> QED BY <2>4, <2>5, <2>6, <2>7
<1>4. ASSUME NEW c \in Router, Skip(c) PROVE ClientInv'
  <2>1. /\ UNCHANGED <<lock, poisoned, ops, map>> /\ phase[c] = "waiting"
        /\ ads' = [ads EXCEPT ![c] = Tail(@)]
        /\ phase' = [phase EXCEPT ![c] = IF ads'[c] = <<>> THEN "idle" ELSE "waiting"]
    BY <1>4 DEF Skip, NextPhase, ribVars
  <2>2. Tail(ads[c]) \in Seq(Ads)
    BY <2>1
  <2>3. WholeUntilMasked'
    BY <2>1 DEF WholeUntilMasked
  <2> QED BY <2>1, <2>2, <2>3 DEF Phases
<1>5. ASSUME NEW c \in Router, Operate(c) PROVE ClientInv'
  <2>1. /\ UNCHANGED <<lock, poisoned, phase, ads>> /\ lock = c
        /\ ops[c] # <<>> /\ ops' = [ops EXCEPT ![c] = Tail(@)]
    BY <1>5 DEF Operate
  <2>2. Tail(ops[c]) \in Seq(Operation) /\ InsertsFirst(Tail(ops[c]))
    BY <2>1, FirstOperation
  <2>3. c \in DOMAIN map'
    BY <1>5 DEF Operate, Insert, Withdraw, InsertRoute, RemoveRoute, Get, Known,
                Allocate, maskVars
  <2>4. WholeUntilMasked'
    BY <2>1, <2>3 DEF WholeUntilMasked
  <2> QED BY <2>1, <2>2, <2>4
<1>6. ASSUME NEW c \in Router, Release(c) PROVE ClientInv'
  <2>1. /\ UNCHANGED <<poisoned, ads, ops, map>> /\ lock = c /\ lock' = Nobody
        /\ ops[c] = <<>>
        /\ phase' = [phase EXCEPT ![c] = IF ads[c] = <<>> THEN "idle" ELSE "waiting"]
    BY <1>6 DEF Release, ribVars
  <2>2. WholeUntilMasked'
    BY <2>1 DEF WholeUntilMasked
  <2> QED BY <2>1, <2>2 DEF Phases
<1>7. ASSUME NEW c \in Router, TakeUpdates(c) PROVE ClientInv'
  <2>1. UNCHANGED <<lock, poisoned, phase, ads, ops, map>>
    BY <1>7 DEF TakeUpdates, ribVars
  <2>2. WholeUntilMasked'
    BY <2>1 DEF WholeUntilMasked
  <2> QED BY <2>1, <2>2
<1>8. ASSUME NEW c \in Router, PanicWhenFull(c) \/ PanicOnPoison(c) PROVE ClientInv'
  <2>1. /\ lock \in {c, Nobody} /\ lock' = Nobody /\ UNCHANGED map
        /\ phase' = [phase EXCEPT ![c] = "dead"]
        /\ ads' = [ads EXCEPT ![c] = <<>>] /\ ops' = [ops EXCEPT ![c] = <<>>]
    BY <1>8 DEF PanicWhenFull, PanicOnPoison, Die, ribVars
  <2>2. WholeUntilMasked'
    BY <2>1 DEF WholeUntilMasked
  <2>3. \A r \in Router : InsertsFirst(ops[r])'
    BY <2>1 DEF InsertsFirst
  <2> QED BY <2>1, <2>2, <2>3 DEF Phases
<1>9. CASE UNCHANGED allVars
  <2>1. WholeUntilMasked'
    BY <1>9 DEF WholeUntilMasked, allVars, clientVars, ribVars
  <2> QED BY <1>9, <2>1 DEF allVars, clientVars
<1> QED BY <1>1, <1>2, <1>3, <1>4, <1>5, <1>6, <1>7, <1>8, <1>9
        DEF RibInterfaceNext, Goes

LEMMA InitHasIInv == RibInterfaceInit => IInv
<1> SUFFICES ASSUME RibInterfaceInit PROVE RibInv /\ ClientInv
  BY IInvParts
<1>1. RibInv
  <2>1. MaskInv
    BY DEF RibInterfaceInit, Init, MaskInit, MaskInv, MaskTypeOK, OneBitEach,
           BitsDisjoint, MaskIsUnion
  <2> QED BY <2>1, EmptyTableOK, RibInvIsTableOK DEF RibInterfaceInit, Init
<1>2. ClientInv
  BY InterfaceAssumption
     DEF RibInterfaceInit, ClientInv, ClientTypeOK, LockFollowsPhase, PoisonFreesLock,
         WholeUntilMasked, InsertsFirst, Phases
<1> QED BY <1>1, <1>2

(* The RIB's invariant and the order of lock, phases and work hold however *)
(* the threads interleave, skip and panic.                                 *)
THEOREM RibInterfaceSafety == RibInterfaceSpec => []IInv
<1>1. IInv /\ [RibInterfaceNext]_allVars => IInv'
  <2> SUFFICES ASSUME IInv, [RibInterfaceNext]_allVars PROVE IInv'
    OBVIOUS
  <2>1. RibInv'
    BY StepIsRibStep, StepKeepsRibInv, IInvParts
  <2>2. ClientInv'
    BY StepKeepsClients
  <2> QED BY <2>1, <2>2, IInvParts, PTL
<1> QED BY <1>1, InitHasIInv, PTL DEF RibInterfaceSpec

(* In particular, the invariant of the RIB interface holds.                *)
THEOREM ClientsKeepInvariant == RibInterfaceSpec => []RibInterfaceInv
BY RibInterfaceSafety, PTL DEF IInv

(* A RIB whose mutex is poisoned never changes again and stays poisoned.   *)
THEOREM PoisonFreezesRib == RibInterfaceSpec => PoisonedRibIsFrozen
<1>1. IInv /\ [RibInterfaceNext]_allVars
        => [poisoned => poisoned' /\ UNCHANGED ribVars]_allVars
  <2> SUFFICES ASSUME IInv, RibInterfaceNext, poisoned
               PROVE  poisoned' /\ UNCHANGED ribVars
    OBVIOUS
  <2>1. \A c \in Router : lock # c
    BY InterfaceAssumption DEF IInv, PoisonFreesLock
  <2> QED BY <2>1 DEF RibInterfaceNext, Goes, New, SetRib, BeginUpdate, Acquire, Skip,
             Operate, PanicWhenFull, Release, TakeUpdates, ClearRib, PanicOnPoison, Die
<1> QED BY <1>1, RibInterfaceSafety, PTL DEF RibInterfaceSpec, PoisonedRibIsFrozen

-----------------------------------------------------------------------------
(* Each advertisement takes effect as a whole.                             *)

(* The refinement mapping, and the changes that advertisements make.       *)
heldAtomically == [c \in Router |-> IF c \in DOMAIN map THEN Settled(c) ELSE {}]
ChangesOfAds == { <<AnnouncedBy(ad), WithdrawnBy(ad)>> : ad \in Ads }

(* What a set of routes is after a change.                                 *)
Changed(routes, inserted, removed) ==
  { r \in routes \cup inserted : \A w \in removed : ~ SameSource(w, r) }

LEMMA SettledIsChanged ==
  \A c : Settled(c) = Changed(Held(c), RoutesOf(ops[c], "insert"), RoutesOf(ops[c], "remove"))
BY DEF Settled, Changed, Left, RoutesOf

LEMMA SettledWithoutOps == \A c : ops[c] = <<>> => Settled(c) = Held(c)
<1>1. \A k : RoutesOf(<<>>, k) = {}
  BY DEF RoutesOf
<1> QED BY <1>1, SettledIsChanged DEF Changed

LEMMA HeldUnmasked == \A c : c \notin DOMAIN map => Held(c) = {}
BY HeldByNone, HeldIsHeldOf

LEMMA MappingDefs ==
  /\ \A c \in Router : heldAtomically[c] = IF c \in DOMAIN map THEN Settled(c) ELSE {}
  /\ DOMAIN heldAtomically = Router
BY DEF heldAtomically

(* The abstract step for an advertisement of client c.                     *)
LEMMA AdIsApplied ==
  ASSUME NEW c \in Router, NEW ad \in Ads,
         heldAtomically' =
           [heldAtomically EXCEPT ![c] = Changed(@, AnnouncedBy(ad), WithdrawnBy(ad))]
  PROVE  Private!Next
<1> DEFINE change == <<AnnouncedBy(ad), WithdrawnBy(ad)>>
<1>1. \A w, r : SameSource(w, r) <=> Private!Matches(r, w)
  BY DEF SameSource, Private!Matches
<1>2. Private!Apply(c, change)
  BY <1>1 DEF Private!Apply, Changed, heldAtomically
<1>3. change \in { << { GetAnnouncements(a)[i] : i \in DOMAIN a.announcements },
                      { GetWithdrawals(a)[i] : i \in DOMAIN a.withdrawals } >> : a \in Ads }
  BY DEF AnnouncedBy, WithdrawnBy
<1> QED BY <1>2, <1>3 DEF Private!Next

(* A route of an advertisement moves from what is left to do to what the   *)
(* client holds; the two together do not change.                           *)
LEMMA OperateSettles ==
  ASSUME IInv, NEW c \in Router, Operate(c)
  PROVE  /\ Settled(c)' = Settled(c)
         /\ DOMAIN map' = DOMAIN map \cup {c}
         /\ \A d \in Router \ {c} : Settled(d)' = Settled(d)
<1> DEFINE o == ops[c]
           t == Tail(ops[c])
           route == Head(ops[c]).route
<1>1. /\ o \in Seq(Operation) /\ o # <<>> /\ InsertsFirst(o)
      /\ ops' = [ops EXCEPT ![c] = t] /\ ops'[c] = t
      /\ \A d \in Router \ {c} : ops'[d] = ops[d]
      /\ RibInv
  BY IInvParts DEF ClientInv, ClientTypeOK, Operate
<1>2. DOMAIN map' = DOMAIN map \cup {c}
  BY DEF Operate, Insert, Withdraw, InsertRoute, RemoveRoute, Get, Known, Allocate,
         maskVars
<1>3. \A d : Settled(d)' = Changed(Held(d)', RoutesOf(ops'[d], "insert"),
                                   RoutesOf(ops'[d], "remove"))
  BY DEF Settled, Changed, Left, RoutesOf
<1>4. CASE Insert(c)
  <2>1. Head(o).kind = "insert" /\ route \in Announced /\ InsertRoute(c, route)
    BY <1>1, <1>4, FirstOperation DEF Insert, Operation
  <2>2. /\ Held(c)' = Held(c) \cup {route}
        /\ \A d \in Router \ {c} : Held(d)' = Held(d)
    BY <1>1, <2>1, InsertHolds
  <2>3. /\ RoutesOf(o, "insert") = RoutesOf(t, "insert") \cup {route}
        /\ RoutesOf(o, "remove") = RoutesOf(t, "remove")
    BY <1>1, <2>1, FirstOperation
  <2> HIDE DEF o, t, route
  <2>4. Settled(c)' = Settled(c)
    BY <1>1, <1>3, <2>2, <2>3, SettledIsChanged DEF Changed, o
  <2>5. \A d \in Router \ {c} : Settled(d)' = Settled(d)
    BY <1>1, <1>3, <2>2, SettledIsChanged
  <2> QED BY <1>2, <2>4, <2>5
<1>5. CASE Withdraw(c)
  <2>1. Head(o).kind = "remove" /\ route \in Withdrawn /\ RemoveRoute(c, route)
    BY <1>1, <1>5, FirstOperation DEF Withdraw, Operation
  <2>2. /\ Held(c)' = { r \in Held(c) : ~ SameSource(r, route) }
        /\ \A d \in Router \ {c} : Held(d)' = Held(d)
    BY <1>1, <2>1, RemoveHolds
  <2>3. /\ RoutesOf(o, "insert") = {} /\ RoutesOf(t, "insert") = {}
        /\ RoutesOf(o, "remove") = RoutesOf(t, "remove") \cup {route}
    BY <1>1, <2>1, FirstOperation
  <2>4. \A r : SameSource(r, route) <=> SameSource(route, r)
    BY DEF SameSource
  <2> HIDE DEF o, t, route
  <2>5. Settled(c)' = Settled(c)
    BY <1>1, <1>3, <2>2, <2>3, <2>4, SettledIsChanged DEF Changed, o
  <2>6. \A d \in Router \ {c} : Settled(d)' = Settled(d)
    BY <1>1, <1>3, <2>2, SettledIsChanged
  <2> QED BY <1>2, <2>5, <2>6
<1> QED BY <1>4, <1>5 DEF Operate

LEMMA StepIsAtomic ==
  ASSUME IInv, [RibInterfaceNext]_allVars
  PROVE  [Private!Next]_heldAtomically
<1> USE IInvParts DEF ClientInv, ClientTypeOK, LockFollowsPhase
<1>1. /\ \A d : Settled(d)' = Changed(Held(d)', RoutesOf(ops'[d], "insert"),
                                      RoutesOf(ops'[d], "remove"))
      /\ \A d : ops'[d] = <<>> => Settled(d)' = Held(d)'
      /\ \A d : d \notin DOMAIN map' => Held(d)' = {}
      /\ heldAtomically' = [d \in Router |-> IF d \in DOMAIN map' THEN Settled(d)' ELSE {}]
  <2>1. \A d : Settled(d)' = Changed(Held(d)', RoutesOf(ops'[d], "insert"),
                                    RoutesOf(ops'[d], "remove"))
    BY DEF Settled, Changed, Left, RoutesOf
  <2>2. \A k : RoutesOf(<<>>, k) = {}
    BY DEF RoutesOf
  <2>3. \A d : ops'[d] = <<>> => Settled(d)' = Held(d)'
    BY <2>1, <2>2 DEF Changed
  <2>4. \A d : Held(d)' = HeldOf(table', map', d)
    BY DEF Held, HeldOf, TryGet
  <2> QED BY <2>1, <2>3, <2>4, HeldByNone DEF heldAtomically
<1>2. ASSUME UNCHANGED ribVars PROVE \A d : Held(d)' = Held(d)
  BY <1>2 DEF ribVars, Held, TryGet
<1>3. ASSUME UNCHANGED ribVars, UNCHANGED ops PROVE UNCHANGED heldAtomically
  BY <1>1, <1>2, <1>3, SettledIsChanged DEF heldAtomically, ribVars
<1>4. ASSUME NEW c \in Router, New(c) PROVE UNCHANGED heldAtomically
  <2>1. /\ lock = Nobody /\ UNCHANGED ops /\ RegisterRouter(c)
        /\ DOMAIN map' = DOMAIN map \cup {c}
    BY <1>4 DEF New, RegisterRouter, Get, Known, Allocate, maskVars
  <2>2. \A d \in Router : ops[d] = <<>> /\ ops'[d] = <<>>
    BY <2>1, InterfaceAssumption
  <2>3. \A d \in Router : Held(d)' = Held(d)
    BY <2>1, RegisterHolds
  <2>4. \A d \in Router : Settled(d)' = Held(d) /\ Settled(d) = Held(d)
    BY <1>1, <2>2, <2>3, SettledWithoutOps
  <2> QED BY <1>1, <2>1, <2>4, HeldUnmasked DEF heldAtomically
<1>5. ASSUME NEW c \in Router, Acquire(c) PROVE [Private!Next]_heldAtomically
  <2> DEFINE ad == Head(ads[c])
  <2>1. /\ ads[c] \in Seq(Ads) /\ ads[c] # <<>> /\ ad \in Ads
        /\ ops' = [ops EXCEPT ![c] = Operations(ad)]
        /\ lock = Nobody /\ UNCHANGED ribVars /\ map' = map
    BY <1>5 DEF Acquire, TakeLock, ribVars
  <2> HIDE DEF ad
  <2>2. /\ RoutesOf(Operations(ad), "insert") = AnnouncedBy(ad)
        /\ RoutesOf(Operations(ad), "remove") = WithdrawnBy(ad)
    BY <2>1, OperationsOfAd
  <2>3. \A d \in Router : Settled(d) = Held(d)
    BY <2>1, InterfaceAssumption, SettledWithoutOps
  <2>4. \A d \in Router \ {c} : Settled(d)' = Settled(d)
    BY <1>1, <1>2, <2>1, SettledIsChanged
  <2>5. Settled(c)' = Changed(Settled(c), AnnouncedBy(ad), WithdrawnBy(ad))
    BY <1>1, <1>2, <2>1, <2>2, <2>3
  <2>6. CASE c \in DOMAIN map
    <3>1. heldAtomically' =
            [heldAtomically EXCEPT ![c] = Changed(@, AnnouncedBy(ad), WithdrawnBy(ad))]
      BY <1>1, <2>1, <2>4, <2>5, <2>6 DEF heldAtomically
    <3> QED BY <2>1, <3>1, AdIsApplied
  <2>7. CASE c \notin DOMAIN map
    <3>1. UNCHANGED heldAtomically
      BY <1>1, <2>1, <2>4, <2>7 DEF heldAtomically
    <3> QED BY <3>1
  <2> QED BY <2>6, <2>7
<1>6. ASSUME NEW c \in Router, Operate(c) PROVE [Private!Next]_heldAtomically
  <2>1. /\ Settled(c)' = Settled(c)
        /\ DOMAIN map' = DOMAIN map \cup {c}
        /\ \A d \in Router \ {c} : Settled(d)' = Settled(d)
    BY <1>6, OperateSettles
  <2>2. CASE c \in DOMAIN map
    <3>1. UNCHANGED heldAtomically
      BY <1>1, <2>1, <2>2 DEF heldAtomically
    <3> QED BY <3>1
  <2>3. CASE c \notin DOMAIN map
    <3>1. PICK ad \in Ads : ops[c] = Operations(ad)
      BY <1>6, <2>3 DEF Operate, WholeUntilMasked
    <3>2. Settled(c) = Changed({}, AnnouncedBy(ad), WithdrawnBy(ad))
      BY <2>3, <3>1, OperationsOfAd, HeldUnmasked, SettledIsChanged
    <3>3. heldAtomically' =
            [heldAtomically EXCEPT ![c] = Changed(@, AnnouncedBy(ad), WithdrawnBy(ad))]
      BY <1>1, <2>1, <2>3, <3>2 DEF heldAtomically
    <3> QED BY <3>3, AdIsApplied
  <2> QED BY <2>2, <2>3
<1>7. ASSUME NEW c \in Router, ClearRib(c) PROVE Private!Next
  <2>1. lock = Nobody /\ UNCHANGED ops /\ DOMAIN map' = {}
    BY <1>7 DEF ClearRib, clientVars, Clear
  <2>2. heldAtomically' = [d \in Router |-> {}]
    BY <1>1, <2>1
  <2> QED BY <2>2 DEF Private!Next, Private!Clear, heldAtomically
<1>8. ASSUME NEW c \in Router,
             \/ SetRib(c) \/ (\E batch \in Batch : BeginUpdate(c, batch))
             \/ Skip(c) \/ Release(c) \/ TakeUpdates(c)
      PROVE  UNCHANGED heldAtomically
  BY <1>3, <1>8 DEF SetRib, BeginUpdate, Skip, Release, TakeUpdates
<1>9. ASSUME NEW c \in Router, PanicWhenFull(c) \/ PanicOnPoison(c)
      PROVE  UNCHANGED heldAtomically
  <2>1. /\ UNCHANGED ribVars /\ map' = map
        /\ ops' = [ops EXCEPT ![c] = <<>>]
        /\ c \notin DOMAIN map \/ ops[c] = <<>>
    BY <1>9, InterfaceAssumption
       DEF PanicWhenFull, PanicOnPoison, Die, GetPanics, ribVars
  <2>2. \A d \in Router \ {c} : Settled(d)' = Settled(d)
    BY <1>1, <1>2, <2>1, SettledIsChanged
  <2>3. ops[c] = <<>> => Settled(c)' = Settled(c)
    BY <1>1, <1>2, <2>1, SettledIsChanged
  <2> QED BY <1>1, <2>1, <2>2, <2>3 DEF heldAtomically
<1>10. CASE UNCHANGED allVars
  BY <1>3, <1>10 DEF allVars, clientVars
<1> QED BY <1>4, <1>5, <1>6, <1>7, <1>8, <1>9, <1>10 DEF RibInterfaceNext, Goes

(* An advertisement takes effect on its client's routes as a whole or not  *)
(* at all, and on no one else's, whatever is skipped and whoever panics.   *)
THEOREM UpdatesAreAtomicallyApplied == RibInterfaceSpec => UpdatesAreAtomic
<1>1. RibInterfaceInit => Private!Init
  BY DEF RibInterfaceInit, Init, MaskInit, Private!Init
<1>2. IInv /\ [RibInterfaceNext]_allVars => [Private!Next]_heldAtomically
  BY StepIsAtomic
<1> QED BY <1>1, <1>2, RibInterfaceSafety, PTL
        DEF RibInterfaceSpec, UpdatesAreAtomic, Private!Spec, heldAtomically

-----------------------------------------------------------------------------
(* What is reported as a new best route is one.                            *)

ReportedTypeOK == reported \in [Router -> [new : Seq(Announced), gone : Seq(Withdrawn)]]

(* Extend appends the one element the option has, if it has one.           *)
LEMMA ExtendByOption ==
  ASSUME NEW S, NEW s \in Seq(S), NEW route \in S, NEW option \in SUBSET {route}
  PROVE  /\ Extend(s, option) \in Seq(S)
         /\ Len(Extend(s, option)) > Len(s) =>
              /\ route \in option
              /\ Extend(s, option)[Len(Extend(s, option))] = route
<1>1. CASE option = {}
  BY <1>1 DEF Extend
<1>2. CASE option = {route}
  <2>1. (CHOOSE r \in option : TRUE) = route
    BY <1>2
  <2>2. Extend(s, option) = Append(s, route)
    BY <1>2, <2>1 DEF Extend
  <2>3. Append(s, route) \in Seq(S) /\ Len(Append(s, route)) = Len(s) + 1
    OBVIOUS
  <2>4. Append(s, route)[Len(s) + 1] = route
    OBVIOUS
  <2> QED BY <1>2, <2>2, <2>3, <2>4
<1> QED BY <1>1, <1>2

(* What insert_route returns is as good as all that is in the entry then.  *)
LEMMA NewBestIsMaximal ==
  ASSUME NEW t, NEW m, NEW route, route \in NewBest(t, route),
         EntryAt(t, route.prefix) \subseteq Elements
  PROVE  \A x \in TableInsert(t, m, route)[route.prefix] : ~ Less(route, x.route)
<1> DEFINE e == EntryAt(t, route.prefix)
           added == [mask |-> {}, route |-> route, pos |-> Cardinality(e) + 1]
<1>1. \A y \in e \cup {added} : ~ Less(route, y.route)
  BY DEF NewBest, Calculate
<1>2. TableInsert(t, m, route)[route.prefix] = EntryInsert(e, m, route)
  BY DEF TableInsert
<1>3. ~ Less(route, route)
  <2>1. added.route = route
    OBVIOUS
  <2> QED BY <1>1, <2>1
<1> HIDE DEF e, added
<1>4. ASSUME NEW x \in EntryInsert(e, m, route)
      PROVE  x.route = route \/ \E y \in e : x.route = y.route
  <2>1. CASE \E z \in e : z.route = route
    <3>1. PICK y \in e : x = IF y.route = route THEN [y EXCEPT !.mask = @ \cup m] ELSE y
      BY <1>4, <2>1 DEF EntryInsert
    <3>2. CASE y.route = route
      <4>1. x = [y EXCEPT !.mask = @ \cup m]
        BY <3>1, <3>2
      <4>2. y \in Elements
        BY DEF e
      <4> QED BY <3>2, <4>1, <4>2 DEF Elements
    <3>3. CASE y.route # route
      BY <3>1, <3>3
    <3> QED BY <3>2, <3>3
  <2>2. CASE ~ \E z \in e : z.route = route
    <3>1. x \in e \/ x = [mask |-> m, route |-> route, pos |-> Cardinality(e) + 1]
      BY <1>4, <2>2 DEF EntryInsert
    <3> QED BY <3>1
  <2> QED BY <2>1, <2>2
<1> QED BY <1>1, <1>2, <1>3, <1>4

LEMMA InsertReports ==
  ASSUME IInv, ReportedTypeOK, NEW c \in Router, Operate(c), Insert(c)
  PROVE  /\ ReportedTypeOK'
         /\ \A d \in Router : Len(reported'[d].new) > Len(reported[d].new) =>
              LET r == reported'[d].new[Len(reported'[d].new)] IN
              \A x \in table'[r.prefix] : ~ Less(r, x.route)
<1> DEFINE route == Head(ops[c]).route
           s == reported[c].new
           n == Extend(s, NewBest(table, route))
<1>1. route \in Announced /\ InsertRoute(c, route)
  <2>1. Head(ops[c]) \in Operation /\ Head(ops[c]).kind = "insert"
    BY IInvParts, FirstOperation DEF ClientInv, ClientTypeOK, Operate, Insert
  <2> QED BY <2>1 DEF Operation, Insert
<1>2. reported' = [reported EXCEPT ![c].new = n]
  BY DEF Insert
<1>3. s \in Seq(Announced)
  BY DEF ReportedTypeOK
<1>4. NewBest(table, route) \in SUBSET {route}
  BY DEF NewBest
<1>5. table' = TableInsert(table, map'[c], route)
  BY <1>1 DEF InsertRoute
<1> HIDE DEF route, s
<1>6. n \in Seq(Announced) /\ (Len(n) > Len(s) => route \in NewBest(table, route)
                                                /\ n[Len(n)] = route)
  BY <1>1, <1>3, <1>4, ExtendByOption
<1> HIDE DEF n
<1>7. ReportedTypeOK'
  BY <1>2, <1>6 DEF ReportedTypeOK
<1>8. reported'[c].new = n /\ \A d \in Router \ {c} : reported'[d] = reported[d]
  BY <1>2 DEF ReportedTypeOK
<1>9. Len(n) > Len(s) => \A x \in table'[route.prefix] : ~ Less(route, x.route)
  <2>1. EntryAt(table, route.prefix) \subseteq Elements
    BY IInvParts DEF RibInv, TypeOK, TableTypeOK, EntryAt
  <2> QED BY <1>5, <1>6, <2>1, NewBestIsMaximal
<1>10. \A d \in Router \ {c} : ~ (Len(reported'[d].new) > Len(reported[d].new))
  <2>1. \A d \in Router : Len(reported[d].new) \in Nat
    BY DEF ReportedTypeOK
  <2> QED BY <1>8, <2>1
<1> QED BY <1>6, <1>7, <1>8, <1>9, <1>10 DEF s

LEMMA OthersReportNone ==
  ASSUME IInv, ReportedTypeOK, [RibInterfaceNext]_allVars,
         \A c \in Router : ~ (Operate(c) /\ Insert(c))
  PROVE  /\ ReportedTypeOK'
         /\ \A d \in Router : ~ (Len(reported'[d].new) > Len(reported[d].new))
<1>1. \A d \in Router : Len(reported[d].new) \in Nat
  BY DEF ReportedTypeOK
<1>2. CASE UNCHANGED reported
  BY <1>1, <1>2 DEF ReportedTypeOK
<1>3. ASSUME NEW c \in Router, TakeUpdates(c)
      PROVE  /\ ReportedTypeOK'
             /\ \A d \in Router : ~ (Len(reported'[d].new) > Len(reported[d].new))
  <2>1. reported' = [reported EXCEPT ![c] = NoUpdates]
    BY <1>3 DEF TakeUpdates
  <2>2. NoUpdates \in [new : Seq(Announced), gone : Seq(Withdrawn)]
        /\ Len(NoUpdates.new) = 0
    BY DEF NoUpdates
  <2>3. reported'[c] = NoUpdates /\ \A d \in Router \ {c} : reported'[d] = reported[d]
    BY <2>1 DEF ReportedTypeOK
  <2> QED BY <1>1, <2>1, <2>2, <2>3 DEF ReportedTypeOK
<1>4. ASSUME NEW c \in Router, Operate(c), Withdraw(c)
      PROVE  /\ ReportedTypeOK'
             /\ \A d \in Router : ~ (Len(reported'[d].new) > Len(reported[d].new))
  <2> DEFINE route == Head(ops[c]).route
             n == Extend(reported[c].gone, WithdrawnBest(table, route))
  <2>1. route \in Withdrawn
    <3>1. Head(ops[c]) \in Operation /\ Head(ops[c]).kind = "remove"
      BY <1>4, IInvParts, FirstOperation DEF ClientInv, ClientTypeOK, Operate, Withdraw
    <3> QED BY <3>1 DEF Operation
  <2>2. reported' = [reported EXCEPT ![c].gone = n]
    BY <1>4 DEF Withdraw
  <2>3. WithdrawnBest(table, route) \in SUBSET {route}
    BY DEF WithdrawnBest
  <2>4. reported[c].gone \in Seq(Withdrawn)
    BY DEF ReportedTypeOK
  <2> HIDE DEF route
  <2>5. n \in Seq(Withdrawn)
    BY <2>1, <2>3, <2>4, ExtendByOption
  <2> HIDE DEF n
  <2>6. ReportedTypeOK'
    BY <2>2, <2>5 DEF ReportedTypeOK
  <2>7. \A d \in Router : reported'[d].new = reported[d].new
    BY <2>2 DEF ReportedTypeOK
  <2> QED BY <1>1, <2>6, <2>7
<1>5. ASSUME NEW c \in Router,
             \/ New(c) \/ SetRib(c) \/ (\E batch \in Batch : BeginUpdate(c, batch))
             \/ Acquire(c) \/ Skip(c) \/ Release(c) \/ ClearRib(c)
             \/ PanicWhenFull(c) \/ PanicOnPoison(c)
      PROVE  UNCHANGED reported
  BY <1>5 DEF New, SetRib, BeginUpdate, Acquire, TakeLock, Skip, Release, ClearRib,
              PanicWhenFull, PanicOnPoison, Die, clientVars
<1>6. CASE UNCHANGED allVars
  BY <1>2, <1>6 DEF allVars, clientVars
<1> QED BY <1>2, <1>3, <1>4, <1>5, <1>6 DEF RibInterfaceNext, Goes, Operate

(* No route is reported as a new best route while its entry has a better   *)
(* one, of whichever client.                                               *)
THEOREM ReportsAreMaximal == RibInterfaceSpec => ReportedIsMaximal
<1>1. RibInterfaceInit => ReportedTypeOK
  BY DEF RibInterfaceInit, ReportedTypeOK, NoUpdates
<1>2. IInv /\ ReportedTypeOK /\ [RibInterfaceNext]_allVars
        => /\ ReportedTypeOK'
           /\ [\A c \in Router :
                 Len(reported'[c].new) > Len(reported[c].new) =>
                   LET r == reported'[c].new[Len(reported'[c].new)] IN
                   \A x \in table'[r.prefix] : ~ Less(r, x.route)]_allVars
  BY InsertReports, OthersReportNone
<1> QED BY <1>1, <1>2, RibInterfaceSafety, PTL DEF RibInterfaceSpec, ReportedIsMaximal
-----------------------------------------------------------------------------
(* The RIB behind the mutex.                                               *)

(* The clients together use the RIB as BgpRib allows: the mutex makes a    *)
(* sequence of whole operations of theirs.                                 *)
THEOREM ClientsImplementRib == RibInterfaceSpec => Spec
<1>1. RibInterfaceInit => Init
  BY DEF RibInterfaceInit
<1>2. IInv /\ [RibInterfaceNext]_allVars => [Next]_vars
  BY StepIsRibStep
<1> QED BY <1>1, <1>2, RibInterfaceSafety, PTL DEF RibInterfaceSpec, Spec

(* So each client has a RIB of its own for all that the others do, skip    *)
(* and panic, its lookups answer with the best of its own routes, the one  *)
(* that the loop of Iterator::max ends with, and which of equal ones that  *)
(* is changes for causes of its own only.                                  *)
THEOREM ClientsHavePrivateRibs ==
  RibInterfaceSpec => /\ SharedRibIsPrivate
                      /\ []LookupFindsOwnBest
                      /\ ChoicesChangeForCause
                      /\ []LookupIsFold
BY ClientsImplementRib, SharedRibImplementsPrivateRibs, LookupsAnswerOwnBest,
   ChoicesAreStable, LookupsAnswerOne, PTL

-----------------------------------------------------------------------------
(* The work of an update.                                                  *)

(* Less is left to do of an update: first of its advertisements, then of   *)
(* the operations of the current one, then of the lock to give back.       *)
LessToDo(c) ==
  \/ Len(ads'[c]) < Len(ads[c])
  \/ ads'[c] = ads[c] /\ Len(ops'[c]) < Len(ops[c])
  \/ /\ ads'[c] = ads[c] /\ ops'[c] = ops[c]
     /\ phase[c] = "locked" /\ phase'[c] \in {"idle", "waiting"}

(* In an update each step of the client leaves less to do, or ends its     *)
(* thread, and no step of another client gives it more to do or takes any  *)
(* of its work away.                                                       *)
WorkOnlyShrinks ==
  [][\A c \in Router :
       phase[c] \in {"waiting", "locked"} =>
         \/ phase'[c] = phase[c] /\ ads'[c] = ads[c] /\ ops'[c] = ops[c]
         \/ phase'[c] = "dead"
         \/ LessToDo(c)]_allVars

LEMMA TailIsShorter ==
  \A S : \A s \in Seq(S) : s # <<>> => Len(Tail(s)) < Len(s)
OBVIOUS

(* An update does a bounded amount of work, which is why it returns if its *)
(* thread goes on.                                                         *)
THEOREM UpdatesShrink == RibInterfaceSpec => WorkOnlyShrinks
<1> DEFINE kept(c) == phase'[c] = phase[c] /\ ads'[c] = ads[c] /\ ops'[c] = ops[c]
           fine(c) == phase[c] \in {"waiting", "locked"} =>
                        kept(c) \/ phase'[c] = "dead" \/ LessToDo(c)
<1>1. ASSUME IInv, RibInterfaceNext, NEW c \in Router
      PROVE  fine(c)
  <2>1. /\ phase \in [Router -> Phases] /\ ads \in [Router -> Seq(Ads)]
        /\ ops \in [Router -> Seq(Operation)]
    BY <1>1 DEF IInv, ClientTypeOK
  <2>2. /\ phase[c] = "waiting" => ads[c] # <<>>
        /\ \A r \in Router : (lock = r) <=> (phase[r] = "locked")
    BY <1>1 DEF IInv, RibInterfaceInv
  <2>3. /\ ads[c] # <<>> => Len(Tail(ads[c])) < Len(ads[c])
        /\ ops[c] # <<>> => Len(Tail(ops[c])) < Len(ops[c])
    BY <2>1, TailIsShorter
  <2>4. PICK r \in Router :
          \/ New(r) \/ SetRib(r)
          \/ \E batch \in Batch : BeginUpdate(r, batch)
          \/ Goes(r)
          \/ TakeUpdates(r) \/ ClearRib(r)
          \/ PanicOnPoison(r)
    BY <1>1 DEF RibInterfaceNext
  <2>5. CASE r # c
    <3>1. /\ phase'[c] = phase[c] /\ ads'[c] = ads[c] /\ ops'[c] = ops[c]
      BY <2>1, <2>4, <2>5 DEF New, SetRib, BeginUpdate, Goes, Acquire, TakeLock, Skip, Operate,
         PanicWhenFull, Release, TakeUpdates, ClearRib, PanicOnPoison, Die, clientVars
    <3> QED BY <3>1
  <2>6. CASE r = c
    <3>1. CASE New(c) \/ SetRib(c) \/ (\E batch \in Batch : BeginUpdate(c, batch))
               \/ TakeUpdates(c) \/ ClearRib(c)
      BY <3>1 DEF New, SetRib, BeginUpdate, TakeUpdates, ClearRib
    <3>2. CASE PanicOnPoison(c) \/ PanicWhenFull(c)
      <4>1. phase'[c] = "dead"
        BY <2>1, <3>2 DEF PanicOnPoison, PanicWhenFull, Die
      <4> QED BY <4>1
    <3>3. CASE Acquire(c) \/ Skip(c)
      <4>1. ads'[c] = Tail(ads[c]) /\ ads[c] # <<>>
        BY <2>1, <2>2, <3>3 DEF Acquire, TakeLock, Skip
      <4> QED BY <2>3, <4>1 DEF LessToDo
    <3>4. CASE Operate(c)
      <4>1. ads'[c] = ads[c] /\ ops'[c] = Tail(ops[c]) /\ ops[c] # <<>>
        BY <2>1, <3>4 DEF Operate
      <4> QED BY <2>3, <4>1 DEF LessToDo
    <3>5. CASE Release(c)
      <4>1. /\ ads'[c] = ads[c] /\ ops'[c] = ops[c] /\ phase[c] = "locked"
            /\ phase'[c] \in {"idle", "waiting"}
        BY <2>1, <2>2, <3>5 DEF Release
      <4> QED BY <4>1 DEF LessToDo
    <3> QED BY <2>4, <2>6, <3>1, <3>2, <3>3, <3>4, <3>5 DEF Goes
  <2> QED BY <2>5, <2>6
<1>2. ASSUME UNCHANGED allVars, NEW c \in Router
      PROVE  kept(c)
  BY <1>2 DEF allVars, clientVars
<1>3. IInv /\ [RibInterfaceNext]_allVars
        => [\A c \in Router :
              phase[c] \in {"waiting", "locked"} =>
                \/ phase'[c] = phase[c] /\ ads'[c] = ads[c] /\ ops'[c] = ops[c]
                \/ phase'[c] = "dead"
                \/ LessToDo(c)]_allVars
  BY <1>1, <1>2
<1> QED BY <1>3, RibInterfaceSafety, PTL DEF RibInterfaceSpec, WorkOnlyShrinks
=============================================================================
