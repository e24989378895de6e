-------------------------- MODULE BgpNetworkProofs --------------------------
(***************************************************************************)
(* Proofs that routers announce only what they hold, in a network of any   *)
(* shape, whatever is lost on the way, and that their RIBs stay in order.  *)
(***************************************************************************)
EXTENDS BgpNetwork, RibTableProofs, SequenceTheorems

Told == { route \in Routes : route.hop \in Hop }
Insertion == [kind : {"insert"}, route : Told]
Removal == [kind : {"remove"}, route : Routes]

Shape ==
  /\ channel \in [Links -> Seq(Advertisements)]
  /\ session \in [Router -> Nat]
  /\ \A r \in Router : session[r] \in DOMAIN Sessions[r]
  /\ phase \in [Router -> {"receive", "update", "send"}]
  /\ incoming \in [Router -> Seq(Advertisements)]
  /\ received \in [Router -> Seq(Advertisements)]
  /\ todo \in [Router -> Seq(Insertion \cup Removal)]
  /\ DOMAIN table = Router
  /\ news \in [Router -> [new : Seq(Told), gone : Seq(Routes)]]
  /\ update \in [Router -> Advertisements]
  /\ withdrawn \subseteq Router

(* What is on a link says whom it is from: a router signs with its own     *)
(* address and gives no path; what comes from outside is what enters.      *)
Signed ==
  /\ \A r \in Router : update[r].peer = Address[r] /\ update[r].path = <<>>
  /\ \A link \in Links : \A ad \in ElementsOf(channel[link]) :
       \/ link[1] = Outside /\ ad \in Injected
       \/ link[1] \in Router /\ ad.peer = Address[link[1]] /\ ad.path = <<>>

Holding(s, route) == Holds(s, route.prefix, route.hop)
Claimed(s, ad) ==
  \A i \in DOMAIN ad.announcements :
    Holds(s, ad.announcements[i].prefix, ad.announcements[i].hop)

(* An advertisement comes from outside, or from a neighbour of its address *)
(* that holds what it announces.                                           *)
Sourced(ad, r) ==
  \/ <<Outside, r>> \in Links /\ ad \in Injected
  \/ /\ ad.path = <<>>
     /\ \E s \in Router : /\ <<s, r>> \in Links /\ ad.peer = Address[s]
                          /\ s \in withdrawn \/ Claimed(s, ad)

(* What router s has ready to tell, what is on its links, and what routers *)
(* have received, are about to apply and have applied.                     *)
ReadyIsHeld(s) ==
  /\ \A route \in ElementsOf(news[s].new) : Holding(s, route)
  /\ Claimed(s, update[s])
SentIsHeld(s) ==
  \A r \in Router : <<s, r>> \in Links =>
    \A ad \in ElementsOf(channel[<<s, r>>]) : Claimed(s, ad)
ReceivedIsSourced ==
  \A r \in Router : \A ad \in ElementsOf(incoming[r]) \cup ElementsOf(received[r]) :
    Sourced(ad, r)
AppliedIsSourced ==
  \A r \in Router :
    /\ \A op \in ElementsOf(todo[r]) : op.kind = "insert" => Accounted(op.route, r)
    /\ \A p \in DOMAIN table[r] : \A x \in table[r][p] : Accounted(x.route, r)

Held ==
  /\ \A s \in Router \ withdrawn : ReadyIsHeld(s) /\ SentIsHeld(s)
  /\ ReceivedIsSourced /\ AppliedIsSourced

Inv == Shape /\ Signed /\ Held

-----------------------------------------------------------------------------
(* Sequences as the sets of their elements.                                *)

LEMMA ElementsOfEmpty == ElementsOf(<<>>) = {}
BY DEF ElementsOf

LEMMA ElementsOfAppend ==
  ASSUME NEW T, NEW s \in Seq(T), NEW x \in T
  PROVE  /\ Append(s, x) \in Seq(T)
         /\ ElementsOf(Append(s, x)) = ElementsOf(s) \cup {x}
<1>1. /\ Len(Append(s, x)) = Len(s) + 1 /\ Append(s, x)[Len(s) + 1] = x
      /\ \A i \in 1 .. Len(s) : Append(s, x)[i] = s[i]
      /\ Len(s) \in Nat /\ DOMAIN s = 1 .. Len(s)
      /\ DOMAIN Append(s, x) = 1 .. Len(s) + 1
      /\ Append(s, x) \in Seq(T)
  OBVIOUS
<1>2. ElementsOf(Append(s, x)) \subseteq ElementsOf(s) \cup {x}
  BY <1>1 DEF ElementsOf
<1>3. ElementsOf(s) \cup {x} \subseteq ElementsOf(Append(s, x))
  BY <1>1 DEF ElementsOf
<1> QED BY <1>1, <1>2, <1>3

LEMMA ElementsOfTail ==
  ASSUME NEW T, NEW s \in Seq(T), s # <<>>
  PROVE  /\ Head(s) \in T /\ Head(s) \in ElementsOf(s)
         /\ Tail(s) \in Seq(T) /\ ElementsOf(Tail(s)) \subseteq ElementsOf(s)
<1>1. /\ Len(s) \in Nat /\ Len(s) > 0 /\ DOMAIN s = 1 .. Len(s) /\ Head(s) = s[1]
      /\ Head(s) \in T /\ Tail(s) \in Seq(T)
  OBVIOUS
<1>2. DOMAIN Tail(s) = 1 .. Len(s) - 1 /\ \A i \in 1 .. Len(s) - 1 : Tail(s)[i] = s[i + 1]
  BY <1>1
<1>3. ElementsOf(Tail(s)) \subseteq ElementsOf(s)
  BY <1>1, <1>2 DEF ElementsOf
<1> QED BY <1>1, <1>3 DEF ElementsOf

LEMMA ElementsOfConcat ==
  ASSUME NEW T, NEW s \in Seq(T), NEW t \in Seq(T)
  PROVE  s \o t \in Seq(T) /\ ElementsOf(s \o t) \subseteq ElementsOf(s) \cup ElementsOf(t)
<1>1. /\ s \o t \in Seq(T) /\ Len(s) \in Nat /\ Len(t) \in Nat
      /\ DOMAIN (s \o t) = 1 .. Len(s) + Len(t)
      /\ DOMAIN s = 1 .. Len(s) /\ DOMAIN t = 1 .. Len(t)
      /\ \A i \in 1 .. Len(s) + Len(t) :
           (s \o t)[i] = IF i <= Len(s) THEN s[i] ELSE t[i - Len(s)]
  OBVIOUS
<1>2. ASSUME NEW i \in 1 .. Len(s) + Len(t)
      PROVE  (s \o t)[i] \in ElementsOf(s) \cup ElementsOf(t)
  <2>1. CASE i <= Len(s) BY <1>1, <2>1 DEF ElementsOf
  <2>2. CASE ~ i <= Len(s)
    <3>1. i - Len(s) \in DOMAIN t BY <1>1, <2>2
    <3> QED BY <1>1, <2>2, <3>1 DEF ElementsOf
  <2> QED BY <2>1, <2>2
<1> QED BY <1>1, <1>2 DEF ElementsOf

-----------------------------------------------------------------------------
(* What the operations of a RIB do to its routes.                          *)

(* Insertion adds the route.                                               *)
LEMMA InsertAdds ==
  ASSUME NEW t, NEW route
  PROVE  /\ route.prefix \in DOMAIN TableInsert(t, Mask, route)
         /\ \E x \in TableInsert(t, Mask, route)[route.prefix] : x.route = route
<1> DEFINE e == EntryAt(t, route.prefix)
<1>1. \E x \in EntryInsert(e, Mask, route) : x.route = route
  <2>1. CASE \E x \in e : x.route = route
    <3>1. PICK x \in e : x.route = route BY <2>1
    <3>2. [x EXCEPT !.mask = @ \cup Mask] \in EntryInsert(e, Mask, route)
      BY <2>1, <3>1 DEF EntryInsert
    <3>3. [x EXCEPT !.mask = @ \cup Mask].route = route BY <3>1
    <3> QED BY <3>2, <3>3
  <2>2. CASE ~ \E x \in e : x.route = route
    <3> DEFINE n == [mask |-> Mask, route |-> route, pos |-> Cardinality(e) + 1]
    <3>1. EntryInsert(e, Mask, route) = e \cup {n} BY <2>2 DEF EntryInsert
    <3>2. n.route = route OBVIOUS
    <3> HIDE DEF n
    <3> QED BY <3>1, <3>2
  <2> QED BY <2>1, <2>2
<1> QED BY <1>1 DEF TableInsert

(* It takes none away.                                                     *)
LEMMA InsertKeeps ==
  ASSUME NEW t, NEW route, NEW p \in DOMAIN t, NEW x \in t[p]
  PROVE  /\ p \in DOMAIN TableInsert(t, Mask, route)
         /\ \E y \in TableInsert(t, Mask, route)[p] : y.route = x.route
<1>1. CASE p = route.prefix
  <2> DEFINE e == EntryAt(t, p)
  <2>1. x \in e BY DEF EntryAt
  <2>2. \E y \in EntryInsert(e, Mask, route) : y.route = x.route
    <3>1. CASE \E y \in e : y.route = route
      <4>1. (IF x.route = route THEN [x EXCEPT !.mask = @ \cup Mask] ELSE x)
               \in EntryInsert(e, Mask, route)
        BY <2>1, <3>1 DEF EntryInsert
      <4>2. [x EXCEPT !.mask = @ \cup Mask].route = x.route OBVIOUS
      <4> QED BY <4>1, <4>2
    <3>2. CASE ~ \E y \in e : y.route = route BY <2>1, <3>2 DEF EntryInsert
    <3> QED BY <3>1, <3>2
  <2> QED BY <1>1, <2>2 DEF TableInsert
<1>2. CASE p # route.prefix BY <1>2 DEF TableInsert
<1> QED BY <1>1, <1>2

(* Every route in the table afterwards was there, or is the one inserted.  *)
LEMMA InsertAddsOne ==
  ASSUME NEW t, NEW route, NEW p \in DOMAIN TableInsert(t, Mask, route),
         NEW x \in TableInsert(t, Mask, route)[p]
  PROVE  \/ p = route.prefix /\ x.route = route
         \/ p \in DOMAIN t /\ \E y \in t[p] : x.route = y.route
<1>1. CASE p = route.prefix
  <2> DEFINE e == EntryAt(t, p)
  <2>1. x \in EntryInsert(e, Mask, route) BY <1>1 DEF TableInsert
  <2>2. x.route = route \/ \E y \in e : x.route = y.route
    <3>1. ASSUME NEW y \in e PROVE [y EXCEPT !.mask = @ \cup Mask].route = y.route
      OBVIOUS
    <3> DEFINE n == [mask |-> Mask, route |-> route, pos |-> Cardinality(e) + 1]
    <3>2. \/ EntryInsert(e, Mask, route) = e \cup {n}
          \/ EntryInsert(e, Mask, route) =
               { IF y.route = route THEN [y EXCEPT !.mask = @ \cup Mask] ELSE y : y \in e }
      BY DEF EntryInsert
    <3>3. n.route = route OBVIOUS
    <3> HIDE DEF n, e
    <3> QED BY <2>1, <3>1, <3>2, <3>3
  <2> QED BY <1>1, <2>2 DEF EntryAt
<1>2. CASE p # route.prefix BY <1>2 DEF TableInsert
<1> QED BY <1>1, <1>2

(* Removal adds none.                                                      *)
LEMMA RemoveAddsNone ==
  ASSUME NEW t, NEW route, NEW p \in DOMAIN TableRemove(t, Mask, route),
         NEW x \in TableRemove(t, Mask, route)[p]
  PROVE  p \in DOMAIN t /\ \E y \in t[p] : x.route = y.route
<1> DEFINE e == EntryAt(t, route.prefix)
           f == EntryWithdraw(e, Mask, route)
           D == IF f = {} THEN DOMAIN t \ {route.prefix} ELSE DOMAIN t
<1>1. TableRemove(t, Mask, route) = [q \in D |-> IF q = route.prefix THEN f ELSE t[q]]
  BY DEF TableRemove
<1>2. p \in D /\ x \in (IF p = route.prefix THEN f ELSE t[p])
  BY <1>1
<1>3. p \in DOMAIN t
  BY <1>2
<1>4. CASE p = route.prefix
  <2>1. x \in f /\ e = t[p] BY <1>2, <1>3, <1>4 DEF EntryAt
  <2> DEFINE g == { Unmask(y, Mask, route) : y \in Retained(e, Mask, route) }
  <2>2. PICK y \in g : x = [y EXCEPT !.pos = Cardinality({ z \in g : z.pos <= y.pos })]
    BY <2>1 DEF EntryWithdraw, Reindex
  <2>3. x.route = y.route BY <2>2
  <2>4. PICK z \in e : y = Unmask(z, Mask, route) BY DEF Retained
  <2>5. y.route = z.route BY <2>4 DEF Unmask
  <2> QED BY <1>3, <2>1, <2>3, <2>5
<1>5. CASE p # route.prefix BY <1>2, <1>3, <1>5
<1> QED BY <1>4, <1>5

-----------------------------------------------------------------------------
(* What advertisements say.                                                *)

LEMMA FunctionIsSequence ==
  ASSUME NEW T, NEW n \in Nat, NEW f \in [1 .. n -> T]
  PROVE  f \in Seq(T)
BY SeqDef

LEMMA SequenceShape ==
  ASSUME NEW T, NEW s \in Seq(T)
  PROVE  Len(s) \in Nat /\ DOMAIN s = 1 .. Len(s) /\ \A i \in 1 .. Len(s) : s[i] \in T
OBVIOUS

LEMMA GeneratedAdvertisement ==
  ASSUME NEW r \in Router, NEW new \in Seq(Told), NEW gone \in Seq(Routes)
  PROVE  /\ Generate(r, new, gone) \in Advertisements
         /\ Generate(r, new, gone).peer = Address[r] /\ Generate(r, new, gone).path = <<>>
         /\ \A s \in Router : (\A route \in ElementsOf(new) : Holding(s, route))
              => Claimed(s, Generate(r, new, gone))
<1> DEFINE ann == [i \in DOMAIN new |-> [hop |-> new[i].hop, prefix |-> new[i].prefix]]
           wit == [i \in DOMAIN gone |-> gone[i].prefix]
<1>1. Generate(r, new, gone) =
        [peer |-> Address[r], path |-> <<>>, announcements |-> ann, withdrawals |-> wit]
  BY DEF Generate
<1>2. /\ Len(new) \in Nat /\ DOMAIN new = 1 .. Len(new) /\ \A i \in DOMAIN new : new[i] \in Told
      /\ Len(gone) \in Nat /\ DOMAIN gone = 1 .. Len(gone) /\ \A i \in DOMAIN gone : gone[i] \in Routes
  OBVIOUS
<1>3. ann \in [1 .. Len(new) -> [hop : Hop, prefix : Prefix]]
  BY <1>2 DEF Told, Routes
<1>4. wit \in [1 .. Len(gone) -> Prefix]
  BY <1>2 DEF Routes
<1>5. ann \in Seq([hop : Hop, prefix : Prefix]) /\ wit \in Seq(Prefix)
  BY <1>2, <1>3, <1>4, FunctionIsSequence
<1>6. Generate(r, new, gone) \in Advertisements
  BY <1>1, <1>5, NetworkAssumption DEF Advertisements, Announcements
<1>7. ASSUME NEW s \in Router, \A route \in ElementsOf(new) : Holding(s, route)
      PROVE  Claimed(s, Generate(r, new, gone))
  <2>1. ASSUME NEW i \in DOMAIN ann PROVE Holds(s, ann[i].prefix, ann[i].hop)
    BY <1>7 DEF Holding, ElementsOf
  <2> QED BY <1>1, <2>1 DEF Claimed
<1>8. Generate(r, new, gone).peer = Address[r] /\ Generate(r, new, gone).path = <<>>
  BY <1>1
<1> QED BY <1>6, <1>7, <1>8

LEMMA OperationsOfAdvertisement ==
  ASSUME NEW ad \in Advertisements
  PROVE  Operations(ad) \in Seq(Insertion \cup Removal)
<1> DEFINE ann == GetAnnouncements(ad)
           wit == GetWithdrawals(ad)
           ins == Op("insert", ann)
           rem == Op("remove", wit)
<1>1. /\ ad.peer \in Peer /\ ad.path \in Path
      /\ ad.announcements \in Seq([hop : Hop, prefix : Prefix]) /\ ad.withdrawals \in Seq(Prefix)
  BY DEF Advertisements, Announcements
<1> DEFINE m == Len(ad.announcements)
           n == Len(ad.withdrawals)
<1>2. /\ m \in Nat /\ DOMAIN ad.announcements = 1 .. m
      /\ \A i \in 1 .. m : ad.announcements[i] \in [hop : Hop, prefix : Prefix]
      /\ n \in Nat /\ DOMAIN ad.withdrawals = 1 .. n
      /\ \A i \in 1 .. n : ad.withdrawals[i] \in Prefix
  BY <1>1, SequenceShape
<1>3. ins = [i \in 1 .. m |-> [kind |-> "insert", route |->
        [peer |-> ad.peer, prefix |-> ad.announcements[i].prefix,
         hop |-> ad.announcements[i].hop, path |-> ad.path]]]
  BY <1>2 DEF Op, GetAnnouncements
<1>4. rem = [i \in 1 .. n |-> [kind |-> "remove", route |->
        [peer |-> ad.peer, prefix |-> ad.withdrawals[i], hop |-> NoHop, path |-> ad.path]]]
  BY <1>2 DEF Op, GetWithdrawals
<1>5. ins \in [1 .. m -> Insertion]
  BY <1>1, <1>2, <1>3 DEF Insertion, Told, Routes
<1>6. rem \in [1 .. n -> Removal]
  BY <1>1, <1>2, <1>4 DEF Removal, Routes
<1>7. ins \in Seq(Insertion \cup Removal) /\ rem \in Seq(Insertion \cup Removal)
  <2>1. ins \in [1 .. m -> Insertion \cup Removal] /\ rem \in [1 .. n -> Insertion \cup Removal]
    BY <1>5, <1>6
  <2> QED BY <1>2, <2>1, FunctionIsSequence
<1> HIDE DEF ins, rem
<1> QED BY <1>7, ElementsOfConcat DEF Operations, ins, rem

(* The inserts of an advertisement are its announcements.                  *)
LEMMA InsertsAreAnnounced ==
  ASSUME NEW ad \in Advertisements, NEW op \in ElementsOf(Operations(ad)), op.kind = "insert"
  PROVE  \E i \in DOMAIN ad.announcements : op.route = GetAnnouncements(ad)[i]
<1> DEFINE ins == Op("insert", GetAnnouncements(ad))
           rem == Op("remove", GetWithdrawals(ad))
           m == Len(ad.announcements)
           n == Len(ad.withdrawals)
           O == [kind : {"insert", "remove"}, route : { GetAnnouncements(ad)[i] : i \in 1 .. m }
                                                   \cup { GetWithdrawals(ad)[i] : i \in 1 .. n }]
<1>1. m \in Nat /\ DOMAIN ad.announcements = 1 .. m /\ n \in Nat /\ DOMAIN ad.withdrawals = 1 .. n
  BY SequenceShape DEF Advertisements, Announcements
<1>2. /\ ins = [i \in 1 .. m |-> [kind |-> "insert", route |-> GetAnnouncements(ad)[i]]]
      /\ rem = [i \in 1 .. n |-> [kind |-> "remove", route |-> GetWithdrawals(ad)[i]]]
  BY <1>1 DEF Op, GetAnnouncements, GetWithdrawals
<1>3. ins \in [1 .. m -> O] /\ rem \in [1 .. n -> O]
  BY <1>2
<1>4. ins \in Seq(O) /\ rem \in Seq(O)
  BY <1>1, <1>3, FunctionIsSequence
<1>5. op \in ElementsOf(ins) \cup ElementsOf(rem)
  BY <1>4, ElementsOfConcat DEF Operations
<1>6. ASSUME NEW i \in 1 .. n
      PROVE  op # rem[i]
  BY <1>2
<1>7. op \notin ElementsOf(rem)
  BY <1>2, <1>6 DEF ElementsOf
<1>8. PICK i \in 1 .. m : op = ins[i]
  BY <1>2, <1>5, <1>7 DEF ElementsOf
<1> QED BY <1>1, <1>2, <1>8

(* What a sourced advertisement announces is accounted for.               *)
LEMMA SourcedIsAccounted ==
  ASSUME NEW r \in Router, NEW ad \in Advertisements, Sourced(ad, r),
         NEW i \in DOMAIN ad.announcements
  PROVE  Accounted(GetAnnouncements(ad)[i], r)
<1> DEFINE route == GetAnnouncements(ad)[i]
<1>1. /\ route = [peer |-> ad.peer, prefix |-> ad.announcements[i].prefix,
                  hop |-> ad.announcements[i].hop, path |-> ad.path]
      /\ route \in ElementsOf(GetAnnouncements(ad))
  BY DEF GetAnnouncements, ElementsOf
<1> HIDE DEF route
<1>2. CASE <<Outside, r>> \in Links /\ ad \in Injected
  BY <1>1, <1>2 DEF Accounted, FromOutside, route
<1>3. CASE /\ ad.path = <<>>
           /\ \E s \in Router : /\ <<s, r>> \in Links /\ ad.peer = Address[s]
                                /\ s \in withdrawn \/ Claimed(s, ad)
  <2>1. PICK s \in Router : /\ <<s, r>> \in Links /\ ad.peer = Address[s]
                            /\ s \in withdrawn \/ Claimed(s, ad)
    BY <1>3
  <2>2. route.path = <<>> /\ route.peer = Address[s]
    BY <1>1, <1>3, <2>1
  <2>3. s \in withdrawn \/ Holds(s, route.prefix, route.hop)
    BY <1>1, <2>1 DEF Claimed
  <2> QED BY <2>1, <2>2, <2>3 DEF Accounted, FromNeighbour, route
<1> QED BY <1>2, <1>3 DEF Sourced

-----------------------------------------------------------------------------
LEMMA SessionsOfRouter ==
  ASSUME NEW r \in Router
  PROVE  /\ Len(Sessions[r]) \in Nat /\ DOMAIN Sessions[r] = 1 .. Len(Sessions[r])
         /\ 1 \in DOMAIN Sessions[r]
         /\ \A i \in DOMAIN Sessions[r] : Sessions[r][i] \in Router \cup {Outside}
<1>1. Sessions[r] \in Seq((Router \cup {Outside}) \ {r}) /\ Sessions[r] # <<>>
  BY NetworkAssumption
<1>2. ASSUME NEW T, NEW s \in Seq(T), s # <<>> PROVE 1 \in DOMAIN s
  BY <1>2, EmptySeq, SequenceShape
<1> QED BY <1>1, <1>2, SequenceShape

LEMMA InitHasInv == Init => Inv
<1> SUFFICES ASSUME Init PROVE Inv
  OBVIOUS
<1>1. /\ \A r \in Router : /\ Empty(r) \in Advertisements
                           /\ Empty(r).peer = Address[r] /\ Empty(r).path = <<>>
      /\ \A r \in Router : Claimed(r, Empty(r))
  <2>1. <<>> \in Seq(Told) /\ <<>> \in Seq(Routes) OBVIOUS
  <2> QED BY <2>1, GeneratedAdvertisement, ElementsOfEmpty DEF Empty
<1>2. \A r \in Router : 1 \in DOMAIN Sessions[r]
  BY SessionsOfRouter
<1>3. Shape
  BY <1>1, <1>2 DEF Init, Shape, NoNews
<1>4. Signed
  BY <1>1, ElementsOfEmpty DEF Init, Signed
<1>5. \A r \in Router : DOMAIN table[r] = {}
  BY DEF Init, EmptyTable
<1>6. \A s \in Router : ReadyIsHeld(s) /\ SentIsHeld(s)
  BY <1>1, ElementsOfEmpty DEF Init, ReadyIsHeld, SentIsHeld, NoNews
<1>7. ReceivedIsSourced /\ AppliedIsSourced
  BY <1>5, ElementsOfEmpty DEF Init, ReceivedIsSourced, AppliedIsSourced
<1> QED BY <1>3, <1>4, <1>6, <1>7 DEF Inv, Held

(* The links a router sends and receives on.                               *)
LEMMA LinksOfNeighbour ==
  ASSUME Shape, NEW r \in Router
  PROVE  <<Neighbour(r), r>> \in Links /\ <<r, Neighbour(r)>> \in Links
<1>1. session[r] \in DOMAIN Sessions[r] /\ Neighbour(r) \in Router \cup {Outside}
  BY SessionsOfRouter DEF Shape, Neighbour
<1>2. Adjacent(Neighbour(r), r)
  BY <1>1 DEF Adjacent, Neighbour
<1> QED BY <1>1, <1>2 DEF Links

(* A message sent is the last on its link, or lost.                        *)
LEMMA SentOrLost ==
  ASSUME Shape, NEW link \in Links, NEW ad \in Advertisements, TrySend(link, ad)
  PROVE  /\ channel' \in [Links -> Seq(Advertisements)]
         /\ \A l \in Links : ElementsOf(channel'[l]) \subseteq
              ElementsOf(channel[l]) \cup (IF l = link THEN {ad} ELSE {})
<1>1. CASE Len(channel[link]) < Bound
  <2>1. channel' = [channel EXCEPT ![link] = Append(@, ad)] BY <1>1 DEF TrySend
  <2>2. /\ Append(channel[link], ad) \in Seq(Advertisements)
        /\ ElementsOf(Append(channel[link], ad)) = ElementsOf(channel[link]) \cup {ad}
    BY ElementsOfAppend DEF Shape
  <2> QED BY <2>1, <2>2 DEF Shape
<1>2. CASE ~ Len(channel[link]) < Bound BY <1>2 DEF TrySend, Shape
<1> QED BY <1>1, <1>2

(* After the last session, a router is at its first again.                 *)
LEMMA SessionAdvances ==
  ASSUME Shape, NEW r \in Router, NEW next \in {"receive", "update", "send"}, Advance(r, next)
  PROVE  /\ session' \in [Router -> Nat] /\ \A q \in Router : session'[q] \in DOMAIN Sessions[q]
         /\ phase' \in [Router -> {"receive", "update", "send"}]
<1>1. /\ session[r] \in Nat /\ Len(Sessions[r]) \in Nat /\ DOMAIN Sessions[r] = 1 .. Len(Sessions[r])
      /\ 1 \in DOMAIN Sessions[r] /\ session[r] \in DOMAIN Sessions[r]
  BY SessionsOfRouter DEF Shape
<1>2. CASE session[r] < Len(Sessions[r])
  <2>1. session' = [session EXCEPT ![r] = @ + 1] /\ phase' = phase BY <1>2 DEF Advance
  <2>2. session[r] + 1 \in DOMAIN Sessions[r] BY <1>1, <1>2
  <2> QED BY <1>1, <2>1, <2>2 DEF Shape
<1>3. CASE ~ session[r] < Len(Sessions[r])
  <2>1. session' = [session EXCEPT ![r] = 1] /\ phase' = [phase EXCEPT ![r] = next]
    BY <1>3 DEF Advance
  <2> QED BY <1>1, <2>1 DEF Shape
<1> QED BY <1>2, <1>3

-----------------------------------------------------------------------------
(* What lasts.                                                             *)

(* A router that removes nothing keeps what it holds.                      *)
LEMMA HoldsLast ==
  ASSUME Inv, [Next]_vars
  PROVE  /\ withdrawn \subseteq withdrawn'
         /\ \A s \in Router \ withdrawn' : \A p, hop : Holds(s, p, hop) => Holds(s, p, hop)'
<1>1. DOMAIN table = Router
  BY DEF Inv, Shape
<1>2. CASE UNCHANGED <<table, withdrawn>>
  BY <1>2 DEF Holds
<1>3. ASSUME NEW r \in Router, Insert(r)
      PROVE  /\ withdrawn \subseteq withdrawn'
             /\ \A s \in Router : \A p, hop : Holds(s, p, hop) => Holds(s, p, hop)'
  <2> DEFINE route == Head(todo[r]).route
  <2>1. table' = [table EXCEPT ![r] = TableInsert(@, Mask, route)] /\ UNCHANGED withdrawn
    BY <1>3 DEF Insert
  <2> HIDE DEF route
  <2>2. \A q \in Router : table'[q] = IF q = r THEN TableInsert(table[r], Mask, route) ELSE table[q]
    BY <1>1, <2>1
  <2>3. ASSUME NEW s \in Router, NEW p, NEW hop, Holds(s, p, hop)
        PROVE  Holds(s, p, hop)'
    <3>1. PICK x \in table[s][p] : p \in DOMAIN table[s] /\ x.route.hop = hop
      BY <2>3 DEF Holds
    <3>2. CASE s = r
      <4>1. /\ p \in DOMAIN TableInsert(table[r], Mask, route)
            /\ \E y \in TableInsert(table[r], Mask, route)[p] : y.route = x.route
        BY <3>1, <3>2, InsertKeeps
      <4> QED BY <2>2, <3>1, <3>2, <4>1 DEF Holds
    <3>3. CASE s # r
      BY <2>2, <3>1, <3>3 DEF Holds
    <3> QED BY <3>2, <3>3
  <2> QED BY <2>1, <2>3
<1>4. ASSUME NEW r \in Router, Remove(r)
      PROVE  /\ withdrawn \subseteq withdrawn'
             /\ \A s \in Router \ withdrawn' : \A p, hop : Holds(s, p, hop) => Holds(s, p, hop)'
  <2>1. /\ table' = [table EXCEPT ![r] = TableRemove(@, Mask, Head(todo[r]).route)]
        /\ withdrawn' = withdrawn \cup {r}
    BY <1>4 DEF Remove
  <2>2. \A q \in Router \ {r} : table'[q] = table[q]
    BY <1>1, <2>1
  <2> QED BY <2>1, <2>2 DEF Holds
<1>5. CASE Next
  <2>1. \/ UNCHANGED <<table, withdrawn>>
        \/ \E r \in Router : Insert(r) \/ Remove(r)
    BY <1>5 DEF Next, Work, Inject, ReceiveNext, EndReceive, TakeAdvertisement,
       SkipAdvertisement, EndUpdate, Send
  <2> QED BY <1>2, <1>3, <1>4, <2>1
<1> QED BY <1>2, <1>5 DEF vars

(* So what is accounted for stays so.                                      *)
LEMMA AccountsLast ==
  ASSUME Inv, [Next]_vars
  PROVE  /\ \A s \in Router \ withdrawn' :
              /\ s \notin withdrawn
              /\ \A route : Holding(s, route) => Holding(s, route)'
              /\ \A ad : Claimed(s, ad) => Claimed(s, ad)'
         /\ \A r \in Router :
              /\ \A route : Accounted(route, r) => Accounted(route, r)'
              /\ \A ad : Sourced(ad, r) => Sourced(ad, r)'
<1>1. /\ withdrawn \subseteq withdrawn'
      /\ \A s \in Router \ withdrawn' : \A p, hop : Holds(s, p, hop) => Holds(s, p, hop)'
  BY HoldsLast
<1>2. ASSUME NEW s \in Router \ withdrawn'
      PROVE  /\ s \notin withdrawn
             /\ \A route : Holding(s, route) => Holding(s, route)'
             /\ \A ad : Claimed(s, ad) => Claimed(s, ad)'
  BY <1>1 DEF Holding, Claimed
<1>3. ASSUME NEW r \in Router, NEW route, Accounted(route, r)
      PROVE  Accounted(route, r)'
  <2>1. CASE FromOutside(route, r)
    BY <2>1 DEF Accounted, FromOutside
  <2>2. CASE FromNeighbour(route, r)
    <3>1. PICK s \in Router : /\ <<s, r>> \in Links /\ route.peer = Address[s]
                              /\ s \in withdrawn \/ Holds(s, route.prefix, route.hop)
      BY <2>2 DEF FromNeighbour
    <3>2. s \in withdrawn' \/ Holds(s, route.prefix, route.hop)'
      BY <1>1, <3>1
    <3> QED BY <2>2, <3>1, <3>2 DEF Accounted, FromNeighbour
  <2> QED BY <1>3, <2>1, <2>2 DEF Accounted
<1>4. ASSUME NEW r \in Router, NEW ad, Sourced(ad, r)
      PROVE  Sourced(ad, r)'
  <2>1. CASE <<Outside, r>> \in Links /\ ad \in Injected
    BY <2>1 DEF Sourced
  <2>2. CASE /\ ad.path = <<>>
             /\ \E s \in Router : /\ <<s, r>> \in Links /\ ad.peer = Address[s]
                                  /\ s \in withdrawn \/ Claimed(s, ad)
    <3>1. PICK s \in Router : /\ <<s, r>> \in Links /\ ad.peer = Address[s]
                              /\ s \in withdrawn \/ Claimed(s, ad)
      BY <2>2
    <3>2. s \in withdrawn' \/ Claimed(s, ad)'
      BY <1>1, <1>2, <3>1
    <3> QED BY <2>2, <3>1, <3>2 DEF Sourced
  <2> QED BY <1>4, <2>1, <2>2 DEF Sourced
<1> QED BY <1>2, <1>3, <1>4

(* A step that moves advertisements and routes on from where they are      *)
(* accounted for, and adds what is held.                                   *)
MovesOn ==
  /\ \A s \in Router : \A route \in ElementsOf(news'[s].new) :
       route \in ElementsOf(news[s].new) \/ Holding(s, route)'
  /\ \A s \in Router \ withdrawn : update'[s] = update[s] \/ Claimed(s, update'[s])
  /\ \A s, r \in Router : <<s, r>> \in Links =>
       \A ad \in ElementsOf(channel'[<<s, r>>]) :
         ad \in ElementsOf(channel[<<s, r>>]) \/ ad = update[s]
  /\ \A r \in Router : \A ad \in ElementsOf(incoming'[r]) \cup ElementsOf(received'[r]) :
       ad \in ElementsOf(incoming[r]) \cup ElementsOf(received[r]) \/ Sourced(ad, r)
  /\ \A r \in Router : \A op \in ElementsOf(todo'[r]) : op.kind = "insert" =>
       op \in ElementsOf(todo[r]) \/ Accounted(op.route, r)
  /\ \A r \in Router : \A p \in DOMAIN table'[r] : \A x \in table'[r][p] :
       \/ p \in DOMAIN table[r] /\ \E y \in table[r][p] : x.route = y.route
       \/ Accounted(x.route, r)

LEMMA MovesKeepHeld ==
  ASSUME Inv, [Next]_vars, MovesOn
  PROVE  Held'
<1>1. /\ \A s \in Router \ withdrawn' :
           /\ s \notin withdrawn
           /\ \A route : Holding(s, route) => Holding(s, route)'
           /\ \A ad : Claimed(s, ad) => Claimed(s, ad)'
      /\ \A r \in Router :
           /\ \A route : Accounted(route, r) => Accounted(route, r)'
           /\ \A ad : Sourced(ad, r) => Sourced(ad, r)'
  BY AccountsLast
<1>2. ASSUME NEW s \in Router \ withdrawn'
      PROVE  ReadyIsHeld(s)' /\ SentIsHeld(s)'
  <2>1. s \in Router \ withdrawn /\ ReadyIsHeld(s) /\ SentIsHeld(s)
    BY <1>1 DEF Inv, Held
  <2>2. \A route \in ElementsOf(news'[s].new) : Holding(s, route)'
    BY <1>1, <2>1 DEF MovesOn, ReadyIsHeld
  <2>3. \A ad : ad = update'[s] => Claimed(s, ad)'
    BY <1>1, <2>1 DEF MovesOn, ReadyIsHeld
  <2>4. ReadyIsHeld(s)'
    BY <2>2, <2>3 DEF ReadyIsHeld, ElementsOf, Claimed
  <2>5. ASSUME NEW r \in Router, <<s, r>> \in Links, NEW ad \in ElementsOf(channel'[<<s, r>>])
        PROVE  Claimed(s, ad)'
    <3>1. Claimed(s, ad)
      BY <2>1, <2>5 DEF MovesOn, SentIsHeld, ReadyIsHeld
    <3> QED BY <1>1, <3>1
  <2>6. SentIsHeld(s)'
    BY <2>5 DEF SentIsHeld, ElementsOf, Claimed
  <2> QED BY <2>4, <2>6
<1>3. ReceivedIsSourced'
  <2>1. ASSUME NEW r \in Router, NEW ad \in ElementsOf(incoming'[r]) \cup ElementsOf(received'[r])
        PROVE  Sourced(ad, r)'
    <3>1. Sourced(ad, r)
      BY <2>1 DEF Inv, Held, ReceivedIsSourced, MovesOn
    <3> QED BY <1>1, <3>1
  <2> QED BY <2>1 DEF ReceivedIsSourced, ElementsOf
<1>4. AppliedIsSourced'
  <2>1. ASSUME NEW r \in Router, NEW op \in ElementsOf(todo'[r]), op.kind = "insert"
        PROVE  Accounted(op.route, r)'
    <3>1. Accounted(op.route, r)
      BY <2>1 DEF Inv, Held, AppliedIsSourced, MovesOn
    <3> QED BY <1>1, <3>1
  <2>2. ASSUME NEW r \in Router, NEW p \in DOMAIN table'[r], NEW x \in table'[r][p]
        PROVE  Accounted(x.route, r)'
    <3>1. Accounted(x.route, r)
      BY <2>2 DEF Inv, Held, AppliedIsSourced, MovesOn
    <3> QED BY <1>1, <3>1
  <2> QED BY <2>1, <2>2 DEF AppliedIsSourced, ElementsOf
<1> QED BY <1>2, <1>3, <1>4 DEF Held

-----------------------------------------------------------------------------
(* The steps, for each of the three parts of the invariant.                *)

LEMMA InjectKeeps ==
  ASSUME Inv, NEW r \in Router, NEW ad \in Injected, Inject(r, ad)
  PROVE  Inv'
<1>1. ad \in Advertisements /\ Outside \notin Router
  BY NetworkAssumption
<1>2. /\ <<Outside, r>> \in Links /\ TrySend(<<Outside, r>>, ad)
      /\ UNCHANGED <<session, phase, incoming, received, todo, table, news, update, withdrawn>>
  BY DEF Inject
<1>3. /\ channel' \in [Links -> Seq(Advertisements)]
      /\ \A l \in Links : ElementsOf(channel'[l]) \subseteq
           ElementsOf(channel[l]) \cup (IF l = <<Outside, r>> THEN {ad} ELSE {})
  BY <1>1, <1>2, SentOrLost DEF Inv
<1>4. Shape' BY <1>2, <1>3 DEF Inv, Shape
<1>5. Signed'
  <2>1. ASSUME NEW l \in Links, NEW x \in ElementsOf(channel'[l])
        PROVE  \/ l[1] = Outside /\ x \in Injected
               \/ l[1] \in Router /\ x.peer = Address[l[1]] /\ x.path = <<>>
    <3>1. x \in ElementsOf(channel[l]) \/ (l = <<Outside, r>> /\ x = ad)
      BY <1>3, <2>1
    <3> QED BY <3>1 DEF Inv, Signed
  <2> QED BY <1>2, <2>1 DEF Inv, Signed, ElementsOf
<1>6. MovesOn
  <2>1. \A s, q \in Router : <<s, q>> \in Links =>
          ElementsOf(channel'[<<s, q>>]) \subseteq ElementsOf(channel[<<s, q>>])
    BY <1>1, <1>3
  <2> QED BY <1>2, <2>1 DEF MovesOn
<1>7. [Next]_vars
  BY DEF Next
<1> QED BY <1>4, <1>5, <1>6, <1>7, MovesKeepHeld DEF Inv

(* Collecting moves advertisements from one buffer to the other.           *)
LEMMA CollectKeeps ==
  ASSUME Inv, [Next]_vars, NEW r \in Router, Collect(r),
         channel' \in [Links -> Seq(Advertisements)],
         \A l \in Links : ElementsOf(channel'[l]) \subseteq ElementsOf(channel[l]),
         UNCHANGED <<todo, table, news, update, withdrawn>>
  PROVE  Inv'
<1>1. /\ received' = [received EXCEPT ![r] = @ \o incoming[r]]
      /\ incoming' = [incoming EXCEPT ![r] = <<>>] /\ Advance(r, "update")
  BY DEF Collect
<1>2. /\ received[r] \o incoming[r] \in Seq(Advertisements)
      /\ ElementsOf(received[r] \o incoming[r]) \subseteq ElementsOf(received[r]) \cup ElementsOf(incoming[r])
  BY ElementsOfConcat DEF Inv, Shape
<1>3. /\ session' \in [Router -> Nat] /\ \A q \in Router : session'[q] \in DOMAIN Sessions[q]
      /\ phase' \in [Router -> {"receive", "update", "send"}]
  BY <1>1, SessionAdvances DEF Inv
<1>4. received' \in [Router -> Seq(Advertisements)] /\ incoming' \in [Router -> Seq(Advertisements)]
  BY <1>1, <1>2 DEF Inv, Shape
<1>5. Shape' BY <1>3, <1>4 DEF Inv, Shape
<1>6. Signed' BY DEF Inv, Signed
<1>7. \A q \in Router : ElementsOf(incoming'[q]) \cup ElementsOf(received'[q])
                            \subseteq ElementsOf(incoming[q]) \cup ElementsOf(received[q])
  BY <1>1, <1>2, ElementsOfEmpty DEF Inv, Shape
<1>8. MovesOn
  BY <1>7 DEF MovesOn
<1> QED BY <1>5, <1>6, <1>8, MovesKeepHeld DEF Inv

(* What comes off a link is sourced: the link says whom it is from.        *)
LEMMA LinkIsSource ==
  ASSUME Inv, NEW s, NEW r \in Router, <<s, r>> \in Links,
         NEW ad \in ElementsOf(channel[<<s, r>>])
  PROVE  Sourced(ad, r)
<1>1. \/ s = Outside /\ ad \in Injected
      \/ s \in Router /\ ad.peer = Address[s] /\ ad.path = <<>>
  BY DEF Inv, Signed
<1>2. s \in Router \ withdrawn => Claimed(s, ad)
  BY DEF Inv, Held, SentIsHeld
<1> QED BY <1>1, <1>2 DEF Sourced

LEMMA ReceiveKeeps ==
  ASSUME Inv, NEW r \in Router, ReceiveNext(r)
  PROVE  Inv'
<1> DEFINE link == <<Neighbour(r), r>>
           ad == Head(channel[link])
<1>1. /\ link \in Links /\ channel[link] # <<>> /\ channel' = [channel EXCEPT ![link] = Tail(@)]
      /\ UNCHANGED <<todo, table, news, update, injected, withdrawn>>
      /\ [Next]_vars
  BY LinksOfNeighbour DEF Inv, ReceiveNext, Next, Work
<1>2. /\ ad \in Advertisements /\ ad \in ElementsOf(channel[link])
      /\ Tail(channel[link]) \in Seq(Advertisements)
      /\ ElementsOf(Tail(channel[link])) \subseteq ElementsOf(channel[link])
  BY <1>1, ElementsOfTail DEF Inv, Shape
<1>3. Sourced(ad, r)
  BY <1>1, <1>2, LinkIsSource
<1> HIDE DEF link
<1>4. /\ channel' \in [Links -> Seq(Advertisements)]
      /\ \A l \in Links : ElementsOf(channel'[l]) \subseteq ElementsOf(channel[l])
  BY <1>1, <1>2 DEF Inv, Shape
<1>5. CASE Collect(r) BY <1>1, <1>4, <1>5, CollectKeeps
<1>6. CASE /\ incoming' = [incoming EXCEPT ![r] = Append(@, ad)]
           /\ UNCHANGED <<session, phase, received>>
  <2>1. /\ Append(incoming[r], ad) \in Seq(Advertisements)
        /\ ElementsOf(Append(incoming[r], ad)) = ElementsOf(incoming[r]) \cup {ad}
    BY <1>2, ElementsOfAppend DEF Inv, Shape
  <2>2. incoming' \in [Router -> Seq(Advertisements)]
    BY <1>6, <2>1 DEF Inv, Shape
  <2>3. Shape' BY <1>1, <1>4, <1>6, <2>2 DEF Inv, Shape
  <2>4. Signed' BY <1>1, <1>4 DEF Inv, Signed
  <2>5. \A q \in Router : ElementsOf(incoming'[q]) \subseteq ElementsOf(incoming[q]) \cup (IF q = r THEN {ad} ELSE {})
    BY <1>6, <2>1 DEF Inv, Shape
  <2> HIDE DEF ad
  <2>6. MovesOn
    BY <1>1, <1>3, <1>4, <1>6, <2>5 DEF MovesOn
  <2> QED BY <1>1, <2>3, <2>4, <2>6, MovesKeepHeld DEF Inv
<1> QED BY <1>5, <1>6 DEF ReceiveNext, link

LEMMA EndReceiveKeeps ==
  ASSUME Inv, NEW r \in Router, EndReceive(r)
  PROVE  Inv'
<1>1. /\ Collect(r) /\ UNCHANGED <<channel, todo, table, news, update, injected, withdrawn>>
      /\ [Next]_vars
  BY DEF EndReceive, Next, Work
<1>2. channel' \in [Links -> Seq(Advertisements)]
  BY <1>1 DEF Inv, Shape
<1> QED BY <1>1, <1>2, CollectKeeps

LEMMA TakeKeeps ==
  ASSUME Inv, NEW r \in Router, TakeAdvertisement(r) \/ SkipAdvertisement(r)
  PROVE  Inv'
<1> DEFINE ad == Head(received[r])
<1>1. /\ received[r] # <<>> /\ received' = [received EXCEPT ![r] = Tail(@)]
      /\ UNCHANGED todo \/ todo' = [todo EXCEPT ![r] = Operations(ad)]
      /\ UNCHANGED <<channel, session, phase, incoming, table, news, update, injected, withdrawn>>
      /\ [Next]_vars
  BY DEF TakeAdvertisement, SkipAdvertisement, Next, Work
<1>2. /\ ad \in Advertisements /\ ad \in ElementsOf(received[r])
      /\ Tail(received[r]) \in Seq(Advertisements)
      /\ ElementsOf(Tail(received[r])) \subseteq ElementsOf(received[r])
  BY <1>1, ElementsOfTail DEF Inv, Shape
<1>3. Operations(ad) \in Seq(Insertion \cup Removal)
  BY <1>2, OperationsOfAdvertisement
<1>4. \A op \in ElementsOf(Operations(ad)) : op.kind = "insert" => Accounted(op.route, r)
  <2>1. ASSUME NEW op \in ElementsOf(Operations(ad)), op.kind = "insert"
        PROVE  Accounted(op.route, r)
    <3>1. PICK i \in DOMAIN ad.announcements : op.route = GetAnnouncements(ad)[i]
      BY <1>2, <2>1, InsertsAreAnnounced
    <3>2. Sourced(ad, r)
      BY <1>2 DEF Inv, Held, ReceivedIsSourced
    <3> QED BY <1>2, <3>1, <3>2, SourcedIsAccounted
  <2> QED BY <2>1
<1> HIDE DEF ad
<1>5. /\ todo' \in [Router -> Seq(Insertion \cup Removal)]
      /\ received' \in [Router -> Seq(Advertisements)]
      /\ \A q \in Router : /\ todo'[q] = todo[q] \/ (q = r /\ todo'[q] = Operations(ad))
                           /\ ElementsOf(received'[q]) \subseteq ElementsOf(received[q])
  <2> DEFINE Ops == Seq(Insertion \cup Removal)
             Ads == Seq(Advertisements)
  <2>1. todo \in [Router -> Ops] /\ received \in [Router -> Ads]
    BY DEF Inv, Shape
  <2>2. Operations(ad) \in Ops /\ Tail(received[r]) \in Ads
    BY <1>2, <1>3
  <2> HIDE DEF Ops, Ads
  <2>3. todo' \in [Router -> Ops]
        /\ \A q \in Router : todo'[q] = todo[q] \/ (q = r /\ todo'[q] = Operations(ad))
    BY <1>1, <2>1, <2>2
  <2>4. received' \in [Router -> Ads]
        /\ \A q \in Router : received'[q] = received[q]
                           \/ (q = r /\ received'[q] = Tail(received[r]))
    BY <1>1, <2>1, <2>2
  <2>5. \A q \in Router : ElementsOf(received'[q]) \subseteq ElementsOf(received[q])
    BY <1>2, <2>4
  <2> QED BY <2>3, <2>4, <2>5 DEF Ops, Ads
<1>6. Shape' BY <1>1, <1>5 DEF Inv, Shape
<1>7. Signed' BY <1>1 DEF Inv, Signed
<1>8. MovesOn
  BY <1>1, <1>4, <1>5 DEF MovesOn
<1> QED BY <1>1, <1>6, <1>7, <1>8, MovesKeepHeld DEF Inv

LEMMA NewBestIsTheRoute ==
  ASSUME NEW t, NEW route \in Told, NEW new \in Seq(Told)
  PROVE  /\ Extend(new, NewBest(t, route)) \in Seq(Told)
         /\ ElementsOf(Extend(new, NewBest(t, route))) \subseteq ElementsOf(new) \cup {route}
<1>1. NewBest(t, route) = {} \/ NewBest(t, route) = {route}
  BY DEF NewBest
<1>2. CASE NewBest(t, route) = {} BY <1>2 DEF Extend
<1>3. CASE NewBest(t, route) = {route}
  <2>1. (CHOOSE x \in {route} : TRUE) = route OBVIOUS
  <2>2. Extend(new, NewBest(t, route)) = Append(new, route) BY <1>3, <2>1 DEF Extend
  <2> QED BY <2>2, ElementsOfAppend
<1> QED BY <1>1, <1>2, <1>3

LEMMA InsertStepKeeps ==
  ASSUME Inv, NEW r \in Router, Insert(r)
  PROVE  Inv'
<1> DEFINE op == Head(todo[r])
           route == op.route
<1>1. /\ todo[r] # <<>> /\ op.kind = "insert"
      /\ table' = [table EXCEPT ![r] = TableInsert(@, Mask, route)]
      /\ news' = [news EXCEPT ![r].new = Extend(@, NewBest(table[r], route))]
      /\ todo' = [todo EXCEPT ![r] = Tail(@)]
      /\ UNCHANGED <<channel, session, phase, incoming, received, update, injected, withdrawn>>
  BY DEF Insert
<1>2. /\ op \in Insertion \cup Removal /\ op \in ElementsOf(todo[r])
      /\ Tail(todo[r]) \in Seq(Insertion \cup Removal)
      /\ ElementsOf(Tail(todo[r])) \subseteq ElementsOf(todo[r])
  BY <1>1, ElementsOfTail DEF Inv, Shape
<1>3. route \in Told
  BY <1>1, <1>2 DEF Insertion, Removal
<1> HIDE DEF op
<1>4. /\ Extend(news[r].new, NewBest(table[r], route)) \in Seq(Told)
      /\ ElementsOf(Extend(news[r].new, NewBest(table[r], route))) \subseteq ElementsOf(news[r].new) \cup {route}
  BY <1>3, NewBestIsTheRoute DEF Inv, Shape
<1>5. /\ news' \in [Router -> [new : Seq(Told), gone : Seq(Routes)]]
      /\ \A s \in Router : ElementsOf(news'[s].new)
           \subseteq ElementsOf(news[s].new) \cup (IF s = r THEN {route} ELSE {})
  <2> DEFINE more == Extend(news[r].new, NewBest(table[r], route))
  <2>1. news' = [news EXCEPT ![r] = [news[r] EXCEPT !.new = more]]
    BY <1>1
  <2>2. more \in Seq(Told) /\ ElementsOf(more) \subseteq ElementsOf(news[r].new) \cup {route}
    BY <1>4
  <2> HIDE DEF more
  <2>3. /\ [news[r] EXCEPT !.new = more] \in [new : Seq(Told), gone : Seq(Routes)]
        /\ [news[r] EXCEPT !.new = more].new = more
    BY <2>2 DEF Inv, Shape
  <2>4. \A s \in Router : news'[s] = IF s = r THEN [news[r] EXCEPT !.new = more] ELSE news[s]
    BY <2>1 DEF Inv, Shape
  <2>5. news' \in [Router -> [new : Seq(Told), gone : Seq(Routes)]]
    BY <2>1, <2>3 DEF Inv, Shape
  <2> QED BY <2>2, <2>3, <2>4, <2>5
<1>6. /\ todo' \in [Router -> Seq(Insertion \cup Removal)] /\ DOMAIN table' = Router
      /\ \A q \in Router : ElementsOf(todo'[q]) \subseteq ElementsOf(todo[q])
      /\ \A q \in Router : table'[q] = IF q = r THEN TableInsert(table[r], Mask, route) ELSE table[q]
  BY <1>1, <1>2 DEF Inv, Shape
<1>7. Shape' BY <1>1, <1>5, <1>6 DEF Inv, Shape
<1>8. Signed' BY <1>1 DEF Inv, Signed
<1>9. Accounted(route, r)
  BY <1>1, <1>2 DEF Inv, Held, AppliedIsSourced
<1>10. ASSUME NEW x, x = route PROVE Holding(r, x)'
  <2>1. /\ route.prefix \in DOMAIN TableInsert(table[r], Mask, route)
        /\ \E y \in TableInsert(table[r], Mask, route)[route.prefix] : y.route = route
    BY InsertAdds
  <2>2. table'[r] = TableInsert(table[r], Mask, route) BY <1>6
  <2> QED BY <1>10, <2>1, <2>2 DEF Holding, Holds
<1>11. ASSUME NEW q \in Router, NEW p \in DOMAIN table'[q], NEW x \in table'[q][p]
       PROVE  \/ p \in DOMAIN table[q] /\ \E y \in table[q][p] : x.route = y.route
              \/ Accounted(x.route, q)
  <2>1. CASE q = r
    <3>1. \/ x.route = route
          \/ p \in DOMAIN table[r] /\ \E y \in table[r][p] : x.route = y.route
      BY <1>6, <1>11, <2>1, InsertAddsOne
    <3> QED BY <1>9, <2>1, <3>1
  <2>2. CASE q # r
    BY <1>6, <1>11, <2>2
  <2> QED BY <2>1, <2>2
<1>12. \A s \in Router : \A x \in ElementsOf(news'[s].new) :
         x \in ElementsOf(news[s].new) \/ Holding(s, x)'
  <2>1. ASSUME NEW s \in Router, NEW x \in ElementsOf(news'[s].new)
        PROVE  x \in ElementsOf(news[s].new) \/ Holding(s, x)'
    <3>1. x \in ElementsOf(news[s].new) \/ (s = r /\ x = route)
      BY <1>5, <2>1
    <3> QED BY <1>10, <3>1
  <2> QED BY <2>1
<1> HIDE DEF route
<1>13. MovesOn
  BY <1>1, <1>6, <1>11, <1>12 DEF MovesOn
<1>14. [Next]_vars
  BY DEF Next, Work
<1> QED BY <1>7, <1>8, <1>13, <1>14, MovesKeepHeld DEF Inv

LEMMA RemoveStepKeeps ==
  ASSUME Inv, NEW r \in Router, Remove(r)
  PROVE  Inv'
<1> DEFINE op == Head(todo[r])
           route == op.route
           told == Extend(news[r].gone, WithdrawnBest(table[r], route))
<1>1. /\ todo[r] # <<>> /\ op.kind = "remove"
      /\ table' = [table EXCEPT ![r] = TableRemove(@, Mask, route)]
      /\ news' = [news EXCEPT ![r] = [news[r] EXCEPT !.gone = told]]
      /\ todo' = [todo EXCEPT ![r] = Tail(@)]
      /\ withdrawn' = withdrawn \cup {r}
      /\ UNCHANGED <<channel, session, phase, incoming, received, update, injected>>
  BY DEF Remove
<1>2. /\ op \in Insertion \cup Removal /\ op \in ElementsOf(todo[r])
      /\ Tail(todo[r]) \in Seq(Insertion \cup Removal)
      /\ ElementsOf(Tail(todo[r])) \subseteq ElementsOf(todo[r])
  BY <1>1, ElementsOfTail DEF Inv, Shape
<1>3. route \in Routes
  BY <1>2 DEF Insertion, Removal, Told
<1> HIDE DEF op
<1>4. told \in Seq(Routes)
  <2>1. news[r].gone \in Seq(Routes) BY DEF Inv, Shape
  <2>2. CASE WithdrawnBest(table[r], route) = {} BY <2>1, <2>2 DEF Extend
  <2>3. CASE WithdrawnBest(table[r], route) = {route}
    <3>1. (CHOOSE x \in {route} : TRUE) = route OBVIOUS
    <3> QED BY <1>3, <2>1, <2>3, <3>1 DEF Extend
  <2> QED BY <2>2, <2>3 DEF WithdrawnBest
<1> HIDE DEF told
<1>5. /\ news' \in [Router -> [new : Seq(Told), gone : Seq(Routes)]]
      /\ \A s \in Router : news'[s].new = news[s].new
  BY <1>1, <1>4 DEF Inv, Shape
<1>6. /\ todo' \in [Router -> Seq(Insertion \cup Removal)] /\ DOMAIN table' = Router
      /\ \A q \in Router : ElementsOf(todo'[q]) \subseteq ElementsOf(todo[q])
      /\ \A q \in Router : table'[q] = IF q = r THEN TableRemove(table[r], Mask, route) ELSE table[q]
  BY <1>1, <1>2 DEF Inv, Shape
<1>7. Shape' BY <1>1, <1>5, <1>6 DEF Inv, Shape
<1>8. Signed' BY <1>1 DEF Inv, Signed
<1>9. MovesOn
  <2>1. ASSUME NEW q \in Router, NEW p \in DOMAIN table'[q], NEW x \in table'[q][p]
        PROVE  p \in DOMAIN table[q] /\ \E y \in table[q][p] : x.route = y.route
    BY <1>6, <2>1, RemoveAddsNone
  <2> QED BY <1>1, <1>5, <1>6, <2>1 DEF MovesOn
<1>10. [Next]_vars
  BY DEF Next, Work
<1> QED BY <1>7, <1>8, <1>9, <1>10, MovesKeepHeld DEF Inv

LEMMA EndUpdateKeeps ==
  ASSUME Inv, NEW r \in Router, EndUpdate(r)
  PROVE  Inv'
<1> DEFINE ad == Generate(r, news[r].new, news[r].gone)
<1>1. /\ update' = [update EXCEPT ![r] = ad] /\ news' = [news EXCEPT ![r] = NoNews]
      /\ phase' = [phase EXCEPT ![r] = "send"]
      /\ UNCHANGED <<channel, session, incoming, received, todo, table, injected, withdrawn>>
      /\ [Next]_vars
  BY DEF EndUpdate, Next, Work
<1>2. /\ ad \in Advertisements /\ ad.peer = Address[r] /\ ad.path = <<>>
      /\ (\A route \in ElementsOf(news[r].new) : Holding(r, route)) => Claimed(r, ad)
  <2>1. news[r].new \in Seq(Told) /\ news[r].gone \in Seq(Routes) BY DEF Inv, Shape
  <2> QED BY <2>1, GeneratedAdvertisement
<1> HIDE DEF ad
<1>3. NoNews \in [new : Seq(Told), gone : Seq(Routes)] /\ ElementsOf(NoNews.new) = {}
  BY ElementsOfEmpty DEF NoNews
<1>4. Shape' BY <1>1, <1>2, <1>3 DEF Inv, Shape
<1>5. Signed' BY <1>1, <1>2 DEF Inv, Signed, Shape
<1>6. \A s \in Router : /\ update'[s] = IF s = r THEN ad ELSE update[s]
                        /\ news'[s] = IF s = r THEN NoNews ELSE news[s]
  BY <1>1 DEF Inv, Shape
<1>7. r \notin withdrawn => Claimed(r, ad)
  BY <1>2 DEF Inv, Held, ReadyIsHeld
<1>8. \A s \in Router \ withdrawn : update'[s] = update[s] \/ Claimed(s, update'[s])
  BY <1>6, <1>7
<1>9. MovesOn
  BY <1>1, <1>3, <1>6, <1>8 DEF MovesOn
<1> QED BY <1>1, <1>4, <1>5, <1>9, MovesKeepHeld DEF Inv

LEMMA SendKeeps ==
  ASSUME Inv, NEW r \in Router, Send(r)
  PROVE  Inv'
<1> DEFINE link == <<r, Neighbour(r)>>
<1>1. /\ link \in Links /\ TrySend(link, update[r]) /\ Advance(r, "receive")
      /\ UNCHANGED <<incoming, received, todo, table, news, update, injected, withdrawn>>
      /\ [Next]_vars
  BY LinksOfNeighbour DEF Inv, Send, Next, Work
<1>2. /\ update[r] \in Advertisements /\ link[1] = r
      /\ update[r].peer = Address[r] /\ update[r].path = <<>>
  BY DEF Inv, Shape, Signed
<1> HIDE DEF link
<1>3. /\ channel' \in [Links -> Seq(Advertisements)]
      /\ \A l \in Links : ElementsOf(channel'[l]) \subseteq
           ElementsOf(channel[l]) \cup (IF l = link THEN {update[r]} ELSE {})
  BY <1>1, <1>2, SentOrLost DEF Inv
<1>4. /\ session' \in [Router -> Nat] /\ \A q \in Router : session'[q] \in DOMAIN Sessions[q]
      /\ phase' \in [Router -> {"receive", "update", "send"}]
  BY <1>1, SessionAdvances DEF Inv
<1>5. Shape' BY <1>1, <1>3, <1>4 DEF Inv, Shape
<1>6. Signed'
  <2>1. ASSUME NEW l \in Links, NEW x \in ElementsOf(channel'[l])
        PROVE  \/ l[1] = Outside /\ x \in Injected
               \/ l[1] \in Router /\ x.peer = Address[l[1]] /\ x.path = <<>>
    <3>1. x \in ElementsOf(channel[l]) \/ (l = link /\ x = update[r])
      BY <1>3, <2>1
    <3> QED BY <1>2, <3>1 DEF Inv, Signed
  <2> QED BY <1>1, <2>1 DEF Inv, Signed, ElementsOf
<1>7. ASSUME NEW s \in Router, NEW q \in Router, <<s, q>> \in Links,
             NEW x \in ElementsOf(channel'[<<s, q>>])
      PROVE  x \in ElementsOf(channel[<<s, q>>]) \/ x = update[s]
  <2>1. <<s, q>> = link => s = r
    BY <1>2
  <2> QED BY <1>3, <1>7, <2>1
<1>8. MovesOn
  BY <1>1, <1>7 DEF MovesOn
<1> QED BY <1>1, <1>5, <1>6, <1>8, MovesKeepHeld DEF Inv

LEMMA StepKeepsInv == Inv /\ [Next]_vars => Inv'
<1> SUFFICES ASSUME Inv, [Next]_vars PROVE Inv'
  OBVIOUS
<1>1. ASSUME NEW r \in Router, NEW ad \in Injected, Inject(r, ad) PROVE Inv'
  BY <1>1, InjectKeeps
<1>2. ASSUME NEW r \in Router, Work(r) PROVE Inv'
  BY <1>2, ReceiveKeeps, EndReceiveKeeps, TakeKeeps, InsertStepKeeps, RemoveStepKeeps,
     EndUpdateKeeps, SendKeeps DEF Work
<1>3. CASE UNCHANGED vars
  <2> USE <1>3 DEF vars
  <2>1. Shape' BY DEF Inv, Shape
  <2>2. Signed' BY DEF Inv, Signed
  <2>3. MovesOn BY DEF MovesOn
  <2> QED BY <2>1, <2>2, <2>3, MovesKeepHeld DEF Inv
<1> QED BY <1>1, <1>2, <1>3 DEF Next

(* The invariant, for every network, every bound, every advertisement that *)
(* enters, and every choice of addresses.                                  *)
THEOREM NetworkSafety == Spec => []Inv
BY InitHasInv, StepKeepsInv, PTL DEF Spec

(* No router tells its neighbours of a route it does not hold, unless it   *)
(* has removed one, and each route that a router has learnt has come from  *)
(* outside or is held by a neighbour: loss, echo and delay make no         *)
(* difference, nor do routers of one address.                              *)
THEOREM RoutersAnnounceWhatTheyHold == Spec => []LearnedRoutesAreHeld
<1>1. Inv => LearnedRoutesAreHeld
  <2> SUFFICES ASSUME Inv, NEW r \in Router
               PROVE  /\ \A p \in DOMAIN table[r] : \A x \in table[r][p] : Accounted(x.route, r)
                      /\ \A ad \in ElementsOf(incoming[r]) \cup ElementsOf(received[r]) :
                           \A route \in ElementsOf(GetAnnouncements(ad)) : Accounted(route, r)
                      /\ \A s \in Router \ withdrawn : <<s, r>> \in Links =>
                           \A ad \in ElementsOf(channel[<<s, r>>]) :
                             \A route \in ElementsOf(GetAnnouncements(ad)) :
                               Holds(s, route.prefix, route.hop)
    BY DEF LearnedRoutesAreHeld
  <2>1. \A p \in DOMAIN table[r] : \A x \in table[r][p] : Accounted(x.route, r)
    BY DEF Inv, Held, AppliedIsSourced
  <2>2. ASSUME NEW ad \in ElementsOf(incoming[r]) \cup ElementsOf(received[r]),
               NEW route \in ElementsOf(GetAnnouncements(ad))
        PROVE  Accounted(route, r)
    <3>1. ad \in Advertisements /\ Sourced(ad, r)
      <4>1. incoming[r] \in Seq(Advertisements) /\ received[r] \in Seq(Advertisements)
        BY DEF Inv, Shape
      <4>2. ad \in Advertisements
        BY <2>2, <4>1, SequenceShape DEF ElementsOf
      <4> QED BY <2>2, <4>2 DEF Inv, Held, ReceivedIsSourced
    <3>2. PICK i \in DOMAIN ad.announcements : route = GetAnnouncements(ad)[i]
      BY <2>2 DEF ElementsOf, GetAnnouncements
    <3> QED BY <3>1, <3>2, SourcedIsAccounted
  <2>3. ASSUME NEW s \in Router \ withdrawn, <<s, r>> \in Links,
               NEW ad \in ElementsOf(channel[<<s, r>>]), NEW route \in ElementsOf(GetAnnouncements(ad))
        PROVE  Holds(s, route.prefix, route.hop)
    <3>1. Claimed(s, ad)
      BY <2>3 DEF Inv, Held, SentIsHeld
    <3>2. PICK i \in DOMAIN ad.announcements : route = GetAnnouncements(ad)[i]
      BY <2>3 DEF ElementsOf, GetAnnouncements
    <3> QED BY <3>1, <3>2 DEF Claimed, GetAnnouncements
  <2> QED BY <2>1, <2>2, <2>3
<1> QED BY <1>1, NetworkSafety, PTL

-----------------------------------------------------------------------------
(* The RIBs.                                                               *)

Tables == \A r \in Router : TableOK(table[r], Mask, Routes)
Counted == injected \in 0 .. MaxInjected

(* What a router applies are inserts and removals of routes.               *)
LEMMA NextOperation ==
  ASSUME Shape, NEW r \in Router, todo[r] # <<>>
  PROVE  Head(todo[r]).route \in Routes
<1>1. Head(todo[r]) \in Insertion \cup Removal
  BY ElementsOfTail DEF Shape
<1> QED BY <1>1 DEF Insertion, Removal, Told

(* An insertion or a removal leaves the table of its router in order, with *)
(* the one bit of its mask, and those of the others alone.                 *)
LEMMA StepKeepsTables ==
  ASSUME Inv, Tables, [Next]_vars
  PROVE  Tables'
<1>1. Shape /\ DOMAIN table = Router
  BY DEF Inv, Shape
<1>2. CASE UNCHANGED table
  BY <1>2 DEF Tables
<1>3. ASSUME NEW r \in Router, Insert(r) PROVE Tables'
  <2> DEFINE route == Head(todo[r]).route
  <2>1. route \in Routes /\ table' = [table EXCEPT ![r] = TableInsert(@, Mask, route)]
    BY <1>1, <1>3, NextOperation DEF Insert
  <2>2. TableOK(table[r], Mask, Routes)
    BY DEF Tables
  <2> HIDE DEF route
  <2>3. Mask = {0} /\ 0 \in Nat /\ 0 \in Mask /\ Routes \in SUBSET Routes
    BY DEF Mask
  <2>4. TableOK(TableInsert(table[r], Mask, route), Mask, Routes)
    BY <2>1, <2>2, <2>3, InsertTable
  <2> QED BY <1>1, <2>1, <2>4 DEF Tables
<1>4. ASSUME NEW r \in Router, Remove(r) PROVE Tables'
  <2> DEFINE route == Head(todo[r]).route
  <2>1. table' = [table EXCEPT ![r] = TableRemove(@, Mask, route)]
    BY <1>4 DEF Remove
  <2>2. TableOK(table[r], Mask, Routes)
    BY DEF Tables
  <2> HIDE DEF route
  <2>3. TableOK(TableRemove(table[r], Mask, route), Mask, Routes)
    BY <2>2, RemoveTable DEF Mask
  <2> QED BY <1>1, <2>1, <2>3 DEF Tables
<1>5. CASE Next
  <2>1. \/ UNCHANGED table
        \/ \E r \in Router : Insert(r) \/ Remove(r)
    BY <1>5 DEF Next, Work, Inject, ReceiveNext, EndReceive, TakeAdvertisement,
       SkipAdvertisement, EndUpdate, Send
  <2> QED BY <1>2, <1>3, <1>4, <2>1
<1> QED BY <1>2, <1>5 DEF vars

LEMMA StepKeepsCount ==
  ASSUME Counted, [Next]_vars
  PROVE  Counted'
<1>1. CASE UNCHANGED injected
  BY <1>1 DEF Counted
<1>2. ASSUME NEW r \in Router, NEW ad \in Injected, Inject(r, ad) PROVE Counted'
  BY <1>2, NetworkAssumption DEF Inject, Counted
<1>3. CASE Next
  <2>1. \/ UNCHANGED injected
        \/ \E r \in Router, ad \in Injected : Inject(r, ad)
    BY <1>3 DEF Next, Work, ReceiveNext, EndReceive, TakeAdvertisement, SkipAdvertisement,
       Insert, Remove, EndUpdate, Send
  <2> QED BY <1>1, <1>2, <2>1
<1> QED BY <1>1, <1>3 DEF vars

LEMMA InvGivesTypes == Inv /\ Tables /\ Counted => TypeOK
<1> SUFFICES ASSUME Inv, Tables, Counted PROVE TypeOK
  OBVIOUS
<1>1. Shape
  BY DEF Inv
<1>2. \A T : \A s \in Seq(T) : ElementsOf(s) \subseteq T
  BY SequenceShape DEF ElementsOf
<1>3. \A link \in Links : ElementsOf(channel[link]) \subseteq Advertisements
  BY <1>1, <1>2 DEF Shape
<1>4. ASSUME NEW r \in Router
      PROVE  /\ session[r] \in DOMAIN Sessions[r]
             /\ phase[r] \in {"receive", "update", "send"}
             /\ ElementsOf(incoming[r]) \cup ElementsOf(received[r]) \cup {update[r]}
                  \subseteq Advertisements
             /\ \A op \in ElementsOf(todo[r]) :
                  op.kind \in {"insert", "remove"} /\ op.route \in Routes
  <2>1. ElementsOf(todo[r]) \subseteq Insertion \cup Removal
    BY <1>1, <1>2 DEF Shape
  <2>2. /\ incoming[r] \in Seq(Advertisements) /\ received[r] \in Seq(Advertisements)
        /\ update[r] \in Advertisements
    BY <1>1 DEF Shape
  <2>3. ElementsOf(incoming[r]) \cup ElementsOf(received[r]) \cup {update[r]}
          \subseteq Advertisements
    BY <1>2, <2>2
  <2>4. \A op \in ElementsOf(todo[r]) : op.kind \in {"insert", "remove"} /\ op.route \in Routes
    BY <2>1 DEF Insertion, Removal, Told
  <2> QED BY <1>1, <2>3, <2>4 DEF Shape
<1>5. ASSUME NEW r \in Router, NEW p \in DOMAIN table[r]
      PROVE  /\ table[r][p] # {} /\ IsVec(table[r][p])
             /\ \A x \in table[r][p] : x.route \in Routes /\ x.mask = Mask
  <2>1. EntryOK(table[r][p], p, Mask, Routes)
    BY DEF Tables, TableOK
  <2> QED BY <2>1 DEF EntryOK, Element, Mask
<1>6. injected \in 0 .. MaxInjected /\ withdrawn \subseteq Router
  BY <1>1 DEF Shape, Counted
<1> QED BY <1>3, <1>4, <1>5, <1>6 DEF TypeOK

(* Type correctness of a network of routers.  The RIB of each one stays    *)
(* well formed: no empty entry, Vecs in order, and no mask but the one     *)
(* router's.                                                               *)
THEOREM NetworkTypes == Spec => []TypeOK
<1>1. Init => Tables /\ Counted
  BY EmptyTableOK, NetworkAssumption DEF Init, Tables, Counted
<1>2. Inv /\ Tables /\ Counted /\ [Next]_vars => Tables' /\ Counted'
  BY StepKeepsTables, StepKeepsCount
<1> QED BY <1>1, <1>2, InvGivesTypes, NetworkSafety, PTL DEF Spec
-----------------------------------------------------------------------------
(* Where routes come from.                                                 *)

Announces(ad, p, hop) ==
  \E i \in DOMAIN ad.announcements :
    ad.announcements[i].prefix = p /\ ad.announcements[i].hop = hop

(* An advertisement that enters the network announces the prefix over the  *)
(* next hop.                                                               *)
Known(p, hop) == \E ad \in Injected : Announces(ad, p, hop)

(* A router can trace a route: its prefix and next hop are those of an     *)
(* announcement that enters the network, and either it is that             *)
(* announcement's, or a neighbour has relayed it, with its own address as  *)
(* the peer and without the AS path.                                       *)
Traceable(route, r) ==
  /\ Known(route.prefix, route.hop)
  /\ \/ /\ <<Outside, r>> \in Links
        /\ \E ad \in Injected : route \in ElementsOf(GetAnnouncements(ad))
     \/ \E s \in Router : /\ <<s, r>> \in Links
                          /\ route.peer = Address[s] /\ route.path = <<>>

(* No router invents a route, whatever is lost and withdrawn.  What it has *)
(* from other routers all has the shortest path there is, however long the *)
(* path was that came in.                                                  *)
RoutesAreTraceable ==
  \A r \in Router : \A p \in DOMAIN table[r] : \A x \in table[r][p] : Traceable(x.route, r)

Telling(ad) ==
  \A i \in DOMAIN ad.announcements :
    Known(ad.announcements[i].prefix, ad.announcements[i].hop)
Genuine(ad, r) ==
  \/ ad \in Injected /\ <<Outside, r>> \in Links
  \/ /\ Telling(ad) /\ ad.path = <<>>
     /\ \E s \in Router : <<s, r>> \in Links /\ ad.peer = Address[s]

(* The invariant: of what is sent, received, applied and told.             *)
SentIsGenuine ==
  \A link \in Links : \A ad \in ElementsOf(channel[link]) : Genuine(ad, link[2])
ReceivedIsGenuine ==
  \A r \in Router : \A ad \in ElementsOf(incoming[r]) \cup ElementsOf(received[r]) : Genuine(ad, r)
AppliedIsTraceable ==
  \A r \in Router :
    /\ \A op \in ElementsOf(todo[r]) : op.kind = "insert" => Traceable(op.route, r)
    /\ \A p \in DOMAIN table[r] : \A x \in table[r][p] : Traceable(x.route, r)
ToldIsKnown ==
  \A r \in Router :
    /\ \A route \in ElementsOf(news[r].new) : Known(route.prefix, route.hop)
    /\ Telling(update[r]) /\ update[r].path = <<>>
Traced == SentIsGenuine /\ ReceivedIsGenuine /\ AppliedIsTraceable /\ ToldIsKnown

LEMMA GenuineIsTraceable ==
  ASSUME NEW r \in Router, NEW ad \in Advertisements, Genuine(ad, r),
         NEW op \in ElementsOf(Operations(ad)), op.kind = "insert"
  PROVE  Traceable(op.route, r)
<1>1. PICK i \in DOMAIN ad.announcements : op.route = GetAnnouncements(ad)[i]
  BY InsertsAreAnnounced
<1>2. op.route = [peer |-> ad.peer, prefix |-> ad.announcements[i].prefix,
                  hop |-> ad.announcements[i].hop, path |-> ad.path]
  BY <1>1 DEF GetAnnouncements
<1>3. CASE ad \in Injected /\ <<Outside, r>> \in Links
  <2>1. op.route \in ElementsOf(GetAnnouncements(ad))
    BY <1>1 DEF ElementsOf, GetAnnouncements
  <2>2. Known(op.route.prefix, op.route.hop)
    BY <1>2, <1>3 DEF Known, Announces
  <2> QED BY <1>3, <2>1, <2>2 DEF Traceable
<1>4. CASE /\ Telling(ad) /\ ad.path = <<>>
           /\ \E s \in Router : <<s, r>> \in Links /\ ad.peer = Address[s]
  BY <1>2, <1>4 DEF Traceable, Telling
<1> QED BY <1>3, <1>4 DEF Genuine

LEMMA StepKeepsTraced ==
  ASSUME Inv, Traced, [Next]_vars
  PROVE  Traced'
<1> USE DEF Traced
<1>1. Shape /\ Shape'
  BY StepKeepsInv DEF Inv
<1>5. CASE UNCHANGED vars
  BY <1>5 DEF vars, SentIsGenuine, ReceivedIsGenuine, AppliedIsTraceable, ToldIsKnown
<1>6. ASSUME NEW link \in Links, NEW ad \in Advertisements, TrySend(link, ad), Genuine(ad, link[2])
      PROVE  SentIsGenuine'
  <2>1. \A l \in Links : ElementsOf(channel'[l]) \subseteq
          ElementsOf(channel[l]) \cup (IF l = link THEN {ad} ELSE {})
    BY <1>1, <1>6, SentOrLost
  <2>2. ASSUME NEW l \in Links, NEW x \in ElementsOf(channel'[l])
        PROVE  Genuine(x, l[2])
    BY <1>6, <2>1 DEF SentIsGenuine
  <2> QED BY <2>2 DEF SentIsGenuine
<1>7. ASSUME UNCHANGED channel PROVE SentIsGenuine'
  BY <1>7 DEF SentIsGenuine
<1>8. ASSUME UNCHANGED <<incoming, received>> PROVE ReceivedIsGenuine'
  BY <1>8 DEF ReceivedIsGenuine
<1>9. ASSUME UNCHANGED <<todo, table>> PROVE AppliedIsTraceable'
  BY <1>9 DEF AppliedIsTraceable
<1>10. ASSUME UNCHANGED <<news, update>> PROVE ToldIsKnown'
  BY <1>10 DEF ToldIsKnown
<1>11. ASSUME NEW r \in Router, NEW ad \in Injected, Inject(r, ad) PROVE Traced'
  <2>1. /\ <<Outside, r>> \in Links /\ TrySend(<<Outside, r>>, ad)
        /\ UNCHANGED <<incoming, received, todo, table, news, update>>
    BY <1>11 DEF Inject
  <2>2. ad \in Advertisements /\ Genuine(ad, <<Outside, r>>[2])
    BY <2>1, NetworkAssumption DEF Genuine
  <2> QED BY <1>6, <1>8, <1>9, <1>10, <2>1, <2>2
<1>12. ASSUME NEW r \in Router, Collect(r) PROVE ReceivedIsGenuine'
  <2>1. /\ received' = [received EXCEPT ![r] = @ \o incoming[r]]
        /\ incoming' = [incoming EXCEPT ![r] = <<>>]
    BY <1>12 DEF Collect
  <2>2. ElementsOf(received[r] \o incoming[r]) \subseteq ElementsOf(received[r]) \cup ElementsOf(incoming[r])
    BY <1>1, ElementsOfConcat DEF Shape
  <2>3. \A q \in Router : ElementsOf(incoming'[q]) \cup ElementsOf(received'[q])
                            \subseteq ElementsOf(incoming[q]) \cup ElementsOf(received[q])
    BY <1>1, <2>1, <2>2, ElementsOfEmpty DEF Shape
  <2> QED BY <2>3 DEF ReceivedIsGenuine
<1>13. ASSUME NEW r \in Router, ReceiveNext(r) \/ EndReceive(r) PROVE Traced'
  <2> DEFINE link == <<Neighbour(r), r>>
             ad == Head(channel[link])
  <2>1. link \in Links /\ link[2] = r
    BY <1>1, LinksOfNeighbour
  <2>2. UNCHANGED <<todo, table, news, update>>
    BY <1>13 DEF ReceiveNext, EndReceive
  <2>3. CASE EndReceive(r)
    <3>1. Collect(r) /\ UNCHANGED channel
      BY <2>3 DEF EndReceive
    <3> QED BY <1>7, <1>9, <1>10, <1>12, <2>2, <3>1
  <2>4. CASE ReceiveNext(r)
    <3>1. /\ channel[link] # <<>> /\ channel' = [channel EXCEPT ![link] = Tail(@)]
          /\ \/ /\ incoming' = [incoming EXCEPT ![r] = Append(@, ad)]
                /\ UNCHANGED received
             \/ Collect(r)
      BY <2>4 DEF ReceiveNext
    <3>2. /\ ad \in Advertisements /\ ad \in ElementsOf(channel[link])
          /\ ElementsOf(Tail(channel[link])) \subseteq ElementsOf(channel[link])
      BY <1>1, <2>1, <3>1, ElementsOfTail DEF Shape
    <3>3. Genuine(ad, r)
      BY <2>1, <3>2 DEF SentIsGenuine
    <3> HIDE DEF link, ad
    <3>4. \A l \in Links : ElementsOf(channel'[l]) \subseteq ElementsOf(channel[l])
      BY <1>1, <3>1, <3>2 DEF Shape
    <3>5. SentIsGenuine'
      BY <3>4 DEF SentIsGenuine
    <3>6. ASSUME incoming' = [incoming EXCEPT ![r] = Append(@, ad)], UNCHANGED received
          PROVE  ReceivedIsGenuine'
      <4>1. ElementsOf(Append(incoming[r], ad)) = ElementsOf(incoming[r]) \cup {ad}
        BY <1>1, <3>2, ElementsOfAppend DEF Shape
      <4>2. \A q \in Router : ElementsOf(incoming'[q])
              \subseteq ElementsOf(incoming[q]) \cup (IF q = r THEN {ad} ELSE {})
        BY <1>1, <3>6, <4>1 DEF Shape
      <4> QED BY <3>3, <3>6, <4>2 DEF ReceivedIsGenuine
    <3> QED BY <1>9, <1>10, <1>12, <2>2, <3>1, <3>5, <3>6
  <2> QED BY <1>13, <2>3, <2>4
<1>14. ASSUME NEW r \in Router, TakeAdvertisement(r) \/ SkipAdvertisement(r) PROVE Traced'
  <2> DEFINE ad == Head(received[r])
  <2>1. /\ received[r] # <<>> /\ received' = [received EXCEPT ![r] = Tail(@)]
        /\ UNCHANGED todo \/ todo' = [todo EXCEPT ![r] = Operations(ad)]
        /\ UNCHANGED <<channel, incoming, table, news, update>>
    BY <1>14 DEF TakeAdvertisement, SkipAdvertisement
  <2>2. /\ ad \in Advertisements /\ ad \in ElementsOf(received[r])
        /\ ElementsOf(Tail(received[r])) \subseteq ElementsOf(received[r])
    BY <1>1, <2>1, ElementsOfTail DEF Shape
  <2>3. \A op \in ElementsOf(Operations(ad)) : op.kind = "insert" => Traceable(op.route, r)
    BY <2>2, GenuineIsTraceable DEF ReceivedIsGenuine
  <2> HIDE DEF ad
  <2>4. ReceivedIsGenuine'
    <3>1. \A q \in Router : ElementsOf(received'[q]) \subseteq ElementsOf(received[q])
      BY <1>1, <2>1, <2>2 DEF Shape
    <3> QED BY <2>1, <3>1 DEF ReceivedIsGenuine
  <2>5. \A q \in Router : todo'[q] = todo[q] \/ (q = r /\ todo'[q] = Operations(ad))
    BY <1>1, <2>1 DEF Shape
  <2>6. AppliedIsTraceable'
    BY <2>1, <2>3, <2>5 DEF AppliedIsTraceable
  <2> QED BY <1>7, <1>10, <2>1, <2>4, <2>6
<1>15. ASSUME NEW r \in Router, Insert(r) PROVE Traced'
  <2> DEFINE op == Head(todo[r])
             route == op.route
             told == Extend(news[r].new, NewBest(table[r], route))
  <2>1. /\ todo[r] # <<>> /\ op.kind = "insert"
        /\ table' = [table EXCEPT ![r] = TableInsert(@, Mask, route)]
        /\ news' = [news EXCEPT ![r].new = told]
        /\ todo' = [todo EXCEPT ![r] = Tail(@)]
        /\ UNCHANGED <<channel, incoming, received, update>>
    BY <1>15 DEF Insert
  <2>2. /\ op \in Insertion \cup Removal /\ op \in ElementsOf(todo[r])
        /\ ElementsOf(Tail(todo[r])) \subseteq ElementsOf(todo[r])
    BY <1>1, <2>1, ElementsOfTail DEF Shape
  <2>3. route \in Told /\ Traceable(route, r)
    BY <2>1, <2>2 DEF Insertion, Removal, AppliedIsTraceable
  <2>4. ElementsOf(told) \subseteq ElementsOf(news[r].new) \cup {route}
    <3>1. news[r].new \in Seq(Told)
      BY <1>1 DEF Shape
    <3> QED BY <2>3, <3>1, NewBestIsTheRoute
  <2> HIDE DEF op, told
  <2>5. \A q \in Router : /\ ElementsOf(todo'[q]) \subseteq ElementsOf(todo[q])
                          /\ table'[q] = IF q = r THEN TableInsert(table[r], Mask, route) ELSE table[q]
                          /\ news'[q].new = IF q = r THEN told ELSE news[q].new
    BY <1>1, <2>1, <2>2 DEF Shape
  <2>6. ASSUME NEW q \in Router, NEW p \in DOMAIN table'[q], NEW x \in table'[q][p]
        PROVE  Traceable(x.route, q)
    <3>1. CASE q # r
      BY <2>5, <2>6, <3>1 DEF AppliedIsTraceable
    <3>2. CASE q = r
      <4>1. \/ x.route = route
            \/ p \in DOMAIN table[r] /\ \E y \in table[r][p] : x.route = y.route
        BY <2>5, <2>6, <3>2, InsertAddsOne
      <4> QED BY <2>3, <3>2, <4>1 DEF AppliedIsTraceable
    <3> QED BY <3>1, <3>2
  <2>7. AppliedIsTraceable'
    BY <2>5, <2>6 DEF AppliedIsTraceable
  <2>8. ToldIsKnown'
    BY <2>1, <2>3, <2>4, <2>5 DEF ToldIsKnown, Traceable
  <2> QED BY <1>7, <1>8, <2>1, <2>7, <2>8
<1>16. ASSUME NEW r \in Router, Remove(r) PROVE Traced'
  <2> DEFINE route == Head(todo[r]).route
             told == Extend(news[r].gone, WithdrawnBest(table[r], route))
  <2>1. /\ todo[r] # <<>>
        /\ table' = [table EXCEPT ![r] = TableRemove(@, Mask, route)]
        /\ news' = [news EXCEPT ![r] = [news[r] EXCEPT !.gone = told]]
        /\ todo' = [todo EXCEPT ![r] = Tail(@)]
        /\ UNCHANGED <<channel, incoming, received, update>>
    BY <1>16 DEF Remove
  <2>2. ElementsOf(Tail(todo[r])) \subseteq ElementsOf(todo[r])
    BY <1>1, <2>1, ElementsOfTail DEF Shape
  <2> HIDE DEF route, told
  <2>3. \A q \in Router : /\ ElementsOf(todo'[q]) \subseteq ElementsOf(todo[q])
                          /\ table'[q] = IF q = r THEN TableRemove(table[r], Mask, route) ELSE table[q]
                          /\ news'[q].new = news[q].new
    BY <1>1, <2>1, <2>2 DEF Shape
  <2>4. ASSUME NEW q \in Router, NEW p \in DOMAIN table'[q], NEW x \in table'[q][p]
        PROVE  p \in DOMAIN table[q] /\ \E y \in table[q][p] : x.route = y.route
    BY <2>3, <2>4, RemoveAddsNone
  <2>5. AppliedIsTraceable'
    BY <2>3, <2>4 DEF AppliedIsTraceable
  <2>6. ToldIsKnown'
    BY <2>1, <2>3 DEF ToldIsKnown
  <2> QED BY <1>7, <1>8, <2>1, <2>5, <2>6
<1>17. ASSUME NEW r \in Router, EndUpdate(r) PROVE Traced'
  <2> DEFINE ad == Generate(r, news[r].new, news[r].gone)
  <2>1. /\ update' = [update EXCEPT ![r] = ad] /\ news' = [news EXCEPT ![r] = NoNews]
        /\ UNCHANGED <<channel, incoming, received, todo, table>>
    BY <1>17 DEF EndUpdate
  <2>2. Telling(ad) /\ ad.path = <<>>
    BY DEF Generate, Telling, ToldIsKnown, ElementsOf
  <2> HIDE DEF ad
  <2>3. \A q \in Router : /\ update'[q] = IF q = r THEN ad ELSE update[q]
                          /\ news'[q] = IF q = r THEN NoNews ELSE news[q]
    BY <1>1, <2>1 DEF Shape
  <2>4. ElementsOf(NoNews.new) = {}
    BY ElementsOfEmpty DEF NoNews
  <2>5. ToldIsKnown'
    BY <2>2, <2>3, <2>4 DEF ToldIsKnown
  <2> QED BY <1>7, <1>8, <1>9, <2>1, <2>5
<1>18. ASSUME NEW r \in Router, Send(r) PROVE Traced'
  <2> DEFINE link == <<r, Neighbour(r)>>
  <2>1. /\ link \in Links /\ TrySend(link, update[r])
        /\ UNCHANGED <<incoming, received, todo, table, news, update>>
    BY <1>1, <1>18, LinksOfNeighbour DEF Send
  <2>2. update[r] \in Advertisements /\ update[r].peer = Address[r]
    BY <1>1 DEF Inv, Signed, Shape
  <2>3. Genuine(update[r], link[2])
    BY <2>1, <2>2 DEF Genuine, ToldIsKnown
  <2> QED BY <1>6, <1>8, <1>9, <1>10, <2>1, <2>2, <2>3
<1> QED BY <1>5, <1>11, <1>13, <1>14, <1>15, <1>16, <1>17, <1>18 DEF Next, Work

(* Every route in the network comes from what has entered it, by way of    *)
(* neighbours who give it the shortest path.                               *)
THEOREM RoutesComeFromOutside == Spec => []RoutesAreTraceable
<1>1. Init => Traced
  <2> SUFFICES ASSUME Init PROVE Traced
    OBVIOUS
  <2>1. \A r \in Router : Telling(update[r]) /\ update[r].path = <<>>
    BY DEF Init, Empty, Generate, Telling
  <2>2. /\ \A link \in Links : channel[link] = <<>>
        /\ \A r \in Router : incoming[r] = <<>> /\ received[r] = <<>> /\ todo[r] = <<>>
        /\ \A r \in Router : DOMAIN table[r] = {} /\ news[r].new = <<>>
    BY DEF Init, EmptyTable, NoNews
  <2> QED BY <2>1, <2>2, ElementsOfEmpty
         DEF Traced, SentIsGenuine, ReceivedIsGenuine, AppliedIsTraceable, ToldIsKnown
<1>2. Inv /\ Traced /\ [Next]_vars => Traced'
  BY StepKeepsTraced
<1>3. Traced => RoutesAreTraceable
  BY DEF Traced, AppliedIsTraceable, RoutesAreTraceable
<1> QED BY <1>1, <1>2, <1>3, NetworkSafety, PTL DEF Spec
-----------------------------------------------------------------------------
(* Each router's RIB is one of RouterRibs.                                 *)

(* The routes in the table of a router.                                    *)
RoutesIn(t) == UNION { { x.route : x \in t[p] } : p \in DOMAIN t }
heldInTables == [r \in Router |-> RoutesIn(table[r])]

(* What a thread's cycle of receiving, applying and telling does to the    *)
(* routes of its router is to insert one or to withdraw those of a peer to *)
(* a prefix.                                                               *)
Ribs == INSTANCE RouterRibs WITH held <- heldInTables, Announced <- Told

LEMMA TableHoldsForItsBit ==
  ASSUME NEW t, TableOK(t, Mask, Routes)
  PROVE  \A route : route \in RoutesIn(t) <=> UsesIn(t, 0, route)
<1>1. \A p \in DOMAIN t : \A x \in t[p] : 0 \in x.mask
  BY DEF TableOK, EntryOK, Mask
<1> QED BY <1>1 DEF RoutesIn, UsesIn, Uses

LEMMA StepIsOfRibs ==
  ASSUME Inv, Tables, [Next]_vars
  PROVE  [Ribs!Next]_heldInTables
<1>1. Shape /\ DOMAIN table = Router
  BY DEF Inv, Shape
<1>2. Tables'
  BY StepKeepsTables
<1>3. \A r \in Router : \A route : route \in RoutesIn(table[r]) <=> UsesIn(table[r], 0, route)
  BY TableHoldsForItsBit DEF Tables
<1>4. \A r \in Router : \A route : route \in RoutesIn(table'[r]) <=> UsesIn(table'[r], 0, route)
  BY <1>2, TableHoldsForItsBit DEF Tables
<1>5. CASE UNCHANGED table
  BY <1>5 DEF heldInTables
<1>6. ASSUME NEW r \in Router, Insert(r) PROVE Ribs!Next
  <2> DEFINE route == Head(todo[r]).route
  <2>1. /\ Head(todo[r]) \in Insertion \cup Removal /\ Head(todo[r]).kind = "insert"
        /\ table' = [table EXCEPT ![r] = TableInsert(@, Mask, route)]
    BY <1>1, <1>6, ElementsOfTail DEF Insert, Shape
  <2>2. route \in Told /\ route \in Routes
    BY <2>1 DEF Insertion, Removal, Told
  <2> HIDE DEF route
  <2>3. \A q \in Router : table'[q] = IF q = r THEN TableInsert(table[r], Mask, route) ELSE table[q]
    BY <1>1, <2>1
  <2>4. \A x : UsesIn(table'[r], 0, x) <=> UsesIn(table[r], 0, x) \/ x = route
    <3>1. TableOK(table[r], Mask, Routes) /\ Mask = {0} /\ 0 \in Nat /\ 0 \in Mask
          /\ Routes \in SUBSET Routes
      BY DEF Tables, Mask
    <3>2. \A b, x : UsesIn(TableInsert(table[r], {0}, route), b, x)
                      <=> UsesIn(table[r], b, x) \/ (x = route /\ b = 0)
      BY <2>2, <3>1, InsertTable
    <3> QED BY <2>3, <3>1, <3>2
  <2>5. RoutesIn(table'[r]) = RoutesIn(table[r]) \cup {route}
    BY <1>3, <1>4, <2>4
  <2>6. heldInTables' = [heldInTables EXCEPT ![r] = @ \cup {route}]
    BY <2>3, <2>5 DEF heldInTables
  <2> QED BY <2>2, <2>6 DEF Ribs!Next, Ribs!Insert
<1>7. ASSUME NEW r \in Router, Remove(r) PROVE Ribs!Next
  <2> DEFINE route == Head(todo[r]).route
  <2>1. /\ route \in Routes
        /\ table' = [table EXCEPT ![r] = TableRemove(@, Mask, route)]
    BY <1>1, <1>7, NextOperation DEF Remove
  <2>2. route.peer \in Peer /\ route.prefix \in Prefix
    BY <2>1 DEF Routes
  <2> HIDE DEF route
  <2>3. \A q \in Router : table'[q] = IF q = r THEN TableRemove(table[r], Mask, route) ELSE table[q]
    BY <1>1, <2>1
  <2>4. \A x : UsesIn(table'[r], 0, x) <=> UsesIn(table[r], 0, x) /\ ~ SameSource(x, route)
    <3>1. TableOK(table[r], Mask, Routes) /\ Mask = {0}
      BY DEF Tables, Mask
    <3>2. \A b, x : UsesIn(TableRemove(table[r], {0}, route), b, x)
                      <=> UsesIn(table[r], b, x) /\ ~ (b = 0 /\ SameSource(x, route))
      BY <3>1, RemoveTable
    <3> QED BY <2>3, <3>1, <3>2
  <2>5. RoutesIn(table'[r]) =
          { x \in RoutesIn(table[r]) : ~ (x.peer = route.peer /\ x.prefix = route.prefix) }
    BY <1>3, <1>4, <2>4 DEF SameSource
  <2>6. heldInTables' = [heldInTables EXCEPT ![r] =
          { x \in @ : ~ (x.peer = route.peer /\ x.prefix = route.prefix) }]
    BY <2>3, <2>5 DEF heldInTables
  <2> QED BY <2>2, <2>6 DEF Ribs!Next, Ribs!Withdraw
<1>8. CASE Next
  <2>1. \/ UNCHANGED table
        \/ \E r \in Router : Insert(r) \/ Remove(r)
    BY <1>8 DEF Next, Work, Inject, ReceiveNext, EndReceive, TakeAdvertisement,
       SkipAdvertisement, EndUpdate, Send
  <2> QED BY <1>5, <1>6, <1>7, <2>1
<1> QED BY <1>5, <1>8 DEF vars

(* The RIBs of the routers in a network keep the promise of RouterRibs,    *)
(* the one that the RIB which routers share keeps: what a router holds     *)
(* changes by its own insertions and withdrawals only.                     *)
THEOREM TablesImplementRibs == Spec => Ribs!Spec
<1>1. Init => Ribs!Init /\ Tables
  BY EmptyTableOK DEF Init, Tables, Ribs!Init, heldInTables, RoutesIn, EmptyTable
<1>2. Inv /\ Tables /\ [Next]_vars => [Ribs!Next]_heldInTables /\ Tables'
  BY StepIsOfRibs, StepKeepsTables
<1> QED BY <1>1, <1>2, NetworkSafety, PTL DEF Spec, Ribs!Spec
-----------------------------------------------------------------------------
(* The buffers, and the length of a cycle.                                 *)

(* What a router has collected of the sessions it has been at.             *)
Buffered(r) ==
  /\ phase[r] = "receive" => Len(received[r]) <= InSize * (session[r] - 1)
  /\ phase[r] = "update" => Len(received[r]) <= InSize * Len(Sessions[r])
  /\ phase[r] = "send" => received[r] = <<>>
  /\ phase[r] # "receive" => incoming[r] = <<>>
  /\ phase[r] # "update" => todo[r] = <<>>

(* However much the neighbours send, a link holds no more than its bound,  *)
(* the buffer of an interface no more than its size, and what a cycle has  *)
(* to apply is at most a buffer for each session.  A cycle starts with     *)
(* nothing left of the one before.                                         *)
BuffersAreBounded ==
  /\ \A link \in Links : Len(channel[link]) <= Bound
  /\ \A r \in Router : Len(incoming[r]) <= InSize /\ Buffered(r)

(* The part of the cycle that comes after a part.                          *)
After(part) == CASE part = "receive" -> "update"
                 [] part = "update" -> "send"
                 [] part = "send" -> "receive"

(* Less is left of a part: fewer sessions, or less room in the buffer of   *)
(* the session, or fewer advertisements to apply, or fewer operations of   *)
(* the current one.                                                        *)
LessOfPart(r) ==
  \/ phase[r] # "update" /\ session'[r] = session[r] + 1
  \/ /\ phase[r] = "receive" /\ session'[r] = session[r]
     /\ Len(incoming'[r]) = Len(incoming[r]) + 1
  \/ phase[r] = "update" /\ Len(received'[r]) < Len(received[r])
  \/ /\ phase[r] = "update" /\ received'[r] = received[r]
     /\ Len(todo'[r]) < Len(todo[r])

Stays(r) == /\ phase'[r] = phase[r] /\ session'[r] = session[r]
            /\ incoming'[r] = incoming[r] /\ received'[r] = received[r]
            /\ todo'[r] = todo[r]

(* The parts of a cycle follow each other, each is of bounded length, and  *)
(* no step of a neighbour makes it longer: a router that goes on comes to  *)
(* send again, also if its neighbours send as fast as it receives.         *)
CyclesAreBounded ==
  [][\A r \in Router :
       \/ Stays(r)
       \/ phase'[r] = After(phase[r])
       \/ (phase'[r] = phase[r] /\ LessOfPart(r))]_vars

LEMMA SizesAreNumbers ==
  ASSUME Shape
  PROVE  /\ Bound \in Nat /\ InSize \in Nat
         /\ \A link \in Links : Len(channel[link]) \in Nat
         /\ \A r \in Router : /\ Len(incoming[r]) \in Nat /\ Len(received[r]) \in Nat
                              /\ Len(Sessions[r]) \in Nat
                              /\ session[r] \in 1 .. Len(Sessions[r])
BY NetworkAssumption, SessionsOfRouter DEF Shape

LEMMA Multiples ==
  ASSUME NEW a \in Nat, NEW i \in Nat, NEW j \in Nat, i <= j
  PROVE  /\ a * (i + 1) = a * i + a /\ a * i <= a * j /\ a * 0 = 0
         /\ a * i \in Nat
OBVIOUS

LEMMA SumOfBounded ==
  ASSUME NEW i \in Nat, NEW j \in Nat, NEW a \in Nat, NEW b \in Nat, i <= a, j <= b
  PROVE  i + j <= a + b
OBVIOUS

LEMMA TailLength ==
  ASSUME NEW T, NEW s \in Seq(T), s # <<>>
  PROVE  Len(Tail(s)) = Len(s) - 1 /\ Len(s) \in Nat /\ Len(s) > 0
OBVIOUS

LEMMA StepKeepsBuffers ==
  ASSUME Inv, BuffersAreBounded, [Next]_vars
  PROVE  BuffersAreBounded'
<1> USE SizesAreNumbers
<1>1. Shape /\ Shape'
  BY StepKeepsInv DEF Inv
<1>2. ASSUME UNCHANGED channel
      PROVE  (\A link \in Links : Len(channel[link]) <= Bound)'
  BY <1>2 DEF BuffersAreBounded
<1>3. ASSUME NEW link \in Links, NEW ad \in Advertisements, TrySend(link, ad)
      PROVE  (\A l \in Links : Len(channel[l]) <= Bound)'
  <2>1. CASE UNCHANGED channel
    BY <1>2, <2>1
  <2>2. CASE Len(channel[link]) < Bound /\ channel' = [channel EXCEPT ![link] = Append(@, ad)]
    <3>1. Len(Append(channel[link], ad)) = Len(channel[link]) + 1
      BY <1>1 DEF Shape
    <3>2. \A l \in Links : channel'[l] = IF l = link THEN Append(channel[link], ad) ELSE channel[l]
      BY <1>1, <2>2 DEF Shape
    <3> QED BY <1>1, <2>2, <3>1, <3>2 DEF BuffersAreBounded
  <2> QED BY <1>3, <2>1, <2>2 DEF TrySend
<1>4. ASSUME NEW r \in Router,
             Len(incoming'[r]) <= InSize, Buffered(r)',
             \A q \in Router \ {r} : Stays(q)
      PROVE  (\A q \in Router : Len(incoming[q]) <= InSize /\ Buffered(q))'
  BY <1>4 DEF BuffersAreBounded, Buffered, Stays
<1>5. ASSUME UNCHANGED <<session, phase, incoming, received, todo>>
      PROVE  (\A q \in Router : Len(incoming[q]) <= InSize /\ Buffered(q))'
  BY <1>5 DEF BuffersAreBounded, Buffered
<1>6. ASSUME NEW r \in Router, NEW ad \in Injected, Inject(r, ad)
      PROVE  BuffersAreBounded'
  BY <1>3, <1>5, <1>6, NetworkAssumption DEF Inject, BuffersAreBounded
<1>7. ASSUME NEW r \in Router, phase[r] = "receive", Collect(r), UNCHANGED todo
      PROVE  (\A q \in Router : Len(incoming[q]) <= InSize /\ Buffered(q))'
  <2>1. /\ received' = [received EXCEPT ![r] = @ \o incoming[r]]
        /\ incoming' = [incoming EXCEPT ![r] = <<>>] /\ Advance(r, "update")
    BY <1>7 DEF Collect
  <2>2. /\ Len(received[r]) <= InSize * (session[r] - 1) /\ Len(incoming[r]) <= InSize
        /\ todo[r] = <<>>
    BY <1>7 DEF BuffersAreBounded, Buffered
  <2>3. received'[r] = received[r] \o incoming[r] /\ incoming'[r] = <<>> /\ todo'[r] = <<>>
    BY <1>1, <1>7, <2>1, <2>2 DEF Shape
  <2>4. Len(received'[r]) = Len(received[r]) + Len(incoming[r])
    BY <1>1, <2>3 DEF Shape
  <2>5. Len(received'[r]) <= InSize * session[r]
    <3>1. session[r] - 1 \in Nat /\ InSize \in Nat
      BY <1>1
    <3>2. InSize * ((session[r] - 1) + 1) = InSize * (session[r] - 1) + InSize
          /\ InSize * (session[r] - 1) \in Nat
      BY <3>1, Multiples
    <3>3. (session[r] - 1) + 1 = session[r]
      BY <1>1
    <3> DEFINE a == InSize * (session[r] - 1)
    <3>4. InSize * session[r] = a + InSize /\ a \in Nat /\ Len(received[r]) <= a
      BY <2>2, <3>2, <3>3
    <3> HIDE DEF a
    <3>5. Len(received[r]) \in Nat /\ Len(incoming[r]) \in Nat /\ InSize \in Nat
      BY <1>1
    <3>6. Len(incoming[r]) <= InSize
      BY <2>2
    <3>7. Len(received[r]) + Len(incoming[r]) <= a + InSize
      <4>1. Len(received[r]) <= a /\ a \in Nat
        BY <3>4
      <4> QED BY <3>5, <3>6, <4>1, SumOfBounded
    <3> QED BY <2>4, <3>4, <3>7
  <2>6. \/ phase'[r] = "receive" /\ session'[r] - 1 = session[r]
        \/ phase'[r] = "update" /\ session[r] = Len(Sessions[r])
    BY <1>1, <1>7, <2>1 DEF Advance, Shape
  <2>7. Buffered(r)'
    BY <2>3, <2>5, <2>6 DEF Buffered
  <2>8. Len(incoming'[r]) <= InSize
    BY <1>1, <2>3
  <2>9. \A q \in Router \ {r} : Stays(q)
    BY <1>1, <1>7, <2>1 DEF Stays, Advance, Shape
  <2> QED BY <1>4, <2>7, <2>8, <2>9
<1>8. ASSUME NEW r \in Router, ReceiveNext(r) \/ EndReceive(r) PROVE BuffersAreBounded'
  <2> DEFINE link == <<Neighbour(r), r>>
  <2>1. link \in Links
    BY <1>1, LinksOfNeighbour
  <2>2. CASE EndReceive(r)
    BY <1>2, <1>7, <2>2 DEF EndReceive, BuffersAreBounded
  <2>3. CASE ReceiveNext(r)
    <3>1. /\ phase[r] = "receive" /\ channel[link] # <<>> /\ UNCHANGED todo
          /\ channel' = [channel EXCEPT ![link] = Tail(@)]
          /\ \/ /\ Len(incoming[r]) < InSize
                /\ incoming' = [incoming EXCEPT ![r] = Append(@, Head(channel[link]))]
                /\ UNCHANGED <<session, phase, received>>
             \/ Collect(r)
      BY <2>3 DEF ReceiveNext
    <3>2. /\ Len(Tail(channel[link])) = Len(channel[link]) - 1
          /\ Len(channel[link]) \in Nat
      <4>1. channel[link] \in Seq(Advertisements)
        BY <1>1, <2>1 DEF Shape
      <4> QED BY <3>1, <4>1, TailLength
    <3>3. Head(channel[link]) \in Advertisements
      BY <1>1, <2>1, <3>1, ElementsOfTail DEF Shape
    <3> HIDE DEF link
    <3>4. (\A l \in Links : Len(channel[l]) <= Bound)'
      <4>1. \A l \in Links : channel'[l] = IF l = link THEN Tail(channel[link]) ELSE channel[l]
        BY <1>1, <3>1 DEF Shape
      <4>2. Len(channel[link]) <= Bound /\ Bound \in Nat
        BY <1>1, <2>1 DEF BuffersAreBounded
      <4>3. Len(channel[link]) - 1 <= Bound
        BY <3>2, <4>2
      <4> QED BY <3>2, <4>1, <4>3 DEF BuffersAreBounded
    <3>5. ASSUME Len(incoming[r]) < InSize, UNCHANGED <<session, phase, received>>,
                 incoming' = [incoming EXCEPT ![r] = Append(@, Head(channel[link]))]
          PROVE  (\A q \in Router : Len(incoming[q]) <= InSize /\ Buffered(q))'
      <4>1. incoming'[r] = Append(incoming[r], Head(channel[link]))
        BY <1>1, <3>5 DEF Shape
      <4>2. Len(incoming'[r]) = Len(incoming[r]) + 1
        BY <1>1, <3>3, <4>1 DEF Shape
      <4>3. Len(incoming'[r]) <= InSize
        BY <1>1, <3>5, <4>2
      <4>4. \A q \in Router \ {r} : Stays(q)
        BY <1>1, <3>1, <3>5 DEF Stays, Shape
      <4>5. Buffered(r)'
        BY <3>1, <3>5 DEF BuffersAreBounded, Buffered
      <4> QED BY <1>4, <4>3, <4>4, <4>5
    <3> QED BY <1>7, <3>1, <3>4, <3>5 DEF BuffersAreBounded
  <2> QED BY <1>8, <2>2, <2>3
<1>9. ASSUME NEW r \in Router, TakeAdvertisement(r) \/ SkipAdvertisement(r)
      PROVE  BuffersAreBounded'
  <2>1. /\ phase[r] = "update" /\ received[r] # <<>>
        /\ received' = [received EXCEPT ![r] = Tail(@)]
        /\ \/ todo' = [todo EXCEPT ![r] = Operations(Head(received[r]))]
           \/ UNCHANGED todo
        /\ UNCHANGED <<channel, session, phase, incoming>>
    BY <1>9 DEF TakeAdvertisement, SkipAdvertisement
  <2>2. received'[r] = Tail(received[r]) /\ Len(Tail(received[r])) <= Len(received[r])
    BY <1>1, <2>1 DEF Shape
  <2>3. Buffered(r)'
    <3>1. Len(received[r]) <= InSize * Len(Sessions[r]) /\ incoming[r] = <<>>
      BY <2>1 DEF BuffersAreBounded, Buffered
    <3>2. Len(received'[r]) <= InSize * Len(Sessions[r])
      <4>1. InSize * Len(Sessions[r]) \in Nat /\ Len(received'[r]) \in Nat
        BY <1>1, Multiples
      <4> QED BY <1>1, <2>2, <3>1, <4>1
    <3> QED BY <2>1, <3>1, <3>2 DEF Buffered
  <2>4. \A q \in Router \ {r} : Stays(q)
    BY <1>1, <2>1 DEF Stays, Shape
  <2>5. Len(incoming'[r]) <= InSize
    BY <2>1 DEF BuffersAreBounded
  <2> QED BY <1>2, <1>4, <2>1, <2>3, <2>4, <2>5 DEF BuffersAreBounded
<1>10. ASSUME NEW r \in Router, Insert(r) \/ Remove(r) PROVE BuffersAreBounded'
  <2>1. /\ phase[r] = "update" /\ todo' = [todo EXCEPT ![r] = Tail(@)]
        /\ UNCHANGED <<channel, session, phase, incoming, received>>
    BY <1>10 DEF Insert, Remove
  <2>2. Buffered(r)' /\ Len(incoming'[r]) <= InSize
    BY <2>1 DEF BuffersAreBounded, Buffered
  <2>3. \A q \in Router \ {r} : Stays(q)
    BY <1>1, <2>1 DEF Stays, Shape
  <2> QED BY <1>2, <1>4, <2>1, <2>2, <2>3 DEF BuffersAreBounded
<1>11. ASSUME NEW r \in Router, EndUpdate(r) PROVE BuffersAreBounded'
  <2>1. /\ phase[r] = "update" /\ todo[r] = <<>> /\ received[r] = <<>>
        /\ phase' = [phase EXCEPT ![r] = "send"]
        /\ UNCHANGED <<channel, session, incoming, received, todo>>
    BY <1>11 DEF EndUpdate
  <2>2. phase'[r] = "send"
    BY <1>1, <2>1 DEF Shape
  <2>3. Buffered(r)' /\ Len(incoming'[r]) <= InSize
    BY <2>1, <2>2 DEF BuffersAreBounded, Buffered
  <2>4. \A q \in Router \ {r} : Stays(q)
    BY <1>1, <2>1 DEF Stays, Shape
  <2> QED BY <1>2, <1>4, <2>1, <2>3, <2>4 DEF BuffersAreBounded
<1>12. ASSUME NEW r \in Router, Send(r) PROVE BuffersAreBounded'
  <2> DEFINE link == <<r, Neighbour(r)>>
  <2>1. /\ link \in Links /\ TrySend(link, update[r]) /\ Advance(r, "receive")
        /\ phase[r] = "send"
        /\ UNCHANGED <<incoming, received, todo>> /\ update[r] \in Advertisements
    BY <1>1, <1>12, LinksOfNeighbour DEF Send, Shape
  <2> HIDE DEF link
  <2>2. received[r] = <<>> /\ incoming[r] = <<>> /\ todo[r] = <<>>
    BY <2>1 DEF BuffersAreBounded, Buffered
  <2>3. \/ phase'[r] = "send"
        \/ phase'[r] = "receive" /\ session'[r] = 1
    BY <1>1, <2>1 DEF Advance, Shape
  <2>4. Buffered(r)'
    <3>1. InSize * 0 = 0 /\ Len(<<>>) = 0 /\ 1 - 1 = 0
      BY <1>1, Multiples
    <3>2. CASE phase'[r] = "send"
      BY <2>1, <2>2, <3>2 DEF Buffered
    <3>3. CASE phase'[r] = "receive" /\ session'[r] = 1
      BY <2>1, <2>2, <3>1, <3>3 DEF Buffered
    <3> QED BY <2>3, <3>2, <3>3
  <2>5. \A q \in Router \ {r} : Stays(q)
    BY <1>1, <2>1 DEF Stays, Advance, Shape
  <2>6. Len(incoming'[r]) <= InSize
    BY <2>1 DEF BuffersAreBounded
  <2> QED BY <1>3, <1>4, <2>1, <2>4, <2>5, <2>6 DEF BuffersAreBounded
<1>13. CASE UNCHANGED vars
  BY <1>2, <1>5, <1>13 DEF vars, BuffersAreBounded
<1> QED BY <1>6, <1>8, <1>9, <1>10, <1>11, <1>12, <1>13 DEF Next, Work

(* No buffer outgrows its bound, and a cycle leaves nothing behind.        *)
THEOREM NetworkBuffersAreBounded == Spec => []BuffersAreBounded
<1>1. Init => BuffersAreBounded
  <2> SUFFICES ASSUME Init PROVE BuffersAreBounded
    OBVIOUS
  <2>1. Bound \in Nat /\ InSize \in Nat /\ InSize * 0 = 0 /\ Len(<<>>) = 0
    BY NetworkAssumption, Multiples
  <2>2. /\ \A link \in Links : channel[link] = <<>>
        /\ \A r \in Router : /\ incoming[r] = <<>> /\ received[r] = <<>> /\ todo[r] = <<>>
                             /\ phase[r] = "receive" /\ session[r] - 1 = 0
    BY DEF Init
  <2> QED BY <2>1, <2>2 DEF BuffersAreBounded, Buffered
<1>2. Inv /\ BuffersAreBounded /\ [Next]_vars => BuffersAreBounded'
  BY StepKeepsBuffers
<1> QED BY <1>1, <1>2, NetworkSafety, PTL DEF Spec

(* A session more, or, after the last one, the part that follows.          *)
LEMMA AdvanceIsProgress ==
  ASSUME Shape, NEW r \in Router, NEW next, Advance(r, next),
         phase[r] # "update", next = After(phase[r])
  PROVE  \/ phase'[r] = After(phase[r])
         \/ (phase'[r] = phase[r] /\ LessOfPart(r))
<1>1. CASE session' = [session EXCEPT ![r] = @ + 1] /\ UNCHANGED phase
  BY <1>1 DEF LessOfPart, Shape
<1>2. CASE session' = [session EXCEPT ![r] = 1] /\ phase' = [phase EXCEPT ![r] = next]
  BY <1>2 DEF Shape
<1> QED BY <1>1, <1>2 DEF Advance

(* No step keeps a router in a part of its cycle for nothing.              *)
THEOREM CyclesEnd == Spec => CyclesAreBounded
<1> DEFINE Onward(r) == \/ Stays(r)
                        \/ phase'[r] = After(phase[r])
                        \/ (phase'[r] = phase[r] /\ LessOfPart(r))
<1>1. ASSUME Inv, [Next]_vars PROVE \A r \in Router : Onward(r)
  <2>1. Shape
    BY <1>1 DEF Inv
  <2>2. ASSUME NEW r \in Router, Onward(r), \A q \in Router \ {r} : Stays(q)
        PROVE  \A q \in Router : Onward(q)
    BY <2>2
  <2>3. ASSUME NEW r \in Router, phase[r] = "receive", Collect(r), UNCHANGED todo
        PROVE  \A q \in Router : Onward(q)
    <3>1. Advance(r, "update") /\ "update" = After(phase[r]) /\ phase[r] # "update"
      BY <2>3 DEF Collect, After
    <3>2. Onward(r)
      BY <2>1, <3>1, AdvanceIsProgress
    <3>3. \A q \in Router \ {r} : Stays(q)
      BY <2>1, <2>3 DEF Collect, Stays, Advance, Shape
    <3> QED BY <2>2, <3>2, <3>3
  <2>4. ASSUME NEW r \in Router, ReceiveNext(r) PROVE \A q \in Router : Onward(q)
    <3> DEFINE ad == Head(channel[<<Neighbour(r), r>>])
    <3>1. /\ phase[r] = "receive" /\ UNCHANGED todo
          /\ \/ /\ incoming' = [incoming EXCEPT ![r] = Append(@, ad)]
                /\ UNCHANGED <<session, phase, received>>
             \/ Collect(r)
      BY <2>4 DEF ReceiveNext
    <3> HIDE DEF ad
    <3>2. CASE /\ incoming' = [incoming EXCEPT ![r] = Append(@, ad)]
               /\ UNCHANGED <<session, phase, received>>
      <4>1. incoming'[r] = Append(incoming[r], ad) /\ incoming[r] \in Seq(Advertisements)
        BY <2>1, <3>2 DEF Shape
      <4>2. Len(incoming'[r]) = Len(incoming[r]) + 1
        BY <4>1
      <4>3. LessOfPart(r)
        BY <3>1, <3>2, <4>2 DEF LessOfPart
      <4>4. \A q \in Router \ {r} : Stays(q)
        BY <2>1, <3>1, <3>2 DEF Stays, Shape
      <4> QED BY <2>2, <3>2, <4>3, <4>4
    <3> QED BY <2>3, <3>1, <3>2
  <2>5. ASSUME NEW r \in Router, EndReceive(r) PROVE \A q \in Router : Onward(q)
    BY <2>3, <2>5 DEF EndReceive
  <2>6. ASSUME NEW r \in Router, TakeAdvertisement(r) \/ SkipAdvertisement(r)
        PROVE  \A q \in Router : Onward(q)
    <3>1. /\ phase[r] = "update" /\ received[r] # <<>>
          /\ received' = [received EXCEPT ![r] = Tail(@)]
          /\ \/ todo' = [todo EXCEPT ![r] = Operations(Head(received[r]))]
             \/ UNCHANGED todo
          /\ UNCHANGED <<session, phase, incoming>>
      BY <2>6 DEF TakeAdvertisement, SkipAdvertisement
    <3>2. received'[r] = Tail(received[r]) /\ received[r] \in Seq(Advertisements)
      BY <2>1, <3>1 DEF Shape
    <3>3. Len(received'[r]) < Len(received[r])
      <4>1. /\ Len(Tail(received[r])) = Len(received[r]) - 1
            /\ Len(received[r]) \in Nat
        BY <3>1, <3>2, TailLength
      <4> QED BY <3>2, <4>1
    <3>4. \A q \in Router \ {r} : Stays(q)
      BY <2>1, <3>1 DEF Stays, Shape
    <3>5. LessOfPart(r)
      BY <3>1, <3>3 DEF LessOfPart
    <3> QED BY <2>2, <3>1, <3>4, <3>5
  <2>7. ASSUME NEW r \in Router, Insert(r) \/ Remove(r) PROVE \A q \in Router : Onward(q)
    <3>1. /\ phase[r] = "update" /\ todo[r] # <<>>
          /\ todo' = [todo EXCEPT ![r] = Tail(@)]
          /\ UNCHANGED <<session, phase, incoming, received>>
      BY <2>7 DEF Insert, Remove
    <3>2. Len(todo'[r]) < Len(todo[r])
      <4>1. todo'[r] = Tail(todo[r])
        BY <2>1, <3>1 DEF Shape
      <4>2. PICK T : todo[r] \in Seq(T)
        BY <2>1 DEF Shape
      <4>3. Len(Tail(todo[r])) = Len(todo[r]) - 1 /\ Len(todo[r]) \in Nat
        BY <3>1, <4>2, TailLength
      <4> QED BY <4>1, <4>3
    <3>3. LessOfPart(r)
      BY <3>1, <3>2 DEF LessOfPart
    <3>4. \A q \in Router \ {r} : Stays(q)
      BY <2>1, <3>1 DEF Stays, Shape
    <3> QED BY <2>2, <3>1, <3>3, <3>4
  <2>8. ASSUME NEW r \in Router, EndUpdate(r) PROVE \A q \in Router : Onward(q)
    <3>1. /\ phase[r] = "update" /\ phase' = [phase EXCEPT ![r] = "send"]
          /\ UNCHANGED <<session, incoming, received, todo>>
      BY <2>8 DEF EndUpdate
    <3>2. phase'[r] = After(phase[r])
      BY <2>1, <3>1 DEF After, Shape
    <3>3. \A q \in Router \ {r} : Stays(q)
      BY <2>1, <3>1 DEF Stays, Shape
    <3> QED BY <2>2, <3>2, <3>3
  <2>9. ASSUME NEW r \in Router, Send(r) PROVE \A q \in Router : Onward(q)
    <3>1. /\ phase[r] = "send" /\ Advance(r, "receive")
          /\ UNCHANGED <<incoming, received, todo>>
      BY <2>9 DEF Send
    <3>2. "receive" = After(phase[r]) /\ phase[r] # "update"
      BY <3>1 DEF After
    <3>3. Onward(r)
      BY <2>1, <3>1, <3>2, AdvanceIsProgress
    <3>4. \A q \in Router \ {r} : Stays(q)
      BY <2>1, <3>1 DEF Stays, Advance, Shape
    <3> QED BY <2>2, <3>3, <3>4
  <2>10. ASSUME NEW r \in Router, NEW ad \in Injected, Inject(r, ad)
         PROVE  \A q \in Router : Onward(q)
    BY <2>10 DEF Inject, Stays
  <2>11. CASE UNCHANGED vars
    BY <2>11 DEF vars, Stays
  <2> QED BY <1>1, <2>4, <2>5, <2>6, <2>7, <2>8, <2>9, <2>10, <2>11 DEF Next, Work
<1> QED BY <1>1, NetworkSafety, PTL DEF Spec, CyclesAreBounded
=============================================================================
