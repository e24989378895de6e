----------------------------- MODULE BgpNetwork -----------------------------
(***************************************************************************)
(* A network of routers: Router::work of src/modules/router.rs, the BGP    *)
(* process of src/components/bgp/bgp_process.rs, its sessions              *)
(* (bgp_session.rs) over the links that NetworkManager::new_interface_pair *)
(* makes.  Each router runs in a thread and repeats one cycle: it empties  *)
(* the links of its sessions one by one, updates its RIB, and sends one    *)
(* advertisement of the new best routes to all sessions, also to those it  *)
(* has the routes from, and also if there is nothing new.                  *)
(*                                                                         *)
(* insert_router leaves each process the RIB it was created with: a RIB is *)
(* used by one router, and a mask of one bit does for it.  A send finds an *)
(* empty outgoing buffer, which holds the one advertisement.  Filters,     *)
(* resizing and dropped links are in module Interface.                     *)
(***************************************************************************)
EXTENDS RibTable, Advertisement

CONSTANTS
  Router,          (* the routers                                          *)
  Outside,         (* the speaker whose advertisements enter the network   *)
  Sessions,        (* the neighbours each router has sessions with, a      *)
                   (* sequence in the order of the sessions                *)
  Address,         (* config.ip of each router's process, which several    *)
                   (* routers may share, as those of main.rs do            *)
  Bound,           (* link_buffer_size                                     *)
  InSize,          (* buffer_size_incoming                                 *)
  Injected,        (* the advertisements that enter the network            *)
  MaxInjected,     (* bound: advertisements entering                       *)
  MaxReported      (* bound: new best routes of one cycle                  *)

Adjacent(s, r) == r \in Router /\ \E i \in DOMAIN Sessions[r] : Sessions[r][i] = s
Links == { link \in (Router \cup {Outside}) \X (Router \cup {Outside}) :
             Adjacent(link[1], link[2]) \/ Adjacent(link[2], link[1]) }

ASSUME NetworkAssumption ==
  /\ Outside \notin Router
  /\ \A r \in Router :
       Sessions[r] \in Seq((Router \cup {Outside}) \ {r}) /\ Sessions[r] # <<>>
  /\ Address \in [Router -> Peer]
  /\ {Bound, InSize, MaxInjected, MaxReported} \subseteq Nat
  /\ Injected \subseteq Advertisements
  /\ <<>> \in Path

VARIABLES
  channel,     (* the messages on each link                                *)
  session,     (* the number of the session a router is at                 *)
  phase,       (* what the router does there: receive, update or send      *)
  incoming,    (* incoming_advertisements of the session's interface       *)
  received,    (* what this cycle's receive has collected                  *)
  todo,        (* the operations left of the advertisement it applies      *)
  table,       (* the RIB of each router                                   *)
  news,        (* bestroute_updates of its RIB interface                   *)
  update,      (* the advertisement generated in this cycle                *)
  injected,    (* the number of advertisements that have entered           *)
  withdrawn    (* history: the routers that have removed a route           *)

vars == <<channel, session, phase, incoming, received, todo, table, news, update, injected, withdrawn>>

Neighbour(r) == Sessions[r][session[r]]

(* try_send: the message goes onto the link if there is room, or is lost.  *)
TrySend(link, ad) ==
  channel' = IF Len(channel[link]) < Bound
             THEN [channel EXCEPT ![link] = Append(@, ad)]
             ELSE channel

-----------------------------------------------------------------------------
Inject(r, ad) ==
  /\ <<Outside, r>> \in Links
  /\ injected < MaxInjected
  /\ injected' = injected + 1
  /\ TrySend(<<Outside, r>>, ad)
  /\ UNCHANGED <<session, phase, incoming, received, todo, table, news, update, withdrawn>>

-----------------------------------------------------------------------------
(* BgpProcess::receive, session by session.                                *)

(* A faulty variant that goes one session too far.                         *)
AdvanceTooFar(r, next) ==
  IF session[r] <= Len(Sessions[r])
  THEN session' = [session EXCEPT ![r] = @ + 1] /\ UNCHANGED phase
  ELSE session' = [session EXCEPT ![r] = 1] /\ phase' = [phase EXCEPT ![r] = next]

(* The next session, or, after the last one, the next part of the cycle.   *)
Advance(r, next) ==
  IF session[r] < Len(Sessions[r])
  THEN session' = [session EXCEPT ![r] = @ + 1] /\ UNCHANGED phase
  ELSE session' = [session EXCEPT ![r] = 1] /\ phase' = [phase EXCEPT ![r] = next]

Collect(r) ==
  /\ received' = [received EXCEPT ![r] = @ \o incoming[r]]
  /\ incoming' = [incoming EXCEPT ![r] = <<>>]
  /\ Advance(r, "update")

(* A faulty variant that goes on receiving when the buffer is full.        *)
ReceiveGoesOn(r) ==
  LET link == <<Neighbour(r), r>> IN
  /\ phase[r] = "receive" /\ channel[link] # <<>>
  /\ channel' = [channel EXCEPT ![link] = Tail(@)]
  /\ incoming' = IF Len(incoming[r]) < InSize
                 THEN [incoming EXCEPT ![r] = Append(@, Head(channel[link]))]
                 ELSE incoming
  /\ UNCHANGED <<session, phase, received, todo, table, news, update, injected, withdrawn>>

(* The next message goes into the buffer of the interface.  If that is     *)
(* full, the message is lost, and receive is done with the session.        *)
ReceiveNext(r) ==
  LET link == <<Neighbour(r), r>> IN
  /\ phase[r] = "receive" /\ channel[link] # <<>>
  /\ channel' = [channel EXCEPT ![link] = Tail(@)]
  /\ \/ /\ Len(incoming[r]) < InSize
        /\ incoming' = [incoming EXCEPT ![r] = Append(@, Head(channel[link]))]
        /\ UNCHANGED <<session, phase, received>>
     \/ /\ Len(incoming[r]) >= InSize
        /\ Collect(r)
  /\ UNCHANGED <<todo, table, news, update, injected, withdrawn>>

EndReceive(r) ==
  /\ phase[r] = "receive" /\ channel[<<Neighbour(r), r>>] = <<>>
  /\ Collect(r)
  /\ UNCHANGED <<channel, todo, table, news, update, injected, withdrawn>>

-----------------------------------------------------------------------------
(* BgpRibInterface::update for each advertisement, on a RIB of one's own,  *)
(* operation by operation; get_best_route_changes and                      *)
(* generate_advertisement.                                                 *)

Mask == {0}
NoNews == [new |-> <<>>, gone |-> <<>>]

TakeAdvertisement(r) ==
  /\ phase[r] = "update" /\ todo[r] = <<>> /\ received[r] # <<>>
  /\ todo' = [todo EXCEPT ![r] = Operations(Head(received[r]))]
  /\ received' = [received EXCEPT ![r] = Tail(@)]
  /\ UNCHANGED <<channel, session, phase, incoming, table, news, update, injected, withdrawn>>

(* try_lock_with_timeout tries as long as its 100 ms have not passed, also *)
(* for the first time: the thread may get to it too late, and update skips *)
(* the advertisement.                                                      *)
SkipAdvertisement(r) ==
  /\ phase[r] = "update" /\ todo[r] = <<>> /\ received[r] # <<>>
  /\ received' = [received EXCEPT ![r] = Tail(@)]
  /\ UNCHANGED <<channel, session, phase, incoming, todo, table, news, update, injected, withdrawn>>

Insert(r) ==
  LET route == Head(todo[r]).route IN
  /\ phase[r] = "update" /\ todo[r] # <<>> /\ Head(todo[r]).kind = "insert"
  /\ Len(news[r].new) < MaxReported
  /\ table' = [table EXCEPT ![r] = TableInsert(@, Mask, route)]
  /\ news' = [news EXCEPT ![r].new = Extend(@, NewBest(table[r], route))]
  /\ todo' = [todo EXCEPT ![r] = Tail(@)]
  /\ UNCHANGED <<channel, session, phase, incoming, received, update, injected, withdrawn>>

Remove(r) ==
  LET route == Head(todo[r]).route IN
  /\ phase[r] = "update" /\ todo[r] # <<>> /\ Head(todo[r]).kind = "remove"
  /\ table' = [table EXCEPT ![r] = TableRemove(@, Mask, route)]
  /\ news' = [news EXCEPT ![r].gone = Extend(@, WithdrawnBest(table[r], route))]
  /\ todo' = [todo EXCEPT ![r] = Tail(@)]
  /\ withdrawn' = withdrawn \cup {r}
  /\ UNCHANGED <<channel, session, phase, incoming, received, update, injected>>

(* A faulty variant that forgets the next hop.                             *)
GenerateWithOwnHop(r, new, gone) ==
  [peer |-> Address[r], path |-> <<>>,
   announcements |-> [i \in DOMAIN new |-> [hop |-> NoHop, prefix |-> new[i].prefix]],
   withdrawals |-> [i \in DOMAIN gone |-> gone[i].prefix]]

(* The advertisement has this router's address as its peer, the next hops  *)
(* it was told, and no path.                                               *)
Generate(r, new, gone) ==
  [peer |-> Address[r], path |-> <<>>,
   announcements |-> [i \in DOMAIN new |-> [hop |-> new[i].hop, prefix |-> new[i].prefix]],
   withdrawals |-> [i \in DOMAIN gone |-> gone[i].prefix]]

EndUpdate(r) ==
  /\ phase[r] = "update" /\ todo[r] = <<>> /\ received[r] = <<>>
  /\ update' = [update EXCEPT ![r] = Generate(r, news[r].new, news[r].gone)]
  /\ news' = [news EXCEPT ![r] = NoNews]
  /\ phase' = [phase EXCEPT ![r] = "send"]
  /\ UNCHANGED <<channel, session, incoming, received, todo, table, injected, withdrawn>>

-----------------------------------------------------------------------------
(* BgpProcess::send: to every session, whatever the advertisement says.    *)
Send(r) ==
  /\ phase[r] = "send"
  /\ TrySend(<<r, Neighbour(r)>>, update[r])
  /\ Advance(r, "receive")
  /\ UNCHANGED <<incoming, received, todo, table, news, update, injected, withdrawn>>

-----------------------------------------------------------------------------
Empty(r) == Generate(r, <<>>, <<>>)

Init ==
  /\ channel = [link \in Links |-> <<>>]
  /\ session = [r \in Router |-> 1]
  /\ phase = [r \in Router |-> "receive"]
  /\ incoming = [r \in Router |-> <<>>]
  /\ received = [r \in Router |-> <<>>]
  /\ todo = [r \in Router |-> <<>>]
  /\ table = [r \in Router |-> EmptyTable]
  /\ news = [r \in Router |-> NoNews]
  /\ update = [r \in Router |-> Empty(r)]
  /\ injected = 0
  /\ withdrawn = {}

Work(r) ==
  \/ ReceiveNext(r) \/ EndReceive(r)
  \/ TakeAdvertisement(r) \/ SkipAdvertisement(r)
  \/ Insert(r) \/ Remove(r) \/ EndUpdate(r)
  \/ Send(r)

Next ==
  \/ \E r \in Router, ad \in Injected : Inject(r, ad)
  \/ \E r \in Router : Work(r)

Spec == Init /\ [][Next]_vars

(* The thread of each router goes on.                                      *)
FairSpec == Spec /\ \A r \in Router : WF_vars(Work(r))

-----------------------------------------------------------------------------
ElementsOf(s) == { s[i] : i \in DOMAIN s }

Holds(r, p, hop) == p \in DOMAIN table[r] /\ \E x \in table[r][p] : x.route.hop = hop

TypeOK ==
  /\ \A link \in Links : ElementsOf(channel[link]) \subseteq Advertisements
  /\ \A r \in Router :
       /\ session[r] \in DOMAIN Sessions[r]
       /\ phase[r] \in {"receive", "update", "send"}
       /\ ElementsOf(incoming[r]) \cup ElementsOf(received[r]) \cup {update[r]}
            \subseteq Advertisements
       /\ \A op \in ElementsOf(todo[r]) : op.kind \in {"insert", "remove"} /\ op.route \in Routes
       /\ \A p \in DOMAIN table[r] :
            /\ table[r][p] # {} /\ IsVec(table[r][p])
            /\ \A x \in table[r][p] : x.route \in Routes /\ x.mask = Mask
  /\ injected \in 0 .. MaxInjected /\ withdrawn \subseteq Router

(* The route was announced from outside to this router.                    *)
FromOutside(route, r) ==
  /\ <<Outside, r>> \in Links
  /\ \E ad \in Injected : route \in ElementsOf(GetAnnouncements(ad))

(* A neighbour of the address in the route holds one to the same prefix    *)
(* over the same next hop, unless it has removed a route, for withdrawals  *)
(* do not follow.  A relayed route has no path.                            *)
FromNeighbour(route, r) ==
  /\ route.path = <<>>
  /\ \E s \in Router : /\ <<s, r>> \in Links /\ route.peer = Address[s]
                       /\ s \in withdrawn \/ Holds(s, route.prefix, route.hop)

Accounted(route, r) == FromOutside(route, r) \/ FromNeighbour(route, r)

(* No echo, loss or stale update makes a router announce what it has not.  *)
(* What a router has put on a link it still holds, unless it has removed a *)
(* route.  What a router has received, and what it has learnt, has come    *)
(* from outside, or a neighbour still holds it.  Addresses do not matter:  *)
(* if routers share one, the neighbour is one of them.                     *)
LearnedRoutesAreHeld ==
  \A r \in Router :
    /\ \A p \in DOMAIN table[r] : \A x \in table[r][p] : Accounted(x.route, r)
    /\ \A ad \in ElementsOf(incoming[r]) \cup ElementsOf(received[r]) :
         \A route \in ElementsOf(GetAnnouncements(ad)) : Accounted(route, r)
    /\ \A s \in Router \ withdrawn : <<s, r>> \in Links =>
         \A ad \in ElementsOf(channel[<<s, r>>]) :
           \A route \in ElementsOf(GetAnnouncements(ad)) : Holds(s, route.prefix, route.hop)

(* No router is kept in receive for ever by a neighbour that sends as fast *)
(* as it receives: every router sends again and again.                     *)
RoutersKeepSending == \A r \in Router : []<>(phase[r] = "send")

-----------------------------------------------------------------------------
(* main.rs, 92: "Stop the network - Give time for the network to           *)
(* stabilize".  After the last injection, the routers at some time have no *)
(* news for each other any more.                                           *)
NewsInFlight ==
  \E r \in Router : \E link \in Links :
    /\ link[2] = r
    /\ \E ad \in ElementsOf(channel[link]) : ad.announcements # <<>>
NetworkStabilizes == <>[](~ NewsInFlight)
=============================================================================
