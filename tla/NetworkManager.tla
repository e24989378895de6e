--------------------------- MODULE NetworkManager ---------------------------
(***************************************************************************)
(* NetworkManager of src/modules/network.rs with the ThreadManager it      *)
(* borrows (src/utils/thread_manager.rs): an owner builds a network from a *)
(* topology, turns its routers into state machines, starts and stops them, *)
(* and joins all threads.  A state machine is what module StateMachine     *)
(* shows of one: it takes a command from its channel, of capacity 1,       *)
(* between two calls of work, ends some time after it has taken a stop,    *)
(* and may panic in work.                                                  *)
(*                                                                         *)
(* Routers are numbered as they are made; made[k] is the id of router k.   *)
(* A HashMap is iterated in any order.  Channels are those of MessageBus.  *)
(***************************************************************************)
EXTENDS MessageBus, Sequences

CONSTANTS
  RouterId,      (* Uuids of routers                                       *)
  Options,       (* the default of a vertex                                *)
  Connections,   (* the edges that are added to a topology                 *)
  Name,          (* ids that users give to channels, not positive          *)
  MaxRouters,    (* bound: routers made                                    *)
  MaxEdges,      (* bound: edges of the topology                           *)
  MaxNamed       (* bound: channels made when one is made under a name     *)

Graph == INSTANCE Topology WITH Default <- Options

ASSUME ManagerAssumption ==
  /\ Connections \subseteq RouterId \X RouterId
  /\ Name \subseteq Int /\ \A id \in Name : id <= 0
  /\ MaxRouters \in Nat /\ MaxEdges \in Nat /\ MaxNamed \in Nat

VARIABLES
  bus,         (* the registry of channels                                 *)
  held,        (* the receivers that users of named channels hold          *)
  manager,     (* none, building (in from_topology), there or dropped      *)
  graph,       (* the topology the network is built from                   *)
  made,        (* the ids of the routers made                              *)
  table,       (* routers                                                  *)
  sessions,    (* the sessions, with their router and the ends they hold   *)
  sm,          (* router_sm                                                *)
  machine,     (* the runner of a router's state machine                   *)
  mailbox,     (* its channel                                              *)
  handles,     (* thread_handles                                           *)
  call,        (* what the owner is doing                                  *)
  todo,        (* the edges, routers or threads it has still to do it with *)
  joining,     (* the thread it waits for                                  *)
  answer       (* what start or stop has returned last                     *)

networkVars == <<graph, made, table, sessions>>
machineVars == <<machine, mailbox>>
ownerVars == <<call, todo, joining, answer>>
vars == <<bus, held, manager, networkVars, sm, machineVars, handles, ownerVars>>

topology == graph.edges
Keys(t) == [i \in DOMAIN t.vertices |-> t.vertices[i].key]

Outside == 0   (* whoever has a session and is no router, the parser       *)

Ended(r) == machine[r] \in {"ended", "panicked"}
Free == call = "idle"
Uses == Free /\ manager = "there"

-----------------------------------------------------------------------------
(* The ThreadManager's channels, while no manager borrows it.              *)
Unborrowed == Free /\ manager \in {"none", "dropped"}
KeepNetwork == UNCHANGED <<manager, networkVars, sm, machineVars, handles, ownerVars>>

Create(id) ==
  /\ Unborrowed /\ CanCreate(bus, id) /\ bus.made < MaxNamed
  /\ bus' = CreateChannel(bus, id)
  /\ UNCHANGED held /\ KeepNetwork

TakeReceiver(id) ==
  /\ Unborrowed /\ CanSubscribe(bus, id)
  /\ held' = held \cup {bus.receivers[id]}
  /\ bus' = Subscribe(bus, id)
  /\ KeepNetwork

TakePair(id) ==
  /\ Unborrowed /\ CanPair(bus, id)
  /\ ChannelExists(bus, id) \/ bus.made < MaxNamed
  /\ held' = held \cup {Ensure(bus, id).receivers[id]}
  /\ bus' = ChannelPair(bus, id)
  /\ KeepNetwork

StopChannel(id) ==
  /\ Unborrowed
  /\ bus' = Stop(bus, id)
  /\ UNCHANGED held /\ KeepNetwork

StopAllChannels ==
  /\ Unborrowed
  /\ bus' = StopAll(bus)
  /\ UNCHANGED held /\ KeepNetwork

-----------------------------------------------------------------------------
(* The topology, which is not changed any more once a network was built.   *)

AddRouter(id) ==
  /\ Free /\ manager = "none"
  /\ graph' = Graph!AddVertex(graph, id, Options)
  /\ Len(graph'.vertices) <= MaxRouters
  /\ UNCHANGED <<bus, held, manager, made, table, sessions, sm, machineVars, handles, ownerVars>>

AddConnection(edge) ==
  /\ Free /\ manager = "none"
  /\ Len(topology) < MaxEdges
  /\ graph' = Graph!AddEdge(graph, edge)
  /\ Len(graph'.vertices) <= MaxRouters
  /\ UNCHANGED <<bus, held, manager, made, table, sessions, sm, machineVars, handles, ownerVars>>

-----------------------------------------------------------------------------
(* from_topology: a router for each vertex, then a link for each edge.     *)

Loop(edge) == edge[1] = edge[2]

BeginFromTopology ==
  LET keys == Keys(graph) IN
  /\ Free /\ manager = "none"
  /\ manager' = "building"
  /\ made' = keys
  /\ table' = DOMAIN keys
  /\ IF \E i, j \in DOMAIN keys : i # j /\ keys[i] = keys[j]
     THEN call' = "panicked" /\ UNCHANGED todo     \* insert_router
     ELSE call' = "connect" /\ todo' = DOMAIN topology
  /\ UNCHANGED <<bus, held, graph, sessions, sm, machineVars, handles, joining, answer>>

(* A faulty variant that gives each interface the ends of one channel.     *)
LinkToItself(n, a, b) ==
  { [link |-> n, router |-> a, out |-> bus.made + 1, in |-> bus.made + 1],
    [link |-> n, router |-> b, out |-> bus.made + 2, in |-> bus.made + 2] }

(* new_bgp_session_pair, new_interface_pair: two channels, the first from  *)
(* the first interface to the second, the second back.                     *)
NewLink(n, a, b) ==
  { [link |-> n, router |-> a, out |-> bus.made + 1, in |-> bus.made + 2],
    [link |-> n, router |-> b, out |-> bus.made + 2, in |-> bus.made + 1] }

(* get_disjoint_mut panics if both ends are one router.                    *)
ConnectNext(i, a, b) ==
  /\ call = "connect" /\ i \in todo /\ \A j \in todo : i <= j
  /\ {a, b} \subseteq table /\ <<made[a], made[b]>> = topology[i]
  /\ bus' = NewPair(NewPair(bus))
  /\ IF a = b
     THEN call' = "panicked" /\ UNCHANGED <<sessions, todo>>
     ELSE /\ sessions' = sessions \cup NewLink(i, a, b)
          /\ todo' = todo \ {i}
          /\ UNCHANGED call
  /\ UNCHANGED <<held, manager, graph, made, table, sm, machineVars, handles, joining, answer>>

EndFromTopology ==
  /\ call = "connect" /\ todo = {}
  /\ call' = "idle"
  /\ manager' = "there"
  /\ UNCHANGED <<bus, held, networkVars, sm, machineVars, handles, todo, joining, answer>>

-----------------------------------------------------------------------------
(* What main does to a network before it starts it: a session with the     *)
(* parser.  A router that runs is not in the table any more.               *)
Feed(a) ==
  /\ Uses /\ a \in table
  /\ ~ \E s \in sessions : s.router = Outside
  /\ bus' = NewPair(NewPair(bus))
  /\ sessions' = sessions \cup NewLink(Len(topology) + 1, Outside, a)
  /\ UNCHANGED <<held, manager, graph, made, table, sm, machineVars, handles, ownerVars>>

(* The router that has a session with the parser works on the manager's    *)
(* RIB, the others on those of their processes.                            *)
Fed(r) == \E s, t \in sessions : s.router = Outside /\ t.link = s.link /\ t.router = r

(* get_rib_clone unwraps the lock, which the panic of a router under it    *)
(* has poisoned; where a router panics is not modelled here.               *)
CloneRibPanics ==
  /\ Uses /\ \E r \in DOMAIN made : Fed(r) /\ machine[r] = "panicked"
  /\ call' = "panicked"
  /\ UNCHANGED <<bus, held, manager, networkVars, sm, machineVars, handles, todo, joining, answer>>

(* insert_router knows the routers that do not run yet.                    *)
InsertRouter(id) ==
  /\ Uses /\ Len(made) < MaxRouters
  /\ made' = Append(made, id)
  /\ IF \E k \in table : made[k] = id
     THEN call' = "panicked" /\ UNCHANGED table
     ELSE table' = table \cup {Len(made) + 1} /\ UNCHANGED call
  /\ UNCHANGED <<bus, held, manager, graph, sessions, sm, machineVars, handles, todo, joining, answer>>

-----------------------------------------------------------------------------
(* start and stop.                                                         *)

BeginStart ==
  /\ Uses
  /\ call' = "create"
  /\ todo' = table
  /\ table' = {}
  /\ answer' = "none"
  /\ UNCHANGED <<bus, held, manager, graph, made, sessions, sm, machineVars, handles, joining>>

(* A state machine for a router drained.  Inserting it drops that of a     *)
(* running router of the same id; its thread goes on.                      *)
CreateNext(r) ==
  /\ call = "create" /\ r \in todo
  /\ bus' = NewPair(bus)
  /\ machine' = [machine EXCEPT ![r] = "waiting"]
  /\ handles' = handles \cup {r}
  /\ sm' = { k \in sm : made[k] # made[r] } \cup {r}
  /\ todo' = todo \ {r}
  /\ UNCHANGED <<held, manager, networkVars, mailbox, call, joining, answer>>

EndCreate ==
  /\ call = "create" /\ todo = {}
  /\ call' = "start"
  /\ todo' = sm
  /\ UNCHANGED <<bus, held, manager, networkVars, sm, machineVars, handles, joining, answer>>

(* A faulty variant that stops those only that have begun to work.         *)
BeginStopRunning ==
  /\ Uses
  /\ call' = "stop"
  /\ todo' = { r \in sm : machine[r] = "running" }
  /\ answer' = "none"
  /\ UNCHANGED <<bus, held, manager, networkVars, sm, machineVars, handles, joining>>

BeginStop ==
  /\ Uses
  /\ call' = "stop"
  /\ todo' = sm
  /\ answer' = "none"
  /\ UNCHANGED <<bus, held, manager, networkVars, sm, machineVars, handles, joining>>

(* A faulty variant that does not wait for room.                           *)
SendAnyway(r) ==
  /\ call \in {"start", "stop"} /\ r \in todo
  /\ ~ Ended(r)
  /\ mailbox' = [mailbox EXCEPT ![r] = Append(@, call)]
  /\ todo' = todo \ {r}
  /\ UNCHANGED <<bus, held, manager, networkVars, sm, machine, handles, call, joining, answer>>

(* send waits for room in the channel.                                     *)
SendNext(r) ==
  /\ call \in {"start", "stop"} /\ r \in todo
  /\ ~ Ended(r) /\ mailbox[r] = <<>>
  /\ mailbox' = [mailbox EXCEPT ![r] = <<call>>]
  /\ todo' = todo \ {r}
  /\ UNCHANGED <<bus, held, manager, networkVars, sm, machine, handles, call, joining, answer>>

(* A faulty variant that breaks the loop and returns Ok.                   *)
SendBreaks(r) ==
  /\ call \in {"start", "stop"} /\ r \in todo
  /\ Ended(r)
  /\ call' = "idle"
  /\ todo' = {}
  /\ answer' = IF call = "start" THEN "started" ELSE "stopped"
  /\ UNCHANGED <<bus, held, manager, networkVars, sm, machineVars, handles, joining>>

(* A machine that has ended makes start and stop return at once: whatever  *)
(* comes after it in the HashMap gets no command.                          *)
SendFails(r) ==
  /\ call \in {"start", "stop"} /\ r \in todo
  /\ Ended(r)
  /\ call' = "idle"
  /\ todo' = {}
  /\ answer' = "failed"
  /\ UNCHANGED <<bus, held, manager, networkVars, sm, machineVars, handles, joining>>

EndSend ==
  /\ call \in {"start", "stop"} /\ todo = {}
  /\ call' = "idle"
  /\ answer' = IF call = "start" THEN "started" ELSE "stopped"
  /\ UNCHANGED <<bus, held, manager, networkVars, sm, machineVars, handles, todo, joining>>

-----------------------------------------------------------------------------
(* The runners.                                                            *)

Take(r) ==
  /\ machine[r] \in {"waiting", "running"} /\ mailbox[r] # <<>>
  /\ machine' = [machine EXCEPT ![r] = IF mailbox[r] = <<"start">> THEN "running" ELSE "stopping"]
  /\ mailbox' = [mailbox EXCEPT ![r] = <<>>]
  /\ UNCHANGED <<bus, held, manager, networkVars, sm, handles, ownerVars>>

(* The channel goes with the thread, and with it a command that came       *)
(* after the stop was taken, although its send has returned Ok.            *)
End(r) ==
  /\ machine[r] = "stopping"
  /\ machine' = [machine EXCEPT ![r] = "ended"]
  /\ mailbox' = [mailbox EXCEPT ![r] = <<>>]
  /\ UNCHANGED <<bus, held, manager, networkVars, sm, handles, ownerVars>>

Panic(r) ==
  /\ machine[r] = "running"
  /\ machine' = [machine EXCEPT ![r] = "panicked"]
  /\ mailbox' = [mailbox EXCEPT ![r] = <<>>]
  /\ UNCHANGED <<bus, held, manager, networkVars, sm, handles, ownerVars>>

-----------------------------------------------------------------------------
(* The end: the manager is dropped, and the thread manager joins all       *)
(* threads.                                                                *)
DropManager ==
  /\ Uses
  /\ manager' = "dropped"
  /\ UNCHANGED <<bus, held, networkVars, sm, machineVars, handles, ownerVars>>

BeginJoinAll ==
  /\ Unborrowed
  /\ call' = "join"
  /\ todo' = handles
  /\ handles' = {}
  /\ UNCHANGED <<bus, held, manager, networkVars, sm, machineVars, joining, answer>>

PickJoin(r) ==
  /\ call = "join" /\ joining = {} /\ r \in todo
  /\ joining' = {r}
  /\ todo' = todo \ {r}
  /\ UNCHANGED <<bus, held, manager, networkVars, sm, machineVars, handles, call, answer>>

(* join().unwrap() panics if the thread has.                               *)
JoinNext(r) ==
  /\ call = "join" /\ r \in joining /\ Ended(r)
  /\ IF machine[r] = "panicked"
     THEN call' = "panicked" /\ UNCHANGED joining
     ELSE joining' = {} /\ UNCHANGED call
  /\ UNCHANGED <<bus, held, manager, networkVars, sm, machineVars, handles, todo, answer>>

EndJoinAll ==
  /\ call = "join" /\ joining = {} /\ todo = {}
  /\ call' = "idle"
  /\ UNCHANGED <<bus, held, manager, networkVars, sm, machineVars, handles, todo, joining, answer>>

-----------------------------------------------------------------------------
Init ==
  /\ bus = NewBus /\ held = {}
  /\ manager = "none" /\ graph = Graph!NewTopology /\ made = <<>> /\ table = {} /\ sessions = {}
  /\ sm = {} /\ handles = {}
  /\ machine = [r \in 1 .. MaxRouters |-> "none"]
  /\ mailbox = [r \in 1 .. MaxRouters |-> <<>>]
  /\ call = "idle" /\ todo = {} /\ joining = {} /\ answer = "none"

UseBus ==
  \/ \E id \in Name : Create(id) \/ TakeReceiver(id) \/ TakePair(id) \/ StopChannel(id)
  \/ StopAllChannels
BeginCall ==
  \/ \E id \in RouterId : AddRouter(id)
  \/ \E edge \in Connections : AddConnection(edge)
  \/ BeginFromTopology
  \/ \E a \in table : Feed(a)
  \/ \E id \in RouterId : InsertRouter(id)
  \/ CloneRibPanics
  \/ BeginStart \/ BeginStop \/ DropManager \/ BeginJoinAll
EndCall ==
  \/ \E i \in todo, a, b \in table : ConnectNext(i, a, b)
  \/ EndFromTopology
  \/ \E r \in todo : CreateNext(r) \/ SendNext(r) \/ SendFails(r) \/ PickJoin(r)
  \/ EndCreate \/ EndSend \/ EndJoinAll
  \/ \E r \in joining : JoinNext(r)
Runner(r) == Take(r) \/ End(r) \/ Panic(r)

Next ==
  \/ UseBus \/ BeginCall \/ EndCall
  \/ \E r \in 1 .. MaxRouters : Runner(r)

(* The owner goes on with a call that does not block, and a runner polls   *)
(* its channel as long as it lives.                                        *)
Spec ==
  /\ Init /\ [][Next]_vars
  /\ WF_vars(EndCall) /\ \A r \in 1 .. MaxRouters : WF_vars(Take(r) \/ End(r))

-----------------------------------------------------------------------------
TypeOK ==
  /\ manager \in {"none", "building", "there", "dropped"}
  /\ graph \in [vertices : Seq([key : RouterId, value : {Options}]), edges : Seq(Connections)]
  /\ made \in Seq(RouterId) /\ Len(made) <= MaxRouters
  /\ table \cup sm \cup handles \cup joining \subseteq DOMAIN made
  /\ machine \in [1 .. MaxRouters ->
                  {"none", "waiting", "running", "stopping", "ended", "panicked"}]
  /\ mailbox \in [1 .. MaxRouters -> {<<>>, <<"start">>, <<"stop">>}]
  /\ call \in {"idle", "connect", "create", "start", "stop", "join", "panicked"}
  /\ answer \in {"none", "started", "stopped", "failed"}

(* The owner panics for four reasons only: the next edge of a topology to  *)
(* connect is from a router to itself, a router is inserted a second time  *)
(* before it runs, the RIB is cloned or the threads are joined after the   *)
(* panic of a router.  The routers of a topology never panic in            *)
(* insert_router.                                                          *)
PanicsAreCaused ==
  call = "panicked" =>
    \/ /\ manager = "building"
       /\ \E i \in todo : Loop(topology[i]) /\ \A j \in todo : i <= j
    \/ manager = "there" /\ \E k \in table \ {Len(made)} : made[k] = made[Len(made)]
    \/ manager = "there" /\ \E r \in DOMAIN made : Fed(r) /\ machine[r] = "panicked"
    \/ manager \in {"none", "dropped"} /\ \E r \in joining : machine[r] = "panicked"

(* A link joins two sessions and no more, each with the other's channel,   *)
(* and there is one between the routers of each edge of the topology.      *)
Joined(s, t) == s.out = t.in /\ t.out = s.in /\ s.router # t.router
LinksFollowTopology ==
  /\ \A s, t \in sessions : s # t =>
       IF s.link = t.link THEN Joined(s, t) ELSE {s.out, s.in} \cap {t.out, t.in} = {}
  /\ manager \in {"there", "dropped"} =>
       \A i \in DOMAIN topology : \E s, t \in sessions :
         /\ s.link = i /\ t.link = i
         /\ <<made[s.router], made[t.router]>> = topology[i]

(* A receiver is in one place: in the registry, next to the sender of its  *)
(* channel, or with the one who has subscribed, also after a channel was   *)
(* stopped and made again under the same id.                               *)
ReceiversAreUnique ==
  \A id \in DOMAIN bus.receivers :
    /\ id \in DOMAIN bus.senders /\ bus.senders[id] = bus.receivers[id]
    /\ bus.receivers[id] \notin held \cup { s.in : s \in sessions }
    /\ \A other \in DOMAIN bus.receivers \ {id} : bus.receivers[other] # bus.receivers[id]

(* If stop returns Ok, every machine has the command, or has obeyed it.    *)
(* If start does, none is left waiting, and no stop is still to come; but  *)
(* one that was stopped before may have had the start sent after it and    *)
(* not heed it.  If either fails, a machine has ended before, in which     *)
(* case others are left without.                                           *)
CommandReachesAll ==
  /\ answer = "started" => \A r \in sm :
       \/ mailbox[r] = <<"start">>
       \/ machine[r] \notin {"none", "waiting"} /\ mailbox[r] = <<>>
  /\ answer = "stopped" => \A r \in sm :
       machine[r] = "stopping" \/ Ended(r) \/ mailbox[r] = <<"stop">>
  /\ answer = "failed" => \E r \in sm : Ended(r)

(* After a stop that returned Ok, join_all returns or panics, unless there *)
(* is a thread which start has replaced in router_sm.                      *)
JoinAllReturns ==
  /\ call = "join" /\ answer = "stopped"
  /\ \A r \in todo \cup joining : r \in sm \/ Ended(r)
  ~> call # "join"
=============================================================================
