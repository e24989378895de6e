------------------------ MODULE NetworkManagerProofs ------------------------
(***************************************************************************)
(* Proofs about a network manager, for any number of ids, topologies and   *)
(* routers: types, the wiring of links and receivers, and what an Ok of    *)
(* start or stop means.                                                    *)
(***************************************************************************)
EXTENDS Main, TLAPS

Calls == {"idle", "connect", "create", "start", "stop", "join", "panicked"}
Machine == {"none", "waiting", "running", "stopping", "ended", "panicked"}
Mailbox == {<<>>, <<"start">>, <<"stop">>}
Answers == {"none", "started", "stopped", "failed"}

(* A topology has one vertex for a key.                                    *)
Vertex == [key : RouterId, value : {Options}]
GraphOK(g) ==
  /\ g \in [vertices : Seq(Vertex), edges : Seq(Connections)]
  /\ \A i, j \in DOMAIN g.vertices : g.vertices[i].key = g.vertices[j].key => i = j

(* The types, with those of what a call has still to do.                   *)
Types ==
  /\ TypeOK
  /\ GraphOK(graph) /\ Len(graph.vertices) <= MaxRouters
  /\ call \in {"create", "join"} => todo \subseteq DOMAIN made
  /\ call \in {"start", "stop"} => todo \subseteq sm
  /\ call = "connect" => manager = "building"
  /\ manager = "none" => sm = {} /\ handles = {} /\ joining = {} /\ sessions = {} /\ todo = {}

USE DEF networkVars, machineVars, ownerVars, topology

LEMMA AppendedId ==
  ASSUME NEW s \in Seq(RouterId), NEW id \in RouterId
  PROVE  /\ Append(s, id) \in Seq(RouterId) /\ Len(Append(s, id)) = Len(s) + 1
         /\ DOMAIN Append(s, id) = DOMAIN s \cup {Len(s) + 1}
         /\ Len(s) + 1 \notin DOMAIN s
         /\ \A k \in DOMAIN s : Append(s, id)[k] = s[k]
<1>1. /\ Append(s, id) \in Seq(RouterId) /\ Len(Append(s, id)) = Len(s) + 1
      /\ Len(s) \in Nat /\ DOMAIN s = 1 .. Len(s)
      /\ DOMAIN Append(s, id) = 1 .. Len(s) + 1
      /\ \A k \in 1 .. Len(s) : Append(s, id)[k] = s[k]
  OBVIOUS
<1> QED BY <1>1

LEMMA AddedVertex ==
  ASSUME NEW g, GraphOK(g), NEW id \in RouterId
  PROVE  GraphOK(Graph!AddVertex(g, id, Options))
<1> DEFINE h == Graph!AddVertex(g, id, Options)
           v == [key |-> id, value |-> Options]
<1>1. /\ g.vertices \in Seq(Vertex) /\ g.edges \in Seq(Connections) /\ v \in Vertex /\ v.key = id
      /\ Len(g.vertices) \in Nat /\ DOMAIN g.vertices = 1 .. Len(g.vertices)
      /\ g = [vertices |-> g.vertices, edges |-> g.edges]
  BY DEF GraphOK, Vertex
<1>2. CASE Graph!ContainsVertex(g, id)
  <2>1. ASSUME NEW i \in DOMAIN g.vertices
        PROVE  [g.vertices[i] EXCEPT !.value = Options] = g.vertices[i]
    <3>1. g.vertices[i] \in Vertex BY <1>1
    <3>2. g.vertices[i] = [key |-> g.vertices[i].key, value |-> Options] BY <3>1 DEF Vertex
    <3> QED BY <3>2
  <2>2. h = [g EXCEPT !.vertices =
               [i \in DOMAIN g.vertices |->
                  IF g.vertices[i].key = id THEN [g.vertices[i] EXCEPT !.value = Options] ELSE g.vertices[i]]]
    BY <1>2, Zenon DEF Graph!AddVertex
  <2>3. [i \in DOMAIN g.vertices |->
           IF g.vertices[i].key = id THEN [g.vertices[i] EXCEPT !.value = Options] ELSE g.vertices[i]]
        = [i \in DOMAIN g.vertices |-> g.vertices[i]]
    BY <2>1
  <2>4. [i \in DOMAIN g.vertices |-> g.vertices[i]] = g.vertices
    BY <1>1
  <2>5. h = [g EXCEPT !.vertices = g.vertices] BY <2>2, <2>3, <2>4
  <2> HIDE DEF h
  <2>6. h = g BY <1>1, <2>5
  <2> QED BY <2>6 DEF h
<1>3. CASE ~ Graph!ContainsVertex(g, id)
  <2>0. h = [g EXCEPT !.vertices = Append(g.vertices, v)]
    BY <1>3, Zenon DEF Graph!AddVertex
  <2>1. h = [vertices |-> Append(g.vertices, v), edges |-> g.edges]
    BY <1>1, <2>0
  <2>2. \A i \in DOMAIN g.vertices : g.vertices[i].key # id
    BY <1>3 DEF Graph!ContainsVertex, Graph!Positions
  <2> HIDE DEF h, v
  <2>3. /\ h.vertices = Append(g.vertices, v) /\ h.vertices \in Seq(Vertex)
        /\ h \in [vertices : Seq(Vertex), edges : Seq(Connections)]
        /\ DOMAIN h.vertices = 1 .. Len(g.vertices) + 1 /\ h.vertices[Len(g.vertices) + 1] = v
        /\ \A i \in 1 .. Len(g.vertices) : h.vertices[i] = g.vertices[i]
    BY <1>1, <2>1
  <2>4. ASSUME NEW i \in DOMAIN h.vertices, NEW j \in DOMAIN h.vertices,
               h.vertices[i].key = h.vertices[j].key
        PROVE  i = j
    BY <1>1, <2>2, <2>3, <2>4 DEF GraphOK
  <2> QED BY <2>3, <2>4 DEF GraphOK, h
<1> QED BY <1>2, <1>3

LEMMA AddedEdge ==
  ASSUME NEW g, GraphOK(g), NEW edge \in Connections
  PROVE  GraphOK(Graph!AddEdge(g, edge))
<1>1. edge[1] \in RouterId /\ edge[2] \in RouterId BY ManagerAssumption
<1>2. ASSUME NEW x, GraphOK(x), NEW id \in RouterId PROVE GraphOK(Graph!Endpoint(x, id))
  BY <1>2, AddedVertex DEF Graph!Endpoint
<1> DEFINE h == Graph!Endpoint(Graph!Endpoint(g, edge[1]), edge[2])
<1>3. GraphOK(h) BY <1>1, <1>2
<1>4. Graph!AddEdge(g, edge) = [h EXCEPT !.edges = Append(@, edge)] BY DEF Graph!AddEdge
<1> HIDE DEF h
<1>5. h.vertices \in Seq(Vertex) /\ h.edges \in Seq(Connections)
      /\ h = [vertices |-> h.vertices, edges |-> h.edges]
  BY <1>3 DEF GraphOK
<1>6. Append(h.edges, edge) \in Seq(Connections) BY <1>5
<1>7. Graph!AddEdge(g, edge) = [vertices |-> h.vertices, edges |-> Append(h.edges, edge)]
  BY <1>4, <1>5
<1> QED BY <1>3, <1>5, <1>6, <1>7 DEF GraphOK

(* The routers of a topology have the ids of its vertices, each its own.   *)
LEMMA KeysOfVertices ==
  ASSUME NEW g, GraphOK(g)
  PROVE  /\ Keys(g) \in Seq(RouterId) /\ Len(Keys(g)) = Len(g.vertices)
         /\ \A i, j \in DOMAIN Keys(g) : Keys(g)[i] = Keys(g)[j] => i = j
<1>1. g.vertices \in Seq(Vertex) /\ Len(g.vertices) \in Nat /\ DOMAIN g.vertices = 1 .. Len(g.vertices)
  BY DEF GraphOK
<1>2. ASSUME NEW i \in DOMAIN g.vertices PROVE g.vertices[i].key \in RouterId
  <2>1. g.vertices[i] \in Vertex BY <1>1
  <2> QED BY <2>1 DEF Vertex
<1>3. Keys(g) = [i \in 1 .. Len(g.vertices) |-> g.vertices[i].key]
  BY <1>1 DEF Keys
<1>4. Keys(g) \in Seq(RouterId) /\ Len(Keys(g)) = Len(g.vertices)
  BY <1>1, <1>2, <1>3
<1> QED BY <1>1, <1>3, <1>4 DEF GraphOK

LEMMA RoutersHaveMachines ==
  ASSUME TypeOK
  PROVE  DOMAIN made \subseteq 1 .. MaxRouters
<1>1. Len(made) \in Nat /\ DOMAIN made = 1 .. Len(made) /\ Len(made) <= MaxRouters
  BY DEF TypeOK
<1> QED BY <1>1, ManagerAssumption

LEMMA InitHasTypes == Init => Types
<1> SUFFICES ASSUME Init PROVE Types
  OBVIOUS
<1>1. made \in Seq(RouterId) /\ Len(made) = 0 BY DEF Init
<1>2. graph = [vertices |-> <<>>, edges |-> <<>>] BY DEF Init, Graph!NewTopology
<1>3. TypeOK BY <1>1, <1>2, ManagerAssumption DEF Init, TypeOK
<1>4. GraphOK(graph) /\ Len(graph.vertices) = 0 BY <1>2 DEF GraphOK
<1> QED BY <1>3, <1>4, ManagerAssumption DEF Init, Types

LEMMA StepKeepsTypes == Types /\ [Next]_vars => Types'
<1> SUFFICES ASSUME Types, [Next]_vars PROVE Types'
  OBVIOUS
<1> USE DEF Types, TypeOK
<1>1. ASSUME UseBus PROVE Types'
  BY <1>1 DEF UseBus, Create, TakeReceiver, TakePair, StopChannel, StopAllChannels, KeepNetwork
<1>2. CASE BeginFromTopology
  <2> DEFINE keys == Keys(graph)
  <2>1. keys \in Seq(RouterId) /\ Len(keys) <= MaxRouters BY KeysOfVertices
  <2>2. /\ made' = keys /\ table' = DOMAIN keys
        /\ call' \in {"panicked", "connect"} /\ manager' = "building" /\ manager = "none"
        /\ UNCHANGED <<bus, held, graph, sessions, sm, machineVars, handles, joining, answer>>
    BY <1>2 DEF BeginFromTopology
  <2> HIDE DEF keys
  <2> QED BY <2>1, <2>2
<1>3. ASSUME NEW a \in table, Feed(a) PROVE Types'
  BY <1>3 DEF Feed, Uses
<1>4. ASSUME NEW id \in RouterId, InsertRouter(id) PROVE Types'
  <2>1. /\ made' \in Seq(RouterId) /\ Len(made') <= MaxRouters
        /\ DOMAIN made' = DOMAIN made \cup {Len(made) + 1}
    BY <1>4, AppendedId, ManagerAssumption DEF InsertRouter
  <2> QED BY <1>4, <2>1 DEF InsertRouter, Uses, Free
<1>5. CASE BeginStart BY <1>5 DEF BeginStart, Uses, Free
<1>6. CASE BeginStop BY <1>6 DEF BeginStop, Uses, Free
<1>7. CASE DropManager BY <1>7 DEF DropManager, Uses, Free
<1>8. CASE BeginJoinAll BY <1>8 DEF BeginJoinAll, Unborrowed, Free
<1>9. ASSUME NEW i \in todo, NEW a \in table, NEW b \in table, ConnectNext(i, a, b) PROVE Types'
  BY <1>9 DEF ConnectNext
<1>10. CASE EndFromTopology BY <1>10 DEF EndFromTopology
<1>11. ASSUME NEW r \in todo, CreateNext(r) PROVE Types'
  <2>1. r \in DOMAIN made /\ r \in 1 .. MaxRouters
    BY <1>11, RoutersHaveMachines DEF CreateNext
  <2>2. machine' \in [1 .. MaxRouters -> Machine]
    BY <1>11, <2>1 DEF CreateNext, Machine
  <2> QED BY <1>11, <2>1, <2>2 DEF CreateNext, Machine
<1>12. ASSUME NEW r \in todo, SendNext(r) PROVE Types'
  <2>1. mailbox' \in [1 .. MaxRouters -> Mailbox]
    BY <1>12 DEF SendNext, Mailbox
  <2> QED BY <1>12, <2>1 DEF SendNext, Mailbox
<1>13. ASSUME NEW r \in todo, SendFails(r) PROVE Types'
  BY <1>13 DEF SendFails
<1>14. ASSUME NEW r \in todo, PickJoin(r) PROVE Types'
  BY <1>14 DEF PickJoin
<1>15. CASE EndCreate BY <1>15 DEF EndCreate
<1>16. CASE EndSend BY <1>16 DEF EndSend
<1>17. CASE EndJoinAll BY <1>17 DEF EndJoinAll
<1>18. ASSUME NEW r \in joining, JoinNext(r) PROVE Types'
  BY <1>18 DEF JoinNext
<1>19. ASSUME NEW r \in 1 .. MaxRouters, Take(r) PROVE Types'
  <2>1. machine' \in [1 .. MaxRouters -> Machine] /\ mailbox' \in [1 .. MaxRouters -> Mailbox]
    BY <1>19 DEF Take, Machine, Mailbox
  <2> QED BY <1>19, <2>1 DEF Take, Machine, Mailbox
<1>20. ASSUME NEW r \in 1 .. MaxRouters, End(r) \/ Panic(r) PROVE Types'
  <2>1. machine' \in [1 .. MaxRouters -> Machine] /\ mailbox' \in [1 .. MaxRouters -> Mailbox]
    BY <1>20 DEF End, Panic, Machine, Mailbox
  <2> QED BY <1>20, <2>1 DEF End, Panic, Machine, Mailbox
<1>21. CASE UNCHANGED vars BY <1>21 DEF vars
<1>22. ASSUME NEW id \in RouterId, AddRouter(id) PROVE Types'
  <2>1. GraphOK(graph') /\ Len(graph'.vertices) <= MaxRouters
    BY <1>22, AddedVertex DEF AddRouter
  <2>2. graph' \in [vertices : Seq(Vertex), edges : Seq(Connections)] BY <2>1 DEF GraphOK
  <2> QED BY <1>22, <2>1, <2>2 DEF AddRouter, Free, Vertex
<1>23. ASSUME NEW edge \in Connections, AddConnection(edge) PROVE Types'
  <2>1. GraphOK(graph') /\ Len(graph'.vertices) <= MaxRouters
    BY <1>23, AddedEdge DEF AddConnection
  <2>2. graph' \in [vertices : Seq(Vertex), edges : Seq(Connections)] BY <2>1 DEF GraphOK
  <2> QED BY <1>23, <2>1, <2>2 DEF AddConnection, Free, Vertex
<1>24. CASE CloneRibPanics BY <1>24 DEF CloneRibPanics, Uses, Free
<1> HIDE DEF Types, TypeOK
<1> QED
  BY <1>24, <1>1, <1>2, <1>3, <1>4, <1>5, <1>6, <1>7, <1>8, <1>9, <1>10, <1>11, <1>12, <1>13,
     <1>14, <1>15, <1>16, <1>17, <1>18, <1>19, <1>20, <1>21, <1>22, <1>23
  DEF Next, BeginCall, EndCall, Runner

(* Every variable keeps its type, and the routers a call has still to do   *)
(* something with exist.                                                   *)
THEOREM ManagerTypes == Spec => []TypeOK
<1>1. Types => TypeOK BY DEF Types
<1>2. Spec => []Types
  BY InitHasTypes, StepKeepsTypes, PTL DEF Spec
<1> QED BY <1>1, <1>2, PTL

-----------------------------------------------------------------------------
(* Commands.  While start or stop sends, the machines it is done with have *)
(* the command or have had it.                                             *)

(* A machine that has been started does not have a stop ahead of it, one   *)
(* that has been stopped ends.                                             *)
Started(r) ==
  \/ mailbox[r] = <<"start">>
  \/ machine[r] \notin {"none", "waiting"} /\ mailbox[r] = <<>>
Stopped(r) == machine[r] = "stopping" \/ Ended(r) \/ mailbox[r] = <<"stop">>

Commanded ==
  /\ call \in {"create", "start", "stop"} => answer = "none"
  /\ call = "start" => \A r \in sm \ todo : Started(r)
  /\ call = "stop" => \A r \in sm \ todo : Stopped(r)
  /\ answer = "started" => \A r \in sm : Started(r)
  /\ answer = "stopped" => \A r \in sm : Stopped(r)
  /\ answer = "failed" => \E r \in sm : Ended(r)

(* What a machine has been told stays told.                                *)
LEMMA RunnersObey ==
  ASSUME Types, NEW q \in 1 .. MaxRouters, Runner(q), NEW r \in sm
  PROVE  /\ Started(r) => Started(r)'
         /\ Stopped(r) => Stopped(r)'
         /\ Ended(r) => Ended(r)'
<1>1. r \in 1 .. MaxRouters
  BY RoutersHaveMachines DEF Types, TypeOK
<1>2. /\ mailbox[r] \in Mailbox /\ machine[r] \in Machine
      /\ DOMAIN machine = 1 .. MaxRouters /\ DOMAIN mailbox = 1 .. MaxRouters
  BY <1>1 DEF Types, TypeOK, Mailbox, Machine
<1>3. CASE r # q BY <1>1, <1>2, <1>3 DEF Runner, Take, End, Panic, Started, Stopped, Ended
<1>4. CASE r = q /\ Take(q)
  <2>1. <<"start">> # <<"stop">> /\ <<"start">> # <<>> /\ <<"stop">> # <<>> OBVIOUS
  <2> QED BY <1>1, <1>2, <1>4, <2>1 DEF Take, Started, Stopped, Ended
<1>5. CASE r = q /\ (End(q) \/ Panic(q)) BY <1>1, <1>2, <1>5 DEF End, Panic, Started, Stopped, Ended
<1> QED BY <1>3, <1>4, <1>5 DEF Runner

LEMMA SendingCommands ==
  ASSUME Types, Commanded, NEW r \in todo, SendNext(r)
  PROVE  Commanded'
<1>1. /\ call \in {"start", "stop"} /\ r \in sm /\ todo' = todo \ {r}
      /\ mailbox' = [mailbox EXCEPT ![r] = <<call>>] /\ ~ Ended(r) /\ mailbox[r] = <<>>
      /\ UNCHANGED <<sm, machine, call, answer>>
  BY DEF SendNext, Types
<1>2. sm \subseteq DOMAIN mailbox
  BY RoutersHaveMachines DEF Types, TypeOK
<1>3. ASSUME NEW q \in sm \ todo PROVE (Started(q) => Started(q)') /\ (Stopped(q) => Stopped(q)')
  BY <1>1, <1>2, <1>3 DEF Started, Stopped, Ended
<1>4. call = "start" => Started(r)' BY <1>1, <1>2 DEF Started
<1>5. call = "stop" => Stopped(r)' BY <1>1, <1>2 DEF Stopped
<1> QED BY <1>1, <1>3, <1>4, <1>5 DEF Commanded

LEMMA StepKeepsCommanded == Types /\ Commanded /\ [Next]_vars => Commanded'
<1> SUFFICES ASSUME Types, Commanded, [Next]_vars PROVE Commanded'
  OBVIOUS
<1> DEFINE same == UNCHANGED <<sm, machine, mailbox, answer>>
           calm == call' \notin {"create", "start", "stop"}
<1>1. ASSUME same, calm PROVE Commanded'
  BY <1>1 DEF Commanded, Started, Stopped, Ended
<1>2. ASSUME UNCHANGED <<sm, machine, mailbox, answer, call, todo>> PROVE Commanded'
  BY <1>2 DEF Commanded, Started, Stopped, Ended
<1>3. ASSUME UseBus PROVE Commanded'
  BY <1>2, <1>3 DEF UseBus, Create, TakeReceiver, TakePair, StopChannel, StopAllChannels, KeepNetwork
<1>4. CASE BeginFromTopology BY <1>1, <1>4 DEF BeginFromTopology
<1>5. ASSUME NEW a \in table, Feed(a) PROVE Commanded'
  BY <1>2, <1>5 DEF Feed
<1>6. ASSUME NEW id \in RouterId, InsertRouter(id) PROVE Commanded'
  BY <1>1, <1>6 DEF InsertRouter, Uses, Free
<1>7. CASE BeginStart BY <1>7 DEF BeginStart, Commanded
<1>8. CASE BeginStop BY <1>8 DEF BeginStop, Commanded
<1>9. CASE DropManager BY <1>2, <1>9 DEF DropManager
<1>10. CASE BeginJoinAll BY <1>1, <1>10 DEF BeginJoinAll
<1>11. ASSUME NEW i \in todo, NEW a \in table, NEW b \in table, ConnectNext(i, a, b) PROVE Commanded'
  BY <1>1, <1>11 DEF ConnectNext
<1>12. CASE EndFromTopology BY <1>1, <1>12 DEF EndFromTopology
<1>13. ASSUME NEW r \in todo, CreateNext(r) PROVE Commanded'
  BY <1>13 DEF CreateNext, Commanded
<1>14. ASSUME NEW r \in todo, SendNext(r) PROVE Commanded'
  BY <1>14, SendingCommands
<1>15. ASSUME NEW r \in todo, SendFails(r) PROVE Commanded'
  BY <1>15 DEF SendFails, Commanded, Types, Ended
<1>16. ASSUME NEW r \in todo, PickJoin(r) PROVE Commanded'
  BY <1>1, <1>16 DEF PickJoin
<1>17. CASE EndCreate BY <1>17 DEF EndCreate, Commanded
<1>18. CASE EndSend
  BY <1>18 DEF EndSend, Commanded, Started, Stopped, Ended
<1>19. CASE EndJoinAll BY <1>1, <1>19 DEF EndJoinAll
<1>20. ASSUME NEW r \in joining, JoinNext(r) PROVE Commanded'
  BY <1>1, <1>20 DEF JoinNext
<1>21. ASSUME NEW q \in 1 .. MaxRouters, Runner(q) PROVE Commanded'
  <2>1. UNCHANGED <<sm, answer, call, todo>>
    BY <1>21 DEF Runner, Take, End, Panic
  <2> QED BY <1>21, <2>1, RunnersObey DEF Commanded
<1>22. CASE UNCHANGED vars BY <1>2, <1>22 DEF vars
<1>23. ASSUME NEW id \in RouterId, AddRouter(id) PROVE Commanded'
  BY <1>2, <1>23 DEF AddRouter
<1>24. ASSUME NEW edge \in Connections, AddConnection(edge) PROVE Commanded'
  BY <1>2, <1>24 DEF AddConnection
<1>25. CASE CloneRibPanics BY <1>1, <1>25 DEF CloneRibPanics
<1> QED
  BY <1>3, <1>4, <1>5, <1>6, <1>7, <1>8, <1>9, <1>10, <1>11, <1>12, <1>13, <1>14, <1>15,
     <1>16, <1>17, <1>18, <1>19, <1>20, <1>21, <1>22, <1>23, <1>24, <1>25
  DEF Next, BeginCall, EndCall

(* An Ok of start or stop means that every machine has or had the command, *)
(* an error that one had ended.                                            *)
THEOREM CommandsReachAll == Spec => []CommandReachesAll
<1>1. Init => Commanded BY DEF Init, Commanded
<1>2. Commanded => CommandReachesAll BY DEF Commanded, CommandReachesAll, Started, Stopped
<1> QED BY <1>1, <1>2, InitHasTypes, StepKeepsTypes, StepKeepsCommanded, PTL DEF Spec

-----------------------------------------------------------------------------
(* The registry of channels.  An id that is not a user's is that of its    *)
(* channel, so the next one is free.                                       *)

BusShape(b) ==
  /\ b \in [senders : {b.senders}, receivers : {b.receivers}, made : Nat]
  /\ b.senders \in [DOMAIN b.senders -> 1 .. b.made]
  /\ b.receivers \in [DOMAIN b.receivers -> 1 .. b.made]
  /\ \A id \in DOMAIN b.senders : id \in Int /\ id <= b.made
  /\ \A id \in DOMAIN b.receivers :
       /\ id \in DOMAIN b.senders /\ b.senders[id] = b.receivers[id]
       /\ \A other \in DOMAIN b.receivers \ {id} : b.receivers[other] # b.receivers[id]

(* No receiver in the registry is somewhere else as well.                  *)
Registered(b) == { b.receivers[id] : id \in DOMAIN b.receivers }

LEMMA CreatedChannel ==
  ASSUME NEW b, BusShape(b), NEW id \in Int, id <= b.made + 1,
         CanCreate(b, id)
  PROVE  /\ BusShape(CreateChannel(b, id)) /\ CreateChannel(b, id).made = b.made + 1
         /\ Registered(CreateChannel(b, id)) = Registered(b) \cup {b.made + 1}
         /\ id \in DOMAIN CreateChannel(b, id).receivers
         /\ CreateChannel(b, id).receivers[id] = b.made + 1
<1> DEFINE c == CreateChannel(b, id)
<1>1. /\ c.senders = With(b.senders, id, b.made + 1) /\ c.made = b.made + 1
      /\ c.receivers = With(b.receivers, id, b.made + 1)
      /\ c \in [senders : {c.senders}, receivers : {c.receivers}, made : {c.made}]
  BY DEF CreateChannel
<1> HIDE DEF c
<1>2. b.made \in Nat /\ id \notin DOMAIN b.senders /\ id \notin DOMAIN b.receivers
  BY DEF BusShape, CanCreate
<1>3. /\ DOMAIN c.senders = DOMAIN b.senders \cup {id} /\ DOMAIN c.receivers = DOMAIN b.receivers \cup {id}
      /\ c.senders[id] = b.made + 1 /\ c.receivers[id] = b.made + 1
      /\ \A x \in DOMAIN b.senders : c.senders[x] = b.senders[x]
      /\ \A x \in DOMAIN b.receivers : c.receivers[x] = b.receivers[x]
      /\ c.senders = [x \in DOMAIN c.senders |-> c.senders[x]]
      /\ c.receivers = [x \in DOMAIN c.receivers |-> c.receivers[x]]
  BY <1>1, <1>2 DEF With
<1>4. /\ \A x \in DOMAIN b.senders : b.senders[x] \in 1 .. b.made
      /\ \A x \in DOMAIN b.receivers : b.receivers[x] \in 1 .. b.made
  BY DEF BusShape
<1>5. \A x \in DOMAIN c.senders : c.senders[x] \in 1 .. c.made
  BY <1>1, <1>2, <1>3, <1>4
<1>6. \A x \in DOMAIN c.receivers : c.receivers[x] \in 1 .. c.made
  BY <1>1, <1>2, <1>3, <1>4
<1>7. c.senders \in [DOMAIN c.senders -> 1 .. c.made] /\ c.receivers \in [DOMAIN c.receivers -> 1 .. c.made]
  BY <1>3, <1>5, <1>6
<1>8. \A x \in DOMAIN c.senders : x \in Int /\ x <= c.made
  BY <1>1, <1>2, <1>3 DEF BusShape
<1>9. ASSUME NEW x \in DOMAIN c.receivers
      PROVE  /\ x \in DOMAIN c.senders /\ c.senders[x] = c.receivers[x]
             /\ \A y \in DOMAIN c.receivers \ {x} : c.receivers[y] # c.receivers[x]
  BY <1>2, <1>3, <1>4 DEF BusShape
<1>10. BusShape(c)
  BY <1>1, <1>2, <1>7, <1>8, <1>9 DEF BusShape
<1>11. Registered(c) = Registered(b) \cup {b.made + 1}
  BY <1>3 DEF Registered
<1> QED BY <1>1, <1>3, <1>10, <1>11 DEF c

LEMMA SubscribedChannel ==
  ASSUME NEW b, BusShape(b), NEW id \in DOMAIN b.receivers
  PROVE  /\ BusShape(Subscribe(b, id)) /\ Subscribe(b, id).made = b.made
         /\ Registered(Subscribe(b, id)) = Registered(b) \ {b.receivers[id]}
<1> DEFINE c == Subscribe(b, id)
<1>1. /\ c.senders = b.senders /\ c.made = b.made
      /\ c.receivers = [x \in DOMAIN b.receivers \ {id} |-> b.receivers[x]]
      /\ c \in [senders : {c.senders}, receivers : {c.receivers}, made : {c.made}]
  BY DEF Subscribe, Without, BusShape
<1> HIDE DEF c
<1>2. /\ DOMAIN c.receivers = DOMAIN b.receivers \ {id}
      /\ \A x \in DOMAIN c.receivers : c.receivers[x] = b.receivers[x] /\ b.receivers[x] \in 1 .. b.made
  BY <1>1 DEF BusShape
<1>3. c.receivers \in [DOMAIN c.receivers -> 1 .. c.made]
  BY <1>1, <1>2
<1>4. BusShape(c)
  BY <1>1, <1>2, <1>3 DEF BusShape
<1>5. Registered(c) = Registered(b) \ {b.receivers[id]}
  BY <1>2 DEF Registered, BusShape
<1> QED BY <1>1, <1>4, <1>5 DEF c

(* A pair of a new channel leaves no receiver behind.                      *)
LEMMA NewPairOfChannel ==
  ASSUME NEW b, BusShape(b)
  PROVE  /\ BusShape(NewPair(b)) /\ NewPair(b).made = b.made + 1
         /\ Registered(NewPair(b)) = Registered(b) /\ b.made \in Nat
         /\ b.made + 1 \notin Registered(b)
<1>1. b.made \in Nat BY DEF BusShape
<1>2. b.made + 1 \notin DOMAIN b.senders /\ b.made + 1 \notin DOMAIN b.receivers
  BY <1>1 DEF BusShape
<1>3. NewPair(b) = Subscribe(CreateChannel(b, b.made + 1), b.made + 1)
  BY <1>2 DEF NewPair, ChannelPair, Ensure, ChannelExists
<1>4. CanCreate(b, b.made + 1) BY <1>2 DEF CanCreate
<1> DEFINE c == CreateChannel(b, b.made + 1)
<1>5. /\ BusShape(c) /\ c.made = b.made + 1 /\ Registered(c) = Registered(b) \cup {b.made + 1}
      /\ b.made + 1 \in DOMAIN c.receivers /\ c.receivers[b.made + 1] = b.made + 1
  BY <1>1, <1>4, CreatedChannel
<1>6. b.made + 1 \notin Registered(b) BY <1>1 DEF Registered, BusShape
<1> HIDE DEF c
<1>7. /\ BusShape(Subscribe(c, b.made + 1)) /\ Subscribe(c, b.made + 1).made = c.made
      /\ Registered(Subscribe(c, b.made + 1)) = Registered(c) \ {b.made + 1}
  BY <1>5, SubscribedChannel
<1> QED BY <1>1, <1>3, <1>5, <1>6, <1>7 DEF c

LEMMA StoppedChannels ==
  ASSUME NEW b, BusShape(b)
  PROVE  /\ BusShape(StopAll(b)) /\ StopAll(b).made = b.made /\ Registered(StopAll(b)) \subseteq Registered(b)
         /\ \A id : /\ BusShape(Stop(b, id)) /\ Stop(b, id).made = b.made
                    /\ Registered(Stop(b, id)) \subseteq Registered(b)
<1>1. ASSUME NEW id
      PROVE  /\ BusShape(Stop(b, id)) /\ Stop(b, id).made = b.made
             /\ Registered(Stop(b, id)) \subseteq Registered(b)
  <2> DEFINE c == Stop(b, id)
  <2>1. /\ c.made = b.made
        /\ c.senders = [x \in DOMAIN b.senders \ {id} |-> b.senders[x]]
        /\ c.receivers = [x \in DOMAIN b.receivers \ {id} |-> b.receivers[x]]
        /\ c \in [senders : {c.senders}, receivers : {c.receivers}, made : {c.made}]
    BY DEF Stop, Without, BusShape
  <2> HIDE DEF c
  <2>2. /\ \A x \in DOMAIN b.senders : b.senders[x] \in 1 .. b.made
        /\ \A x \in DOMAIN b.receivers : b.receivers[x] \in 1 .. b.made
    BY DEF BusShape
  <2>3. c.receivers \in [DOMAIN c.receivers -> 1 .. c.made] /\ c.senders \in [DOMAIN c.senders -> 1 .. c.made]
    BY <2>1, <2>2
  <2>4. BusShape(c) BY <2>1, <2>3 DEF BusShape
  <2>5. Registered(c) \subseteq Registered(b) BY <2>1 DEF Registered
  <2> QED BY <2>1, <2>4, <2>5 DEF c
<1>2. /\ BusShape(StopAll(b)) /\ StopAll(b).made = b.made /\ Registered(StopAll(b)) \subseteq Registered(b)
  <2> DEFINE c == StopAll(b)
  <2>1. /\ c.made = b.made /\ DOMAIN c.senders = {} /\ c.senders = [x \in DOMAIN c.senders |-> 0]
        /\ c.receivers = [x \in DOMAIN b.receivers \ DOMAIN b.senders |-> b.receivers[x]]
        /\ c \in [senders : {c.senders}, receivers : {c.receivers}, made : {c.made}]
    BY DEF StopAll, Without, BusShape
  <2> HIDE DEF c
  <2>2. DOMAIN c.receivers = {} BY <2>1 DEF BusShape
  <2>3. c.receivers \in [DOMAIN c.receivers -> 1 .. c.made] /\ c.senders \in [DOMAIN c.senders -> 1 .. c.made]
    BY <2>1, <2>2
  <2>4. BusShape(c) BY <2>1, <2>2, <2>3 DEF BusShape
  <2>5. Registered(c) = {} BY <2>2 DEF Registered
  <2> QED BY <2>1, <2>4, <2>5 DEF c
<1> QED BY <1>1, <1>2

-----------------------------------------------------------------------------
(* Who has which receiver.                                                 *)

Inputs == { s.in : s \in sessions }

Receivers ==
  /\ BusShape(bus)
  /\ held \subseteq 1 .. bus.made
  /\ \A s \in sessions : s.in \in 1 .. bus.made /\ s.out \in 1 .. bus.made
  /\ Registered(bus) \cap (held \cup Inputs) = {}

LEMMA RegisteredAreOld ==
  ASSUME NEW b, BusShape(b)
  PROVE  b.made \in Nat /\ Registered(b) \subseteq 1 .. b.made
BY DEF BusShape, Registered

LEMMA InitHasReceivers == Init => Receivers
<1> SUFFICES ASSUME Init PROVE Receivers
  OBVIOUS
<1>1. BusShape(bus) BY DEF Init, NewBus, BusShape
<1>2. Registered(bus) = {} BY DEF Init, NewBus, Registered
<1> QED BY <1>1, <1>2 DEF Init, Receivers, Inputs

(* Two new channels, the receivers of which become inputs of sessions.     *)
LEMMA ConnectingKeepsReceivers ==
  ASSUME Receivers, bus' = NewPair(NewPair(bus)), held' = held,
         NEW n, NEW a, NEW b, sessions' \in {sessions, sessions \cup NewLink(n, a, b)}
  PROVE  Receivers'
<1> DEFINE m == bus.made
<1>1. BusShape(bus) BY DEF Receivers
<1>2. /\ BusShape(NewPair(bus)) /\ NewPair(bus).made = m + 1 /\ m \in Nat
      /\ Registered(NewPair(bus)) = Registered(bus)
  BY <1>1, NewPairOfChannel
<1>3. BusShape(bus') /\ bus'.made = m + 2 /\ Registered(bus') = Registered(bus)
  BY <1>2, NewPairOfChannel
<1>4. Registered(bus) \subseteq 1 .. m
  BY <1>1, RegisteredAreOld
<1>5. \A s \in NewLink(n, a, b) : s.in \in {m + 1, m + 2} /\ s.out \in {m + 1, m + 2}
  BY DEF NewLink
<1> HIDE DEF m
<1>6. \A s \in sessions : s.in \in 1 .. m /\ s.out \in 1 .. m
  BY DEF Receivers, m
<1>7. \A s \in sessions' : s.in \in 1 .. m + 2 /\ s.out \in 1 .. m + 2
  BY <1>2, <1>5, <1>6
<1>8. ASSUME NEW s \in sessions' PROVE s.in \notin Registered(bus)
  <2>1. CASE s \in sessions BY <2>1 DEF Receivers, Inputs
  <2>2. CASE s \in NewLink(n, a, b) BY <1>2, <1>4, <1>5, <2>2
  <2> QED BY <2>1, <2>2
<1>9. held' \subseteq 1 .. m + 2 /\ held' \cap Registered(bus) = {}
  BY <1>2 DEF Receivers, m
<1> QED BY <1>3, <1>7, <1>8, <1>9 DEF Receivers, Inputs

LEMMA UseBusKeepsReceivers ==
  ASSUME Receivers, UseBus
  PROVE  Receivers'
<1>1. BusShape(bus) /\ bus.made \in Nat /\ Registered(bus) \subseteq 1 .. bus.made
  BY RegisteredAreOld DEF Receivers
<1>2. ASSUME NEW id \in Name, Create(id) PROVE Receivers'
  <2>1. id \in Int /\ id <= bus.made + 1 BY <1>1, ManagerAssumption
  <2>2. CanCreate(bus, id) /\ bus' = CreateChannel(bus, id) /\ UNCHANGED <<held, sessions>>
    BY <1>2 DEF Create, KeepNetwork
  <2>3. /\ BusShape(bus') /\ bus'.made = bus.made + 1
        /\ Registered(bus') = Registered(bus) \cup {bus.made + 1}
    BY <1>1, <2>1, <2>2, CreatedChannel
  <2>4. \A x \in held \cup Inputs : x \in 1 .. bus.made
    BY DEF Receivers, Inputs
  <2>5. Inputs' = Inputs BY <2>2 DEF Inputs
  <2>6. Registered(bus') \cap (held \cup Inputs) = {}
    BY <1>1, <2>3, <2>4 DEF Receivers
  <2>7. held' \subseteq 1 .. bus'.made /\ \A s \in sessions' : s.in \in 1 .. bus'.made /\ s.out \in 1 .. bus'.made
    BY <1>1, <2>2, <2>3 DEF Receivers
  <2> QED BY <2>2, <2>3, <2>5, <2>6, <2>7 DEF Receivers
<1>3. ASSUME NEW id \in Name, TakeReceiver(id) PROVE Receivers'
  <2>1. id \in DOMAIN bus.receivers /\ bus' = Subscribe(bus, id) /\ UNCHANGED sessions
        /\ held' = held \cup {bus.receivers[id]}
    BY <1>3 DEF TakeReceiver, CanSubscribe, KeepNetwork
  <2>2. /\ BusShape(bus') /\ bus'.made = bus.made /\ bus.receivers[id] \in Registered(bus)
        /\ Registered(bus') = Registered(bus) \ {bus.receivers[id]}
    BY <1>1, <2>1, SubscribedChannel DEF Registered
  <2> QED BY <1>1, <2>1, <2>2 DEF Receivers, Inputs
<1>4. ASSUME NEW id \in Name, TakePair(id) PROVE Receivers'
  <2> DEFINE c == Ensure(bus, id)
  <2>1. /\ ChannelExists(bus, id) \/ CanCreate(bus, id)
        /\ id \in DOMAIN c.receivers
        /\ bus' = Subscribe(c, id) /\ held' = held \cup {c.receivers[id]} /\ UNCHANGED sessions
    BY <1>4 DEF TakePair, CanPair, CanSubscribe, ChannelPair, KeepNetwork
  <2>2. id \in Int /\ id <= bus.made + 1 BY <1>1, ManagerAssumption
  <2>3. /\ BusShape(c) /\ c.made \in {bus.made, bus.made + 1}
        /\ Registered(c) \subseteq Registered(bus) \cup {bus.made + 1}
        /\ c.made = bus.made => Registered(c) = Registered(bus)
    <3>1. CASE ChannelExists(bus, id) BY <1>1, <3>1 DEF Ensure
    <3>2. CASE ~ ChannelExists(bus, id)
      BY <1>1, <2>1, <2>2, <3>2, CreatedChannel DEF Ensure
    <3> QED BY <3>1, <3>2
  <2> HIDE DEF c
  <2>4. /\ BusShape(bus') /\ bus'.made = c.made /\ c.receivers[id] \in Registered(c)
        /\ Registered(bus') = Registered(c) \ {c.receivers[id]}
    BY <2>1, <2>3, SubscribedChannel DEF Registered
  <2>5. Registered(c) \subseteq 1 .. c.made BY <2>3, RegisteredAreOld
  <2>6. \A x \in held \cup Inputs : x \in 1 .. bus.made /\ x \notin Registered(c)
    BY <1>1, <2>3 DEF Receivers, Inputs
  <2>7. held' \subseteq 1 .. bus'.made
    BY <1>1, <2>1, <2>3, <2>4, <2>5, <2>6
  <2>8. \A s \in sessions' : s.in \in 1 .. bus'.made /\ s.out \in 1 .. bus'.made
    BY <1>1, <2>1, <2>3, <2>4 DEF Receivers
  <2>9. Registered(bus') \cap (held' \cup Inputs) = {} /\ Inputs' = Inputs
    BY <2>1, <2>4, <2>6 DEF Inputs
  <2> QED BY <2>4, <2>7, <2>8, <2>9 DEF Receivers
<1>5. ASSUME NEW id \in Name, StopChannel(id) PROVE Receivers'
  <2>1. bus' = Stop(bus, id) /\ UNCHANGED <<held, sessions>>
    BY <1>5 DEF StopChannel, KeepNetwork
  <2>2. BusShape(bus') /\ bus'.made = bus.made /\ Registered(bus') \subseteq Registered(bus)
    BY <1>1, <2>1, StoppedChannels
  <2> QED BY <2>1, <2>2 DEF Receivers, Inputs
<1>6. CASE StopAllChannels
  <2>1. bus' = StopAll(bus) /\ UNCHANGED <<held, sessions>>
    BY <1>6 DEF StopAllChannels, KeepNetwork
  <2>2. BusShape(bus') /\ bus'.made = bus.made /\ Registered(bus') \subseteq Registered(bus)
    BY <1>1, <2>1, StoppedChannels
  <2> QED BY <2>1, <2>2 DEF Receivers, Inputs
<1> QED BY <1>2, <1>3, <1>4, <1>5, <1>6 DEF UseBus

LEMMA StepKeepsReceivers == Receivers /\ [Next]_vars => Receivers'
<1> SUFFICES ASSUME Receivers, [Next]_vars PROVE Receivers'
  OBVIOUS
<1>1. ASSUME UNCHANGED <<bus, held, sessions>> PROVE Receivers'
  BY <1>1 DEF Receivers, Inputs
<1>2. CASE UseBus BY <1>2, UseBusKeepsReceivers
<1>3. ASSUME NEW a \in table, Feed(a) PROVE Receivers'
  BY <1>3, ConnectingKeepsReceivers DEF Feed
<1>4. ASSUME NEW i \in todo, NEW a \in table, NEW b \in table, ConnectNext(i, a, b) PROVE Receivers'
  BY <1>4, ConnectingKeepsReceivers DEF ConnectNext
<1>5. ASSUME NEW r \in todo, CreateNext(r) PROVE Receivers'
  <2>1. bus' = NewPair(bus) /\ UNCHANGED <<held, sessions>>
    BY <1>5 DEF CreateNext
  <2>2. /\ BusShape(bus') /\ bus'.made = bus.made + 1 /\ bus.made \in Nat
        /\ Registered(bus') = Registered(bus)
    BY <2>1, NewPairOfChannel DEF Receivers
  <2> QED BY <2>1, <2>2 DEF Receivers, Inputs
<1>6. CASE UNCHANGED vars BY <1>1, <1>6 DEF vars
<1> QED
  BY <1>1, <1>2, <1>3, <1>4, <1>5, <1>6
  DEF Next, BeginCall, EndCall, AddRouter, AddConnection, BeginFromTopology, InsertRouter, CloneRibPanics, BeginStart, BeginStop,
      DropManager, BeginJoinAll, EndFromTopology, SendNext, SendFails, PickJoin, EndCreate,
      EndSend, EndJoinAll, JoinNext, Runner, Take, End, Panic

(* A receiver of a channel is in one place only, in the registry or with   *)
(* one user, whatever channels are stopped and made again.                 *)
THEOREM ReceiversStayUnique == Spec => []ReceiversAreUnique
<1>1. Receivers => ReceiversAreUnique
  BY DEF Receivers, ReceiversAreUnique, Inputs, Registered, BusShape
<1> QED BY <1>1, InitHasReceivers, StepKeepsReceivers, PTL DEF Spec

-----------------------------------------------------------------------------
(* Links.                                                                  *)

Ends(n) == \E s, t \in sessions :
  /\ s.link = n /\ t.link = n
  /\ <<made[s.router], made[t.router]>> = topology[n]

(* A link that exists has its two ends; a link not connected yet has none. *)
Linked ==
  /\ topology \in Seq(RouterId \X RouterId)
  /\ made \in Seq(RouterId) /\ table \subseteq DOMAIN made
  /\ \A s, t \in sessions : s # t =>
       IF s.link = t.link THEN Joined(s, t) ELSE {s.out, s.in} \cap {t.out, t.in} = {}
  /\ \A s \in sessions :
       /\ s.link \in 1 .. Len(topology) + 1 /\ s.router \in DOMAIN made \cup {Outside}
       /\ s.link = Len(topology) + 1 => \E t \in sessions : t.router = Outside
       /\ s.link <= Len(topology) => s.router \in DOMAIN made
       /\ manager \in {"none", "building"} => s.router # Outside
       /\ call = "connect" => s.link \notin todo
  /\ call = "connect" => todo \subseteq DOMAIN topology /\ manager = "building"
  /\ manager = "none" => sessions = {}
  /\ \A n \in DOMAIN topology :
       manager \in {"there", "dropped"} \/ (call = "connect" /\ n \notin todo) => Ends(n)

LEMMA NewLinkIsJoined ==
  ASSUME Receivers, NEW n, NEW a, NEW b, a # b, \A s \in sessions : s.link # n,
         NEW s \in sessions \cup NewLink(n, a, b), NEW t \in sessions \cup NewLink(n, a, b), s # t,
         s \in sessions /\ t \in sessions =>
           IF s.link = t.link THEN Joined(s, t) ELSE {s.out, s.in} \cap {t.out, t.in} = {}
  PROVE  IF s.link = t.link THEN Joined(s, t) ELSE {s.out, s.in} \cap {t.out, t.in} = {}
<1> DEFINE m == bus.made
           new == NewLink(n, a, b)
<1>1. m \in Nat BY RegisteredAreOld DEF Receivers
<1>2. \A x \in new : x.link = n /\ x.in \in {m + 1, m + 2} /\ x.out \in {m + 1, m + 2}
  BY DEF NewLink
<1>3. \A x \in sessions : x.link # n /\ x.in \in 1 .. m /\ x.out \in 1 .. m
  BY DEF Receivers
<1>4. CASE s \in sessions /\ t \in sessions BY <1>4
<1>5. CASE s \in new /\ t \in new BY <1>5 DEF NewLink, Joined
<1> HIDE DEF m, new
<1>6. CASE s \in sessions /\ t \in new BY <1>1, <1>2, <1>3, <1>6
<1>7. CASE s \in new /\ t \in sessions BY <1>1, <1>2, <1>3, <1>7
<1> QED BY <1>4, <1>5, <1>6, <1>7 DEF new

LEMMA InitHasLinked == Init => Linked
<1> SUFFICES ASSUME Init PROVE Linked
  OBVIOUS
<1>1. topology \in Seq(RouterId \X RouterId) /\ made \in Seq(RouterId) /\ DOMAIN topology = {}
  BY DEF Init, Graph!NewTopology
<1> QED BY <1>1 DEF Init, Linked

LEMMA ConnectingKeepsLinked ==
  ASSUME Linked, Receivers, NEW i \in todo, NEW a \in table, NEW b \in table, ConnectNext(i, a, b)
  PROVE  Linked'
<1>1. /\ call = "connect" /\ manager = "building" /\ i \in DOMAIN topology
      /\ <<made[a], made[b]>> = topology[i] /\ a \in DOMAIN made /\ b \in DOMAIN made
      /\ UNCHANGED <<manager, topology, made, table>>
  BY DEF ConnectNext, Linked
<1>2. CASE a = b
  <2>1. call' = "panicked" /\ UNCHANGED <<sessions, todo>> BY <1>2 DEF ConnectNext
  <2> QED BY <1>1, <2>1 DEF Linked, Ends, Joined
<1>3. CASE a # b
  <2>1. sessions' = sessions \cup NewLink(i, a, b) /\ todo' = todo \ {i} /\ UNCHANGED call
    BY <1>3 DEF ConnectNext
  <2>2. Len(topology) \in Nat /\ DOMAIN topology = 1 .. Len(topology)
        /\ Len(made) \in Nat /\ DOMAIN made = 1 .. Len(made)
    BY DEF Linked
  <2>3. \A s \in sessions : s.link # i BY <1>1 DEF Linked
  <2>4. ASSUME NEW s \in sessions', NEW t \in sessions', s # t
        PROVE  IF s.link = t.link THEN Joined(s, t) ELSE {s.out, s.in} \cap {t.out, t.in} = {}
    BY <1>3, <2>1, <2>3, <2>4, NewLinkIsJoined DEF Linked
  <2>5. \A s \in NewLink(i, a, b) : s.link = i /\ s.router \in {a, b}
    BY DEF NewLink
  <2>6. ASSUME NEW s \in sessions'
        PROVE  /\ s.link \in 1 .. Len(topology) + 1 /\ s.router \in DOMAIN made \cup {Outside}
               /\ s.link = Len(topology) + 1 => \E t \in sessions' : t.router = Outside
               /\ s.link <= Len(topology) => s.router \in DOMAIN made
               /\ s.router # Outside /\ s.link \notin todo'
    <3>1. CASE s \in sessions BY <1>1, <2>1, <3>1 DEF Linked
    <3>2. CASE s \in NewLink(i, a, b) BY <1>1, <2>1, <2>2, <2>5, <3>2 DEF Outside
    <3> QED BY <2>1, <3>1, <3>2
  <2>7. ASSUME NEW n \in DOMAIN topology, n \notin todo'
        PROVE  Ends(n)'
    <3>1. CASE n = i
      <4>1. \E s, t \in NewLink(i, a, b) : s.link = i /\ t.link = i /\ s.router = a /\ t.router = b
        BY DEF NewLink
      <4> QED BY <1>1, <2>1, <3>1, <4>1 DEF Ends
    <3>2. CASE n # i
      <4>1. Ends(n) BY <1>1, <2>1, <2>7, <3>2 DEF Linked
      <4> QED BY <1>1, <2>1, <4>1 DEF Ends
    <3> QED BY <3>1, <3>2
  <2>8. todo' \subseteq DOMAIN topology BY <1>1, <2>1 DEF Linked
  <2> QED BY <1>1, <2>1, <2>4, <2>6, <2>7, <2>8 DEF Linked, Joined
<1> QED BY <1>2, <1>3

LEMMA FeedingKeepsLinked ==
  ASSUME Linked, Receivers, NEW a \in table, Feed(a)
  PROVE  Linked'
<1> DEFINE n == Len(topology) + 1
<1>1. /\ sessions' = sessions \cup NewLink(n, Outside, a) /\ manager = "there" /\ call = "idle"
      /\ \A s \in sessions : s.router # Outside
      /\ UNCHANGED <<manager, topology, made, table, call, todo>>
  BY DEF Feed, Uses, Free
<1>2. /\ Len(topology) \in Nat /\ DOMAIN topology = 1 .. Len(topology)
      /\ Len(made) \in Nat /\ DOMAIN made = 1 .. Len(made) /\ a \in DOMAIN made
  BY DEF Linked
<1>3. a # Outside /\ \A s \in sessions : s.link # n /\ s.link \in 1 .. n
  BY <1>1, <1>2 DEF Outside, Linked
<1>4. ASSUME NEW s \in sessions', NEW t \in sessions', s # t
      PROVE  IF s.link = t.link THEN Joined(s, t) ELSE {s.out, s.in} \cap {t.out, t.in} = {}
  <2> HIDE DEF n
  <2> QED BY <1>1, <1>3, <1>4, NewLinkIsJoined DEF Linked
<1>5. /\ \A s \in NewLink(n, Outside, a) : s.link = n /\ s.router \in {Outside, a}
      /\ \E s \in NewLink(n, Outside, a) : s.router = Outside
  BY DEF NewLink
<1>6. ASSUME NEW s \in sessions'
      PROVE  /\ s.link \in 1 .. n /\ s.router \in DOMAIN made \cup {Outside}
             /\ \E t \in sessions' : t.router = Outside
             /\ s.link <= Len(topology) => s.router \in DOMAIN made
  <2>1. CASE s \in sessions BY <1>1, <1>2, <1>5, <2>1 DEF Linked
  <2>2. CASE s \in NewLink(n, Outside, a) BY <1>1, <1>2, <1>5, <2>2
  <2> QED BY <1>1, <2>1, <2>2
<1>7. ASSUME NEW l \in DOMAIN topology PROVE Ends(l)'
  BY <1>1 DEF Linked, Ends
<1> QED BY <1>1, <1>4, <1>6, <1>7 DEF Linked, Joined

LEMMA InsertingKeepsLinked ==
  ASSUME Linked, NEW id \in RouterId, InsertRouter(id)
  PROVE  Linked'
<1>1. /\ made' = Append(made, id) /\ manager = "there" /\ call = "idle" /\ call' \in {"idle", "panicked"}
      /\ table' \in {table, table \cup {Len(made) + 1}}
      /\ UNCHANGED <<manager, topology, sessions, todo>>
  BY DEF InsertRouter, Uses, Free
<1>2. /\ made' \in Seq(RouterId) /\ DOMAIN made' = DOMAIN made \cup {Len(made) + 1}
      /\ \A k \in DOMAIN made : made'[k] = made[k]
  BY <1>1, AppendedId DEF Linked
<1>3. table' \subseteq DOMAIN made' BY <1>1, <1>2 DEF Linked
<1>4. Len(topology) \in Nat /\ DOMAIN topology = 1 .. Len(topology)
  BY DEF Linked
<1>5. ASSUME NEW n \in DOMAIN topology PROVE Ends(n)'
  <2>1. PICK s \in sessions, t \in sessions :
          s.link = n /\ t.link = n /\ <<made[s.router], made[t.router]>> = topology[n]
    BY <1>1 DEF Linked, Ends
  <2>2. s.router \in DOMAIN made /\ t.router \in DOMAIN made
    BY <1>4, <2>1 DEF Linked
  <2> QED BY <1>1, <1>2, <2>1, <2>2 DEF Ends
<1>6. \A s \in sessions : s.router \in DOMAIN made' \cup {Outside}
                        /\ (s.link <= Len(topology) => s.router \in DOMAIN made')
  BY <1>2 DEF Linked
<1> QED BY <1>1, <1>2, <1>3, <1>5, <1>6 DEF Linked, Joined

LEMMA StepKeepsLinked == Types /\ Linked /\ Receivers /\ [Next]_vars => Linked'
<1> SUFFICES ASSUME Types, Linked, Receivers, [Next]_vars PROVE Linked'
  OBVIOUS
<1> DEFINE wires == <<manager, topology, made, sessions>>
<1>1. ASSUME UNCHANGED wires, table' \subseteq table, call' # "connect", call # "connect"
      PROVE  Linked'
  BY <1>1 DEF Linked, Ends, Joined
<1>2. ASSUME UNCHANGED <<wires, table, call, todo>> PROVE Linked'
  BY <1>2 DEF Linked, Ends, Joined
<1>3. CASE UseBus
  BY <1>2, <1>3 DEF UseBus, Create, TakeReceiver, TakePair, StopChannel, StopAllChannels, KeepNetwork
<1>4. CASE BeginFromTopology
  <2> DEFINE keys == Keys(graph)
  <2>1. keys \in Seq(RouterId) BY KeysOfVertices DEF Types
  <2>2. /\ manager = "none" /\ manager' = "building" /\ made' = keys
        /\ table' = DOMAIN keys /\ UNCHANGED <<graph, sessions>>
        /\ call' = "panicked" \/ (call' = "connect" /\ todo' = DOMAIN topology)
    BY <1>4 DEF BeginFromTopology
  <2> HIDE DEF keys
  <2>3. sessions = {} BY <2>2 DEF Linked
  <2> QED BY <2>1, <2>2, <2>3 DEF Linked
<1>5. ASSUME NEW a \in table, Feed(a) PROVE Linked'
  BY <1>5, FeedingKeepsLinked
<1>6. ASSUME NEW id \in RouterId, InsertRouter(id) PROVE Linked'
  BY <1>6, InsertingKeepsLinked
<1>7. ASSUME NEW i \in todo, NEW a \in table, NEW b \in table, ConnectNext(i, a, b) PROVE Linked'
  BY <1>7, ConnectingKeepsLinked
<1>8. CASE EndFromTopology
  <2>1. /\ call = "connect" /\ todo = {} /\ call' = "idle" /\ manager' = "there"
        /\ UNCHANGED <<topology, made, table, sessions>>
    BY <1>8 DEF EndFromTopology
  <2>2. \A n \in DOMAIN topology : Ends(n)' BY <2>1 DEF Linked, Ends
  <2> QED BY <2>1, <2>2 DEF Linked, Joined
<1>9. CASE DropManager
  BY <1>9 DEF DropManager, Uses, Free, Linked, Ends, Joined
<1>10. CASE BeginStart \/ BeginStop \/ BeginJoinAll
  BY <1>1, <1>10 DEF BeginStart, BeginStop, BeginJoinAll, Unborrowed, Uses, Free
<1>11. ASSUME NEW r \in todo, CreateNext(r) \/ SendNext(r) \/ SendFails(r) \/ PickJoin(r) PROVE Linked'
  BY <1>1, <1>11 DEF CreateNext, SendNext, SendFails, PickJoin
<1>12. CASE EndCreate \/ EndSend \/ EndJoinAll
  BY <1>1, <1>12 DEF EndCreate, EndSend, EndJoinAll
<1>13. ASSUME NEW r \in joining, JoinNext(r) PROVE Linked'
  BY <1>1, <1>13 DEF JoinNext
<1>14. ASSUME NEW r \in 1 .. MaxRouters, Runner(r) PROVE Linked'
  BY <1>2, <1>14 DEF Runner, Take, End, Panic
<1>15. CASE UNCHANGED vars BY <1>2, <1>15 DEF vars
<1>16. ASSUME manager = "none", call = "idle", GraphOK(graph'), UNCHANGED <<manager, made, table, sessions, call, todo>>
       PROVE  Linked'
  <2>1. topology' \in Seq(Connections) BY <1>16 DEF GraphOK
  <2>2. topology' \in Seq(RouterId \X RouterId) BY <2>1, ManagerAssumption
  <2> QED BY <1>16, <2>2 DEF Linked
<1>17. ASSUME NEW id \in RouterId, AddRouter(id) PROVE Linked'
  BY <1>16, <1>17, AddedVertex DEF AddRouter, Free, Types
<1>18. ASSUME NEW edge \in Connections, AddConnection(edge) PROVE Linked'
  BY <1>16, <1>18, AddedEdge DEF AddConnection, Free, Types
<1>19. CASE CloneRibPanics BY <1>1, <1>19 DEF CloneRibPanics, Uses, Free
<1> QED
  BY <1>3, <1>4, <1>5, <1>6, <1>7, <1>8, <1>9, <1>10, <1>11, <1>12, <1>13, <1>14, <1>15,
     <1>17, <1>18, <1>19
  DEF Next, BeginCall, EndCall

(* Each edge of the topology gets a link of its own between its routers,   *)
(* whichever channels exist before, and no two links share a channel.      *)
THEOREM LinksAreWired == Spec => []LinksFollowTopology
<1>1. Linked => LinksFollowTopology
  BY DEF Linked, LinksFollowTopology, Ends
<1> QED BY <1>1, InitHasLinked, InitHasReceivers, StepKeepsReceivers, StepKeepsLinked,
     InitHasTypes, StepKeepsTypes, PTL DEF Spec

-----------------------------------------------------------------------------
(* Panics.                                                                 *)

Caused ==
  /\ PanicsAreCaused
  /\ call = "join" => manager \in {"none", "dropped"}

LEMMA StepKeepsCaused == Types /\ Caused /\ [Next]_vars => Caused'
<1> SUFFICES ASSUME Types, Caused, [Next]_vars PROVE Caused'
  OBVIOUS
<1>1. ASSUME call' \notin {"join", "panicked"} PROVE Caused'
  BY <1>1 DEF Caused, PanicsAreCaused
<1>2. ASSUME UNCHANGED <<manager, graph, made, table, sessions, machine, call, todo, joining>>
      PROVE  Caused'
  BY <1>2 DEF Caused, PanicsAreCaused, Loop, Fed
<1>3. CASE UseBus
  BY <1>2, <1>3 DEF UseBus, Create, TakeReceiver, TakePair, StopChannel, StopAllChannels, KeepNetwork
<1>4. ASSUME NEW id \in RouterId, AddRouter(id) PROVE Caused'
  BY <1>1, <1>4 DEF AddRouter, Free
<1>5. ASSUME NEW edge \in Connections, AddConnection(edge) PROVE Caused'
  BY <1>1, <1>5 DEF AddConnection, Free
<1>6. CASE BeginFromTopology
  BY <1>1, <1>6, KeysOfVertices DEF BeginFromTopology, Types
<1>7. ASSUME NEW a \in table, Feed(a) PROVE Caused'
  BY <1>1, <1>7 DEF Feed, Uses, Free
<1>8. ASSUME NEW id \in RouterId, InsertRouter(id) PROVE Caused'
  <2>1. /\ made' = Append(made, id) /\ Len(made') = Len(made) + 1 /\ Len(made) + 1 \in DOMAIN made'
        /\ made'[Len(made')] = id /\ \A k \in DOMAIN made : made'[k] = made[k]
        /\ table \subseteq DOMAIN made /\ manager' = "there"
    BY <1>8, AppendedId DEF InsertRouter, Uses, Types, TypeOK
  <2>2. CASE call' = "idle" BY <1>1, <2>2
  <2>3. CASE \E k \in table : made[k] = id
    <3>1. call' = "panicked" /\ table' = table BY <1>8, <2>3 DEF InsertRouter
    <3>2. \E k \in table' \ {Len(made')} : made'[k] = made'[Len(made')] BY <2>1, <2>3, <3>1
    <3> QED BY <2>1, <3>1, <3>2 DEF Caused, PanicsAreCaused
  <2> QED BY <1>8, <2>2, <2>3 DEF InsertRouter, Uses, Free
<1>9. CASE BeginStart \/ BeginStop \/ DropManager
  BY <1>1, <1>9 DEF BeginStart, BeginStop, DropManager, Uses, Free
<1>10. CASE BeginJoinAll
  BY <1>10 DEF BeginJoinAll, Unborrowed, Caused, PanicsAreCaused
<1>11. ASSUME NEW i \in todo, NEW a \in table, NEW b \in table, ConnectNext(i, a, b) PROVE Caused'
  <2>1. CASE a # b BY <1>1, <1>11, <2>1 DEF ConnectNext
  <2>2. CASE a = b
    <3>1. /\ call' = "panicked" /\ manager' = "building" /\ UNCHANGED <<todo, topology>>
          /\ <<made[a], made[a]>> = topology[i] /\ \A j \in todo : i <= j
      BY <1>11, <2>2 DEF ConnectNext, Types
    <3> QED BY <3>1 DEF Caused, PanicsAreCaused, Loop
  <2> QED BY <2>1, <2>2
<1>12. CASE EndFromTopology BY <1>1, <1>12 DEF EndFromTopology
<1>13. ASSUME NEW r \in todo, CreateNext(r) \/ SendNext(r) \/ SendFails(r) PROVE Caused'
  BY <1>1, <1>13 DEF CreateNext, SendNext, SendFails
<1>14. CASE EndCreate \/ EndSend \/ EndJoinAll
  BY <1>1, <1>14 DEF EndCreate, EndSend, EndJoinAll
<1>15. ASSUME NEW r \in todo, PickJoin(r) PROVE Caused'
  BY <1>15 DEF PickJoin, Caused, PanicsAreCaused
<1>16. ASSUME NEW r \in joining, JoinNext(r) PROVE Caused'
  BY <1>16 DEF JoinNext, Caused, PanicsAreCaused
<1>17. ASSUME NEW r \in 1 .. MaxRouters, Runner(r) PROVE Caused'
  <2>1. UNCHANGED <<manager, graph, made, table, sessions, call, todo, joining>>
    BY <1>17 DEF Runner, Take, End, Panic
  <2>2. ASSUME NEW q \in 1 .. MaxRouters, machine[q] = "panicked" PROVE machine'[q] = "panicked"
    <3>1. DOMAIN machine = 1 .. MaxRouters BY DEF Types, TypeOK
    <3>2. CASE Take(r) BY <2>2, <3>1, <3>2 DEF Take
    <3>3. CASE End(r) \/ Panic(r) BY <2>2, <3>1, <3>3 DEF End, Panic
    <3> QED BY <1>17, <3>2, <3>3 DEF Runner
  <2>3. DOMAIN made \cup joining \subseteq 1 .. MaxRouters
    BY RoutersHaveMachines DEF Types, TypeOK
  <2>4. (\E q \in DOMAIN made : Fed(q) /\ machine[q] = "panicked")
          => (\E q \in DOMAIN made : Fed(q) /\ machine[q] = "panicked")'
    <3>1. \A q : Fed(q) <=> Fed(q)' BY <2>1 DEF Fed
    <3> QED BY <2>1, <2>2, <2>3, <3>1
  <2>5. (\E q \in joining : machine[q] = "panicked")
          => (\E q \in joining : machine[q] = "panicked")'
    BY <2>1, <2>2, <2>3
  <2> QED BY <2>1, <2>4, <2>5 DEF Caused, PanicsAreCaused, Loop
<1>18. CASE UNCHANGED vars BY <1>2, <1>18 DEF vars
<1>19. CASE CloneRibPanics
  <2>1. /\ manager = "there" /\ UNCHANGED <<manager, sessions, made, machine>>
        /\ call' = "panicked" /\ \E r \in DOMAIN made : Fed(r) /\ machine[r] = "panicked"
    BY <1>19 DEF CloneRibPanics, Uses
  <2>2. \A r : Fed(r)' <=> Fed(r) BY <2>1 DEF Fed
  <2>3. \E r \in DOMAIN made' : Fed(r)' /\ machine'[r] = "panicked" BY <2>1, <2>2
  <2> QED BY <2>1, <2>3 DEF Caused, PanicsAreCaused
<1> QED
  BY <1>3, <1>4, <1>5, <1>6, <1>7, <1>8, <1>9, <1>10, <1>11, <1>12, <1>13, <1>14, <1>15,
     <1>16, <1>17, <1>18, <1>19
  DEF Next, BeginCall, EndCall

(* The owner panics at a loop of the topology, at a router it inserts      *)
(* twice, and at the RIB or the thread of a panicked router, and nowhere   *)
(* else: a topology has a vertex once for each id, whatever it was made    *)
(* from.                                                                   *)
THEOREM PanicsHaveCauses == Spec => []PanicsAreCaused
<1>1. Init => Caused BY DEF Init, Caused, PanicsAreCaused
<1>2. Caused => PanicsAreCaused BY DEF Caused
<1> QED BY <1>1, <1>2, InitHasTypes, StepKeepsTypes, StepKeepsCaused, PTL DEF Spec

-----------------------------------------------------------------------------
(* The machines.  That of a router is made once, when start drains the     *)
(* router from the table, and nothing is sent to it before.                *)

Made ==
  /\ manager = "none" => table = {} /\ made = <<>>
  /\ \A r \in 1 .. MaxRouters :
       /\ r \notin DOMAIN made => machine[r] = "none"
       /\ machine[r] = "none" => mailbox[r] = <<>>
  /\ \A r \in table : machine[r] = "none"
  /\ call = "create" => table = {} /\ \A r \in todo : machine[r] = "none"
  /\ \A r \in sm : machine[r] # "none"

LEMMA StepKeepsMade == Types /\ Made /\ [Next]_vars => Made'
<1> SUFFICES ASSUME Types, Made, [Next]_vars PROVE Made'
  OBVIOUS
<1>0. /\ DOMAIN made \subseteq 1 .. MaxRouters
      /\ DOMAIN machine = 1 .. MaxRouters /\ DOMAIN mailbox = 1 .. MaxRouters
      /\ table \cup sm \subseteq DOMAIN made
  BY RoutersHaveMachines DEF Types, TypeOK
<1>1. ASSUME UNCHANGED <<made, table, machine, mailbox, sm>>,
             manager' # "none" \/ manager' = manager,
             call' # "create" \/ UNCHANGED <<call, todo>>
      PROVE  Made'
  BY <1>1 DEF Made
<1>2. CASE UseBus
  BY <1>1, <1>2 DEF UseBus, Create, TakeReceiver, TakePair, StopChannel, StopAllChannels, KeepNetwork
<1>3. CASE BeginFromTopology
  <2>1. /\ manager = "none" /\ manager' = "building" /\ call' \in {"connect", "panicked"}
        /\ made' = Keys(graph) /\ table' = DOMAIN made' /\ UNCHANGED <<machine, mailbox, sm>>
    BY <1>3 DEF BeginFromTopology
  <2>2. made = <<>> /\ sm = {}
    BY <2>1 DEF Made, Types
  <2>3. \A r \in 1 .. MaxRouters : machine[r] = "none"
    BY <2>2 DEF Made
  <2>4. Keys(graph) \in Seq(RouterId) /\ Len(Keys(graph)) <= MaxRouters
    BY KeysOfVertices DEF Types
  <2>5. DOMAIN made' \subseteq 1 .. MaxRouters
    BY <2>1, <2>4, ManagerAssumption
  <2> QED BY <2>1, <2>2, <2>3, <2>5 DEF Made
<1>4. ASSUME NEW a \in table, Feed(a) PROVE Made'
  BY <1>1, <1>4 DEF Feed
<1>5. ASSUME NEW id \in RouterId, InsertRouter(id) PROVE Made'
  <2>1. /\ Len(made) + 1 \in 1 .. MaxRouters /\ Len(made) + 1 \notin DOMAIN made
        /\ DOMAIN made' = DOMAIN made \cup {Len(made) + 1}
    BY <1>5, AppendedId, ManagerAssumption DEF InsertRouter, Types, TypeOK
  <2>2. /\ table' = table \/ table' = table \cup {Len(made) + 1}
        /\ manager' = "there" /\ call' \in {"idle", "panicked"}
        /\ UNCHANGED <<machine, mailbox, sm>>
    BY <1>5 DEF InsertRouter, Uses, Free
  <2> QED BY <2>1, <2>2 DEF Made
<1>6. CASE BeginStart BY <1>6 DEF BeginStart, Uses, Made
<1>7. CASE BeginStop BY <1>1, <1>7 DEF BeginStop
<1>8. CASE DropManager BY <1>1, <1>8 DEF DropManager
<1>9. CASE BeginJoinAll BY <1>1, <1>9 DEF BeginJoinAll
<1>10. ASSUME NEW i \in todo, NEW a \in table, NEW b \in table, ConnectNext(i, a, b) PROVE Made'
  BY <1>1, <1>10 DEF ConnectNext
<1>11. CASE EndFromTopology BY <1>1, <1>11 DEF EndFromTopology
<1>12. ASSUME NEW r \in todo, CreateNext(r) PROVE Made'
  <2>1. /\ call = "create" /\ r \in DOMAIN made /\ r \in 1 .. MaxRouters
        /\ machine' = [machine EXCEPT ![r] = "waiting"] /\ sm' \subseteq sm \cup {r}
        /\ todo' = todo \ {r} /\ UNCHANGED <<manager, made, table, mailbox, call>>
    BY <1>0, <1>12 DEF CreateNext, Types
  <2>2. \A q \in 1 .. MaxRouters : machine'[q] = IF q = r THEN "waiting" ELSE machine[q]
    BY <1>0, <2>1
  <2>3. todo \subseteq 1 .. MaxRouters
    BY <1>0, <2>1 DEF Types
  <2> QED BY <1>0, <2>1, <2>2, <2>3 DEF Made
<1>13. ASSUME NEW r \in todo, SendNext(r) PROVE Made'
  <2>1. /\ r \in sm /\ mailbox' = [mailbox EXCEPT ![r] = <<call>>] /\ call' # "create"
        /\ UNCHANGED <<manager, made, table, machine, sm>>
    BY <1>13 DEF SendNext, Types
  <2> QED BY <1>0, <2>1 DEF Made
<1>14. ASSUME NEW r \in todo, SendFails(r) \/ PickJoin(r) PROVE Made'
  BY <1>1, <1>14 DEF SendFails, PickJoin
<1>15. CASE EndCreate \/ EndSend \/ EndJoinAll
  BY <1>1, <1>15 DEF EndCreate, EndSend, EndJoinAll
<1>16. ASSUME NEW r \in joining, JoinNext(r) PROVE Made'
  BY <1>1, <1>16 DEF JoinNext
<1>17. ASSUME NEW r \in 1 .. MaxRouters, Runner(r) PROVE Made'
  <2>1. /\ UNCHANGED <<manager, made, table, sm, call, todo>>
        /\ machine[r] # "none" /\ machine'[r] # "none" /\ mailbox'[r] = <<>>
        /\ \A q \in 1 .. MaxRouters \ {r} : machine'[q] = machine[q] /\ mailbox'[q] = mailbox[q]
    BY <1>0, <1>17 DEF Runner, Take, End, Panic
  <2>2. call = "create" => todo \subseteq 1 .. MaxRouters
    BY <1>0 DEF Types
  <2> QED BY <1>0, <2>1, <2>2 DEF Made
<1>18. CASE UNCHANGED vars \/ CloneRibPanics BY <1>1, <1>18 DEF vars, CloneRibPanics
<1>19. ASSUME NEW id \in RouterId, AddRouter(id) PROVE Made'
  BY <1>1, <1>19 DEF AddRouter
<1>20. ASSUME NEW edge \in Connections, AddConnection(edge) PROVE Made'
  BY <1>1, <1>20 DEF AddConnection
<1> QED
  BY <1>2, <1>3, <1>4, <1>5, <1>6, <1>7, <1>8, <1>9, <1>10, <1>11, <1>12, <1>13, <1>14,
     <1>15, <1>16, <1>17, <1>18, <1>19, <1>20
  DEF Next, BeginCall, EndCall

Life(r) == INSTANCE Lifecycle WITH machine <- machine[r], mailbox <- mailbox[r]

LEMMA StepIsOfLife ==
  ASSUME Types, Made, [Next]_vars, NEW q \in 1 .. MaxRouters
  PROVE  [Life(q)!Next]_<<machine[q], mailbox[q]>>
<1> DEFINE goal == [Life(q)!Next]_<<machine[q], mailbox[q]>>
<1>0. /\ DOMAIN made \subseteq 1 .. MaxRouters /\ sm \subseteq DOMAIN made
      /\ machine \in [1 .. MaxRouters -> Machine] /\ mailbox \in [1 .. MaxRouters -> Mailbox]
  BY RoutersHaveMachines DEF Types, TypeOK, Machine, Mailbox
<1>1. ASSUME UNCHANGED <<machine[q], mailbox[q]>> PROVE goal
  BY <1>1
<1>2. ASSUME UNCHANGED <<machine, mailbox>> PROVE goal
  BY <1>1, <1>2
<1>3. ASSUME NEW r \in todo, CreateNext(r) PROVE goal
  <2>1. /\ machine' = [machine EXCEPT ![r] = "waiting"] /\ machine[r] = "none"
        /\ UNCHANGED mailbox
    BY <1>3 DEF CreateNext, Made
  <2>2. CASE r # q BY <1>0, <1>1, <2>1, <2>2
  <2>3. CASE r = q
    <3>1. Life(q)!Create BY <1>0, <2>1, <2>3 DEF Life!Create
    <3> QED BY <3>1 DEF Life!Next
  <2> QED BY <2>2, <2>3
<1>4. ASSUME NEW r \in todo, SendNext(r) PROVE goal
  <2>1. /\ call \in {"start", "stop"} /\ r \in sm /\ ~ Ended(r) /\ mailbox[r] = <<>>
        /\ mailbox' = [mailbox EXCEPT ![r] = <<call>>] /\ UNCHANGED machine
    BY <1>4 DEF SendNext, Types
  <2>2. CASE r # q BY <1>0, <1>1, <2>1, <2>2
  <2>3. CASE r = q
    <3>1. machine[q] \in Life(q)!Alive
      BY <1>0, <2>1, <2>3 DEF Made, Ended, Machine, Life!Alive
    <3>2. call \in DOMAIN Life(q)!Obeying BY <2>1 DEF Life!Obeying
    <3>3. Life(q)!Send(call) BY <1>0, <2>1, <2>3, <3>1 DEF Life!Send
    <3> QED BY <3>2, <3>3 DEF Life!Next
  <2> QED BY <2>2, <2>3
<1>5. ASSUME NEW r \in 1 .. MaxRouters, Runner(r) PROVE goal
  <2>1. CASE r # q BY <1>0, <1>1, <1>5, <2>1 DEF Runner, Take, End, Panic
  <2>2. CASE r = q /\ Take(q)
    <3>1. PICK c \in {"start", "stop"} : mailbox[q] = <<c>>
      BY <1>0, <2>2 DEF Take, Mailbox
    <3>2. Head(<<c>>) = c /\ <<c>> # <<>> /\ <<"stop">> # <<"start">> OBVIOUS
    <3>3. /\ machine[q] \in {"waiting", "running"} /\ mailbox'[q] = <<>>
          /\ machine'[q] = IF c = "start" THEN "running" ELSE "stopping"
      BY <1>0, <2>2, <3>1, <3>2 DEF Take
    <3>4. Life(q)!Take
      BY <3>1, <3>2, <3>3 DEF Life!Take, Life!Alive, Life!Obeying
    <3> QED BY <3>4 DEF Life!Next
  <2>3. CASE r = q /\ End(q)
    <3>1. Life(q)!End BY <1>0, <2>3 DEF End, Life!End
    <3> QED BY <3>1 DEF Life!Next
  <2>4. CASE r = q /\ Panic(q)
    <3>1. Life(q)!Panic BY <1>0, <2>4 DEF Panic, Life!Panic
    <3> QED BY <3>1 DEF Life!Next
  <2> QED BY <1>5, <2>1, <2>2, <2>3, <2>4 DEF Runner
<1>6. CASE UNCHANGED vars BY <1>2, <1>6 DEF vars
<1> QED
  BY <1>2, <1>3, <1>4, <1>5, <1>6
  DEF Next, UseBus, Create, TakeReceiver, TakePair, StopChannel, StopAllChannels, KeepNetwork,
      BeginCall, AddRouter, AddConnection, BeginFromTopology, Feed, InsertRouter, CloneRibPanics, BeginStart,
      BeginStop, DropManager, BeginJoinAll, EndCall, ConnectNext, EndFromTopology, SendFails,
      PickJoin, EndCreate, EndSend, EndJoinAll, JoinNext

(* The machine of each router of a network is one, as module StateMachine  *)
(* has it in detail: start and stop that send at once to all of them, and  *)
(* a start that makes more of them, keep to what each of them promises.    *)
THEOREM RoutersHaveLifecycles ==
  ASSUME NEW q \in 1 .. MaxRouters
  PROVE  Spec => Life(q)!Spec
<1>1. Init => Made /\ Life(q)!Init
  BY DEF Init, Made, Life!Init
<1>2. Types /\ Made /\ [Next]_vars => Made' /\ [Life(q)!Next]_<<machine[q], mailbox[q]>>
  BY StepKeepsMade, StepIsOfLife
<1> QED BY <1>1, <1>2, InitHasTypes, StepKeepsTypes, PTL DEF Spec, Life!Spec
-----------------------------------------------------------------------------
(* main as the owner of a manager.  Its topology is made of ids and edges  *)
(* as those of any topology.                                               *)

ProperTopology == Ids \in Seq(RouterId) /\ Edges \in Seq(Connections)

(* What main does to the manager: it uses no named channel, and inserts no *)
(* router but those of its topology.                                       *)
MainCall ==
  \/ \E id \in RouterId : AddRouter(id)
  \/ \E edge \in Connections : AddConnection(edge)
  \/ BeginFromTopology
  \/ 1 \in table /\ Feed(1)
  \/ BeginStart \/ BeginStop \/ DropManager \/ CloneRibPanics \/ BeginJoinAll \/ StopAllChannels
  \/ EndCall
  \/ \E r \in 1 .. MaxRouters : Runner(r)

LEMMA MainCalls ==
  ASSUME ProperTopology, Types, MainNext
  PROVE  MainCall \/ UNCHANGED vars
<1>0. Len(graph.vertices) \in Nat /\ Len(topology) \in Nat
  BY DEF Types, GraphOK
<1>1. CASE AddNextRouter
  <2>1. Ids[Len(graph.vertices) + 1] \in RouterId
    BY <1>0, <1>1 DEF AddNextRouter, ProperTopology
  <2> QED BY <1>1, <2>1 DEF AddNextRouter, MainCall
<1>2. CASE AddNextConnection
  <2>1. Edges[Len(topology) + 1] \in Connections
    BY <1>0, <1>2 DEF AddNextConnection, ProperTopology
  <2> QED BY <1>2, <2>1 DEF AddNextConnection, MainCall
<1>3. CASE BuildNetwork BY <1>3 DEF BuildNetwork, MainCall
<1>4. CASE AttachParser BY <1>4 DEF AttachParser, Feed, MainCall
<1>5. CASE StartNetwork \/ StopNetwork \/ DropNetwork \/ ReturnError
  BY <1>5 DEF StartNetwork, StopNetwork, DropNetwork, ReturnError, MainCall
<1>6. CASE ExportPanics \/ CleanUp \/ StopBus
  BY <1>6 DEF ExportPanics, CleanUp, StopBus, MainCall
<1>7. CASE StartParser \/ ExportFails \/ Export \/ JoinParser \/ ParserPanics
  BY <1>7 DEF StartParser, ExportFails, Export, JoinParser, ParserPanics
<1>8. CASE EndCall BY <1>8 DEF MainCall
<1>9. ASSUME NEW r \in 1 .. MaxRouters, Runs(r) \/ Panic(r) PROVE MainCall
  BY <1>9 DEF Runs, Runner, MainCall
<1> QED BY <1>1, <1>2, <1>3, <1>4, <1>5, <1>6, <1>7, <1>8, <1>9 DEF MainNext, MainStep

(* Nothing that main does is more than an owner may do to a manager: all   *)
(* that is proved of a manager holds for main's.                           *)
THEOREM MainUsesManager ==
  ASSUME ProperTopology
  PROVE  MainSpec => Init /\ [][Next]_vars
<1>1. MainCall => Next
  BY DEF MainCall, Next, BeginCall, UseBus
<1>2. MainInit => Init BY DEF MainInit
<1>3. Types /\ [MainNext]_mainVars => [Next]_vars
  BY <1>1, MainCalls DEF mainVars
<1>4. Types /\ [Next]_vars => Types' BY StepKeepsTypes
<1> QED BY <1>2, <1>3, <1>4, InitHasTypes, PTL DEF MainSpec

(* The ids of main's routers differ, so that start replaces no machine,    *)
(* and there is a machine in reach for each thread.                        *)
OneOfEach ==
  /\ \A i, j \in DOMAIN made : made[i] = made[j] => i = j
  /\ handles \subseteq sm /\ joining \subseteq sm
  /\ call = "join" => todo \subseteq sm
  /\ manager = "building" => call \in {"connect", "panicked"} /\ todo \subseteq DOMAIN topology

LEMMA MainKeepsOneOfEach ==
  ASSUME Types, OneOfEach, MainCall \/ UNCHANGED vars
  PROVE  OneOfEach'
<1>1. ASSUME UNCHANGED <<made, handles, sm>>, joining' \subseteq joining, manager' # "building",
             call' = "join" => UNCHANGED call /\ todo' \subseteq todo
      PROVE  OneOfEach'
  BY <1>1 DEF OneOfEach
<1>2. ASSUME UNCHANGED <<manager, graph, made, sm, handles, call, todo, joining>> PROVE OneOfEach'
  BY <1>2 DEF OneOfEach
<1>3. ASSUME NEW id \in RouterId, AddRouter(id) PROVE OneOfEach'
  BY <1>1, <1>3 DEF AddRouter, Free
<1>4. ASSUME NEW edge \in Connections, AddConnection(edge) PROVE OneOfEach'
  BY <1>1, <1>4 DEF AddConnection, Free
<1>5. CASE BeginFromTopology
  <2>1. /\ made' = Keys(graph) /\ call' \in {"connect", "panicked"}
        /\ UNCHANGED <<graph, handles, sm, joining>>
        /\ todo' = DOMAIN topology \/ todo' = {}
    BY <1>5 DEF BeginFromTopology, Types
  <2>2. \A i, j \in DOMAIN made' : made'[i] = made'[j] => i = j
    BY <2>1, KeysOfVertices DEF Types
  <2>3. handles' \subseteq sm' /\ joining' \subseteq sm' /\ todo' \subseteq DOMAIN topology'
    BY <2>1 DEF OneOfEach
  <2> QED BY <2>1, <2>2, <2>3 DEF OneOfEach
<1>6. CASE Feed(1) BY <1>2, <1>6 DEF Feed
<1>7. CASE BeginStart \/ BeginStop \/ DropManager \/ CloneRibPanics
  BY <1>1, <1>7 DEF BeginStart, BeginStop, DropManager, CloneRibPanics, Uses, Free
<1>8. CASE BeginJoinAll
  BY <1>8 DEF BeginJoinAll, Unborrowed, OneOfEach
<1>9. CASE StopAllChannels BY <1>2, <1>9 DEF StopAllChannels, KeepNetwork
<1>10. ASSUME NEW i \in todo, NEW a \in table, NEW b \in table, ConnectNext(i, a, b) PROVE OneOfEach'
  <2>1. /\ UNCHANGED <<manager, graph, made, handles, sm, joining>> /\ todo' \subseteq todo
        /\ call = "connect" /\ call' \in {"connect", "panicked"}
    BY <1>10 DEF ConnectNext
  <2> QED BY <2>1 DEF OneOfEach
<1>11. CASE EndFromTopology BY <1>1, <1>11 DEF EndFromTopology
<1>12. ASSUME NEW r \in todo, CreateNext(r) PROVE OneOfEach'
  <2>1. r \in DOMAIN made /\ sm \subseteq DOMAIN made
    BY <1>12 DEF CreateNext, Types, TypeOK
  <2>2. sm' = sm \cup {r}
    BY <1>12, <2>1 DEF CreateNext, OneOfEach
  <2> QED BY <1>12, <2>2 DEF CreateNext, OneOfEach
<1>13. ASSUME NEW r \in todo, SendNext(r) PROVE OneOfEach'
  BY <1>13 DEF SendNext, OneOfEach
<1>14. ASSUME NEW r \in todo, SendFails(r) PROVE OneOfEach'
  BY <1>14 DEF SendFails, OneOfEach
<1>15. ASSUME NEW r \in todo, PickJoin(r) PROVE OneOfEach'
  BY <1>15 DEF PickJoin, OneOfEach
<1>16. CASE EndCreate \/ EndSend \/ EndJoinAll
  <2>1. /\ UNCHANGED <<manager, made, handles, sm, joining>> /\ call' # "join"
        /\ manager # "building"
    BY <1>16 DEF EndCreate, EndSend, EndJoinAll, OneOfEach
  <2> QED BY <2>1 DEF OneOfEach
<1>17. ASSUME NEW r \in joining, JoinNext(r) PROVE OneOfEach'
  BY <1>17 DEF JoinNext, OneOfEach
<1>18. ASSUME NEW r \in 1 .. MaxRouters, Runner(r) PROVE OneOfEach'
  BY <1>2, <1>18 DEF Runner, Take, End, Panic
<1>19. CASE UNCHANGED vars BY <1>2, <1>19 DEF vars
<1> QED BY <1>3, <1>4, <1>5, <1>6, <1>7, <1>8, <1>9, <1>10, <1>11, <1>12, <1>13, <1>14, <1>15,
           <1>16, <1>17, <1>18, <1>19 DEF MainCall, EndCall

(* Where main is, and what has come before it.                             *)
Late == {"join_parser", "clean_up", "joined", "done"}
Placed ==
  /\ pc = "topology" => manager = "none" /\ call = "idle"
  /\ pc # "topology" => manager # "none" /\ topology = Edges
  /\ pc \in Late => manager = "dropped" /\ call \in {"idle", "join", "panicked"}
  /\ pc \in {"exported", "panicked", "join_parser"} => answer = "stopped"
  /\ pc \in {"exported", "panicked"} => manager = "there" /\ call \in {"idle", "panicked"}
  /\ pc \in Late \ {"join_parser"} =>
       answer = "failed" \/ (answer = "stopped" /\ parser = "panicked")
  /\ parser # "ended"

LEMMA EndingCalls ==
  ASSUME EndCall
  PROVE  /\ call \notin {"idle", "panicked"} /\ UNCHANGED graph
         /\ manager # "none" => manager' # "none"
         /\ call = "join" =>
              UNCHANGED <<manager, answer>> /\ call' \in {"idle", "join", "panicked"}
BY DEF EndCall, ConnectNext, EndFromTopology, CreateNext, SendNext, SendFails, PickJoin,
       EndCreate, EndSend, EndJoinAll, JoinNext

LEMMA MainKeepsPlaced ==
  ASSUME Placed, [MainNext]_mainVars
  PROVE  Placed'
<1> USE DEF Placed, Late, Goto
<1>1. ASSUME UNCHANGED <<pc, parser, manager, graph, call, answer>> PROVE Placed'
  BY <1>1
<1>2. CASE AddNextRouter \/ AddNextConnection
  BY <1>2 DEF AddNextRouter, AddNextConnection, AddRouter, AddConnection
<1>3. CASE BuildNetwork BY <1>3 DEF BuildNetwork, BeginFromTopology
<1>4. CASE AttachParser BY <1>4 DEF AttachParser, Feed
<1>5. CASE StartNetwork BY <1>5 DEF StartNetwork, BeginStart
<1>6. CASE StartParser BY <1>6 DEF StartParser, vars
<1>7. CASE StopNetwork BY <1>7 DEF StopNetwork, BeginStop
<1>8. CASE DropNetwork BY <1>8 DEF DropNetwork, DropManager, Uses, Free
<1>9. CASE ExportPanics \/ ExportFails \/ Export
  BY <1>9 DEF ExportPanics, ExportFails, Export, CloneRibPanics, Uses, Free, vars
<1>10. CASE ReturnError BY <1>10 DEF ReturnError, DropManager, Uses, Free
<1>11. CASE JoinParser BY <1>11 DEF JoinParser, vars
<1>12. CASE CleanUp BY <1>12 DEF CleanUp, BeginJoinAll
<1>13. CASE StopBus BY <1>13 DEF StopBus, StopAllChannels, KeepNetwork
<1>14. CASE EndCall /\ UNCHANGED <<pc, parser>>
  BY <1>14, EndingCalls
<1>15. ASSUME NEW r \in 1 .. MaxRouters, Runner(r) /\ UNCHANGED <<pc, parser>> PROVE Placed'
  BY <1>1, <1>15 DEF Runner, Take, End, Panic
<1>16. CASE ParserPanics BY <1>16 DEF ParserPanics, vars
<1>17. CASE UNCHANGED mainVars BY <1>1, <1>17 DEF mainVars, vars
<1> QED BY <1>2, <1>3, <1>4, <1>5, <1>6, <1>7, <1>8, <1>9, <1>10, <1>11, <1>12, <1>13,
           <1>14, <1>15, <1>16, <1>17 DEF MainNext, MainStep, Runs, Runner

MainInv == Types /\ Commanded /\ Caused /\ OneOfEach /\ Placed

LEMMA MainSafety == ASSUME ProperTopology PROVE MainSpec => []MainInv
<1>1. MainInit => MainInv
  <2> SUFFICES ASSUME MainInit PROVE MainInv
    OBVIOUS
  <2>1. Init /\ pc = "topology" /\ parser = "none" BY DEF MainInit
  <2>2. Types BY <2>1, InitHasTypes
  <2>3. Commanded /\ Caused BY <2>1 DEF Init, Commanded, Caused, PanicsAreCaused
  <2>4. OneOfEach BY <2>1 DEF Init, OneOfEach
  <2>5. Placed BY <2>1 DEF Init, Placed, Late
  <2> QED BY <2>2, <2>3, <2>4, <2>5 DEF MainInv
<1>2. MainInv /\ [MainNext]_mainVars => MainInv'
  <2> SUFFICES ASSUME MainInv, [MainNext]_mainVars PROVE MainInv'
    OBVIOUS
  <2>1. MainCall \/ UNCHANGED vars BY MainCalls DEF MainInv, mainVars
  <2>2. [Next]_vars BY <2>1 DEF MainCall, Next, BeginCall, UseBus
  <2>3. Types' /\ Commanded' /\ Caused'
    BY <2>2, StepKeepsTypes, StepKeepsCommanded, StepKeepsCaused DEF MainInv
  <2>4. OneOfEach' BY <2>1, MainKeepsOneOfEach DEF MainInv
  <2>5. Placed' BY MainKeepsPlaced DEF MainInv
  <2> QED BY <2>3, <2>4, <2>5 DEF MainInv
<1> QED BY <1>1, <1>2, PTL DEF MainSpec

(* main.rs, 124: "Clean up".  main gets there over an error of start or    *)
(* stop, or over the panic of its parser, and in no other way.             *)
CleanUpNeedsFailure ==
  pc \in {"clean_up", "joined", "done"} => answer = "failed" \/ parser = "panicked"

(* Whatever the network and however its threads behave, main's clean-up is *)
(* what an error or a panic leads to.                                      *)
THEOREM MainCleansUpAfterFailure == ASSUME ProperTopology PROVE MainSpec => []CleanUpNeedsFailure
<1>1. MainInv => CleanUpNeedsFailure
  BY DEF MainInv, Placed, Late, CleanUpNeedsFailure
<1> QED BY <1>1, MainSafety, PTL

(* If stop has returned Ok, each thread that main joins has been told to   *)
(* stop: what JoinAllReturns is about, without its exception.              *)
JoinsWhatItStopped ==
  call = "join" /\ answer = "stopped" => \A r \in todo \cup joining : Stopped(r)

(* So once stop has returned Ok, join_all waits for none that was not told.*)
THEOREM MainJoinsWhatItStopped == ASSUME ProperTopology PROVE MainSpec => []JoinsWhatItStopped
<1>1. MainInv => JoinsWhatItStopped
  BY DEF MainInv, Commanded, OneOfEach, JoinsWhatItStopped
<1> QED BY <1>1, MainSafety, PTL

(* Where main panics.  In a call to the manager: over a loop of its        *)
(* topology, or after the panic of a router, but never because a router    *)
(* was inserted twice.  At the export of the RIB: after stop has returned  *)
(* Ok and has told all routers to stop.                                    *)
PanicsOfMain ==
  /\ call = "panicked" =>
       \/ \E i \in DOMAIN Edges : Loop(Edges[i])
       \/ \E r \in DOMAIN made : machine[r] = "panicked"
  /\ pc = "panicked" => manager = "there" /\ \A r \in sm : Stopped(r)

(* Whatever topology main has, it panics in these cases only; where it     *)
(* fails to export the RIB, no router is left to run on untold.            *)
THEOREM MainPanics == ASSUME ProperTopology PROVE MainSpec => []PanicsOfMain
<1>1. MainInv => PanicsOfMain
  <2> SUFFICES ASSUME MainInv PROVE PanicsOfMain
    OBVIOUS
  <2>1. /\ table \cup joining \subseteq DOMAIN made /\ made \in Seq(RouterId)
        /\ manager # "none" => topology = Edges
    BY DEF MainInv, Types, TypeOK, Placed
  <2>2. ASSUME NEW k \in table \ {Len(made)} PROVE made[k] # made[Len(made)]
    <3>1. k \in DOMAIN made /\ Len(made) \in DOMAIN made /\ k # Len(made)
      BY <2>1, <2>2
    <3> QED BY <3>1 DEF MainInv, OneOfEach
  <2>3. call = "panicked" => \/ \E i \in DOMAIN Edges : Loop(Edges[i])
                             \/ \E r \in DOMAIN made : machine[r] = "panicked"
    BY <2>1, <2>2 DEF MainInv, Caused, PanicsAreCaused, OneOfEach
  <2>4. pc = "panicked" => manager = "there" /\ \A r \in sm : Stopped(r)
    BY DEF MainInv, Placed, Commanded
  <2> QED BY <2>3, <2>4 DEF PanicsOfMain
<1> QED BY <1>1, MainSafety, PTL
=============================================================================
