-------------------------------- MODULE Main --------------------------------
(***************************************************************************)
(* src/main.rs as the owner of a NetworkManager: main builds a network,    *)
(* feeds it from a live parser that has a thread manager of its own,       *)
(* starts both, stops the network, waits for the parser's thread and       *)
(* cleans up.  pc counts its steps; a call that has begun is finished      *)
(* (EndCall) before the next step.                                         *)
(***************************************************************************)
EXTENDS NetworkManager

CONSTANTS
  Ids,           (* the ids of main's routers                              *)
  Edges          (* the edges of its topology                              *)

VARIABLES
  pc,            (* the step main is at                                    *)
  parser         (* the runner of the parser's state machine               *)

mainVars == <<vars, pc, parser>>

Goto(next) == pc' = next

(* add_router makes a new id for each router.                              *)
AddNextRouter ==
  /\ pc = "topology" /\ Len(graph.vertices) < Len(Ids)
  /\ AddRouter(Ids[Len(graph.vertices) + 1])
  /\ UNCHANGED <<pc, parser>>

AddNextConnection ==
  /\ pc = "topology" /\ Len(graph.vertices) = Len(Ids) /\ Len(topology) < Len(Edges)
  /\ AddConnection(Edges[Len(topology) + 1])
  /\ UNCHANGED <<pc, parser>>

BuildNetwork ==
  /\ pc = "topology" /\ Len(graph.vertices) = Len(Ids) /\ topology = Edges
  /\ BeginFromTopology
  /\ Goto("feed") /\ UNCHANGED parser

(* The session with the parser is attached to the first router.            *)
AttachParser ==
  /\ pc = "feed" /\ Feed(1)
  /\ parser' = "waiting"
  /\ Goto("start")

StartNetwork ==
  /\ pc = "start" /\ BeginStart
  /\ Goto("started") /\ UNCHANGED parser

(* The command for a parser that waits is taken when it polls.             *)
StartParser ==
  /\ pc = "started" /\ Uses /\ answer = "started"
  /\ parser' = "running"
  /\ Goto("stop") /\ UNCHANGED vars

StopNetwork ==
  /\ pc = "stop" /\ BeginStop
  /\ Goto("stopped") /\ UNCHANGED parser

(* main clones the RIB of the first router to export it, and once more to  *)
(* log it.  The router may have panicked over it.                          *)
ExportPanics ==
  /\ pc \in {"stopped", "exported"} /\ answer = "stopped" /\ CloneRibPanics
  /\ UNCHANGED <<pc, parser>>

(* export_to_file unwraps what File::create and the writer return: main    *)
(* panics if there is no directory ./data, which the repository does not   *)
(* have, or if it cannot write there.                                      *)
ExportFails ==
  /\ pc = "stopped" /\ answer = "stopped" /\ Uses
  /\ Goto("panicked") /\ UNCHANGED <<vars, parser>>

Export ==
  /\ pc = "stopped" /\ answer = "stopped" /\ Uses
  /\ Goto("exported") /\ UNCHANGED <<vars, parser>>

(* Nothing tells the parser to stop: the line that would is commented out. *)
DropNetwork ==
  /\ pc = "exported" /\ DropManager
  /\ Goto("join_parser") /\ UNCHANGED parser

(* start and stop return errors to main, which goes on to clean up; the    *)
(* manager and the parser's handle are dropped on the way.                 *)
ReturnError ==
  /\ pc \in {"started", "stopped"} /\ answer = "failed" /\ DropManager
  /\ Goto("clean_up") /\ UNCHANGED parser

(* get_final_state_cloned returns when the parser's thread has ended,      *)
(* whether it has panicked or not.                                         *)
JoinParser ==
  /\ pc = "join_parser" /\ parser \in {"ended", "panicked"}
  /\ Goto("clean_up") /\ UNCHANGED <<vars, parser>>

CleanUp ==
  /\ pc = "clean_up" /\ BeginJoinAll
  /\ Goto("joined") /\ UNCHANGED parser

StopBus ==
  /\ pc = "joined" /\ StopAllChannels
  /\ Goto("done") /\ UNCHANGED parser

(* work of the parser may panic; nobody tells it to stop.                  *)
ParserPanics ==
  /\ parser = "running" /\ parser' = "panicked"
  /\ UNCHANGED <<vars, pc>>

-----------------------------------------------------------------------------
MainInit == Init /\ pc = "topology" /\ parser = "none"

MainStep ==
  \/ AddNextRouter \/ AddNextConnection
  \/ BuildNetwork \/ AttachParser \/ StartNetwork \/ StartParser \/ StopNetwork
  \/ ExportPanics \/ ExportFails \/ Export \/ DropNetwork \/ ReturnError \/ JoinParser \/ CleanUp \/ StopBus
  \/ (EndCall /\ UNCHANGED <<pc, parser>>)

Runs(r) == (Take(r) \/ End(r)) /\ UNCHANGED <<pc, parser>>

MainNext ==
  \/ MainStep
  \/ \E r \in 1 .. MaxRouters : Runs(r) \/ (Panic(r) /\ UNCHANGED <<pc, parser>>)
  \/ ParserPanics

MainSpec ==
  /\ MainInit /\ [][MainNext]_mainVars
  /\ WF_mainVars(MainStep) /\ \A r \in 1 .. MaxRouters : WF_mainVars(Runs(r))

-----------------------------------------------------------------------------
(* main.rs, 124: "Clean up".  Whatever becomes of the network, main gets   *)
(* to its clean-up, unless it panics before, over the network or at the    *)
(* export of the RIB.                                                      *)
MainCleansUp == <>(pc \in {"clean_up", "panicked"} \/ call = "panicked")
=============================================================================
