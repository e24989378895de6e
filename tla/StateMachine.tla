---------------------------- MODULE StateMachine ----------------------------
(***************************************************************************)
(* src/utils/state_machine.rs, with join_thread of                         *)
(* src/utils/thread_manager.rs: a runner thread works on a state object;   *)
(* its owner sends it commands over a channel of capacity 1, waiting while *)
(* that is full, and joins the thread to get the last state object.  The   *)
(* runner polls the channel once between two calls of work.                *)
(*                                                                         *)
(* start and resume send the same command.  The id of the channel never    *)
(* leaves new, so no message but a command is ever in it.                  *)
(***************************************************************************)
EXTENDS Integers, Sequences

CONSTANTS
  MaxObject,   (* bound: state objects made by transitions                 *)
  Wanted       (* the objects of the type that get_final_state_cloned is   *)
               (* asked for                                                *)

ASSUME MaxObjectAssumption == MaxObject \in Nat \ {0}

VARIABLES
  owner,       (* where the owner is: idle, sending or joining             *)
  command,     (* what it is sending                                       *)
  handle,      (* the JoinHandle is in the table of the ThreadManager      *)
  joined,      (* what get_final_state_cloned has returned, an Option      *)
  channel,     (* the command channel                                      *)
  runner,      (* where the runner is                                      *)
  internal,    (* internal_state                                           *)
  object,      (* the state object, numbered                               *)
  cleaned,     (* the state objects that cleanup was called on             *)
  accepted,    (* the last command that send was successful for            *)
  late         (* the calls of work begun since, counted up to 2           *)

ownerVars == <<owner, command, handle, joined>>
runnerVars == <<runner, internal, object, cleaned>>
vars == <<ownerVars, channel, runnerVars, accepted, late>>

Commands == {"Running", "Paused", "Stopped"}
InternalState == Commands \cup {"Initialized"}

(* The receiver lives in the runner's closure and goes with the thread.    *)
Ended == runner \in {"returned", "panicked"}

-----------------------------------------------------------------------------
(* The runner.                                                             *)

(* A faulty variant that looks for a command only while there is work.     *)
PollWhileRunning ==
  /\ runner = "poll"
  /\ IF channel # <<>> /\ internal = "Running"
     THEN internal' = Head(channel) /\ channel' = Tail(channel)
     ELSE UNCHANGED <<internal, channel>>
  /\ runner' = "act"
  /\ UNCHANGED <<ownerVars, object, cleaned, accepted, late>>

Poll ==
  /\ runner = "poll"
  /\ IF channel # <<>>
     THEN internal' = Head(channel) /\ channel' = Tail(channel)
     ELSE UNCHANGED <<internal, channel>>
  /\ runner' = "act"
  /\ UNCHANGED <<ownerVars, object, cleaned, accepted, late>>

BeginWork ==
  /\ runner = "act" /\ internal = "Running"
  /\ runner' = "working"
  /\ late' = IF late < 2 THEN late + 1 ELSE late
  /\ UNCHANGED <<ownerVars, channel, internal, object, cleaned, accepted>>

(* A faulty variant that goes on with work at once.                        *)
ContinueUnpolled ==
  /\ runner = "working"
  /\ runner' = "act"
  /\ UNCHANGED <<ownerVars, channel, internal, object, cleaned, accepted, late>>

Continue ==
  /\ runner = "working"
  /\ runner' = "poll"
  /\ UNCHANGED <<ownerVars, channel, internal, object, cleaned, accepted, late>>

(* work asks to stop: the loop ends, without cleanup.                      *)
StopItself ==
  /\ runner = "working"
  /\ internal' = "Stopped"
  /\ runner' = "returned"
  /\ channel' = <<>>
  /\ UNCHANGED <<ownerVars, object, cleaned, accepted, late>>

(* The old state object is dropped, also without cleanup.                  *)
Transition ==
  /\ runner = "working"
  /\ object < MaxObject
  /\ object' = object + 1
  /\ runner' = "poll"
  /\ UNCHANGED <<ownerVars, channel, internal, cleaned, accepted, late>>

WorkPanics ==
  /\ runner = "working"
  /\ runner' = "panicked"
  /\ channel' = <<>>
  /\ UNCHANGED <<ownerVars, internal, object, cleaned, accepted, late>>

Sleep ==
  /\ runner = "act" /\ internal \in {"Initialized", "Paused"}
  /\ runner' = "poll"
  /\ UNCHANGED <<ownerVars, channel, internal, object, cleaned, accepted, late>>

(* Faulty variants that leave the loop before cleanup, and that go once    *)
(* more around it.                                                         *)
CleanupLoops ==
  /\ runner = "act" /\ internal = "Stopped"
  /\ cleaned' = cleaned \cup {object}
  /\ runner' = IF object \in cleaned THEN "returned" ELSE "poll"
  /\ UNCHANGED <<ownerVars, channel, internal, object, accepted, late>>
CleanupSkipped ==
  /\ runner = "act" /\ internal = "Stopped"
  /\ runner' = "returned"
  /\ channel' = <<>>
  /\ UNCHANGED <<ownerVars, internal, object, cleaned, accepted, late>>

Cleanup ==
  /\ runner = "act" /\ internal = "Stopped"
  /\ cleaned' = cleaned \cup {object}
  /\ runner' = "returned"
  /\ channel' = <<>>
  /\ UNCHANGED <<ownerVars, internal, object, accepted, late>>

-----------------------------------------------------------------------------
(* The owner.                                                              *)

(* start, pause, resume and stop.                                          *)
Send(c) ==
  /\ owner = "idle"
  /\ owner' = "sending"
  /\ command' = c
  /\ UNCHANGED <<handle, joined, channel, runnerVars, accepted, late>>

(* A faulty variant with a channel that is never full.                     *)
SendOkUnbounded ==
  /\ owner = "sending"
  /\ ~ Ended /\ Len(channel) < 2
  /\ channel' = Append(channel, command)
  /\ owner' = "idle"
  /\ accepted' = command
  /\ late' = 0
  /\ UNCHANGED <<command, handle, joined, runnerVars>>

(* send waits for room in the channel, and fails when the runner has ended.*)
SendOk ==
  /\ owner = "sending"
  /\ ~ Ended /\ channel = <<>>
  /\ channel' = <<command>>
  /\ owner' = "idle"
  /\ accepted' = command
  /\ late' = 0
  /\ UNCHANGED <<command, handle, joined, runnerVars>>

SendErr ==
  /\ owner = "sending"
  /\ Ended
  /\ owner' = "idle"
  /\ UNCHANGED <<command, handle, joined, channel, runnerVars, accepted, late>>

(* join_thread takes the handle and then waits for the thread.             *)
BeginJoin ==
  /\ owner = "idle" /\ handle
  /\ owner' = "joining"
  /\ handle' = FALSE
  /\ UNCHANGED <<command, joined, channel, runnerVars, accepted, late>>

(* A faulty variant that does not wait for the thread.                     *)
EndJoinEarly ==
  /\ owner = "joining"
  /\ owner' = "idle"
  /\ joined' = {object} \cap Wanted
  /\ UNCHANGED <<command, handle, channel, runnerVars, accepted, late>>

(* A panic of the runner makes join fail, and the answer is None.  It is   *)
(* None also if the runner had stopped with an object of another type, as  *)
(* one does that is stopped before its last transition: the object is gone *)
(* with the handle.                                                        *)
EndJoin ==
  /\ owner = "joining" /\ Ended
  /\ owner' = "idle"
  /\ joined' = IF runner = "returned" THEN {object} \cap Wanted ELSE {}
  /\ UNCHANGED <<command, handle, channel, runnerVars, accepted, late>>

(* Without a handle the answer is None at once: a second call has lost the *)
(* state object.                                                           *)
JoinAgain ==
  /\ owner = "idle" /\ ~ handle
  /\ joined' = {}
  /\ UNCHANGED <<owner, command, handle, channel, runnerVars, accepted, late>>

-----------------------------------------------------------------------------
Init ==
  /\ owner = "idle" /\ command = "Running" /\ handle = TRUE /\ joined = {}
  /\ channel = <<>>
  /\ runner = "poll" /\ internal = "Initialized" /\ object = 1 /\ cleaned = {}
  /\ accepted = "Initialized" /\ late = 0

EndWork == Continue \/ StopItself \/ Transition \/ WorkPanics
Runner == Poll \/ BeginWork \/ EndWork \/ Sleep \/ Cleanup
Owner ==
  \/ \E c \in Commands : Send(c)
  \/ SendOk \/ SendErr \/ BeginJoin \/ EndJoin \/ JoinAgain
Next == Runner \/ Owner

(* The runner's thread runs, its work returns, and the owner's goes on     *)
(* with a call it has begun as soon as that does not block.                *)
Spec ==
  /\ Init /\ [][Next]_vars
  /\ WF_vars(Runner) /\ WF_vars(SendOk) /\ WF_vars(SendErr) /\ WF_vars(EndJoin)

-----------------------------------------------------------------------------
TypeOK ==
  /\ owner \in {"idle", "sending", "joining"}
  /\ command \in Commands
  /\ handle \in BOOLEAN
  /\ joined \in SUBSET (1 .. MaxObject)
  /\ channel = <<>> \/ \E c \in Commands : channel = <<c>>
  /\ runner \in {"poll", "act", "working", "returned", "panicked"}
  /\ internal \in InternalState
  /\ object \in 1 .. MaxObject
  /\ cleaned \in SUBSET (1 .. MaxObject)
  /\ accepted \in InternalState
  /\ late \in 0 .. 2

(* Once pause or stop has returned Ok, work is called at most once more    *)
(* before the command is obeyed, whatever command came before it.          *)
AtMostOneLateWork == accepted \in {"Paused", "Stopped"} => late <= 1

(* No object is cleaned up but the last one, which the runner hands over,  *)
(* and no work is done on it afterwards, whatever commands still come.     *)
CleanedUpOnce ==
  cleaned # {} => cleaned = {object} /\ runner = "returned"

(* What join returns is the object the runner had last, which is of the    *)
(* type asked for: it is never an earlier one that happens to be.          *)
JoinReturnsLastObject ==
  joined # {} =>
    runner = "returned" /\ joined = {object} /\ object \in Wanted /\ ~ handle

(* A stop that was accepted ends the thread.                               *)
StopEndsRunner == accepted = "Stopped" ~> Ended

(* A machine that is stopped before it was started, or while it is paused, *)
(* cleans up.  A running one may stop by itself at the same time, and then *)
(* it does not, although stop has returned Ok.                             *)
IdleStopCleansUp ==
  accepted = "Stopped" /\ internal \in {"Initialized", "Paused"} ~> cleaned # {}

(* No command blocks its sender for ever: the runner takes it, or ends.    *)
SendReturns == owner = "sending" ~> owner = "idle"
=============================================================================
