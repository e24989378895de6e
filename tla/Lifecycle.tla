------------------------------ MODULE Lifecycle ------------------------------
(***************************************************************************)
(* What a state machine promises to whoever sends it commands, and nothing *)
(* of how: its thread takes one command at a time, in the order sent, does *)
(* what the last one says, and ends after a stop, when its work asks for   *)
(* it, or when that panics.  A command sent after the stop was taken goes  *)
(* the way of the thread.  What has ended never comes back.                *)
(***************************************************************************)
EXTENDS Sequences

VARIABLES
  machine,     (* none, waiting, running, paused, stopping, ended, panicked*)
  mailbox      (* the command that was sent and is not taken yet           *)

Alive == {"waiting", "running", "paused", "stopping"}
Obeying == [start |-> "running", pause |-> "paused", stop |-> "stopping"]

Create ==
  /\ machine = "none" /\ machine' = "waiting"
  /\ UNCHANGED mailbox

Send(command) ==
  /\ machine \in Alive /\ mailbox = <<>>
  /\ mailbox' = <<command>>
  /\ UNCHANGED machine

Take ==
  /\ machine \in Alive \ {"stopping"} /\ mailbox # <<>>
  /\ machine' = Obeying[Head(mailbox)]
  /\ mailbox' = <<>>

End ==
  /\ machine \in {"running", "stopping"} /\ machine' = "ended"
  /\ mailbox' = <<>>

Panic ==
  /\ machine = "running" /\ machine' = "panicked"
  /\ mailbox' = <<>>

Init == machine \in {"none", "waiting"} /\ mailbox = <<>>
Next ==
  \/ Create \/ Take \/ End \/ Panic
  \/ \E command \in DOMAIN Obeying : Send(command)
Spec == Init /\ [][Next]_<<machine, mailbox>>
=============================================================================
