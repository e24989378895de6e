----------------------------- MODULE LossyFifo -----------------------------
(***************************************************************************)
(* What a link promises: messages, numbered as they are issued, may be     *)
(* lost at any time, but are delivered at most once, and never after a     *)
(* later one.                                                              *)
(***************************************************************************)
EXTENDS Integers, Sequences

VARIABLES
  issued,      (* the number of messages issued so far                     *)
  flight,      (* the messages that may still be delivered                 *)
  delivered    (* the messages delivered, one after another                *)

(* New messages are issued; some may be lost at once.                      *)
Issue ==
  /\ issued' \in Nat /\ issued' >= issued
  /\ \E kept \in SUBSET (issued + 1 .. issued') : flight' = flight \cup kept
  /\ UNCHANGED delivered

Lose ==
  /\ flight' \in SUBSET flight
  /\ UNCHANGED <<issued, delivered>>

(* The messages that a step delivers, and their set.                       *)
Batch == SubSeq(delivered', Len(delivered) + 1, Len(delivered'))
First == { Batch[i] : i \in 1 .. Len(Batch) }

(* The earliest messages in flight are delivered, in their order.          *)
Deliver ==
  /\ delivered' = delivered \o Batch
  /\ \A i, j \in 1 .. Len(Batch) : i < j => Batch[i] < Batch[j]
  /\ First \in SUBSET flight
  /\ \A m \in First, n \in flight \ First : m < n
  /\ flight' = flight \ First
  /\ UNCHANGED issued

Init == issued = 0 /\ flight = {} /\ delivered = <<>>
Next == Issue \/ Lose \/ Deliver
Spec == Init /\ [][Next]_<<issued, flight, delivered>>
=============================================================================
