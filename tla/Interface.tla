----------------------------- MODULE Interface -----------------------------
(***************************************************************************)
(* src/components/interface.rs: one direction of a link, from the outgoing *)
(* half of an interface, over a bounded channel of the message bus, to the *)
(* incoming half of the interface at its other end.  The two halves run in *)
(* the threads of their routers, or, on a loopback, in one thread.  Each   *)
(* step is one access to what the threads share, the channel; what a       *)
(* thread does to buffers of its own in between belongs to the step.       *)
(*                                                                         *)
(* Messages are numbered in the order in which they are pushed.  What a    *)
(* filter decides depends on the message only.                             *)
(***************************************************************************)
EXTENDS Integers, Sequences

CONSTANTS
  Bound,       (* link_buffer_size: what the channel holds                 *)
  Sizes,       (* sizes a buffer can be configured to                      *)
  OutPass,     (* the messages the sender's out_filter lets pass           *)
  InPass,      (* the messages the receiver's in_filter lets pass          *)
  MaxBatch,    (* bound: messages pushed by one call                       *)
  MaxIssued    (* bound: messages pushed in all                            *)

ASSUME InterfaceAssumption ==
  /\ Bound \in Nat /\ MaxBatch \in Nat /\ MaxIssued \in Nat
  /\ Sizes \subseteq Nat

VARIABLES
  issued,      (* the messages pushed so far are 1 .. issued               *)
  outgoing,    (* outgoing_advertisements of the sender                    *)
  outCap,      (* the capacity of that Vec                                 *)
  outSize,     (* buffer_size_outgoing of the sender                       *)
  batch,       (* what send has taken out of outgoing and not yet sent     *)
  sending,     (* the sender is in the loop of send                        *)
  channel,     (* the messages in the channel                              *)
  open,        (* the receiver of the channel exists                       *)
  receiving,   (* the receiver is in the loop of receive                   *)
  incoming,    (* incoming_advertisements of the receiver                  *)
  inCap,       (* the capacity of that Vec                                 *)
  inSize,      (* buffer_size_incoming of the receiver                     *)
  delivered    (* all that get_incoming_advertisements has returned        *)

senderVars == <<issued, outgoing, outCap, outSize, batch, sending>>
receiverVars == <<receiving, incoming, inCap, inSize, delivered>>
vars == <<senderVars, channel, open, receiverVars>>

Smaller(a, b) == IF a <= b THEN a ELSE b

Message == 1 .. issued

-----------------------------------------------------------------------------
(* The sender.                                                             *)

Numbered(n, k) == [i \in 1 .. k |-> n + i]   (* the messages n+1 .. n+k      *)

(* push_outgoing_advertisement(s) of k messages: those that fit into the   *)
(* Vec without growing it are taken, the others are lost.                  *)
Push(k) ==
  /\ ~ sending
  /\ issued + k <= MaxIssued
  /\ issued' = issued + k
  /\ LET taken == Smaller(k, outCap - Len(outgoing))
     IN  outgoing' = outgoing \o Numbered(issued, taken)
  /\ UNCHANGED <<outCap, outSize, batch, sending, channel, open, receiverVars>>

SetOutSize(n) ==
  /\ ~ sending
  /\ outSize' = n
  /\ UNCHANGED <<issued, outgoing, outCap, batch, sending, channel, open, receiverVars>>

(* force_resize drops what is in the buffer.                               *)
ResizeOut ==
  /\ ~ sending
  /\ outgoing' = <<>>
  /\ outCap' = outSize
  /\ UNCHANGED <<issued, outSize, batch, sending, channel, open, receiverVars>>

(* A faulty variant that reserves only what is left of the size.           *)
BeginSendReserves ==
  /\ ~ sending
  /\ outgoing # <<>>
  /\ batch' = outgoing
  /\ outgoing' = <<>>
  /\ outCap' = outSize - Len(outgoing)
  /\ sending' = TRUE
  /\ UNCHANGED <<issued, outSize, channel, open, receiverVars>>

(* send takes all of the buffer, if there is something in it.              *)
BeginSend ==
  /\ ~ sending
  /\ outgoing # <<>>
  /\ batch' = outgoing
  /\ outgoing' = <<>>
  /\ outCap' = outSize
  /\ sending' = TRUE
  /\ UNCHANGED <<issued, outSize, channel, open, receiverVars>>

HasRoom == open /\ Len(channel) < Bound

(* Faulty variants that have no filter, that give up the batch at the      *)
(* first message the filter rejects, and that wait for room in the         *)
(* channel, as send does and try_send does not.                            *)
SendWhere(pass, ifRejected, ifFull) ==
  /\ sending
  /\ batch # <<>>
  /\ IF Head(batch) \notin pass
     THEN batch' = ifRejected /\ UNCHANGED channel
     ELSE IF HasRoom
     THEN channel' = Append(channel, Head(batch)) /\ batch' = Tail(batch)
     ELSE batch' = ifFull /\ UNCHANGED channel
  /\ UNCHANGED <<issued, outgoing, outCap, outSize, sending, open, receiverVars>>
SendUnfiltered == SendWhere(Message, Tail(batch), <<>>)
SendGivesUp == SendWhere(OutPass, <<>>, <<>>)
SendWaits == SendWhere(OutPass, Tail(batch), batch)

(* The next message of the batch, if the filter lets it pass, is sent if   *)
(* the channel has room and a receiver; if not, it is lost, and the rest   *)
(* of the batch with it.                                                   *)
SendNext ==
  /\ sending
  /\ batch # <<>>
  /\ \/ /\ Head(batch) \notin OutPass
        /\ batch' = Tail(batch)
        /\ UNCHANGED <<channel, sending>>
     \/ /\ Head(batch) \in OutPass
        /\ HasRoom
        /\ channel' = Append(channel, Head(batch))
        /\ batch' = Tail(batch)
        /\ UNCHANGED sending
     \/ /\ Head(batch) \in OutPass
        /\ ~ HasRoom
        /\ batch' = <<>>
        /\ sending' = FALSE
        /\ UNCHANGED channel
  /\ UNCHANGED <<issued, outgoing, outCap, outSize, open, receiverVars>>

EndSend ==
  /\ sending
  /\ batch = <<>>
  /\ sending' = FALSE
  /\ UNCHANGED <<issued, outgoing, outCap, outSize, batch, channel, open, receiverVars>>

-----------------------------------------------------------------------------
(* The receiver.                                                           *)

BeginReceive ==
  /\ open /\ ~ receiving
  /\ receiving' = TRUE
  /\ UNCHANGED <<senderVars, channel, open, incoming, inCap, inSize, delivered>>

(* A faulty variant that looks at the message without taking it.           *)
ReceivePeeks ==
  /\ receiving
  /\ channel # <<>>
  /\ Len(incoming) < inCap
  /\ incoming' = Append(incoming, Head(channel))
  /\ UNCHANGED <<senderVars, channel, open, receiving, inCap, inSize, delivered>>

(* The next message is taken out of the channel.  If the filter lets it    *)
(* pass it goes into the buffer; when that is full, the message is lost    *)
(* and the loop ends.                                                      *)
ReceiveNext ==
  /\ receiving
  /\ channel # <<>>
  /\ channel' = Tail(channel)
  /\ \/ /\ Head(channel) \notin InPass
        /\ UNCHANGED <<incoming, receiving>>
     \/ /\ Head(channel) \in InPass
        /\ Len(incoming) < inCap
        /\ incoming' = Append(incoming, Head(channel))
        /\ UNCHANGED receiving
     \/ /\ Head(channel) \in InPass
        /\ Len(incoming) >= inCap
        /\ receiving' = FALSE
        /\ UNCHANGED incoming
  /\ UNCHANGED <<senderVars, open, inCap, inSize, delivered>>

EndReceive ==
  /\ receiving
  /\ channel = <<>>
  /\ receiving' = FALSE
  /\ UNCHANGED <<senderVars, channel, open, incoming, inCap, inSize, delivered>>

(* A faulty variant that returns a clone and keeps the buffer.             *)
GetIncomingClones ==
  /\ open /\ ~ receiving
  /\ delivered' = delivered \o incoming
  /\ UNCHANGED <<senderVars, channel, open, receiving, incoming, inCap, inSize>>

GetIncoming ==
  /\ open /\ ~ receiving
  /\ delivered' = delivered \o incoming
  /\ incoming' = <<>>
  /\ inCap' = inSize
  /\ UNCHANGED <<senderVars, channel, open, receiving, inSize>>

SetInSize(n) ==
  /\ open /\ ~ receiving
  /\ inSize' = n
  /\ UNCHANGED <<senderVars, channel, open, receiving, incoming, inCap, delivered>>

ResizeIn ==
  /\ open /\ ~ receiving
  /\ incoming' = <<>>
  /\ inCap' = inSize
  /\ UNCHANGED <<senderVars, channel, open, receiving, inSize, delivered>>

(* The interface at the other end is dropped, with its end of the channel  *)
(* and what is in both.  The sender learns of it when it sends.            *)
DropReceiver ==
  /\ open /\ ~ receiving
  /\ open' = FALSE
  /\ channel' = <<>>
  /\ incoming' = <<>>
  /\ UNCHANGED <<senderVars, receiving, inCap, inSize, delivered>>

-----------------------------------------------------------------------------
Init ==
  /\ issued = 0
  /\ outgoing = <<>> /\ batch = <<>> /\ channel = <<>> /\ incoming = <<>>
  /\ delivered = <<>>
  /\ outSize \in Sizes /\ outCap = outSize
  /\ inSize \in Sizes /\ inCap = inSize
  /\ sending = FALSE /\ receiving = FALSE /\ open = TRUE

Sender ==
  \/ \E k \in 1 .. MaxBatch : Push(k)
  \/ \E n \in Sizes : SetOutSize(n)
  \/ ResizeOut
  \/ BeginSend \/ SendNext \/ EndSend

Receiver ==
  \/ BeginReceive \/ ReceiveNext \/ EndReceive
  \/ GetIncoming
  \/ \E n \in Sizes : SetInSize(n)
  \/ ResizeIn
  \/ DropReceiver

Next == Sender \/ Receiver

(* The work cycle of a router calls send, and receive and then             *)
(* get_incoming_advertisements, again and again, and a loop that was begun *)
(* goes on.  Nothing makes a router push, resize or drop an interface.     *)
Fairness ==
  /\ WF_vars(BeginSend) /\ WF_vars(SendNext) /\ WF_vars(EndSend)
  /\ WF_vars(BeginReceive) /\ WF_vars(ReceiveNext) /\ WF_vars(EndReceive)
  /\ SF_vars(GetIncoming)

Spec == Init /\ [][Next]_vars
FairSpec == Spec /\ Fairness

-----------------------------------------------------------------------------
TypeOK ==
  /\ issued \in Nat
  /\ outgoing \in Seq(Message) /\ batch \in Seq(Message) /\ channel \in Seq(Message)
  /\ incoming \in Seq(Message) /\ delivered \in Seq(Message)
  /\ outCap \in Nat /\ outSize \in Nat /\ inCap \in Nat /\ inSize \in Nat
  /\ sending \in BOOLEAN /\ open \in BOOLEAN /\ receiving \in BOOLEAN

(* The lengths of the buffers and of the channel.                          *)
WithinCapacity ==
  /\ Len(outgoing) <= outCap
  /\ Len(channel) <= Bound
  /\ Len(incoming) <= inCap

Increasing(s) == \A i, j \in 1 .. Len(s) : i < j => s[i] < s[j]
Precedes(s, t) == \A i \in 1 .. Len(s), j \in 1 .. Len(t) : s[i] < t[j]

(* At every moment the messages are in order along the way they take, and  *)
(* each is at one place only: no interleaving of the two threads, no loss  *)
(* and no resize reorders or duplicates a message.                         *)
InOrder ==
  /\ Increasing(outgoing) /\ Increasing(batch) /\ Increasing(channel)
  /\ Increasing(incoming) /\ Increasing(delivered)
  /\ Precedes(batch, outgoing)
  /\ Precedes(channel, batch) /\ Precedes(channel, outgoing)
  /\ Precedes(incoming, channel) /\ Precedes(incoming, batch)
  /\ Precedes(incoming, outgoing)
  /\ Precedes(delivered, incoming) /\ Precedes(delivered, channel)
  /\ Precedes(delivered, batch) /\ Precedes(delivered, outgoing)

(* A batch exists only within send, and a dropped receiver has no messages.*)
IdleIsEmpty ==
  /\ ~ sending => batch = <<>>
  /\ ~ open => channel = <<>> /\ incoming = <<>>

In(s) == { s[i] : i \in 1 .. Len(s) }

(* What the filters reject goes no further than the filter.                *)
Filtered ==
  /\ In(channel) \subseteq OutPass
  /\ In(incoming) \subseteq OutPass \cap InPass
  /\ In(delivered) \subseteq OutPass \cap InPass

Inv == TypeOK /\ WithinCapacity /\ InOrder /\ IdleIsEmpty /\ Filtered

Flight == In(outgoing) \cup In(batch) \cup In(channel) \cup In(incoming)

(* A link implements the lossy, ordered, at-most-once channel.             *)
Fifo == INSTANCE LossyFifo WITH flight <- Flight
LinkIsLossyFifo == Fifo!Spec

(* The messages that a step loses, of those on the way and those pushed.   *)
Lost == (Flight \cup issued + 1 .. issued') \ (Flight' \cup In(delivered'))

(* The reasons to lose a message: a push has filled the buffer, a filter   *)
(* rejects it, the channel has no room for it or for one ahead of it in    *)
(* the batch, the buffer it should go to is full, the buffer it is in is   *)
(* replaced, or the receiver is dropped.                                   *)
HasCause(m) ==
  \/ m > issued /\ Len(outgoing') = outCap'
  \/ m \in In(outgoing) /\ ResizeOut
  \/ m \in In(batch) /\ (m \notin OutPass \/ ~ HasRoom)
  \/ m \in In(channel) /\ (m \notin InPass \/ Len(incoming) >= inCap)
  \/ m \in In(incoming) /\ ResizeIn
  \/ m \in In(channel) \cup In(incoming) /\ DropReceiver

(* Nothing is lost but for a reason: while the buffers and the channel     *)
(* have room and no end is resized or dropped, all that the filters let    *)
(* pass arrives, however the two threads interleave.                       *)
LossesHaveCauses == [][\A m \in Lost : HasCause(m)]_vars

(* No message stays on the way for ever: it is delivered or lost.          *)
MessagesMoveOn == \A m \in 1 .. MaxIssued : m \in Flight ~> m \notin Flight

-----------------------------------------------------------------------------
(* receive: "When buffer is full, we stop receiving" (interface.rs, 116).  *)
(* What leaves the channel and passes the filter is in the buffer then.    *)
FullBufferStopsReceiving ==
  [][ReceiveNext => \/ Head(channel) \notin InPass
                    \/ Head(channel) \in In(incoming')]_vars
=============================================================================
