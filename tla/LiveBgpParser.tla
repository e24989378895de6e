--------------------------- MODULE LiveBgpParser ---------------------------
(***************************************************************************)
(* src/modules/live_bgp_parser.rs: a state machine that reads the lines of *)
(* a live stream and sends the advertisements in them to its sessions.  An *)
(* asynchronous task fetches the stream and puts its bytes into a bounded  *)
(* channel; work drains the channel into a buffer, parses the lines there, *)
(* and sends what it has parsed.                                           *)
(*                                                                         *)
(* Lines are numbered, and a line n has two pieces, a head 2n - 1 and a    *)
(* tail 2n with the newline: bytes are as fine as that.  The chunks of the *)
(* channel are single pieces: work takes all there are anyhow.  A stream   *)
(* begins with a line, and never with one that an earlier stream has begun.*)
(***************************************************************************)
EXTENDS Integers, Sequences, FiniteSets

CONSTANTS
  Malformed,   (* lines that are not a RisLiveMessage                      *)
  Other,       (* messages whose type is not "ris_message"                 *)
  Capacity,    (* CHANNEL_CAPACITY                                         *)
  MaxLines     (* bound: lines streamed                                    *)

ASSUME ParserAssumption ==
  /\ Malformed \subseteq Nat /\ Other \subseteq Nat
  /\ Capacity \in Nat \ {0} /\ MaxLines \in Nat

VARIABLES
  task,            (* stream_handle: none, running or finished             *)
  source,          (* the last piece that was streamed                     *)
  bytes,           (* the channel of the current stream                    *)
  receiver,        (* byte_stream_receiver is there                        *)
  buffer,          (* bytes_buffer                                         *)
  advertisements,  (* the lines parsed and not sent                        *)
  policy,          (* restart_policy                                       *)
  pc,              (* where the thread is: idle between two calls of work  *)
  errors,          (* statistics.errors_encountered                        *)
  cuts,            (* the lines of which an ended stream left the head     *)
  sent             (* the lines handed to the sessions                     *)

streamVars == <<task, source, bytes, receiver>>
vars == <<streamVars, buffer, advertisements, policy, pc, errors, cuts, sent>>

LineOf(piece) == (piece + 1) \div 2
IsTail(piece) == piece % 2 = 0
Elements(s) == { s[i] : i \in DOMAIN s }

-----------------------------------------------------------------------------
(* The task that fetches the stream.                                       *)

(* A faulty variant that does not wait for room in the channel.            *)
StreamUnbounded ==
  /\ task = "running"
  /\ source < 2 * MaxLines
  /\ source' = source + 1
  /\ bytes' = Append(bytes, source')
  /\ UNCHANGED <<task, receiver, buffer, advertisements, policy, pc, errors, cuts, sent>>

(* The next bytes arrive.  The task waits while the channel is full.       *)
Stream ==
  /\ task = "running"
  /\ source < 2 * MaxLines
  /\ Len(bytes) < Capacity
  /\ source' = source + 1
  /\ bytes' = Append(bytes, source')
  /\ UNCHANGED <<task, receiver, buffer, advertisements, policy, pc, errors, cuts, sent>>

(* The connection fails, at once or later, or is closed.                   *)
EndStream ==
  /\ task = "running"
  /\ task' = "finished"
  /\ UNCHANGED <<source, bytes, receiver, buffer, advertisements, policy, pc, errors, cuts, sent>>

-----------------------------------------------------------------------------
(* work.                                                                   *)

(* start_stream, also if the task has ended.  Bytes that are still in the  *)
(* old channel are lost, those in the buffer stay.                         *)
StartStream ==
  /\ task' = "running"
  /\ receiver' = TRUE
  /\ bytes' = <<>>
  /\ source' = source + (source % 2)

Begin ==
  /\ pc = "idle"
  /\ IF task = "running" THEN UNCHANGED streamVars ELSE StartStream
  /\ cuts' = IF task = "finished"
             THEN cuts \cup { LineOf(x) : x \in Elements(buffer) }
             ELSE cuts
  /\ pc' = "receiving"
  /\ UNCHANGED <<buffer, advertisements, policy, errors, sent>>

ReceiveNext ==
  /\ pc = "receiving" /\ bytes # <<>>
  /\ buffer' = Append(buffer, Head(bytes))
  /\ bytes' = Tail(bytes)
  /\ UNCHANGED <<task, source, receiver, advertisements, policy, pc, errors, cuts, sent>>

EndReceive ==
  /\ pc = "receiving" /\ bytes = <<>>
  /\ pc' = "parsing"
  /\ UNCHANGED <<streamVars, buffer, advertisements, policy, errors, cuts, sent>>

(* Faulty variants that forget the handle, and the buffer.                 *)
StopStreamKeepsTask ==
  /\ receiver' = FALSE
  /\ bytes' = <<>>
  /\ buffer' = <<>>
  /\ UNCHANGED <<task, source>>
StopStreamKeepsBuffer ==
  /\ task' = "none"
  /\ receiver' = FALSE
  /\ bytes' = <<>>
  /\ UNCHANGED <<source, buffer>>

StopStream ==
  /\ task' = "none"
  /\ receiver' = FALSE
  /\ bytes' = <<>>
  /\ buffer' = <<>>
  /\ UNCHANGED source

(* The position of the first newline in the buffer.                        *)
Newline(i) ==
  /\ i \in DOMAIN buffer /\ IsTail(buffer[i])
  /\ \A j \in 1 .. i - 1 : ~ IsTail(buffer[j])

(* The bytes up to there are a message if they are a line and nothing else.*)
Parses(i) ==
  i = 2 /\ LineOf(buffer[1]) = LineOf(buffer[2]) /\ LineOf(buffer[2]) \notin Malformed

ParseLine(i) ==
  /\ pc = "parsing" /\ Newline(i) /\ Parses(i)
  /\ buffer' = SubSeq(buffer, i + 1, Len(buffer))
  /\ advertisements' = IF LineOf(buffer[i]) \in Other THEN advertisements
                       ELSE Append(advertisements, LineOf(buffer[i]))
  /\ UNCHANGED <<streamVars, policy, pc, errors, cuts, sent>>

(* A faulty variant that drops what was parsed before the error.           *)
FailDropping(i) ==
  /\ pc = "parsing" /\ Newline(i) /\ ~ Parses(i)
  /\ errors' = errors + 1
  /\ StopStream
  /\ pc' = IF policy = "StopOnError" THEN "ended" ELSE "idle"
  /\ advertisements' = <<>>
  /\ UNCHANGED <<policy, cuts, sent>>

(* A line that does not parse makes work return early.  The stream is      *)
(* stopped and the buffer thrown away, the advertisements parsed before    *)
(* stay.                                                                   *)
Fail(i) ==
  /\ pc = "parsing" /\ Newline(i) /\ ~ Parses(i)
  /\ errors' = errors + 1
  /\ StopStream
  /\ pc' = IF policy = "StopOnError" THEN "ended" ELSE "idle"
  /\ UNCHANGED <<advertisements, policy, cuts, sent>>

(* A faulty variant that keeps what it has sent.                           *)
SendKeeping ==
  /\ pc = "parsing" /\ ~ \E i \in DOMAIN buffer : IsTail(buffer[i])
  /\ sent' = sent \o advertisements
  /\ pc' = "idle"
  /\ UNCHANGED <<streamVars, buffer, advertisements, policy, errors, cuts>>

(* After the last whole line.  What a session's interface has no room for  *)
(* is lost there (module Interface).                                       *)
Send ==
  /\ pc = "parsing" /\ ~ \E i \in DOMAIN buffer : IsTail(buffer[i])
  /\ sent' = sent \o advertisements
  /\ advertisements' = <<>>
  /\ pc' = "idle"
  /\ UNCHANGED <<streamVars, buffer, policy, errors, cuts>>

(* The runner has a stop command, which it obeys between two calls.        *)
Cleanup ==
  /\ pc = "idle"
  /\ StopStream
  /\ pc' = "ended"
  /\ UNCHANGED <<advertisements, policy, errors, cuts, sent>>

-----------------------------------------------------------------------------
Init ==
  /\ task = "none" /\ source = 0 /\ bytes = <<>> /\ receiver = FALSE
  /\ buffer = <<>> /\ advertisements = <<>>
  /\ policy \in {"StopOnError", "RestartOnError"}
  /\ pc = "idle" /\ errors = 0 /\ cuts = {} /\ sent = <<>>

Work ==
  \/ Begin \/ ReceiveNext \/ EndReceive \/ Send
  \/ \E i \in DOMAIN buffer : ParseLine(i) \/ Fail(i)

Ended == pc = "ended" /\ UNCHANGED vars

Next == Stream \/ EndStream \/ Work \/ Cleanup \/ Ended

(* The runner calls work again and again, and work goes on.                *)
Spec == Init /\ [][Next]_vars /\ WF_vars(Work)

-----------------------------------------------------------------------------
TypeOK ==
  /\ task \in {"none", "running", "finished"}
  /\ source \in 0 .. 2 * MaxLines
  /\ bytes \in Seq(1 .. 2 * MaxLines) /\ Len(bytes) <= Capacity
  /\ receiver \in BOOLEAN
  /\ buffer \in Seq(1 .. 2 * MaxLines)
  /\ advertisements \in Seq(1 .. MaxLines)
  /\ policy \in {"StopOnError", "RestartOnError"}
  /\ pc \in {"idle", "receiving", "parsing", "ended"}
  /\ errors \in Nat
  /\ cuts \in SUBSET (1 .. MaxLines) /\ sent \in Seq(1 .. MaxLines)

(* There is a receiver as long as there is a handle, so that work never    *)
(* fails for want of one; a parser that has ended, by an error or by a     *)
(* stop, has left no task, no channel and no part of a line behind.        *)
StreamIsConsistent ==
  /\ receiver = (task # "none")
  /\ pc \in {"receiving", "parsing"} => receiver
  /\ pc = "ended" => task = "none" /\ bytes = <<>> /\ buffer = <<>>

(* How bytes are cut into chunks makes no line fail, nor does a restart    *)
(* after an error.  An error is due to a malformed line, or to an ended    *)
(* stream that left the head of a line in the buffer; the tail may have    *)
(* arrived, but is lost with the channel.                                  *)
ErrorsAreCaused ==
  errors <= Cardinality(Malformed \cap 1 .. LineOf(source)) + Cardinality(cuts)

(* Lines that are parsed are sent, also those before one that fails, unless*)
(* the parser ends.  Only because errors are bounded: a line that fails in *)
(* each call of work would hold them back for ever.                        *)
AdvertisementsAreSent ==
  \A n \in 1 .. MaxLines :
    n \in Elements(advertisements) ~> n \in Elements(sent) \/ pc = "ended"

(* The feed is a lossy fifo: errors and restarts lose lines, but no line   *)
(* is sent twice, after a later one of the same or of an earlier call of   *)
(* work, or put together from two.                                         *)
Feed == INSTANCE LossyFifo WITH
  issued    <- LineOf(source),
  flight    <- { LineOf(x) : x \in Elements(buffer) \cup Elements(bytes) }
                 \cup Elements(advertisements),
  delivered <- sent
FeedIsLossyFifo == Feed!Spec
=============================================================================
