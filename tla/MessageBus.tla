----------------------------- MODULE MessageBus -----------------------------
(***************************************************************************)
(* src/utils/message_bus.rs, with the channel pairs of                     *)
(* src/utils/thread_manager.rs: the registry of the ends of channels.  A   *)
(* sender stays in the registry when it is handed out, a receiver leaves   *)
(* it.  A channel is a number, new for each that is created; the id it is  *)
(* registered under is a Uuid, new as well (then the id is the number) or  *)
(* chosen by the caller.  What is in a channel is left to its users.       *)
(*                                                                         *)
(* The operators are pure: their argument is the bus, in the ThreadManager *)
(* under a mutex that each caller holds for all it does.                   *)
(***************************************************************************)
EXTENDS Integers

NewBus == [senders |-> [id \in {} |-> 0], receivers |-> [id \in {} |-> 0], made |-> 0]

With(f, id, c) == [x \in DOMAIN f \cup {id} |-> IF x = id THEN c ELSE f[x]]
Without(f, ids) == [x \in DOMAIN f \ ids |-> f[x]]

ChannelExists(bus, id) == id \in DOMAIN bus.senders

(* create_channel_with_uuid fails if either end is registered.             *)
CanCreate(bus, id) == id \notin DOMAIN bus.senders \cup DOMAIN bus.receivers
CreateChannel(bus, id) ==
  [senders   |-> With(bus.senders, id, bus.made + 1),
   receivers |-> With(bus.receivers, id, bus.made + 1),
   made      |-> bus.made + 1]

(* subscribe hands the receiver out, once; publish changes nothing.        *)
CanSubscribe(bus, id) == id \in DOMAIN bus.receivers
Subscribe(bus, id) == [bus EXCEPT !.receivers = Without(@, {id})]

(* A faulty variant that forgets only the sender.                          *)
StopSender(bus, id) == [bus EXCEPT !.senders = Without(@, {id})]

Stop(bus, id) ==
  [bus EXCEPT !.senders = Without(@, {id}), !.receivers = Without(@, {id})]

(* stop_all stops the ids that have a sender.                              *)
StopAll(bus) ==
  [bus EXCEPT !.senders = [id \in {} |-> 0],
              !.receivers = Without(@, DOMAIN bus.senders)]

-----------------------------------------------------------------------------
(* get_message_bus_channel_pair_with_id: the channel is created if it does *)
(* not exist, and then subscribed to, which fails if somebody else has     *)
(* done so.                                                                *)
Ensure(bus, id) == IF ChannelExists(bus, id) THEN bus ELSE CreateChannel(bus, id)
CanPair(bus, id) ==
  /\ ChannelExists(bus, id) \/ CanCreate(bus, id)
  /\ CanSubscribe(Ensure(bus, id), id)
ChannelPair(bus, id) == Subscribe(Ensure(bus, id), id)

(* get_message_bus_channel_pair and StateMachine::new: a channel of a new  *)
(* id, the sender of which only stays in the registry.                     *)
NewPair(bus) == ChannelPair(bus, bus.made + 1)
=============================================================================
