# Verification of the BGP router

TLA+ modules that model the routers of this repository, TLC configurations that
check them on small instances, and proofs that TLAPS checks for every value of
the constants.  Paths below are relative to the repository's `src/` crate
directory, so `components/interface.rs` is `src/components/interface.rs`.

Contents: 1 the system, 2 modules and code, 3 how data is represented,
4 what the runs check, 5 fairness, 6 what is proved, 7 where code and text
disagree, 8 what is not modelled, 9 plan.

## 1. The system

A `NetworkManager` owns routers and the links between them.  Each router is the
state object of a `StateMachine`: a thread that calls `Router::work` again and
again and that obeys commands from a channel.  A router has BGP processes, a
process has sessions, a session has an interface, and two interfaces form a
link over two bounded channels of the `MessageBus`.  `LiveBgpParser` is the
state object of another state machine; it turns a stream of RIS data into
advertisements and sends them out of its interface.  A process keeps its routes
in a RIB behind a mutex, which several processes may share.

| Part | State | Operations | Talks to |
|---|---|---|---|
| `RouterMaskMap` (`utils/router_mask.rs`) | bits in use, the mask of each router | `get`, `try_get`, `remove` | `get` and `try_get` are called by the RIB, under its mutex; `remove` by a unit test only |
| Route, `BestRoute` (`components/route.rs`, `bgp_bestroute.rs`) | none | comparison, `calculate` | called by entries and RIB |
| `BgpRibEntry`, `BgpRib` (`components/bgp/`) | per prefix a list of routes with masks | register, insert, remove, clear, lookups, import, export | called by `BgpRibInterface` |
| `BgpRibInterface`, `mutex_utils.rs` | mutex, poison flag, pending best route updates of the client | `new`, `update`, `get_bestroute`, `get_bestroute_updates`, `clear_rib` | threads of all routers that share the RIB |
| `Interface` (`components/interface.rs`) | two buffers with capacities and sizes, two filters, two channel ends | push, `send`, `receive`, get, resize, set sizes | the interface at the other end, in another thread |
| Process, session, `Router` | sessions, config, RIB interface | `receive`, `generate_advertisement`, `send`, `work` | neighbours over links |
| `StateMachine` (`utils/state_machine.rs`) | command channel, internal state, state object, join handle | start, pause, resume, stop, join; the runner's loop | owner thread and runner thread |
| `ThreadManager`, `MessageBus` | tables of handles, of channels | spawn, join, join all; create, publish, subscribe, stop | used by all of the above |
| `NetworkManager` (`modules/network.rs`) | routers, running routers, links | `from_topology`, insert, connect, start, stop | owns routers and their state machines, borrows the `ThreadManager` |
| `LiveBgpParser` (`modules/live_bgp_parser.rs`) | stream task, byte channel and buffer, collected advertisements | `work`, `process_buffer`, `cleanup` | HTTP stream, its sessions |
| `Topology` (`utils/topology.rs`) | vertices and edges | `add_vertex`, `add_edge` | read by `from_topology` |
| Filters (`components/filters.rs`) | none | `filter` | called by `Interface` |
| `main.rs` | a sequence of calls | build, start, stop, clean up | owner of all of the above |

What makes these parts hard, and what must hold of each:

* **Masks.**  Bits are handed out, all taken back when the RIB is cleared, and handed
  out again; one by one they would be taken back by `remove`, which no caller but a unit
  test uses yet.  No two registered routers may share a bit, none may leak, and none may
  move while the RIB has elements that mention it.  The map panics when it is full, in the
  middle of an update and under the lock.
* **RIB.**  One element may be several routers' at once.  What one router does must
  not be seen by another: the shared RIB must be as good as a private one, and a
  lookup must give a router only its own routes, the best of them; which of equal ones it
  gives depends on a `Vec` that all of them change.
* **RIB interface.**  Advertisements are applied route by route under a mutex that
  is tried for 100 ms.  Skips and panics must not leave half an advertisement, and
  nobody may wait for a lock that never comes back.
* **Interface.**  Two threads work at a link at the same time; full channels and
  full buffers lose messages; buffers are swapped and resized in between.  Messages
  may be lost for a reason, but never reordered, repeated or kept for ever.
* **Network.**  Each router echoes what it learns to every neighbour, also to the
  one it learnt it from.  A router must announce only what it holds, and must not be
  kept from its work by its neighbours.
* **State machine.**  Commands race with work, with an end the work decides itself,
  with transitions, with a panic.  Commands must be obeyed in time, senders must not
  hang, and the last state object must be handed over.
* **Live parser.**  Bytes arrive in chunks that end anywhere, streams end in the
  middle of a line and are begun again, a line that does not parse ends the call of
  `work`.  No line may be sent twice, put together from two, or blamed for another.
* **Network manager and message bus.**  Start and stop fail halfway, handles and
  channels are replaced, an id is used again.  Each link must be wired as the
  topology says, a receiver must have one owner, and a stop that succeeds must let
  `join_all` return.
* **main.**  Each of its calls may fail, panic or block; its clean-up comes last.

## 2. Modules and code

| Module | Models | Kind |
|---|---|---|
| `Route` | order of routes, `BestRoute::calculate` | operators |
| `RibTable` | `BgpRibEntry`, the table operations of `BgpRib`, longest match | operators |
| `Advertisement` | routes an advertisement announces and withdraws, and the order in which `update` takes them | operators |
| `RouterMaskMap` | the mask map | state machine |
| `BgpRib` | the RIB; extends `RouterMaskMap` and `RibTable` | state machine |
| `RouterRibs` | abstract: every router has a set of routes of its own | specification |
| `BgpRibInterface` | clients, mutex, timeout, poisoning; extends `BgpRib` and `Advertisement` | state machine |
| `AtomicRibs` | abstract: each advertisement takes effect on its router's routes at once, or not at all | specification |
| `Filters` | which elements each filter lets pass | operators |
| `Interface` | one direction of a link | state machine |
| `LossyFifo` | abstract: a lossy, ordered, at-most-once channel | specification |
| `BgpNetwork` | routers, processes and sessions on links; extends `RibTable` and `Advertisement` | state machine |
| `StateMachine` | runner and owner of a state machine, `join_thread` | state machine |
| `Lifecycle` | abstract: what a state machine does with the commands it is sent | specification |
| `LiveBgpParser` | the stream's task and the parser's thread; implements `LossyFifo` | state machine |
| `Topology` | the graph a network is made from | operators |
| `MessageBus` | the registry of channels, and channel pairs | operators |
| `NetworkManager` | the manager, the threads of its routers, the thread manager; extends `MessageBus`, uses `Topology` | state machine |
| `Main` | main as the owner of a `NetworkManager`; extends it | state machine |
| `RibTableProofs`, `BgpRibProofs`, `BgpRibInterfaceProofs`, `InterfaceProofs`, `StateMachineProofs`, `BgpNetworkProofs`, `LiveBgpParserProofs`, `NetworkManagerProofs` | the theorems | proofs |
| `BgpRibMC`, `BgpRibInterfaceMC`, `InterfaceMC`, `BgpNetworkMC`, `NetworkManagerMC`, `MainMC` | small values of the constants | instances |

Actions have the names of the code's operations.  Where an operation can be
interrupted, by a thread it shares something with, it is several actions:

* `Interface::send` is `BeginSend` (take the buffer, `interface.rs` 127-133),
  `SendNext` per message, `EndSend`; `receive` is `BeginReceive`, `ReceiveNext`,
  `EndReceive`.  Each step touches the channel once.  What a thread does to buffers
  that only it can reach belongs to the step around it.
* `update` is `BeginUpdate`, then per advertisement `Acquire` or `Skip`, `Operate`
  per route, `Release`.
* `Router::work` is `ReceiveNext` per message and `EndReceive` per session, then
  `TakeAdvertisement` or, if the lock's 100 ms have passed, `SkipAdvertisement` per
  advertisement collected, `Insert` or `Remove` per route of it, `EndUpdate`, and `Send`
  per session.  Other routers work between any two.
* `LiveBgpParser::work` is `Begin` (start the stream if there is none), `ReceiveNext`
  per chunk, `EndReceive`, then `ParseLine` per line, and `Send`, or `Fail` at the first
  line that does not parse.  `Stream` and `EndStream` are the asynchronous task.
* `from_topology`, `start`, `stop` and `join_all` are `Begin...`, one step per edge,
  router or thread, and `End...`; the runners go on between any two.  What a
  state machine does in detail is `StateMachine`; here a runner takes its command
  (`Take`), ends once it has taken a stop (`End`: until then its receiver is there, and
  another command can be sent), or panics in `work` (`Panic`).  Both are shown to
  implement `Lifecycle`.
* The runner's loop is `Poll`, then `BeginWork`, `Sleep` or `Cleanup`, then the
  answer of work: `Continue`, `Transition`, `StopItself` or `WorkPanics`.  A blocking
  `send` of the owner is `Send` and then `SendOk` or `SendErr`.

Definitions whose comment says *faulty variant* are not part of any
specification.  Each is the plausible mistake (a dropped guard, a missing reset)
that shows a property can fail: put in the place of the definition after it, TLC
refutes the property.

## 3. How data is represented

* A `RouterMask` is the set of its bits.  The width is a constant; it is 64 in the
  code.
* A prefix is the set of the addresses it covers, so that covering is `\subseteq`
  and the longest match is the smallest set.  Prefixes and peers are those that
  parse: the code drops the others before they reach a RIB.
* A path is a sequence, of which only the length is compared.  The next hop `""`
  that `get_withdrawals` gives a withdrawal is `NoHop`.
* An entry, a `Vec` in the code, is a set of records with their positions;
  `IsVec` says that these are 1 to n.  Only ties of `Iterator::max` look at them.
  An `Option` is a set of at most one element.
* The table is a partial function.  `RemoveRoute` deletes the key when the entry
  becomes empty, as the code does.
* In `Interface` a message is the number of its push.  A filter is the set of the
  messages it lets pass; `Filters` gives that set for each filter of the code, and
  `InterfaceMC` takes its sets from there.
* `Interface` leaves out errors that cannot occur: the lock on `in_channel` is never
  contended, and a cast of a received message never fails since only interfaces
  publish on these channels.
* In `LiveBgpParser` a line is two pieces, the second with the newline, and a chunk is
  one piece.  Whether a line is a message, and of which type, is a constant.
* A channel of `MessageBus` is a number, new for each that is made.  A Uuid is that
  number; ids that users choose are not positive, so that they never meet.
* A router of `NetworkManager` is the number of its insertion, so that two of one id
  can be told apart.  `Options` is the default of a vertex, the only value main uses.
* `BgpRibInterface` lets a waiting client skip at any time, even when the lock is
  free: a thread may be descheduled past its deadline.
* In `BgpNetwork` each process has the RIB it was created with; the line that would
  give all of them the network's RIB is commented out (`modules/network.rs` 109).  main
  gives it to its first router (`main.rs` 85), of which it then is the only user.
  An advertisement that a router generates has an empty path and that router's
  address.  Addresses need not differ: all of main's routers have the default one
  (`main.rs` 23-27), and so have those of the instance that TLC checks.
* `StateMachine` numbers the state objects.  `Wanted` are those of the type that the
  owner asks `get_final_state_cloned` for; for any other the answer is `None`, and the
  object is lost.
* `StateMachine`: `start` and `resume` send the same command.  The channel's id never
  leaves `new`, so only commands are on it.

## 4. What the runs check

| Run | Instance | Distinct states | What it shows |
|---|---|---|---|
| `router_mask_map` | 5 routers, 4 bits | 501 | bits are disjoint, accounted for and stable; the panic comes only when the map is full |
| `bgp_rib` | 2 routers, 2 bits, 2 nested prefixes | 21,965 | the shared RIB implements private ones; lookups give the router its own best route, and its choice among equal ones changes only for causes of its own |
| `bgp_rib_interface` | 3 clients, 2 bits, 2 updates of up to 2 advertisements | 26,710 | advertisements are atomic, also across panics; poison is permanent; every update returns |
| `interface` | 5 messages, channel of 2, buffers of 1 or 2; the sender's filter rejects message 2, the receiver's message 3 | 8,848 | the link implements a lossy FIFO; each loss has one of six reasons; nothing stays in flight |
| `network` | 2 routers of one address, one outside speaker, 2 advertisements of announcements and withdrawals, links of 2, buffers of 1 | 371,916 | routers announce only what they hold, whatever is lost, skipped or echoed; all keep sending |
| `state_machine` | any number of commands, 3 state objects, the second of another type | 1,537 | commands are obeyed within one call of work, senders never hang, join gives the last object |
| `live_bgp_parser` | 5 lines, one malformed, one of another type, channel of 3, both policies | 11,371 | the feed is a lossy FIFO of whole lines; errors have causes; what is parsed is sent |
| `network_manager` | 2 ids, 2 routers, up to 2 edges, a named channel made up to twice | 690,271 | links and receivers are wired right; `Ok` means all; joining returns after a stop; panics have causes |
| `withdrawals_unreported` | as `bgp_rib_interface` | violation | section 7 |
| `full_buffer_drops` | as `interface` | violation | section 7 |
| `network_unstable` | as `network`, links of 1, one announcement | violation | section 7 |
| `main_never_cleans_up` | main with 2 routers and 1 edge | violation | section 7 |

The properties:

* `BitsDisjoint`, `MaskIsUnion`, `StableBits`, `PanicsOnlyWhenFull`: see the masks
  above.  `get` finds the lowest free bit; `remove` clears with an exclusive or, which
  is right only because of `MaskIsUnion`.
* `RibInv`: entries are never empty, hold no route twice and no route without a
  router, and mention no bit that is not in use, so a router that registers later
  inherits nothing.
* `SharedRibIsPrivate`: `BgpRib` implements `RouterRibs` under the mapping "the routes
  whose mask contains the router's".
* `LookupFindsOwnBest`: a lookup that answers gives all of the router's own routes to
  one prefix, which is the router's own longest, and the best of them.  It may answer
  nothing although the router has a shorter prefix: a longer one of another router
  hides it (`bgp_rib.rs` 215).
* `ChoicesChangeForCause`: among routes as good as each other a router uses the last one in
  the `Vec` of the entry, and all routers of the RIB push to that `Vec` and remove from it.
  Still what a router uses changes only if the new one is a route it did not hold before,
  or the old one is a route it no longer holds.  It breaks if `insert`, where it adds a
  router to an element that is there, moves that element to the end.
* `UpdatesAreAtomic`: `BgpRibInterface` implements `AtomicRibs` under a mapping that
  adds to a client's routes what its current advertisement has left to do.  It
  breaks if the lock is released between two routes, or if a panic comes later than
  the first route.
* `ReportedIsMaximal`: a route reported as new is not worse than any in its entry
  after the insertion.  `PoisonedRibIsFrozen`: a panic under the lock ends all changes
  for good.  `UpdateReturns`: no update waits for ever, poisoned or not.
* `InOrder`, `LinkIsLossyFifo`, `MessagesMoveOn`: see above.  `LossesHaveCauses`: a message
  is lost only if a push finds the buffer full, a filter rejects it, the channel is full
  or closed for it or for one ahead of it in the batch, the incoming buffer is full, its
  buffer is replaced, or the receiver is dropped.  It breaks, for instance, if `send` gives
  up the batch at a message that the filter rejects.  `Filtered`: what the
  sender's filter rejects is never on the channel, and what the receiver's rejects is
  never handed out.
* `LearnedRoutesAreHeld`: what a router that has removed no route has put on its links, it
  holds.  What a router has received or learnt came from outside, or bears the address of
  a neighbour that holds it, or that has removed a route: of such a router it is not true,
  for withdrawals do not propagate (section 7).
* `RoutersKeepSending`: `receive` loops as long as there are messages; the bounded
  incoming buffer ends it even if the neighbour is as fast.
* `AtMostOneLateWork`, `CleanedUpOnce`, `JoinReturnsLastObject`, `StopEndsRunner`,
  `SendReturns`: see the state machine above.  `IdleStopCleansUp` is about machines
  that are not running: in a running one work may stop by itself while an accepted stop
  is in the channel, and then nothing is cleaned up.  `JoinReturnsLastObject`: join never
  returns an earlier object, also if that was of the type asked for and the last is not.
* `StreamIsConsistent`: the task, the receiver and the channel of a parser are there
  together or not at all.  `FeedIsLossyFifo`: the lines sent are lines of the stream,
  whole, in order (also within one call of `work`), once.  `ErrorsAreCaused`: there are no
  more errors than malformed lines and lines of which a stream ended in the middle, although such a line may eat
  up a good one.  `AdvertisementsAreSent`: what was parsed before a line that fails is
  sent later, unless the parser ends.
* `LinksFollowTopology`, `ReceiversAreUnique`: links join the routers their edge names,
  crosswise, over channels that no other has; a receiver is in the registry or with one
  holder.  `CommandReachesAll`: an `Ok` of stop means that all machines have ended or
  have the command; an `Ok` of start that none is left waiting and no stop is still to
  come; an error that one had ended.  `JoinAllReturns`: after such a stop, `join_all` returns or
  panics, unless a machine was replaced (`start`, after an id was used again).
  `PanicsAreCaused`: the owner panics at an edge from a router to itself, at an id
  inserted twice, and at the RIB or the thread of a panicked router, and nowhere else.

### Bounds

Every bound is a constant or is in the configuration:

* `Width` is as small as makes the map full with one router to spare.  The proofs are
  for any width.
* Two routers, two peers, two hops and paths of two lengths give shared, equal, better
  and tied routes; nested prefixes give longest matches of one's own and of others'.
* `MaxUpdates` 2 lets two clients update concurrently while the third one makes the map
  overflow.  With 3 updates (263,251 states) nothing new appeared.
* `MaxIssued` 5 with calls of at most 2 fills both buffers and the channel, and lets
  a resize come between.  `MaxBatch` only bounds one call.
* `MaxInjected` 2 lets the second advertisement arrive before, during and after the
  echo of the first.  `MaxReported` bounds what one cycle reports; two is
  what two sessions with buffers of one can bring, so it never stops a router.
* `MaxObject` 3 allows two transitions.  The number of commands is not bounded.
* `MaxLines` 5 with the second malformed and the fourth of another type puts good lines
  before, between and after; `Capacity` 3 is a line and a half.
* `MaxRouters` 2 lets an id be inserted again while its first router runs; `MaxEdges` 2
  gives a link and a loop in either order; `MaxNamed` 2 lets one name be made, stopped
  and made again.

### Deadlock

`BgpRibInterface` switches the check off because all its threads may die of panics,
`NetworkManager` because the owner may panic or be done with everything ended, and `Main`
because main waits for the parser for ever, which is what its run is about.  Everywhere
else TLC checks that something can always happen.

## 5. Fairness

* `BgpRibInterface`: each client that is in `update` goes on.  The loop of
  `try_lock_with_timeout` has a deadline and none of the calls under the lock blocks.
  Nothing makes a client begin an update, or be created.
* `Interface`: weak fairness of the steps of `send` and `receive`, since a router's
  work cycle calls them again and again and their loops contain no wait; strong
  fairness of `GetIncoming`, which is disabled whenever `receive` runs but which every
  cycle calls after it.  Pushes, resizes and drops are not fair.
* `BgpNetwork`: each router's thread goes on, step by step.  Injections are not fair.
* `StateMachine`: the runner's thread goes on and its work returns, which is what the
  `Runnable`s of the repository do (work is one cycle).  An owner that has begun a `send`
  or a join finishes it as soon as it does not block; nothing makes it begin one.
* `LiveBgpParser`: the runner calls work and work goes on.  The stream need not bring
  anything nor end, and nobody need stop the parser.
* `NetworkManager`: a call of the owner goes on as soon as it does not block, and a
  runner that is alive takes its command and ends after a stop, all as in `StateMachine`.  The owner begins
  nothing by itself, and no router has to panic.
* `Main`: main goes on, since it is a sequence of calls, and the runners take their
  commands.

## 6. What is proved

All theorems are for every value of the constants, from the named assumptions of the
modules (`WidthAssumption`, `RouteAssumption`, `RoutesAssumption`, the
`InterfaceAssumption` of `BgpRibInterface` and that of `Interface`, `MaxObjectAssumption`,
`ParserAssumption`, `ManagerAssumption`, `NetworkAssumption`), which TLC evaluates in each
run that uses them.  `InterfaceMC` assumes `FilterTests`, cases after the tests of
`filters.rs`, so that TLC evaluates `Filters` on them; no theorem uses it.

* `RibTableProofs`.  Lemmas about the operators of `RibTable` for any set of routes and
  any masks: an entry stays a list without repetitions (`InsertEntry`, `WithdrawEntry`,
  `ReindexIsVec`), and for each pair of a bit and a route, an operation changes what it
  should and nothing else (`InsertTable`, `RemoveTable`).  `BgpRibProofs` uses them
  for bits that many routers share, `BgpNetworkProofs` for the one bit of a private RIB.
  `CalculateIsLoop`: for any finite set of elements the loop of `Iterator::max` ends with
  what `Calculate` picks, so that `Calculate` translates `max` rightly; it is a fact about
  that operator, not about a RIB.  This is induction over data, which is carried out without an
  induction theorem: of the elements at which loop and `Calculate` differ there would be a
  least one (`LeastOfNumbers`, from the well-foundedness of the order on the naturals).
* `BgpRibProofs`.  `MaskInv` is inductive: the type, one bit for each router,
  disjointness, and that the bits in use are the union.  Disjointness alone is not
  inductive (a bit outside `mask` might be handed out twice), nor is the union (the
  exclusive or of `remove` needs that the router's bit is set and no other router's).
  From it `MaskSafety`, `RoutersNeverShareABit`, `NoBitLeaks`, `BitsAreStable`, and
  `PanicMeansFull`: a map that gives each of its routers one of the bits, all of them
  taken, is a bijection between the two.
  `RibInv` is inductive, including that entries stay lists (`EntriesAreVecs`); what has
  to be added to the properties of the table is `OnlyUsedBits`, without which the next
  router to register could find its new bit in old elements.  From it, step by step,
  `SharedRibImplementsPrivateRibs`: insertion adds one route to one router's set, removal
  takes away those of the withdrawal's peer and prefix, clearing empties all,
  registration changes none.  `LookupsAnswerOwnBest`: the prefixes that cover an address
  have one smallest, so that a lookup looks at one entry.  `LookupsAnswerOne` applies
  `CalculateIsLoop` to what a lookup filters out of an entry: it answers with one route if it finds any.
  `ChoicesAreStable`: the elements that an entry keeps stay in their order, whatever is
  inserted into it and withdrawn from it (`InsertKeepsOrder`, `WithdrawKeepsOrder` and the
  others of that name), and of elements in the same order the same one is picked
  (`BestOfSameOrder`).
* `BgpRibInterfaceProofs`.  `IInv` adds to `RibInterfaceInv` the types of the
  clients' queues, that nobody has a poisoned lock (`PoisonFreesLock`), that the inserts
  of what is left to do come before its removals (`InsertsFirst`), and that a client
  which has the lock but no mask yet has its whole advertisement before it
  (`WholeUntilMasked`).  The last is why a panic leaves no half advertisement: `get`
  panics on the first operation or on none.  Each step is a step of `BgpRib` or leaves
  the RIB alone, so `RibInv` carries over (`StepIsRibStep`).  An operation moves a route
  from what is left to do to what the client holds, so that `Settled` stays what it was
  (`OperateSettles`); that is the refinement `UpdatesAreAtomicallyApplied`.  Further
  theorems: `ClientsKeepInvariant`, `PoisonFreezesRib`, `ReportsAreMaximal`.
  `ClientsImplementRib`: the interleaved clients implement `BgpRib`, so that what is proved
  of a RIB holds of theirs; `ClientsHavePrivateRibs` draws the conclusion for private
  RIBs, lookups and choices.  `UpdatesShrink`: each step of an update leaves fewer
  advertisements, operations or locks, and no other client adds to them, which is the
  safety half of `UpdateReturns`.
* `InterfaceProofs`.  `Inv` is inductive; the parts that are in no property are
  `WithinCapacity`, that buffers and channel keep to their sizes through all resizes, and
  `IdleIsEmpty`: a batch exists only within `send`, which is what keeps a later push behind
  it.  Theorems `InterfaceSafety`, `LinkTypes`, `FiltersHold`,
  `MessagesStayInOrder`, `LinkImplementsLossyFifo`, and `LinkLosesForCause`, which follows
  each message of a step to the place it is in after it.
* `BgpNetworkProofs`, for any graph of sessions and any addresses: `NetworkAssumption` does
  not say that addresses differ, for no code makes them differ.  `Inv` is `Shape` (types),
  `Signed` (what is on a link bears the address of the router it is from) and `Held`: of a
  router that has removed nothing, whatever it is about to say and has said, it holds
  (`ReadyIsHeld`, `SentIsHeld`); whatever a router has received, taken apart or applied has
  come from outside, or from a neighbour of the address it bears which holds it or has
  removed a route (`ReceivedIsSourced`, `AppliedIsSourced`).  The chain has to be unbroken,
  since each link of it feeds the next: `NetworkSafety`, `RoutersAnnounceWhatTheyHold`.
  Where several neighbours have one address, the theorem says that one of them is the
  source, as a router can know no more.  `NetworkTypes` adds that each RIB stays well formed.
  `RoutesComeFromOutside`: each route in a RIB is one that was injected into this router, or
  one that a neighbour generated from what was injected somewhere: with that neighbour's
  address and an empty path, whatever path it had before.  That is why a relayed route beats
  the one it came from.  Its invariant follows routes through links, buffers, operations and
  news, as `Held` does.
  `TablesImplementRibs`: together the private RIBs implement `RouterRibs`, as the shared
  one does.  `NetworkBuffersAreBounded` and `CyclesEnd`: a router's cycle starts with
  nothing left of the last, a buffer for each session bounds what it applies, and each of
  its steps brings it nearer to the next part, whatever the others do.  That is the
  safety half of `RoutersKeepSending`; fairness does the rest, which TLC checks.  It rests on
  sessions without filters, as in `BgpNetwork`: messages that an incoming filter rejects
  take no room in the buffer, and would not end `receive`.
* `StateMachineProofs`.  The properties need three facts more: an accepted command
  is the next one or has been taken already (`CommandIsNext`), the runner works only
  while its internal state is running (`WorksOnlyRunning`), and who joins has taken
  the handle (`JoiningHasHandle`).  Theorems `StateMachineSafety`, `MachineTypes`,
  `CommandsAreObeyed`, `LastObjectIsCleanedUp`, `LastObjectIsHandedOver`.
  `MachineImplementsLifecycle`: the state that a sender may assume is computed from the
  runner's place in its loop (`Doing`, `Told`), and each step is one of `Lifecycle` or none.
* `LiveBgpParserProofs`.  `Inv` adds to the types and to `StreamIsConsistent` that
  buffer and channel hold pieces in increasing order (`Ordered`), after all that is
  parsed, which is in order itself (`ParsedBefore`), a tail never without its head, and a
  head without its tail only at the end of the stream or at a cut (`Whole`), and that each error has used
  up a malformed line or a cut (`ErrorsUsedUp`): `ErrorsAreCaused` alone does not say
  that a cut is not counted again.  Theorems `ParserSafety`, `ParserTypes`,
  `NoStreamOutlivesParser`, `ErrorsHaveCauses`, `FeedImplementsLossyFifo`.
* `NetworkManagerProofs`.  The invariants build on each other: `Types`, with what a call
  has left to do and that a topology has one vertex for a key (`GraphOK`); `Commanded`,
  which says for a call of start or stop that what is not in `todo` has its command;
  `Receivers`, that channels are numbered below the next new one and that a receiver has
  one place; `Linked`, that sessions come in pairs over channels of their own and that
  the edges left are those without a link; `Caused`, that all threads are joined only
  while no manager is there.  That `insert_router` panics for no router of a topology is
  due to `GraphOK` (`KeysOfVertices`).  Theorems
  `ManagerTypes`, `CommandsReachAll`, `ReceiversStayUnique`, `LinksAreWired`,
  `PanicsHaveCauses`.  `RoutersHaveLifecycles`: for each router of a network, the machine
  that start makes and start and stop command implements `Lifecycle`, the same as
  `StateMachine` does; this is what ties the two models of a machine together.
* `NetworkManagerProofs`, of `Main`, for any list of ids and edges (`ProperTopology`).
  `MainUsesManager`: main is an owner as `NetworkManager` allows, so that its theorems hold
  of main.  `MainInv` adds that main's ids differ, so that each thread has a machine within
  reach (`OneOfEach`), and what has come before each step of main (`Placed`).
  `MainCleansUpAfterFailure`: the clean-up is reached only over an error or the panic of the
  parser; it says for every topology what the run `main_never_cleans_up` shows of one.
  `MainJoinsWhatItStopped`: the exception of `JoinAllReturns` is none for main.
  `MainPanics`: in its calls to the manager main panics only over a loop of its topology or
  after the panic of a router, never because it inserted a router twice; besides, it panics
  at the file of the export (`ExportFails`), when it has told all routers to stop.

Only model-checked: all liveness (`UpdateReturns`, `MessagesMoveOn`,
`RoutersKeepSending`, `StopEndsRunner`, `IdleStopCleansUp`, `SendReturns`,
`AdvertisementsAreSent`, `JoinAllReturns`), since TLAPS here proves neither `ENABLED` nor
liveness under fairness.  Of `UpdateReturns` and `RoutersKeepSending` the safety half is
proved, that each step leaves less to do.  No module declares a `RECURSIVE` operator.

## 7. Where code and text disagree

* `withdrawals_unreported`: `remove_route` reports a withdrawn best route only if the
  withdrawal equals it in all fields (`bgp_rib.rs` 253-263), but withdrawals in
  advertisements have an empty next hop (`advertisement.rs` 99).  So withdrawals are
  applied and never passed on.  The test `withdraw_bestroute` expects a report.
* `full_buffer_drops`: `receive` takes a message out of the channel before it looks for
  room.  A comment says that it stops receiving when the buffer is full
  (`interface.rs` 116), and a test that the message stays in the channel (389).  It is lost.
* `network_unstable`: a route that is held already is reported as new each time it
  arrives (`bgp_rib.rs` 230), and sent to all neighbours.  Two routers echo one route for
  ever; `main.rs` 92 waits for the network to stabilize.
* `main_never_cleans_up`: the line that stops the parser is commented out (`main.rs` 93),
  and main waits for the end of the parser's thread (112), which only a panic of the
  parser could bring: after an error it restarts its stream, as is the default.  The
  part that a comment calls "Clean up" (124) is not reached.
  Where there is no directory `data/`, as on a fresh checkout (it is git-ignored), main
  panics even before that, at the `unwrap` of `File::create` in `export_to_file`
  (`bgp_rib.rs` 176, `main.rs` 106-108).  The property counts a panic as an end of main, so
  that the run shows the other case.

Noticed, without a run: the comments on ties in `route.rs` 63 and 69 describe other
orders than the code has.  The first route of a router in a shared RIB is not reported
if another router has a better one.  `Display` of `NetworkManagerError`
(`network.rs` 295-298) calls `to_string` on itself and recurses without end.  Only main's
first router gets the RIB of the network manager (`main.rs` 85).  All of main's routers
have the default address (`main.rs` 23-27), so that none can tell whose routes it has;
`BgpNetwork` allows for that.  `IpNetworkBlacklistFilter` lets pass what
overlaps the network it names, and nothing else (`filters.rs` 190-197).  In networks where routers have several neighbours the echoed
announcements multiply.  The TODO about a deadlock at `network.rs` 107 does not concern
`update`, which always returns.  Between taking a stop and dropping its receiver
(`state_machine.rs` 86-111) a state machine accepts another command: a `start` sent then
returns `Ok` and is lost, and the router stays stopped.
After a failed `stop`, which leaves routers running, main goes on to `join_all` and waits
for them for ever.

## 8. What is not modelled

* `import_from_file`: only a test calls it, and it would make states (elements with
  bits that no router has) that cannot arise otherwise.
* Statistics, display, pretty printing and logging change no state.  Of `export_to_file`
  only that it may panic is modelled (`Main`).
* Several processes in one router, sessions without an interface, and adding or removing
  sessions of a running router: nothing but tests does that.
* `connect_interface_pair` and `connect_bgp_session_pair` of `NetworkManager`, which only
  a test uses, and `Topology::from_edges`, which nothing calls and is a loop of
  `add_edge`.  A topology has no removal.
* The HTTP stream, the tokio runtime, the parsing of RIS JSON and files: pure I/O.  What
  work sees of the stream, bytes that arrive and an end, is in `LiveBgpParser`.
* Time: `sleep` and the 100 ms of the lock are steps that may happen, so a model has
  every order that times could give.
* Weak memory: the code shares state through mutexes and channels only.

## 9. Plan

Done, in this order, most important first: masks, RIB, RIB interface, link, network,
state machine; then the live parser, message bus, topology, network manager, main and
filters; a network of routers step by step instead of cycle by cycle; proofs of every
safety property the runs check; then what ties the modules together: clients and RIB,
networks and RIBs, manager and state machines, main and manager, and the bounds behind
two of the liveness properties.

What could follow:

1. A network of three routers in a ring, where echoes multiply: its states exceed what
   TLC visits in minutes, while the safety proofs cover it already.
2. Several processes per router and sessions that come and go, once the program uses
   them.
3. `import_from_file`, once it restores the mask map as well; `OnlyUsedBits` is then the
   property to keep.
