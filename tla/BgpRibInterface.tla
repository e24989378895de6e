--------------------------- MODULE BgpRibInterface ---------------------------
(***************************************************************************)
(* src/components/bgp/bgp_rib.rs, struct BgpRibInterface, and the locking  *)
(* of src/utils/mutex_utils.rs: clients, each in the thread of its router, *)
(* share one RIB behind a mutex.  BgpRib has the operations; here they are *)
(* steps of clients that hold the lock.  A panic under the lock ends the   *)
(* thread and poisons the mutex for all.                                   *)
(***************************************************************************)
EXTENDS BgpRib, Advertisement

CONSTANTS
  Nobody,       (* the holder of a free lock                               *)
  Batch,        (* the lists of advertisements that update is called with  *)
  MaxUpdates    (* bound: calls of update in all                           *)

Ads == UNION { { batch[i] : i \in DOMAIN batch } : batch \in Batch }

ASSUME InterfaceAssumption ==
  /\ Nobody \notin Router
  /\ MaxUpdates \in Nat
  /\ \A batch \in Batch : batch \in Seq(Advertisements) /\ batch # <<>>
  /\ \A ad \in Ads :
       /\ \A i \in DOMAIN ad.announcements : GetAnnouncements(ad)[i] \in Announced
       /\ \A i \in DOMAIN ad.withdrawals : GetWithdrawals(ad)[i] \in Withdrawn

VARIABLES
  lock,         (* the client that holds the mutex, or Nobody              *)
  poisoned,     (* a thread has panicked while it held the mutex           *)
  phase,        (* where each client is                                    *)
  ads,          (* the advertisements each update has yet to come to       *)
  ops,          (* what is left to do of the current advertisement         *)
  reported,     (* bestroute_updates: new best routes, and lost ones       *)
  updates       (* the number of calls of update so far                    *)

ribVars == <<mask, map, table>>
clientVars == <<phase, ads, ops, reported, updates>>
allVars == <<ribVars, lock, poisoned, clientVars>>

NoUpdates == [new |-> <<>>, gone |-> <<>>]

-----------------------------------------------------------------------------
(* A client is given the RIB: BgpRibInterface::new registers the router,   *)
(* set_rib does not.                                                       *)
New(c) ==
  /\ phase[c] = "new"
  /\ lock = Nobody /\ ~ poisoned
  /\ RegisterRouter(c)
  /\ phase' = [phase EXCEPT ![c] = "idle"]
  /\ UNCHANGED <<lock, poisoned, ads, ops, reported, updates>>

SetRib(c) ==
  /\ phase[c] = "new"
  /\ phase' = [phase EXCEPT ![c] = "idle"]
  /\ UNCHANGED <<ribVars, lock, poisoned, ads, ops, reported, updates>>

-----------------------------------------------------------------------------
(* update.                                                                 *)

BeginUpdate(c, batch) ==
  /\ phase[c] = "idle"
  /\ updates < MaxUpdates
  /\ updates' = updates + 1
  /\ ads' = [ads EXCEPT ![c] = batch]
  /\ phase' = [phase EXCEPT ![c] = "waiting"]
  /\ UNCHANGED <<ribVars, lock, poisoned, ops, reported>>

TakeLock(c) ==
  /\ phase[c] = "waiting"
  /\ lock = Nobody
  /\ lock' = c
  /\ phase' = [phase EXCEPT ![c] = "locked"]
  /\ ops' = [ops EXCEPT ![c] = Operations(Head(ads[c]))]
  /\ ads' = [ads EXCEPT ![c] = Tail(@)]
  /\ UNCHANGED <<ribVars, poisoned, reported, updates>>

(* A faulty variant that takes the guard out of a PoisonError.             *)
AcquirePoisoned(c) == TakeLock(c)

(* One of the attempts of try_lock_with_timeout succeeds.  A poisoned lock *)
(* is never acquired: try_lock returns an error, as if it were held.       *)
Acquire(c) == ~ poisoned /\ TakeLock(c)

NextPhase(c) == IF ads'[c] = <<>> THEN "idle" ELSE "waiting"

(* A faulty variant that gives up only while another thread has the lock.  *)
SkipIfHeld(c) ==
  /\ phase[c] = "waiting"
  /\ lock # Nobody
  /\ ads' = [ads EXCEPT ![c] = Tail(@)]
  /\ phase' = [phase EXCEPT ![c] = NextPhase(c)]
  /\ UNCHANGED <<ribVars, lock, poisoned, ops, reported, updates>>

(* No attempt has succeeded within 100 ms: the advertisement is dropped.   *)
(* The lock may be free at this moment, and a thread may even sleep past   *)
(* the deadline before its first attempt.                                  *)
Skip(c) ==
  /\ phase[c] = "waiting"
  /\ ads' = [ads EXCEPT ![c] = Tail(@)]
  /\ phase' = [phase EXCEPT ![c] = NextPhase(c)]
  /\ UNCHANGED <<ribVars, lock, poisoned, ops, reported, updates>>

Insert(c) ==
  LET route == Head(ops[c]).route IN
  /\ Head(ops[c]).kind = "insert"
  /\ InsertRoute(c, route)
  /\ reported' = [reported EXCEPT ![c].new = Extend(@, NewBest(table, route))]

Withdraw(c) ==
  LET route == Head(ops[c]).route IN
  /\ Head(ops[c]).kind = "remove"
  /\ RemoveRoute(c, route)
  /\ reported' = [reported EXCEPT ![c].gone = Extend(@, WithdrawnBest(table, route))]

Operate(c) ==
  /\ lock = c
  /\ ops[c] # <<>>
  /\ Insert(c) \/ Withdraw(c)
  /\ ops' = [ops EXCEPT ![c] = Tail(@)]
  /\ UNCHANGED <<lock, poisoned, phase, ads, updates>>

(* A faulty variant that ends the advertisement before its last route.     *)
ReleaseEarly(c) ==
  /\ lock = c
  /\ lock' = Nobody
  /\ ops' = [ops EXCEPT ![c] = <<>>]
  /\ phase' = [phase EXCEPT ![c] = IF ads[c] = <<>> THEN "idle" ELSE "waiting"]
  /\ UNCHANGED <<ribVars, poisoned, ads, reported, updates>>

(* drop(bgp_rib_lock), and the next advertisement.                         *)
Release(c) ==
  /\ lock = c
  /\ ops[c] = <<>>
  /\ lock' = Nobody
  /\ phase' = [phase EXCEPT ![c] = IF ads[c] = <<>> THEN "idle" ELSE "waiting"]
  /\ UNCHANGED <<ribVars, poisoned, ads, ops, reported, updates>>

-----------------------------------------------------------------------------
(* get_bestroute_updates.                                                  *)
TakeUpdates(c) ==
  /\ phase[c] = "idle"
  /\ reported' = [reported EXCEPT ![c] = NoUpdates]
  /\ UNCHANGED <<ribVars, lock, poisoned, phase, ads, ops, updates>>

ClearRib(c) ==
  /\ phase[c] = "idle"
  /\ lock = Nobody /\ ~ poisoned
  /\ Clear
  /\ UNCHANGED <<lock, poisoned, clientVars>>

-----------------------------------------------------------------------------
(* Panics end the thread: what it has done of the RIB stays, what it has   *)
(* left to do does not.                                                    *)
Die(c) ==
  /\ phase' = [phase EXCEPT ![c] = "dead"]
  /\ ads' = [ads EXCEPT ![c] = <<>>]
  /\ ops' = [ops EXCEPT ![c] = <<>>]
  /\ UNCHANGED <<ribVars, reported, updates>>

(* The mask map is full when new, insert_route or remove_route asks for a  *)
(* mask: the guard is dropped while the thread panics.                     *)
PanicWhenFull(c) ==
  /\ GetPanics(c)
  /\ \/ phase[c] = "new" /\ lock = Nobody /\ ~ poisoned
     \/ lock = c /\ ops[c] # <<>>
  /\ lock' = Nobody
  /\ poisoned' = TRUE
  /\ Die(c)

(* new, get_bestroute and clear_rib unwrap the result of lock.             *)
PanicOnPoison(c) ==
  /\ phase[c] \in {"new", "idle"}
  /\ lock = Nobody /\ poisoned
  /\ UNCHANGED <<lock, poisoned>>
  /\ Die(c)

-----------------------------------------------------------------------------
RibInterfaceInit ==
  /\ Init
  /\ lock = Nobody /\ poisoned = FALSE
  /\ phase = [c \in Router |-> "new"]
  /\ ads = [c \in Router |-> <<>>] /\ ops = [c \in Router |-> <<>>]
  /\ reported = [c \in Router |-> NoUpdates]
  /\ updates = 0

Goes(c) == Acquire(c) \/ Skip(c) \/ Operate(c) \/ PanicWhenFull(c) \/ Release(c)

RibInterfaceNext ==
  \E c \in Router :
    \/ New(c) \/ SetRib(c)
    \/ \E batch \in Batch : BeginUpdate(c, batch)
    \/ Goes(c)
    \/ TakeUpdates(c) \/ ClearRib(c)
    \/ PanicOnPoison(c)

(* A thread in update goes on: each wait in it has a deadline.             *)
RibInterfaceSpec ==
  /\ RibInterfaceInit /\ [][RibInterfaceNext]_allVars
  /\ \A c \in Router : WF_allVars(phase[c] # "new" /\ Goes(c))

-----------------------------------------------------------------------------
(* The invariant of the RIB holds at every moment, under the lock or not,  *)
(* and after a panic; who has the lock is in the loop of update, and who   *)
(* waits has something to wait for.                                        *)
Phases == {"new", "idle", "waiting", "locked", "dead"}
RibInterfaceInv ==
  /\ RibInv
  /\ \A c \in Router : phase[c] \in Phases
  /\ \A c \in Router : (lock = c) <=> (phase[c] = "locked")
  /\ \A c \in Router : ops[c] # <<>> => lock = c
  /\ \A c \in Router : phase[c] = "waiting" => ads[c] # <<>>

(* What is left to do for a client that has the lock, as one change.       *)
Left(c, kind) ==
  { ops[c][i].route : i \in { i \in DOMAIN ops[c] : ops[c][i].kind = kind } }
Settled(c) ==
  { r \in Held(c) \cup Left(c, "insert") :
      \A w \in Left(c, "remove") : ~ SameSource(w, r) }

(* Each advertisement takes effect on its client's routes as a whole or    *)
(* not at all, also when the thread panics on its way, and on no one       *)
(* else's.  It takes effect as soon as the client has the lock and a mask. *)
Private == INSTANCE AtomicRibs
  WITH held <- [c \in Router |-> IF c \in DOMAIN map THEN Settled(c) ELSE {}],
       Changes <- { << { GetAnnouncements(ad)[i] : i \in DOMAIN ad.announcements },
                       { GetWithdrawals(ad)[i] : i \in DOMAIN ad.withdrawals } >>
                    : ad \in Ads }
UpdatesAreAtomic == Private!Spec

(* A route that update reports as a new best route is, at that moment, not *)
(* worse than any route in its entry, whichever router holds that.         *)
ReportedIsMaximal ==
  [][\A c \in Router :
       Len(reported'[c].new) > Len(reported[c].new) =>
         LET r == reported'[c].new[Len(reported'[c].new)] IN
         \A x \in table'[r.prefix] : ~ Less(r, x.route)]_allVars

(* Once poisoned, the RIB does not change any more, nor is it repaired.    *)
PoisonedRibIsFrozen ==
  [][poisoned => poisoned' /\ UNCHANGED ribVars]_allVars

(* update returns or its thread has died; it does not wait for a lock that *)
(* no one will ever release.                                               *)
UpdateReturns ==
  \A c \in Router : phase[c] = "waiting" ~> phase[c] \in {"idle", "dead"}

-----------------------------------------------------------------------------
(* test withdraw_bestroute (bgp_rib.rs, 583): the withdrawal of the best   *)
(* route by a router that holds it is reported.  Here the withdrawal comes *)
(* in an advertisement.                                                    *)
WithdrawalsAreReported ==
  [][\A c \in Router :
       LET w == Head(ops[c]).route IN
       ( /\ lock = c /\ ops[c] # <<>> /\ Head(ops[c]).kind = "remove" /\ ops'[c] = Tail(ops[c])
         /\ \E b \in Calculate(EntryAt(table, w.prefix)) : SameSource(w, b) /\ b \in Held(c) )
       => reported'[c].gone # reported[c].gone]_allVars
=============================================================================
