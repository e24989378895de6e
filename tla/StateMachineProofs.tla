-------------------------- MODULE StateMachineProofs --------------------------
(***************************************************************************)
(* Proofs of the safety of a state machine's commands.                     *)
(***************************************************************************)
EXTENDS StateMachine, TLAPS

Parks == {"Paused", "Stopped"}

(* Why at most one call of work comes late.  Until the runner takes the    *)
(* command, the command is alone in the channel, and the runner has begun  *)
(* work since only if it had passed its poll before; then it has to poll   *)
(* before it works again.  Once it has taken the command it obeys.         *)
CommandIsNext ==
  accepted \in Parks /\ ~ Ended =>
    \/ channel = <<>> /\ internal = accepted
    \/ channel = <<accepted>> /\ (runner = "act" => late = 0)

WorksOnlyRunning == runner = "working" => internal = "Running"
JoiningHasHandle == owner = "joining" => ~ handle

Inv ==
  /\ TypeOK /\ AtMostOneLateWork /\ CleanedUpOnce /\ JoinReturnsLastObject
  /\ CommandIsNext /\ WorksOnlyRunning /\ JoiningHasHandle

LEMMA InitHasInv == Init => Inv
BY MaxObjectAssumption
   DEF Init, Inv, TypeOK, AtMostOneLateWork, CleanedUpOnce, JoinReturnsLastObject,
       CommandIsNext, WorksOnlyRunning, JoiningHasHandle, Commands, InternalState,
       Parks, Ended

LEMMA StepKeepsType == Inv /\ [Next]_vars => TypeOK'
<1> SUFFICES ASSUME Inv, [Next]_vars PROVE TypeOK'
  OBVIOUS
<1> USE MaxObjectAssumption DEF Inv, TypeOK, Commands, InternalState
<1>1. CASE Poll
  <2>1. ASSUME NEW c \in Commands PROVE Head(<<c>>) = c /\ Tail(<<c>>) = <<>>
    OBVIOUS
  <2> QED BY <1>1, <2>1 DEF Poll, ownerVars
<1>2. CASE BeginWork BY <1>2 DEF BeginWork, ownerVars
<1>3. CASE EndWork
  <2>1. CASE Transition
    <3>1. object' \in 1 .. MaxObject
      BY <2>1 DEF Transition
    <3> QED BY <2>1, <3>1 DEF Transition, ownerVars
  <2> QED BY <1>3, <2>1 DEF EndWork, Continue, StopItself, WorkPanics, ownerVars
<1>4. CASE Sleep BY <1>4 DEF Sleep, ownerVars
<1>5. CASE Cleanup BY <1>5 DEF Cleanup, ownerVars
<1>6. ASSUME NEW c \in Commands, Send(c) PROVE TypeOK'
  BY <1>6 DEF Send, runnerVars
<1>7. CASE SendOk BY <1>7 DEF SendOk, runnerVars
<1>8. CASE SendErr BY <1>8 DEF SendErr, runnerVars
<1>9. CASE BeginJoin BY <1>9 DEF BeginJoin, runnerVars
<1>10. CASE EndJoin BY <1>10 DEF EndJoin, runnerVars
<1>11. CASE JoinAgain BY <1>11 DEF JoinAgain, runnerVars
<1>12. CASE UNCHANGED vars BY <1>12 DEF vars, ownerVars, runnerVars
<1> QED BY <1>1, <1>2, <1>3, <1>4, <1>5, <1>6, <1>7, <1>8, <1>9, <1>10, <1>11,
           <1>12 DEF Next, Runner, Owner

LEMMA StepKeepsCommand ==
  Inv /\ [Next]_vars => (CommandIsNext /\ AtMostOneLateWork /\ WorksOnlyRunning)'
<1> DEFINE goal == (CommandIsNext /\ AtMostOneLateWork /\ WorksOnlyRunning)'
<1> SUFFICES ASSUME Inv, [Next]_vars PROVE goal
  OBVIOUS
<1> USE DEF Inv, CommandIsNext, AtMostOneLateWork, WorksOnlyRunning, Parks, Ended,
            TypeOK, Commands, InternalState
<1>1. CASE Poll
  <2>1. ASSUME NEW c \in InternalState PROVE Head(<<c>>) = c /\ Tail(<<c>>) = <<>>
    OBVIOUS
  <2> QED BY <1>1, <2>1 DEF Poll, ownerVars
<1>2. CASE BeginWork BY <1>2 DEF BeginWork, ownerVars
<1>3. CASE EndWork
  BY <1>3 DEF EndWork, Continue, StopItself, Transition, WorkPanics, ownerVars
<1>4. CASE Sleep BY <1>4 DEF Sleep, ownerVars
<1>5. CASE Cleanup BY <1>5 DEF Cleanup, ownerVars
<1>6. ASSUME NEW c \in Commands, Send(c) PROVE goal
  BY <1>6 DEF Send, runnerVars
<1>7. CASE SendOk BY <1>7 DEF SendOk, runnerVars
<1>8. CASE SendErr BY <1>8 DEF SendErr, runnerVars
<1>9. CASE BeginJoin BY <1>9 DEF BeginJoin, runnerVars
<1>10. CASE EndJoin BY <1>10 DEF EndJoin, runnerVars
<1>11. CASE JoinAgain BY <1>11 DEF JoinAgain, runnerVars
<1>12. CASE UNCHANGED vars BY <1>12 DEF vars, ownerVars, runnerVars
<1> QED BY <1>1, <1>2, <1>3, <1>4, <1>5, <1>6, <1>7, <1>8, <1>9, <1>10, <1>11,
           <1>12 DEF Next, Runner, Owner

LEMMA StepKeepsObject ==
  Inv /\ [Next]_vars => (CleanedUpOnce /\ JoinReturnsLastObject /\ JoiningHasHandle)'
<1> DEFINE goal == (CleanedUpOnce /\ JoinReturnsLastObject /\ JoiningHasHandle)'
<1> SUFFICES ASSUME Inv, [Next]_vars PROVE goal
  OBVIOUS
<1> USE DEF Inv, CleanedUpOnce, JoinReturnsLastObject, JoiningHasHandle
<1>1. CASE Poll BY <1>1 DEF Poll, ownerVars
<1>2. CASE BeginWork BY <1>2 DEF BeginWork, ownerVars
<1>3. CASE EndWork
  BY <1>3 DEF EndWork, Continue, StopItself, Transition, WorkPanics, ownerVars
<1>4. CASE Sleep BY <1>4 DEF Sleep, ownerVars
<1>5. CASE Cleanup BY <1>5 DEF Cleanup, ownerVars
<1>6. ASSUME NEW c \in Commands, Send(c) PROVE goal
  BY <1>6 DEF Send, runnerVars
<1>7. CASE SendOk BY <1>7 DEF SendOk, runnerVars
<1>8. CASE SendErr BY <1>8 DEF SendErr, runnerVars
<1>9. CASE BeginJoin BY <1>9 DEF BeginJoin, runnerVars
<1>10. CASE EndJoin BY <1>10 DEF EndJoin, runnerVars
<1>11. CASE JoinAgain BY <1>11 DEF JoinAgain, runnerVars
<1>12. CASE UNCHANGED vars BY <1>12 DEF vars, ownerVars, runnerVars
<1> QED BY <1>1, <1>2, <1>3, <1>4, <1>5, <1>6, <1>7, <1>8, <1>9, <1>10, <1>11,
           <1>12 DEF Next, Runner, Owner

(* The safety of a state machine: its commands are obeyed after at most    *)
(* one call of work, it cleans up last and once, and hands over the object *)
(* it had last.                                                            *)
THEOREM StateMachineSafety == Spec => []Inv
<1>1. Inv /\ [Next]_vars => Inv'
  BY StepKeepsType, StepKeepsCommand, StepKeepsObject DEF Inv
<1> QED BY <1>1, InitHasInv, PTL DEF Spec

(* Once pause or stop has returned Ok, work is called at most once more.   *)
THEOREM CommandsAreObeyed == Spec => []AtMostOneLateWork
BY StateMachineSafety, PTL DEF Inv

(* At most one command is in the channel, and the runner is at a place of  *)
(* its loop.                                                               *)
THEOREM MachineTypes == Spec => []TypeOK
BY StateMachineSafety, PTL DEF Inv

(* Only one state object is cleaned up, the last one, and nothing works on *)
(* it or on another afterwards.                                            *)
THEOREM LastObjectIsCleanedUp == Spec => []CleanedUpOnce
BY StateMachineSafety, PTL DEF Inv

(* What join returns is the state object that the runner had last.         *)
THEOREM LastObjectIsHandedOver == Spec => []JoinReturnsLastObject
BY StateMachineSafety, PTL DEF Inv

-----------------------------------------------------------------------------
(* What the owner sees of a machine is the state of its thread, and the    *)
(* command that it has not taken yet.                                      *)
Told == [Running |-> "start", Paused |-> "pause", Stopped |-> "stop"]
Doing == [Initialized |-> "waiting", Running |-> "running",
          Paused |-> "paused", Stopped |-> "stopping"]

machine == IF runner = "panicked" THEN "panicked"
           ELSE IF runner = "returned" THEN "ended"
           ELSE Doing[internal]
mailbox == IF channel = <<>> THEN <<>> ELSE <<Told[Head(channel)]>>
lifecycleVars == <<machine, mailbox>>

Life == INSTANCE Lifecycle

(* The runner polls no more once it has taken a stop, and its channel has  *)
(* gone when it has ended.                                                 *)
Leaving ==
  /\ internal = "Stopped" => runner \in {"act", "returned", "panicked"}
  /\ Ended => channel = <<>>

LEMMA StepKeepsLeaving == Inv /\ Leaving /\ [Next]_vars => Leaving'
<1> SUFFICES ASSUME Inv, Leaving, [Next]_vars PROVE Leaving'
  OBVIOUS
<1> USE DEF Inv, Leaving, Ended, WorksOnlyRunning, TypeOK, ownerVars, runnerVars
<1>1. CASE Runner
  BY <1>1 DEF Runner, Poll, BeginWork, EndWork, Continue, StopItself, Transition, WorkPanics,
              Sleep, Cleanup
<1>2. CASE Owner
  BY <1>2 DEF Owner, Send, SendOk, SendErr, BeginJoin, EndJoin, JoinAgain
<1>3. CASE UNCHANGED vars BY <1>3 DEF vars
<1> QED BY <1>1, <1>2, <1>3 DEF Next

LEMMA NextCommand ==
  ASSUME TypeOK, channel # <<>>
  PROVE  /\ Head(channel) \in Commands /\ channel = <<Head(channel)>> /\ Tail(channel) = <<>>
         /\ mailbox = <<Told[Head(channel)]>>
<1>1. PICK c \in Commands : channel = <<c>>
  BY DEF TypeOK
<1>2. Head(<<c>>) = c /\ Tail(<<c>>) = <<>>
  OBVIOUS
<1> QED BY <1>1, <1>2 DEF mailbox

LEMMA StepIsOfLife ==
  ASSUME Inv, Leaving, [Next]_vars
  PROVE  [Life!Next]_lifecycleVars
<1> USE DEF lifecycleVars
<1>1. ASSUME UNCHANGED <<runner, internal, channel>> PROVE UNCHANGED lifecycleVars
  BY <1>1 DEF machine, mailbox
<1>2. CASE Poll
  <2>1. CASE channel = <<>>
    BY <1>2, <2>1 DEF Poll, machine, mailbox
  <2>2. CASE channel # <<>>
    <3> DEFINE c == Head(channel)
    <3>1. /\ c \in Commands /\ channel' = <<>> /\ internal' = c /\ mailbox = <<Told[c]>>
      BY <1>2, <2>2, NextCommand DEF Poll, Inv
    <3> HIDE DEF c
    <3>2. runner = "poll" /\ runner' = "act" /\ mailbox' = <<>>
      BY <1>2, <3>1 DEF Poll, mailbox
    <3>3. machine = Doing[internal] /\ machine' = Doing[c]
      BY <3>1, <3>2 DEF machine
    <3>4. internal \in InternalState /\ internal # "Stopped"
      BY <3>2 DEF Inv, TypeOK, Leaving
    <3>5. machine \in Life!Alive \ {"stopping"}
      BY <3>3, <3>4 DEF Life!Alive, Doing, InternalState, Commands
    <3>6. Doing[c] = Life!Obeying[Told[c]]
      BY <3>1 DEF Commands, Doing, Told, Life!Obeying
    <3>7. mailbox # <<>> /\ Head(mailbox) = Told[c]
      BY <3>1
    <3>8. Life!Take
      BY <3>2, <3>3, <3>5, <3>6, <3>7 DEF Life!Take
    <3> QED BY <3>8 DEF Life!Next
  <2> QED BY <2>1, <2>2
<1>3. CASE BeginWork \/ Continue \/ Transition \/ Sleep
  BY <1>3 DEF BeginWork, Continue, Transition, Sleep, machine, mailbox
<1>4. CASE StopItself
  <2>1. machine = "running" /\ machine' = "ended" /\ mailbox' = <<>>
    BY <1>4 DEF StopItself, machine, mailbox, Doing, Inv, WorksOnlyRunning
  <2> QED BY <2>1 DEF Life!End, Life!Next
<1>5. CASE WorkPanics
  <2>1. machine = "running" /\ machine' = "panicked" /\ mailbox' = <<>>
    BY <1>5 DEF WorkPanics, machine, mailbox, Doing, Inv, WorksOnlyRunning
  <2> QED BY <2>1 DEF Life!Panic, Life!Next
<1>6. CASE Cleanup
  <2>1. machine = "stopping" /\ machine' = "ended" /\ mailbox' = <<>>
    BY <1>6 DEF Cleanup, machine, mailbox, Doing
  <2> QED BY <2>1 DEF Life!End, Life!Next
<1>7. CASE SendOk
  <2>1. /\ ~ Ended /\ channel = <<>> /\ channel' = <<command>> /\ command \in Commands
        /\ UNCHANGED <<runner, internal>>
    BY <1>7 DEF SendOk, runnerVars, Inv, TypeOK
  <2>2. machine' = machine /\ mailbox = <<>> /\ mailbox' = <<Told[command]>>
    BY <2>1 DEF machine, mailbox
  <2>3. machine \in Life!Alive
    BY <2>1 DEF machine, Ended, Doing, Life!Alive, Inv, TypeOK, InternalState, Commands
  <2>4. Told[command] \in DOMAIN Life!Obeying
    BY <2>1 DEF Commands, Told, Life!Obeying
  <2> QED BY <2>2, <2>3, <2>4 DEF Life!Send, Life!Next
<1>8. CASE SendErr \/ BeginJoin \/ EndJoin \/ JoinAgain \/ \E c \in Commands : Send(c)
  BY <1>1, <1>8 DEF SendErr, BeginJoin, EndJoin, JoinAgain, Send, runnerVars
<1>9. CASE UNCHANGED vars
  BY <1>1, <1>9 DEF vars, runnerVars
<1> QED BY <1>2, <1>3, <1>4, <1>5, <1>6, <1>7, <1>8, <1>9
    DEF Next, Runner, EndWork, Owner

(* Runner, owner and channel together are the machine that Lifecycle       *)
(* promises, whatever the work does and whenever the owner sends.          *)
THEOREM MachineImplementsLifecycle == Spec => Life!Spec
<1>1. Init => Leaving /\ Life!Init
  BY DEF Init, Leaving, Ended, Life!Init, machine, mailbox, Doing
<1>2. Inv /\ Leaving /\ [Next]_vars => [Life!Next]_lifecycleVars /\ Leaving'
  BY StepIsOfLife, StepKeepsLeaving
<1> QED BY <1>1, <1>2, StateMachineSafety, PTL DEF Spec, Life!Spec, lifecycleVars
=============================================================================
