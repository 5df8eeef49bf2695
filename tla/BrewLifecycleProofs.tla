------------------------- MODULE BrewLifecycleProofs -------------------------
(***************************************************************************)
(* Proofs about BrewLifecycle for any number of brews, links and pending   *)
(* notifications, and for any set of process codes.                        *)
(*                                                                         *)
(* NothingBefore(b) carries the argument: notifications are taken in the   *)
(* order in which the machine sent them, so once a frame of brew b has     *)
(* been fed, or the ACK of b has been taken, no earlier brew is heard of   *)
(* again.  LifecycleInv says which brews the latches, the stage and the    *)
(* history speak of, and that NothingBefore holds of them.                 *)
(***************************************************************************)
EXTENDS BrewLifecycle, TLAPS

USE BoundsAssumption, NoneAssumption, ProcessesAssumption
----------------------------------------------------------------------------
(* The inbox.                                                               *)

(* The head of the inbox is a notification, and the tail is the rest.       *)
LEMMA HeadAndTail ==
  ASSUME inbox \in Seq(Notifications), inbox # <<>>
  PROVE  /\ 1 \in DOMAIN inbox /\ Head(inbox) = inbox[1]
         /\ Head(inbox) \in Notifications
         /\ Tail(inbox) \in Seq(Notifications)
         /\ \A i \in DOMAIN Tail(inbox) :
              i + 1 \in DOMAIN inbox /\ i \in Nat \ {0} /\ Tail(inbox)[i] = inbox[i + 1]
<1>1. Len(inbox) \in Nat \ {0} /\ DOMAIN inbox = 1..Len(inbox)
  OBVIOUS
<1> QED
  BY <1>1

(* The entries of an inbox to which a notification is appended.             *)
LEMMA Appended ==
  ASSUME inbox \in Seq(Notifications), NEW n \in Notifications
  PROVE  /\ Append(inbox, n) \in Seq(Notifications)
         /\ \A i \in DOMAIN Append(inbox, n) :
              \/ i \in DOMAIN inbox /\ Append(inbox, n)[i] = inbox[i]
              \/ i = Len(inbox) + 1 /\ Append(inbox, n)[i] = n
<1>1. Len(inbox) \in Nat /\ DOMAIN inbox = 1..Len(inbox)
  OBVIOUS
<1> QED
  BY <1>1

(* How a step may change the inbox and the machine's count.                 *)
Quiet == inbox' = inbox \/ inbox' = <<>>

Taking == inbox # <<>> /\ inbox' = Tail(inbox)

Sending(n) == n.brew = brew' /\ inbox' = Append(inbox, n)

InboxStep == Quiet \/ Taking \/ \E n \in Notifications : Sending(n)

(* Whatever is behind us stays behind us.                                   *)
LEMMA StaysBehind ==
  ASSUME TypeOK, InboxStep, brew' >= brew, brew' \in Int,
         NEW b \in Int, NothingBefore(b)
  PROVE  NothingBefore(b)'
<1>1. b <= brew' /\ brew \in Int
  BY DEF NothingBefore, TypeOK
<1>2. CASE Quiet
  BY <1>1, <1>2 DEF Quiet, NothingBefore
<1>3. CASE Taking
  BY <1>1, <1>3, HeadAndTail DEF Taking, NothingBefore, TypeOK
<1>4. CASE \E n \in Notifications : Sending(n)
  <2>1. PICK n \in Notifications : Sending(n)
    BY <1>4
  <2>2. \A i \in DOMAIN inbox' :
          \/ i \in DOMAIN inbox /\ inbox'[i] = inbox[i]
          \/ inbox'[i] = n
    BY <2>1, Appended DEF Sending, TypeOK
  <2> QED
    BY <1>1, <2>1, <2>2 DEF NothingBefore, Sending
<1> QED
  BY <1>2, <1>3, <1>4 DEF InboxStep

(* What is at the head has nothing before it.                               *)
LEMMA HeadIsFirst ==
  ASSUME TypeOK, InboxInv, inbox # <<>>
  PROVE  Head(inbox).brew \in 0..Brews /\ NothingBefore(Head(inbox).brew)
<1>1. /\ 1 \in DOMAIN inbox /\ Head(inbox) = inbox[1]
      /\ Head(inbox) \in Notifications
  BY HeadAndTail DEF TypeOK
<1>2. DOMAIN inbox = 1..Len(inbox)
  BY DEF TypeOK
<1>3. \A i \in DOMAIN inbox : i = 1 \/ 1 < i
  BY <1>2
<1>4. Head(inbox).brew <= Head(inbox).brew /\ Head(inbox).brew \in 0..Brews
  BY <1>1 DEF Notifications
<1> QED
  BY <1>1, <1>3, <1>4 DEF InboxInv, Truthful, InOrder, NothingBefore
----------------------------------------------------------------------------
(* A frame before the process edges: the latch may have expired, and the    *)
(* cancels are latched.                                                     *)

LEMMA BeforeFrame ==
  ASSUME TypeOK, NEW frame \in Notifications
  PROVE  LET d == Before(frame) IN
         /\ d \in Detectors /\ d.prev = detector.prev
         /\ d.brewing =>
              /\ detector.brewing /\ d.of = detector.of /\ d.link = detector.link
              /\ d.intent = detector.intent
              /\ d.machineCancelled => detector.machineCancelled \/ frame.bit
              /\ d.haCancelled => detector.haCancelled \/ haCancel
         /\ ~ d.brewing =>
              /\ ~ d.old /\ d.intent = None /\ d.of = None
              /\ ~ d.haCancelled /\ ~ d.machineCancelled
<1> DEFINE e == Expire(detector)
           d == Before(frame)
<1>1. /\ e \in Detectors /\ e.prev = detector.prev
      /\ e = detector \/ ~ e.brewing
      /\ ~ e.brewing => /\ ~ e.old /\ e.intent = None /\ e.of = None
                        /\ ~ e.haCancelled /\ ~ e.machineCancelled
  <2>1. CASE detector.brewing /\ detector.old
    BY <2>1 DEF Expire, Unlatched, Detectors, TypeOK
  <2>2. CASE ~ (detector.brewing /\ detector.old)
    BY <2>2 DEF Expire, TypeOK
  <2> QED
    BY <2>1, <2>2
<1> HIDE DEF e
<1>2. /\ frame.bit \in BOOLEAN /\ haCancel \in BOOLEAN
      /\ e.brewing \in BOOLEAN
      /\ e.haCancelled \in BOOLEAN /\ e.machineCancelled \in BOOLEAN
  BY <1>1 DEF Notifications, TypeOK, Detectors
<1>3. /\ d.prev = e.prev /\ d.brewing = e.brewing /\ d.old = e.old
      /\ d.intent = e.intent /\ d.of = e.of /\ d.link = e.link
      /\ d.machineCancelled = (e.machineCancelled \/ (e.brewing /\ frame.bit))
      /\ d.haCancelled = (e.haCancelled \/ (e.brewing /\ haCancel))
      /\ d \in Detectors
  BY <1>1, <1>2 DEF Before, Latch, e, Detectors
<1> HIDE DEF d
<1>4. \/ e = detector
      \/ ~ e.brewing
  BY <1>1
<1> QED
  BY <1>1, <1>2, <1>3, <1>4 DEF d

(* The three things a frame may do to the detector.                         *)
LEMMA FeedCases ==
  ASSUME TypeOK, Feeds
  PROVE  LET frame == Head(inbox)
             d     == Before(frame)
         IN /\ frame \in Notifications /\ d \in Detectors
            /\ \/ /\ StartsBrew(d, frame) /\ detector' = Started(d, frame)
                  /\ stage' = None /\ ended' = None
                  /\ started' = [started EXCEPT ![frame.brew] = @ + 1]
                  /\ credited' = IF Taken # None
                       THEN [credited EXCEPT ![Taken.of] = @ \cup {frame.brew}]
                       ELSE credited
               \/ /\ EndsBrew(d, frame)
                  /\ detector' = Unlatched(frame.process)
                  /\ ended' = Terminal(d, frame)
                  /\ UNCHANGED <<stage, started, credited>>
               \/ /\ ~ StartsBrew(d, frame) /\ ~ EndsBrew(d, frame)
                  /\ detector' = IF Known(frame)
                       THEN [d EXCEPT !.prev = frame.process] ELSE d
                  /\ ended' = None
                  /\ UNCHANGED <<stage, started, credited>>
<1>1. Head(inbox) \in Notifications
  BY HeadAndTail DEF Feeds, TypeOK
<1>2. Before(Head(inbox)) \in Detectors
  BY <1>1, BeforeFrame
<1>3. ~ (StartsBrew(Before(Head(inbox)), Head(inbox)) /\ EndsBrew(Before(Head(inbox)), Head(inbox)))
  BY DEF StartsBrew, EndsBrew
<1> DEFINE frame == Head(inbox)
           d == Before(frame)
<1>4. CASE StartsBrew(d, frame)
  <2>1. /\ detector' = Started(d, frame) /\ ended' = None
        /\ started' = [started EXCEPT ![frame.brew] = @ + 1]
        /\ credited' = IF Taken # None
             THEN [credited EXCEPT ![Taken.of] = @ \cup {frame.brew}]
             ELSE credited
    BY <1>3, <1>4 DEF Feeds
  <2>2. stage' = None
    BY <1>4 DEF Feeds, Consumed
  <2> QED
    BY <1>1, <1>2, <1>4, <2>1, <2>2
<1>5. CASE EndsBrew(d, frame)
  BY <1>1, <1>2, <1>3, <1>5 DEF Feeds, Consumed
<1>6. CASE ~ StartsBrew(d, frame) /\ ~ EndsBrew(d, frame)
  BY <1>1, <1>2, <1>6 DEF Feeds, Consumed
<1> QED
  BY <1>4, <1>5, <1>6
----------------------------------------------------------------------------
(* Shapes of the steps, and types.                                          *)

(* The machine only ever counts up, and the inbox changes in one of four    *)
(* ways.                                                                    *)
LEMMA StepShape ==
  ASSUME TypeOK, [Next]_vars
  PROVE  InboxStep /\ brew' \in {brew, brew + 1} /\ brew' \in 0..Brews
<1> USE DEF InboxStep, Quiet, Taking, Sending
<1>0. /\ brew \in 0..Brews /\ inbox \in Seq(Notifications)
      /\ "unmapped" \in AllProcesses /\ Shown \subseteq Processes
  BY DEF TypeOK, AllProcesses, Shown
<1>1. CASE Samples
  <2>1. PICK process \in Shown, bit \in BOOLEAN :
          inbox' = Append(inbox, [process |-> process, bit |-> bit, brew |-> brew])
    BY <1>1 DEF Samples
  <2>2. [process |-> process, bit |-> bit, brew |-> brew] \in Notifications
    BY <1>0 DEF Notifications
  <2>3. brew' = brew
    BY <1>1 DEF Samples, machineVars
  <2> QED
    BY <1>0, <2>1, <2>2, <2>3
<1>2. CASE PanelBrews
  BY <1>0, <1>2 DEF PanelBrews, StartsBrewing
<1>3. CASE BrewEnds \/ PanelCancels
  BY <1>0, <1>3 DEF BrewEnds, PanelCancels, Cancels
<1>4. CASE MachineObeys
  <2>1. brew' \in {brew, brew + 1} /\ brew' \in 0..Brews
    BY <1>0, <1>4 DEF MachineObeys, StartsBrewing, Cancels
  <2>2. Ack(brew') \in Notifications /\ Ack(brew').brew = brew'
    BY <2>1 DEF Ack, Notifications
  <2> QED
    BY <1>4, <2>1, <2>2 DEF MachineObeys
<1>5. CASE (\E op \in {"brew", "cancel"} : Calls(op)) \/ Fails
  BY <1>0, <1>5 DEF Calls, Fails, machineVars
<1>6. CASE AckArrives
  BY <1>0, <1>6 DEF AckArrives, machineVars
<1>7. CASE BrewReturns \/ CancelReturns
  BY <1>0, <1>7 DEF BrewReturns, CancelReturns, machineVars
<1>8. CASE Feeds
  BY <1>0, <1>8 DEF Feeds, machineVars
<1>9. CASE IntentAges \/ LatchAges \/ LinkDrops \/ LinkComesUp \/ UNCHANGED vars
  BY <1>0, <1>9 DEF IntentAges, LatchAges, LinkDrops, LinkComesUp, machineVars, vars
<1> QED
  BY <1>1, <1>2, <1>3, <1>4, <1>5, <1>6, <1>7, <1>8, <1>9 DEF Next

LEMMA InboxTyped ==
  ASSUME TypeOK, InboxStep
  PROVE  inbox' \in Seq(Notifications)
<1>1. CASE Quiet
  <2>1. inbox \in Seq(Notifications) /\ <<>> \in Seq(Notifications)
    BY DEF TypeOK
  <2> QED
    BY <1>1, <2>1 DEF Quiet
<1>2. CASE Taking
  BY <1>2, HeadAndTail DEF Taking, TypeOK
<1>3. CASE \E n \in Notifications : Sending(n)
  BY <1>3, Appended DEF Sending, TypeOK
<1> QED
  BY <1>1, <1>2, <1>3 DEF InboxStep

LEMMA FeedsTyped ==
  ASSUME TypeOK, LifecycleInv, Feeds
  PROVE  TypeOK'
<1> DEFINE frame == Head(inbox)
           d == Before(frame)
<1>1. /\ frame \in Notifications /\ d \in Detectors
      /\ frame.brew \in 0..Brews /\ frame.bit \in BOOLEAN
      /\ frame.process \in Processes
  <2>1. frame \in Notifications /\ d \in Detectors
    BY FeedCases
  <2>2. ~ IsAck(frame)
    BY DEF Feeds
  <2> QED
    BY <2>1, <2>2 DEF IsAck, Notifications
<1>2. frame.process = "PRODUCT" => frame.brew \in 1..Brews
  <2>1. inbox # <<>>
    BY DEF Feeds
  <2>2. 1 \in DOMAIN inbox /\ frame = inbox[1]
    BY <2>1, HeadAndTail DEF TypeOK
  <2> QED
    BY <1>1, <2>2 DEF LifecycleInv, InboxInv, Truthful
<1>3. /\ d.prev = detector.prev
      /\ d.brewing => detector.brewing /\ d.of = detector.of
      /\ ~ d.brewing => /\ ~ d.old /\ d.intent = None /\ d.of = None
                        /\ ~ d.haCancelled /\ ~ d.machineCancelled
  BY <1>1, BeforeFrame
<1>4. /\ UNCHANGED <<link, links, brew, running, cancelled, late>>
      /\ haCancel' = FALSE /\ last' = frame.process
      /\ inbox' \in Seq(Notifications)
      /\ command' \in {None} \cup Commands
  <2>1. inbox' \in Seq(Notifications)
    BY InboxTyped DEF Feeds, InboxStep, Taking
  <2>2. command' \in {None} \cup Commands
    BY DEF Feeds, Commands, TypeOK
  <2> QED
    BY <2>1, <2>2 DEF Feeds, machineVars, FlagLeft
<1>5. Taken \in {None} \cup Intents /\ links \in 0..Links
  BY DEF Taken, TypeOK
<1>6. /\ started \in [1..Brews -> Nat]
      /\ credited \in [1..Brews -> SUBSET (1..Brews)]
      /\ stage \in {None} \cup Intents
  BY DEF TypeOK
<1>7. \/ /\ StartsBrew(d, frame) /\ detector' = Started(d, frame)
         /\ stage' = None /\ ended' = None
         /\ started' = [started EXCEPT ![frame.brew] = @ + 1]
         /\ credited' = IF Taken # None
              THEN [credited EXCEPT ![Taken.of] = @ \cup {frame.brew}]
              ELSE credited
      \/ /\ EndsBrew(d, frame) /\ detector' = Unlatched(frame.process)
         /\ ended' = Terminal(d, frame)
         /\ UNCHANGED <<stage, started, credited>>
      \/ /\ ~ StartsBrew(d, frame) /\ ~ EndsBrew(d, frame)
         /\ detector' = IF Known(frame)
              THEN [d EXCEPT !.prev = frame.process] ELSE d
         /\ ended' = None
         /\ UNCHANGED <<stage, started, credited>>
  BY FeedCases
<1>8. d.brewing => d.prev = "PRODUCT" /\ d.of \in 1..Brews
  BY <1>1, <1>3 DEF TypeOK, Detectors
<1> HIDE DEF frame, d
<1>9. CASE StartsBrew(d, frame)
  <2>1. frame.brew \in 1..Brews
    BY <1>2, <1>9 DEF StartsBrew
  <2>2. /\ detector' = Started(d, frame)
        /\ started' = [started EXCEPT ![frame.brew] = @ + 1]
        /\ credited' = IF Taken # None
              THEN [credited EXCEPT ![Taken.of] = @ \cup {frame.brew}]
              ELSE credited
        /\ stage' = None /\ ended' = None
    BY <1>7, <1>9 DEF StartsBrew, EndsBrew
  <2>3. /\ detector' \in Detectors
        /\ detector'.brewing => detector'.prev = "PRODUCT" /\ detector'.of # None
        /\ detector'.brewing
    BY <1>5, <2>1, <2>2 DEF Started, Detectors
  <2>4. started' \in [1..Brews -> Nat]
    BY <1>6, <2>1, <2>2
  <2>5. credited' \in [1..Brews -> SUBSET (1..Brews)]
    BY <1>5, <1>6, <2>1, <2>2 DEF Intents
  <2> QED
    BY <1>1, <1>4, <2>2, <2>3, <2>4, <2>5 DEF TypeOK
<1>10. CASE EndsBrew(d, frame)
  <2>1. /\ detector' = Unlatched(frame.process) /\ ended' = Terminal(d, frame)
        /\ UNCHANGED <<stage, started, credited>>
    BY <1>7, <1>10 DEF StartsBrew, EndsBrew
  <2>2. d.of \in 1..Brews /\ d.link \in 0..Links /\ d.intent \in {None} \cup Intents
    BY <1>1, <1>8, <1>10 DEF EndsBrew, Detectors
  <2>3. CancelSource(d, frame) \in Causes \cup {None}
    BY DEF CancelSource, Causes
  <2>4. ended' \in Terminals
    BY <1>1, <1>5, <2>1, <2>2, <2>3 DEF Terminal, Terminals, Intents
  <2>5. detector' \in Detectors /\ ~ detector'.brewing
        /\ ~ detector'.old /\ detector'.intent = None /\ detector'.of = None
        /\ ~ detector'.haCancelled /\ ~ detector'.machineCancelled
    BY <1>1, <2>1 DEF Unlatched, Detectors
  <2> QED
    BY <1>1, <1>4, <1>6, <2>1, <2>4, <2>5 DEF TypeOK
<1>11. CASE ~ StartsBrew(d, frame) /\ ~ EndsBrew(d, frame)
  <2>1. /\ detector' = IF Known(frame)
              THEN [d EXCEPT !.prev = frame.process] ELSE d
        /\ ended' = None /\ UNCHANGED <<stage, started, credited>>
    BY <1>7, <1>11
  <2>2. d.brewing /\ Known(frame) => frame.process = "PRODUCT"
    BY <1>8, <1>11 DEF EndsBrew, AllProcesses
  <2>3. /\ detector' \in Detectors
        /\ detector'.brewing => detector'.prev = "PRODUCT" /\ detector'.of # None
        /\ ~ detector'.brewing =>
             /\ ~ detector'.old /\ detector'.intent = None /\ detector'.of = None
             /\ ~ detector'.haCancelled /\ ~ detector'.machineCancelled
    BY <1>1, <1>3, <1>8, <2>1, <2>2 DEF Detectors
  <2> QED
    BY <1>1, <1>4, <1>6, <2>1, <2>3 DEF TypeOK
<1> QED
  BY <1>9, <1>10, <1>11

(* Types are kept, given the invariant.                                     *)
LEMMA TypesKept ==
  ASSUME TypeOK, LifecycleInv, [Next]_vars
  PROVE  TypeOK'
<1>0. inbox' \in Seq(Notifications) /\ brew' \in 0..Brews
  BY StepShape, InboxTyped
<1>1. CASE Samples
  BY <1>0, <1>1 DEF Samples, TypeOK, machineVars, clientVars, historyVars, Terminals
<1>2. CASE PanelBrews \/ BrewEnds
  BY <1>0, <1>2 DEF PanelBrews, StartsBrewing, BrewEnds, TypeOK, clientVars, historyVars
<1>3. CASE PanelCancels
  <2>1. cancelled' \in [1..Brews -> SUBSET {"ha", "machine"}] /\ running' \in BOOLEAN
    BY <1>3 DEF PanelCancels, Cancels, TypeOK
  <2> QED
    BY <1>0, <1>3, <2>1 DEF PanelCancels, TypeOK, clientVars, historyVars
<1>4. CASE MachineObeys
  <2>1. cancelled' \in [1..Brews -> SUBSET {"ha", "machine"}] /\ running' \in BOOLEAN
    <3>1. CASE StartsBrewing
      BY <3>1 DEF StartsBrewing, TypeOK
    <3>2. CASE Cancels("ha")
      BY <3>2 DEF Cancels, TypeOK
    <3> QED
      BY <1>4, <3>1, <3>2 DEF MachineObeys
  <2>2. command' \in Commands
    BY <1>0, <1>4 DEF MachineObeys, Commands, TypeOK
  <2> QED
    BY <1>0, <1>4, <2>1, <2>2 DEF MachineObeys, TypeOK, clientVars, historyVars
<1>5. ASSUME NEW op \in {"brew", "cancel"}, Calls(op) PROVE TypeOK'
  <2>1. command' \in Commands
    BY <1>5 DEF Calls, Commands, TypeOK
  <2> QED
    BY <1>0, <1>5, <2>1 DEF Calls, TypeOK, machineVars, clientVars, historyVars
<1>6. CASE Fails
  BY <1>0, <1>6 DEF Fails, TypeOK, machineVars, clientVars, historyVars
<1>7. CASE AckArrives
  <2>1. command' \in {None} \cup Commands
    BY <1>7 DEF AckArrives, AckIsAwaited, Commands, TypeOK
  <2> QED
    BY <1>0, <1>7, <2>1 DEF AckArrives, TypeOK, machineVars, clientVars, historyVars
<1>8. CASE BrewReturns
  <2>1. command.brew \in 1..Brews
    BY <1>8 DEF BrewReturns, LifecycleInv, CommandInv, TypeOK
  <2>2. stage' \in Intents /\ late' \subseteq 1..Brews
    BY <1>8, <2>1 DEF BrewReturns, Intents, TypeOK
  <2> QED
    BY <1>0, <1>8, <2>2 DEF BrewReturns, TypeOK, machineVars
<1>9. CASE CancelReturns
  <2>1. stage' \in {None} \cup Intents
    BY <1>9 DEF CancelReturns, Intents, TypeOK
  <2> QED
    BY <1>0, <1>9, <2>1 DEF CancelReturns, TypeOK, machineVars, historyVars
<1>10. CASE Feeds
  BY <1>10, FeedsTyped
<1>11. CASE IntentAges
  <2>1. stage' \in Intents
    BY <1>11 DEF IntentAges, Intents, TypeOK
  <2> QED
    BY <1>0, <1>11, <2>1 DEF IntentAges, TypeOK, machineVars, historyVars
<1>12. CASE LatchAges
  <2>1. /\ detector' \in Detectors
        /\ detector'.brewing /\ detector'.prev = "PRODUCT" /\ detector'.of # None
    BY <1>12 DEF LatchAges, Detectors, TypeOK
  <2> QED
    BY <1>0, <1>12, <2>1 DEF LatchAges, TypeOK, machineVars, clientVars, historyVars
<1>13. CASE LinkDrops
  <2>1. /\ detector' \in Detectors /\ ~ detector'.brewing
        /\ ~ detector'.old /\ detector'.intent = None /\ detector'.of = None
        /\ ~ detector'.haCancelled /\ ~ detector'.machineCancelled
    BY <1>13 DEF LinkDrops, Reset, Unlatched, Detectors
  <2>2. command' \in {None} \cup Commands
    BY <1>13 DEF LinkDrops, TypeOK
  <2> QED
    BY <1>0, <1>13, <2>1, <2>2 DEF LinkDrops, TypeOK, machineVars, historyVars
<1>14. CASE LinkComesUp
  BY <1>0, <1>14 DEF LinkComesUp, TypeOK, machineVars, clientVars, historyVars
<1>15. CASE UNCHANGED vars
  BY <1>15 DEF TypeOK, vars, machineVars, clientVars, historyVars
<1> QED
  BY <1>1, <1>2, <1>3, <1>4, <1>5, <1>6, <1>7, <1>8, <1>9, <1>10, <1>11,
     <1>12, <1>13, <1>14, <1>15 DEF Next
----------------------------------------------------------------------------
(* The parts of the invariant that speak of the machine and the inbox.      *)

(* What has happened stays so: cancels, brews that are over, and what is    *)
(* behind us.                                                               *)
LEMMA Progress ==
  ASSUME TypeOK, [Next]_vars
  PROVE  /\ brew <= brew' /\ brew \in Int /\ brew' \in Int
         /\ \A b \in 1..Brews : cancelled[b] \subseteq cancelled'[b]
         /\ running' => running \/ brew' = brew + 1
         /\ \A b \in Int : b <= brew /\ Over(b) => Over(b)'
         /\ \A b \in Int : NothingBefore(b) => NothingBefore(b)'
         /\ \A b \in 1..Brews : HaCancelledIt(b) => HaCancelledIt(b)'
<1>1. brew <= brew' /\ brew \in Int /\ brew' \in Int
  BY StepShape DEF TypeOK
<1>2. \A b \in Int : NothingBefore(b) => NothingBefore(b)'
  BY <1>1, StepShape, StaysBehind
<1>3. /\ \A b \in 1..Brews : cancelled[b] \subseteq cancelled'[b]
      /\ \/ UNCHANGED <<brew, running>>
         \/ brew' = brew /\ ~ running'
         \/ brew' = brew + 1
  <2>1. CASE Samples \/ (\E op \in {"brew", "cancel"} : Calls(op)) \/ Fails
               \/ AckArrives \/ BrewReturns \/ CancelReturns \/ Feeds \/ IntentAges
               \/ LatchAges \/ LinkDrops \/ LinkComesUp \/ UNCHANGED vars
    BY <2>1 DEF Samples, Calls, Fails, AckArrives, BrewReturns, CancelReturns,
                Feeds, IntentAges, LatchAges, LinkDrops, LinkComesUp, vars, machineVars
  <2>2. CASE StartsBrewing
    BY <2>2 DEF StartsBrewing
  <2>3. ASSUME NEW by, Cancels(by)
        PROVE  /\ \A b \in 1..Brews : cancelled[b] \subseteq cancelled'[b]
               /\ brew' = brew /\ ~ running'
    BY <2>3 DEF Cancels, TypeOK
  <2>4. CASE PanelBrews \/ PanelCancels \/ MachineObeys
    BY <2>2, <2>3, <2>4 DEF PanelBrews, PanelCancels, MachineObeys
  <2>5. CASE BrewEnds
    BY <2>5 DEF BrewEnds
  <2> QED
    BY <2>1, <2>4, <2>5 DEF Next
<1>4. \A b \in Int : b <= brew /\ Over(b) => Over(b)'
  BY <1>1, <1>3 DEF Over
<1>5. ASSUME NEW b \in 1..Brews, HaCancelledIt(b) PROVE HaCancelledIt(b)'
  <2>1. NothingBefore(b)' /\ "ha" \in cancelled'[b]
    BY <1>2, <1>3, <1>5 DEF HaCancelledIt
  <2> QED
    BY <2>1 DEF HaCancelledIt
<1> QED
  BY <1>1, <1>2, <1>3, <1>4, <1>5

(* What a frame says of its brew is true, and stays in order.               *)
LEMMA InboxKept ==
  ASSUME TypeOK, InboxInv, [Next]_vars
  PROVE  InboxInv'
<1>1. inbox \in Seq(Notifications) /\ brew \in 0..Brews /\ brew' \in 0..Brews
  BY StepShape DEF TypeOK
<1>2. ~ link' => inbox' = <<>>
  BY DEF InboxInv, Next, Samples, PanelBrews, BrewEnds, PanelCancels, MachineObeys,
         Calls, Fails, AckArrives, BrewReturns, CancelReturns, Feeds, IntentAges,
         LatchAges, LinkDrops, LinkComesUp, vars
<1>3. running' => brew' > 0
  BY <1>1, Progress DEF InboxInv
<1>4. ASSUME NEW i \in DOMAIN inbox, NEW n, n = inbox[i] PROVE Truthful(n)'
  <2>1. Truthful(n) /\ n.brew \in 0..Brews
    <3>1. n \in Notifications
      BY <1>1, <1>4
    <3> QED
      BY <1>4, <3>1 DEF InboxInv, Notifications
  <2>2. n.brew <= brew' /\ (ShowsEnd(n) => Over(n.brew)')
    BY <1>1, <2>1, Progress DEF Truthful
  <2>3. n.bit => n.brew > 0 /\ cancelled'[n.brew] # {}
    BY <1>1, <2>1, Progress DEF Truthful
  <2> QED
    BY <2>1, <2>2, <2>3 DEF Truthful, ShowsEnd, Over
<1>5. CASE /\ \A i \in DOMAIN inbox' : \E k \in DOMAIN inbox : inbox'[i] = inbox[k]
           /\ \A i, j \in DOMAIN inbox' : i < j => InOrder(inbox'[i], inbox'[j])
  <2>1. ASSUME NEW i \in DOMAIN inbox' PROVE Truthful(inbox[i])'
    <3>1. PICK n : n = inbox'[i]
      OBVIOUS
    <3>2. Truthful(n)'
      BY <1>4, <1>5, <3>1
    <3> QED
      BY <3>1, <3>2 DEF Truthful, Over, ShowsEnd
  <2> QED
    BY <1>2, <1>3, <1>5, <2>1 DEF InboxInv, InOrder, ShowsEnd
<1>6. CASE Quiet
  BY <1>5, <1>6 DEF Quiet, InboxInv
<1>7. CASE Taking
  <2>1. \A i \in DOMAIN inbox' :
          i + 1 \in DOMAIN inbox /\ i \in Nat \ {0} /\ inbox'[i] = inbox[i + 1]
    BY <1>1, <1>7, HeadAndTail DEF Taking
  <2>2. \A i, j \in DOMAIN inbox' : i < j => i + 1 < j + 1
    BY <2>1
  <2>3. \A i, j \in DOMAIN inbox' : i < j => InOrder(inbox'[i], inbox'[j])
    BY <2>1, <2>2 DEF InboxInv
  <2> QED
    BY <1>5, <2>1, <2>3
<1>8. ASSUME NEW n \in Notifications, inbox' = Append(inbox, n), n.brew = brew',
             Truthful(n)', n.process = "PRODUCT" => running'
      PROVE  InboxInv'
  <2>1. \A i \in DOMAIN inbox' :
          \/ i \in DOMAIN inbox /\ inbox'[i] = inbox[i]
          \/ i = Len(inbox) + 1 /\ inbox'[i] = n
    BY <1>1, <1>8, Appended
  <2>2. ASSUME NEW i \in DOMAIN inbox' PROVE Truthful(inbox[i])'
    <3>1. PICK m : m = inbox'[i]
      OBVIOUS
    <3>2. Truthful(m)'
      BY <1>4, <1>8, <2>1, <3>1
    <3> QED
      BY <3>1, <3>2 DEF Truthful, Over, ShowsEnd
  <2>3. ASSUME NEW i \in DOMAIN inbox, NEW m, m = inbox[i]
        PROVE  InOrder(m, n)
    <3>1. Truthful(m)'
      BY <1>4, <2>3
    <3>2. m.brew <= brew' /\ (ShowsEnd(m) => m.brew < brew' \/ ~ running')
      BY <3>1 DEF Truthful, ShowsEnd, Over
    <3>3. m.brew \in 0..Brews
      <4>1. m \in Notifications
        BY <1>1, <2>3
      <4> QED
        BY <4>1 DEF Notifications
    <3> QED
      BY <1>1, <1>8, <3>2, <3>3 DEF InOrder
  <2>4. DOMAIN inbox = 1..Len(inbox) /\ Len(inbox) \in Nat
    BY <1>1
  <2>5. \A i, j \in DOMAIN inbox' : i < j =>
          /\ i \in DOMAIN inbox /\ inbox'[i] = inbox[i]
          /\ \/ j \in DOMAIN inbox /\ inbox'[j] = inbox[j]
             \/ inbox'[j] = n
    BY <2>1, <2>4
  <2>6. \A i, j \in DOMAIN inbox' : i < j => InOrder(inbox'[i], inbox'[j])
    BY <2>3, <2>5 DEF InboxInv
  <2> QED
    BY <1>2, <1>3, <2>2, <2>6 DEF InboxInv, InOrder, ShowsEnd
<1>9. CASE Samples
  <2>1. PICK process \in Shown, bit \in BOOLEAN :
          /\ bit => brew # 0 /\ cancelled[brew] # {}
          /\ inbox' = Append(inbox, [process |-> process, bit |-> bit, brew |-> brew])
    BY <1>9 DEF Samples
  <2>2. UNCHANGED <<brew, running, cancelled>>
    BY <1>9 DEF Samples, machineVars
  <2>3. PICK n : n = [process |-> process, bit |-> bit, brew |-> brew]
    OBVIOUS
  <2>4. /\ n \in Notifications /\ n.brew = brew /\ n.process = process /\ n.bit = bit
        /\ process = "PRODUCT" => running
        /\ ShowsEnd(n) => ~ running
    BY <1>1, <2>1, <2>3 DEF Notifications, Shown, ShowsEnd
  <2>5. Truthful(n)'
    BY <1>1, <2>1, <2>2, <2>4 DEF Truthful, ShowsEnd, Over, InboxInv
  <2> QED
    BY <1>8, <2>1, <2>2, <2>3, <2>4, <2>5
<1>10. CASE MachineObeys
  <2>1. PICK n : n = Ack(brew')
    OBVIOUS
  <2>2. /\ n \in Notifications /\ n.brew = brew' /\ n.process = "ack" /\ ~ n.bit
        /\ inbox' = Append(inbox, n)
    BY <1>1, <1>10, <2>1 DEF MachineObeys, Ack, Notifications
  <2>3. Truthful(n)'
    BY <1>1, <2>2 DEF Truthful, ShowsEnd
  <2> QED
    BY <1>8, <2>2, <2>3
<1>11. CASE AckArrives \/ Feeds
  BY <1>7, <1>11 DEF AckArrives, Feeds, Taking
<1>12. CASE PanelBrews \/ BrewEnds \/ PanelCancels
            \/ (\E op \in {"brew", "cancel"} : Calls(op)) \/ Fails \/ BrewReturns
            \/ CancelReturns \/ IntentAges \/ LatchAges \/ LinkDrops \/ LinkComesUp
            \/ UNCHANGED vars
  BY <1>6, <1>12 DEF PanelBrews, BrewEnds, PanelCancels, Calls, Fails, BrewReturns,
       CancelReturns, IntentAges, LatchAges, LinkDrops, LinkComesUp, Quiet, vars
<1> QED
  BY <1>9, <1>10, <1>11, <1>12 DEF Next

(* The command: its brew has started, its intent is unused; a cancelled     *)
(* brew is the machine's last as long as the cancel is taken.               *)
LEMMA CommandKept ==
  ASSUME TypeOK, TypeOK', LifecycleInv, [Next]_vars
  PROVE  CommandInv'
<1>0. /\ CommandInv /\ InboxInv /\ StageInv /\ CreditedInv
      /\ command \in {None} \cup Commands /\ brew \in 0..Brews
      /\ credited \in [1..Brews -> SUBSET (1..Brews)]
  BY DEF LifecycleInv, TypeOK
<1>1. /\ brew <= brew' /\ brew \in Int /\ brew' \in Int
      /\ \A b \in 1..Brews : cancelled[b] \subseteq cancelled'[b]
      /\ \A b \in Int : NothingBefore(b) => NothingBefore(b)'
  BY Progress
<1>2. ASSUME UNCHANGED <<command, credited, stage>>,
             brew' = brew \/ command = None \/ command.op # "cancel" \/ command.at = "sent"
      PROVE  CommandInv'
  BY <1>0, <1>1, <1>2 DEF CommandInv, Commands
<1>3. CASE PanelBrews
  BY <1>2, <1>3 DEF PanelBrews, clientVars, historyVars
<1>4. CASE Samples \/ BrewEnds \/ PanelCancels \/ LatchAges \/ LinkComesUp \/ UNCHANGED vars
  BY <1>2, <1>4 DEF Samples, BrewEnds, PanelCancels, Cancels, LatchAges, LinkComesUp,
                    vars, machineVars, clientVars, historyVars
<1>5. CASE MachineObeys
  <2>1. /\ command' = [command EXCEPT !.at = "obeyed", !.brew = brew']
        /\ command \in Commands /\ UNCHANGED <<stage, credited>>
        /\ command.op \in {"brew", "cancel"}
    BY <1>0, <1>5 DEF MachineObeys, clientVars, historyVars, Commands
  <2>2. command'.at = "obeyed" /\ command'.brew = brew' /\ command'.op = command.op
    BY <2>1 DEF Commands
  <2>3. CASE command.op = "brew"
    <3>1. brew' = brew + 1 /\ brew' \in 1..Brews
      BY <1>0, <1>5, <2>3 DEF MachineObeys, StartsBrewing
    <3>2. credited[brew'] = {}
      BY <1>0, <3>1 DEF CreditedInv, NothingBefore
    <3>3. stage # None => stage.of < brew' /\ stage.of \in Int
      BY <1>0, <3>1 DEF StageInv, NothingBefore, TypeOK, Intents
    <3> QED
      BY <2>1, <2>2, <2>3, <3>1, <3>2, <3>3 DEF CommandInv
  <2>4. CASE command.op = "cancel"
    <3>1. brew' = brew /\ brew \in 1..Brews /\ cancelled' = [cancelled EXCEPT ![brew] = @ \cup {"ha"}]
      BY <1>0, <1>5, <2>4 DEF MachineObeys, Cancels, InboxInv
    <3>2. "ha" \in cancelled'[brew]
      BY <3>1 DEF TypeOK
    <3> QED
      BY <2>1, <2>2, <2>4, <3>1, <3>2 DEF CommandInv
  <2> QED
    BY <2>1, <2>3, <2>4
<1>6. ASSUME NEW op \in {"brew", "cancel"}, Calls(op) PROVE CommandInv'
  BY <1>6 DEF Calls, CommandInv
<1>7. CASE Fails \/ BrewReturns \/ CancelReturns
  BY <1>7 DEF Fails, BrewReturns, CancelReturns, CommandInv
<1>8. CASE AckArrives
  <2>1. /\ UNCHANGED <<brew, running, cancelled, credited, stage>>
        /\ inbox # <<>>
    BY <1>8 DEF AckArrives, machineVars, clientVars, historyVars
  <2>2. CASE AckIsAwaited
    <3>1. /\ command \in Commands /\ command' = [command EXCEPT !.at = "woken"]
          /\ command.at = "obeyed" /\ command.brew = Head(inbox).brew
      BY <1>0, <1>8, <2>2 DEF AckArrives, AckIsAwaited
    <3>2. /\ command'.at = "woken" /\ command'.brew = command.brew
          /\ command'.op = command.op
      BY <3>1 DEF Commands
    <3>3. command.brew \in 1..brew
      BY <1>0, <3>1, <2>2 DEF CommandInv, AckIsAwaited
    <3>4. NothingBefore(command.brew)
      BY <1>0, <2>1, <3>1, HeadIsFirst
    <3>5. NothingBefore(command.brew)'
      BY <1>0, <1>1, <3>2, <3>3, <3>4
    <3> QED
      BY <1>0, <2>1, <2>2, <3>1, <3>2, <3>3, <3>5 DEF CommandInv, AckIsAwaited
  <2>3. CASE ~ AckIsAwaited
    BY <1>2, <1>8, <2>1, <2>3 DEF AckArrives
  <2> QED
    BY <2>2, <2>3
<1>9. CASE Feeds
  <2>1. /\ UNCHANGED <<brew, running, cancelled>>
        /\ command' = command \/ command' = [command EXCEPT !.passed = TRUE]
        /\ command = None => command' = None
        /\ stage' \in {stage, None}
    BY <1>9 DEF Feeds, machineVars
  <2>2. command # None => /\ command'.at = command.at /\ command'.op = command.op
                          /\ command'.brew = command.brew /\ command \in Commands
    BY <1>0, <2>1 DEF Commands
  <2>3. ASSUME NEW b \in 1..Brews, credited[b] = {}, stage = None \/ stage.of # b
        PROVE  credited'[b] = {}
    <3>1. PICK f : credited' \in {credited, [credited EXCEPT ![Taken.of] = @ \cup {f}]}
      BY <1>9 DEF Feeds
    <3>2. credited' # credited => Taken # None
      BY <1>9 DEF Feeds
    <3> QED
      BY <1>0, <2>3, <3>1, <3>2 DEF Taken
  <2>4. ASSUME command # None, command.at = "woken"
        PROVE  NothingBefore(command.brew)'
    BY <1>0, <1>1, <2>2, <2>4 DEF CommandInv
  <2>5. stage # None => stage.of \in 1..Brews
    BY DEF TypeOK, Intents
  <2> QED
    BY <1>0, <2>1, <2>2, <2>3, <2>4, <2>5 DEF CommandInv
<1>10. CASE IntentAges
  <2>1. stage'.of = stage.of /\ UNCHANGED <<command, credited, brew, cancelled, inbox>> /\ stage # None
    BY <1>10 DEF IntentAges, machineVars, historyVars, TypeOK, Intents
  <2> QED
    BY <1>0, <2>1 DEF CommandInv, NothingBefore
<1>11. CASE LinkDrops
  <2>1. /\ command' \in {command, None} /\ stage' = None
        /\ UNCHANGED <<brew, cancelled, credited>>
    BY <1>11 DEF LinkDrops, machineVars, historyVars
  <2> QED
    BY <1>0, <1>1, <2>1 DEF CommandInv, Commands
<1> QED
  BY <1>3, <1>4, <1>5, <1>6, <1>7, <1>8, <1>9, <1>10, <1>11 DEF Next
----------------------------------------------------------------------------
(* The parts that speak of the stage, the latches and the history.          *)

(* The frame that is fed: what it says is so, and is behind us then.        *)
LEMMA FedFrame ==
  ASSUME TypeOK, InboxInv, Feeds, NEW f, f = Head(inbox)
  PROVE  /\ f \in Notifications /\ f.brew \in 0..brew
         /\ f.process \in Processes /\ f.bit \in BOOLEAN
         /\ NothingBefore(f.brew) /\ NothingBefore(f.brew)'
         /\ \A b \in Int : NothingBefore(b) => b <= f.brew
         /\ f.process = "PRODUCT" => f.brew > 0
         /\ f.bit => f.brew > 0 /\ cancelled[f.brew] # {}
         /\ f.process \notin {"PRODUCT", "unmapped"} => ShowsEnd(f) /\ Over(f.brew)
         /\ UNCHANGED <<link, links, brew, running, cancelled, late>>
<1>1. inbox # <<>> /\ ~ IsAck(f)
      /\ UNCHANGED <<link, links, brew, running, cancelled, late>>
  BY DEF Feeds, machineVars
<1>2. 1 \in DOMAIN inbox /\ f = inbox[1] /\ f \in Notifications
  BY <1>1, HeadAndTail DEF TypeOK
<1>3. f.process \in Processes /\ f.bit \in BOOLEAN /\ f.brew \in 0..Brews
  BY <1>1, <1>2 DEF Notifications, IsAck
<1>4. brew \in 0..Brews /\ f.brew \in 0..brew
  BY <1>2, <1>3 DEF InboxInv, Truthful, TypeOK
<1>5. NothingBefore(f.brew)
  BY <1>1, HeadIsFirst
<1>6. NothingBefore(f.brew)'
  BY <1>3, <1>5, Progress DEF Next
<1>7. \A b \in Int : NothingBefore(b) => b <= f.brew
  BY <1>2 DEF NothingBefore
<1>8. f.process \notin {"PRODUCT", "unmapped"} => ShowsEnd(f)
  BY <1>1 DEF ShowsEnd, IsAck
<1> QED
  BY <1>1, <1>2, <1>3, <1>4, <1>5, <1>6, <1>7, <1>8 DEF InboxInv, Truthful

(* The stage: an unused intent, and a cancel of the last brew.              *)
LEMMA StageKept ==
  ASSUME TypeOK, TypeOK', LifecycleInv, [Next]_vars
  PROVE  StageInv'
<1>0. /\ StageInv /\ CommandInv /\ InboxInv /\ DetectorInv
      /\ command \in {None} \cup Commands /\ brew \in 0..Brews /\ brew' \in 0..Brews
      /\ stage # None => stage.of \in 1..Brews /\ stage.haCancelled \in BOOLEAN
      /\ haCancel \in BOOLEAN
      /\ detector.brewing => detector.of \in 1..Brews
  BY DEF LifecycleInv, TypeOK, Intents, Detectors
<1>1. /\ brew <= brew'
      /\ \A b \in Int : NothingBefore(b) => NothingBefore(b)'
      /\ \A b \in 1..Brews : HaCancelledIt(b) => HaCancelledIt(b)'
  BY Progress
<1>2. ASSUME stage' # None, stage # None, stage'.of = stage.of,
             stage'.haCancelled = stage.haCancelled, UNCHANGED <<started, credited, late>>
      PROVE  /\ NothingBefore(stage.of)' /\ credited'[stage'.of] = {}
             /\ started'[stage'.of] = 0 \/ stage'.of \in late'
             /\ stage'.haCancelled => \E b \in stage'.of..brew' : HaCancelledIt(b)'
  <2>1. NothingBefore(stage.of)'
    BY <1>0, <1>1, <1>2 DEF StageInv
  <2>2. credited'[stage'.of] = {} /\ (started'[stage'.of] = 0 \/ stage'.of \in late')
    BY <1>0, <1>2 DEF StageInv
  <2>3. ASSUME stage'.haCancelled PROVE \E b \in stage'.of..brew' : HaCancelledIt(b)'
    <3>1. PICK b \in stage.of..brew : HaCancelledIt(b)
      BY <1>0, <1>2, <2>3 DEF StageInv
    <3>2. b \in 1..Brews /\ b \in stage'.of..brew'
      BY <1>0, <1>1, <1>2, <3>1
    <3> QED
      BY <1>1, <3>1, <3>2
  <2> QED
    BY <2>1, <2>2, <2>3
<1>3. ASSUME haCancel' = haCancel, detector'.brewing = detector.brewing \/ ~ detector'.brewing,
             detector'.of = detector.of \/ ~ detector'.brewing
      PROVE  haCancel' => \E b \in 1..brew' : /\ HaCancelledIt(b)'
                                              /\ detector'.brewing => detector'.of <= b
  <2> SUFFICES ASSUME haCancel
               PROVE  \E b \in 1..brew' : /\ HaCancelledIt(b)'
                                          /\ detector'.brewing => detector'.of <= b
    BY <1>3
  <2>1. PICK b \in 1..brew : HaCancelledIt(b) /\ (detector.brewing => detector.of <= b)
    BY <1>0 DEF StageInv
  <2>2. b \in 1..Brews /\ b \in 1..brew'
    BY <1>0, <1>1, <2>1
  <2> QED
    BY <1>1, <1>3, <2>1, <2>2
<1>4. CASE UNCHANGED <<stage, haCancel, detector, started, credited, late>>
  BY <1>2, <1>3, <1>4 DEF StageInv
<1>5. CASE Samples \/ PanelBrews \/ BrewEnds \/ PanelCancels \/ MachineObeys
           \/ (\E op \in {"brew", "cancel"} : Calls(op)) \/ Fails \/ AckArrives
           \/ LinkComesUp \/ UNCHANGED vars
  BY <1>4, <1>5 DEF Samples, PanelBrews, BrewEnds, PanelCancels, MachineObeys, Calls,
       Fails, AckArrives, LinkComesUp, vars, clientVars, historyVars
<1>6. CASE BrewReturns
  <2>1. /\ command \in Commands /\ command # None /\ command.at = "woken"
        /\ command.op = "brew" /\ command.brew \in 1..Brews
        /\ stage'.of = command.brew /\ ~ stage'.haCancelled
        /\ late' = IF started[command.brew] > 0 THEN late \cup {command.brew} ELSE late
        /\ UNCHANGED <<haCancel, detector, started, credited>>
        /\ started[command.brew] \in Nat
    BY <1>0, <1>6 DEF BrewReturns, CommandInv, TypeOK
  <2>2. NothingBefore(command.brew) /\ credited[command.brew] = {}
    BY <1>0, <2>1 DEF CommandInv
  <2>3. NothingBefore(stage.of)'
    BY <1>1, <2>1, <2>2
  <2> QED
    BY <1>3, <2>1, <2>2, <2>3 DEF StageInv
<1>7. CASE CancelReturns
  <2>1. /\ command \in Commands /\ command # None /\ command.at = "woken"
        /\ command.op = "cancel" /\ command.brew = brew /\ "ha" \in cancelled[brew]
        /\ brew \in 1..Brews /\ NothingBefore(brew)
        /\ UNCHANGED <<detector, started, credited, late, brew>>
    BY <1>0, <1>7 DEF CancelReturns, CommandInv, historyVars, machineVars
  <2>2. HaCancelledIt(brew)'
    BY <1>1, <2>1 DEF HaCancelledIt
  <2>3. detector'.brewing => detector'.of <= brew
    BY <1>0, <2>1 DEF DetectorInv, NothingBefore
  <2>4. ASSUME stage' # None
        PROVE  stage # None /\ stage'.of = stage.of
    BY <1>7, <2>4 DEF CancelReturns, TypeOK, Intents
  <2>5. ASSUME stage' # None
        PROVE  /\ NothingBefore(stage.of)' /\ credited'[stage'.of] = {}
               /\ started'[stage'.of] = 0 \/ stage'.of \in late'
               /\ stage'.of \in 1..brew
    BY <1>0, <1>1, <2>1, <2>4, <2>5 DEF StageInv, NothingBefore
  <2>6. haCancel' => \E b \in 1..brew' : /\ HaCancelledIt(b)'
                                         /\ detector'.brewing => detector'.of <= b
    BY <2>1, <2>2, <2>3
  <2>7. stage' # None => \E b \in stage'.of..brew' : HaCancelledIt(b)'
    BY <2>1, <2>2, <2>5
  <2> QED
    BY <2>5, <2>6, <2>7 DEF StageInv
<1>8. CASE Feeds
  <2>1. haCancel' = FALSE /\ (stage' = stage \/ stage' = None) /\ late' = late
    BY <1>8 DEF Feeds, FlagLeft
  <2>2. stage' # None => UNCHANGED <<stage, started, credited>>
    BY <1>8, FeedCases
  <2> QED
    BY <1>2, <2>1, <2>2 DEF StageInv
<1>9. CASE IntentAges
  <2>1. stage # None /\ stage'.of = stage.of /\ stage'.haCancelled = stage.haCancelled
    BY <1>9 DEF IntentAges, TypeOK, Intents
  <2>2. UNCHANGED <<haCancel, detector, started, credited, late>>
    BY <1>9 DEF IntentAges, historyVars
  <2> QED
    BY <1>2, <1>3, <2>1, <2>2 DEF StageInv
<1>10. CASE LatchAges
  <2>1. /\ detector'.of = detector.of /\ detector'.brewing = detector.brewing
        /\ UNCHANGED <<stage, haCancel, started, credited, late>>
    BY <1>10 DEF LatchAges, clientVars, historyVars, TypeOK, Detectors
  <2> QED
    BY <1>2, <1>3, <2>1 DEF StageInv
<1>11. CASE LinkDrops
  BY <1>11 DEF LinkDrops, StageInv
<1> QED
  BY <1>5, <1>6, <1>7, <1>8, <1>9, <1>10, <1>11 DEF Next

(* The latches: what was latched for a brew is true of it, or of one that   *)
(* was not told apart from it.                                              *)
LatchHolds ==
  /\ link /\ detector.link = links
  /\ NothingBefore(detector.of)
  /\ detector.machineCancelled =>
       \E b \in detector.of..brew : cancelled[b] # {} /\ NothingBefore(b)
  /\ detector.haCancelled => \E b \in detector.of..brew : HaCancelledIt(b)
  /\ detector.intent # None /\ detector.intent.haCancelled =>
       detector.intent.of # detector.of \/ "ha" \in cancelled[detector.of]

(* A latch that is only kept, or dropped, still holds.                      *)
LEMMA LatchKept ==
  ASSUME TypeOK, TypeOK', DetectorInv, [Next]_vars, detector'.brewing,
         detector.brewing, UNCHANGED <<link, links>>,
         detector'.of = detector.of, detector'.link = detector.link,
         detector'.intent = detector.intent,
         detector'.machineCancelled = detector.machineCancelled,
         detector'.haCancelled = detector.haCancelled
  PROVE  LatchHolds'
<1>1. /\ brew <= brew' /\ brew \in Int /\ brew' \in Int
      /\ \A b \in 1..Brews : cancelled[b] \subseteq cancelled'[b]
      /\ \A b \in Int : NothingBefore(b) => NothingBefore(b)'
      /\ \A b \in 1..Brews : HaCancelledIt(b) => HaCancelledIt(b)'
  BY Progress
<1>2. detector.of \in 1..Brews /\ brew \in 0..Brews
  BY DEF TypeOK, Detectors
<1>3. link' /\ detector'.link = links' /\ NothingBefore(detector.of)'
  BY <1>1, <1>2 DEF DetectorInv
<1>4. ASSUME detector'.machineCancelled
      PROVE  \E b \in detector'.of..brew' : cancelled'[b] # {} /\ NothingBefore(b)'
  <2>1. PICK b \in detector.of..brew : cancelled[b] # {} /\ NothingBefore(b)
    BY <1>4 DEF DetectorInv
  <2>2. b \in detector'.of..brew' /\ b \in 1..Brews
    BY <1>1, <1>2, <2>1
  <2> QED
    BY <1>1, <2>1, <2>2
<1>5. ASSUME detector'.haCancelled
      PROVE  \E b \in detector'.of..brew' : HaCancelledIt(b)'
  <2>1. PICK b \in detector.of..brew : HaCancelledIt(b)
    BY <1>5 DEF DetectorInv
  <2>2. b \in detector'.of..brew' /\ b \in 1..Brews
    BY <1>1, <1>2, <2>1
  <2> QED
    BY <1>1, <2>1, <2>2
<1>6. detector'.intent # None /\ detector'.intent.haCancelled =>
        detector'.intent.of # detector'.of \/ "ha" \in cancelled'[detector'.of]
  BY <1>1, <1>2 DEF DetectorInv
<1> QED
  BY <1>3, <1>4, <1>5, <1>6 DEF LatchHolds

LEMMA DetectorKept ==
  ASSUME TypeOK, TypeOK', LifecycleInv, [Next]_vars
  PROVE  DetectorInv'
<1>0. /\ StageInv /\ InboxInv /\ DetectorInv
      /\ brew \in 0..Brews /\ detector \in Detectors
      /\ detector.brewing => link /\ detector.of \in 1..Brews
  BY DEF LifecycleInv, TypeOK, Detectors, DetectorInv
<1>1. /\ brew <= brew' /\ brew \in Int /\ brew' \in Int
      /\ \A b \in 1..Brews : cancelled[b] \subseteq cancelled'[b]
      /\ \A b \in Int : NothingBefore(b) => NothingBefore(b)'
      /\ \A b \in 1..Brews : HaCancelledIt(b) => HaCancelledIt(b)'
  BY Progress
<1>2. ASSUME detector'.prev # "unmapped", detector'.brewing => LatchHolds'
      PROVE  DetectorInv'
  BY <1>2 DEF DetectorInv, LatchHolds
<1>3. CASE UNCHANGED <<link, links, detector>>
  <2>1. detector'.prev # "unmapped"
    BY <1>0, <1>3 DEF DetectorInv
  <2>2. detector'.brewing => LatchHolds'
    BY <1>0, <1>3, LatchKept
  <2> QED
    BY <1>2, <2>1, <2>2
<1>4. CASE Samples \/ PanelBrews \/ BrewEnds \/ PanelCancels \/ MachineObeys
           \/ (\E op \in {"brew", "cancel"} : Calls(op)) \/ Fails \/ AckArrives
           \/ BrewReturns \/ CancelReturns \/ IntentAges \/ UNCHANGED vars
  BY <1>3, <1>4 DEF Samples, PanelBrews, BrewEnds, PanelCancels, MachineObeys, Calls,
       Fails, AckArrives, BrewReturns, CancelReturns, IntentAges, vars, clientVars,
       historyVars
<1>5. CASE LatchAges
  <2>1. /\ UNCHANGED <<link, links>>
        /\ detector'.prev = detector.prev /\ detector'.brewing = detector.brewing
        /\ detector'.of = detector.of /\ detector'.link = detector.link
        /\ detector'.intent = detector.intent
        /\ detector'.machineCancelled = detector.machineCancelled
        /\ detector'.haCancelled = detector.haCancelled
    BY <1>0, <1>5 DEF LatchAges, Detectors
  <2>2. detector'.brewing => LatchHolds'
    BY <1>0, <2>1, LatchKept
  <2> QED
    BY <1>0, <1>2, <2>1, <2>2 DEF DetectorInv
<1>6. CASE LinkDrops
  BY <1>2, <1>6 DEF LinkDrops, Reset, Unlatched, AllProcesses
<1>7. CASE LinkComesUp
  <2>1. ~ detector'.brewing /\ detector'.prev = detector.prev
    BY <1>0, <1>7 DEF LinkComesUp
  <2> QED
    BY <1>0, <1>2, <2>1 DEF DetectorInv
<1>8. CASE Feeds
  <2>0. PICK f : f = Head(inbox)
    OBVIOUS
  <2> DEFINE d == Before(f)
  <2>1. /\ f \in Notifications /\ f.brew \in 0..brew
        /\ NothingBefore(f.brew) /\ NothingBefore(f.brew)'
        /\ \A b \in Int : NothingBefore(b) => b <= f.brew
        /\ f.bit => f.brew > 0 /\ cancelled[f.brew] # {}
        /\ UNCHANGED <<link, links, brew, running, cancelled>>
    BY <1>0, <1>8, <2>0, FedFrame
  <2>2. /\ d \in Detectors /\ d.prev = detector.prev
        /\ d.brewing =>
             /\ detector.brewing /\ d.of = detector.of /\ d.link = detector.link
             /\ d.intent = detector.intent
             /\ d.machineCancelled => detector.machineCancelled \/ f.bit
             /\ d.haCancelled => detector.haCancelled \/ haCancel
    BY <2>1, BeforeFrame
  <2>3. \/ /\ StartsBrew(d, f) /\ detector' = Started(d, f)
        \/ /\ EndsBrew(d, f) /\ detector' = Unlatched(f.process)
        \/ detector' = IF Known(f) THEN [d EXCEPT !.prev = f.process] ELSE d
    BY <1>8, <2>0, FeedCases
  <2> HIDE DEF d
  <2>4. CASE StartsBrew(d, f) /\ detector' = Started(d, f)
    <3>1. /\ detector'.prev = "PRODUCT" /\ detector'.of = f.brew
          /\ detector'.link = links /\ detector'.intent = Taken
          /\ ~ detector'.machineCancelled /\ ~ detector'.haCancelled
      BY <2>4 DEF Started
    <3>2. ASSUME Taken # None, Taken.haCancelled, Taken.of = f.brew
          PROVE  "ha" \in cancelled[f.brew]
      <4>1. Taken = stage /\ stage # None /\ stage.of \in 1..Brews
        BY <3>2 DEF Taken, TypeOK, Intents
      <4>2. PICK b \in stage.of..brew : HaCancelledIt(b)
        BY <1>0, <3>2, <4>1 DEF StageInv
      <4>3. b <= f.brew
        BY <2>1, <4>2 DEF HaCancelledIt
      <4>4. b = f.brew
        BY <1>0, <2>1, <3>2, <4>1, <4>2, <4>3
      <4> QED
        BY <4>2, <4>4 DEF HaCancelledIt
    <3>3. link'
      BY <1>0, <1>8, <2>1 DEF InboxInv, Feeds
    <3>4. LatchHolds'
      BY <2>1, <3>1, <3>2, <3>3 DEF LatchHolds
    <3> QED
      BY <1>2, <3>1, <3>4
  <2>5. CASE EndsBrew(d, f) /\ detector' = Unlatched(f.process)
    BY <1>2, <2>5 DEF EndsBrew, Known, Unlatched
  <2>6. CASE detector' = IF Known(f) THEN [d EXCEPT !.prev = f.process] ELSE d
    <3>1. /\ detector'.brewing = d.brewing /\ detector'.of = d.of
          /\ detector'.link = d.link /\ detector'.intent = d.intent
          /\ detector'.machineCancelled = d.machineCancelled
          /\ detector'.haCancelled = d.haCancelled
          /\ detector'.prev # "unmapped"
      BY <1>0, <2>2, <2>6 DEF Known, Detectors, DetectorInv
    <3>2. ASSUME detector'.brewing PROVE LatchHolds'
      <4>1. /\ detector.brewing /\ detector.of \in 1..Brews
            /\ detector'.of = detector.of /\ detector'.link = detector.link
            /\ detector'.intent = detector.intent
        BY <1>0, <2>2, <3>1, <3>2
      <4>2. /\ link' /\ detector'.link = links' /\ NothingBefore(detector.of)'
            /\ detector.of <= f.brew
        BY <1>0, <1>1, <2>1, <4>1 DEF DetectorInv
      <4>3. ASSUME detector'.machineCancelled
            PROVE  \E b \in detector'.of..brew' : cancelled'[b] # {} /\ NothingBefore(b)'
        <5>1. CASE f.bit
          BY <1>0, <1>1, <2>1, <4>1, <4>2, <5>1
        <5>2. CASE detector.machineCancelled
          <6>1. PICK b \in detector.of..brew : cancelled[b] # {} /\ NothingBefore(b)
            BY <1>0, <4>1, <5>2 DEF DetectorInv
          <6>2. b \in detector'.of..brew' /\ b \in Int
            BY <1>0, <2>1, <4>1, <6>1
          <6> QED
            BY <1>1, <2>1, <6>1, <6>2
        <5> QED
          BY <2>2, <3>1, <3>2, <4>3, <5>1, <5>2
      <4>4. ASSUME detector'.haCancelled
            PROVE  \E b \in detector'.of..brew' : HaCancelledIt(b)'
        <5>1. \E b \in detector.of..brew : HaCancelledIt(b)
          <6>1. CASE detector.haCancelled
            BY <1>0, <4>1, <6>1 DEF DetectorInv
          <6>2. CASE haCancel
            BY <1>0, <4>1, <6>2 DEF StageInv
          <6> QED
            BY <2>2, <3>1, <3>2, <4>4, <6>1, <6>2
        <5>2. PICK b \in detector.of..brew : HaCancelledIt(b)
          BY <5>1
        <5>3. b \in detector'.of..brew' /\ b \in 1..Brews
          BY <1>0, <2>1, <4>1, <5>2
        <5> QED
          BY <1>1, <5>2, <5>3
      <4>5. detector'.intent # None /\ detector'.intent.haCancelled =>
              detector'.intent.of # detector'.of \/ "ha" \in cancelled'[detector'.of]
        BY <1>0, <2>1, <4>1 DEF DetectorInv
      <4> QED
        BY <4>1, <4>2, <4>3, <4>4, <4>5 DEF LatchHolds
    <3> QED
      BY <1>2, <3>1, <3>2
  <2> QED
    BY <2>3, <2>4, <2>5, <2>6
<1> QED
  BY <1>4, <1>5, <1>6, <1>7, <1>8 DEF Next

(* No frame that is still to come shows an edge of brew b.                  *)
NoEdge(b) ==
  Over(b) /\ \A i \in DOMAIN inbox : inbox[i].brew = b => inbox[i].process # "PRODUCT"

LEMMA NoEdgeKept ==
  ASSUME TypeOK, [Next]_vars, NEW b \in 1..Brews, b <= brew, NoEdge(b)
  PROVE  NoEdge(b)'
<1>1. Over(b)'
  BY Progress DEF NoEdge
<1>2. inbox \in Seq(Notifications)
  BY DEF TypeOK
<1>3. CASE Samples
  <2>1. PICK process \in Shown, bit \in BOOLEAN :
          inbox' = Append(inbox, [process |-> process, bit |-> bit, brew |-> brew])
    BY <1>3 DEF Samples
  <2> DEFINE n == [process |-> process, bit |-> bit, brew |-> brew]
  <2>2. n \in Notifications /\ n.brew = brew /\ n.process = process
    BY <2>1 DEF Notifications, Shown, TypeOK
  <2>3. brew = b => process # "PRODUCT"
    BY <2>1 DEF NoEdge, Over, Shown, TypeOK
  <2> HIDE DEF n
  <2>4. \A i \in DOMAIN inbox' :
          \/ i \in DOMAIN inbox /\ inbox'[i] = inbox[i]
          \/ inbox'[i] = n
    <3>1. inbox' = Append(inbox, n)
      BY <2>1 DEF n
    <3> QED
      BY <1>2, <2>2, <3>1, Appended
  <2> QED
    BY <1>1, <2>2, <2>3, <2>4 DEF NoEdge
<1>4. CASE MachineObeys
  <2>1. inbox' = Append(inbox, Ack(brew')) /\ brew' \in 0..Brews
    BY <1>4, StepShape DEF MachineObeys
  <2>2. Ack(brew') \in Notifications /\ Ack(brew').process # "PRODUCT"
    BY <2>1 DEF Ack, Notifications
  <2>3. \A i \in DOMAIN inbox' :
          \/ i \in DOMAIN inbox /\ inbox'[i] = inbox[i]
          \/ inbox'[i].process # "PRODUCT"
    BY <1>2, <2>1, <2>2, Appended
  <2> QED
    BY <1>1, <2>3 DEF NoEdge
<1>5. CASE Taking
  BY <1>1, <1>2, <1>5, HeadAndTail DEF Taking, NoEdge
<1>6. CASE Quiet
  BY <1>1, <1>6 DEF Quiet, NoEdge
<1>7. CASE AckArrives \/ Feeds
  BY <1>5, <1>7 DEF AckArrives, Feeds, Taking
<1>8. CASE PanelBrews \/ BrewEnds \/ PanelCancels
            \/ (\E op \in {"brew", "cancel"} : Calls(op)) \/ Fails \/ BrewReturns
            \/ CancelReturns \/ IntentAges \/ LatchAges \/ LinkDrops \/ LinkComesUp
            \/ UNCHANGED vars
  BY <1>6, <1>8 DEF PanelBrews, BrewEnds, PanelCancels, Calls, Fails, BrewReturns,
       CancelReturns, IntentAges, LatchAges, LinkDrops, LinkComesUp, Quiet, vars
<1> QED
  BY <1>3, <1>4, <1>7, <1>8 DEF Next

(* What was announced is not announced again.                               *)
LEMMA AnnouncedKept ==
  ASSUME TypeOK, TypeOK', LifecycleInv, [Next]_vars
  PROVE  AnnouncedInv' /\ AnnouncedOnce'
<1>0. /\ InboxInv /\ AnnouncedInv /\ AnnouncedOnce
      /\ brew \in 0..Brews /\ inbox \in Seq(Notifications)
      /\ started \in [1..Brews -> Nat] /\ started' \in [1..Brews -> Nat]
  BY DEF LifecycleInv, TypeOK
<1>1. \A b \in 1..Brews : NothingBefore(b) => b <= brew /\ NothingBefore(b)'
  BY Progress DEF NothingBefore
<1>2. ASSUME started' = started,
             detector'.prev \in {detector.prev, None, "PRODUCT"}
      PROVE  AnnouncedInv' /\ AnnouncedOnce'
  <2>1. ASSUME NEW b \in 1..Brews, started[b] > 0
        PROVE  NothingBefore(b)' /\ b <= brew
    BY <1>0, <1>1, <2>1 DEF AnnouncedInv
  <2>2. ASSUME NEW b \in 1..Brews, started[b] > 0,
               detector'.prev \notin {None, "PRODUCT"}
        PROVE  NoEdge(b)'
    <3>1. NoEdge(b)
      BY <1>0, <1>2, <2>2 DEF AnnouncedInv, NoEdge
    <3> QED
      BY <2>1, <2>2, <3>1, NoEdgeKept
  <2> QED
    BY <1>0, <1>2, <2>1, <2>2 DEF AnnouncedInv, AnnouncedOnce, NoEdge, Over
<1>3. CASE Samples \/ PanelBrews \/ BrewEnds \/ PanelCancels \/ MachineObeys
           \/ (\E op \in {"brew", "cancel"} : Calls(op)) \/ Fails \/ AckArrives
           \/ BrewReturns \/ CancelReturns \/ IntentAges \/ LinkComesUp \/ UNCHANGED vars
  BY <1>2, <1>3 DEF Samples, PanelBrews, BrewEnds, PanelCancels, MachineObeys, Calls,
       Fails, AckArrives, BrewReturns, CancelReturns, IntentAges, LinkComesUp, vars,
       historyVars
<1>4. CASE LatchAges
  <2>1. detector'.prev = detector.prev
    BY <1>4 DEF LatchAges, TypeOK, Detectors
  <2> QED
    BY <1>2, <1>4, <2>1 DEF LatchAges, historyVars
<1>5. CASE LinkDrops
  BY <1>2, <1>5 DEF LinkDrops, Reset, Unlatched, historyVars
<1>6. CASE Feeds
  <2>0. PICK f : f = Head(inbox)
    OBVIOUS
  <2> DEFINE d == Before(f)
  <2>1. /\ f \in Notifications /\ f.brew \in 0..brew
        /\ NothingBefore(f.brew)'
        /\ \A b \in Int : NothingBefore(b) => b <= f.brew
        /\ f.process = "PRODUCT" => f.brew > 0
        /\ f.process \notin {"PRODUCT", "unmapped"} => ShowsEnd(f) /\ Over(f.brew)
        /\ UNCHANGED <<brew, running>>
    BY <1>0, <1>6, <2>0, FedFrame
  <2>2. d \in Detectors /\ d.prev = detector.prev
    BY <2>1, BeforeFrame
  <2>3. \/ /\ StartsBrew(d, f) /\ detector' = Started(d, f)
           /\ started' = [started EXCEPT ![f.brew] = @ + 1]
        \/ /\ EndsBrew(d, f) /\ detector' = Unlatched(f.process) /\ started' = started
        \/ /\ detector' = IF Known(f) THEN [d EXCEPT !.prev = f.process] ELSE d
           /\ started' = started
    BY <1>6, <2>0, FeedCases
  <2>4. /\ 1 \in DOMAIN inbox /\ f = inbox[1]
        /\ \A i \in DOMAIN inbox' :
             i + 1 \in DOMAIN inbox /\ 1 < i + 1 /\ inbox'[i] = inbox[i + 1]
    BY <1>0, <1>6, <2>0, HeadAndTail DEF Feeds
  <2> HIDE DEF d
  <2>5. CASE StartsBrew(d, f) /\ detector' = Started(d, f)
             /\ started' = [started EXCEPT ![f.brew] = @ + 1]
    <3>1. f.brew \in 1..Brews /\ f.process = "PRODUCT" /\ detector.prev \notin {None, "PRODUCT"}
      <4>1. f.process = "PRODUCT" /\ detector.prev \notin {None, "PRODUCT"}
        BY <2>2, <2>5 DEF StartsBrew
      <4> QED
        BY <1>0, <2>1, <4>1
    <3>2. started[f.brew] = 0
      <4>1. ASSUME started[f.brew] > 0 PROVE inbox[1].process # "PRODUCT"
        BY <1>0, <2>4, <3>1, <4>1 DEF AnnouncedInv
      <4>2. started[f.brew] \in Nat
        BY <1>0, <3>1
      <4> QED
        BY <2>4, <3>1, <4>1, <4>2
    <3>3. started'[f.brew] = 1 /\ \A b \in 1..Brews : b # f.brew => started'[b] = started[b]
      BY <1>0, <2>5, <3>1, <3>2
    <3>4. detector'.prev = "PRODUCT"
      BY <2>5 DEF Started
    <3>5. \A b \in 1..Brews : started'[b] > 0 => NothingBefore(b)'
      BY <1>0, <1>1, <2>1, <3>3 DEF AnnouncedInv
    <3> QED
      BY <1>0, <3>3, <3>4, <3>5 DEF AnnouncedInv, AnnouncedOnce
  <2>6. CASE started' = started /\ detector'.prev = detector.prev
    BY <1>2, <2>6
  <2>7. CASE started' = started /\ detector'.prev = f.process /\ Known(f)
    <3>1. CASE f.process = "PRODUCT"
      BY <1>2, <2>7, <3>1
    <3>2. CASE f.process # "PRODUCT"
      <4>1. ShowsEnd(f) /\ Over(f.brew)
        BY <2>1, <2>7, <3>2 DEF Known
      <4>2. ASSUME NEW b \in 1..Brews, started[b] > 0
            PROVE  NothingBefore(b)' /\ NoEdge(b)'
        <5>1. NothingBefore(b) /\ b <= f.brew
          BY <1>0, <2>1, <4>2 DEF AnnouncedInv
        <5>2. Over(b)'
          BY <1>0, <2>1, <4>1, <5>1 DEF Over
        <5>3. ASSUME NEW i \in DOMAIN inbox', inbox'[i].brew = b
              PROVE  inbox'[i].process # "PRODUCT"
          <6>1. f.brew <= inbox[i + 1].brew /\ inbox[i + 1].brew = b
            BY <1>0, <2>4, <5>3 DEF InboxInv, InOrder
          <6>2. f.brew = b
            BY <2>1, <5>1, <6>1
          <6> QED
            BY <1>0, <2>4, <4>1, <5>3, <6>1, <6>2 DEF InboxInv, InOrder
        <5> QED
          BY <1>1, <5>1, <5>2, <5>3 DEF NoEdge
      <4> QED
        BY <1>0, <2>7, <4>2 DEF AnnouncedInv, AnnouncedOnce, NoEdge, Over
    <3> QED
      BY <3>1, <3>2
  <2>8. CASE EndsBrew(d, f) /\ detector' = Unlatched(f.process) /\ started' = started
    BY <2>7, <2>8 DEF EndsBrew, Unlatched
  <2>9. CASE detector' = (IF Known(f) THEN [d EXCEPT !.prev = f.process] ELSE d)
             /\ started' = started
    BY <2>2, <2>6, <2>7, <2>9 DEF Detectors
  <2> QED
    BY <2>3, <2>5, <2>8, <2>9
<1> QED
  BY <1>3, <1>4, <1>5, <1>6 DEF Next

(* An intent is used once, for its own brew or for one that is behind it.   *)
LEMMA CreditedKept ==
  ASSUME TypeOK, TypeOK', LifecycleInv, [Next]_vars
  PROVE  CreditedInv' /\ CreditedOnce'
<1>0. /\ InboxInv /\ StageInv /\ CreditedInv /\ CreditedOnce
      /\ brew \in 0..Brews
      /\ started \in [1..Brews -> Nat] /\ started' \in [1..Brews -> Nat]
      /\ credited \in [1..Brews -> SUBSET (1..Brews)]
      /\ credited' \in [1..Brews -> SUBSET (1..Brews)]
  BY DEF LifecycleInv, TypeOK
<1>1. \A b \in Int : NothingBefore(b) => NothingBefore(b)'
  BY Progress
<1>2. ASSUME credited' = credited PROVE CreditedInv'
  <2>1. ASSUME NEW b \in 1..Brews, NEW c \in credited[b]
        PROVE  b <= c /\ NothingBefore(c)'
    BY <1>0, <1>1, <2>1 DEF CreditedInv
  <2> QED
    BY <1>2, <2>1 DEF CreditedInv
<1>3. CASE UNCHANGED <<started, credited>> /\ late \subseteq late'
  BY <1>0, <1>2, <1>3 DEF CreditedOnce
<1>4. CASE Samples \/ PanelBrews \/ BrewEnds \/ PanelCancels \/ MachineObeys
           \/ (\E op \in {"brew", "cancel"} : Calls(op)) \/ Fails \/ AckArrives
           \/ BrewReturns \/ CancelReturns \/ IntentAges \/ LatchAges \/ LinkDrops
           \/ LinkComesUp \/ UNCHANGED vars
  BY <1>3, <1>4 DEF Samples, PanelBrews, BrewEnds, PanelCancels, MachineObeys, Calls,
       Fails, AckArrives, BrewReturns, CancelReturns, IntentAges, LatchAges, LinkDrops,
       LinkComesUp, vars, historyVars
<1>5. CASE Feeds
  <2>0. PICK f : f = Head(inbox)
    OBVIOUS
  <2> DEFINE d == Before(f)
  <2>1. /\ f.brew \in 0..brew /\ NothingBefore(f.brew)'
        /\ \A b \in Int : NothingBefore(b) => b <= f.brew
        /\ f.process = "PRODUCT" => f.brew > 0
        /\ late' = late
    BY <1>0, <1>5, <2>0, FedFrame
  <2>2. \/ /\ StartsBrew(d, f)
           /\ started' = [started EXCEPT ![f.brew] = @ + 1]
           /\ credited' = IF Taken # None
                THEN [credited EXCEPT ![Taken.of] = @ \cup {f.brew}]
                ELSE credited
        \/ UNCHANGED <<started, credited>>
    BY <1>5, <2>0, FeedCases
  <2> HIDE DEF d
  <2>3. CASE StartsBrew(d, f)
             /\ started' = [started EXCEPT ![f.brew] = @ + 1]
             /\ credited' = IF Taken # None
                  THEN [credited EXCEPT ![Taken.of] = @ \cup {f.brew}]
                  ELSE credited
    <3>1. f.process = "PRODUCT"
      BY <2>3 DEF StartsBrew
    <3>2. f.brew \in 1..Brews
      BY <1>0, <2>1, <3>1
    <3>3. ASSUME NEW b \in 1..Brews, credited'[b] = credited[b]
          PROVE  /\ \A c \in credited'[b] : b <= c /\ NothingBefore(c)'
                 /\ \A c, e \in credited'[b] : c = e
                 /\ credited'[b] \subseteq {b} \/ started'[b] = 0 \/ b \in late'
      <4>1. \A c \in credited[b] : c \in Int /\ b <= c /\ NothingBefore(c) /\ NothingBefore(c)'
        BY <1>0, <1>1 DEF CreditedInv
      <4>2. CASE b = f.brew
        BY <1>0, <2>1, <3>2, <3>3, <4>1, <4>2 DEF CreditedOnce
      <4>3. CASE b # f.brew
        <5>1. started'[b] = started[b]
          BY <1>0, <2>3, <4>3
        <5> QED
          BY <1>0, <2>1, <3>3, <4>1, <5>1 DEF CreditedOnce
      <4> QED
        BY <4>2, <4>3
    <3>4. CASE Taken # None
      <4>1. Taken = stage /\ stage # None /\ stage.of \in 1..Brews
        BY <3>4 DEF Taken, TypeOK, Intents
      <4>2. /\ credited[stage.of] = {} /\ stage.of <= f.brew
            /\ started[stage.of] = 0 \/ stage.of \in late
        BY <1>0, <2>1, <4>1 DEF StageInv
      <4>3. /\ credited' = [credited EXCEPT ![stage.of] = @ \cup {f.brew}]
            /\ credited'[stage.of] = {f.brew}
            /\ \A b \in 1..Brews : b # stage.of => credited'[b] = credited[b]
        BY <1>0, <2>3, <3>4, <4>1, <4>2
      <4>4. stage.of # f.brew => started'[stage.of] = started[stage.of]
        BY <1>0, <2>3, <4>1
      <4>5. ASSUME NEW b \in 1..Brews, b = stage.of
            PROVE  /\ \A c \in credited'[b] : b <= c /\ NothingBefore(c)'
                   /\ \A c, e \in credited'[b] : c = e
                   /\ credited'[b] \subseteq {b} \/ started'[b] = 0 \/ b \in late'
        BY <2>1, <4>2, <4>3, <4>4, <4>5
      <4> QED
        BY <3>3, <4>3, <4>5 DEF CreditedInv, CreditedOnce
    <3>5. CASE Taken = None
      BY <2>3, <3>3, <3>5 DEF CreditedInv, CreditedOnce
    <3> QED
      BY <3>4, <3>5
  <2> QED
    BY <1>3, <2>1, <2>2, <2>3
<1> QED
  BY <1>4, <1>5 DEF Next

(* What is reported of an end is true, and stays true.                      *)
LEMMA EndedKept ==
  ASSUME TypeOK, TypeOK', LifecycleInv, [Next]_vars
  PROVE  EndedInv' /\ EndedIsOver' /\ CancelHasACause'
<1> USE DEF EndedInv, EndedIsOver, CancelHasACause
<1>0. /\ InboxInv /\ StageInv /\ DetectorInv /\ EndedInv /\ EndedIsOver /\ CancelHasACause
      /\ brew \in 0..Brews
      /\ detector.brewing => detector.of \in 1..Brews
  BY DEF LifecycleInv, TypeOK, Detectors
<1>1. /\ brew <= brew' /\ brew \in Int /\ brew' \in Int
      /\ \A b \in 1..Brews : cancelled[b] \subseteq cancelled'[b]
      /\ \A b \in Int : b <= brew /\ Over(b) => Over(b)'
  BY Progress
<1>2. CASE ended' = None
  BY <1>2
<1>3. CASE ended' = ended /\ ended # None
  <2>1. ended.of \in 1..Brews /\ ended.upto \in 0..Brews
    BY <1>3 DEF TypeOK, Terminals
  <2>2. ended.of <= ended.upto /\ ended.upto <= brew /\ Over(ended.of)
    BY <1>0, <1>3 DEF Over
  <2>3. EndedInv' /\ EndedIsOver'
    BY <1>0, <1>1, <1>3, <2>1, <2>2 DEF Over
  <2>4. \A b \in ended.of..ended.upto : b \in 1..Brews
    BY <1>0, <2>1, <2>2
  <2>5. CancelHasACause'
    BY <1>0, <1>1, <1>3, <2>4
  <2> QED
    BY <2>3, <2>5
<1>4. CASE Samples \/ PanelBrews \/ BrewEnds \/ PanelCancels \/ MachineObeys
           \/ (\E op \in {"brew", "cancel"} : Calls(op)) \/ Fails \/ AckArrives
           \/ BrewReturns \/ CancelReturns \/ IntentAges \/ LatchAges \/ LinkDrops
           \/ LinkComesUp \/ UNCHANGED vars
  <2>1. ended' = ended
    BY <1>4 DEF Samples, PanelBrews, BrewEnds, PanelCancels, MachineObeys, Calls,
         Fails, AckArrives, BrewReturns, CancelReturns, IntentAges, LatchAges, LinkDrops,
         LinkComesUp, vars, historyVars
  <2> QED
    BY <1>2, <1>3, <2>1
<1>5. CASE Feeds
  <2>0. PICK f : f = Head(inbox)
    OBVIOUS
  <2> DEFINE d == Before(f)
  <2>1. /\ f \in Notifications /\ f.brew \in 0..brew
        /\ \A b \in Int : NothingBefore(b) => b <= f.brew
        /\ f.bit => f.brew > 0 /\ cancelled[f.brew] # {}
        /\ f.process \notin {"PRODUCT", "unmapped"} => ShowsEnd(f) /\ Over(f.brew)
        /\ UNCHANGED <<link, links, brew, running, cancelled>>
    BY <1>0, <1>5, <2>0, FedFrame
  <2>2. /\ d \in Detectors
        /\ d.brewing =>
             /\ detector.brewing /\ d.of = detector.of /\ d.link = detector.link
             /\ d.intent = detector.intent
             /\ d.machineCancelled => detector.machineCancelled \/ f.bit
             /\ d.haCancelled => detector.haCancelled \/ haCancel
    BY <2>1, BeforeFrame
  <2>3. ended' = None \/ (EndsBrew(d, f) /\ ended' = Terminal(d, f))
    BY <1>5, <2>0, FeedCases
  <2> HIDE DEF d
  <2>4. CASE EndsBrew(d, f) /\ ended' = Terminal(d, f)
    <3>1. /\ detector.brewing /\ d.of = detector.of /\ d.link = detector.link
          /\ d.intent = detector.intent
          /\ f.process \notin {"PRODUCT", "unmapped"}
          /\ ended'.of = detector.of /\ ended'.upto = f.brew
          /\ ended'.began = links /\ ended'.link = links
          /\ ended'.source = CancelSource(d, f)
          /\ ended'.credit = IF d.intent = None THEN None ELSE d.intent.of
      <4>1. d.brewing /\ f.process \notin {"PRODUCT", "unmapped"}
        BY <2>4 DEF EndsBrew, Known
      <4>2. detector.brewing /\ detector.link = links
        BY <1>0, <2>2, <4>1 DEF DetectorInv
      <4> QED
        BY <2>2, <2>4, <4>1, <4>2 DEF Terminal
    <3>2. detector.of \in 1..Brews /\ detector.of <= f.brew /\ Over(f.brew)
      BY <1>0, <2>1, <3>1 DEF DetectorInv
    <3>3. EndedInv' /\ EndedIsOver'
      BY <1>0, <2>1, <3>1, <3>2 DEF Over
    <3>4. ASSUME ended'.source = "machine"
          PROVE  \E b \in ended'.of..ended'.upto : cancelled'[b] # {}
      <4>1. d.machineCancelled
        BY <3>1, <3>4 DEF CancelSource, Causes
      <4>2. CASE f.bit
        BY <1>0, <2>1, <3>1, <3>2, <4>2
      <4>3. CASE detector.machineCancelled
        <5>1. PICK b \in detector.of..brew : cancelled[b] # {} /\ NothingBefore(b)
          BY <1>0, <3>1, <4>3 DEF DetectorInv
        <5>2. b \in ended'.of..ended'.upto
          BY <1>0, <2>1, <3>1, <3>2, <5>1
        <5> QED
          BY <2>1, <5>1, <5>2
      <4> QED
        BY <2>2, <2>4, <4>1, <4>2, <4>3 DEF EndsBrew
    <3>5. ASSUME ended'.source = "ha"
          PROVE  \/ \E b \in ended'.of..ended'.upto : "ha" \in cancelled'[b]
                 \/ ended'.credit \notin {None, ended'.of}
      <4>1. d.haCancelled \/ (d.intent # None /\ d.intent.haCancelled)
        BY <3>1, <3>5 DEF CancelSource, Causes
      <4>2. ASSUME \E b \in detector.of..brew : HaCancelledIt(b)
            PROVE  \E b \in ended'.of..ended'.upto : "ha" \in cancelled'[b]
        <5>1. PICK b \in detector.of..brew : HaCancelledIt(b)
          BY <4>2
        <5>2. b \in ended'.of..ended'.upto
          BY <1>0, <2>1, <3>1, <3>2, <5>1 DEF HaCancelledIt
        <5> QED
          BY <2>1, <5>1, <5>2 DEF HaCancelledIt
      <4>3. CASE detector.haCancelled
        BY <1>0, <3>1, <4>2, <4>3 DEF DetectorInv
      <4>4. CASE haCancel
        <5>1. PICK b \in 1..brew : HaCancelledIt(b) /\ detector.of <= b
          BY <1>0, <3>1, <4>4 DEF StageInv
        <5>2. b \in detector.of..brew
          BY <1>0, <3>2, <5>1
        <5> QED
          BY <4>2, <5>1, <5>2
      <4>5. CASE d.intent # None /\ d.intent.haCancelled
        <5>1. detector.intent.of # detector.of \/ "ha" \in cancelled[detector.of]
          BY <1>0, <3>1, <4>5 DEF DetectorInv
        <5>2. detector.intent.of \in 1..Brews /\ ended'.credit = detector.intent.of
          BY <3>1, <4>5 DEF TypeOK, Detectors, Intents
        <5>3. detector.of \in ended'.of..ended'.upto
          BY <1>0, <2>1, <3>1, <3>2
        <5>4. detector.intent.of # None
          BY <5>2
        <5> QED
          BY <2>1, <3>1, <5>1, <5>2, <5>3, <5>4
      <4> QED
        BY <2>2, <2>4, <4>1, <4>3, <4>4, <4>5 DEF EndsBrew
    <3> QED
      BY <3>3, <3>4, <3>5
  <2> QED
    BY <1>2, <2>3, <2>4
<1> QED
  BY <1>4, <1>5 DEF Next
----------------------------------------------------------------------------
(* The theorems.                                                            *)

LEMMA InitHolds == Init => TypeOK /\ LifecycleInv
<1> SUFFICES ASSUME Init PROVE TypeOK /\ LifecycleInv
  OBVIOUS
<1> USE DEF Init
<1>1. TypeOK
  <2>1. /\ detector \in Detectors /\ ~ detector.brewing /\ ~ detector.old
        /\ detector.intent = None /\ detector.of = None
        /\ ~ detector.haCancelled /\ ~ detector.machineCancelled
    BY DEF Unlatched, Detectors
  <2>2. <<>> \in Seq(Notifications)
    OBVIOUS
  <2>3. /\ cancelled \in [1..Brews -> SUBSET {"ha", "machine"}]
        /\ started \in [1..Brews -> Nat]
        /\ credited \in [1..Brews -> SUBSET (1..Brews)]
    OBVIOUS
  <2>4. 0 \in 0..Links /\ 0 \in 0..Brews
    OBVIOUS
  <2> QED
    BY <2>1, <2>2, <2>3, <2>4 DEF TypeOK
<1>2. InboxInv /\ CommandInv /\ StageInv
  BY DEF InboxInv, CommandInv, StageInv
<1>3. DetectorInv /\ AnnouncedInv /\ AnnouncedOnce
  BY DEF DetectorInv, AnnouncedInv, AnnouncedOnce, Unlatched, AllProcesses
<1>4. CreditedInv /\ CreditedOnce /\ EndedInv /\ EndedIsOver /\ CancelHasACause
  BY DEF CreditedInv, CreditedOnce, EndedInv, EndedIsOver, CancelHasACause
<1> QED
  BY <1>1, <1>2, <1>3, <1>4 DEF LifecycleInv

(* The machine, the inbox, the stage and the latches always agree as        *)
(* LifecycleInv says, whatever the order of frames, ACKs, tasks and losses  *)
(* of the link (lifecycle.py feed(), event.py, ble_client.py                *)
(* consumed_intent/take_ha_cancel).                                         *)
THEOREM LifecycleInvariant == Spec => [](TypeOK /\ LifecycleInv)
<1>1. Init => TypeOK /\ LifecycleInv
  BY InitHolds
<1>2. TypeOK /\ LifecycleInv /\ [Next]_vars => (TypeOK /\ LifecycleInv)'
  <2> SUFFICES ASSUME TypeOK, LifecycleInv, [Next]_vars
               PROVE  TypeOK' /\ LifecycleInv'
    OBVIOUS
  <2>1. TypeOK'
    BY TypesKept
  <2>2. InboxInv'
    BY InboxKept DEF LifecycleInv
  <2>3. CommandInv' /\ StageInv' /\ DetectorInv'
    BY <2>1, CommandKept, StageKept, DetectorKept
  <2>4. AnnouncedInv' /\ AnnouncedOnce' /\ CreditedInv' /\ CreditedOnce'
    BY <2>1, AnnouncedKept, CreditedKept
  <2>5. EndedInv' /\ EndedIsOver' /\ CancelHasACause'
    BY <2>1, EndedKept
  <2> QED
    BY <2>1, <2>2, <2>3, <2>4, <2>5 DEF LifecycleInv
<1> QED
  BY <1>1, <1>2, PTL DEF Spec

(* Nothing outlives the latch of a brew: no captured intent, no cancel, no  *)
(* age (LifecycleDetector, R5, R8).                                         *)
THEOREM LifecycleTypes == Spec => []TypeOK
BY LifecycleInvariant, PTL

(* brew_started fires at most once for a drink (feed(), R0, R1, R3).        *)
THEOREM EachBrewAnnouncedOnce == Spec => []AnnouncedOnce
<1>1. LifecycleInv => AnnouncedOnce
  BY DEF LifecycleInv
<1> QED
  BY <1>1, LifecycleInvariant, PTL

(* A brew can never be attributed twice (consumed_intent(),                 *)
(* ble_client.py:804), and is attributed to another brew only if its own    *)
(* was not announced after it.                                              *)
THEOREM EachIntentCreditedOnce == Spec => []CreditedOnce
<1>1. LifecycleInv => CreditedOnce
  BY DEF LifecycleInv
<1> QED
  BY <1>1, LifecycleInvariant, PTL

(* What brew_finished and brew_cancelled report has ended, and began on     *)
(* the same link (reset() on disconnect).                                   *)
THEOREM EndsAreTrue == Spec => []EndedIsOver
<1>1. LifecycleInv => EndedIsOver
  BY DEF LifecycleInv
<1> QED
  BY <1>1, LifecycleInvariant, PTL

(* A brew_cancelled names one who has cancelled (take_ha_cancel(), R5).     *)
THEOREM CancelsHaveACause == Spec => []CancelHasACause
<1>1. LifecycleInv => CancelHasACause
  BY DEF LifecycleInv
<1> QED
  BY <1>1, LifecycleInvariant, PTL
=============================================================================
