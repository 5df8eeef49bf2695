---------------------------- MODULE BrewLifecycle ----------------------------
(***************************************************************************)
(* The brew events (lifecycle.py, event.py) and the hand-off of what Home  *)
(* Assistant knows of a brew (ble_client.py, _ble_commands.py): a command  *)
(* that the machine acknowledged stages an intent, and the first status    *)
(* frame that shows the brew takes it.                                     *)
(*                                                                         *)
(* Between the two lie the notifications of one link, taken in order, the  *)
(* time until the task of the command runs on, status frames that nobody   *)
(* sampled, drinks made at the front panel, and the loss of the link.      *)
(* Prompts, maintenance procedures and the shape of a drink have latches   *)
(* of their own in the detector, which the brew events do not read.  What  *)
(* becomes of late or lost ACKs is module CommandChannel.                  *)
(***************************************************************************)
EXTENDS Integers, Sequences

CONSTANTS Processes, \* what the machine reports
          Brews,     \* bound: drinks that are made
          Links,     \* bound: links after the first
          Pending,   \* bound: notifications under way, frames beyond are not sent
          None

\* BUSY stands for maintenance as well; "unmapped" is no process, None.
AllProcesses == {"READY", "PRODUCT", "BUSY", "SWITCH_OFF", "unmapped"}

ASSUME ProcessesAssumption ==
  {"PRODUCT"} \subseteq Processes /\ Processes \subseteq AllProcesses

ASSUME BoundsAssumption == Brews \in Nat /\ Links \in Nat /\ Pending \in Nat

\* Who may be said to have ended a brew before it was ready.
Causes == {"ha", "machine", "power_off"}

ASSUME NoneAssumption == None \notin AllProcesses \cup Causes /\ None \notin 1..Brews

VARIABLES
  link,      \* the link is up
  links,     \* the number of the link
  brew,      \* the machine: the last brew it started
  running,   \* it is still at it
  cancelled, \* who cancelled each brew: "ha" or "machine"
  inbox,     \* notifications on their way: status frames, ACKs
  command,   \* the brew or cancel that waits for its ACK, or has it
  last,      \* _status.process
  stage,     \* _brew_intent
  haCancel,  \* _ha_cancel_pending
  detector,  \* the latches of LifecycleDetector
  \* History, which no code reads:
  started,   \* how often each brew was announced by brew_started
  credited,  \* the brews that were announced with the intent of each brew
  late,      \* brews that were announced before their intent was staged
  ended      \* brew_finished or brew_cancelled, if the last frame brought one

machineVars == <<brew, running, cancelled>>
clientVars  == <<last, stage, haCancel>>
historyVars == <<started, credited, late, ended>>
vars == <<link, links, machineVars, inbox, command, clientVars, detector,
          historyVars>>

\* The ACK of a command, among the status frames of the inbox.
Ack(b) == [process |-> "ack", bit |-> FALSE, brew |-> b]

IsAck(notification) == notification.process = "ack"

\* The latches when no brew is in flight.
Unlatched(prev) ==
  [prev |-> prev, brewing |-> FALSE, old |-> FALSE, intent |-> None,
   haCancelled |-> FALSE, machineCancelled |-> FALSE, of |-> None, link |-> 0]

Init ==
  /\ link = TRUE /\ links = 0
  /\ brew = 0 /\ running = FALSE /\ cancelled = [b \in 1..Brews |-> {}]
  /\ inbox = <<>> /\ command = None
  /\ last = None /\ stage = None /\ haCancel = FALSE
  /\ detector = Unlatched(None)
  /\ started = [b \in 1..Brews |-> 0] /\ credited = [b \in 1..Brews |-> {}]
  /\ late = {} /\ ended = None
----------------------------------------------------------------------------
(* The machine.                                                             *)

\* What a status frame may say: a brew shows, or its code is not known.
Shown == IF running THEN Processes \cap {"PRODUCT", "unmapped"} ELSE Processes \ {"PRODUCT"}

(* A frame: the answer to a poll, or one the machine sends of itself.  The  *)
(* cancel bit is only seen between a cancel and the next brew.              *)
Samples ==
  /\ link /\ Len(inbox) < Pending
  /\ \E process \in Shown, bit \in BOOLEAN :
       /\ bit => brew # 0 /\ cancelled[brew] # {}
       /\ inbox' = Append(inbox, [process |-> process, bit |-> bit, brew |-> brew])
  /\ UNCHANGED <<link, links, machineVars, command, clientVars, detector,
                 historyVars>>

StartsBrewing ==
  /\ ~ running /\ brew < Brews
  /\ brew' = brew + 1 /\ running' = TRUE
  /\ UNCHANGED cancelled

(* The next drink takes longer to select than the ACK of a cancel takes to  *)
(* be handled.                                                              *)
PanelBrews ==
  /\ StartsBrewing
  /\ command # None /\ command.op = "cancel" => command.at = "sent"
  /\ UNCHANGED <<link, links, inbox, command, clientVars, detector, historyVars>>

\* The drink is ready, or the machine is switched off.
BrewEnds ==
  /\ running /\ running' = FALSE
  /\ UNCHANGED <<link, links, brew, cancelled, inbox, command, clientVars,
                 detector, historyVars>>

Cancels(by) ==
  /\ running /\ running' = FALSE
  /\ cancelled' = [cancelled EXCEPT ![brew] = @ \cup {by}]
  /\ UNCHANGED brew

PanelCancels ==
  /\ Cancels("machine")
  /\ UNCHANGED <<link, links, inbox, command, clientVars, detector, historyVars>>

\* It obeys the command under way and acknowledges it.
MachineObeys ==
  /\ link /\ command # None /\ command.at = "sent" /\ Len(inbox) < Pending
  /\ \/ command.op = "brew" /\ StartsBrewing
     \/ command.op = "cancel" /\ Cancels("ha")
  /\ command' = [command EXCEPT !.at = "obeyed", !.brew = brew']
  /\ inbox' = Append(inbox, Ack(brew'))
  /\ UNCHANGED <<link, links, clientVars, detector, historyVars>>
----------------------------------------------------------------------------
(* Home Assistant.                                                          *)

\* A brew needs a machine that is ready, so far as the last status tells.
MayBrew == last \in {None, "READY"}

\* The Cancel button cancels the process of the last status.
MayCancel == last = "PRODUCT"

Calls(op) ==
  /\ link /\ command = None
  /\ IF op = "brew" THEN MayBrew ELSE MayCancel
  /\ command' = [op |-> op, at |-> "sent", brew |-> 0, passed |-> FALSE]
  /\ UNCHANGED <<link, links, machineVars, inbox, clientVars, detector,
                 historyVars>>

\* Refused, or the ACK is lost; obeyed it may have been.
Fails ==
  /\ command # None /\ command.at # "woken"
  /\ command' = None
  /\ UNCHANGED <<link, links, machineVars, inbox, clientVars, detector, historyVars>>

\* The command that an ACK at the head of the inbox belongs to is waiting.
AckIsAwaited ==
  command # None /\ command.at = "obeyed" /\ command.brew = Head(inbox).brew

\* _dispatch_frame resolves the ACK future, if any: the task will run on.
AckArrives ==
  /\ inbox # <<>> /\ IsAck(Head(inbox))
  /\ inbox' = Tail(inbox)
  /\ command' = IF AckIsAwaited THEN [command EXCEPT !.at = "woken"] ELSE command
  /\ UNCHANGED <<link, links, machineVars, clientVars, detector, historyVars>>

\* The task of brew_recipe and its kin: _note_brew_intent.
BrewReturns ==
  /\ command # None /\ command.at = "woken" /\ command.op = "brew"
  /\ command' = None
  /\ stage' = [of |-> command.brew, fresh |-> TRUE, haCancelled |-> FALSE]
  /\ late' = IF started[command.brew] > 0 THEN late \cup {command.brew} ELSE late
  /\ UNCHANGED <<link, links, machineVars, inbox, last, haCancel, detector,
                 started, credited, ended>>

\* cancel_process: annotate_brew_intent and _note_ha_cancel.
CancelReturns ==
  /\ command # None /\ command.at = "woken" /\ command.op = "cancel"
  /\ command' = None
  /\ stage' = IF stage = None THEN None ELSE [stage EXCEPT !.haCancelled = TRUE]
  /\ haCancel' = TRUE
  /\ UNCHANGED <<link, links, machineVars, inbox, last, detector, historyVars>>
----------------------------------------------------------------------------
(* The detector, one status frame at a time.                                *)

\* Variant: a latch of any age is kept.
Expire_Never(d) == d

\* R8: a latch older than BREW_MAX_DURATION_S is cleared without an event.
Expire(d) == IF d.brewing /\ d.old THEN Unlatched(d.prev) ELSE d

\* Variant: the cancels are latched at any time.
Latch_Always(d, bit, ha) ==
  [d EXCEPT !.machineCancelled = @ \/ bit, !.haCancelled = @ \/ ha]

\* R5: the cancels are latched for the brew in flight only.
Latch(d, bit, ha) ==
  [d EXCEPT !.machineCancelled = @ \/ (d.brewing /\ bit),
            !.haCancelled = @ \/ (d.brewing /\ ha)]

Before(frame) == Latch(Expire(detector), frame.bit, haCancel)

\* Variant: a process that is not known counts as one.
Known_Always(frame) == TRUE

\* R0: a process that is not known is no transition.
Known(frame) == frame.process # "unmapped"

\* R4
EndsBrew(d, frame) ==
  /\ Known(frame) /\ d.prev # None
  /\ d.brewing /\ frame.process # "PRODUCT"

\* R1, R3: the first frame after a reset only records.
StartsBrew(d, frame) ==
  /\ Known(frame) /\ d.prev \notin {None, "PRODUCT"}
  /\ frame.process = "PRODUCT"

\* The intent is taken, or too old and thrown away.
Taken == IF stage # None /\ stage.fresh THEN stage ELSE None

\* Variant: the stage is left as it is.
Consumed_Never(d, frame) == FALSE

\* consumed_intent()
Consumed(d, frame) == StartsBrew(d, frame) /\ stage # None

\* Variant: the flag is read and left.
FlagLeft_AsItWas == haCancel

\* take_ha_cancel()
FlagLeft == FALSE

\* _terminal_event; what is reported of the brew that was latched.
CancelSource(d, frame) ==
  IF d.haCancelled \/ (d.intent # None /\ d.intent.haCancelled) THEN "ha"
  ELSE IF d.machineCancelled THEN "machine"
  ELSE IF frame.process = "SWITCH_OFF" THEN "power_off" ELSE None

Terminal(d, frame) ==
  [of |-> d.of, upto |-> frame.brew, began |-> d.link, link |-> links,
   source |-> CancelSource(d, frame),
   credit |-> IF d.intent = None THEN None ELSE d.intent.of]

Started(d, frame) ==
  [prev |-> "PRODUCT", brewing |-> TRUE, old |-> FALSE, intent |-> Taken,
   haCancelled |-> FALSE, machineCancelled |-> FALSE,
   of |-> frame.brew, link |-> links]

(* feed(), called by event.py with the staged intent and the cancel flag it *)
(* takes; the stage is emptied when feed() took the intent.  The frame may  *)
(* be taken before a task that has its ACK runs on, a second one may not:   *)
(* it comes a poll interval later.                                          *)
Feeds ==
  /\ inbox # <<>> /\ ~ IsAck(Head(inbox))
  /\ command # None /\ command.at = "woken" => ~ command.passed
  /\ LET frame == Head(inbox)
         d     == Before(frame)
     IN /\ detector' =
             CASE StartsBrew(d, frame) -> Started(d, frame)
               [] EndsBrew(d, frame) -> Unlatched(frame.process)
               [] OTHER -> IF Known(frame) THEN [d EXCEPT !.prev = frame.process] ELSE d
        /\ stage' = IF Consumed(d, frame) THEN None ELSE stage
        /\ started' = IF StartsBrew(d, frame)
                      THEN [started EXCEPT ![frame.brew] = @ + 1] ELSE started
        /\ credited' = IF StartsBrew(d, frame) /\ Taken # None
                       THEN [credited EXCEPT ![Taken.of] = @ \cup {frame.brew}]
                       ELSE credited
        /\ ended' = IF EndsBrew(d, frame) THEN Terminal(d, frame) ELSE None
        /\ last' = frame.process
  /\ haCancel' = FlagLeft
  /\ inbox' = Tail(inbox)
  /\ command' = IF command = None \/ command.at # "woken" THEN command
                ELSE [command EXCEPT !.passed = TRUE]
  /\ UNCHANGED <<link, links, machineVars, late>>
----------------------------------------------------------------------------
(* Time and the link.                                                       *)

\* BREW_INTENT_TTL_S has passed since the intent was staged.
IntentAges ==
  /\ stage # None /\ stage.fresh
  /\ stage' = [stage EXCEPT !.fresh = FALSE]
  /\ UNCHANGED <<link, links, machineVars, inbox, command, last, haCancel,
                 detector, historyVars>>

\* BREW_MAX_DURATION_S has passed since the brew was latched.
LatchAges ==
  /\ detector.brewing /\ ~ detector.old
  /\ detector' = [detector EXCEPT !.old = TRUE]
  /\ UNCHANGED <<link, links, machineVars, inbox, command, clientVars, historyVars>>

\* Variant: the detector is not reset.
Reset_Not(d) == d

\* LifecycleDetector.reset
Reset(d) == Unlatched(None)

(* _on_connection_change(False): a task that has its ACK still runs on, any *)
(* other fails.  The status of the client stays.                            *)
LinkDrops ==
  /\ link /\ link' = FALSE
  /\ detector' = Reset(detector)
  /\ stage' = None /\ haCancel' = FALSE
  /\ inbox' = <<>>
  /\ command' = IF command # None /\ command.at = "woken" THEN command ELSE None
  /\ UNCHANGED <<links, machineVars, last, historyVars>>

LinkComesUp ==
  /\ ~ link /\ links < Links
  /\ command = None
  /\ link' = TRUE /\ links' = links + 1
  /\ UNCHANGED <<machineVars, inbox, command, clientVars, detector, historyVars>>
----------------------------------------------------------------------------
Next ==
  \/ Samples \/ PanelBrews \/ BrewEnds \/ PanelCancels \/ MachineObeys
  \/ \E op \in {"brew", "cancel"} : Calls(op)
  \/ Fails \/ AckArrives \/ BrewReturns \/ CancelReturns
  \/ Feeds \/ IntentAges \/ LatchAges \/ LinkDrops \/ LinkComesUp

(* Polling goes on as long as the link is up, what arrives is taken, tasks  *)
(* that may run do, and time passes.                                        *)
Fairness ==
  /\ WF_vars(Samples) /\ WF_vars(Feeds) /\ WF_vars(LatchAges)
  /\ WF_vars(AckArrives) /\ WF_vars(BrewReturns) /\ WF_vars(CancelReturns)

Spec == Init /\ [][Next]_vars /\ Fairness
----------------------------------------------------------------------------
(* Properties.                                                              *)

Intents == [of : 1..Brews, fresh : BOOLEAN, haCancelled : BOOLEAN]

Notifications ==
  [process : Processes \cup {"ack"}, bit : BOOLEAN, brew : 0..Brews]

Commands ==
  [op : {"brew", "cancel"}, at : {"sent", "obeyed", "woken"}, brew : 0..Brews,
   passed : BOOLEAN]

Detectors ==
  [prev : {None} \cup Processes, brewing : BOOLEAN, old : BOOLEAN,
   intent : {None} \cup Intents, haCancelled : BOOLEAN,
   machineCancelled : BOOLEAN, of : {None} \cup 1..Brews, link : 0..Links]

Terminals ==
  [of : 1..Brews, upto : 0..Brews, began : 0..Links, link : 0..Links,
   source : Causes \cup {None}, credit : {None} \cup 1..Brews]

(* Types.  A brew is latched exactly while its PRODUCT was the last process *)
(* seen on this link, and nothing of it outlives the latch: neither the     *)
(* captured intent nor a cancel (LifecycleDetector, R5, R8).                *)
TypeOK ==
  /\ link \in BOOLEAN /\ links \in 0..Links
  /\ brew \in 0..Brews /\ running \in BOOLEAN
  /\ cancelled \in [1..Brews -> SUBSET {"ha", "machine"}]
  /\ inbox \in Seq(Notifications)
  /\ command \in {None} \cup Commands
  /\ last \in {None} \cup Processes
  /\ stage \in {None} \cup Intents /\ haCancel \in BOOLEAN
  /\ detector \in Detectors
  /\ detector.brewing => detector.prev = "PRODUCT" /\ detector.of # None
  /\ ~ detector.brewing =>
       /\ ~ detector.old /\ detector.intent = None /\ detector.of = None
       /\ ~ detector.haCancelled /\ ~ detector.machineCancelled
  /\ started \in [1..Brews -> Nat]
  /\ credited \in [1..Brews -> SUBSET (1..Brews)]
  /\ late \subseteq 1..Brews /\ ended \in {None} \cup Terminals

(* Every drink is announced at most once, over unknown codes in the middle  *)
(* of it (R0), expiry (R8) and reconnects while it runs (R1).               *)
AnnouncedOnce == \A b \in 1..Brews : started[b] <= 1

(* ble_client.py:804, "a brew can never be attributed twice": an intent is  *)
(* used for one announcement.  That it is for another brew than its own     *)
(* takes an intent whose own brew was never announced, or only before the   *)
(* intent was staged.                                                       *)
CreditedOnce ==
  \A b \in 1..Brews :
    /\ \A c, d \in credited[b] : c = d
    /\ credited[b] \subseteq {b} \/ started[b] = 0 \/ b \in late

(* A drink that is reported finished or cancelled is over, and it was       *)
(* announced on the same link (R2): none is reported by the PRODUCT and the *)
(* READY of two sessions.                                                   *)
EndedIsOver ==
  ended # None =>
    /\ ended.of < brew \/ ~ running
    /\ ended.began = ended.link

(* Who is said to have cancelled a drink has cancelled it, or one that was  *)
(* not told apart from it; "ha" may also come with the intent of an earlier *)
(* brew.                                                                    *)
CancelHasACause ==
  ended # None =>
    LET brews == ended.of..ended.upto IN
    /\ ended.source = "machine" => \E b \in brews : cancelled[b] # {}
    /\ ended.source = "ha" => \/ \E b \in brews : "ha" \in cancelled[b]
                              \/ ended.credit \notin {None, ended.of}

(* No brew stays latched for ever, also when the machine goes on to send    *)
(* codes that are not known (R8).                                           *)
LatchIsReleased == detector.brewing ~> ~ detector.brewing
----------------------------------------------------------------------------
(* The inductive invariant behind the safety properties.                    *)

\* What is still to be fed is of this brew or of a later one.
NothingBefore(b) == b <= brew /\ \A i \in DOMAIN inbox : b <= inbox[i].brew

Over(b) == b < brew \/ ~ running

ShowsEnd(notification) == notification.process \notin {"ack", "PRODUCT", "unmapped"}

\* What a frame says of its brew is so.
Truthful(notification) ==
  /\ notification.brew <= brew
  /\ notification.process = "PRODUCT" => notification.brew > 0
  /\ notification.bit => notification.brew > 0 /\ cancelled[notification.brew] # {}
  /\ ShowsEnd(notification) => Over(notification.brew)

\* A brew that showed its end shows no more.
InOrder(first, second) ==
  /\ first.brew <= second.brew
  /\ ShowsEnd(first) /\ second.brew = first.brew => second.process # "PRODUCT"

\* The inbox tells the machine's story in order.
InboxInv ==
  /\ ~ link => inbox = <<>>
  /\ running => brew > 0
  /\ \A i \in DOMAIN inbox : Truthful(inbox[i])
  /\ \A i, j \in DOMAIN inbox : i < j => InOrder(inbox[i], inbox[j])

\* HA has cancelled brew b, and all that is told from now on comes after.
HaCancelledIt(b) == "ha" \in cancelled[b] /\ NothingBefore(b)

CommandInv ==
  command # None /\ command.at # "sent" =>
    /\ command.brew \in 1..brew
    /\ command.at = "woken" => NothingBefore(command.brew)
    /\ command.op = "brew" => /\ credited[command.brew] = {}
                              /\ stage # None => stage.of < command.brew
    /\ command.op = "cancel" => command.brew = brew /\ "ha" \in cancelled[brew]

\* An intent on the stage is unused, and nothing that comes is before it.
StageInv ==
  /\ stage # None =>
       /\ NothingBefore(stage.of) /\ credited[stage.of] = {}
       /\ started[stage.of] = 0 \/ stage.of \in late
       /\ stage.haCancelled => \E b \in stage.of..brew : HaCancelledIt(b)
  /\ haCancel => \E b \in 1..brew : /\ HaCancelledIt(b)
                                    /\ detector.brewing => detector.of <= b

DetectorInv ==
  /\ detector.prev # "unmapped"
  /\ detector.brewing =>
       /\ link /\ detector.link = links
       /\ NothingBefore(detector.of)
       /\ detector.machineCancelled =>
            \E b \in detector.of..brew : cancelled[b] # {} /\ NothingBefore(b)
       /\ detector.haCancelled => \E b \in detector.of..brew : HaCancelledIt(b)
       /\ detector.intent # None /\ detector.intent.haCancelled =>
            detector.intent.of # detector.of \/ "ha" \in cancelled[detector.of]

\* What has been announced cannot show an edge again.
AnnouncedInv ==
  \A b \in 1..Brews :
    /\ started[b] > 0 => NothingBefore(b)
    /\ started[b] > 0 /\ detector.prev \notin {None, "PRODUCT"} =>
         /\ Over(b)
         /\ \A i \in DOMAIN inbox :
              inbox[i].brew = b => inbox[i].process # "PRODUCT"

CreditedInv ==
  \A b \in 1..Brews : \A c \in credited[b] : b <= c /\ NothingBefore(c)

EndedInv == ended # None => ended.of <= ended.upto /\ ended.upto <= brew

LifecycleInv ==
  /\ InboxInv /\ CommandInv /\ StageInv /\ DetectorInv
  /\ AnnouncedInv /\ AnnouncedOnce /\ CreditedInv /\ CreditedOnce
  /\ EndedInv /\ EndedIsOver /\ CancelHasACause
=============================================================================
