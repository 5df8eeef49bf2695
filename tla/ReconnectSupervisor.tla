------------------------ MODULE ReconnectSupervisor ------------------------
(***************************************************************************)
(* Who calls connect(), and when: the set-up loop _async_connect_and_poll  *)
(* (__init__.py), the client's own _reconnect_loop, the poll loop, the     *)
(* disconnect callback, advertisements, the automatic and the user's       *)
(* repairs, and the unload of the config entry.  All run on one event      *)
(* loop, so a step is what a task does between two suspensions.            *)
(*                                                                         *)
(* A connect cycle is a stage here ("ladder", then "reads"); its rungs and *)
(* the bond are module ConnectLadder.  Delays are not modelled: a timer    *)
(* may elapse at any time.  A failed cycle is benign (TIMEOUT, LINK) or    *)
(* hard (anything else).  No source migration is pending.                  *)
(***************************************************************************)
EXTENDS Integers, FiniteSets

CONSTANT RepairAfterFailures  \* _repair_after_failures, the threshold

ASSUME ThresholdAssumption == RepairAfterFailures \in Nat \ {0}

VARIABLES
  at,            \* where each of the two connect loops stands
  poll,          \* the poll task
  connected,     \* _connected, with a client that is connected
  autoReconnect, \* _auto_reconnect
  failures,      \* _consecutive_connect_failures
  wasAbsent,     \* _was_absent
  hard,          \* _episode_failure_classes holds a class that is not benign
  announced,     \* what the connection callbacks heard last
  card,          \* the pairing_wedged repair issue is up
  repair,        \* repair routines that disconnect and re-arm the client
  entry,         \* the config entry
  machine,       \* the coffee machine: off, ready, or refusing us
  onAir,         \* what the presence callback would answer
  \* History of what happened, which no code reads:
  stranded       \* a loop returned success over a dead link, and none is left

loopVars    == <<at, poll>>
episodeVars == <<failures, wasAbsent, hard>>
worldVars   == <<machine, onAir>>
vars == <<loopVars, connected, autoReconnect, episodeVars, announced, card,
          repair, entry, worldVars, stranded>>

Loops   == {"initial", "reconnect"}
Stages  == {"asleep", "backoff", "woken", "waiting", "ladder", "reads", "done"}
Routines == {"auto", "user"}

Alive(loop) == at[loop] \notin {"asleep", "done"}

\* _external_loop_active
ExternalLoopActive == Alive("initial")

\* _connect_lock
Holds(loop) == at[loop] \in {"ladder", "reads"}

\* async_setup_entry has just started the background connect task.
Init ==
  /\ at = [initial |-> "asleep", reconnect |-> "done"]
  /\ poll = "off" /\ connected = FALSE /\ autoReconnect = TRUE
  /\ failures = 0 /\ wasAbsent = FALSE /\ hard = FALSE
  /\ announced = FALSE /\ card = FALSE
  /\ repair = [r \in Routines |-> "idle"]
  /\ entry = "loaded"
  /\ machine \in {"off", "ready", "refuses"} /\ onAir \in BOOLEAN
  /\ stranded = FALSE
----------------------------------------------------------------------------
(* The world.                                                               *)

\* The machine is switched on or off, or enters or leaves a wedge.
MachineChanges(to) ==
  /\ machine' = to
  /\ UNCHANGED <<loopVars, connected, autoReconnect, episodeVars, announced,
                 card, repair, entry, onAir, stranded>>

\* The presence record expires, or the owner's scanner goes away.
GoesOffAir ==
  /\ onAir' = FALSE
  /\ UNCHANGED <<loopVars, connected, autoReconnect, episodeVars, announced,
                 card, repair, entry, machine, stranded>>
----------------------------------------------------------------------------
(* Scheduling and waking the loops.                                         *)

\* _schedule_reconnect, over the loops as they stand in f.
Scheduled(f) ==
  IF f["reconnect"] = "done" THEN [f EXCEPT !["reconnect"] = "backoff"] ELSE f

\* _reconnect_event.set(): only a loop that is in _wait_backoff notices.
WokenUp(f) == [l \in Loops |-> IF f[l] = "backoff" THEN "woken" ELSE f[l]]

\* The set-up loop is only woken: no reconnect loop is spawned beside it.
AdvertSchedules == ~ ExternalLoopActive

(* set_ble_device, for an advertisement of any scanner; one from the        *)
(* preferred scanner also makes the machine present.                        *)
Advert(adopted) ==
  /\ machine # "off" /\ entry # "unloaded"
  /\ onAir' = (onAir \/ adopted)
  /\ IF ~ connected /\ autoReconnect
     THEN /\ at' = IF AdvertSchedules THEN Scheduled(WokenUp(at))
                                      ELSE WokenUp(at)
          /\ stranded' = (stranded /\ ~ AdvertSchedules)
     ELSE UNCHANGED <<at, stranded>>
  /\ UNCHANGED <<poll, connected, autoReconnect, episodeVars, announced, card,
                 repair, entry, machine>>
----------------------------------------------------------------------------
(* One loop's way to connect().                                             *)

\* Variant (before 0.23.3): the reconnect loop cancels itself.
CancelsReconnectTask_Own(loop) == TRUE

\* _connect_impl cancels the reconnect task unless it is the caller.
CancelsReconnectTask(loop) == loop # "reconnect"

\* Variant: a poll task that has not finished is left to go on.
StartedPolling_KeepOld ==
  IF poll # "off" THEN poll ELSE IF connected THEN "on" ELSE "off"

\* start_polling replaces the poll task; the new one ends at once without a link.
StartedPolling == IF connected THEN "on" ELSE "off"

\* connect() with the lock: a live link is success, else the ladder begins.
BeginCycle(loop) ==
  IF connected
  THEN at' = [at EXCEPT ![loop] = "done"] /\ poll' = StartedPolling
  ELSE /\ at' = [l \in Loops |->
                   IF l = "reconnect" /\ CancelsReconnectTask(loop) THEN "done"
                   ELSE IF l = loop THEN "ladder" ELSE at[l]]
       /\ UNCHANGED poll

\* The lock is first come, first served.
Connect(loop) ==
  IF \E l \in Loops \ {loop} : Holds(l) \/ at[l] = "waiting"
  THEN at' = [at EXCEPT ![loop] = "waiting"] /\ UNCHANGED poll
  ELSE BeginCycle(loop)

\* The top of the loop: _reconnect_loop leaves when there is nothing to do.
BackToTop(loop, isConnected) ==
  IF loop = "reconnect" /\ (isConnected \/ ~ autoReconnect) THEN "done"
  ELSE "backoff"

(* After the back-off: the presence gate, then connect().  A starved        *)
(* scanner overrides an absence.                                            *)
Attempt(loop, starved, absent) ==
  IF loop = "reconnect" /\ ~ autoReconnect
  THEN /\ at' = [at EXCEPT ![loop] = "done"]
       /\ wasAbsent' = absent /\ UNCHANGED poll
  ELSE IF onAir \/ starved
  THEN wasAbsent' = absent /\ Connect(loop)
  ELSE /\ at' = [at EXCEPT ![loop] = BackToTop(loop, connected)]
       /\ wasAbsent' = TRUE /\ UNCHANGED poll

attemptUnchanged == <<connected, autoReconnect, failures, hard,
                      announced, card, repair, entry, worldVars, stranded>>

\* The initial delay or a back-off has been served in full.
TimerElapses(loop, starved) ==
  /\ at[loop] \in {"asleep", "backoff"}
  /\ Attempt(loop, starved, wasAbsent)
  /\ UNCHANGED attemptUnchanged

\* _wait_backoff: a wake counts outside a failure episode or after an absence.
WakeHonored == failures = 0 \/ wasAbsent

CutsBackoffShort(loop, starved) ==
  /\ at[loop] = "woken" /\ WakeHonored
  /\ Attempt(loop, starved, FALSE)
  /\ UNCHANGED attemptUnchanged

IgnoresWake(loop) ==
  /\ at[loop] = "woken" /\ ~ WakeHonored
  /\ at' = [at EXCEPT ![loop] = "backoff"]
  /\ UNCHANGED <<poll, wasAbsent, attemptUnchanged>>

GetsLock(loop) ==
  /\ at[loop] = "waiting" /\ \A l \in Loops : ~ Holds(l)
  /\ BeginCycle(loop)
  /\ UNCHANGED <<wasAbsent, attemptUnchanged>>
----------------------------------------------------------------------------
(* How a cycle ends.                                                        *)

\* Variant (before 0.86.0): the set-up loop does not count its failures.
Counts_ReconnectOnly(loop) == loop = "reconnect"

Counts(loop) == TRUE

\* episode_looks_like_power_off, once this failure is recorded.
LooksLikePowerOff(hardFailure, starved) ==
  ~ (hard \/ hardFailure) /\ ~ starved /\ (wasAbsent \/ ~ onAir)

(* _trigger_repair: the card, and a repair routine unless the bond is       *)
(* mismatched or three reloads were made this hour.  Only the routine's     *)
(* local branch, without a proxy, touches the client ("pending").           *)
TriggerRepair(hardFailure, starved) ==
  IF LooksLikePowerOff(hardFailure, starved) THEN UNCHANGED <<card, repair>>
  ELSE /\ card' = TRUE
       /\ \/ UNCHANGED repair
          \/ /\ repair["auto"] = "idle"
             /\ repair' = [repair EXCEPT !["auto"] = "pending"]

\* Variant: the repair comes one failure late.
ReachesThreshold_Late(n) == n > RepairAfterFailures

ReachesThreshold(n) == n >= RepairAfterFailures

\* _note_connect_failure.  Without the callback the counter runs on; the
\* model saturates it at the threshold.
NoteFailure(loop, hardFailure, starved) ==
  IF ~ Counts(loop) THEN UNCHANGED <<failures, hard, card, repair>>
  ELSE /\ hard' = (hard \/ hardFailure)
       /\ IF ~ ReachesThreshold(failures + 1)
          THEN failures' = failures + 1 /\ UNCHANGED <<card, repair>>
          ELSE IF entry = "unloaded"
          THEN failures' = RepairAfterFailures /\ UNCHANGED <<card, repair>>
          ELSE failures' = 0 /\ TriggerRepair(hardFailure, starved)

\* connect() returned False.
CycleFails(loop, hardFailure, starved) ==
  /\ at[loop] = "ladder"
  /\ NoteFailure(loop, hardFailure, starved)
  /\ at' = [at EXCEPT ![loop] = BackToTop(loop, connected)]
  /\ UNCHANGED <<poll, connected, autoReconnect, wasAbsent, announced, entry,
                 worldVars, stranded>>

\* Variant: the count of failures survives a success.
FailuresAfterSuccess_Kept == failures

\* The next outage gets a fresh threshold.
FailuresAfterSuccess == 0

HandshakeSucceeds(loop) ==
  /\ at[loop] = "ladder" /\ machine = "ready"
  /\ at' = [at EXCEPT ![loop] = "reads"]
  /\ connected' = TRUE
  /\ failures' = FailuresAfterSuccess /\ wasAbsent' = FALSE /\ hard' = FALSE
  /\ stranded' = FALSE
  /\ UNCHANGED <<poll, autoReconnect, announced, card, repair, entry,
                 worldVars>>

\* A read raised after the handshake: the cycle fails after all.
ReadsRaise(loop, hardFailure, starved) ==
  /\ at[loop] = "reads"
  /\ connected' = FALSE
  /\ NoteFailure(loop, hardFailure, starved)
  /\ at' = [at EXCEPT ![loop] = BackToTop(loop, FALSE)]
  /\ UNCHANGED <<poll, autoReconnect, wasAbsent, announced, entry, worldVars,
                 stranded>>

(* The reads are over, with an answer or by their time-outs: the callbacks  *)
(* hear True, the card goes, the loop starts polling and returns.           *)
ReadsEnd(loop) ==
  /\ at[loop] = "reads"
  /\ announced' = TRUE /\ card' = FALSE
  /\ poll' = StartedPolling
  /\ at' = [at EXCEPT ![loop] = "done"]
  /\ stranded' = (~ connected
                    /\ (stranded \/ loop = "reconnect" \/ poll = "closing"))
  /\ UNCHANGED <<connected, autoReconnect, episodeVars, repair, entry,
                 worldVars>>
----------------------------------------------------------------------------
(* Losing the link.                                                         *)

\* Variant: the schedule is left to the next advertisement.
ScheduledAfterLoss_Never(f) == f

ScheduledAfterLoss(f) == IF autoReconnect THEN Scheduled(f) ELSE f

\* A disconnect() may be under way, which makes _on_disconnect look away.
MaybeDisconnecting ==
  entry = "unloading" \/ \E r \in Routines : repair[r] = "closing"

\* _on_disconnect of the current client, connected or still in a rung.
LinkDrops ==
  /\ connected \/ \E l \in Loops : at[l] = "ladder"
  /\ connected' = FALSE
  /\ \/ /\ announced' = FALSE
        /\ at' = ScheduledAfterLoss(at)
        /\ stranded' = (stranded /\ ~ autoReconnect)
     \/ MaybeDisconnecting /\ UNCHANGED <<announced, at, stranded>>
  /\ UNCHANGED <<poll, autoReconnect, episodeVars, card, repair, entry,
                 worldVars>>

\* _poll_loop after _max_consecutive_errors: it closes the link itself ...
PollGivesUp ==
  /\ poll = "on" /\ connected
  /\ connected' = FALSE
  /\ poll' = "closing"
  /\ UNCHANGED <<at, autoReconnect, episodeVars, announced, card, repair,
                 entry, worldVars, stranded>>

\* ... and once it is closed tells the callbacks and schedules a reconnect.
PollClosed ==
  /\ poll = "closing"
  /\ poll' = "off" /\ announced' = FALSE
  /\ at' = ScheduledAfterLoss(at)
  /\ stranded' = (stranded /\ ~ autoReconnect)
  /\ UNCHANGED <<connected, autoReconnect, episodeVars, card, repair, entry,
                 worldVars>>

\* The poll loop sees that the link is gone and returns.
PollEnds ==
  /\ poll = "on" /\ ~ connected
  /\ poll' = "off"
  /\ UNCHANGED <<at, connected, autoReconnect, episodeVars, announced, card,
                 repair, entry, worldVars, stranded>>
----------------------------------------------------------------------------
(* Repairs and unload.                                                      *)

\* disconnect(), up to its first suspension: the set-up loop is not stopped.
Disconnect ==
  /\ autoReconnect' = FALSE
  /\ connected' = FALSE
  /\ announced' = (announced /\ ~ connected)
  /\ poll' = "off"
  /\ at' = [at EXCEPT !["reconnect"] = "done"]

\* _async_force_repair, or the local branch of _async_repair_pairing.
RepairStarts(routine) ==
  /\ \/ routine = "auto" /\ repair[routine] = "pending"
     \/ routine = "user" /\ repair[routine] = "idle" /\ entry = "loaded"
  /\ repair' = [repair EXCEPT ![routine] = "closing"]
  /\ Disconnect
  /\ UNCHANGED <<episodeVars, card, entry, worldVars, stranded>>

\* The routine re-arms the client: a wake, and a loop if none is running.
Rearmed(f) == IF connected THEN WokenUp(f) ELSE Scheduled(WokenUp(f))

RepairEnds(routine) ==
  /\ repair[routine] = "closing"
  /\ repair' = [repair EXCEPT ![routine] = "idle"]
  /\ autoReconnect' = TRUE
  /\ at' = Rearmed(at)
  /\ stranded' = FALSE
  /\ UNCHANGED <<poll, connected, episodeVars, announced, card, entry,
                 worldVars>>

\* async_unload_entry disconnects, then may wait for the database to close ...
UnloadStarts ==
  /\ entry = "loaded"
  /\ entry' = "unloading"
  /\ Disconnect
  /\ UNCHANGED <<episodeVars, card, repair, worldVars, stranded>>

\* ... and then the on-unload callbacks cancel the connect task.
UnloadEnds ==
  /\ entry = "unloading"
  /\ entry' = "unloaded"
  /\ at' = [at EXCEPT !["initial"] = "done"]
  /\ UNCHANGED <<poll, connected, autoReconnect, episodeVars, announced, card,
                 repair, worldVars, stranded>>
----------------------------------------------------------------------------
Next ==
  \/ \E to \in {"off", "ready", "refuses"} : MachineChanges(to)
  \/ GoesOffAir
  \/ \E adopted \in BOOLEAN : Advert(adopted)
  \/ \E loop \in Loops, starved \in BOOLEAN :
        \/ TimerElapses(loop, starved)
        \/ CutsBackoffShort(loop, starved)
        \/ \E hardFailure \in BOOLEAN :
              \/ CycleFails(loop, hardFailure, starved)
              \/ ReadsRaise(loop, hardFailure, starved)
  \/ \E loop \in Loops :
        \/ IgnoresWake(loop)
        \/ GetsLock(loop)
        \/ HandshakeSucceeds(loop)
        \/ ReadsEnd(loop)
  \/ LinkDrops \/ PollGivesUp \/ PollClosed \/ PollEnds
  \/ \E routine \in Routines : RepairStarts(routine) \/ RepairEnds(routine)
  \/ UnloadStarts \/ UnloadEnds

Spec == Init /\ [][Next]_vars

(* Every task goes on when it can, a woken one at the event loop's next     *)
(* turn, and a ladder ends (each rung has a time-out).  The deadline of a   *)
(* back-off is fixed when it begins, so wakes that are ignored do not put   *)
(* it off.  A machine that is on advertises every second or two, so also    *)
(* during a back-off (5 s at least); one that is ready and is tried again   *)
(* and again answers in the end.                                            *)
Fairness ==
  /\ \A loop \in Loops :
       /\ SF_vars(\E starved \in BOOLEAN : TimerElapses(loop, starved))
       /\ WF_vars(GetsLock(loop))
       /\ WF_vars(\/ HandshakeSucceeds(loop)
                  \/ \E h, s \in BOOLEAN : CycleFails(loop, h, s))
       /\ WF_vars(\/ ReadsEnd(loop)
                  \/ \E h, s \in BOOLEAN : ReadsRaise(loop, h, s))
       /\ SF_vars(\/ IgnoresWake(loop)
                  \/ \E starved \in BOOLEAN : CutsBackoffShort(loop, starved))
  /\ SF_vars(\E loop \in Loops : HandshakeSucceeds(loop))
  /\ WF_vars(PollClosed)
  /\ \A routine \in Routines : WF_vars(RepairEnds(routine))
  /\ WF_vars(RepairStarts("auto"))
  /\ WF_vars(Advert(TRUE))
  /\ SF_vars(Advert(TRUE) /\ \E loop \in Loops : at[loop] = "backoff")

FairSpec == Spec /\ Fairness
----------------------------------------------------------------------------
TypeOK ==
  /\ at \in [Loops -> Stages] /\ at["reconnect"] # "asleep"
  /\ poll \in {"off", "on", "closing"}
  /\ connected \in BOOLEAN /\ autoReconnect \in BOOLEAN
  /\ failures \in 0..RepairAfterFailures
  /\ failures < RepairAfterFailures \/ entry = "unloaded"
  /\ wasAbsent \in BOOLEAN /\ hard \in BOOLEAN
  /\ announced \in BOOLEAN /\ card \in BOOLEAN
  /\ repair \in [Routines -> {"idle", "pending", "closing"}]
  /\ entry \in {"loaded", "unloading", "unloaded"}
  /\ machine \in {"off", "ready", "refuses"} /\ onAir \in BOOLEAN
  /\ stranded \in BOOLEAN

\* The client is meant to be connected and is not.
Down == entry = "loaded" /\ autoReconnect /\ ~ connected

\* A connect loop, the closing poll loop or a repair routine will act on it.
Pursued ==
  \/ \E loop \in Loops : at[loop] # "done"
  \/ poll = "closing"
  \/ \E r \in Routines : repair[r] = "closing"

(* While the client is meant to be connected and is not, some task is going *)
(* to do something about it.  The one exception is a loop whose link was    *)
(* lost under its last read and that returned success all the same.         *)
LossIsPursued == Down => Pursued \/ stranded

(* A link that is up is polled and its entities were told, once the reads   *)
(* of its cycle are over, whatever older poll task was still closing.       *)
ConnectedIsServed ==
  connected /\ entry # "unloaded" /\ (\A loop \in Loops : at[loop] # "reads")
    => poll = "on" /\ announced

(* No failure of an earlier outage, of either loop, counts against the      *)
(* next one: while a link is up the counter and the classes are clear.      *)
OutageStartsFresh == connected => failures = 0 /\ ~ hard

(* A machine that is ready and on the air is connected again and again,     *)
(* whatever outages, wake-ups, automatic repairs and coexisting loops came  *)
(* before (the reconnect loop once cancelled itself: release 0.23.3).       *)
RecoversWhenReachable ==
  <>[](machine = "ready" /\ onAir /\ entry = "loaded" /\ repair["user"] = "idle")
    => []<>connected

(* A machine that stays on the air and refuses every connect ends in a      *)
(* repair card, also when it never connected after set-up (issue #35) and   *)
(* when an earlier absence had suppressed the card.                         *)
WedgeEscalates ==
  <>[](machine = "refuses" /\ onAir /\ ~ connected /\ entry = "loaded"
       /\ repair["user"] = "idle")
    => []<>card

----------------------------------------------------------------------------
(* Sentences of the documentation that the code does not keep.              *)

(* docs/BLE_ARCHITECTURE.md, section 7: every disconnection leads to        *)
(* _schedule_reconnect() and a running _reconnect_loop().                   *)
EveryLossIsPursued == Down => Pursued

(* docs/BLE_ARCHITECTURE.md:195-196: disconnect() shuts the client down     *)
(* with _auto_reconnect=False; an unloaded client does not reconnect.       *)
UnloadStopsTheLoops == entry = "unloaded" => ~ Alive("reconnect")
----------------------------------------------------------------------------
(* The inductive invariant behind the safety properties.                    *)

\* _connect_lock is held once, by a loop whose ladder starts without a link.
LockInv ==
  /\ \A l, m \in Loops : Holds(l) /\ Holds(m) => l = m
  /\ \A l \in Loops : at[l] = "ladder" => ~ connected

\* A set-up loop in its last reads will not pursue a loss; something else must.
PursuedInv ==
  Down =>
    \/ at["reconnect"] # "done"
    \/ at["initial"] \notin {"reads", "done"}
    \/ poll = "closing"
    \/ \E r \in Routines : repair[r] = "closing"
    \/ stranded

SupervisorInv == LockInv /\ PursuedInv /\ ConnectedIsServed /\ OutageStartsFresh
=============================================================================
