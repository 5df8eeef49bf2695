------------------------------ MODULE ClockSync ------------------------------
(***************************************************************************)
(* The clock of the machine: ClockSyncCoordinator and the sync_clock       *)
(* service (__init__.py).  The machine's minutes are read, compared with   *)
(* Home Assistant's and written, over two awaits between which time goes   *)
(* by, the link comes and goes, people set the clock, and other syncs run. *)
(* The option that turns the coordinator off is a set-up in which none of  *)
(* its steps is taken.                                                     *)
(***************************************************************************)
EXTENDS Integers

CONSTANTS
  Day,       \* minutes of a day, 1440
  Threshold, \* auto_sync_drift_minutes
  Throttle,  \* CLOCK_SYNC_THROTTLE_HOURS, in minutes
  Daily,     \* the minute of auto_sync_daily_time
  Syncs,     \* tasks that may overlap
  MaxMinutes,\* bound: minutes a behaviour lasts
  Never      \* nothing

ASSUME ClockAssumption ==
  /\ Day \in Nat \ {0} /\ Threshold \in Nat /\ Throttle \in Nat
  /\ Daily \in 0..Day-1 /\ MaxMinutes \in Nat /\ Never \notin Int

VARIABLES
  now,      \* minutes since the set-up began
  clock,    \* the machine's minute of the day
  clockLink,\* client.connected
  lastSync, \* _last_sync
  syncs     \* the tasks: what each is doing, what for, what it read, writes and when

clockVars == <<now, clock, clockLink, lastSync, syncs>>

NoSync == [at |-> "idle", source |-> "none", machine |-> Never, ha |-> Never,
           decided |-> Never]

HaMinute(t) == t % Day

ClockInit ==
  /\ now = 0 /\ clock \in 0..Day-1 /\ clockLink = FALSE
  /\ lastSync = Never /\ syncs = [s \in Syncs |-> NoSync]

Forced(s) == syncs[s].source # "reconnect"

\* Variant: the plain difference, which takes 23:59 and 00:00 for a day apart.
Drift_Plain(a, b) == IF a >= b THEN a - b ELSE b - a

\* _clock_circular_drift
Drift(a, b) ==
  LET difference == IF a >= b THEN a - b ELSE b - a
  IN  IF difference <= Day - difference THEN difference ELSE Day - difference

-----------------------------------------------------------------------------
(* A reconnect, the daily tick or a call of the service starts a sync.      *)

Starts(source) ==
  \E s \in Syncs :
    /\ syncs[s] = NoSync
    /\ syncs' = [syncs EXCEPT ![s] = [NoSync EXCEPT !.at = "check", !.source = source]]

ClockLinkUp ==
  /\ ~ clockLink /\ clockLink' = TRUE
  /\ Starts("reconnect") /\ UNCHANGED <<now, clock, lastSync>>

ClockLinkDown ==
  /\ clockLink /\ clockLink' = FALSE
  /\ UNCHANGED <<now, clock, lastSync, syncs>>

Ends(s) == syncs' = [syncs EXCEPT ![s] = NoSync]

\* Time goes by for both; at the daily minute the tick is due.
MinutePasses ==
  /\ now < MaxMinutes /\ now' = now + 1
  /\ clock' = (clock + 1) % Day
  /\ IF HaMinute(now + 1) = Daily THEN Starts("daily") ELSE UNCHANGED syncs
  /\ UNCHANGED <<clockLink, lastSync>>

\* A person sets the machine's clock.
PersonSetsClock ==
  /\ clock' \in 0..Day-1 /\ UNCHANGED <<now, clockLink, lastSync, syncs>>

(* sync_clock writes the minute of the call, without a look at the machine; *)
(* a machine that is not connected is refused.                              *)
ServiceAsks ==
  /\ clockLink
  /\ \E s \in Syncs :
       /\ syncs[s] = NoSync
       /\ syncs' = [syncs EXCEPT ![s] = [NoSync EXCEPT !.at = "write",
                      !.source = "service", !.ha = HaMinute(now)]]
  /\ UNCHANGED <<now, clock, clockLink, lastSync>>

-----------------------------------------------------------------------------
(* _trigger_sync                                                            *)

Throttled(s) ==
  ~ Forced(s) /\ lastSync # Never /\ now - lastSync < Throttle

Checks(s) ==
  /\ syncs[s].at = "check"
  /\ IF clockLink /\ ~ Throttled(s)
     THEN syncs' = [syncs EXCEPT ![s].at = "read"]
     ELSE Ends(s)
  /\ UNCHANGED <<now, clock, clockLink, lastSync>>

\* The machine answers with its minute, or the read fails.
Reads(s) ==
  /\ syncs[s].at = "read"
  /\ \/ clockLink /\ syncs' = [syncs EXCEPT ![s].at = "compare", ![s].machine = clock]
     \/ Ends(s)
  /\ UNCHANGED <<now, clock, clockLink, lastSync>>

\* When the answer is taken up, the minute of Home Assistant is fixed with it.
Decides(s) ==
  /\ syncs[s].at = "compare"
  /\ IF Drift(syncs[s].machine % Day, HaMinute(now)) < Threshold /\ ~ Forced(s)
     THEN Ends(s) /\ lastSync' = now
     ELSE /\ syncs' = [syncs EXCEPT ![s].at = "write", ![s].ha = HaMinute(now),
                                    ![s].decided = now]
          /\ UNCHANGED lastSync
  /\ UNCHANGED <<now, clock, clockLink>>

\* A rejected write counts as a sync too; only the coordinator keeps count.
Writes(s) ==
  /\ syncs[s].at = "write" /\ Ends(s)
  /\ \/ clockLink /\ clock' = syncs[s].ha
     \/ UNCHANGED clock
  /\ lastSync' = IF syncs[s].source = "service" THEN lastSync ELSE syncs[s].decided
  /\ UNCHANGED <<now, clockLink>>

ClockNext ==
  \/ ClockLinkUp \/ ClockLinkDown \/ MinutePasses \/ PersonSetsClock \/ ServiceAsks
  \/ \E s \in Syncs : Checks(s) \/ Reads(s) \/ Decides(s) \/ Writes(s)

ClockSpec == ClockInit /\ [][ClockNext]_clockVars
-----------------------------------------------------------------------------
\* Two minutes of the day are within d of one another, however it wraps.
Within(a, b, d) == \E k \in (-d)..d : (a + k) % Day = b

(* After a reconnect the machine's clock is written exactly when what was   *)
(* read is off by the threshold or more around the dial, midnight included; *)
(* a clock that is right is left alone.                                     *)
DriftDecides ==
  [][\A s \in Syncs :
       Decides(s) /\ syncs[s].source = "reconnect"
         => (syncs'[s].at = "write" <=>
               \A d \in 0..(Threshold - 1) : ~ Within(syncs[s].machine, HaMinute(now), d))]_clockVars

(* Comment of _on_daily_tick: at least one sync in 24 h.  A tick that finds *)
(* the link down, or whose write is rejected, is not made up for.           *)
SyncedEveryDay == now < 2 * Day \/ (lastSync # Never /\ now - lastSync <= 2 * Day)
=============================================================================
