---------------------------- MODULE RepairBreaker ----------------------------
(***************************************************************************)
(* What the set-up of an entry does about a connection that goes wrong     *)
(* (__init__.py): the automatic repair with its circuit breaker, the       *)
(* ESPHome proxy that a repair reloads, the manual repair service, and the *)
(* cards of a flapping link and of a bond source that is gone.  When a     *)
(* failed connect calls for a repair is module ReconnectSupervisor; here   *)
(* that call comes at any time without a link.  Machines share proxies.    *)
(***************************************************************************)
EXTENDS Integers, Sequences, FiniteSets

CONSTANTS
  Machines, \* config entries of this integration, with a client
  Proxies,  \* ESPHome entries; a proxy's scanner matches its entry
  Adapters, \* scanners of the host, which no entry matches
  Hour, Grace, \* 3600 s and SOURCE_AFFINITY_LOSS_GRACE_SECONDS, in ticks
  MaxReloads, MaxLosses, \* 3 reloads and 5 losses in an hour
  MaxTicks, \* bound: ticks a behaviour lasts
  MaxEvents,\* bound: repairs or losses a machine has in a behaviour
  NoSource  \* nothing

Sources == Proxies \cup Adapters

ASSUME BreakerAssumption ==
  /\ Proxies \cap Adapters = {} /\ NoSource \notin Sources
  /\ {Hour, Grace, MaxReloads, MaxLosses, MaxTicks, MaxEvents} \subseteq Nat

VARIABLES
  time,      \* monotonic time
  scanners,  \* sources that are registered with Home Assistant
  sees,      \* the scanners that see each machine
  owner,     \* ble_source_affinity, the source that holds the bond
  up,        \* machines with a link
  reloads,   \* proxy_reload_times of each entry
  losses,    \* disconnect_times of each entry
  missing,   \* source_missing_since of each entry
  cards,     \* the repair cards of each machine
  \* History, which no code reads:
  repaired   \* when each machine has been repaired automatically

airVars     == <<scanners, sees, owner>>
breakerVars == <<time, airVars, up, reloads, losses, missing, cards, repaired>>

BreakerInit ==
  /\ time = 0 /\ scanners = Sources /\ sees = [m \in Machines |-> {}]
  /\ owner \in [Machines -> Sources \cup {NoSource}] /\ up = {}
  /\ reloads = [m \in Machines |-> <<>>] /\ losses = [m \in Machines |-> <<>>]
  /\ missing = [m \in Machines |-> NoSource] /\ cards = [m \in Machines |-> {}]
  /\ repaired = [m \in Machines |-> <<>>]

TimePasses ==
  /\ time < MaxTicks /\ time' = time + 1
  /\ UNCHANGED <<airVars, up, reloads, losses, missing, cards, repaired>>

\* Scanners come and go, and see a machine or not.
AirChanges ==
  /\ scanners' \in SUBSET Sources
  /\ sees' \in [Machines -> SUBSET scanners']
  /\ UNCHANGED <<time, owner, up, reloads, losses, missing, cards, repaired>>

\* The times of which the window is not over, in their order.
InWindow(times, window) ==
  LET kept == {i \in DOMAIN times : time - times[i] < window}
      Rank(i) == Cardinality({j \in kept : j <= i})
  IN  [n \in 1 .. Cardinality(kept) |-> times[CHOOSE i \in kept : Rank(i) = n]]

\* Variant: the window is one tick short.
Recent_Short(times) == InWindow(times, Hour - 1)

\* What an hour has seen.
Recent(times) == InWindow(times, Hour)

-----------------------------------------------------------------------------
(* _find_proxy_entry_for_address: with an owner only the owner's entry;     *)
(* without one an entry whose scanner sees the machine, or, if no scanner   *)
(* does, the only proxy there is.                                           *)
ReloadTargets(m) ==
  IF owner[m] # NoSource THEN {owner[m]} \cap Proxies
  ELSE IF sees[m] # {} THEN sees[m] \cap Proxies
  ELSE IF Cardinality(Proxies) = 1 THEN Proxies ELSE {}

(* A repair reloads a proxy, whose scanner is gone until it is back; or, if *)
(* there is none to reload, drops the link of the machine.                  *)
Repairs(m) ==
  IF ReloadTargets(m) = {} THEN UNCHANGED <<scanners, sees>>
  ELSE \E proxy \in ReloadTargets(m) :
         /\ scanners' = scanners \ {proxy}
         /\ sees' = [n \in Machines |-> sees[n] \ {proxy}]

(* _trigger_repair, past the checks for a migration and for a machine that  *)
(* is off: the card, and a repair unless the owner's bond is broken or the  *)
(* breaker open.                                                            *)
TriggersRepair(m, bondBroken) ==
  /\ m \notin up
  /\ cards' = [cards EXCEPT ![m] = @ \cup {"pairing_wedged"}]
  /\ IF bondBroken /\ owner[m] # NoSource
     THEN UNCHANGED <<scanners, sees, reloads, repaired>>
     ELSE IF Len(Recent(reloads[m])) >= MaxReloads
     THEN /\ reloads' = [reloads EXCEPT ![m] = Recent(@)]
          /\ UNCHANGED <<scanners, sees, repaired>>
     ELSE /\ Len(repaired[m]) < MaxEvents
          /\ reloads' = [reloads EXCEPT ![m] = Append(Recent(@), time)]
          /\ repaired' = [repaired EXCEPT ![m] = Append(@, time)]
          /\ Repairs(m)
  /\ UNCHANGED <<time, owner, up, losses, missing>>

\* repair_connection walks the machines; a proxy that two share goes once.
ServiceRepairs ==
  /\ \E chosen \in [Machines -> Sources \cup {NoSource}] :
       /\ \A m \in Machines : IF ReloadTargets(m) = {} THEN chosen[m] = NoSource
                              ELSE chosen[m] \in ReloadTargets(m)
       /\ scanners' = scanners \ {chosen[m] : m \in Machines}
       /\ sees' = [m \in Machines |-> sees[m] \cap scanners']
  /\ UNCHANGED <<time, owner, up, reloads, losses, missing, cards, repaired>>

-----------------------------------------------------------------------------
(* _track_connection and _on_source_learned: a link clears the cards of the *)
(* connection, and names the source that carries it the owner of the bond.  *)
LinkUp(m) ==
  /\ m \notin up /\ up' = up \cup {m}
  /\ \E source \in sees[m] :
       /\ owner[m] \in {NoSource, source}
       /\ owner' = [owner EXCEPT ![m] = source]
  /\ cards' = [cards EXCEPT ![m] = @ \ {"pairing_wedged", "connection_unstable",
                                        "source_unavailable"}]
  /\ UNCHANGED <<time, scanners, sees, reloads, losses, missing, repaired>>

LinkDown(m) ==
  /\ m \in up /\ up' = up \ {m} /\ Len(losses[m]) < MaxEvents
  /\ losses' = [losses EXCEPT ![m] = Recent(Append(@, time))]
  /\ cards' = IF Len(losses'[m]) >= MaxLosses
              THEN [cards EXCEPT ![m] = @ \cup {"connection_unstable"}] ELSE cards
  /\ UNCHANGED <<time, airVars, reloads, missing, repaired>>

(* _source_available, asked before each attempt to connect.                 *)
ChecksSource(m) ==
  /\ m \notin up /\ owner[m] # NoSource
  /\ IF owner[m] \in scanners
     THEN /\ missing' = [missing EXCEPT ![m] = NoSource]
          /\ cards' = [cards EXCEPT ![m] = @ \ {"source_unavailable"}]
     ELSE IF sees[m] = {} THEN missing' = [missing EXCEPT ![m] = NoSource] /\ UNCHANGED cards
     ELSE IF missing[m] = NoSource
     THEN missing' = [missing EXCEPT ![m] = time] /\ UNCHANGED cards
     ELSE /\ cards' = IF time - missing[m] >= Grace
                      THEN [cards EXCEPT ![m] = @ \cup {"source_unavailable"}] ELSE cards
          /\ UNCHANGED missing
  /\ UNCHANGED <<time, airVars, up, reloads, losses, repaired>>

BreakerNext ==
  \/ TimePasses \/ AirChanges \/ ServiceRepairs
  \/ \E m \in Machines :
       \/ (\E bondBroken \in BOOLEAN : TriggersRepair(m, bondBroken))
       \/ LinkUp(m) \/ LinkDown(m) \/ ChecksSource(m)

BreakerSpec == BreakerInit /\ [][BreakerNext]_breakerVars
-----------------------------------------------------------------------------
(* Automatic repairs of one set-up are rationed in every hour, over links   *)
(* that come up in between, whatever the breaker has forgotten.             *)
ReloadsAreRationed ==
  \A m \in Machines : \A i, j \in DOMAIN repaired[m] :
    j - i >= MaxReloads => repaired[m][j] - repaired[m][i] >= Hour
=============================================================================
