--------------------------- MODULE ConfigEntries ---------------------------
(***************************************************************************)
(* From the created entry to its removal: async_setup_entry,               *)
(* async_unload_entry and the update listener of __init__.py, for several  *)
(* entries that share one domain: the sidebar panel, the services, the     *)
(* Sommelier database, all of them set up with the first entry and torn    *)
(* down with the last.  The entries are made by the flows of SetupFlow.    *)
(*                                                                         *)
(* A step is what a set-up or an unload does between two awaits on which   *)
(* another entry, the panel or the user can get in.  Home Assistant keeps  *)
(* the set-up and the unload of one entry apart; those of two entries it   *)
(* runs side by side.                                                      *)
(***************************************************************************)
EXTENDS SetupFlow, Integers

CONSTANT MaxConnections  \* bound on the connections to the database at once

ASSUME MaxConnectionsAssumption == MaxConnections \in Nat \ {0}

VARIABLES
  life,       \* where each entry stands
  then,       \* what follows its unload: set-up, rest or removal
  forwarded,  \* the entries whose platforms are set up
  panelFlag,  \* hass.data: panel_registered
  panel,      \* the sidebar shows the panel
  services,   \* the domain's services are registered
  commands,   \* the WebSocket commands are registered, for good
  domainDb,   \* hass.data: sommelier_db
  connected,  \* the connections to the database that are open
  opening,    \* the connection each caller of _async_get_db waits for
  probeDb,    \* the database each client's capabilities probe writes to
  stale,      \* the entries whose client was made with older options
  again       \* the entries the update listener wants reloaded once more

sharedVars == <<panelFlag, panel, services, commands>>
dbVars     == <<domainDb, connected, opening, probeDb>>
optionVars == <<stale, again>>
vars == <<flowVars, life, then, forwarded, sharedVars, dbVars, optionVars>>

SettingUp == {"starting", "opening", "forwarding", "static_paths"}
Unloading == {"unload_platforms", "disconnecting", "closing"}
AtRest    == {"failed", "unloaded", "loaded", "stuck"}
Lives     == {"absent", "created"} \cup SettingUp \cup Unloading \cup AtRest

\* The callers of _async_get_db: set-ups, and a command of the panel.
Callers == Flows \cup {"command"}
Connections == 1..MaxConnections
Closed == 0

Init ==
  /\ FlowInit
  /\ life = [e \in Flows |-> "absent"] /\ then = [e \in Flows |-> "rest"]
  /\ forwarded = {}
  /\ panelFlag = FALSE /\ panel = FALSE /\ services = FALSE /\ commands = FALSE
  /\ domainDb = Closed /\ connected = {}
  /\ opening = [c \in Callers |-> Closed]
  /\ probeDb = [e \in Flows |-> Closed]
  /\ stale = {} /\ again = {}

Becomes(e, l) == life' = [life EXCEPT ![e] = l]

-----------------------------------------------------------------------------
(* _async_get_db.                                                           *)

\* SommelierDB(path) and its async_setup: a connection of its own.
Opens(c) ==
  /\ domainDb = Closed /\ opening[c] = Closed
  /\ \E n \in Connections \ connected :
       /\ \A k \in Connections \ connected : n <= k
       /\ connected' = connected \cup {n}
       /\ opening' = [opening EXCEPT ![c] = n]
  /\ UNCHANGED <<domainDb, probeDb>>

\* The set-up of the database is done: whoever comes last is the domain's.
Opened(c) ==
  /\ opening[c] # Closed
  /\ domainDb' = opening[c]
  /\ opening' = [opening EXCEPT ![c] = Closed]
  /\ UNCHANGED connected

OpenFails(c) ==
  /\ opening[c] # Closed
  /\ connected' = connected \ {opening[c]}
  /\ opening' = [opening EXCEPT ![c] = Closed]
  /\ UNCHANGED <<domainDb, probeDb>>

(* A command of the panel, which outlives every entry.                      *)
CommandAsks ==
  /\ commands
  /\ \/ Opens("command")
     \/ Opened("command") /\ UNCHANGED probeDb
     \/ OpenFails("command")
  /\ UNCHANGED <<flowVars, life, then, forwarded, sharedVars, optionVars>>

-----------------------------------------------------------------------------
(* async_setup_entry.                                                       *)

\* Home Assistant sets the new entry up; so it does after a reload.
Starts(e) ==
  /\ entry[e] # None /\ life[e] \in {"absent", "created"}
  /\ Becomes(e, "starting")
  /\ stale' = stale \ {e}
  /\ UNCHANGED <<flowVars, then, forwarded, sharedVars, dbVars, again>>

(* Source store, BlueZ hint, logo, manifest and narration are behind it:    *)
(* the database is next, awaited only when it must be opened.               *)
GetsDb(e) ==
  /\ life[e] = "starting"
  /\ \/ /\ domainDb # Closed
        /\ probeDb' = [probeDb EXCEPT ![e] = domainDb]
        /\ Becomes(e, "forwarding")
        /\ UNCHANGED <<domainDb, connected, opening>>
     \/ Opens(e) /\ Becomes(e, "opening")
  /\ UNCHANGED <<flowVars, then, forwarded, sharedVars, optionVars>>

DbOpened(e) ==
  /\ life[e] = "opening"
  /\ \/ /\ Opened(e) /\ probeDb' = [probeDb EXCEPT ![e] = opening[e]]
        /\ Becomes(e, "forwarding")
     \/ OpenFails(e) /\ Becomes(e, "failed")
  /\ UNCHANGED <<flowVars, then, forwarded, sharedVars, optionVars>>

(* The bond is restored, the callbacks are wired, the platforms forwarded;  *)
(* Home Assistant refuses platforms that a failed set-up has left behind.   *)
(* Then, in one step, the services and commands, up to the static paths.    *)
Forwards(e) ==
  /\ life[e] = "forwarding"
  /\ IF e \in forwarded
     THEN Becomes(e, "failed") /\ UNCHANGED <<forwarded, sharedVars>>
     ELSE /\ forwarded' = forwarded \cup {e}
          /\ services' = TRUE /\ commands' = TRUE
          /\ Becomes(e, IF panelFlag THEN "loaded" ELSE "static_paths")
          /\ UNCHANGED <<panelFlag, panel>>
  /\ UNCHANGED <<flowVars, then, dbVars, optionVars>>

(* _async_register_panel goes on: Home Assistant raises when the panel is   *)
(* there already, put there by a set-up that was past the flag as well.     *)
RegistersPanel(e) ==
  /\ life[e] = "static_paths"
  /\ IF panel
     THEN Becomes(e, "failed") /\ UNCHANGED <<panelFlag, panel>>
     ELSE panel' = TRUE /\ panelFlag' = TRUE /\ Becomes(e, "loaded")
  /\ UNCHANGED <<flowVars, then, forwarded, services, commands, dbVars,
                 optionVars>>

-----------------------------------------------------------------------------
(* async_unload_entry.                                                      *)

UnloadFor(e, next) ==
  /\ Becomes(e, "unload_platforms")
  /\ then' = [then EXCEPT ![e] = next]

\* The user reloads, disables or removes a loaded entry.
UserUnloads(e) ==
  /\ life[e] = "loaded"
  /\ \E next \in {"set-up", "rest", "removal"} : UnloadFor(e, next)
  /\ UNCHANGED <<flowVars, forwarded, sharedVars, dbVars, optionVars>>

\* unload_ok is false: the platforms stay alive, and so does all they use.
Refused(e) ==
  /\ Becomes(e, "stuck") /\ again' = again \ {e}
  /\ then' = [then EXCEPT ![e] = "rest"]

PlatformsUnloaded(e) ==
  /\ life[e] = "unload_platforms"
  /\ \/ /\ Becomes(e, "disconnecting") /\ forwarded' = forwarded \ {e}
        /\ UNCHANGED <<again, then>>
     \/ Refused(e) /\ UNCHANGED forwarded
  /\ UNCHANGED <<flowVars, sharedVars, dbVars, stale>>

\* Variant: entries that are not loaded do not count.
Remaining_Loaded(e) == {g \in Flows \ {e} : life[g] = "loaded"}

\* The domain's other entries, disabled or failed ones included.
Remaining(e) == {g \in Flows \ {e} : entry[g] # None}

Unloaded(e) ==
  /\ then' = [then EXCEPT ![e] = "rest"]
  /\ again' = IF then[e] = "set-up" THEN again ELSE again \ {e}
  /\ IF then[e] = "removal"
     THEN /\ Becomes(e, "absent") /\ stale' = stale \ {e}
          /\ entry' = [entry EXCEPT ![e] = None]
          /\ UNCHANGED <<step, draft, open, bluez>>
     ELSE /\ Becomes(e, IF then[e] = "set-up" THEN "created" ELSE "unloaded")
          /\ UNCHANGED <<flowVars, stale>>

\* Variant: the database is forgotten once it is closed.
Forgotten_Late == domainDb

\* sommelier_db is popped before it is closed.
Forgotten == Closed

(* The client is disconnected.  The last entry takes the panel with it at   *)
(* once, and waits for the database to close.                               *)
Disconnected(e) ==
  /\ life[e] = "disconnecting"
  /\ probeDb' = [probeDb EXCEPT ![e] = Closed]
  /\ IF Remaining(e) # {}
     THEN Unloaded(e) /\ UNCHANGED <<panelFlag, panel, domainDb, connected>>
     ELSE /\ panel' = (panel /\ ~ panelFlag) /\ panelFlag' = FALSE
          /\ domainDb' = Forgotten /\ connected' = connected \ {domainDb}
          /\ Becomes(e, "closing")
          /\ UNCHANGED <<flowVars, then, optionVars>>
  /\ UNCHANGED <<forwarded, services, commands, opening>>

\* The database is closed; the services go last.
DbClosed(e) ==
  /\ life[e] = "closing"
  /\ domainDb' = IF domainDb \in connected THEN domainDb ELSE Closed
  /\ services' = FALSE
  /\ Unloaded(e)
  /\ UNCHANGED <<forwarded, panelFlag, panel, commands, connected,
                 opening, probeDb>>

-----------------------------------------------------------------------------
(* An entry at rest is set up again or removed without an unload.           *)
UserEnables(e) ==
  /\ life[e] \in {"unloaded", "failed"}
  /\ Becomes(e, "created")
  /\ UNCHANGED <<flowVars, then, forwarded, sharedVars, dbVars, optionVars>>

UserRemoves(e) ==
  /\ life[e] \in {"unloaded", "failed"}
  /\ Becomes(e, "absent")
  /\ entry' = [entry EXCEPT ![e] = None]
  /\ forwarded' = forwarded \ {e}
  /\ stale' = stale \ {e} /\ again' = again \ {e}
  /\ UNCHANGED <<step, draft, open, bluez, then, sharedVars, dbVars>>

\* The update listener is registered by the end of the set-up and dropped by
\* the end of the unload.
Listening(e) == life[e] \in {"loaded", "stuck"} \cup Unloading

(* A form of the options flow, or of the reconfiguration, is saved: it may  *)
(* have been opened before the reload that is under way.                    *)
Saves(e) ==
  /\ entry[e] # None
  /\ stale' = stale \cup {e}
  /\ IF life[e] = "loaded"
     THEN UnloadFor(e, "set-up") /\ UNCHANGED again
     ELSE /\ again' = IF Listening(e) /\ life[e] # "stuck"
                      THEN again \cup {e} ELSE again
          /\ UNCHANGED <<life, then>>
  /\ UNCHANGED <<flowVars, forwarded, sharedVars, dbVars>>

\* The reload asked for during the reload before.
ReloadsAgain(e) ==
  /\ e \in again
  /\ \/ life[e] = "loaded" /\ UnloadFor(e, "set-up")
     \/ life[e] = "failed" /\ Becomes(e, "created") /\ UNCHANGED then
  /\ again' = again \ {e}
  /\ UNCHANGED <<flowVars, forwarded, sharedVars, dbVars, stale>>

Next ==
  \/ FlowNext /\ UNCHANGED <<life, then, forwarded, sharedVars, dbVars, optionVars>>
  \/ CommandAsks
  \/ \E e \in Flows :
       \/ Starts(e) \/ GetsDb(e) \/ DbOpened(e) \/ Forwards(e)
       \/ RegistersPanel(e)
       \/ UserUnloads(e) \/ PlatformsUnloaded(e) \/ Disconnected(e)
       \/ DbClosed(e)
       \/ UserEnables(e) \/ UserRemoves(e) \/ Saves(e) \/ ReloadsAgain(e)

Spec == Init /\ [][Next]_vars
-----------------------------------------------------------------------------
TypeOK ==
  /\ FlowTypeOK
  /\ life \in [Flows -> Lives]
  /\ then \in [Flows -> {"set-up", "rest", "removal"}]
  /\ {forwarded, stale, again} \subseteq SUBSET Flows
  /\ {panelFlag, panel, services, commands} \subseteq BOOLEAN
  /\ domainDb \in Connections \cup {Closed}
  /\ connected \subseteq Connections
  /\ opening \in [Callers -> Connections \cup {Closed}]
  /\ probeDb \in [Flows -> Connections \cup {Closed}]

(* While an entry is loaded, or stuck in an unload its platforms refused,   *)
(* the panel is there and the database its probe writes to is open: neither *)
(* the unload of another entry nor a set-up beside it takes them away.      *)
ServedWhileLoaded ==
  \A e \in Flows :
    life[e] \in {"loaded", "stuck"} => panel /\ probeDb[e] \in connected

(* The handle that _async_get_db hands out without opening is connected.    *)
SharedDbIsOpen == domainDb # Closed => domainDb \in connected

-----------------------------------------------------------------------------
(* Sentences of the documentation that the code does not keep.              *)

(* __init__.py, _async_unregister_panel: "Remove the panel when the last    *)
(* config entry is unloaded."  Disabled entries still count as remaining.   *)
PanelGoesWithTheLast ==
  (\A e \in Flows : entry[e] = None \/ life[e] = "unloaded") => ~ panel

(* __init__.py, _async_register_panel: "Idempotent — repeated calls (e.g.   *)
(* when a second config entry is set up while the integration is already    *)
(* loaded) are safely ignored."  Two set-ups meet between flag and panel.   *)
SecondSetupIsHarmless ==
  [][\A e \in Flows : RegistersPanel(e) => life'[e] = "loaded"]_vars

(* __init__.py, _async_update_listener: a saved option "Triggers a full     *)
(* reload of the config entry".  During a set-up nobody listens.            *)
SavedOptionsRun ==
  \A e \in stale : life[e] # "loaded"

(* __init__.py, _async_register_services: "(idempotent)".  The last unload  *)
(* takes them from an entry that was set up while the database closed.      *)
LoadedHasServices ==
  \A e \in Flows : life[e] = "loaded" => services
=============================================================================
