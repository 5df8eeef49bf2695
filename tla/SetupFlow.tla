----------------------------- MODULE SetupFlow -----------------------------
(***************************************************************************)
(* The config flow of config_flow.py, from the picker, the manual form or  *)
(* the discovery card to the created entry, with the D-Bus pairing of      *)
(* ble_agent.py that its last form waits for.  Several flows are open at   *)
(* once, for the same machine as well; a step is what a flow does between  *)
(* two suspensions.                                                        *)
(*                                                                         *)
(* A flow and the entry it creates share one name.  What the scanners see  *)
(* and what BlueZ answers is chosen anew at every question, for both       *)
(* change under an open form.  Home Assistant is taken at the word of the  *)
(* comment in async_step_pair: it lets two flows for one machine go on.    *)
(***************************************************************************)
EXTENDS FiniteSets

CONSTANTS
  Flows,
  Machines,
  Telling,  \* the machines whose advertised name tells their brand
  None      \* no machine

ASSUME MachinesAssumption == None \notin Machines /\ Telling \subseteq Machines

VARIABLES
  step,   \* where each flow stands
  draft,  \* _address of each flow, whether its _name tells the brand, and
          \* where _brand_slug comes from
  open,   \* the flows whose dialog is open
  bluez,  \* what each flow holds on the system bus
  entry   \* the machine of the entry each flow has created

flowVars == <<step, draft, open, bluez, entry>>

Forms   == {"user", "manual", "bluetooth_confirm", "brand", "pair"}
Pairing == {"connect", "register", "lookup", "discover", "pair_call"}
Ends    == {"ok", "cannot_connect", "pairing_timeout", "pairing_failed"}
Steps   == {"idle"} \cup Forms \cup Pairing \cup Ends

Reaches   == {"nowhere", "advertisement_only", "remote", "local"}
Resources == {"bus", "agent", "discovery"}

Brands    == {"unknown", "told", "chosen"}

NoDraft == [machine |-> None, telling |-> FALSE, brand |-> "unknown"]

FlowInit ==
  /\ step = [f \in Flows |-> "idle"]
  /\ draft = [f \in Flows |-> NoDraft]
  /\ open = {}
  /\ bluez = [f \in Flows |-> {}]
  /\ entry = [f \in Flows |-> None]

\* _abort_if_unique_id_configured: Home Assistant knows the machine already.
Configured(m) == \E f \in Flows : entry[f] = m

-----------------------------------------------------------------------------
(* The forms before pairing.                                                *)

Goes(f, s) == step' = [step EXCEPT ![f] = s]

\* The dialog closes: the flow is over, with or without an entry.
Closes(f) ==
  /\ step' = [step EXCEPT ![f] = "idle"]
  /\ draft' = [draft EXCEPT ![f] = NoDraft]
  /\ open' = open \ {f}

\* async_step_brand without input: detect_from_advertisement reads the name,
\* and the user is asked when it says nothing.
Identified(f, m, telling) ==
  /\ draft' = [draft EXCEPT ![f] = [machine |-> m, telling |-> telling,
                                   brand |-> IF telling THEN "told" ELSE "unknown"]]
  /\ Goes(f, IF telling THEN "pair" ELSE "brand")

(* A user's flow shows the picker, or the manual form when neither Home     *)
(* Assistant nor the direct scan has found a machine.                       *)
UserStarts(f) ==
  /\ step[f] = "idle" /\ f \notin open /\ entry[f] = None
  /\ \E found \in SUBSET Machines : Goes(f, IF found = {} THEN "manual" ELSE "user")
  /\ open' = open \cup {f}
  /\ UNCHANGED <<draft, bluez, entry>>

AsksForManual(f) ==
  /\ step[f] = "user"
  /\ Goes(f, "manual")
  /\ UNCHANGED <<draft, open, bluez, entry>>

Picks(f, m) ==
  /\ step[f] = "user"
  /\ IF Configured(m) THEN Closes(f)
     ELSE Identified(f, m, m \in Telling) /\ UNCHANGED open
  /\ UNCHANGED <<bluez, entry>>

\* The typed name is read like an advertised one; an address of another
\* length than 12 digits only shows the form again.
TypesAddress(f, m, telling) ==
  /\ step[f] = "manual"
  /\ IF Configured(m) THEN Closes(f)
     ELSE Identified(f, m, telling) /\ UNCHANGED open
  /\ UNCHANGED <<bluez, entry>>

\* async_step_bluetooth: Home Assistant has seen a machine nobody configured.
IsDiscovered(f, m) ==
  /\ step[f] = "idle" /\ f \notin open /\ entry[f] = None /\ ~ Configured(m)
  /\ draft' = [draft EXCEPT ![f].machine = m, ![f].telling = (m \in Telling)]
  /\ Goes(f, "bluetooth_confirm")
  /\ open' = open \cup {f}
  /\ UNCHANGED <<bluez, entry>>

Confirms(f) ==
  /\ step[f] = "bluetooth_confirm"
  /\ Identified(f, draft[f].machine, draft[f].telling)
  /\ UNCHANGED <<open, bluez, entry>>

ChoosesBrand(f) ==
  /\ step[f] = "brand"
  /\ draft' = [draft EXCEPT ![f].brand = "chosen"]
  /\ Goes(f, "pair")
  /\ UNCHANGED <<open, bluez, entry>>

(* The dialog is closed.  A pairing that runs goes on, for nobody.          *)
Abandons(f) ==
  /\ f \in open
  /\ IF step[f] \in Forms THEN Closes(f)
     ELSE open' = open \ {f} /\ UNCHANGED <<step, draft>>
  /\ UNCHANGED <<bluez, entry>>

-----------------------------------------------------------------------------
(* async_step_pair and _async_try_pair.                                     *)

\* Advertisement-only scanners: the form is shown again, with the reason.
CannotReach(f, via) == via = "advertisement_only"

SubmitsPair(f, via) ==
  /\ step[f] = "pair" /\ ~ CannotReach(f, via)
  /\ \/ Goes(f, "ok")                       \* a remote scanner, or no dbus-fast
     \/ via # "remote" /\ Goes(f, "connect")
  /\ UNCHANGED <<draft, open, bluez, entry>>

\* Variant: the check made when the form was opened is trusted.
MayCreate_Stale(f) == TRUE

\* The check at the moment the entry is created.
MayCreate(f) == ~ Configured(draft[f].machine)

(* The result is back.  A failure shows the form with its reason.           *)
Answered(f) ==
  /\ step[f] \in Ends
  /\ IF f \notin open \/ (step[f] = "ok" /\ ~ MayCreate(f))
     THEN Closes(f) /\ UNCHANGED entry
     ELSE IF step[f] = "ok"
     THEN Closes(f) /\ entry' = [entry EXCEPT ![f] = draft[f].machine]
     ELSE Goes(f, "pair") /\ UNCHANGED <<draft, open, entry>>
  /\ UNCHANGED bluez

-----------------------------------------------------------------------------
(* async_pair_device.  BlueZ forgets what a client of the bus held when the *)
(* client disconnects.                                                      *)

\* Variant: the early returns skip the clean-up.
Cleaned_Late(f, result) ==
  IF result = "ok" THEN bluez ELSE [bluez EXCEPT ![f] = {}]

\* The finally clause: _cleanup, whose last act is to leave the bus.
Cleaned(f, result) == [bluez EXCEPT ![f] = {}]

Returns(f, result) ==
  /\ Goes(f, result)
  /\ bluez' = Cleaned(f, result)

\* Both a host without a system bus and one without hci0 report "ok".
BusConnects(f) ==
  /\ step[f] = "connect"
  /\ \/ /\ Goes(f, "register")
        /\ bluez' = [bluez EXCEPT ![f] = @ \cup {"bus"}]
     \/ Returns(f, "ok")
  /\ UNCHANGED <<draft, open, entry>>

AgentRegisters(f) ==
  /\ step[f] = "register"
  /\ \/ /\ Goes(f, "lookup")
        /\ bluez' = [bluez EXCEPT ![f] = @ \cup {"agent"}]
     \/ Returns(f, "pairing_failed")
  /\ UNCHANGED <<draft, open, entry>>

\* Paired, known to BlueZ but not paired, or unknown to it.
LooksUp(f) ==
  /\ step[f] = "lookup"
  /\ \/ Returns(f, "ok")
     \/ Goes(f, "pair_call") /\ UNCHANGED bluez
     \/ /\ Goes(f, "discover")
        /\ bluez' = [bluez EXCEPT ![f] = @ \cup {"discovery"}]
  /\ UNCHANGED <<draft, open, entry>>

Discovers(f) ==
  /\ step[f] = "discover"
  /\ \/ Goes(f, "pair_call") /\ UNCHANGED bluez
     \/ Returns(f, "cannot_connect")
  /\ UNCHANGED <<draft, open, entry>>

\* _pair_and_trust; AlreadyExists is a success, trusting is best effort.
PairCallEnds(f) ==
  /\ step[f] = "pair_call"
  /\ \E result \in {"ok", "pairing_timeout", "pairing_failed"} : Returns(f, result)
  /\ UNCHANGED <<draft, open, entry>>

Pairs(f) ==
  \/ BusConnects(f) \/ AgentRegisters(f) \/ LooksUp(f)
  \/ Discovers(f) \/ PairCallEnds(f)

FlowNext ==
  \E f \in Flows :
    \/ UserStarts(f) \/ AsksForManual(f) \/ Confirms(f) \/ Abandons(f)
    \/ \E m \in Machines :
         \/ Picks(f, m) \/ IsDiscovered(f, m)
         \/ \E telling \in BOOLEAN : TypesAddress(f, m, telling)
    \/ ChoosesBrand(f)
    \/ \E via \in Reaches : SubmitsPair(f, via)
    \/ Pairs(f) \/ Answered(f)
-----------------------------------------------------------------------------
FlowTypeOK ==
  /\ step \in [Flows -> Steps]
  /\ draft \in [Flows -> [machine : Machines \cup {None},
                          telling : BOOLEAN, brand : Brands]]
  /\ open \subseteq Flows
  /\ bluez \in [Flows -> SUBSET Resources]
  /\ entry \in [Flows -> Machines \cup {None}]
  /\ \A f \in Flows : step[f] \in {"pair"} \cup Pairing \cup Ends
                       => draft[f].brand # "unknown"

(* Two flows for one machine, the discovery card and the manual form, never *)
(* make two entries, however long the pairing of each takes (issue #10).    *)
OneEntryPerMachine ==
  \A f, g \in Flows :
    /\ f # g /\ entry[f] # None /\ entry[g] # None
    => entry[f] # entry[g]

(* However a pairing ends, and whether or not anybody still waits for it,   *)
(* it leaves no agent, no discovery and no connection on the system bus.    *)
PairingLeavesNothing ==
  \A f \in Flows : step[f] \notin Pairing => bluez[f] = {}
=============================================================================
