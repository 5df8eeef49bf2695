------------------------------ MODULE NivonaBrew ------------------------------
(***************************************************************************)
(* Brewing on a Nivona, whose recipes cannot be sent: the overrides of the *)
(* sliders are written, one by one, to a temporary recipe that the machine *)
(* has once for all selectors, and a start then says whether to use it     *)
(* (brew_nivona, _ble_commands.py; the sliders and buttons of number.py    *)
(* and button.py).  Next to it the MyCoffee slots: their registers, the    *)
(* client's copy of them, and the buttons that go by the copy.             *)
(* What became of the temporary recipe before a brew is unknown, so the    *)
(* registers start with anything.                                          *)
(***************************************************************************)
EXTENDS FiniteSets

CONSTANTS
  Fields,  \* fields of an override, _OVERRIDE_FIELDS
  Amounts, \* values of a slider
  Default, \* the value a slider starts with
  Drinks,  \* recipe selectors
  Presses, \* presses of the brew button that may overlap
  None     \* nothing

ASSUME NivonaAssumption == Default \in Amounts /\ None \notin Amounts \cup Drinks \cup Presses

VARIABLES
  nivonaLink, \* client.connected and ready for a brew
  sliders,    \* the override sliders: value, set by the user, available
  register,   \* the machine's temporary recipe: its type and its fields
  press,      \* the brews under way
  brewLock,   \* _brew_lock
  armed,      \* the MyCoffee slot of the machine is enabled
  copy,       \* what _my_coffee_slots says of it
  brewed      \* what the last start of the machine has brewed

nivonaVars == <<nivonaLink, sliders, register, press, brewLock, armed, copy, brewed>>

Slider  == [value : Amounts, set : BOOLEAN, available : BOOLEAN]
Unset   == [value |-> Default, set |-> FALSE, available |-> TRUE]
NoPress == [at |-> "idle", drink |-> None, overrides |-> <<>>, left |-> {}, acked |-> {}]

NivonaInit ==
  /\ nivonaLink = FALSE
  /\ sliders = [f \in Fields |-> Unset]
  /\ register \in [type : Drinks, field : [Fields -> Amounts]]
  /\ press = [p \in Presses |-> NoPress] /\ brewLock = None
  /\ armed \in BOOLEAN /\ copy = None /\ brewed = None

-----------------------------------------------------------------------------
(* The sliders.                                                             *)

SetsSlider(f, amount) ==
  /\ sliders' = [sliders EXCEPT ![f].value = amount, ![f].set = TRUE]
  /\ UNCHANGED <<nivonaLink, register, press, brewLock, armed, copy, brewed>>

\* The reset button: one event for each slider that is there.
ResetsSliders ==
  /\ sliders' = [f \in Fields |-> IF sliders[f].available THEN Unset ELSE sliders[f]]
  /\ UNCHANGED <<nivonaLink, register, press, brewLock, armed, copy, brewed>>

\* A slider is disabled or enabled in the entity registry.
TogglesSlider(f) ==
  /\ sliders' = [sliders EXCEPT ![f].available = ~ @]
  /\ UNCHANGED <<nivonaLink, register, press, brewLock, armed, copy, brewed>>

\* _collect_user_overrides: all the sliders with a state, if one is set.
Collected ==
  LET seen == {f \in Fields : sliders[f].available}
  IN  IF \E f \in seen : sliders[f].set THEN [f \in seen |-> sliders[f].value]
      ELSE <<>>

-----------------------------------------------------------------------------
(* brew_nivona                                                              *)

\* Variant: the lock is waited for by nobody.
LockIsFree_Always == TRUE

LockIsFree == brewLock = None

PressesBrew(p, drink) ==
  /\ press[p] = NoPress /\ LockIsFree /\ nivonaLink
  /\ brewLock' = p
  /\ press' = [press EXCEPT ![p] =
       [NoPress EXCEPT !.at = IF Collected = <<>> THEN "start" ELSE "announce",
          !.drink = drink, !.overrides = Collected, !.left = DOMAIN Collected]]
  /\ UNCHANGED <<nivonaLink, sliders, register, armed, copy, brewed>>

\* The type register; a write that is not ACKed is only logged.
Announces(p) ==
  /\ press[p].at = "announce"
  /\ press' = [press EXCEPT ![p].at = "fields"]
  /\ \/ nivonaLink /\ register' = [register EXCEPT !.type = press[p].drink]
     \/ UNCHANGED register
  /\ UNCHANGED <<nivonaLink, sliders, brewLock, armed, copy, brewed>>

\* One field after the other, likewise; what was ACKed has landed.
WritesField(p, f) ==
  /\ press[p].at = "fields" /\ f \in press[p].left
  /\ \E landed, acked \in BOOLEAN :
       /\ (acked => landed) /\ (landed => nivonaLink)
       /\ register' = IF landed
                      THEN [register EXCEPT !.field[f] = press[p].overrides[f]] ELSE register
       /\ press' = [press EXCEPT ![p].left = @ \ {f},
                                 ![p].acked = IF acked THEN @ \cup {f} ELSE @]
  /\ UNCHANGED <<nivonaLink, sliders, brewLock, armed, copy, brewed>>

FieldsAreWritten(p) ==
  /\ press[p].at = "fields" /\ press[p].left = {}
  /\ press' = [press EXCEPT ![p].at = "start"]
  /\ UNCHANGED <<nivonaLink, sliders, register, brewLock, armed, copy, brewed>>

\* start_process_nivona: with the temporary recipe if there are overrides.
StartsNivona(p) ==
  /\ press[p].at = "start" /\ nivonaLink
  /\ brewed' = press[p].drink
  /\ press' = [press EXCEPT ![p] = NoPress]
  /\ brewLock' = IF brewLock = p THEN None ELSE brewLock
  /\ UNCHANGED <<nivonaLink, sliders, register, armed, copy>>

\* The machine refuses, or a write raises and the brew is given up.
FailsNivona(p) ==
  /\ press[p] # NoPress
  /\ press' = [press EXCEPT ![p] = NoPress]
  /\ brewLock' = IF brewLock = p THEN None ELSE brewLock
  /\ UNCHANGED <<nivonaLink, sliders, register, armed, copy, brewed>>

NivonaLinkChanges ==
  /\ nivonaLink' = ~ nivonaLink
  /\ UNCHANGED <<sliders, register, press, brewLock, armed, copy, brewed>>

-----------------------------------------------------------------------------
(* MyCoffee and the factory resets.                                         *)

\* read_mycoffee_slots replaces the copy; a register not read is not in it.
ReadsMyCoffee ==
  /\ nivonaLink /\ copy' \in {armed, None}
  /\ UNCHANGED <<nivonaLink, sliders, register, press, brewLock, armed, brewed>>

\* At the machine, by write_mycoffee_param, or by execute_he_command, none of
\* which tells the client's copy.
ArmsMyCoffee ==
  /\ armed' \in BOOLEAN
  /\ UNCHANGED <<nivonaLink, sliders, register, press, brewLock, copy, brewed>>

\* brew_mycoffee_slot, from a button that is available: one command.
BrewsMyCoffee ==
  /\ nivonaLink /\ copy = TRUE /\ LockIsFree
  /\ brewed' = "MyCoffee"
  /\ UNCHANGED <<nivonaLink, sliders, register, press, brewLock, armed, copy>>

NivonaNext ==
  \/ NivonaLinkChanges \/ ResetsSliders \/ ReadsMyCoffee \/ ArmsMyCoffee \/ BrewsMyCoffee
  \/ \E f \in Fields : TogglesSlider(f) \/ \E amount \in Amounts : SetsSlider(f, amount)
  \/ \E p \in Presses :
       \/ \E drink \in Drinks : PressesBrew(p, drink)
       \/ Announces(p) \/ (\E f \in Fields : WritesField(p, f)) \/ FieldsAreWritten(p)
       \/ StartsNivona(p) \/ FailsNivona(p)

NivonaSpec == NivonaInit /\ [][NivonaNext]_nivonaVars
-----------------------------------------------------------------------------
(* A start with the temporary recipe finds every field this brew has had    *)
(* ACKed as it was written: no other brew's announce or field came between. *)
StartsFindTheirFields ==
  [][\A p \in Presses : StartsNivona(p) =>
       \A f \in press[p].acked : register.field[f] = press[p].overrides[f]]_nivonaVars

(* Docstring of _collect_user_overrides: temp-recipe writes are             *)
(* all-or-nothing.  A write that failed is logged and the brew goes on.     *)
AllOrNothing ==
  [][\A p \in Presses : StartsNivona(p) /\ press[p].overrides # <<>> =>
       press[p].acked = Fields /\ register.type = press[p].drink]_nivonaVars

(* Docstring of NivonaBrewMyCoffeeButton: slots that are not armed stay     *)
(* unavailable instead of firing an empty recipe.                           *)
OnlyArmedSlotsBrew == [][BrewsMyCoffee => armed]_nivonaVars
=============================================================================
