--------------------------- MODULE MachineIdentity ---------------------------
(***************************************************************************)
(* What the client believes the machine to be, and the entities that are   *)
(* made of it: _capabilities_from_identity and the identity steps of       *)
(* _connect_impl (ble_client.py), and the set-up of the button, sensor,    *)
(* select and number platforms, for the brand that has models and MyCoffee *)
(* slots (Nivona).  The platforms are set up once, by what the client or   *)
(* the scanner knows then - before the first connect, or beside one that   *)
(* an advertisement has set off; every connect reads serial number and     *)
(* device information again, as far as they are answered.                  *)
(***************************************************************************)
EXTENDS Naturals

CONSTANTS
  Models,   \* the models of the brand
  Family,   \* the family of each
  Count,    \* my_coffee_slots of each
  Table,    \* my_coffee_slots in the table of each family
  Unknown   \* nothing

Families == {Family[m] : m \in Models}

ASSUME IdentityAssumption ==
  /\ Count \in [Models -> Nat] /\ Table \in [Families -> Nat]
  /\ Unknown \notin Models \cup Families

VARIABLES
  model,    \* of the machine
  override, \* the option family_override
  advert,   \* what Home Assistant's scanner knows: no device, or its name
  device,   \* the device the client was last told of
  titled,   \* the name of the entry tells the model
  identity, \* the step of the connect
  serial,   \* _serial: HL is answered with the model or not at all
  dis,      \* _dis_info, kept over the connects: what has been read of it
  caps,     \* client.capabilities
  slotEntities, \* the slots each platform has an entity for
  settings, \* the platforms that have the entities of the settings
  prepared, \* the platforms that are set up
  \* History, which no code reads:
  chosen    \* the families entities were made for

machineVars  == <<model, override, titled>>
entityVars   == <<slotEntities, settings, prepared, chosen>>
identityVars == <<machineVars, advert, device, identity, serial, dis, caps, entityVars>>

SlotPlatforms    == {"button", "sensor"}
SettingPlatforms == {"select", "number"}
Names == {"absent", "bare", "telling"}

IdentityInit ==
  /\ model \in Models /\ override \in Families \cup {Unknown}
  /\ titled \in BOOLEAN /\ advert \in Names
  /\ device = "absent" /\ identity = "down"
  /\ serial = Unknown /\ dis = {} /\ caps = Unknown
  /\ slotEntities = [p \in SlotPlatforms |-> {}]
  /\ settings = {} /\ prepared = {} /\ chosen = {}

-----------------------------------------------------------------------------
(* _capabilities_from_identity.                                             *)

ModelCaps == [family |-> Family[model], slots |-> Count[model]]

FamilyCaps(family) == [family |-> family, slots |-> Table[family]]

\* Variant: the choice of the user fills in where nothing is known.
Agrees_Always(family) == TRUE

\* A family the user has chosen stands against any identity.
Agrees(family) == override \in {Unknown, family}

(* "told" when a serial number or a name gives the model, "hinted" when a   *)
(* text of the device information has the family's digits in it.            *)
FromIdentity(told, hinted) ==
  IF told /\ Agrees(Family[model]) THEN ModelCaps
  ELSE IF hinted /\ Agrees(Family[model]) THEN FamilyCaps(Family[model])
  ELSE IF override # Unknown THEN FamilyCaps(override) ELSE Unknown

\* resolve_caps_from_scanner.
ScannerCaps == FromIdentity(advert = "telling", FALSE)

\* _resolve_capabilities.
ClientCaps(s, d) ==
  FromIdentity(s # Unknown \/ "serial" \in d \/ device = "telling" \/ titled, d # {})

-----------------------------------------------------------------------------
(* The platforms.                                                           *)

SlotsOf(c) == IF c = Unknown THEN {} ELSE 1..c.slots

Made(c) == IF c = Unknown THEN chosen ELSE chosen \cup {c.family}

\* What a platform goes by when it is set up.
EarlyCaps == IF caps # Unknown THEN caps ELSE ScannerCaps

\* async_setup_entry of button.py and sensor.py: a first set of entities.
SetsUpSlots(p) ==
  /\ p \notin prepared /\ prepared' = prepared \cup {p}
  /\ slotEntities' = [slotEntities EXCEPT ![p] = SlotsOf(EarlyCaps)]
  /\ chosen' = Made(EarlyCaps)
  /\ UNCHANGED <<machineVars, advert, device, identity, serial, dis, caps, settings>>

(* select.py makes the settings with options, number.py those without; only *)
(* select.py asks the scanner when the client does not know yet.            *)
SetsUpSettings(p) ==
  /\ p \notin prepared /\ prepared' = prepared \cup {p}
  /\ LET c == IF p = "select" THEN EarlyCaps ELSE caps
     IN  /\ settings' = IF c = Unknown THEN settings ELSE settings \cup {p}
         /\ chosen' = Made(c)
  /\ UNCHANGED <<machineVars, advert, device, identity, serial, dis, caps, slotEntities>>

\* Variant: entities known early are taken for all there are.
Missing_IfNone(p, c) ==
  IF p \in prepared /\ slotEntities[p] = {} THEN SlotsOf(c) ELSE {}

\* on_connected adds the entities that are missing; before its platform is
\* set up it is not there.
Missing(p, c) == IF p \in prepared THEN SlotsOf(c) \ slotEntities[p] ELSE {}

-----------------------------------------------------------------------------
(* The scanner and the link.                                                *)
AdvertChanges ==
  /\ advert' \in Names
  /\ UNCHANGED <<machineVars, device, identity, serial, dis, caps, entityVars>>

\* set_ble_device; a change of the bond's owner drops the device.
DeviceChanges ==
  /\ device' \in {advert, "absent"}
  /\ UNCHANGED <<machineVars, advert, identity, serial, dis, caps, entityVars>>

Identifies(from, to) == identity = from /\ identity' = to

\* By the connect task, once the platforms are set up, or by an advertisement.
BeginsConnect ==
  /\ Identifies("down", "serial")
  /\ UNCHANGED <<machineVars, advert, device, serial, dis, caps, entityVars>>

\* HL: answered, timed out, or failed, which leaves the serial as it was.
ReadsSerial ==
  /\ Identifies("serial", "dis")
  /\ serial' \in {model, Unknown, serial}
  /\ UNCHANGED <<machineVars, advert, device, dis, caps, entityVars>>

\* Each text of the device information service is read or not.
ReadsDis ==
  /\ Identifies("dis", "resolve")
  /\ dis' \in {dis \cup read : read \in SUBSET {"serial", "model"}}
  /\ caps' = ClientCaps(serial, dis')
  /\ UNCHANGED <<machineVars, advert, device, serial, entityVars>>

\* The features and the type of the machine are read; the callbacks.
TellsPlatforms ==
  /\ Identifies("resolve", "up")
  /\ slotEntities' = [p \in SlotPlatforms |-> slotEntities[p] \cup Missing(p, caps)]
  /\ chosen' = IF SlotPlatforms \cap prepared = {} THEN chosen ELSE Made(caps)
  /\ UNCHANGED <<machineVars, advert, device, serial, dis, caps, settings, prepared>>

IdentityLost ==
  /\ identity # "down" /\ identity' = "down"
  /\ UNCHANGED <<machineVars, advert, device, serial, dis, caps, entityVars>>

IdentityNext ==
  \/ \E p \in SlotPlatforms : SetsUpSlots(p)
  \/ \E p \in SettingPlatforms : SetsUpSettings(p)
  \/ AdvertChanges \/ DeviceChanges
  \/ BeginsConnect \/ ReadsSerial \/ ReadsDis \/ TellsPlatforms \/ IdentityLost

IdentitySpec == IdentityInit /\ [][IdentityNext]_identityVars
-----------------------------------------------------------------------------
(* Comment at the callback of sensor.py: "HL can later refine four MyCoffee *)
(* slots into five".  Once a connect has announced itself, each slot of the *)
(* machine it found has its button and its sensors, whatever the scanner or *)
(* an earlier connect took it for and whenever the platform was set up; and *)
(* no entity was ever made for a family other than the one the user has     *)
(* chosen (resolve_caps_from_scanner).                                      *)
EntitiesFollowTheIdentity ==
  /\ identity = "up" =>
       \A p \in SlotPlatforms \cap prepared : SlotsOf(caps) \subseteq slotEntities[p]
  /\ override # Unknown => chosen \subseteq {override}

(* Comment of select.py: settings without options "are surfaced as number   *)
(* entities in number.py instead".  They are not: number.py asks the client *)
(* alone, which as a rule knows nothing before its first connect.           *)
SettingsGoTogether ==
  SettingPlatforms \subseteq prepared /\ "select" \in settings => "number" \in settings

(* Docstring of NivonaBrewMyCoffeeButton: "One button per slot 0..N-1".  A   *)
(* slot the client no longer counts keeps its button, and is refused.       *)
ButtonsAreTaken ==
  identity = "up" => slotEntities["button"] \subseteq SlotsOf(caps)
=============================================================================
