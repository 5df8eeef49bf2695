---------------------------- MODULE BundleContent ----------------------------
(***************************************************************************)
(* What an export bundle of the Sommelier database holds and what a        *)
(* replace-import does with it (sommelier_backup.py).  Tables whose rows   *)
(* are copied as they are look like the beans; favourites, ratings and     *)
(* profiles are in StoreContent.  The two key/value tables, settings and   *)
(* user_preferences, are one function here.                                *)
(***************************************************************************)
EXTENDS Naturals, FiniteSets

CONSTANTS Beans, Presets, Sessions, \* ids of rows
          Agents,    \* values of the install-specific cells
          Trusted,   \* those that are not checked: sentinels, smartchain agents
          Entities,  \* those that name an entity of this installation
          MaxRows,   \* MAX_IMPORT_ROWS
          MaxBytes,  \* MAX_SNAPSHOT_FILE_BYTES; a short row is one unit
          None

Hoppers == {1, 2}

System == "sys"   \* the four presets with is_system = 1

Local == {"llm_agent_id", "weather_entity"}

ValidKeys == Local \cup {"default_cup_size"}

Keys == ValidKeys \cup {"schema_version"}

Schema == 12   \* SCHEMA_VERSION

Stamp == "v12"   \* the row schema_version of the settings

Canonical(cup) == IF cup = "espresso" THEN "espresso_cup" ELSE cup

ASSUME CapsAssumption == MaxRows \in Nat /\ MaxBytes \in Nat

\* The key allowlists, and what stays in the rows once the local cells went.
Filtered(settings) == [key \in ValidKeys |-> settings[key]]

Hoisted(settings) == [cell \in Local |-> settings[cell]]

\* async_build_export_on_conn.  A local cell leaves the rows for its own map.
Export(content, history) ==
  [schema   |-> Schema,
   beans    |-> content.beans,
   hopper   |-> content.hopper,
   presets  |-> content.presets \ {System},
   settings |-> [key \in ValidKeys \ Local |-> Filtered(content.settings)[key]],
   local    |-> Hoisted(Filtered(content.settings)),
   sessions |-> IF history THEN content.sessions ELSE {}]

DropHistory(bundle) == [bundle EXCEPT !.sessions = {}]

\* The two rows of the hoppers and the settings are in every bundle.
CountRows(bundle) ==
  Cardinality(bundle.beans) + Cardinality(bundle.presets)
    + Cardinality(bundle.sessions)

\* A session is long: the prompt, the weather, the recipes and their phases.
Bytes(bundle) == CountRows(bundle) + 3 * Cardinality(bundle.sessions)

Valid(bundle) == bundle.schema <= Schema /\ CountRows(bundle) <= MaxRows

\* What read_snapshot and validate_bundle accept.
Restorable(bundle) == Valid(bundle) /\ Bytes(bundle) <= MaxBytes

\* Variant: any value is taken over.
FilterLocal_Any(bundle) == bundle.local

\* The handler's entity check: a value that may name an entity must name one.
FilterLocal(bundle) ==
  [cell \in Local |->
     IF bundle.local[cell] \in Trusted \cup Entities THEN bundle.local[cell]
     ELSE None]

\* Variant: what the bundle does not supply is cleared.
LocalValue_NoFallback(offered, preserved) == offered

LocalValue(offered, preserved) == IF offered # None THEN offered ELSE preserved

\* Variant: the deletion of the settings takes the stamp along.
Cleared_All(settings) == [key \in Keys |-> None]

Cleared(settings) ==
  [key \in Keys |-> IF key \in ValidKeys THEN None ELSE settings[key]]

\* Variant: the rewrite of migration v11 is not repeated.
Normalised_NoAlias(settings, key) ==
  IF key \in ValidKeys \ Local THEN settings[key] ELSE None

\* _normalise_rows: an edited bundle may have rows with other keys.
Normalised(settings, key) ==
  IF key \in ValidKeys \ Local THEN Canonical(settings[key]) ELSE None

\* Variant: a hopper keeps the bean its row names.
HopperBean_AsIs(bundle, hopper) == bundle.hopper[hopper]

\* Variant: INSERT OR IGNORE, which keeps the emptied row.
HopperBean_Ignored(bundle, hopper) == None

HopperBean(bundle, hopper) ==
  IF bundle.hopper[hopper] \in bundle.beans THEN bundle.hopper[hopper] ELSE None

\* Rows with is_system are dropped.
UserPresets(bundle) == bundle.presets \ {System}

\* async_apply_import_on_conn.
Imported(content, bundle, history, local) ==
  LET cleared == Cleared(content.settings)
      row(key) == IF key \in DOMAIN bundle.settings
                  THEN Normalised(bundle.settings, key) ELSE None
  IN  [beans    |-> bundle.beans,
       hopper   |-> [hopper \in Hoppers |-> HopperBean(bundle, hopper)],
       presets  |-> (content.presets \cap {System}) \cup UserPresets(bundle),
       sessions |-> IF history THEN bundle.sessions ELSE {},
       settings |->
         [key \in Keys |->
            IF key \in Local
            THEN LocalValue(local[key], content.settings[key])
            ELSE IF row(key) # None THEN row(key) ELSE cleared[key]]]

\* What every content of the database satisfies, by its constraints and by
\* the migrations.
Sound(content) ==
  /\ \A hopper \in Hoppers : content.hopper[hopper] \in content.beans \cup {None}
  /\ System \in content.presets
  /\ content.settings["schema_version"] = Stamp
  /\ content.settings["default_cup_size"] # "espresso"
=============================================================================
