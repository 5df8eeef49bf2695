-------------------------- MODULE SnapshotFolderMC --------------------------
EXTENDS SnapshotFolder

CONSTANTS t1, t2, b1, b2, p1, s1, s2, keep, here, gone, smart

\* Contents by their presets and history.
Row(presets, sessions) ==
  [beans |-> {b1}, hopper |-> [h \in Hoppers |-> IF h = 1 THEN b1 ELSE None],
   presets |-> presets \cup {System}, sessions |-> sessions,
   settings |-> [key \in Keys |->
      CASE key = "llm_agent_id" -> smart [] key = "weather_entity" -> here
        [] key = "default_cup_size" -> "espresso_cup" [] OTHER -> Stamp]]

\* One that fits a restore, one whose history has too many rows, and one
\* whose history fits the rows but not the size of the file.
MCContents == {Row({p1}, {s1}), Row({p1}, {s1, s2}), Row({}, {s1, s2})}

\* An edited bundle of an older version: an alias, a dangling bean, a
\* system preset, agents of another installation.
Foreign ==
  [schema |-> 11, beans |-> {b2}, hopper |-> [h \in Hoppers |-> b1],
   presets |-> {System}, sessions |-> {s2},
   settings |-> [key \in {"default_cup_size", "schema_version"} |->
                   IF key = "default_cup_size" THEN "espresso" ELSE "v11"],
   local |-> [cell \in Local |-> IF cell = "llm_agent_id" THEN gone ELSE None]]

MCUploads == {Foreign}

MCOptions ==
  [t \in Tasks |-> {[history |-> t = t1, local |-> t = t1]}]
=============================================================================
