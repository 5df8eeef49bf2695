--------------------------- MODULE SnapshotFolder ---------------------------
(***************************************************************************)
(* Import and restore with the folder of snapshots that is their undo      *)
(* (sommelier_api.py 1876-2359, the file helpers of sommelier_backup.py).  *)
(* The helpers run in the executor's threads, so their steps interleave    *)
(* with each other and with the handlers.  Export and import are one step  *)
(* each, at their end: what happens inside them is SommelierStore.         *)
(***************************************************************************)
EXTENDS BundleContent, Sequences

CONSTANTS Tasks,     \* imports and restores in flight at the same time
          Contents,  \* contents that ordinary requests leave
          Uploads,   \* bundles sent or dropped into the folder by the user
          Options,   \* include_history and include_install_specific, by request
          Manual,    \* names of files the user drops
          Texts,     \* what rows of the settings hold that is not an agent
          Keep,      \* SNAPSHOT_RETENTION
          MaxAsked,  \* bound: imports and restores that are asked for
          MaxSecond, \* bound: the clock
          MaySetBack \* the clock may be set back

VARIABLES
  db,      \* the content of the database
  backup,  \* the holder of _BACKUP_LOCK
  folder,  \* the files: name -> [body, mtime, content]; content is history,
           \* what the database held when the snapshot was exported
  clock,   \* the second in which the last snapshot was named
  asked,   \* imports and restores so far
  writes,  \* openings and closings so far: mtime within the second
  at, job

vars == <<db, backup, folder, clock, asked, writes, at, job>>

Torn == None   \* the body of a file whose writing has not ended

\* The name of a snapshot: its second and the suffix -2, -3...
AutoNames == (0 .. MaxSecond) \X (1 .. MaxAsked)

\* "excused" is history: the snapshot of this request was deleted by the
\* user, another thread took its name, Keep later ones have pushed it out, or
\* it got the name of a file that was about to be pruned.
NoJob == [source |-> None, bundle |-> None, history |-> FALSE,
          offered |-> None, undo |-> None, content |-> None, name |-> None,
          victims |-> {}, excused |-> FALSE]

Values == Agents \cup Texts \cup {None}

\* What the database may hold.
Content ==
  {content \in [beans : SUBSET Beans, hopper : [Hoppers -> Beans \cup {None}],
                presets : SUBSET (Presets \cup {System}), sessions : SUBSET Sessions,
                settings : [Keys -> Values]] : Sound(content)}

\* A bundle, which may have been edited; its rows name any keys.
Bundle ==
  [schema : Nat, beans : SUBSET Beans, hopper : [Hoppers -> Beans \cup {None}],
   presets : SUBSET (Presets \cup {System}), sessions : SUBSET Sessions,
   settings : UNION {[keys -> Values] : keys \in SUBSET Keys}, local : [Local -> Values]]

ASSUME RowsAssumption ==
  /\ IsFiniteSet(Beans) /\ IsFiniteSet(Presets) /\ IsFiniteSet(Sessions)
  /\ Trusted \cup Entities \subseteq Agents /\ None \notin Agents \cup Texts \cup Bundle
  /\ {Stamp, "espresso", "espresso_cup"} \subseteq Texts

ASSUME SnapshotAssumption ==
  /\ Contents \subseteq Content /\ Uploads \subseteq Bundle
  /\ Options \in [Tasks -> SUBSET [history : BOOLEAN, local : BOOLEAN]]
  /\ Manual \cap AutoNames = {} /\ None \notin Manual \cup AutoNames \cup Tasks
  /\ Keep \in Nat \ {0} /\ MaxAsked \in Nat /\ MaxSecond \in Nat
  /\ MaySetBack \in BOOLEAN

Init ==
  /\ db \in Contents
  /\ backup = None
  /\ folder = << >>
  /\ clock = 0 /\ asked = 0 /\ writes = 0
  /\ at = [t \in Tasks |-> "idle"]
  /\ job = [t \in Tasks |-> NoJob]

With(name, file) ==
  [n \in DOMAIN folder \cup {name} |-> IF n = name THEN file ELSE folder[n]]

Without(names) == [n \in DOMAIN folder \ names |-> folder[n]]

Goes(t, to) == at' = [at EXCEPT ![t] = to]

Excuse(tasks) ==
  [t \in Tasks |-> [job[t] EXCEPT !.excused = @ \/ t \in tasks]]

\* The result or the error is sent.
Ends(t) == Goes(t, "idle") /\ job' = [job EXCEPT ![t] = NoJob]
----------------------------------------------------------------------------
(* The user, other handlers, and time.                                      *)

\* _async_run_import up to its first await: db_busy, and validation.
Starts(t, request) ==
  IF backup = None /\ Valid(request.bundle)
  THEN Goes(t, "export") /\ job' = [job EXCEPT ![t] = request]
  ELSE Ends(t)

AskImport(t, bundle, options) ==
  /\ at[t] = "idle"
  /\ Starts(t, [NoJob EXCEPT !.bundle = bundle, !.history = options.history,
                   !.offered = IF options.local THEN FilterLocal(bundle)
                               ELSE [cell \in Local |-> None]])
  /\ asked < MaxAsked /\ asked' = asked + 1
  /\ UNCHANGED <<db, backup, folder, clock, writes>>

AskRestore(t, name, options) ==
  /\ at[t] = "idle" /\ options.local
  /\ job' = [job EXCEPT ![t].source = name, ![t].history = options.history]
  /\ Goes(t, "read")
  /\ asked < MaxAsked /\ asked' = asked + 1
  /\ UNCHANGED <<db, backup, folder, clock, writes>>

\* ws_snapshots_delete.
Delete(name) ==
  /\ name \in DOMAIN folder
  /\ folder' = Without({name})
  /\ job' = Excuse({t \in Tasks : job[t].name = name})
  /\ UNCHANGED <<db, backup, clock, asked, writes, at>>

\* The way in for bundles that are too large for the WebSocket.
Drop(name, bundle) ==
  /\ name \notin DOMAIN folder
  /\ folder' = With(name, [body |-> bundle, mtime |-> <<clock, writes>>,
                            content |-> None])
  /\ UNCHANGED <<db, backup, clock, asked, writes, at, job>>

\* An ordinary request; it waits for db._lock while a backup operation runs.
OrdinaryWrite(content) ==
  /\ backup = None
  /\ db' = content
  /\ UNCHANGED <<backup, folder, clock, asked, writes, at, job>>

\* Home Assistant restarts.
Restart ==
  /\ at' = [t \in Tasks |-> "idle"] /\ job' = [t \in Tasks |-> NoJob]
  /\ backup' = None
  /\ UNCHANGED <<db, folder, clock, asked, writes>>
----------------------------------------------------------------------------
(* ws_snapshots_restore reads the file; _async_run_import.                  *)

ReadSnapshot(t) ==
  /\ at[t] = "read"
  /\ LET name == job[t].source
     IN  IF /\ name \in DOMAIN folder /\ folder[name].body # Torn
            /\ Bytes(folder[name].body) <= MaxBytes
         THEN Starts(t, [job[t] EXCEPT !.bundle  = folder[name].body,
                                       !.offered = FilterLocal(folder[name].body),
                                       !.content = folder[name].content])
         ELSE Ends(t)
  /\ UNCHANGED <<db, backup, folder, clock, asked, writes>>

\* async_build_export, and db_busy.
ExportBegins(t) ==
  /\ at[t] = "export"
  /\ IF backup = None
     THEN backup' = t /\ Goes(t, "exporting") /\ UNCHANGED job
     ELSE Ends(t) /\ UNCHANGED backup
  /\ UNCHANGED <<db, folder, clock, asked, writes>>

\* Variant: snapshots are configuration only.
Fitting_NoHistory(bundle) == DropHistory(bundle)

\* The bundle a restore would accept, at the price of the history.
Fitting(bundle) ==
  IF CountRows(bundle) > MaxRows THEN DropHistory(bundle) ELSE bundle

ExportEnds(t) ==
  /\ at[t] = "exporting"
  /\ backup' = None
  /\ LET bundle == Fitting(Export(db, TRUE))
     IN  IF CountRows(bundle) > MaxRows THEN Ends(t)
         ELSE /\ job' = [job EXCEPT ![t].undo = [body |-> bundle, content |-> db]]
              /\ Goes(t, "name")
  /\ UNCHANGED <<db, folder, clock, asked, writes>>

ExportFails(t) ==
  /\ at[t] = "exporting"
  /\ backup' = None /\ Ends(t)
  /\ UNCHANGED <<db, folder, clock, asked, writes>>

\* The time since the last snapshot: none, some, or it was set back.
Passes ==
  /\ clock' \in {clock, clock + 1, 0}
  /\ clock' <= MaxSecond
  /\ clock' >= clock \/ MaySetBack

\* write_snapshot: the first name of this second that is free; as many as
\* there are requests are enough...
PicksName(t) ==
  /\ at[t] = "name"
  /\ Passes
  /\ \E k \in 1 .. MaxAsked :
       /\ <<clock', k>> \notin DOMAIN folder
       /\ \A j \in 1 .. k - 1 : <<clock', j>> \in DOMAIN folder
       /\ job' = [job EXCEPT ![t].name = <<clock', k>>]
  /\ Goes(t, "open")
  /\ UNCHANGED <<db, backup, folder, asked, writes>>

\* ... which another thread may have found as well, or may have on the list of
\* what it prunes: a file that is gone by now had it.
OpensFile(t) ==
  /\ at[t] = "open"
  /\ writes' = writes + 1
  /\ LET name == job[t].name
         sharing == {u \in Tasks \ {t} : job[u].name = name}
         pruning == {u \in Tasks : name \in job[u].victims}
     IN  /\ folder' = With(name, [body |-> Torn, mtime |-> <<clock, writes'>>,
                                   content |-> None])
         /\ job' = Excuse(IF sharing \cup pruning = {} THEN {} ELSE sharing \cup {t})
  /\ Goes(t, "write")
  /\ UNCHANGED <<db, backup, clock, asked>>

\* Variant: the size of the file is not measured.
TooLarge_Never(bundle) == FALSE

TooLarge(bundle) == Bytes(bundle) > MaxBytes

(* The file is written and measured; one that was unlinked meanwhile cannot  *)
(* be.                                                                       *)
WritesFile(t) ==
  /\ at[t] = "write"
  /\ writes' = writes + 1
  /\ LET name == job[t].name
         undo == job[t].undo
     IN  IF name \in DOMAIN folder /\ ~ TooLarge(undo.body)
         THEN /\ folder' = With(name, [body |-> undo.body,
                                        mtime |-> <<clock, writes'>>,
                                        content |-> undo.content])
              /\ Goes(t, "list") /\ UNCHANGED job
         ELSE folder' = Without({name}) /\ Ends(t)
  /\ UNCHANGED <<db, backup, clock, asked>>

WriteFails(t) ==
  /\ at[t] \in {"open", "write"}
  /\ Ends(t)
  /\ UNCHANGED <<db, backup, folder, clock, asked, writes>>

\* list_snapshots sorts by the time of modification, then by name.
Newer(name, other) ==
  LET m == folder[name].mtime
      o == folder[other].mtime
  IN  \/ m[1] > o[1]
      \/ (m[1] = o[1] /\ m[2] > o[2])
      \/ (m = o /\ name[1] > other[1])
      \/ (m = o /\ name[1] = other[1] /\ name[2] > other[2])

\* Variant: the file that is restored is not spared.
Candidates_Unprotected(t) == DOMAIN folder \cap AutoNames

\* The automatic snapshots but for the one that is restored.
Candidates(t) == (DOMAIN folder \cap AutoNames) \ {job[t].source}

\* Variant: the oldest are kept.
Outdated_Oldest(files) ==
  {name \in files : Cardinality({f \in files : Newer(name, f)}) >= Keep}

\* prune_snapshots: all but the newest.
Outdated(files) ==
  {name \in files : Cardinality({f \in files : Newer(f, name)}) >= Keep}

\* The snapshots begun later are in mtime's second place.
PushedOut(name) ==
  Keep <= Cardinality({n \in DOMAIN folder \cap AutoNames :
                         folder[n].mtime[2] > folder[name].mtime[2]})

ListsFolder(t) ==
  /\ at[t] = "list"
  /\ LET victims   == Outdated(Candidates(t))
         pushedOut == {name \in victims : PushedOut(name)}
     IN  job' = [Excuse({u \in Tasks : job[u].name \in pushedOut})
                   EXCEPT ![t].victims = victims]
  /\ Goes(t, "prune")
  /\ UNCHANGED <<db, backup, folder, clock, asked, writes>>

\* Pruning is best effort: a file may vanish under the scan.
ListFails(t) ==
  /\ at[t] = "list"
  /\ Goes(t, "apply")
  /\ UNCHANGED <<db, backup, folder, clock, asked, writes, job>>

Prunes(t) ==
  /\ at[t] = "prune"
  /\ folder' = Without(job[t].victims)
  /\ Goes(t, "apply")
  /\ job' = [job EXCEPT ![t].victims = {}]
  /\ UNCHANGED <<db, backup, clock, asked, writes>>

\* async_apply_import, and db_busy.
ApplyBegins(t) ==
  /\ at[t] = "apply"
  /\ IF backup = None
     THEN backup' = t /\ Goes(t, "applying") /\ UNCHANGED job
     ELSE Ends(t) /\ UNCHANGED backup
  /\ UNCHANGED <<db, folder, clock, asked, writes>>

Apply(t) ==
  /\ at[t] = "applying"
  /\ db' = Imported(db, job[t].bundle, job[t].history, job[t].offered)
  /\ backup' = None /\ Ends(t)
  /\ UNCHANGED <<folder, clock, asked, writes>>

\* A constraint of the rows, or the database is locked: rolled back.
ApplyFails(t) ==
  /\ at[t] = "applying"
  /\ backup' = None /\ Ends(t)
  /\ UNCHANGED <<db, folder, clock, asked, writes>>
----------------------------------------------------------------------------
Disturbance ==
  \/ \E name \in DOMAIN folder : Delete(name)
  \/ \E name \in Manual, bundle \in Uploads : Drop(name, bundle)
  \/ \E content \in Contents : OrdinaryWrite(content)
  \/ Restart

Ask(t) ==
  \/ \E bundle \in Uploads, options \in Options[t] : AskImport(t, bundle, options)
  \/ \E name \in DOMAIN folder, options \in Options[t] :
       AskRestore(t, name, options)

Snapshot(t) ==
  \/ ExportBegins(t) \/ ExportEnds(t) \/ ExportFails(t)
  \/ PicksName(t) \/ OpensFile(t) \/ WritesFile(t) \/ WriteFails(t)
  \/ ListsFolder(t) \/ ListFails(t) \/ Prunes(t)

Next ==
  \/ Disturbance
  \/ \E t \in Tasks :
       \/ Ask(t) \/ ReadSnapshot(t) \/ Snapshot(t)
       \/ ApplyBegins(t) \/ Apply(t) \/ ApplyFails(t)

Spec == Init /\ [][Next]_vars
----------------------------------------------------------------------------
(* Whenever an import is about to replace the configuration, the snapshot  *)
(* it took lies whole in the folder and a restore would take it - unless   *)
(* the user deleted it, Keep later snapshots have pushed it out, or its    *)
(* name was another thread's, to write or to prune (README.md:826-833).    *)
ImportsCanBeUndone ==
  \A t \in Tasks :
    at[t] = "applying" =>
      \/ job[t].excused
      \/ /\ job[t].name \in DOMAIN folder
         /\ folder[job[t].name].body # Torn
         /\ Restorable(folder[job[t].name].body)

(* The retention after a restore spares the file that is restored, and     *)
(* never touches a file of the user (prune_snapshots, README.md:832-834).  *)
PruningSparesThem ==
  [][\A t \in Tasks :
       at[t] = "prune" /\ at'[t] = "apply" =>
         (Manual \cup {job[t].source}) \cap DOMAIN folder \subseteq DOMAIN folder']_vars

(* An import never leaves the Sommelier without an agent or a weather      *)
(* entity it had, and brings in only values that mean something here; the  *)
(* content it leaves is sound, whatever was edited in the bundle.          *)
ImportsRespectTheInstall ==
  [][\A t \in Tasks : Apply(t) =>
       /\ Sound(db')
       /\ \A cell \in Local :
            \/ db'.settings[cell] = db.settings[cell]
            \/ db'.settings[cell] \in Trusted \cup Entities]_vars

(* Restoring a snapshot with its history brings back what the database     *)
(* held when it was taken, but for a history that had been dropped and     *)
(* for cells it has no usable value for.                                   *)
RestoresBringBack ==
  [][\A t \in Tasks : Apply(t) /\ job[t].content # None /\ job[t].history =>
       LET held == job[t].content
       IN  /\ db'.beans = held.beans /\ db'.hopper = held.hopper
           /\ db'.presets = held.presets
           /\ db'.sessions = held.sessions \/ CountRows(Export(held, TRUE)) > MaxRows
           /\ \A key \in Keys :
                \/ db'.settings[key] = held.settings[key]
                \/ key \in Local /\ held.settings[key] \notin Trusted \cup Entities]_vars

(* What README.md:832-833 says: the file one is restoring from is never    *)
(* pruned.                                                                 *)
NeverPrunedUnderYou ==
  [][\A t, other \in Tasks :
       at[t] = "prune" /\ at'[t] = "apply" /\ at[other] # "idle"
         /\ job[other].source \in DOMAIN folder
         => job[other].source \in DOMAIN folder']_vars
=============================================================================
