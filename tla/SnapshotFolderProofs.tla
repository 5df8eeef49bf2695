------------------------ MODULE SnapshotFolderProofs ------------------------
(***************************************************************************)
(* Proofs about SnapshotFolder, for any contents, uploads, number of       *)
(* overlapping imports and retention.  What a request carries from one of  *)
(* its steps to the next (JobsFit) and what the files hold (FilesFit) make *)
(* the database sound after an import and a restore true to what was       *)
(* exported.  That the undo lies in the folder needs more: why no prune,   *)
(* not even one that has listed the folder already, can take it (UndoFits).*)
(* It rests on the order of the files being that of their writing, which   *)
(* is only so as long as the clock is not set back.                        *)
(***************************************************************************)
EXTENDS SnapshotFolder, FiniteSetTheorems, TLAPS

Steps == {"idle", "read", "export", "exporting", "name", "open", "write", "list",
          "prune", "apply", "applying"}
Named   == {"open", "write", "list", "prune", "apply", "applying"}
Opened  == Named \ {"open"}
Written == Opened \ {"write"}

Offers == [Local -> Trusted \cup Entities \cup {None}]

\* A bundle that holds all of a content, but for a history that is too long.
Holds(bundle, content) == bundle = Fitting(Export(content, TRUE))

Undo == [body : Bundle, content : Content]

Job == [source : Manual \cup AutoNames \cup {None}, bundle : Bundle \cup {None},
        history : BOOLEAN, offered : Offers \cup {None}, undo : Undo \cup {None},
        content : Content \cup {None}, name : AutoNames \cup {None},
        victims : SUBSET AutoNames, excused : BOOLEAN]

TypeOK ==
  /\ db \in Content /\ clock \in 0 .. MaxSecond /\ writes \in Nat
  /\ at \in [Tasks -> Steps] /\ job \in [Tasks -> Job]
  /\ DOMAIN folder \subseteq Manual \cup AutoNames

\* What a request has collected by its step.
Fits(a, j) ==
  /\ a = "idle" => j = NoJob
  /\ a = "read" => j.content = None
  /\ a \notin {"idle", "read"} =>
       /\ j.bundle \in Bundle /\ j.offered \in Offers
       /\ j.content # None => /\ j.content \in Content
                              /\ Holds(j.bundle, j.content)
                              /\ j.offered = FilterLocal(j.bundle)
  /\ a \in {"name", "open", "write"} =>
       /\ j.undo \in Undo /\ Holds(j.undo.body, j.undo.content)
       /\ Valid(j.undo.body)
  /\ a \in Named => j.name \in AutoNames
  /\ a \notin Named => j.name = None
  /\ j.victims # {} => a = "prune" /\ j.source \notin j.victims

JobsFit == \A t \in Tasks : Fits(at[t], job[t])

FileFits(file, most) ==
  /\ file.body \in Bundle \cup {Torn}
  /\ file.mtime \in (0 .. MaxSecond) \X (0 .. most)
  /\ file.content # None => file.content \in Content /\ Holds(file.body, file.content)

FilesFit == \A name \in DOMAIN folder : FileFits(folder[name], writes)

\* The files were written one after the other, and the clock agrees.
InOrder ==
  \A f, g \in DOMAIN folder \cap AutoNames :
    /\ f # g => folder[f].mtime[2] # folder[g].mtime[2]
    /\ folder[f].mtime[2] < folder[g].mtime[2] => folder[f].mtime[1] <= folder[g].mtime[1]

OrderFits == InOrder /\ \A f \in DOMAIN folder : folder[f].mtime[1] <= clock

\* A snapshot that is nobody else's lies whole in the folder and on no list.
Lies(t) ==
  /\ job[t].name \in DOMAIN folder
  /\ folder[job[t].name].body \in Bundle /\ Restorable(folder[job[t].name].body)

UndoFits ==
  /\ \A t \in Tasks : at[t] \in Written /\ ~ job[t].excused => Lies(t)
  /\ \A t, u \in Tasks : t # u /\ at[t] \in Opened /\ at[u] \in Opened
       /\ job[t].name = job[u].name => job[t].excused
  /\ \A t, u \in Tasks : at[t] \in Opened /\ job[t].name \in job[u].victims => job[t].excused

IInv == TypeOK /\ JobsFit /\ FilesFit
UndoInv == IInv /\ OrderFits /\ UndoFits

----------------------------------------------------------------------------
(* Contents and bundles.                                                    *)

LEMMA RowsAreCounted ==
  ASSUME NEW bundle \in Bundle
  PROVE  CountRows(bundle) \in Nat /\ Bytes(bundle) \in Nat
<1>1. bundle.beans \subseteq Beans /\ bundle.presets \subseteq Presets \cup {System}
      /\ bundle.sessions \subseteq Sessions
  BY DEF Bundle
<1>2. IsFiniteSet(Presets \cup {System})
  BY RowsAssumption, FS_AddElement
<1>3. IsFiniteSet(bundle.beans) /\ IsFiniteSet(bundle.presets) /\ IsFiniteSet(bundle.sessions)
  BY <1>1, <1>2, RowsAssumption, FS_Subset
<1>4. Cardinality(bundle.beans) \in Nat /\ Cardinality(bundle.presets) \in Nat
      /\ Cardinality(bundle.sessions) \in Nat
  BY <1>3, FS_CardinalityType
<1> QED BY <1>4 DEF CountRows, Bytes

\* What is exported is a bundle, with or without its history.
LEMMA ExportIsBundle ==
  ASSUME NEW content \in Content, NEW history \in BOOLEAN
  PROVE  Export(content, history) \in Bundle
<1> DEFINE settings == [key \in ValidKeys \ Local |-> Filtered(content.settings)[key]]
           local == Hoisted(Filtered(content.settings))
           sessions == IF history THEN content.sessions ELSE {}
<1>1. /\ content.beans \in SUBSET Beans /\ content.hopper \in [Hoppers -> Beans \cup {None}]
      /\ content.presets \in SUBSET (Presets \cup {System})
      /\ content.sessions \in SUBSET Sessions /\ content.settings \in [Keys -> Values]
  BY DEF Content
<1>2. Local \subseteq ValidKeys /\ ValidKeys \subseteq Keys
  BY DEF Local, ValidKeys, Keys
<1>3. settings \in [ValidKeys \ Local -> Values]
  BY <1>1, <1>2 DEF Filtered
<1>4. ValidKeys \ Local \in SUBSET Keys
  BY <1>2
<1>5. settings \in UNION {[keys -> Values] : keys \in SUBSET Keys}
  BY <1>3, <1>4
<1>6. local \in [Local -> Values]
  BY <1>1, <1>2 DEF Hoisted, Filtered
<1>7. sessions \in SUBSET Sessions /\ Schema \in Nat
  BY <1>1 DEF Schema
<1>8. Export(content, history) =
        [schema |-> Schema, beans |-> content.beans, hopper |-> content.hopper,
         presets |-> content.presets \ {System}, settings |-> settings,
         local |-> local, sessions |-> sessions]
  BY DEF Export
<1> HIDE DEF settings, local, sessions
<1> QED BY <1>1, <1>5, <1>6, <1>7, <1>8 DEF Bundle

LEMMA FittingIsBundle ==
  ASSUME NEW bundle \in Bundle
  PROVE  /\ Fitting(bundle) \in Bundle /\ Fitting(bundle) # None
         /\ Fitting(bundle).schema = bundle.schema
         /\ Fitting(bundle).beans = bundle.beans /\ Fitting(bundle).hopper = bundle.hopper
         /\ Fitting(bundle).presets = bundle.presets
         /\ Fitting(bundle).settings = bundle.settings
         /\ Fitting(bundle).local = bundle.local
         /\ Fitting(bundle).sessions = bundle.sessions \/ CountRows(bundle) > MaxRows
<1> DEFINE without == [bundle EXCEPT !.sessions = {}]
<1>1. without \in Bundle
  BY DEF Bundle
<1>2. /\ without.schema = bundle.schema /\ without.beans = bundle.beans
      /\ without.hopper = bundle.hopper /\ without.presets = bundle.presets
      /\ without.settings = bundle.settings /\ without.local = bundle.local
  BY DEF Bundle
<1>3. None \notin Bundle
  BY RowsAssumption
<1> HIDE DEF without
<1>4. Fitting(bundle) = IF CountRows(bundle) > MaxRows THEN without ELSE bundle
  BY DEF Fitting, DropHistory, without
<1> QED BY <1>1, <1>2, <1>3, <1>4

LEMMA FilterIsOffer ==
  ASSUME NEW bundle \in Bundle
  PROVE  FilterLocal(bundle) \in Offers
BY DEF FilterLocal, Offers

\* The content an import leaves is sound, whatever the bundle.
LEMMA ImportIsContent ==
  ASSUME NEW content \in Content, NEW bundle \in Bundle, NEW history \in BOOLEAN,
         NEW offered \in Offers
  PROVE  /\ Imported(content, bundle, history, offered) \in Content
         /\ \A cell \in Local :
              LET settings == Imported(content, bundle, history, offered).settings
              IN  \/ settings[cell] = content.settings[cell]
                  \/ settings[cell] \in Trusted \cup Entities
<1> DEFINE new == Imported(content, bundle, history, offered)
           row(key) == IF key \in DOMAIN bundle.settings
                       THEN Normalised(bundle.settings, key) ELSE None
           settings == [key \in Keys |->
             IF key \in Local THEN LocalValue(offered[key], content.settings[key])
             ELSE IF row(key) # None THEN row(key) ELSE Cleared(content.settings)[key]]
           hopper == [h \in Hoppers |-> HopperBean(bundle, h)]
           presets == (content.presets \cap {System}) \cup UserPresets(bundle)
           sessions == IF history THEN bundle.sessions ELSE {}
<1>1. new = [beans |-> bundle.beans, hopper |-> hopper, presets |-> presets,
             sessions |-> sessions, settings |-> settings]
  BY DEF Imported
<1>2. /\ System \in content.presets /\ content.presets \subseteq Presets \cup {System}
      /\ content.settings \in [Keys -> Values]
      /\ content.settings["schema_version"] = Stamp
  BY DEF Content, Sound
<1>3. /\ bundle.beans \in SUBSET Beans /\ bundle.sessions \in SUBSET Sessions
      /\ bundle.presets \subseteq Presets \cup {System}
  BY DEF Bundle
<1>4. PICK keys \in SUBSET Keys : bundle.settings \in [keys -> Values]
  BY DEF Bundle
<1>5. hopper \in [Hoppers -> Beans \cup {None}]
      /\ \A h \in Hoppers : hopper[h] \in bundle.beans \cup {None}
  BY <1>3 DEF HopperBean
<1>6. presets \in SUBSET (Presets \cup {System}) /\ System \in presets
  BY <1>2, <1>3 DEF UserPresets
<1>7. sessions \in SUBSET Sessions
  BY <1>3
<1>8. {None, Stamp, "espresso_cup"} \subseteq Values /\ Agents \subseteq Values
  BY RowsAssumption DEF Values
<1>9. ASSUME NEW key \in Keys, key \in Local
      PROVE  /\ settings[key] \in Values
             /\ settings[key] = content.settings[key] \/ settings[key] \in Trusted \cup Entities
  <2>1. offered[key] \in Trusted \cup Entities \cup {None}
    BY <1>9 DEF Offers
  <2>2. content.settings[key] \in Values
    BY <1>2
  <2>3. settings[key] = IF offered[key] # None THEN offered[key] ELSE content.settings[key]
    BY <1>9 DEF LocalValue
  <2> QED BY <1>8, <2>1, <2>2, <2>3, RowsAssumption
<1>10. settings["schema_version"] = Stamp
  <2>1. "schema_version" \in Keys /\ "schema_version" \notin Local
        /\ "schema_version" \notin ValidKeys
    BY DEF Keys, Local, ValidKeys
  <2>2. row("schema_version") = None
    BY <2>1 DEF Normalised
  <2>3. Cleared(content.settings)["schema_version"] = Stamp
    BY <1>2, <2>1 DEF Cleared
  <2> HIDE DEF row
  <2> QED BY <2>1, <2>2, <2>3
<1>11. settings["default_cup_size"] \in Values /\ settings["default_cup_size"] # "espresso"
  <2> DEFINE cup == "default_cup_size"
  <2>1. cup \in Keys /\ cup \notin Local /\ cup \in ValidKeys
    BY DEF Keys, Local, ValidKeys
  <2>2. Cleared(content.settings)[cup] = None
    BY <2>1 DEF Cleared
  <2>3. None # "espresso" /\ None \in Values
    BY RowsAssumption DEF Values
  <2>4. row(cup) # None => row(cup) \in Values /\ row(cup) # "espresso"
    BY <1>4, <1>8, <2>1 DEF Normalised, Canonical
  <2>5. settings[cup] = IF row(cup) # None THEN row(cup) ELSE None
    BY <2>1, <2>2
  <2> HIDE DEF row, settings
  <2> QED BY <2>3, <2>4, <2>5
<1>12. settings \in [Keys -> Values]
  <2>1. Keys = Local \cup {"schema_version", "default_cup_size"}
    BY DEF Keys, Local, ValidKeys
  <2>2. \A key \in Keys : settings[key] \in Values
    <3> HIDE DEF settings
    <3> QED BY <1>8, <1>9, <1>10, <1>11, <2>1
  <2>3. settings = [key \in Keys |-> settings[key]]
    OBVIOUS
  <2> HIDE DEF settings
  <2> QED BY <2>2, <2>3
<1> HIDE DEF new, settings, hopper, presets, sessions
<1>13. new \in Content
  BY <1>1, <1>3, <1>5, <1>6, <1>7, <1>10, <1>11, <1>12 DEF Content, Sound
<1>14. new.settings = settings
  BY <1>1
<1>15. Local \subseteq Keys
  BY DEF Local, Keys, ValidKeys
<1> QED BY <1>9, <1>13, <1>14, <1>15 DEF new

\* All of a content is in the bundle that holds it.
LEMMA NothingIsLost ==
  ASSUME NEW held \in Content, NEW bundle, Holds(bundle, held)
  PROVE  /\ bundle.beans = held.beans /\ bundle.hopper = held.hopper
         /\ bundle.presets = held.presets \ {System}
         /\ bundle.settings = [key \in ValidKeys \ Local |-> Filtered(held.settings)[key]]
         /\ bundle.local = Hoisted(Filtered(held.settings))
         /\ bundle.sessions = held.sessions \/ CountRows(Export(held, TRUE)) > MaxRows
<1> DEFINE export == Export(held, TRUE)
<1>1. export \in Bundle
  BY ExportIsBundle
<1>2. /\ export.beans = held.beans /\ export.hopper = held.hopper
      /\ export.presets = held.presets \ {System} /\ export.sessions = held.sessions
      /\ export.settings = [key \in ValidKeys \ Local |-> Filtered(held.settings)[key]]
      /\ export.local = Hoisted(Filtered(held.settings))
  BY DEF Export
<1> HIDE DEF export
<1> QED BY <1>1, <1>2, FittingIsBundle DEF Holds, export

\* Restoring what was exported brings it back.
LEMMA ImportBringsBack ==
  ASSUME NEW content \in Content, NEW held \in Content, NEW bundle, Holds(bundle, held),
         NEW history, NEW new, new = Imported(content, bundle, history, FilterLocal(bundle))
  PROVE  /\ new.beans = held.beans /\ new.hopper = held.hopper
         /\ new.presets = held.presets
         /\ \A key \in Keys :
              \/ new.settings[key] = held.settings[key]
              \/ key \in Local /\ held.settings[key] \notin Trusted \cup Entities
<1>1. /\ bundle.beans = held.beans /\ bundle.hopper = held.hopper
      /\ bundle.presets = held.presets \ {System}
      /\ bundle.settings = [key \in ValidKeys \ Local |-> Filtered(held.settings)[key]]
      /\ bundle.local = Hoisted(Filtered(held.settings))
  BY NothingIsLost
<1>2. /\ held.hopper \in [Hoppers -> Beans \cup {None}]
      /\ held.settings \in [Keys -> Values]
      /\ \A h \in Hoppers : held.hopper[h] \in held.beans \cup {None}
      /\ System \in held.presets /\ System \in content.presets
      /\ held.settings["schema_version"] = Stamp /\ content.settings["schema_version"] = Stamp
      /\ held.settings["default_cup_size"] # "espresso"
  BY DEF Content, Sound
<1>3. new.beans = held.beans
  BY <1>1 DEF Imported
<1>4. new.hopper = held.hopper
  <2>1. new.hopper = [h \in Hoppers |-> HopperBean(bundle, h)]
    BY DEF Imported
  <2>2. \A h \in Hoppers : HopperBean(bundle, h) = held.hopper[h]
    BY <1>1, <1>2 DEF HopperBean
  <2>3. new.hopper = [h \in Hoppers |-> held.hopper[h]]
    BY <2>1, <2>2
  <2> QED BY <1>2, <2>3
<1>5. new.presets = held.presets
  <2>1. new.presets = (content.presets \cap {System}) \cup UserPresets(bundle)
    BY DEF Imported
  <2> QED BY <1>1, <1>2, <2>1 DEF UserPresets
<1>6. ASSUME NEW key \in Keys
      PROVE  \/ new.settings[key] = held.settings[key]
             \/ key \in Local /\ held.settings[key] \notin Trusted \cup Entities
  <2> DEFINE row == IF key \in DOMAIN bundle.settings
                    THEN Normalised(bundle.settings, key) ELSE None
             cleared == Cleared(content.settings)[key]
             offered == FilterLocal(bundle)[key]
  <2>1. new.settings[key] = IF key \in Local THEN LocalValue(offered, content.settings[key])
                            ELSE IF row # None THEN row ELSE cleared
    BY DEF Imported
  <2>2. DOMAIN bundle.settings = ValidKeys \ Local
    BY <1>1
  <2>3. CASE key \in Local
    <3>1. key \in ValidKeys
      BY <2>3 DEF ValidKeys
    <3>2. bundle.local[key] = held.settings[key]
      BY <1>1, <2>3, <3>1 DEF Hoisted, Filtered
    <3>3. held.settings[key] \in Trusted \cup Entities => offered = held.settings[key]
      BY <2>3, <3>2 DEF FilterLocal
    <3>4. None \notin Trusted \cup Entities
      BY RowsAssumption
    <3> HIDE DEF row, cleared, offered
    <3> QED BY <2>1, <2>3, <3>3, <3>4 DEF LocalValue
  <2>4. CASE key = "schema_version"
    <3>1. key \notin Local /\ key \notin ValidKeys
      BY <2>4 DEF Local, ValidKeys
    <3>2. row = None /\ cleared = Stamp
      BY <1>2, <2>2, <2>4, <3>1 DEF Cleared
    <3> HIDE DEF row, cleared, offered
    <3> QED BY <1>2, <2>1, <2>4, <3>1, <3>2
  <2>5. CASE key = "default_cup_size"
    <3>1. key \notin Local /\ key \in ValidKeys
      BY <2>5 DEF Local, ValidKeys
    <3>2. bundle.settings[key] = held.settings[key]
      BY <1>1, <3>1 DEF Filtered
    <3>3. row = held.settings[key] /\ cleared = None
      BY <1>2, <2>2, <2>5, <3>1, <3>2 DEF Normalised, Canonical, Cleared
    <3> HIDE DEF row, cleared, offered
    <3> QED BY <2>1, <3>1, <3>3
  <2> QED BY <2>3, <2>4, <2>5 DEF Keys, ValidKeys
<1> QED BY <1>3, <1>4, <1>5, <1>6

----------------------------------------------------------------------------
(* The requests.                                                            *)

JobsOK == at \in [Tasks -> Steps] /\ job \in [Tasks -> Job] /\ JobsFit

LEMMA NoJobFits == NoJob \in Job /\ Fits("idle", NoJob)
BY DEF NoJob, Job, Fits, Named

LEMMA NamesDiffer == None \notin AutoNames /\ None \notin Manual
                     /\ Manual \cap AutoNames = {} /\ AutoNames # {None}
BY SnapshotAssumption

\* A request is excused whenever it has begun.
LEMMA ExcusedFits ==
  ASSUME NEW a \in Steps, NEW j \in Job, Fits(a, j), NEW b \in BOOLEAN,
         a = "idle" => b = FALSE
  PROVE  LET k == [j EXCEPT !.excused = b]
         IN  k \in Job /\ Fits(a, k) /\ k.name = j.name /\ k.victims = j.victims
             /\ k.excused = b
<1> DEFINE k == [j EXCEPT !.excused = b]
<1>1. k \in Job
  BY DEF Job
<1>2. /\ k.source = j.source /\ k.bundle = j.bundle /\ k.offered = j.offered
      /\ k.undo = j.undo /\ k.content = j.content /\ k.name = j.name
      /\ k.victims = j.victims /\ k.excused = b
  BY DEF Job
<1>3. a = "idle" => k = NoJob
  <2>1. a = "idle" => j = NoJob /\ b = FALSE
    BY Zenon DEF Fits
  <2>2. j = NoJob => j.excused = FALSE
    BY DEF NoJob
  <2>3. [j EXCEPT !.excused = j.excused] = j
    BY DEF Job
  <2>4. a = "idle" => b = j.excused
    BY Zenon, <2>1, <2>2
  <2> QED BY Zenon, <2>1, <2>3, <2>4
<1> HIDE DEF k
<1>4. Fits(a, k)
  BY <1>2, <1>3 DEF Fits
<1> QED BY <1>1, <1>2, <1>4 DEF k

\* One request goes on, and the others stay.
LEMMA JobMoves ==
  ASSUME JobsOK, NEW t \in Tasks, NEW a \in Steps, NEW j \in Job, Fits(a, j),
         at' = [at EXCEPT ![t] = a], job' = [job EXCEPT ![t] = j]
  PROVE  JobsOK'
<1>1. at' \in [Tasks -> Steps] /\ job' \in [Tasks -> Job]
  BY DEF JobsOK
<1>2. at'[t] = a /\ job'[t] = j
      /\ \A u \in Tasks \ {t} : at'[u] = at[u] /\ job'[u] = job[u]
  BY DEF JobsOK
<1>3. \A u \in Tasks : Fits(at'[u], job'[u])
  BY <1>2 DEF JobsOK, JobsFit
<1> QED BY <1>1, <1>3 DEF JobsOK, JobsFit

\* A step that leaves what the request holds as it was.
LEMMA JobGoesOn ==
  ASSUME JobsOK, NEW t \in Tasks, NEW a \in Steps, Goes(t, a), UNCHANGED job,
         Fits(a, job[t])
  PROVE  JobsOK'
<1>1. job' = [job EXCEPT ![t] = job[t]] /\ job[t] \in Job
  BY DEF JobsOK
<1> QED BY <1>1, JobMoves DEF Goes

LEMMA JobEnds ==
  ASSUME JobsOK, NEW t \in Tasks, Ends(t)
  PROVE  JobsOK'
<1>1. "idle" \in Steps
  BY DEF Steps
<1> QED BY <1>1, NoJobFits, JobMoves DEF Ends, Goes

\* A request that is accepted, after validation.
LEMMA JobStarts ==
  ASSUME JobsOK, NEW t \in Tasks, NEW request \in Job, Starts(t, request),
         Fits("export", request)
  PROVE  JobsOK'
<1>1. "export" \in Steps
  BY DEF Steps
<1>2. CASE Goes(t, "export") /\ job' = [job EXCEPT ![t] = request]
  BY <1>1, <1>2, JobMoves DEF Goes
<1> QED BY <1>2, JobEnds DEF Starts

\* Those whose snapshot is gone, or may be, are excused.
LEMMA JobsExcused ==
  ASSUME JobsOK, NEW S, \A u \in S \cap Tasks : at[u] # "idle"
  PROVE  /\ Excuse(S) \in [Tasks -> Job]
         /\ \A u \in Tasks : /\ Fits(at[u], Excuse(S)[u])
                             /\ Excuse(S)[u].name = job[u].name
                             /\ Excuse(S)[u].victims = job[u].victims
                             /\ (job[u].excused => Excuse(S)[u].excused)
                             /\ (u \in S => Excuse(S)[u].excused)
<1>1. ASSUME NEW u \in Tasks
      PROVE  LET k == Excuse(S)[u]
             IN  k \in Job /\ Fits(at[u], k) /\ k.name = job[u].name
                 /\ k.victims = job[u].victims /\ (job[u].excused \/ u \in S => k.excused)
  <2> DEFINE b == job[u].excused \/ u \in S
  <2>1. job[u] \in Job /\ at[u] \in Steps /\ Fits(at[u], job[u])
    BY DEF JobsOK, JobsFit
  <2>2. b \in BOOLEAN
    OBVIOUS
  <2>3. at[u] = "idle" => b = FALSE
    <3>1. SUFFICES ASSUME at[u] = "idle" PROVE ~ job[u].excused /\ u \notin S
      OBVIOUS
    <3>2. job[u] = NoJob
      BY <2>1, <3>1 DEF Fits
    <3> QED BY <3>1, <3>2 DEF NoJob
  <2>4. Excuse(S)[u] = [job[u] EXCEPT !.excused = b]
    BY DEF Excuse
  <2> HIDE DEF b
  <2>5. LET k == [job[u] EXCEPT !.excused = b]
        IN  k \in Job /\ Fits(at[u], k) /\ k.name = job[u].name
            /\ k.victims = job[u].victims /\ k.excused = b
    BY <2>1, <2>2, <2>3, ExcusedFits, ZenonT(30)
  <2> QED BY <2>4, <2>5 DEF b
<1>2. Excuse(S) = [u \in Tasks |-> Excuse(S)[u]]
  BY DEF Excuse
<1> QED BY <1>1, <1>2

\* Only a request that has begun has the name of a file.
LEMMA NamedHasBegun ==
  ASSUME JobsOK, NEW u \in Tasks, job[u].name \in AutoNames
  PROVE  at[u] \in Named
BY NamesDiffer DEF JobsOK, JobsFit, Fits

LEMMA AskKeepsJobs ==
  ASSUME IInv, NEW t \in Tasks, Ask(t)
  PROVE  JobsOK'
<1>1. JobsOK
  BY DEF IInv, TypeOK, JobsOK
<1>2. ASSUME NEW bundle \in Uploads, NEW options \in Options[t],
             AskImport(t, bundle, options)
      PROVE  JobsOK'
  <2> DEFINE offered == IF options.local THEN FilterLocal(bundle)
                        ELSE [cell \in Local |-> None]
             request == [NoJob EXCEPT !.bundle = bundle, !.history = options.history,
                                      !.offered = offered]
  <2>1. bundle \in Bundle /\ options.history \in BOOLEAN
    BY SnapshotAssumption
  <2>2. offered \in Offers
    BY <2>1, FilterIsOffer DEF Offers
  <2> HIDE DEF offered
  <2>3. request \in Job
    BY <2>1, <2>2 DEF NoJob, Job
  <2>4. Fits("export", request)
    BY <2>1, <2>2 DEF NoJob, Fits, Named
  <2>5. Starts(t, request)
    BY <1>2 DEF AskImport, offered
  <2> HIDE DEF request
  <2> QED BY <1>1, <2>3, <2>4, <2>5, JobStarts
<1>3. ASSUME NEW name \in DOMAIN folder, NEW options \in Options[t],
             AskRestore(t, name, options)
      PROVE  JobsOK'
  <2> DEFINE request == [NoJob EXCEPT !.source = name, !.history = options.history]
  <2>1. name \in Manual \cup AutoNames /\ options.history \in BOOLEAN
    BY SnapshotAssumption DEF IInv, TypeOK
  <2>2. job[t] = NoJob
    BY <1>1, <1>3 DEF AskRestore, JobsOK, JobsFit, Fits
  <2>3. job' = [job EXCEPT ![t] = request]
    BY <1>1, <1>3, <2>2 DEF AskRestore, JobsOK
  <2>4. request \in Job /\ Fits("read", request)
    BY <2>1 DEF NoJob, Job, Fits, Named
  <2> HIDE DEF request
  <2> QED BY <1>1, <1>3, <2>3, <2>4, JobMoves DEF AskRestore, Goes, Steps
<1> QED BY <1>2, <1>3 DEF Ask

LEMMA ReadKeepsJobs ==
  ASSUME IInv, NEW t \in Tasks, ReadSnapshot(t)
  PROVE  JobsOK'
<1> DEFINE name == job[t].source
           file == folder[name]
           request == [job[t] EXCEPT !.bundle = file.body,
                                     !.offered = FilterLocal(file.body),
                                     !.content = file.content]
<1>1. JobsOK /\ at[t] = "read"
  BY DEF IInv, TypeOK, JobsOK, ReadSnapshot
<1>2. CASE name \in DOMAIN folder /\ file.body # Torn /\ Starts(t, request)
  <2>1. FileFits(file, writes)
    BY <1>2 DEF IInv, FilesFit
  <2>2. file.body \in Bundle /\ FilterLocal(file.body) \in Offers
    BY <1>2, <2>1, FilterIsOffer DEF FileFits
  <2>3. file.content \in Content \cup {None}
        /\ (file.content # None => Holds(file.body, file.content))
    BY <2>1 DEF FileFits
  <2>4. job[t] \in Job /\ Fits("read", job[t])
    BY <1>1 DEF JobsOK, JobsFit
  <2>5. request \in Job
    BY <2>2, <2>3, <2>4 DEF Job
  <2>6. /\ request.bundle = file.body /\ request.offered = FilterLocal(file.body)
        /\ request.content = file.content /\ request.name = job[t].name
        /\ request.victims = job[t].victims
    BY <2>4 DEF Job
  <2> HIDE DEF request, file
  <2>7. job[t].name = None /\ job[t].victims = {}
    BY <2>4 DEF Fits, Named
  <2>8. Fits("export", request)
    BY <2>2, <2>3, <2>6, <2>7 DEF Fits, Named
  <2> QED BY <1>1, <1>2, <2>5, <2>8, JobStarts
<1>3. CASE Ends(t)
  BY <1>1, <1>3, JobEnds
<1> QED BY <1>2, <1>3 DEF ReadSnapshot

LEMMA ExportKeepsJobs ==
  ASSUME IInv, NEW t \in Tasks, ExportBegins(t) \/ ExportEnds(t) \/ ExportFails(t)
  PROVE  JobsOK'
<1>1. JobsOK
  BY DEF IInv, TypeOK, JobsOK
<1>2. CASE ExportBegins(t)
  <2>1. CASE Goes(t, "exporting") /\ UNCHANGED job
    <3>1. Fits("exporting", job[t])
      BY <1>1, <1>2 DEF ExportBegins, JobsOK, JobsFit, Fits, Named
    <3> QED BY <1>1, <2>1, <3>1, JobGoesOn DEF Steps
  <2> QED BY <1>1, <1>2, <2>1, JobEnds DEF ExportBegins
<1>3. CASE ExportEnds(t)
  <2> DEFINE bundle == Fitting(Export(db, TRUE))
             undo == [body |-> bundle, content |-> db]
             j == [job[t] EXCEPT !.undo = undo]
  <2>1. CASE /\ ~ CountRows(bundle) > MaxRows
             /\ job' = [job EXCEPT ![t].undo = undo] /\ Goes(t, "name")
    <3>1. db \in Content
      BY DEF IInv, TypeOK
    <3>2. bundle \in Bundle /\ bundle.schema = Schema
      BY <3>1, ExportIsBundle, FittingIsBundle DEF Export
    <3>4. Holds(bundle, db)
      BY DEF Holds
    <3> HIDE DEF bundle
    <3>3. Valid(bundle)
      <4>1. CountRows(bundle) \in Nat /\ MaxRows \in Nat
        BY <3>2, RowsAreCounted, CapsAssumption
      <4>2. CountRows(bundle) <= MaxRows
        BY <2>1, <4>1
      <4> QED BY <3>2, <4>2 DEF Valid, Schema
    <3>5. undo \in Undo /\ Holds(undo.body, undo.content) /\ Valid(undo.body)
      BY <3>1, <3>2, <3>3, <3>4 DEF Undo
    <3>6. job[t] \in Job /\ Fits("exporting", job[t])
      BY <1>1, <1>3 DEF JobsOK, JobsFit, ExportEnds
    <3> HIDE DEF undo
    <3>7. j \in Job
      BY <3>5, <3>6 DEF Job
    <3>8. /\ j.undo = undo /\ j.bundle = job[t].bundle /\ j.offered = job[t].offered
          /\ j.content = job[t].content /\ j.name = job[t].name
          /\ j.victims = job[t].victims
      BY <3>6 DEF Job
    <3>9. job' = [job EXCEPT ![t] = j]
      BY <1>1, <2>1 DEF JobsOK
    <3> HIDE DEF j
    <3>10. Fits("name", j)
      BY <3>5, <3>6, <3>8 DEF Fits, Named
    <3> QED BY <1>1, <2>1, <3>7, <3>9, <3>10, JobMoves DEF Goes, Steps
  <2>2. CASE Ends(t)
    BY <1>1, <2>2, JobEnds
  <2> QED BY <1>3, <2>1, <2>2 DEF ExportEnds
<1> QED BY <1>1, <1>2, <1>3, JobEnds DEF ExportFails

LEMMA WriteKeepsJobs ==
  ASSUME IInv, NEW t \in Tasks,
         PicksName(t) \/ OpensFile(t) \/ WritesFile(t) \/ WriteFails(t)
  PROVE  JobsOK'
<1>1. JobsOK
  BY DEF IInv, TypeOK, JobsOK
<1>2. job[t] \in Job /\ Fits(at[t], job[t])
  BY <1>1 DEF JobsOK, JobsFit
<1>3. CASE PicksName(t)
  <2>1. PICK k \in 1 .. MaxAsked : job' = [job EXCEPT ![t].name = <<clock', k>>]
    BY <1>3 DEF PicksName
  <2> DEFINE name == <<clock', k>>
             j == [job[t] EXCEPT !.name = name]
  <2>2. name \in AutoNames
    <3>1. clock \in 0 .. MaxSecond
      BY DEF IInv, TypeOK
    <3>2. clock' \in 0 .. MaxSecond
      BY <1>3, <3>1, SnapshotAssumption DEF PicksName, Passes
    <3> QED BY <3>2 DEF AutoNames
  <2> HIDE DEF name
  <2>3. j \in Job
    BY <1>2, <2>2 DEF Job
  <2>4. /\ j.undo = job[t].undo /\ j.bundle = job[t].bundle
        /\ j.offered = job[t].offered /\ j.content = job[t].content /\ j.name = name
        /\ j.victims = job[t].victims
    BY <1>2 DEF Job
  <2>5. job' = [job EXCEPT ![t] = j] /\ at[t] = "name" /\ Goes(t, "open")
    BY <1>1, <1>3, <2>1 DEF PicksName, JobsOK, name
  <2> HIDE DEF j
  <2>6. Fits("open", j)
    BY <1>2, <2>2, <2>4, <2>5 DEF Fits, Named
  <2> QED BY <1>1, <2>3, <2>5, <2>6, JobMoves DEF Goes, Steps
<1>4. CASE OpensFile(t)
  <2> DEFINE name == job[t].name
             sharing == {u \in Tasks \ {t} : job[u].name = name}
             pruning == {u \in Tasks : name \in job[u].victims}
             S == IF sharing \cup pruning = {} THEN {} ELSE sharing \cup {t}
  <2>1. job' = Excuse(S) /\ at[t] = "open" /\ at' = [at EXCEPT ![t] = "write"]
    BY <1>4 DEF OpensFile, Goes
  <2>2. name \in AutoNames
    BY <1>2, <2>1 DEF Fits, Named
  <2>3. \A u \in S \cap Tasks : at[u] # "idle"
    BY <1>1, <2>1, <2>2, NamedHasBegun DEF Named
  <2> HIDE DEF S
  <2>4. /\ Excuse(S) \in [Tasks -> Job]
        /\ \A u \in Tasks : Fits(at[u], Excuse(S)[u])
    BY <1>1, <2>3, JobsExcused
  <2>5. Fits("write", Excuse(S)[t])
    BY <2>1, <2>4 DEF Fits, Named
  <2> QED BY <1>1, <2>1, <2>4, <2>5 DEF JobsOK, JobsFit, Steps
<1>5. CASE WritesFile(t)
  <2>1. CASE Goes(t, "list") /\ UNCHANGED job
    <3>1. Fits("list", job[t])
      BY <1>2, <1>5 DEF WritesFile, Fits, Named
    <3> QED BY <1>1, <2>1, <3>1, JobGoesOn DEF Steps
  <2> QED BY <1>1, <1>5, <2>1, JobEnds DEF WritesFile
<1>6. CASE WriteFails(t)
  BY <1>1, <1>6, JobEnds DEF WriteFails
<1> QED BY <1>3, <1>4, <1>5, <1>6

LEMMA PruneKeepsJobs ==
  ASSUME IInv, NEW t \in Tasks, ListsFolder(t) \/ ListFails(t) \/ Prunes(t)
  PROVE  JobsOK'
<1>1. JobsOK
  BY DEF IInv, TypeOK, JobsOK
<1>2. job[t] \in Job /\ Fits(at[t], job[t])
  BY <1>1 DEF JobsOK, JobsFit
<1>3. CASE ListsFolder(t)
  <2> DEFINE victims == Outdated(Candidates(t))
             pushedOut == {name \in victims : PushedOut(name)}
             S == {u \in Tasks : job[u].name \in pushedOut}
             k == Excuse(S)[t]
             j == [k EXCEPT !.victims = victims]
  <2>1. /\ at[t] = "list" /\ at' = [at EXCEPT ![t] = "prune"]
        /\ job' = [Excuse(S) EXCEPT ![t].victims = victims]
    BY <1>3 DEF ListsFolder, Goes
  <2>2. victims \subseteq AutoNames /\ job[t].source \notin victims
    BY DEF Outdated, Candidates
  <2>3. \A u \in S \cap Tasks : at[u] # "idle"
    BY <1>1, <2>2, NamedHasBegun DEF Named
  <2> HIDE DEF S, victims
  <2>4. /\ Excuse(S) \in [Tasks -> Job]
        /\ \A u \in Tasks : Fits(at[u], Excuse(S)[u])
    BY <1>1, <2>3, JobsExcused
  <2>5. k \in Job /\ Fits("list", k) /\ k.source = job[t].source
    <3>1. k.source = job[t].source
      BY <1>2 DEF Excuse, Job
    <3> QED BY <2>1, <2>4, <3>1
  <2>6. job' = [Excuse(S) EXCEPT ![t] = j]
    BY <2>1, <2>4
  <2> HIDE DEF k
  <2>7. j \in Job
    BY <2>2, <2>5 DEF Job
  <2>8. /\ j.source = k.source /\ j.bundle = k.bundle /\ j.offered = k.offered
        /\ j.content = k.content /\ j.name = k.name /\ j.victims = victims
    BY <2>5 DEF Job
  <2> HIDE DEF j
  <2>9. Fits("prune", j)
    BY <2>2, <2>5, <2>8 DEF Fits, Named
  <2> QED BY <1>1, <2>1, <2>4, <2>6, <2>7, <2>9 DEF JobsOK, JobsFit, Steps
<1>4. CASE ListFails(t)
  <2>1. Fits("apply", job[t])
    BY <1>2, <1>4 DEF ListFails, Fits, Named
  <2> QED BY <1>1, <1>4, <2>1, JobGoesOn DEF ListFails, Steps
<1>5. CASE Prunes(t)
  <2> DEFINE j == [job[t] EXCEPT !.victims = {}]
  <2>1. j \in Job
    BY <1>2 DEF Job
  <2>2. /\ j.bundle = job[t].bundle /\ j.offered = job[t].offered
        /\ j.content = job[t].content /\ j.name = job[t].name /\ j.victims = {}
    BY <1>2 DEF Job
  <2>3. job' = [job EXCEPT ![t] = j] /\ at[t] = "prune" /\ Goes(t, "apply")
    BY <1>1, <1>5 DEF Prunes, JobsOK
  <2> HIDE DEF j
  <2>4. Fits("apply", j)
    BY <1>2, <2>2, <2>3 DEF Fits, Named
  <2> QED BY <1>1, <2>1, <2>3, <2>4, JobMoves DEF Goes, Steps
<1> QED BY <1>3, <1>4, <1>5

LEMMA ApplyKeepsJobs ==
  ASSUME IInv, NEW t \in Tasks, ApplyBegins(t) \/ Apply(t) \/ ApplyFails(t)
  PROVE  JobsOK'
<1>1. JobsOK
  BY DEF IInv, TypeOK, JobsOK
<1>2. CASE ApplyBegins(t)
  <2>1. CASE Goes(t, "applying") /\ UNCHANGED job
    <3>1. Fits("applying", job[t])
      BY <1>1, <1>2 DEF ApplyBegins, JobsOK, JobsFit, Fits, Named
    <3> QED BY <1>1, <2>1, <3>1, JobGoesOn DEF Steps
  <2> QED BY <1>1, <1>2, <2>1, JobEnds DEF ApplyBegins
<1> QED BY <1>1, <1>2, JobEnds DEF Apply, ApplyFails

LEMMA DisturbanceKeepsJobs ==
  ASSUME IInv, Disturbance
  PROVE  JobsOK'
<1>1. JobsOK
  BY DEF IInv, TypeOK, JobsOK
<1>2. ASSUME NEW name \in DOMAIN folder, Delete(name) PROVE JobsOK'
  <2> DEFINE S == {u \in Tasks : job[u].name = name}
  <2>1. name \in Manual \cup AutoNames
    BY DEF IInv, TypeOK
  <2>2. \A u \in S \cap Tasks : job[u].name \in AutoNames
    BY <1>1, <2>1, NamesDiffer DEF JobsOK, Job
  <2>3. \A u \in S \cap Tasks : at[u] # "idle"
    BY <1>1, <2>2, NamedHasBegun DEF Named
  <2>4. job' = Excuse(S) /\ at' = at
    BY <1>2 DEF Delete
  <2> HIDE DEF S
  <2> QED BY <1>1, <2>3, <2>4, JobsExcused DEF JobsOK, JobsFit
<1>3. CASE Restart
  <2>1. /\ at' = [u \in Tasks |-> "idle"] /\ job' = [u \in Tasks |-> NoJob]
    BY <1>3 DEF Restart
  <2> QED BY <2>1, NoJobFits DEF JobsOK, JobsFit, Steps
<1>4. CASE UNCHANGED <<at, job>>
  BY <1>1, <1>4 DEF JobsOK, JobsFit
<1> QED BY <1>2, <1>3, <1>4 DEF Disturbance, Drop, OrdinaryWrite

LEMMA NextKeepsJobs == IInv /\ [Next]_vars => JobsOK'
<1> SUFFICES ASSUME IInv, [Next]_vars PROVE JobsOK'
  OBVIOUS
<1>1. CASE UNCHANGED vars
  BY <1>1 DEF vars, IInv, TypeOK, JobsOK, JobsFit
<1> QED
  BY <1>1, AskKeepsJobs, ReadKeepsJobs, ExportKeepsJobs, WriteKeepsJobs, PruneKeepsJobs,
     ApplyKeepsJobs, DisturbanceKeepsJobs
  DEF Next, Snapshot
----------------------------------------------------------------------------
(* The files.                                                               *)

FolderOK == DOMAIN folder \subseteq Manual \cup AutoNames /\ writes \in Nat /\ FilesFit

\* A file stays well formed while more are written.
LEMMA FileStays ==
  ASSUME NEW most \in Nat, NEW more \in Nat, more >= most, NEW file, FileFits(file, most)
  PROVE  FileFits(file, more)
<1>1. 0 .. most \subseteq 0 .. more
  OBVIOUS
<1> QED BY <1>1 DEF FileFits

LEMMA FilesWithout ==
  ASSUME FolderOK, NEW names, folder' = Without(names), writes' \in Nat, writes' >= writes
  PROVE  FolderOK'
<1>1. DOMAIN folder' = DOMAIN folder \ names
      /\ \A n \in DOMAIN folder' : folder'[n] = folder[n]
  BY DEF Without
<1>2. \A n \in DOMAIN folder : FileFits(folder[n], writes')
  BY FileStays DEF FolderOK, FilesFit
<1> QED BY <1>1, <1>2 DEF FolderOK, FilesFit

LEMMA FilesWith ==
  ASSUME FolderOK, NEW name \in Manual \cup AutoNames, NEW file, folder' = With(name, file),
         writes' \in Nat, writes' >= writes, FileFits(file, writes')
  PROVE  FolderOK'
<1>1. DOMAIN folder' = DOMAIN folder \cup {name}
      /\ \A n \in DOMAIN folder' : folder'[n] = IF n = name THEN file ELSE folder[n]
  BY DEF With
<1>2. \A n \in DOMAIN folder : FileFits(folder[n], writes')
  BY FileStays DEF FolderOK, FilesFit
<1> QED BY <1>1, <1>2 DEF FolderOK, FilesFit

LEMMA ClockGoesOn ==
  ASSUME clock \in 0 .. MaxSecond, Passes
  PROVE  clock' \in 0 .. MaxSecond /\ (~ MaySetBack => clock' >= clock)
BY SnapshotAssumption DEF Passes

LEMMA NextKeepsFiles ==
  ASSUME IInv, [Next]_vars
  PROVE  FolderOK' /\ db' \in Content /\ clock' \in 0 .. MaxSecond
<1>1. /\ FolderOK /\ db \in Content /\ clock \in 0 .. MaxSecond /\ writes \in Nat
      /\ \A t \in Tasks : job[t] \in Job /\ Fits(at[t], job[t])
  BY DEF IInv, TypeOK, FolderOK, JobsFit
<1>2. ASSUME UNCHANGED <<folder, writes>>
      PROVE  FolderOK'
  BY <1>1, <1>2 DEF FolderOK, FilesFit
<1>3. CASE UNCHANGED vars
  BY <1>1, <1>2, <1>3 DEF vars
<1>4. ASSUME NEW name \in Manual, NEW bundle \in Uploads, Drop(name, bundle)
      PROVE  FolderOK' /\ UNCHANGED <<db, clock>>
  <2> DEFINE file == [body |-> bundle, mtime |-> <<clock, writes>>, content |-> None]
  <2>1. bundle \in Bundle
    BY SnapshotAssumption
  <2>2. writes \in 0 .. writes
    BY <1>1
  <2>3. FileFits(file, writes)
    BY <1>1, <2>1, <2>2 DEF FileFits
  <2>4. folder' = With(name, file) /\ UNCHANGED <<db, clock, writes>>
    BY <1>4 DEF Drop
  <2> HIDE DEF file
  <2> QED BY <1>1, <2>3, <2>4, FilesWith
<1>5. CASE Disturbance
  <2>1. ASSUME NEW name \in DOMAIN folder, Delete(name)
        PROVE  FolderOK' /\ UNCHANGED <<db, clock>>
    BY <1>1, <2>1, FilesWithout DEF Delete
  <2>2. ASSUME NEW content \in Contents, OrdinaryWrite(content)
        PROVE  FolderOK' /\ db' \in Content /\ UNCHANGED clock
    BY <1>2, <2>2, SnapshotAssumption DEF OrdinaryWrite
  <2>3. CASE Restart
    BY <1>1, <1>2, <2>3 DEF Restart
  <2> QED BY <1>1, <1>4, <1>5, <2>1, <2>2, <2>3 DEF Disturbance
<1>6. ASSUME NEW t \in Tasks, OpensFile(t)
      PROVE  FolderOK' /\ UNCHANGED <<db, clock>>
  <2> DEFINE file == [body |-> Torn, mtime |-> <<clock, writes'>>, content |-> None]
  <2>1. job[t].name \in AutoNames
    BY <1>1, <1>6 DEF OpensFile, Fits, Named
  <2>2. folder' = With(job[t].name, file) /\ writes' = writes + 1 /\ UNCHANGED <<db, clock>>
    BY <1>6 DEF OpensFile
  <2>3. writes' \in Nat /\ writes' >= writes /\ writes' \in 0 .. writes'
    BY <1>1, <2>2
  <2>4. FileFits(file, writes')
    BY <1>1, <2>3 DEF FileFits
  <2> HIDE DEF file
  <2> QED BY <1>1, <2>1, <2>2, <2>3, <2>4, FilesWith
<1>7. ASSUME NEW t \in Tasks, WritesFile(t)
      PROVE  FolderOK' /\ UNCHANGED <<db, clock>>
  <2> DEFINE undo == job[t].undo
             file == [body |-> undo.body, mtime |-> <<clock, writes'>>,
                      content |-> undo.content]
  <2>1. job[t].name \in AutoNames /\ undo \in Undo /\ Holds(undo.body, undo.content)
    BY <1>1, <1>7 DEF WritesFile, Fits, Named
  <2>2. writes' = writes + 1 /\ UNCHANGED <<db, clock>>
    BY <1>7 DEF WritesFile
  <2>3. writes' \in Nat /\ writes' >= writes /\ writes' \in 0 .. writes'
    BY <1>1, <2>2
  <2>4. undo.body \in Bundle /\ undo.content \in Content
    BY <2>1 DEF Undo
  <2>5. FileFits(file, writes')
    BY <1>1, <2>1, <2>3, <2>4 DEF FileFits
  <2>6. folder' = With(job[t].name, file) \/ folder' = Without({job[t].name})
    BY <1>7 DEF WritesFile
  <2> HIDE DEF file
  <2> QED BY <1>1, <2>1, <2>2, <2>3, <2>5, <2>6, FilesWith, FilesWithout
<1>8. ASSUME NEW t \in Tasks, Apply(t)
      PROVE  FolderOK' /\ db' \in Content /\ UNCHANGED clock
  <2>1. job[t].bundle \in Bundle /\ job[t].offered \in Offers /\ job[t].history \in BOOLEAN
    BY <1>1, <1>8 DEF Apply, Fits, Job
  <2>2. db' \in Content
    BY <1>1, <1>8, <2>1, ImportIsContent DEF Apply
  <2> QED BY <1>2, <1>8, <2>2 DEF Apply
<1>9. ASSUME NEW t \in Tasks, Snapshot(t)
      PROVE  FolderOK' /\ UNCHANGED db /\ clock' \in 0 .. MaxSecond
  <2>1. CASE PicksName(t)
    BY <1>1, <1>2, <2>1, ClockGoesOn DEF PicksName
  <2>2. CASE Prunes(t)
    BY <1>1, <2>2, FilesWithout DEF Prunes
  <2>3. CASE \/ ExportBegins(t) \/ ExportEnds(t) \/ ExportFails(t) \/ WriteFails(t)
             \/ ListsFolder(t) \/ ListFails(t)
    BY <1>1, <1>2, <2>3
    DEF ExportBegins, ExportEnds, ExportFails, WriteFails, ListsFolder, ListFails
  <2> QED BY <1>1, <1>6, <1>7, <1>9, <2>1, <2>2, <2>3 DEF Snapshot
<1>10. ASSUME NEW t \in Tasks, Ask(t) \/ ReadSnapshot(t) \/ ApplyBegins(t) \/ ApplyFails(t)
       PROVE  FolderOK' /\ UNCHANGED <<db, clock>>
  BY <1>2, <1>10 DEF Ask, AskImport, AskRestore, ReadSnapshot, ApplyBegins, ApplyFails
<1> QED BY <1>1, <1>3, <1>5, <1>8, <1>9, <1>10 DEF Next

----------------------------------------------------------------------------
(* The invariant, and what follows from it.                                 *)

LEMMA InitHolds == Init => IInv
<1> SUFFICES ASSUME Init PROVE IInv
  OBVIOUS
<1>1. /\ db \in Content /\ clock \in 0 .. MaxSecond /\ writes \in Nat
      /\ DOMAIN folder = {}
  BY SnapshotAssumption DEF Init
<1>2. at \in [Tasks -> Steps] /\ job \in [Tasks -> Job] /\ JobsFit
  BY NoJobFits DEF Init, Steps, JobsFit
<1> QED BY <1>1, <1>2 DEF IInv, TypeOK, FilesFit

LEMMA NextKeepsIInv == IInv /\ [Next]_vars => IInv'
BY NextKeepsJobs, NextKeepsFiles DEF IInv, TypeOK, JobsOK, FolderOK

THEOREM InvariantHolds == Spec => []IInv
<1>1. IInv /\ UNCHANGED vars => IInv'
  BY NextKeepsIInv
<1> QED BY InitHolds, NextKeepsIInv, PTL DEF Spec

\* What the database, the files and the requests hold is well formed.
THEOREM TypesHold == Spec => []TypeOK
<1>1. IInv => TypeOK
  BY DEF IInv
<1> QED BY <1>1, InvariantHolds, PTL

\* A request that applies its import has all it needs for it.
LEMMA ApplyHasAll ==
  ASSUME IInv, NEW t \in Tasks, Apply(t)
  PROVE  /\ db \in Content /\ Fits("applying", job[t]) /\ job[t].history \in BOOLEAN
         /\ db' = Imported(db, job[t].bundle, job[t].history, job[t].offered)
<1>1. job[t] \in Job
  BY DEF IInv, TypeOK
<1> QED BY <1>1 DEF IInv, TypeOK, JobsFit, Apply, Job

\* An import leaves a sound content and no unusable value in a cell that
\* belongs to this install, whatever was edited in the bundle.
THEOREM ImportsAreSound == Spec => ImportsRespectTheInstall
<1>1. ASSUME IInv, NEW t \in Tasks, Apply(t)
      PROVE  /\ Sound(db')
             /\ \A cell \in Local : \/ db'.settings[cell] = db.settings[cell]
                                    \/ db'.settings[cell] \in Trusted \cup Entities
  <2>1. job[t].bundle \in Bundle /\ job[t].offered \in Offers
    BY <1>1, ApplyHasAll DEF Fits
  <2> QED BY <1>1, <2>1, ApplyHasAll, ImportIsContent DEF Content
<1>2. IInv => [\A t \in Tasks : Apply(t) =>
                 /\ Sound(db')
                 /\ \A cell \in Local :
                      \/ db'.settings[cell] = db.settings[cell]
                      \/ db'.settings[cell] \in Trusted \cup Entities]_vars
  BY <1>1
<1> QED BY <1>2, InvariantHolds, PTL DEF ImportsRespectTheInstall

\* Restoring a snapshot brings back what the database held when it was taken:
\* on the way out, in the file and on the way in nothing is lost.
THEOREM RestoresAreTrue == Spec => RestoresBringBack
<1> DEFINE True(t) ==
      LET held == job[t].content
      IN  /\ db'.beans = held.beans /\ db'.hopper = held.hopper
          /\ db'.presets = held.presets
          /\ db'.sessions = held.sessions \/ CountRows(Export(held, TRUE)) > MaxRows
          /\ \A key \in Keys :
               \/ db'.settings[key] = held.settings[key]
               \/ key \in Local /\ held.settings[key] \notin Trusted \cup Entities
<1>1. ASSUME IInv, NEW t \in Tasks, Apply(t), job[t].content # None, job[t].history
      PROVE  True(t)
  <2> DEFINE held == job[t].content
             bundle == job[t].bundle
  <2>1. held \in Content /\ Holds(bundle, held) /\ job[t].offered = FilterLocal(bundle)
    BY <1>1, ApplyHasAll DEF Fits
  <2>2. db \in Content /\ db' = Imported(db, bundle, job[t].history, FilterLocal(bundle))
    BY <1>1, <2>1, ApplyHasAll
  <2>3. db'.sessions = bundle.sessions
    BY <1>1, <2>2 DEF Imported
  <2>4. bundle.sessions = held.sessions \/ CountRows(Export(held, TRUE)) > MaxRows
    BY <2>1, NothingIsLost
  <2> HIDE DEF held, bundle
  <2>5. /\ db'.beans = held.beans /\ db'.hopper = held.hopper
        /\ db'.presets = held.presets
        /\ \A key \in Keys :
             \/ db'.settings[key] = held.settings[key]
             \/ key \in Local /\ held.settings[key] \notin Trusted \cup Entities
    BY <2>1, <2>2, ImportBringsBack
  <2> QED BY <2>3, <2>4, <2>5 DEF held
<1>2. IInv => [\A t \in Tasks : Apply(t) /\ job[t].content # None /\ job[t].history
                 => True(t)]_vars
  BY <1>1
<1> QED BY <1>2, InvariantHolds, PTL DEF RestoresBringBack

\* Of all steps only that of the pruning thread ends its pruning.
LEMMA PruneEnds ==
  ASSUME IInv, [Next]_vars, NEW t \in Tasks, at[t] = "prune", at'[t] = "apply"
  PROVE  Prunes(t)
<1>1. at \in [Tasks -> Steps]
  BY DEF IInv, TypeOK
<1>2. ASSUME NEW u \in Tasks, NEW to, Goes(u, to), u # t
      PROVE  FALSE
  BY <1>1, <1>2 DEF Goes
<1>3. ~ UNCHANGED at
  OBVIOUS
<1>4. ~ Disturbance
  BY <1>3 DEF Disturbance, Delete, Drop, OrdinaryWrite, Restart
<1>5. ASSUME NEW u \in Tasks, Ask(u) \/ ReadSnapshot(u) \/ ApplyBegins(u) \/ Apply(u)
                               \/ ApplyFails(u)
      PROVE  FALSE
  BY <1>1, <1>2, <1>5
  DEF Ask, AskImport, AskRestore, ReadSnapshot, ApplyBegins, Apply, ApplyFails, Starts,
      Ends
<1>6. ASSUME NEW u \in Tasks, Snapshot(u)
      PROVE  Prunes(t)
  BY <1>1, <1>2, <1>6
  DEF Snapshot, ExportBegins, ExportEnds, ExportFails, PicksName, OpensFile, WritesFile,
      WriteFails, ListsFolder, ListFails, Prunes, Ends
<1> QED BY <1>3, <1>4, <1>5, <1>6 DEF Next, vars

\* A prune takes neither the file that is being restored nor one of the user.
THEOREM PruningSpares == Spec => PruningSparesThem
<1>1. ASSUME IInv, [Next]_vars, NEW t \in Tasks, at[t] = "prune", at'[t] = "apply"
      PROVE  (Manual \cup {job[t].source}) \cap DOMAIN folder \subseteq DOMAIN folder'
  <2>1. folder' = Without(job[t].victims)
    BY <1>1, PruneEnds DEF Prunes
  <2>2. DOMAIN folder' = DOMAIN folder \ job[t].victims
    BY <2>1 DEF Without
  <2>3. job[t] \in Job /\ Fits(at[t], job[t])
    BY <1>1 DEF IInv, TypeOK, JobsFit
  <2>4. job[t].victims \subseteq AutoNames /\ job[t].source \notin job[t].victims
    BY <2>3 DEF Job, Fits
  <2> QED BY <2>2, <2>4, NamesDiffer
<1>2. IInv /\ [Next]_vars =>
        [\A t \in Tasks : at[t] = "prune" /\ at'[t] = "apply" =>
           (Manual \cup {job[t].source}) \cap DOMAIN folder \subseteq DOMAIN folder']_vars
  BY <1>1
<1> QED BY <1>2, InvariantHolds, PTL DEF Spec, PruningSparesThem
----------------------------------------------------------------------------
(* The undo.                                                                *)

\* A step that begins no file and lists none.
Quiet ==
  \A t \in Tasks :
    /\ at'[t] \in Opened =>
         /\ at[t] \in Opened /\ job'[t].name = job[t].name
         /\ ~ job'[t].excused => ~ job[t].excused
    /\ job'[t].victims \subseteq job[t].victims

LEMMA QuietStep ==
  ASSUME UndoFits, Quiet,
         \A t \in Tasks : at'[t] \in Written /\ ~ job'[t].excused => Lies(t)'
  PROVE  UndoFits'
<1>1. ASSUME NEW t \in Tasks, NEW u \in Tasks, t # u,
             at'[t] \in Opened, at'[u] \in Opened, job'[t].name = job'[u].name
      PROVE  job'[t].excused
  BY <1>1, Zenon DEF UndoFits, Quiet
<1>2. ASSUME NEW t \in Tasks, NEW u \in Tasks, at'[t] \in Opened,
             job'[t].name \in job'[u].victims
      PROVE  job'[t].excused
  BY <1>2, Zenon DEF UndoFits, Quiet
<1> QED BY <1>1, <1>2, Zenon DEF UndoFits

\* ... and touches no file that matters.
LEMMA UntouchedStep ==
  ASSUME UndoFits, Quiet,
         \A t \in Tasks : at'[t] \in Written /\ ~ job'[t].excused =>
           /\ at[t] \in Written
           /\ job[t].name \in DOMAIN folder =>
                job[t].name \in DOMAIN folder' /\ folder'[job[t].name] = folder[job[t].name]
  PROVE  UndoFits'
<1>1. ASSUME NEW t \in Tasks, at'[t] \in Written, ~ job'[t].excused
      PROVE  Lies(t)'
  <2>1. job'[t].name = job[t].name /\ ~ job[t].excused
    BY <1>1 DEF Quiet, Written
  <2>2. Lies(t)
    BY <1>1, <2>1, Zenon DEF UndoFits
  <2> QED BY <1>1, <2>1, <2>2 DEF Lies
<1> QED BY <1>1, QuietStep

\* One request moves on.
LEMMA OneMoves ==
  ASSUME JobsOK, UndoFits, NEW t \in Tasks, NEW a, NEW j,
         at' = [at EXCEPT ![t] = a], job' = [job EXCEPT ![t] = j],
         a \in Opened => at[t] \in Opened /\ j = job[t],
         j.victims \subseteq job[t].victims
  PROVE  Quiet
<1>1. at'[t] = a /\ job'[t] = j
      /\ \A u \in Tasks \ {t} : at'[u] = at[u] /\ job'[u] = job[u]
  BY DEF JobsOK
<1> QED BY <1>1, Zenon DEF Quiet

\* One request moves on, or ends, with the files as they are.
LEMMA OneMovesOn ==
  ASSUME JobsOK, UndoFits, NEW t \in Tasks, NEW a, NEW j,
         at' = [at EXCEPT ![t] = a], job' = [job EXCEPT ![t] = j], UNCHANGED folder,
         a \in Opened => at[t] \in Written /\ a \in Written /\ j = job[t],
         j.victims \subseteq job[t].victims
  PROVE  UndoFits'
<1>1. at'[t] = a /\ job'[t] = j
      /\ \A u \in Tasks \ {t} : at'[u] = at[u] /\ job'[u] = job[u]
  BY DEF JobsOK
<1>2. Quiet
  BY OneMoves DEF Written
<1>3. \A u \in Tasks : at'[u] \in Written => at[u] \in Written
  BY <1>1 DEF Written
<1> QED BY <1>2, <1>3, UntouchedStep

LEMMA OneEnds ==
  ASSUME JobsOK, UndoFits, NEW t \in Tasks, Ends(t), UNCHANGED folder
  PROVE  UndoFits'
<1>1. NoJob.victims \subseteq job[t].victims /\ "idle" \notin Opened
  BY DEF NoJob, Opened, Named
<1> QED BY <1>1, OneMovesOn DEF Ends, Goes

\* The steps that neither begin a file, nor write, list or prune.
LEMMA OthersKeepUndo ==
  ASSUME IInv, UndoFits, NEW t \in Tasks,
         \/ Ask(t) \/ ReadSnapshot(t) \/ ExportBegins(t) \/ ExportEnds(t) \/ ExportFails(t)
         \/ PicksName(t) \/ WriteFails(t) \/ ListFails(t)
         \/ ApplyBegins(t) \/ Apply(t) \/ ApplyFails(t)
  PROVE  UndoFits'
<1>1. JobsOK /\ job[t] \in Job
  BY DEF IInv, TypeOK, JobsOK
<1>2. UNCHANGED folder
  BY DEF Ask, AskImport, AskRestore, ReadSnapshot, ExportBegins, ExportEnds, ExportFails,
         PicksName, WriteFails, ListFails, ApplyBegins, Apply, ApplyFails
<1>3. CASE Ends(t)
  BY <1>1, <1>2, <1>3, OneEnds
<1>4. ASSUME NEW a, Goes(t, a), UNCHANGED job,
             a \in Opened => at[t] \in Written /\ a \in Written
      PROVE  UndoFits'
  <2>1. job' = [job EXCEPT ![t] = job[t]]
    BY <1>1, <1>4 DEF JobsOK
  <2> QED BY <1>1, <1>2, <1>4, <2>1, OneMovesOn DEF Goes
<1>5. ASSUME NEW a, a \notin Opened, Goes(t, a), NEW j, job' = [job EXCEPT ![t] = j],
             j.victims \subseteq job[t].victims
      PROVE  UndoFits'
  BY <1>1, <1>2, <1>5, OneMovesOn DEF Goes
<1>6. \A a \in {"read", "export", "exporting", "name", "open"} : a \notin Opened
  BY DEF Opened, Named
<1>7. ASSUME NEW bundle \in Uploads, NEW options \in Options[t], AskImport(t, bundle, options)
      PROVE  UndoFits'
  <2> DEFINE offered == IF options.local THEN FilterLocal(bundle)
                        ELSE [cell \in Local |-> None]
             j == [NoJob EXCEPT !.bundle = bundle, !.history = options.history,
                                !.offered = offered]
  <2>1. j.victims = {}
    BY DEF NoJob
  <2>2. Starts(t, j)
    BY <1>7 DEF AskImport
  <2> HIDE DEF j
  <2> QED BY <1>3, <1>5, <1>6, <2>1, <2>2 DEF Starts
<1>8. ASSUME NEW name \in DOMAIN folder, NEW options \in Options[t],
             AskRestore(t, name, options)
      PROVE  UndoFits'
  <2> DEFINE j == [job[t] EXCEPT !.source = name, !.history = options.history]
  <2>1. job' = [job EXCEPT ![t] = j]
    BY <1>1, <1>8 DEF AskRestore, JobsOK
  <2>2. j.victims = job[t].victims
    BY <1>1 DEF Job
  <2> HIDE DEF j
  <2> QED BY <1>5, <1>6, <1>8, <2>1, <2>2 DEF AskRestore
<1>9. CASE ReadSnapshot(t)
  <2> DEFINE file == folder[job[t].source]
             j == [job[t] EXCEPT !.bundle = file.body, !.offered = FilterLocal(file.body),
                                 !.content = file.content]
  <2>1. j.victims = job[t].victims
    BY <1>1 DEF Job
  <2>2. Starts(t, j) \/ Ends(t)
    BY <1>9 DEF ReadSnapshot
  <2> HIDE DEF j
  <2> QED BY <1>3, <1>5, <1>6, <2>1, <2>2 DEF Starts
<1>10. CASE ExportEnds(t)
  <2> DEFINE undo == [body |-> Fitting(Export(db, TRUE)), content |-> db]
             j == [job[t] EXCEPT !.undo = undo]
  <2>1. j.victims = job[t].victims
    BY <1>1 DEF Job
  <2>2. \/ Ends(t)
        \/ job' = [job EXCEPT ![t].undo = undo] /\ Goes(t, "name")
    BY <1>10 DEF ExportEnds
  <2>3. [job EXCEPT ![t].undo = undo] = [job EXCEPT ![t] = j]
    BY <1>1 DEF JobsOK
  <2> HIDE DEF j, undo
  <2> QED BY <1>3, <1>5, <1>6, <2>1, <2>2, <2>3
<1>11. CASE PicksName(t)
  <2>1. PICK k \in 1 .. MaxAsked : job' = [job EXCEPT ![t].name = <<clock', k>>]
    BY <1>11 DEF PicksName
  <2> DEFINE j == [job[t] EXCEPT !.name = <<clock', k>>]
  <2>2. j.victims = job[t].victims
    BY <1>1 DEF Job
  <2>3. job' = [job EXCEPT ![t] = j]
    BY <1>1, <2>1 DEF JobsOK
  <2> HIDE DEF j
  <2> QED BY <1>5, <1>6, <1>11, <2>2, <2>3 DEF PicksName
<1>12. CASE ExportBegins(t)
  <2>1. Ends(t) \/ (Goes(t, "exporting") /\ UNCHANGED job)
    BY <1>12 DEF ExportBegins
  <2> QED BY <1>3, <1>4, <1>6, <2>1
<1>13. CASE ListFails(t) \/ ApplyBegins(t)
  <2>1. {"list", "apply", "applying"} \subseteq Written
    BY DEF Written, Opened, Named
  <2> QED BY <1>3, <1>4, <1>13, <2>1 DEF ListFails, ApplyBegins
<1>14. CASE ExportFails(t) \/ WriteFails(t) \/ Apply(t) \/ ApplyFails(t)
  BY <1>3, <1>14 DEF ExportFails, WriteFails, Apply, ApplyFails
<1> QED BY <1>7, <1>8, <1>9, <1>10, <1>11, <1>12, <1>13, <1>14 DEF Ask

LEMMA DisturbanceKeepsUndo ==
  ASSUME IInv, UndoFits, Disturbance
  PROVE  UndoFits'
<1>1. JobsOK /\ \A t \in Tasks : at[t] \in Opened => job[t].name \in AutoNames
  BY DEF IInv, TypeOK, JobsOK, JobsFit, Fits, Opened
<1>2. ASSUME NEW name \in DOMAIN folder, Delete(name)
      PROVE  UndoFits'
  <2> DEFINE S == {t \in Tasks : job[t].name = name}
  <2>1. \A t \in S \cap Tasks : at[t] # "idle"
    <3>1. name \in Manual \cup AutoNames
      BY DEF IInv, TypeOK
    <3>2. \A t \in S \cap Tasks : job[t].name \in AutoNames
      BY <1>1, <3>1, NamesDiffer DEF JobsOK, Job
    <3> QED BY <1>1, <3>2, NamedHasBegun DEF Named
  <2>2. job' = Excuse(S) /\ at' = at
    BY <1>2 DEF Delete
  <2> HIDE DEF S
  <2>3. \A t \in Tasks : /\ job'[t].name = job[t].name
                         /\ job'[t].victims = job[t].victims
                         /\ (job[t].excused => job'[t].excused)
                         /\ (t \in S => job'[t].excused)
    BY <1>1, <2>1, <2>2, JobsExcused
  <2>4. Quiet
    BY <2>2, <2>3, Zenon DEF Quiet
  <2>5. DOMAIN folder' = DOMAIN folder \ {name}
        /\ \A n \in DOMAIN folder' : folder'[n] = folder[n]
    BY <1>2 DEF Delete, Without
  <2>6. \A t \in Tasks : ~ job'[t].excused => job[t].name # name
    BY <2>3 DEF S
  <2> QED BY <2>2, <2>4, <2>5, <2>6, UntouchedStep
<1>3. ASSUME NEW name \in Manual, NEW bundle \in Uploads, Drop(name, bundle)
      PROVE  UndoFits'
  <2>1. Quiet
    BY <1>3 DEF Drop, Quiet
  <2>2. \A n \in DOMAIN folder \ {name} : n \in DOMAIN folder' /\ folder'[n] = folder[n]
    BY <1>3 DEF Drop, With
  <2>3. \A t \in Tasks : at[t] \in Written => job[t].name # name
    BY <1>1, NamesDiffer DEF Written
  <2> QED BY <1>3, <2>1, <2>2, <2>3, UntouchedStep DEF Drop
<1>4. CASE UNCHANGED <<folder, at, job>>
  BY <1>4, UntouchedStep DEF Quiet
<1>5. CASE Restart
  <2>1. \A t \in Tasks : at'[t] = "idle" /\ job'[t].victims = {}
    BY <1>5 DEF Restart, NoJob
  <2> QED BY <2>1, UntouchedStep DEF Quiet, Written, Opened, Named
<1> QED BY <1>2, <1>3, <1>4, <1>5 DEF Disturbance, OrdinaryWrite

LEMMA OpenKeepsUndo ==
  ASSUME IInv, UndoFits, NEW t \in Tasks, OpensFile(t)
  PROVE  UndoFits'
<1> DEFINE name == job[t].name
           sharing == {u \in Tasks \ {t} : job[u].name = name}
           pruning == {u \in Tasks : name \in job[u].victims}
           S == IF sharing \cup pruning = {} THEN {} ELSE sharing \cup {t}
           file == [body |-> Torn, mtime |-> <<clock, writes'>>, content |-> None]
<1>1. /\ JobsOK /\ at[t] = "open" /\ at' = [at EXCEPT ![t] = "write"] /\ job' = Excuse(S)
      /\ folder' = With(name, file)
  BY DEF IInv, TypeOK, JobsOK, OpensFile, Goes
<1>2. name \in AutoNames
  BY <1>1 DEF JobsOK, JobsFit, Fits, Named
<1>3. \A u \in S \cap Tasks : at[u] # "idle"
  BY <1>1, <1>2, NamedHasBegun DEF Named
<1>4. /\ at'[t] = "write" /\ \A u \in Tasks \ {t} : at'[u] = at[u]
      /\ \A n \in DOMAIN folder \ {name} : n \in DOMAIN folder' /\ folder'[n] = folder[n]
  BY <1>1 DEF JobsOK, With
<1>5. \A u \in Tasks \ {t} : job[u].name = name => u \in S /\ t \in S
  OBVIOUS
<1>6. \A u \in Tasks : name \in job[u].victims => t \in S
  OBVIOUS
<1> HIDE DEF S, file
<1>7. \A u \in Tasks : /\ job'[u].name = job[u].name
                       /\ job'[u].victims = job[u].victims
                       /\ (job[u].excused => job'[u].excused)
                       /\ (u \in S => job'[u].excused)
  BY <1>1, <1>3, JobsExcused
<1>8. ASSUME NEW u \in Tasks, at'[u] \in Written, ~ job'[u].excused
      PROVE  Lies(u)'
  <2>1. u # t /\ at[u] \in Written
    BY <1>4, <1>8 DEF Written
  <2>2. job[u].name # name /\ ~ job[u].excused
    BY <1>5, <1>7, <1>8, <2>1, Zenon
  <2>3. Lies(u)
    BY <2>1, <2>2, Zenon DEF UndoFits
  <2> QED BY <1>4, <1>7, <2>2, <2>3 DEF Lies
<1>9. ASSUME NEW u \in Tasks, NEW v \in Tasks, u # v,
             at'[u] \in Opened, at'[v] \in Opened, job'[u].name = job'[v].name
      PROVE  job'[u].excused
  <2>1. CASE u = t \/ v = t
    BY <1>5, <1>7, <1>9, <2>1, ZenonT(30)
  <2>2. CASE u # t /\ v # t
    <3>1. at[u] \in Opened /\ at[v] \in Opened /\ job[u].name = job[v].name
      BY <1>4, <1>7, <1>9, <2>2
    <3> QED BY <1>7, <1>9, <3>1, Zenon DEF UndoFits
  <2> QED BY <2>1, <2>2
<1>10. ASSUME NEW u \in Tasks, NEW v \in Tasks, at'[u] \in Opened,
              job'[u].name \in job'[v].victims
       PROVE  job'[u].excused
  <2>1. CASE u = t
    BY <1>6, <1>7, <1>10, <2>1, Zenon
  <2>2. CASE u # t
    <3>1. at[u] \in Opened /\ job[u].name \in job[v].victims
      BY <1>4, <1>7, <1>10, <2>2
    <3> QED BY <1>7, <1>10, <3>1, Zenon DEF UndoFits
  <2> QED BY <2>1, <2>2
<1> QED BY <1>8, <1>9, <1>10, Zenon DEF UndoFits

LEMMA WriteKeepsUndo ==
  ASSUME IInv, UndoFits, NEW t \in Tasks, WritesFile(t)
  PROVE  UndoFits'
<1> DEFINE name == job[t].name
           undo == job[t].undo
           file == [body |-> undo.body, mtime |-> <<clock, writes'>>, content |-> undo.content]
<1>1. /\ JobsOK /\ job[t] \in Job /\ at[t] = "write" /\ undo \in Undo /\ Valid(undo.body)
  BY DEF IInv, TypeOK, JobsOK, JobsFit, Fits, WritesFile
<1>2. ASSUME NEW u \in Tasks \ {t}, at[u] \in Written, ~ job[u].excused
      PROVE  Lies(u) /\ job[u].name # name
  <2>1. Lies(u)
    BY <1>2, Zenon DEF UndoFits
  <2>2. at[u] \in Opened /\ at[t] \in Opened
    BY <1>1, <1>2 DEF Written, Opened, Named
  <2>3. job[u].name # name
    BY <1>2, <2>2, Zenon DEF UndoFits
  <2> QED BY <2>1, <2>3
<1>3. CASE folder' = With(name, file) /\ ~ TooLarge(undo.body) /\ Goes(t, "list")
           /\ UNCHANGED job
  <2>1. /\ at'[t] = "list" /\ \A u \in Tasks \ {t} : at'[u] = at[u]
        /\ name \in DOMAIN folder' /\ folder'[name] = file
        /\ \A n \in DOMAIN folder \ {name} : n \in DOMAIN folder' /\ folder'[n] = folder[n]
    BY <1>1, <1>3 DEF JobsOK, Goes, With
  <2>2. Quiet
    BY <1>1, <1>3, <2>1 DEF Quiet, Opened, Named
  <2>3. file.body \in Bundle /\ Restorable(file.body)
    <3>1. undo.body \in Bundle
      BY <1>1 DEF Undo
    <3>2. Bytes(undo.body) \in Nat /\ MaxBytes \in Nat /\ ~ Bytes(undo.body) > MaxBytes
      BY <1>3, <3>1, RowsAreCounted, CapsAssumption DEF TooLarge
    <3>3. Bytes(undo.body) <= MaxBytes
      BY <3>2
    <3> QED BY <1>1, <3>1, <3>3 DEF Restorable
  <2> HIDE DEF file
  <2>4. ASSUME NEW u \in Tasks, at'[u] \in Written, ~ job'[u].excused
        PROVE  Lies(u)'
    <3>1. CASE u = t
      BY <1>3, <2>1, <2>3, <3>1 DEF Lies
    <3>2. CASE u # t
      <4>1. Lies(u) /\ job[u].name # name
        BY <1>2, <1>3, <2>1, <2>4, <3>2
      <4> QED BY <1>3, <2>1, <4>1 DEF Lies
    <3> QED BY <3>1, <3>2
  <2> QED BY <2>2, <2>4, QuietStep
<1>4. CASE folder' = Without({name}) /\ Ends(t)
  <2>1. /\ at' = [at EXCEPT ![t] = "idle"] /\ job' = [job EXCEPT ![t] = NoJob]
        /\ at'[t] = "idle" /\ \A u \in Tasks \ {t} : at'[u] = at[u] /\ job'[u] = job[u]
    BY <1>1, <1>4 DEF JobsOK, Ends, Goes
  <2>2. NoJob.victims \subseteq job[t].victims /\ "idle" \notin Opened
    BY DEF NoJob, Opened, Named
  <2>3. Quiet
    BY <1>1, <2>1, <2>2, OneMoves
  <2>4. \A n \in DOMAIN folder \ {name} : n \in DOMAIN folder' /\ folder'[n] = folder[n]
    BY <1>4 DEF Without
  <2>5. \A u \in Tasks : at'[u] \in Written /\ ~ job'[u].excused =>
          u # t /\ at[u] \in Written /\ job[u].name # name
    BY <1>2, <2>1, <2>2 DEF Written
  <2> QED BY <2>3, <2>4, <2>5, UntouchedStep
<1> QED BY <1>3, <1>4 DEF WritesFile

LEMMA PrunesKeepsUndo ==
  ASSUME IInv, UndoFits, NEW t \in Tasks, Prunes(t)
  PROVE  UndoFits'
<1> DEFINE j == [job[t] EXCEPT !.victims = {}]
<1>1. /\ JobsOK /\ job[t] \in Job /\ at[t] = "prune" /\ at' = [at EXCEPT ![t] = "apply"]
      /\ job' = [job EXCEPT ![t] = j]
  BY DEF IInv, TypeOK, JobsOK, Prunes, Goes
<1>2. j.name = job[t].name /\ j.excused = job[t].excused /\ j.victims = {}
  BY <1>1 DEF Job
<1> HIDE DEF j
<1>3. /\ at'[t] = "apply" /\ job'[t] = j
      /\ \A u \in Tasks \ {t} : at'[u] = at[u] /\ job'[u] = job[u]
  BY <1>1 DEF JobsOK
<1>4. {"prune", "apply"} \subseteq Written /\ Written \subseteq Opened
  BY DEF Written, Opened, Named
<1>5. Quiet
  BY <1>1, <1>2, <1>3, <1>4, Zenon DEF Quiet
<1>6. DOMAIN folder' = DOMAIN folder \ job[t].victims
      /\ \A n \in DOMAIN folder' : folder'[n] = folder[n]
  BY DEF Prunes, Without
<1>7. ASSUME NEW u \in Tasks, at'[u] \in Written, ~ job'[u].excused
      PROVE  at[u] \in Written /\ job[u].name \notin job[t].victims
  <2>1. at[u] \in Written /\ at[u] \in Opened
    BY <1>1, <1>3, <1>4, <1>7
  <2>2. ~ job[u].excused
    BY <1>4, <1>5, <1>7, Zenon DEF Quiet
  <2> QED BY <2>1, <2>2, Zenon DEF UndoFits
<1> QED BY <1>5, <1>6, <1>7, UntouchedStep

LEMMA AutoNamesAreFinite == IsFiniteSet(AutoNames)
<1>1. IsFiniteSet(0 .. MaxSecond) /\ IsFiniteSet(1 .. MaxAsked)
  BY FS_Interval, SnapshotAssumption
<1> QED BY <1>1, FS_Product DEF AutoNames

\* All that a prune lists has been pushed out by snapshots that are newer.
LEMMA VictimsArePushedOut ==
  ASSUME IInv, InOrder, NEW files \in SUBSET (DOMAIN folder \cap AutoNames),
         NEW name \in Outdated(files)
  PROVE  PushedOut(name)
<1> DEFINE newer == {f \in files : Newer(f, name)}
           later == {n \in DOMAIN folder \cap AutoNames :
                       folder[n].mtime[2] > folder[name].mtime[2]}
<1>1. name \in files /\ Cardinality(newer) >= Keep
  BY DEF Outdated
<1>2. ASSUME NEW f \in newer PROVE f \in later
  <2>1. f \in DOMAIN folder \cap AutoNames /\ name \in DOMAIN folder \cap AutoNames
    BY <1>1, <1>2
  <2> DEFINE m == folder[f].mtime
             o == folder[name].mtime
  <2>2. m \in (0 .. MaxSecond) \X (0 .. writes) /\ o \in (0 .. MaxSecond) \X (0 .. writes)
    BY <2>1 DEF IInv, FilesFit, FileFits
  <2>3. m[1] \in Int /\ m[2] \in Int /\ o[1] \in Int /\ o[2] \in Int
    BY <2>2
  <2>4. f # name => m[2] # o[2]
    BY <2>1 DEF InOrder
  <2>5. m[2] < o[2] => m[1] <= o[1]
    BY <2>1 DEF InOrder
  <2>6. Newer(f, name)
    BY <1>2
  <2> HIDE DEF m, o
  <2>7. /\ f # name
        /\ \/ m[1] > o[1]
           \/ m[1] = o[1] /\ m[2] > o[2]
           \/ m = o
    <3>1. name[1] \in Int /\ name[2] \in Int
      BY <2>1 DEF AutoNames
    <3>2. CASE f = name
      <4>1. m = o
        BY <3>2 DEF m, o
      <4> QED BY <2>3, <2>6, <3>1, <3>2, <4>1 DEF Newer, m, o
    <3> QED BY <2>6, <3>2 DEF Newer, m, o
  <2>8. m[2] > o[2]
    BY <2>3, <2>4, <2>5, <2>7
  <2> QED BY <2>1, <2>8 DEF m, o
<1>3. newer \subseteq later
  BY <1>2
<1>4. IsFiniteSet(later)
  <2>1. later \subseteq AutoNames
    OBVIOUS
  <2> QED BY <2>1, AutoNamesAreFinite, FS_Subset
<1> HIDE DEF newer, later
<1>5. /\ IsFiniteSet(newer) /\ Cardinality(newer) <= Cardinality(later)
      /\ Cardinality(newer) \in Nat /\ Cardinality(later) \in Nat
  BY <1>3, <1>4, FS_Subset, FS_CardinalityType
<1>6. Keep \in Nat
  BY SnapshotAssumption
<1>7. Keep <= Cardinality(later)
  BY <1>1, <1>5, <1>6
<1> QED BY <1>7 DEF PushedOut, later

LEMMA ListKeepsUndo ==
  ASSUME IInv, InOrder, UndoFits, NEW t \in Tasks, ListsFolder(t)
  PROVE  UndoFits'
<1> DEFINE victims == Outdated(Candidates(t))
           S == {u \in Tasks : job[u].name \in {n \in victims : PushedOut(n)}}
           k == Excuse(S)[t]
           j == [k EXCEPT !.victims = victims]
<1>1. /\ JobsOK /\ at[t] = "list" /\ at' = [at EXCEPT ![t] = "prune"]
      /\ job' = [Excuse(S) EXCEPT ![t].victims = victims] /\ UNCHANGED folder
  BY DEF IInv, TypeOK, JobsOK, ListsFolder, Goes
<1>2. victims \subseteq AutoNames
  BY DEF Outdated, Candidates
<1>3. Candidates(t) \in SUBSET (DOMAIN folder \cap AutoNames)
  BY DEF Candidates
<1>4. \A n \in victims : PushedOut(n)
  BY <1>3, VictimsArePushedOut
<1>5. \A u \in Tasks : job[u].name \in victims => u \in S
  BY <1>4
<1>6. \A u \in S \cap Tasks : at[u] # "idle"
  BY <1>1, <1>2, NamedHasBegun DEF Named
<1> HIDE DEF S, victims
<1>7. /\ Excuse(S) \in [Tasks -> Job]
      /\ \A u \in Tasks : /\ Excuse(S)[u].name = job[u].name
                          /\ Excuse(S)[u].victims = job[u].victims
                          /\ (job[u].excused => Excuse(S)[u].excused)
                          /\ (u \in S => Excuse(S)[u].excused)
  BY <1>1, <1>6, JobsExcused
<1>8. job' = [Excuse(S) EXCEPT ![t] = j] /\ k \in Job
  BY <1>1, <1>7
<1>9. j.name = k.name /\ j.excused = k.excused /\ j.victims = victims
  BY <1>8 DEF Job
<1> HIDE DEF j
<1>10. /\ job'[t] = j /\ \A u \in Tasks \ {t} : job'[u] = Excuse(S)[u]
       /\ at'[t] = "prune" /\ \A u \in Tasks \ {t} : at'[u] = at[u]
  BY <1>1, <1>7, <1>8 DEF JobsOK
<1>11. \A u \in Tasks : /\ job'[u].name = job[u].name
                        /\ (job[u].excused => job'[u].excused)
                        /\ (u \in S => job'[u].excused)
                        /\ u # t => job'[u].victims = job[u].victims
  BY <1>7, <1>9, <1>10, Zenon
<1>12. \A u \in Tasks : /\ at'[u] \in Opened => at[u] \in Opened
                        /\ at'[u] \in Written => at[u] \in Written
  BY <1>1, <1>10 DEF Written, Opened, Named
<1>13. ASSUME NEW u \in Tasks, at'[u] \in Written, ~ job'[u].excused
       PROVE  Lies(u)'
  <2>1. Lies(u)
    BY <1>11, <1>12, <1>13, Zenon DEF UndoFits
  <2> QED BY <1>1, <1>11, <2>1 DEF Lies
<1>14. ASSUME NEW u \in Tasks, NEW v \in Tasks, u # v,
              at'[u] \in Opened, at'[v] \in Opened, job'[u].name = job'[v].name
       PROVE  job'[u].excused
  BY <1>11, <1>12, <1>14, Zenon DEF UndoFits
<1>15. ASSUME NEW u \in Tasks, NEW v \in Tasks, at'[u] \in Opened,
              job'[u].name \in job'[v].victims
       PROVE  job'[u].excused
  <2>1. CASE v = t
    BY <1>5, <1>9, <1>10, <1>11, <1>15, <2>1, Zenon
  <2>2. CASE v # t
    BY <1>11, <1>12, <1>15, <2>2, Zenon DEF UndoFits
  <2> QED BY <2>1, <2>2
<1> QED BY <1>13, <1>14, <1>15, Zenon DEF UndoFits

\* The order of the files.
LEMMA OrderWithout ==
  ASSUME OrderFits, NEW names, folder' = Without(names), UNCHANGED clock
  PROVE  OrderFits'
<1>1. DOMAIN folder' \subseteq DOMAIN folder
      /\ \A n \in DOMAIN folder' : folder'[n] = folder[n]
  BY DEF Without
<1> QED BY <1>1 DEF OrderFits, InOrder

LEMMA OrderWith ==
  ASSUME IInv, OrderFits, NEW name, NEW file, folder' = With(name, file), UNCHANGED clock,
         file.mtime[1] = clock,
         name \in AutoNames => file.mtime[2] = writes + 1
  PROVE  OrderFits'
<1>1. /\ DOMAIN folder' = DOMAIN folder \cup {name} /\ folder'[name] = file
      /\ \A n \in DOMAIN folder \ {name} : folder'[n] = folder[n]
  BY DEF With
<1>2. \A n \in DOMAIN folder : /\ folder[n].mtime[1] \in Nat /\ folder[n].mtime[2] \in Nat
                               /\ folder[n].mtime[1] <= clock
                               /\ folder[n].mtime[2] < writes + 1
  BY SnapshotAssumption DEF IInv, TypeOK, FilesFit, FileFits, OrderFits
<1>3. clock \in Nat /\ writes \in Nat
  BY SnapshotAssumption DEF IInv, TypeOK
<1>4. ASSUME NEW f \in DOMAIN folder' \cap AutoNames, NEW g \in DOMAIN folder' \cap AutoNames
      PROVE  /\ f # g => folder'[f].mtime[2] # folder'[g].mtime[2]
             /\ folder'[f].mtime[2] < folder'[g].mtime[2] =>
                  folder'[f].mtime[1] <= folder'[g].mtime[1]
  <2>1. CASE f # name /\ g # name
    BY <1>1, <1>4, <2>1 DEF OrderFits, InOrder
  <2>2. CASE f = name /\ g # name
    <3>1. /\ folder'[f].mtime[2] = writes + 1 /\ folder'[g].mtime[2] \in Nat
          /\ folder'[g].mtime[2] < writes + 1
      BY <1>1, <1>2, <1>4, <2>2
    <3> QED BY <1>3, <3>1
  <2>3. CASE f # name /\ g = name
    <3>1. /\ folder'[g].mtime[2] = writes + 1 /\ folder'[f].mtime[2] \in Nat
          /\ folder'[f].mtime[2] < writes + 1
          /\ folder'[g].mtime[1] = clock /\ folder'[f].mtime[1] <= clock
      BY <1>1, <1>2, <1>4, <2>3
    <3> QED BY <1>3, <3>1
  <2>4. CASE f = name /\ g = name
    <3>1. folder'[f].mtime[2] = writes + 1 /\ f = g
      BY <1>1, <1>4, <2>4
    <3> QED BY <1>3, <3>1
  <2> QED BY <2>1, <2>2, <2>3, <2>4
<1>5. \A n \in DOMAIN folder' : folder'[n].mtime[1] <= clock'
  BY <1>1, <1>2, <1>3
<1> QED BY <1>4, <1>5 DEF OrderFits, InOrder

LEMMA NextKeepsOrder ==
  ASSUME ~ MaySetBack, IInv, OrderFits, [Next]_vars
  PROVE  OrderFits'
<1>1. ASSUME UNCHANGED folder, clock' >= clock
      PROVE  OrderFits'
  <2>1. /\ clock \in Int /\ clock' \in Int
        /\ \A n \in DOMAIN folder : folder[n].mtime[1] \in Int
    BY NextKeepsFiles DEF IInv, TypeOK, FilesFit, FileFits
  <2> QED BY <1>1, <2>1 DEF OrderFits, InOrder
<1>2. clock >= clock
  BY DEF IInv, TypeOK
<1>3. CASE UNCHANGED <<folder, clock>>
  BY <1>1, <1>2, <1>3
<1>4. ASSUME NEW name \in Manual, NEW bundle \in Uploads, Drop(name, bundle)
      PROVE  OrderFits'
  BY <1>4, NamesDiffer, OrderWith DEF Drop
<1>5. ASSUME NEW t \in Tasks, OpensFile(t)
      PROVE  OrderFits'
  BY <1>5, OrderWith DEF OpensFile
<1>6. ASSUME NEW t \in Tasks, WritesFile(t)
      PROVE  OrderFits'
  BY <1>6, OrderWith, OrderWithout DEF WritesFile
<1>7. ASSUME NEW t \in Tasks, Prunes(t)
      PROVE  OrderFits'
  BY <1>7, OrderWithout DEF Prunes
<1>8. ASSUME NEW t \in Tasks, PicksName(t)
      PROVE  OrderFits'
  BY <1>1, <1>8, ClockGoesOn DEF PicksName, IInv, TypeOK
<1>9. CASE Disturbance
  BY <1>3, <1>4, <1>9, OrderWithout DEF Disturbance, Delete, OrdinaryWrite, Restart
<1>10. ASSUME NEW t \in Tasks,
              \/ Ask(t) \/ ReadSnapshot(t) \/ ExportBegins(t) \/ ExportEnds(t)
              \/ ExportFails(t) \/ WriteFails(t) \/ ListsFolder(t) \/ ListFails(t)
              \/ ApplyBegins(t) \/ Apply(t) \/ ApplyFails(t)
       PROVE  OrderFits'
  BY <1>3, <1>10
  DEF Ask, AskImport, AskRestore, ReadSnapshot, ExportBegins, ExportEnds, ExportFails,
      WriteFails, ListsFolder, ListFails, ApplyBegins, Apply, ApplyFails
<1> QED BY <1>3, <1>5, <1>6, <1>7, <1>8, <1>9, <1>10 DEF Next, Snapshot, vars

LEMMA NextKeepsUndo ==
  ASSUME ~ MaySetBack, UndoInv, [Next]_vars
  PROVE  UndoInv'
<1>1. IInv /\ OrderFits /\ InOrder /\ UndoFits
  BY DEF UndoInv, OrderFits
<1>2. IInv'
  BY <1>1, NextKeepsIInv
<1>3. OrderFits'
  BY <1>1, NextKeepsOrder
<1>4. ASSUME UNCHANGED vars PROVE UndoFits'
  <2>1. UNCHANGED <<folder, at, job>>
    BY <1>4 DEF vars
  <2>2. Quiet /\ \A t \in Tasks : at'[t] \in Written => at[t] \in Written
    BY <2>1 DEF Quiet
  <2>3. \A name \in DOMAIN folder : name \in DOMAIN folder' /\ folder'[name] = folder[name]
    BY <2>1
  <2> QED BY <1>1, <2>2, <2>3, UntouchedStep
<1>5. ASSUME NEW t \in Tasks, Snapshot(t)
      PROVE  UndoFits'
  BY <1>1, <1>5, OthersKeepUndo, OpenKeepsUndo, WriteKeepsUndo, PrunesKeepsUndo,
     ListKeepsUndo
  DEF Snapshot
<1>6. ASSUME NEW t \in Tasks,
             \/ Ask(t) \/ ReadSnapshot(t) \/ ApplyBegins(t) \/ Apply(t) \/ ApplyFails(t)
      PROVE  UndoFits'
  BY <1>1, <1>6, OthersKeepUndo
<1>7. ASSUME Disturbance PROVE UndoFits'
  BY <1>1, <1>7, DisturbanceKeepsUndo
<1>8. UndoFits'
  BY <1>4, <1>5, <1>6, <1>7 DEF Next
<1> QED BY <1>2, <1>3, <1>8 DEF UndoInv

\* Whoever is about to replace the configuration has its undo in the folder,
\* whatever other imports, restores and prunes are under way: as long as the
\* clock is not set back, which puts the newest snapshot behind older ones.
THEOREM ImportsHaveTheirUndo == ASSUME ~ MaySetBack PROVE Spec => []ImportsCanBeUndone
<1>1. Init => UndoInv
  BY InitHolds DEF UndoInv, Init, OrderFits, InOrder, UndoFits, Written, Opened, Named
<1>2. UndoInv /\ [Next]_vars => UndoInv'
  BY NextKeepsUndo
<1>3. UndoInv => ImportsCanBeUndone
  <2>1. SUFFICES ASSUME UndoInv, NEW t \in Tasks, at[t] = "applying", ~ job[t].excused
                 PROVE  Lies(t) /\ folder[job[t].name].body # Torn
    BY Zenon DEF ImportsCanBeUndone, Lies
  <2>2. at[t] \in Written
    BY <2>1 DEF Written, Opened, Named
  <2>3. Lies(t)
    BY <2>1, <2>2, Zenon DEF UndoInv, UndoFits
  <2> QED BY <2>3, RowsAssumption DEF Lies, Torn
<1> QED BY <1>1, <1>2, <1>3, PTL DEF Spec
=============================================================================
