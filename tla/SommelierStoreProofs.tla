------------------------ MODULE SommelierStoreProofs ------------------------
(***************************************************************************)
(* What SommelierStore guarantees for any set of tasks, rows, bundles and  *)
(* handlers; the theorems on the atomic store and on exports assume, as    *)
(* rule 5 of sommelier_backup.py demands, that no handler writes without   *)
(* db._lock.                                                               *)
(***************************************************************************)
EXTENDS SommelierStore, TLAPS

USE HandlersAssumption, FilesAssumption, NoneAssumption

(* What the SQL statements leave is again content of the database.          *)
LEMMA StatementsAreClosed ==
  ASSUME NEW c \in Content
  PROVE  /\ c.active \subseteq c.profiles
         /\ Empty \in Content
         /\ Deactivated(c) \in Content
         /\ \A profile : Activated(c, profile) \in Content
         /\ \A profile : WithoutProfile(c, profile) \in Content
         /\ \A favorite \in Favorites : /\ WithFavorite(c, favorite) \in Content
                                        /\ WithRating(c, favorite) \in Content
         /\ \A favorite : /\ WithoutFavorite(c, favorite) \in Content
                          /\ WithoutRating(c, favorite) \in Content
         /\ WithoutOrphans(c) \in Content
         /\ [c EXCEPT !.ratings = {}] \in Content
         /\ [c EXCEPT !.favorites = {}] \in Content
         /\ [c EXCEPT !.profiles = {}, !.active = {}] \in Content
  BY DEF Content, Empty, Deactivated, Activated, WithoutProfile, WithFavorite,
         WithRating, WithoutFavorite, WithoutRating, WithoutOrphans

(* The insert phase merges the rows of a bundle into the content.           *)
LEMMA InsertsAreClosed ==
  ASSUME NEW c \in Content, NEW bundle \in Content
  PROVE  /\ [c EXCEPT !.profiles = @ \cup bundle.profiles,
                      !.active = @ \cup bundle.active] \in Content
         /\ [c EXCEPT !.favorites = @ \cup bundle.favorites] \in Content
         /\ [c EXCEPT !.ratings = @ \cup bundle.ratings] \in Content
  BY DEF Content

(* A snapshot that is read table by table is content at every moment.       *)
LEMMA ReadsAreClosed ==
  ASSUME NEW c \in Content, NEW snapshot \in Content
  PROVE  /\ [snapshot EXCEPT !.profiles = c.profiles, !.active = c.active] \in Content
         /\ [snapshot EXCEPT !.favorites = c.favorites] \in Content
         /\ [snapshot EXCEPT !.ratings = c.ratings] \in Content
  BY DEF Content

(* None is not the name of a handler.                                       *)
LEMMA NoneIsNoHandler ==
  None \notin {"activate", "addFavorite", "deleteProfile", "removeFavorite",
               "rate", "note", "export", "import", "apply"}
BY DEF AllHandlers, LockedWriters, UnlockedWriters
----------------------------------------------------------------------------
(* Types and jobs.                                                          *)

JobsOK == /\ at \in [Tasks -> Stages] /\ job \in [Tasks -> Jobs] /\ JobInv

(* A task that ends has no job, and the others keep theirs.                 *)
LEMMA EndsKeepsJobs ==
  ASSUME JobsOK, NEW t \in Tasks, Ends(t)
  PROVE  JobsOK'
<1> USE DEF JobsOK, Ends
<1>1. NoJob \in Jobs
  BY StatementsAreClosed DEF NoJob, Jobs, Empty, Content
<1>2. at' \in [Tasks -> Stages] /\ job' \in [Tasks -> Jobs]
  BY <1>1 DEF Stages
<1>3. ASSUME NEW u \in Tasks
      PROVE  /\ at'[u] \in StagesOf(job'[u].handler)
             /\ job'[u].handler # None => job'[u].row \in Rows(job'[u].handler)
             /\ job'[u].handler \in {"import", "apply"} => job'[u].bundle \in Content
  <2>1. CASE u = t
    <3>1. at'[u] = "idle" /\ job'[u] = NoJob
      BY <2>1
    <3>2. NoJob.handler = None
      BY DEF NoJob
    <3>3. StagesOf(None) = {"idle"}
      BY NoneIsNoHandler DEF StagesOf
    <3> QED BY <3>1, <3>2, <3>3, NoneIsNoHandler
  <2>2. CASE u # t
    BY <2>2 DEF JobInv
  <2> QED BY <2>1, <2>2
<1> QED BY <1>2, <1>3 DEF JobInv

(* A task whose job changes with its stage keeps the jobs in order.         *)
LEMMA NewJobKeepsJobs ==
  ASSUME JobsOK, NEW t \in Tasks, NEW to \in Stages, NEW new \in Jobs,
         to \in StagesOf(new.handler),
         new.handler # None => new.row \in Rows(new.handler),
         new.handler \in {"import", "apply"} => new.bundle \in Content,
         at' = [at EXCEPT ![t] = to], job' = [job EXCEPT ![t] = new]
  PROVE  JobsOK'
BY DEF JobsOK, JobInv

(* A task that moves on to a stage of its handler keeps the jobs in order.  *)
LEMMA MoveKeepsJobs ==
  ASSUME JobsOK, NEW t \in Tasks, NEW to \in Stages,
         to \in StagesOf(job[t].handler),
         at' = [at EXCEPT ![t] = to], job' = job
  PROVE  JobsOK'
BY DEF JobsOK, JobInv

StoreOK == /\ committed \in Content /\ view \in Content /\ txn \in BOOLEAN
           /\ lock \in Tasks \cup {None} /\ backup \in Tasks \cup {None}

(* A statement that writes content of the database keeps all types.         *)
LEMMA WritesKeepsTypes ==
  ASSUME StoreOK, JobsOK, NEW t \in Tasks, NEW from, NEW to \in Stages,
         to \in StagesOf(job[t].handler), NEW content \in Content,
         Writes(t, from, to, content)
  PROVE  StoreOK' /\ JobsOK'
<1>1. StoreOK'
  BY DEF StoreOK, Writes, lockVars
<1>2. JobsOK'
  BY MoveKeepsJobs DEF Writes
<1> QED BY <1>1, <1>2

(* The handler of a task follows from its stage.                            *)
LEMMA StageTellsHandler ==
  ASSUME JobsOK, NEW t \in Tasks
  PROVE  /\ at[t] \in {"deactivate", "activate"} => job[t].handler = "activate"
         /\ at[t] = "insertFavorite" => job[t].handler = "addFavorite"
         /\ at[t] = "deleteProfile" => job[t].handler = "deleteProfile"
         /\ at[t] \in {"removeFavorite", "removeRating"} =>
              job[t].handler = "removeFavorite"
         /\ at[t] = "rate" => job[t].handler = "rate"
         /\ at[t] = "commit" => job[t].handler \in LockedWriters \cup UnlockedWriters
         /\ at[t] \in {"settle", "begin"} =>
              job[t].handler \in {"export", "import", "apply"}
         /\ at[t] \in Reading => job[t].handler \in {"export", "import"}
         /\ at[t] = "snapshotTaken" => job[t].handler = "import"
         /\ at[t] \in Importing => job[t].handler = "apply"
         /\ at[t] = "lock" => job[t].handler \notin UnlockedWriters \cup {None}
<1>1. at[t] \in StagesOf(job[t].handler)
  BY DEF JobsOK, JobInv
<1>2. job[t].handler \in AllHandlers \cup {"apply", None}
  BY DEF JobsOK, Jobs
<1> QED BY <1>1, <1>2, NoneIsNoHandler DEF StagesOf, Reading, Importing,
        AllHandlers, LockedWriters, UnlockedWriters

(* Every write statement keeps the types.                                   *)
LEMMA WriteKeepsTypes ==
  ASSUME StoreOK, JobsOK, NEW t \in Tasks, Write(t)
  PROVE  StoreOK' /\ JobsOK'
<1> DEFINE row == job[t].row
<1>1. at[t] \in {"deactivate", "activate", "deleteProfile", "insertFavorite",
                 "removeFavorite", "removeRating", "rate"} =>
        row \in Rows(job[t].handler)
  BY StageTellsHandler, NoneIsNoHandler DEF JobsOK, JobInv
<1>2. /\ Deactivated(view) \in Content /\ Activated(view, row) \in Content
      /\ WithoutProfile(view, row) \in Content
      /\ WithoutFavorite(view, row) \in Content
      /\ WithoutRating(view, row) \in Content
      /\ row \in Favorites => /\ WithFavorite(view, row) \in Content
                              /\ WithRating(view, row) \in Content
  BY StatementsAreClosed DEF StoreOK
<1>3. CASE Deactivate(t)
  <2>1. at[t] = "deactivate" /\ "activate" \in StagesOf(job[t].handler)
    BY <1>3, StageTellsHandler, NoneIsNoHandler DEF Deactivate, Writes, StagesOf
  <2> QED BY <1>2, <1>3, <2>1, WritesKeepsTypes DEF Deactivate, Stages
<1>4. CASE Activate(t)
  <2>1. at[t] = "activate" /\ "commit" \in StagesOf(job[t].handler)
    BY <1>4, StageTellsHandler, NoneIsNoHandler DEF Activate, Writes, StagesOf
  <2> QED BY <1>2, <1>4, <2>1, WritesKeepsTypes DEF Activate, Stages
<1>5. CASE InsertFavorite(t)
  <2>1. /\ at[t] = "insertFavorite" /\ "commit" \in StagesOf(job[t].handler)
        /\ job[t].handler = "addFavorite"
    BY <1>5, StageTellsHandler, NoneIsNoHandler DEF InsertFavorite, Writes, StagesOf
  <2>2. row \in Favorites
    BY <1>1, <2>1 DEF Rows
  <2> QED BY <1>2, <1>5, <2>1, <2>2, WritesKeepsTypes DEF InsertFavorite, Stages
<1>6. CASE DeleteProfile(t)
  <2>1. at[t] = "deleteProfile" /\ "commit" \in StagesOf(job[t].handler)
    BY <1>6, StageTellsHandler, NoneIsNoHandler DEF DeleteProfile, Writes, StagesOf
  <2> QED BY <1>2, <1>6, <2>1, WritesKeepsTypes DEF DeleteProfile, Stages
<1>7. CASE RemoveFavorite(t)
  <2>1. at[t] = "removeFavorite" /\ "removeRating" \in StagesOf(job[t].handler)
    BY <1>7, StageTellsHandler, NoneIsNoHandler DEF RemoveFavorite, Writes, StagesOf
  <2> QED BY <1>2, <1>7, <2>1, WritesKeepsTypes DEF RemoveFavorite, Stages
<1>8. CASE RemoveRating(t)
  <2>1. at[t] = "removeRating" /\ "commit" \in StagesOf(job[t].handler)
    BY <1>8, StageTellsHandler, NoneIsNoHandler DEF RemoveRating, Writes, StagesOf
  <2> QED BY <1>2, <1>8, <2>1, WritesKeepsTypes DEF RemoveRating, Stages
<1>9. CASE Rate(t)
  <2>1. /\ at[t] = "rate" /\ "commit" \in StagesOf(job[t].handler)
        /\ job[t].handler = "rate"
    BY <1>9, StageTellsHandler, NoneIsNoHandler DEF Rate, Writes, StagesOf
  <2>2. row \in Favorites
    BY <1>1, <2>1 DEF Rows
  <2> QED BY <1>2, <1>9, <2>1, <2>2, WritesKeepsTypes DEF Rate, Stages
<1>10. CASE Commit(t)
  <2>1. JobsOK'
    BY <1>10, EndsKeepsJobs DEF Commit
  <2>2. StoreOK'
    BY <1>10 DEF Commit, CommittedBy, Releases, StoreOK
  <2> QED BY <2>1, <2>2
<1> QED BY <1>3, <1>4, <1>5, <1>6, <1>7, <1>8, <1>9, <1>10 DEF Write

(* Every statement of an export keeps the types.                            *)
LEMMA ExportKeepsTypes ==
  ASSUME StoreOK, JobsOK, NEW t \in Tasks, Export(t)
  PROVE  StoreOK' /\ JobsOK'
<1> DEFINE handler == job[t].handler
<1>0. job[t] \in Jobs
  BY DEF JobsOK
<1>1. CASE Settle(t)
  <2>1. "begin" \in StagesOf(handler)
    BY <1>1, StageTellsHandler, NoneIsNoHandler DEF Settle, StagesOf
  <2> QED BY <1>1, <2>1, MoveKeepsJobs DEF Settle, StoreOK, lockVars, Stages
<1>2. CASE Begin(t)
  <2>1. handler \in {"export", "import", "apply"}
    BY <1>2, StageTellsHandler DEF Begin
  <2>2. IF handler = "apply" THEN "clearRatings" \in StagesOf(handler)
        ELSE "readProfiles" \in StagesOf(handler)
    BY <2>1, NoneIsNoHandler DEF StagesOf, Reading, Importing
  <2>3. {"clearRatings", "readProfiles"} \subseteq Stages
    BY DEF Stages, Reading, Importing
  <2>4. JobsOK'
    BY <1>2, <2>2, <2>3, MoveKeepsJobs DEF Begin
  <2> QED BY <1>2, <2>4 DEF Begin, StoreOK, lockVars
<1>3. CASE Refused(t)
  BY <1>3, EndsKeepsJobs DEF Refused, Releases, StoreOK, dbVars
<1>4. ASSUME NEW from \in Reading, NEW to \in Reading, NEW snapshot \in Content,
             Reads(t, from, to, snapshot)
      PROVE  StoreOK' /\ JobsOK'
  <2>1. handler \in {"export", "import"} /\ to \in StagesOf(handler)
    BY <1>4, StageTellsHandler, NoneIsNoHandler DEF Reads, StagesOf
  <2>2. /\ to \in Stages
        /\ handler # None => job[t].row \in Rows(handler)
        /\ handler \in {"import", "apply"} => job[t].bundle \in Content
    BY DEF Stages, JobsOK, JobInv
  <2>3. [job[t] EXCEPT !.snapshot = snapshot] \in Jobs
    BY <1>0 DEF Jobs
  <2>4. job' = [job EXCEPT ![t] = [job[t] EXCEPT !.snapshot = snapshot]]
    BY <1>4 DEF Reads
  <2>5. JobsOK'
    <3> DEFINE new == [job[t] EXCEPT !.snapshot = snapshot]
    <3>1. /\ new.handler = handler /\ new.row = job[t].row
          /\ new.bundle = job[t].bundle
      BY <1>0 DEF Jobs
    <3> HIDE DEF new
    <3> QED BY <1>4, <2>1, <2>2, <2>3, <2>4, <3>1, NewJobKeepsJobs DEF Reads, new
  <2> QED BY <1>4, <2>5 DEF Reads, StoreOK, dbVars, lockVars
<1>5. job[t].snapshot \in Content
  BY <1>0 DEF Jobs
<1>6. CASE ReadProfiles(t)
  BY <1>4, <1>5, <1>6, ReadsAreClosed DEF ReadProfiles, Reading, StoreOK
<1>7. CASE ReadFavorites(t)
  BY <1>4, <1>5, <1>7, ReadsAreClosed DEF ReadFavorites, Reading, StoreOK
<1>8. CASE ReadRatings(t)
  BY <1>4, <1>5, <1>8, ReadsAreClosed DEF ReadRatings, Reading, StoreOK
<1>9. CASE ExportCommits(t)
  <2>1. handler \in {"export", "import"}
    BY <1>9, StageTellsHandler DEF ExportCommits, Reading
  <2>2. JobsOK'
    <3>1. CASE handler = "export"
      BY <1>9, <3>1, EndsKeepsJobs DEF ExportCommits
    <3>2. CASE handler = "import"
      <4>1. "snapshotTaken" \in StagesOf(handler) /\ "snapshotTaken" \in Stages
        BY <3>2, NoneIsNoHandler DEF StagesOf, Stages
      <4> QED BY <1>9, <3>2, <4>1, MoveKeepsJobs DEF ExportCommits
    <3> QED BY <2>1, <3>1, <3>2
  <2> QED BY <1>9, <2>2 DEF ExportCommits, Releases, StoreOK
<1> QED BY <1>1, <1>2, <1>3, <1>6, <1>7, <1>8, <1>9 DEF Export

(* Every statement of an import keeps the types.                            *)
LEMMA ImportKeepsTypes ==
  ASSUME StoreOK, JobsOK, NEW t \in Tasks, Import(t)
  PROVE  StoreOK' /\ JobsOK'
<1> DEFINE bundle == job[t].bundle
<1>0. job[t] \in Jobs /\ view \in Content
  BY DEF JobsOK, StoreOK
<1>1. ASSUME NEW from \in Importing, NEW to \in Importing, NEW content \in Content,
             Writes(t, from, to, content)
      PROVE  StoreOK' /\ JobsOK'
  <2>1. to \in StagesOf(job[t].handler)
    BY <1>1, StageTellsHandler, NoneIsNoHandler DEF Writes, StagesOf
  <2> QED BY <1>1, <2>1, WritesKeepsTypes DEF Stages
<1>2. at[t] \in Importing => bundle \in Content
  BY StageTellsHandler DEF JobsOK, JobInv
<1>3. CASE ApplyRequested(t)
  <2>1. CASE /\ backup' = t /\ at' = [at EXCEPT ![t] = "lock"]
             /\ job' = [job EXCEPT ![t].handler = "apply"]
    <3> DEFINE new == [job[t] EXCEPT !.handler = "apply"]
    <3>1. job[t].handler = "import" /\ job[t].row \in Rows("import") /\ bundle \in Content
      BY <1>3, StageTellsHandler, NoneIsNoHandler DEF ApplyRequested, JobsOK, JobInv
    <3>2. /\ new \in Jobs /\ new.handler = "apply" /\ new.row = job[t].row
          /\ new.bundle = bundle
      BY <1>0 DEF Jobs
    <3>3. Rows("import") = Rows("apply")
      BY DEF Rows
    <3>4. "lock" \in StagesOf("apply") /\ "lock" \in Stages
      BY NoneIsNoHandler DEF StagesOf, Stages
    <3>5. at' = [at EXCEPT ![t] = "lock"] /\ job' = [job EXCEPT ![t] = new]
      BY <1>3, <2>1 DEF ApplyRequested
    <3> HIDE DEF new
    <3>6. JobsOK'
      BY <3>1, <3>2, <3>3, <3>4, <3>5, NewJobKeepsJobs
    <3> QED BY <1>3, <2>1, <3>6 DEF ApplyRequested, StoreOK, dbVars
  <2>2. CASE Ends(t) /\ UNCHANGED backup
    BY <1>3, <2>2, EndsKeepsJobs DEF ApplyRequested, StoreOK, dbVars
  <2> QED BY <1>3, <2>1, <2>2 DEF ApplyRequested
<1>4. CASE ClearRatings(t)
  BY <1>0, <1>1, <1>4, StatementsAreClosed DEF ClearRatings, Importing
<1>5. CASE ClearFavorites(t)
  BY <1>0, <1>1, <1>5, StatementsAreClosed DEF ClearFavorites, Importing
<1>6. CASE ClearProfiles(t)
  BY <1>0, <1>1, <1>6, StatementsAreClosed DEF ClearProfiles, Importing
<1>7. CASE InsertProfiles(t)
  <2>1. bundle \in Content
    BY <1>2, <1>7 DEF InsertProfiles, Writes, Importing
  <2> QED BY <1>0, <1>1, <1>7, <2>1, InsertsAreClosed DEF InsertProfiles, Importing
<1>8. CASE InsertFavorites(t)
  <2>1. bundle \in Content
    BY <1>2, <1>8 DEF InsertFavorites, Writes, Importing
  <2> QED BY <1>0, <1>1, <1>8, <2>1, InsertsAreClosed DEF InsertFavorites, Importing
<1>9. CASE InsertRatings(t)
  <2>1. bundle \in Content
    BY <1>2, <1>9 DEF InsertRatings, Writes, Importing
  <2> QED BY <1>0, <1>1, <1>9, <2>1, InsertsAreClosed DEF InsertRatings, Importing
<1>10. CASE DropOrphans(t)
  BY <1>0, <1>1, <1>10, StatementsAreClosed DEF DropOrphans, Importing
<1>11. CASE KeepActive(t)
  <2>1. "importCommit" \in StagesOf(job[t].handler)
    BY <1>11, StageTellsHandler, NoneIsNoHandler DEF KeepActive, StagesOf, Importing
  <2> QED BY <1>11, <2>1, MoveKeepsJobs
          DEF KeepActive, StoreOK, dbVars, lockVars, Stages, Importing
<1>12. CASE DemoteProfiles(t)
  BY <1>0, <1>1, <1>12, StatementsAreClosed DEF DemoteProfiles, Importing
<1>13. CASE PromoteProfile(t)
  BY <1>0, <1>1, <1>13, StatementsAreClosed DEF PromoteProfile, Importing
<1>14. CASE ImportCommits(t)
  <2>1. JobsOK'
    BY <1>14, EndsKeepsJobs DEF ImportCommits
  <2> QED BY <1>14, <2>1 DEF ImportCommits, Releases, StoreOK
<1>15. CASE BackupFails(t)
  <2>1. JobsOK'
    BY <1>15, EndsKeepsJobs DEF BackupFails
  <2> QED BY <1>15, <2>1 DEF BackupFails, RolledBack, Releases, StoreOK
<1> QED BY <1>3, <1>4, <1>5, <1>6, <1>7, <1>8, <1>9, <1>10, <1>11, <1>12,
           <1>13, <1>14, <1>15 DEF Import

(* A new request, and the taking of the lock, keep the types.               *)
LEMMA RequestKeepsTypes ==
  ASSUME StoreOK, JobsOK, NEW t \in Tasks,
         \/ \E handler \in Handlers : Request(t, handler)
         \/ TakesLock(t) \/ NoteReadsRating(t)
  PROVE  StoreOK' /\ JobsOK'
<1>0. job[t] \in Jobs
  BY DEF JobsOK
<1>1. ASSUME NEW handler \in Handlers, Request(t, handler)
      PROVE  StoreOK' /\ JobsOK'
  <2> DEFINE to == IF TakesNoLock(handler) THEN First[handler] ELSE "lock"
  <2>1. PICK row \in Rows(handler), bundle \in Bundles(handler) :
          job' = [job EXCEPT ![t] = [NoJob EXCEPT !.handler = handler,
                                       !.row = row, !.bundle = bundle]]
    BY <1>1 DEF Request
  <2> DEFINE new == [NoJob EXCEPT !.handler = handler, !.row = row, !.bundle = bundle]
  <2>2. new.handler = handler /\ new.row = row /\ new.bundle = bundle
    BY DEF NoJob
  <2>3. new \in Jobs
    <3>1. NoJob \in Jobs
      BY StatementsAreClosed DEF NoJob, Jobs, StoreOK
    <3>2. row \in Profiles \cup Favorites \cup {None} /\ bundle \in Content \cup {None}
      BY FilesAssumption DEF Rows, Bundles
    <3>3. handler \in AllHandlers
      BY HandlersAssumption
    <3> QED BY <3>1, <3>2, <3>3 DEF Jobs
  <2>4. handler \in {"import", "apply"} => bundle \in Content
    <3>1. handler \in AllHandlers /\ "apply" \notin AllHandlers
      BY HandlersAssumption DEF AllHandlers, LockedWriters, UnlockedWriters
    <3> QED BY <3>1 DEF Bundles
  <2>5. to \in StagesOf(handler) /\ to \in Stages
    BY HandlersAssumption, NoneIsNoHandler
       DEF TakesNoLock, First, StagesOf, Stages, AllHandlers, LockedWriters, UnlockedWriters
  <2>6. at' = [at EXCEPT ![t] = to]
    BY <1>1 DEF Request
  <2> HIDE DEF new, to
  <2>7. JobsOK'
    BY <2>1, <2>2, <2>3, <2>4, <2>5, <2>6, NewJobKeepsJobs DEF new
  <2>8. StoreOK'
    BY <1>1 DEF Request, StoreOK, dbVars
  <2> QED BY <2>7, <2>8
<1>2. CASE TakesLock(t)
  <2> DEFINE handler == job[t].handler
  <2>1. handler \in LockedWriters \cup {"export", "import", "apply"}
    BY <1>0, <1>2, StageTellsHandler
       DEF TakesLock, Jobs, AllHandlers, LockedWriters, UnlockedWriters
  <2>2. First[handler] \in StagesOf(handler) /\ First[handler] \in Stages
    BY <2>1, NoneIsNoHandler DEF First, StagesOf, Stages, AllHandlers, LockedWriters
  <2>3. JobsOK'
    BY <1>2, <2>2, MoveKeepsJobs DEF TakesLock
  <2> QED BY <1>2, <2>3 DEF TakesLock, StoreOK, dbVars
<1>3. CASE NoteReadsRating(t)
  <2>1. CASE job[t].row \in view.ratings
    <3> DEFINE new == [job[t] EXCEPT !.handler = "rate"]
    <3>1. /\ new \in Jobs /\ new.handler = "rate" /\ new.row = job[t].row
      BY <1>0 DEF Jobs, AllHandlers, LockedWriters
    <3>2. job[t].row \in Rows("rate")
      BY <1>3, NoneIsNoHandler DEF NoteReadsRating, JobsOK, JobInv, Rows
    <3>3. "lock" \in StagesOf("rate") /\ "lock" \in Stages
      BY NoneIsNoHandler DEF StagesOf, Stages
    <3>4. at' = [at EXCEPT ![t] = "lock"] /\ job' = [job EXCEPT ![t] = new]
      BY <1>3, <2>1 DEF NoteReadsRating, JobsOK
    <3> HIDE DEF new
    <3>5. JobsOK'
      BY <3>1, <3>2, <3>3, <3>4, NewJobKeepsJobs
    <3> QED BY <1>3, <3>5 DEF NoteReadsRating, StoreOK, dbVars, lockVars
  <2>2. CASE job[t].row \notin view.ratings
    BY <1>3, <2>2, EndsKeepsJobs DEF NoteReadsRating, StoreOK, dbVars, lockVars
  <2> QED BY <2>1, <2>2
<1> QED BY <1>1, <1>2, <1>3

(* A crash resets every task.                                               *)
LEMMA CrashKeepsTypes ==
  ASSUME StoreOK, JobsOK, Crash
  PROVE  StoreOK' /\ JobsOK'
<1>1. StoreOK'
  BY DEF Crash, StoreOK
<1>2. NoJob \in Jobs /\ NoJob.handler = None
  BY StatementsAreClosed DEF NoJob, Jobs, StoreOK
<1>3. StagesOf(None) = {"idle"} /\ "idle" \in Stages
  BY NoneIsNoHandler DEF StagesOf, Stages
<1>4. \A t \in Tasks : at'[t] = "idle" /\ job'[t] = NoJob
  BY DEF Crash
<1>5. at' \in [Tasks -> Stages] /\ job' \in [Tasks -> Jobs]
  BY <1>2, <1>3 DEF Crash
<1>6. JobInv'
  BY <1>2, <1>3, <1>4, NoneIsNoHandler DEF JobInv
<1> QED BY <1>1, <1>5, <1>6 DEF JobsOK

(* All types hold, for any tasks, rows, bundles and handlers.               *)
THEOREM StoreTypeCorrect == Spec => [](TypeOK /\ JobInv)
<1> DEFINE Inv == StoreOK /\ JobsOK
<1>1. Init => Inv
  <2> SUFFICES ASSUME Init PROVE Inv
    OBVIOUS
  <2>1. StoreOK
    BY DEF Init, StoreOK
  <2>2. NoJob \in Jobs /\ NoJob.handler = None
    BY <2>1, StatementsAreClosed DEF NoJob, Jobs, StoreOK
  <2>3. StagesOf(None) = {"idle"} /\ "idle" \in Stages
    BY NoneIsNoHandler DEF StagesOf, Stages
  <2>4. JobsOK
    BY <2>2, <2>3, NoneIsNoHandler DEF Init, JobsOK, JobInv
  <2> QED BY <2>1, <2>4
<1>2. Inv /\ [Next]_vars => Inv'
  <2>1. CASE UNCHANGED vars
    BY <2>1 DEF vars, dbVars, lockVars, StoreOK, JobsOK, JobInv
  <2>2. ASSUME Inv, NEW t \in Tasks,
               \/ \E handler \in Handlers : Request(t, handler)
               \/ TakesLock(t) \/ NoteReadsRating(t)
        PROVE  Inv'
    BY <2>2, RequestKeepsTypes
  <2>3. ASSUME Inv, NEW t \in Tasks, Write(t) \/ Export(t) \/ Import(t)
        PROVE  Inv'
    BY <2>3, WriteKeepsTypes, ExportKeepsTypes, ImportKeepsTypes
  <2>4. ASSUME Inv, Crash PROVE Inv'
    BY <2>4, CrashKeepsTypes
  <2> QED BY <2>1, <2>2, <2>3, <2>4 DEF Next
<1>3. Inv => TypeOK /\ JobInv
  BY DEF StoreOK, JobsOK, TypeOK
<1> QED BY <1>1, <1>2, <1>3, PTL DEF Spec

(* The same, in the form the lemmas above use.                              *)
LEMMA TypesInvariant == Spec => [](StoreOK /\ JobsOK)
<1>1. TypeOK /\ JobInv => StoreOK /\ JobsOK
  BY DEF StoreOK, JobsOK, TypeOK
<1> QED BY <1>1, StoreTypeCorrect, PTL
----------------------------------------------------------------------------
(* Transactions are always ended by the handlers that may have opened them. *)

(* A statement leaves its task where the transaction will be ended.         *)
LEMMA WritesKeepsTxn ==
  ASSUME JobsOK, NEW t \in Tasks, NEW from, NEW to \in Open, NEW content,
         Writes(t, from, to, content)
  PROVE  TxnInv'
BY DEF Writes, TxnInv, JobsOK

(* A step that leaves the database alone, of a task outside a transaction.  *)
LEMMA OutsideKeepsTxn ==
  ASSUME JobsOK, TxnInv, NEW t \in Tasks, NEW to,
         at[t] \notin Open \/ to \in Open \/ ~ txn,
         at' = [at EXCEPT ![t] = to], UNCHANGED dbVars
  PROVE  TxnInv'
BY DEF TxnInv, JobsOK, dbVars

(* Every step keeps TxnInv.                                                 *)
LEMMA StepKeepsTxn ==
  ASSUME JobsOK, TxnInv, [Next]_vars
  PROVE  TxnInv'
<1> USE DEF Open, Reading, Importing
<1>1. CASE UNCHANGED vars
  BY <1>1 DEF vars, dbVars, TxnInv
<1>2. ASSUME NEW t \in Tasks,
             \/ \E handler \in Handlers : Request(t, handler)
             \/ TakesLock(t) \/ NoteReadsRating(t) \/ ApplyRequested(t) \/ Refused(t)
      PROVE  TxnInv'
  <2>1. CASE \E handler \in Handlers : Request(t, handler)
    BY <2>1, OutsideKeepsTxn DEF Request
  <2>2. CASE TakesLock(t)
    BY <2>2, OutsideKeepsTxn DEF TakesLock
  <2>3. CASE NoteReadsRating(t)
    BY <2>3, OutsideKeepsTxn DEF NoteReadsRating, Ends, dbVars, TxnInv
  <2>4. CASE ApplyRequested(t)
    BY <2>4, OutsideKeepsTxn DEF ApplyRequested, Ends
  <2>5. CASE Refused(t)
    BY <2>5, OutsideKeepsTxn DEF Refused, Ends
  <2> QED BY <1>2, <2>1, <2>2, <2>3, <2>4, <2>5
<1>3. ASSUME NEW t \in Tasks, Write(t)
      PROVE  TxnInv'
  <2>1. CASE Commit(t)
    BY <2>1 DEF Commit, CommittedBy, TxnInv
  <2>2. CASE Deactivate(t) \/ Activate(t) \/ InsertFavorite(t) \/ DeleteProfile(t)
    BY <2>2, WritesKeepsTxn DEF Deactivate, Activate, InsertFavorite, DeleteProfile
  <2>3. CASE RemoveFavorite(t) \/ RemoveRating(t) \/ Rate(t)
    BY <2>3, WritesKeepsTxn DEF RemoveFavorite, RemoveRating, Rate
  <2> QED BY <1>3, <2>1, <2>2, <2>3 DEF Write
<1>4. ASSUME NEW t \in Tasks, Settle(t) \/ ExportCommits(t) \/ ImportCommits(t) \/ BackupFails(t)
      PROVE  TxnInv'
  BY <1>4 DEF Settle, ExportCommits, ImportCommits, BackupFails, RolledBack, TxnInv
<1>5. ASSUME NEW t \in Tasks, Begin(t)
      PROVE  TxnInv'
  BY <1>5 DEF Begin, TxnInv, JobsOK
<1>6. ASSUME NEW t \in Tasks, ReadProfiles(t) \/ ReadFavorites(t) \/ ReadRatings(t)
      PROVE  TxnInv'
  BY <1>6, OutsideKeepsTxn DEF ReadProfiles, ReadFavorites, ReadRatings, Reads
<1>7. ASSUME NEW t \in Tasks,
             \/ ClearRatings(t) \/ ClearFavorites(t) \/ ClearProfiles(t)
             \/ InsertProfiles(t) \/ InsertFavorites(t) \/ InsertRatings(t)
             \/ DropOrphans(t) \/ DemoteProfiles(t) \/ PromoteProfile(t)
      PROVE  TxnInv'
  <2>1. CASE ClearRatings(t) \/ ClearFavorites(t) \/ ClearProfiles(t)
    BY <2>1, WritesKeepsTxn DEF ClearRatings, ClearFavorites, ClearProfiles
  <2>2. CASE InsertProfiles(t) \/ InsertFavorites(t) \/ InsertRatings(t)
    BY <2>2, WritesKeepsTxn DEF InsertProfiles, InsertFavorites, InsertRatings
  <2>3. CASE DropOrphans(t) \/ DemoteProfiles(t) \/ PromoteProfile(t)
    BY <2>3, WritesKeepsTxn DEF DropOrphans, DemoteProfiles, PromoteProfile
  <2> QED BY <1>7, <2>1, <2>2, <2>3
<1>8. ASSUME NEW t \in Tasks, KeepActive(t)
      PROVE  TxnInv'
  BY <1>8, OutsideKeepsTxn DEF KeepActive
<1>9. CASE Crash
  BY <1>9 DEF Crash, TxnInv
<1> QED BY <1>1, <1>2, <1>3, <1>4, <1>5, <1>6, <1>7, <1>8, <1>9
        DEF Next, Export, Import

(* The inductive invariant: types, each task at a statement of its handler, *)
(* and an open transaction that is always somebody's to end.                *)
THEOREM StoreInvariant == Spec => []StoreInv
<1>1. Init => TxnInv
  BY DEF Init, TxnInv
<1>2. TxnInv /\ JobsOK /\ [Next]_vars => TxnInv'
  BY StepKeepsTxn
<1>3. (TypeOK /\ JobInv) /\ TxnInv => StoreInv
  BY DEF StoreInv
<1> QED BY <1>1, <1>2, <1>3, TypesInvariant, StoreTypeCorrect, PTL DEF Spec

(* Once no request is in flight, nothing is left in an open transaction,    *)
(* whatever handlers ran together before (also those that take no lock).    *)
THEOREM StoreIsDurable == Spec => []QuiescentIsDurable
<1>1. StoreInv => QuiescentIsDurable
  <2> SUFFICES ASSUME TxnInv, \A t \in Tasks : at[t] = "idle"
               PROVE  ~ txn /\ view = committed
    BY DEF QuiescentIsDurable, StoreInv
  <2>1. "idle" \notin Open
    BY DEF Open, Reading, Importing
  <2> QED BY <2>1 DEF TxnInv
<1> QED BY <1>1, StoreInvariant, PTL
----------------------------------------------------------------------------
(* Imports beside every handler.                                            *)

(* A step of one task keeps ImportInv if it takes no lock from another, and *)
(* removes rows only if it holds the lock.                                  *)
LEMMA TaskKeepsImports ==
  ASSUME JobsOK, ImportInv, NEW t \in Tasks, NEW to,
         at' = [at EXCEPT ![t] = to],
         \A u \in Tasks \ {t} : job'[u] = job[u],
         lock = t \/ lock' = lock \/ lock = None,
         \/ lock = t
         \/ /\ view.profiles \subseteq view'.profiles
            /\ view.favorites \subseteq view'.favorites
            /\ view.ratings \subseteq view'.ratings,
         to \notin Waiting /\ job'[t].handler \notin UnlockedWriters => lock' = t,
         Brought(to, job'[t].bundle, view')
  PROVE  ImportInv'
<1>1. at'[t] = to /\ \A u \in Tasks \ {t} : at'[u] = at[u]
  BY DEF JobsOK
<1>2. ASSUME NEW u \in Tasks, u # t, at[u] \notin Waiting,
             job[u].handler \notin UnlockedWriters
      PROVE  lock = u /\ lock' = u
  BY <1>2, NoneAssumption DEF ImportInv
<1>3. ASSUME NEW u \in Tasks, u # t
      PROVE  Brought(at[u], job[u].bundle, view')
  <2>1. CASE at[u] \notin Importing
    BY <2>1 DEF Brought, Importing
  <2>2. CASE at[u] \in Importing
    <3>1. at[u] \notin Waiting /\ job[u].handler \notin UnlockedWriters
      BY <2>2, StageTellsHandler DEF Importing, Waiting, UnlockedWriters
    <3>2. lock # t
      BY <1>2, <1>3, <3>1
    <3>3. Brought(at[u], job[u].bundle, view)
      BY DEF ImportInv
    <3> QED BY <3>2, <3>3 DEF Brought
  <2> QED BY <2>1, <2>2
<1>4. ASSUME NEW u \in Tasks
      PROVE  /\ at'[u] \notin Waiting /\ job'[u].handler \notin UnlockedWriters =>
                  lock' = u
             /\ Brought(at'[u], job'[u].bundle, view')
  BY <1>1, <1>2, <1>3, <1>4
<1> QED BY <1>4 DEF ImportInv

(* A statement that only adds rows, or is the holder's.                     *)
LEMMA WritesKeepsImports ==
  ASSUME JobsOK, ImportInv, NEW t \in Tasks, NEW from, NEW to, NEW content,
         Writes(t, from, to, content), from \notin Waiting,
         \/ job[t].handler \notin UnlockedWriters
         \/ /\ view.profiles \subseteq content.profiles
            /\ view.favorites \subseteq content.favorites
            /\ view.ratings \subseteq content.ratings,
         Brought(to, job[t].bundle, content)
  PROVE  ImportInv'
<1>1. /\ at[t] = from /\ at' = [at EXCEPT ![t] = to]
      /\ view' = content /\ lock' = lock /\ job' = job
  BY DEF Writes, lockVars
<1>2. job[t].handler \notin UnlockedWriters => lock = t
  BY <1>1 DEF ImportInv
<1> QED BY <1>1, <1>2, TaskKeepsImports

(* Outside an import nothing need have been brought.                        *)
LEMMA NothingBrought ==
  ASSUME NEW stage, stage \notin Importing, NEW bundle, NEW content
  PROVE  Brought(stage, bundle, content)
BY DEF Brought, Importing

(* A writer without the lock only adds rows, and commits.                   *)
LEMMA WriteKeepsImports ==
  ASSUME StoreOK, JobsOK, ImportInv, NEW t \in Tasks, Write(t)
  PROVE  ImportInv'
<1> USE DEF Waiting
<1>1. "activate" \notin Importing /\ "commit" \notin Importing
      /\ "removeRating" \notin Importing /\ "idle" \notin Importing
  BY DEF Importing
<1>2. CASE Deactivate(t) \/ Activate(t) \/ InsertFavorite(t)
  <2>1. /\ Deactivated(view).profiles = view.profiles
        /\ Deactivated(view).favorites = view.favorites
        /\ Deactivated(view).ratings = view.ratings
    BY DEF StoreOK, Content, Deactivated
  <2>2. \A profile : /\ Activated(view, profile).profiles = view.profiles
                     /\ Activated(view, profile).favorites = view.favorites
                     /\ Activated(view, profile).ratings = view.ratings
    BY DEF StoreOK, Content, Activated
  <2>3. \A favorite : /\ WithFavorite(view, favorite).profiles = view.profiles
                      /\ view.favorites \subseteq WithFavorite(view, favorite).favorites
                      /\ WithFavorite(view, favorite).ratings = view.ratings
    BY DEF StoreOK, Content, WithFavorite
  <2>4. CASE Deactivate(t)
    BY <1>1, <2>1, <2>4, NothingBrought, WritesKeepsImports DEF Deactivate
  <2>5. CASE Activate(t)
    BY <1>1, <2>2, <2>5, NothingBrought, WritesKeepsImports DEF Activate
  <2>6. CASE InsertFavorite(t)
    BY <1>1, <2>3, <2>6, NothingBrought, WritesKeepsImports DEF InsertFavorite
  <2> QED BY <1>2, <2>4, <2>5, <2>6
<1>3. CASE DeleteProfile(t) \/ RemoveFavorite(t) \/ RemoveRating(t) \/ Rate(t)
  <2>1. job[t].handler \notin UnlockedWriters
    BY <1>3, StageTellsHandler
       DEF DeleteProfile, RemoveFavorite, RemoveRating, Rate, Writes, UnlockedWriters
  <2>2. CASE DeleteProfile(t) \/ RemoveFavorite(t)
    BY <1>1, <2>1, <2>2, NothingBrought, WritesKeepsImports DEF DeleteProfile, RemoveFavorite
  <2>3. CASE RemoveRating(t) \/ Rate(t)
    BY <1>1, <2>1, <2>3, NothingBrought, WritesKeepsImports DEF RemoveRating, Rate
  <2> QED BY <1>3, <2>2, <2>3
<1>4. CASE Commit(t)
  <2>1. /\ at' = [at EXCEPT ![t] = "idle"] /\ view' = view
        /\ \A u \in Tasks \ {t} : job'[u] = job[u]
        /\ lock = t \/ lock' = lock
    BY <1>4 DEF Commit, Ends, Releases, JobsOK
  <2> QED BY <1>1, <2>1, NothingBrought, TaskKeepsImports
<1> QED BY <1>2, <1>3, <1>4 DEF Write

(* An export leaves the content alone.                                      *)
LEMMA ExportKeepsImports ==
  ASSUME StoreOK, JobsOK, ImportInv, NEW t \in Tasks, Export(t)
  PROVE  ImportInv'
<1> USE DEF JobsOK
<1>1. \A stage \in {"idle", "begin", "readProfiles", "readFavorites", "readRatings",
                     "exportCommit", "snapshotTaken"} : stage \notin Importing
  BY DEF Importing
<1>2. at[t] \notin Waiting /\ job[t].handler \notin UnlockedWriters /\ lock = t
  <2>1. at[t] \in {"settle", "begin"} \cup Reading
    BY DEF Export, Settle, Begin, Refused, ReadProfiles, ReadFavorites, ReadRatings,
           Reads, ExportCommits, Reading
  <2>2. at[t] \notin Waiting /\ job[t].handler \notin UnlockedWriters
    BY <2>1, StageTellsHandler DEF Waiting, Reading, UnlockedWriters
  <2> QED BY <2>2 DEF ImportInv
<1>3. CASE Settle(t)
  BY <1>1, <1>2, <1>3, NothingBrought, TaskKeepsImports DEF Settle, lockVars
<1>4. CASE Begin(t)
  <2> DEFINE to == IF job[t].handler = "apply" THEN "clearRatings" ELSE "readProfiles"
  <2>1. at' = [at EXCEPT ![t] = to] /\ view' = view /\ lock' = lock /\ job' = job
    BY <1>4 DEF Begin, lockVars
  <2>2. Brought(to, job[t].bundle, view)
    BY DEF Brought, Importing
  <2> HIDE DEF to
  <2> QED BY <1>2, <2>1, <2>2, TaskKeepsImports
<1>5. CASE Refused(t) \/ (ExportCommits(t) /\ job[t].handler = "export")
  <2>1. /\ at' = [at EXCEPT ![t] = "idle"] /\ view' = view
        /\ \A u \in Tasks \ {t} : job'[u] = job[u]
    BY <1>5 DEF Refused, ExportCommits, Ends, dbVars
  <2> QED BY <1>1, <1>2, <2>1, NothingBrought, TaskKeepsImports DEF Waiting
<1>6. CASE ReadProfiles(t) \/ ReadFavorites(t) \/ ReadRatings(t)
  <2>1. PICK to \in {"readFavorites", "readRatings", "exportCommit"} :
          at' = [at EXCEPT ![t] = to]
    BY <1>6 DEF ReadProfiles, ReadFavorites, ReadRatings, Reads
  <2>2. /\ \A u \in Tasks \ {t} : job'[u] = job[u]
        /\ lock' = lock /\ view' = view
    BY <1>6 DEF ReadProfiles, ReadFavorites, ReadRatings, Reads, dbVars, lockVars
  <2> QED BY <1>1, <1>2, <2>1, <2>2, NothingBrought, TaskKeepsImports
<1>7. CASE ExportCommits(t) /\ job[t].handler # "export"
  <2>1. /\ at' = [at EXCEPT ![t] = "snapshotTaken"] /\ view' = view /\ job' = job
    BY <1>7 DEF ExportCommits
  <2> QED BY <1>1, <1>2, <2>1, NothingBrought, TaskKeepsImports DEF Waiting
<1> QED BY <1>3, <1>4, <1>5, <1>6, <1>7 DEF Export

(* An import brings its rows in the order of its stages.                    *)
LEMMA ImportKeepsImports ==
  ASSUME StoreOK, JobsOK, ImportInv, NEW t \in Tasks, Import(t)
  PROVE  ImportInv'
<1> USE DEF JobsOK
<1> DEFINE bundle == job[t].bundle
<1>1. \A stage \in {"idle", "lock"} : stage \notin Importing /\ stage \in Waiting
  BY DEF Importing, Waiting
<1>2. CASE ApplyRequested(t)
  <2>1. PICK to \in {"idle", "lock"} : at' = [at EXCEPT ![t] = to]
    BY <1>2 DEF ApplyRequested, Ends
  <2>2. /\ \A u \in Tasks \ {t} : job'[u] = job[u]
        /\ lock' = lock /\ view' = view
    BY <1>2 DEF ApplyRequested, Ends, dbVars
  <2> QED BY <1>1, <2>1, <2>2, NothingBrought, TaskKeepsImports
<1>3. at[t] \in Importing =>
        /\ at[t] \notin Waiting /\ job[t].handler \notin UnlockedWriters /\ lock = t
  <2>1. at[t] \in Importing => at[t] \notin Waiting
    BY DEF Waiting, Importing
  <2>2. at[t] \in Importing => job[t].handler \notin UnlockedWriters
    BY StageTellsHandler DEF UnlockedWriters
  <2> QED BY <2>1, <2>2 DEF ImportInv
<1>4. CASE BackupFails(t)
  <2>1. /\ at' = [at EXCEPT ![t] = "idle"]
        /\ \A u \in Tasks \ {t} : job'[u] = job[u]
    BY <1>4 DEF BackupFails, Ends
  <2>2. lock = t
    <3>1. CASE at[t] \in Importing
      BY <1>3, <3>1
    <3>2. CASE at[t] \in Reading
      <4>1. at[t] \notin Waiting /\ job[t].handler \notin UnlockedWriters
        BY <3>2, StageTellsHandler DEF Reading, Waiting, UnlockedWriters
      <4> QED BY <4>1 DEF ImportInv
    <3> QED BY <1>4, <3>1, <3>2 DEF BackupFails
  <2> QED BY <1>1, <2>1, <2>2, NothingBrought, TaskKeepsImports
<1>5. CASE ImportCommits(t)
  <2>1. /\ at' = [at EXCEPT ![t] = "idle"] /\ view' = view
        /\ \A u \in Tasks \ {t} : job'[u] = job[u]
        /\ lock = t \/ lock' = lock
    BY <1>5 DEF ImportCommits, Ends, Releases
  <2> QED BY <1>1, <2>1, NothingBrought, TaskKeepsImports
<1>6. CASE KeepActive(t)
  <2>1. /\ at[t] = "fixActive" /\ at' = [at EXCEPT ![t] = "importCommit"]
        /\ view' = view /\ lock' = lock /\ job' = job
    BY <1>6 DEF KeepActive, dbVars, lockVars
  <2>2. Brought("importCommit", bundle, view)
    BY <2>1 DEF ImportInv, Brought, Importing
  <2>3. lock = t
    BY <1>3, <2>1 DEF Importing
  <2> QED BY <2>1, <2>2, <2>3, TaskKeepsImports
<1>7. ASSUME NEW from \in Importing, NEW to, NEW content, Writes(t, from, to, content),
             Brought(from, bundle, view) => Brought(to, bundle, content)
      PROVE  ImportInv'
  <2>1. at[t] = from /\ Brought(from, bundle, view)
    BY <1>7 DEF Writes, ImportInv
  <2> QED BY <1>3, <1>7, <2>1, WritesKeepsImports
<1>8. CASE ClearRatings(t) \/ ClearFavorites(t) \/ ClearProfiles(t)
  <2>1. \A content : \A to \in {"clearFavorites", "clearProfiles", "insertProfiles"} :
          Brought(to, bundle, content)
    BY DEF Brought
  <2> QED BY <1>7, <1>8, <2>1 DEF ClearRatings, ClearFavorites, ClearProfiles, Importing
<1>9. CASE InsertProfiles(t) \/ InsertFavorites(t) \/ InsertRatings(t)
  <2> DEFINE withProfiles == [view EXCEPT !.profiles = @ \cup bundle.profiles,
                                          !.active = @ \cup bundle.active]
             withFavorites == [view EXCEPT !.favorites = @ \cup bundle.favorites]
             withRatings == [view EXCEPT !.ratings = @ \cup bundle.ratings]
  <2>1. /\ Brought("insertFavorites", bundle, withProfiles)
        /\ Brought("insertFavorites", bundle, view) =>
              Brought("insertRatings", bundle, withFavorites)
        /\ Brought("insertRatings", bundle, view) =>
              Brought("dropOrphans", bundle, withRatings)
    BY DEF Brought, Importing, StoreOK, Content
  <2>2. {"insertProfiles", "insertFavorites", "insertRatings"} \subseteq Importing
    BY DEF Importing
  <2>3. \/ Writes(t, "insertProfiles", "insertFavorites", withProfiles)
        \/ Writes(t, "insertFavorites", "insertRatings", withFavorites)
        \/ Writes(t, "insertRatings", "dropOrphans", withRatings)
    BY <1>9 DEF InsertProfiles, InsertFavorites, InsertRatings
  <2> HIDE DEF withProfiles, withFavorites, withRatings
  <2> QED BY <1>7, <2>1, <2>2, <2>3
<1>10. CASE DropOrphans(t) \/ DemoteProfiles(t) \/ PromoteProfile(t)
  <2>1. /\ Brought("dropOrphans", bundle, view) =>
              Brought("fixActive", bundle, WithoutOrphans(view))
        /\ Brought("fixActive", bundle, view) =>
              Brought("promote", bundle, Deactivated(view))
        /\ \A profile : Brought("promote", bundle, view) =>
              Brought("importCommit", bundle, Activated(view, profile))
    BY DEF Brought, Importing, StoreOK, Content, WithoutOrphans, Deactivated, Activated
  <2>2. {"dropOrphans", "fixActive", "promote"} \subseteq Importing
    BY DEF Importing
  <2> QED BY <1>7, <1>10, <2>1, <2>2 DEF DropOrphans, DemoteProfiles, PromoteProfile
<1> QED BY <1>2, <1>4, <1>5, <1>6, <1>8, <1>9, <1>10 DEF Import

(* Requests and the lock: who takes it finds it free.                       *)
LEMMA RequestKeepsImports ==
  ASSUME StoreOK, JobsOK, ImportInv, NEW t \in Tasks,
         \/ \E handler \in Handlers : Request(t, handler)
         \/ TakesLock(t) \/ NoteReadsRating(t)
  PROVE  ImportInv'
<1> USE DEF JobsOK
<1>1. ASSUME NEW handler \in Handlers, Request(t, handler)
      PROVE  ImportInv'
  <2> DEFINE to == IF TakesNoLock(handler) THEN First[handler] ELSE "lock"
  <2>1. /\ at' = [at EXCEPT ![t] = to] /\ job'[t].handler = handler
        /\ \A u \in Tasks \ {t} : job'[u] = job[u]
        /\ lock' = lock /\ view' = view
    BY <1>1 DEF Request, NoJob, dbVars
  <2>2. to \notin Importing /\ (handler \notin UnlockedWriters => to \in Waiting)
    BY DEF TakesNoLock, UnlockedWriters, AllHandlers, LockedWriters, First, Importing, Waiting
  <2>3. Brought(to, job'[t].bundle, view')
    BY <2>2, NothingBrought
  <2> HIDE DEF to
  <2> QED BY <2>1, <2>2, <2>3, TaskKeepsImports
<1>2. CASE TakesLock(t)
  <2> DEFINE to == First[job[t].handler]
  <2>1. /\ at' = [at EXCEPT ![t] = to] /\ job' = job
        /\ lock = None /\ lock' = t /\ view' = view /\ at[t] = "lock"
    BY <1>2 DEF TakesLock, dbVars
  <2>2. to \notin Importing
    BY <2>1, StageTellsHandler
       DEF Jobs, First, Importing, AllHandlers, LockedWriters, UnlockedWriters
  <2>3. Brought(to, job'[t].bundle, view')
    BY <2>2, NothingBrought
  <2> HIDE DEF to
  <2> QED BY <2>1, <2>3, TaskKeepsImports
<1>3. CASE NoteReadsRating(t)
  <2>1. PICK to \in {"idle", "lock"} : at' = [at EXCEPT ![t] = to]
    BY <1>3 DEF NoteReadsRating, Ends
  <2>2. /\ \A u \in Tasks \ {t} : job'[u] = job[u]
        /\ lock' = lock /\ view' = view
    BY <1>3 DEF NoteReadsRating, Ends, dbVars, lockVars
  <2>3. to \in Waiting /\ to \notin Importing
    BY DEF Waiting, Importing
  <2>4. Brought(to, job'[t].bundle, view')
    BY <2>3, NothingBrought
  <2> QED BY <2>1, <2>2, <2>3, <2>4, TaskKeepsImports
<1> QED BY <1>1, <1>2, <1>3

(* An import that reports success has brought its bundle, also beside the   *)
(* handlers that write and commit without the lock.                         *)
THEOREM ImportIsWhole == Spec => SuccessfulImportIsWhole
<1>1. Init => ImportInv
  BY NoneIsNoHandler DEF Init, ImportInv, Waiting, Brought, Importing
<1>2. (StoreOK /\ JobsOK) /\ ImportInv /\ [Next]_vars => ImportInv'
  <2> SUFFICES ASSUME StoreOK, JobsOK, ImportInv, [Next]_vars PROVE ImportInv'
    OBVIOUS
  <2>1. CASE UNCHANGED vars
    BY <2>1 DEF vars, dbVars, lockVars, ImportInv
  <2>2. CASE Crash
    BY <2>2 DEF Crash, ImportInv, Waiting, Brought, Importing
  <2> QED BY <2>1, <2>2, RequestKeepsImports, WriteKeepsImports, ExportKeepsImports,
             ImportKeepsImports DEF Next
<1>3. ImportInv /\ [Next]_vars =>
        [\A t \in Tasks : ImportCommits(t) => Holds(committed', job[t].bundle)]_vars
  BY DEF ImportInv, ImportCommits, Brought, Importing, Holds
<1> QED BY <1>1, <1>2, <1>3, TypesInvariant, PTL DEF Spec, SuccessfulImportIsWhole
----------------------------------------------------------------------------
(* Handlers that all take the lock.                                         *)

(* A task outside the lock may change its job and where it waits.           *)
LEMMA OutsideKeepsLocked ==
  ASSUME JobsOK, LockedInv, NEW t \in Tasks, at[t] \in Waiting,
         NEW to \in Waiting, NEW new, new.handler \notin UnlockedWriters,
         at' = [at EXCEPT ![t] = to], job' = [job EXCEPT ![t] = new],
         UNCHANGED dbVars, lock' = lock
  PROVE  LockedInv'
<1> USE DEF JobsOK, dbVars
<1>1. LockInv'
  BY DEF LockedInv, LockInv
<1>2. lock # t
  BY DEF LockedInv, LockInv
<1>3. ASSUME NEW u \in Tasks, lock' = u
      PROVE  view' \in Progress(u)'
  <2>1. u # t /\ at'[u] = at[u] /\ job'[u] = job[u]
    BY <1>2, <1>3
  <2>2. Progress(u)' = Progress(u)
    BY <2>1 DEF Progress
  <2> QED BY <1>3, <2>2 DEF LockedInv, ProgressInv
<1>4. ASSUME NEW u \in Tasks, at'[u] = "promote"
      PROVE  NeedsActive(WithoutOrphans(job'[u].bundle))
  BY <1>4 DEF LockedInv, ProgressInv, Waiting
<1>5. SnapshotInv'
  BY DEF LockedInv, SnapshotInv, Waiting
<1>6. lock' = None => view' = committed'
  BY DEF LockedInv, ProgressInv
<1> QED BY <1>1, <1>3, <1>4, <1>5, <1>6 DEF LockedInv, ProgressInv

(* The holder of the lock goes on: everybody else waits, so only what it    *)
(* has done to the content, and what it has read, need be looked at.        *)
LEMMA HolderKeepsLocked ==
  ASSUME JobsOK, LockedInv, NEW t \in Tasks, NEW to, to \notin Waiting,
         lock = t \/ (lock = None /\ at[t] \in Waiting), lock' = t,
         at' = [at EXCEPT ![t] = to],
         \A u \in Tasks \ {t} : job'[u] = job[u],
         job'[t].handler \notin UnlockedWriters,
         view' \in Progress(t)',
         to = "promote" => NeedsActive(WithoutOrphans(job'[t].bundle)),
         to \notin {"readFavorites", "readRatings", "exportCommit"}
  PROVE  LockedInv'
<1> USE DEF JobsOK
<1>1. \A u \in Tasks \ {t} : at'[u] = at[u] /\ at[u] \in Waiting
  BY NoneAssumption DEF LockedInv, LockInv
<1>2. at'[t] = to
  OBVIOUS
<1>3. LockInv'
  BY <1>1, <1>2 DEF LockedInv, LockInv
<1>4. ProgressInv'
  BY <1>1, <1>2, NoneAssumption DEF ProgressInv, Waiting
<1>5. SnapshotInv'
  BY <1>1, <1>2 DEF SnapshotInv, Waiting
<1> QED BY <1>3, <1>4, <1>5 DEF LockedInv

(* The holder ends with the content settled.                                *)
LEMMA HolderEnds ==
  ASSUME JobsOK, LockedInv, NEW t \in Tasks, lock = t, lock' = None,
         NEW to \in Waiting, at' = [at EXCEPT ![t] = to],
         \A u \in Tasks \ {t} : job'[u] = job[u],
         job'[t].handler \notin UnlockedWriters, view' = committed'
  PROVE  LockedInv'
<1> USE DEF JobsOK
<1>1. \A u \in Tasks \ {t} : at'[u] = at[u] /\ at[u] \in Waiting
  BY NoneAssumption DEF LockedInv, LockInv
<1>2. at'[t] = to
  OBVIOUS
<1>3. LockInv'
  BY <1>1, <1>2, NoneAssumption DEF LockedInv, LockInv
<1>4. ProgressInv'
  BY <1>1, <1>2, NoneAssumption DEF ProgressInv, Waiting
<1>5. SnapshotInv'
  BY <1>1, <1>2 DEF SnapshotInv, Waiting
<1> QED BY <1>3, <1>4, <1>5 DEF LockedInv

(* A write statement of the holder.                                         *)
LEMMA HolderWrites ==
  ASSUME JobsOK, LockedInv, NEW t \in Tasks, NEW from, NEW to, NEW content,
         Writes(t, from, to, content), from \notin Waiting, to \notin Waiting,
         content \in Progress(t)',
         to = "promote" => NeedsActive(WithoutOrphans(job[t].bundle)),
         to \notin {"readFavorites", "readRatings", "exportCommit"}
  PROVE  LockedInv'
<1>1. lock = t /\ lock' = t /\ job' = job
  BY DEF Writes, lockVars, LockedInv, LockInv
<1>2. job'[t].handler \notin UnlockedWriters
  BY <1>1 DEF LockedInv, LockInv
<1> QED BY <1>1, <1>2, HolderKeepsLocked DEF Writes

(* Requests, the taking of the lock and the note: nobody else is disturbed. *)
LEMMA RequestKeepsLocked ==
  ASSUME Disciplined, StoreOK, JobsOK, LockedInv, NEW t \in Tasks,
         \/ \E handler \in Handlers : Request(t, handler)
         \/ TakesLock(t) \/ NoteReadsRating(t) \/ ApplyRequested(t)
  PROVE  LockedInv'
<1>0. job[t] \in Jobs /\ NoJob.handler \notin UnlockedWriters
  BY NoneIsNoHandler DEF JobsOK, NoJob, UnlockedWriters
<1>1. ASSUME NEW handler \in Handlers, Request(t, handler)
      PROVE  LockedInv'
  <2>1. handler \notin UnlockedWriters /\ ~ TakesNoLock(handler)
    BY DEF Disciplined, TakesNoLock
  <2>2. PICK row, bundle :
          job' = [job EXCEPT ![t] = [NoJob EXCEPT !.handler = handler,
                                       !.row = row, !.bundle = bundle]]
    BY <1>1 DEF Request
  <2> DEFINE new == [NoJob EXCEPT !.handler = handler, !.row = row, !.bundle = bundle]
  <2>3. new.handler \notin UnlockedWriters
    BY <2>1 DEF NoJob
  <2> HIDE DEF new
  <2>4. at[t] \in Waiting /\ at' = [at EXCEPT ![t] = "lock"] /\ "lock" \in Waiting
    BY <1>1, <2>1 DEF Request, Waiting
  <2> QED BY <1>1, <2>2, <2>3, <2>4, OutsideKeepsLocked DEF Request, new
<1>2. CASE TakesLock(t)
  <2> DEFINE handler == job[t].handler
  <2>1. handler \in LockedWriters \cup {"export", "import", "apply"}
    BY <1>0, <1>2, StageTellsHandler
       DEF TakesLock, Jobs, AllHandlers, LockedWriters, UnlockedWriters
  <2>2. First[handler] \in {"deleteProfile", "removeFavorite", "rate", "settle"}
    BY <2>1 DEF First, AllHandlers, LockedWriters
  <2>3. view' \in Progress(t)'
    <3>1. view' = committed'
      BY <1>2 DEF TakesLock, LockedInv, ProgressInv, dbVars
    <3>2. Progress(t)' = {committed'}
      BY <1>2, <2>2 DEF TakesLock, Progress, JobsOK
    <3> QED BY <3>1, <3>2
  <2>4. handler \notin UnlockedWriters
    BY DEF LockedInv, LockInv
  <2>5. First[handler] \notin Waiting /\ at[t] \in Waiting
    BY <1>2, <2>2 DEF TakesLock, Waiting
  <2> QED BY <1>2, <2>2, <2>3, <2>4, <2>5, HolderKeepsLocked DEF TakesLock
<1>3. ASSUME NEW new, new.handler \notin UnlockedWriters, NEW to \in Waiting,
             at[t] \in Waiting, at' = [at EXCEPT ![t] = to],
             job' = [job EXCEPT ![t] = new], UNCHANGED <<dbVars, lock>>
      PROVE  LockedInv'
  BY <1>3, OutsideKeepsLocked
<1>4. ASSUME NEW handler, handler \notin UnlockedWriters
      PROVE  [job[t] EXCEPT !.handler = handler].handler \notin UnlockedWriters
  BY <1>0, <1>4 DEF Jobs
<1>5. CASE NoteReadsRating(t)
  <2>1. at[t] \in Waiting /\ "lock" \in Waiting /\ "idle" \in Waiting
    BY <1>5 DEF NoteReadsRating, Waiting
  <2>2. CASE job[t].row \in view.ratings
    <3>1. at' = [at EXCEPT ![t] = "lock"]
      BY <1>5, <2>2 DEF NoteReadsRating, JobsOK
    <3>2. job' = [job EXCEPT ![t] = [job[t] EXCEPT !.handler = "rate"]]
      BY <1>5, <2>2 DEF NoteReadsRating
    <3>3. [job[t] EXCEPT !.handler = "rate"].handler \notin UnlockedWriters
      BY <1>4 DEF UnlockedWriters
    <3> QED BY <1>3, <1>5, <2>1, <3>1, <3>2, <3>3 DEF NoteReadsRating, lockVars
  <2>3. CASE job[t].row \notin view.ratings
    BY <1>0, <1>3, <1>5, <2>1, <2>3 DEF NoteReadsRating, Ends, lockVars
  <2> QED BY <2>2, <2>3
<1>6. CASE ApplyRequested(t)
  <2>1. at[t] \in Waiting /\ "lock" \in Waiting /\ "idle" \in Waiting
    BY <1>6 DEF ApplyRequested, Waiting
  <2>2. CASE /\ backup' = t /\ at' = [at EXCEPT ![t] = "lock"]
             /\ job' = [job EXCEPT ![t].handler = "apply"]
    <3>1. job' = [job EXCEPT ![t] = [job[t] EXCEPT !.handler = "apply"]]
      BY <1>6, <2>2 DEF ApplyRequested
    <3>2. [job[t] EXCEPT !.handler = "apply"].handler \notin UnlockedWriters
      BY <1>4 DEF UnlockedWriters
    <3> QED BY <1>3, <1>6, <2>1, <2>2, <3>1, <3>2 DEF ApplyRequested
  <2>3. CASE Ends(t) /\ UNCHANGED backup
    BY <1>0, <1>3, <1>6, <2>1, <2>3 DEF ApplyRequested, Ends
  <2> QED BY <1>6, <2>2, <2>3 DEF ApplyRequested
<1> QED BY <1>1, <1>2, <1>5, <1>6

(* The end of a request at which content and disk agree.                    *)
LEMMA EndsKeepsLocked ==
  ASSUME JobsOK, LockedInv, NEW t \in Tasks, at[t] \notin Waiting,
         Ends(t), Releases(t), view' = committed'
  PROVE  LockedInv'
<1>1. lock = t /\ lock' = None
  BY DEF LockedInv, LockInv, Releases
<1>2. "idle" \in Waiting /\ at' = [at EXCEPT ![t] = "idle"]
  BY DEF Waiting, Ends
<1>3. job'[t].handler \notin UnlockedWriters
  BY NoneIsNoHandler DEF Ends, NoJob, UnlockedWriters, JobsOK
<1>4. \A u \in Tasks \ {t} : job'[u] = job[u]
  BY DEF Ends, JobsOK
<1> QED BY <1>1, <1>2, <1>3, <1>4, HolderEnds

(* The statements of the writers.                                           *)
LEMMA WriteKeepsLocked ==
  ASSUME StoreOK, JobsOK, LockedInv, NEW t \in Tasks, Write(t)
  PROVE  LockedInv'
<1> USE DEF Waiting
<1>0. job[t].handler \notin UnlockedWriters
  BY DEF LockedInv, LockInv
<1>1. at[t] \notin Waiting => view \in Progress(t)
  BY DEF LockedInv, LockInv, ProgressInv
<1>2. CASE Deactivate(t) \/ Activate(t) \/ InsertFavorite(t)
  BY <1>0, <1>2, StageTellsHandler
     DEF Deactivate, Activate, InsertFavorite, Writes, UnlockedWriters
<1>3. CASE DeleteProfile(t)
  <2>1. view = committed /\ job[t].handler = "deleteProfile"
    BY <1>1, <1>3, StageTellsHandler DEF DeleteProfile, Writes, Progress
  <2>2. Progress(t)' = {WithoutProfile(committed, job[t].row)}
    BY <1>3, <2>1 DEF DeleteProfile, Writes, Progress, JobsOK
  <2> QED BY <1>3, <2>1, <2>2, HolderWrites DEF DeleteProfile
<1>4. CASE RemoveFavorite(t)
  <2>1. view = committed
    BY <1>1, <1>4 DEF RemoveFavorite, Writes, Progress
  <2>2. Progress(t)' = {WithoutFavorite(committed, job[t].row)}
    BY <1>4 DEF RemoveFavorite, Writes, Progress, JobsOK
  <2> QED BY <1>4, <2>1, <2>2, HolderWrites DEF RemoveFavorite
<1>5. CASE RemoveRating(t)
  <2>1. /\ view = WithoutFavorite(committed, job[t].row)
        /\ job[t].handler = "removeFavorite"
    BY <1>1, <1>5, StageTellsHandler DEF RemoveRating, Writes, Progress
  <2>2. Progress(t)' = {WithoutRating(WithoutFavorite(committed, job[t].row), job[t].row)}
    BY <1>5, <2>1 DEF RemoveRating, Writes, Progress, JobsOK
  <2> QED BY <1>5, <2>1, <2>2, HolderWrites DEF RemoveRating
<1>6. CASE Rate(t)
  <2>1. view = committed /\ job[t].handler = "rate"
    BY <1>1, <1>6, StageTellsHandler DEF Rate, Writes, Progress
  <2>2. Progress(t)' = {WithRating(committed, job[t].row)}
    BY <1>6, <2>1 DEF Rate, Writes, Progress, JobsOK
  <2> QED BY <1>6, <2>1, <2>2, HolderWrites DEF Rate
<1>7. CASE Commit(t)
  BY <1>7, EndsKeepsLocked DEF Commit, CommittedBy
<1> QED BY <1>2, <1>3, <1>4, <1>5, <1>6, <1>7 DEF Write

(* The statements of an export: what it has read is still on disk.          *)
LEMMA ExportKeepsLocked ==
  ASSUME StoreOK, JobsOK, LockedInv, NEW t \in Tasks, Export(t)
  PROVE  LockedInv'
<1> USE DEF Waiting
<1>0. job[t] \in Jobs /\ job[t].handler \notin UnlockedWriters
  BY DEF JobsOK, LockedInv, LockInv
<1>1. /\ at[t] \notin Waiting => lock = t /\ view \in Progress(t)
      /\ \A u \in Tasks \ {t} : at[t] \notin Waiting => at[u] \in Waiting
  BY DEF LockedInv, LockInv, ProgressInv
<1>2. at[t] \in {"settle", "begin"} \cup Reading => view = committed
  BY <1>1 DEF Progress, Reading
<1>3. CASE Settle(t)
  <2>1. Progress(t)' = {committed'} /\ view = committed
    BY <1>2, <1>3 DEF Settle, Progress, JobsOK
  <2> QED BY <1>0, <1>1, <1>3, <2>1, HolderKeepsLocked DEF Settle, lockVars
<1>4. CASE Begin(t)
  <2> DEFINE to == IF job[t].handler = "apply" THEN "clearRatings" ELSE "readProfiles"
  <2>1. at' = [at EXCEPT ![t] = to]
    BY <1>4 DEF Begin
  <2>2. Progress(t)' = {committed'} /\ view = committed
    BY <1>2, <1>4 DEF Begin, Progress, JobsOK
  <2>3. to \in {"clearRatings", "readProfiles"}
    OBVIOUS
  <2> HIDE DEF to
  <2> QED BY <1>0, <1>1, <1>4, <2>1, <2>2, <2>3, HolderKeepsLocked DEF Begin, lockVars
<1>5. CASE Refused(t)
  <2>1. view' = committed' /\ at[t] \notin Waiting
    BY <1>2, <1>5 DEF Refused, dbVars, Reading
  <2> QED BY <1>5, <2>1, EndsKeepsLocked DEF Refused
<1>6. ASSUME NEW from \in Reading, NEW to, NEW snapshot,
             to \in {"readFavorites", "readRatings", "exportCommit"},
             Reads(t, from, to, snapshot),
             /\ snapshot.profiles = committed.profiles
             /\ snapshot.active = committed.active,
             to \in {"readRatings", "exportCommit"} =>
               snapshot.favorites = committed.favorites,
             to = "exportCommit" => snapshot.ratings = committed.ratings
      PROVE  LockedInv'
  <2>1. /\ at[t] \notin Waiting /\ view = committed
        /\ \A u \in Tasks \ {t} : at'[u] = at[u] /\ at[u] \in Waiting
        /\ at'[t] = to
    BY <1>1, <1>2, <1>6 DEF Reads, Reading, JobsOK
  <2>2. /\ \A u \in Tasks \ {t} : job'[u] = job[u]
        /\ job'[t].handler = job[t].handler /\ job'[t].snapshot = snapshot
    BY <1>0, <1>6 DEF Reads, JobsOK, Jobs
  <2>3. UNCHANGED <<lock, committed, view>> /\ lock = t
    BY <1>1, <1>6, <2>1 DEF Reads, lockVars, dbVars
  <2>4. LockInv'
    BY <1>0, <1>6, <2>1, <2>2, <2>3 DEF LockedInv, LockInv
  <2>5. Progress(t)' = {committed'}
    BY <1>6, <2>1 DEF Progress
  <2>6. ProgressInv'
    BY <1>6, <2>1, <2>3, <2>5, NoneAssumption DEF ProgressInv
  <2>7. SnapshotInv'
    BY <1>6, <2>1, <2>2, <2>3 DEF SnapshotInv
  <2> QED BY <2>4, <2>6, <2>7 DEF LockedInv
<1> DEFINE read == job[t].snapshot
<1>7. /\ read \in Content
      /\ at[t] \in {"readFavorites", "readRatings"} =>
           read.profiles = committed.profiles /\ read.active = committed.active
      /\ at[t] = "readRatings" => read.favorites = committed.favorites
  BY <1>0 DEF Jobs, LockedInv, SnapshotInv
<1>8. CASE ReadProfiles(t)
  <2> DEFINE new == [read EXCEPT !.profiles = view.profiles, !.active = view.active]
  <2>1. new.profiles = committed.profiles /\ new.active = committed.active
    BY <1>2, <1>7, <1>8 DEF Content, ReadProfiles, Reads, Reading
  <2>2. Reads(t, "readProfiles", "readFavorites", new)
    BY <1>8 DEF ReadProfiles
  <2> HIDE DEF new
  <2> QED BY <1>6, <2>1, <2>2 DEF Reading
<1>9. CASE ReadFavorites(t)
  <2> DEFINE new == [read EXCEPT !.favorites = view.favorites]
  <2>1. /\ new.profiles = committed.profiles /\ new.active = committed.active
        /\ new.favorites = committed.favorites
    BY <1>2, <1>7, <1>9 DEF Content, ReadFavorites, Reads, Reading
  <2>2. Reads(t, "readFavorites", "readRatings", new)
    BY <1>9 DEF ReadFavorites
  <2> HIDE DEF new
  <2> QED BY <1>6, <2>1, <2>2 DEF Reading
<1>10. CASE ReadRatings(t)
  <2> DEFINE new == [read EXCEPT !.ratings = view.ratings]
  <2>1. /\ new.profiles = committed.profiles /\ new.active = committed.active
        /\ new.favorites = committed.favorites /\ new.ratings = committed.ratings
    BY <1>2, <1>7, <1>10 DEF Content, ReadRatings, Reads, Reading
  <2>2. Reads(t, "readRatings", "exportCommit", new)
    BY <1>10 DEF ReadRatings
  <2> HIDE DEF new
  <2> QED BY <1>6, <2>1, <2>2 DEF Reading
<1>11. CASE ExportCommits(t)
  <2>1. view' = committed' /\ at[t] \notin Waiting
    BY <1>11 DEF ExportCommits
  <2>2. CASE job[t].handler = "export"
    BY <1>11, <2>1, <2>2, EndsKeepsLocked DEF ExportCommits
  <2>3. CASE job[t].handler # "export"
    BY <1>0, <1>1, <1>11, <2>1, <2>3, HolderEnds DEF ExportCommits, Releases
  <2> QED BY <2>2, <2>3
<1> QED BY <1>3, <1>4, <1>5, <1>8, <1>9, <1>10, <1>11 DEF Export

(* Content with the same rows in its four tables is the same.               *)
LEMMA SameRowsSameContent ==
  ASSUME NEW c \in Content, NEW d \in Content,
         c.profiles = d.profiles, c.active = d.active,
         c.favorites = d.favorites, c.ratings = d.ratings
  PROVE  c = d
<1>1. /\ c = [profiles |-> c.profiles, active |-> c.active,
              favorites |-> c.favorites, ratings |-> c.ratings]
      /\ d = [profiles |-> d.profiles, active |-> d.active,
              favorites |-> d.favorites, ratings |-> d.ratings]
  BY DEF Content
<1> QED BY <1>1

(* What the insert phase makes of a bundle, table by table.                 *)
LEMMA InsertsRebuildTheBundle ==
  ASSUME NEW bundle \in Content
  PROVE  /\ [Empty EXCEPT !.profiles = @ \cup bundle.profiles,
                          !.active = @ \cup bundle.active]
              = [bundle EXCEPT !.favorites = {}, !.ratings = {}]
         /\ [[bundle EXCEPT !.favorites = {}, !.ratings = {}]
               EXCEPT !.favorites = @ \cup bundle.favorites]
              = [bundle EXCEPT !.ratings = {}]
         /\ [[bundle EXCEPT !.ratings = {}] EXCEPT !.ratings = @ \cup bundle.ratings]
              = bundle
<1> DEFINE inserted  == [Empty EXCEPT !.profiles = @ \cup bundle.profiles,
                                      !.active = @ \cup bundle.active]
           unrated   == [bundle EXCEPT !.ratings = {}]
           bare      == [bundle EXCEPT !.favorites = {}, !.ratings = {}]
           favorited == [bare EXCEPT !.favorites = @ \cup bundle.favorites]
           rated     == [unrated EXCEPT !.ratings = @ \cup bundle.ratings]
<1>1. Empty \in Content /\ unrated \in Content /\ bare \in Content
  BY StatementsAreClosed DEF Content
<1>2. inserted \in Content /\ favorited \in Content /\ rated \in Content
  <2> HIDE DEF unrated, bare
  <2> QED BY <1>1, InsertsAreClosed
<1>3. /\ inserted.profiles = bundle.profiles /\ inserted.active = bundle.active
      /\ inserted.favorites = {} /\ inserted.ratings = {}
  BY DEF Empty
<1>4. /\ unrated.profiles = bundle.profiles /\ unrated.active = bundle.active
      /\ unrated.favorites = bundle.favorites /\ unrated.ratings = {}
  BY DEF Content
<1>5. /\ bare.profiles = bundle.profiles /\ bare.active = bundle.active
      /\ bare.favorites = {} /\ bare.ratings = {}
  BY DEF Content
<1>6. /\ favorited.profiles = bare.profiles /\ favorited.active = bare.active
      /\ favorited.favorites = bare.favorites \cup bundle.favorites
      /\ favorited.ratings = bare.ratings
  <2> HIDE DEF bare
  <2> QED BY <1>1 DEF Content
<1>7. /\ rated.profiles = unrated.profiles /\ rated.active = unrated.active
      /\ rated.ratings = unrated.ratings \cup bundle.ratings
      /\ rated.favorites = unrated.favorites
  <2> HIDE DEF unrated
  <2> QED BY <1>1 DEF Content
<1>8. /\ favorited.favorites = bundle.favorites /\ rated.ratings = bundle.ratings
  BY <1>4, <1>5, <1>6, <1>7
<1> HIDE DEF inserted, unrated, bare, favorited, rated
<1>9. inserted = bare
  BY <1>1, <1>2, <1>3, <1>5, SameRowsSameContent
<1>10. favorited = unrated
  BY <1>1, <1>2, <1>4, <1>5, <1>6, <1>8, SameRowsSameContent, ZenonT(30)
<1>11. rated = bundle
  BY <1>1, <1>2, <1>4, <1>7, <1>8, SameRowsSameContent
<1> QED BY <1>9, <1>10, <1>11 DEF inserted, unrated, bare, favorited, rated

(* What the clear phase leaves, and what the repair of is_active does.      *)
LEMMA ClearAndPromote ==
  ASSUME NEW c \in Content
  PROVE  /\ [[c EXCEPT !.ratings = {}] EXCEPT !.favorites = {}]
              = [c EXCEPT !.ratings = {}, !.favorites = {}]
         /\ [[c EXCEPT !.ratings = {}, !.favorites = {}]
               EXCEPT !.profiles = {}, !.active = {}] = Empty
         /\ Deactivated(c).profiles = c.profiles
         /\ \A profile \in c.profiles :
              Activated(Deactivated(c), profile) = Promoted(c, profile)
<1> DEFINE bare    == [c EXCEPT !.ratings = {}, !.favorites = {}]
           cleared == [bare EXCEPT !.profiles = {}, !.active = {}]
<1>1. bare \in Content /\ Empty \in Content /\ Deactivated(c) \in Content
  BY StatementsAreClosed DEF Content
<1>2. bare.favorites = {} /\ bare.ratings = {}
  BY DEF Content
<1>3. cleared = Empty
  <2> HIDE DEF bare
  <2>1. cleared \in Content
    BY <1>1, StatementsAreClosed
  <2>2. /\ cleared.profiles = {} /\ cleared.active = {}
        /\ cleared.favorites = {} /\ cleared.ratings = {}
    BY <1>1, <1>2 DEF Content
  <2>3. /\ Empty.profiles = {} /\ Empty.active = {}
        /\ Empty.favorites = {} /\ Empty.ratings = {}
    BY DEF Empty
  <2> HIDE DEF cleared
  <2> QED BY <1>1, <2>1, <2>2, <2>3, SameRowsSameContent
<1>4. /\ Deactivated(c).profiles = c.profiles /\ Deactivated(c).active = {}
      /\ Deactivated(c).favorites = c.favorites /\ Deactivated(c).ratings = c.ratings
  BY DEF Deactivated, Content
<1>5. ASSUME NEW profile \in c.profiles
      PROVE  Activated(Deactivated(c), profile) = Promoted(c, profile)
  <2> DEFINE d == Deactivated(c)
             x == Activated(d, profile)
             y == Promoted(c, profile)
  <2>1. x \in Content
    BY <1>1, StatementsAreClosed
  <2>2. y \in Content
    BY <1>5 DEF Promoted, Content
  <2>3. {} \cup ({profile} \cap c.profiles) = {profile}
    BY <1>5
  <2>4. /\ y.profiles = c.profiles /\ y.active = {profile}
        /\ y.favorites = c.favorites /\ y.ratings = c.ratings
    BY DEF Promoted, Content
  <2>5. /\ x.profiles = c.profiles /\ x.active = {profile}
        /\ x.favorites = c.favorites /\ x.ratings = c.ratings
    <3> HIDE DEF d
    <3>1. /\ d.profiles = c.profiles /\ d.active = {} /\ d \in Content
          /\ d.favorites = c.favorites /\ d.ratings = c.ratings
      BY <1>1, <1>4 DEF d
    <3> QED BY <2>3, <3>1 DEF Activated, Content
  <2> HIDE DEF x, y
  <2>6. x = y
    BY <2>1, <2>2, <2>4, <2>5, SameRowsSameContent
  <2> QED BY <2>6 DEF x, y
<1> QED BY <1>3, <1>4, <1>5

(* The statements of an import.                                             *)
LEMMA ImportKeepsLocked ==
  ASSUME StoreOK, JobsOK, LockedInv, NEW t \in Tasks, Import(t), ~ ApplyRequested(t)
  PROVE  LockedInv'
<1> USE DEF Waiting
<1> DEFINE bundle == job[t].bundle
<1>0. job[t] \in Jobs /\ job[t].handler \notin UnlockedWriters
  BY DEF JobsOK, LockedInv, LockInv
<1>1. /\ at[t] \in Importing => lock = t /\ view \in Progress(t)
      /\ at[t] = "promote" => NeedsActive(WithoutOrphans(bundle))
  BY DEF LockedInv, LockInv, ProgressInv, Importing
<1>2. at[t] \in Importing => bundle \in Content
  BY StageTellsHandler DEF JobsOK, JobInv
<1>3. committed \in Content
  BY DEF StoreOK
<1>4. CASE ClearRatings(t)
  <2>1. view = committed
    BY <1>1, <1>4 DEF ClearRatings, Writes, Progress, Importing
  <2>2. Progress(t)' = {[committed EXCEPT !.ratings = {}]}
    BY <1>4 DEF ClearRatings, Writes, Progress, JobsOK
  <2> QED BY <1>4, <2>1, <2>2, HolderWrites DEF ClearRatings
<1>5. CASE ClearFavorites(t)
  <2>1. view = [committed EXCEPT !.ratings = {}]
    BY <1>1, <1>5 DEF ClearFavorites, Writes, Progress, Importing
  <2>2. Progress(t)' = {[committed EXCEPT !.ratings = {}, !.favorites = {}]}
    BY <1>5 DEF ClearFavorites, Writes, Progress, JobsOK
  <2>3. Writes(t, "clearFavorites", "clearProfiles",
               [committed EXCEPT !.ratings = {}, !.favorites = {}])
    BY <1>3, <1>5, <2>1, ClearAndPromote DEF ClearFavorites
  <2> QED BY <2>2, <2>3, HolderWrites
<1>6. CASE ClearProfiles(t)
  <2>1. view = [committed EXCEPT !.ratings = {}, !.favorites = {}]
    BY <1>1, <1>6 DEF ClearProfiles, Writes, Progress, Importing
  <2>2. Progress(t)' = {Empty}
    BY <1>6 DEF ClearProfiles, Writes, Progress, JobsOK
  <2> QED BY <1>3, <1>6, <2>1, <2>2, ClearAndPromote, HolderWrites DEF ClearProfiles
<1>7. CASE InsertProfiles(t)
  <2>1. view = Empty /\ bundle \in Content
    BY <1>1, <1>2, <1>7 DEF InsertProfiles, Writes, Progress, Importing
  <2>2. Progress(t)' = {[bundle EXCEPT !.favorites = {}, !.ratings = {}]}
    BY <1>7 DEF InsertProfiles, Writes, Progress, JobsOK
  <2>3. Writes(t, "insertProfiles", "insertFavorites",
               [bundle EXCEPT !.favorites = {}, !.ratings = {}])
    BY <1>7, <2>1, InsertsRebuildTheBundle DEF InsertProfiles
  <2> QED BY <2>2, <2>3, HolderWrites
<1>8. CASE InsertFavorites(t)
  <2>1. /\ view = [bundle EXCEPT !.favorites = {}, !.ratings = {}]
        /\ bundle \in Content
    BY <1>1, <1>2, <1>8 DEF InsertFavorites, Writes, Progress, Importing
  <2>2. Progress(t)' = {[bundle EXCEPT !.ratings = {}]}
    BY <1>8 DEF InsertFavorites, Writes, Progress, JobsOK
  <2>3. Writes(t, "insertFavorites", "insertRatings",
               [bundle EXCEPT !.ratings = {}])
    BY <1>8, <2>1, InsertsRebuildTheBundle DEF InsertFavorites
  <2> QED BY <2>2, <2>3, HolderWrites
<1>9. CASE InsertRatings(t)
  <2>1. view = [bundle EXCEPT !.ratings = {}] /\ bundle \in Content
    BY <1>1, <1>2, <1>9 DEF InsertRatings, Writes, Progress, Importing
  <2>2. Progress(t)' = {bundle}
    BY <1>9 DEF InsertRatings, Writes, Progress, JobsOK
  <2>3. Writes(t, "insertRatings", "dropOrphans",
               bundle)
    BY <1>9, <2>1, InsertsRebuildTheBundle DEF InsertRatings
  <2> QED BY <2>2, <2>3, HolderWrites
<1>10. CASE DropOrphans(t)
  <2>1. view = bundle
    BY <1>1, <1>10 DEF DropOrphans, Writes, Progress, Importing
  <2>2. Progress(t)' = {WithoutOrphans(bundle)}
    BY <1>10 DEF DropOrphans, Writes, Progress, JobsOK
  <2> QED BY <1>10, <2>1, <2>2, HolderWrites DEF DropOrphans
<1>11. CASE KeepActive(t)
  <2>1. view = WithoutOrphans(bundle) /\ ~ NeedsActive(view) /\ lock = t
    BY <1>1, <1>11 DEF KeepActive, Progress, Importing
  <2>2. Progress(t)' = Imported(bundle)
    BY <1>11 DEF KeepActive, Progress, JobsOK
  <2>3. view' \in Progress(t)'
    BY <1>11, <2>1, <2>2 DEF KeepActive, dbVars, Imported
  <2> QED BY <1>0, <1>11, <2>1, <2>3, HolderKeepsLocked DEF KeepActive, lockVars
<1>12. CASE DemoteProfiles(t)
  <2>1. view = WithoutOrphans(bundle) /\ NeedsActive(view)
    BY <1>1, <1>12 DEF DemoteProfiles, Writes, Progress, Importing
  <2>2. Progress(t)' = {Deactivated(WithoutOrphans(bundle))}
    BY <1>12 DEF DemoteProfiles, Writes, Progress, JobsOK
  <2> QED BY <1>12, <2>1, <2>2, HolderWrites DEF DemoteProfiles
<1>13. CASE PromoteProfile(t)
  <2> DEFINE c == WithoutOrphans(bundle)
  <2>1. at[t] = "promote" /\ bundle \in Content
    BY <1>2, <1>13 DEF PromoteProfile, Writes, Importing
  <2>2. c \in Content /\ NeedsActive(c) /\ view = Deactivated(c)
    BY <1>1, <2>1, StatementsAreClosed DEF Progress, Importing
  <2>3. Progress(t)' = {Promoted(c, profile) : profile \in c.profiles}
    BY <1>13, <2>2 DEF PromoteProfile, Writes, Progress, JobsOK, Imported
  <2>4. view.profiles = c.profiles
    BY <2>2, ClearAndPromote
  <2>5. PICK profile \in c.profiles :
          Writes(t, "promote", "importCommit", Activated(view, profile))
    BY <1>13, <2>4 DEF PromoteProfile
  <2>6. Activated(view, profile) \in Progress(t)'
    BY <2>2, <2>3, <2>5, ClearAndPromote
  <2> QED BY <2>5, <2>6, HolderWrites
<1>14. CASE ImportCommits(t)
  BY <1>14, EndsKeepsLocked DEF ImportCommits
<1>15. CASE BackupFails(t)
  BY <1>15, EndsKeepsLocked DEF BackupFails, RolledBack, Importing, Reading
<1> QED BY <1>4, <1>5, <1>6, <1>7, <1>8, <1>9, <1>10, <1>11, <1>12, <1>13,
           <1>14, <1>15 DEF Import

(* A crash leaves nothing to hold the lock for.                             *)
LEMMA CrashKeepsLocked ==
  ASSUME Crash
  PROVE  LockedInv'
<1>1. \A t \in Tasks : /\ at'[t] = "idle" /\ lock' # t
                       /\ job'[t].handler \notin UnlockedWriters
  BY NoneIsNoHandler, NoneAssumption DEF Crash, NoJob, UnlockedWriters
<1>2. lock' = None /\ view' = committed'
  BY DEF Crash
<1> QED BY <1>1, <1>2 DEF LockedInv, LockInv, ProgressInv, SnapshotInv, Waiting

(* Every step keeps the discipline's invariant.                             *)
LEMMA StepKeepsLocked ==
  ASSUME Disciplined, StoreOK, JobsOK, LockedInv, [Next]_vars
  PROVE  LockedInv'
<1>1. CASE UNCHANGED vars
  BY <1>1 DEF vars, dbVars, lockVars, LockedInv, LockInv, ProgressInv, SnapshotInv,
              Progress
<1>2. ASSUME NEW t \in Tasks,
             \/ \E handler \in Handlers : Request(t, handler)
             \/ TakesLock(t) \/ NoteReadsRating(t) \/ ApplyRequested(t)
      PROVE  LockedInv'
  BY <1>2, RequestKeepsLocked
<1>3. ASSUME NEW t \in Tasks, Write(t) \/ Export(t) PROVE LockedInv'
  BY <1>3, WriteKeepsLocked, ExportKeepsLocked
<1>4. ASSUME NEW t \in Tasks, Import(t) PROVE LockedInv'
  BY <1>2, <1>4, ImportKeepsLocked
<1>5. CASE Crash
  BY <1>5, CrashKeepsLocked
<1> QED BY <1>1, <1>2, <1>3, <1>4, <1>5 DEF Next

(* With the discipline: who is past the lock holds it, and what the holder  *)
(* has done to the durable content so far is exactly what it should be.     *)
THEOREM DisciplineInvariant ==
  ASSUME Disciplined
  PROVE  Spec => []LockedInv
<1>1. Init => LockedInv
  <2> SUFFICES ASSUME Init PROVE LockedInv
    OBVIOUS
  <2>1. \A t \in Tasks : /\ at[t] = "idle" /\ lock # t
                         /\ job[t].handler \notin UnlockedWriters
    BY NoneIsNoHandler, NoneAssumption DEF Init, NoJob, UnlockedWriters
  <2>2. view = committed /\ lock = None
    BY DEF Init
  <2> QED BY <2>1, <2>2 DEF LockedInv, LockInv, ProgressInv, SnapshotInv, Waiting
<1>2. LockedInv /\ (StoreOK /\ JobsOK) /\ [Next]_vars => LockedInv'
  BY StepKeepsLocked
<1> QED BY <1>1, <1>2, TypesInvariant, PTL DEF Spec

(* Who changes the durable content, and into what.                          *)
LEMMA WhoCommits ==
  ASSUME StoreOK, JobsOK, LockedInv, [Next]_vars, committed' # committed
  PROVE  \E t \in Tasks :
           /\ at[t] \in {"commit", "importCommit"} /\ at'[t] = "idle"
           /\ committed' = view /\ view \in Progress(t)
<1> USE DEF Waiting
<1>1. ASSUME NEW t \in Tasks, at[t] \notin Waiting
      PROVE  view \in Progress(t)
  BY <1>1 DEF LockedInv, LockInv, ProgressInv
<1>2. ASSUME NEW t \in Tasks, at[t] \in {"settle", "exportCommit"}
      PROVE  view = committed
  BY <1>1, <1>2 DEF Progress
<1>3. PICK t \in Tasks : Settle(t) \/ ExportCommits(t) \/ Commit(t) \/ ImportCommits(t)
  <2>1. ~ Crash /\ ~ UNCHANGED vars
    BY DEF Crash, vars, dbVars
  <2>2. ASSUME NEW t \in Tasks
        PROVE  /\ \A handler \in Handlers : ~ Request(t, handler)
               /\ ~ TakesLock(t) /\ ~ NoteReadsRating(t) /\ ~ ApplyRequested(t)
               /\ ~ Begin(t) /\ ~ Refused(t) /\ ~ KeepActive(t) /\ ~ BackupFails(t)
    BY DEF Request, TakesLock, NoteReadsRating, ApplyRequested, Begin, Refused,
           KeepActive, BackupFails, dbVars
  <2>3. ASSUME NEW t \in Tasks
        PROVE  /\ ~ Deactivate(t) /\ ~ Activate(t) /\ ~ InsertFavorite(t)
               /\ ~ DeleteProfile(t) /\ ~ RemoveFavorite(t) /\ ~ RemoveRating(t)
               /\ ~ Rate(t)
               /\ ~ ReadProfiles(t) /\ ~ ReadFavorites(t) /\ ~ ReadRatings(t)
    BY DEF Deactivate, Activate, InsertFavorite, DeleteProfile, RemoveFavorite,
           RemoveRating, Rate, ReadProfiles, ReadFavorites, ReadRatings, Writes,
           Reads, dbVars
  <2>4. ASSUME NEW t \in Tasks
        PROVE  /\ ~ ClearRatings(t) /\ ~ ClearFavorites(t) /\ ~ ClearProfiles(t)
               /\ ~ InsertProfiles(t) /\ ~ InsertFavorites(t) /\ ~ InsertRatings(t)
               /\ ~ DropOrphans(t) /\ ~ DemoteProfiles(t) /\ ~ PromoteProfile(t)
    BY DEF ClearRatings, ClearFavorites, ClearProfiles, InsertProfiles,
           InsertFavorites, InsertRatings, DropOrphans, DemoteProfiles,
           PromoteProfile, Writes
  <2>5. PICK t \in Tasks : Write(t) \/ Export(t) \/ Import(t)
    BY <2>1, <2>2 DEF Next
  <2> QED BY <2>2, <2>3, <2>4, <2>5 DEF Write, Export, Import
<1>4. ~ Settle(t) /\ ~ ExportCommits(t)
  BY <1>2 DEF Settle, ExportCommits
<1>5. /\ at[t] \in {"commit", "importCommit"} /\ at'[t] = "idle"
      /\ committed' = view
  BY <1>3, <1>4 DEF Commit, CommittedBy, ImportCommits, Ends, JobsOK
<1> QED BY <1>1, <1>5

(* The store is atomic: initial states map to initial states, and a step    *)
(* changes the durable content by one whole request or not at all, whatever *)
(* statements of other tasks, failures and crashes come in between.         *)
THEOREM StoreIsAtomic ==
  ASSUME Disciplined
  PROVE  Spec => ImplementsAtomicStore
<1>1. /\ Store!Content = Content
      /\ \A c, id : /\ Store!WithoutProfile(c, id) = WithoutProfile(c, id)
                    /\ Store!WithRating(c, id) = WithRating(c, id)
                    /\ Store!WithoutRating(c, id) = WithoutRating(c, id)
                    /\ Store!WithoutFavorite(c, id) = WithoutFavorite(c, id)
  BY DEF Store!Content, Content, Store!WithoutProfile, WithoutProfile,
         Store!WithRating, WithRating, Store!WithoutRating, WithoutRating,
         Store!WithoutFavorite, WithoutFavorite
<1>2. \A c : Store!Imported(c) = Imported(c)
  <2>1. \A c : Store!OneActive(c) <=> OneActive(c)
    BY DEF Store!OneActive, OneActive
  <2>2. \A c, id : /\ Store!NeedsActive(c) <=> NeedsActive(c)
                   /\ Store!WithoutOrphans(c) = WithoutOrphans(c)
                   /\ Store!Promoted(c, id) = Promoted(c, id)
    BY <2>1 DEF Store!NeedsActive, NeedsActive, Store!WithoutOrphans, WithoutOrphans,
           Store!Promoted, Promoted
  <2> QED BY <2>2, SMTT(30) DEF Store!Imported, Imported
<1>3. Init => Store!Init
  BY <1>1 DEF Init, Store!Init, Store!OneActive, OneActive
<1>4. LockedInv /\ (StoreOK /\ JobsOK) /\ [Next]_vars => [Store!Next]_committed
  <2> SUFFICES ASSUME LockedInv, StoreOK, JobsOK, [Next]_vars, committed' # committed
               PROVE  Store!Next
    OBVIOUS
  <2>1. PICK t \in Tasks : /\ at[t] \in {"commit", "importCommit"}
                           /\ committed' = view /\ view \in Progress(t)
    BY WhoCommits
  <2> DEFINE row == job[t].row
  <2>2. CASE at[t] = "importCommit"
    <3>1. job[t].bundle \in Content /\ committed' \in Imported(job[t].bundle)
      BY <2>1, <2>2, StageTellsHandler DEF Importing, JobsOK, JobInv, Progress
    <3> QED BY <1>1, <1>2, <3>1 DEF Store!Next, Store!Import
  <2>3. CASE at[t] = "commit"
    <3>1. /\ job[t].handler \in LockedWriters
          /\ row \in Rows(job[t].handler)
      BY <2>3, StageTellsHandler, NoneIsNoHandler
         DEF LockedInv, LockInv, JobsOK, JobInv, LockedWriters, UnlockedWriters
    <3>2. CASE job[t].handler = "deleteProfile"
      <4>1. row \in Profiles /\ committed' = WithoutProfile(committed, row)
        BY <2>1, <2>3, <3>1, <3>2 DEF Progress, Rows
      <4> QED BY <1>1, <4>1 DEF Store!Next, Store!DeleteProfile
    <3>3. CASE job[t].handler = "rate"
      <4>1. row \in Favorites /\ committed' = WithRating(committed, row)
        BY <2>1, <2>3, <3>1, <3>3 DEF Progress, Rows
      <4> QED BY <1>1, <4>1 DEF Store!Next, Store!Rate
    <3>4. CASE job[t].handler = "removeFavorite"
      <4>1. /\ row \in Favorites
            /\ committed' = WithoutRating(WithoutFavorite(committed, row), row)
        BY <2>1, <2>3, <3>1, <3>4 DEF Progress, Rows
      <4> QED BY <1>1, <4>1 DEF Store!Next, Store!RemoveFavorite
    <3> QED BY <3>1, <3>2, <3>3, <3>4 DEF LockedWriters
  <2> QED BY <2>1, <2>2, <2>3
<1> QED BY <1>3, <1>4, TypesInvariant, DisciplineInvariant, PTL
        DEF Spec, ImplementsAtomicStore, Store!Spec

(* An exported bundle is the durable content at one moment.                 *)
THEOREM ExportIsOneState ==
  ASSUME Disciplined
  PROVE  Spec => SnapshotIsOneState
<1>1. LockedInv /\ (StoreOK /\ JobsOK) /\ [Next]_vars =>
        [\A t \in Tasks : ExportCommits(t) => job[t].snapshot = committed]_vars
  <2> SUFFICES ASSUME LockedInv, StoreOK, JobsOK, NEW t \in Tasks, ExportCommits(t)
               PROVE  job[t].snapshot = committed
    OBVIOUS
  <2> DEFINE read == job[t].snapshot
  <2>1. read \in Content /\ committed \in Content
    BY DEF StoreOK, JobsOK, Jobs
  <2>2. /\ read.profiles = committed.profiles /\ read.active = committed.active
        /\ read.favorites = committed.favorites /\ read.ratings = committed.ratings
    BY DEF LockedInv, SnapshotInv, ExportCommits
  <2> QED BY <2>1, <2>2, SameRowsSameContent
<1> QED BY <1>1, TypesInvariant, DisciplineInvariant, PTL DEF Spec, SnapshotIsOneState
=============================================================================
