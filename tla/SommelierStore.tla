--------------------------- MODULE SommelierStore ---------------------------
(***************************************************************************)
(* The handlers of the Sommelier panel on their one shared SQLite          *)
(* connection (sommelier_db.py, sommelier_backup.py, sommelier_api.py).    *)
(* A step is one SQL statement, one commit or the taking of a lock:        *)
(* between two of them the event loop may run any other task, and SQLite   *)
(* has one transaction per connection, whoever's statements are in it.     *)
(***************************************************************************)
EXTENDS StoreContent

CONSTANTS Tasks,     \* requests in flight at the same time
          Handlers,  \* the handlers that are called
          Files,     \* the bundles an import may be given
          None

\* The writers that hold db._lock from their first statement to the commit.
LockedWriters == {"deleteProfile", "removeFavorite", "rate"}

\* The writers that take no lock.
UnlockedWriters == {"activate", "addFavorite"}

AllHandlers == LockedWriters \cup UnlockedWriters \cup {"note", "export", "import"}

(* A bundle is what an export wrote or an edited copy of it; the cells of   *)
(* is_active belong to its own rows.                                        *)
ASSUME FilesAssumption == Files \subseteq Content

ASSUME HandlersAssumption == Handlers \subseteq AllHandlers

ASSUME NoneAssumption ==
  /\ None \notin Tasks \cup Content \cup AllHandlers \cup {"apply"}
  /\ None \notin Profiles \cup Favorites

VARIABLES
  committed, \* the content on disk
  view,      \* the content as the shared connection sees it
  txn,       \* a transaction is open on the connection
  lock,      \* the holder of db._lock
  backup,    \* the holder of _BACKUP_LOCK
  at,        \* the next statement of each task
  job        \* what each task was asked for, and the snapshot it has read

dbVars   == <<committed, view, txn>>
lockVars == <<lock, backup>>
vars     == <<dbVars, lockVars, at, job>>

\* The stages of an import that has its transaction.
Importing == {"clearRatings", "clearFavorites", "clearProfiles",
              "insertProfiles", "insertFavorites", "insertRatings",
              "dropOrphans", "fixActive", "promote", "importCommit"}

Reading == {"readProfiles", "readFavorites", "readRatings", "exportCommit"}

Stages ==
  Importing \cup Reading \cup
  {"idle", "lock", "deactivate", "activate", "insertFavorite",
   "deleteProfile", "removeFavorite", "removeRating", "rate", "commit",
   "settle", "begin", "snapshotTaken"}

\* The first statement of a handler, once it has the lock if it takes one.
First == [h \in AllHandlers \cup {"apply"} |->
            CASE h = "activate"                     -> "deactivate"
              [] h = "addFavorite"                  -> "insertFavorite"
              [] h \in {"export", "import", "apply"} -> "settle"
              [] h = "note"                         -> "lock"
              [] OTHER                              -> h]

NoJob == [handler |-> None, row |-> None, bundle |-> None, snapshot |-> Empty]

Init ==
  /\ committed \in Content
  /\ committed.ratings \subseteq committed.favorites
  /\ OneActive(committed)
  /\ view = committed /\ txn = FALSE
  /\ lock = None /\ backup = None
  /\ at = [t \in Tasks |-> "idle"]
  /\ job = [t \in Tasks |-> NoJob]
----------------------------------------------------------------------------
(* Requests and locks.                                                      *)

Rows(handler) ==
  CASE handler \in {"activate", "deleteProfile"} -> Profiles
    [] handler \in {"addFavorite", "removeFavorite", "rate", "note"} -> Favorites
    [] OTHER -> {None}

Bundles(handler) == IF handler = "import" THEN Files ELSE {None}

\* Variant: remove_favorite forgets the lock.
TakesNoLock_Remove(handler) == handler \in UnlockedWriters \cup {"removeFavorite"}

\* Variant: set_rating forgets the lock.
TakesNoLock_Rate(handler) == handler \in UnlockedWriters \cup {"rate"}

TakesNoLock(handler) == handler \in UnlockedWriters

(* A request arrives.  A new favourite has a new id; an export or an import *)
(* is refused while another backup operation runs.                          *)
Request(t, handler) ==
  /\ at[t] = "idle"
  /\ \E row \in Rows(handler), bundle \in Bundles(handler) :
       /\ handler = "addFavorite" => row \notin view.favorites \cup view.ratings
       /\ job' = [job EXCEPT ![t] = [NoJob EXCEPT !.handler = handler,
                                       !.row = row, !.bundle = bundle]]
  /\ at' = [at EXCEPT ![t] = IF TakesNoLock(handler) THEN First[handler]
                             ELSE "lock"]
  /\ IF handler \in {"export", "import"}
     THEN backup = None /\ backup' = t
     ELSE UNCHANGED backup
  /\ UNCHANGED <<dbVars, lock>>

TakesLock(t) ==
  /\ at[t] = "lock" /\ job[t].handler # "note" /\ lock = None
  /\ lock' = t
  /\ at' = [at EXCEPT ![t] = First[job[t].handler]]
  /\ UNCHANGED <<dbVars, backup, job>>

Ends(t) == at' = [at EXCEPT ![t] = "idle"] /\ job' = [job EXCEPT ![t] = NoJob]

Releases(t) ==
  /\ lock' = IF lock = t THEN None ELSE lock
  /\ backup' = IF backup = t THEN None ELSE backup

(* async_update_favorite with a note: get_rating under the lock, and        *)
(* set_rating under the lock taken anew, if there was a rating.             *)
NoteReadsRating(t) ==
  /\ at[t] = "lock" /\ job[t].handler = "note" /\ lock = None
  /\ IF job[t].row \in view.ratings
     THEN job' = [job EXCEPT ![t].handler = "rate"] /\ UNCHANGED at
     ELSE Ends(t)
  /\ UNCHANGED <<dbVars, lockVars>>
----------------------------------------------------------------------------
(* The writers.                                                             *)

\* A statement that writes opens a transaction if none is open.
Writes(t, from, to, content) ==
  /\ at[t] = from /\ at' = [at EXCEPT ![t] = to]
  /\ view' = content /\ txn' = TRUE
  /\ UNCHANGED <<committed, lockVars, job>>

Deactivate(t) == Writes(t, "deactivate", "activate", Deactivated(view))

Activate(t) == Writes(t, "activate", "commit", Activated(view, job[t].row))

InsertFavorite(t) ==
  Writes(t, "insertFavorite", "commit", WithFavorite(view, job[t].row))

DeleteProfile(t) ==
  Writes(t, "deleteProfile", "commit", WithoutProfile(view, job[t].row))

RemoveFavorite(t) ==
  Writes(t, "removeFavorite", "removeRating", WithoutFavorite(view, job[t].row))

RemoveRating(t) ==
  Writes(t, "removeRating", "commit", WithoutRating(view, job[t].row))

Rate(t) == Writes(t, "rate", "commit", WithRating(view, job[t].row))

\* Variant: the commit is forgotten.
CommittedBy_Nothing == committed

\* commit() makes everything in the transaction durable, whoever wrote it.
CommittedBy == view

Commit(t) ==
  /\ at[t] = "commit"
  /\ committed' = CommittedBy /\ txn' = FALSE
  /\ Ends(t) /\ Releases(t)
  /\ UNCHANGED view
----------------------------------------------------------------------------
(* Export, and the snapshot an import takes first.                          *)

\* A dangling transaction is committed before BEGIN ...
Settle(t) ==
  /\ at[t] = "settle"
  /\ committed' = view /\ txn' = FALSE
  /\ at' = [at EXCEPT ![t] = "begin"]
  /\ UNCHANGED <<view, lockVars, job>>

Begin(t) ==
  /\ at[t] = "begin" /\ ~ txn
  /\ txn' = TRUE
  /\ at' = [at EXCEPT ![t] = IF job[t].handler = "apply" THEN "clearRatings"
                             ELSE "readProfiles"]
  /\ UNCHANGED <<committed, view, lockVars, job>>

\* ... and BEGIN within a transaction, or COMMIT outside one, is an error.
Refused(t) ==
  /\ \/ at[t] = "begin" /\ txn
     \/ at[t] = "exportCommit" /\ ~ txn
  /\ Ends(t) /\ Releases(t)
  /\ UNCHANGED dbVars

Reads(t, from, to, snapshot) ==
  /\ at[t] = from /\ at' = [at EXCEPT ![t] = to]
  /\ job' = [job EXCEPT ![t].snapshot = snapshot]
  /\ UNCHANGED <<dbVars, lockVars>>

ReadProfiles(t) ==
  Reads(t, "readProfiles", "readFavorites",
        [job[t].snapshot EXCEPT !.profiles = view.profiles,
                                !.active = view.active])

ReadFavorites(t) ==
  Reads(t, "readFavorites", "readRatings",
        [job[t].snapshot EXCEPT !.favorites = view.favorites])

ReadRatings(t) ==
  Reads(t, "readRatings", "exportCommit",
        [job[t].snapshot EXCEPT !.ratings = view.ratings])

ExportCommits(t) ==
  /\ at[t] = "exportCommit" /\ txn
  /\ committed' = view /\ txn' = FALSE
  /\ IF job[t].handler = "export" THEN Ends(t)
     ELSE at' = [at EXCEPT ![t] = "snapshotTaken"] /\ UNCHANGED job
  /\ Releases(t)
  /\ UNCHANGED view
----------------------------------------------------------------------------
(* Import.                                                                  *)

(* The snapshot is on disk; the import proper takes both locks anew.  It is *)
(* refused while another backup runs, or if the file could not be written.  *)
ApplyRequested(t) ==
  /\ at[t] = "snapshotTaken"
  /\ \/ /\ backup = None /\ backup' = t
        /\ at' = [at EXCEPT ![t] = "lock"]
        /\ job' = [job EXCEPT ![t].handler = "apply"]
     \/ Ends(t) /\ UNCHANGED backup
  /\ UNCHANGED <<dbVars, lock>>

ClearRatings(t) ==
  Writes(t, "clearRatings", "clearFavorites", [view EXCEPT !.ratings = {}])

ClearFavorites(t) ==
  Writes(t, "clearFavorites", "clearProfiles", [view EXCEPT !.favorites = {}])

ClearProfiles(t) ==
  Writes(t, "clearProfiles", "insertProfiles",
         [view EXCEPT !.profiles = {}, !.active = {}])

InsertProfiles(t) ==
  LET bundle == job[t].bundle
  IN  Writes(t, "insertProfiles", "insertFavorites",
             [view EXCEPT !.profiles = @ \cup bundle.profiles,
                          !.active = @ \cup bundle.active])

InsertFavorites(t) ==
  Writes(t, "insertFavorites", "insertRatings",
         [view EXCEPT !.favorites = @ \cup job[t].bundle.favorites])

InsertRatings(t) ==
  Writes(t, "insertRatings", "dropOrphans",
         [view EXCEPT !.ratings = @ \cup job[t].bundle.ratings])

DropOrphans(t) ==
  Writes(t, "dropOrphans", "fixActive", WithoutOrphans(view))

\* The profiles are counted; one active profile is left alone.
KeepActive(t) ==
  /\ at[t] = "fixActive" /\ ~ NeedsActive(view)
  /\ at' = [at EXCEPT ![t] = "importCommit"]
  /\ UNCHANGED <<dbVars, lockVars, job>>

DemoteProfiles(t) ==
  /\ NeedsActive(view)
  /\ Writes(t, "fixActive", "promote", Deactivated(view))

\* The oldest profile becomes active.
PromoteProfile(t) ==
  \E profile \in view.profiles :
     Writes(t, "promote", "importCommit", Activated(view, profile))

ImportCommits(t) ==
  /\ at[t] = "importCommit" /\ txn
  /\ committed' = view /\ txn' = FALSE
  /\ Ends(t) /\ Releases(t)
  /\ UNCHANGED view

\* A read of an export, or a statement of an import (a bad row, a COMMIT
\* without a transaction), fails: ROLLBACK, of whatever is in the transaction.
RolledBack == committed

BackupFails(t) ==
  /\ at[t] \in Importing \cup (Reading \ {"exportCommit"})
  /\ view' = RolledBack /\ txn' = FALSE
  /\ Ends(t) /\ Releases(t)
  /\ UNCHANGED committed

\* Home Assistant dies: the open transaction is lost.
Crash ==
  /\ view' = committed /\ txn' = FALSE
  /\ lock' = None /\ backup' = None
  /\ at' = [t \in Tasks |-> "idle"]
  /\ job' = [t \in Tasks |-> NoJob]
  /\ UNCHANGED committed
----------------------------------------------------------------------------
Write(t) ==
  \/ Deactivate(t) \/ Activate(t) \/ InsertFavorite(t) \/ DeleteProfile(t)
  \/ RemoveFavorite(t) \/ RemoveRating(t) \/ Rate(t) \/ Commit(t)

Export(t) ==
  \/ Settle(t) \/ Begin(t) \/ Refused(t)
  \/ ReadProfiles(t) \/ ReadFavorites(t) \/ ReadRatings(t) \/ ExportCommits(t)

Import(t) ==
  \/ ApplyRequested(t) \/ ClearRatings(t) \/ ClearFavorites(t)
  \/ ClearProfiles(t) \/ InsertProfiles(t) \/ InsertFavorites(t)
  \/ InsertRatings(t) \/ DropOrphans(t) \/ KeepActive(t) \/ DemoteProfiles(t)
  \/ PromoteProfile(t) \/ ImportCommits(t) \/ BackupFails(t)

Next ==
  \/ \E t \in Tasks :
        \/ \E handler \in Handlers : Request(t, handler)
        \/ TakesLock(t) \/ NoteReadsRating(t)
        \/ Write(t) \/ Export(t) \/ Import(t)
  \/ Crash

Spec == Init /\ [][Next]_vars
----------------------------------------------------------------------------
\* A content has all that an import of a bundle should bring.
Holds(content, bundle) ==
  /\ bundle.profiles \subseteq content.profiles
  /\ bundle.favorites \subseteq content.favorites
  /\ bundle.ratings \cap bundle.favorites \subseteq content.ratings

Jobs == [handler : AllHandlers \cup {"apply", None},
         row : Profiles \cup Favorites \cup {None},
         bundle : Content \cup {None}, snapshot : Content]

TypeOK ==
  /\ committed \in Content /\ view \in Content /\ txn \in BOOLEAN
  /\ lock \in Tasks \cup {None} /\ backup \in Tasks \cup {None}
  /\ at \in [Tasks -> Stages] /\ job \in [Tasks -> Jobs]

(* Once no request is in flight nothing is left in an open transaction: a   *)
(* crash then loses nothing that a handler has reported as done.            *)
QuiescentIsDurable ==
  (\A t \in Tasks : at[t] = "idle") => ~ txn /\ view = committed

(* An import that reports success has made every profile, every favourite   *)
(* and every rating of a favourite of its bundle durable, whatever the      *)
(* handlers without a lock wrote and committed, and whichever deletions     *)
(* were asked for, while it was under way.                                  *)
SuccessfulImportIsWhole ==
  [][\A t \in Tasks : ImportCommits(t) => Holds(committed', job[t].bundle)]_vars

(* With writers that hold db._lock only, the durable content changes by     *)
(* whole requests, over failures and crashes at any statement.              *)
Store == INSTANCE AtomicStore WITH store <- committed

ImplementsAtomicStore == Store!Spec

(* An exported bundle is the durable content at one moment, not a mixture   *)
(* of two (async_build_export reads it table by table).                     *)
SnapshotIsOneState ==
  [][\A t \in Tasks : ExportCommits(t) => job[t].snapshot = committed]_vars

(* sommelier_backup.py, rule 5, and README.md:823: an import lands whole or *)
(* not at all: no other handler's commit makes its deletions or insertions  *)
(* of profiles durable while it is under way.                               *)
NoHalfImport ==
  [][\A t \in Tasks : at[t] \in Importing /\ at'[t] = at[t] =>
       committed'.profiles = committed.profiles]_vars

(* sommelier_db.py:1828: async_set_active_profile "deactivates all others". *)
(* With "activate" among the handlers it does not: neither of its two       *)
(* statements is under the lock, and two of them may alternate.             *)
AtMostOneActive == OneActive(committed)
----------------------------------------------------------------------------
(* The inductive invariants behind the safety properties.                   *)

\* The stages each handler goes through.
StagesOf(handler) ==
  CASE handler = None             -> {"idle"}
    [] handler = "activate"       -> {"deactivate", "activate", "commit"}
    [] handler = "addFavorite"    -> {"insertFavorite", "commit"}
    [] handler = "deleteProfile"  -> {"lock", "deleteProfile", "commit"}
    [] handler = "removeFavorite" -> {"lock", "removeFavorite", "removeRating",
                                      "commit"}
    [] handler = "rate"           -> {"lock", "rate", "commit"}
    [] handler = "note"           -> {"lock"}
    [] handler = "export"         -> {"lock", "settle", "begin"} \cup Reading
    [] handler = "import"         -> {"lock", "settle", "begin",
                                      "snapshotTaken"} \cup Reading
    [] handler = "apply"          -> {"lock", "settle", "begin"} \cup Importing

JobInv ==
  \A t \in Tasks :
    /\ at[t] \in StagesOf(job[t].handler)
    /\ job[t].handler # None => job[t].row \in Rows(job[t].handler)
    /\ job[t].handler \in {"import", "apply"} => job[t].bundle \in Content

\* Between a statement that may open a transaction and the end of it.
Open == {"activate", "removeRating", "commit"} \cup Reading \cup Importing

\* An open transaction is somebody's to end, a closed one leaves no trace.
TxnInv ==
  /\ ~ txn => view = committed
  /\ txn => \E t \in Tasks : at[t] \in Open

StoreInv == TypeOK /\ JobInv /\ TxnInv

\* Rule 5 of sommelier_backup.py, of the handlers that are called.
Disciplined == Handlers \cap UnlockedWriters = {}

Waiting == {"idle", "lock", "snapshotTaken"}

\* What an import has brought into the content before each of its stages.
Brought(stage, bundle, content) ==
  /\ stage \in Importing \ {"clearRatings", "clearFavorites", "clearProfiles",
                           "insertProfiles"} =>
       bundle.profiles \subseteq content.profiles
  /\ stage \in {"insertRatings", "dropOrphans", "fixActive", "promote",
               "importCommit"} =>
       bundle.favorites \subseteq content.favorites
  /\ stage \in {"dropOrphans", "fixActive", "promote", "importCommit"} =>
       bundle.ratings \cap bundle.favorites \subseteq content.ratings

\* Who needs the lock holds it, so nobody takes away what an import brings.
ImportInv ==
  \A t \in Tasks :
    /\ at[t] \notin Waiting /\ job[t].handler \notin UnlockedWriters => lock = t
    /\ Brought(at[t], job[t].bundle, view)

\* With the discipline, who is past the lock holds it.
LockInv ==
  \A t \in Tasks : /\ job[t].handler \notin UnlockedWriters
                   /\ (lock = t) <=> at[t] \notin Waiting

\* What the holder of the lock has done to the durable content so far.
Progress(t) ==
  LET row    == job[t].row
      bundle == job[t].bundle
  IN  CASE at[t] = "removeRating"    -> {WithoutFavorite(committed, row)}
        [] at[t] = "commit"          ->
             {CASE job[t].handler = "deleteProfile" -> WithoutProfile(committed, row)
                [] job[t].handler = "rate"          -> WithRating(committed, row)
                [] OTHER -> WithoutRating(WithoutFavorite(committed, row), row)}
        [] at[t] = "clearFavorites"  -> {[committed EXCEPT !.ratings = {}]}
        [] at[t] = "clearProfiles"   -> {[committed EXCEPT !.ratings = {},
                                                           !.favorites = {}]}
        [] at[t] = "insertProfiles"  -> {Empty}
        [] at[t] = "insertFavorites" -> {[bundle EXCEPT !.favorites = {}, !.ratings = {}]}
        [] at[t] = "insertRatings"   -> {[bundle EXCEPT !.ratings = {}]}
        [] at[t] = "dropOrphans"     -> {bundle}
        [] at[t] = "fixActive"       -> {WithoutOrphans(bundle)}
        [] at[t] = "promote"         -> {Deactivated(WithoutOrphans(bundle))}
        [] at[t] = "importCommit"    -> Imported(bundle)
        [] OTHER                     -> {committed}

ProgressInv ==
  /\ lock = None => view = committed
  /\ \A t \in Tasks :
       /\ lock = t => view \in Progress(t)
       /\ at[t] = "promote" => NeedsActive(WithoutOrphans(job[t].bundle))

\* What an export has read so far is the durable content.
SnapshotInv ==
  \A t \in Tasks :
    LET read == job[t].snapshot
    IN  /\ at[t] \in {"readFavorites", "readRatings", "exportCommit"} =>
              read.profiles = committed.profiles /\ read.active = committed.active
        /\ at[t] \in {"readRatings", "exportCommit"} =>
              read.favorites = committed.favorites
        /\ at[t] = "exportCommit" => read.ratings = committed.ratings

LockedInv == LockInv /\ ProgressInv /\ SnapshotInv
=============================================================================
