-------------------------- MODULE SommelierWizard --------------------------
(***************************************************************************)
(* The handlers behind the Sommelier's wizard (sommelier_api.py) and the   *)
(* tables they use (sommelier_db.py): generating recipes with a language   *)
(* model, brewing them phase by phase, the favourites, the history and the *)
(* beans in the hoppers.  A step is what runs between two awaits: an SQL   *)
(* statement, the call of the model, the brew.  Rows are shown as the      *)
(* shared connection sees them; who commits them is SommelierStore's       *)
(* subject.  The foreign keys are enforced: a statement that breaks one    *)
(* raises and ends its request.                                            *)
(***************************************************************************)
EXTENDS RecipeShape, FiniteSets

CONSTANTS Tasks,     \* requests in flight at the same time
          Handlers,  \* for each of them, the handlers it may call
          Beans,     \* the catalogue's ids
          Sessions,  \* the ids generated for sessions
          Favorites, \* the ids generated for favourites
          Replies,   \* what the language model may answer
          MaxPoured, \* bound: accepted brews
          None

Hoppers == {1, 2}

AllHandlers == {"generate", "brew", "addFavorite", "removeFavorite",
                "clearHistory", "deleteBean", "assignHopper"}

MaxAttempts == 2

MaxRecipes == 2   \* bound: recipes per session

RecipeIds == Sessions \X (1 .. MaxRecipes)

ASSUME TasksAssumption == IsFiniteSet(Tasks)

ASSUME HandlersAssumption == Handlers \in [Tasks -> SUBSET AllHandlers]

\* The rows of the tables.
SessionRow  == [beans : [Hoppers -> Beans \cup {None}], size : 0 .. MaxRecipes]
RecipeRow   == [phases : Phases, blend : {0, 1}, brewed : BOOLEAN]
FavoriteRow == [source : RecipeIds, phases : Phases, blend : {0, 1}, count : Nat]

ASSUME NoneAssumption ==
  /\ None \notin Tasks \cup Beans \cup Sessions \cup Favorites \cup RecipeIds
                \cup AllHandlers
  /\ None \notin SessionRow /\ None \notin RecipeRow /\ None \notin FavoriteRow

\* The ids of the two tables are generated apart from each other.
ASSUME IdsAssumption == Favorites \cap RecipeIds = {}

\* What a reply may hold.
Usable(raw) == /\ raw \in Seq(RawRecipe)
               /\ Len(ValidateRecipes(raw)) <= MaxRecipes

ASSUME RepliesAssumption ==
  \A r \in Replies : /\ r.kind \in {"json", "prose", "error"}
                     /\ r.valid \in BOOLEAN
                     /\ Usable(r.recipes)

VARIABLES
  beans,     \* coffee_beans
  hopper,    \* hoppers: the bean in each
  sessions,  \* generation_sessions: [beans, size], or None; the size is the
             \* number of recipes its reply had, or was before an INSERT raised
  recipes,   \* generated_recipes: [phases, blend, brewed], or None
  favorites, \* favorites: [source, phases, blend, count], or None
  lock,      \* the holder of db._lock
  used,      \* the ids that were given out
  poured,    \* the brews of a last phase that the machine accepted
  at, job

tables == <<beans, hopper, sessions, recipes, favorites>>
vars == <<tables, lock, used, poured, at, job>>

NoJob == [handler |-> None, row |-> None, native |-> FALSE, keep |-> FALSE,
          hoppers |-> [h \in Hoppers |-> None], attempt |-> 0, reply |-> <<>>,
          id |-> None, next |-> 1, recipe |-> None, last |-> FALSE,
          found |-> None]

Job == [handler : AllHandlers \cup {None},
        row : RecipeIds \cup Favorites \cup Beans \cup {None},
        native : BOOLEAN, keep : BOOLEAN,
        hoppers : [Hoppers -> Beans \cup {None}], attempt : Nat,
        reply : Seq(RawRecipe) \cup Seq(Recipe),
        id : Sessions \cup Favorites \cup {None}, next : Nat,
        recipe : RecipeRow \cup {None}, last : BOOLEAN,
        found : Favorites \cup {None}]

\* The stages of a request: what it is about to do.
Generating == {"hopper1", "hopper2", "capabilities", "native", "model",
               "insertSession", "insertRecipe"}
Brewing    == {"readRow", "brewing", "mark"}
Adding     == {"readRecipe", "find", "getFound", "insertFavorite"}
Removing   == {"lock", "removeFavorite", "clear", "detach1", "detach2",
               "deleteBean"}
Stages     == {"idle"} \cup Generating \cup Brewing \cup Adding \cup Removing

Init ==
  /\ beans = Beans /\ hopper = [h \in Hoppers |-> None]
  /\ sessions = [s \in Sessions |-> None]
  /\ recipes = [r \in RecipeIds |-> None]
  /\ favorites = [f \in Favorites |-> None]
  /\ lock = None /\ used = {}
  /\ poured = [row \in RecipeIds \cup Favorites |-> 0]
  /\ at = [t \in Tasks |-> "idle"]
  /\ job = [t \in Tasks |-> NoJob]

Live(table) == {id \in DOMAIN table : table[id] # None}

Goes(t, to) == at' = [at EXCEPT ![t] = to]

\* The reply or the error is sent.
Ends(t) == Goes(t, "idle") /\ job' = [job EXCEPT ![t] = NoJob]

\* A request arrives; what it inserts gets a new id.
Asks(t, handler, first, j, ids) ==
  /\ at[t] = "idle" /\ handler \in Handlers[t]
  /\ Goes(t, first)
  /\ \E id \in ids :
       /\ used' = IF id = None THEN used ELSE used \cup {id}
       /\ job' = [job EXCEPT ![t] = [j EXCEPT !.handler = handler, !.id = id]]
  /\ UNCHANGED <<tables, lock, poured>>
----------------------------------------------------------------------------
(* generate.                                                                *)

(* Without a usable agent the request is refused before anything is read.    *)
(* The agent is resolved anew for the call: one that was changed meanwhile   *)
(* answers as it likes, the built-in Assist in prose.                        *)
AskGenerate(t) ==
  \E native \in BOOLEAN :
    Asks(t, "generate", "hopper1", [NoJob EXCEPT !.native = native],
         Sessions \ used)

\* One SELECT per hopper.
ReadsHopper(t, h) ==
  /\ at[t] = <<"hopper1", "hopper2">>[h]
  /\ job' = [job EXCEPT ![t].hoppers[h] = hopper[h]]
  /\ Goes(t, <<"hopper2", "capabilities">>[h])
  /\ UNCHANGED <<tables, lock, used, poured>>

(* The capabilities are read under db._lock; profile, preferences and extras *)
(* are read without it around here.                                          *)
ReadsCapabilities(t) ==
  /\ at[t] = "capabilities" /\ lock = None
  /\ Goes(t, IF job[t].native THEN "native" ELSE "model")
  /\ UNCHANGED <<tables, lock, used, poured, job>>

\* The recipes of a usable reply are validated and about to be saved.
Saves(t, raw) ==
  /\ job' = [job EXCEPT ![t].reply = ValidateRecipes(raw), ![t].attempt = 0,
                        ![t].native = FALSE]
  /\ Goes(t, "insertSession")

Concludes(t, raw) == IF raw = <<>> THEN Ends(t) ELSE Saves(t, raw)

(* The helper with a native JSON mode answers, or fails over to the text     *)
(* path.  Its call has no time-out: it may also never answer.                *)
NativeAnswers(t) ==
  /\ at[t] = "native"
  /\ \/ \E r \in Replies : r.kind = "json" /\ r.valid /\ Concludes(t, r.recipes)
     \/ Goes(t, "model") /\ job' = [job EXCEPT ![t].native = FALSE]
  /\ UNCHANGED <<tables, lock, used, poured>>

(* The text path: a reply that is no JSON or breaks the schema is asked for  *)
(* once more.  A JSON object that broke the schema is kept, and used when    *)
(* the second reply is no better.  An error or a time-out ends the request.  *)
AsksAgain(t, r) == (r.kind = "prose" \/ ~r.valid) /\ job[t].attempt + 1 < MaxAttempts

ModelAnswers(t) ==
  /\ at[t] = "model"
  /\ \E r \in Replies :
       LET raw == IF r.kind = "json" THEN r.recipes ELSE job[t].reply
       IN  IF r.kind = "error" THEN Ends(t)
           ELSE IF AsksAgain(t, r)
           THEN /\ job' = [job EXCEPT ![t].reply = raw, ![t].attempt = @ + 1]
                /\ UNCHANGED at
           ELSE Concludes(t, raw)
  /\ UNCHANGED <<tables, lock, used, poured>>

\* The beans the session names must still be there.
InsertSession(t) ==
  /\ at[t] = "insertSession"
  /\ IF \A h \in Hoppers : job[t].hoppers[h] \in beans \cup {None}
     THEN /\ sessions' = [sessions EXCEPT ![job[t].id] =
            [beans |-> job[t].hoppers, size |-> Len(job[t].reply)]]
          /\ Goes(t, "insertRecipe")
          /\ job' = [job EXCEPT ![t].hoppers = NoJob.hoppers]
     ELSE Ends(t) /\ UNCHANGED sessions
  /\ UNCHANGED <<beans, hopper, recipes, favorites, lock, used, poured>>

\* Variant: foreign keys are not enforced for the recipes.
RecipeFits_Always(t) == TRUE

RecipeFits(t) == sessions[job[t].id] # None

(* One INSERT per recipe, its session must still be there, and the commit.   *)
InsertRecipe(t) ==
  /\ at[t] = "insertRecipe"
  /\ LET k == job[t].next
     IN  IF k > Len(job[t].reply) \/ ~RecipeFits(t)
         THEN Ends(t) /\ UNCHANGED recipes
         ELSE /\ recipes' = [recipes EXCEPT ![<<job[t].id, k>>] =
                   [phases |-> job[t].reply[k].phases,
                    blend |-> job[t].reply[k].blend, brewed |-> FALSE]]
              /\ job' = [job EXCEPT ![t].next = k + 1] /\ UNCHANGED at
  /\ UNCHANGED <<beans, hopper, sessions, favorites, lock, used, poured>>
(* An INSERT may raise for what the reply or the request holds, such as a    *)
(* number that no column takes, or for the database.  Nothing is rolled      *)
(* back: the session and the recipes before stay for the next commit.        *)
InsertRaises(t) ==
  /\ \/ at[t] = "insertSession" /\ UNCHANGED sessions
     \/ /\ at[t] = "insertRecipe" /\ job[t].next <= Len(job[t].reply)
        /\ sessions' = [s \in Sessions |->
             IF s = job[t].id /\ sessions[s] # None
             THEN [sessions[s] EXCEPT !.size = job[t].next - 1] ELSE sessions[s]]
  /\ Ends(t)
  /\ UNCHANGED <<beans, hopper, recipes, favorites, lock, used, poured>>
----------------------------------------------------------------------------
(* brew, brew_phase and favorites/brew.                                     *)

Rows == Live(recipes) \cup Live(favorites)

Row(id) == IF id \in RecipeIds THEN recipes[id] ELSE favorites[id]

\* A generate still works on its session.
AtWork(s) == \E t \in Tasks : job[t].handler = "generate" /\ job[t].id = s

\* The panel knows the row, though it may be gone by now.
Known(id) == IF id \in RecipeIds THEN id[1] \in used /\ ~AtWork(id[1])
             ELSE id \in used

\* The whole recipe (phase 0) or one of its phases.
AskBrew(t) ==
  \E id \in RecipeIds \cup Favorites, phase \in 0 .. 2 :
    /\ Known(id)
    /\ Asks(t, "brew", "readRow",
            [NoJob EXCEPT !.row = id, !.next = phase], {None})

Chosen(row, phase) == IF phase = 0 THEN row.phases ELSE <<row.phases[phase]>>

(* The row, a client, the phase, the contents and what the machine can do    *)
(* are checked; then it is asked.                                            *)
StartsBrew(t) ==
  /\ at[t] = "readRow"
  /\ LET id == job[t].row
         phase == job[t].next
     IN  IF /\ id \in Rows
            /\ phase <= Len(Row(id).phases)
            /\ Brewable(Row(id), Chosen(Row(id), phase))
         THEN /\ job' = [job EXCEPT ![t].last = phase \in {0, Len(Row(id).phases)},
                                   ![t].next = 1]
              /\ Goes(t, "brewing")
         ELSE Ends(t)
  /\ UNCHANGED <<tables, lock, used, poured>>

\* No client, or one that takes no recipes.
NoMachine(t) ==
  /\ at[t] = "readRow" /\ Ends(t)
  /\ UNCHANGED <<tables, lock, used, poured>>

(* The machine refuses or the call fails; or it starts, and only its last    *)
(* phase counts.                                                             *)
MachineRefuses(t) ==
  /\ at[t] = "brewing" /\ Ends(t)
  /\ UNCHANGED <<tables, lock, used, poured>>

\* Variant: every phase of a drink counts.
Counts_EveryPhase(t) == TRUE

Counts(t) == job[t].last

\* The drinks so far, for the bound.
Drinks == {d \in (RecipeIds \cup Favorites) \X (1 .. MaxPoured) :
             d[2] <= poured[d[1]]}

MachineStarts(t) ==
  /\ at[t] = "brewing"
  /\ job[t].last => Cardinality(Drinks) < MaxPoured
  /\ IF job[t].last THEN poured' = [poured EXCEPT ![job[t].row] = @ + 1]
     ELSE UNCHANGED poured
  /\ IF Counts(t)
     THEN Goes(t, "mark") /\ job' = [job EXCEPT ![t].last = FALSE]
     ELSE Ends(t)
  /\ UNCHANGED <<tables, lock, used>>

\* mark_recipe_brewed, increment_favorite_brew: nothing, if the row is gone.
MarkBrewed(t) ==
  /\ at[t] = "mark"
  /\ LET id == job[t].row
     IN  /\ recipes' = IF id \in Live(recipes)
                       THEN [recipes EXCEPT ![id].brewed = TRUE] ELSE recipes
         /\ favorites' = IF id \in Live(favorites)
                         THEN [favorites EXCEPT ![id].count = @ + 1] ELSE favorites
  /\ Ends(t)
  /\ UNCHANGED <<beans, hopper, sessions, lock, used, poured>>
----------------------------------------------------------------------------
(* Favourites.                                                              *)

AskAddFavorite(t) ==
  \E id \in RecipeIds : /\ Known(id)
                        /\ Asks(t, "addFavorite", "readRecipe",
                                [NoJob EXCEPT !.row = id],
                                IF Favorites \subseteq used THEN {None} ELSE Favorites \ used)

\* get_recipe.
ReadsRecipe(t) ==
  /\ at[t] = "readRecipe"
  /\ IF recipes[job[t].row] = None THEN Ends(t)
     ELSE /\ job' = [job EXCEPT ![t].recipe = recipes[job[t].row]]
          /\ Goes(t, "find")
  /\ UNCHANGED <<tables, lock, used, poured>>

FromSource(id) == {f \in Live(favorites) : favorites[f].source = id}

\* find_favorite_by_source: the id first.
FindsFavorite(t) ==
  /\ at[t] = "find"
  /\ IF FromSource(job[t].row) = {} THEN Goes(t, "insertFavorite") /\ UNCHANGED job
     ELSE \E f \in FromSource(job[t].row) :
            Goes(t, "getFound") /\ job' = [job EXCEPT ![t].found = f]
  /\ UNCHANGED <<tables, lock, used, poured>>

\* Then its row, which may be gone by now.
GetsFound(t) ==
  /\ at[t] = "getFound"
  /\ IF job[t].found \in Live(favorites) THEN Ends(t)
     ELSE Goes(t, "insertFavorite") /\ UNCHANGED job
  /\ UNCHANGED <<tables, lock, used, poured>>

\* Without an id left, which is a bound, the INSERT fails.
InsertFavorite(t) ==
  /\ at[t] = "insertFavorite"
  /\ favorites' = [f \in Favorites |-> IF f # job[t].id THEN favorites[f] ELSE
       [source |-> job[t].row, phases |-> job[t].recipe.phases,
        blend |-> job[t].recipe.blend, count |-> 0]]
  /\ Ends(t)
  /\ UNCHANGED <<beans, hopper, sessions, recipes, lock, used, poured>>

AskRemoveFavorite(t) ==
  \E f \in Live(favorites) :
    Asks(t, "removeFavorite", "lock", [NoJob EXCEPT !.row = f], {None})

RemoveFavorite(t) ==
  /\ at[t] = "removeFavorite" /\ lock = t
  /\ favorites' = [favorites EXCEPT ![job[t].row] = None]
  /\ lock' = None /\ Ends(t)
  /\ UNCHANGED <<beans, hopper, sessions, recipes, used, poured>>
----------------------------------------------------------------------------
(* History, beans and settings.                                             *)

TakesLock(t) ==
  /\ at[t] = "lock" /\ lock = None
  /\ lock' = t
  /\ Goes(t, CASE job[t].handler = "removeFavorite" -> "removeFavorite"
               [] job[t].handler = "clearHistory"   -> "clear"
               [] job[t].handler = "deleteBean"     -> "detach1")
  /\ UNCHANGED <<tables, used, poured, job>>

AskClearHistory(t) ==
  \E keep \in BOOLEAN :
    Asks(t, "clearHistory", "lock", [NoJob EXCEPT !.keep = keep], {None})

Favorited == {favorites[f].source[1] : f \in {g \in Live(favorites) :
                                   favorites[g].source \in Live(recipes)}}

Cleared(keep) == IF keep THEN Live(sessions) \ Favorited ELSE Live(sessions)

\* Variant: no cascade.
Cascade_None(gone) == recipes

\* The recipes go with their sessions (ON DELETE CASCADE).
Cascade(gone) ==
  [r \in RecipeIds |-> IF r[1] \in gone THEN None ELSE recipes[r]]

ClearHistory(t) ==
  /\ at[t] = "clear" /\ lock = t
  /\ LET gone == Cleared(job[t].keep)
     IN  /\ sessions' = [s \in Sessions |-> IF s \in gone THEN None ELSE sessions[s]]
         /\ recipes' = Cascade(gone)
  /\ lock' = None /\ Ends(t)
  /\ UNCHANGED <<beans, hopper, favorites, used, poured>>

AskDeleteBean(t) ==
  \E b \in beans : Asks(t, "deleteBean", "lock", [NoJob EXCEPT !.row = b], {None})

\* History rows lose the bean, one hopper column after the other.
DetachBean(t, h) ==
  /\ at[t] = <<"detach1", "detach2">>[h] /\ lock = t
  /\ sessions' = [s \in Sessions |->
       IF sessions[s] # None /\ sessions[s].beans[h] = job[t].row
       THEN [sessions[s] EXCEPT !.beans[h] = None] ELSE sessions[s]]
  /\ Goes(t, <<"detach2", "deleteBean">>[h])
  /\ UNCHANGED <<beans, hopper, recipes, favorites, lock, used, poured, job>>

Referred(b) == \E s \in Live(sessions), h \in Hoppers : sessions[s].beans[h] = b

\* Variant: the lock is released on success only.
LockAfterDelete_Success(t) == IF Referred(job[t].row) THEN t ELSE None

\* `async with` releases the lock, also when the statement raised.
LockAfterDelete(t) == None

(* The DELETE; the hoppers are emptied by it (ON DELETE SET NULL).  A        *)
(* session that was written since the detaching makes it raise.              *)
DeleteBean(t) ==
  /\ at[t] = "deleteBean" /\ lock = t
  /\ IF Referred(job[t].row) THEN UNCHANGED <<beans, hopper>>
     ELSE /\ beans' = beans \ {job[t].row}
          /\ hopper' = [h \in Hoppers |-> IF hopper[h] = job[t].row THEN None
                                          ELSE hopper[h]]
  /\ lock' = LockAfterDelete(t) /\ Ends(t)
  /\ UNCHANGED <<sessions, recipes, favorites, used, poured>>

\* A generation is still to read the hoppers; a later assignment has no reader.
ToBeRead == Sessions \ used # {} \/ \E t \in Tasks : at[t] \in {"hopper1", "hopper2"}

(* hoppers/assign, one unlocked UPDATE: an unknown bean raises.              *)
AssignHopper(t) ==
  /\ ToBeRead
  /\ "assignHopper" \in Handlers[t] /\ at[t] = "idle"
  /\ \E h \in Hoppers, b \in beans \cup {None} :
       hopper' = [hopper EXCEPT ![h] = b]
  /\ UNCHANGED <<beans, sessions, recipes, favorites, lock, used, poured, at, job>>
----------------------------------------------------------------------------
Statement(t) ==
  \/ \E h \in Hoppers : ReadsHopper(t, h) \/ DetachBean(t, h)
  \/ ReadsCapabilities(t) \/ InsertSession(t) \/ InsertRecipe(t)
  \/ InsertRaises(t)
  \/ StartsBrew(t) \/ NoMachine(t) \/ MarkBrewed(t)
  \/ ReadsRecipe(t) \/ FindsFavorite(t) \/ GetsFound(t) \/ InsertFavorite(t)
  \/ TakesLock(t) \/ RemoveFavorite(t) \/ ClearHistory(t) \/ DeleteBean(t)

Answer(t) == ModelAnswers(t) \/ MachineRefuses(t) \/ MachineStarts(t)

Ask(t) ==
  \/ AskGenerate(t) \/ AskBrew(t) \/ AskAddFavorite(t) \/ AskRemoveFavorite(t)
  \/ AskClearHistory(t) \/ AskDeleteBean(t) \/ AssignHopper(t)

Next == \E t \in Tasks : Statement(t) \/ Answer(t) \/ NativeAnswers(t) \/ Ask(t)

(* The database answers every statement; the model's call ends by its own    *)
(* time-out and the brew by the time-outs of its commands; db._lock is an    *)
(* asyncio.Lock, which serves its waiters in turn.  Nothing bounds the       *)
(* native helper.                                                            *)
Fairness ==
  \A t \in Tasks : /\ WF_vars(Statement(t) \/ Answer(t))
                   /\ SF_vars(TakesLock(t) \/ ReadsCapabilities(t))

Spec == Init /\ [][Next]_vars /\ Fairness
----------------------------------------------------------------------------
(* Properties.                                                              *)

TypeOK ==
  /\ beans \in SUBSET Beans
  /\ hopper \in [Hoppers -> Beans \cup {None}]
  /\ sessions \in [Sessions -> SessionRow \cup {None}]
  /\ recipes \in [RecipeIds -> RecipeRow \cup {None}]
  /\ favorites \in [Favorites -> FavoriteRow \cup {None}]
  /\ lock \in Tasks \cup {None}
  /\ used \in SUBSET (Sessions \cup Favorites)
  /\ poured \in [RecipeIds \cup Favorites -> Nat]
  /\ at \in [Tasks -> Stages]
  /\ job \in [Tasks -> Job]

(* Once its request is over, a session has the recipes that were written for *)
(* it, all of its reply unless an INSERT raised, or is gone with every one   *)
(* of them, also when the history was cleared or a bean deleted between its  *)
(* INSERTs (async_create_session takes no lock; sommelier_db.py 842-959).    *)
SessionsKeepTheirRecipes ==
  \A s \in Sessions :
    ~AtWork(s) =>
      {k \in 1 .. MaxRecipes : recipes[<<s, k>>] # None} =
        (IF sessions[s] = None THEN {} ELSE 1 .. sessions[s].size)

(* Every drink is counted once, and only whole ones are: the counter of a    *)
(* favourite and the mark of a recipe agree with the last phases that the    *)
(* machine accepted, whichever handler brewed them and however they overlap  *)
(* (sommelier_api.py 1256-1262, 1355-1359).                                  *)
Marking(id) == {t \in Tasks : at[t] = "mark" /\ job[t].row = id}

DrinksAreCounted ==
  /\ \A f \in Live(favorites) :
       favorites[f].count + Cardinality(Marking(f)) = poured[f]
  /\ \A r \in Live(recipes) :
       (recipes[r].brewed \/ Marking(r) # {}) <=> poured[r] > 0

(* Whatever the model wrote, a stored recipe passes the checks at brew time, *)
(* each phase of it alone too, and the machine is sent the portion that is   *)
(* stored (ai_recipes.py 867-961 against sommelier_api.py 101-133).          *)
GeneratedIsBrewable ==
  \A id \in Rows :
    LET row == Row(id)
    IN  /\ Brewable(row, row.phases)
        /\ \A i \in DOMAIN row.phases :
             /\ row.phases[i].process # "none"
             /\ 5 * Payload(row, <<row.phases[i]>>)[1].portion = row.phases[i].ml

(* Every request is answered, except one that waits for the native helper:   *)
(* no holder keeps db._lock, no retry goes on for ever and a model that      *)
(* hangs is given up (panel_api.py _llm_call_text: "so a hung provider fails *)
(* the WS request cleanly").                                                 *)
RequestsAreAnswered ==
  \A t \in Tasks : (at[t] # "idle" /\ ~job[t].native) ~> at[t] = "idle"

(* A recipe is a favourite once.  "Idempotent on duplicates" (favorites/add, *)
(* sommelier_api.py 1438-1441); the look-up and the INSERT are two awaits.   *)
OneFavoritePerRecipe == \A r \in RecipeIds : Cardinality(FromSource(r)) <= 1
============================================================================
