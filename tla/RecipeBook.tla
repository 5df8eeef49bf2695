----------------------------- MODULE RecipeBook -----------------------------
(***************************************************************************)
(* The recipes of a machine with readable slots, and the copy of them that *)
(* the client keeps: base_recipes and _directkey_recipes (_ble_recipes.py, *)
(* _ble_commands.py).  The copy is filled after a connect by two tasks at  *)
(* once, by the shared refresh, by a save, and by the read that follows a  *)
(* reset; the recipe select (select.py) and the clients of the UI contract *)
(* keep copies of that copy.  Meanwhile people change slots at the machine *)
(* and the link comes and goes.                                            *)
(*                                                                         *)
(* A slot is read and stored in one step: the answer resumes the reader    *)
(* before another command is sent.  The attempts of one read are one step; *)
(* it fails when none of them is answered.  The commands, their lock and   *)
(* the polling around them are module CommandChannel.                      *)
(***************************************************************************)
EXTENDS FiniteSets

CONSTANTS
  Bases,   \* base recipes, the keys of RECIPE_NAMES
  Keys,    \* DirectKey slots of the profiles
  Contents,\* what each slot may hold: records of what an editor shows of a
           \* recipe, and of what it hides (hopper, reserved bytes)
  Tasks,   \* preload tasks of the recipe select that may overlap
  NoRecipe \* nothing

Slots  == Bases \cup Keys
Recipe == UNION {Contents[s] : s \in Slots}
Hidden == {recipe.hidden : recipe \in Recipe}

ASSUME SlotsAssumption  == Bases \cap Keys = {}
ASSUME RecipeAssumption ==
  /\ Contents \in [Slots -> SUBSET Recipe] /\ NoRecipe \notin Recipe
  /\ \A recipe \in Recipe : DOMAIN recipe = {"shown", "hidden"}
  /\ \A k \in Keys : \A edited, held \in Contents[k] :
       [edited EXCEPT !.hidden = held.hidden] \in Contents[k]

VARIABLES
  online,    \* client.connected
  slot,      \* the machine's slots
  book,      \* the client's copy
  listed,    \* the copy of the recipe select, _all_recipes
  contract,  \* the base recipes a client of the UI contract holds under the
             \* present recipe_cache_generation
  save,      \* write_profile_recipe: its step, slot and what it carries
  refresh,   \* the refresh task: its step, what is left, what it has counted
  resetting, \* reset_recipe_default: its step and slot
  keyLoad,   \* the slots the post-connect task has yet to read
  baseLoad,  \* the preload tasks of the recipe select: what each has yet to read
  \* History, which no code reads:
  hiddenSeen,\* the hidden parts the saved slot has had since the save began
  fresh      \* slots whose copy was right at some time since the refresh began

bookVars   == <<book, listed, contract>>
taskVars   == <<save, refresh, resetting, keyLoad, baseLoad>>
recipeVars == <<online, slot, bookVars, taskVars, hiddenSeen, fresh>>

NoSave    == [at |-> "idle", key |-> NoRecipe, recipe |-> NoRecipe]
NoRefresh == [at |-> "idle", left |-> {}, counted |-> {}]
NoReset   == [at |-> "idle", slot |-> NoRecipe]
NotLoading == [on |-> FALSE, left |-> {}]

RecipeInit ==
  /\ online = FALSE
  /\ slot \in {held \in [Slots -> Recipe] : \A s \in Slots : held[s] \in Contents[s]}
  /\ book = [s \in Slots |-> NoRecipe]
  /\ listed = [b \in Bases |-> NoRecipe]
  /\ contract = NoRecipe
  /\ save = NoSave /\ refresh = NoRefresh /\ resetting = NoReset
  /\ keyLoad = {} /\ baseLoad = [t \in Tasks |-> NotLoading]
  /\ hiddenSeen = {} /\ fresh = {}

\* _brew_lock: held by a save or by a refresh that runs; brews hold it too.
LockFree == save.at = "idle" /\ refresh.at # "running"

-----------------------------------------------------------------------------
(* The copies.                                                              *)

\* What is learned about slot s is put into the copy.
Put(s, recipe) ==
  /\ book' = [book EXCEPT ![s] = recipe]
  /\ fresh' = fresh \cup {s}

\* Mostly the generation moves with it, which asks the clients to fetch anew.
Stored(s, recipe) == Put(s, recipe) /\ contract' = NoRecipe

\* Variant: the recipe select hears of a new recipe before the client does.
Announced_First(s, recipe) ==
  /\ Stored(s, recipe)
  /\ listed' = IF s \in Bases /\ book[s] # NoRecipe
               THEN [listed EXCEPT ![s] = book[s]] ELSE listed

\* The callbacks of a re-read recipe: the client's own comes first.
Announced(s, recipe) ==
  /\ Stored(s, recipe)
  /\ listed' = IF s \in Bases THEN [listed EXCEPT ![s] = recipe] ELSE listed

\* After a save or a reset a DirectKey recipe is put without the generation:
\* the contract describes none of them.
Rewritten(s, recipe) ==
  IF s \in Bases THEN Announced(s, recipe)
  ELSE Put(s, recipe) /\ UNCHANGED <<listed, contract>>

(* A client fetches the contract, which it keeps for as long as the         *)
(* fingerprint stands.                                                      *)
FetchesContract ==
  /\ contract' = [b \in Bases |-> book[b]]
  /\ UNCHANGED <<online, slot, book, listed, taskVars, hiddenSeen, fresh>>

-----------------------------------------------------------------------------
(* The machine and the link.                                                *)

\* Slot s changes at the machine: what the code remembers of it does not.
Changes(s, recipe) ==
  /\ slot' = [slot EXCEPT ![s] = recipe]
  /\ hiddenSeen' = IF save.key = s THEN hiddenSeen \cup {recipe.hidden} ELSE hiddenSeen
  /\ fresh' = IF book[s] = recipe THEN fresh \cup {s} ELSE fresh

PersonEdits(s) ==
  /\ \E recipe \in Contents[s] : Changes(s, recipe)
  /\ UNCHANGED <<online, bookVars, taskVars>>

(* A connect starts the post-connect task and a preload task of the recipe  *)
(* select; those of the connection before may still be running.             *)
RecipeLinkUp ==
  /\ ~ online /\ online' = TRUE
  /\ keyLoad' = Keys
  /\ \E t \in Tasks :
       /\ baseLoad[t] = NotLoading
       /\ baseLoad' = [baseLoad EXCEPT ![t] = [on |-> TRUE, left |-> Bases]]
  /\ UNCHANGED <<slot, bookVars, save, refresh, resetting, hiddenSeen, fresh>>

RecipeLinkDown ==
  /\ online /\ online' = FALSE
  /\ UNCHANGED <<slot, bookVars, taskVars, hiddenSeen, fresh>>

\* The machine answers a read, in one of its attempts.
Answers(s, recipe) == online /\ recipe = slot[s]

-----------------------------------------------------------------------------
(* After a connect.                                                         *)

\* read_profile_data; a slot that cannot be read keeps its copy.
LoadsKey(s) ==
  /\ s \in keyLoad /\ keyLoad' = keyLoad \ {s}
  /\ \/ Answers(s, slot[s]) /\ Stored(s, slot[s])
     \/ UNCHANGED <<book, contract, fresh>>
  /\ UNCHANGED <<online, slot, listed, save, refresh, resetting, baseLoad, hiddenSeen>>

\* _preload_recipes reads the base recipes one after another ...
LoadsBase(t, b) ==
  /\ b \in baseLoad[t].left
  /\ baseLoad' = [baseLoad EXCEPT ![t].left = @ \ {b}]
  /\ \/ Answers(b, slot[b]) /\ Stored(b, slot[b])
     \/ UNCHANGED <<book, contract, fresh>>
  /\ UNCHANGED <<online, slot, listed, save, refresh, resetting, keyLoad, hiddenSeen>>

\* ... and takes over the client's copy at the end.
ListsBases(t) ==
  /\ baseLoad[t].on /\ baseLoad[t].left = {}
  /\ baseLoad' = [baseLoad EXCEPT ![t] = NotLoading]
  /\ listed' = [b \in Bases |-> IF book[b] # NoRecipe THEN book[b] ELSE listed[b]]
  /\ UNCHANGED <<online, slot, book, contract, save, refresh, resetting, keyLoad,
                 hiddenSeen, fresh>>

(* Selecting a recipe that is not listed reads it once more.                *)
SelectsBase(b) ==
  /\ online /\ listed[b] = NoRecipe
  /\ \/ /\ Answers(b, slot[b]) /\ Announced(b, slot[b])
     \/ /\ book[b] # NoRecipe /\ listed' = [listed EXCEPT ![b] = book[b]]
        /\ UNCHANGED <<book, contract, fresh>>
  /\ UNCHANGED <<online, slot, taskVars, hiddenSeen>>

-----------------------------------------------------------------------------
(* write_profile_recipe, as save_directkey calls it.                        *)

SaveStarts(k, recipe) ==
  /\ online /\ LockFree
  /\ save' = [at |-> "read", key |-> k, recipe |-> recipe]
  /\ hiddenSeen' = {slot[k].hidden}
  /\ UNCHANGED <<online, slot, bookVars, refresh, resetting, keyLoad, baseLoad, fresh>>

SaveEnds == save' = NoSave /\ hiddenSeen' = {}

\* Variant: the editor's own hidden fields are written.
Preserved_Not(recipe, current) == recipe

\* preserve_hidden_fields: hopper and reserved bytes of the recipe as read.
Preserved(recipe, current) == [recipe EXCEPT !.hidden = current.hidden]

\* An unreadable slot is not overwritten.
SaveReads ==
  /\ save.at = "read"
  /\ \/ /\ Answers(save.key, slot[save.key])
        /\ save' = [save EXCEPT !.at = "write",
                                !.recipe = Preserved(@, slot[save.key])]
        /\ UNCHANGED hiddenSeen
     \/ SaveEnds
  /\ UNCHANGED <<online, slot, bookVars, refresh, resetting, keyLoad, baseLoad, fresh>>

(* An attempt to write lands or does not, and only a landed one is ACKed;   *)
(* without an ACK it is repeated or given up.                               *)
SaveWrites ==
  /\ save.at = "write"
  /\ \/ /\ online /\ Changes(save.key, save.recipe)
        /\ \/ save' = [save EXCEPT !.at = "re-read"]
           \/ UNCHANGED save
     \/ SaveEnds /\ UNCHANGED <<slot, fresh>>
  /\ UNCHANGED <<online, bookVars, refresh, resetting, keyLoad, baseLoad>>

SaveRereads ==
  /\ save.at = "re-read" /\ SaveEnds
  /\ \/ Answers(save.key, slot[save.key]) /\ Rewritten(save.key, slot[save.key])
     \/ UNCHANGED <<bookVars, fresh>>
  /\ UNCHANGED <<online, slot, refresh, resetting, keyLoad, baseLoad>>

-----------------------------------------------------------------------------
(* refresh_recipes and _refresh_recipe_cache.                               *)

\* A second caller joins the task that is there.
RefreshIsAsked ==
  /\ refresh.at = "idle" /\ online /\ LockFree
  /\ refresh' = [refresh EXCEPT !.at = "waiting"]
  /\ UNCHANGED <<online, slot, bookVars, save, resetting, keyLoad, baseLoad,
                 hiddenSeen, fresh>>

\* With the lock, the machine may turn out to be gone or busy.
RefreshRuns ==
  /\ refresh.at = "waiting" /\ LockFree
  /\ \/ /\ online
        /\ refresh' = [at |-> "running", left |-> Slots, counted |-> {}]
        /\ fresh' = {s \in Slots : book[s] = slot[s]}
     \/ refresh' = NoRefresh /\ UNCHANGED fresh
  /\ UNCHANGED <<online, slot, bookVars, save, resetting, keyLoad, baseLoad, hiddenSeen>>

\* Variant: a slot that keeps its copy counts as refreshed.
Counted_Retained(s, answered) == answered \/ book[s] # NoRecipe

\* Only a slot that was read is counted.
Counted(s, answered) == answered

RefreshReads(s) ==
  /\ refresh.at = "running" /\ s \in refresh.left
  /\ \E answered \in BOOLEAN :
       /\ refresh' = [refresh EXCEPT !.left = @ \ {s},
                        !.counted = IF Counted(s, answered) THEN @ \cup {s} ELSE @]
       /\ \/ answered /\ Answers(s, slot[s]) /\ Announced(s, slot[s])
          \/ ~ answered /\ UNCHANGED <<bookVars, fresh>>
  /\ UNCHANGED <<online, slot, save, resetting, keyLoad, baseLoad, hiddenSeen>>

\* Everything is read, or the time budget has run out, or disconnect() has
\* cancelled the task; the answer says which.
RefreshEnds(complete) ==
  /\ refresh.at = "running"
  /\ complete <=> refresh.counted = Slots
  /\ refresh' = NoRefresh
  /\ UNCHANGED <<online, slot, bookVars, save, resetting, keyLoad, baseLoad,
                 hiddenSeen, fresh>>

-----------------------------------------------------------------------------
(* reset_recipe_default, which asks neither for the lock nor for readiness. *)

ResetStarts(s) ==
  /\ resetting.at = "idle" /\ online
  /\ \/ \E factory \in Contents[s] : Changes(s, factory)
     \/ UNCHANGED <<slot, hiddenSeen, fresh>>
  /\ resetting' = [at |-> "re-read", slot |-> s]
  /\ UNCHANGED <<online, bookVars, save, refresh, keyLoad, baseLoad>>

\* With the ACK the recipe is read again; without it nothing more is done.
ResetRereads ==
  /\ resetting.at = "re-read" /\ resetting' = NoReset
  /\ \/ Answers(resetting.slot, slot[resetting.slot])
        /\ Rewritten(resetting.slot, slot[resetting.slot])
     \/ UNCHANGED <<bookVars, fresh>>
  /\ UNCHANGED <<online, slot, save, refresh, keyLoad, baseLoad, hiddenSeen>>

RecipeNext ==
  \/ RecipeLinkUp \/ RecipeLinkDown \/ FetchesContract
  \/ \E s \in Slots : PersonEdits(s) \/ ResetStarts(s) \/ RefreshReads(s) \/ LoadsKey(s)
  \/ \E b \in Bases : SelectsBase(b) \/ (\E t \in Tasks : LoadsBase(t, b))
  \/ \E t \in Tasks : ListsBases(t)
  \/ \E k \in Keys : \E recipe \in Contents[k] : SaveStarts(k, recipe)
  \/ SaveReads \/ SaveWrites \/ SaveRereads
  \/ RefreshIsAsked \/ RefreshRuns \/ (\E complete \in BOOLEAN : RefreshEnds(complete))
  \/ ResetRereads

RecipeSpec == RecipeInit /\ [][RecipeNext]_recipeVars
-----------------------------------------------------------------------------
RecipeTypeOK ==
  /\ online \in BOOLEAN
  /\ slot \in [Slots -> Recipe]
  /\ book \in [Slots -> Recipe \cup {NoRecipe}]
  /\ listed \in [Bases -> Recipe \cup {NoRecipe}]
  /\ contract \in [Bases -> Recipe \cup {NoRecipe}] \cup {NoRecipe}
  /\ save \in [at : {"idle", "read", "write", "re-read"},
               key : Keys \cup {NoRecipe}, recipe : Recipe \cup {NoRecipe}]
  /\ refresh \in [at : {"idle", "waiting", "running"},
                  left : SUBSET Slots, counted : SUBSET Slots]
  /\ resetting \in [at : {"idle", "re-read"}, slot : Slots \cup {NoRecipe}]
  /\ keyLoad \subseteq Keys
  /\ baseLoad \in [Tasks -> [on : BOOLEAN, left : SUBSET Bases]]
  /\ hiddenSeen \subseteq Hidden /\ fresh \subseteq Slots

(* A save from an editor puts into the slot hidden fields that the slot has *)
(* had while the save ran: never the editor's guess, never another slot's.  *)
SavesKeepTheHidden ==
  [][SaveWrites => slot'[save.key].hidden \in hiddenSeen]_recipeVars

(* Whoever reads recipes from a copy sees the client's: the recipe select   *)
(* once no preload task of it runs, and a client of the UI contract for as  *)
(* long as the fingerprint stands.                                          *)
ReadersShowTheBook ==
  /\ contract # NoRecipe => \A b \in Bases : contract[b] = book[b]
  /\ (\A t \in Tasks : baseLoad[t] = NotLoading)
       => \A b \in Bases : listed[b] = book[b]

(* A refresh that calls itself complete leaves in no slot a copy from       *)
(* before it: each was on the machine at some time since it began.          *)
CompleteMeansRead ==
  [][RefreshEnds(TRUE) => fresh = Slots]_recipeVars
=============================================================================
