---------------------------- MODULE MachineProofs ----------------------------
(***************************************************************************)
(* Nine components around one machine, for every value of their constants: *)
(* the copies of the recipes, a Nivona brew, the prompts that are          *)
(* confirmed, the entities that follow the machine's identity, the circuit *)
(* breaker of the repairs, the clock, the sentences of the events, the     *)
(* supervision of the link, and the frames that are made of notifications. *)
(* They share no variable; each part below has the inductive invariant of  *)
(* one component, the lemma that a step keeps it, and the theorems.        *)
(***************************************************************************)
EXTENDS
  RecipeBook, NivonaBrew, PromptConfirm, MachineIdentity, RepairBreaker,
  ClockSync, Narration, ReconnectSupervisor, StreamFramer,
  FiniteSetTheorems, WellFoundedInduction, TLAPS

-----------------------------------------------------------------------------
(* RecipeBook.  ReadersShowTheBook is not inductive: a preload task ends by *)
(* taking over the base recipes the client has, and keeps what is listed of *)
(* the others - which must be nothing.                                      *)

\* A client of the contract holds the client's copy.
ContractInv == contract # NoRecipe => contract = [b \in Bases |-> book[b]]

\* Nothing is listed that the client does not know.
ListedInv ==
  /\ book \in [Slots -> Recipe \cup {NoRecipe}]
  /\ listed \in [Bases -> Recipe \cup {NoRecipe}]
  /\ \A b \in Bases : book[b] = NoRecipe => listed[b] = NoRecipe

\* Only while a preload task runs is something else listed.
QuietInv ==
  (\A t \in Tasks : baseLoad[t] = NotLoading) => \A b \in Bases : listed[b] = book[b]

\* A task that has something left to read runs.
TasksInv ==
  /\ baseLoad \in [Tasks -> [on : BOOLEAN, left : SUBSET Bases]]
  /\ \A t \in Tasks : baseLoad[t].left # {} => baseLoad[t].on

\* What is about to be read is a slot, and the machine's slots hold recipes.
SlotsInv ==
  /\ slot \in [Slots -> Recipe] /\ \A s \in Slots : slot[s] \in Contents[s]
  /\ save \in [at : {"idle", "read", "write", "re-read"},
               key : Keys \cup {NoRecipe}, recipe : Recipe \cup {NoRecipe}]
  /\ save.at # "idle" => save.key \in Keys /\ save.recipe \in Contents[save.key]
  /\ resetting \in [at : {"idle", "re-read"}, slot : Slots \cup {NoRecipe}]
  /\ resetting.at # "idle" => resetting.slot \in Slots
  /\ keyLoad \subseteq Keys

RecipeIInv == ContractInv /\ ListedInv /\ QuietInv /\ TasksInv /\ SlotsInv
CopiesInv == ContractInv /\ ListedInv /\ QuietInv

-----------------------------------------------------------------------------
(* How the copies move together.                                            *)

\* Putting a recipe into the copy and into what is listed of it.
LEMMA AnnouncedKeeps ==
  ASSUME NEW s \in Slots, NEW recipe \in Recipe, CopiesInv, Announced(s, recipe),
         UNCHANGED baseLoad
  PROVE  CopiesInv'
<1>1. ContractInv'
  BY DEF Announced, Stored, ContractInv
<1>2. recipe # NoRecipe /\ Bases \subseteq Slots
  BY RecipeAssumption DEF Slots
<1>3. ListedInv'
  BY <1>2 DEF Announced, Stored, Put, CopiesInv, ListedInv
<1>4. QuietInv'
  BY <1>2 DEF Announced, Stored, Put, CopiesInv, ListedInv, QuietInv
<1> QED BY <1>1, <1>3, <1>4 DEF CopiesInv

\* The same for a DirectKey recipe, of which nobody keeps a further copy.
LEMMA PutKeeps ==
  ASSUME NEW s \in Slots, s \notin Bases, NEW recipe \in Recipe, CopiesInv,
         Put(s, recipe), UNCHANGED <<listed, baseLoad>>,
         contract' \in {contract, NoRecipe}
  PROVE  CopiesInv'
<1>1. \A b \in Bases : b \in Slots /\ book'[b] = book[b]
  BY DEF Put, CopiesInv, ListedInv, Slots
<1>2. ContractInv'
  BY <1>1 DEF CopiesInv, ContractInv
<1>3. ListedInv'
  BY <1>1 DEF Put, CopiesInv, ListedInv
<1>4. QuietInv'
  BY <1>1 DEF CopiesInv, QuietInv
<1> QED BY <1>2, <1>3, <1>4 DEF CopiesInv

LEMMA RewrittenKeeps ==
  ASSUME NEW s \in Slots, NEW recipe \in Recipe, CopiesInv, Rewritten(s, recipe),
         UNCHANGED baseLoad
  PROVE  CopiesInv'
<1>1. CASE s \in Bases
  BY <1>1, AnnouncedKeeps DEF Rewritten
<1>2. CASE s \notin Bases
  BY <1>2, PutKeeps DEF Rewritten
<1> QED BY <1>1, <1>2

LEMMA UnchangedKeeps ==
  ASSUME CopiesInv, UNCHANGED <<bookVars, baseLoad>>
  PROVE  CopiesInv'
BY DEF CopiesInv, ContractInv, ListedInv, QuietInv, bookVars

-----------------------------------------------------------------------------
(* The invariant is inductive.                                              *)

LEMMA RecipeInitIInv == RecipeInit => RecipeIInv
<1> SUFFICES ASSUME RecipeInit PROVE RecipeIInv OBVIOUS
<1>1. slot \in [Slots -> Recipe] /\ \A s \in Slots : slot[s] \in Contents[s]
  BY DEF RecipeInit
<1>2. CopiesInv
  BY DEF RecipeInit, CopiesInv, ContractInv, ListedInv, QuietInv, Slots
<1>3. TasksInv
  BY DEF RecipeInit, TasksInv, NotLoading
<1>4. SlotsInv
  BY <1>1 DEF RecipeInit, SlotsInv, NoSave, NoRefresh, NoReset
<1> QED BY <1>2, <1>3, <1>4 DEF RecipeIInv, CopiesInv

LEMMA SlotsStep == SlotsInv /\ [RecipeNext]_recipeVars => SlotsInv'
<1> SUFFICES ASSUME SlotsInv, [RecipeNext]_recipeVars PROVE SlotsInv' OBVIOUS
<1> USE DEF SlotsInv
<1>1. \A s \in Slots : Contents[s] \subseteq Recipe
  BY RecipeAssumption
<1>2. ASSUME NEW s \in Slots, NEW recipe \in Contents[s], Changes(s, recipe)
      PROVE  slot' \in [Slots -> Recipe] /\ \A r \in Slots : slot'[r] \in Contents[r]
  BY <1>1, <1>2 DEF Changes
<1>3. Bases \subseteq Slots /\ Keys \subseteq Slots
  BY DEF Slots
<1>4. CASE RecipeLinkUp
  BY <1>4 DEF RecipeLinkUp
<1>5. CASE RecipeLinkDown \/ FetchesContract
  BY <1>5 DEF RecipeLinkDown, FetchesContract, bookVars, taskVars
<1>6. ASSUME NEW s \in Slots, PersonEdits(s) PROVE SlotsInv'
  BY <1>2, <1>6 DEF PersonEdits, taskVars
<1>7. ASSUME NEW s \in Slots, ResetStarts(s) PROVE SlotsInv'
  BY <1>2, <1>7 DEF ResetStarts
<1>8. ASSUME NEW s \in Slots, RefreshReads(s) PROVE SlotsInv'
  BY <1>8 DEF RefreshReads
<1>9. ASSUME NEW s \in Slots, LoadsKey(s) PROVE SlotsInv'
  BY <1>9 DEF LoadsKey
<1>10. ASSUME NEW b \in Bases, SelectsBase(b) PROVE SlotsInv'
  BY <1>10 DEF SelectsBase, taskVars
<1>11. ASSUME NEW b \in Bases, NEW t \in Tasks, LoadsBase(t, b) PROVE SlotsInv'
  BY <1>11 DEF LoadsBase
<1>12. ASSUME NEW t \in Tasks, ListsBases(t) PROVE SlotsInv'
  BY <1>12 DEF ListsBases
<1>13. ASSUME NEW k \in Keys, NEW recipe \in Contents[k], SaveStarts(k, recipe)
       PROVE  SlotsInv'
  BY <1>1, <1>3, <1>13 DEF SaveStarts
<1>14. CASE SaveReads
  <2>1. CASE SaveEnds /\ UNCHANGED <<slot, resetting, keyLoad>>
    BY <2>1 DEF SaveEnds, NoSave
  <2>2. CASE save' = [save EXCEPT !.at = "write",
                        !.recipe = Preserved(@, slot[save.key])]
             /\ UNCHANGED <<slot, resetting, keyLoad>>
    <3>1. save.at = "read"
      BY <1>14 DEF SaveReads
    <3>2. save.key \in Keys /\ save.recipe \in Contents[save.key]
          /\ slot[save.key] \in Contents[save.key]
      BY <3>1, <1>3
    <3>3. Preserved(save.recipe, slot[save.key]) \in Contents[save.key]
      BY <3>2, RecipeAssumption DEF Preserved
    <3>4. Preserved(save.recipe, slot[save.key]) \in Recipe
      BY <3>2, <3>3, <1>1, <1>3
    <3> QED BY <2>2, <3>1, <3>2, <3>3, <3>4
  <2> QED BY <1>14, <2>1, <2>2 DEF SaveReads
<1>15. CASE SaveWrites
  BY <1>2, <1>3, <1>15 DEF SaveWrites, SaveEnds, NoSave
<1>16. CASE SaveRereads
  BY <1>16 DEF SaveRereads, SaveEnds, NoSave
<1>17. CASE RefreshIsAsked
  BY <1>17 DEF RefreshIsAsked
<1>18. CASE RefreshRuns
  BY <1>18 DEF RefreshRuns, NoRefresh
<1>19. ASSUME NEW complete \in BOOLEAN, RefreshEnds(complete) PROVE SlotsInv'
  BY <1>19 DEF RefreshEnds, NoRefresh
<1>20. CASE ResetRereads
  BY <1>20 DEF ResetRereads, NoReset
<1>21. CASE UNCHANGED recipeVars
  BY <1>21 DEF recipeVars, taskVars
<1> QED
  BY <1>4, <1>5, <1>6, <1>7, <1>8, <1>9, <1>10, <1>11, <1>12, <1>13, <1>14, <1>15,
     <1>16, <1>17, <1>18, <1>19, <1>20, <1>21 DEF RecipeNext

LEMMA TasksStep == TasksInv /\ [RecipeNext]_recipeVars => TasksInv'
<1> SUFFICES ASSUME TasksInv, [RecipeNext]_recipeVars PROVE TasksInv' OBVIOUS
<1> USE DEF TasksInv
<1>1. CASE RecipeLinkUp
  BY <1>1 DEF RecipeLinkUp
<1>2. ASSUME NEW b \in Bases, NEW t \in Tasks, LoadsBase(t, b) PROVE TasksInv'
  BY <1>2 DEF LoadsBase
<1>3. ASSUME NEW t \in Tasks, ListsBases(t) PROVE TasksInv'
  BY <1>3 DEF ListsBases, NotLoading
<1>4. CASE UNCHANGED baseLoad
  BY <1>4
<1> QED
  BY <1>1, <1>2, <1>3, <1>4
  DEF RecipeNext, recipeVars, taskVars, RecipeLinkDown, FetchesContract, PersonEdits,
      ResetStarts, RefreshReads, LoadsKey, SelectsBase, SaveStarts, SaveReads,
      SaveWrites, SaveRereads, RefreshIsAsked, RefreshRuns, RefreshEnds, ResetRereads

LEMMA CopiesStep == RecipeIInv /\ [RecipeNext]_recipeVars => CopiesInv'
<1> SUFFICES ASSUME CopiesInv, TasksInv, SlotsInv, [RecipeNext]_recipeVars
             PROVE  CopiesInv'
  BY DEF RecipeIInv, CopiesInv
<1>1. \A s \in Slots : slot[s] \in Recipe
  BY DEF SlotsInv
<1>2. Bases \subseteq Slots /\ Keys \subseteq Slots /\ Bases \cap Keys = {}
  BY SlotsAssumption DEF Slots
<1>3. CASE RecipeLinkUp
  <2>1. UNCHANGED bookVars
    BY <1>3 DEF RecipeLinkUp
  <2>2. \E t \in Tasks : baseLoad'[t] # NotLoading
    BY <1>3 DEF RecipeLinkUp, TasksInv, NotLoading
  <2> QED BY <2>1, <2>2 DEF CopiesInv, ContractInv, ListedInv, QuietInv, bookVars
<1>4. CASE FetchesContract
  BY <1>4 DEF FetchesContract, taskVars, CopiesInv, ContractInv, ListedInv, QuietInv
<1>5. ASSUME NEW s \in Keys, LoadsKey(s) PROVE CopiesInv'
  <2>1. CASE Stored(s, slot[s])
    BY <2>1, <1>1, <1>2, <1>5, PutKeeps DEF LoadsKey, Stored
  <2>2. CASE UNCHANGED <<book, contract>>
    BY <2>2, <1>5, UnchangedKeeps DEF LoadsKey, bookVars
  <2> QED BY <1>5, <2>1, <2>2 DEF LoadsKey
<1>6. ASSUME NEW b \in Bases, NEW t \in Tasks, LoadsBase(t, b) PROVE CopiesInv'
  <2>1. baseLoad'[t] # NotLoading
    BY <1>6 DEF LoadsBase, TasksInv, NotLoading
  <2>2. CASE Stored(b, slot[b])
    BY <2>1, <2>2, <1>1, <1>2, <1>6, RecipeAssumption
    DEF LoadsBase, Stored, Put, CopiesInv, ContractInv, ListedInv, QuietInv
  <2>3. CASE UNCHANGED <<book, contract>>
    BY <2>1, <2>3, <1>6 DEF LoadsBase, CopiesInv, ContractInv, ListedInv, QuietInv
  <2> QED BY <1>6, <2>2, <2>3 DEF LoadsBase
<1>7. ASSUME NEW t \in Tasks, ListsBases(t) PROVE CopiesInv'
  <2>1. \A b \in Bases : listed'[b] = book[b]
    BY <1>2, <1>7 DEF ListsBases, CopiesInv, ListedInv
  <2>2. listed' \in [Bases -> Recipe \cup {NoRecipe}]
    BY <1>2, <1>7 DEF ListsBases, CopiesInv, ListedInv
  <2> QED
    BY <1>7, <2>1, <2>2 DEF ListsBases, CopiesInv, ContractInv, ListedInv, QuietInv
<1>8. ASSUME NEW b \in Bases, SelectsBase(b) PROVE CopiesInv'
  <2>1. CASE Announced(b, slot[b])
    BY <2>1, <1>1, <1>2, <1>8, AnnouncedKeeps DEF SelectsBase, taskVars
  <2>2. CASE /\ book[b] # NoRecipe /\ listed' = [listed EXCEPT ![b] = book[b]]
             /\ UNCHANGED <<book, contract>>
    BY <2>2, <1>2, <1>8
    DEF SelectsBase, taskVars, CopiesInv, ContractInv, ListedInv, QuietInv
  <2> QED BY <1>8, <2>1, <2>2 DEF SelectsBase
<1>9. CASE SaveRereads
  <2>1. save.key \in Slots
    BY <1>2, <1>9 DEF SaveRereads, SlotsInv
  <2>2. CASE Rewritten(save.key, slot[save.key])
    BY <2>1, <2>2, <1>1, <1>9, RewrittenKeeps DEF SaveRereads
  <2>3. CASE UNCHANGED bookVars
    BY <2>3, <1>9, UnchangedKeeps DEF SaveRereads
  <2> QED BY <1>9, <2>2, <2>3 DEF SaveRereads
<1>10. ASSUME NEW s \in Slots, RefreshReads(s) PROVE CopiesInv'
  <2>1. CASE Announced(s, slot[s])
    BY <2>1, <1>1, <1>10, AnnouncedKeeps DEF RefreshReads
  <2>2. CASE UNCHANGED bookVars
    BY <2>2, <1>10, UnchangedKeeps DEF RefreshReads
  <2> QED BY <1>10, <2>1, <2>2 DEF RefreshReads
<1>11. CASE ResetRereads
  <2>1. resetting.slot \in Slots
    BY <1>11 DEF ResetRereads, SlotsInv
  <2>2. CASE Rewritten(resetting.slot, slot[resetting.slot])
    BY <2>1, <2>2, <1>1, <1>11, RewrittenKeeps DEF ResetRereads
  <2>3. CASE UNCHANGED bookVars
    BY <2>3, <1>11, UnchangedKeeps DEF ResetRereads
  <2> QED BY <1>11, <2>2, <2>3 DEF ResetRereads
<1>12. CASE UNCHANGED <<bookVars, baseLoad>>
  BY <1>12, UnchangedKeeps
<1>13. keyLoad \subseteq Keys
  BY DEF SlotsInv
<1> QED
  BY <1>3, <1>4, <1>5, <1>6, <1>7, <1>8, <1>9, <1>10, <1>11, <1>12, <1>13
  DEF RecipeNext, recipeVars, taskVars, RecipeLinkDown, PersonEdits, ResetStarts,
      LoadsKey, SaveStarts, SaveReads, SaveWrites, RefreshIsAsked, RefreshRuns,
      RefreshEnds

(* Every reachable state of the recipe copies satisfies the invariant.      *)
THEOREM RecipeInvariance == RecipeSpec => []RecipeIInv
<1>1. RecipeIInv /\ [RecipeNext]_recipeVars => RecipeIInv'
  BY SlotsStep, TasksStep, CopiesStep DEF RecipeIInv, CopiesInv
<1> QED BY RecipeInitIInv, <1>1, PTL DEF RecipeSpec

(* For any slots and contents, and however many preload tasks overlap,      *)
(* whoever reads recipes from a copy sees the client's.                     *)
THEOREM Readers == RecipeSpec => []ReadersShowTheBook
<1>1. RecipeIInv => ReadersShowTheBook
  BY DEF RecipeIInv, ContractInv, QuietInv, ReadersShowTheBook
<1> QED BY RecipeInvariance, <1>1, PTL

-----------------------------------------------------------------------------
(* NivonaBrew.                                                              *)

Overrides == (UNION {[fields -> Amounts] : fields \in SUBSET Fields}) \cup {<<>>}

Press == [at : {"idle", "announce", "fields", "start"}, drink : Drinks \cup {None},
          overrides : Overrides, left : SUBSET Fields, acked : SUBSET Fields]

NivonaTypes ==
  /\ sliders \in [Fields -> Slider]
  /\ register \in [type : Drinks \cup {None}, field : [Fields -> Amounts]]
  /\ press \in [Presses -> Press]
  /\ \A p \in Presses : \A f \in press[p].left :
       f \in DOMAIN press[p].overrides /\ press[p].overrides[f] \in Amounts

\* Whoever brews holds the lock.
BrewLockInv == \A p \in Presses : press[p] # NoPress => brewLock = p

\* What was ACKed stands in the temporary recipe.
AckedInv ==
  \A p \in Presses : \A f \in press[p].acked : register.field[f] = press[p].overrides[f]

NivonaIInv == NivonaTypes /\ BrewLockInv /\ AckedInv

LEMMA NoPressType == NoPress \in Press /\ NoPress.left = {} /\ NoPress.acked = {}
BY DEF NoPress, Press, Overrides

LEMMA CollectedType ==
  ASSUME sliders \in [Fields -> Slider]
  PROVE  /\ Collected \in Overrides /\ DOMAIN Collected \subseteq Fields
         /\ \A f \in DOMAIN Collected : Collected[f] \in Amounts
<1> DEFINE seen == {f \in Fields : sliders[f].available}
<1>1. CASE \E f \in seen : sliders[f].set
  <2>1. Collected = [f \in seen |-> sliders[f].value]
    BY <1>1 DEF Collected
  <2>2. Collected \in [seen -> Amounts]
    BY <2>1 DEF Slider
  <2> QED BY <2>1, <2>2 DEF Overrides
<1>2. CASE ~ \E f \in seen : sliders[f].set
  <2>1. Collected = <<>>
    BY <1>2 DEF Collected
  <2>2. DOMAIN <<>> = {}
    OBVIOUS
  <2> QED BY <2>1, <2>2 DEF Overrides
<1> QED BY <1>1, <1>2

LEMMA NivonaInitIInv == NivonaInit => NivonaIInv
<1> SUFFICES ASSUME NivonaInit PROVE NivonaIInv OBVIOUS
<1>1. sliders \in [Fields -> Slider]
  BY NivonaAssumption DEF NivonaInit, Slider, Unset
<1> QED
  BY <1>1, NoPressType
  DEF NivonaInit, NivonaIInv, NivonaTypes, BrewLockInv, AckedInv

\* A brew that ends leaves nothing behind.
LEMMA EndKeeps ==
  ASSUME NEW p \in Presses, NivonaIInv, press[p] # NoPress,
         press' = [press EXCEPT ![p] = NoPress],
         brewLock' = (IF brewLock = p THEN None ELSE brewLock),
         UNCHANGED <<sliders, register>>
  PROVE  NivonaIInv'
<1>1. NivonaTypes'
  BY NoPressType DEF NivonaIInv, NivonaTypes
<1>2. \A q \in Presses \ {p} : press'[q] = NoPress
  BY DEF NivonaIInv, NivonaTypes, BrewLockInv
<1>3. press'[p] = NoPress
  BY DEF NivonaIInv, NivonaTypes
<1> QED BY <1>1, <1>2, <1>3, NoPressType DEF NivonaIInv, BrewLockInv, AckedInv

LEMMA NivonaStep == NivonaIInv /\ [NivonaNext]_nivonaVars => NivonaIInv'
<1> SUFFICES ASSUME NivonaIInv, [NivonaNext]_nivonaVars PROVE NivonaIInv' OBVIOUS
<1> USE DEF NivonaIInv, NivonaTypes, BrewLockInv, AckedInv
<1>1. CASE ResetsSliders
  <2>1. Unset \in Slider
    BY NivonaAssumption DEF Unset, Slider
  <2> QED BY <1>1, <2>1 DEF ResetsSliders
<1>2. ASSUME NEW f \in Fields, TogglesSlider(f) PROVE NivonaIInv'
  BY <1>2 DEF TogglesSlider, Slider
<1>3. ASSUME NEW f \in Fields, NEW amount \in Amounts, SetsSlider(f, amount)
      PROVE  NivonaIInv'
  BY <1>3, ZenonT(30) DEF SetsSlider, Slider
<1>4. ASSUME NEW p \in Presses, NEW drink \in Drinks, PressesBrew(p, drink)
      PROVE  NivonaIInv'
  <2> DEFINE new == [NoPress EXCEPT !.at = IF Collected = <<>> THEN "start" ELSE "announce",
                       !.drink = drink, !.overrides = Collected, !.left = DOMAIN Collected]
  <2>1. /\ new \in Press /\ new.acked = {}
        /\ new.left = DOMAIN Collected /\ new.overrides = Collected
    BY CollectedType, NoPressType DEF NoPress, Press
  <2>2. \A q \in Presses \ {p} : press[q] = NoPress
    BY <1>4, NivonaAssumption DEF PressesBrew, LockIsFree
  <2> HIDE DEF new
  <2>3. press' = [press EXCEPT ![p] = new]
    BY <1>4 DEF PressesBrew, new
  <2>4. press'[p] = new /\ \A q \in Presses \ {p} : press'[q] = NoPress
    BY <2>2, <2>3
  <2>5. NivonaTypes'
    BY <1>4, <2>1, <2>3, <2>4, CollectedType, NoPressType DEF PressesBrew
  <2> QED BY <1>4, <2>1, <2>4, <2>5, NoPressType DEF PressesBrew
<1>5. ASSUME NEW p \in Presses, Announces(p) PROVE NivonaIInv'
  <2>1. press[p] # NoPress
    BY <1>5 DEF Announces, NoPress
  <2> QED BY <1>5, <2>1 DEF Announces, Press
<1>6. ASSUME NEW p \in Presses, NEW f \in Fields, WritesField(p, f) PROVE NivonaIInv'
  <2>1. press[p] # NoPress
    BY <1>6 DEF WritesField, NoPress
  <2>2. \A q \in Presses \ {p} : press[q].acked = {}
    BY <2>1, NoPressType
  <2>3. f \in DOMAIN press[p].overrides /\ press[p].overrides[f] \in Amounts
    BY <1>6 DEF WritesField
  <2>4. PICK landed \in BOOLEAN, acked \in BOOLEAN :
          /\ acked => landed
          /\ register' = IF landed
                         THEN [register EXCEPT !.field[f] = press[p].overrides[f]] ELSE register
          /\ press' = [press EXCEPT ![p].left = @ \ {f},
                                    ![p].acked = IF acked THEN @ \cup {f} ELSE @]
    BY <1>6 DEF WritesField
  <2> DEFINE new == [press[p] EXCEPT !.left = @ \ {f},
                                     !.acked = IF acked THEN @ \cup {f} ELSE @]
  <2>a. /\ new \in Press /\ new.overrides = press[p].overrides
        /\ new.left = press[p].left \ {f}
        /\ new.acked = IF acked THEN press[p].acked \cup {f} ELSE press[p].acked
    <3>1. press[p] \in Press
      OBVIOUS
    <3> QED BY <3>1 DEF Press
  <2>b. press' = [press EXCEPT ![p] = new]
    BY <2>4
  <2> HIDE DEF new
  <2>5. /\ press' \in [Presses -> Press]
        /\ \A q \in Presses \ {p} : press'[q] = press[q]
        /\ press'[p].overrides = press[p].overrides
        /\ press'[p].left = press[p].left \ {f}
        /\ press'[p].acked = IF acked THEN press[p].acked \cup {f} ELSE press[p].acked
    BY <2>a, <2>b
  <2>6. /\ register' \in [type : Drinks \cup {None}, field : [Fields -> Amounts]]
        /\ \A g \in Fields \ {f} : register'.field[g] = register.field[g]
        /\ landed => register'.field[f] = press[p].overrides[f]
        /\ ~ landed => register' = register
    BY <2>3, <2>4
  <2>7. NivonaTypes'
    BY <1>6, <2>3, <2>5, <2>6 DEF WritesField
  <2>8. BrewLockInv'
    BY <1>6, <2>1, <2>5 DEF WritesField
  <2>9. AckedInv'
    BY <2>2, <2>4, <2>5, <2>6 DEF Press
  <2> QED BY <2>7, <2>8, <2>9
<1>7. ASSUME NEW p \in Presses, FieldsAreWritten(p) PROVE NivonaIInv'
  <2>1. press[p] # NoPress
    BY <1>7 DEF FieldsAreWritten, NoPress
  <2> QED BY <1>7, <2>1 DEF FieldsAreWritten, Press
<1>8. ASSUME NEW p \in Presses, StartsNivona(p) \/ FailsNivona(p) PROVE NivonaIInv'
  <2>1. press[p] # NoPress
    BY <1>8 DEF StartsNivona, FailsNivona, NoPress
  <2> QED BY <1>8, <2>1, EndKeeps DEF StartsNivona, FailsNivona
<1>9. CASE UNCHANGED <<sliders, register, press, brewLock>>
  BY <1>9
<1> QED
  BY <1>1, <1>2, <1>3, <1>4, <1>5, <1>6, <1>7, <1>8, <1>9
  DEF NivonaNext, nivonaVars, NivonaLinkChanges, ReadsMyCoffee, ArmsMyCoffee, BrewsMyCoffee

(* Every reachable state satisfies NivonaIInv: one press at a time has the  *)
(* temporary recipe.                                                        *)
THEOREM NivonaInvariance == NivonaSpec => []NivonaIInv
BY NivonaInitIInv, NivonaStep, PTL DEF NivonaSpec

(* With any fields, drinks and number of overlapping presses, a start finds *)
(* every ACKed field of its own brew as it was written.                     *)
THEOREM FieldsStand == NivonaSpec => StartsFindTheirFields
<1>1. NivonaIInv /\ [NivonaNext]_nivonaVars
        => [\A p \in Presses : StartsNivona(p) =>
              \A f \in press[p].acked : register.field[f] = press[p].overrides[f]]_nivonaVars
  BY DEF NivonaIInv, AckedInv
<1> QED BY NivonaInvariance, <1>1, PTL DEF NivonaSpec, StartsFindTheirFields

-----------------------------------------------------------------------------
(* PromptConfirm.                                                           *)

(* Where the confirmed prompt stands to what the client shows.              *)
PromptIInv ==
  /\ status \in Prompts \cup {NoPrompt}
  /\ prompt \in Prompts \cup {NoPrompt}
  /\ AutoConfirm => confirmed = IF status \in Soft THEN status ELSE NoPrompt
  /\ previous \in {NotSeen, status}
  /\ tried \in {0, 1} /\ (status \notin Soft => tried = 0)
  /\ tasks \in [Kinds -> Nat]

LEMMA PromptInitIInv == PromptInit => PromptIInv
BY PromptAssumption DEF PromptInit, PromptIInv, Kinds, Prompts

LEMMA FrameKeeps == PromptIInv /\ FrameArrives => PromptIInv'
<1> SUFFICES ASSUME PromptIInv, FrameArrives PROVE PromptIInv' OBVIOUS
<1>1. NoPrompt \notin Soft
  BY PromptAssumption DEF Prompts
<1>2. Confirms => prompt # status
  BY <1>1 DEF Confirms, PromptIInv
<1>3. tried' = (IF prompt = status THEN tried ELSE 0) + (IF Confirms THEN 1 ELSE 0)
      /\ status' = prompt /\ previous' = prompt /\ prompt' = prompt
      /\ confirmed' = Latched
  BY DEF FrameArrives
<1>4. tried' \in {0, 1} /\ (status' \notin Soft => tried' = 0)
  BY <1>2, <1>3 DEF PromptIInv, Confirms
<1>5. AutoConfirm => confirmed' = IF status' \in Soft THEN status' ELSE NoPrompt
  BY <1>3 DEF Latched
<1>6. tasks' \in [Kinds -> Nat]
  BY DEF FrameArrives, PromptIInv, Kinds
<1> QED BY <1>3, <1>4, <1>5, <1>6 DEF PromptIInv

LEMMA PromptStep == PromptIInv /\ [PromptNext]_promptVars => PromptIInv'
<1> SUFFICES ASSUME PromptIInv, [PromptNext]_promptVars PROVE PromptIInv' OBVIOUS
<1>1. CASE PromptChanges
  BY <1>1 DEF PromptChanges, PromptIInv, seenVars
<1>2. CASE PromptLinkDown \/ PromptLinkUp
  BY <1>2 DEF PromptLinkDown, PromptLinkUp, PromptIInv, seenVars
<1>3. CASE FrameArrives
  BY <1>3, FrameKeeps
<1>4. CASE ButtonPressed
  BY <1>4 DEF ButtonPressed, PromptIInv, seenVars, Kinds
<1>5. ASSUME NEW kind \in Kinds, SendsConfirm(kind) PROVE PromptIInv'
  <2>1. tasks' \in [Kinds -> Nat]
    BY <1>5 DEF SendsConfirm, PromptIInv
  <2> QED BY <1>5, <2>1 DEF SendsConfirm, PromptIInv, seenVars
<1>6. CASE UNCHANGED promptVars
  BY <1>6 DEF promptVars, PromptIInv, seenVars
<1> QED BY <1>1, <1>2, <1>3, <1>4, <1>5, <1>6 DEF PromptNext

(* Every reachable state satisfies PromptIInv: the prompt that is marked as *)
(* confirmed is the soft one the client shows.                              *)
THEOREM PromptInvariance == PromptSpec => []PromptIInv
BY PromptInitIInv, PromptStep, PTL DEF PromptSpec

(* However prompts change and links come and go, a prompt is confirmed      *)
(* once at most while the frames show it.                                   *)
THEOREM ConfirmedOnce == PromptSpec => []OncePerAppearance
<1>1. PromptIInv => OncePerAppearance
  BY DEF PromptIInv, OncePerAppearance
<1> QED BY PromptInvariance, <1>1, PTL

(* A prompt that is announced as confirmed is.                              *)
THEOREM Promised == PromptSpec => PromiseIsKept
<1>1. PromptIInv /\ [PromptNext]_promptVars
        => [FrameArrives /\ Raises /\ promised'.auto
              => tasks'["auto"] = tasks["auto"] + 1]_promptVars
  <2> SUFFICES ASSUME PromptIInv, FrameArrives, Raises, promised'.auto
               PROVE  tasks'["auto"] = tasks["auto"] + 1
    OBVIOUS
  <2>1. prompt \in Soft /\ AutoConfirm /\ prompt # previous /\ previous # NotSeen
    BY DEF FrameArrives, Raises
  <2>2. NoPrompt \notin Soft
    BY PromptAssumption DEF Prompts
  <2>3. Confirms
    BY <2>1, <2>2 DEF PromptIInv, Confirms
  <2> QED BY <2>3 DEF FrameArrives, PromptIInv, Kinds
<1> QED BY PromptInvariance, <1>1, PTL DEF PromptSpec, PromiseIsKept

-----------------------------------------------------------------------------
(* MachineIdentity.                                                         *)

\* Capabilities are of the family the user has chosen, if one is.
Fits(c) == override # Unknown /\ c # Unknown => c.family = override

IdentityIInv ==
  /\ slotEntities \in [SlotPlatforms -> SUBSET Nat]
  /\ EntitiesFollowTheIdentity
  /\ Fits(caps)

LEMMA IdentityFits ==
  ASSUME NEW known \in BOOLEAN, NEW hinted \in BOOLEAN
  PROVE  Fits(FromIdentity(known, hinted))
BY DEF Fits, FromIdentity, Agrees, ModelCaps, FamilyCaps

LEMMA SlotsAreNumbers == \A c : SlotsOf(c) \in SUBSET Nat
BY DEF SlotsOf

LEMMA EarlyFits == Fits(caps) => Fits(EarlyCaps)
BY IdentityFits DEF EarlyCaps, ScannerCaps

\* Entities that are made of capabilities that fit are of the chosen family.
LEMMA MadeFits ==
  ASSUME NEW c, Fits(c), override # Unknown => chosen \subseteq {override}
  PROVE  override # Unknown => Made(c) \subseteq {override}
BY DEF Fits, Made

LEMMA IdentityStep == IdentityIInv /\ [IdentityNext]_identityVars => IdentityIInv'
<1> SUFFICES ASSUME IdentityIInv, [IdentityNext]_identityVars PROVE IdentityIInv' OBVIOUS
<1> USE DEF IdentityIInv, EntitiesFollowTheIdentity
<1>1. ASSUME NEW p \in SlotPlatforms, SetsUpSlots(p) PROVE IdentityIInv'
  <2>1. identity = "up" => SlotsOf(caps) \subseteq slotEntities'[p]
    BY <1>1 DEF SetsUpSlots, EarlyCaps, SlotsOf
  <2>2. \A q \in SlotPlatforms \ {p} :
          slotEntities'[q] = slotEntities[q] /\ (q \in prepared' => q \in prepared)
    BY <1>1 DEF SetsUpSlots
  <2>3. slotEntities' \in [SlotPlatforms -> SUBSET Nat]
    BY <1>1, SlotsAreNumbers DEF SetsUpSlots
  <2>4. UNCHANGED <<identity, caps, override>>
    BY <1>1 DEF SetsUpSlots, machineVars
  <2>5. override # Unknown => chosen' \subseteq {override}
    BY <1>1, EarlyFits, MadeFits DEF SetsUpSlots
  <2> QED BY <2>1, <2>2, <2>3, <2>4, <2>5 DEF Fits, SlotsOf
<1>2. ASSUME NEW p \in SettingPlatforms, SetsUpSettings(p) PROVE IdentityIInv'
  <2>1. UNCHANGED <<identity, caps, override, slotEntities>>
    BY <1>2 DEF SetsUpSettings, machineVars
  <2>2. \A q \in SlotPlatforms : q \in prepared' => q \in prepared
    BY <1>2 DEF SetsUpSettings, SlotPlatforms, SettingPlatforms
  <2>3. override # Unknown => chosen' \subseteq {override}
    BY <1>2, EarlyFits, MadeFits DEF SetsUpSettings
  <2> QED BY <2>1, <2>2, <2>3 DEF Fits, SlotsOf
<1>3. CASE ReadsDis
  <2>1. identity' # "up" /\ UNCHANGED <<entityVars, override>>
    BY <1>3 DEF ReadsDis, Identifies, machineVars
  <2>2. Fits(caps)'
    <3>1. caps' = ClientCaps(serial, dis') /\ override' = override
      BY <1>3 DEF ReadsDis, machineVars
    <3>2. Fits(ClientCaps(serial, dis'))
      BY IdentityFits DEF ClientCaps
    <3> QED BY <3>1, <3>2 DEF Fits
  <2> QED BY <2>1, <2>2 DEF entityVars
<1>4. CASE TellsPlatforms
  <2>1. UNCHANGED <<caps, override, prepared>>
    BY <1>4 DEF TellsPlatforms, machineVars
  <2>2. \A p \in SlotPlatforms : slotEntities'[p] = slotEntities[p] \cup Missing(p, caps)
    BY <1>4 DEF TellsPlatforms
  <2>3. \A p \in SlotPlatforms \cap prepared : SlotsOf(caps) \subseteq slotEntities'[p]
    BY <2>2 DEF Missing
  <2>4. slotEntities' \in [SlotPlatforms -> SUBSET Nat]
    BY <1>4, SlotsAreNumbers DEF TellsPlatforms, Missing
  <2>5. override # Unknown => chosen' \subseteq {override}
    BY <1>4, MadeFits DEF TellsPlatforms
  <2> QED BY <2>1, <2>3, <2>4, <2>5 DEF Fits, SlotsOf
<1>5. CASE IdentityLost \/ ReadsSerial \/ BeginsConnect
  BY <1>5 DEF IdentityLost, ReadsSerial, BeginsConnect, Identifies, entityVars,
              machineVars, Fits
<1>6. CASE UNCHANGED <<identity, caps, override, entityVars>>
  BY <1>6 DEF entityVars, Fits, SlotsOf
<1> QED
  BY <1>1, <1>2, <1>3, <1>4, <1>5, <1>6
  DEF IdentityNext, identityVars, machineVars, AdvertChanges, DeviceChanges

(* For any models and tables: the slots of the machine have their entities, *)
(* and none was made for a family that was not chosen.                      *)
THEOREM EntitiesFollow == IdentitySpec => []EntitiesFollowTheIdentity
<1>1. IdentityInit => IdentityIInv
  BY DEF IdentityInit, IdentityIInv, EntitiesFollowTheIdentity, Fits
<1>2. IdentityIInv => EntitiesFollowTheIdentity
  BY DEF IdentityIInv
<1> QED BY IdentityStep, <1>1, <1>2, PTL DEF IdentitySpec

-----------------------------------------------------------------------------
(* RepairBreaker.  ReloadsAreRationed is about all the repairs there were,  *)
(* and the breaker counts those it has not forgotten: they are the last     *)
(* ones, and an hour has passed over all the others.                        *)

\* The times of events, as they were put down.
Chronicle(times, end) ==
  /\ times \in Seq(Nat)
  /\ \A i \in DOMAIN times : times[i] <= end
  /\ \A i, j \in DOMAIN times : i <= j => times[i] <= times[j]

\* left is what times has after its first n entries.
Without(times, n, left) ==
  /\ left \in Seq(Nat) /\ Len(left) = Len(times) - n
  /\ \A i \in DOMAIN left : left[i] = times[n + i]

\* The breaker has forgotten nothing an hour has seen.
Remembered(times, left, end) ==
  \E n \in 0 .. Len(times) :
    Without(times, n, left) /\ \A i \in 1 .. n : end - times[i] >= Hour

RepairsInv ==
  /\ time \in Nat
  /\ repaired \in [Machines -> Seq(Nat)] /\ reloads \in [Machines -> Seq(Nat)]
  /\ \A m \in Machines :
       Chronicle(repaired[m], time) /\ Remembered(repaired[m], reloads[m], time)

BreakerIInv == RepairsInv /\ ReloadsAreRationed

\* A set of natural numbers that is not empty has a least one.
LEMMA LeastNumber ==
  ASSUME NEW T \in SUBSET Nat, T # {}
  PROVE  \E x \in T : \A y \in T : x <= y
<1> DEFINE R == {ss \in Nat \X Nat : ss[1] < ss[2]}
<1>1. IsWellFoundedOn(R, Nat)
  BY NatLessThanWellFounded DEF OpToRel
<1>2. \A x, y \in Nat : <<y, x>> \in R <=> y < x
  OBVIOUS
<1> HIDE DEF R
<1>3. \E x \in T : \A y \in T : ~ (<<y, x>> \in R)
  BY <1>1, WFMin
<1>4. PICK x \in T : \A y \in T : ~ (<<y, x>> \in R)
  BY <1>3
<1>5. \A y \in T : ~ (y < x)
  BY <1>2, <1>4
<1> QED BY <1>5

\* Of times in their order the window keeps the last ones.
LEMMA WindowIsTheEnd ==
  ASSUME NEW times \in Seq(Nat), NEW window \in Nat, time \in Nat, Chronicle(times, time)
  PROVE  \E n \in 0 .. Len(times) :
           /\ Without(times, n, InWindow(times, window))
           /\ \A i \in 1 .. n : time - times[i] >= window
<1> DEFINE L == Len(times)
           kept == {i \in DOMAIN times : time - times[i] < window}
           Rank(i) == Cardinality({j \in kept : j <= i})
<1>1. \E n \in 0 .. L : kept = n + 1 .. L
  <2>1. CASE kept = {}
    BY <2>1, L \in 0 .. L, kept = L + 1 .. L
  <2>2. CASE kept # {}
    <3>1. PICK x \in kept : \A y \in kept : x <= y
      BY <2>2, LeastNumber, kept \in SUBSET Nat
    <3>2. \A i \in x .. L : i \in kept
      BY <3>1 DEF Chronicle
    <3>3. kept = (x - 1) + 1 .. L
      BY <3>1, <3>2
    <3> QED BY <3>1, <3>3, x - 1 \in 0 .. L
  <2> QED BY <2>1, <2>2
<1>2. PICK n \in 0 .. L : kept = n + 1 .. L
  BY <1>1
<1>3. ASSUME NEW i \in n .. L PROVE Cardinality(n + 1 .. i) = i - n
  <2>1. n + 1 \in Int /\ i \in Int /\ n <= i
    OBVIOUS
  <2>2. Cardinality(n + 1 .. i) = IF n + 1 > i THEN 0 ELSE i - (n + 1) + 1
    BY ONLY <2>1, FS_Interval
  <2> QED BY <2>1, <2>2
<1>4. ASSUME NEW i \in n + 1 .. L PROVE Rank(i) = i - n
  <2>1. {j \in kept : j <= i} = n + 1 .. i
    BY <1>2
  <2>2. Cardinality(n + 1 .. i) = i - n
    BY <1>3, i \in n .. L
  <2> QED BY <2>1, <2>2
<1>5. InWindow(times, window) = [k \in 1 .. L - n |-> times[CHOOSE i \in kept : Rank(i) = k]]
  <2>1. Cardinality(kept) = L - n
    BY ONLY <1>2, <1>3, n \in 0 .. L, L \in Nat, L \in n .. L
  <2> QED BY <2>1 DEF InWindow
<1>6. \A i \in 1 .. n : time - times[i] >= window
  BY <1>2
<1> HIDE DEF Rank, kept
<1>7. ASSUME NEW k \in 1 .. L - n PROVE (CHOOSE i \in kept : Rank(i) = k) = n + k
  <2>1. n + k \in kept /\ Rank(n + k) = k
    BY <1>2, <1>4
  <2>2. \A i \in kept : Rank(i) = k => i = n + k
    BY <1>2, <1>4
  <2> QED BY <2>1, <2>2
<1>8. InWindow(times, window) = [k \in 1 .. L - n |-> times[n + k]]
  BY <1>5, <1>7
<1>9. Without(times, n, InWindow(times, window))
  BY <1>8 DEF Without
<1> QED BY <1>6, <1>9

\* What the breaker keeps of what it had is remembered as well.
LEMMA RecentRemembers ==
  ASSUME NEW times \in Seq(Nat), NEW left \in Seq(Nat), time \in Nat,
         Chronicle(times, time), Remembered(times, left, time)
  PROVE  Recent(left) \in Seq(Nat) /\ Remembered(times, Recent(left), time)
<1>1. PICK n \in 0 .. Len(times) :
        Without(times, n, left) /\ \A i \in 1 .. n : time - times[i] >= Hour
  BY DEF Remembered
<1>2. Chronicle(left, time)
  <2>1. \A i \in DOMAIN left : n + i \in DOMAIN times /\ left[i] = times[n + i]
    BY <1>1, SMTT(30) DEF Without
  <2>2. \A i, j \in DOMAIN left : i <= j => n + i <= n + j
    OBVIOUS
  <2> QED BY <2>1, <2>2 DEF Chronicle
<1>3. Hour \in Nat
  BY BreakerAssumption
<1>4. PICK k \in 0 .. Len(left) :
        Without(left, k, Recent(left)) /\ \A i \in 1 .. k : time - left[i] >= Hour
  BY <1>2, <1>3, WindowIsTheEnd DEF Recent
<1>5. n + k \in 0 .. Len(times)
  BY <1>1, <1>4 DEF Without
<1>6. Without(times, n + k, Recent(left))
  <2>1. Len(Recent(left)) = Len(times) - (n + k) /\ Recent(left) \in Seq(Nat)
    BY <1>1, <1>4 DEF Without
  <2>2. ASSUME NEW i \in 1 .. Len(Recent(left)) PROVE Recent(left)[i] = times[(n + k) + i]
    <3>1. Recent(left)[i] = left[k + i] /\ k + i \in DOMAIN left
      <4>1. i \in DOMAIN Recent(left) /\ Len(Recent(left)) = Len(left) - k
        BY <1>4, <2>1 DEF Without
      <4>2. Recent(left)[i] = left[k + i]
        BY <1>4, <4>1 DEF Without
      <4> QED BY <4>1, <4>2
    <3>2. left[k + i] = times[n + (k + i)]
      BY <1>1, <3>1 DEF Without
    <3>3. n + (k + i) = (n + k) + i
      OBVIOUS
    <3> QED BY <3>1, <3>2, <3>3
  <2> QED BY <2>1, <2>2 DEF Without
<1>7. ASSUME NEW i \in 1 .. n + k PROVE time - times[i] >= Hour
  <2>1. CASE i \in 1 .. n
    BY <1>1, <2>1
  <2>2. CASE i \in n + 1 .. n + k
    <3>1. i - n \in 1 .. k /\ i - n \in DOMAIN left /\ n + (i - n) = i
      BY <1>1, <1>4, <2>2
    <3>2. left[i - n] = times[i]
      BY <1>1, <3>1 DEF Without
    <3> QED BY <1>4, <3>1, <3>2
  <2> QED BY <2>1, <2>2
<1> QED BY <1>4, <1>5, <1>6, <1>7 DEF Remembered, Without

\* A repair that the breaker lets pass is one of the few of its hour.
LEMMA RepairIsRationed ==
  ASSUME NEW m \in Machines, BreakerIInv,
         Len(Recent(reloads[m])) < MaxReloads,
         reloads' = [reloads EXCEPT ![m] = Append(Recent(@), time)],
         repaired' = [repaired EXCEPT ![m] = Append(@, time)],
         UNCHANGED time
  PROVE  BreakerIInv'
<1> DEFINE had == repaired[m]
           left == Recent(reloads[m])
           L == Len(had)
<1>1. time \in Nat /\ had \in Seq(Nat) /\ MaxReloads \in Nat /\ Hour \in Nat
  BY BreakerAssumption DEF BreakerIInv, RepairsInv
<1>2. left \in Seq(Nat) /\ Remembered(had, left, time) /\ Chronicle(had, time)
  BY RecentRemembers DEF BreakerIInv, RepairsInv
<1>3. PICK n \in 0 .. L :
        Without(had, n, left) /\ \A i \in 1 .. n : time - had[i] >= Hour
  BY <1>2 DEF Remembered
<1>4. repaired'[m] = Append(had, time) /\ reloads'[m] = Append(left, time)
  BY DEF BreakerIInv, RepairsInv
<1>5. \A k \in Machines \ {m} : repaired'[k] = repaired[k] /\ reloads'[k] = reloads[k]
  BY DEF BreakerIInv, RepairsInv
<1>6. Len(left) < MaxReloads
  OBVIOUS
<1> HIDE DEF had, left
<1>7. Chronicle(Append(had, time), time)
  BY <1>1, <1>2, SMTT(30) DEF Chronicle
<1>8. Without(Append(had, time), n, Append(left, time))
  <2>1. /\ Append(left, time) \in Seq(Nat)
        /\ Len(Append(left, time)) = Len(left) + 1
        /\ Len(Append(had, time)) = L + 1
        /\ Len(left) = L - n
    BY <1>1, <1>2, <1>3 DEF Without, had
  <2>2. ASSUME NEW i \in 1 .. Len(left) + 1
        PROVE  Append(left, time)[i] = Append(had, time)[n + i]
    <3>1. Len(left) \in Nat /\ L \in Nat /\ n + i \in 1 .. L + 1
      BY <1>1, <1>2, <2>1
    <3>2. CASE i # Len(left) + 1
      <4>1. i \in 1 .. Len(left) /\ n + i \in 1 .. L
        BY <2>1, <3>1, <3>2
      <4>2. i \in DOMAIN left
        BY <1>2, <4>1
      <4>3. left[i] = had[n + i]
        BY <1>3, <4>2 DEF Without
      <4>4. Append(left, time)[i] = left[i]
        BY <1>2, <4>1
      <4>5. Append(had, time)[n + i] = had[n + i]
        BY <1>1, <4>1
      <4> QED BY <4>3, <4>4, <4>5
    <3>3. CASE i = Len(left) + 1
      BY <1>1, <1>2, <2>1, <3>1, <3>3
    <3> QED BY <3>2, <3>3
  <2>3. DOMAIN Append(left, time) = 1 .. Len(left) + 1
    BY <2>1
  <2>4. Len(left) + 1 = (L + 1) - n
    BY <1>1, <2>1
  <2>5. Len(Append(left, time)) = Len(Append(had, time)) - n
    BY <2>1, <2>4
  <2> HIDE DEF L
  <2> QED BY <2>1, <2>2, <2>3, <2>5 DEF Without
<1>9. Remembered(Append(had, time), Append(left, time), time)
  BY <1>1, <1>3, <1>8 DEF Remembered
<1>10. repaired' \in [Machines -> Seq(Nat)] /\ reloads' \in [Machines -> Seq(Nat)]
  BY <1>1, <1>2 DEF BreakerIInv, RepairsInv, had, left
<1>11. RepairsInv'
  <2>1. ASSUME NEW k \in Machines
        PROVE  Chronicle(repaired'[k], time) /\ Remembered(repaired'[k], reloads'[k], time)
    BY <1>4, <1>5, <1>7, <1>9 DEF BreakerIInv, RepairsInv
  <2>2. time' = time
    OBVIOUS
  <2> HIDE DEF had, left
  <2> QED BY ONLY <1>1, <1>10, <2>1, <2>2 DEF RepairsInv, Remembered, Without, Chronicle
<1>12. ASSUME NEW i \in 1 .. L + 1, NEW j \in 1 .. L + 1, j - i >= MaxReloads
       PROVE  Append(had, time)[j] - Append(had, time)[i] >= Hour
  <2>1. CASE j <= L /\ i <= L
    <3>1. Append(had, time)[j] = had[j] /\ Append(had, time)[i] = had[i]
      BY <1>1, <2>1
    <3>2. i \in DOMAIN had /\ j \in DOMAIN had
      BY <1>1, <2>1
    <3> QED BY <1>12, <3>1, <3>2 DEF BreakerIInv, ReloadsAreRationed, had
  <2>2. CASE j = L + 1 /\ i <= L
    <3>1. i \in 1 .. n
      BY <1>1, <1>3, <1>6, <1>12, <2>2 DEF Without
    <3> QED BY <1>1, <1>3, <2>2, <3>1
  <2>3. CASE i = L + 1
    <3>1. MaxReloads = 0
      BY <1>1, <1>12, <2>3
    <3> QED BY <1>2, <1>6, <3>1
  <2> QED BY <2>1, <2>2, <2>3
<1>13. ReloadsAreRationed'
  <2>1. DOMAIN Append(had, time) = 1 .. L + 1
    BY <1>1
  <2> QED BY <1>4, <1>5, <1>12, <2>1 DEF BreakerIInv, ReloadsAreRationed
<1> QED BY <1>11, <1>13 DEF BreakerIInv

LEMMA BreakerStep == BreakerIInv /\ [BreakerNext]_breakerVars => BreakerIInv'
<1> SUFFICES ASSUME BreakerIInv, [BreakerNext]_breakerVars PROVE BreakerIInv'
  OBVIOUS
<1>1. CASE TimePasses
  <2>1. time' = time + 1 /\ time \in Nat /\ UNCHANGED <<reloads, repaired>> /\ Hour \in Nat
    BY <1>1, BreakerAssumption DEF TimePasses, BreakerIInv, RepairsInv
  <2>2. ASSUME NEW m \in Machines
        PROVE  Chronicle(repaired[m], time') /\ Remembered(repaired[m], reloads[m], time')
    <3>1. Chronicle(repaired[m], time) /\ Remembered(repaired[m], reloads[m], time)
      BY DEF BreakerIInv, RepairsInv
    <3>2. PICK n \in 0 .. Len(repaired[m]) :
            /\ Without(repaired[m], n, reloads[m])
            /\ \A i \in 1 .. n : time - repaired[m][i] >= Hour
      BY <3>1 DEF Remembered
    <3>3. Chronicle(repaired[m], time')
      BY <2>1, <3>1 DEF Chronicle
    <3>4. \A i \in 1 .. n : time' - repaired[m][i] >= Hour
      BY <2>1, <3>1, <3>2 DEF Chronicle
    <3> QED BY <3>2, <3>3, <3>4 DEF Remembered
  <2>3. RepairsInv'
    BY <2>1, <2>2 DEF BreakerIInv, RepairsInv, Remembered, Without, Chronicle
  <2> QED BY <2>1, <2>3 DEF BreakerIInv, ReloadsAreRationed
<1>2. ASSUME NEW m \in Machines, NEW bondBroken \in BOOLEAN, TriggersRepair(m, bondBroken)
      PROVE  BreakerIInv'
  <2>1. UNCHANGED time
    BY <1>2 DEF TriggersRepair
  <2>2. CASE UNCHANGED <<reloads, repaired>>
    BY <2>1, <2>2 DEF BreakerIInv, RepairsInv, ReloadsAreRationed, Remembered, Without,
                      Chronicle
  <2>3. CASE reloads' = [reloads EXCEPT ![m] = Recent(@)] /\ UNCHANGED repaired
    <3>1. Recent(reloads[m]) \in Seq(Nat)
          /\ Remembered(repaired[m], Recent(reloads[m]), time)
      BY RecentRemembers DEF BreakerIInv, RepairsInv
    <3>2. reloads' \in [Machines -> Seq(Nat)] /\ reloads'[m] = Recent(reloads[m])
          /\ \A k \in Machines \ {m} : reloads'[k] = reloads[k]
      BY <2>3, <3>1 DEF BreakerIInv, RepairsInv
    <3>3. RepairsInv'
      <4>1. ASSUME NEW k \in Machines
            PROVE  Chronicle(repaired[k], time) /\ Remembered(repaired[k], reloads'[k], time)
        BY <3>1, <3>2 DEF BreakerIInv, RepairsInv
      <4>2. time \in Nat /\ repaired \in [Machines -> Seq(Nat)]
        BY DEF BreakerIInv, RepairsInv
      <4>3. time' = time /\ repaired' = repaired
        BY <2>1, <2>3
      <4> QED BY ONLY <3>2, <4>1, <4>2, <4>3 DEF RepairsInv, Remembered, Without, Chronicle
    <3> QED BY <2>3, <3>3 DEF BreakerIInv, ReloadsAreRationed
  <2>4. CASE /\ ~(Len(Recent(reloads[m])) >= MaxReloads)
             /\ reloads' = [reloads EXCEPT ![m] = Append(Recent(@), time)]
             /\ repaired' = [repaired EXCEPT ![m] = Append(@, time)]
    <3>1. Recent(reloads[m]) \in Seq(Nat) /\ MaxReloads \in Nat
      BY RecentRemembers, BreakerAssumption DEF BreakerIInv, RepairsInv
    <3>2. Len(Recent(reloads[m])) < MaxReloads
      BY <2>4, <3>1
    <3> QED BY <2>1, <2>4, <3>2, RepairIsRationed
  <2> QED BY <1>2, <2>2, <2>3, <2>4 DEF TriggersRepair
<1>3. CASE UNCHANGED <<time, reloads, repaired>>
  BY <1>3 DEF BreakerIInv, RepairsInv, ReloadsAreRationed, Remembered, Without, Chronicle
<1>4. ASSUME NEW m \in Machines, LinkUp(m) \/ LinkDown(m) \/ ChecksSource(m)
      PROVE  UNCHANGED <<time, reloads, repaired>>
  BY <1>4 DEF LinkUp, LinkDown, ChecksSource
<1>5. AirChanges \/ ServiceRepairs => UNCHANGED <<time, reloads, repaired>>
  BY DEF AirChanges, ServiceRepairs
<1>6. UNCHANGED breakerVars => UNCHANGED <<time, reloads, repaired>>
  BY DEF breakerVars
<1> QED BY <1>1, <1>2, <1>3, <1>4, <1>5, <1>6 DEF BreakerNext

(* For any machines and proxies, and any hour and ration: the automatic     *)
(* repairs of one set-up are rationed in every hour.                        *)
THEOREM Rationed == BreakerSpec => []ReloadsAreRationed
<1>1. BreakerInit => BreakerIInv
  <2> SUFFICES ASSUME BreakerInit PROVE BreakerIInv
    OBVIOUS
  <2>1. \A m \in Machines : repaired[m] = <<>> /\ reloads[m] = <<>>
    BY DEF BreakerInit
  <2>2. Chronicle(<<>>, 0) /\ Remembered(<<>>, <<>>, 0)
    <3>1. Without(<<>>, 0, <<>>)
      BY DEF Without
    <3> QED BY <3>1, 0 \in 0 .. Len(<<>>) DEF Chronicle, Remembered
  <2>3. repaired \in [Machines -> Seq(Nat)] /\ reloads \in [Machines -> Seq(Nat)] /\ time = 0
    BY DEF BreakerInit
  <2> QED BY <2>1, <2>2, <2>3 DEF BreakerIInv, RepairsInv, ReloadsAreRationed
<1>2. BreakerIInv => ReloadsAreRationed
  BY DEF BreakerIInv
<1> QED BY BreakerStep, <1>1, <1>2, PTL DEF BreakerSpec

-----------------------------------------------------------------------------
(* ClockSync.  The drift the coordinator computes is the distance on the    *)
(* dial, for any length of the day.                                         *)

\* A task that compares has a minute of the machine, and one that writes has
\* one of Home Assistant.
Filled(sync) ==
  /\ sync.at = "compare" => sync.machine \in 0 .. Day - 1
  /\ sync.at = "write" => sync.ha \in 0 .. Day - 1

ClockIInv ==
  /\ now \in Nat /\ clock \in 0 .. Day - 1
  /\ syncs \in [Syncs -> [at : {"idle", "check", "read", "compare", "write"},
                          source : {"none", "reconnect", "daily", "service"},
                          machine : 0 .. Day - 1 \cup {Never},
                          ha : 0 .. Day - 1 \cup {Never},
                          decided : Nat \cup {Never}]]
  /\ \A s \in Syncs : Filled(syncs[s])

\* What is left of a number after whole days have been taken off it.
LEMMA Remainder ==
  ASSUME NEW x \in Int
  PROVE  /\ x % Day \in 0 .. Day - 1 /\ x \div Day \in Int
         /\ x = Day * (x \div Day) + (x % Day)
<1>1. Day \in Nat /\ Day > 0
  BY ClockAssumption
<1>2. x % Day \in 0 .. Day - 1
  BY <1>1
<1>3. x \div Day \in Int
  BY <1>1
<1>4. x = Day * (x \div Day) + (x % Day)
  BY <1>1
<1> QED BY <1>2, <1>3, <1>4

\* The remainder of a number within a day of the day is found by one day.
LEMMA AroundTheDial ==
  ASSUME NEW x \in - Day .. 2 * Day - 1
  PROVE  x % Day = IF x < 0 THEN x + Day ELSE IF x < Day THEN x ELSE x - Day
<1> DEFINE q == x \div Day
           r == x % Day
<1>1. Day \in Nat /\ Day > 0 /\ x \in Int
  BY ClockAssumption
<1>2. r \in 0 .. Day - 1 /\ q \in Int /\ x = Day * q + r
  BY <1>1, Remainder
<1> HIDE DEF q, r
<1>3. CASE q <= - 2
  BY <1>1, <1>2, <1>3, Day * q <= Day * (- 2)
<1>4. CASE q >= 2
  BY <1>1, <1>2, <1>4, Day * q >= Day * 2
<1>5. CASE q = - 1
  BY <1>1, <1>2, <1>5 DEF r
<1>6. CASE q = 0
  BY <1>1, <1>2, <1>6 DEF r
<1>7. CASE q = 1
  BY <1>1, <1>2, <1>7 DEF r
<1> QED BY <1>2, <1>3, <1>4, <1>5, <1>6, <1>7

\* The drift is at most d exactly if one minute is within d of the other.
LEMMA DriftIsDistance ==
  ASSUME NEW a \in 0 .. Day - 1, NEW b \in 0 .. Day - 1, NEW d \in Nat
  PROVE  Drift(a, b) <= d <=> Within(a, b, d)
<1>1. Day \in Nat /\ Day > 0
  BY ClockAssumption
<1>2. ASSUME Drift(a, b) <= d PROVE Within(a, b, d)
  <2>1. PICK k \in {b - a, b - a + Day, b - a - Day} : k \in (- d) .. d
    BY <1>1, <1>2 DEF Drift
  <2>2. a + k \in {b, b + Day, b - Day}
    BY <1>1, <2>1
  <2>3. (a + k) % Day = b
    BY <1>1, <2>2, AroundTheDial
  <2> QED BY <2>1, <2>3 DEF Within
<1>3. ASSUME Within(a, b, d) PROVE Drift(a, b) <= d
  <2>1. PICK k \in (- d) .. d : (a + k) % Day = b
    BY <1>3 DEF Within
  <2> DEFINE x == a + k
             q == x \div Day
  <2>2. x = Day * q + b /\ q \in Int
    <3>1. x \in Int /\ x % Day = b
      BY <1>1, <2>1
    <3> HIDE DEF x
    <3> QED BY <3>1, Remainder
  <2> HIDE DEF q
  <2>3. CASE q = 0
    BY <1>1, <2>1, <2>2, <2>3 DEF Drift
  <2>4. CASE q >= 1
    BY <1>1, <2>1, <2>2, <2>4, Day * q >= Day DEF Drift
  <2>5. CASE q <= - 1
    BY <1>1, <2>1, <2>2, <2>5, Day * q <= - Day DEF Drift
  <2> QED BY <2>2, <2>3, <2>4, <2>5
<1> QED BY <1>2, <1>3

LEMMA DriftUnderThreshold ==
  ASSUME NEW a \in 0 .. Day - 1, NEW b \in 0 .. Day - 1
  PROVE  Drift(a, b) < Threshold <=> \E d \in 0 .. Threshold - 1 : Within(a, b, d)
<1>1. Drift(a, b) \in Nat /\ Threshold \in Nat
  BY ClockAssumption DEF Drift
<1>2. ASSUME Drift(a, b) < Threshold PROVE Within(a, b, Drift(a, b))
  BY <1>1, DriftIsDistance
<1>3. ASSUME NEW d \in 0 .. Threshold - 1, Within(a, b, d) PROVE Drift(a, b) < Threshold
  BY <1>1, <1>3, DriftIsDistance
<1> QED BY <1>1, <1>2, <1>3

LEMMA ClockStep == ClockIInv /\ [ClockNext]_clockVars => ClockIInv'
<1> SUFFICES ASSUME ClockIInv, [ClockNext]_clockVars PROVE ClockIInv'
  OBVIOUS
<1> DEFINE Sync == [at : {"idle", "check", "read", "compare", "write"},
                    source : {"none", "reconnect", "daily", "service"},
                    machine : 0 .. Day - 1 \cup {Never},
                    ha : 0 .. Day - 1 \cup {Never},
                    decided : Nat \cup {Never}]
<1>1. Day \in Nat /\ Day > 0
  BY ClockAssumption
<1>2. NoSync \in Sync /\ Filled(NoSync)
  BY DEF NoSync, Filled
<1>3. ASSUME NEW s \in Syncs PROVE syncs[s] \in Sync
  BY DEF ClockIInv
<1>4. HaMinute(now) \in 0 .. Day - 1
  BY Remainder DEF HaMinute, ClockIInv
<1> HIDE DEF Sync
<1>5. ASSUME NEW s \in Syncs, NEW sync \in Sync,
             Filled(sync),
             syncs' = [syncs EXCEPT ![s] = sync],
             now' \in Nat, clock' \in 0 .. Day - 1
      PROVE  ClockIInv'
  <2>1. syncs \in [Syncs -> Sync]
    BY DEF ClockIInv, Sync
  <2>2. syncs' \in [Syncs -> Sync]
    BY <1>5, <2>1
  <2>3. \A u \in Syncs : Filled(syncs'[u])
    BY <1>5, <2>1 DEF ClockIInv
  <2> QED BY <1>5, <2>2, <2>3 DEF ClockIInv, Sync, Filled
<1>6. ASSUME UNCHANGED syncs, now' \in Nat, clock' \in 0 .. Day - 1 PROVE ClockIInv'
  BY <1>6 DEF ClockIInv, Filled
<1>7. now \in Nat /\ clock \in 0 .. Day - 1
  BY DEF ClockIInv
<1>8. ASSUME NEW source \in {"reconnect", "daily"}, Starts(source),
             now' \in Nat, clock' \in 0 .. Day - 1
      PROVE  ClockIInv'
  <2> DEFINE sync == [NoSync EXCEPT !.at = "check", !.source = source]
  <2>1. sync \in Sync /\ Filled(sync)
    BY DEF NoSync, Sync, Filled
  <2>2. PICK s \in Syncs : syncs' = [syncs EXCEPT ![s] = sync]
    BY <1>8 DEF Starts
  <2> HIDE DEF sync
  <2> QED BY <1>5, <1>8, <2>1, <2>2
<1>9. ASSUME NEW s \in Syncs, Ends(s), now' \in Nat, clock' \in 0 .. Day - 1
      PROVE  ClockIInv'
  BY <1>2, <1>5, <1>9 DEF Ends
<1>10. CASE ClockLinkUp
  BY <1>7, <1>8, <1>10 DEF ClockLinkUp
<1>11. CASE ClockLinkDown \/ PersonSetsClock \/ UNCHANGED clockVars
  BY <1>6, <1>7, <1>11 DEF ClockLinkDown, PersonSetsClock, clockVars
<1>12. CASE MinutePasses
  <2>1. now' \in Nat /\ clock' \in 0 .. Day - 1
    BY <1>7, <1>12, Remainder DEF MinutePasses
  <2> QED BY <1>6, <1>8, <1>12, <2>1 DEF MinutePasses
<1>13. CASE ServiceAsks
  <2> DEFINE sync == [NoSync EXCEPT !.at = "write", !.source = "service",
                                    !.ha = HaMinute(now)]
  <2>1. sync \in Sync /\ Filled(sync)
    BY <1>4 DEF NoSync, Sync, Filled
  <2>2. PICK s \in Syncs : syncs' = [syncs EXCEPT ![s] = sync]
    BY <1>13 DEF ServiceAsks
  <2>3. UNCHANGED <<now, clock>>
    BY <1>13 DEF ServiceAsks
  <2> HIDE DEF sync
  <2> QED BY <1>5, <1>7, <2>1, <2>2, <2>3
<1>14. ASSUME NEW s \in Syncs, Checks(s) PROVE ClockIInv'
  <2> DEFINE sync == [syncs[s] EXCEPT !.at = "read"]
  <2>1. sync \in Sync /\ Filled(sync)
    BY <1>3 DEF Sync, Filled
  <2>2. UNCHANGED <<now, clock>>
        /\ (Ends(s) \/ syncs' = [syncs EXCEPT ![s] = sync])
    BY <1>14 DEF Checks
  <2> HIDE DEF sync
  <2> QED BY <1>5, <1>7, <1>9, <2>1, <2>2
<1>15. ASSUME NEW s \in Syncs, Reads(s) PROVE ClockIInv'
  <2> DEFINE sync == [syncs[s] EXCEPT !.at = "compare", !.machine = clock]
  <2>1. sync \in Sync /\ Filled(sync)
    BY <1>3, <1>7 DEF Sync, Filled
  <2>2. UNCHANGED <<now, clock>>
        /\ (Ends(s) \/ syncs' = [syncs EXCEPT ![s] = sync])
    BY <1>3, <1>15 DEF Reads, Sync, ClockIInv
  <2> HIDE DEF sync
  <2> QED BY <1>5, <1>7, <1>9, <2>1, <2>2
<1>16. ASSUME NEW s \in Syncs, Decides(s) PROVE ClockIInv'
  <2> DEFINE sync == [syncs[s] EXCEPT !.at = "write", !.ha = HaMinute(now),
                                      !.decided = now]
  <2>1. sync \in Sync /\ Filled(sync)
    BY <1>3, <1>4, <1>7 DEF Sync, Filled
  <2>2. UNCHANGED <<now, clock>>
        /\ (Ends(s) \/ syncs' = [syncs EXCEPT ![s] = sync])
    BY <1>3, <1>16 DEF Decides, Sync, ClockIInv
  <2> HIDE DEF sync
  <2> QED BY <1>5, <1>7, <1>9, <2>1, <2>2
<1>17. ASSUME NEW s \in Syncs, Writes(s) PROVE ClockIInv'
  <2>1. syncs[s].ha \in 0 .. Day - 1
    BY <1>17 DEF Writes, ClockIInv, Filled
  <2> QED BY <1>7, <1>9, <1>17, <2>1 DEF Writes
<1> QED
  BY <1>10, <1>11, <1>12, <1>13, <1>14, <1>15, <1>16, <1>17 DEF ClockNext

(* For any day, threshold and number of overlapping syncs: the comparison   *)
(* after a reconnect has the clock written exactly when it is off by the    *)
(* threshold or more around the dial.  Daily and service tasks, which write *)
(* regardless, are not spoken of.                                           *)
THEOREM Drifted == ClockSpec => DriftDecides
<1>1. ClockInit => ClockIInv
  BY ClockAssumption DEF ClockInit, ClockIInv, Filled, NoSync
<1> DEFINE Fair(s) ==
             syncs'[s].at = "write" <=>
               \A d \in 0..(Threshold - 1) : ~ Within(syncs[s].machine, HaMinute(now), d)
<1>2. ASSUME ClockIInv, NEW s \in Syncs, Decides(s), syncs[s].source = "reconnect"
      PROVE  Fair(s)
  <2> DEFINE a == syncs[s].machine
             b == HaMinute(now)
  <2>1. a \in 0 .. Day - 1 /\ b \in 0 .. Day - 1
    BY <1>2, Remainder DEF Decides, ClockIInv, Filled, HaMinute
  <2>2. a % Day = a
    BY <2>1, ClockAssumption, AroundTheDial
  <2>3. syncs'[s].at = "write" <=> ~(Drift(a, b) < Threshold)
    <3>1. Drift(a % Day, b) < Threshold => syncs'[s].at = "idle"
      BY <1>2 DEF Decides, Ends, NoSync, Forced, ClockIInv
    <3>2. ~(Drift(a % Day, b) < Threshold) => syncs'[s].at = "write"
      BY <1>2 DEF Decides, ClockIInv
    <3> QED BY <2>2, <3>1, <3>2
  <2> QED BY <2>1, <2>3, DriftUnderThreshold
<1>3. ClockIInv /\ [ClockNext]_clockVars
      => [\A s \in Syncs : Decides(s) /\ syncs[s].source = "reconnect" => Fair(s)]_clockVars
  BY <1>2
<1> QED BY ClockStep, <1>1, <1>3, PTL DEF ClockSpec, DriftDecides

-----------------------------------------------------------------------------
(* Narration.  Whatever is wrong with the files: what a sentence is made    *)
(* of, and when there is none.                                              *)

NarrationIInv ==
  /\ file \in [Shipped -> [NarrationKeys -> Quality]]
  /\ narrated \in Shipped \cup {Nothing}

LEMMA NarrationStep == NarrationIInv /\ [NarrationNext]_narrationVars => NarrationIInv'
<1> SUFFICES ASSUME NarrationIInv, [NarrationNext]_narrationVars PROVE NarrationIInv'
  OBVIOUS
<1>1. UNCHANGED file
  BY DEF NarrationNext, narrationVars, Narrates, SetupPreloads, CoreConfigUpdated,
         LoadsUiStrings, LoadsNarration, LoadFails, LanguageChanges, ServesStrings
<1>2. UNCHANGED narrated \/ \E l : narrated' = Resolved(l)
  BY DEF NarrationNext, narrationVars, Narrates, SetupPreloads, CoreConfigUpdated,
         LoadsUiStrings, LoadsNarration, LoadFails, LanguageChanges, ServesStrings
<1>3. \A l : Resolved(l) \in Shipped
  BY LanguagesAssumption DEF Resolved
<1> QED BY <1>1, <1>2, <1>3 DEF NarrationIInv

LEMMA HeadIsKey ==
  ASSUME NEW e \in Events, NEW l, NEW ui
  PROVE  /\ HeadKey(e, l, ui) \in NarrationKeys
         /\ SaidClauses(e, l) # {} => HeadKey(e, l, ui) \in {"named_detail", "unnamed_detail"}
<1> DEFINE named == DrinkLanguage(e, l, ui) # Nothing
           shape == e.shape /\ Strings(l)["shape"] \in Template
<1>1. e.details # {} => e.kind = "finished"
  BY DEF Events
<1>2. SaidClauses(e, l) # {} => e.kind = "finished"
  BY <1>1 DEF SaidClauses
<1>3. FinishedHead(named, SaidClauses(e, l) # {}, shape) \in Finished \cup {"shape"}
  BY DEF FinishedHead, Finished
<1>4. SaidClauses(e, l) # {} =>
        FinishedHead(named, SaidClauses(e, l) # {}, shape) \in {"named_detail", "unnamed_detail"}
  BY DEF FinishedHead
<1>5. e.kind = "finished" =>
        HeadKey(e, l, ui) = FinishedHead(named, SaidClauses(e, l) # {}, shape)
  BY DEF HeadKey
<1>6. e.kind # "finished" =>
        HeadKey(e, l, ui) \in {"started_named", "started_unnamed", "prompt",
                               "prompt_generic", "plain"}
  BY DEF HeadKey
<1> HIDE DEF named, shape
<1> QED
  BY <1>2, <1>3, <1>4, <1>5, <1>6 DEF NarrationKeys, Heads, Finished, Started, Prompted

\* What is composed in a language comes from its file, says what the file can
\* say, and fails only for a string that is no good.
LEMMA ComposedFromFile ==
  ASSUME NarrationIInv, NEW e \in Events, NEW l \in Shipped, NEW ui \in Shipped \cup {Nothing}
  PROVE  LET said == Composed(e, l, ui)
         IN  /\ said # Nothing => /\ said.language = l /\ said.strings = l
                                  /\ SaidClauses(e, l) \subseteq said.keys
             /\ said = Nothing => \E key \in NarrationKeys : file[l][key] # "good"
<1> DEFINE head == HeadKey(e, l, ui)
           keys == {head} \cup (IF head \in {"named_detail", "unnamed_detail"}
                                THEN SaidClauses(e, l) ELSE {})
           sentence == [language |-> l, strings |-> l, keys |-> keys,
                        words |-> Borrowed(e, ui)]
<1>1. l # Nothing /\ Strings(l) = file[l]
  BY LanguagesAssumption DEF Strings
<1>2. keys \subseteq NarrationKeys
  <2>1. head \in NarrationKeys
    BY HeadIsKey
  <2>2. SaidClauses(e, l) \subseteq NarrationKeys
    BY DEF SaidClauses, Events, NarrationKeys
  <2> QED BY <2>1, <2>2
<1>3. SaidClauses(e, l) \subseteq keys
  BY HeadIsKey
<1>4. Composed(e, l, ui) = IF \A key \in keys : Strings(l)[key] = "good"
                           THEN sentence ELSE Nothing
  BY DEF Composed
<1>5. sentence # Nothing
  <2>1. Borrowed(e, ui) \subseteq Languages
    BY LanguagesAssumption DEF Borrowed
  <2>2. sentence \in Sentences
    BY <1>2, <2>1, LanguagesAssumption DEF Sentences
  <2> QED BY <2>2, LanguagesAssumption
<1>6. sentence.language = l /\ sentence.strings = l /\ sentence.keys = keys
  OBVIOUS
<1> HIDE DEF keys, sentence
<1> QED BY <1>1, <1>2, <1>3, <1>4, <1>5, <1>6

\* What a sentence of an event may be.
WholeOf(e, said) ==
  IF said # Nothing
  THEN /\ said.strings = said.language
       /\ said.language # English =>
            \A c \in e.details : c \in said.keys \/ file[said.language][c] = "blank"
  ELSE \/ narrated = Nothing \/ e.kind = "unknown"
       \/ \E key \in NarrationKeys : file[English][key] # "good"

LEMMA RenderedIsWhole ==
  ASSUME NarrationIInv, NEW e \in Events, NEW ui \in Shipped \cup {Nothing},
         NEW uiEnglish \in Shipped \cup {Nothing}
  PROVE  WholeOf(e, Rendered(e, narrated, ui, uiEnglish))
<1>1. CASE e.kind = "unknown"
  BY <1>1 DEF Rendered, WholeOf
<1>2. CASE e.kind # "unknown" /\ narrated = Nothing
  <2>1. \A u : HeadKey(e, Nothing, u) \in NarrationKeys
    BY HeadIsKey
  <2>2. \A u : Strings(Nothing)[HeadKey(e, Nothing, u)] = "absent"
    BY <2>1 DEF Strings
  <2>3. \A u : Composed(e, Nothing, u) = Nothing
    BY <2>2 DEF Composed
  <2>4. Rendered(e, narrated, ui, uiEnglish) = Nothing
    BY <1>2, <2>3 DEF Rendered, InEnglish
  <2> QED BY <1>2, <2>4 DEF WholeOf
<1>3. CASE e.kind # "unknown" /\ narrated # Nothing
  <2> DEFINE own == Composed(e, narrated, ui)
             english == Composed(e, English, uiEnglish)
  <2>1. narrated \in Shipped /\ English \in Shipped
    BY <1>3, LanguagesAssumption DEF NarrationIInv
  <2>2. Rendered(e, narrated, ui, uiEnglish) =
        IF Gaps(e, narrated) = {} /\ own # Nothing THEN own ELSE english
    BY <1>3 DEF Rendered, InEnglish
  <2>3. english # Nothing => english.language = English /\ english.strings = English
    BY <2>1, ComposedFromFile
  <2>4. english = Nothing => \E key \in NarrationKeys : file[English][key] # "good"
    BY <2>1, ComposedFromFile
  <2>5. own # Nothing => /\ own.language = narrated /\ own.strings = narrated
                         /\ SaidClauses(e, narrated) \subseteq own.keys
    BY <2>1, ComposedFromFile
  <2>6. ASSUME Gaps(e, narrated) = {}, NEW c \in e.details
        PROVE  c \in SaidClauses(e, narrated) \/ file[narrated][c] = "blank"
    <3>1. Strings(narrated) = file[narrated]
      BY <1>3 DEF Strings
    <3>2. c \in NarrationKeys
      BY DEF Events, NarrationKeys
    <3>3. file[narrated][c] \in Quality
      BY <2>1, <3>2 DEF NarrationIInv
    <3>4. file[narrated][c] # "absent"
      BY <2>6, <3>1 DEF Gaps, Planned
    <3> QED BY <3>1, <3>3, <3>4 DEF SaidClauses, Quality, Template
  <2> HIDE DEF own, english
  <2>7. CASE Gaps(e, narrated) = {} /\ own # Nothing
    BY <2>2, <2>5, <2>6, <2>7 DEF WholeOf
  <2>8. CASE ~(Gaps(e, narrated) = {} /\ own # Nothing)
    BY <2>2, <2>3, <2>4, <2>8 DEF WholeOf
  <2> QED BY <2>7, <2>8
<1> QED BY <1>1, <1>2, <1>3

(* For any languages, files and number of overlapping preloads: a sentence  *)
(* is of one piece, and English saves an event from silence.                *)
THEOREM Narrated == NarrationSpec => SentencesAreWhole
<1>1. NarrationInit => NarrationIInv
  <2> SUFFICES ASSUME NarrationInit PROVE NarrationIInv
    OBVIOUS
  <2>1. \A l \in Shipped : file[l] \in [NarrationKeys -> Quality]
    BY LanguagesAssumption DEF NarrationInit
  <2>2. file \in [Shipped -> [NarrationKeys -> Quality]]
    BY <2>1 DEF NarrationInit
  <2> QED BY <2>2 DEF NarrationInit, NarrationIInv
<1>2. ASSUME NarrationIInv, NEW e \in Events, Narrates(e)
      PROVE  told'.event = e /\ WholeOf(e, told'.said)
  <2>1. \A l : Cached(l) \in Shipped \cup {Nothing}
    BY LanguagesAssumption DEF Cached, Resolved
  <2>2. UiStrings \in Shipped \cup {Nothing}
    BY <2>1 DEF UiStrings
  <2>3. told' = [event |-> e, said |-> Rendered(e, narrated, UiStrings, Cached(English))]
    BY <1>2 DEF Narrates
  <2> QED BY <1>2, <2>1, <2>2, <2>3, RenderedIsWhole
<1>3. [NarrationNext]_narrationVars /\ told' # told => \E e \in Events : Narrates(e)
  BY DEF NarrationNext, narrationVars, SetupPreloads, CoreConfigUpdated,
         LoadsUiStrings, LoadsNarration, LoadFails, LanguageChanges, ServesStrings
<1>4. NarrationIInv /\ [NarrationNext]_narrationVars /\ told' # told
        => WholeOf(told'.event, told'.said)
  BY <1>2, <1>3
<1>5. NarrationIInv /\ [NarrationNext]_narrationVars
      => [told' # told =>
            LET e == told'.event   said == told'.said
            IN  IF said # Nothing
                THEN /\ said.strings = said.language
                     /\ said.language # English =>
                          \A c \in e.details :
                            c \in said.keys \/ file[said.language][c] = "blank"
                ELSE \/ narrated = Nothing \/ e.kind = "unknown"
                     \/ \E key \in NarrationKeys : file[English][key] # "good"]_narrationVars
  BY <1>4 DEF WholeOf
<1> QED BY NarrationStep, <1>1, <1>5, PTL DEF NarrationSpec, SentencesAreWhole

-----------------------------------------------------------------------------
(* ReconnectSupervisor, for every repair threshold.  The type invariant is  *)
(* proved in two halves, the Boolean variables (Zenon) and the others (SMT).*)
SupervisorFlags ==
  /\ connected \in BOOLEAN /\ autoReconnect \in BOOLEAN
  /\ wasAbsent \in BOOLEAN /\ hard \in BOOLEAN
  /\ announced \in BOOLEAN /\ card \in BOOLEAN /\ onAir \in BOOLEAN
  /\ stranded \in BOOLEAN

SupervisorData ==
  /\ at \in [Loops -> Stages] /\ at["reconnect"] # "asleep"
  /\ poll \in {"off", "on", "closing"}
  /\ failures \in 0..RepairAfterFailures
  /\ failures < RepairAfterFailures \/ entry = "unloaded"
  /\ repair \in [Routines -> {"idle", "pending", "closing"}]
  /\ entry \in {"loaded", "unloading", "unloaded"}
  /\ machine \in {"off", "ready", "refuses"}

SupervisorIInv == TypeOK /\ SupervisorInv

\* The type invariant is the Boolean flags and the rest of the state.
LEMMA SupervisorTypeHalves == TypeOK <=> SupervisorFlags /\ SupervisorData
BY Zenon DEF TypeOK, SupervisorFlags, SupervisorData

\* A fresh set-up has values of the right types.
LEMMA SupervisorTypeInit == Init => TypeOK
<1> SUFFICES ASSUME Init PROVE TypeOK
  OBVIOUS
<1>1. at \in [Loops -> Stages] /\ at["reconnect"] # "asleep"
  BY DEF Init, Loops, Stages
<1>2. repair \in [Routines -> {"idle", "pending", "closing"}]
  BY DEF Init
<1>3. failures \in 0..RepairAfterFailures /\ failures < RepairAfterFailures
  BY ThresholdAssumption DEF Init
<1> QED
  BY <1>1, <1>2, <1>3, Zenon DEF Init, TypeOK

\* Every step keeps the Boolean flags Boolean.
LEMMA SupervisorFlagsNext == ASSUME SupervisorFlags, [Next]_vars PROVE SupervisorFlags'
<1> USE DEF SupervisorFlags
<1>1. CASE UNCHANGED vars
  BY <1>1, Zenon DEF vars, loopVars, episodeVars, worldVars
<1>2. ASSUME NEW to \in {"off", "ready", "refuses"}, MachineChanges(to)
      PROVE  SupervisorFlags'
  BY <1>2, Zenon DEF MachineChanges, episodeVars
<1>3. CASE GoesOffAir
  BY <1>3, Zenon DEF GoesOffAir, episodeVars
<1>4. ASSUME NEW adopted \in BOOLEAN, Advert(adopted)
      PROVE  SupervisorFlags'
  BY <1>4, Zenon DEF Advert, AdvertSchedules, episodeVars
<1>5. ASSUME NEW loop \in Loops, NEW starved \in BOOLEAN,
             TimerElapses(loop, starved)
      PROVE  SupervisorFlags'
  BY <1>5, Zenon DEF TimerElapses, Attempt, attemptUnchanged, worldVars
<1>6. ASSUME NEW loop \in Loops, NEW starved \in BOOLEAN,
             CutsBackoffShort(loop, starved)
      PROVE  SupervisorFlags'
  BY <1>6, Zenon DEF CutsBackoffShort, Attempt, attemptUnchanged, worldVars
<1>7. ASSUME NEW loop \in Loops,
             NEW hardFailure \in BOOLEAN, NEW starved \in BOOLEAN,
             CycleFails(loop, hardFailure, starved)
      PROVE  SupervisorFlags'
  BY <1>7, Zenon DEF CycleFails, NoteFailure, TriggerRepair, worldVars
<1>8. ASSUME NEW loop \in Loops,
             NEW hardFailure \in BOOLEAN, NEW starved \in BOOLEAN,
             ReadsRaise(loop, hardFailure, starved)
      PROVE  SupervisorFlags'
  BY <1>8, Zenon DEF ReadsRaise, NoteFailure, TriggerRepair, worldVars
<1>9. ASSUME NEW loop \in Loops, IgnoresWake(loop)
      PROVE  SupervisorFlags'
  BY <1>9, Zenon DEF IgnoresWake, attemptUnchanged, worldVars
<1>10. ASSUME NEW loop \in Loops, GetsLock(loop)
       PROVE  SupervisorFlags'
  BY <1>10, Zenon DEF GetsLock, attemptUnchanged, worldVars
<1>11. ASSUME NEW loop \in Loops, HandshakeSucceeds(loop)
       PROVE  SupervisorFlags'
  BY <1>11, Zenon DEF HandshakeSucceeds, worldVars
<1>12. ASSUME NEW loop \in Loops, ReadsEnd(loop)
       PROVE  SupervisorFlags'
  BY <1>12, Zenon DEF ReadsEnd, episodeVars, worldVars
<1>13. CASE LinkDrops
  BY <1>13, Zenon DEF LinkDrops, episodeVars, worldVars
<1>14. CASE PollGivesUp
  BY <1>14, Zenon DEF PollGivesUp, episodeVars, worldVars
<1>15. CASE PollClosed
  BY <1>15, Zenon DEF PollClosed, episodeVars, worldVars
<1>16. CASE PollEnds
  BY <1>16, Zenon DEF PollEnds, episodeVars, worldVars
<1>17. ASSUME NEW routine \in Routines, RepairStarts(routine)
       PROVE  SupervisorFlags'
  BY <1>17, Zenon DEF RepairStarts, Disconnect, episodeVars, worldVars
<1>18. ASSUME NEW routine \in Routines, RepairEnds(routine)
       PROVE  SupervisorFlags'
  BY <1>18, Zenon DEF RepairEnds, episodeVars, worldVars
<1>19. CASE UnloadStarts
  BY <1>19, Zenon DEF UnloadStarts, Disconnect, episodeVars, worldVars
<1>20. CASE UnloadEnds
  BY <1>20, Zenon DEF UnloadEnds, episodeVars, worldVars
<1> QED
  BY <1>1, <1>2, <1>3, <1>4, <1>5, <1>6, <1>7, <1>8, <1>9, <1>10, <1>11,
     <1>12, <1>13, <1>14, <1>15, <1>16, <1>17, <1>18, <1>19, <1>20 DEF Next

\* Every step keeps the other variables in their sets.
LEMMA SupervisorDataNext == ASSUME SupervisorData, [Next]_vars PROVE SupervisorData'
<1> USE ThresholdAssumption DEF SupervisorData, Loops, Stages, Routines
<1>1. CASE UNCHANGED vars
  BY <1>1 DEF vars, loopVars, episodeVars, worldVars
<1>2. ASSUME NEW to \in {"off", "ready", "refuses"}, MachineChanges(to)
      PROVE  SupervisorData'
  BY <1>2 DEF MachineChanges, loopVars, episodeVars
<1>3. CASE GoesOffAir
  BY <1>3 DEF GoesOffAir, loopVars, episodeVars
<1>4. ASSUME NEW adopted \in BOOLEAN, Advert(adopted)
      PROVE  SupervisorData'
  BY <1>4, ZenonT(30) DEF Advert, Scheduled, WokenUp, episodeVars
<1>5. ASSUME NEW loop \in Loops, NEW starved \in BOOLEAN,
             TimerElapses(loop, starved)
      PROVE  SupervisorData'
  BY <1>5 DEF TimerElapses, Attempt, Connect, BeginCycle, BackToTop,
         StartedPolling, attemptUnchanged, worldVars
<1>6. ASSUME NEW loop \in Loops, NEW starved \in BOOLEAN,
             CutsBackoffShort(loop, starved)
      PROVE  SupervisorData'
  BY <1>6 DEF CutsBackoffShort, Attempt, Connect, BeginCycle, BackToTop,
         StartedPolling, attemptUnchanged, worldVars
<1>7. ASSUME NEW loop \in Loops,
             NEW hardFailure \in BOOLEAN, NEW starved \in BOOLEAN,
             CycleFails(loop, hardFailure, starved)
      PROVE  SupervisorData'
  BY <1>7 DEF CycleFails, NoteFailure, TriggerRepair, ReachesThreshold,
         BackToTop, worldVars
<1>8. ASSUME NEW loop \in Loops,
             NEW hardFailure \in BOOLEAN, NEW starved \in BOOLEAN,
             ReadsRaise(loop, hardFailure, starved)
      PROVE  SupervisorData'
  BY <1>8 DEF ReadsRaise, NoteFailure, TriggerRepair, ReachesThreshold,
         BackToTop, worldVars
<1>9. ASSUME NEW loop \in Loops, IgnoresWake(loop)
      PROVE  SupervisorData'
  BY <1>9 DEF IgnoresWake, attemptUnchanged, worldVars
<1>10. ASSUME NEW loop \in Loops, GetsLock(loop)
       PROVE  SupervisorData'
  BY <1>10 DEF GetsLock, BeginCycle, StartedPolling, attemptUnchanged,
         worldVars
<1>11. ASSUME NEW loop \in Loops, HandshakeSucceeds(loop)
       PROVE  SupervisorData'
  BY <1>11 DEF HandshakeSucceeds, FailuresAfterSuccess, worldVars
<1>12. ASSUME NEW loop \in Loops, ReadsEnd(loop)
       PROVE  SupervisorData'
  BY <1>12 DEF ReadsEnd, StartedPolling, episodeVars, worldVars
<1>13. CASE LinkDrops
  BY <1>13 DEF LinkDrops, ScheduledAfterLoss, Scheduled, episodeVars,
         worldVars
<1>14. CASE PollGivesUp
  BY <1>14 DEF PollGivesUp, episodeVars, worldVars
<1>15. CASE PollClosed
  BY <1>15 DEF PollClosed, ScheduledAfterLoss, Scheduled, episodeVars,
         worldVars
<1>16. CASE PollEnds
  BY <1>16 DEF PollEnds, episodeVars, worldVars
<1>17. ASSUME NEW routine \in Routines, RepairStarts(routine)
       PROVE  SupervisorData'
  BY <1>17 DEF RepairStarts, Disconnect, episodeVars, worldVars
<1>18. ASSUME NEW routine \in Routines, RepairEnds(routine)
       PROVE  SupervisorData'
  BY <1>18 DEF RepairEnds, Rearmed, Scheduled, WokenUp, episodeVars, worldVars
<1>19. CASE UnloadStarts
  BY <1>19 DEF UnloadStarts, Disconnect, episodeVars, worldVars
<1>20. CASE UnloadEnds
  BY <1>20 DEF UnloadEnds, episodeVars, worldVars
<1> QED
  BY <1>1, <1>2, <1>3, <1>4, <1>5, <1>6, <1>7, <1>8, <1>9, <1>10, <1>11,
     <1>12, <1>13, <1>14, <1>15, <1>16, <1>17, <1>18, <1>19, <1>20 DEF Next

\* Every step keeps the type invariant.
LEMMA SupervisorTypeNext == TypeOK /\ [Next]_vars => TypeOK'
<1> SUFFICES ASSUME TypeOK, [Next]_vars PROVE TypeOK'
  OBVIOUS
<1>1. SupervisorFlags /\ SupervisorData
  BY SupervisorTypeHalves
<1>2. SupervisorFlags'
  BY <1>1, SupervisorFlagsNext
<1>3. SupervisorData'
  BY <1>1, SupervisorDataNext
<1> QED
  BY <1>2, <1>3, Zenon DEF TypeOK, SupervisorFlags, SupervisorData

\* A fresh set-up satisfies every part of the invariant.
LEMMA SupervisorInvInit == Init => SupervisorInv
BY DEF Init, SupervisorInv, LockInv, PursuedInv, ConnectedIsServed,
       OutageStartsFresh, Down, Holds, Loops

\* No step lets two cycles run at once, or a ladder run over a live link.
LEMMA LockNext == ASSUME TypeOK, LockInv, [Next]_vars PROVE LockInv'
<1> USE DEF TypeOK, Loops, Routines, Stages,
            LockInv, Holds
<1>1. CASE UNCHANGED vars
  BY <1>1 DEF vars, loopVars, episodeVars, worldVars
<1>2. ASSUME NEW to \in {"off", "ready", "refuses"}, MachineChanges(to)
      PROVE  LockInv'
  BY <1>2 DEF MachineChanges, loopVars, episodeVars
<1>3. CASE GoesOffAir
  BY <1>3 DEF GoesOffAir, loopVars, episodeVars
<1>4. ASSUME NEW adopted \in BOOLEAN, Advert(adopted)
      PROVE  LockInv'
  BY <1>4 DEF Advert, Scheduled, WokenUp, episodeVars
<1>5. ASSUME NEW loop \in Loops, NEW starved \in BOOLEAN,
             TimerElapses(loop, starved)
      PROVE  LockInv'
  BY <1>5 DEF TimerElapses, Attempt, Connect, BeginCycle, BackToTop,
         StartedPolling, attemptUnchanged, worldVars
<1>6. ASSUME NEW loop \in Loops, NEW starved \in BOOLEAN,
             CutsBackoffShort(loop, starved)
      PROVE  LockInv'
  BY <1>6 DEF CutsBackoffShort, Attempt, Connect, BeginCycle, BackToTop,
         StartedPolling, attemptUnchanged, worldVars
<1>7. ASSUME NEW loop \in Loops,
             NEW hardFailure \in BOOLEAN, NEW starved \in BOOLEAN,
             CycleFails(loop, hardFailure, starved)
      PROVE  LockInv'
  BY <1>7 DEF CycleFails, NoteFailure, TriggerRepair, ReachesThreshold,
         BackToTop, worldVars
<1>8. ASSUME NEW loop \in Loops,
             NEW hardFailure \in BOOLEAN, NEW starved \in BOOLEAN,
             ReadsRaise(loop, hardFailure, starved)
      PROVE  LockInv'
  BY <1>8 DEF ReadsRaise, NoteFailure, TriggerRepair, ReachesThreshold,
         BackToTop, worldVars
<1>9. ASSUME NEW loop \in Loops, IgnoresWake(loop)
      PROVE  LockInv'
  BY <1>9 DEF IgnoresWake, attemptUnchanged, worldVars
<1>10. ASSUME NEW loop \in Loops, GetsLock(loop)
       PROVE  LockInv'
  BY <1>10 DEF GetsLock, BeginCycle, StartedPolling, attemptUnchanged,
         worldVars
<1>11. ASSUME NEW loop \in Loops, HandshakeSucceeds(loop)
       PROVE  LockInv'
  BY <1>11 DEF HandshakeSucceeds, FailuresAfterSuccess, worldVars
<1>12. ASSUME NEW loop \in Loops, ReadsEnd(loop)
       PROVE  LockInv'
  BY <1>12 DEF ReadsEnd, StartedPolling, episodeVars, worldVars
<1>13. CASE LinkDrops
  BY <1>13 DEF LinkDrops, ScheduledAfterLoss, Scheduled, episodeVars,
         worldVars
<1>14. CASE PollGivesUp
  BY <1>14 DEF PollGivesUp, episodeVars, worldVars
<1>15. CASE PollClosed
  BY <1>15 DEF PollClosed, ScheduledAfterLoss, Scheduled, episodeVars,
         worldVars
<1>16. CASE PollEnds
  BY <1>16 DEF PollEnds, episodeVars, worldVars
<1>17. ASSUME NEW routine \in Routines, RepairStarts(routine)
       PROVE  LockInv'
  BY <1>17 DEF RepairStarts, Disconnect, episodeVars, worldVars
<1>18. ASSUME NEW routine \in Routines, RepairEnds(routine)
       PROVE  LockInv'
  BY <1>18 DEF RepairEnds, Rearmed, Scheduled, WokenUp, episodeVars, worldVars
<1>19. CASE UnloadStarts
  BY <1>19 DEF UnloadStarts, Disconnect, episodeVars, worldVars
<1>20. CASE UnloadEnds
  BY <1>20 DEF UnloadEnds, episodeVars, worldVars
<1> QED
  BY <1>1, <1>2, <1>3, <1>4, <1>5, <1>6, <1>7, <1>8, <1>9, <1>10, <1>11,
     <1>12, <1>13, <1>14, <1>15, <1>16, <1>17, <1>18, <1>19, <1>20 DEF Next

\* No step drops the pursuit of a lost link.
LEMMA PursuedNext == ASSUME TypeOK, LockInv, PursuedInv, [Next]_vars PROVE PursuedInv'
<1> USE DEF TypeOK, Loops, Routines, Stages,
            PursuedInv, LockInv, Down, Holds, AdvertSchedules, ExternalLoopActive, Alive,
            CancelsReconnectTask, MaybeDisconnecting
<1>1. CASE UNCHANGED vars
  BY <1>1 DEF vars, loopVars, episodeVars, worldVars
<1>2. ASSUME NEW to \in {"off", "ready", "refuses"}, MachineChanges(to)
      PROVE  PursuedInv'
  BY <1>2 DEF MachineChanges, loopVars, episodeVars
<1>3. CASE GoesOffAir
  BY <1>3 DEF GoesOffAir, loopVars, episodeVars
<1>4. ASSUME NEW adopted \in BOOLEAN, Advert(adopted)
      PROVE  PursuedInv'
  BY <1>4 DEF Advert, Scheduled, WokenUp, episodeVars
<1>5. ASSUME NEW loop \in Loops, NEW starved \in BOOLEAN,
             TimerElapses(loop, starved)
      PROVE  PursuedInv'
  BY <1>5 DEF TimerElapses, Attempt, Connect, BeginCycle, BackToTop,
         StartedPolling, attemptUnchanged, worldVars
<1>6. ASSUME NEW loop \in Loops, NEW starved \in BOOLEAN,
             CutsBackoffShort(loop, starved)
      PROVE  PursuedInv'
  BY <1>6 DEF CutsBackoffShort, Attempt, Connect, BeginCycle, BackToTop,
         StartedPolling, attemptUnchanged, worldVars
<1>7. ASSUME NEW loop \in Loops,
             NEW hardFailure \in BOOLEAN, NEW starved \in BOOLEAN,
             CycleFails(loop, hardFailure, starved)
      PROVE  PursuedInv'
  BY <1>7 DEF CycleFails, NoteFailure, TriggerRepair, ReachesThreshold,
         BackToTop, worldVars
<1>8. ASSUME NEW loop \in Loops,
             NEW hardFailure \in BOOLEAN, NEW starved \in BOOLEAN,
             ReadsRaise(loop, hardFailure, starved)
      PROVE  PursuedInv'
  BY <1>8 DEF ReadsRaise, NoteFailure, TriggerRepair, ReachesThreshold,
         BackToTop, worldVars
<1>9. ASSUME NEW loop \in Loops, IgnoresWake(loop)
      PROVE  PursuedInv'
  BY <1>9 DEF IgnoresWake, attemptUnchanged, worldVars
<1>10. ASSUME NEW loop \in Loops, GetsLock(loop)
       PROVE  PursuedInv'
  BY <1>10 DEF GetsLock, BeginCycle, StartedPolling, attemptUnchanged,
         worldVars
<1>11. ASSUME NEW loop \in Loops, HandshakeSucceeds(loop)
       PROVE  PursuedInv'
  BY <1>11 DEF HandshakeSucceeds, FailuresAfterSuccess, worldVars
<1>12. ASSUME NEW loop \in Loops, ReadsEnd(loop)
       PROVE  PursuedInv'
  BY <1>12 DEF ReadsEnd, StartedPolling, episodeVars, worldVars
<1>13. CASE LinkDrops
  BY <1>13 DEF LinkDrops, ScheduledAfterLoss, Scheduled, episodeVars,
         worldVars
<1>14. CASE PollGivesUp
  BY <1>14 DEF PollGivesUp, episodeVars, worldVars
<1>15. CASE PollClosed
  BY <1>15 DEF PollClosed, ScheduledAfterLoss, Scheduled, episodeVars,
         worldVars
<1>16. CASE PollEnds
  BY <1>16 DEF PollEnds, episodeVars, worldVars
<1>17. ASSUME NEW routine \in Routines, RepairStarts(routine)
       PROVE  PursuedInv'
  BY <1>17 DEF RepairStarts, Disconnect, episodeVars, worldVars
<1>18. ASSUME NEW routine \in Routines, RepairEnds(routine)
       PROVE  PursuedInv'
  BY <1>18 DEF RepairEnds, Rearmed, Scheduled, WokenUp, episodeVars, worldVars
<1>19. CASE UnloadStarts
  BY <1>19 DEF UnloadStarts, Disconnect, episodeVars, worldVars
<1>20. CASE UnloadEnds
  BY <1>20 DEF UnloadEnds, episodeVars, worldVars
<1> QED
  BY <1>1, <1>2, <1>3, <1>4, <1>5, <1>6, <1>7, <1>8, <1>9, <1>10, <1>11,
     <1>12, <1>13, <1>14, <1>15, <1>16, <1>17, <1>18, <1>19, <1>20 DEF Next

\* No step leaves a live link unpolled or unannounced.
LEMMA ServedNext == ASSUME TypeOK, ConnectedIsServed, [Next]_vars PROVE ConnectedIsServed'
<1> USE DEF TypeOK, Loops, Routines, Stages,
            ConnectedIsServed
<1>1. CASE UNCHANGED vars
  BY <1>1 DEF vars, loopVars, episodeVars, worldVars
<1>2. ASSUME NEW to \in {"off", "ready", "refuses"}, MachineChanges(to)
      PROVE  ConnectedIsServed'
  BY <1>2 DEF MachineChanges, loopVars, episodeVars
<1>3. CASE GoesOffAir
  BY <1>3 DEF GoesOffAir, loopVars, episodeVars
<1>4. ASSUME NEW adopted \in BOOLEAN, Advert(adopted)
      PROVE  ConnectedIsServed'
  BY <1>4 DEF Advert, Scheduled, WokenUp, episodeVars
<1>5. ASSUME NEW loop \in Loops, NEW starved \in BOOLEAN,
             TimerElapses(loop, starved)
      PROVE  ConnectedIsServed'
  BY <1>5 DEF TimerElapses, Attempt, Connect, BeginCycle, BackToTop,
         StartedPolling, attemptUnchanged, worldVars
<1>6. ASSUME NEW loop \in Loops, NEW starved \in BOOLEAN,
             CutsBackoffShort(loop, starved)
      PROVE  ConnectedIsServed'
  BY <1>6 DEF CutsBackoffShort, Attempt, Connect, BeginCycle, BackToTop,
         StartedPolling, attemptUnchanged, worldVars
<1>7. ASSUME NEW loop \in Loops,
             NEW hardFailure \in BOOLEAN, NEW starved \in BOOLEAN,
             CycleFails(loop, hardFailure, starved)
      PROVE  ConnectedIsServed'
  BY <1>7 DEF CycleFails, NoteFailure, TriggerRepair, ReachesThreshold,
         BackToTop, worldVars
<1>8. ASSUME NEW loop \in Loops,
             NEW hardFailure \in BOOLEAN, NEW starved \in BOOLEAN,
             ReadsRaise(loop, hardFailure, starved)
      PROVE  ConnectedIsServed'
  BY <1>8 DEF ReadsRaise, NoteFailure, TriggerRepair, ReachesThreshold,
         BackToTop, worldVars
<1>9. ASSUME NEW loop \in Loops, IgnoresWake(loop)
      PROVE  ConnectedIsServed'
  BY <1>9 DEF IgnoresWake, attemptUnchanged, worldVars
<1>10. ASSUME NEW loop \in Loops, GetsLock(loop)
       PROVE  ConnectedIsServed'
  BY <1>10 DEF GetsLock, BeginCycle, StartedPolling, attemptUnchanged,
         worldVars
<1>11. ASSUME NEW loop \in Loops, HandshakeSucceeds(loop)
       PROVE  ConnectedIsServed'
  BY <1>11 DEF HandshakeSucceeds, FailuresAfterSuccess, worldVars
<1>12. ASSUME NEW loop \in Loops, ReadsEnd(loop)
       PROVE  ConnectedIsServed'
  BY <1>12 DEF ReadsEnd, StartedPolling, episodeVars, worldVars
<1>13. CASE LinkDrops
  BY <1>13 DEF LinkDrops, ScheduledAfterLoss, Scheduled, episodeVars,
         worldVars
<1>14. CASE PollGivesUp
  BY <1>14 DEF PollGivesUp, episodeVars, worldVars
<1>15. CASE PollClosed
  BY <1>15 DEF PollClosed, ScheduledAfterLoss, Scheduled, episodeVars,
         worldVars
<1>16. CASE PollEnds
  BY <1>16 DEF PollEnds, episodeVars, worldVars
<1>17. ASSUME NEW routine \in Routines, RepairStarts(routine)
       PROVE  ConnectedIsServed'
  BY <1>17 DEF RepairStarts, Disconnect, episodeVars, worldVars
<1>18. ASSUME NEW routine \in Routines, RepairEnds(routine)
       PROVE  ConnectedIsServed'
  BY <1>18 DEF RepairEnds, Rearmed, Scheduled, WokenUp, episodeVars, worldVars
<1>19. CASE UnloadStarts
  BY <1>19 DEF UnloadStarts, Disconnect, episodeVars, worldVars
<1>20. CASE UnloadEnds
  BY <1>20 DEF UnloadEnds, episodeVars, worldVars
<1> QED
  BY <1>1, <1>2, <1>3, <1>4, <1>5, <1>6, <1>7, <1>8, <1>9, <1>10, <1>11,
     <1>12, <1>13, <1>14, <1>15, <1>16, <1>17, <1>18, <1>19, <1>20 DEF Next

\* No step counts a failure while a link is up.
LEMMA FreshNext == ASSUME TypeOK, LockInv, OutageStartsFresh, [Next]_vars PROVE OutageStartsFresh'
<1> USE DEF TypeOK, Loops, Routines, Stages,
            OutageStartsFresh, LockInv
<1>1. CASE UNCHANGED vars
  BY <1>1 DEF vars, loopVars, episodeVars, worldVars
<1>2. ASSUME NEW to \in {"off", "ready", "refuses"}, MachineChanges(to)
      PROVE  OutageStartsFresh'
  BY <1>2 DEF MachineChanges, loopVars, episodeVars
<1>3. CASE GoesOffAir
  BY <1>3 DEF GoesOffAir, loopVars, episodeVars
<1>4. ASSUME NEW adopted \in BOOLEAN, Advert(adopted)
      PROVE  OutageStartsFresh'
  BY <1>4 DEF Advert, Scheduled, WokenUp, episodeVars
<1>5. ASSUME NEW loop \in Loops, NEW starved \in BOOLEAN,
             TimerElapses(loop, starved)
      PROVE  OutageStartsFresh'
  BY <1>5 DEF TimerElapses, Attempt, Connect, BeginCycle, BackToTop,
         StartedPolling, attemptUnchanged, worldVars
<1>6. ASSUME NEW loop \in Loops, NEW starved \in BOOLEAN,
             CutsBackoffShort(loop, starved)
      PROVE  OutageStartsFresh'
  BY <1>6 DEF CutsBackoffShort, Attempt, Connect, BeginCycle, BackToTop,
         StartedPolling, attemptUnchanged, worldVars
<1>7. ASSUME NEW loop \in Loops,
             NEW hardFailure \in BOOLEAN, NEW starved \in BOOLEAN,
             CycleFails(loop, hardFailure, starved)
      PROVE  OutageStartsFresh'
  BY <1>7 DEF CycleFails, NoteFailure, TriggerRepair, ReachesThreshold,
         BackToTop, worldVars
<1>8. ASSUME NEW loop \in Loops,
             NEW hardFailure \in BOOLEAN, NEW starved \in BOOLEAN,
             ReadsRaise(loop, hardFailure, starved)
      PROVE  OutageStartsFresh'
  BY <1>8 DEF ReadsRaise, NoteFailure, TriggerRepair, ReachesThreshold,
         BackToTop, worldVars
<1>9. ASSUME NEW loop \in Loops, IgnoresWake(loop)
      PROVE  OutageStartsFresh'
  BY <1>9 DEF IgnoresWake, attemptUnchanged, worldVars
<1>10. ASSUME NEW loop \in Loops, GetsLock(loop)
       PROVE  OutageStartsFresh'
  BY <1>10 DEF GetsLock, BeginCycle, StartedPolling, attemptUnchanged,
         worldVars
<1>11. ASSUME NEW loop \in Loops, HandshakeSucceeds(loop)
       PROVE  OutageStartsFresh'
  BY <1>11 DEF HandshakeSucceeds, FailuresAfterSuccess, worldVars
<1>12. ASSUME NEW loop \in Loops, ReadsEnd(loop)
       PROVE  OutageStartsFresh'
  BY <1>12 DEF ReadsEnd, StartedPolling, episodeVars, worldVars
<1>13. CASE LinkDrops
  BY <1>13 DEF LinkDrops, ScheduledAfterLoss, Scheduled, episodeVars,
         worldVars
<1>14. CASE PollGivesUp
  BY <1>14 DEF PollGivesUp, episodeVars, worldVars
<1>15. CASE PollClosed
  BY <1>15 DEF PollClosed, ScheduledAfterLoss, Scheduled, episodeVars,
         worldVars
<1>16. CASE PollEnds
  BY <1>16 DEF PollEnds, episodeVars, worldVars
<1>17. ASSUME NEW routine \in Routines, RepairStarts(routine)
       PROVE  OutageStartsFresh'
  BY <1>17 DEF RepairStarts, Disconnect, episodeVars, worldVars
<1>18. ASSUME NEW routine \in Routines, RepairEnds(routine)
       PROVE  OutageStartsFresh'
  BY <1>18 DEF RepairEnds, Rearmed, Scheduled, WokenUp, episodeVars, worldVars
<1>19. CASE UnloadStarts
  BY <1>19 DEF UnloadStarts, Disconnect, episodeVars, worldVars
<1>20. CASE UnloadEnds
  BY <1>20 DEF UnloadEnds, episodeVars, worldVars
<1> QED
  BY <1>1, <1>2, <1>3, <1>4, <1>5, <1>6, <1>7, <1>8, <1>9, <1>10, <1>11,
     <1>12, <1>13, <1>14, <1>15, <1>16, <1>17, <1>18, <1>19, <1>20 DEF Next

\* The invariant holds in every reachable state.
LEMMA SupervisorInvariance == Spec => []SupervisorIInv
<1>1. Init => SupervisorIInv
  BY SupervisorTypeInit, SupervisorInvInit DEF SupervisorIInv
<1>2. SupervisorIInv /\ [Next]_vars => SupervisorIInv'
  BY SupervisorTypeNext, LockNext, PursuedNext, ServedNext, FreshNext
     DEF SupervisorIInv, SupervisorInv
<1> QED
  BY <1>1, <1>2, PTL DEF Spec

(* Every variable of the supervisor keeps its type; in particular the count *)
(* of failures of a loaded entry stays below the repair threshold           *)
(* (_note_connect_failure).                                                 *)
THEOREM SupervisorTypeCorrect == Spec => []TypeOK
BY SupervisorInvariance, PTL DEF SupervisorIInv

(* While the client is meant to be connected and is not, a task is at work  *)
(* on it: both connect loops, the poll loop's forced disconnect, the        *)
(* disconnect callback and the repair routines hand over to one another     *)
(* without a gap, except when the link is lost under the last read.         *)
THEOREM LossHandedOver == Spec => []LossIsPursued
<1>1. SupervisorIInv => LossIsPursued
  BY DEF SupervisorIInv, SupervisorInv, PursuedInv, LossIsPursued, Pursued, Loops
<1> QED
  BY <1>1, SupervisorInvariance, PTL

(* A link that is up is polled and announced, once its cycle is over        *)
(* (start_polling and the connection callbacks of _connect_impl).           *)
THEOREM LinkIsServed == Spec => []ConnectedIsServed
BY SupervisorInvariance, PTL DEF SupervisorIInv, SupervisorInv

(* The failure counter and the episode's classes are clear while a link is  *)
(* up (the reset in _connect_impl is never undone by another loop's count). *)
THEOREM FreshAfterSuccess == Spec => []OutageStartsFresh
BY SupervisorInvariance, PTL DEF SupervisorIInv, SupervisorInv

-----------------------------------------------------------------------------
(* StreamFramer.  Byte by byte: of an answer that has arrived whole so far  *)
(* the framer has the bytes, and of one that has lost a notification, a     *)
(* segment of what arrived of it, which is not a frame.  Both loops go over *)
(* the bytes of one notification, whose places in the frame follow those of *)
(* the one before it.                                                       *)


Unfinished == {bytes \in Seq(Byte) : Len(bytes) <= BufferLimit}

Framer == [buffer : Unfinished, age : 0 .. Limit + 1, out : Seq(Seq(Byte))]

\* Processing a byte leaves what the framer has of its type.
LEMMA ProcessedIsFramer ==
  ASSUME NEW framer \in Framer, NEW byte \in Byte
  PROVE  Processed(framer, byte) \in Framer
<1>0. BufferLimit \in Nat \ {0} /\ Limit \in Nat
  BY FramesAssumption, PatienceAssumption
<1>1. <<byte>> \in Unfinished /\ <<>> \in Unfinished /\ 0 \in 0 .. Limit + 1
  BY <1>0 DEF Unfinished
<1>2. Begins(framer, byte) \in Framer
  BY <1>1 DEF Begins, Framer
<1>3. [framer EXCEPT !.buffer = <<>>, !.age = 0] \in Framer
  BY <1>1 DEF Framer
<1>4. ASSUME Len(framer.buffer) < BufferLimit PROVE Appended(framer, byte) \in Framer
  <2> DEFINE longer == [framer EXCEPT !.buffer = Append(@, byte)]
  <2>1. framer.buffer \in Seq(Byte)
    BY DEF Framer, Unfinished
  <2>2. Append(framer.buffer, byte) \in Unfinished
    BY <1>0, <1>4, <2>1 DEF Unfinished
  <2>3. longer \in Framer
    BY <2>2 DEF Framer
  <2>4. Parsed(longer) \in Framer
    <3> HIDE DEF longer
    <3>1. longer.buffer \in Seq(Byte) /\ longer.out \in Seq(Seq(Byte))
      BY <2>3 DEF Framer, Unfinished
    <3>2. Append(longer.out, longer.buffer) \in Seq(Seq(Byte))
      BY <3>1
    <3> QED BY <1>1, <3>1, <3>2 DEF Parsed, Framer
  <2> QED BY <2>3, <2>4 DEF Appended
<1>5. Len(framer.buffer) \in Nat
  BY DEF Framer, Unfinished
<1> QED BY <1>0, <1>2, <1>3, <1>4, <1>5 DEF Processed

(* Induction over the natural numbers, for the sets it is used with here.     *)
LEMMA NaturalInduction ==
  ASSUME NEW S \in SUBSET Nat, 0 \in S, \A n \in S : n + 1 \in S
  PROVE  S = Nat
<1> DEFINE T == Nat \ S
<1> SUFFICES ASSUME T # {} PROVE FALSE
  OBVIOUS
<1>1. PICK x \in T : \A y \in T : x <= y
  BY LeastNumber
<1>2. x # 0 /\ x - 1 \in Nat
  OBVIOUS
<1>3. x - 1 \in S
  BY <1>1, <1>2
<1> QED BY <1>2, <1>3

(* The values of a loop over n entries, as a function of how many it has      *)
(* done.                                                                     *)
IsLoop(f, n, X, first, step) ==
  /\ f \in [0 .. n -> X] /\ f[0] = first
  /\ \A i \in 1 .. n : f[i] = step[<<i, f[i - 1]>>]

(* Any first value and any step from one value to the next make a loop: what   *)
(* a recursive function needs to be one.                                     *)
LEMMA LoopExists ==
  ASSUME NEW X, NEW first \in X, NEW n \in Nat, NEW step \in [(1 .. n) \X X -> X]
  PROVE  \E f : IsLoop(f, n, X, first, step)
<1> USE DEF IsLoop
<1> DEFINE Is(f, m) == IsLoop(f, m, X, first, step)
           S == {m \in Nat : m <= n => \E f : Is(f, m)}
<1>1. 0 \in S
  <2>1. Is([i \in 0 .. 0 |-> first], 0)
    OBVIOUS
  <2> QED BY <2>1
<1>2. ASSUME NEW m \in S PROVE m + 1 \in S
  <2> SUFFICES ASSUME m + 1 <= n PROVE \E f : Is(f, m + 1)
    OBVIOUS
  <2>1. PICK g : Is(g, m)
    BY m <= n
  <2> DEFINE f == [i \in 0 .. m + 1 |-> IF i <= m THEN g[i]
                                        ELSE step[<<m + 1, g[m]>>]]
  <2>2. g[m] \in X /\ m + 1 \in 1 .. n
    BY <2>1
  <2>3. step[<<m + 1, g[m]>>] \in X
    BY <2>2
  <2>4. f \in [0 .. m + 1 -> X] /\ f[0] = first
    BY <2>1, <2>3
  <2>5. ASSUME NEW i \in 1 .. m + 1 PROVE f[i] = step[<<i, f[i - 1]>>]
    <3>1. CASE i \in 1 .. m
      <4>1. f[i] = g[i] /\ f[i - 1] = g[i - 1]
        BY <3>1
      <4> QED BY <2>1, <3>1, <4>1
    <3>2. CASE i = m + 1
      <4>1. f[i] = step[<<m + 1, g[m]>>] /\ f[i - 1] = g[m]
        BY <3>2
      <4> QED BY <3>2, <4>1
    <3> QED BY <3>1, <3>2
  <2> HIDE DEF f
  <2> QED BY <2>4, <2>5
<1>3. n \in S
  <2> HIDE DEF S
  <2>1. S \in SUBSET Nat
    BY DEF S
  <2> QED BY <1>1, <1>2, <2>1, NaturalInduction
<1> QED BY <1>3

\* The bytes of a notification are processed one after the other.
LEMMA ReceivedByByte ==
  ASSUME NEW bytes \in Seq(Byte), buffer \in Unfinished, age \in 0 .. Limit + 1
  PROVE  \E after \in [0 .. Len(bytes) -> Framer] :
           /\ after[0] = [buffer |-> buffer, age |-> age, out |-> <<>>]
           /\ \A i \in 1 .. Len(bytes) : after[i] = Processed(after[i - 1], bytes[i])
           /\ Received(bytes) = after[Len(bytes)]
<1> DEFINE n == Len(bytes)
           next(i, had) == Processed(had, bytes[i])
           step == [p \in (1 .. n) \X Framer |-> next(p[1], p[2])]
           first == [buffer |-> buffer, age |-> age, out |-> <<>>]
           after[i \in 0 .. n] == IF i = 0 THEN first ELSE next(i, after[i - 1])
<1>1. n \in Nat /\ first \in Framer
  BY DEF Framer
<1>2. ASSUME NEW i \in 1 .. n, NEW had \in Framer PROVE next(i, had) \in Framer
  BY ProcessedIsFramer
<1>3. step \in [(1 .. n) \X Framer -> Framer]
  BY <1>2
<1>11. Received(bytes) = after[n]
  BY DEF Received
<1>12. first = [buffer |-> buffer, age |-> age, out |-> <<>>] /\ n = Len(bytes)
       /\ \A i, had : next(i, had) = Processed(had, bytes[i])
  OBVIOUS
<1> HIDE DEF n, next
<1>4. \A i \in 1 .. n, had \in Framer : step[<<i, had>>] = next(i, had)
  OBVIOUS
<1> HIDE DEF step, first, after
<1>5. PICK f : IsLoop(f, n, Framer, first, step)
  BY <1>1, <1>3, LoopExists
<1>6. f \in [0 .. n -> Framer] /\ f = [i \in 0 .. n |-> IF i = 0 THEN first ELSE next(i, f[i - 1])]
  <2>1. \A i \in 0 .. n : i # 0 => i \in 1 .. n /\ f[i - 1] \in Framer
    BY <1>1, <1>5 DEF IsLoop
  <2> QED BY <1>4, <1>5, <2>1 DEF IsLoop
<1>7. after = [i \in 0 .. n |-> IF i = 0 THEN first ELSE next(i, after[i - 1])]
  BY <1>6 DEF after
<1> DEFINE S == {m \in Nat : m <= n => after[m] \in Framer}
<1>8. 0 \in S
  BY <1>1, <1>7
<1>9. ASSUME NEW m \in S PROVE m + 1 \in S
  <2> SUFFICES ASSUME m + 1 <= n PROVE after[m + 1] \in Framer
    OBVIOUS
  <2>1. after[m + 1] = next(m + 1, after[m]) /\ after[m] \in Framer
    BY <1>1, <1>7
  <2>2. m + 1 \in 1 .. n
    BY <1>1
  <2> QED BY <1>2, <2>1, <2>2
<1>10. S = Nat
  <2> HIDE DEF S
  <2>1. S \in SUBSET Nat
    BY DEF S
  <2> QED BY <1>8, <1>9, <2>1, NaturalInduction
<1>13. after \in [0 .. n -> Framer]
  <2>1. \A i \in 0 .. n : after[i] \in Framer
    BY <1>1, <1>10
  <2> QED BY <1>7, <2>1
<1>14. after[0] = first /\ \A i \in 1 .. n : after[i] = next(i, after[i - 1])
  BY <1>1, <1>7
<1> QED BY <1>11, <1>12, <1>13, <1>14

-----------------------------------------------------------------------------
\* Reading on to a later place appends its byte.
LEMMA BytesExtend ==
  ASSUME NEW frame, NEW places \in SUBSET Nat, IsFiniteSet(places),
         NEW last \in Nat, \A p \in places : p < last
  PROVE  BytesAt(frame, places \cup {last}) = Append(BytesAt(frame, places), frame[last])
<1> DEFINE more == places \cup {last}
           c == Cardinality(places)
           Rank(P, p) == Cardinality({q \in P : q <= p})
<1>0. \A p \in more : p \in Nat /\ p <= last /\ (p \in places <=> p # last)
  OBVIOUS
<1>1. c \in Nat /\ Cardinality(more) = c + 1 /\ IsFiniteSet(more)
  BY FS_CardinalityType, FS_AddElement
<1>2. Rank(more, last) = c + 1
  <2>1. {q \in more : q <= last} = more
    BY <1>0
  <2> QED BY <1>1, <2>1
<1>3. ASSUME NEW p \in places
      PROVE  Rank(more, p) = Rank(places, p) /\ Rank(places, p) \in 0 .. c
  <2>1. {q \in more : q <= p} = {q \in places : q <= p}
    BY <1>0
  <2>2. {q \in places : q <= p} \in SUBSET places
    OBVIOUS
  <2>3. Cardinality({q \in places : q <= p}) <= c /\ IsFiniteSet({q \in places : q <= p})
    BY <2>2, FS_Subset
  <2>4. Cardinality({q \in places : q <= p}) \in Nat
    BY <2>3, FS_CardinalityType
  <2> QED BY <1>1, <2>1, <2>3, <2>4
<1>4. BytesAt(frame, more) =
        [n \in 1 .. c + 1 |-> frame[CHOOSE p \in {q \in more : Rank(more, q) = n} : TRUE]]
  BY <1>1 DEF BytesAt
<1>5. BytesAt(frame, places) =
        [n \in 1 .. c |-> frame[CHOOSE p \in {q \in places : Rank(places, q) = n} : TRUE]]
  BY DEF BytesAt
<1> HIDE DEF Rank, c, more
<1>6. {q \in more : Rank(more, q) = c + 1} = {last}
  <2>1. ASSUME NEW q \in more PROVE Rank(more, q) = c + 1 <=> q = last
    <3>1. CASE q = last
      BY <1>2, <3>1
    <3>2. CASE q \in places
      <4>1. Rank(more, q) \in 0 .. c /\ q # last
        BY <1>0, <1>3, <3>2
      <4> QED BY <1>1, <4>1
    <3> QED BY <3>1, <3>2 DEF more
  <2>2. last \in more
    BY DEF more
  <2> QED BY <2>1, <2>2
<1>7. ASSUME NEW n \in 1 .. c
      PROVE  {q \in more : Rank(more, q) = n} = {q \in places : Rank(places, q) = n}
  <2>1. ASSUME NEW q \in more, Rank(more, q) = n PROVE q \in places /\ Rank(places, q) = n
    <3>1. q # last
      BY <1>1, <1>2, <2>1
    <3>2. q \in places
      BY <1>0, <3>1
    <3> QED BY <1>3, <2>1, <3>2
  <2>2. ASSUME NEW q \in places, Rank(places, q) = n PROVE q \in more /\ Rank(more, q) = n
    BY <1>3, <2>2 DEF more
  <2> QED BY <2>1, <2>2
<1>8. BytesAt(frame, more)[c + 1] = frame[last]
  <2>1. (CHOOSE p \in {q \in more : Rank(more, q) = c + 1} : TRUE) = last
    BY <1>6
  <2>2. c + 1 \in 1 .. c + 1
    BY <1>1
  <2> QED BY <1>4, <2>1, <2>2
<1>9. \A n \in 1 .. c : BytesAt(frame, more)[n] = BytesAt(frame, places)[n]
  <2> TAKE n \in 1 .. c
  <2>1. n \in 1 .. c + 1
    BY <1>1
  <2>2. BytesAt(frame, more)[n] = frame[CHOOSE p \in {q \in more : Rank(more, q) = n} : TRUE]
    BY <1>4, <2>1
  <2>3. BytesAt(frame, places)[n] = frame[CHOOSE p \in {q \in places : Rank(places, q) = n} : TRUE]
    BY <1>5
  <2> QED BY <1>7, <2>2, <2>3
<1>10. Len(BytesAt(frame, places)) = c /\ DOMAIN BytesAt(frame, more) = 1 .. c + 1
  BY <1>1, <1>4, <1>5
<1>11. Append(BytesAt(frame, places), frame[last]) =
         [n \in 1 .. c + 1 |-> IF n = c + 1 THEN frame[last] ELSE BytesAt(frame, places)[n]]
  BY <1>1, <1>5, <1>10
<1>12. BytesAt(frame, more) = [n \in 1 .. c + 1 |-> BytesAt(frame, more)[n]]
  BY <1>4
<1>13. \A n \in 1 .. c + 1 :
         BytesAt(frame, more)[n] = IF n = c + 1 THEN frame[last] ELSE BytesAt(frame, places)[n]
  BY <1>1, <1>8, <1>9
<1> QED BY <1>11, <1>12, <1>13 DEF more

\* No place, no byte.
LEMMA NoBytes == ASSUME NEW frame PROVE BytesAt(frame, {}) = <<>>
BY FS_EmptySet DEF BytesAt

\* The byte at one place.
LEMMA OneByte ==
  ASSUME NEW frame, NEW p \in Nat PROVE BytesAt(frame, {p}) = <<frame[p]>>
<1>1. BytesAt(frame, {} \cup {p}) = Append(<<>>, frame[p])
  BY BytesExtend, NoBytes, FS_EmptySet
<1> QED BY <1>1

\* All the bytes up to a place are what the frame begins with.
LEMMA AllBytes ==
  ASSUME NEW frame \in Seq(Byte), NEW m \in 0 .. Len(frame)
  PROVE  BytesAt(frame, 1 .. m) = SubSeq(frame, 1, m)
<1> DEFINE S == {k \in Nat : k <= Len(frame) => BytesAt(frame, 1 .. k) = SubSeq(frame, 1, k)}
<1>1. 0 \in S
  <2>1. 1 .. 0 = {} /\ SubSeq(frame, 1, 0) = <<>>
    OBVIOUS
  <2> QED BY <2>1, NoBytes
<1>2. ASSUME NEW k \in S PROVE k + 1 \in S
  <2> SUFFICES ASSUME k + 1 <= Len(frame)
               PROVE  BytesAt(frame, 1 .. k + 1) = SubSeq(frame, 1, k + 1)
    OBVIOUS
  <2>1. BytesAt(frame, 1 .. k) = SubSeq(frame, 1, k)
    OBVIOUS
  <2>2. 1 .. k + 1 = (1 .. k) \cup {k + 1}
    OBVIOUS
  <2>4. IsFiniteSet(1 .. k)
    BY 1 \in Int, k \in Int, FS_Interval
  <2>5. 1 .. k \in SUBSET Nat /\ k + 1 \in Nat /\ \A p \in 1 .. k : p < k + 1
    OBVIOUS
  <2>3. BytesAt(frame, 1 .. k + 1) = Append(SubSeq(frame, 1, k), frame[k + 1])
    BY <2>1, <2>2, <2>4, <2>5, BytesExtend
  <2> QED BY <2>3, SMTT(30)
<1>3. S = Nat
  <2> HIDE DEF S
  <2>1. S \in SUBSET Nat
    BY DEF S
  <2> QED BY <1>1, <1>2, <2>1, NaturalInduction
<1> QED BY <1>3
-----------------------------------------------------------------------------
\* What the quotient of a division is.
LEMMA Division ==
  ASSUME NEW a \in Nat, NEW m \in Nat \ {0}
  PROVE  /\ a \div m \in Nat
         /\ m * (a \div m) <= a /\ a < m * (a \div m) + m
<1>1. a % m \in 0 .. m - 1
  OBVIOUS
<1>2. a \div m \in Nat
  OBVIOUS
<1>3. a = m * (a \div m) + (a % m)
  OBVIOUS
<1>4. m * (a \div m) \in Nat
  BY <1>2
<1> QED BY <1>1, <1>2, <1>3, <1>4

\* The last place that the first notifications of a frame hold.
UpTo(frame, k) == IF k * Mtu < Len(frame) THEN k * Mtu ELSE Len(frame)

\* A frame is cut into notifications of Mtu bytes each, the last of what is left.
LEMMA ChunksFit ==
  ASSUME NEW frame \in Frames
  PROVE  /\ frame \in Seq(Byte) /\ Len(frame) >= 4
         /\ Chunks(frame) \in Seq(Seq(Byte)) /\ Len(Chunks(frame)) >= 1
         /\ \A k \in 0 .. Len(Chunks(frame)) - 1 :
              k * Mtu \in Nat /\ (k + 1) * Mtu = k * Mtu + Mtu /\ k * Mtu < Len(frame)
         /\ Len(Chunks(frame)) * Mtu >= Len(frame)
<1> DEFINE L == Len(frame)
           n == (L + Mtu - 1) \div Mtu
<1>1. frame \in Seq(Byte) /\ L \in Nat /\ L >= 4 /\ Mtu \in Nat \ {0}
  BY FramesAssumption, PatienceAssumption
<1>2. L + Mtu - 1 \in Nat
  BY <1>1
<1>3. n \in Nat /\ Mtu * n <= L + Mtu - 1 /\ L + Mtu - 1 < Mtu * n + Mtu
  BY <1>1, <1>2, Division
<1> HIDE DEF n
<1>4. n >= 1
  <2>1. CASE n = 0
    <3>1. Mtu * n = 0
      BY <1>1, <2>1
    <3> QED BY <1>1, <1>3, <3>1
  <2> QED BY <1>3, <2>1
<1>5. ASSUME NEW k \in 0 .. n - 1
      PROVE  k * Mtu \in Nat /\ (k + 1) * Mtu = k * Mtu + Mtu /\ k * Mtu < L
  <2>0. k \in Nat /\ n - 1 - k \in Nat
    BY <1>3
  <2>1. k * Mtu \in Nat
    BY <1>1, <2>0
  <2>2. (k + 1) * Mtu = k * Mtu + Mtu
    BY <1>1, <2>0
  <2>3. \A d \in Nat : d * Mtu \in Nat
    BY <1>1
  <2>4. (n - 1 - k) * Mtu >= 0
    BY <2>0, <2>3
  <2>5. Mtu * n = k * Mtu + (n - 1 - k) * Mtu + Mtu
    BY <1>1, <1>3, <2>0
  <2>6. Mtu * n \in Nat /\ (n - 1 - k) * Mtu \in Nat
    BY <1>1, <1>3, <2>0, <2>3
  <2> QED BY <1>1, <1>3, <2>1, <2>2, <2>4, <2>5, <2>6
<1>6. n * Mtu >= L
  <2>1. n * Mtu = Mtu * n /\ Mtu * n \in Nat
    BY <1>1, <1>3
  <2> QED BY <1>1, <1>3, <2>1
<1>7. Chunks(frame) \in Seq(Seq(Byte)) /\ Len(Chunks(frame)) = n
  <2> DEFINE Chunk(i) == SubSeq(frame, (i - 1) * Mtu + 1, IF i * Mtu < L THEN i * Mtu ELSE L)
  <2>1. ASSUME NEW i \in 1 .. n PROVE Chunk(i) \in Seq(Byte)
    <3>1. i - 1 \in 0 .. n - 1 /\ (i - 1) + 1 = i
      BY <1>3
    <3>2. (i - 1) * Mtu \in Nat /\ i * Mtu = (i - 1) * Mtu + Mtu
      BY <1>5, <3>1
    <3> DEFINE a == (i - 1) * Mtu + 1
               b == IF i * Mtu < L THEN i * Mtu ELSE L
    <3>3. a \in Nat \ {0} /\ b \in Nat /\ b <= L
      BY <1>1, <3>2
    <3> HIDE DEF a, b
    <3>4. SubSeq(frame, a, b) \in Seq(Byte)
      BY <1>1, <3>3
    <3> QED BY <3>4 DEF a, b
  <2>2. Chunks(frame) = [i \in 1 .. n |-> Chunk(i)]
    BY DEF Chunks, n
  <2> HIDE DEF Chunk
  <2> QED BY <1>3, <2>1, <2>2
<1> QED BY <1>1, <1>4, <1>5, <1>6, <1>7

\* A notification goes on where the one before it ends.
LEMMA ChunkGoesOn ==
  ASSUME NEW frame \in Frames, NEW k \in 0 .. Len(Chunks(frame)) - 1
  PROVE  LET chunk == Chunks(frame)[k + 1]
         IN  /\ chunk \in Seq(Byte)
             /\ UpTo(frame, k) = k * Mtu /\ k * Mtu \in Nat
             /\ UpTo(frame, k + 1) = UpTo(frame, k) + Len(chunk)
             /\ UpTo(frame, k + 1) <= Len(frame) /\ UpTo(frame, k + 1) <= (k + 1) * Mtu
             /\ UpTo(frame, k + 1) = Len(frame) <=> k + 1 = Len(Chunks(frame))
             /\ (k + 1) * Mtu = k * Mtu + Mtu
             /\ \A j \in 1 .. Len(chunk) : chunk[j] = frame[UpTo(frame, k) + j]
<1> DEFINE L == Len(frame)
           n == Len(Chunks(frame))
           a == k * Mtu
           b == UpTo(frame, k + 1)
           chunk == Chunks(frame)[k + 1]
<1>1. /\ frame \in Seq(Byte) /\ L \in Nat /\ n \in Nat /\ Mtu \in Nat \ {0} /\ k \in Nat
      /\ k + 1 \in 1 .. n
  BY ChunksFit, PatienceAssumption
<1>2. a \in Nat /\ (k + 1) * Mtu = a + Mtu /\ a < L /\ UpTo(frame, k) = a
  BY ChunksFit DEF UpTo
<1>3. b \in Nat /\ a < b /\ b <= L /\ b <= (k + 1) * Mtu
  BY <1>1, <1>2 DEF UpTo
<1>4. chunk = SubSeq(frame, a + 1, b)
  <2>1. DOMAIN Chunks(frame) = 1 .. ((L + Mtu - 1) \div Mtu)
    BY DEF Chunks
  <2>2. k + 1 \in DOMAIN Chunks(frame)
    BY <1>1, ChunksFit
  <2>3. (k + 1) - 1 = k
    BY <1>1
  <2>4. chunk = SubSeq(frame, ((k + 1) - 1) * Mtu + 1, b)
    BY <2>1, <2>2 DEF Chunks, UpTo
  <2> QED BY <2>3, <2>4
<1>5. b = L <=> k + 1 = n
  <2>0. b = IF (k + 1) * Mtu < L THEN (k + 1) * Mtu ELSE L
    BY DEF UpTo
  <2>1. CASE k + 1 = n
    <3>1. (k + 1) * Mtu >= L
      BY <2>1, ChunksFit
    <3> QED BY <1>1, <1>2, <2>0, <2>1, <3>1
  <2>2. CASE k + 1 \in 0 .. n - 1
    <3>1. (k + 1) * Mtu < L
      BY <2>2, ChunksFit
    <3>2. b < L
      BY <1>1, <1>2, <2>0, <3>1
    <3> QED BY <1>1, <2>2, <3>2
  <2> QED BY <1>1, <2>1, <2>2
<1> HIDE DEF a, b, L, n, chunk
<1>6. SubSeq(frame, a + 1, b) \in Seq(Byte) /\ Len(SubSeq(frame, a + 1, b)) = b - a
      /\ \A j \in 1 .. b - a : SubSeq(frame, a + 1, b)[j] = frame[a + j]
  BY <1>1, <1>2, <1>3 DEF L
<1> QED BY <1>2, <1>3, <1>4, <1>5, <1>6, SMTT(30) DEF a, b, L, n, chunk
-----------------------------------------------------------------------------
\* What is read from one place to another of the notifications that arrived.
Left(frame, kept, from, to) ==
  BytesAt(frame, {p \in Places(frame, kept) : from <= p /\ p <= to})

\* What is left up to a place that arrived ends with its byte.
LEMMA LeftExtends ==
  ASSUME NEW frame \in Frames, NEW kept, NEW from \in Nat, NEW p \in Places(frame, kept),
         from <= p
  PROVE  Left(frame, kept, from, p) = Append(Left(frame, kept, from, p - 1), frame[p])
<1> DEFINE P == {q \in Places(frame, kept) : from <= q /\ q <= p - 1}
           Q == {q \in Places(frame, kept) : from <= q /\ q <= p}
<1>1. Places(frame, kept) \in SUBSET (1 .. Len(frame)) /\ Len(frame) \in Nat
  BY ChunksFit DEF Places
<1>2. Q = P \cup {p} /\ P \in SUBSET Nat /\ p \in Nat /\ \A q \in P : q < p
  BY <1>1
<1>3. IsFiniteSet(P)
  <2>1. IsFiniteSet(1 .. Len(frame))
    BY <1>1, 1 \in Int, Len(frame) \in Int, FS_Interval
  <2>2. P \in SUBSET (1 .. Len(frame))
    BY <1>1
  <2> QED BY <2>1, <2>2, FS_Subset
<1> HIDE DEF P, Q
<1>4. BytesAt(frame, Q) = Append(BytesAt(frame, P), frame[p])
  BY <1>2, <1>3, BytesExtend
<1> QED BY <1>4 DEF Left, P, Q

\* Reading on after a loss, whatever is left is not a frame.
LEMMA LeftIsNoFrame ==
  ASSUME NEW frame \in Frames, NEW kept \in SUBSET (1 .. Len(Chunks(frame))),
         kept # 1 .. Len(Chunks(frame)), NEW from \in DOMAIN frame, NEW to \in DOMAIN frame
  PROVE  Left(frame, kept, from, to) \notin Frames
<1>1. DOMAIN Chunks(frame) = 1 .. Len(Chunks(frame))
  BY ChunksFit
<1> QED BY <1>1, ChecksumAssumption DEF Left

\* The places of the next notification, and what is left up to it.
LEMMA NextPlaces ==
  ASSUME NEW frame \in Frames, NEW k \in 0 .. Len(Chunks(frame)) - 1,
         NEW kept \in SUBSET (1 .. k)
  PROVE  /\ \A p \in UpTo(frame, k) + 1 .. UpTo(frame, k + 1) :
              p \in Places(frame, kept \cup {k + 1})
         /\ \A p \in Places(frame, kept) : p <= UpTo(frame, k)
         /\ \A from \in Nat :
              /\ Left(frame, kept \cup {k + 1}, from, UpTo(frame, k))
                   = Left(frame, kept, from, UpTo(frame, k))
              /\ Left(frame, kept, from, UpTo(frame, k + 1))
                   = Left(frame, kept, from, UpTo(frame, k))
<1> DEFINE a == UpTo(frame, k)
           b == UpTo(frame, k + 1)
           new == kept \cup {k + 1}
<1>1. /\ a \in Nat /\ b \in Nat /\ a <= b /\ b <= Len(frame) /\ Len(frame) \in Nat
      /\ a = k * Mtu /\ b <= (k + 1) * Mtu /\ (k + 1) * Mtu = a + Mtu
      /\ DOMAIN frame = 1 .. Len(frame) /\ Mtu \in Nat /\ k \in Nat
  BY ChunkGoesOn, ChunksFit, PatienceAssumption DEF UpTo
<1>2. ASSUME NEW p \in a + 1 .. b PROVE p \in Places(frame, new)
  <2>1. (k + 1) - 1 = k /\ k + 1 \in new
    BY <1>1
  <2>2. ((k + 1) - 1) * Mtu < p /\ p <= (k + 1) * Mtu /\ p \in DOMAIN frame
    BY <1>1, <2>1
  <2> QED BY <2>1, <2>2 DEF Places
<1>3. ASSUME NEW i \in 1 .. k PROVE i * Mtu \in Nat /\ i * Mtu <= a
  <2>1. i * Mtu \in Nat /\ (k - i) * Mtu \in Nat
    <3>1. \A d \in Nat : d * Mtu \in Nat
      BY <1>1
    <3> QED BY <1>1, <3>1, i \in Nat, k - i \in Nat
  <2>2. k * Mtu = i * Mtu + (k - i) * Mtu
    BY <1>1, i \in Nat
  <2> QED BY <1>1, <2>1, <2>2
<1>4. ASSUME NEW p \in Places(frame, kept) PROVE p \in Nat /\ p <= a
  <2>1. PICK i \in kept : p <= i * Mtu
    BY DEF Places
  <2>2. p \in Nat
    BY <1>1 DEF Places
  <2> QED BY <1>1, <1>3, <2>1, <2>2
<1>5. ASSUME NEW p \in Places(frame, new), p <= a PROVE p \in Places(frame, kept)
  <2>1. PICK i \in new : (i - 1) * Mtu < p /\ p <= i * Mtu
    BY DEF Places
  <2>2. p \in DOMAIN frame /\ p \in Nat
    BY <1>1 DEF Places
  <2>3. i # k + 1
    <3>1. (k + 1) - 1 = k
      BY <1>1
    <3> QED BY <1>1, <1>5, <2>1, <2>2, <3>1
  <2> QED BY <2>1, <2>2, <2>3 DEF Places
<1>6. Places(frame, kept) \in SUBSET Places(frame, new)
  BY DEF Places
<1>7. ASSUME NEW from \in Nat
      PROVE  /\ {p \in Places(frame, new) : from <= p /\ p <= a}
                  = {p \in Places(frame, kept) : from <= p /\ p <= a}
             /\ {p \in Places(frame, kept) : from <= p /\ p <= b}
                  = {p \in Places(frame, kept) : from <= p /\ p <= a}
  <2>1. \A p \in Places(frame, kept) : p <= a /\ p <= b
    BY <1>1, <1>4
  <2>2. \A p : p \in Places(frame, new) /\ p <= a <=> p \in Places(frame, kept) /\ p <= a
    BY <1>5, <1>6
  <2> HIDE DEF a, b, new
  <2> QED BY <2>1, <2>2
<1> QED BY <1>2, <1>4, <1>7 DEF Left

\* Of notifications of which none was lost all is left.
LEMMA AllIsLeft ==
  ASSUME NEW frame \in Frames, NEW k \in 0 .. Len(Chunks(frame))
  PROVE  Left(frame, 1 .. k, 1, UpTo(frame, k)) = SubSeq(frame, 1, UpTo(frame, k))
<1> DEFINE a == UpTo(frame, k)
           P == {p \in Places(frame, 1 .. k) : 1 <= p /\ p <= a}
<1>1. /\ frame \in Seq(Byte) /\ DOMAIN frame = 1 .. Len(frame) /\ Len(frame) \in Nat
      /\ k \in Nat /\ Mtu \in Nat \ {0}
  BY ChunksFit, PatienceAssumption
<1>2. k * Mtu \in Nat
  BY <1>1
<1>3. a \in 0 .. Len(frame) /\ a <= k * Mtu
  BY <1>1, <1>2 DEF UpTo
<1>4. ASSUME NEW p \in 1 .. a PROVE p \in P
  <2> DEFINE i == (p - 1) \div Mtu
  <2>1. i \in Nat /\ Mtu * i <= p - 1 /\ p - 1 < Mtu * i + Mtu
    BY <1>1, <1>3, p - 1 \in Nat, Division
  <2> HIDE DEF i
  <2>2. i * Mtu = Mtu * i /\ (i + 1) * Mtu = Mtu * i + Mtu /\ Mtu * i \in Nat
    BY <1>1, <2>1
  <2>3. i + 1 <= k
    <3>1. CASE i \in k .. i
      <4>1. (i - k) * Mtu \in Nat
        <5>1. \A d \in Nat : d * Mtu \in Nat
          BY <1>1
        <5> QED BY <1>1, <2>1, <3>1, <5>1, i - k \in Nat
      <4>2. i * Mtu = k * Mtu + (i - k) * Mtu
        BY <1>1, <2>1
      <4> QED BY <1>2, <1>3, <2>1, <2>2, <4>1, <4>2
    <3> QED BY <1>1, <2>1, <3>1
  <2>4. p \in DOMAIN frame /\ 1 <= p /\ p <= a
    BY <1>1, <1>3
  <2>5. i + 1 \in 1 .. k /\ ((i + 1) - 1) * Mtu < p /\ p <= (i + 1) * Mtu
    <3>1. (i + 1) - 1 = i /\ p \in Nat
      BY <2>1, <1>3
    <3> QED BY <1>1, <2>1, <2>2, <2>3, <3>1
  <2> QED BY <2>4, <2>5 DEF Places
<1>5. P = 1 .. a
  <2>1. \A p \in P : p \in 1 .. a
    BY <1>1, <1>3 DEF Places
  <2> QED BY <1>4, <2>1
<1> HIDE DEF P, a
<1>6. BytesAt(frame, 1 .. a) = SubSeq(frame, 1, a)
  BY <1>1, <1>3, AllBytes
<1> QED BY <1>5, <1>6 DEF Left, P, a
-----------------------------------------------------------------------------
\* One byte more of an answer that has lost a notification.
LEMMA LostByte ==
  ASSUME NEW frame \in Frames, NEW kept \in SUBSET (1 .. Len(Chunks(frame))),
         kept # 1 .. Len(Chunks(frame)), NEW p \in Places(frame, kept),
         NEW framer \in Framer, framer.out = <<>>,
         Stale(framer) \/ \E from \in DOMAIN frame : framer.buffer = Left(frame, kept, from, p - 1)
  PROVE  LET after == Processed(framer, frame[p])
         IN  /\ after.out = <<>>
             /\ Stale(after) \/ \E from \in DOMAIN frame : after.buffer = Left(frame, kept, from, p)
<1> DEFINE after == Processed(framer, frame[p])
<1>1. p \in DOMAIN frame /\ DOMAIN frame = 1 .. Len(frame) /\ p \in Nat /\ Len(frame) \in Nat
  BY ChunksFit DEF Places
<1>2. CASE Stale(framer)
  <2>1. after = Begins(framer, frame[p])
    BY <1>2 DEF Processed, Restarts
  <2>2. CASE frame[p] = Start
    <3>1. after.buffer = <<frame[p]>> /\ after.out = <<>>
      BY <2>1, <2>2 DEF Begins, Framer
    <3>2. {q \in Places(frame, kept) : p <= q /\ q <= p} = {p}
      BY <1>1 DEF Places
    <3>3. Left(frame, kept, p, p) = <<frame[p]>>
      BY <1>1, <3>2, OneByte DEF Left
    <3> QED BY <1>1, <3>1, <3>3
  <2>3. CASE frame[p] # Start
    BY <2>1, <2>3 DEF Begins, Framer, Stale
  <2> QED BY <2>2, <2>3
<1>3. CASE ~Stale(framer) /\ Len(framer.buffer) >= BufferLimit
  BY <1>3 DEF Processed, Restarts, Framer, Stale
<1>4. CASE ~Stale(framer) /\ ~(Len(framer.buffer) >= BufferLimit)
  <2> DEFINE longer == [framer EXCEPT !.buffer = Append(@, frame[p])]
  <2>1. after = Appended(framer, frame[p])
    BY <1>4 DEF Processed, Restarts
  <2>2. PICK from \in DOMAIN frame : framer.buffer = Left(frame, kept, from, p - 1)
    BY <1>4
  <2>3. from \in Nat /\ from <= p
    <3>1. CASE from > p
      <4>1. {q \in Places(frame, kept) : from <= q /\ q <= p - 1} = {}
        BY <1>1, <3>1 DEF Places
      <4>2. framer.buffer = <<>>
        BY <2>2, <4>1, NoBytes DEF Left
      <4> QED BY <1>4, <4>2 DEF Stale
    <3> QED BY <1>1, <3>1
  <2>4. longer.buffer = Left(frame, kept, from, p) /\ longer.out = <<>>
    BY <2>2, <2>3, LeftExtends DEF Framer
  <2>5. longer.buffer \notin Frames
    BY <1>1, <2>4, LeftIsNoFrame
  <2> HIDE DEF longer
  <2>6. CASE after = Parsed(longer)
    BY <2>4, <2>5, <2>6 DEF Parsed, Stale
  <2>7. CASE after = longer
    BY <2>4, <2>7
  <2>8. after = Parsed(longer) \/ after = longer
    BY <2>1 DEF Appended, longer
  <2> QED BY <2>6, <2>7, <2>8
<1> QED BY <1>2, <1>3, <1>4

\* An answer that has lost a notification is not mistaken for a frame.
LEMMA LostStaysLost ==
  ASSUME NEW frame \in Frames, NEW k \in 0 .. Len(Chunks(frame)) - 1,
         NEW kept \in SUBSET (1 .. k), kept # 1 .. k,
         buffer \in Unfinished, age \in 0 .. Limit + 1,
         \/ Stale([buffer |-> buffer, age |-> age])
         \/ \E from \in DOMAIN frame : buffer = Left(frame, kept, from, UpTo(frame, k))
  PROVE  LET after == Received(Chunks(frame)[k + 1])
         IN  /\ after.out = <<>>
             /\ \/ Stale(after)
                \/ \E from \in DOMAIN frame :
                     after.buffer = Left(frame, kept \cup {k + 1}, from, UpTo(frame, k + 1))
<1> DEFINE bytes == Chunks(frame)[k + 1]
           a == UpTo(frame, k)
           new == kept \cup {k + 1}
           first == [buffer |-> buffer, age |-> age, out |-> <<>>]
           Is(f, p) == /\ f.out = <<>>
                       /\ \/ Stale(f)
                          \/ \E from \in DOMAIN frame : f.buffer = Left(frame, new, from, p)
<1>1. /\ bytes \in Seq(Byte) /\ a \in Nat /\ UpTo(frame, k + 1) = a + Len(bytes)
      /\ \A j \in 1 .. Len(bytes) : bytes[j] = frame[a + j]
  BY ChunkGoesOn
<1>2. new \in SUBSET (1 .. Len(Chunks(frame))) /\ new # 1 .. Len(Chunks(frame))
  <2>1. PICK i \in 1 .. k : i \notin kept
    OBVIOUS
  <2>2. i \in 1 .. Len(Chunks(frame)) /\ i \notin new /\ k + 1 \in 1 .. Len(Chunks(frame))
    BY <2>1, ChunksFit
  <2>3. kept \in SUBSET (1 .. Len(Chunks(frame)))
    BY ChunksFit
  <2> QED BY <2>2, <2>3
<1>3. PICK after \in [0 .. Len(bytes) -> Framer] :
        /\ after[0] = first
        /\ \A i \in 1 .. Len(bytes) : after[i] = Processed(after[i - 1], bytes[i])
        /\ Received(bytes) = after[Len(bytes)]
  BY <1>1, ReceivedByByte
<1>4. Is(first, a)
  <2>1. \A from \in DOMAIN frame : from \in Nat
    BY ChunksFit
  <2>2. \A from \in DOMAIN frame : Left(frame, new, from, a) = Left(frame, kept, from, a)
    BY <2>1, NextPlaces
  <2> QED BY <2>2 DEF Stale
<1> DEFINE S == {j \in Nat : j <= Len(bytes) => Is(after[j], a + j)}
<1>9. Len(bytes) \in Nat
  BY <1>1
<1> HIDE DEF a, new, bytes, first, Is
<1>5. 0 \in S
  <2>1. after[0] = first /\ a + 0 = a
    BY <1>1, <1>3
  <2> QED BY <1>4, <2>1
<1>6. ASSUME NEW j \in S PROVE j + 1 \in S
  <2> SUFFICES ASSUME j + 1 <= Len(bytes) PROVE Is(after[j + 1], a + (j + 1))
    OBVIOUS
  <2>1. j \in 0 .. Len(bytes) /\ j + 1 \in 1 .. Len(bytes) /\ (j + 1) - 1 = j
    BY <1>9
  <2>2. Is(after[j], a + j) /\ after[j] \in Framer
    BY <1>3, <1>9, <2>1
  <2> DEFINE p == a + (j + 1)
  <2>3. p \in a + 1 .. a + Len(bytes) /\ p - 1 = a + j
    BY <1>1, <1>9, <2>1
  <2>4. after[j + 1] = Processed(after[j], frame[p])
    <3>1. bytes[j + 1] = frame[a + (j + 1)]
      BY <1>1, <2>1 DEF bytes, a
    <3> QED BY <1>3, <2>1, <3>1
  <2>5. p \in Places(frame, new)
    BY <1>1, <2>3, NextPlaces DEF bytes, a, new
  <2> HIDE DEF p
  <2>6. Is(Processed(after[j], frame[p]), p)
    BY <1>2, <2>2, <2>3, <2>5, LostByte DEF Is
  <2> QED BY <2>4, <2>6 DEF p
<1>7. S = Nat
  <2> HIDE DEF S
  <2>1. S \in SUBSET Nat
    BY DEF S
  <2> QED BY <1>5, <1>6, <2>1, NaturalInduction
<1>8. Is(after[Len(bytes)], a + Len(bytes))
  BY <1>7, <1>9
<1> QED BY <1>1, <1>3, <1>8 DEF Is, a, new, bytes
-----------------------------------------------------------------------------
\* One byte more of an answer that has arrived whole so far.
LEMMA WholeByte ==
  ASSUME NEW frame \in Frames, NEW p \in 1 .. Len(frame), NEW framer \in Framer,
         framer.out = <<>>,
         IF p = 1 THEN Stale(framer)
         ELSE framer.buffer = SubSeq(frame, 1, p - 1) /\ framer.age <= Limit
  PROVE  LET after == Processed(framer, frame[p])
         IN  IF p = Len(frame) THEN after = [buffer |-> <<>>, age |-> 0, out |-> <<frame>>]
             ELSE /\ after.out = <<>> /\ after.buffer = SubSeq(frame, 1, p)
                  /\ after.age = IF p = 1 THEN 0 ELSE framer.age
<1> DEFINE after == Processed(framer, frame[p])
<1>1. /\ frame \in Seq(Byte) /\ Len(frame) \in Nat /\ Len(frame) >= 4 /\ Len(frame) <= BufferLimit
      /\ frame[1] = Start /\ frame[Len(frame)] = End /\ p \in Nat /\ BufferLimit \in Nat
  BY FramesAssumption
<1>2. CASE p = 1
  <2>1. after = Begins(framer, frame[p])
    BY <1>2 DEF Processed, Restarts
  <2>2. after.buffer = <<Start>> /\ after.age = 0 /\ after.out = <<>>
    <3>1. frame[p] = Start
      BY <1>1, <1>2
    <3> QED BY <2>1, <3>1 DEF Begins, Framer
  <2>3. SubSeq(frame, 1, 1) = <<frame[1]>>
    <3>1. BytesAt(frame, 1 .. 1) = SubSeq(frame, 1, 1)
      BY <1>1, 1 \in 0 .. Len(frame), AllBytes
    <3>2. 1 .. 1 = {1}
      OBVIOUS
    <3> QED BY <3>1, <3>2, OneByte
  <2> QED BY <1>1, <1>2, <2>2, <2>3
<1>3. CASE p # 1
  <2> DEFINE longer == [framer EXCEPT !.buffer = Append(@, frame[p])]
  <2>1. /\ framer.buffer = SubSeq(frame, 1, p - 1) /\ framer.age <= Limit
        /\ framer.age \in Int /\ Limit \in Nat
    BY <1>3, PatienceAssumption DEF Framer
  <2>2. Len(SubSeq(frame, 1, p - 1)) = p - 1
    BY <1>1
  <2>3. ~Stale(framer) /\ ~(Len(framer.buffer) >= BufferLimit)
    <3>1. framer.buffer # <<>>
      BY <1>1, <1>3, <2>1, <2>2
    <3> QED BY <1>1, <2>1, <2>2, <3>1, SMTT(30) DEF Stale
  <2>4. after = Appended(framer, frame[p])
    BY <2>3 DEF Processed, Restarts
  <2>5. /\ Append(SubSeq(frame, 1, p - 1), frame[p]) = SubSeq(frame, 1, p)
        /\ Len(SubSeq(frame, 1, p)) = p
    BY <1>1
  <2>6. longer.buffer = SubSeq(frame, 1, p) /\ longer.out = <<>> /\ longer.age = framer.age
    BY <2>1, <2>5 DEF Framer
  <2>7. after = IF frame[p] = End /\ Len(longer.buffer) >= 4 /\ Complete(longer.buffer)
                THEN Parsed(longer) ELSE longer
    BY <2>4 DEF Appended
  <2> HIDE DEF longer, after
  <2>8. Complete(longer.buffer) <=> p = Len(frame)
    BY <2>6, CommandsAssumption
  <2>9. CASE p = Len(frame)
    <3>1. longer.buffer = frame
      BY <1>1, <2>6, <2>9
    <3>2. after = Parsed(longer)
      BY <1>1, <2>7, <2>8, <2>9, <3>1
    <3>3. Append(<<>>, frame) = <<frame>>
      OBVIOUS
    <3> QED BY <2>6, <2>9, <3>1, <3>2, <3>3 DEF Parsed, after
  <2>10. CASE p # Len(frame)
    BY <1>3, <2>6, <2>7, <2>8, <2>10 DEF after
  <2> QED BY <2>9, <2>10
<1> QED BY <1>2, <1>3

\* Of an answer of which nothing is lost the last notification makes a frame.
LEMMA WholeGetsThrough ==
  ASSUME NEW frame \in Frames, NEW k \in 0 .. Len(Chunks(frame)) - 1,
         buffer \in Unfinished, age \in 0 .. Limit + 1,
         NEW t \in 0 .. Limit,
         IF k = 0 THEN Stale([buffer |-> buffer, age |-> age])
         ELSE buffer = SubSeq(frame, 1, UpTo(frame, k)) /\ age <= t
  PROVE  LET after == Received(Chunks(frame)[k + 1])
         IN  IF k + 1 = Len(Chunks(frame))
             THEN after = [buffer |-> <<>>, age |-> 0, out |-> <<frame>>]
             ELSE /\ after.out = <<>> /\ after.buffer = SubSeq(frame, 1, UpTo(frame, k + 1))
                  /\ after.age <= t
<1> DEFINE bytes == Chunks(frame)[k + 1]
           a == UpTo(frame, k)
           first == [buffer |-> buffer, age |-> age, out |-> <<>>]
           Is(f, p) ==
             IF p = Len(frame) THEN f = [buffer |-> <<>>, age |-> 0, out |-> <<frame>>]
             ELSE /\ f.out = <<>>
                  /\ IF p = 0 THEN Stale(f) ELSE f.buffer = SubSeq(frame, 1, p) /\ f.age <= t
<1>1. /\ bytes \in Seq(Byte) /\ UpTo(frame, k + 1) = a + Len(bytes)
      /\ a + Len(bytes) <= Len(frame)
      /\ a + Len(bytes) = Len(frame) <=> k + 1 = Len(Chunks(frame))
      /\ \A j \in 1 .. Len(bytes) : bytes[j] = frame[a + j]
      /\ a = k * Mtu /\ a \in Nat /\ k \in Nat
  <2>1. bytes \in Seq(Byte) /\ UpTo(frame, k + 1) = a + Len(bytes)
    BY ChunkGoesOn
  <2>2. a + Len(bytes) <= Len(frame) /\ (a + Len(bytes) = Len(frame) <=> k + 1 = Len(Chunks(frame)))
    BY <2>1, ChunkGoesOn
  <2>3. a = k * Mtu /\ a \in Nat /\ k \in Nat
    BY ChunkGoesOn
  <2>4. \A j \in 1 .. Len(bytes) : bytes[j] = frame[a + j]
    BY ChunkGoesOn
  <2> QED BY <2>1, <2>2, <2>3, <2>4
<1>2. a < Len(frame) /\ Len(frame) \in Nat /\ (a = 0 <=> k = 0) /\ a + Len(bytes) > 0
  <2>1. a < Len(frame) /\ Len(frame) \in Nat /\ Mtu \in Nat \ {0}
    BY <1>1, ChunksFit, PatienceAssumption
  <2>2. k = 0 => a = 0
    BY <1>1, <2>1
  <2>3. k # 0 => a >= Mtu
    <3>1. \A d \in Nat : d * Mtu \in Nat
      BY <2>1
    <3>2. k # 0 => k - 1 \in Nat /\ k * Mtu = (k - 1) * Mtu + Mtu
      BY <1>1, <2>1
    <3>3. k # 0 => (k - 1) * Mtu \in Nat
      BY <3>1, <3>2
    <3> HIDE DEF a
    <3> QED BY <1>1, <2>1, <3>2, <3>3
  <2>4. a + Len(bytes) > 0
    <3>1. UpTo(frame, k + 1) > 0
      <4>1. (k + 1) * Mtu = k * Mtu + Mtu
        BY ChunkGoesOn
      <4>2. (k + 1) * Mtu > 0
        <5>1. k * Mtu \in Nat
          BY <1>1
        <5> QED BY <2>1, <4>1, <5>1
      <4> QED BY <2>1, <4>2 DEF UpTo
    <3> QED BY <1>1, <3>1
  <2>5. a \in Nat /\ k \in Nat
    BY <1>1
  <2> HIDE DEF a, bytes
  <2> QED BY <2>1, <2>2, <2>3, <2>4, <2>5
<1>3. PICK after \in [0 .. Len(bytes) -> Framer] :
        /\ after[0] = first
        /\ \A i \in 1 .. Len(bytes) : after[i] = Processed(after[i - 1], bytes[i])
        /\ Received(bytes) = after[Len(bytes)]
  BY <1>1, ReceivedByByte
<1>4. Is(first, a)
  BY <1>1, <1>2 DEF Stale
<1>9. Len(bytes) \in Nat
  BY <1>1
<1>11. a \in Nat /\ Len(frame) \in Nat /\ a + Len(bytes) <= Len(frame)
  BY <1>1, <1>2
<1> DEFINE S == {j \in Nat : j <= Len(bytes) => Is(after[j], a + j)}
<1> HIDE DEF a, bytes, first, Is
<1>5. 0 \in S
  <2>1. after[0] = first /\ a + 0 = a
    BY <1>1, <1>3
  <2> QED BY <1>4, <2>1
<1>6. ASSUME NEW j \in S PROVE j + 1 \in S
  <2> SUFFICES ASSUME j + 1 <= Len(bytes) PROVE Is(after[j + 1], a + (j + 1))
    OBVIOUS
  <2>1. j \in 0 .. Len(bytes) /\ j + 1 \in 1 .. Len(bytes) /\ (j + 1) - 1 = j
    BY <1>9
  <2>2. Is(after[j], a + j) /\ after[j] \in Framer
    BY <1>3, <1>9, <2>1
  <2> DEFINE p == a + (j + 1)
  <2>3. p \in 1 .. Len(frame) /\ p - 1 = a + j /\ a + j # Len(frame) /\ (p = 1 <=> a + j = 0)
    BY <1>9, <1>11, <2>1
  <2>4. after[j + 1] = Processed(after[j], frame[p])
    <3>1. bytes[j + 1] = frame[a + (j + 1)]
      BY <1>1, <2>1 DEF bytes, a
    <3> QED BY <1>3, <2>1, <3>1
  <2> HIDE DEF p
  <2>5. after[j].out = <<>> /\
        IF p = 1 THEN Stale(after[j])
        ELSE after[j].buffer = SubSeq(frame, 1, p - 1) /\ after[j].age <= t
    BY <2>2, <2>3 DEF Is
  <2>6. after[j].age <= t => after[j].age <= Limit
    BY <2>2, PatienceAssumption DEF Framer
  <2>7. LET last == Processed(after[j], frame[p])
        IN  IF p = Len(frame) THEN last = [buffer |-> <<>>, age |-> 0, out |-> <<frame>>]
            ELSE /\ last.out = <<>> /\ last.buffer = SubSeq(frame, 1, p)
                 /\ last.age = IF p = 1 THEN 0 ELSE after[j].age
    BY <2>2, <2>3, <2>5, <2>6, WholeByte
  <2>8. Is(Processed(after[j], frame[p]), p)
    <3>1. p # 0 /\ 0 <= t
      BY <2>3
    <3> QED BY <2>5, <2>7, <3>1 DEF Is
  <2> QED BY <2>4, <2>8 DEF p
<1>7. S = Nat
  <2> HIDE DEF S
  <2>1. S \in SUBSET Nat
    BY DEF S
  <2> QED BY <1>5, <1>6, <2>1, NaturalInduction
<1>8. Is(after[Len(bytes)], a + Len(bytes))
  BY <1>7, <1>9
<1>10. IF a + Len(bytes) = Len(frame)
       THEN Received(bytes) = [buffer |-> <<>>, age |-> 0, out |-> <<frame>>]
       ELSE /\ Received(bytes).out = <<>>
            /\ Received(bytes).buffer = SubSeq(frame, 1, a + Len(bytes)) /\ Received(bytes).age <= t
  BY <1>2, <1>3, <1>8 DEF Is
<1> QED BY <1>1, <1>10 DEF a, bytes

\* What the framer has after a notification is of its type.
LEMMA ReceivedIsFramer ==
  ASSUME NEW bytes \in Seq(Byte), buffer \in Unfinished, age \in 0 .. Limit + 1
  PROVE  Received(bytes) \in Framer
<1>1. PICK after \in [0 .. Len(bytes) -> Framer] : Received(bytes) = after[Len(bytes)]
  BY ReceivedByByte
<1> QED BY <1>1, Len(bytes) \in Nat
-----------------------------------------------------------------------------
\* The next start byte begins a frame.
Fresh == Stale([buffer |-> buffer, age |-> age])

\* What the variables are.
FramerTypes ==
  /\ buffer \in Unfinished /\ age \in 0 .. Limit + 1
  /\ asked \in BOOLEAN /\ waited \in 0 .. Wait /\ intact \in BOOLEAN /\ cut \in BOOLEAN
  /\ coming \in Seq(Seq(Byte))

\* When nobody waits nothing is under way, and the next answer starts afresh,
\* unless a wait was cancelled.
QuietAfterwards == ~asked /\ ~cut => coming = <<>> /\ Fresh

\* What is under way to a question comes soon, cancelled or not.
ComesSoon == coming # <<>> => waited <= Lag

\* After a cancelled wait no answer is sure to be received in order.
CutIsNotIntact == asked /\ cut => ~intact

\* An unfinished frame is of the question before, and old, or of this one.
OldOrRecent == buffer # <<>> => age > Limit \/ age + Lag >= waited

\* How much of an answer has arrived, and what the framer has of it.
HasRead(frame, k) ==
  /\ coming = SubSeq(Chunks(frame), k + 1, Len(Chunks(frame)))
  /\ intact =>
       /\ k < Len(Chunks(frame))
       /\ IF k = 0 THEN Fresh
          ELSE buffer = SubSeq(frame, 1, UpTo(frame, k)) /\ age <= waited
  /\ ~intact =>
       \E kept \in (SUBSET (1 .. k)) \ {1 .. k} :
         Fresh \/ \E from \in DOMAIN frame : buffer = Left(frame, kept, from, UpTo(frame, k))

AnswerIsUnderWay ==
  asked /\ ~cut => \E frame \in Frames : \E k \in 0 .. Len(Chunks(frame)) : HasRead(frame, k)

\* The inductive invariant.
FramerIInv ==
  /\ FramerTypes /\ QuietAfterwards /\ OldOrRecent /\ ComesSoon /\ CutIsNotIntact
  /\ AnswerIsUnderWay

\* What is left of a sequence after its first elements.
LEMMA Rest ==
  ASSUME NEW X, NEW s \in Seq(X), NEW n \in Nat, n = Len(s), NEW k \in 0 .. n
  PROVE  /\ SubSeq(s, k + 1, n) = <<>> <=> k = n
         /\ k # n => /\ Head(SubSeq(s, k + 1, n)) = s[k + 1]
                     /\ Tail(SubSeq(s, k + 1, n)) = SubSeq(s, (k + 1) + 1, n)
<1> DEFINE r == SubSeq(s, k + 1, n)
<1>1. k \in Nat /\ k <= n
  OBVIOUS
<1>2. r \in Seq(X) /\ Len(r) = n - k /\ \A i \in 1 .. n - k : r[i] = s[k + i]
  BY <1>1
<1>3. r = <<>> <=> k = n
  <2> HIDE DEF r
  <2>1. r = <<>> <=> Len(r) = 0
    BY <1>2
  <2> QED BY <1>1, <1>2, <2>1
<1>4. k # n => Head(r) = s[k + 1] /\ Tail(r) = SubSeq(s, (k + 1) + 1, n)
  BY <1>1, <1>2
<1> QED BY <1>3, <1>4

\* The notifications that are to come, and the one that is next.
LEMMA TheNext ==
  ASSUME NEW frame \in Frames, NEW k \in 0 .. Len(Chunks(frame)),
         coming = SubSeq(Chunks(frame), k + 1, Len(Chunks(frame))), coming # <<>>
  PROVE  /\ k \in 0 .. Len(Chunks(frame)) - 1 /\ k + 1 \in 0 .. Len(Chunks(frame))
         /\ Head(coming) = Chunks(frame)[k + 1]
         /\ Tail(coming) = SubSeq(Chunks(frame), (k + 1) + 1, Len(Chunks(frame)))
         /\ Tail(coming) = <<>> <=> k + 1 = Len(Chunks(frame))
<1> DEFINE n == Len(Chunks(frame))
<1>1. Chunks(frame) \in Seq(Seq(Byte)) /\ n \in Nat
  BY ChunksFit
<1>2. /\ SubSeq(Chunks(frame), k + 1, n) = <<>> <=> k = n
      /\ k # n => /\ Head(SubSeq(Chunks(frame), k + 1, n)) = Chunks(frame)[k + 1]
                  /\ Tail(SubSeq(Chunks(frame), k + 1, n)) = SubSeq(Chunks(frame), (k + 1) + 1, n)
  BY <1>1, Rest
<1>3. k # n /\ k \in 0 .. n - 1 /\ k + 1 \in 0 .. n
  BY <1>1, <1>2
<1>4. SubSeq(Chunks(frame), (k + 1) + 1, n) = <<>> <=> k + 1 = n
  BY <1>1, <1>3, Rest
<1> QED BY <1>2, <1>3, <1>4

\* As long as notifications are to come something is under way.
LEMMA TheRest ==
  ASSUME NEW frame \in Frames, NEW k \in 0 .. Len(Chunks(frame)) - 1
  PROVE  SubSeq(Chunks(frame), k + 1, Len(Chunks(frame))) # <<>>
<1>1. Chunks(frame) \in Seq(Seq(Byte)) /\ Len(Chunks(frame)) \in Nat
  BY ChunksFit
<1>2. k \in 0 .. Len(Chunks(frame)) /\ k # Len(Chunks(frame))
  BY <1>1
<1> QED BY <1>1, <1>2, Rest

\* It holds at first,
LEMMA FramerStarts == FramerInit => FramerIInv
<1> SUFFICES ASSUME FramerInit PROVE FramerIInv
  OBVIOUS
<1>1. BufferLimit \in Nat \ {0} /\ Limit \in Nat /\ Wait \in Nat
  BY FramesAssumption, PatienceAssumption
<1>2. <<>> \in Unfinished /\ 0 \in 0 .. Limit + 1 /\ 0 \in 0 .. Wait
  BY <1>1 DEF Unfinished
<1>3. <<>> \in Seq(Seq(Byte))
  OBVIOUS
<1> QED BY <1>2, <1>3 DEF FramerInit, FramerIInv, FramerTypes, QuietAfterwards, OldOrRecent,
             ComesSoon, CutIsNotIntact, AnswerIsUnderWay, Fresh, Stale

\* The first of a sequence's elements, and the others.
LEMMA HeadAndTail ==
  ASSUME NEW X, NEW s \in Seq(X), s # <<>>
  PROVE  Head(s) \in X /\ Tail(s) \in Seq(X)
OBVIOUS

\* The types, what is old and what comes soon hold of any notification.
LEMMA ArrivalFits ==
  ASSUME FramerTypes, ComesSoon, NotificationArrives
  PROVE  FramerTypes' /\ OldOrRecent' /\ ComesSoon'
<1> DEFINE after == Received(Head(coming))
<1>1. coming \in Seq(Seq(Byte)) /\ coming # <<>>
      /\ coming' = Tail(coming) /\ waited' = waited /\ intact' = intact /\ cut' = cut
      /\ buffer' = after.buffer /\ age' = after.age
  BY DEF FramerTypes, NotificationArrives
<1>2. Head(coming) \in Seq(Byte) /\ Tail(coming) \in Seq(Seq(Byte))
  BY <1>1, HeadAndTail
<1>3. /\ waited <= Lag /\ waited \in Nat /\ Lag \in Nat /\ Limit \in Nat
      /\ buffer \in Unfinished /\ age \in 0 .. Limit + 1
  BY <1>1, PatienceAssumption DEF ComesSoon, FramerTypes
<1>4. after \in Framer
  BY <1>2, <1>3, ReceivedIsFramer
<1> HIDE DEF after
<1>5. asked' \in BOOLEAN
  BY DEF NotificationArrives, FramerTypes
<1>6. FramerTypes'
  BY <1>1, <1>2, <1>4, <1>5 DEF FramerTypes, Framer, Unfinished
<1>7. age' + Lag >= waited'
  <2>1. age' \in Nat
    BY <1>1, <1>4, PatienceAssumption DEF Framer
  <2>2. \A u, v, w \in Nat : v <= w => u + w >= v
    OBVIOUS
  <2> QED BY <1>1, <1>3, <2>1, <2>2
<1> QED BY <1>1, <1>3, <1>6, <1>7 DEF OldOrRecent, ComesSoon

\* What an answer's next notification makes of what the framer has.
LEMMA ArrivalKeeps ==
  ASSUME FramerIInv, NotificationArrives
  PROVE  FramerIInv' /\ (intact /\ coming' = <<>> => ~asked')
<1> DEFINE after == Received(Head(coming))
<1>0. FramerTypes' /\ OldOrRecent' /\ ComesSoon'
  BY ArrivalFits DEF FramerIInv
<1>1. /\ coming' = Tail(coming) /\ coming # <<>> /\ buffer' = after.buffer /\ age' = after.age
      /\ UNCHANGED <<waited, intact, cut>> /\ (asked' => asked)
      /\ (after.out = <<>> => asked' = asked) /\ (after.out # <<>> /\ coming' = <<>> => ~asked')
  <2>1. /\ coming' = Tail(coming) /\ coming # <<>> /\ buffer' = after.buffer /\ age' = after.age
        /\ UNCHANGED <<waited, intact, cut>>
        /\ \/ asked' = (asked /\ after.out = <<>>)
           \/ after.out # <<>> /\ coming' # <<>> /\ asked' = asked
    BY DEF NotificationArrives
  <2>2. asked \in BOOLEAN
    BY DEF FramerIInv, FramerTypes
  <2> HIDE DEF after
  <2>3. asked' => asked
    BY <2>1, <2>2
  <2>4. after.out = <<>> => asked' = asked
    BY <2>1, <2>2
  <2>5. after.out # <<>> /\ coming' = <<>> => ~asked'
    BY <2>1, <2>2
  <2> QED BY <2>1, <2>3, <2>4, <2>5
<1>2. CutIsNotIntact'
  BY <1>1 DEF FramerIInv, CutIsNotIntact
<1>3. CASE ~asked
  BY <1>0, <1>1, <1>2, <1>3 DEF FramerIInv, QuietAfterwards, AnswerIsUnderWay
<1>4. CASE asked /\ cut
  BY <1>0, <1>1, <1>2, <1>4 DEF FramerIInv, CutIsNotIntact, QuietAfterwards, AnswerIsUnderWay
<1>5. CASE asked /\ ~cut
  <2>0. PICK frame \in Frames : \E k \in 0 .. Len(Chunks(frame)) : HasRead(frame, k)
    BY <1>5 DEF FramerIInv, AnswerIsUnderWay
  <2>1. PICK k \in 0 .. Len(Chunks(frame)) : HasRead(frame, k)
    BY <2>0
  <2> DEFINE n == Len(Chunks(frame))
  <2>2. /\ k \in 0 .. n - 1 /\ k + 1 \in 0 .. n
        /\ Head(coming) = Chunks(frame)[k + 1]
        /\ Tail(coming) = SubSeq(Chunks(frame), (k + 1) + 1, n)
        /\ Tail(coming) = <<>> <=> k + 1 = n
    BY <1>1, <2>1, TheNext DEF HasRead
  <2>3. /\ waited \in 0 .. Limit /\ buffer \in Unfinished /\ age \in 0 .. Limit + 1
    BY <1>1, PatienceAssumption DEF ComesSoon, FramerIInv, FramerTypes
  <2>4. CASE intact
    <3>1. IF k = 0 THEN Stale([buffer |-> buffer, age |-> age])
          ELSE buffer = SubSeq(frame, 1, UpTo(frame, k)) /\ age <= waited
      BY <2>1, <2>4 DEF HasRead, Fresh
    <3>2. IF k + 1 = n THEN after = [buffer |-> <<>>, age |-> 0, out |-> <<frame>>]
          ELSE /\ after.out = <<>> /\ after.buffer = SubSeq(frame, 1, UpTo(frame, k + 1))
               /\ after.age <= waited
      BY <2>2, <2>3, <3>1, WholeGetsThrough
    <3>3. CASE k + 1 = n
      <4>1. after.out = <<frame>> /\ <<frame>> # <<>> /\ after.buffer = <<>>
        BY <3>2, <3>3
      <4>2. ~asked' /\ coming' = <<>> /\ buffer' = <<>>
        BY <1>1, <2>2, <3>3, <4>1
      <4> QED BY <1>0, <1>2, <4>2
          DEF FramerIInv, QuietAfterwards, AnswerIsUnderWay, Fresh, Stale
    <3>4. CASE k + 1 # n
      <4>1. asked' /\ coming' # <<>>
        BY <1>1, <1>5, <2>2, <3>2, <3>4
      <4>2. HasRead(frame, k + 1)'
        <5>1. k + 1 # 0 /\ k + 1 < n
          BY <2>2, <3>4, ChunksFit, SMTT(30)
        <5> QED BY <1>1, <2>2, <2>4, <3>2, <3>4, <5>1 DEF HasRead
      <4> QED BY <1>0, <1>2, <2>2, <4>1, <4>2
          DEF FramerIInv, QuietAfterwards, AnswerIsUnderWay
    <3> QED BY <3>3, <3>4
  <2>5. CASE ~intact
    <3>1. PICK kept \in (SUBSET (1 .. k)) \ {1 .. k} :
            Fresh \/ \E from \in DOMAIN frame : buffer = Left(frame, kept, from, UpTo(frame, k))
      BY <2>1, <2>5 DEF HasRead
    <3>2. /\ after.out = <<>>
          /\ \/ Stale(after)
             \/ \E from \in DOMAIN frame :
                  after.buffer = Left(frame, kept \cup {k + 1}, from, UpTo(frame, k + 1))
      BY <2>2, <2>3, <3>1, LostStaysLost DEF Fresh
    <3>3. kept \cup {k + 1} \in (SUBSET (1 .. k + 1)) \ {1 .. k + 1}
      <4>1. PICK i \in 1 .. k : i \notin kept
        BY <3>1
      <4>2. k \in Nat /\ i \in 1 .. k + 1 /\ i # k + 1
        BY <2>2
      <4>3. kept \cup {k + 1} \in SUBSET (1 .. k + 1)
        BY <3>1, <4>2
      <4> QED BY <4>1, <4>2, <4>3
    <3>4. Stale(after) => Fresh'
      BY <1>1 DEF Stale, Fresh
    <3>5. HasRead(frame, k + 1)'
      BY <1>1, <2>2, <2>5, <3>2, <3>3, <3>4 DEF HasRead
    <3> QED BY <1>0, <1>1, <1>2, <1>5, <2>2, <2>5, <3>2, <3>5
        DEF FramerIInv, QuietAfterwards, AnswerIsUnderWay
  <2> QED BY <2>4, <2>5
<1> QED BY <1>3, <1>4, <1>5 DEF FramerIInv, FramerTypes

\* and every step keeps it.
LEMMA FramerStep == FramerIInv /\ [FramerNext]_framerVars => FramerIInv'
<1> SUFFICES ASSUME FramerIInv, [FramerNext]_framerVars PROVE FramerIInv'
  OBVIOUS
<1>1. /\ Limit \in Nat /\ Lag \in Nat /\ Wait \in Nat /\ Lag <= Limit /\ Wait > Limit + Lag
      /\ age \in 0 .. Limit + 1 /\ waited \in 0 .. Wait
  BY PatienceAssumption DEF FramerIInv, FramerTypes
<1>2. ASSUME NEW frame \in Frames, Asks(frame) PROVE FramerIInv'
  <2>1. /\ ~asked /\ asked' = TRUE /\ waited' = 0
        /\ coming' = coming \o Chunks(frame)
        /\ cut' = (cut /\ ~ Rested) /\ intact' = (coming = <<>> /\ ~ cut')
        /\ buffer' = buffer /\ age' = age
    BY <1>2 DEF Asks
  <2>2. Chunks(frame) \in Seq(Seq(Byte)) /\ Len(Chunks(frame)) \in Nat /\ Len(Chunks(frame)) >= 1
    BY ChunksFit
  <2>3. coming' \in Seq(Seq(Byte))
    BY <2>1, <2>2 DEF FramerIInv, FramerTypes
  <2>4. FramerTypes' /\ OldOrRecent' /\ ComesSoon' /\ QuietAfterwards'
    BY <1>1, <2>1, <2>3
    DEF FramerIInv, FramerTypes, OldOrRecent, ComesSoon, QuietAfterwards, Unfinished
  <2>5. CutIsNotIntact'
    BY <2>1 DEF CutIsNotIntact
  <2>6. ASSUME ~cut' PROVE AnswerIsUnderWay'
    <3>1. coming = <<>> /\ Fresh
      <4>1. CASE Rested
        BY <1>1, <4>1 DEF FramerIInv, Rested, ComesSoon, OldOrRecent, Fresh, Stale
      <4>2. CASE ~Rested
        BY <2>1, <2>6, <4>2 DEF FramerIInv, QuietAfterwards
      <4> QED BY <4>1, <4>2
    <3>2. coming' = SubSeq(Chunks(frame), 0 + 1, Len(Chunks(frame)))
      BY <2>1, <2>2, <3>1
    <3>3. Fresh' /\ intact'
      BY <2>1, <2>6, <3>1 DEF Fresh
    <3>4. HasRead(frame, 0)'
      BY <2>2, <3>2, <3>3 DEF HasRead
    <3>5. 0 \in 0 .. Len(Chunks(frame))
      BY <2>2
    <3> QED BY <3>4, <3>5 DEF AnswerIsUnderWay
  <2> QED BY <2>4, <2>5, <2>6 DEF FramerIInv, AnswerIsUnderWay
<1>3. CASE NotificationArrives
  BY <1>3, ArrivalKeeps
<1>4. CASE NotificationIsLost
  <2>1. /\ coming # <<>> /\ coming' = Tail(coming) /\ intact' = FALSE
        /\ UNCHANGED <<buffer, age, asked, waited, cut>>
    BY <1>4 DEF NotificationIsLost
  <2>2. coming' \in Seq(Seq(Byte))
    BY <2>1, HeadAndTail DEF FramerIInv, FramerTypes
  <2>3. Fresh' = Fresh
    BY <2>1 DEF Fresh
  <2>4. FramerTypes' /\ OldOrRecent' /\ ComesSoon' /\ CutIsNotIntact' /\ QuietAfterwards'
    BY <2>1, <2>2, <2>3
    DEF FramerIInv, FramerTypes, OldOrRecent, ComesSoon, CutIsNotIntact, QuietAfterwards
  <2>5. ASSUME asked, ~cut PROVE AnswerIsUnderWay'
    <3>0. PICK frame \in Frames : \E k \in 0 .. Len(Chunks(frame)) : HasRead(frame, k)
      BY <2>5 DEF FramerIInv, AnswerIsUnderWay
    <3>1. PICK k \in 0 .. Len(Chunks(frame)) : HasRead(frame, k)
      BY <3>0
    <3> DEFINE n == Len(Chunks(frame))
    <3>2. /\ k \in 0 .. n - 1 /\ k + 1 \in 0 .. n
          /\ Tail(coming) = SubSeq(Chunks(frame), (k + 1) + 1, n)
      BY <2>1, <3>1, TheNext DEF HasRead
    <3>3. \E kept \in (SUBSET (1 .. k + 1)) \ {1 .. k + 1} :
            Fresh \/ \E from \in DOMAIN frame : buffer = Left(frame, kept, from, UpTo(frame, k + 1))
      <4>1. /\ k + 1 \notin 1 .. k /\ k + 1 \in 1 .. k + 1
            /\ SUBSET (1 .. k) \subseteq SUBSET (1 .. k + 1)
        BY <3>2
      <4>2. PICK kept \in SUBSET (1 .. k) :
              Fresh \/ \E from \in DOMAIN frame : buffer = Left(frame, kept, from, UpTo(frame, k))
        <5>1. CASE intact
          <6>1. CASE k = 0
            BY <3>1, <5>1, <6>1 DEF HasRead
          <6>2. CASE k # 0
            <7>1. buffer = Left(frame, 1 .. k, 1, UpTo(frame, k))
              BY <3>1, <5>1, <6>2, AllIsLeft DEF HasRead
            <7>2. 1 \in DOMAIN frame
              BY ChunksFit
            <7> QED BY <7>1, <7>2
          <6> QED BY <6>1, <6>2
        <5>2. CASE ~intact
          BY <3>1, <5>2 DEF HasRead
        <5> QED BY <5>1, <5>2
      <4>3. \A from \in DOMAIN frame :
              Left(frame, kept, from, UpTo(frame, k + 1)) = Left(frame, kept, from, UpTo(frame, k))
        <5>1. \A from \in DOMAIN frame : from \in Nat
          BY ChunksFit
        <5> QED BY <3>2, <5>1, NextPlaces
      <4>4. kept \in (SUBSET (1 .. k + 1)) \ {1 .. k + 1}
        BY <4>1
      <4> QED BY <4>2, <4>3, <4>4
    <3>4. HasRead(frame, k + 1)'
      BY <2>1, <2>3, <3>1, <3>2, <3>3 DEF HasRead
    <3> QED BY <3>2, <3>4 DEF AnswerIsUnderWay
  <2> QED BY <2>1, <2>4, <2>5 DEF FramerIInv, AnswerIsUnderWay
<1>5. CASE RunsOut
  <2>1. asked /\ waited = Wait /\ ~asked' /\ asked' \in BOOLEAN
        /\ UNCHANGED <<buffer, age, waited, coming, intact, cut>>
    BY <1>5 DEF RunsOut
  <2>2. coming = <<>>
    BY <1>1, <2>1 DEF FramerIInv, ComesSoon
  <2>3. Fresh
    BY <1>1, <2>1 DEF FramerIInv, OldOrRecent, Fresh, Stale
  <2>4. Fresh'
    BY <2>1, <2>3 DEF Fresh
  <2> QED BY <2>1, <2>2, <2>4
      DEF FramerIInv, FramerTypes, QuietAfterwards, OldOrRecent, ComesSoon, CutIsNotIntact,
          AnswerIsUnderWay
<1>6. CASE IsCancelled
  <2>1. ~asked' /\ asked' \in BOOLEAN /\ cut' = TRUE
        /\ UNCHANGED <<buffer, age, waited, coming, intact>>
    BY <1>6 DEF IsCancelled
  <2> QED BY <2>1
      DEF FramerIInv, FramerTypes, QuietAfterwards, OldOrRecent, ComesSoon, CutIsNotIntact,
          AnswerIsUnderWay
<1>7. CASE Tick
  <2>1. /\ UNCHANGED <<buffer, asked, coming, intact, cut>> /\ (coming # <<>> => waited < Lag)
        /\ age' = IF buffer # <<>> /\ age <= Limit THEN age + 1 ELSE age
        /\ waited' = IF waited < Wait THEN waited + 1 ELSE waited
    BY <1>7 DEF Tick
  <2>2. age' \in 0 .. Limit + 1 /\ waited' \in 0 .. Wait /\ age <= age' /\ waited' <= waited + 1
    BY <1>1, <2>1
  <2>3. Fresh => Fresh'
    BY <1>1, <2>1, <2>2 DEF Fresh, Stale
  <2>4. OldOrRecent'
    BY <1>1, <2>1, <2>2 DEF FramerIInv, OldOrRecent
  <2>5. ComesSoon'
    BY <1>1, <2>1, <2>2 DEF ComesSoon
  <2>6. ASSUME NEW frame \in Frames, NEW k \in 0 .. Len(Chunks(frame)), HasRead(frame, k)
        PROVE  HasRead(frame, k)'
    <3>1. ASSUME intact, k # 0, buffer = SubSeq(frame, 1, UpTo(frame, k)), age <= waited
          PROVE  age' <= waited'
      <4>1. coming # <<>>
        BY <2>6, <3>1, TheRest DEF HasRead
      <4> QED BY <1>1, <2>1, <3>1, <4>1
    <3> QED BY <2>1, <2>3, <2>6, <3>1 DEF HasRead
  <2>7. AnswerIsUnderWay'
    BY <2>1, <2>6 DEF FramerIInv, AnswerIsUnderWay
  <2> QED BY <2>1, <2>2, <2>3, <2>4, <2>5, <2>7
      DEF FramerIInv, FramerTypes, QuietAfterwards, CutIsNotIntact
<1>8. CASE UNCHANGED framerVars
  BY <1>8 DEF framerVars, FramerIInv, FramerTypes, QuietAfterwards, OldOrRecent, ComesSoon,
     CutIsNotIntact, AnswerIsUnderWay, HasRead, Fresh
<1> QED BY <1>2, <1>3, <1>4, <1>5, <1>6, <1>7, <1>8 DEF FramerNext

(* The inductive invariant holds.                                           *)
THEOREM FramerInvariant == FramerSpec => []FramerIInv
BY FramerStarts, FramerStep, PTL DEF FramerSpec

(* What is kept of an unfinished frame stays within the buffer's limit.      *)
THEOREM FramerTypesHold == FramerSpec => []FramerTypeOK
<1>1. FramerIInv => FramerTypeOK
  BY DEF FramerIInv, FramerTypes, FramerTypeOK, Unfinished
<1> QED BY <1>1, FramerInvariant, PTL

(* An answer of which no notification is lost reaches its caller, whatever  *)
(* its encrypted bytes look like and whatever was lost before, unless a     *)
(* wait was cancelled and the next question hurried after it: on_ble_data,  *)
(* _process_byte and the waits of send_and_wait_response.  FramesAssumption,*)
(* CommandsAssumption and ChecksumAssumption say what frames are like, and  *)
(* with it that a notification is not so short that its loss leaves one.    *)
THEOREM GetsThrough == FramerSpec => IntactAnswersGetThrough
<1>1. FramerIInv /\ [FramerNext]_framerVars =>
        [NotificationArrives /\ intact /\ coming' = <<>> => ~asked']_framerVars
  BY ArrivalKeeps
<1> QED BY <1>1, FramerInvariant, PTL DEF FramerSpec, IntactAnswersGetThrough
=============================================================================
