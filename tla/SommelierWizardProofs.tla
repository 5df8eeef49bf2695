----------------------- MODULE SommelierWizardProofs -----------------------
(***************************************************************************)
(* Proofs about SommelierWizard, for any replies, number of overlapping    *)
(* requests and of phases.  IInv says by its stage what a request has      *)
(* collected (JobsFit), that no two requests make rows of one id           *)
(* (IdsDiffer), how far each session is written (HistoryFits), that no     *)
(* recipe is brewed while it is made (NewIsUnbrewed), and that counters    *)
(* and marks agree with the drinks (DrinksAreCounted).  Each action keeps  *)
(* it; what a loop over a reply or its phases makes is found by induction  *)
(* over how many entries it has done.                                      *)
(***************************************************************************)
EXTENDS SommelierWizard, FiniteSetTheorems, WellFoundedInduction, TLAPS

----------------------------------------------------------------------------
(* Recursion over the natural numbers.                                      *)

(* A nonempty set of natural numbers has a least element: what the            *)
(* recursive functions of the model rest on.                                 *)
LEMMA LeastNumber ==
  ASSUME NEW T \in SUBSET Nat, T # {}
  PROVE  \E x \in T : \A y \in T : x <= y
<1> DEFINE R == {ss \in Nat \X Nat : ss[1] < ss[2]}
<1>1. IsWellFoundedOn(R, Nat)
  BY NatLessThanWellFounded DEF OpToRel
<1>2. \A x, y \in Nat : <<y, x>> \in R <=> y < x
  OBVIOUS
<1> HIDE DEF R
<1>3. \E x \in T : \A y \in T : ~ (<<y, x>> \in R)
  BY <1>1, WFMin
<1>4. PICK x \in T : \A y \in T : ~ (<<y, x>> \in R)
  BY <1>3
<1>5. \A y \in T : ~ (y < x)
  BY <1>2, <1>4
<1> QED BY <1>5

(* Induction over the natural numbers, for the sets it is used with here.     *)
LEMMA NaturalInduction ==
  ASSUME NEW S \in SUBSET Nat, 0 \in S, \A n \in S : n + 1 \in S
  PROVE  S = Nat
<1> DEFINE T == Nat \ S
<1> SUFFICES ASSUME T # {} PROVE FALSE
  OBVIOUS
<1>1. PICK x \in T : \A y \in T : x <= y
  BY LeastNumber
<1>2. x # 0 /\ x - 1 \in Nat
  OBVIOUS
<1>3. x - 1 \in S
  BY <1>1, <1>2
<1> QED BY <1>2, <1>3

(* The values of a loop over n entries, as a function of how many it has      *)
(* done.                                                                     *)
IsLoop(f, n, X, first, step) ==
  /\ f \in [0 .. n -> X] /\ f[0] = first
  /\ \A i \in 1 .. n : f[i] = step[<<i, f[i - 1]>>]

(* Any first value and any step from one value to the next make a loop: what   *)
(* a recursive function needs to be one.                                     *)
LEMMA LoopExists ==
  ASSUME NEW X, NEW first \in X, NEW n \in Nat, NEW step \in [(1 .. n) \X X -> X]
  PROVE  \E f : IsLoop(f, n, X, first, step)
<1> USE DEF IsLoop
<1> DEFINE Is(f, m) == IsLoop(f, m, X, first, step)
           S == {m \in Nat : m <= n => \E f : Is(f, m)}
<1>1. 0 \in S
  <2>1. Is([i \in 0 .. 0 |-> first], 0)
    OBVIOUS
  <2> QED BY <2>1
<1>2. ASSUME NEW m \in S PROVE m + 1 \in S
  <2> SUFFICES ASSUME m + 1 <= n PROVE \E f : Is(f, m + 1)
    OBVIOUS
  <2>1. PICK g : Is(g, m)
    BY m <= n
  <2> DEFINE f == [i \in 0 .. m + 1 |-> IF i <= m THEN g[i]
                                        ELSE step[<<m + 1, g[m]>>]]
  <2>2. g[m] \in X /\ m + 1 \in 1 .. n
    BY <2>1
  <2>3. step[<<m + 1, g[m]>>] \in X
    BY <2>2
  <2>4. f \in [0 .. m + 1 -> X] /\ f[0] = first
    BY <2>1, <2>3
  <2>5. ASSUME NEW i \in 1 .. m + 1 PROVE f[i] = step[<<i, f[i - 1]>>]
    <3>1. CASE i \in 1 .. m
      <4>1. f[i] = g[i] /\ f[i - 1] = g[i - 1]
        BY <3>1
      <4> QED BY <2>1, <3>1, <4>1
    <3>2. CASE i = m + 1
      <4>1. f[i] = step[<<m + 1, g[m]>>] /\ f[i - 1] = g[m]
        BY <3>2
      <4> QED BY <3>2, <4>1
    <3> QED BY <3>1, <3>2
  <2> HIDE DEF f
  <2> QED BY <2>4, <2>5
<1>3. n \in S
  <2> HIDE DEF S
  <2>1. S \in SUBSET Nat
    BY DEF S
  <2> QED BY <1>1, <1>2, <2>1, NaturalInduction
<1> QED BY <1>3
----------------------------------------------------------------------------
(* The validator.                                                           *)

(* A portion is a whole number of steps, whatever number the model wrote.     *)
LEMMA PortionInSteps ==
  ASSUME NEW c \in RawComponent
  PROVE  ClampPortion(c) \in {PortionStep * k : k \in 0 .. PortionMax \div PortionStep}
<1> DEFINE n == Clamped(0, PortionMax, c.ml) + 2
<1>1. n \in 2 .. 252
  BY DEF Clamped, PortionMax, RawComponent
<1> HIDE DEF n
<1>2. n \div 5 \in 0 .. 50
  BY <1>1
<1>3. 250 \div 5 = 50 /\ 40 = 5 * 8
  OBVIOUS
<1>4. ClampPortion(c) = 5 * (n \div 5) \/ ClampPortion(c) = 5 * 8
  BY <1>3 DEF ClampPortion, PortionStep, n
<1> QED BY <1>2, <1>3, <1>4 DEF PortionStep, PortionMax

(* What is not "none" after validation is a phase the machine can pour.       *)
LEMMA ComponentIsPhase ==
  ASSUME NEW c \in RawComponent, NEW second \in BOOLEAN,
         ValidateComponent(c, second).process # "none"
  PROVE  ValidateComponent(c, second) \in Phase
<1> DEFINE process == ValidProcess(c.process, second)
           ml      == ClampPortion(c)
           steps   == {PortionStep * k : k \in 0 .. PortionMax \div PortionStep}
<1>1. process \in Processes
  BY DEF ValidProcess, Processes
<1>2. process # "none"
  BY DEF ValidateComponent, NoPour, Component
<1>3. ml \in steps
  BY PortionInSteps
<1>4. PortionMin \in steps
  BY 5 = 5 * 1, 1 \in 0 .. 250 \div 5 DEF PortionMin, PortionStep, PortionMax
<1> DEFINE portion == IF ~second /\ ml < PortionMin THEN PortionMin ELSE ml
<1>5. ValidateComponent(c, second) = Component(process, TRUE, TRUE, portion)
  BY <1>2 DEF ValidateComponent
<1>6. Phase = [process : Processes \ {"none"}, known : {TRUE}, number : {TRUE},
               ml : steps]
  BY DEF Phase
<1>7. portion \in steps
  BY <1>3, <1>4
<1> HIDE DEF process, ml, steps, portion
<1> QED BY <1>1, <1>2, <1>5, <1>6, <1>7 DEF Component

(* A recipe of one or two phases comes out, whatever the phases were.         *)
LEMMA PhasesComeOut ==
  ASSUME NEW raw \in Seq(RawComponent)
  PROVE  ValidatePhases(raw) \in Phases
<1> DEFINE Valid(i) == ValidateComponent(raw[i], i > 1)
           kept == {i \in {1, 2} \cap DOMAIN raw :
                      raw[i].process # "none" /\ Valid(i).process # "none"}
           default == ValidateComponent(Blank, FALSE)
<1>1. \A i \in kept : Valid(i) \in Phase
  <2> TAKE i \in kept
  <2>1. raw[i] \in RawComponent /\ Valid(i).process # "none"
    OBVIOUS
  <2>2. (i > 1) \in BOOLEAN
    OBVIOUS
  <2> QED BY <2>1, <2>2, ComponentIsPhase
<1>2. default \in Phase
  <2>1. Blank \in RawComponent
    BY DEF Blank, Component, RawComponent, Processes
  <2>2. ValidateComponent(Blank, FALSE).process # "none"
    BY DEF ValidateComponent, Blank, Component, ValidProcess
  <2> QED BY <2>1, <2>2, ComponentIsPhase
<1>3. kept \subseteq {1, 2}
  OBVIOUS
<1>4. ValidatePhases(raw) =
        CASE kept = {}     -> <<default>>
          [] kept = {1, 2} -> <<Valid(1), Valid(2)>>
          [] OTHER         -> <<Valid(CHOOSE i \in kept : TRUE)>>
  BY DEF ValidatePhases
<1> HIDE DEF kept, Valid, default
<1>5. CASE kept = {}
  <2>1. ValidatePhases(raw) = <<default>>
    BY <1>4, <1>5, 1 \in {1, 2}
  <2> QED BY <1>2, <2>1 DEF Phases
<1>6. CASE kept = {1, 2}
  BY <1>1, <1>4, <1>6 DEF Phases
<1>7. CASE kept # {} /\ kept # {1, 2}
  <2>1. (CHOOSE i \in kept : TRUE) \in kept
    BY <1>7
  <2>2. ValidatePhases(raw) = <<Valid(CHOOSE i \in kept : TRUE)>>
    BY <1>4, <1>7
  <2> QED BY <1>1, <2>1, <2>2 DEF Phases
<1> QED BY <1>5, <1>6, <1>7

LEMMA RecipeComesOut ==
  ASSUME NEW raw \in RawRecipe, raw.isDict
  PROVE  ValidateRecipe(raw) \in Recipe
<1>1. raw.phases \in Seq(RawComponent)
  BY DEF RawRecipe
<1> QED BY <1>1, PhasesComeOut DEF ValidateRecipe, Recipe

(* The validator makes recipes of any reply, at most one of each entry.       *)
LEMMA RecipesComeOut ==
  ASSUME NEW raw \in Seq(RawRecipe)
  PROVE  ValidateRecipes(raw) \in Seq(Recipe) /\ Len(ValidateRecipes(raw)) <= Len(raw)
<1> DEFINE n == Len(raw)
           X == Seq(Recipe)
           next(i, had) == IF raw[i].isDict THEN Append(had, ValidateRecipe(raw[i]))
                           ELSE had
           step == [p \in (1 .. n) \X X |-> next(p[1], p[2])]
           first == <<>>
           valid[i \in 0 .. n] ==
             IF i = 0 THEN first ELSE next(i, valid[i - 1])
<1>1. n \in Nat /\ first \in X
  OBVIOUS
<1>2. ASSUME NEW i \in 1 .. n, NEW had \in X PROVE next(i, had) \in X
  BY RecipeComesOut
<1>3. step \in [(1 .. n) \X X -> X]
  BY <1>2
<1> HIDE DEF n, X, next
<1>4. \A i \in 1 .. n, had \in X : step[<<i, had>>] = next(i, had)
  OBVIOUS
<1> HIDE DEF step, first, valid
<1>5. PICK f : IsLoop(f, n, X, first, step)
  BY <1>1, <1>3, LoopExists
<1>6. f \in [0 .. n -> X] /\ f = [i \in 0 .. n |-> IF i = 0 THEN first ELSE next(i, f[i - 1])]
  <2>1. \A i \in 0 .. n : i # 0 => i \in 1 .. n /\ f[i - 1] \in X
    BY <1>1, <1>5 DEF IsLoop
  <2> QED BY <1>4, <1>5, <2>1 DEF IsLoop
<1>7. valid = [i \in 0 .. n |-> IF i = 0 THEN first ELSE next(i, valid[i - 1])]
  BY <1>6 DEF valid
<1> DEFINE S == {m \in Nat : m <= n => valid[m] \in X /\ Len(valid[m]) <= m}
<1>8. 0 \in S
  BY <1>1, <1>7 DEF first
<1>9. ASSUME NEW m \in S PROVE m + 1 \in S
  <2> SUFFICES ASSUME m + 1 <= n PROVE valid[m + 1] \in X /\ Len(valid[m + 1]) <= m + 1
    OBVIOUS
  <2>1. valid[m + 1] = next(m + 1, valid[m]) /\ valid[m] \in X /\ Len(valid[m]) <= m
    BY <1>1, <1>7
  <2>2. m + 1 \in 1 .. n
    BY <1>1
  <2>3. next(m + 1, valid[m]) \in X
    BY <1>2, <2>1, <2>2
  <2>4. Len(next(m + 1, valid[m])) <= m + 1
    BY <2>1 DEF next, X
  <2> QED BY <2>1, <2>3, <2>4
<1>10. n \in S
  <2> HIDE DEF S
  <2>1. S \in SUBSET Nat
    BY DEF S
  <2> QED BY <1>1, <1>8, <1>9, <2>1, NaturalInduction
<1>11. ValidateRecipes(raw) = valid[n]
  BY DEF ValidateRecipes, valid, n, next, first
<1> QED BY <1>1, <1>10, <1>11 DEF X, n

(* The machine is sent the portion that is stored.                           *)
LEMMA PortionSurvives ==
  ASSUME NEW c \in Phase
  PROVE  5 * ResolvePortion(c.ml) = c.ml
<1>1. PICK k \in 0 .. 50 : c.ml = 5 * k
  BY 250 \div 5 = 50 DEF Phase, PortionStep, PortionMax
<1>2. Clamped(0, 250, c.ml) = 5 * k
  BY <1>1 DEF Clamped
<1>3. (2 * (5 * k) + 5) \div 10 = k
  OBVIOUS
<1> QED BY <1>1, <1>2, <1>3 DEF ResolvePortion, PortionMax
----------------------------------------------------------------------------
(* The inductive invariant.                                                 *)

(* A stage belongs to a handler, and nothing is left of a request that was   *)
(* answered.                                                                 *)
StageFits(a, j) ==
  /\ a = "idle" => j = NoJob
  /\ a \in Generating <=> j.handler = "generate"
  /\ a \in Brewing    <=> j.handler = "brew"
  /\ a \in Adding     <=> j.handler = "addFavorite"
  /\ a = "lock" => j.handler \in {"removeFavorite", "clearHistory", "deleteBean"}
  /\ a = "removeFavorite" <=> j.handler = "removeFavorite" /\ a # "lock"

(* What a request has collected by its stage.                                *)
GenerateFits(a, j) ==
  a \in Generating =>
    /\ j.id \in Sessions /\ j.id \in used
    /\ IF a \in {"insertSession", "insertRecipe"}
       THEN /\ j.reply \in Seq(Recipe)
            /\ Len(j.reply) <= MaxRecipes
       ELSE Usable(j.reply)
    /\ IF a = "insertRecipe" THEN j.next \in 1 .. Len(j.reply) + 1
       ELSE j.next = 1

BrewFits(a, j) ==
  a \in Brewing =>
    /\ j.row \in RecipeIds \cup Favorites
    /\ j.row \in RecipeIds => j.row[1] \in used
    /\ j.row \in Favorites => j.row \in used
    /\ a = "mark" => ~j.last

AddFits(a, j) ==
  a \in Adding =>
    /\ j.row \in RecipeIds
    /\ j.id \in Favorites \cup {None}
    /\ j.id # None => j.id \in used
    /\ a # "readRecipe" => j.recipe \in RecipeRow

RemoveFits(j) == j.handler = "removeFavorite" => j.row \in Favorites

Fits(a, j) == /\ StageFits(a, j) /\ GenerateFits(a, j) /\ BrewFits(a, j)
              /\ AddFits(a, j) /\ RemoveFits(j)

JobsFit == \A t \in Tasks : Fits(at[t], job[t])

(* An id is given to one request, and none is brewed while it is generated.  *)
Apart(a, j, b, k) ==
  /\ (a \in Generating /\ b \in Generating) => j.id # k.id
  /\ (a \in Adding /\ b \in Adding /\ j.id # None) => j.id # k.id
  /\ (a \in Brewing /\ j.row \in RecipeIds /\ b \in Generating) => j.row[1] # k.id

IdsDiffer ==
  \A t, u \in Tasks : t # u => Apart(at[t], job[t], at[u], job[u])

(* The recipes of session s that the table has are its first n.              *)
Holds(s, n) ==
  \A k \in 1 .. MaxRecipes :
    recipes[<<s, k>>] # None <=> sessions[s] # None /\ k <= n

HistoryFits ==
  /\ \A s \in Sessions : s \notin used => sessions[s] = None /\ Holds(s, 0)
  /\ \A t \in Tasks : at[t] \in Generating \ {"insertRecipe"} =>
       sessions[job[t].id] = None /\ Holds(job[t].id, 0)
  /\ \A t \in Tasks : at[t] = "insertRecipe" =>
       /\ Holds(job[t].id, job[t].next - 1)
       /\ sessions[job[t].id] # None =>
            sessions[job[t].id].size = Len(job[t].reply)
  /\ \A s \in Sessions : ~AtWork(s) /\ sessions[s] # None => Holds(s, sessions[s].size)
  /\ \A s \in Sessions : ~AtWork(s) /\ sessions[s] = None => Holds(s, 0)

(* Nothing was brewed of what is not in its table yet.                       *)
NewIsUnbrewed ==
  /\ \A s \in Sessions, k \in 1 .. MaxRecipes :
       s \notin used \/ AtWork(s) => poured[<<s, k>>] = 0
  /\ \A f \in Favorites :
       (f \notin used \/ \E t \in Tasks : at[t] \in Adding /\ job[t].id = f) =>
         /\ favorites[f] = None /\ poured[f] = 0
         /\ \A u \in Tasks : at[u] \in {"brewing", "mark"} => job[u].row # f

IInv == /\ TypeOK /\ JobsFit /\ IdsDiffer
        /\ HistoryFits /\ NewIsUnbrewed /\ DrinksAreCounted
----------------------------------------------------------------------------
(* What all steps have in common.                                           *)

\* The other requests are where they were.
Others(t) == \A u \in Tasks \ {t} : at'[u] = at[u] /\ job'[u] = job[u]

LEMMA Worker ==
  ASSUME JobsFit
  PROVE  \A s : AtWork(s) <=> \E t \in Tasks : at[t] \in Generating /\ job[t].id = s
BY DEF JobsFit, Fits, StageFits, AtWork

LEMMA OthersFit ==
  ASSUME JobsFit, NEW t \in Tasks, Others(t), used \subseteq used',
         Fits(at[t], job[t])'
  PROVE  JobsFit'
<1> SUFFICES ASSUME NEW u \in Tasks, u # t PROVE Fits(at[u], job[u])'
  BY DEF JobsFit
<1>1. at'[u] = at[u] /\ job'[u] = job[u] /\ Fits(at[u], job[u])
  BY DEF Others, JobsFit
<1> QED BY <1>1 DEF Fits, StageFits, GenerateFits, BrewFits, AddFits, RemoveFits

LEMMA IdleFits ==
  ASSUME NEW t \in Tasks, at'[t] = "idle", job'[t] = NoJob
  PROVE  Fits(at[t], job[t])'
<1>1. NoJob.handler \notin AllHandlers
  BY NoneAssumption DEF NoJob
<1> QED BY <1>1 DEF Fits, StageFits, GenerateFits, BrewFits, AddFits, RemoveFits,
     Generating, Brewing, Adding, AllHandlers

LEMMA NoJobIsJob == NoJob \in Job
BY DEF NoJob, Job

LEMMA Ended ==
  ASSUME TypeOK, NEW t \in Tasks, Ends(t)
  PROVE  /\ at'[t] = "idle" /\ job'[t] = NoJob /\ Others(t)
         /\ at' \in [Tasks -> Stages] /\ job' \in [Tasks -> Job]
BY NoJobIsJob DEF TypeOK, Ends, Goes, Others, Stages

(* What a request reads and where it goes are its own.                        *)
LEMMA Moved ==
  ASSUME TypeOK, NEW t \in Tasks, NEW to \in Stages, Goes(t, to), NEW j \in Job,
         job' = [job EXCEPT ![t] = j]
  PROVE  /\ at'[t] = to /\ job'[t] = j /\ Others(t)
         /\ at' \in [Tasks -> Stages] /\ job' \in [Tasks -> Job]
BY DEF TypeOK, Goes, Others

(* A step that neither marks nor ceases to mark leaves the marking alone.     *)
LEMMA SameMarking ==
  ASSUME NEW t \in Tasks, Others(t), at[t] # "mark", at'[t] # "mark"
  PROVE  \A id : Marking(id)' = Marking(id)
BY DEF Marking, Others

(* A request that ends leaves the tables as they should be.                   *)
LEMMA StoppingKeeps ==
  ASSUME IInv, NEW t \in Tasks, Ends(t),
         UNCHANGED <<recipes, favorites, used, poured>>, at[t] # "mark",
         \A s \in Sessions : sessions'[s] = None <=> sessions[s] = None,
         \A s \in Sessions :
           sessions'[s] = sessions[s] \/ (at[t] = "insertRecipe" /\ job[t].id = s),
         (at[t] = "insertRecipe" /\ sessions[job[t].id] # None) =>
           sessions'[job[t].id].size = job[t].next - 1
  PROVE  JobsFit' /\ IdsDiffer' /\ HistoryFits' /\ NewIsUnbrewed' /\ DrinksAreCounted'
<1>1. at'[t] = "idle" /\ job'[t] = NoJob /\ Others(t)
  BY Ended DEF IInv
<1>2. JobsFit'
  BY <1>1, IdleFits, OthersFit DEF IInv
<1>3. \A u \in Tasks : at'[u] \in Generating \cup Brewing \cup Adding =>
        u # t /\ at'[u] = at[u] /\ job'[u] = job[u]
  BY <1>1 DEF Others, Generating, Brewing, Adding
<1>4. IdsDiffer'
  BY <1>3 DEF IInv, IdsDiffer, Apart
<1>5. ASSUME NEW s \in Sessions, AtWork(s)' PROVE AtWork(s)
  BY <1>2, <1>3, <1>5, Worker DEF IInv, AtWork, JobsFit, Fits, StageFits
<1>6. ASSUME NEW s \in Sessions, AtWork(s), ~AtWork(s)'
      PROVE  at[t] \in Generating /\ job[t].id = s
  <2>1. PICK u \in Tasks : job[u].handler = "generate" /\ job[u].id = s
    BY <1>6 DEF AtWork
  <2>2. u = t
    BY <1>1, <1>6, <2>1 DEF AtWork, Others
  <2> QED BY <2>1, <2>2 DEF IInv, JobsFit, Fits, StageFits
<1>7. HistoryFits'
  <2>0. \A u \in Tasks : at[u] \in Generating =>
          /\ job[u].id \in Sessions /\ AtWork(job[u].id)
          /\ (at[t] \in Generating /\ u # t) => job[u].id # job[t].id
    BY Worker DEF IInv, JobsFit, Fits, GenerateFits, IdsDiffer, Apart
  <2>1. \A s \in Sessions : \A n : Holds(s, n)' <=> Holds(s, n)
    BY DEF Holds
  <2>2. ASSUME NEW s \in Sessions, ~AtWork(s)'
        PROVE  /\ sessions'[s] # None => Holds(s, sessions[s].size)'
               /\ sessions'[s] = None => Holds(s, 0)'
    <3>1. CASE ~AtWork(s)
      <4>1. sessions'[s] = sessions[s]
        BY <2>0, <3>1 DEF Generating
      <4> QED BY <2>1, <3>1, <4>1 DEF IInv, HistoryFits
    <3>2. CASE AtWork(s) /\ at[t] # "insertRecipe"
      <4>1. at[t] \in Generating \ {"insertRecipe"} /\ job[t].id = s
        BY <1>6, <2>2, <3>2
      <4>2. sessions[s] = None /\ Holds(s, 0)
        BY <4>1 DEF IInv, HistoryFits
      <4> QED BY <2>1, <4>2
    <3>3. CASE AtWork(s) /\ at[t] = "insertRecipe"
      <4>1. job[t].id = s
        BY <1>6, <2>2, <3>3
      <4>2. Holds(s, job[t].next - 1)
        BY <3>3, <4>1 DEF IInv, HistoryFits
      <4>3. sessions'[s] # None => sessions'[s].size = job[t].next - 1
        BY <3>3, <4>1
      <4>4. sessions[s] = None => Holds(s, 0)
        BY <4>2 DEF Holds
      <4> QED BY <2>1, <4>2, <4>3, <4>4
    <3> QED BY <3>1, <3>2, <3>3
  <2>3. \A u \in Tasks : at'[u] \in Generating => at'[u] = at[u] /\ job'[u] = job[u]
    BY <1>3
  <2>4. /\ \A s \in Sessions : s \notin used' => sessions'[s] = None /\ Holds(s, 0)'
        /\ \A u \in Tasks : at'[u] \in Generating \ {"insertRecipe"} =>
             sessions'[job'[u].id] = None /\ Holds(job[u].id, 0)'
    BY <2>0, <2>1, <2>3 DEF IInv, HistoryFits
  <2>5. ASSUME NEW u \in Tasks, at'[u] = "insertRecipe"
        PROVE  /\ Holds(job[u].id, job[u].next - 1)' /\ job'[u] = job[u]
               /\ sessions'[job'[u].id] # None =>
                    sessions'[job'[u].id].size = Len(job'[u].reply)
    <3>1. at[u] = "insertRecipe" /\ job'[u] = job[u] /\ u # t
      BY <1>3, <2>5 DEF Generating
    <3>2. job[u].id \in Sessions /\ sessions'[job[u].id] = sessions[job[u].id]
      BY <2>0, <3>1 DEF Generating
    <3> QED BY <2>1, <3>1, <3>2 DEF IInv, HistoryFits
  <2> QED BY <2>1, <2>2, <2>3, <2>4, <2>5 DEF HistoryFits
<1>8. NewIsUnbrewed'
  BY <1>3, <1>5 DEF IInv, NewIsUnbrewed, Brewing
<1>9. DrinksAreCounted'
  BY <1>1, SameMarking DEF IInv, DrinksAreCounted, Live
<1> QED BY <1>2, <1>4, <1>7, <1>8, <1>9

\* Most requests end without touching a session.
LEMMA EndingKeeps ==
  ASSUME IInv, NEW t \in Tasks, Ends(t),
         UNCHANGED <<sessions, recipes, favorites, used, poured>>, at[t] # "mark",
         at[t] = "insertRecipe" => \/ job[t].next = Len(job[t].reply) + 1
                                   \/ sessions[job[t].id] = None
  PROVE  JobsFit' /\ IdsDiffer' /\ HistoryFits' /\ NewIsUnbrewed' /\ DrinksAreCounted'
<1>1. ASSUME at[t] = "insertRecipe", sessions[job[t].id] # None
      PROVE  sessions[job[t].id].size = job[t].next - 1
  <2>1. sessions[job[t].id].size = Len(job[t].reply) /\ job[t].next = Len(job[t].reply) + 1
    BY <1>1 DEF IInv, HistoryFits
  <2>2. job[t].reply \in Seq(Recipe)
    BY <1>1 DEF IInv, JobsFit, Fits, GenerateFits, Generating
  <2> QED BY <2>1, <2>2
<1> QED BY <1>1, StoppingKeeps

\* The stages of a task are of the same kind before and after a step, and
\* what its request is about stays.
SameKind(t) ==
  /\ at[t] \in Generating <=> at'[t] \in Generating
  /\ at[t] \in Brewing    <=> at'[t] \in Brewing
  /\ at[t] \in Adding     <=> at'[t] \in Adding
  /\ at[t] \in Generating \cup Brewing \cup Adding =>
       job'[t].id = job[t].id /\ job'[t].row = job[t].row

LEMMA SameIds ==
  ASSUME IdsDiffer, NEW t \in Tasks, Others(t), SameKind(t)
  PROVE  IdsDiffer'
<1>1. \A u \in Tasks : /\ at[u] \in Generating <=> at'[u] \in Generating
                       /\ at[u] \in Brewing    <=> at'[u] \in Brewing
                       /\ at[u] \in Adding     <=> at'[u] \in Adding
                       /\ at[u] \in Generating \cup Brewing \cup Adding =>
                            job'[u].id = job[u].id /\ job'[u].row = job[u].row
  BY DEF Others, SameKind
<1> QED BY <1>1 DEF IdsDiffer, Apart

LEMMA SameWork ==
  ASSUME JobsFit, JobsFit', NEW t \in Tasks, Others(t), SameKind(t)
  PROVE  \A s : AtWork(s)' <=> AtWork(s)
<1>1. ASSUME NEW u \in Tasks
      PROVE  /\ at[u] \in Generating <=> at'[u] \in Generating
             /\ at[u] \in Generating => job'[u].id = job[u].id
  BY DEF Others, SameKind
<1>2. \A u \in Tasks : /\ job[u].handler = "generate" <=> at[u] \in Generating
                       /\ job'[u].handler = "generate" <=> at'[u] \in Generating
  BY DEF JobsFit, Fits, StageFits
<1> QED BY <1>1, <1>2 DEF AtWork

(* A request that goes on to its next stage, without a table changing.        *)
LEMMA MovingKeeps ==
  ASSUME IInv, NEW t \in Tasks, Others(t), SameKind(t), Fits(at[t], job[t])',
         UNCHANGED <<sessions, recipes, favorites, used, poured>>,
         at[t] \notin {"insertRecipe", "mark"}, at'[t] \notin {"insertRecipe", "mark"},
         at'[t] = "brewing" => job[t].row \in Rows
  PROVE  JobsFit' /\ IdsDiffer' /\ HistoryFits' /\ NewIsUnbrewed' /\ DrinksAreCounted'
<1>1. JobsFit' /\ IdsDiffer'
  BY OthersFit, SameIds DEF IInv
<1>2. \A s : AtWork(s)' <=> AtWork(s)
  BY <1>1, SameWork DEF IInv
<1>3. \A u \in Tasks : at'[u] \in Generating =>
        at[u] \in Generating /\ job'[u].id = job[u].id
  BY DEF Others, SameKind
<1>4. \A u \in Tasks : at'[u] = "insertRecipe" \/ at[u] = "insertRecipe" =>
        at'[u] = at[u] /\ job'[u] = job[u]
  BY DEF Others
<1>5. HistoryFits'
  <2>1. \A s, n : Holds(s, n)' <=> Holds(s, n)
    BY DEF Holds
  <2>2. /\ \A s \in Sessions : s \notin used' => sessions'[s] = None /\ Holds(s, 0)'
        /\ \A s \in Sessions : ~AtWork(s)' /\ sessions'[s] # None =>
             Holds(s, sessions[s].size)'
        /\ \A s \in Sessions : ~AtWork(s)' /\ sessions'[s] = None => Holds(s, 0)'
    BY <1>2, <2>1 DEF IInv, HistoryFits
  <2>3. ASSUME NEW u \in Tasks, at'[u] \in Generating \ {"insertRecipe"}
        PROVE  sessions'[job'[u].id] = None /\ Holds(job[u].id, 0)' /\ job'[u].id = job[u].id
    <3>1. at[u] \in Generating \ {"insertRecipe"} /\ job'[u].id = job[u].id
      BY <1>3, <1>4, <2>3
    <3> QED BY <2>1, <3>1 DEF IInv, HistoryFits
  <2>4. ASSUME NEW u \in Tasks, at'[u] = "insertRecipe"
        PROVE  /\ Holds(job[u].id, job[u].next - 1)' /\ job'[u] = job[u]
               /\ sessions'[job'[u].id] # None =>
                    sessions'[job'[u].id].size = Len(job'[u].reply)
    <3>1. at[u] = "insertRecipe" /\ job'[u] = job[u]
      BY <1>4, <2>4
    <3> QED BY <2>1, <3>1 DEF IInv, HistoryFits
  <2> QED BY <2>1, <2>2, <2>3, <2>4 DEF HistoryFits
<1>6. NewIsUnbrewed'
  <2>1. \A u \in Tasks : at'[u] \in Adding => at[u] \in Adding /\ job'[u].id = job[u].id
    BY DEF Others, SameKind
  <2>2. ASSUME NEW f \in Favorites, favorites[f] = None, NEW u \in Tasks,
               at'[u] \in {"brewing", "mark"}, job'[u].row = f,
               \A v \in Tasks : at[v] \in {"brewing", "mark"} => job[v].row # f
        PROVE  FALSE
    <3>1. u = t /\ at'[t] = "brewing"
      BY <2>2 DEF Others
    <3>2. job[t].row = f
      BY <2>2, <3>1 DEF SameKind, Brewing
    <3>3. f \in RecipeIds
      BY <2>2, <3>1, <3>2 DEF Rows, Live, IInv, TypeOK
    <3> QED BY <3>3, IdsAssumption
  <2> QED BY <1>2, <2>1, <2>2 DEF IInv, NewIsUnbrewed
<1>7. DrinksAreCounted'
  BY SameMarking DEF IInv, DrinksAreCounted, Live
<1> QED BY <1>1, <1>5, <1>6, <1>7

(* What a step changes that only takes its request on.                        *)
LEMMA MoveKeeps ==
  ASSUME IInv, NEW t \in Tasks, NEW to \in Stages, NEW j \in Job,
         Goes(t, to), job' = [job EXCEPT ![t] = j],
         at[t] \notin {"insertRecipe", "mark"}, to \notin {"insertRecipe", "mark"},
         j.handler = job[t].handler, j.id = job[t].id, j.row = job[t].row,
         Fits(to, j), to = "brewing" => job[t].row \in Rows,
         UNCHANGED <<beans, hopper, sessions, recipes, favorites, used, poured>>,
         lock' \in Tasks \cup {None}
  PROVE  IInv'
<1>1. /\ at'[t] = to /\ job'[t] = j /\ Others(t)
      /\ at' \in [Tasks -> Stages] /\ job' \in [Tasks -> Job]
  BY Moved DEF IInv
<1>2. Fits(at[t], job[t])'
  BY <1>1 DEF Fits, StageFits, GenerateFits, BrewFits, AddFits, RemoveFits
<1>3. SameKind(t)
  <2>1. StageFits(at[t], job[t]) /\ StageFits(to, j)
    BY DEF IInv, JobsFit, Fits
  <2> QED BY <1>1, <2>1 DEF SameKind, StageFits
<1>4. JobsFit' /\ IdsDiffer' /\ HistoryFits' /\ NewIsUnbrewed' /\ DrinksAreCounted'
  BY <1>1, <1>2, <1>3, MovingKeeps
<1>5. TypeOK'
  BY <1>1 DEF IInv, TypeOK
<1> QED BY <1>4, <1>5 DEF IInv

LEMMA EndKeeps ==
  ASSUME IInv, NEW t \in Tasks, Ends(t), at[t] \notin {"insertRecipe", "mark"},
         UNCHANGED <<tables, used, poured>>, lock' \in Tasks \cup {None}
  PROVE  IInv'
<1>1. UNCHANGED <<beans, hopper, sessions, recipes, favorites, used, poured>>
  BY DEF tables
<1>2. JobsFit' /\ IdsDiffer' /\ HistoryFits' /\ NewIsUnbrewed' /\ DrinksAreCounted'
  BY <1>1, EndingKeeps
<1>3. TypeOK'
  BY <1>1, Ended DEF IInv, TypeOK
<1> QED BY <1>2, <1>3 DEF IInv

(* A new request: its id was not given out before, and what it brews is known. *)
LEMMA AskKeeps ==
  ASSUME IInv, NEW t \in Tasks, NEW handler \in AllHandlers,
         NEW first \in {"hopper1", "readRow", "readRecipe", "lock"},
         NEW j \in Job, NEW ids, Asks(t, handler, first, j, ids),
         first = "hopper1" => /\ handler = "generate" /\ ids = Sessions \ used
                              /\ j.reply = <<>> /\ j.next = 1,
         first = "readRow" => /\ handler = "brew" /\ ids = {None} /\ Known(j.row)
                              /\ j.row \in RecipeIds \cup Favorites,
         first = "readRecipe" => /\ handler = "addFavorite" /\ j.row \in RecipeIds
                                 /\ ids \subseteq (Favorites \ used) \cup {None},
         first = "lock" => /\ handler \in {"removeFavorite", "clearHistory", "deleteBean"}
                           /\ ids = {None}
                           /\ (handler = "removeFavorite" => j.row \in Favorites)
  PROVE  IInv'
<1>1. PICK id \in ids :
        /\ used' = IF id = None THEN used ELSE used \cup {id}
        /\ job' = [job EXCEPT ![t] = [j EXCEPT !.handler = handler, !.id = id]]
  BY DEF Asks
<1> DEFINE asked == [j EXCEPT !.handler = handler, !.id = id]
<1>2. id \in ((Sessions \cup Favorites) \ used) \cup {None}
  OBVIOUS
<1>3. /\ asked \in Job /\ asked.handler = handler /\ asked.id = id /\ asked.row = j.row
      /\ asked.reply = j.reply /\ asked.next = j.next
  BY <1>2 DEF Job
<1>4. first \in Stages /\ Goes(t, first) /\ job' = [job EXCEPT ![t] = asked]
  BY <1>1 DEF Asks, Stages, Generating, Brewing, Adding, Removing
<1> HIDE DEF asked
<1>5. /\ at'[t] = first /\ job'[t] = asked /\ Others(t)
      /\ at' \in [Tasks -> Stages] /\ job' \in [Tasks -> Job]
  BY <1>3, <1>4, Moved DEF IInv
<1>6. used \subseteq used' /\ used' \subseteq used \cup {id} /\ (id # None => id \in used')
  BY <1>1
<1>7. at[t] = "idle" /\ UNCHANGED <<beans, hopper, sessions, recipes, favorites, lock, poured>>
  BY DEF Asks, tables
<1>8. TypeOK'
  <2>1. used' \in SUBSET (Sessions \cup Favorites)
    BY <1>1, <1>2 DEF IInv, TypeOK
  <2> QED BY <1>5, <1>7, <2>1 DEF IInv, TypeOK
<1>9. first = "readRow" /\ j.row \in RecipeIds => j.row[1] \in used /\ ~AtWork(j.row[1])
  BY DEF Known
<1>10. first = "readRow" /\ j.row \in Favorites => j.row \in used
  BY IdsAssumption DEF Known
<1>11. first = "hopper1" => id \in Sessions \ used /\ id # None
  BY NoneAssumption
<1>12. first = "readRecipe" => id \in (Favorites \ used) \cup {None}
  OBVIOUS
<1>13. Usable(<<>>)
  <2>1. <<>> \in Seq(RawRecipe) /\ Len(<<>>) = 0
    OBVIOUS
  <2>2. ValidateRecipes(<<>>) \in Seq(Recipe) /\ Len(ValidateRecipes(<<>>)) <= 0
    BY <2>1, RecipesComeOut
  <2> QED BY <2>1, <2>2 DEF Usable, MaxRecipes
<1>14. Fits(at[t], job[t])'
  <2> USE <1>3, <1>5, <1>6
  <2>1. CASE first = "hopper1"
    BY <1>11, <1>13, <2>1 DEF Fits, StageFits, GenerateFits, BrewFits, AddFits, RemoveFits,
       Generating, Brewing, Adding, Usable
  <2>2. CASE first = "readRow"
    BY <1>9, <1>10, <2>2 DEF Fits, StageFits, GenerateFits, BrewFits, AddFits, RemoveFits,
       Generating, Brewing, Adding
  <2>3. CASE first = "readRecipe"
    BY <1>12, <2>3 DEF Fits, StageFits, GenerateFits, BrewFits, AddFits, RemoveFits,
       Generating, Brewing, Adding
  <2>4. CASE first = "lock"
    BY <2>4 DEF Fits, StageFits, GenerateFits, BrewFits, AddFits, RemoveFits,
       Generating, Brewing, Adding
  <2> QED BY <2>1, <2>2, <2>3, <2>4
<1>15. JobsFit'
  BY <1>5, <1>6, <1>14, OthersFit DEF IInv
<1>16. /\ first \in Generating <=> first = "hopper1"
       /\ first \in Brewing <=> first = "readRow"
       /\ first \in Adding <=> first = "readRecipe"
       /\ first \notin {"insertRecipe", "mark", "brewing"}
  BY DEF Generating, Brewing, Adding
<1>17. \A u \in Tasks : u # t => at'[u] = at[u] /\ job'[u] = job[u]
  BY <1>5 DEF Others
<1>18. \A u \in Tasks :
         /\ at[u] \in Generating => (job[u].id \in used /\ job[u].id \in Sessions)
         /\ (at[u] \in Adding /\ job[u].id # None) => job[u].id \in used
         /\ (at[u] \in Brewing /\ job[u].row \in RecipeIds) => job[u].row[1] \in used
  BY DEF IInv, JobsFit, Fits, GenerateFits, AddFits, BrewFits
<1>19. \A s : AtWork(s) <=> \E u \in Tasks : at[u] \in Generating /\ job[u].id = s
  BY Worker DEF IInv
<1>20. \A s : AtWork(s)' <=> AtWork(s) \/ (first = "hopper1" /\ s = id)
  <2>1. \A s : AtWork(s)' <=> \E u \in Tasks : at'[u] \in Generating /\ job'[u].id = s
    BY <1>15 DEF JobsFit, Fits, StageFits, AtWork
  <2>2. at[t] \notin Generating
    BY <1>7 DEF Generating
  <2>3. \A s : at'[t] \in Generating /\ job'[t].id = s <=> first = "hopper1" /\ s = id
    BY <1>3, <1>5, <1>16
  <2>4. \A s, u : u \in Tasks /\ u # t =>
          (at'[u] \in Generating /\ job'[u].id = s <=> at[u] \in Generating /\ job[u].id = s)
    BY <1>17
  <2> QED BY <1>19, <2>1, <2>2, <2>3, <2>4
<1>21. IdsDiffer'
  <2> SUFFICES ASSUME NEW u \in Tasks, NEW v \in Tasks, u # v
               PROVE  Apart(at[u], job[u], at[v], job[v])'
    BY DEF IdsDiffer
  <2>1. CASE u # t /\ v # t
    BY <1>17, <2>1 DEF IInv, IdsDiffer, Apart
  <2>2. CASE u = t
    <3>1. at'[u] = first /\ job'[u].id = id /\ job'[u].row = j.row
      BY <1>3, <1>5, <2>2
    <3>2. at'[v] = at[v] /\ job'[v] = job[v]
      BY <1>17, <2>2
    <3>3. (first = "hopper1" /\ at[v] \in Generating) => id # job[v].id
      BY <1>11, <1>18
    <3>4. (first = "readRecipe" /\ at[v] \in Adding /\ id # None) => id # job[v].id
      BY <1>12, <1>18
    <3>5. (first = "readRow" /\ j.row \in RecipeIds /\ at[v] \in Generating) =>
            j.row[1] # job[v].id
      BY <1>9, <1>19
    <3> QED BY <1>16, <3>1, <3>2, <3>3, <3>4, <3>5 DEF Apart
  <2>3. CASE v = t
    <3>1. at'[v] = first /\ job'[v].id = id
      BY <1>3, <1>5, <2>3
    <3>2. at'[u] = at[u] /\ job'[u] = job[u]
      BY <1>17, <2>3
    <3>3. first = "hopper1" => id \notin used
      BY <1>11
    <3>4. first = "readRecipe" => (id \notin used \/ id = None)
      BY <1>12
    <3> QED BY <1>16, <1>18, <3>1, <3>2, <3>3, <3>4 DEF Apart
  <2> QED BY <2>1, <2>2, <2>3
<1>22. HistoryFits'
  <2>1. \A s, n : Holds(s, n)' <=> Holds(s, n)
    BY <1>7 DEF Holds
  <2>2. \A s \in Sessions : s \notin used' => sessions'[s] = None /\ Holds(s, 0)'
    BY <1>6, <1>7, <2>1 DEF IInv, HistoryFits
  <2>3. \A s \in Sessions : ~AtWork(s)' =>
          /\ sessions'[s] # None => Holds(s, sessions[s].size)'
          /\ sessions'[s] = None => Holds(s, 0)'
    <3>1. \A s : ~AtWork(s)' => ~AtWork(s)
      BY <1>20
    <3>2. \A s \in Sessions : ~AtWork(s) =>
            /\ sessions[s] # None => Holds(s, sessions[s].size)
            /\ sessions[s] = None => Holds(s, 0)
      BY DEF IInv, HistoryFits
    <3> QED BY <1>7, <3>1, <3>2 DEF Holds
  <2>4. ASSUME NEW u \in Tasks, at'[u] \in Generating \ {"insertRecipe"}
        PROVE  sessions'[job'[u].id] = None /\ Holds(job[u].id, 0)'
    <3>1. CASE u = t
      <4>1. job'[u].id = id /\ id \in Sessions \ used
        BY <1>3, <1>5, <1>11, <1>16, <2>4, <3>1
      <4>2. sessions[id] = None /\ Holds(id, 0)
        BY <4>1 DEF IInv, HistoryFits
      <4> QED BY <1>7, <4>1, <4>2 DEF Holds
    <3>2. CASE u # t
      <4>1. sessions[job[u].id] = None /\ Holds(job[u].id, 0) /\ job'[u] = job[u]
        BY <1>17, <2>4, <3>2 DEF IInv, HistoryFits
      <4> QED BY <1>7, <4>1 DEF Holds
    <3> QED BY <3>1, <3>2
  <2>5. ASSUME NEW u \in Tasks, at'[u] = "insertRecipe"
        PROVE  /\ Holds(job[u].id, job[u].next - 1)'
               /\ sessions'[job'[u].id] # None =>
                    sessions'[job'[u].id].size = Len(job'[u].reply)
    <3>1. at[u] = "insertRecipe" /\ job'[u] = job[u]
      BY <1>5, <1>16, <1>17, <2>5
    <3>2. /\ Holds(job[u].id, job[u].next - 1)
          /\ sessions[job[u].id] # None => sessions[job[u].id].size = Len(job[u].reply)
      BY <3>1 DEF IInv, HistoryFits
    <3> QED BY <1>7, <3>1, <3>2 DEF Holds
  <2> QED BY <2>2, <2>3, <2>4, <2>5 DEF HistoryFits
<1>23. NewIsUnbrewed'
  <2>1. ASSUME NEW s \in Sessions, NEW k \in 1 .. MaxRecipes, s \notin used' \/ AtWork(s)'
        PROVE  poured'[<<s, k>>] = 0
    <3>1. s \notin used \/ AtWork(s)
      BY <1>6, <1>11, <1>20, <2>1
    <3> QED BY <1>7, <3>1 DEF IInv, NewIsUnbrewed
  <2>2. ASSUME NEW f \in Favorites,
               f \notin used' \/ \E u \in Tasks : at'[u] \in Adding /\ job'[u].id = f
        PROVE  f \notin used \/ \E u \in Tasks : at[u] \in Adding /\ job[u].id = f
    <3>1. CASE f \notin used'
      BY <1>6, <3>1
    <3>2. ASSUME NEW u \in Tasks, at'[u] \in Adding, job'[u].id = f, u # t
          PROVE  at[u] \in Adding /\ job[u].id = f
      BY <1>17, <3>2
    <3>3. CASE at'[t] \in Adding /\ job'[t].id = f
      BY <1>3, <1>5, <1>12, <1>16, <3>3, NoneAssumption
    <3> QED BY <2>2, <3>1, <3>2, <3>3
  <2>3. \A u \in Tasks : at'[u] \in {"brewing", "mark"} =>
          at[u] = at'[u] /\ job'[u] = job[u]
    BY <1>5, <1>16, <1>17
  <2> QED BY <1>7, <2>1, <2>2, <2>3 DEF IInv, NewIsUnbrewed
<1>24. DrinksAreCounted'
  BY <1>5, <1>7, <1>16, SameMarking DEF IInv, DrinksAreCounted, Live
<1> QED BY <1>8, <1>15, <1>21, <1>22, <1>23, <1>24 DEF IInv
----------------------------------------------------------------------------
(* generate.                                                                *)

LEMMA ReadsHopperKeeps ==
  ASSUME IInv, NEW t \in Tasks, NEW h \in Hoppers, ReadsHopper(t, h)
  PROVE  IInv'
<1> DEFINE read == [job[t].hoppers EXCEPT ![h] = hopper[h]]
           j  == [job[t] EXCEPT !.hoppers = read]
           to == <<"hopper2", "capabilities">>[h]
<1>1. /\ at[t] \in {"hopper1", "hopper2"} /\ to \in {"hopper2", "capabilities"}
      /\ job[t] \in Job /\ Fits(at[t], job[t])
  BY DEF ReadsHopper, Hoppers, IInv, TypeOK, JobsFit
<1>2. read \in [Hoppers -> Beans \cup {None}]
  BY <1>1 DEF IInv, TypeOK, Job
<1>3. job' = [job EXCEPT ![t] = j] /\ Goes(t, to)
  BY DEF ReadsHopper, IInv, TypeOK
<1> HIDE DEF read, to
<1>4. j \in Job /\ Fits(to, j)
  BY <1>1, <1>2 DEF Job, Fits, StageFits, GenerateFits, BrewFits, AddFits, RemoveFits,
     Generating, Brewing, Adding
<1> QED BY <1>1, <1>3, <1>4, MoveKeeps, ZenonT(30) DEF ReadsHopper, tables, Job, Stages, Generating,
     IInv, TypeOK

LEMMA ReadsCapabilitiesKeeps ==
  ASSUME IInv, NEW t \in Tasks, ReadsCapabilities(t)
  PROVE  IInv'
<1> DEFINE to == IF job[t].native THEN "native" ELSE "model"
<1>1. /\ at[t] = "capabilities" /\ to \in {"native", "model"}
      /\ job[t] \in Job /\ Fits(at[t], job[t])
  BY DEF ReadsCapabilities, IInv, TypeOK, JobsFit
<1>2. job' = [job EXCEPT ![t] = job[t]] /\ Goes(t, to)
  BY DEF ReadsCapabilities, IInv, TypeOK
<1> HIDE DEF to
<1>3. Fits(to, job[t])
  BY <1>1 DEF Fits, StageFits, GenerateFits, BrewFits, AddFits, RemoveFits,
     Generating, Brewing, Adding
<1> QED BY <1>1, <1>2, <1>3, MoveKeeps DEF ReadsCapabilities, tables, Stages, Generating,
     IInv, TypeOK

(* A usable reply is saved as what the validator makes of it.                 *)
LEMMA ConcludesKeeps ==
  ASSUME IInv, NEW t \in Tasks, at[t] \in {"native", "model"}, NEW raw, Usable(raw),
         Concludes(t, raw), UNCHANGED <<tables, lock, used, poured>>
  PROVE  IInv'
<1>1. CASE Ends(t)
  BY <1>1, EndKeeps DEF IInv, TypeOK
<1>2. CASE Saves(t, raw)
  <2> DEFINE reply == ValidateRecipes(raw)
             j == [job[t] EXCEPT !.reply = reply, !.attempt = 0, !.native = FALSE]
  <2>1. reply \in Seq(Recipe) /\ Len(reply) <= MaxRecipes
    BY RecipesComeOut DEF Usable
  <2>2. job[t] \in Job /\ Fits(at[t], job[t])
    BY DEF IInv, TypeOK, JobsFit
  <2>3. job' = [job EXCEPT ![t] = j] /\ Goes(t, "insertSession")
    BY <1>2 DEF Saves, IInv, TypeOK
  <2> HIDE DEF reply
  <2>4. j \in Job /\ Fits("insertSession", j)
    BY <2>1, <2>2, ZenonT(30) DEF Job, Fits, StageFits, GenerateFits, BrewFits, AddFits, RemoveFits,
       Generating, Brewing, Adding
  <2> QED BY <2>2, <2>3, <2>4, MoveKeeps, ZenonT(30)
      DEF tables, Job, Stages, Generating, IInv, TypeOK
<1> QED BY <1>1, <1>2 DEF Concludes

LEMMA AnswersKeep ==
  ASSUME IInv, NEW t \in Tasks, NativeAnswers(t) \/ ModelAnswers(t)
  PROVE  IInv'
<1> USE DEF IInv
<1>1. UNCHANGED <<tables, lock, used, poured>>
  BY DEF NativeAnswers, ModelAnswers
<1>2. \A r \in Replies : Usable(r.recipes)
  BY RepliesAssumption
<1>3. job[t] \in Job /\ Fits(at[t], job[t])
  BY DEF TypeOK, JobsFit
<1>4. ASSUME NEW to, NEW j, to = "model", Goes(t, to), job' = [job EXCEPT ![t] = j],
             j \in Job, at[t] \in {"native", "model"}, Usable(j.reply),
             j.handler = job[t].handler, j.id = job[t].id, j.row = job[t].row,
             j.next = job[t].next
      PROVE  IInv'
  <2>1. Fits(to, j)
    BY <1>3, <1>4 DEF Fits, StageFits, GenerateFits, BrewFits, AddFits, RemoveFits,
       Generating, Brewing, Adding
  <2> QED BY <1>1, <1>4, <2>1, MoveKeeps DEF tables, Stages, Generating, TypeOK
<1>5. CASE NativeAnswers(t)
  <2>1. CASE \E r \in Replies : r.kind = "json" /\ r.valid /\ Concludes(t, r.recipes)
    BY <1>1, <1>2, <1>5, <2>1, ConcludesKeeps DEF NativeAnswers
  <2>2. CASE Goes(t, "model") /\ job' = [job EXCEPT ![t].native = FALSE]
    <3> DEFINE j == [job[t] EXCEPT !.native = FALSE]
    <3>1. job' = [job EXCEPT ![t] = j] /\ at[t] = "native"
      BY <1>5, <2>2 DEF TypeOK, NativeAnswers
    <3>2. /\ j \in Job /\ j.handler = job[t].handler /\ j.id = job[t].id
          /\ j.row = job[t].row /\ j.next = job[t].next /\ j.reply = job[t].reply
      BY <1>3, ZenonT(30) DEF Job
    <3>3. Usable(job[t].reply)
      BY <1>3, <3>1 DEF Fits, GenerateFits, Generating
    <3> QED BY <1>4, <2>2, <3>1, <3>2, <3>3
  <2> QED BY <1>5, <2>1, <2>2 DEF NativeAnswers
<1>6. CASE ModelAnswers(t)
  <2> DEFINE raw(r) == IF r.kind = "json" THEN r.recipes ELSE job[t].reply
  <2>1. PICK r \in Replies :
          IF r.kind = "error" THEN Ends(t)
          ELSE IF AsksAgain(t, r)
          THEN /\ job' = [job EXCEPT ![t].reply = raw(r), ![t].attempt = @ + 1]
               /\ UNCHANGED at
          ELSE Concludes(t, raw(r))
    BY <1>6 DEF ModelAnswers
  <2>2. at[t] = "model" /\ Usable(raw(r))
    BY <1>2, <1>3, <1>6 DEF ModelAnswers, Fits, GenerateFits, Generating
  <2> DEFINE kept == raw(r)
             more == job[t].attempt + 1
             j == [job[t] EXCEPT !.reply = kept, !.attempt = more]
  <2>3. CASE Ends(t)
    BY <1>1, <2>2, <2>3, EndKeeps DEF TypeOK
  <2>4. CASE job' = [job EXCEPT ![t].reply = raw(r), ![t].attempt = @ + 1] /\ UNCHANGED at
    <3>3. Usable(kept) /\ more \in Nat
      BY <1>3, <2>2 DEF Job
    <3> HIDE DEF raw
    <3>1. job' = [job EXCEPT ![t] = j] /\ Goes(t, "model")
      BY <2>2, <2>4 DEF TypeOK, Goes
    <3> HIDE DEF kept, more
    <3>2. /\ j \in Job /\ j.handler = job[t].handler /\ j.id = job[t].id
          /\ j.row = job[t].row /\ j.next = job[t].next /\ j.reply = kept
      BY <1>3, <3>3 DEF Job, Usable
    <3> QED BY <1>4, <2>2, <3>1, <3>2, <3>3
  <2>5. CASE Concludes(t, raw(r))
    BY <1>1, <2>2, <2>5, ConcludesKeeps
  <2> QED BY <2>1, <2>3, <2>4, <2>5
<1> QED BY <1>5, <1>6

LEMMA AskGenerateKeeps ==
  ASSUME IInv, NEW t \in Tasks, AskGenerate(t)
  PROVE  IInv'
<1>1. PICK native \in BOOLEAN :
        Asks(t, "generate", "hopper1", [NoJob EXCEPT !.native = native], Sessions \ used)
  BY DEF AskGenerate
<1> DEFINE j == [NoJob EXCEPT !.native = native]
<1>2. j \in Job /\ j.reply = <<>> /\ j.next = 1
  <2>1. NoJob \in Job /\ NoJob.reply = <<>> /\ NoJob.next = 1
    BY NoJobIsJob DEF NoJob
  <2> QED BY <2>1 DEF Job
<1> HIDE DEF j
<1>3. Asks(t, "generate", "hopper1", j, Sessions \ used)
  BY <1>1 DEF j
<1> QED BY <1>2, <1>3, AskKeeps DEF AllHandlers

(* What a step leaves alone that takes a request on and changes its table.    *)
LEMMA UnbrewedKept ==
  ASSUME IInv, NEW t \in Tasks, Others(t), SameKind(t), JobsFit',
         UNCHANGED <<favorites, used, poured>>,
         at[t] \notin {"brewing", "mark"}, at'[t] \notin {"brewing", "mark"}
  PROVE  NewIsUnbrewed'
<1>1. \A s : AtWork(s)' <=> AtWork(s)
  BY SameWork DEF IInv
<1>2. \A u \in Tasks : at'[u] \in Adding => (at[u] \in Adding /\ job'[u].id = job[u].id)
  BY DEF Others, SameKind
<1>3. \A u \in Tasks : at'[u] \in {"brewing", "mark"} =>
        (at[u] \in {"brewing", "mark"} /\ job'[u] = job[u])
  BY DEF Others
<1> QED BY <1>1, <1>2, <1>3 DEF IInv, NewIsUnbrewed

LEMMA InsertSessionKeeps ==
  ASSUME IInv, NEW t \in Tasks, InsertSession(t)
  PROVE  IInv'
<1> DEFINE s == job[t].id
           row == [beans |-> job[t].hoppers, size |-> Len(job[t].reply)]
           j == [job[t] EXCEPT !.hoppers = NoJob.hoppers]
<1> USE DEF IInv
<1>1. /\ at[t] = "insertSession" /\ job[t] \in Job /\ Fits(at[t], job[t])
      /\ UNCHANGED <<beans, hopper, recipes, favorites, lock, used, poured>>
  BY DEF InsertSession, TypeOK, JobsFit
<1>2. CASE Ends(t) /\ UNCHANGED sessions
  BY <1>1, <1>2, EndKeeps DEF tables, TypeOK
<1>3. CASE /\ sessions' = [sessions EXCEPT ![s] = row]
           /\ Goes(t, "insertRecipe") /\ job' = [job EXCEPT ![t].hoppers = NoJob.hoppers]
  <2>1. s \in Sessions /\ Len(job[t].reply) \in 0 .. MaxRecipes /\ job[t].next = 1
    BY <1>1 DEF Fits, GenerateFits, Generating
  <2>2. row \in SessionRow /\ row # None /\ row.size = Len(job[t].reply)
    BY <1>1, <2>1, NoneAssumption DEF SessionRow, Job
  <2>3. NoJob.hoppers \in [Hoppers -> Beans \cup {None}]
    BY DEF NoJob
  <2>4. /\ j \in Job /\ j.handler = job[t].handler /\ j.id = s /\ j.row = job[t].row
        /\ j.reply = job[t].reply /\ j.next = job[t].next
    BY <1>1, <2>3 DEF Job
  <2>5. job' = [job EXCEPT ![t] = j] /\ "insertRecipe" \in Stages
    BY <1>3 DEF TypeOK, Stages, Generating
  <2> HIDE DEF j, row
  <2>6. /\ at'[t] = "insertRecipe" /\ job'[t] = j /\ Others(t)
        /\ at' \in [Tasks -> Stages] /\ job' \in [Tasks -> Job]
    BY <1>3, <2>4, <2>5, Moved
  <2>7. SameKind(t)
    BY <1>1, <2>4, <2>6 DEF SameKind, Generating, Brewing, Adding
  <2>8. Fits(at[t], job[t])'
    BY <1>1, <2>1, <2>4, <2>6 DEF Fits, StageFits, GenerateFits, BrewFits, AddFits,
       RemoveFits, Generating, Brewing, Adding
  <2>9. JobsFit' /\ IdsDiffer'
    BY <1>1, <2>6, <2>7, <2>8, OthersFit, SameIds
  <2>10. \A x : AtWork(x)' <=> AtWork(x)
    BY <2>6, <2>7, <2>9, SameWork
  <2>11. NewIsUnbrewed' /\ DrinksAreCounted'
    BY <1>1, <2>6, <2>7, <2>9, UnbrewedKept, SameMarking DEF DrinksAreCounted, Live
  <2>12. TypeOK'
    BY <1>1, <1>3, <2>1, <2>2, <2>6 DEF TypeOK
  <2>13. \A x \in Sessions : x # s => sessions'[x] = sessions[x]
    BY <1>3 DEF TypeOK
  <2>14. sessions'[s] = row
    BY <1>3, <2>1 DEF TypeOK
  <2>15. \A x \in Sessions : x # s => \A n : Holds(x, n)' <=> Holds(x, n)
    BY <1>1, <2>13 DEF Holds
  <2>16. sessions[s] = None /\ Holds(s, 0) /\ s \in used /\ AtWork(s)
    BY <1>1, Worker DEF HistoryFits, Generating, Fits, GenerateFits
  <2>17. \A u \in Tasks : u # t => (at'[u] = at[u] /\ job'[u] = job[u])
    BY <2>6 DEF Others
  <2>18. \A u \in Tasks : (u # t /\ at[u] \in Generating) => (job[u].id # s /\ job[u].id \in Sessions)
    BY <1>1 DEF IdsDiffer, Apart, Generating, JobsFit, Fits, GenerateFits
  <2>19. HistoryFits'
    <3>1. \A x \in Sessions : x \notin used' => (sessions'[x] = None /\ Holds(x, 0)')
      BY <1>1, <2>13, <2>15, <2>16 DEF HistoryFits
    <3>2. \A x \in Sessions : ~AtWork(x)' =>
            /\ sessions'[x] # None => Holds(x, sessions[x].size)'
            /\ sessions'[x] = None => Holds(x, 0)'
      BY <2>10, <2>13, <2>15, <2>16 DEF HistoryFits
    <3>3. \A u \in Tasks : at'[u] \in Generating \ {"insertRecipe"} =>
            (sessions'[job'[u].id] = None /\ Holds(job[u].id, 0)')
      BY <2>6, <2>13, <2>15, <2>17, <2>18 DEF HistoryFits
    <3>4. ASSUME NEW u \in Tasks, at'[u] = "insertRecipe"
          PROVE  /\ Holds(job[u].id, job[u].next - 1)'
                 /\ sessions'[job'[u].id] # None =>
                      sessions'[job'[u].id].size = Len(job'[u].reply)
      <4>1. CASE u = t
        BY <1>1, <2>1, <2>2, <2>4, <2>6, <2>14, <2>16, <4>1 DEF Holds
      <4>2. CASE u # t
        <5>1. at[u] = "insertRecipe" /\ job'[u] = job[u] /\ job[u].id # s
              /\ job[u].id \in Sessions
          BY <2>17, <2>18, <3>4, <4>2 DEF Generating
        <5> QED BY <2>13, <2>15, <5>1 DEF HistoryFits
      <4> QED BY <4>1, <4>2
    <3> QED BY <3>1, <3>2, <3>3, <3>4 DEF HistoryFits
  <2> QED BY <2>9, <2>11, <2>12, <2>19
<1> QED BY <1>2, <1>3 DEF InsertSession

LEMMA InsertRecipeKeeps ==
  ASSUME IInv, NEW t \in Tasks, InsertRecipe(t)
  PROVE  IInv'
<1>0. PICK s, k : s = job[t].id /\ k = job[t].next
  OBVIOUS
<1> USE <1>0
<1> DEFINE r == <<s, k>>
           row == [phases |-> job[t].reply[k].phases,
                   blend |-> job[t].reply[k].blend, brewed |-> FALSE]
           j == [job[t] EXCEPT !.next = k + 1]
<1> USE DEF IInv
<1>1. /\ at[t] = "insertRecipe" /\ job[t] \in Job /\ Fits(at[t], job[t])
      /\ UNCHANGED <<beans, hopper, sessions, favorites, lock, used, poured>>
  BY DEF InsertRecipe, TypeOK, JobsFit
<1>2. /\ s \in Sessions /\ s \in used /\ AtWork(s)
      /\ job[t].reply \in Seq(Recipe) /\ Len(job[t].reply) <= MaxRecipes
      /\ k \in 1 .. Len(job[t].reply) + 1
  BY <1>1, Worker DEF Fits, GenerateFits, Generating
<1>3. CASE (k > Len(job[t].reply) \/ ~RecipeFits(t)) /\ Ends(t) /\ UNCHANGED recipes
  <2>1. k = Len(job[t].reply) + 1 \/ sessions[s] = None
    BY <1>2, <1>3 DEF RecipeFits
  <2>2. JobsFit' /\ IdsDiffer' /\ HistoryFits' /\ NewIsUnbrewed' /\ DrinksAreCounted'
    BY <1>1, <1>3, <2>1, EndingKeeps
  <2>3. TypeOK'
    BY <1>1, <1>3, Ended DEF TypeOK
  <2> QED BY <2>2, <2>3
<1>4. CASE /\ k <= Len(job[t].reply) /\ RecipeFits(t)
           /\ recipes' = [recipes EXCEPT ![r] = row]
           /\ job' = [job EXCEPT ![t].next = k + 1] /\ UNCHANGED at
  <2>1. k \in 1 .. MaxRecipes /\ r \in RecipeIds
    BY <1>2, <1>4 DEF RecipeIds, MaxRecipes
  <2>2. row \in RecipeRow /\ row # None /\ ~row.brewed
    <3> DEFINE recipe == job[t].reply[k]
    <3>1. recipe \in Recipe
      BY <1>2, <1>4
    <3> HIDE DEF recipe
    <3>2. recipe.phases \in Phases /\ recipe.blend \in {0, 1}
      BY <3>1 DEF Recipe
    <3>3. row = [phases |-> recipe.phases, blend |-> recipe.blend, brewed |-> FALSE]
      BY DEF recipe
    <3>4. row \in RecipeRow /\ row.brewed = FALSE
      BY <3>2, <3>3 DEF RecipeRow
    <3> QED BY <3>4, NoneAssumption
  <2>3. /\ j \in Job /\ j.handler = job[t].handler /\ j.id = s /\ j.row = job[t].row
        /\ j.reply = job[t].reply /\ j.next = k + 1
    BY <1>1 DEF Job
  <2>4. job' = [job EXCEPT ![t] = j] /\ Goes(t, "insertRecipe") /\ "insertRecipe" \in Stages
    BY <1>1, <1>4 DEF TypeOK, Stages, Generating, Goes
  <2> HIDE DEF j, row
  <2>5. /\ at'[t] = "insertRecipe" /\ job'[t] = j /\ Others(t)
        /\ at' \in [Tasks -> Stages] /\ job' \in [Tasks -> Job]
    BY <2>3, <2>4, Moved
  <2>6. SameKind(t)
    BY <1>1, <2>3, <2>5 DEF SameKind, Generating, Brewing, Adding
  <2>7. Fits(at[t], job[t])'
    BY <1>1, <1>2, <1>4, <2>3, <2>5 DEF Fits, StageFits, GenerateFits, BrewFits, AddFits,
       RemoveFits, Generating, Brewing, Adding
  <2>8. JobsFit' /\ IdsDiffer'
    BY <1>1, <2>5, <2>6, <2>7, OthersFit, SameIds
  <2>9. \A x : AtWork(x)' <=> AtWork(x)
    BY <2>5, <2>6, <2>8, SameWork
  <2>10. NewIsUnbrewed'
    BY <1>1, <2>5, <2>6, <2>8, UnbrewedKept
  <2>11. TypeOK'
    BY <1>1, <1>4, <2>1, <2>2, <2>5 DEF TypeOK
  <2>12. recipes'[r] = row /\ \A x \in RecipeIds : x # r => recipes'[x] = recipes[x]
    BY <1>4, <2>1 DEF TypeOK
  <2>13. \A x \in Sessions, i \in 1 .. MaxRecipes : <<x, i>> \in RecipeIds
    BY DEF RecipeIds
  <2>14. \A x \in Sessions : x # s => \A n : Holds(x, n)' <=> Holds(x, n)
    BY <1>1, <2>12, <2>13 DEF Holds
  <2>15. /\ Holds(s, k - 1) /\ sessions[s] # None
         /\ sessions[s].size = Len(job[t].reply)
    BY <1>1, <1>4 DEF HistoryFits, RecipeFits
  <2>16. Holds(s, k)'
    <3> SUFFICES ASSUME NEW i \in 1 .. MaxRecipes
                 PROVE  recipes'[<<s, i>>] # None <=> (sessions'[s] # None /\ i <= k)
      BY DEF Holds
    <3>1. CASE i = k
      BY <1>1, <2>2, <2>12, <2>15, <3>1
    <3>2. CASE i # k
      <4>1. <<s, i>> # r /\ <<s, i>> \in RecipeIds
        BY <1>2, <2>13, <3>2
      <4>2. recipes'[<<s, i>>] = recipes[<<s, i>>]
        BY <2>12, <4>1
      <4>3. recipes[<<s, i>>] # None <=> (sessions[s] # None /\ i <= k - 1)
        BY <2>15 DEF Holds
      <4>4. i <= k <=> i <= k - 1
        BY <2>1, <3>2
      <4> QED BY <1>1, <4>2, <4>3, <4>4
    <3> QED BY <3>1, <3>2
  <2>17. \A u \in Tasks : u # t => (at'[u] = at[u] /\ job'[u] = job[u])
    BY <2>5 DEF Others
  <2>18. \A u \in Tasks : (u # t /\ at[u] \in Generating) =>
                            (job[u].id # s /\ job[u].id \in Sessions)
    BY <1>1 DEF IdsDiffer, Apart, Generating, JobsFit, Fits, GenerateFits
  <2>19. HistoryFits'
    <3>1. \A x \in Sessions : x \notin used' => (sessions'[x] = None /\ Holds(x, 0)')
      BY <1>1, <1>2, <2>14 DEF HistoryFits
    <3>2. \A x \in Sessions : ~AtWork(x)' =>
            /\ sessions'[x] # None => Holds(x, sessions[x].size)'
            /\ sessions'[x] = None => Holds(x, 0)'
      BY <1>1, <1>2, <2>9, <2>14 DEF HistoryFits
    <3>3. \A u \in Tasks : at'[u] \in Generating \ {"insertRecipe"} =>
            (sessions'[job'[u].id] = None /\ Holds(job[u].id, 0)')
      BY <1>1, <2>5, <2>14, <2>17, <2>18 DEF HistoryFits
    <3>4. ASSUME NEW u \in Tasks, at'[u] = "insertRecipe"
          PROVE  /\ Holds(job[u].id, job[u].next - 1)'
                 /\ sessions'[job'[u].id] # None =>
                      sessions'[job'[u].id].size = Len(job'[u].reply)
      <4>1. CASE u = t
        <5>1. job'[u].id = s /\ job'[u].next - 1 = k /\ job'[u].reply = job[t].reply
          BY <1>2, <2>3, <2>5, <4>1
        <5> QED BY <1>1, <2>15, <2>16, <5>1 DEF Holds
      <4>2. CASE u # t
        <5>1. at[u] = "insertRecipe" /\ job'[u] = job[u] /\ job[u].id # s
              /\ job[u].id \in Sessions
          BY <2>17, <2>18, <3>4, <4>2 DEF Generating
        <5> QED BY <1>1, <2>14, <5>1 DEF HistoryFits
      <4> QED BY <4>1, <4>2
    <3> QED BY <3>1, <3>2, <3>3, <3>4 DEF HistoryFits
  <2>20. DrinksAreCounted'
    <3>1. \A id : Marking(id)' = Marking(id)
      BY <1>1, <2>5, SameMarking
    <3>2. poured[r] = 0
      BY <1>2, <2>1 DEF NewIsUnbrewed
    <3>3. Marking(r) = {}
      <4> SUFFICES ASSUME NEW u \in Tasks, at[u] = "mark", job[u].row = r PROVE FALSE
        BY DEF Marking
      <4>1. r[1] = s /\ u # t /\ at[u] \in Brewing /\ at[t] \in Generating
        BY <1>1 DEF Brewing, Generating
      <4> QED BY <2>1, <4>1 DEF IdsDiffer, Apart
    <3>4. ASSUME NEW x \in Live(recipes)'
          PROVE  (recipes'[x].brewed \/ Marking(x)' # {}) <=> poured'[x] > 0
      <4>1. x \in RecipeIds /\ recipes'[x] # None
        BY <2>11 DEF Live, TypeOK
      <4>2. CASE x = r
        BY <1>1, <2>2, <2>12, <3>1, <3>2, <3>3, <4>2
      <4>3. CASE x # r
        <5>1. x \in Live(recipes) /\ recipes'[x] = recipes[x]
          BY <2>12, <4>1, <4>3 DEF Live, TypeOK
        <5> QED BY <1>1, <3>1, <5>1 DEF DrinksAreCounted
      <4> QED BY <4>2, <4>3
    <3>5. \A f \in Live(favorites)' :
            favorites'[f].count + Cardinality(Marking(f)') = poured'[f]
      BY <1>1, <3>1 DEF DrinksAreCounted, Live
    <3> QED BY <3>4, <3>5 DEF DrinksAreCounted
  <2> QED BY <2>8, <2>10, <2>11, <2>19, <2>20
<1> QED BY <1>2, <1>3, <1>4 DEF InsertRecipe

LEMMA InsertRaisesKeeps ==
  ASSUME IInv, NEW t \in Tasks, InsertRaises(t)
  PROVE  IInv'
<1>1. /\ at[t] \in Generating /\ at[t] # "mark" /\ Ends(t)
      /\ UNCHANGED <<beans, hopper, recipes, favorites, lock, used, poured>>
      /\ sessions \in [Sessions -> SessionRow \cup {None}]
  BY DEF InsertRaises, Generating, IInv, TypeOK
<1>2. CASE at[t] = "insertSession" /\ UNCHANGED sessions
  <2>1. JobsFit' /\ IdsDiffer' /\ HistoryFits' /\ NewIsUnbrewed' /\ DrinksAreCounted'
    BY <1>1, <1>2, EndingKeeps
  <2>2. TypeOK'
    BY <1>1, <1>2, Ended DEF IInv, TypeOK
  <2> QED BY <2>1, <2>2 DEF IInv
<1>3. CASE /\ at[t] = "insertRecipe" /\ job[t].next <= Len(job[t].reply)
           /\ sessions' = [s \in Sessions |->
                IF s = job[t].id /\ sessions[s] # None
                THEN [sessions[s] EXCEPT !.size = job[t].next - 1] ELSE sessions[s]]
  <2>1. /\ job[t].id \in Sessions /\ job[t].reply \in Seq(Recipe)
        /\ Len(job[t].reply) <= MaxRecipes /\ job[t].next \in 1 .. Len(job[t].reply) + 1
    BY <1>3 DEF IInv, JobsFit, Fits, GenerateFits, Generating
  <2>2. job[t].next - 1 \in 0 .. MaxRecipes
    BY <1>3, <2>1 DEF MaxRecipes
  <2>3. ASSUME NEW s \in Sessions
        PROVE  /\ sessions'[s] \in SessionRow \cup {None}
               /\ sessions'[s] = None <=> sessions[s] = None
               /\ sessions'[s] = sessions[s] \/ job[t].id = s
               /\ (job[t].id = s /\ sessions[s] # None) => sessions'[s].size = job[t].next - 1
    <3>1. CASE s = job[t].id /\ sessions[s] # None
      <4>1. sessions'[s] = [sessions[s] EXCEPT !.size = job[t].next - 1] /\ sessions[s] \in SessionRow
        BY <1>1, <1>3, <3>1
      <4>2. sessions'[s] \in SessionRow /\ sessions'[s].size = job[t].next - 1
        BY <2>2, <4>1 DEF SessionRow
      <4> QED BY <3>1, <4>2, NoneAssumption
    <3>2. CASE ~(s = job[t].id /\ sessions[s] # None)
      BY <1>1, <1>3, <3>2
    <3> QED BY <3>1, <3>2
  <2>4. JobsFit' /\ IdsDiffer' /\ HistoryFits' /\ NewIsUnbrewed' /\ DrinksAreCounted'
    BY <1>1, <1>3, <2>1, <2>3, StoppingKeeps
  <2>5. sessions' \in [Sessions -> SessionRow \cup {None}]
    BY <1>3, <2>3
  <2>6. TypeOK'
    BY <1>1, <2>5, Ended DEF IInv, TypeOK
  <2> QED BY <2>4, <2>6 DEF IInv
<1> QED BY <1>2, <1>3 DEF InsertRaises
----------------------------------------------------------------------------
(* brew.                                                                    *)

LEMMA AskBrewKeeps ==
  ASSUME IInv, NEW t \in Tasks, AskBrew(t)
  PROVE  IInv'
<1>1. PICK id \in RecipeIds \cup Favorites, phase \in 0 .. 2 :
        /\ Known(id)
        /\ Asks(t, "brew", "readRow", [NoJob EXCEPT !.row = id, !.next = phase], {None})
  BY DEF AskBrew
<1> DEFINE j == [NoJob EXCEPT !.row = id, !.next = phase]
<1>2. j \in Job /\ j.row = id
  <2>1. phase \in Nat
    OBVIOUS
  <2> QED BY <2>1, NoJobIsJob DEF Job
<1> HIDE DEF j
<1>3. Asks(t, "brew", "readRow", j, {None})
  BY <1>1 DEF j
<1> QED BY <1>1, <1>2, <1>3, AskKeeps DEF AllHandlers

LEMMA StartsBrewKeeps ==
  ASSUME IInv, NEW t \in Tasks, StartsBrew(t)
  PROVE  IInv'
<1> DEFINE id == job[t].row
           last == (job[t].next \in {0, Len(Row(id).phases)})
           j == [job[t] EXCEPT !.last = last, !.next = 1]
<1>1. /\ at[t] = "readRow" /\ job[t] \in Job /\ Fits(at[t], job[t])
      /\ UNCHANGED <<tables, lock, used, poured>>
  BY DEF StartsBrew, IInv, TypeOK, JobsFit
<1>2. CASE Ends(t)
  BY <1>1, <1>2, EndKeeps DEF IInv, TypeOK
<1>3. CASE /\ id \in Rows /\ Goes(t, "brewing")
           /\ job' = [job EXCEPT ![t].last = last, ![t].next = 1]
  <2>1. last \in BOOLEAN
    OBVIOUS
  <2> HIDE DEF last
  <2>2. job' = [job EXCEPT ![t] = j]
    BY <1>3 DEF IInv, TypeOK
  <2>3. j \in Job /\ Fits("brewing", j)
    BY <1>1, <2>1, ZenonT(30) DEF Job, Fits, StageFits, GenerateFits, BrewFits, AddFits, RemoveFits,
       Generating, Brewing, Adding
  <2> QED BY <1>1, <1>3, <2>2, <2>3, MoveKeeps DEF tables, Job, Stages, Brewing, IInv, TypeOK
<1> QED BY <1>2, <1>3, Zenon DEF StartsBrew

LEMMA NoBrewKeeps ==
  ASSUME IInv, NEW t \in Tasks, NoMachine(t) \/ MachineRefuses(t)
  PROVE  IInv'
BY EndKeeps DEF NoMachine, MachineRefuses, IInv, TypeOK

(* A step that neither generates nor asks, on tables that only lose rows or   *)
(* keep them as they were.                                                   *)
LEMMA HistoryKept ==
  ASSUME JobsFit, HistoryFits, NEW t \in Tasks, Others(t), at[t] \notin Generating,
         at'[t] \notin Generating, used' = used, \A s : AtWork(s)' <=> AtWork(s),
         \A s \in Sessions :
           \/ /\ sessions'[s] = None
              /\ \A k \in 1 .. MaxRecipes : recipes'[<<s, k>>] = None
           \/ /\ sessions'[s] = None <=> sessions[s] = None
              /\ sessions[s] # None => sessions'[s].size = sessions[s].size
              /\ \A k \in 1 .. MaxRecipes :
                   recipes'[<<s, k>>] = None <=> recipes[<<s, k>>] = None
  PROVE  HistoryFits'
<1>1. ASSUME NEW s \in Sessions
      PROVE  \/ sessions'[s] = None /\ \A n : Holds(s, n)'
             \/ /\ sessions'[s] = None <=> sessions[s] = None
                /\ sessions[s] # None => sessions'[s].size = sessions[s].size
                /\ \A n : Holds(s, n)' <=> Holds(s, n)
  <2>1. CASE sessions'[s] = None /\ \A k \in 1 .. MaxRecipes : recipes'[<<s, k>>] = None
    BY <2>1 DEF Holds
  <2>2. CASE /\ sessions'[s] = None <=> sessions[s] = None
             /\ sessions[s] # None => sessions'[s].size = sessions[s].size
             /\ \A k \in 1 .. MaxRecipes :
                  recipes'[<<s, k>>] = None <=> recipes[<<s, k>>] = None
    BY <2>2 DEF Holds
  <2> QED BY <2>1, <2>2
<1>2. \A u \in Tasks : at'[u] \in Generating =>
        /\ at'[u] = at[u] /\ job'[u] = job[u] /\ job[u].id \in Sessions
  BY DEF Others, JobsFit, Fits, GenerateFits
<1>3. \A s \in Sessions : s \notin used' => (sessions'[s] = None /\ Holds(s, 0)')
  BY <1>1 DEF HistoryFits
<1>4. ASSUME NEW u \in Tasks, at'[u] \in Generating \ {"insertRecipe"}
      PROVE  sessions'[job'[u].id] = None /\ Holds(job[u].id, 0)'
  <2>1. PICK s \in Sessions : s = job[u].id /\ s = job'[u].id
    BY <1>2, <1>4
  <2>2. sessions[s] = None /\ Holds(s, 0)
    BY <1>2, <1>4, <2>1 DEF HistoryFits
  <2>3. sessions'[s] = None /\ Holds(s, 0)'
    BY <1>1, <2>2
  <2> QED BY <2>1, <2>3
<1>5. ASSUME NEW u \in Tasks, at'[u] = "insertRecipe"
      PROVE  /\ Holds(job[u].id, job[u].next - 1)'
             /\ sessions'[job'[u].id] # None =>
                  sessions'[job'[u].id].size = Len(job'[u].reply)
  <2>0. at'[u] \in Generating
    BY <1>5 DEF Generating
  <2>1. PICK s, n : /\ s \in Sessions /\ s = job[u].id /\ s = job'[u].id
                    /\ n = job[u].next - 1 /\ n = job'[u].next - 1
    BY <1>2, <2>0
  <2>2. Holds(s, n) /\ (sessions[s] # None => sessions[s].size = Len(job[u].reply))
    BY <1>2, <1>5, <2>0, <2>1 DEF HistoryFits
  <2>3. Holds(s, n)' /\ (sessions'[s] # None => sessions'[s].size = Len(job[u].reply))
    BY <1>1, <2>1, <2>2
  <2> QED BY <1>2, <2>0, <2>1, <2>3
<1>6. ASSUME NEW s \in Sessions, ~AtWork(s)'
      PROVE  /\ sessions'[s] # None => Holds(s, sessions[s].size)'
             /\ sessions'[s] = None => Holds(s, 0)'
  <2>1. /\ sessions[s] # None => Holds(s, sessions[s].size)
        /\ sessions[s] = None => Holds(s, 0)
    BY <1>6 DEF HistoryFits
  <2>2. CASE sessions'[s] = None
    BY <1>1, <2>1, <2>2
  <2>3. CASE sessions'[s] # None
    <3>1. PICK n : n = sessions[s].size /\ n = sessions'[s].size
      BY <1>1, <2>3
    <3>2. Holds(s, n)'
      BY <1>1, <2>1, <2>3, <3>1
    <3> QED BY <2>3, <3>1, <3>2
  <2> QED BY <2>2, <2>3
<1> QED BY <1>3, <1>4, <1>5, <1>6 DEF HistoryFits

LEMMA UnbrewedLater ==
  ASSUME NewIsUnbrewed, NEW t \in Tasks, Others(t), UNCHANGED <<used, poured>>,
         \A s : AtWork(s)' <=> AtWork(s),
         at'[t] \notin Adding, at'[t] \notin {"brewing", "mark"},
         \A f \in Favorites : favorites[f] = None => favorites'[f] = None
  PROVE  NewIsUnbrewed'
<1>1. \A u \in Tasks : at'[u] \in Adding \cup {"brewing", "mark"} =>
        (at'[u] = at[u] /\ job'[u] = job[u])
  BY DEF Others
<1> QED BY <1>1 DEF NewIsUnbrewed

LEMMA DrinksKept ==
  ASSUME DrinksAreCounted, NEW t \in Tasks, Others(t), at[t] # "mark", at'[t] # "mark",
         poured' = poured,
         \A r \in Live(recipes)' : r \in Live(recipes) /\ recipes'[r] = recipes[r],
         \A f \in Live(favorites)' : f \in Live(favorites) /\ favorites'[f] = favorites[f]
  PROVE  DrinksAreCounted'
BY SameMarking DEF DrinksAreCounted

(* A request ends that did not generate.                                     *)
LEMMA EndedElsewhere ==
  ASSUME IInv, NEW t \in Tasks, Ends(t), at[t] \notin Generating, used' = used
  PROVE  /\ JobsFit' /\ IdsDiffer' /\ Others(t) /\ at'[t] = "idle"
         /\ \A s : AtWork(s)' <=> AtWork(s)
<1>1. at'[t] = "idle" /\ job'[t] = NoJob /\ Others(t)
  BY Ended DEF IInv
<1>2. JobsFit'
  BY <1>1, IdleFits, OthersFit DEF IInv
<1>3. \A u \in Tasks : at'[u] \in Generating \cup Brewing \cup Adding =>
        (u # t /\ at'[u] = at[u] /\ job'[u] = job[u])
  BY <1>1 DEF Others, Generating, Brewing, Adding
<1>4. IdsDiffer'
  BY <1>3 DEF IInv, IdsDiffer, Apart
<1>5. \A u \in Tasks : (at[u] \in Generating <=> at'[u] \in Generating)
                       /\ (at[u] \in Generating => job'[u] = job[u])
  BY <1>1, <1>3 DEF Others, Generating
<1>6. \A u \in Tasks : /\ job[u].handler = "generate" <=> at[u] \in Generating
                       /\ job'[u].handler = "generate" <=> at'[u] \in Generating
  BY <1>2 DEF IInv, JobsFit, Fits, StageFits
<1>7. \A s : AtWork(s)' <=> AtWork(s)
  BY <1>5, <1>6 DEF AtWork
<1> QED BY <1>1, <1>2, <1>4, <1>7

LEMMA MarkersAreFew ==
  ASSUME NEW id
  PROVE  IsFiniteSet(Marking(id)) /\ Cardinality(Marking(id)) \in Nat
<1>1. IsFiniteSet(Marking(id))
  BY TasksAssumption, FS_Subset DEF Marking
<1> QED BY <1>1, FS_CardinalityType

LEMMA MachineStartsKeeps ==
  ASSUME IInv, NEW t \in Tasks, MachineStarts(t)
  PROVE  IInv'
<1> USE DEF IInv
<1>0. PICK id : id = job[t].row
  OBVIOUS
<1>1. /\ at[t] = "brewing" /\ job[t] \in Job /\ Fits(at[t], job[t])
      /\ UNCHANGED <<beans, hopper, sessions, recipes, favorites, lock, used>>
  BY DEF MachineStarts, TypeOK, JobsFit, tables
<1>2. CASE ~job[t].last
  BY <1>1, <1>2, EndKeeps DEF MachineStarts, Counts, tables, TypeOK
<1>3. CASE job[t].last
  <2> DEFINE j == [job[t] EXCEPT !.last = FALSE]
  <2>1. poured' = [poured EXCEPT ![id] = @ + 1] /\ Goes(t, "mark")
        /\ job' = [job EXCEPT ![t].last = FALSE]
    BY <1>0, <1>3 DEF MachineStarts, Counts
  <2>2. /\ j \in Job /\ j.handler = job[t].handler /\ j.id = job[t].id /\ j.row = id
        /\ j.reply = job[t].reply /\ j.next = job[t].next /\ j.last = FALSE
    BY <1>0, <1>1 DEF Job
  <2>3. job' = [job EXCEPT ![t] = j] /\ "mark" \in Stages
    BY <2>1 DEF TypeOK, Stages, Brewing
  <2> HIDE DEF j
  <2>4. /\ at'[t] = "mark" /\ job'[t] = j /\ Others(t)
        /\ at' \in [Tasks -> Stages] /\ job' \in [Tasks -> Job]
    BY <2>1, <2>2, <2>3, Moved
  <2>5. SameKind(t)
    BY <1>0, <1>1, <2>2, <2>4 DEF SameKind, Generating, Brewing, Adding
  <2>6. Fits(at[t], job[t])'
    BY <1>0, <1>1, <2>2, <2>4 DEF Fits, StageFits, GenerateFits, BrewFits, AddFits,
       RemoveFits, Generating, Brewing, Adding
  <2>7. JobsFit' /\ IdsDiffer'
    BY <1>1, <2>4, <2>5, <2>6, OthersFit, SameIds
  <2>8. \A s : AtWork(s)' <=> AtWork(s)
    BY <2>4, <2>5, <2>7, SameWork
  <2>9. id \in RecipeIds \cup Favorites
    BY <1>0, <1>1 DEF Fits, BrewFits, Brewing
  <2>10. /\ poured' \in [RecipeIds \cup Favorites -> Nat]
         /\ poured'[id] = poured[id] + 1
         /\ \A x \in RecipeIds \cup Favorites : x # id => poured'[x] = poured[x]
    BY <2>1, <2>9 DEF TypeOK
  <2>11. TypeOK'
    BY <1>1, <2>4, <2>10 DEF TypeOK
  <2>12. HistoryFits'
    BY <1>1, <2>4, <2>8, HistoryKept DEF Generating
  <2>13. NewIsUnbrewed'
    <3>1. ASSUME NEW s \in Sessions, NEW k \in 1 .. MaxRecipes, s \notin used \/ AtWork(s)
          PROVE  poured'[<<s, k>>] = 0
      <4>1. <<s, k>> \in RecipeIds /\ poured[<<s, k>>] = 0
        BY <3>1 DEF RecipeIds, NewIsUnbrewed
      <4>2. <<s, k>> # id
        <5> SUFFICES ASSUME id = <<s, k>> PROVE FALSE
          OBVIOUS
        <5>1. id \in RecipeIds /\ id[1] = s /\ s \in used
          BY <1>0, <1>1, <4>1 DEF Fits, BrewFits, Brewing
        <5>2. PICK u \in Tasks : at[u] \in Generating /\ job[u].id = s
          BY <3>1, <5>1, Worker
        <5>3. t # u /\ at[t] \in Brewing
          BY <1>1, <5>2 DEF Generating, Brewing
        <5> QED BY <1>0, <5>1, <5>2, <5>3 DEF IdsDiffer, Apart
      <4> QED BY <2>10, <4>1, <4>2
    <3>2. ASSUME NEW f \in Favorites,
                 f \notin used \/ \E u \in Tasks : at[u] \in Adding /\ job[u].id = f
          PROVE  /\ favorites[f] = None /\ poured'[f] = 0
                 /\ \A u \in Tasks : at'[u] \in {"brewing", "mark"} => job'[u].row # f
      <4>1. /\ favorites[f] = None /\ poured[f] = 0
            /\ \A u \in Tasks : at[u] \in {"brewing", "mark"} => job[u].row # f
        BY <3>2 DEF NewIsUnbrewed
      <4>2. f # id
        BY <1>0, <1>1, <4>1
      <4> QED BY <2>2, <2>4, <2>10, <4>1, <4>2 DEF Others
    <3>3. \A u \in Tasks : at'[u] \in Adding => (at[u] \in Adding /\ job'[u].id = job[u].id)
      BY <2>4, <2>5 DEF Others, SameKind
    <3> QED BY <1>1, <2>8, <3>1, <3>2, <3>3 DEF NewIsUnbrewed
  <2>14. DrinksAreCounted'
    <3>1. Marking(id)' = Marking(id) \cup {t} /\ t \notin Marking(id)
      BY <1>1, <2>2, <2>4 DEF Marking, Others
    <3>2. \A x : x # id => Marking(x)' = Marking(x)
      BY <1>1, <2>2, <2>4 DEF Marking, Others
    <3>3. Cardinality(Marking(id)') = Cardinality(Marking(id)) + 1
      BY <3>1, MarkersAreFew, FS_AddElement
    <3>4. ASSUME NEW f \in Live(favorites)
          PROVE  favorites[f].count + Cardinality(Marking(f)') = poured'[f]
      <4>1. f \in Favorites /\ favorites[f].count \in Nat /\ poured[f] \in Nat
            /\ favorites[f].count + Cardinality(Marking(f)) = poured[f]
        BY DEF Live, TypeOK, FavoriteRow, DrinksAreCounted
      <4>2. Cardinality(Marking(f)) \in Nat
        BY MarkersAreFew
      <4>3. CASE f = id
        BY <2>10, <3>3, <4>1, <4>2, <4>3
      <4>4. CASE f # id
        BY <2>10, <3>2, <4>1, <4>4
      <4> QED BY <4>3, <4>4
    <3>5. ASSUME NEW r \in Live(recipes)
          PROVE  (recipes[r].brewed \/ Marking(r)' # {}) <=> poured'[r] > 0
      <4>1. r \in RecipeIds /\ poured[r] \in Nat
            /\ ((recipes[r].brewed \/ Marking(r) # {}) <=> poured[r] > 0)
        BY DEF Live, TypeOK, DrinksAreCounted
      <4>2. CASE r = id
        BY <2>10, <3>1, <4>1, <4>2
      <4>3. CASE r # id
        BY <2>10, <3>2, <4>1, <4>3
      <4> QED BY <4>2, <4>3
    <3> QED BY <1>1, <3>4, <3>5 DEF DrinksAreCounted, Live
  <2> QED BY <2>7, <2>11, <2>12, <2>13, <2>14
<1> QED BY <1>2, <1>3

LEMMA MarkBrewedKeeps ==
  ASSUME IInv, NEW t \in Tasks, MarkBrewed(t)
  PROVE  IInv'
<1> USE DEF IInv
<1>0. PICK id : id = job[t].row
  OBVIOUS
<1>1. /\ at[t] = "mark" /\ Ends(t) /\ Fits(at[t], job[t])
      /\ UNCHANGED <<beans, hopper, sessions, lock, used, poured>>
      /\ recipes' = IF id \in Live(recipes)
                    THEN [recipes EXCEPT ![id].brewed = TRUE] ELSE recipes
      /\ favorites' = IF id \in Live(favorites)
                      THEN [favorites EXCEPT ![id].count = @ + 1] ELSE favorites
  BY <1>0 DEF MarkBrewed, JobsFit
<1>2. /\ JobsFit' /\ IdsDiffer' /\ Others(t) /\ at'[t] = "idle"
      /\ \A s : AtWork(s)' <=> AtWork(s)
  BY <1>1, EndedElsewhere DEF Generating
<1>3. ASSUME NEW r \in RecipeIds
      PROVE  /\ recipes'[r] = None <=> recipes[r] = None
             /\ recipes'[r] \in RecipeRow \cup {None}
             /\ recipes[r] # None =>
                  recipes'[r].brewed = IF r = id THEN TRUE ELSE recipes[r].brewed
  <2>1. CASE r = id /\ recipes[r] # None
    <3>1. recipes[r] \in RecipeRow /\ r \in Live(recipes)
      BY <2>1 DEF TypeOK, Live
    <3>2. recipes'[r] = [recipes[r] EXCEPT !.brewed = TRUE]
      BY <1>1, <2>1, <3>1 DEF TypeOK
    <3>3. recipes'[r] \in RecipeRow /\ recipes'[r].brewed = TRUE
      BY <3>1, <3>2 DEF RecipeRow
    <3> QED BY <2>1, <3>3, NoneAssumption
  <2>2. CASE ~(r = id /\ recipes[r] # None)
    <3>1. recipes'[r] = recipes[r]
      BY <1>1, <2>2 DEF TypeOK, Live
    <3> QED BY <2>2, <3>1 DEF TypeOK
  <2> QED BY <2>1, <2>2
<1>4. ASSUME NEW f \in Favorites
      PROVE  /\ favorites'[f] = None <=> favorites[f] = None
             /\ favorites'[f] \in FavoriteRow \cup {None}
             /\ favorites[f] # None =>
                  favorites'[f].count = favorites[f].count + (IF f = id THEN 1 ELSE 0)
  <2>1. CASE f = id /\ favorites[f] # None
    <3>1. favorites[f] \in FavoriteRow /\ f \in Live(favorites)
      BY <2>1 DEF TypeOK, Live
    <3>2. favorites'[f] = [favorites[f] EXCEPT !.count = @ + 1]
      BY <1>1, <2>1, <3>1 DEF TypeOK
    <3>3. favorites'[f] \in FavoriteRow /\ favorites'[f].count = favorites[f].count + 1
      BY <3>1, <3>2 DEF FavoriteRow
    <3> QED BY <2>1, <3>3, NoneAssumption
  <2>2. CASE ~(f = id /\ favorites[f] # None)
    <3>1. favorites'[f] = favorites[f]
      BY <1>1, <2>2 DEF TypeOK, Live
    <3>2. favorites[f] # None => (f # id /\ favorites[f].count \in Nat)
      BY <2>2 DEF TypeOK, FavoriteRow
    <3> QED BY <2>2, <3>1, <3>2 DEF TypeOK
  <2> QED BY <2>1, <2>2
<1>5. recipes' \in [RecipeIds -> RecipeRow \cup {None}]
  <2>1. recipes' = [r \in RecipeIds |-> recipes'[r]]
    BY <1>1 DEF TypeOK
  <2> QED BY <1>3, <2>1
<1>6. favorites' \in [Favorites -> FavoriteRow \cup {None}]
  <2>1. favorites' = [f \in Favorites |-> favorites'[f]]
    BY <1>1 DEF TypeOK
  <2> QED BY <1>4, <2>1
<1>7. TypeOK'
  BY <1>1, <1>5, <1>6, Ended DEF TypeOK
<1>8. HistoryFits'
  <2>1. \A s \in Sessions, k \in 1 .. MaxRecipes : <<s, k>> \in RecipeIds
    BY DEF RecipeIds
  <2> QED BY <1>1, <1>2, <1>3, <2>1, HistoryKept DEF Generating
<1>9. NewIsUnbrewed'
  BY <1>1, <1>2, <1>4, UnbrewedLater DEF Adding
<1>10. DrinksAreCounted'
  <2>1. Marking(id)' = Marking(id) \ {t} /\ t \in Marking(id)
    BY <1>0, <1>1, <1>2 DEF Marking, Others
  <2>2. \A x : x # id => Marking(x)' = Marking(x)
    BY <1>0, <1>1, <1>2 DEF Marking, Others
  <2>3. Cardinality(Marking(id)') = Cardinality(Marking(id)) - 1
    BY <2>1, MarkersAreFew, FS_RemoveElement
  <2>4. ASSUME NEW f \in Live(favorites)'
        PROVE  favorites'[f].count + Cardinality(Marking(f)') = poured'[f]
    <3>1. f \in Favorites /\ favorites'[f] # None
      BY <1>6 DEF Live
    <3>2. f \in Live(favorites) /\ favorites[f].count \in Nat
          /\ favorites[f].count + Cardinality(Marking(f)) = poured[f]
          /\ favorites'[f].count = favorites[f].count + (IF f = id THEN 1 ELSE 0)
      BY <1>4, <3>1 DEF Live, TypeOK, FavoriteRow, DrinksAreCounted
    <3>3. Cardinality(Marking(f)) \in Nat
      BY MarkersAreFew
    <3>4. CASE f = id
      BY <1>1, <2>3, <3>2, <3>3, <3>4
    <3>5. CASE f # id
      BY <1>1, <2>2, <3>2, <3>3, <3>5
    <3> QED BY <3>4, <3>5
  <2>5. ASSUME NEW r \in Live(recipes)'
        PROVE  (recipes'[r].brewed \/ Marking(r)' # {}) <=> poured'[r] > 0
    <3>1. r \in RecipeIds /\ recipes[r] # None
      BY <1>3, <1>5 DEF Live
    <3>2. ((recipes[r].brewed \/ Marking(r) # {}) <=> poured[r] > 0)
          /\ recipes'[r].brewed = IF r = id THEN TRUE ELSE recipes[r].brewed
      BY <1>3, <3>1 DEF Live, TypeOK, DrinksAreCounted
    <3>3. CASE r = id
      BY <1>1, <2>1, <3>2, <3>3
    <3>4. CASE r # id
      BY <1>1, <2>2, <3>2, <3>4
    <3> QED BY <3>3, <3>4
  <2> QED BY <2>4, <2>5 DEF DrinksAreCounted
<1> QED BY <1>2, <1>7, <1>8, <1>9, <1>10
----------------------------------------------------------------------------
(* Favourites.                                                              *)

LEMMA AskAddFavoriteKeeps ==
  ASSUME IInv, NEW t \in Tasks, AskAddFavorite(t)
  PROVE  IInv'
<1> DEFINE ids == IF Favorites \subseteq used THEN {None} ELSE Favorites \ used
<1>1. PICK id \in RecipeIds :
        Asks(t, "addFavorite", "readRecipe", [NoJob EXCEPT !.row = id], ids)
  BY DEF AskAddFavorite
<1> DEFINE j == [NoJob EXCEPT !.row = id]
<1>2. j \in Job /\ j.row = id
  BY NoJobIsJob DEF Job
<1>3. Asks(t, "addFavorite", "readRecipe", j, ids)
  BY <1>1
<1>4. ids \subseteq (Favorites \ used) \cup {None}
  OBVIOUS
<1> HIDE DEF j, ids
<1> QED BY <1>1, <1>2, <1>3, <1>4, AskKeeps DEF AllHandlers

LEMMA ReadsRecipeKeeps ==
  ASSUME IInv, NEW t \in Tasks, ReadsRecipe(t)
  PROVE  IInv'
<1> DEFINE recipe == recipes[job[t].row]
           j == [job[t] EXCEPT !.recipe = recipe]
<1>1. /\ at[t] = "readRecipe" /\ job[t] \in Job /\ Fits(at[t], job[t])
      /\ UNCHANGED <<tables, lock, used, poured>>
  BY DEF ReadsRecipe, IInv, TypeOK, JobsFit
<1>2. CASE Ends(t)
  BY <1>1, <1>2, EndKeeps DEF IInv, TypeOK
<1>3. CASE /\ recipe # None /\ Goes(t, "find")
           /\ job' = [job EXCEPT ![t].recipe = recipe]
  <2>1. job[t].row \in RecipeIds
    BY <1>1 DEF Fits, AddFits, Adding
  <2>2. recipe \in RecipeRow
    BY <1>3, <2>1 DEF IInv, TypeOK
  <2>3. job' = [job EXCEPT ![t] = j]
    BY <1>3 DEF IInv, TypeOK
  <2> HIDE DEF recipe
  <2>4. j \in Job /\ Fits("find", j)
    BY <1>1, <2>2 DEF Job, Fits, StageFits, GenerateFits, BrewFits, AddFits, RemoveFits,
       Generating, Brewing, Adding
  <2> QED BY <1>1, <1>3, <2>3, <2>4, MoveKeeps DEF tables, Job, Stages, Adding, IInv, TypeOK
<1> QED BY <1>2, <1>3 DEF ReadsRecipe

LEMMA FindsFavoriteKeeps ==
  ASSUME IInv, NEW t \in Tasks, FindsFavorite(t) \/ GetsFound(t)
  PROVE  IInv'
<1>1. /\ at[t] \in {"find", "getFound"} /\ job[t] \in Job /\ Fits(at[t], job[t])
      /\ UNCHANGED <<tables, lock, used, poured>>
  BY DEF FindsFavorite, GetsFound, IInv, TypeOK, JobsFit
<1>2. ASSUME NEW to \in {"getFound", "insertFavorite"}, Goes(t, to),
             NEW found \in Favorites \cup {None}, job' = [job EXCEPT ![t].found = found]
      PROVE  IInv'
  <2> DEFINE j == [job[t] EXCEPT !.found = found]
  <2>1. job' = [job EXCEPT ![t] = j]
    BY <1>2 DEF IInv, TypeOK
  <2>2. j \in Job /\ Fits(to, j)
    BY <1>1 DEF Job, Fits, StageFits, GenerateFits, BrewFits, AddFits, RemoveFits,
       Generating, Brewing, Adding
  <2> QED BY <1>1, <1>2, <2>1, <2>2, MoveKeeps, ZenonT(30)
      DEF tables, Job, Stages, Adding, IInv, TypeOK
<1>3. ASSUME Goes(t, "insertFavorite"), UNCHANGED job
      PROVE  IInv'
  <2>1. job[t].found \in Favorites \cup {None} /\ job[t] = [job[t] EXCEPT !.found = job[t].found]
    BY <1>1 DEF Job
  <2>2. job' = [job EXCEPT ![t].found = job[t].found]
    BY <1>3, <2>1 DEF IInv, TypeOK
  <2> QED BY <1>2, <1>3, <2>1, <2>2
<1>4. CASE FindsFavorite(t)
  <2>1. CASE \E f \in FromSource(job[t].row) :
               Goes(t, "getFound") /\ job' = [job EXCEPT ![t].found = f]
    <3>1. FromSource(job[t].row) \subseteq Favorites
      BY DEF FromSource, Live, IInv, TypeOK
    <3> QED BY <1>2, <2>1, <3>1
  <2> QED BY <1>3, <1>4, <2>1 DEF FindsFavorite
<1>5. CASE GetsFound(t)
  <2>1. CASE Ends(t)
    BY <1>1, <2>1, EndKeeps DEF IInv, TypeOK
  <2> QED BY <1>3, <1>5, <2>1 DEF GetsFound
<1> QED BY <1>4, <1>5

LEMMA InsertFavoriteKeeps ==
  ASSUME IInv, NEW t \in Tasks, InsertFavorite(t)
  PROVE  IInv'
<1> USE DEF IInv
<1>0. PICK f : f = job[t].id
  OBVIOUS
<1> DEFINE row == [source |-> job[t].row, phases |-> job[t].recipe.phases,
                   blend |-> job[t].recipe.blend, count |-> 0]
<1>1. /\ at[t] = "insertFavorite" /\ Ends(t) /\ Fits(at[t], job[t])
      /\ UNCHANGED <<beans, hopper, sessions, recipes, lock, used, poured>>
      /\ favorites' = [g \in Favorites |-> IF g # f THEN favorites[g] ELSE row]
  BY <1>0 DEF InsertFavorite, JobsFit
<1>2. /\ JobsFit' /\ IdsDiffer' /\ Others(t) /\ at'[t] = "idle"
      /\ \A s : AtWork(s)' <=> AtWork(s)
  BY <1>1, EndedElsewhere DEF Generating
<1>3. row \in FavoriteRow /\ row.count = 0
  <2>1. job[t].row \in RecipeIds /\ job[t].recipe \in RecipeRow
    BY <1>1 DEF Fits, AddFits, Adding
  <2> QED BY <2>1 DEF FavoriteRow, RecipeRow
<1> HIDE DEF row
<1>4. favorites' \in [Favorites -> FavoriteRow \cup {None}]
  BY <1>1, <1>3 DEF TypeOK
<1>5. TypeOK'
  BY <1>1, <1>4, Ended DEF TypeOK
<1>6. HistoryFits'
  BY <1>1, <1>2, HistoryKept DEF Generating
<1>7. f # None => f \in used
  BY <1>0, <1>1 DEF Fits, AddFits, Adding
<1>8. \A u \in Tasks : at'[u] # "idle" => (u # t /\ at'[u] = at[u] /\ job'[u] = job[u])
  BY <1>2 DEF Others
<1>9. NewIsUnbrewed'
  <2>1. ASSUME NEW g \in Favorites,
               g \notin used \/ \E u \in Tasks : at'[u] \in Adding /\ job'[u].id = g
        PROVE  /\ favorites'[g] = None /\ poured[g] = 0
               /\ \A u \in Tasks : at[u] \in {"brewing", "mark"} => job[u].row # g
    <3>1. /\ g \notin used \/ \E u \in Tasks : at[u] \in Adding /\ job[u].id = g
          /\ g # f
      <4>1. CASE g \notin used
        BY <1>7, <4>1, NoneAssumption
      <4>2. ASSUME NEW u \in Tasks, at'[u] \in Adding, job'[u].id = g
            PROVE  at[u] \in Adding /\ job[u].id = g /\ g # f
        <5>1. u # t /\ at[u] \in Adding /\ job[u].id = g
          BY <1>8, <4>2 DEF Adding
        <5> QED BY <1>0, <1>1, <5>1, NoneAssumption DEF IdsDiffer, Apart, Adding
      <4> QED BY <2>1, <4>1, <4>2
    <3> QED BY <1>1, <3>1 DEF NewIsUnbrewed
  <2>2. \A u \in Tasks : at'[u] \in {"brewing", "mark"} =>
          (at[u] \in {"brewing", "mark"} /\ job'[u] = job[u])
    BY <1>8
  <2> QED BY <1>1, <1>2, <2>1, <2>2 DEF NewIsUnbrewed
<1>10. DrinksAreCounted'
  <2>1. \A x : Marking(x)' = Marking(x)
    BY <1>1, <1>2, SameMarking
  <2>2. ASSUME NEW g \in Live(favorites)'
        PROVE  favorites'[g].count + Cardinality(Marking(g)') = poured'[g]
    <3>1. g \in Favorites /\ favorites'[g] # None
      BY <1>4 DEF Live
    <3>2. CASE g = f
      <4>1. f \in Favorites /\ at[t] \in Adding
        BY <1>1, <3>1, <3>2 DEF Adding
      <4>2. /\ poured[f] = 0
            /\ \A u \in Tasks : at[u] \in {"brewing", "mark"} => job[u].row # f
        BY <1>0, <4>1 DEF NewIsUnbrewed
      <4>3. Marking(f) = {}
        BY <4>2 DEF Marking
      <4>4. Marking(g)' = {} /\ poured'[g] = 0
        BY <1>1, <2>1, <3>2, <4>2, <4>3
      <4>5. favorites'[g] = row
        BY <1>1, <3>1, <3>2
      <4> QED BY <1>3, <4>4, <4>5, FS_EmptySet
    <3>3. CASE g # f
      BY <1>1, <2>1, <3>1, <3>3 DEF DrinksAreCounted, Live, TypeOK
    <3> QED BY <3>2, <3>3
  <2>3. \A r \in Live(recipes)' : (recipes'[r].brewed \/ Marking(r)' # {}) <=> poured'[r] > 0
    BY <1>1, <2>1 DEF DrinksAreCounted, Live
  <2> QED BY <2>2, <2>3 DEF DrinksAreCounted
<1> QED BY <1>2, <1>5, <1>6, <1>9, <1>10

LEMMA AskLockedKeeps ==
  ASSUME IInv, NEW t \in Tasks, AskRemoveFavorite(t) \/ AskClearHistory(t) \/ AskDeleteBean(t)
  PROVE  IInv'
<1>1. CASE AskRemoveFavorite(t)
  <2>1. PICK f \in Live(favorites) :
          Asks(t, "removeFavorite", "lock", [NoJob EXCEPT !.row = f], {None})
    BY <1>1 DEF AskRemoveFavorite
  <2> DEFINE j == [NoJob EXCEPT !.row = f]
  <2>2. f \in Favorites
    BY DEF Live, IInv, TypeOK
  <2>3. j \in Job /\ j.row = f
    BY <2>2, NoJobIsJob DEF Job
  <2>4. Asks(t, "removeFavorite", "lock", j, {None})
    BY <2>1
  <2> HIDE DEF j
  <2> QED BY <2>2, <2>3, <2>4, AskKeeps DEF AllHandlers
<1>2. CASE AskClearHistory(t)
  <2>1. PICK keep \in BOOLEAN :
          Asks(t, "clearHistory", "lock", [NoJob EXCEPT !.keep = keep], {None})
    BY <1>2 DEF AskClearHistory
  <2> DEFINE j == [NoJob EXCEPT !.keep = keep]
  <2>2. j \in Job
    BY NoJobIsJob DEF Job
  <2>3. Asks(t, "clearHistory", "lock", j, {None})
    BY <2>1
  <2> HIDE DEF j
  <2> QED BY <2>2, <2>3, AskKeeps DEF AllHandlers
<1>3. CASE AskDeleteBean(t)
  <2>1. PICK b \in beans :
          Asks(t, "deleteBean", "lock", [NoJob EXCEPT !.row = b], {None})
    BY <1>3 DEF AskDeleteBean
  <2> DEFINE j == [NoJob EXCEPT !.row = b]
  <2>2. j \in Job
    BY NoJobIsJob DEF Job, IInv, TypeOK
  <2>3. Asks(t, "deleteBean", "lock", j, {None})
    BY <2>1
  <2> HIDE DEF j
  <2> QED BY <2>2, <2>3, AskKeeps DEF AllHandlers
<1> QED BY <1>1, <1>2, <1>3

LEMMA TakesLockKeeps ==
  ASSUME IInv, NEW t \in Tasks, TakesLock(t)
  PROVE  IInv'
<1>1. /\ at[t] = "lock" /\ job[t] \in Job /\ Fits(at[t], job[t]) /\ lock' = t
      /\ UNCHANGED <<tables, used, poured, job>>
  BY DEF TakesLock, IInv, TypeOK, JobsFit
<1>2. PICK to : /\ Goes(t, to) /\ to \in {"removeFavorite", "clear", "detach1"}
                /\ to = "removeFavorite" <=> job[t].handler = "removeFavorite"
  <2>1. job[t].handler \in {"removeFavorite", "clearHistory", "deleteBean"}
    BY <1>1 DEF Fits, StageFits
  <2>2. CASE job[t].handler = "removeFavorite"
    BY <2>2 DEF TakesLock
  <2>3. CASE job[t].handler = "clearHistory"
    BY <2>3 DEF TakesLock
  <2>4. CASE job[t].handler = "deleteBean"
    BY <2>4 DEF TakesLock
  <2> QED BY <2>1, <2>2, <2>3, <2>4
<1>3. job' = [job EXCEPT ![t] = job[t]]
  BY <1>1 DEF IInv, TypeOK
<1>4. Fits(to, job[t])
  BY <1>1, <1>2 DEF Fits, StageFits, GenerateFits, BrewFits, AddFits, RemoveFits,
     Generating, Brewing, Adding
<1> QED BY <1>1, <1>2, <1>3, <1>4, MoveKeeps DEF tables, Stages, Removing

LEMMA RemoveFavoriteKeeps ==
  ASSUME IInv, NEW t \in Tasks, RemoveFavorite(t)
  PROVE  IInv'
<1> USE DEF IInv
<1>0. PICK f : f = job[t].row
  OBVIOUS
<1>1. /\ at[t] = "removeFavorite" /\ Ends(t) /\ Fits(at[t], job[t]) /\ lock' = None
      /\ favorites' = [favorites EXCEPT ![f] = None]
      /\ UNCHANGED <<beans, hopper, sessions, recipes, used, poured>>
  BY <1>0 DEF RemoveFavorite, JobsFit
<1>2. /\ JobsFit' /\ IdsDiffer' /\ Others(t) /\ at'[t] = "idle"
      /\ \A s : AtWork(s)' <=> AtWork(s)
  BY <1>1, EndedElsewhere DEF Generating
<1>3. favorites' \in [Favorites -> FavoriteRow \cup {None}]
      /\ \A g \in Favorites : favorites'[g] = None \/ favorites'[g] = favorites[g]
  BY <1>1 DEF TypeOK
<1>4. TypeOK'
  BY <1>1, <1>3, Ended DEF TypeOK
<1>5. HistoryFits'
  BY <1>1, <1>2, HistoryKept DEF Generating
<1>6. NewIsUnbrewed'
  BY <1>1, <1>2, <1>3, UnbrewedLater DEF Adding
<1>7. DrinksAreCounted'
  BY <1>1, <1>2, <1>3, DrinksKept DEF Live, TypeOK
<1> QED BY <1>2, <1>4, <1>5, <1>6, <1>7
----------------------------------------------------------------------------
(* History, beans and settings.                                             *)

LEMMA ClearHistoryKeeps ==
  ASSUME IInv, NEW t \in Tasks, ClearHistory(t)
  PROVE  IInv'
<1> USE DEF IInv
<1>0. PICK gone : gone = Cleared(job[t].keep)
  OBVIOUS
<1>1. /\ at[t] = "clear" /\ Ends(t) /\ lock' = None
      /\ sessions' = [s \in Sessions |-> IF s \in gone THEN None ELSE sessions[s]]
      /\ recipes' = [r \in RecipeIds |-> IF r[1] \in gone THEN None ELSE recipes[r]]
      /\ UNCHANGED <<beans, hopper, favorites, used, poured>>
  BY <1>0 DEF ClearHistory, Cascade
<1>2. /\ JobsFit' /\ IdsDiffer' /\ Others(t) /\ at'[t] = "idle"
      /\ \A s : AtWork(s)' <=> AtWork(s)
  BY <1>1, EndedElsewhere DEF Generating
<1>3. TypeOK'
  BY <1>1, Ended DEF TypeOK
<1>4. HistoryFits'
  <2>1. ASSUME NEW s \in Sessions
        PROVE  IF s \in gone
               THEN /\ sessions'[s] = None
                    /\ \A k \in 1 .. MaxRecipes : recipes'[<<s, k>>] = None
               ELSE /\ sessions'[s] = sessions[s]
                    /\ \A k \in 1 .. MaxRecipes : recipes'[<<s, k>>] = recipes[<<s, k>>]
    BY <1>1 DEF RecipeIds
  <2> QED BY <1>1, <1>2, <2>1, HistoryKept DEF Generating
<1>5. NewIsUnbrewed'
  BY <1>1, <1>2, UnbrewedLater DEF Adding
<1>6. DrinksAreCounted'
  <2>1. \A r \in Live(recipes)' : r \in Live(recipes) /\ recipes'[r] = recipes[r]
    BY <1>1 DEF Live, TypeOK
  <2> QED BY <1>1, <1>2, <2>1, DrinksKept DEF Live
<1> QED BY <1>2, <1>3, <1>4, <1>5, <1>6

LEMMA DetachBeanKeeps ==
  ASSUME IInv, NEW t \in Tasks, NEW h \in Hoppers, DetachBean(t, h)
  PROVE  IInv'
<1> USE DEF IInv
<1>1. PICK to : /\ to \in {"detach2", "deleteBean"} /\ Goes(t, to)
  BY DEF DetachBean, Hoppers
<1>2. /\ at[t] \in {"detach1", "detach2"} /\ job[t] \in Job /\ Fits(at[t], job[t])
      /\ job' = [job EXCEPT ![t] = job[t]] /\ to \in Stages
      /\ UNCHANGED <<beans, hopper, recipes, favorites, lock, used, poured>>
  BY <1>1 DEF DetachBean, Hoppers, TypeOK, JobsFit, Stages, Removing
<1>3. /\ at'[t] = to /\ job'[t] = job[t] /\ Others(t)
      /\ at' \in [Tasks -> Stages] /\ job' \in [Tasks -> Job]
  BY <1>1, <1>2, Moved
<1>4. Fits(at[t], job[t])'
  BY <1>1, <1>2, <1>3 DEF Fits, StageFits, GenerateFits, BrewFits, AddFits,
     RemoveFits, Generating, Brewing, Adding
<1>5. SameKind(t)
  BY <1>1, <1>2, <1>3 DEF SameKind, Generating, Brewing, Adding
<1>6. JobsFit' /\ IdsDiffer'
  BY <1>2, <1>3, <1>4, <1>5, OthersFit, SameIds
<1>7. \A s : AtWork(s)' <=> AtWork(s)
  BY <1>3, <1>5, <1>6, SameWork
<1>8. ASSUME NEW s \in Sessions
      PROVE  /\ sessions'[s] \in SessionRow \cup {None}
             /\ sessions'[s] = None <=> sessions[s] = None
             /\ sessions[s] # None => sessions'[s].size = sessions[s].size
  <2>1. CASE sessions[s] # None /\ sessions[s].beans[h] = job[t].row
    <3> DEFINE left == [sessions[s].beans EXCEPT ![h] = None]
    <3>1. sessions[s] \in SessionRow
      BY <2>1 DEF TypeOK
    <3>2. left \in [Hoppers -> Beans \cup {None}]
      BY <3>1 DEF SessionRow
    <3>3. sessions'[s] = [sessions[s] EXCEPT !.beans = left]
      BY <2>1 DEF DetachBean
    <3> HIDE DEF left
    <3>4. sessions'[s] \in SessionRow /\ sessions'[s].size = sessions[s].size
      BY <3>1, <3>2, <3>3 DEF SessionRow
    <3> QED BY <2>1, <3>4, NoneAssumption
  <2>2. CASE ~(sessions[s] # None /\ sessions[s].beans[h] = job[t].row)
    <3>1. sessions'[s] = sessions[s]
      BY <2>2 DEF DetachBean
    <3> QED BY <3>1 DEF TypeOK
  <2> QED BY <2>1, <2>2
<1>9. TypeOK'
  <2>1. sessions' = [s \in Sessions |-> sessions'[s]]
    BY DEF DetachBean
  <2>2. sessions' \in [Sessions -> SessionRow \cup {None}]
    BY <1>8, <2>1
  <2> QED BY <1>2, <1>3, <2>2 DEF TypeOK
<1>10. HistoryFits'
  BY <1>1, <1>2, <1>3, <1>7, <1>8, HistoryKept DEF Generating
<1>11. NewIsUnbrewed'
  BY <1>1, <1>2, <1>3, <1>7, UnbrewedLater DEF Adding
<1>12. DrinksAreCounted'
  BY <1>1, <1>2, <1>3, DrinksKept DEF Live
<1> QED BY <1>6, <1>9, <1>10, <1>11, <1>12

LEMMA DeleteBeanKeeps ==
  ASSUME IInv, NEW t \in Tasks, DeleteBean(t)
  PROVE  IInv'
<1> USE DEF IInv
<1>1. /\ at[t] = "deleteBean" /\ Ends(t) /\ lock' = None
      /\ beans' \in SUBSET Beans /\ hopper' \in [Hoppers -> Beans \cup {None}]
      /\ UNCHANGED <<sessions, recipes, favorites, used, poured>>
  BY DEF DeleteBean, LockAfterDelete, TypeOK
<1>2. JobsFit' /\ IdsDiffer' /\ HistoryFits' /\ NewIsUnbrewed' /\ DrinksAreCounted'
  BY <1>1, EndingKeeps
<1>3. TypeOK'
  BY <1>1, Ended DEF TypeOK
<1> QED BY <1>2, <1>3

(* A step that changes nothing, or the hoppers.                               *)
LEMMA IdleKeeps ==
  ASSUME IInv, hopper' \in [Hoppers -> Beans \cup {None}],
         UNCHANGED <<beans, sessions, recipes, favorites, lock, used, poured, at, job>>
  PROVE  IInv'
<1>1. TypeOK'
  BY DEF IInv, TypeOK
<1>2. JobsFit' /\ IdsDiffer'
  BY DEF IInv, JobsFit, Fits, StageFits, GenerateFits, BrewFits, AddFits, RemoveFits,
     IdsDiffer
<1>3. \A s : AtWork(s)' <=> AtWork(s)
  BY DEF AtWork
<1>4. \A s, n : Holds(s, n)' <=> Holds(s, n)
  BY DEF Holds
<1>5. HistoryFits'
  BY <1>3, <1>4 DEF IInv, HistoryFits
<1>6. NewIsUnbrewed'
  BY <1>3 DEF IInv, NewIsUnbrewed
<1>7. DrinksAreCounted'
  <2>1. \A id : Marking(id)' = Marking(id)
    BY DEF Marking
  <2> QED BY <2>1 DEF IInv, DrinksAreCounted, Live
<1> QED BY <1>1, <1>2, <1>5, <1>6, <1>7 DEF IInv

LEMMA AssignHopperKeeps ==
  ASSUME IInv, NEW t \in Tasks, AssignHopper(t)
  PROVE  IInv'
<1>1. hopper' \in [Hoppers -> Beans \cup {None}]
  BY DEF AssignHopper, IInv, TypeOK
<1> QED BY <1>1, IdleKeeps DEF AssignHopper
----------------------------------------------------------------------------
(* The invariant holds at the start, every step keeps it, and it says what    *)
(* the runs check.                                                           *)

LEMMA InitHolds == Init => IInv
<1> SUFFICES ASSUME Init PROVE IInv
  OBVIOUS
<1>1. TypeOK
  BY NoJobIsJob DEF Init, TypeOK, Stages
<1>2. \A t \in Tasks : at[t] = "idle" /\ job[t] = NoJob
  BY DEF Init
<1>3. JobsFit
  <2>1. NoJob.handler \notin AllHandlers
    BY NoneAssumption DEF NoJob
  <2> QED BY <1>2, <2>1 DEF JobsFit, Fits, StageFits, GenerateFits, BrewFits, AddFits,
       RemoveFits, Generating, Brewing, Adding, AllHandlers
<1>4. IdsDiffer
  BY <1>2 DEF IdsDiffer, Apart, Generating, Brewing, Adding
<1>5. \A s \in Sessions : sessions[s] = None /\ Holds(s, 0)
  BY DEF Init, Holds, RecipeIds
<1>6. HistoryFits
  BY <1>2, <1>5 DEF HistoryFits, Generating
<1>7. NewIsUnbrewed
  BY <1>2 DEF Init, NewIsUnbrewed, RecipeIds
<1>8. DrinksAreCounted
  BY DEF Init, DrinksAreCounted, Live
<1> QED BY <1>1, <1>3, <1>4, <1>6, <1>7, <1>8 DEF IInv

LEMMA NextKeeps == IInv /\ [Next]_vars => IInv'
<1> SUFFICES ASSUME IInv, [Next]_vars PROVE IInv'
  OBVIOUS
<1>1. CASE UNCHANGED vars
  BY <1>1, IdleKeeps DEF vars, tables, IInv, TypeOK
<1>2. ASSUME NEW t \in Tasks, Statement(t) PROVE IInv'
  <2>1. CASE \E h \in Hoppers : ReadsHopper(t, h) \/ DetachBean(t, h)
    BY <2>1, ReadsHopperKeeps, DetachBeanKeeps
  <2>2. CASE \/ ReadsCapabilities(t) \/ InsertSession(t)
             \/ InsertRecipe(t) \/ InsertRaises(t)
    BY <2>2, ReadsCapabilitiesKeeps, InsertSessionKeeps, InsertRecipeKeeps, InsertRaisesKeeps
  <2>3. CASE StartsBrew(t) \/ NoMachine(t) \/ MarkBrewed(t)
    BY <2>3, StartsBrewKeeps, NoBrewKeeps, MarkBrewedKeeps
  <2>4. CASE ReadsRecipe(t) \/ FindsFavorite(t) \/ GetsFound(t) \/ InsertFavorite(t)
    BY <2>4, ReadsRecipeKeeps, FindsFavoriteKeeps, InsertFavoriteKeeps
  <2>5. CASE TakesLock(t) \/ RemoveFavorite(t) \/ ClearHistory(t) \/ DeleteBean(t)
    BY <2>5, TakesLockKeeps, RemoveFavoriteKeeps, ClearHistoryKeeps, DeleteBeanKeeps
  <2> QED BY <1>2, <2>1, <2>2, <2>3, <2>4, <2>5 DEF Statement
<1>3. ASSUME NEW t \in Tasks, Answer(t) \/ NativeAnswers(t) PROVE IInv'
  BY <1>3, AnswersKeep, NoBrewKeeps, MachineStartsKeeps DEF Answer
<1>4. ASSUME NEW t \in Tasks, Ask(t) PROVE IInv'
  BY <1>4, AskGenerateKeeps, AskBrewKeeps, AskAddFavoriteKeeps, AskLockedKeeps,
     AssignHopperKeeps DEF Ask
<1> QED BY <1>1, <1>2, <1>3, <1>4 DEF Next

THEOREM InvariantHolds == Spec => []IInv
BY InitHolds, NextKeeps, PTL DEF Spec

(* Every variable has its type; above all, the rows hold only what the        *)
(* validator makes and the machine can pour, whatever the model answered.    *)
THEOREM TypesHold == Spec => []TypeOK
<1>1. IInv => TypeOK
  BY DEF IInv
<1> QED BY <1>1, InvariantHolds, PTL

(* A session keeps the recipes that were written for it or goes with them     *)
(* all, however the clearing of the history and the deleting of beans fall   *)
(* between its INSERTs, and whichever of them raises (async_create_session). *)
THEOREM RecipesAreKept == Spec => []SessionsKeepTheirRecipes
<1>1. IInv => SessionsKeepTheirRecipes
  <2> SUFFICES ASSUME IInv, NEW s \in Sessions, ~AtWork(s)
               PROVE  {k \in 1 .. MaxRecipes : recipes[<<s, k>>] # None} =
                        (IF sessions[s] = None THEN {} ELSE 1 .. sessions[s].size)
    BY DEF SessionsKeepTheirRecipes
  <2>1. CASE sessions[s] = None
    BY <2>1 DEF IInv, HistoryFits, Holds
  <2>2. CASE sessions[s] # None
    <3>1. sessions[s].size \in 0 .. MaxRecipes /\ Holds(s, sessions[s].size)
      BY <2>2 DEF IInv, TypeOK, HistoryFits, SessionRow
    <3> QED BY <2>2, <3>1 DEF Holds, MaxRecipes
  <2> QED BY <2>1, <2>2
<1> QED BY <1>1, InvariantHolds, PTL

(* The counters of the favourites and the marks of the recipes agree with the *)
(* drinks the machine made, whichever handlers overlap.                      *)
THEOREM DrinksStayCounted == Spec => []DrinksAreCounted
<1>1. IInv => DrinksAreCounted
  BY DEF IInv
<1> QED BY <1>1, InvariantHolds, PTL

(* What is stored passes the checks at brew time, each phase alone too, and   *)
(* is sent with the portion it is stored with.                               *)
THEOREM StoredIsBrewable == Spec => []GeneratedIsBrewable
<1>1. ASSUME TypeOK, NEW id \in Rows
      PROVE  /\ Row(id).phases \in Phases /\ Row(id).blend \in {0, 1}
  <2>1. CASE id \in RecipeIds
    <3>1. recipes[id] \in RecipeRow
      <4>1. id \notin Favorites
        BY <2>1, IdsAssumption
      <4> QED BY <1>1, <2>1, <4>1 DEF Rows, Live, TypeOK
    <3> QED BY <2>1, <3>1 DEF Row, RecipeRow
  <2>2. CASE id \notin RecipeIds
    <3>1. favorites[id] \in FavoriteRow
      BY <1>1, <2>2 DEF Rows, Live, TypeOK
    <3> QED BY <2>2, <3>1 DEF Row, FavoriteRow
  <2> QED BY <2>1, <2>2
<1>2. ASSUME NEW row, row.phases \in Phases, row.blend \in {0, 1}
      PROVE  /\ Brewable(row, row.phases)
             /\ \A i \in DOMAIN row.phases :
                  /\ row.phases[i].process # "none"
                  /\ 5 * Payload(row, <<row.phases[i]>>)[1].portion = row.phases[i].ml
  <2>1. row.phases \in Seq(Phase) /\ Len(row.phases) \in 1 .. 2
    BY <1>2 DEF Phases
  <2>2. ASSUME NEW i \in DOMAIN row.phases
        PROVE  /\ row.phases[i] \in Phase /\ row.phases[i].process \in Processes \ {"none"}
               /\ row.phases[i].known /\ row.phases[i].number
    <3>1. row.phases[i] \in Phase
      BY <2>1
    <3> QED BY <3>1 DEF Phase
  <2>3. DOMAIN BleBlend = {0, 1}
    BY DEF BleBlend
  <2>4. Brewable(row, row.phases)
    BY <1>2, <2>1, <2>2, <2>3 DEF Brewable
  <2>5. ASSUME NEW i \in DOMAIN row.phases
        PROVE  5 * Payload(row, <<row.phases[i]>>)[1].portion = row.phases[i].ml
    <3>1. Payload(row, <<row.phases[i]>>)[1].portion = ResolvePortion(row.phases[i].ml)
      BY DEF Payload
    <3> QED BY <2>2, <3>1, PortionSurvives
  <2> QED BY <2>2, <2>4, <2>5
<1>3. TypeOK => GeneratedIsBrewable
  BY <1>1, <1>2 DEF GeneratedIsBrewable
<1> QED BY <1>3, TypesHold, PTL
=============================================================================
