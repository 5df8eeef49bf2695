---------------------------- MODULE RecipeShape ----------------------------
(***************************************************************************)
(* A recipe on its way from the language model to the machine: what the    *)
(* validator of ai_recipes.py makes of any reply, and what the brew-time   *)
(* checks of sommelier_api.py accept and send.  A component is its         *)
(* process, its portion, and whether the words of its other four fields    *)
(* (intensity, aroma, temperature, shots) are all in the vocabulary; the   *)
(* validator and the brew treat those four alike.                          *)
(***************************************************************************)
EXTENDS Integers, Sequences

PortionMin  == 5
PortionMax  == 250
PortionStep == 5

Processes == {"none", "coffee", "milk", "water"}

\* What a component of a reply may be: a process word, an unknown one or none
\* at all, a portion that is or is not a number.
Component(process, known, number, ml) ==
  [process |-> process, known |-> known, number |-> number, ml |-> ml]

RawComponent == [process : Processes \cup {"absent", "unknown"}, known : BOOLEAN,
                 number : BOOLEAN, ml : Int]

\* An entry of a reply: an object, or anything else.
RawRecipe == [isDict : {TRUE}, phases : Seq(RawComponent), blend : Int]
               \cup [isDict : {FALSE}]

\* The component {} : every field takes its default.
Blank == Component("absent", TRUE, TRUE, 40)

NoPour == Component("none", TRUE, TRUE, 0)

Clamped(low, high, n) == IF n < low THEN low ELSE IF n > high THEN high ELSE n

\* What is stored: one or two phases that pour, in whole steps.
Phase == [process : Processes \ {"none"}, known : {TRUE}, number : {TRUE},
          ml : {PortionStep * k : k \in 0 .. PortionMax \div PortionStep}]

Phases == {phases \in Seq(Phase) : Len(phases) \in 1 .. 2}

Recipe == [phases : Phases, blend : {0, 1}]

\* Variant: any number the model wrote is taken.
ClampPortion_Raw(c) == IF c.number THEN c.ml ELSE 40

(* Python rounds a number of fifths to the nearest: no fifth is a half.     *)
ClampPortion(c) ==
  IF c.number
  THEN PortionStep * ((Clamped(0, PortionMax, c.ml) + 2) \div PortionStep)
  ELSE 40

ValidProcess(process, second) ==
  CASE process = "absent"                            -> "coffee"
    [] process \in Processes /\ (second \/ process # "none") -> process
    [] OTHER                       -> IF second THEN "none" ELSE "coffee"

\* Unknown words are replaced by their defaults.
ValidateComponent(c, second) ==
  LET process == ValidProcess(c.process, second)
      ml      == ClampPortion(c)
  IN  IF process = "none" THEN NoPour
      ELSE Component(process, TRUE, TRUE,
                     IF ~second /\ ml < PortionMin THEN PortionMin ELSE ml)

\* Variant: a placeholder phase is kept.
ValidatePhases_KeepNone(raw) ==
  [i \in 1 .. (IF Len(raw) > 2 THEN 2 ELSE Len(raw)) |->
     ValidateComponent(raw[i], i > 1)]

(* At most two phases; a placeholder "none" is dropped, not brewed; a       *)
(* recipe without any phase gets the default coffee.                        *)
ValidatePhases(raw) ==
  LET Valid(i) == ValidateComponent(raw[i], i > 1)
      kept == {i \in {1, 2} \cap DOMAIN raw :
                 raw[i].process # "none" /\ Valid(i).process # "none"}
  IN  CASE kept = {}     -> <<ValidateComponent(Blank, FALSE)>>
        [] kept = {1, 2} -> <<Valid(1), Valid(2)>>
        [] OTHER         -> <<Valid(CHOOSE i \in kept : TRUE)>>

ValidateRecipe(raw) ==
  [phases |-> ValidatePhases(raw.phases),
   blend  |-> IF raw.blend \in {0, 1} THEN raw.blend ELSE 1]

(* What is not a recipe in the reply is skipped.                            *)
ValidateRecipes(raw) ==
  LET valid[i \in 0 .. Len(raw)] ==
        IF i = 0 THEN <<>>
        ELSE IF raw[i].isDict THEN Append(valid[i - 1], ValidateRecipe(raw[i]))
        ELSE valid[i - 1]
  IN  valid[Len(raw)]
----------------------------------------------------------------------------
(* At the BLE boundary.                                                     *)

\* The hopper of the reply (1 or 0) as the machine's byte.
BleBlend == [b \in {0, 1} |-> IF b = 1 THEN 1 ELSE 2]

\* Brew-time rounding, half up, to the byte of 5 ml steps.
ResolvePortion(ml) == (2 * Clamped(0, PortionMax, ml) + 5) \div 10

\* Everything _brew_recipe_components raises a ValueError for.
Brewable(recipe, phases) ==
  /\ Len(phases) \in 1 .. 2
  /\ recipe.blend \in DOMAIN BleBlend
  /\ \A i \in DOMAIN phases :
       phases[i].process \in Processes /\ phases[i].known /\ phases[i].number

\* The two components a brew sends; one phase is followed by "no pour".
Payload(recipe, phases) ==
  LET Proto(c) == [process |-> c.process, blend |-> BleBlend[recipe.blend],
                   portion |-> ResolvePortion(c.ml)]
  IN  <<Proto(phases[1]), Proto(IF Len(phases) > 1 THEN phases[2] ELSE NoPour)>>
============================================================================
