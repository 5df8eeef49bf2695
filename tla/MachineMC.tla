------------------------------ MODULE MachineMC ------------------------------
(* Eight components around one machine that share no variable, in one run:   *)
(* a behaviour is one of the component that focus names; the others rest.   *)
EXTENDS
  TLC, RecipeBook, NivonaBrew, PromptConfirm, ClockSync, RepairBreaker, StreamFramer,
  Narration, MachineIdentityMC
CONSTANTS base, key, x, y, h1, h2, start, end, ack, reply, sub, en, de

VARIABLE focus
MachineVars == <<focus, recipeVars, nivonaVars, promptVars, clockVars, breakerVars,
                framerVars, narrationVars, identityVars>>

Holds(shown, hidden) == [shown |-> shown, hidden |-> hidden]
MCContents == base :> {Holds(x, h1), Holds(y, h1)} @@ key :> {Holds(x, h1), Holds(x, h2)}

MCByte == {start, end, ack, reply, sub}

\* A command of one byte, and one of two with three encrypted bytes.
MCFrameLength == <<ack>> :> 4 @@ <<reply, sub>> :> 7
MCFrames ==
  {<<start, ack, sub, end>>} \cup
  {<<start, reply, sub>> \o bytes \o <<end>> :
     bytes \in [1 .. 3 -> {start, end}] \cup {<<start, ack, sub>>, <<ack, sub, end>>}}

\* At most one string of a file is no good.
Whole == [k \in NarrationKeys |-> "good"]
MCFiles ==
  en :> {Whole, [Whole EXCEPT !["prompt"] = "brace"]} @@
  de :> {Whole, [Whole EXCEPT !["prompt"] = "blank"], [Whole EXCEPT !["shape"] = "absent"]} \cup
        {[Whole EXCEPT !["milk"] = flaw] : flaw \in Quality}

\* Overlapping tasks of one kind are alike.
Symmetry == Permutations(Presses) \cup Permutations(Syncs)

Init ==
  /\ focus \in {"recipes", "nivona", "prompts", "clock", "repairs", "bytes", "narration", "identity"}
  /\ RecipeInit  /\ (focus # "recipes" => slot = [s \in Slots |-> Holds(x, h1)])
  /\ NivonaInit  /\ (focus # "nivona" =>
                       /\ register = [type |-> CHOOSE drink \in Drinks : TRUE,
                                      field |-> [f \in Fields |-> Default]]
                       /\ ~ armed)
  /\ PromptInit  /\ (focus # "prompts" => prompt = NoPrompt)
  /\ ClockInit   /\ (focus # "clock" => clock = 0)
  /\ BreakerInit /\ (focus # "repairs" => owner = [m \in Machines |-> NoSource])
  /\ FramerInit
  /\ NarrationInit
  /\ (focus # "narration" => language = en /\ \A l \in Shipped : file[l] = Whole)
  /\ IdentityInit /\ model # m3 /\ ~ titled
  /\ (focus # "identity" => model = m1 /\ override = Unknown /\ advert = "absent")

Next ==
  /\ UNCHANGED focus
  /\ \/ focus = "recipes" /\ RecipeNext
        /\ UNCHANGED <<nivonaVars, promptVars, clockVars, breakerVars, framerVars, narrationVars, identityVars>>
     \/ focus = "nivona" /\ NivonaNext
        /\ UNCHANGED <<recipeVars, promptVars, clockVars, breakerVars, framerVars, narrationVars, identityVars>>
     \/ focus = "prompts" /\ PromptNext
        /\ UNCHANGED <<recipeVars, nivonaVars, clockVars, breakerVars, framerVars, narrationVars, identityVars>>
     \/ focus = "clock" /\ ClockNext
        /\ UNCHANGED <<recipeVars, nivonaVars, promptVars, breakerVars, framerVars, narrationVars, identityVars>>
     \/ focus = "repairs" /\ BreakerNext
        /\ UNCHANGED <<recipeVars, nivonaVars, promptVars, clockVars, framerVars, narrationVars, identityVars>>
     \/ focus = "bytes" /\ FramerNext
        /\ UNCHANGED <<recipeVars, nivonaVars, promptVars, clockVars, breakerVars, narrationVars, identityVars>>
     \/ focus = "narration" /\ NarrationNext
        /\ UNCHANGED <<recipeVars, nivonaVars, promptVars, clockVars, breakerVars, framerVars, identityVars>>
     \/ focus = "identity" /\ IdentityNext
        /\ UNCHANGED <<recipeVars, nivonaVars, promptVars, clockVars, breakerVars, framerVars, narrationVars>>

Spec == Init /\ [][Next]_MachineVars
=============================================================================
