------------------------- MODULE SommelierWizardMC -------------------------
(* Replies of a language model: a good one, one that breaks the schema in   *)
(* every way the validator knows, no JSON, and no answer at all.            *)
EXTENDS SommelierWizard

CONSTANTS t1, t2

Milk == Component("milk", TRUE, TRUE, 103)

Coffee == Component("coffee", TRUE, TRUE, 40)

Raw(phases, blend) == [isDict |-> TRUE, phases |-> phases, blend |-> blend]

Good == [kind |-> "json", valid |-> TRUE, recipes |-> <<Raw(<<Coffee, Milk>>, 1)>>]

Odd == [kind |-> "json", valid |-> FALSE,
        recipes |-> <<[isDict |-> FALSE],
                      Raw(<<Component("none", TRUE, TRUE, 0),
                            Component("unknown", FALSE, TRUE, 301)>>, 7),
                      Raw(<<Component("milk", FALSE, TRUE, 1),
                            Component("coffee", TRUE, FALSE, 0), Milk>>, 0)>>]

Prose == [kind |-> "prose", valid |-> FALSE, recipes |-> <<>>]

Failed == [kind |-> "error", valid |-> FALSE, recipes |-> <<>>]

MCReplies == {Good, Odd, Prose, Failed}

MCTasks == {t1, t2}

\* One task generates and brews, the other keeps favourites and deletes.
MCHandlers ==
  [t \in MCTasks |-> IF t = t1 THEN {"generate", "brew"}
                     ELSE AllHandlers \ {"generate", "brew"}]

\* Two clicks on the star of one recipe.
TwoClicks ==
  [t \in MCTasks |-> IF t = t1 THEN {"generate", "addFavorite"}
                     ELSE {"addFavorite"}]
============================================================================
