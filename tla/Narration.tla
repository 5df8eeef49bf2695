------------------------------ MODULE Narration ------------------------------
(***************************************************************************)
(* The sentence that goes with a machine event: how it is composed from    *)
(* the string files of a language (narration.py), and how those files get  *)
(* into memory when Home Assistant's language changes (__init__.py,        *)
(* panel_api.py) while events are narrated (event.py).                     *)
(*                                                                         *)
(* A string file is a function from keys to how good its string is; a      *)
(* sentence is the keys it was made of and the languages its words are in. *)
(* Volumes, substitution, the clause budget and the cleaning of free text  *)
(* are left out.                                                           *)
(***************************************************************************)
EXTENDS Integers, FiniteSets

CONSTANTS
  Languages, \* that Home Assistant may be set to
  Shipped,   \* those there are string files for
  English,
  Files,     \* what the narration file of each language may hold
  Spoken,    \* languages with spoken names (narration.drink.*) of their own
  Clauses,   \* what the details of a brew may be about
  Loads,     \* preloads that may overlap
  Nothing

\* The heads of the sentences; those of a finished brew come in four variants.
Finished == {"named", "unnamed", "named_detail", "unnamed_detail"}
Started  == {"started_named", "started_unnamed"}
Prompted  == {"prompt", "prompt_generic"}
Heads    == Finished \cup Started \cup Prompted \cup {"plain", "shape"}

NarrationKeys == Heads \cup Clauses

\* A good string, one with a brace left in it, an empty one, or none.
Quality == {"good", "brace", "blank", "absent"}
Template == {"good", "brace"}

\* What is said: in which language, of which strings, with whose words.
Sentences == [language : Languages, strings : Languages, keys : SUBSET NarrationKeys,
              words : SUBSET Languages]

ASSUME LanguagesAssumption ==
  /\ English \in Shipped /\ Shipped \subseteq Languages /\ English \in Spoken
  /\ Files \in [Shipped -> SUBSET [NarrationKeys -> Quality]]
  /\ Nothing \notin Languages \cup Sentences

(* An event: its kind, its details, its drink - one of the recipes with a   *)
(* spoken name, another built-in one, one named by a person, none - and     *)
(* whether the machine told the shape of what it made.                      *)
EventKinds == {"finished", "started", "prompt", "other", "unknown"}
DrinkNames == {"proper", "noun", "free", "none"}
Events == {e \in [kind : EventKinds, details : SUBSET Clauses, drink : DrinkNames,
                  shape : BOOLEAN] :
             /\ e.kind \notin {"finished", "started"} => e.drink = "none"
             /\ e.kind # "finished" => e.details = {} /\ ~ e.shape}

VARIABLES
  file,      \* the narration files
  language,  \* hass.config.language
  preloaded, \* preloaded_language: the last one a preload was started for
  listening, \* set-up has registered _async_language_changed
  load,      \* the preloads under way: their language and what they wait for
  served,    \* the languages whose ui_strings are cached
  narrated,  \* narration_locale, whose narration strings are stashed
  told       \* the last event and the sentence it got

narrationVars ==
  <<file, language, preloaded, listening, load, served, narrated, told>>

NoLoad == [language |-> Nothing, at |-> "idle"]

NarrationInit ==
  /\ file \in [Shipped -> UNION {Files[l] : l \in Shipped}]
  /\ \A l \in Shipped : file[l] \in Files[l]
  /\ language \in Languages /\ preloaded = Nothing /\ listening = FALSE
  /\ load = [t \in Loads |-> NoLoad]
  /\ served = {} /\ narrated = Nothing /\ told = Nothing

\* load_narration_strings, _load_ui_strings: a language without a file is
\* resolved to English.
Resolved(l) == IF l \in Shipped THEN l ELSE English

\* _read_narration_file: nothing is there before the first preload.
Strings(l) == IF l = Nothing THEN [key \in NarrationKeys |-> "absent"] ELSE file[l]

-----------------------------------------------------------------------------
(* _plan: what a sentence needs, whatever its language.  A shape is not     *)
(* planned: a language without it says less instead.                        *)

PlannedHeads(e) ==
  CASE e.kind = "finished" -> Finished
    [] e.kind = "started"  -> Started
    [] e.kind = "prompt"   -> Prompted
    [] e.kind = "other"    -> {"plain"}
    [] e.kind = "unknown"  -> {}

\* Only a finished brew is told in detail.
Planned(e) == PlannedHeads(e) \cup e.details

-----------------------------------------------------------------------------
(* _compose: one language, l, with the ui_strings of another, ui.           *)

(* _resolve_drink: the language of the drink's name.  A proper name has     *)
(* spoken forms, which English has for every language; another built-in     *)
(* name is taken from ui_strings.                                           *)
DrinkLanguage(e, l, ui) ==
  CASE e.drink = "proper" -> IF l \in Spoken THEN l ELSE English
    [] e.drink = "noun"   -> ui
    [] e.drink = "free"   -> l
    [] e.drink = "none"   -> Nothing

SaidClauses(e, l) == {c \in e.details : Strings(l)[c] \in Template}

\* The variant of the head that fits what is known.
FinishedHead(named, detail, shape) ==
  CASE named /\ detail             -> "named_detail"
    [] named /\ ~ detail           -> "named"
    [] ~ named /\ detail           -> "unnamed_detail"
    [] ~ named /\ ~ detail /\ shape -> "shape"
    [] OTHER                       -> "unnamed"

HeadKey(e, l, ui) ==
  LET named == DrinkLanguage(e, l, ui) # Nothing
      shape == e.shape /\ Strings(l)["shape"] \in Template
  IN  CASE e.kind = "finished" -> FinishedHead(named, SaidClauses(e, l) # {}, shape)
        [] e.kind = "started"  -> IF named THEN "started_named" ELSE "started_unnamed"
        [] e.kind = "prompt"   -> IF ui # Nothing THEN "prompt" ELSE "prompt_generic"
        [] OTHER               -> "plain"

\* The languages of the words that ui_strings gives.
Borrowed(e, ui) == IF e.kind = "prompt" \/ e.drink = "noun" THEN {ui} \ {Nothing} ELSE {}

\* No sentence without its head, none with a brace left in it.
Composed(e, l, ui) ==
  LET head == HeadKey(e, l, ui)
      keys == {head} \cup (IF head \in {"named_detail", "unnamed_detail"}
                           THEN SaidClauses(e, l) ELSE {})
  IN  IF \A key \in keys : Strings(l)[key] = "good"
      THEN [language |-> l, strings |-> l, keys |-> keys, words |-> Borrowed(e, ui)]
      ELSE Nothing

\* Variant: what a locale lacks is left out of its sentence.
Gaps_Ignored(e, l) == {}

\* The overlay guard of render.
Gaps(e, l) == {key \in Planned(e) : Strings(l)[key] = "absent"}

\* Variant: the sentence is called one in the language that was asked for.
InEnglish_Unsaid(sentence, l) ==
  IF sentence = Nothing THEN Nothing ELSE [sentence EXCEPT !.language = l]

InEnglish(sentence, l) == sentence

(* render: the language that was loaded, if it lacks nothing that is        *)
(* planned; otherwise, or if its sentence is no good, all of it in English. *)
Rendered(e, l, ui, uiEnglish) ==
  LET own     == Composed(e, l, ui)
      english == Composed(e, IF narrated = Nothing THEN Nothing ELSE English, uiEnglish)
  IN  CASE e.kind = "unknown"                  -> Nothing
        [] e.kind # "unknown" /\ Gaps(e, l) = {} /\ own # Nothing -> own
        [] OTHER                               -> InEnglish(english, l)

-----------------------------------------------------------------------------
(* _add_description, in the status callback: no file is read.               *)

\* get_cached_ui_strings, which merges English under the language's file.
Cached(l) == IF l \in served THEN Resolved(l) ELSE Nothing

\* By Home Assistant's language, and failing that by the one narrated.
UiStrings ==
  CASE language \in served                           -> Cached(language)
    [] language \notin served /\ narrated # Nothing -> Cached(narrated)
    [] OTHER                                         -> Cached(English)

Narrates(e) ==
  /\ told' = [event |-> e, said |-> Rendered(e, narrated, UiStrings, Cached(English))]
  /\ UNCHANGED <<file, language, preloaded, listening, load, served, narrated>>

-----------------------------------------------------------------------------
(* _async_preload_narration_sources, at set-up and after a change.          *)

StartsLoad(t, l) ==
  /\ load[t] = NoLoad
  /\ load' = [load EXCEPT ![t] = [language |-> l,
                at |-> CASE English \notin served                    -> "english"
                         [] English \in served /\ l \notin served    -> "ui_strings"
                         [] OTHER                                    -> "narration"]]

\* Home Assistant forwards the event platform when this is done.
SetupPreloads(t) ==
  /\ preloaded = Nothing /\ preloaded' = language
  /\ StartsLoad(t, language)
  /\ UNCHANGED <<file, language, listening, served, narrated, told>>

LanguageChanges(l) ==
  /\ l # language /\ language' = l
  /\ UNCHANGED <<file, preloaded, listening, load, served, narrated, told>>

\* _async_language_changed compares with the language it last preloaded.
CoreConfigUpdated(t) ==
  /\ listening /\ language # preloaded /\ preloaded' = language
  /\ StartsLoad(t, language)
  /\ UNCHANGED <<file, language, listening, served, narrated, told>>

\* A file of ui_strings has been read by the executor.
LoadsUiStrings(t) ==
  /\ load[t].at \in {"english", "ui_strings"}
  /\ LET l == IF load[t].at = "english" THEN English ELSE load[t].language
     IN  /\ served' = served \cup {l}
         /\ load' = [load EXCEPT ![t].at = IF load[t].language \in served \cup {l}
                                           THEN "narration" ELSE "ui_strings"]
  /\ UNCHANGED <<file, language, preloaded, listening, narrated, told>>

(* The narration strings, with those of English, replace what was there.    *)
(* Set-up goes on when its preload is over, and listens.                    *)
LoadsNarration(t) ==
  /\ load[t].at = "narration" /\ load' = [load EXCEPT ![t] = NoLoad]
  /\ narrated' = Resolved(load[t].language) /\ listening' = TRUE
  /\ UNCHANGED <<file, language, preloaded, served, told>>

\* A preload that fails leaves the stashes as they were.
LoadFails(t) ==
  /\ load[t] # NoLoad /\ load' = [load EXCEPT ![t] = NoLoad]
  /\ listening' = TRUE
  /\ UNCHANGED <<file, language, preloaded, served, narrated, told>>

\* A client of i18n/get fills the same cache.
ServesStrings(l) ==
  /\ l \notin served /\ served' = served \cup {l}
  /\ UNCHANGED <<file, language, preloaded, listening, load, narrated, told>>

NarrationNext ==
  \/ \E e \in Events : Narrates(e)
  \/ \E t \in Loads :
        \/ SetupPreloads(t) \/ CoreConfigUpdated(t)
        \/ LoadsUiStrings(t) \/ LoadsNarration(t) \/ LoadFails(t)
  \/ \E l \in Languages : LanguageChanges(l) \/ ServesStrings(l)

NarrationSpec == NarrationInit /\ [][NarrationNext]_narrationVars
-----------------------------------------------------------------------------
NarrationTypeOK ==
  /\ language \in Languages /\ preloaded \in Languages \cup {Nothing}
  /\ narrated \in Shipped \cup {Nothing} /\ served \subseteq Languages

(* A sentence is of one piece: every string of it comes from the file of    *)
(* the language it is said to be in, and in a language other than English   *)
(* it leaves out nothing that the file could tell.  And English saves every *)
(* event from silence as soon as strings have been loaded, whatever is      *)
(* wrong with the file of the language.                                     *)
SentencesAreWhole ==
  [][told' # told =>
       LET e == told'.event   said == told'.said
       IN  IF said # Nothing
           THEN /\ said.strings = said.language
                /\ said.language # English =>
                     \A c \in e.details : c \in said.keys \/ file[said.language][c] = "blank"
           ELSE \/ narrated = Nothing \/ e.kind = "unknown"
                \/ \E key \in NarrationKeys : file[English][key] # "good"]_narrationVars

(* README.md:580-582: "it falls back to English as a whole sentence when a  *)
(* locale is incomplete, never half-and-half".                              *)
NeverHalfAndHalf ==
  told # Nothing /\ told.said # Nothing => told.said.words \subseteq {told.said.language}
=============================================================================
