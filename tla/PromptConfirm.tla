---------------------------- MODULE PromptConfirm ----------------------------
(***************************************************************************)
(* The prompts of the machine and who confirms them: _on_status and        *)
(* _maybe_auto_confirm of the client, the prompt edges of the lifecycle    *)
(* detector, which announce the same prompts, and the Confirm Prompt       *)
(* button.  A confirmation is a task of its own, sent to a machine whose   *)
(* prompt may have changed since; links come and go under all of them.     *)
(***************************************************************************)
EXTENDS Naturals

CONSTANTS
  Soft,       \* SOFT_AUTO_CONFIRM_MANIPULATIONS
  Hard,       \* the other PROMPT_MANIPULATIONS
  NoPrompt,   \* Manipulation.NONE
  NotSeen,    \* the detector has seen no frame on this link
  AutoConfirm,\* the option auto_confirm_prompts of this set-up
  MaxConfirms \* bound: confirmations under way

Prompts == Soft \cup Hard

ASSUME PromptAssumption ==
  /\ Soft \cap Hard = {} /\ NoPrompt \notin Prompts
  /\ NotSeen \notin Prompts \cup {NoPrompt}
  /\ AutoConfirm \in BOOLEAN /\ MaxConfirms \in Nat

VARIABLES
  promptLink,    \* client.connected
  prompt,        \* what the machine shows
  status,        \* the manipulation of client.status, kept over disconnects
  confirmed,     \* _last_auto_confirmed
  previous,      \* _prev_manipulation of the detector
  tasks,         \* confirmations to be sent: how many of each kind
  \* History, which no code reads:
  tried,         \* confirmations made for the prompt since a frame without it
  promised      \* the last prompt_raised: the prompt and its auto_confirm

seenVars   == <<status, confirmed, previous>>
promptVars == <<promptLink, prompt, seenVars, tasks, tried, promised>>

Kinds == {"auto", "button"}

NothingRaised == [prompt |-> NoPrompt, auto |-> FALSE]

PromptInit ==
  /\ promptLink = FALSE /\ prompt \in Prompts \cup {NoPrompt}
  /\ status = NoPrompt /\ confirmed = NoPrompt /\ previous = NotSeen
  /\ tasks = [kind \in Kinds |-> 0] /\ tried = 0 /\ promised = NothingRaised

-----------------------------------------------------------------------------
(* The machine raises, changes and clears its prompts.                      *)
PromptChanges ==
  /\ prompt' \in Prompts \cup {NoPrompt}
  /\ UNCHANGED <<promptLink, seenVars, tasks, tried, promised>>

\* The detector forgets everything, the client keeps what it confirmed.
PromptLinkDown ==
  /\ promptLink /\ promptLink' = FALSE
  /\ previous' = NotSeen
  /\ UNCHANGED <<prompt, status, confirmed, tasks, tried, promised>>

PromptLinkUp ==
  /\ ~ promptLink /\ promptLink' = TRUE
  /\ UNCHANGED <<prompt, seenVars, tasks, tried, promised>>

\* _maybe_auto_confirm makes a task for what the frame shows.
Confirms == AutoConfirm /\ prompt \in Soft /\ prompt # confirmed

\* Variant: what was confirmed is remembered when the prompt is gone.
Latched_NoReset == IF Confirms THEN prompt ELSE confirmed

\* Variant: the latch waits for the answer of the machine.
Latched_Late == IF AutoConfirm /\ prompt \notin Soft THEN NoPrompt ELSE confirmed

\* _last_auto_confirmed after the frame.
Latched ==
  IF ~ AutoConfirm THEN confirmed ELSE IF prompt \in Soft THEN prompt ELSE NoPrompt

\* _feed_manipulation raises the prompt; the first frame of a link is a level.
Raises == previous # NotSeen /\ prompt # previous /\ prompt \in Prompts

(* A status frame: first the confirmation, then the callbacks of the status. *)
FrameArrives ==
  /\ promptLink
  /\ Confirms => tasks["auto"] < MaxConfirms
  /\ status' = prompt /\ confirmed' = Latched /\ previous' = prompt
  /\ tasks' = IF Confirms THEN [tasks EXCEPT !["auto"] = @ + 1] ELSE tasks
  /\ tried' = (IF prompt = status THEN tried ELSE 0) + (IF Confirms THEN 1 ELSE 0)
  /\ promised' = IF Raises
                  THEN [prompt |-> prompt, auto |-> prompt \in Soft /\ AutoConfirm]
                  ELSE promised
  /\ UNCHANGED <<promptLink, prompt>>

\* The button, which a client shows for as long as the status has a prompt.
ButtonPressed ==
  /\ promptLink /\ status \in Prompts /\ tasks["button"] < MaxConfirms
  /\ tasks' = [tasks EXCEPT !["button"] = @ + 1]
  /\ UNCHANGED <<promptLink, prompt, seenVars, tried, promised>>

(* HY reaches the machine or does not; it confirms whatever is shown then,  *)
(* and the machine may go on.  A failure is logged.                         *)
SendsConfirm(kind) ==
  /\ tasks[kind] > 0 /\ tasks' = [tasks EXCEPT ![kind] = @ - 1]
  /\ \/ promptLink /\ prompt' \in {NoPrompt, prompt}
     \/ UNCHANGED prompt
  /\ UNCHANGED <<promptLink, seenVars, tried, promised>>

PromptNext ==
  \/ PromptChanges \/ PromptLinkDown \/ PromptLinkUp
  \/ FrameArrives \/ ButtonPressed
  \/ \E kind \in Kinds : SendsConfirm(kind)

PromptSpec == PromptInit /\ [][PromptNext]_promptVars
-----------------------------------------------------------------------------
(* Docstring of _maybe_auto_confirm: once per appearance.  While frames     *)
(* show one and the same prompt, over a reconnect too, one confirmation is  *)
(* made for it at most, whatever became of that one.                        *)
OncePerAppearance == tried <= 1

(* README.md:558: a prompt_raised with auto_confirm is about to be          *)
(* confirmed: the frame that raises it has made a confirmation.             *)
PromiseIsKept ==
  [][FrameArrives /\ Raises /\ promised'.auto => tasks'["auto"] = tasks["auto"] + 1]_promptVars

(* README.md:736: hardware prompts stay manual.  A confirmation made for a  *)
(* soft prompt reaches a machine that shows a hard one by then.             *)
HardStaysManual ==
  [][SendsConfirm("auto") /\ prompt # prompt' => prompt \in Soft]_promptVars
=============================================================================
