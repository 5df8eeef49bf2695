----------------------------- MODULE WipeBudget -----------------------------
(***************************************************************************)
(* What the recovery layer promises about destroying the bond, without     *)
(* saying how: nothing is destroyed before the machine has rejected us     *)
(* once, and each episode has one destructive request to spend.  A good    *)
(* handshake, or a new set-up of the entry, opens a new episode.           *)
(***************************************************************************)
EXTENDS Integers

VARIABLES rejected, \* the machine has rejected an SMP exchange
          left      \* destructive requests left in this episode

Init == rejected = FALSE /\ left = 1

Reject == rejected' = TRUE /\ UNCHANGED left

Wipe == rejected /\ left = 1 /\ left' = 0 /\ UNCHANGED rejected

NewEpisode == left' = 1 /\ UNCHANGED rejected

Next == Reject \/ Wipe \/ NewEpisode

Spec == Init /\ [][Next]_<<rejected, left>>
=============================================================================
