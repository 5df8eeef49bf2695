-------------------------- MODULE SommelierStoreMC --------------------------
(* Instances of SommelierStore for TLC.  The first bundle is what an export *)
(* writes; the second was edited: two active profiles, a rating without a   *)
(* favourite.                                                               *)
EXTENDS SommelierStore, TLC

CONSTANTS p1, p2, f1

MCFiles ==
  {[profiles |-> {p1}, active |-> {p1}, favorites |-> {f1}, ratings |-> {f1}],
   [profiles |-> {p1, p2}, active |-> {p1, p2}, favorites |-> {}, ratings |-> {f1}]}

TaskSymmetry == Permutations(Tasks)
=============================================================================
