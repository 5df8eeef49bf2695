-------------------------- MODULE ConfigEntriesMC --------------------------
(* Two flows, hence two entries, for a machine whose name tells its brand   *)
(* and for one whose name does not.                                         *)
EXTENDS ConfigEntries, TLC

CONSTANTS f1, f2, m1, m2

FlowSymmetry == Permutations(Flows)
=============================================================================
