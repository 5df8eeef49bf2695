-------------------------- MODULE MachineIdentityMC --------------------------
(* Models of one family with more and with fewer slots than its table.      *)
EXTENDS MachineIdentity, TLC
CONSTANTS m1, m2, m3, f1, f2

MCFamily == m1 :> f1 @@ m2 :> f1 @@ m3 :> f2
MCCount  == m1 :> 3 @@ m2 :> 1 @@ m3 :> 2
MCTable  == f1 :> 2 @@ f2 :> 2
=============================================================================
