----------------------- MODULE ReconnectSupervisorMC -----------------------
(* Instances of ReconnectSupervisor for TLC.  Liveness is asked of a loaded *)
(* entry whose user starts no repair: unloading is final, and a repair only *)
(* passes through states that an automatic one passes through as well.      *)
EXTENDS ReconnectSupervisor

UndisturbedNext == Next /\ entry' = "loaded" /\ repair'["user"] = "idle"

UndisturbedSpec == Init /\ [][UndisturbedNext]_vars /\ Fairness
=============================================================================
