-------------------------- MODULE MCClusterStart --------------------------
(* Cluster start in both input modes; a task may fail in SPARK mode.       *)
EXTENDS ClusterStart

MCInputModes == {"SPARK", "TENSORFLOW"}
MCMaxCrashes == [m \in MCInputModes |-> IF m = "SPARK" THEN 1 ELSE 0]
=============================================================================
