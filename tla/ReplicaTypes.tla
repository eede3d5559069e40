---------------------------- MODULE ReplicaTypes ----------------------------
(* What the modules about the inside of a backend process share.           *)
CONSTANTS
    Replicas,   \* the backend processes
    Null

ASSUME NoReplicaAssumption == Null \notin Replicas
=============================================================================
