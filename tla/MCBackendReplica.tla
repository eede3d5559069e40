-------------------------- MODULE MCBackendReplica --------------------------
(* Instances of BackendReplica for TLC.                                    *)
EXTENDS BackendReplica
=============================================================================
