-------------------------- MODULE MCAttemptHistory --------------------------
(* Instances of AttemptHistory for TLC.                                    *)
EXTENDS AttemptHistory

(* Short videos: what is reported does not depend on how much there is.    *)
MCShortPlan == [id \in Ids |-> 1]
=============================================================================
