---------------------------- MODULE JobLifecycle ----------------------------
(***************************************************************************)
(* What the platform promises about one upload, without the calls, files   *)
(* and processes it is made of.  An upload is claimed from PENDING by one  *)
(* attempt at a time; only the attempt that runs may publish output,       *)
(* complete or fail the upload; a COMPLETED upload has its whole output.   *)
(*                                                                         *)
(* An attempt that was reported COMPLETED is over only when the worker has *)
(* seen the answer; until then the same attempt may still report FAILED.   *)
(***************************************************************************)
CONSTANT Ids

VARIABLES
    phase,      \* the status column, NO_ROW before the record exists
    running,    \* the uploads with an attempt under way
    published   \* the uploads whose output set is complete in its place

vars == <<phase, running, published>>

Init ==
    /\ phase = [id \in Ids |-> "NO_ROW"]
    /\ running = {}
    /\ published = {}

Move(id, from, to) ==
    /\ phase[id] \in from
    /\ phase' = [phase EXCEPT ![id] = to]

Upload(id) ==
    /\ Move(id, {"NO_ROW"}, "PENDING")
    /\ UNCHANGED <<running, published>>

(* The claim may be granted to a caller that is gone.                      *)
Claim(id) ==
    /\ id \notin running
    /\ Move(id, {"PENDING"}, "PROCESSING")
    /\ running' \in {running, running \cup {id}}
    /\ UNCHANGED published

Publish(id) ==
    /\ id \in running
    /\ phase[id] = "PROCESSING"
    /\ published' \in {published \cup {id}, published \ {id}}
    /\ UNCHANGED <<phase, running>>

Complete(id) ==
    /\ id \in running
    /\ id \in published
    /\ Move(id, {"PROCESSING"}, "COMPLETED")
    /\ UNCHANGED <<running, published>>

Fail(id) ==
    /\ id \in running
    /\ Move(id, {"PROCESSING", "COMPLETED"}, "FAILED")
    /\ running' = running \ {id}
    /\ UNCHANGED published

(* The attempt is answered, killed, or gives up on reporting.              *)
EndAttempt(id) ==
    /\ id \in running
    /\ running' = running \ {id}
    /\ UNCHANGED <<phase, published>>

Retry(id) ==
    /\ Move(id, {"FAILED"}, "PENDING")
    /\ UNCHANGED <<running, published>>

Next ==
    \E id \in Ids :
        \/ Upload(id)
        \/ Claim(id)
        \/ Publish(id)
        \/ Complete(id)
        \/ Fail(id)
        \/ EndAttempt(id)
        \/ Retry(id)

Spec == Init /\ [][Next]_vars

-----------------------------------------------------------------------------
TypeOK ==
    /\ phase \in [Ids -> {"NO_ROW", "PENDING", "PROCESSING", "COMPLETED",
                          "FAILED"}]
    /\ running \in SUBSET Ids
    /\ published \in SUBSET Ids

(* An upload that waits, failed or does not exist has no attempt under way, *)
(* and a COMPLETED upload has its whole output.                            *)
Promise ==
    \A id \in Ids :
        /\ id \in running => phase[id] \in {"PROCESSING", "COMPLETED"}
        /\ phase[id] = "COMPLETED" => id \in published
=============================================================================
