---------------------------- MODULE AtomicWrites ----------------------------
(***************************************************************************)
(* What the write path of the metadata store promises to its callers: a    *)
(* write takes effect at most once, between its call and the end of the    *)
(* call, on the database as the writes before it left it. A call that      *)
(* returned has taken effect and one that was refused has not; of one that *)
(* failed in COMMIT or whose process died nobody knows, but it never takes *)
(* effect later. A mutation of module MetadataStore is the step Apply.     *)
(***************************************************************************)
EXTENDS Sequences

CONSTANT Writes

VARIABLES
    database,   \* the writes the database consists of, in commit order
    outcome     \* what became of each call

vars == <<database, outcome>>

Outcomes == {"new", "running", "returned", "refused", "unknown"}

Init ==
    /\ database = <<>>
    /\ outcome = [w \in Writes |-> "new"]

Applied(w) == \E i \in DOMAIN database : database[i] = w

End(w, result) ==
    /\ outcome[w] = "running"
    /\ outcome' = [outcome EXCEPT ![w] = result]
    /\ UNCHANGED database

Call(w) ==
    /\ outcome[w] = "new"
    /\ outcome' = [outcome EXCEPT ![w] = "running"]
    /\ UNCHANGED database

Apply(w) ==
    /\ outcome[w] = "running"
    /\ ~Applied(w)
    /\ database' = Append(database, w)
    /\ UNCHANGED outcome

Return(w) == Applied(w) /\ End(w, "returned")

Refuse(w) == ~Applied(w) /\ End(w, "refused")

(* Either the write has been applied or it never will be.                  *)
Doubt(w) == End(w, "unknown")

Next ==
    \E w \in Writes :
        Call(w) \/ Apply(w) \/ Return(w) \/ Refuse(w) \/ Doubt(w)

Spec == Init /\ [][Next]_vars

-----------------------------------------------------------------------------
TypeOK ==
    /\ database \in Seq(Writes)
    /\ outcome \in [Writes -> Outcomes]

(* What a caller may conclude: no write is in the database twice, however  *)
(* often it was tried; one whose call returned is there, and one whose     *)
(* call was refused (busy to the last attempt, or thrown by the mutation)  *)
(* is not.                                                                 *)
AppliedOnce ==
    /\ \A i, j \in DOMAIN database : database[i] = database[j] => i = j
    /\ \A w \in Writes :
           /\ outcome[w] = "returned" => Applied(w)
           /\ Applied(w) => outcome[w] \notin {"new", "refused"}

(* No later write, retry or crash takes back or reorders what is stored.   *)
Durable ==
    [][\A i \in DOMAIN database :
           i \in DOMAIN database' /\ database'[i] = database[i]]_vars
=============================================================================
