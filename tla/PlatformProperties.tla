------------------------ MODULE PlatformProperties ------------------------
(***************************************************************************)
(* What is asked of VideoPlatform: invariants, the refinement of           *)
(* JobLifecycle, and liveness with the fairness it needs.  Which failures  *)
(* a property survives is said at the property; the configurations choose  *)
(* Faults accordingly.                                                     *)
(***************************************************************************)
EXTENDS VideoPlatform

(* Worker w may still touch the files of id or report on it.               *)
Owns(w, id) ==
    \/ job[w] = id /\ pc[w] \in FileWork \cup Reporting \cup Failing
    \/ replies[w].type = "job" /\ replies[w].id = id

FailureReports(id) == {m \in requests : m.type = "FAILED" /\ m.id = id}

(* An attempt at id is under way, or its FAILED report is.                 *)
Running(id) == (\E w \in Workers : Owns(w, id)) \/ FailureReports(id) # {}

(* Nobody claims an upload under the hands of a live worker: either nothing *)
(* calls resetStuckProcessing, as in the code, or there is one worker, as   *)
(* deployed, and it claims nothing while it works.                         *)
NoRivals == RecoverySweep = FALSE \/ \A v, w \in Workers : v = w

-----------------------------------------------------------------------------
(* Property 12 of the design document: however claims, answers, reports    *)
(* and manual retries interleave, and even if requests are served after    *)
(* their caller gave up, no two workers have the same upload in hand.      *)
(* Holds as long as nothing calls resetStuckProcessing.                    *)
ExclusiveProcessing ==
    \A v, w \in Workers, id \in Ids : Owns(v, id) /\ Owns(w, id) => v = w

(* The status of a row nobody is working on.                               *)
Quiet == {NoRow, "PENDING", "FAILED"}

SingleAttempt(id) ==
    /\ \A v, w \in Workers : Owns(v, id) /\ Owns(w, id) => v = w
    /\ \A m, n \in FailureReports(id) : m = n
    /\ FailureReports(id) # {} => \A w \in Workers : ~Owns(w, id)
    /\ status[id] \in Quiet => ~Running(id)

(* Why that is so: per upload there is one token, held by the worker that  *)
(* owns it or carried by its FAILED report, and while the row waits, has   *)
(* failed or does not exist there is none, so a retry starts afresh.       *)
OneAttempt == \A id \in Ids : SingleAttempt(id)

(* Every record in the database points to an original that was streamed to *)
(* its end and accepted by validation, whatever broke on the way.          *)
RecordHasOriginal ==
    \A id \in Ids : Exists(id) => original[id] = "full" /\ id \in Valid

(* A refused upload leaves no file (Requirement 2.4). The file that a      *)
(* failed request may leave is a complete, valid original: createUpload,   *)
(* which comes after validation, gave up. Holds unless unlink fails.       *)
OnlyAcceptedLeftBehind ==
    \A id \in Ids :
        intake[id] = "failed" /\ original[id] # "absent"
            => original[id] = "full" /\ id \in Valid

(* A file is moved to its final path only when ffmpeg has finished it, even *)
(* with several workers, crashes and leftovers of earlier attempts.        *)
(* Holds under NoRivals.                                                   *)
FinalFilesWhole ==
    \A id \in Ids : \A s \in Slots : final[id][s] # "partial"

(* Property 9 of the design document: the files a COMPLETED record refers  *)
(* to are there and whole: no later attempt clears them while it stays     *)
(* COMPLETED, not even when a sweep gives the record of a slow worker back *)
(* to the queue. Holds under NoRivals, unless requests are served after    *)
(* their caller gave up.                                                   *)
CompletedIsRetrievable ==
    \A id \in Ids : status[id] = "COMPLETED" => OutputComplete(id)

(* Five operations move a record on, and a column that one of them leaves  *)
(* undefined keeps its value: none may forget the columns that go with the *)
(* status. A start time belongs to the attempt under way, so that a sweep  *)
(* neither measures an earlier attempt nor finds none to measure; a FAILED *)
(* record has its message and a COMPLETED one its thumbnail. Holds with    *)
(* every fault, any number of workers, and sweeps.                         *)
RowsConsistent ==
    \A id \in Ids :
        /\ status[id] = "PROCESSING" <=> processingAge[id] # Null
        /\ status[id] = "FAILED" => error[id]
        /\ status[id] = "COMPLETED" => thumbnailPath[id]

(* The error column is populated when FAILED, and in no other status: no   *)
(* message of an earlier attempt survives a retry. Holds under NoRivals,   *)
(* unless requests are served after their caller gave up.                  *)
ErrorOnlyWhenFailed ==
    \A id \in Ids : error[id] => status[id] = "FAILED"

-----------------------------------------------------------------------------
(* The platform implements the lifecycle of JobLifecycle, upload by upload, *)
(* as long as no request is served after its caller gave up on it.         *)
Lifecycle ==
    INSTANCE JobLifecycle WITH
        phase <- status,
        running <- {id \in Ids : Running(id)},
        published <- {id \in Ids : OutputComplete(id)}

LifecycleSpec == Lifecycle!Spec

-----------------------------------------------------------------------------
(* Fairness.  A worker process is restarted and runs (its loop never       *)
(* returns, and every file operation, ffmpeg run and call ends); a sent    *)
(* call is served by some replica; a replica finishes what it is inside    *)
(* of.  A claim sent again and again is served in the end although single  *)
(* calls may be lost: strong fairness.                                     *)
ServeResult ==
    \/ ServeFailed
    \/ \E r \in Replicas : ServeCompleted(r)

Fairness ==
    /\ \A w \in Workers : WF_vars(WorkerStep(w))
    /\ WF_vars(ServeEmpty)
    /\ WF_vars(ServeResult)
    /\ \A r \in Replicas : WF_vars(FinishCompleted(r))
    /\ SF_vars(\E id \in Ids : Grant(id))
    /\ WF_vars(Sweep)
    /\ WF_vars(ClockTick)

FairSpec == Spec /\ Fairness

(* A user sends an older upload back to the queue, ahead of id.            *)
Overtaken(id) ==
    \E u \in Ids \ {id} : UserRetry(u) /\ Exists(id) /\ Before(u, id)

(* Every record that waits is claimed in the end, through lost calls, busy *)
(* writes and crashes. A retry keeps uploaded_at and goes to the front, so *)
(* only older uploads that are retried again and again can starve a record.*)
PendingEventuallyClaimed ==
    \A id \in Ids :
        \/ status[id] = "PENDING" ~> status[id] = "PROCESSING"
        \/ []<><<Overtaken(id)>>_vars

(* "Worker pod dies mid-job" in docs/architecture.md: a record does not    *)
(* stay PROCESSING for ever when its worker is gone. Holds if something    *)
(* calls resetStuckProcessing.                                             *)
StuckJobRecovered ==
    \A id \in Ids : status[id] = "PROCESSING" ~> status[id] # "PROCESSING"

-----------------------------------------------------------------------------
(* A statement of the documents that the code does not keep: the property  *)
(* of a run that exhibits the counterexample.                              *)

(* The lifecycle diagram: COMPLETED is final.                              *)
CompletedIsFinal ==
    [][\A id \in Ids : status[id] = "COMPLETED" => status'[id] = "COMPLETED"]_vars
=============================================================================
