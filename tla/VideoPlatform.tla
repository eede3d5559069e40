--------------------------- MODULE VideoPlatform ---------------------------
(***************************************************************************)
(* The whole platform: users who upload and retry, backend replicas over   *)
(* one SQLite database and one uploads volume, and processing workers that *)
(* claim jobs and report results by GraphQL calls that may fail.           *)
(***************************************************************************)
EXTENDS UploadIntake, ProcessingWorker, BackendApi

CONSTANT RecoverySweep   \* does anything call resetStuckProcessing?
ASSUME RecoveryAssumption == RecoverySweep \in BOOLEAN

vars == <<storeVars, storageVars, intakeVars, workerVars, apiVars>>

TypeOK ==
    /\ StoreTypeOK
    /\ StorageTypeOK
    /\ IntakeTypeOK
    /\ WorkerTypeOK
    /\ ApiTypeOK

Init ==
    /\ StoreInit
    /\ StorageInit
    /\ IntakeInit
    /\ WorkerInit
    /\ ApiInit

-----------------------------------------------------------------------------
(* The worker: what ProcessingWorker does, with the messages of its calls. *)
ClaimRequest(w) ==
    [type |-> "claimNext", caller |-> w, id |-> Null, attempt |-> 0]
ResultRequest(w, result) ==
    [type |-> result, caller |-> w, id |-> job[w], attempt |-> attempt[w]]

CallClaimNext(w) ==
    /\ Poll(w)
    /\ Send(ClaimRequest(w))
    /\ UNCHANGED <<storeVars, intakeVars>>

ReceiveJob(w) ==
    /\ replies[w].type = "job"
    /\ StartJob(w, replies[w].id, replies[w].attempt)
    /\ TakeReply(w)
    /\ UNCHANGED <<storeVars, intakeVars>>

ReceiveNothing(w) ==
    /\ replies[w].type = "empty"
    /\ EndJob(w)
    /\ TakeReply(w)
    /\ UNCHANGED <<storeVars, storageVars, intakeVars>>

WorkFiles(w) == FileStep(w) /\ UNCHANGED <<storeVars, intakeVars, apiVars>>

ReportCompleted(w) ==
    /\ SendCompleted(w)
    /\ Send(ResultRequest(w, "COMPLETED"))
    /\ UNCHANGED <<storeVars, intakeVars>>

ReportFailed(w) ==
    /\ SendFailed(w)
    /\ Send(ResultRequest(w, "FAILED"))
    /\ UNCHANGED <<storeVars, intakeVars>>

ReceiveAccepted(w) ==
    /\ replies[w].type = "ok"
    /\ ReportAccepted(w)
    /\ TakeReply(w)
    /\ UNCHANGED <<storeVars, intakeVars>>

ReceiveError(w) ==
    /\ replies[w].type = "error"
    /\ CallThrows(w)
    /\ TakeReply(w)
    /\ UNCHANGED <<storeVars, intakeVars>>

(* fetch rejects. A backend replica that dies breaks the connections it    *)
(* holds, with requests it has not served and answers of transactions it   *)
(* has committed, and while it is down it refuses every call; a report it  *)
(* was inside of ends with CrashBackend first. lostCall needs no crash.    *)
CallFails(w) ==
    /\ \/ "lostCall" \in Faults
       \/ "backendCrash" \in Faults /\ ~InService(w)
    /\ CallThrows(w)
    /\ HangUp(w)
    /\ UNCHANGED <<storeVars, intakeVars>>

CrashWorker(w) ==
    /\ Restart(w)
    /\ HangUp(w)
    /\ UNCHANGED <<storeVars, intakeVars>>

-----------------------------------------------------------------------------
(* The backend: a call is served by a replica that is not inside another.  *)
SomeReplicaFree == \E r \in Replicas : Free(r)

Grant(id) ==
    /\ SomeReplicaFree
    /\ \E m \in requests : GrantClaim(m, id)
    /\ UNCHANGED <<storageVars, intakeVars, workerVars>>

ServeEmpty ==
    /\ SomeReplicaFree
    /\ \E m \in requests : NothingToClaim(m)
    /\ UNCHANGED <<storageVars, intakeVars, workerVars>>

ServeCompleted(r) ==
    /\ Free(r)
    /\ \E m \in requests : RecordCompleted(r, m)
    /\ UNCHANGED <<storageVars, intakeVars, workerVars>>

FinishCompleted(r) ==
    /\ StoreRenditions(r) \/ RenditionsBusy(r)
    /\ UNCHANGED <<storageVars, intakeVars, workerVars>>

ServeFailed ==
    /\ SomeReplicaFree
    /\ \E m \in requests : RecordFailed(m)
    /\ UNCHANGED <<storageVars, intakeVars, workerVars>>

ServeBusy ==
    /\ SomeReplicaFree
    /\ \E m \in requests : RejectBusy(m)
    /\ UNCHANGED <<storageVars, intakeVars, workerVars>>

UserRetry(id) ==
    /\ SomeReplicaFree
    /\ Retry(id)
    /\ UNCHANGED <<storageVars, intakeVars, workerVars>>

(* An upload starts on a free replica and goes on while its host is free.  *)
UserUpload(r, id) ==
    /\ Free(r)
    /\ BeginUpload(r, id)
    /\ UNCHANGED <<workerVars, apiVars>>

Intake(id) ==
    /\ host[id] \in Replicas
    /\ Free(host[id])
    /\ IntakeStep(id)
    /\ UNCHANGED <<workerVars, apiVars>>

(* A replica dies: the report it is inside of and the uploads it receives  *)
(* end where they are. Before it is back, and with the answers it had not  *)
(* delivered, CallFails of any caller may follow.                          *)
CrashBackend(r) ==
    /\ "backendCrash" \in Faults
    /\ LoseHandler(r)
    /\ LoseUploads(r)
    /\ UNCHANGED <<storeVars, storageVars, workerVars>>

(* resetStuckProcessing and the clock it depends on. Nothing in the        *)
(* repository but a test calls it: RecoverySweep = FALSE is the code.      *)
Sweep ==
    /\ RecoverySweep
    /\ ResetStuckProcessing
    /\ UNCHANGED <<storageVars, intakeVars, workerVars, apiVars>>

ClockTick ==
    /\ RecoverySweep
    /\ Tick
    /\ UNCHANGED <<storageVars, intakeVars, workerVars, apiVars>>

-----------------------------------------------------------------------------
(* Everything a worker process does as long as it is not killed.           *)
WorkerStep(w) ==
    \/ CallClaimNext(w)
    \/ ReceiveJob(w)
    \/ ReceiveNothing(w)
    \/ WorkFiles(w)
    \/ ReportCompleted(w)
    \/ ReportFailed(w)
    \/ ReceiveAccepted(w)
    \/ ReceiveError(w)
    \/ CallFails(w)

Next ==
    \/ \E w \in Workers : WorkerStep(w) \/ CrashWorker(w)
    \/ \E id \in Ids : Grant(id) \/ UserRetry(id) \/ Intake(id)
    \/ \E r \in Replicas :
           \/ ServeCompleted(r)
           \/ FinishCompleted(r)
           \/ CrashBackend(r)
           \/ \E id \in Ids : UserUpload(r, id)
    \/ ServeEmpty
    \/ ServeFailed
    \/ ServeBusy
    \/ Sweep
    \/ ClockTick

Spec == Init /\ [][Next]_vars
=============================================================================
