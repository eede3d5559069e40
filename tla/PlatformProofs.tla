--------------------------- MODULE PlatformProofs ---------------------------
(***************************************************************************)
(* Theorems about VideoPlatform for every set of uploads, workers and      *)
(* replicas, every plan and every choice of faults.                        *)
(***************************************************************************)
EXTENDS PlatformProperties, TLAPS

-----------------------------------------------------------------------------
(* Which steps touch the database, and that all others leave it alone.     *)
StoreStep ==
    \/ \E id \in Ids : Accept(id) \/ Grant(id) \/ UserRetry(id)
    \/ \E r \in Replicas : ServeCompleted(r) \/ StoreRenditions(r)
    \/ ServeFailed
    \/ Sweep
    \/ ClockTick

(* Only the listed steps change the tables of the metadata store.          *)
LEMMA StoreFrame ==
    ASSUME [Next]_vars
    PROVE  StoreStep \/ UNCHANGED storeVars
<1>1. ASSUME NEW w \in Workers, WorkerStep(w) \/ CrashWorker(w)
      PROVE  UNCHANGED storeVars
  BY <1>1 DEF WorkerStep, CallClaimNext, ReceiveJob, ReceiveNothing, WorkFiles,
     ReportCompleted, ReportFailed, ReceiveAccepted, ReceiveError, CallFails,
     CrashWorker
<1>2. ASSUME NEW id \in Ids, Intake(id)
      PROVE  Accept(id) \/ UNCHANGED storeVars
  BY <1>2 DEF Intake, IntakeStep, StreamEnds, StreamBreaks, Reject, AcceptFails
<1>3. ASSUME NEW r \in Replicas, FinishCompleted(r)
      PROVE  StoreRenditions(r) \/ UNCHANGED storeVars
  BY <1>3 DEF FinishCompleted, RenditionsBusy
<1>4. ASSUME NEW r \in Replicas, CrashBackend(r) \/ \E id \in Ids : UserUpload(r, id)
      PROVE  UNCHANGED storeVars
  BY <1>4 DEF CrashBackend, UserUpload, BeginUpload
<1>5. ASSUME ServeEmpty \/ ServeBusy
      PROVE  UNCHANGED storeVars
  BY <1>5 DEF ServeEmpty, NothingToClaim, ServeBusy, RejectBusy
<1>6. CASE UNCHANGED vars
  BY <1>6 DEF vars
<1>7. CASE Next
  BY <1>7, <1>1, <1>2, <1>3, <1>4, <1>5 DEF Next, StoreStep
<1> QED
  BY <1>6, <1>7

-----------------------------------------------------------------------------
(* What a report writes keeps the columns typed.                           *)
LEMMA UpdateType ==
    ASSUME StoreTypeOK, NEW id \in Ids, NEW st \in {"COMPLETED", "FAILED"},
           UpdateUpload(id, ResultPatch(st))
    PROVE  /\ StoreTypeOK'
           /\ status' = [status EXCEPT ![id] = st]
           /\ error' = [error EXCEPT ![id] = IF st = "FAILED" THEN TRUE ELSE @]
  BY KeepAssumption
     DEF StoreTypeOK, UpdateUpload, ResultPatch, Patched, ProcessingStatus

(* Every step keeps the tables of the metadata store typed.                *)
LEMMA StoreTypeStep ==
    ASSUME TypeOK, [Next]_vars
    PROVE  StoreTypeOK'
<1> USE DEF TypeOK
<1>1. CASE UNCHANGED storeVars
  BY <1>1 DEF StoreTypeOK, storeVars
<1>2. ASSUME NEW id \in Ids, Accept(id)
      PROVE  StoreTypeOK'
  BY <1>2 DEF StoreTypeOK, Accept, CreateUpload, ProcessingStatus
<1>3. ASSUME NEW id \in Ids, Grant(id)
      PROVE  StoreTypeOK'
  BY <1>3, TimeoutAssumption
     DEF StoreTypeOK, Grant, GrantClaim, ClaimNext, ProcessingStatus
<1>4. ASSUME NEW id \in Ids, UserRetry(id)
      PROVE  StoreTypeOK'
  BY <1>4 DEF StoreTypeOK, UserRetry, Retry, RetryProcessing, ProcessingStatus
<1>5. ASSUME NEW r \in Replicas, ServeCompleted(r)
      PROVE  StoreTypeOK'
  <2> PICK m \in requests : RecordCompleted(r, m)
    BY <1>5 DEF ServeCompleted
  <2> QED
    BY UpdateType DEF ApiTypeOK, RecordCompleted
<1>6. ASSUME NEW r \in Replicas, StoreRenditions(r)
      PROVE  StoreTypeOK'
  <2>1. handler[r].id \in Ids
    BY <1>6 DEF StoreRenditions, Free, ApiTypeOK
  <2>2. Renditions(handler[r].id) \in SUBSET (1..MaxRenditions)
    BY <2>1, PlanAssumption, LadderAssumption DEF Renditions
  <2> QED
    BY <1>6, <2>1, <2>2 DEF StoreRenditions, SetRenditions, StoreTypeOK
<1>7. CASE ServeFailed
  <2> PICK m \in requests : RecordFailed(m)
    BY <1>7 DEF ServeFailed
  <2> QED
    BY UpdateType DEF ApiTypeOK, RecordFailed
<1>8. CASE Sweep
  BY <1>8 DEF Sweep, ResetStuckProcessing, StoreTypeOK, ProcessingStatus
<1>9. CASE ClockTick
  BY <1>9, TimeoutAssumption, NullAssumption DEF ClockTick, Tick, StoreTypeOK
<1> QED
  BY <1>1, <1>2, <1>3, <1>4, <1>5, <1>6, <1>7, <1>8, <1>9, StoreFrame DEF StoreStep

-----------------------------------------------------------------------------
(* Only uploads and the file steps of workers touch the volume.            *)
StorageStep ==
    \/ \E r \in Replicas, id \in Ids : BeginUpload(r, id)
    \/ \E id \in Ids : StreamEnds(id) \/ StreamBreaks(id) \/ Reject(id)
    \/ \E w \in Workers : WorkFiles(w)

(* Only the listed steps change anything on the uploads volume.            *)
LEMMA StorageFrame ==
    ASSUME [Next]_vars
    PROVE  StorageStep \/ UNCHANGED storageVars
<1>1. ASSUME NEW w \in Workers, WorkerStep(w) \/ CrashWorker(w)
      PROVE  WorkFiles(w) \/ UNCHANGED storageVars
  BY <1>1 DEF WorkerStep, CallClaimNext, Poll, ReceiveJob, StartJob, ReceiveNothing,
     ReportCompleted, SendCompleted, ReportFailed, SendFailed, ReceiveAccepted,
     ReportAccepted, ReceiveError, CallFails, CallThrows, CrashWorker, Restart
<1>2. ASSUME NEW id \in Ids, Intake(id)
      PROVE  StorageStep \/ UNCHANGED storageVars
  BY <1>2 DEF StorageStep, Intake, IntakeStep, Accept, AcceptFails
<1>3. ASSUME NEW id \in Ids, Grant(id) \/ UserRetry(id)
      PROVE  UNCHANGED storageVars
  BY <1>3 DEF Grant, UserRetry
<1>4. ASSUME NEW r \in Replicas,
             ServeCompleted(r) \/ FinishCompleted(r) \/ CrashBackend(r)
      PROVE  UNCHANGED storageVars
  BY <1>4 DEF ServeCompleted, FinishCompleted, CrashBackend
<1>5. ASSUME NEW r \in Replicas, NEW id \in Ids, UserUpload(r, id)
      PROVE  StorageStep
  BY <1>5 DEF UserUpload, StorageStep
<1>6. ASSUME ServeEmpty \/ ServeFailed \/ ServeBusy \/ Sweep \/ ClockTick
      PROVE  UNCHANGED storageVars
  BY <1>6 DEF ServeEmpty, ServeFailed, ServeBusy, Sweep, ClockTick
<1>7. CASE UNCHANGED vars
  BY <1>7 DEF vars
<1>8. CASE Next
  BY <1>8, <1>1, <1>2, <1>3, <1>4, <1>5, <1>6 DEF Next, StorageStep
<1> QED
  BY <1>7, <1>8

(* A file step of a worker keeps the volume typed.                         *)
LEMMA FileStepType ==
    ASSUME StorageTypeOK, WorkerTypeOK, NEW w \in Workers, FileStep(w)
    PROVE  StorageTypeOK'
<1> USE DEF StorageTypeOK, FileState
<1>1. UNCHANGED storageVars => StorageTypeOK'
  BY DEF storageVars
<1>2. NoFiles \in [Slots -> FileState]
  BY DEF NoFiles
<1>3. pc[w] \notin {"poll", "claiming"} => job[w] \in Ids /\ cursor[w] \in Slots
  BY LadderAssumption, PlanAssumption
     DEF WorkerTypeOK, Slots, Outputs, Renditions, Thumbnail
<1>4. CASE CleanStaging(w)
  BY <1>2, <1>3, <1>4 DEF CleanStaging, RecreateStaging
<1>5. CASE Probe(w) \/ StepThrows(w)
  BY <1>5, <1>1 DEF Probe, StepThrows
<1>6. CASE StartOutput(w)
  BY <1>6, <1>3 DEF StartOutput, OpenOutput
<1>7. CASE FinishOutput(w)
  <2>1. PICK file \in FileState :
            tmp' = [tmp EXCEPT ![job[w]][cursor[w]] = file]
    <3>1. tmp[job[w]][cursor[w]] \in FileState
      BY <1>3, <1>7 DEF FinishOutput
    <3> QED
      BY <3>1, <1>7 DEF FinishOutput, CloseOutput
  <2> QED
    BY <2>1, <1>3, <1>7 DEF FinishOutput, CloseOutput
<1>8. CASE ClearFinal(w)
  BY <1>8, <1>3 DEF ClearFinal, ClearRenditions
<1>9. CASE MoveOutput(w)
  BY <1>9, <1>3 DEF MoveOutput, MoveIntoPlace
<1>10. CASE DiscardStaging(w)
  BY <1>10, <1>2, <1>3 DEF DiscardStaging, RemoveStaging
<1>11. CASE CatchCleanup(w)
  BY <1>11, <1>1, <1>2, <1>3 DEF CatchCleanup, RemoveStaging
<1> QED
  BY <1>4, <1>5, <1>6, <1>7, <1>8, <1>9, <1>10, <1>11 DEF FileStep

(* Every step keeps the uploads volume typed.                              *)
LEMMA StorageTypeStep ==
    ASSUME TypeOK, [Next]_vars
    PROVE  StorageTypeOK'
<1> USE DEF TypeOK
<1>1. UNCHANGED storageVars => StorageTypeOK'
  BY DEF StorageTypeOK, storageVars
<1>2. ASSUME NEW id \in Ids, NEW state \in FileState, WriteOriginal(id, state)
      PROVE  StorageTypeOK'
  BY <1>2 DEF StorageTypeOK, WriteOriginal
<1>3. ASSUME NEW r \in Replicas, NEW id \in Ids, BeginUpload(r, id)
      PROVE  StorageTypeOK'
  BY <1>2, <1>3 DEF BeginUpload, FileState
<1>4. ASSUME NEW id \in Ids, StreamEnds(id) \/ StreamBreaks(id) \/ Reject(id)
      PROVE  StorageTypeOK'
  BY <1>1, <1>2, <1>4 DEF StreamEnds, StreamBreaks, Reject, SafeUnlink, FileState
<1>5. ASSUME NEW w \in Workers, WorkFiles(w)
      PROVE  StorageTypeOK'
  BY <1>5, FileStepType DEF WorkFiles
<1> QED
  BY <1>1, <1>3, <1>4, <1>5, StorageFrame DEF StorageStep

(* Every step keeps the uploads in progress typed.                         *)
LEMMA IntakeTypeStep ==
    ASSUME TypeOK, [Next]_vars
    PROVE  IntakeTypeOK'
<1> USE DEF TypeOK, IntakeTypeOK, InProgress, Settled
<1>1. UNCHANGED intakeVars => IntakeTypeOK'
  BY DEF intakeVars
<1>2. ASSUME NEW w \in Workers, WorkerStep(w) \/ CrashWorker(w)
      PROVE  UNCHANGED intakeVars
  BY <1>2 DEF WorkerStep, CallClaimNext, ReceiveJob, ReceiveNothing, WorkFiles,
     ReportCompleted, ReportFailed, ReceiveAccepted, ReceiveError, CallFails, CrashWorker
<1>3. ASSUME NEW id \in Ids, Intake(id)
      PROVE  IntakeTypeOK'
  BY <1>3, ProcessAssumption DEF Intake, IntakeStep, StreamEnds, StreamBreaks, Reject, Accept,
     AcceptFails, Settle
<1>4. ASSUME NEW id \in Ids, Grant(id) \/ UserRetry(id)
      PROVE  UNCHANGED intakeVars
  BY <1>4 DEF Grant, UserRetry
<1>5. ASSUME NEW r \in Replicas, ServeCompleted(r) \/ FinishCompleted(r)
      PROVE  UNCHANGED intakeVars
  BY <1>5 DEF ServeCompleted, FinishCompleted
<1>6. ASSUME NEW r \in Replicas, CrashBackend(r)
      PROVE  IntakeTypeOK'
  BY <1>6, ProcessAssumption DEF CrashBackend, LoseUploads
<1>7. ASSUME NEW r \in Replicas, NEW id \in Ids, UserUpload(r, id)
      PROVE  IntakeTypeOK'
  BY <1>7 DEF UserUpload, BeginUpload
<1>8. ASSUME ServeEmpty \/ ServeFailed \/ ServeBusy \/ Sweep \/ ClockTick
      PROVE  UNCHANGED intakeVars
  BY <1>8 DEF ServeEmpty, ServeFailed, ServeBusy, Sweep, ClockTick
<1>9. CASE UNCHANGED vars
  BY <1>9, <1>1 DEF vars
<1>10. CASE Next
  BY <1>10, <1>1, <1>2, <1>3, <1>4, <1>5, <1>6, <1>7, <1>8 DEF Next
<1> QED
  BY <1>9, <1>10

-----------------------------------------------------------------------------
(* Every step of a worker process keeps its control state typed.           *)
LEMMA WorkerStepType ==
    ASSUME TypeOK, NEW w \in Workers, WorkerStep(w) \/ CrashWorker(w)
    PROVE  WorkerTypeOK'
<1> USE DEF TypeOK, WorkerTypeOK, FileWork, Reporting, Failing, Calling
<1>1. /\ Thumbnail \in Slots
      /\ \A id \in Ids : /\ Thumbnail \in Outputs(id)
                         /\ 1 \in Outputs(id)
                         /\ Outputs(id) \in SUBSET Slots
                         /\ \A s \in Outputs(id) :
                                s # Thumbnail => NextSlot(id, s) \in Outputs(id)
  BY LadderAssumption, PlanAssumption
     DEF Slots, Thumbnail, Outputs, Renditions, NextSlot
<1>2. ASSUME EndJob(w)
      PROVE  WorkerTypeOK'
  BY <1>1, <1>2 DEF EndJob
<1>3. ASSUME NEW label \in FileWork \cup Reporting \cup Failing \cup {"reportingFailure"},
             pc[w] \notin {"poll", "claiming"}, Goto(w, label)
      PROVE  WorkerTypeOK'
  BY <1>3 DEF Goto
<1>4. ASSUME NEW label \in FileWork, NEW slot \in Outputs(job[w]),
             pc[w] \notin {"poll", "claiming"},
             pc' = [pc EXCEPT ![w] = label], cursor' = [cursor EXCEPT ![w] = slot],
             UNCHANGED <<job, attempt>>
      PROVE  WorkerTypeOK'
  BY <1>1, <1>4
<1>5. CASE CallClaimNext(w)
  BY <1>5 DEF CallClaimNext, Poll, Goto
<1>6. CASE ReceiveJob(w)
  BY <1>1, <1>6 DEF ReceiveJob, StartJob, ApiTypeOK, Reply
<1>7. CASE ReceiveNothing(w) \/ CrashWorker(w) \/ ReceiveAccepted(w)
  BY <1>7, <1>2 DEF ReceiveNothing, CrashWorker, Restart, ReceiveAccepted, ReportAccepted
<1>8. CASE ReportCompleted(w) \/ ReportFailed(w)
  BY <1>8, <1>3 DEF ReportCompleted, SendCompleted, ReportFailed, SendFailed
<1>9. CASE ReceiveError(w) \/ CallFails(w)
  BY <1>9, <1>2, <1>3 DEF ReceiveError, CallFails, CallThrows
<1>10. CASE WorkFiles(w)
  <2>1. FileStep(w)
    BY <1>10 DEF WorkFiles
  <2>2. CASE CleanStaging(w) \/ StartOutput(w) \/ ClearFinal(w) \/ DiscardStaging(w)
               \/ StepThrows(w) \/ CatchCleanup(w)
    BY <2>2, <1>3 DEF CleanStaging, StartOutput, ClearFinal, DiscardStaging,
       StepThrows, CatchCleanup
  <2>3. CASE Probe(w)
    BY <2>3, <1>1, <1>4 DEF Probe
  <2>4. CASE FinishOutput(w)
    BY <2>4, <1>1, <1>4 DEF FinishOutput
  <2>5. CASE MoveOutput(w)
    BY <2>5, <1>1, <1>4 DEF MoveOutput
  <2> QED
    BY <2>1, <2>2, <2>3, <2>4, <2>5 DEF FileStep
<1> QED
  BY <1>5, <1>6, <1>7, <1>8, <1>9, <1>10 DEF WorkerStep

-----------------------------------------------------------------------------
(* Requests, replies and handlers stay typed, whoever sends or serves.     *)
LEMMA WorkerStepApiType ==
    ASSUME TypeOK, NEW w \in Workers, WorkerStep(w) \/ CrashWorker(w)
    PROVE  ApiTypeOK'
<1> USE DEF TypeOK, ApiTypeOK
<1>1. NoReply \in Reply /\ NoReply.type # "job"
  BY DEF NoReply, Reply
<1>2. ASSUME NEW m \in Request, m.type # "claimNext" => m.id \in Ids, Send(m)
      PROVE  ApiTypeOK'
  BY <1>2 DEF Send
<1>3. ASSUME TakeReply(w)
      PROVE  ApiTypeOK'
  BY <1>1, <1>3 DEF TakeReply
<1>4. ASSUME HangUp(w)
      PROVE  ApiTypeOK'
  <2>1. \A m \in Request : Orphaned(m) \in Request
    BY DEF Orphaned, Request
  <2>2. \A m \in Request : /\ Orphaned(m).id = m.id
                           /\ Orphaned(m).type = m.type
                           /\ Orphaned(m) # NoRequest
    BY DEF Orphaned, Request, NoRequest
  <2>3. NoRequest.caller # w
    BY ProcessAssumption DEF NoRequest
  <2>4. /\ requests' \in SUBSET Request
        /\ \A m \in requests' : m.type # "claimNext" => m.id \in Ids
    BY <1>4, <2>1, <2>2 DEF HangUp, SentBy
  <2>5. /\ handler' \in [Replicas -> Request \cup {NoRequest}]
        /\ \A r \in Replicas : handler'[r] # NoRequest => handler'[r].id \in Ids
    BY <1>4, <2>1, <2>2, <2>3 DEF HangUp
  <2>6. /\ replies' \in [Workers -> Reply]
        /\ \A v \in Workers : replies'[v].type = "job" => replies'[v].id \in Ids
        /\ claims' \in [Ids -> Nat]
    BY <1>4, <1>1 DEF HangUp
  <2> QED
    BY <2>4, <2>5, <2>6
<1>5. CASE CallClaimNext(w)
  <2>1. ClaimRequest(w) \in Request /\ ClaimRequest(w).type = "claimNext"
    BY DEF ClaimRequest, Request
  <2> QED
    BY <1>5, <2>1, <1>2 DEF CallClaimNext
<1>6. CASE ReportCompleted(w) \/ ReportFailed(w)
  <2>1. job[w] \in Ids /\ attempt[w] \in Nat
    BY <1>6 DEF ReportCompleted, SendCompleted, ReportFailed, SendFailed, WorkerTypeOK
  <2>2. \A t \in {"COMPLETED", "FAILED"} : /\ ResultRequest(w, t) \in Request
                                           /\ ResultRequest(w, t).id \in Ids
    BY <2>1 DEF ResultRequest, Request
  <2> QED
    BY <1>6, <2>2, <1>2 DEF ReportCompleted, ReportFailed
<1>7. CASE ReceiveJob(w) \/ ReceiveNothing(w) \/ ReceiveAccepted(w) \/ ReceiveError(w)
  BY <1>7, <1>3 DEF ReceiveJob, ReceiveNothing, ReceiveAccepted, ReceiveError
<1>8. CASE CallFails(w) \/ CrashWorker(w)
  BY <1>8, <1>4 DEF CallFails, CrashWorker
<1>9. CASE WorkFiles(w)
  BY <1>9 DEF WorkFiles, apiVars
<1> QED
  BY <1>5, <1>6, <1>7, <1>8, <1>9 DEF WorkerStep

(* Every step keeps the calls and the replicas typed.                      *)
LEMMA ApiTypeStep ==
    ASSUME TypeOK, [Next]_vars
    PROVE  ApiTypeOK'
<1> USE DEF TypeOK
<1>1. UNCHANGED apiVars => ApiTypeOK'
  BY DEF ApiTypeOK, apiVars
<1>2. ASSUME NEW m \in Request \cup {NoRequest}, NEW reply \in Reply, ApiTypeOK,
             reply.type = "job" => reply.id \in Ids, Answer(m, reply)
      PROVE  /\ replies' \in [Workers -> Reply]
             /\ \A w \in Workers : replies'[w].type = "job" => replies'[w].id \in Ids
  BY <1>2 DEF Answer, ApiTypeOK, Request, NoRequest
<1>3. \A t \in {"empty", "ok", "error"} : /\ PlainReply(t) \in Reply
                                          /\ PlainReply(t).type # "job"
  BY DEF PlainReply, Reply
<1>4. requests \in SUBSET Request
  BY DEF ApiTypeOK
<1>5. ASSUME NEW id \in Ids, Grant(id)
      PROVE  ApiTypeOK'
  <2> PICK m \in requests : GrantClaim(m, id)
    BY <1>5 DEF Grant
  <2>1. Bump(claims[id]) \in Nat
    BY MaxClaimsAssumption DEF ApiTypeOK, Bump
  <2> DEFINE reply == [type |-> "job", id |-> id, attempt |-> Bump(claims[id])]
  <2>2. reply \in Reply /\ reply.id \in Ids
    BY <2>1 DEF Reply
  <2>3. Answer(m, reply)
    BY DEF GrantClaim
  <2> HIDE DEF reply
  <2>4. /\ replies' \in [Workers -> Reply]
        /\ \A w \in Workers : replies'[w].type = "job" => replies'[w].id \in Ids
    BY <1>2, <1>4, <2>2, <2>3
  <2>5. claims' \in [Ids -> Nat]
    BY <2>1 DEF GrantClaim, ApiTypeOK
  <2> QED
    BY <2>4, <2>5 DEF GrantClaim, ApiTypeOK
<1>6. ASSUME ServeEmpty \/ ServeFailed \/ ServeBusy
      PROVE  ApiTypeOK'
  <2> PICK m \in requests : NothingToClaim(m) \/ RecordFailed(m) \/ RejectBusy(m)
    BY <1>6 DEF ServeEmpty, ServeFailed, ServeBusy
  <2> QED
    BY <1>2, <1>3, <1>4 DEF NothingToClaim, RecordFailed, RejectBusy, ApiTypeOK
<1>7. ASSUME NEW r \in Replicas, ServeCompleted(r)
      PROVE  ApiTypeOK'
  BY <1>7 DEF ServeCompleted, RecordCompleted, ApiTypeOK
<1>8. ASSUME NEW r \in Replicas, FinishCompleted(r)
      PROVE  ApiTypeOK'
  BY <1>8, <1>2, <1>3 DEF FinishCompleted, StoreRenditions, RenditionsBusy, ApiTypeOK
<1>9. ASSUME NEW r \in Replicas, CrashBackend(r)
      PROVE  ApiTypeOK'
  BY <1>9 DEF CrashBackend, LoseHandler, ApiTypeOK
<1>10. ASSUME NEW id \in Ids, Intake(id) \/ UserRetry(id)
       PROVE  UNCHANGED apiVars
  BY <1>10 DEF Intake, UserRetry, Retry
<1>11. ASSUME NEW r \in Replicas, NEW id \in Ids, UserUpload(r, id)
       PROVE  UNCHANGED apiVars
  BY <1>11 DEF UserUpload
<1>12. ASSUME Sweep \/ ClockTick
       PROVE  UNCHANGED apiVars
  BY <1>12 DEF Sweep, ClockTick
<1>13. CASE UNCHANGED vars
  BY <1>13, <1>1 DEF vars
<1>14. CASE Next
  BY <1>14, <1>1, <1>5, <1>6, <1>7, <1>8, <1>9, <1>10, <1>11, <1>12,
     WorkerStepApiType DEF Next
<1> QED
  BY <1>13, <1>14

-----------------------------------------------------------------------------
(* The variables of the database, the volume, the upload requests, the     *)
(* workers and the calls always have the shape the code gives them; in     *)
(* particular every call and every job in hand names an upload id.         *)
THEOREM TypeCorrect == Spec => []TypeOK
<1>1. Init => TypeOK
  <2>1. Init => StoreTypeOK
    BY DEF Init, StoreInit, StoreTypeOK
  <2>2. Init => StorageTypeOK
    BY DEF Init, StorageInit, StorageTypeOK, NoFiles, FileState
  <2>3. Init => IntakeTypeOK
    BY ProcessAssumption DEF Init, IntakeInit, IntakeTypeOK, InProgress
  <2>4. Init => WorkerTypeOK
    BY LadderAssumption DEF Init, WorkerInit, WorkerTypeOK, Slots, Thumbnail
  <2>5. Init => ApiTypeOK
    BY DEF Init, ApiInit, ApiTypeOK, NoReply, Reply
  <2> QED
    BY <2>1, <2>2, <2>3, <2>4, <2>5 DEF TypeOK
<1>2. TypeOK /\ [Next]_vars => TypeOK'
  <2> SUFFICES ASSUME TypeOK, [Next]_vars
               PROVE  TypeOK'
    OBVIOUS
  <2>1. WorkerTypeOK'
    <3>1. CASE UNCHANGED workerVars
      BY <3>1 DEF TypeOK, WorkerTypeOK, workerVars
    <3>2. CASE \E w \in Workers : WorkerStep(w) \/ CrashWorker(w)
      BY <3>2, WorkerStepType
    <3>3. (\E w \in Workers : WorkerStep(w) \/ CrashWorker(w)) \/ UNCHANGED workerVars
      BY DEF Next, vars, Grant, UserRetry, Intake, ServeCompleted, FinishCompleted,
         CrashBackend, UserUpload, ServeEmpty, ServeFailed, ServeBusy, Sweep, ClockTick
    <3> QED
      BY <3>1, <3>2, <3>3
  <2> QED
    BY <2>1, StoreTypeStep, StorageTypeStep, IntakeTypeStep, ApiTypeStep DEF TypeOK
<1> QED
  BY <1>1, <1>2, PTL DEF Spec

-----------------------------------------------------------------------------
(* A report changes all the columns that go with the status it sets.       *)
LEMMA UpdateConsistent ==
    ASSUME StoreTypeOK, RowsConsistent, NEW id \in Ids,
           NEW st \in {"COMPLETED", "FAILED"}, UpdateUpload(id, ResultPatch(st))
    PROVE  RowsConsistent'
<1>1. /\ status' = [status EXCEPT ![id] = st]
      /\ processingAge' = [processingAge EXCEPT ![id] = Null]
      /\ thumbnailPath' = [thumbnailPath EXCEPT ![id] =
                               IF st = "COMPLETED" THEN TRUE ELSE @]
      /\ error' = [error EXCEPT ![id] = IF st = "FAILED" THEN TRUE ELSE @]
  BY KeepAssumption DEF StoreTypeOK, UpdateUpload, ResultPatch, Patched
<1> QED
  BY <1>1 DEF StoreTypeOK, RowsConsistent

(* No operation that moves a record on forgets a column that goes with it. *)
LEMMA ConsistentStep ==
    ASSUME TypeOK, RowsConsistent, [Next]_vars
    PROVE  RowsConsistent'
<1> USE DEF TypeOK, ApiTypeOK, StoreTypeOK, RowsConsistent
<1>1. CASE UNCHANGED storeVars
  BY <1>1 DEF storeVars
<1>2. ASSUME NEW id \in Ids, Accept(id)
      PROVE  RowsConsistent'
  BY <1>2 DEF Accept, CreateUpload
<1>3. ASSUME NEW id \in Ids, Grant(id)
      PROVE  RowsConsistent'
  BY <1>3, NullAssumption DEF Grant, GrantClaim, ClaimNext
<1>4. ASSUME NEW id \in Ids, UserRetry(id)
      PROVE  RowsConsistent'
  BY <1>4 DEF UserRetry, Retry, RetryProcessing
<1>5. ASSUME NEW r \in Replicas, ServeCompleted(r)
      PROVE  RowsConsistent'
  BY <1>5, UpdateConsistent DEF ServeCompleted, RecordCompleted
<1>6. ASSUME NEW r \in Replicas, StoreRenditions(r)
      PROVE  RowsConsistent'
  BY <1>6 DEF StoreRenditions, SetRenditions
<1>7. CASE ServeFailed
  BY <1>7, UpdateConsistent DEF ServeFailed, RecordFailed
<1>8. CASE Sweep
  BY <1>8 DEF Sweep, ResetStuckProcessing, Stuck
<1>9. CASE ClockTick
  <2>1. ASSUME NEW id \in Ids
        PROVE  processingAge'[id] = Null <=> processingAge[id] = Null
    BY <1>9, NullAssumption DEF ClockTick, Tick
  <2>2. UNCHANGED <<status, thumbnailPath, error>>
    BY <1>9 DEF ClockTick, Tick
  <2> QED
    BY <2>1, <2>2
<1> QED
  BY <1>1, <1>2, <1>3, <1>4, <1>5, <1>6, <1>7, <1>8, <1>9, StoreFrame DEF StoreStep

(* The columns of a record agree with its status in every reachable state, *)
(* whatever fails, however late a report is served, however many workers   *)
(* and replicas there are, and whether or not stuck records are reset.     *)
THEOREM RowsAlwaysConsistent == Spec => []RowsConsistent
<1>1. Init => RowsConsistent
  BY DEF Init, StoreInit, RowsConsistent, NoRow
<1> QED
  BY <1>1, ConsistentStep, TypeCorrect, PTL DEF Spec

-----------------------------------------------------------------------------
(* The request m is the one worker w waits for at its await point.         *)
Awaits(w, m) ==
    \/ pc[w] = "claiming" /\ m.type = "claimNext"
    \/ pc[w] = "reporting" /\ m.type = "COMPLETED"
    \/ pc[w] = "reportingFailure" /\ m.type = "FAILED"

(* Worker w has at most one call outstanding, in one place (sent, being    *)
(* served, or answered), and it is the call its loop awaits.               *)
OneCall(w) ==
    /\ \A m \in SentBy(w) : /\ Awaits(w, m)
                            /\ replies[w] = NoReply
                            /\ \A r \in Replicas : handler[r].caller # w
                            /\ \A n \in SentBy(w) : m = n
    /\ \A r \in Replicas :
           handler[r].caller = w =>
               /\ pc[w] = "reporting"
               /\ replies[w] = NoReply
               /\ \A q \in Replicas : handler[q].caller = w => q = r
    /\ replies[w] # NoReply => pc[w] \in Calling
    /\ replies[w].type \in {"job", "empty"} => pc[w] = "claiming"

(* What every proof about the messages rests on.                           *)
CallDiscipline == \A w \in Workers : OneCall(w)

(* Worker w has no call outstanding.                                       *)
Uncalled(w) ==
    /\ SentBy(w) = {}
    /\ replies[w] = NoReply
    /\ \A r \in Replicas : handler[r].caller # w

(* A worker that has nothing outstanding obeys the discipline; one that is *)
(* at no call, or has its answer, has nothing else outstanding.            *)
LEMMA NothingOutstanding ==
    ASSUME NEW w \in Workers
    PROVE  /\ Uncalled(w) => OneCall(w)
           /\ OneCall(w) /\ pc[w] \notin Calling => Uncalled(w)
           /\ OneCall(w) /\ replies[w] # NoReply =>
                  SentBy(w) = {} /\ \A r \in Replicas : handler[r].caller # w
<1>1. NoReply.type \notin {"job", "empty"}
  BY DEF NoReply
<1>2. Uncalled(w) => OneCall(w)
  BY <1>1 DEF Uncalled, OneCall
<1>3. OneCall(w) /\ pc[w] \notin Calling => Uncalled(w)
  BY DEF Uncalled, OneCall, Calling, Awaits
<1>4. OneCall(w) /\ replies[w] # NoReply =>
          SentBy(w) = {} /\ \A r \in Replicas : handler[r].caller # w
  BY DEF OneCall
<1> QED
  BY <1>2, <1>3, <1>4

(* Hanging up takes away the calls of one worker and no other.             *)
LEMMA HangUpCallers ==
    ASSUME ApiTypeOK, NEW w \in Workers, HangUp(w)
    PROVE  /\ SentBy(w)' = {}
           /\ \A v \in Workers \ {w} : SentBy(v)' = SentBy(v)
<1>1. \A m \in requests : Orphaned(m).caller = Null
  BY DEF ApiTypeOK, Request, Orphaned
<1>2. CASE requests' = requests \ SentBy(w)
  BY <1>2 DEF SentBy
<1>3. CASE requests' = (requests \ SentBy(w)) \cup {Orphaned(m) : m \in SentBy(w)}
  BY <1>1, <1>3, ProcessAssumption DEF SentBy
<1> QED
  BY <1>2, <1>3 DEF HangUp

(* What a worker does with its calls keeps its own discipline, ...         *)
LEMMA OwnStepOneCall ==
    ASSUME TypeOK, NEW w \in Workers, OneCall(w), WorkerStep(w) \/ CrashWorker(w)
    PROVE  OneCall(w)'
<1> USE DEF TypeOK, ApiTypeOK, WorkerTypeOK
<1>1. Uncalled(w)' => OneCall(w)'
  BY DEF Uncalled, OneCall, SentBy, NoReply
<1>2. ASSUME TakeReply(w), replies[w] # NoReply
      PROVE  OneCall(w)'
  <2>1. SentBy(w) = {} /\ \A r \in Replicas : handler[r].caller # w
    BY <1>2, NothingOutstanding
  <2> QED
    BY <1>1, <1>2, <2>1 DEF TakeReply, Uncalled, SentBy
<1>3. CASE ReceiveJob(w) \/ ReceiveNothing(w) \/ ReceiveAccepted(w) \/ ReceiveError(w)
  BY <1>2, <1>3 DEF ReceiveJob, ReceiveNothing, ReceiveAccepted, ReceiveError, NoReply
<1>4. CASE CallFails(w) \/ CrashWorker(w)
  <2>1. HangUp(w)
    BY <1>4 DEF CallFails, CrashWorker
  <2>2. SentBy(w)' = {}
    BY <2>1, HangUpCallers
  <2>3. \A r \in Replicas : handler'[r].caller # w
    BY <2>1, ProcessAssumption DEF HangUp, Orphaned, Request, NoRequest
  <2>4. replies'[w] = NoReply
    BY <2>1 DEF HangUp
  <2> QED
    BY <1>1, <2>2, <2>3, <2>4 DEF Uncalled
<1>5. CASE WorkFiles(w)
  <2>1. pc[w] \notin Calling
    BY <1>5 DEF WorkFiles, FileStep, CleanStaging, Probe, StartOutput, FinishOutput,
       ClearFinal, MoveOutput, DiscardStaging, StepThrows, CatchCleanup, Calling, FileWork
  <2>2. Uncalled(w)
    BY <2>1, NothingOutstanding
  <2> QED
    BY <1>1, <1>5, <2>2 DEF WorkFiles, apiVars, Uncalled, SentBy
<1>6. ASSUME NEW m \in Request, m.caller = w, Send(m), Awaits(w, m)', pc[w] \notin Calling
      PROVE  OneCall(w)'
  <2>1. Uncalled(w)
    BY <1>6, NothingOutstanding
  <2>2. SentBy(w)' = {m}
    BY <1>6, <2>1 DEF Uncalled, SentBy, Send
  <2>3. replies'[w] = NoReply /\ \A r \in Replicas : handler'[r].caller # w
    BY <1>6, <2>1 DEF Uncalled, Send
  <2> QED
    BY <1>6, <2>2, <2>3 DEF OneCall, NoReply
<1>7. CASE CallClaimNext(w)
  <2>1. ClaimRequest(w) \in Request /\ ClaimRequest(w).caller = w
        /\ ClaimRequest(w).type = "claimNext"
    BY DEF ClaimRequest, Request
  <2> QED
    BY <1>6, <1>7, <2>1 DEF CallClaimNext, Poll, Goto, Awaits, Calling
<1>8. CASE ReportCompleted(w) \/ ReportFailed(w)
  <2>1. job[w] \in Ids /\ attempt[w] \in Nat
    BY <1>8 DEF ReportCompleted, SendCompleted, ReportFailed, SendFailed
  <2>2. \A t \in {"COMPLETED", "FAILED"} :
            /\ ResultRequest(w, t) \in Request
            /\ ResultRequest(w, t).caller = w
            /\ ResultRequest(w, t).type = t
    BY <2>1 DEF ResultRequest, Request
  <2> QED
    BY <1>6, <1>8, <2>2
       DEF ReportCompleted, SendCompleted, ReportFailed, SendFailed, Goto, Awaits, Calling
<1> QED
  BY <1>3, <1>4, <1>5, <1>7, <1>8 DEF WorkerStep

(* ... and that of every other worker.                                     *)
LEMMA OtherStepOneCall ==
    ASSUME TypeOK, NEW w \in Workers, NEW v \in Workers, v # w, OneCall(v),
           WorkerStep(w) \/ CrashWorker(w)
    PROVE  OneCall(v)'
<1> USE DEF TypeOK, ApiTypeOK, WorkerTypeOK
<1>1. pc'[v] = pc[v]
  BY DEF WorkerStep, CallClaimNext, Poll, ReceiveJob, StartJob, ReceiveNothing, EndJob,
     WorkFiles, FileStep, CleanStaging, Probe, StartOutput, FinishOutput, ClearFinal,
     MoveOutput, DiscardStaging, StepThrows, CatchCleanup, ReportCompleted,
     SendCompleted, ReportFailed, SendFailed, ReceiveAccepted, ReportAccepted,
     ReceiveError, CallFails, CallThrows, CrashWorker, Restart, Goto
<1>2. ASSUME NEW m, m.caller = w, Send(m)
      PROVE  OneCall(v)'
  BY <1>1, <1>2 DEF Send, OneCall, SentBy, Awaits
<1>3. ASSUME TakeReply(w)
      PROVE  OneCall(v)'
  BY <1>1, <1>3 DEF TakeReply, OneCall, SentBy, Awaits
<1>4. ASSUME HangUp(w)
      PROVE  OneCall(v)'
  <2>1. SentBy(v)' = SentBy(v)
    BY <1>4, HangUpCallers
  <2>2. \A r \in Replicas : handler'[r].caller = v <=> handler[r].caller = v
    BY <1>4, ProcessAssumption DEF HangUp, Orphaned, Request, NoRequest
  <2>3. replies'[v] = replies[v]
    BY <1>4 DEF HangUp
  <2> QED
    BY <1>1, <2>1, <2>2, <2>3 DEF OneCall, Awaits
<1>5. CASE WorkFiles(w)
  BY <1>1, <1>5 DEF WorkFiles, apiVars, OneCall, SentBy, Awaits
<1>6. CASE CallClaimNext(w)
  BY <1>2, <1>6 DEF CallClaimNext, ClaimRequest
<1>7. CASE ReportCompleted(w) \/ ReportFailed(w)
  BY <1>2, <1>7 DEF ReportCompleted, ReportFailed, ResultRequest
<1>8. CASE ReceiveJob(w) \/ ReceiveNothing(w) \/ ReceiveAccepted(w) \/ ReceiveError(w)
  BY <1>3, <1>8 DEF ReceiveJob, ReceiveNothing, ReceiveAccepted, ReceiveError
<1>9. CASE CallFails(w) \/ CrashWorker(w)
  BY <1>4, <1>9 DEF CallFails, CrashWorker
<1> QED
  BY <1>5, <1>6, <1>7, <1>8, <1>9 DEF WorkerStep

(* Serving a call answers it or hands it to a replica, and touches no      *)
(* other call.                                                             *)
LEMMA ServeOneCall ==
    ASSUME TypeOK, NEW v \in Workers, OneCall(v), NEW m \in requests,
           requests' = requests \ {m}, UNCHANGED workerVars,
           \/ /\ UNCHANGED handler
              /\ \E t \in {"job", "empty", "ok", "error"}, id \in Ids \cup {Null}, n \in Nat :
                     /\ t \in {"job", "empty"} => m.type = "claimNext"
                     /\ Answer(m, [type |-> t, id |-> id, attempt |-> n])
           \/ /\ UNCHANGED replies
              /\ m.type = "COMPLETED"
              /\ \E r \in Replicas : /\ handler[r] = NoRequest
                                     /\ handler' = [handler EXCEPT ![r] = m]
    PROVE  OneCall(v)'
<1> USE DEF TypeOK, ApiTypeOK
<1>1. UNCHANGED pc
  BY DEF workerVars
<1>2. CASE m.caller # v
  <2>1. SentBy(v)' = SentBy(v)
    BY <1>2 DEF SentBy
  <2>2. replies'[v] = replies[v]
    BY <1>2 DEF Answer
  <2>3. \A r \in Replicas : handler'[r].caller = v <=> handler[r].caller = v
    BY <1>2, ProcessAssumption DEF NoRequest
  <2> QED
    BY <1>1, <2>1, <2>2, <2>3 DEF OneCall, Awaits
<1>3. CASE m.caller = v
  <2>1. /\ SentBy(v)' = {}
        /\ \A r \in Replicas : handler[r].caller # v
        /\ Awaits(v, m)
        /\ replies[v] = NoReply
    BY <1>3 DEF OneCall, SentBy
  <2>2. ASSUME UNCHANGED handler,
               NEW t \in {"job", "empty", "ok", "error"}, NEW id, NEW n,
               t \in {"job", "empty"} => m.type = "claimNext",
               Answer(m, [type |-> t, id |-> id, attempt |-> n])
        PROVE  OneCall(v)'
    <3>1. replies'[v].type = t
      BY <1>3, <2>2, ProcessAssumption DEF Answer
    <3> QED
      BY <1>1, <2>1, <2>2, <3>1 DEF OneCall, Awaits, Calling
  <2>3. ASSUME UNCHANGED replies, m.type = "COMPLETED",
               NEW r \in Replicas, handler' = [handler EXCEPT ![r] = m]
        PROVE  OneCall(v)'
    <3>1. pc[v] = "reporting"
      BY <2>1, <2>3 DEF Awaits
    <3>2. \A q \in Replicas : handler'[q].caller = v => q = r
      BY <2>1, <2>3
    <3> QED
      BY <1>1, <2>1, <2>3, <3>1, <3>2 DEF OneCall, NoReply
  <2> QED
    BY <2>2, <2>3
<1> QED
  BY <1>2, <1>3

(* The end of an updateProcessingResult answers its caller, if it is there. *)
LEMMA FinishOneCall ==
    ASSUME TypeOK, NEW v \in Workers, OneCall(v), NEW r \in Replicas, ~Free(r),
           UNCHANGED requests, UNCHANGED workerVars,
           handler' = [handler EXCEPT ![r] = NoRequest],
           NEW t \in {"ok", "error"}, Answer(handler[r], PlainReply(t))
    PROVE  OneCall(v)'
<1> USE DEF TypeOK, ApiTypeOK
<1>1. UNCHANGED pc /\ SentBy(v)' = SentBy(v)
  BY DEF workerVars, SentBy
<1>2. NoRequest.caller # v
  BY ProcessAssumption DEF NoRequest
<1>3. CASE handler[r].caller # v
  <2>1. replies'[v] = replies[v]
    BY <1>3 DEF Answer
  <2>2. \A q \in Replicas : handler'[q].caller = v <=> handler[q].caller = v
    BY <1>2, <1>3
  <2> QED
    BY <1>1, <2>1, <2>2 DEF OneCall, Awaits
<1>4. CASE handler[r].caller = v
  <2>1. pc[v] = "reporting" /\ SentBy(v) = {}
    BY <1>4 DEF OneCall
  <2>2. \A q \in Replicas : handler'[q].caller # v
    BY <1>2, <1>4 DEF OneCall
  <2>3. replies'[v].type = t
    BY <1>4, ProcessAssumption DEF Answer, PlainReply
  <2> QED
    BY <1>1, <2>1, <2>2, <2>3 DEF OneCall, Calling
<1> QED
  BY <1>3, <1>4

(* No step of the platform breaks the discipline of the calls.             *)
LEMMA CallDisciplineStep ==
    ASSUME TypeOK, CallDiscipline, [Next]_vars
    PROVE  CallDiscipline'
<1> SUFFICES ASSUME NEW v \in Workers
             PROVE  OneCall(v)'
  BY DEF CallDiscipline
<1>1. OneCall(v)
  BY DEF CallDiscipline
<1>2. ASSUME UNCHANGED <<workerVars, apiVars>>
      PROVE  OneCall(v)'
  BY <1>1, <1>2 DEF workerVars, apiVars, OneCall, SentBy, Awaits
<1>3. ASSUME NEW w \in Workers, WorkerStep(w) \/ CrashWorker(w)
      PROVE  OneCall(v)'
  BY <1>1, <1>3, OwnStepOneCall, OtherStepOneCall
<1>4. ASSUME NEW id \in Ids, Grant(id)
      PROVE  OneCall(v)'
  <2> PICK m \in requests : GrantClaim(m, id)
    BY <1>4 DEF Grant
  <2>1. Bump(claims[id]) \in Nat
    BY MaxClaimsAssumption DEF TypeOK, ApiTypeOK, Bump
  <2>2. /\ m.type = "claimNext"
        /\ Answer(m, [type |-> "job", id |-> id, attempt |-> Bump(claims[id])])
        /\ requests' = requests \ {m}
        /\ UNCHANGED handler
    BY DEF GrantClaim
  <2>3. UNCHANGED workerVars
    BY <1>4 DEF Grant
  <2> QED
    BY <1>1, <2>1, <2>2, <2>3, ServeOneCall
<1>5. ASSUME ServeEmpty \/ ServeFailed \/ ServeBusy
      PROVE  OneCall(v)'
  <2> PICK m \in requests : NothingToClaim(m) \/ RecordFailed(m) \/ RejectBusy(m)
    BY <1>5 DEF ServeEmpty, ServeFailed, ServeBusy
  <2>1. UNCHANGED workerVars
    BY <1>5 DEF ServeEmpty, ServeFailed, ServeBusy
  <2>2. /\ requests' = requests \ {m}
        /\ UNCHANGED handler
        /\ \E t \in {"empty", "ok", "error"} :
              /\ t = "empty" => m.type = "claimNext"
              /\ Answer(m, [type |-> t, id |-> Null, attempt |-> 0])
    BY DEF NothingToClaim, RecordFailed, RejectBusy, PlainReply
  <2> QED
    BY <1>1, <2>1, <2>2, ServeOneCall
<1>6. ASSUME NEW r \in Replicas, ServeCompleted(r)
      PROVE  OneCall(v)'
  <2> PICK m \in requests : RecordCompleted(r, m)
    BY <1>6 DEF ServeCompleted
  <2>1. UNCHANGED workerVars /\ handler[r] = NoRequest
    BY <1>6 DEF ServeCompleted, Free
  <2>2. /\ requests' = requests \ {m}
        /\ UNCHANGED replies
        /\ m.type = "COMPLETED"
        /\ handler' = [handler EXCEPT ![r] = m]
    BY DEF RecordCompleted
  <2> QED
    BY <1>1, <2>1, <2>2, ServeOneCall
<1>7. ASSUME NEW r \in Replicas, FinishCompleted(r)
      PROVE  OneCall(v)'
  <2>1. /\ ~Free(r)
        /\ UNCHANGED requests
        /\ UNCHANGED workerVars
        /\ handler' = [handler EXCEPT ![r] = NoRequest]
        /\ \E t \in {"ok", "error"} : Answer(handler[r], PlainReply(t))
    BY <1>7 DEF FinishCompleted, StoreRenditions, RenditionsBusy
  <2> QED
    BY <1>1, <2>1, FinishOneCall
<1>8. ASSUME NEW r \in Replicas, CrashBackend(r)
      PROVE  OneCall(v)'
  <2>1. UNCHANGED <<requests, replies>> /\ UNCHANGED workerVars
    BY <1>8 DEF CrashBackend, LoseHandler
  <2>2. \A q \in Replicas : handler'[q].caller = v => handler[q].caller = v
    BY <1>8, ProcessAssumption
       DEF CrashBackend, LoseHandler, NoRequest, TypeOK, ApiTypeOK
  <2> QED
    BY <1>1, <2>1, <2>2 DEF OneCall, SentBy, Awaits, workerVars
<1>9. ASSUME NEW id \in Ids, Intake(id) \/ UserRetry(id)
      PROVE  UNCHANGED <<workerVars, apiVars>>
  BY <1>9 DEF Intake, UserRetry, Retry
<1>10. ASSUME NEW r \in Replicas, NEW id \in Ids, UserUpload(r, id)
       PROVE  UNCHANGED <<workerVars, apiVars>>
  BY <1>10 DEF UserUpload
<1>11. ASSUME Sweep \/ ClockTick
       PROVE  UNCHANGED <<workerVars, apiVars>>
  BY <1>11 DEF Sweep, ClockTick
<1>12. CASE UNCHANGED vars
  BY <1>12, <1>2 DEF vars
<1>13. CASE Next
  BY <1>13, <1>2, <1>3, <1>4, <1>5, <1>6, <1>7, <1>8, <1>9, <1>10, <1>11 DEF Next
<1> QED
  BY <1>12, <1>13

(* It holds throughout: requests and answers of a worker live no longer    *)
(* than the await they belong to.                                          *)
LEMMA CallsDisciplined == Spec => []CallDiscipline
<1>1. Init => CallDiscipline
  BY ProcessAssumption
     DEF Init, ApiInit, CallDiscipline, OneCall, SentBy, NoRequest, NoReply
<1>2. TypeOK /\ CallDiscipline /\ [Next]_vars => CallDiscipline'
  BY CallDisciplineStep
<1> QED
  BY <1>1, <1>2, TypeCorrect, PTL DEF Spec

-----------------------------------------------------------------------------
(* A step that creates no owner and no FAILED report, and does not make a  *)
(* busy row quiet, keeps the upload at a single attempt.                   *)
LEMMA FewerTokens ==
    ASSUME NEW u \in Ids, SingleAttempt(u),
           \A v \in Workers : Owns(v, u)' => Owns(v, u),
           FailureReports(u)' \subseteq FailureReports(u),
           status'[u] \in Quiet => status[u] \in Quiet
    PROVE  SingleAttempt(u)'
  BY DEF SingleAttempt, Running

(* A worker comes to own an upload by a granted claim only.                *)
LEMMA WorkerOwns ==
    ASSUME TypeOK, NEW w \in Workers, WorkerStep(w) \/ CrashWorker(w),
           NEW v \in Workers, NEW u \in Ids, Owns(v, u)'
    PROVE  Owns(v, u)
<1> USE DEF TypeOK, ApiTypeOK, WorkerTypeOK, Owns, FileWork, Reporting, Failing
<1>1. NoReply.type # "job"
  BY DEF NoReply
<1>2. CASE CallClaimNext(w)
  BY <1>2 DEF CallClaimNext, Poll, Goto, Send
<1>3. CASE ReceiveJob(w)
  BY <1>1, <1>3 DEF ReceiveJob, StartJob, TakeReply
<1>4. CASE ReceiveNothing(w) \/ ReceiveAccepted(w)
  BY <1>1, <1>4 DEF ReceiveNothing, ReceiveAccepted, ReportAccepted, EndJob, TakeReply
<1>5. CASE WorkFiles(w)
  BY <1>5 DEF WorkFiles, FileStep, CleanStaging, Probe, StartOutput, FinishOutput,
     ClearFinal, MoveOutput, DiscardStaging, StepThrows, CatchCleanup, Goto, apiVars
<1>6. CASE ReportCompleted(w) \/ ReportFailed(w)
  BY <1>6 DEF ReportCompleted, SendCompleted, ReportFailed, SendFailed, Goto, Send
<1>7. CASE ReceiveError(w)
  BY <1>1, <1>7 DEF ReceiveError, CallThrows, Goto, EndJob, TakeReply
<1>8. CASE CallFails(w) \/ CrashWorker(w)
  BY <1>1, <1>8 DEF CallFails, CallThrows, CrashWorker, Restart, Goto, EndJob, HangUp
<1> QED
  BY <1>2, <1>3, <1>4, <1>5, <1>6, <1>7, <1>8 DEF WorkerStep

(* Hanging up may change the caller of a FAILED report, not their number.  *)
LEMMA HangUpFailures ==
    ASSUME TypeOK, NEW w \in Workers, HangUp(w), NEW u \in Ids,
           NEW x \in FailureReports(u)'
    PROVE  \E y \in FailureReports(u) :
               x = IF y.caller = w THEN Orphaned(y) ELSE y
<1>1. \A m \in requests : Orphaned(m).type = m.type /\ Orphaned(m).id = m.id
  BY DEF TypeOK, ApiTypeOK, Request, Orphaned
<1>2. CASE x \in requests \ SentBy(w)
  BY <1>2 DEF FailureReports, SentBy
<1>3. CASE \E y \in SentBy(w) : x = Orphaned(y)
  BY <1>1, <1>3 DEF FailureReports, SentBy
<1>4. x \in requests'
  BY DEF FailureReports
<1> QED
  BY <1>2, <1>3, <1>4 DEF HangUp

(* Nothing a worker does starts a second attempt.                          *)
LEMMA WorkerSingleAttempt ==
    ASSUME TypeOK, CallDiscipline, NEW w \in Workers, WorkerStep(w) \/ CrashWorker(w),
           NEW u \in Ids, SingleAttempt(u)
    PROVE  SingleAttempt(u)'
<1>1. \A v \in Workers : Owns(v, u)' => Owns(v, u)
  BY WorkerOwns
<1>2. UNCHANGED status
  BY DEF storeVars, WorkerStep, CallClaimNext, ReceiveJob, ReceiveNothing, WorkFiles,
     ReportCompleted, ReportFailed, ReceiveAccepted, ReceiveError, CallFails, CrashWorker
<1>3. CASE CallFails(w) \/ CrashWorker(w)
  <2>1. HangUp(w)
    BY <1>3 DEF CallFails, CrashWorker
  <2>2. \A x \in FailureReports(u)' : \E y \in FailureReports(u) :
            x = IF y.caller = w THEN Orphaned(y) ELSE y
    BY <2>1, HangUpFailures
  <2>3. \A x, z \in FailureReports(u)' : x = z
    BY <2>2 DEF SingleAttempt
  <2>4. FailureReports(u)' # {} => FailureReports(u) # {}
    BY <2>2
  <2> QED
    BY <1>1, <1>2, <2>3, <2>4 DEF SingleAttempt, Running
<1>4. CASE ReportFailed(w)
  <2> DEFINE m == ResultRequest(w, "FAILED")
  <2>1. /\ requests' = requests \cup {m}
        /\ pc[w] = "reportFailure" /\ pc'[w] = "reportingFailure"
        /\ replies' = replies
    BY <1>4 DEF ReportFailed, SendFailed, Goto, Send, TypeOK, WorkerTypeOK
  <2>2. m.id = job[w]
    BY DEF ResultRequest
  <2>3. CASE u # job[w]
    <3>1. FailureReports(u)' = FailureReports(u)
      BY <2>1, <2>2, <2>3 DEF FailureReports
    <3> QED
      BY <1>1, <1>2, <3>1, FewerTokens
  <2>4. CASE u = job[w]
    <3>1. Owns(w, u)
      BY <2>1, <2>4 DEF Owns, Failing
    <3>2. FailureReports(u) = {}
      BY <3>1 DEF SingleAttempt
    <3>3. FailureReports(u)' \subseteq {m}
      BY <2>1, <3>2 DEF FailureReports
    <3>4. replies[w].type # "job"
      BY <2>1 DEF CallDiscipline, OneCall
    <3>5. ~Owns(w, u)'
      BY <2>1, <3>4 DEF Owns, FileWork, Reporting, Failing
    <3>6. \A v \in Workers : ~Owns(v, u)'
      BY <1>1, <3>1, <3>5 DEF SingleAttempt
    <3>7. status'[u] \notin Quiet
      BY <1>2, <3>1 DEF SingleAttempt, Running
    <3> QED
      BY <3>3, <3>6, <3>7 DEF SingleAttempt
  <2> QED
    BY <2>3, <2>4
<1>5. ASSUME WorkerStep(w), ~ReportFailed(w), ~CallFails(w)
      PROVE  SingleAttempt(u)'
  <2>1. FailureReports(u)' \subseteq FailureReports(u)
    BY <1>5 DEF WorkerStep, CallClaimNext, ReceiveJob, ReceiveNothing, WorkFiles,
       ReportCompleted, ReceiveAccepted, ReceiveError, Send, TakeReply, apiVars,
       ClaimRequest, ResultRequest, FailureReports
  <2> QED
    BY <1>1, <1>2, <2>1, FewerTokens
<1> QED
  BY <1>3, <1>4, <1>5

(* An answer other than a granted claim makes nobody an owner.             *)
LEMMA PlainAnswerOwns ==
    ASSUME TypeOK, NEW m \in Request \cup {NoRequest},
           NEW t \in {"empty", "ok", "error"}, Answer(m, PlainReply(t)),
           UNCHANGED workerVars, NEW v \in Workers, NEW u \in Ids, Owns(v, u)'
    PROVE  Owns(v, u)
<1>1. replies'[v] = replies[v] \/ replies'[v].type = t
  BY DEF TypeOK, ApiTypeOK, Answer, PlainReply, Request, NoRequest
<1> QED
  BY <1>1 DEF Owns, workerVars

(* A granted claim is the only attempt: the row was PENDING, hence quiet.  *)
LEMMA GrantSingleAttempt ==
    ASSUME TypeOK, NEW id \in Ids, Grant(id), NEW u \in Ids, SingleAttempt(u),
           SingleAttempt(id)
    PROVE  SingleAttempt(u)'
<1> USE DEF TypeOK, ApiTypeOK
<1> PICK m \in requests : GrantClaim(m, id)
  BY DEF Grant
<1>1. UNCHANGED <<pc, job>>
  BY DEF Grant, workerVars
<1>2. /\ status[id] = "PENDING"
      /\ status' = [status EXCEPT ![id] = "PROCESSING"]
  BY DEF GrantClaim, ClaimNext, OldestPending
<1>3. FailureReports(u)' = FailureReports(u)
  BY DEF GrantClaim, FailureReports
<1>4. \A v \in Workers :
          \/ replies'[v] = replies[v]
          \/ v = m.caller /\ replies'[v].type = "job" /\ replies'[v].id = id
  BY DEF GrantClaim, Answer, Request
<1>5. CASE u # id
  <2>1. \A v \in Workers : Owns(v, u)' => Owns(v, u)
    BY <1>1, <1>4, <1>5 DEF Owns
  <2> QED
    BY <1>2, <1>3, <1>5, <2>1, FewerTokens DEF StoreTypeOK
<1>6. CASE u = id
  <2>1. ~Running(u)
    BY <1>2, <1>6 DEF SingleAttempt, Quiet
  <2>2. \A v \in Workers : Owns(v, u)' => v = m.caller
    BY <1>1, <1>4, <2>1 DEF Owns, Running
  <2>3. FailureReports(u)' = {}
    BY <1>3, <2>1 DEF Running
  <2>4. status'[u] \notin Quiet
    BY <1>2, <1>6 DEF Quiet, NoRow, StoreTypeOK
  <2> QED
    BY <2>2, <2>3, <2>4 DEF SingleAttempt
<1> QED
  BY <1>5, <1>6

(* Recording a failure consumes the one FAILED report there is.            *)
LEMMA ServeFailedSingleAttempt ==
    ASSUME TypeOK, ServeFailed, NEW u \in Ids, SingleAttempt(u)
    PROVE  SingleAttempt(u)'
<1> USE DEF TypeOK, ApiTypeOK
<1> PICK m \in requests : RecordFailed(m)
  BY DEF ServeFailed
<1>1. m.type = "FAILED" /\ m.id \in Ids /\ m \in Request
  BY DEF RecordFailed
<1>2. status' = [status EXCEPT ![m.id] = "FAILED"]
  BY <1>1, UpdateType DEF RecordFailed
<1>3. \A v \in Workers : Owns(v, u)' => Owns(v, u)
  BY <1>1, PlainAnswerOwns DEF RecordFailed, ServeFailed
<1>4. FailureReports(u)' = FailureReports(u) \ {m}
  BY DEF RecordFailed, FailureReports
<1>5. CASE m.id # u
  BY <1>1, <1>2, <1>3, <1>4, <1>5, FewerTokens DEF StoreTypeOK
<1>6. CASE m.id = u
  <2>1. m \in FailureReports(u)
    BY <1>1, <1>6 DEF FailureReports
  <2>2. FailureReports(u)' = {} /\ \A v \in Workers : ~Owns(v, u)'
    BY <1>3, <1>4, <2>1 DEF SingleAttempt
  <2> QED
    BY <2>2 DEF SingleAttempt, Running
<1> QED
  BY <1>5, <1>6

(* No step starts a second attempt while nothing resets stuck records.     *)
LEMMA OneAttemptStep ==
    ASSUME RecoverySweep = FALSE, TypeOK, CallDiscipline, OneAttempt, [Next]_vars
    PROVE  OneAttempt'
<1> SUFFICES ASSUME NEW u \in Ids
             PROVE  SingleAttempt(u)'
  BY DEF OneAttempt
<1>1. \A id \in Ids : SingleAttempt(id)
  BY DEF OneAttempt
<1>2. ASSUME UNCHANGED <<workerVars, apiVars>>,
             status'[u] \in Quiet => status[u] \in Quiet
      PROVE  SingleAttempt(u)'
  <2>1. \A v \in Workers : Owns(v, u)' => Owns(v, u)
    BY <1>2 DEF Owns, workerVars, apiVars
  <2>2. FailureReports(u)' = FailureReports(u)
    BY <1>2 DEF FailureReports, apiVars
  <2> QED
    BY <1>1, <1>2, <2>1, <2>2, FewerTokens
<1>3. ASSUME NEW w \in Workers, WorkerStep(w) \/ CrashWorker(w)
      PROVE  SingleAttempt(u)'
  BY <1>1, <1>3, WorkerSingleAttempt
<1>4. ASSUME NEW id \in Ids, Grant(id)
      PROVE  SingleAttempt(u)'
  BY <1>1, <1>4, GrantSingleAttempt
<1>5. ASSUME NEW id \in Ids, UserRetry(id)
      PROVE  SingleAttempt(u)'
  BY <1>2, <1>5
     DEF UserRetry, Retry, RetryProcessing, Quiet, TypeOK, StoreTypeOK
<1>6. ASSUME NEW id \in Ids, Intake(id)
      PROVE  SingleAttempt(u)'
  BY <1>2, <1>6
     DEF Intake, IntakeStep, StreamEnds, StreamBreaks, Reject, Accept, AcceptFails,
         CreateUpload, Exists, storeVars, Quiet, TypeOK, StoreTypeOK
<1>7. ASSUME NEW r \in Replicas, NEW id \in Ids, UserUpload(r, id)
      PROVE  SingleAttempt(u)'
  BY <1>2, <1>7 DEF UserUpload, BeginUpload, storeVars
<1>8. ASSUME NEW r \in Replicas, ServeCompleted(r)
      PROVE  SingleAttempt(u)'
  <2> PICK m \in requests : RecordCompleted(r, m)
    BY <1>8 DEF ServeCompleted
  <2>1. m.type = "COMPLETED" /\ m.id \in Ids
    BY DEF RecordCompleted, TypeOK, ApiTypeOK
  <2>2. status' = [status EXCEPT ![m.id] = "COMPLETED"]
    BY <2>1, UpdateType DEF RecordCompleted, TypeOK
  <2>3. \A v \in Workers : Owns(v, u)' => Owns(v, u)
    BY <1>8 DEF ServeCompleted, RecordCompleted, Owns, workerVars
  <2>4. FailureReports(u)' = FailureReports(u)
    BY <2>1 DEF RecordCompleted, FailureReports
  <2> QED
    BY <1>1, <2>1, <2>2, <2>3, <2>4, FewerTokens DEF Quiet, NoRow, TypeOK, StoreTypeOK
<1>9. ASSUME NEW r \in Replicas, FinishCompleted(r)
      PROVE  SingleAttempt(u)'
  <2>1. handler[r] \in Request \cup {NoRequest} /\ UNCHANGED workerVars
    BY <1>9 DEF FinishCompleted, TypeOK, ApiTypeOK
  <2>2. \E t \in {"ok", "error"} : Answer(handler[r], PlainReply(t))
    BY <1>9 DEF FinishCompleted, StoreRenditions, RenditionsBusy
  <2>3. \A v \in Workers : Owns(v, u)' => Owns(v, u)
    BY <2>1, <2>2, PlainAnswerOwns
  <2>4. FailureReports(u)' = FailureReports(u) /\ UNCHANGED status
    BY <1>9 DEF FinishCompleted, StoreRenditions, SetRenditions, RenditionsBusy,
       FailureReports, storeVars
  <2> QED
    BY <1>1, <2>3, <2>4, FewerTokens
<1>10. ASSUME NEW r \in Replicas, CrashBackend(r)
       PROVE  SingleAttempt(u)'
  <2>1. \A v \in Workers : Owns(v, u)' => Owns(v, u)
    BY <1>10 DEF CrashBackend, LoseHandler, Owns, workerVars
  <2>2. FailureReports(u)' = FailureReports(u) /\ UNCHANGED status
    BY <1>10 DEF CrashBackend, LoseHandler, FailureReports, storeVars
  <2> QED
    BY <1>1, <2>1, <2>2, FewerTokens
<1>11. ASSUME ServeEmpty \/ ServeBusy
       PROVE  SingleAttempt(u)'
  <2> PICK m \in requests : NothingToClaim(m) \/ RejectBusy(m)
    BY <1>11 DEF ServeEmpty, ServeBusy
  <2>1. m \in Request /\ UNCHANGED workerVars
    BY <1>11 DEF ServeEmpty, ServeBusy, TypeOK, ApiTypeOK
  <2>2. \E t \in {"empty", "error"} : Answer(m, PlainReply(t))
    BY DEF NothingToClaim, RejectBusy
  <2>3. \A v \in Workers : Owns(v, u)' => Owns(v, u)
    BY <2>1, <2>2, PlainAnswerOwns
  <2>4. FailureReports(u)' \subseteq FailureReports(u) /\ UNCHANGED status
    BY DEF NothingToClaim, RejectBusy, FailureReports, storeVars
  <2> QED
    BY <1>1, <2>3, <2>4, FewerTokens
<1>12. CASE UNCHANGED vars
  BY <1>12, <1>2 DEF vars, storeVars
<1>13. CASE Next
  BY <1>13, <1>1, <1>3, <1>4, <1>5, <1>6, <1>7, <1>8, <1>9, <1>10, <1>11,
     ServeFailedSingleAttempt DEF Next, Sweep, ClockTick
<1> QED
  BY <1>12, <1>13

(* As long as nothing calls resetStuckProcessing, an upload is in at most  *)
(* one attempt, whatever is lost, late, retried or restarted, ...          *)
THEOREM SingleAttempts == RecoverySweep = FALSE => (Spec => []OneAttempt)
<1> SUFFICES ASSUME RecoverySweep = FALSE
             PROVE  Spec => []OneAttempt
  OBVIOUS
<1>1. Init => OneAttempt
  <2> SUFFICES ASSUME Init, NEW u \in Ids
               PROVE  SingleAttempt(u)
    BY DEF OneAttempt
  <2>1. \A w \in Workers : ~Owns(w, u)
    BY DEF Init, ApiInit, WorkerInit, Owns, NoReply, PlainReply, FileWork,
       Reporting, Failing
  <2>2. FailureReports(u) = {}
    BY DEF Init, ApiInit, FailureReports
  <2> QED
    BY <2>1, <2>2 DEF SingleAttempt, Running
<1>2. TypeOK /\ CallDiscipline /\ OneAttempt /\ [Next]_vars => OneAttempt'
  BY OneAttemptStep
<1> QED
  BY <1>1, <1>2, TypeCorrect, CallsDisciplined, PTL DEF Spec

(* ... so no two workers ever have the same upload in hand (Property 12 of *)
(* the design document), for any number of workers, replicas and uploads.  *)
THEOREM Exclusive == RecoverySweep = FALSE => (Spec => []ExclusiveProcessing)
<1>1. OneAttempt => ExclusiveProcessing
  BY DEF OneAttempt, SingleAttempt, ExclusiveProcessing
<1> QED
  BY <1>1, SingleAttempts, PTL
=============================================================================
