---------------------------- MODULE FileProofs ----------------------------
(***************************************************************************)
(* Theorems about the files on the uploads volume: the original behind a   *)
(* record, and the outputs in their final places.                          *)
(***************************************************************************)
EXTENDS PlatformProofs

(* The inductive form of RecordHasOriginal: an upload that is validated    *)
(* has been streamed to its end, and a row stems from an accepted upload.  *)
OriginalInv ==
    \A id \in Ids :
        /\ intake[id] = "validating" => original[id] = "full"
        /\ Exists(id) => /\ intake[id] = "accepted"
                         /\ original[id] = "full"
                         /\ id \in Valid

(* No operation of the store but createUpload makes a row come into being. *)
LEMMA RowsStay ==
    ASSUME TypeOK, Next, \A id \in Ids : ~Intake(id)
    PROVE  \A id \in Ids : Exists(id)' <=> Exists(id)
<1> USE DEF TypeOK, StoreTypeOK, Exists, NoRow, ProcessingStatus
<1>1. UNCHANGED storeVars => \A id \in Ids : Exists(id)' <=> Exists(id)
  BY DEF storeVars
<1>2. ASSUME NEW w \in Workers, WorkerStep(w) \/ CrashWorker(w)
      PROVE  UNCHANGED storeVars
  BY <1>2 DEF WorkerStep, CallClaimNext, ReceiveJob, ReceiveNothing, WorkFiles,
     ReportCompleted, ReportFailed, ReceiveAccepted, ReceiveError, CallFails, CrashWorker
<1>3. ASSUME NEW u \in Ids, Grant(u) \/ UserRetry(u)
      PROVE  \A id \in Ids : Exists(id)' <=> Exists(id)
  BY <1>3 DEF Grant, GrantClaim, ClaimNext, OldestPending, UserRetry, Retry,
     RetryProcessing
<1>4. ASSUME NEW u \in Ids, NEW st \in {"COMPLETED", "FAILED"},
             UpdateUpload(u, ResultPatch(st))
      PROVE  \A id \in Ids : Exists(id)' <=> Exists(id)
  BY <1>4, KeepAssumption DEF UpdateUpload, ResultPatch, Patched
<1>5. ASSUME NEW r \in Replicas, ServeCompleted(r)
      PROVE  \A id \in Ids : Exists(id)' <=> Exists(id)
  <2> PICK m \in requests : RecordCompleted(r, m)
    BY <1>5 DEF ServeCompleted
  <2>1. m.id \in Ids
    BY DEF RecordCompleted, ApiTypeOK
  <2> QED
    BY <2>1, <1>4 DEF RecordCompleted
<1>6. ASSUME ServeFailed
      PROVE  \A id \in Ids : Exists(id)' <=> Exists(id)
  <2> PICK m \in requests : RecordFailed(m)
    BY <1>6 DEF ServeFailed
  <2>1. m.id \in Ids
    BY DEF RecordFailed, ApiTypeOK
  <2> QED
    BY <2>1, <1>4 DEF RecordFailed
<1>7. ASSUME NEW r \in Replicas, FinishCompleted(r)
      PROVE  \A id \in Ids : Exists(id)' <=> Exists(id)
  BY <1>7 DEF FinishCompleted, StoreRenditions, SetRenditions, RenditionsBusy,
     storeVars
<1>8. ASSUME NEW r \in Replicas, CrashBackend(r)
      PROVE  UNCHANGED storeVars
  BY <1>8 DEF CrashBackend
<1>9. ASSUME NEW r \in Replicas, NEW u \in Ids, UserUpload(r, u)
      PROVE  UNCHANGED storeVars
  BY <1>9 DEF UserUpload, BeginUpload
<1>10. ASSUME ServeEmpty \/ ServeBusy
       PROVE  UNCHANGED storeVars
  BY <1>10 DEF ServeEmpty, NothingToClaim, ServeBusy, RejectBusy
<1>11. ASSUME Sweep \/ ClockTick
       PROVE  \A id \in Ids : Exists(id)' <=> Exists(id)
  BY <1>11 DEF Sweep, ResetStuckProcessing, Stuck, ClockTick, Tick
<1> QED
  BY <1>1, <1>2, <1>3, <1>5, <1>6, <1>7, <1>8, <1>9, <1>10, <1>11 DEF Next

(* Only uploads that are being received write originals.                   *)
LEMMA OriginalsStay ==
    ASSUME Next, \A id \in Ids : ~Intake(id),
           \A r \in Replicas, id \in Ids : ~UserUpload(r, id)
    PROVE  UNCHANGED original
<1>1. ASSUME NEW w \in Workers, WorkerStep(w) \/ CrashWorker(w)
      PROVE  UNCHANGED original
  <2>1. FileStep(w) => UNCHANGED original
    BY DEF FileStep, CleanStaging, RecreateStaging, Probe, StartOutput, OpenOutput,
       FinishOutput, CloseOutput, ClearFinal, ClearRenditions, MoveOutput,
       MoveIntoPlace, DiscardStaging, RemoveStaging, StepThrows, CatchCleanup,
       storageVars
  <2> QED
    BY <1>1, <2>1 DEF WorkerStep, CallClaimNext, Poll, ReceiveJob, StartJob,
       ReceiveNothing, WorkFiles, ReportCompleted, SendCompleted, ReportFailed,
       SendFailed, ReceiveAccepted, ReportAccepted, ReceiveError, CallFails,
       CallThrows, CrashWorker, Restart, storageVars
<1>2. ASSUME \/ \E id \in Ids : Grant(id) \/ UserRetry(id)
             \/ \E r \in Replicas :
                    ServeCompleted(r) \/ FinishCompleted(r) \/ CrashBackend(r)
             \/ ServeEmpty \/ ServeFailed \/ ServeBusy \/ Sweep \/ ClockTick
      PROVE  UNCHANGED original
  BY <1>2 DEF Grant, UserRetry, ServeCompleted, FinishCompleted, CrashBackend,
     ServeEmpty, ServeFailed, ServeBusy, Sweep, ClockTick, storageVars
<1> QED
  BY <1>1, <1>2 DEF Next

(* Only uploads that are being received change their progress, and a crash *)
(* of their replica ends them.                                             *)
LEMMA IntakeStays ==
    ASSUME TypeOK, Next, \A id \in Ids : ~Intake(id),
           \A r \in Replicas, id \in Ids : ~UserUpload(r, id)
    PROVE  \A id \in Ids : \/ intake'[id] = intake[id]
                           \/ intake[id] \in InProgress /\ intake'[id] = "lost"
<1>1. ASSUME NEW r \in Replicas, CrashBackend(r), NEW id \in Ids
      PROVE  \/ intake'[id] = intake[id]
             \/ intake[id] \in InProgress /\ intake'[id] = "lost"
  BY <1>1 DEF CrashBackend, LoseUploads, TypeOK, IntakeTypeOK
<1>2. ASSUME NEW w \in Workers, WorkerStep(w) \/ CrashWorker(w)
      PROVE  UNCHANGED intakeVars
  BY <1>2 DEF WorkerStep, CallClaimNext, ReceiveJob, ReceiveNothing, WorkFiles,
     ReportCompleted, ReportFailed, ReceiveAccepted, ReceiveError, CallFails, CrashWorker
<1>3. ASSUME \/ \E id \in Ids : Grant(id) \/ UserRetry(id)
             \/ \E r \in Replicas : ServeCompleted(r) \/ FinishCompleted(r)
             \/ ServeEmpty \/ ServeFailed \/ ServeBusy \/ Sweep \/ ClockTick
      PROVE  UNCHANGED intakeVars
  BY <1>3 DEF Grant, UserRetry, ServeCompleted, FinishCompleted, ServeEmpty,
     ServeFailed, ServeBusy, Sweep, ClockTick
<1> QED
  BY <1>1, <1>2, <1>3 DEF Next, intakeVars

(* No step breaks the tie between a record and its original.               *)
LEMMA OriginalStep ==
    ASSUME TypeOK, OriginalInv, [Next]_vars
    PROVE  OriginalInv'
<1> USE DEF OriginalInv
<1>1. CASE UNCHANGED vars
  BY <1>1 DEF vars, storeVars, storageVars, intakeVars, Exists
<1>2. ASSUME NEW u \in Ids, Intake(u)
      PROVE  OriginalInv'
  <2> USE DEF TypeOK, IntakeTypeOK, StorageTypeOK
  <2>1. ASSUME Accept(u)
        PROVE  OriginalInv'
    BY <2>1 DEF Accept, Settle, CreateUpload, Exists, storageVars, StoreTypeOK
  <2>2. ASSUME StreamEnds(u)
        PROVE  OriginalInv'
    BY <2>2 DEF StreamEnds, WriteOriginal, storeVars, Exists
  <2>3. ASSUME StreamBreaks(u) \/ Reject(u) \/ AcceptFails(u)
        PROVE  OriginalInv'
    BY <2>3 DEF StreamBreaks, Reject, AcceptFails, Settle, SafeUnlink,
       WriteOriginal, storageVars, storeVars, Exists
  <2> QED
    BY <1>2, <2>1, <2>2, <2>3 DEF Intake, IntakeStep
<1>3. ASSUME NEW r \in Replicas, NEW u \in Ids, UserUpload(r, u)
      PROVE  OriginalInv'
  BY <1>3 DEF UserUpload, BeginUpload, WriteOriginal, storeVars, Exists, TypeOK,
     IntakeTypeOK, StorageTypeOK
<1>4. ASSUME Next, \A id \in Ids : ~Intake(id),
             \A r \in Replicas, id \in Ids : ~UserUpload(r, id)
      PROVE  OriginalInv'
  <2>1. \A id \in Ids : Exists(id)' <=> Exists(id)
    BY <1>4, RowsStay
  <2>2. UNCHANGED original
    BY <1>4, OriginalsStay
  <2>3. \A id \in Ids : \/ intake'[id] = intake[id]
                        \/ intake[id] \in InProgress /\ intake'[id] = "lost"
    BY <1>4, IntakeStays
  <2> QED
    BY <2>1, <2>2, <2>3 DEF InProgress
<1> QED
  BY <1>1, <1>2, <1>3, <1>4

(* A record never points to a missing, partial or rejected original, even  *)
(* if streams break, replicas die and the database is busy (Req 2.4).      *)
THEOREM OriginalBehindRecord == Spec => []RecordHasOriginal
<1>1. Init => OriginalInv
  BY DEF Init, StoreInit, IntakeInit, OriginalInv, Exists
<1>2. TypeOK /\ OriginalInv /\ [Next]_vars => OriginalInv'
  BY OriginalStep
<1>3. OriginalInv => RecordHasOriginal
  BY DEF OriginalInv, RecordHasOriginal
<1> QED
  BY <1>1, <1>2, <1>3, TypeCorrect, PTL DEF Spec

(* Steps outside the intake of an upload neither end it with an answer nor *)
(* touch its original; those of the intake unlink what they refuse.        *)
LEMMA LeftBehindStep ==
    ASSUME TypeOK, OriginalInv, OnlyAcceptedLeftBehind, "ioError" \notin Faults,
           [Next]_vars
    PROVE  OnlyAcceptedLeftBehind'
<1> USE DEF OnlyAcceptedLeftBehind
<1>1. CASE UNCHANGED vars
  BY <1>1 DEF vars, storageVars, intakeVars
<1>2. ASSUME NEW u \in Ids, Intake(u)
      PROVE  OnlyAcceptedLeftBehind'
  <2> USE DEF TypeOK, IntakeTypeOK, StorageTypeOK
  <2>1. ASSUME StreamEnds(u) \/ Accept(u)
        PROVE  OnlyAcceptedLeftBehind'
    BY <2>1 DEF StreamEnds, Accept, Settle, WriteOriginal, storageVars
  <2>2. ASSUME StreamBreaks(u) \/ Reject(u)
        PROVE  OnlyAcceptedLeftBehind'
    BY <2>2 DEF StreamBreaks, Reject, Settle, SafeUnlink, WriteOriginal
  <2>3. ASSUME AcceptFails(u)
        PROVE  OnlyAcceptedLeftBehind'
    BY <2>3 DEF AcceptFails, Settle, storageVars, OriginalInv
  <2> QED
    BY <1>2, <2>1, <2>2, <2>3 DEF Intake, IntakeStep
<1>3. ASSUME NEW r \in Replicas, NEW u \in Ids, UserUpload(r, u)
      PROVE  OnlyAcceptedLeftBehind'
  BY <1>3 DEF UserUpload, BeginUpload, WriteOriginal, TypeOK, IntakeTypeOK,
     StorageTypeOK
<1>4. ASSUME Next, \A id \in Ids : ~Intake(id),
             \A r \in Replicas, id \in Ids : ~UserUpload(r, id)
      PROVE  OnlyAcceptedLeftBehind'
  <2>1. UNCHANGED original
    BY <1>4, OriginalsStay
  <2>2. \A id \in Ids : intake'[id] = "failed" => intake[id] = "failed"
    BY <1>4, IntakeStays
  <2> QED
    BY <2>1, <2>2
<1> QED
  BY <1>1, <1>2, <1>3, <1>4

(* As long as unlink works, a refused upload leaves no file behind, and    *)
(* what a failed request does leave is a complete, valid original.         *)
THEOREM RefusedLeavesNothing ==
    "ioError" \notin Faults => (Spec => []OnlyAcceptedLeftBehind)
<1> SUFFICES ASSUME "ioError" \notin Faults
             PROVE  Spec => []OnlyAcceptedLeftBehind
  OBVIOUS
<1>1. Init => OriginalInv /\ OnlyAcceptedLeftBehind
  BY DEF Init, StoreInit, IntakeInit, OriginalInv, Exists, OnlyAcceptedLeftBehind
<1>2. TypeOK /\ OriginalInv /\ [Next]_vars => OriginalInv'
  BY OriginalStep
<1>3. TypeOK /\ OriginalInv /\ OnlyAcceptedLeftBehind /\ [Next]_vars
          => OnlyAcceptedLeftBehind'
  BY LeftBehindStep
<1> QED
  BY <1>1, <1>2, <1>3, TypeCorrect, PTL DEF Spec

-----------------------------------------------------------------------------
(* Worker w has finished every staged output of its job but the one ffmpeg *)
(* is writing.                                                             *)
StagedWhole(w) ==
    /\ pc[w] \in {"probe", "produce", "clear", "move"} =>
           \A s \in Slots : tmp[job[w]][s] # "partial"
    /\ pc[w] = "producing" =>
           \A s \in Slots : tmp[job[w]][s] = "partial" => s = cursor[w]

(* The inductive form of FinalFilesWhole.                                  *)
WholeInv == FinalFilesWhole /\ \A w \in Workers : StagedWhole(w)

(* A file step of a worker touches the outputs of its own job only.        *)
LEMMA OwnFilesOnly ==
    ASSUME TypeOK, NEW w \in Workers, FileStep(w),
           NEW id \in Ids, id # job[w]
    PROVE  tmp'[id] = tmp[id] /\ final'[id] = final[id]
<1> USE DEF TypeOK, StorageTypeOK, WorkerTypeOK
<1>1. ASSUME CleanStaging(w) \/ DiscardStaging(w) \/ CatchCleanup(w)
      PROVE  tmp'[id] = tmp[id] /\ final'[id] = final[id]
  BY <1>1 DEF CleanStaging, RecreateStaging, DiscardStaging, CatchCleanup,
     RemoveStaging, storageVars
<1>2. ASSUME Probe(w) \/ StepThrows(w)
      PROVE  tmp'[id] = tmp[id] /\ final'[id] = final[id]
  BY <1>2 DEF Probe, StepThrows, storageVars
<1>3. ASSUME StartOutput(w) \/ FinishOutput(w)
      PROVE  tmp'[id] = tmp[id] /\ final'[id] = final[id]
  BY <1>3 DEF StartOutput, OpenOutput, FinishOutput, CloseOutput
<1>4. ASSUME ClearFinal(w) \/ MoveOutput(w)
      PROVE  tmp'[id] = tmp[id] /\ final'[id] = final[id]
  BY <1>4 DEF ClearFinal, ClearRenditions, MoveOutput, MoveIntoPlace
<1> QED
  BY <1>1, <1>2, <1>3, <1>4 DEF FileStep

(* A file step leaves the control state of the other workers alone.        *)
LEMMA OthersStay ==
    ASSUME TypeOK, NEW w \in Workers, NEW v \in Workers, v # w,
           WorkerStep(w) \/ CrashWorker(w)
    PROVE  pc'[v] = pc[v] /\ job'[v] = job[v] /\ cursor'[v] = cursor[v]
<1> USE DEF TypeOK, WorkerTypeOK, Goto, EndJob
<1>1. ASSUME FileStep(w)
      PROVE  pc'[v] = pc[v] /\ job'[v] = job[v] /\ cursor'[v] = cursor[v]
  BY <1>1 DEF FileStep, CleanStaging, Probe, StartOutput, FinishOutput, ClearFinal,
     MoveOutput, DiscardStaging, StepThrows, CatchCleanup
<1> QED
  BY <1>1 DEF WorkerStep, CallClaimNext, Poll, ReceiveJob, StartJob,
     ReceiveNothing, WorkFiles, ReportCompleted, SendCompleted, ReportFailed,
     SendFailed, ReceiveAccepted, ReportAccepted, ReceiveError, CallFails,
     CallThrows, CrashWorker, Restart

(* What a file step does to the worker's own outputs.                      *)
LEMMA OwnOutputsWhole ==
    ASSUME TypeOK, NEW w \in Workers, FileStep(w), StagedWhole(w),
           \A s \in Slots : final[job[w]][s] # "partial"
    PROVE  /\ StagedWhole(w)'
           /\ \A s \in Slots : final'[job[w]][s] # "partial"
           /\ job[w] \in Ids
           /\ job'[w] = job[w]
           /\ pc[w] \in FileWork \cup Failing
<1> USE DEF TypeOK, StorageTypeOK, WorkerTypeOK, StagedWhole, Goto, FileWork, Failing
<1> DEFINE Goal == /\ StagedWhole(w)'
                   /\ \A s \in Slots : final'[job[w]][s] # "partial"
                   /\ job[w] \in Ids
                   /\ job'[w] = job[w]
                   /\ pc[w] \in FileWork \cup Failing
<1>0. /\ \A s \in Slots : NoFiles[s] = "absent"
      /\ \A id \in Ids : Outputs(id) \subseteq Slots
  BY LadderAssumption, PlanAssumption DEF NoFiles, Outputs, Slots, Renditions, Thumbnail
<1>1. ASSUME CleanStaging(w)
      PROVE  Goal
  BY <1>0, <1>1 DEF CleanStaging, RecreateStaging
<1>2. ASSUME Probe(w) \/ StepThrows(w)
      PROVE  Goal
  BY <1>2 DEF Probe, StepThrows, storageVars
<1>3. ASSUME StartOutput(w)
      PROVE  Goal
  BY <1>0, <1>3 DEF StartOutput, OpenOutput
<1>4. ASSUME FinishOutput(w)
      PROVE  Goal
  BY <1>0, <1>4 DEF FinishOutput, CloseOutput
<1>5. ASSUME ClearFinal(w)
      PROVE  Goal
  BY <1>5 DEF ClearFinal, ClearRenditions
<1>6. ASSUME MoveOutput(w)
      PROVE  Goal
  BY <1>0, <1>6 DEF MoveOutput, MoveIntoPlace
<1>7. ASSUME DiscardStaging(w) \/ CatchCleanup(w)
      PROVE  Goal
  BY <1>7 DEF DiscardStaging, CatchCleanup, RemoveStaging, storageVars
<1> HIDE DEF Goal
<1>8. Goal
  BY <1>1, <1>2, <1>3, <1>4, <1>5, <1>6, <1>7 DEF FileStep
<1> QED
  BY <1>8 DEF Goal

(* Outside the file steps of workers nothing touches outputs, and a worker *)
(* that starts a job starts at the cleaning of its staging directory.      *)
LEMMA NoFileStep ==
    ASSUME TypeOK, [Next]_vars, \A w \in Workers : ~WorkFiles(w)
    PROVE  /\ UNCHANGED <<tmp, final>>
           /\ \A w \in Workers :
                  \/ pc'[w] = pc[w] /\ job'[w] = job[w] /\ cursor'[w] = cursor[w]
                  \/ pc'[w] \in {"poll", "claiming", "clean", "reporting",
                                  "cleanup", "reportingFailure"}
<1> USE DEF TypeOK, WorkerTypeOK
<1>1. ASSUME NEW v \in Workers, WorkerStep(v) \/ CrashWorker(v)
      PROVE  /\ UNCHANGED <<tmp, final>>
             /\ pc'[v] \in {"poll", "claiming", "clean", "reporting", "cleanup",
                             "reportingFailure"}
  BY <1>1 DEF WorkerStep, CallClaimNext, Poll, ReceiveJob, StartJob,
     ReceiveNothing, ReportCompleted, SendCompleted, ReportFailed,
     SendFailed, ReceiveAccepted, ReportAccepted, ReceiveError, CallFails,
     CallThrows, CrashWorker, Restart, storageVars, Goto, EndJob
<1>2. ASSUME NEW id \in Ids, Intake(id)
      PROVE  UNCHANGED <<tmp, final>> /\ UNCHANGED workerVars
  BY <1>2 DEF Intake, IntakeStep, StreamEnds, StreamBreaks, Reject, Accept,
     AcceptFails, SafeUnlink, WriteOriginal, storageVars
<1>3. ASSUME NEW r \in Replicas, NEW id \in Ids, UserUpload(r, id)
      PROVE  UNCHANGED <<tmp, final>> /\ UNCHANGED workerVars
  BY <1>3 DEF UserUpload, BeginUpload, WriteOriginal
<1>4. ASSUME \/ UNCHANGED vars
             \/ \E id \in Ids : Grant(id) \/ UserRetry(id)
             \/ \E r \in Replicas :
                    ServeCompleted(r) \/ FinishCompleted(r) \/ CrashBackend(r)
             \/ ServeEmpty \/ ServeFailed \/ ServeBusy \/ Sweep \/ ClockTick
      PROVE  UNCHANGED <<tmp, final>> /\ UNCHANGED workerVars
  BY <1>4 DEF vars, Grant, UserRetry, ServeCompleted, FinishCompleted, CrashBackend,
     ServeEmpty, ServeFailed, ServeBusy, Sweep, ClockTick, storageVars
<1>5. CASE UNCHANGED workerVars
  BY <1>5, <1>1, <1>2, <1>3, <1>4 DEF Next, workerVars
<1>6. CASE \E v \in Workers : WorkerStep(v) \/ CrashWorker(v)
  BY <1>6, <1>1, OthersStay
<1> QED
  BY <1>2, <1>3, <1>4, <1>5, <1>6 DEF Next

(* No step leaves a partial file in a final place, because only the owner  *)
(* of an upload touches its files.                                         *)
LEMMA WholeStep ==
    ASSUME TypeOK, ExclusiveProcessing, WholeInv, [Next]_vars
    PROVE  WholeInv'
<1>1. ASSUME NEW w \in Workers, WorkFiles(w)
      PROVE  WholeInv'
  <2>1. FileStep(w)
    BY <1>1 DEF WorkFiles
  <2>2. \A id \in Ids : id # job[w] => tmp'[id] = tmp[id] /\ final'[id] = final[id]
    BY <2>1, OwnFilesOnly
  <2>3. job[w] \in Ids
    BY <2>1 DEF FileStep, TypeOK, WorkerTypeOK, CleanStaging, Probe, StartOutput,
       FinishOutput, ClearFinal, MoveOutput, DiscardStaging, StepThrows,
       CatchCleanup, FileWork
  <2>4. /\ StagedWhole(w)'
        /\ \A s \in Slots : final'[job[w]][s] # "partial"
        /\ pc[w] \in FileWork \cup Failing
    BY <2>1, <2>3, OwnOutputsWhole DEF WholeInv, FinalFilesWhole
  <2>5. ASSUME NEW v \in Workers, v # w
        PROVE  StagedWhole(v)'
    <3>1. pc'[v] = pc[v] /\ job'[v] = job[v] /\ cursor'[v] = cursor[v]
      BY <1>1, <2>5, OthersStay DEF WorkerStep
    <3>2. CASE pc[v] \in FileWork
      <4>1. job[v] \in Ids
        BY <3>2 DEF TypeOK, WorkerTypeOK, FileWork
      <4>2. job[v] # job[w]
        BY <2>3, <2>4, <2>5, <3>2 DEF ExclusiveProcessing, Owns
      <4> QED
        BY <2>2, <3>1, <4>1, <4>2 DEF WholeInv, StagedWhole
    <3>3. CASE pc[v] \notin FileWork
      BY <3>1, <3>3 DEF StagedWhole, FileWork
    <3> QED
      BY <3>2, <3>3
  <2>6. FinalFilesWhole'
    BY <2>2, <2>4 DEF WholeInv, FinalFilesWhole
  <2> QED
    BY <2>4, <2>5, <2>6 DEF WholeInv
<1>2. ASSUME \A w \in Workers : ~WorkFiles(w)
      PROVE  WholeInv'
  <2>1. UNCHANGED <<tmp, final>>
    BY <1>2, NoFileStep
  <2>2. ASSUME NEW w \in Workers
        PROVE  StagedWhole(w)'
    BY <1>2, <2>1, NoFileStep DEF WholeInv, StagedWhole
  <2>3. FinalFilesWhole'
    BY <2>1 DEF WholeInv, FinalFilesWhole
  <2> QED
    BY <2>2, <2>3 DEF WholeInv
<1> QED
  BY <1>1, <1>2

(* Without rivals no two workers have the same upload in hand.             *)
LEMMA AloneExclusive ==
    ASSUME NoRivals
    PROVE  Spec => []ExclusiveProcessing
<1>1. CASE RecoverySweep = FALSE
  BY <1>1, Exclusive
<1>2. CASE \A v, w \in Workers : v = w
  <2>1. TypeOK => ExclusiveProcessing
    BY <1>2 DEF ExclusiveProcessing
  <2> QED
    BY <2>1, TypeCorrect, PTL
<1> QED
  BY <1>1, <1>2 DEF NoRivals

(* A file gets to its final place only when ffmpeg has finished it,        *)
(* whatever crashes or is left behind, and also when a sweep makes a       *)
(* worker do the upload in its hands once more.                            *)
THEOREM FinalFilesFinished == NoRivals => (Spec => []FinalFilesWhole)
<1> SUFFICES ASSUME NoRivals
             PROVE  Spec => []FinalFilesWhole
  OBVIOUS
<1>1. Init => WholeInv
  BY DEF Init, StorageInit, WorkerInit, WholeInv, FinalFilesWhole, StagedWhole, NoFiles
<1>2. TypeOK /\ ExclusiveProcessing /\ WholeInv /\ [Next]_vars => WholeInv'
  BY WholeStep
<1>3. WholeInv => FinalFilesWhole
  BY DEF WholeInv
<1> QED
  BY <1>1, <1>2, <1>3, TypeCorrect, AloneExclusive, PTL DEF Spec
=============================================================================
