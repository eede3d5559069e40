--------------------------- MODULE PublishProofs ---------------------------
(***************************************************************************)
(* The theorem that a COMPLETED record has its whole output, for a         *)
(* platform in which no request is served after its caller gave up.  It    *)
(* follows one attempt from the claim through its file work to its report, *)
(* and holds with a caller of resetStuckProcessing as long as there is one *)
(* worker: the sweep may then take the record of an upload away from its   *)
(* owner, but nobody else can claim it.                                    *)
(***************************************************************************)
EXTENDS FileProofs

(* Every request has a caller who waits for it, and a report is about the  *)
(* job its sender holds.                                                   *)
ReportInv ==
    \A m \in requests :
        /\ m.caller \in Workers
        /\ m.type # "claimNext" => m.id = job[m.caller]

(* What SingleAttempt says of workers and FAILED reports alone. It holds   *)
(* without rivals, whether or not records are reset.                       *)
Alone ==
    \A id \in Ids :
        /\ \A v, w \in Workers : Owns(v, id) /\ Owns(w, id) => v = w
        /\ \A m, n \in FailureReports(id) : m = n
        /\ FailureReports(id) # {} => \A w \in Workers : ~Owns(w, id)

(* While an upload has an owner its row is PROCESSING, or PENDING again by *)
(* a sweep, or COMPLETED by the very report its owner awaits or believes   *)
(* lost.                                                                   *)
OwnerInv ==
    \A w \in Workers, id \in Ids :
        Owns(w, id) =>
            \/ status[id] = "PROCESSING"
            \/ RecoverySweep /\ status[id] = "PENDING"
            \/ /\ status[id] = "COMPLETED"
               /\ job[w] = id
               /\ pc[w] \in {"reporting"} \cup Failing

(* The outputs worker w has moved into place so far.                       *)
Moved(w) ==
    IF cursor[w] = Thumbnail THEN Renditions(job[w]) ELSE 1 .. (cursor[w] - 1)

PublishedSoFar(w) ==
    /\ pc[w] = "clear" => cursor[w] = 1
    /\ pc[w] = "move" => \A s \in Moved(w) : final[job[w]][s] = "full"
    /\ pc[w] \in {"discard", "report", "reporting"} => OutputComplete(job[w])

(* The inductive form of CompletedIsRetrievable.                           *)
PublishInv ==
    /\ CompletedIsRetrievable
    /\ \A w \in Workers : PublishedSoFar(w)

-----------------------------------------------------------------------------
(* Nobody reports on a job he does not hold, if requests die with their    *)
(* callers.                                                                *)
LEMMA ReportStep ==
    ASSUME "lateRequest" \notin Faults, TypeOK, CallDiscipline, ReportInv,
           [Next]_vars
    PROVE  ReportInv'
<1> USE DEF TypeOK, ApiTypeOK
<1>1. requests' \subseteq requests /\ UNCHANGED job => ReportInv'
  BY DEF ReportInv
<1>2. ASSUME NEW w \in Workers, WorkerStep(w) \/ CrashWorker(w)
      PROVE  ReportInv'
  <2>1. \A v \in Workers : v # w => job'[v] = job[v]
    BY <1>2, OthersStay
  <2>2. ASSUME \A m \in requests' : m \in requests /\ m.caller # w
        PROVE  ReportInv'
    BY <2>1, <2>2 DEF ReportInv
  <2>3. ASSUME CallClaimNext(w)
        PROVE  ReportInv'
    BY <2>3 DEF CallClaimNext, Poll, Goto, Send, ClaimRequest, ReportInv
  <2>4. ASSUME ReportCompleted(w) \/ ReportFailed(w)
        PROVE  ReportInv'
    BY <2>4 DEF ReportCompleted, SendCompleted, ReportFailed, SendFailed, Goto,
       Send, ResultRequest, ReportInv
  <2>5. ASSUME WorkFiles(w)
        PROVE  requests' \subseteq requests /\ UNCHANGED job
    BY <2>5 DEF WorkFiles, FileStep, CleanStaging, Probe, StartOutput, FinishOutput,
       ClearFinal, MoveOutput, DiscardStaging, StepThrows, CatchCleanup, Goto, apiVars
  <2>6. ASSUME ReceiveJob(w) \/ ReceiveNothing(w) \/ ReceiveAccepted(w)
               \/ ReceiveError(w)
        PROVE  ReportInv'
    <3>1. replies[w] # NoReply /\ requests' = requests
      BY <2>6 DEF ReceiveJob, ReceiveNothing, ReceiveAccepted, ReceiveError,
         TakeReply, NoReply
    <3>2. SentBy(w) = {}
      BY <3>1, NothingOutstanding DEF CallDiscipline
    <3> QED
      BY <2>2, <3>1, <3>2 DEF SentBy
  <2>7. ASSUME CallFails(w) \/ CrashWorker(w)
        PROVE  ReportInv'
    <3>1. requests' = requests \ SentBy(w)
      BY <2>7 DEF CallFails, CrashWorker, HangUp
    <3> QED
      BY <2>2, <3>1 DEF SentBy
  <2> QED
    BY <1>1, <1>2, <2>3, <2>4, <2>5, <2>6, <2>7 DEF WorkerStep
<1>3. ASSUME \/ \E id \in Ids : Grant(id)
             \/ \E r \in Replicas : ServeCompleted(r) \/ FinishCompleted(r)
             \/ ServeEmpty \/ ServeFailed \/ ServeBusy
      PROVE  requests' \subseteq requests /\ UNCHANGED job
  BY <1>3 DEF Grant, GrantClaim, ServeCompleted, RecordCompleted, FinishCompleted,
     StoreRenditions, RenditionsBusy, ServeEmpty, NothingToClaim, ServeFailed,
     RecordFailed, ServeBusy, RejectBusy, workerVars
<1>4. ASSUME \/ UNCHANGED vars
             \/ \E id \in Ids : UserRetry(id) \/ Intake(id)
             \/ \E r \in Replicas :
                    CrashBackend(r) \/ \E id \in Ids : UserUpload(r, id)
             \/ Sweep \/ ClockTick
      PROVE  requests' \subseteq requests /\ UNCHANGED job
  BY <1>4 DEF vars, UserRetry, Retry, Intake, UserUpload, CrashBackend, LoseHandler,
     Sweep, ClockTick, apiVars, workerVars
<1> QED
  BY <1>1, <1>2, <1>3, <1>4 DEF Next

(* The sender of a report that waits to be served holds the upload, and    *)
(* stands where the report was sent.                                       *)
LEMMA ReporterOwns ==
    ASSUME TypeOK, CallDiscipline, ReportInv, NEW m \in requests,
           m.type = "COMPLETED"
    PROVE  /\ m.caller \in Workers
           /\ m.id \in Ids
           /\ pc[m.caller] = "reporting"
           /\ job[m.caller] = m.id
           /\ Owns(m.caller, m.id)
<1>1. m.caller \in Workers /\ m.id \in Ids /\ job[m.caller] = m.id
  BY DEF ReportInv, TypeOK, ApiTypeOK
<1>2. Awaits(m.caller, m)
  BY <1>1 DEF CallDiscipline, OneCall, SentBy
<1>3. pc[m.caller] = "reporting"
  BY <1>2 DEF Awaits
<1> QED
  BY <1>1, <1>3 DEF Owns, Reporting

(* A worker that awaits the answer to its FAILED report has let go of the  *)
(* upload, so a worker without rivals is alone with it.                    *)
LEMMA AloneHolds ==
    ASSUME NoRivals, RecoverySweep = FALSE => OneAttempt,
           TypeOK, CallDiscipline, ReportInv
    PROVE  Alone
<1>1. CASE RecoverySweep = FALSE
  BY <1>1 DEF OneAttempt, SingleAttempt, Alone
<1>2. CASE \A v, w \in Workers : v = w
  <2> SUFFICES ASSUME NEW id \in Ids
               PROVE  /\ \A m, n \in FailureReports(id) : m = n
                      /\ FailureReports(id) # {} => \A w \in Workers : ~Owns(w, id)
    BY <1>2 DEF Alone
  <2>1. ASSUME NEW m \in FailureReports(id)
        PROVE  /\ m.caller \in Workers
               /\ m \in SentBy(m.caller)
               /\ ~Owns(m.caller, id)
    <3>1. m \in requests /\ m.type = "FAILED"
      BY DEF FailureReports
    <3>2. m.caller \in Workers /\ m \in SentBy(m.caller)
      BY <3>1 DEF ReportInv, SentBy
    <3>3. pc[m.caller] = "reportingFailure" /\ replies[m.caller] = NoReply
      BY <3>1, <3>2 DEF CallDiscipline, OneCall, Awaits
    <3> QED
      BY <3>2, <3>3 DEF Owns, NoReply, FileWork, Reporting, Failing
  <2>2. \A m, n \in FailureReports(id) : m = n
    BY <1>2, <2>1 DEF CallDiscipline, OneCall
  <2> QED
    BY <1>2, <2>1, <2>2
<1> QED
  BY <1>1, <1>2 DEF NoRivals

-----------------------------------------------------------------------------
(* A worker that awaits the answer to its COMPLETED report, or handles its *)
(* failure, keeps the upload in hand without going back to the files.      *)
LEMMA OwnerMoves ==
    ASSUME TypeOK, CallDiscipline, NEW w \in Workers, NEW id \in Ids,
           WorkerStep(w) \/ CrashWorker(w), Owns(w, id)',
           pc[w] \in {"reporting"} \cup Failing
    PROVE  job'[w] = job[w] /\ job'[w] = id /\ pc'[w] \in {"reporting"} \cup Failing
<1> USE DEF TypeOK, WorkerTypeOK, ApiTypeOK, Owns, Failing, FileWork, Reporting
<1>1. replies[w].type \notin {"job", "empty"} /\ NoReply.type # "job"
  BY DEF CallDiscipline, OneCall, NoReply
<1>2. ASSUME WorkFiles(w)
      PROVE  job'[w] = job[w] /\ job'[w] = id /\ pc'[w] \in {"reporting"} \cup Failing
  BY <1>1, <1>2 DEF WorkFiles, FileStep, CleanStaging, Probe, StartOutput,
     FinishOutput, ClearFinal, MoveOutput, DiscardStaging, StepThrows, CatchCleanup,
     Goto, apiVars
<1>3. ASSUME CallClaimNext(w) \/ ReceiveJob(w) \/ ReceiveNothing(w)
             \/ ReportCompleted(w) \/ ReportFailed(w)
      PROVE  job'[w] = job[w] /\ job'[w] = id /\ pc'[w] \in {"reporting"} \cup Failing
  BY <1>1, <1>3 DEF CallClaimNext, Poll, ReceiveJob, StartJob, ReceiveNothing,
     ReportCompleted, SendCompleted, ReportFailed, SendFailed, Goto, Send
<1>4. ASSUME ReceiveAccepted(w) \/ ReceiveError(w)
      PROVE  job'[w] = job[w] /\ job'[w] = id /\ pc'[w] \in {"reporting"} \cup Failing
  BY <1>1, <1>4 DEF ReceiveAccepted, ReportAccepted, ReceiveError, CallThrows, Goto,
     EndJob, TakeReply
<1>5. ASSUME CallFails(w) \/ CrashWorker(w)
      PROVE  job'[w] = job[w] /\ job'[w] = id /\ pc'[w] \in {"reporting"} \cup Failing
  BY <1>1, <1>5 DEF CallFails, CallThrows, CrashWorker, Restart, Goto, EndJob, HangUp
<1> QED
  BY <1>2, <1>3, <1>4, <1>5 DEF WorkerStep

(* A step that makes nobody an owner and changes the rows of no upload     *)
(* with an owner keeps OwnerInv.                                           *)
LEMMA OwnerKeeps ==
    ASSUME OwnerInv, UNCHANGED workerVars,
           \A v \in Workers, id \in Ids :
               Owns(v, id)' => Owns(v, id) /\ status'[id] = status[id]
    PROVE  OwnerInv'
  BY DEF OwnerInv, workerVars

(* The row of an upload that somebody owns is in the hands of its owner.   *)
LEMMA OwnerStep ==
    ASSUME TypeOK, CallDiscipline, Alone, ReportInv, OwnerInv, [Next]_vars
    PROVE  OwnerInv'
<1> USE DEF TypeOK, StoreTypeOK, ApiTypeOK
<1>0. \A id \in Ids : status[id] \in {NoRow, "FAILED"} => \A v \in Workers : ~Owns(v, id)
  BY DEF OwnerInv, NoRow
<1>1. ASSUME NEW w \in Workers, WorkerStep(w) \/ CrashWorker(w)
      PROVE  OwnerInv'
  <2>1. UNCHANGED status
    BY <1>1 DEF WorkerStep, CallClaimNext, ReceiveJob, ReceiveNothing, WorkFiles,
       ReportCompleted, ReportFailed, ReceiveAccepted, ReceiveError, CallFails,
       CrashWorker, storeVars
  <2> SUFFICES ASSUME NEW v \in Workers, NEW id \in Ids, Owns(v, id)'
               PROVE  \/ status'[id] = "PROCESSING"
                      \/ RecoverySweep /\ status'[id] = "PENDING"
                      \/ /\ status'[id] = "COMPLETED"
                         /\ job'[v] = id
                         /\ pc'[v] \in {"reporting"} \cup Failing
    BY DEF OwnerInv, Failing
  <2>2. Owns(v, id)
    BY <1>1, WorkerOwns
  <2>3. CASE v # w
    BY <1>1, <2>1, <2>2, <2>3, OthersStay DEF OwnerInv
  <2>4. CASE v = w
    BY <1>1, <2>1, <2>2, <2>4, OwnerMoves DEF OwnerInv
  <2> QED
    BY <2>3, <2>4
<1>2. ASSUME NEW id \in Ids, Grant(id)
      PROVE  OwnerInv'
  <2> PICK m \in requests : GrantClaim(m, id)
    BY <1>2 DEF Grant
  <2>1. UNCHANGED <<pc, job>>
    BY <1>2 DEF Grant, workerVars
  <2>2. status' = [status EXCEPT ![id] = "PROCESSING"]
    BY DEF GrantClaim, ClaimNext
  <2>3. \A v \in Workers : replies'[v] = replies[v] \/ replies'[v].id = id
    BY DEF GrantClaim, Answer, Request
  <2>4. \A v \in Workers, u \in Ids : u # id /\ Owns(v, u)' => Owns(v, u)
    BY <2>1, <2>3 DEF Owns
  <2> QED
    BY <2>1, <2>2, <2>4 DEF OwnerInv
<1>3. ASSUME NEW r \in Replicas, ServeCompleted(r)
      PROVE  OwnerInv'
  <2> PICK m \in requests : RecordCompleted(r, m)
    BY <1>3 DEF ServeCompleted
  <2>1. m.type = "COMPLETED" /\ m.id \in Ids
    BY DEF RecordCompleted
  <2>2. UNCHANGED <<pc, job, replies>>
    BY <1>3 DEF ServeCompleted, RecordCompleted, workerVars
  <2>3. status' = [status EXCEPT ![m.id] = "COMPLETED"]
    BY <2>1, UpdateType DEF RecordCompleted
  <2>4. \A v \in Workers, u \in Ids : Owns(v, u)' => Owns(v, u)
    BY <2>2 DEF Owns
  <2>5. \A v \in Workers : Owns(v, m.id) => v = m.caller
    BY <2>1, ReporterOwns DEF Alone
  <2>6. job[m.caller] = m.id /\ pc[m.caller] = "reporting"
    BY <2>1, ReporterOwns
  <2> QED
    BY <2>1, <2>2, <2>3, <2>4, <2>5, <2>6 DEF OwnerInv
<1>4. ASSUME NEW r \in Replicas, FinishCompleted(r)
      PROVE  OwnerInv'
  <2>1. UNCHANGED workerVars /\ handler[r] \in Request \cup {NoRequest}
    BY <1>4 DEF FinishCompleted
  <2>2. UNCHANGED status /\ \E t \in {"ok", "error"} : Answer(handler[r], PlainReply(t))
    BY <1>4 DEF FinishCompleted, StoreRenditions, SetRenditions, RenditionsBusy,
       storeVars
  <2> QED
    BY <2>1, <2>2, PlainAnswerOwns, OwnerKeeps
<1>5. ASSUME ServeFailed
      PROVE  OwnerInv'
  <2> PICK m \in requests : RecordFailed(m)
    BY <1>5 DEF ServeFailed
  <2>1. m.type = "FAILED" /\ m.id \in Ids /\ m \in Request /\ UNCHANGED workerVars
    BY <1>5 DEF RecordFailed, ServeFailed
  <2>2. status' = [status EXCEPT ![m.id] = "FAILED"]
    BY <2>1, UpdateType DEF RecordFailed
  <2>3. \A v \in Workers, u \in Ids : Owns(v, u)' => Owns(v, u)
    BY <2>1, PlainAnswerOwns DEF RecordFailed
  <2>4. \A v \in Workers : ~Owns(v, m.id)
    BY <2>1 DEF Alone, FailureReports
  <2> QED
    BY <2>1, <2>2, <2>3, <2>4, OwnerKeeps
<1>6. ASSUME ServeEmpty \/ ServeBusy
      PROVE  OwnerInv'
  <2> PICK m \in requests : NothingToClaim(m) \/ RejectBusy(m)
    BY <1>6 DEF ServeEmpty, ServeBusy
  <2>1. m \in Request /\ UNCHANGED workerVars
    BY <1>6 DEF ServeEmpty, ServeBusy
  <2>2. UNCHANGED status /\ \E t \in {"empty", "error"} : Answer(m, PlainReply(t))
    BY DEF NothingToClaim, RejectBusy, storeVars
  <2> QED
    BY <2>1, <2>2, PlainAnswerOwns, OwnerKeeps
<1>7. ASSUME NEW id \in Ids, UserRetry(id)
      PROVE  OwnerInv'
  <2>1. \A v \in Workers : ~Owns(v, id)
    BY <1>0, <1>7 DEF UserRetry, Retry, RetryProcessing
  <2>2. UNCHANGED <<workerVars, replies>>
    BY <1>7 DEF UserRetry, Retry, apiVars
  <2>3. \A u \in Ids : u # id => status'[u] = status[u]
    BY <1>7 DEF UserRetry, Retry, RetryProcessing
  <2>4. \A v \in Workers, u \in Ids : Owns(v, u)' => Owns(v, u)
    BY <2>2 DEF Owns, workerVars
  <2> QED
    BY <2>1, <2>2, <2>3, <2>4, OwnerKeeps
<1>8. ASSUME NEW id \in Ids, Intake(id)
      PROVE  OwnerInv'
  <2>1. UNCHANGED <<workerVars, replies>>
    BY <1>8 DEF Intake, apiVars
  <2>2. \A v \in Workers, u \in Ids : Owns(v, u)' => Owns(v, u)
    BY <2>1 DEF Owns, workerVars
  <2>3. \/ UNCHANGED status
        \/ /\ status[id] = NoRow
           /\ \A u \in Ids : u # id => status'[u] = status[u]
    BY <1>8 DEF Intake, IntakeStep, StreamEnds, StreamBreaks, Reject, Accept,
       AcceptFails, CreateUpload, Exists, storeVars
  <2> QED
    BY <1>0, <2>1, <2>2, <2>3, OwnerKeeps
<1>9. ASSUME \/ UNCHANGED vars
             \/ \E r \in Replicas :
                    CrashBackend(r) \/ \E id \in Ids : UserUpload(r, id)
      PROVE  OwnerInv'
  <2>1. UNCHANGED <<workerVars, replies, status>>
    BY <1>9 DEF vars, UserUpload, BeginUpload, CrashBackend, LoseHandler, apiVars,
       storeVars
  <2>2. \A v \in Workers, u \in Ids : Owns(v, u)' => Owns(v, u)
    BY <2>1 DEF Owns, workerVars
  <2> QED
    BY <2>1, <2>2, OwnerKeeps
<1>10. ASSUME Sweep \/ ClockTick
       PROVE  OwnerInv'
  <2>1. UNCHANGED <<pc, job, replies>>
    BY <1>10 DEF Sweep, ClockTick, workerVars, apiVars
  <2>2. \A id \in Ids : \/ status'[id] = status[id]
                        \/ /\ RecoverySweep
                           /\ status[id] = "PROCESSING" /\ status'[id] = "PENDING"
    BY <1>10 DEF Sweep, ResetStuckProcessing, Stuck, ClockTick, Tick
  <2> QED
    BY <2>1, <2>2 DEF OwnerInv, Owns
<1> QED
  BY <1>1, <1>2, <1>3, <1>4, <1>5, <1>6, <1>7, <1>8, <1>9, <1>10 DEF Next

-----------------------------------------------------------------------------
(* The slots up to a cursor are the ones it has passed and the one it is at. *)
LEMMA UpTo ==
    ASSUME NEW n \in Nat, NEW s \in 1 .. n
    PROVE  s = n \/ s \in 1 .. (n - 1)
  OBVIOUS

(* What the file steps of a worker do to what it has published so far.     *)
LEMMA OwnOutputsPublished ==
    ASSUME TypeOK, NEW w \in Workers, FileStep(w), StagedWhole(w), PublishedSoFar(w)
    PROVE  PublishedSoFar(w)'
<1> USE DEF TypeOK, StorageTypeOK, WorkerTypeOK, PublishedSoFar, Goto
<1>1. ASSUME CleanStaging(w) \/ Probe(w) \/ StartOutput(w) \/ StepThrows(w)
             \/ CatchCleanup(w)
      PROVE  PublishedSoFar(w)'
  BY <1>1 DEF CleanStaging, Probe, StartOutput, StepThrows, CatchCleanup
<1>2. ASSUME FinishOutput(w)
      PROVE  PublishedSoFar(w)'
  BY <1>2 DEF FinishOutput
<1>3. ASSUME ClearFinal(w)
      PROVE  PublishedSoFar(w)'
  BY <1>3 DEF ClearFinal, Moved, Thumbnail
<1>4. ASSUME DiscardStaging(w)
      PROVE  PublishedSoFar(w)'
  BY <1>4 DEF DiscardStaging, RemoveStaging, OutputComplete
<1>5. ASSUME MoveOutput(w)
      PROVE  PublishedSoFar(w)'
  <2> DEFINE u == job[w]
             c == cursor[w]
  <2>1. /\ pc[w] = "move" /\ u \in Ids /\ c \in Outputs(u) /\ job' = job
        /\ Plan[u] \in Nat /\ Outputs(u) \subseteq Slots
    BY <1>5, LadderAssumption, PlanAssumption
       DEF MoveOutput, Outputs, Renditions, Slots, Thumbnail
  <2>2. tmp[u][c] = "full"
    BY <1>5, <2>1 DEF MoveOutput, MoveIntoPlace, StagedWhole, FileState
  <2>3. final'[u] = [final[u] EXCEPT ![c] = "full"]
    BY <1>5, <2>1, <2>2 DEF MoveOutput, MoveIntoPlace
  <2>4. final'[u][c] = "full" /\ \A s \in Moved(w) : s \in Slots => final'[u][s] = "full"
    BY <2>1, <2>3
  <2>5. CASE c = Thumbnail
    <3>1. pc'[w] = "discard"
      BY <1>5, <2>5 DEF MoveOutput
    <3>2. \A s \in Outputs(u) : final'[u][s] = "full"
      BY <2>1, <2>4, <2>5 DEF Moved, Outputs
    <3> QED
      BY <2>1, <3>1, <3>2 DEF OutputComplete
  <2>6. CASE c # Thumbnail
    <3>1. pc'[w] = "move" /\ cursor'[w] = NextSlot(u, c)
      BY <1>5, <2>6 DEF MoveOutput
    <3>2. c \in 1 .. Plan[u]
      BY <2>1, <2>6 DEF Outputs, Renditions
    <3>3. Moved(w)' = 1 .. c
      BY <2>1, <3>1, <3>2 DEF Moved, NextSlot, Renditions, Thumbnail
    <3>4. Moved(w) = 1 .. (c - 1)
      BY <2>6 DEF Moved
    <3>5. \A s \in 1 .. c : s \in Slots /\ (s = c \/ s \in 1 .. (c - 1))
      <4>1. c \in Nat /\ 1 .. c \subseteq 1 .. Plan[u]
        BY <2>1, <3>2
      <4>2. 1 .. c \subseteq Slots
        BY <2>1, <4>1 DEF Outputs, Renditions
      <4>3. \A s \in 1 .. c : s = c \/ s \in 1 .. (c - 1)
        BY <4>1, UpTo
      <4> QED
        BY <4>2, <4>3
    <3> QED
      BY <2>1, <2>4, <3>1, <3>3, <3>4, <3>5
  <2> QED
    BY <2>5, <2>6
<1> QED
  BY <1>1, <1>2, <1>3, <1>4, <1>5 DEF FileStep

(* A worker comes to await a COMPLETED report from its last file step only. *)
LEMMA ReportingFrom ==
    ASSUME TypeOK, [Next]_vars, \A v \in Workers : ~WorkFiles(v),
           NEW w \in Workers, pc'[w] = "reporting"
    PROVE  pc[w] \in {"report", "reporting"} /\ job'[w] = job[w]
<1> USE DEF TypeOK, WorkerTypeOK
<1>1. CASE UNCHANGED <<pc, job>>
  BY <1>1
<1>2. ASSUME WorkerStep(w) \/ CrashWorker(w)
      PROVE  pc[w] \in {"report", "reporting"} /\ job'[w] = job[w]
  BY <1>2 DEF WorkerStep, CallClaimNext, Poll, ReceiveJob, StartJob,
     ReceiveNothing, ReportCompleted, SendCompleted, ReportFailed, SendFailed,
     ReceiveAccepted, ReportAccepted, ReceiveError, CallFails, CallThrows,
     CrashWorker, Restart, Goto, EndJob
<1>3. ASSUME NEW v \in Workers, v # w, WorkerStep(v) \/ CrashWorker(v)
      PROVE  pc[w] \in {"report", "reporting"} /\ job'[w] = job[w]
  BY <1>3, OthersStay
<1>4. \/ \E v \in Workers : WorkerStep(v) \/ CrashWorker(v)
      \/ UNCHANGED <<pc, job>>
  BY DEF Next, vars, Grant, UserRetry, Intake, ServeCompleted, FinishCompleted,
     CrashBackend, UserUpload, ServeEmpty, ServeFailed, ServeBusy, Sweep, ClockTick,
     workerVars
<1> QED
  BY <1>1, <1>2, <1>3, <1>4

(* A row becomes COMPLETED by a COMPLETED report on it.                    *)
LEMMA NewlyCompleted ==
    ASSUME TypeOK, [Next]_vars, NEW id \in Ids,
           status'[id] = "COMPLETED", status[id] # "COMPLETED"
    PROVE  \E m \in requests : m.type = "COMPLETED" /\ m.id = id
<1> USE DEF TypeOK, StoreTypeOK, ApiTypeOK
<1>1. ASSUME NEW r \in Replicas, NEW m \in requests, RecordCompleted(r, m)
      PROVE  m.type = "COMPLETED" /\ m.id = id
  BY <1>1, UpdateType DEF RecordCompleted
<1>2. ASSUME NEW m \in requests, RecordFailed(m)
      PROVE  FALSE
  BY <1>2, UpdateType DEF RecordFailed
<1>3. ~UNCHANGED status
  OBVIOUS
<1>4. ASSUME NEW w \in Workers, WorkerStep(w) \/ CrashWorker(w)
      PROVE  FALSE
  BY <1>3, <1>4 DEF WorkerStep, CallClaimNext, ReceiveJob, ReceiveNothing, WorkFiles,
     ReportCompleted, ReportFailed, ReceiveAccepted, ReceiveError, CallFails,
     CrashWorker, storeVars
<1>5. ASSUME NEW u \in Ids, Grant(u) \/ UserRetry(u)
      PROVE  FALSE
  BY <1>5 DEF Grant, GrantClaim, ClaimNext, UserRetry, Retry, RetryProcessing
<1>6. ASSUME NEW u \in Ids, Intake(u)
      PROVE  FALSE
  BY <1>3, <1>6 DEF Intake, IntakeStep, StreamEnds, StreamBreaks, Reject, Accept,
     AcceptFails, CreateUpload, storeVars
<1>7. ASSUME NEW r \in Replicas,
             \/ FinishCompleted(r) \/ CrashBackend(r)
             \/ \E u \in Ids : UserUpload(r, u)
      PROVE  FALSE
  BY <1>3, <1>7 DEF FinishCompleted, StoreRenditions, SetRenditions, RenditionsBusy,
     CrashBackend, UserUpload, BeginUpload, storeVars
<1>8. ASSUME ServeEmpty \/ ServeBusy \/ Sweep \/ ClockTick \/ UNCHANGED vars
      PROVE  FALSE
  BY <1>3, <1>8 DEF ServeEmpty, NothingToClaim, ServeBusy, RejectBusy, Sweep,
     ResetStuckProcessing, ClockTick, Tick, vars, storeVars
<1> QED
  BY <1>1, <1>2, <1>4, <1>5, <1>6, <1>7, <1>8 DEF Next, ServeCompleted, ServeFailed

(* Whoever may touch the files of a COMPLETED upload does not any more, so *)
(* no step takes its output away.                                          *)
LEMMA PublishStep ==
    ASSUME TypeOK, CallDiscipline, Alone, ReportInv, OwnerInv, WholeInv,
           PublishInv, [Next]_vars
    PROVE  PublishInv'
<1>1. ASSUME NEW w \in Workers, WorkFiles(w)
      PROVE  PublishInv'
  <2>1. FileStep(w) /\ UNCHANGED status
    BY <1>1 DEF WorkFiles, storeVars
  <2>2. /\ job[w] \in Ids /\ job'[w] = job[w]
        /\ pc[w] \in FileWork \cup Failing
        /\ Owns(w, job[w])
    <3>1. job[w] \in Ids
      BY <2>1 DEF FileStep, TypeOK, WorkerTypeOK, CleanStaging, Probe, StartOutput,
         FinishOutput, ClearFinal, MoveOutput, DiscardStaging, StepThrows,
         CatchCleanup, FileWork
    <3> QED
      BY <2>1, <3>1, OwnOutputsWhole DEF WholeInv, FinalFilesWhole, Owns
  <2>3. \A id \in Ids : id # job[w] => final'[id] = final[id]
    BY <2>1, OwnFilesOnly
  <2>4. PublishedSoFar(w)'
    BY <2>1, OwnOutputsPublished DEF WholeInv, PublishInv
  <2>5. ASSUME NEW v \in Workers, v # w
        PROVE  PublishedSoFar(v)'
    <3>1. pc'[v] = pc[v] /\ job'[v] = job[v] /\ cursor'[v] = cursor[v]
      BY <1>1, <2>5, OthersStay DEF WorkerStep
    <3>2. CASE pc[v] \in {"move", "discard", "report", "reporting"}
      <4>1. job[v] \in Ids
        BY <3>2 DEF TypeOK, WorkerTypeOK
      <4>2. Owns(v, job[v])
        BY <3>2 DEF Owns, FileWork, Reporting
      <4>3. job[v] # job[w]
        BY <2>2, <2>5, <4>2 DEF Alone
      <4>4. final'[job[v]] = final[job[v]]
        BY <2>3, <4>1, <4>3
      <4>5. Moved(v)' = Moved(v)
        BY <3>1 DEF Moved
      <4>6. PublishedSoFar(v)
        BY DEF PublishInv
      <4> QED
        BY <3>1, <3>2, <4>4, <4>5, <4>6 DEF PublishedSoFar, OutputComplete
    <3>3. CASE pc[v] \notin {"move", "discard", "report", "reporting"}
      BY <3>1, <3>3 DEF PublishInv, PublishedSoFar
    <3> QED
      BY <3>2, <3>3
  <2>6. ASSUME NEW id \in Ids, status'[id] = "COMPLETED"
        PROVE  OutputComplete(id)'
    <3>1. OutputComplete(id)
      BY <2>1, <2>6 DEF PublishInv, CompletedIsRetrievable
    <3>2. CASE id # job[w]
      BY <2>3, <3>1, <3>2 DEF OutputComplete
    <3>3. CASE id = job[w]
      <4>1. pc[w] \in Failing
        BY <2>1, <2>2, <2>6, <3>3 DEF OwnerInv, FileWork
      <4>2. UNCHANGED final
        BY <2>1, <4>1 DEF FileStep, CleanStaging, Probe, StartOutput, FinishOutput,
           ClearFinal, MoveOutput, DiscardStaging, StepThrows, CatchCleanup,
           RemoveStaging, Failing, FileWork, storageVars
      <4> QED
        BY <3>1, <4>2 DEF OutputComplete
    <3> QED
      BY <3>2, <3>3
  <2> QED
    BY <2>4, <2>5, <2>6 DEF PublishInv, CompletedIsRetrievable
<1>2. ASSUME \A w \in Workers : ~WorkFiles(w)
      PROVE  PublishInv'
  <2>1. UNCHANGED final
    BY <1>2, NoFileStep
  <2>2. ASSUME NEW w \in Workers
        PROVE  PublishedSoFar(w)'
    <3>0. PublishedSoFar(w)
      BY DEF PublishInv
    <3>1. CASE pc'[w] = pc[w] /\ job'[w] = job[w] /\ cursor'[w] = cursor[w]
      BY <2>1, <3>0, <3>1 DEF PublishedSoFar, OutputComplete, Moved
    <3>2. CASE pc'[w] = "reporting"
      BY <1>2, <2>1, <3>0, <3>2, ReportingFrom DEF PublishedSoFar, OutputComplete
    <3>3. CASE pc'[w] \in {"poll", "claiming", "clean", "cleanup", "reportingFailure"}
      BY <3>3 DEF PublishedSoFar
    <3> QED
      BY <1>2, <3>1, <3>2, <3>3, NoFileStep
  <2>3. ASSUME NEW id \in Ids, status'[id] = "COMPLETED"
        PROVE  OutputComplete(id)
    <3>1. CASE status[id] = "COMPLETED"
      BY <3>1 DEF PublishInv, CompletedIsRetrievable
    <3>2. CASE status[id] # "COMPLETED"
      <4> PICK m \in requests : m.type = "COMPLETED" /\ m.id = id
        BY <2>3, <3>2, NewlyCompleted
      <4> QED
        BY ReporterOwns DEF PublishInv, PublishedSoFar
    <3> QED
      BY <3>1, <3>2
  <2>4. \A id \in Ids : OutputComplete(id)' <=> OutputComplete(id)
    BY <2>1 DEF OutputComplete
  <2> QED
    BY <2>2, <2>3, <2>4 DEF PublishInv, CompletedIsRetrievable
<1> QED
  BY <1>1, <1>2

(* What every step may rely on.                                            *)
Inductive ==
    /\ TypeOK
    /\ CallDiscipline
    /\ RecoverySweep = FALSE => OneAttempt
    /\ Alone
    /\ ReportInv
    /\ OwnerInv
    /\ WholeInv
    /\ PublishInv

(* While nothing resets stuck records, OneAttempt holds.                   *)
LEMMA AttemptsUnswept == Spec => [](RecoverySweep = FALSE => OneAttempt)
<1>1. CASE RecoverySweep = FALSE
  BY <1>1, SingleAttempts, PTL
<1>2. CASE RecoverySweep # FALSE
  <2>1. TypeOK => (RecoverySweep = FALSE => OneAttempt)
    BY <1>2
  <2> QED
    BY <2>1, TypeCorrect, PTL
<1> QED
  BY <1>1, <1>2

(* All of it holds in every state, as long as no request outlives its      *)
(* caller and no worker has a rival.                                       *)
LEMMA InductiveHolds ==
    ASSUME NoRivals, "lateRequest" \notin Faults
    PROVE  Spec => []Inductive
<1> DEFINE Attempts == RecoverySweep = FALSE => OneAttempt
           Inv == ReportInv /\ OwnerInv /\ WholeInv /\ PublishInv
<1>1. Init => Inv
  BY DEF Init, StoreInit, StorageInit, WorkerInit, ApiInit, ReportInv, OwnerInv, Owns,
     WholeInv, FinalFilesWhole, StagedWhole, NoFiles, PublishInv, PublishedSoFar,
     CompletedIsRetrievable, NoReply, NoRow, FileWork, Reporting, Failing
<1>2. TypeOK /\ CallDiscipline /\ Attempts /\ Inv => Alone
  BY AloneHolds
<1>3. TypeOK /\ CallDiscipline /\ Attempts /\ Inv /\ [Next]_vars => Inv'
  <2>1. Alone => ExclusiveProcessing
    BY DEF Alone, ExclusiveProcessing
  <2> QED
    BY <1>2, <2>1, ReportStep, OwnerStep, WholeStep, PublishStep
<1>4. TypeOK /\ CallDiscipline /\ Attempts /\ Inv => Inductive
  BY <1>2 DEF Inductive
<1>5. Spec => []Attempts
  BY AttemptsUnswept
<1> HIDE DEF Inv, Attempts
<1> QED
  BY <1>1, <1>3, <1>4, <1>5, TypeCorrect, CallsDisciplined, PTL DEF Spec

(* Property 9 of the design document, for any number of workers, replicas  *)
(* and uploads and through crashes, lost calls and retries: as long as no  *)
(* request is served after its caller gave up, a COMPLETED record has its  *)
(* whole output in place. A sweep may reset the record of a live worker    *)
(* at any moment, if that worker is the only one.                          *)
THEOREM CompletedHasOutput ==
    NoRivals /\ "lateRequest" \notin Faults
        => (Spec => []CompletedIsRetrievable)
<1> SUFFICES ASSUME NoRivals, "lateRequest" \notin Faults
             PROVE  Spec => []CompletedIsRetrievable
  OBVIOUS
<1>1. Inductive => CompletedIsRetrievable
  BY DEF Inductive, PublishInv
<1> QED
  BY <1>1, InductiveHolds, PTL
=============================================================================
