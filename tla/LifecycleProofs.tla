-------------------------- MODULE LifecycleProofs --------------------------
(***************************************************************************)
(* What becomes of a record, as long as no request is served after its     *)
(* caller gave up.  Without rivals an error message belongs to a FAILED    *)
(* record; unless its last attempt ended in silence, a COMPLETED record    *)
(* without its rendition rows is about to be FAILED and a PROCESSING one   *)
(* has somebody at it; if every report is answered with what was recorded, *)
(* COMPLETED is final.  If nothing resets stuck records, VideoPlatform     *)
(* implements JobLifecycle and keeps its promise.  All rests on what       *)
(* PublishProofs shows of an upload and its owner.                         *)
(***************************************************************************)
EXTENDS AttemptHistory, PublishProofs

-----------------------------------------------------------------------------
(* No step sets a message on a record that is not FAILED, or takes a       *)
(* record with a message out of FAILED: a COMPLETED report is about a      *)
(* record in the hands of its reporter, and such a record has not failed.  *)
LEMMA ErrorStep ==
    ASSUME Inductive, ErrorOnlyWhenFailed, [Next]_vars
    PROVE  ErrorOnlyWhenFailed'
<1> USE DEF Inductive, TypeOK, StoreTypeOK, ApiTypeOK, ErrorOnlyWhenFailed
<1>1. ASSUME NEW id \in Ids, Accept(id) \/ Grant(id) \/ UserRetry(id)
      PROVE  ErrorOnlyWhenFailed'
  BY <1>1 DEF Accept, CreateUpload, Grant, GrantClaim, ClaimNext, OldestPending,
     UserRetry, Retry, RetryProcessing
<1>2. ASSUME NEW r \in Replicas, ServeCompleted(r)
      PROVE  ErrorOnlyWhenFailed'
  <2> PICK m \in requests : RecordCompleted(r, m)
    BY <1>2 DEF ServeCompleted
  <2>1. m.type = "COMPLETED" /\ m.id \in Ids
    BY DEF RecordCompleted
  <2>2. status[m.id] # "FAILED"
    BY <2>1, ReporterOwns DEF OwnerInv
  <2>3. /\ status' = [status EXCEPT ![m.id] = "COMPLETED"]
        /\ error' = [error EXCEPT ![m.id] = @]
    BY <2>1, UpdateType DEF RecordCompleted
  <2> QED
    BY <2>1, <2>2, <2>3
<1>3. ASSUME NEW r \in Replicas, StoreRenditions(r)
      PROVE  ErrorOnlyWhenFailed'
  BY <1>3 DEF StoreRenditions, SetRenditions
<1>4. ASSUME ServeFailed
      PROVE  ErrorOnlyWhenFailed'
  <2> PICK m \in requests : RecordFailed(m)
    BY <1>4 DEF ServeFailed
  <2>1. m.id \in Ids
    BY DEF RecordFailed
  <2>2. /\ status' = [status EXCEPT ![m.id] = "FAILED"]
        /\ error' = [error EXCEPT ![m.id] = TRUE]
    BY <2>1, UpdateType DEF RecordFailed
  <2> QED
    BY <2>1, <2>2
<1>5. CASE UNCHANGED storeVars
  BY <1>5 DEF storeVars
<1>6. CASE Sweep \/ ClockTick
  BY <1>6 DEF Sweep, ResetStuckProcessing, Stuck, ClockTick, Tick
<1> QED
  BY <1>1, <1>2, <1>3, <1>4, <1>5, <1>6, StoreFrame DEF StoreStep

(* The message of a failed attempt is gone once the upload is retried, and *)
(* a record that is not FAILED never shows one, through crashes and lost   *)
(* calls, for any number of uploads, workers and replicas, and through     *)
(* sweeps if there is one worker.                                          *)
THEOREM ErrorsBelongToFailures ==
    NoRivals /\ "lateRequest" \notin Faults
        => (Spec => []ErrorOnlyWhenFailed)
<1> SUFFICES ASSUME NoRivals, "lateRequest" \notin Faults
             PROVE  Spec => []ErrorOnlyWhenFailed
  OBVIOUS
<1>1. Init => ErrorOnlyWhenFailed
  BY DEF Init, StoreInit, ErrorOnlyWhenFailed
<1>2. Inductive /\ ErrorOnlyWhenFailed /\ [Next]_vars => ErrorOnlyWhenFailed'
  BY ErrorStep
<1> QED
  BY <1>1, <1>2, InductiveHolds, PTL DEF Spec

-----------------------------------------------------------------------------
(* What a step does to the attempts under way: nothing, or it ends one.    *)
SameRuns == \A u \in Ids : Running(u)' <=> Running(u)

EndsRun(x) ==
    /\ Running(x) /\ ~Running(x)'
    /\ \A u \in Ids \ {x} : Running(u)' <=> Running(u)

(* A step that leaves rows, files and attempts alone is a stutter of the   *)
(* lifecycle, ...                                                          *)
LEMMA StutterMaps ==
    ASSUME UNCHANGED <<status, final>>, SameRuns
    PROVE  UNCHANGED Lifecycle!vars
<1>1. \A u \in Ids : OutputComplete(u)' <=> OutputComplete(u)
  BY DEF OutputComplete
<1> QED
  BY <1>1 DEF Lifecycle!vars, SameRuns

(* ... and one that ends an attempt is its EndAttempt.                     *)
LEMMA EndMaps ==
    ASSUME UNCHANGED <<status, final>>, NEW x \in Ids, EndsRun(x)
    PROVE  Lifecycle!Next
<1>1. \A u \in Ids : OutputComplete(u)' <=> OutputComplete(u)
  BY DEF OutputComplete
<1>2. Lifecycle!EndAttempt(x)
  BY <1>1 DEF Lifecycle!EndAttempt, EndsRun
<1> QED
  BY <1>2 DEF Lifecycle!Next

-----------------------------------------------------------------------------
(* The token of an attempt that is in the hands of worker w.               *)
HoldsToken(w, u) ==
    Owns(w, u) \/ \E m \in FailureReports(u) : m.caller = w

(* A worker holds the token of one attempt at most.                        *)
LEMMA OneToken ==
    ASSUME Inductive, NEW w \in Workers, NEW u \in Ids, NEW x \in Ids,
           HoldsToken(w, u), HoldsToken(w, x)
    PROVE  u = x
<1> USE DEF Inductive, TypeOK, ApiTypeOK, WorkerTypeOK
<1>1. ASSUME NEW y \in Ids, NEW m \in FailureReports(y), m.caller = w
      PROVE  /\ y = job[w] /\ replies[w] = NoReply
  <2>1. m \in requests /\ m.type = "FAILED" /\ m.id = y /\ m \in SentBy(w)
    BY <1>1 DEF FailureReports, SentBy
  <2> QED
    BY <1>1, <2>1 DEF ReportInv, CallDiscipline, OneCall
<1>2. NoReply.type # "job"
  BY DEF NoReply
<1>3. replies[w].type = "job" => pc[w] = "claiming"
  BY DEF CallDiscipline, OneCall
<1> QED
  BY <1>1, <1>2, <1>3 DEF HoldsToken, Owns, FileWork, Reporting, Failing

(* A worker's own step ends no attempt of another worker.                  *)
LEMMA OthersRun ==
    ASSUME Inductive, "lateRequest" \notin Faults,
           NEW w \in Workers, WorkerStep(w) \/ CrashWorker(w),
           NEW u \in Ids, Running(u), ~HoldsToken(w, u)
    PROVE  Running(u)'
<1> USE DEF Inductive, TypeOK, ApiTypeOK
<1>1. ASSUME NEW v \in Workers, v # w, Owns(v, u)
      PROVE  Owns(v, u)'
  <2>1. replies'[v] = replies[v]
    BY <1>1 DEF WorkerStep, CallClaimNext, ReceiveJob, ReceiveNothing, WorkFiles,
       ReportCompleted, ReportFailed, ReceiveAccepted, ReceiveError, CallFails,
       CrashWorker, Send, TakeReply, HangUp, apiVars
  <2> QED
    BY <1>1, <2>1, OthersStay DEF Owns
<1>2. ASSUME NEW m \in FailureReports(u), m.caller # w
      PROVE  m \in FailureReports(u)'
  BY <1>2 DEF WorkerStep, CallClaimNext, ReceiveJob, ReceiveNothing, WorkFiles,
     ReportCompleted, ReportFailed, ReceiveAccepted, ReceiveError, CallFails,
     CrashWorker, Send, TakeReply, HangUp, apiVars, FailureReports, SentBy
<1> QED
  BY <1>1, <1>2 DEF Running, HoldsToken

(* A worker's own step starts no attempt.                                  *)
LEMMA NoNewRun ==
    ASSUME Inductive, "lateRequest" \notin Faults,
           NEW w \in Workers, WorkerStep(w) \/ CrashWorker(w),
           NEW u \in Ids, Running(u)'
    PROVE  Running(u)
<1> USE DEF Inductive, TypeOK, ApiTypeOK
<1>1. ASSUME NEW v \in Workers, Owns(v, u)'
      PROVE  Running(u)
  BY <1>1, WorkerOwns DEF Running
<1>2. ASSUME NEW m \in FailureReports(u)', ~ReportFailed(w)
      PROVE  m \in FailureReports(u)
  BY <1>2 DEF WorkerStep, CallClaimNext, ReceiveJob, ReceiveNothing, WorkFiles,
     ReportCompleted, ReceiveAccepted, ReceiveError, CallFails, CrashWorker, Send,
     TakeReply, HangUp, apiVars, FailureReports, SentBy, ClaimRequest, ResultRequest
<1>3. ASSUME NEW m \in FailureReports(u)', ReportFailed(w)
      PROVE  Running(u)
  <2>1. m \in FailureReports(u) \/ u = job[w]
    BY <1>3 DEF ReportFailed, Send, FailureReports, ResultRequest
  <2>2. pc[w] = "reportFailure"
    BY <1>3 DEF ReportFailed, SendFailed
  <2> QED
    BY <2>1, <2>2 DEF Running, Owns, Failing
<1> QED
  BY <1>1, <1>2, <1>3 DEF Running

(* So whatever a worker does ends one attempt or none.                     *)
LEMMA WorkerRuns ==
    ASSUME Inductive, "lateRequest" \notin Faults,
           NEW w \in Workers, WorkerStep(w) \/ CrashWorker(w)
    PROVE  SameRuns \/ \E x \in Ids : EndsRun(x)
<1>1. ASSUME NEW x \in Ids, Running(x), ~Running(x)'
      PROVE  EndsRun(x)
  <2>1. HoldsToken(w, x)
    BY <1>1, OthersRun
  <2>2. \A u \in Ids \ {x} : ~HoldsToken(w, u)
    BY <2>1, OneToken
  <2> QED
    BY <1>1, <2>2, OthersRun, NoNewRun DEF EndsRun
<1> QED
  BY <1>1, NoNewRun DEF SameRuns

-----------------------------------------------------------------------------
(* A worker at its files holds on to its attempt, and may change what is   *)
(* published only before it has reported.                                  *)
LEMMA FilesMap ==
    ASSUME RecoverySweep = FALSE, Inductive, "lateRequest" \notin Faults,
           NEW w \in Workers, WorkFiles(w)
    PROVE  [Lifecycle!Next]_(Lifecycle!vars)
<1> USE DEF Inductive, TypeOK, ApiTypeOK
<1>1. FileStep(w) /\ WorkerStep(w) /\ UNCHANGED <<status, requests, replies>>
  BY DEF WorkFiles, WorkerStep, storeVars, apiVars
<1>2. /\ job[w] \in Ids
      /\ job'[w] = job[w]
      /\ pc[w] \in FileWork \cup Failing
      /\ pc'[w] \in FileWork \cup Failing \cup Reporting
  <2>1. job[w] \in Ids
    BY <1>1 DEF FileStep, WorkerTypeOK, CleanStaging, Probe, StartOutput,
       FinishOutput, ClearFinal, MoveOutput, DiscardStaging, StepThrows,
       CatchCleanup, FileWork
  <2>2. pc'[w] \in FileWork \cup Failing \cup Reporting
    BY <1>1 DEF FileStep, WorkerTypeOK, CleanStaging, Probe, StartOutput,
       FinishOutput, ClearFinal, MoveOutput, DiscardStaging, StepThrows,
       CatchCleanup, Goto, FileWork, Failing, Reporting
  <2> QED
    BY <1>1, <2>1, <2>2, OwnOutputsWhole DEF WholeInv, FinalFilesWhole
<1>3. \A u \in Ids : u = job[w] => Owns(w, u) /\ Owns(w, u)'
  BY <1>2 DEF Owns
<1>4. SameRuns
  <2>1. ~\E x \in Ids : EndsRun(x)
    <3> SUFFICES ASSUME NEW x \in Ids, Running(x), ~Running(x)'
                 PROVE  FALSE
      BY DEF EndsRun
    <3>1. x # job[w]
      BY <1>3 DEF Running
    <3>2. HoldsToken(w, x) /\ HoldsToken(w, job[w])
      BY <1>1, <1>2, <1>3, OthersRun DEF HoldsToken
    <3> QED
      BY <1>2, <3>1, <3>2, OneToken
  <2> QED
    BY <1>1, <2>1, WorkerRuns
<1>5. CASE UNCHANGED final
  BY <1>1, <1>4, <1>5, StutterMaps
<1>6. CASE ~UNCHANGED final
  <2>1. pc[w] \in FileWork
    BY <1>1, <1>6 DEF FileStep, CleanStaging, Probe, StartOutput, FinishOutput,
       ClearFinal, MoveOutput, DiscardStaging, StepThrows, CatchCleanup,
       RemoveStaging, storageVars, FileWork
  <2>2. status[job[w]] = "PROCESSING"
    BY <1>2, <1>3, <2>1 DEF OwnerInv, FileWork, Failing
  <2>3. \A u \in Ids \ {job[w]} : OutputComplete(u)' <=> OutputComplete(u)
    BY <1>1, OwnFilesOnly DEF OutputComplete
  <2>4. Lifecycle!Publish(job[w])
    BY <1>1, <1>2, <1>3, <1>4, <2>2, <2>3 DEF Lifecycle!Publish, SameRuns, Running
  <2> QED
    BY <1>2, <2>4 DEF Lifecycle!Next
<1> QED
  BY <1>5, <1>6

(* Everything else a worker does is an end of its attempt or a stutter.    *)
LEMMA WorkerMaps ==
    ASSUME RecoverySweep = FALSE, Inductive, "lateRequest" \notin Faults,
           NEW w \in Workers, WorkerStep(w) \/ CrashWorker(w)
    PROVE  [Lifecycle!Next]_(Lifecycle!vars)
<1>1. CASE WorkFiles(w)
  BY <1>1, FilesMap
<1>2. CASE ~WorkFiles(w)
  <2>1. UNCHANGED <<status, final>>
    BY <1>2 DEF WorkerStep, CallClaimNext, Poll, ReceiveJob, StartJob,
       ReceiveNothing, ReportCompleted, SendCompleted, ReportFailed, SendFailed,
       ReceiveAccepted, ReportAccepted, ReceiveError, CallFails, CallThrows,
       CrashWorker, Restart, storeVars, storageVars
  <2> QED
    BY <2>1, WorkerRuns, StutterMaps, EndMaps
<1> QED
  BY <1>1, <1>2

-----------------------------------------------------------------------------
(* The claim of a waiting upload.                                          *)
LEMMA GrantMaps ==
    ASSUME RecoverySweep = FALSE, Inductive, NEW id \in Ids, Grant(id)
    PROVE  Lifecycle!Next
<1> USE DEF Inductive, TypeOK, ApiTypeOK, StoreTypeOK
<1> PICK m \in requests : GrantClaim(m, id)
  BY DEF Grant
<1>1. UNCHANGED <<pc, job, final>>
  BY DEF Grant, workerVars, storageVars
<1>2. /\ status[id] = "PENDING"
      /\ status' = [status EXCEPT ![id] = "PROCESSING"]
  BY DEF GrantClaim, ClaimNext, OldestPending
<1>3. ~Running(id)
  BY <1>2 DEF OneAttempt, SingleAttempt, Quiet
<1>4. m.caller \in Workers /\ replies[m.caller] = NoReply /\ NoReply.type # "job"
  BY DEF ReportInv, CallDiscipline, OneCall, SentBy, NoReply
<1>5. \A v \in Workers :
          \/ v # m.caller /\ replies'[v] = replies[v]
          \/ v = m.caller /\ replies'[v].id = id
  BY <1>4, ProcessAssumption DEF GrantClaim, Answer
<1>6. \A v \in Workers, u \in Ids \ {id} : Owns(v, u)' <=> Owns(v, u)
  BY <1>1, <1>4, <1>5 DEF Owns
<1>7. \A u \in Ids : FailureReports(u)' = FailureReports(u)
  BY DEF GrantClaim, FailureReports
<1>8. \A u \in Ids \ {id} : Running(u)' <=> Running(u)
  BY <1>6, <1>7 DEF Running
<1>9. \A u \in Ids : OutputComplete(u)' <=> OutputComplete(u)
  BY <1>1 DEF OutputComplete
<1>10. Lifecycle!Claim(id)
  BY <1>2, <1>3, <1>8, <1>9 DEF Lifecycle!Claim, Lifecycle!Move
<1> QED
  BY <1>10 DEF Lifecycle!Next

(* The first transaction of a COMPLETED report: its reporter has published *)
(* the whole output.                                                       *)
LEMMA CompletedMaps ==
    ASSUME RecoverySweep = FALSE, Inductive, NEW r \in Replicas, ServeCompleted(r)
    PROVE  [Lifecycle!Next]_(Lifecycle!vars)
<1> USE DEF Inductive, TypeOK, ApiTypeOK, StoreTypeOK
<1> PICK m \in requests : RecordCompleted(r, m)
  BY DEF ServeCompleted
<1>1. m.type = "COMPLETED" /\ m.id \in Ids
  BY DEF RecordCompleted
<1>2. UNCHANGED <<pc, job, replies, final>>
  BY DEF ServeCompleted, RecordCompleted, workerVars, storageVars
<1>3. status' = [status EXCEPT ![m.id] = "COMPLETED"]
  BY <1>1, UpdateType DEF RecordCompleted
<1>4. \A u \in Ids : FailureReports(u)' = FailureReports(u)
  BY <1>1 DEF RecordCompleted, FailureReports
<1>5. SameRuns
  BY <1>2, <1>4 DEF SameRuns, Running, Owns
<1>6. Owns(m.caller, m.id) /\ m.caller \in Workers /\ OutputComplete(m.id)
  BY <1>1, ReporterOwns DEF PublishInv, PublishedSoFar
<1>7. status[m.id] \in {"PROCESSING", "COMPLETED"}
  BY <1>1, <1>6 DEF OwnerInv
<1>8. CASE status[m.id] = "COMPLETED"
  BY <1>2, <1>3, <1>5, <1>8, StutterMaps
<1>9. CASE status[m.id] = "PROCESSING"
  <2>1. \A u \in Ids : OutputComplete(u)' <=> OutputComplete(u)
    BY <1>2 DEF OutputComplete
  <2>2. Lifecycle!Complete(m.id)
    BY <1>1, <1>3, <1>5, <1>6, <1>9, <2>1
       DEF Lifecycle!Complete, Lifecycle!Move, SameRuns, Running
  <2> QED
    BY <1>1, <2>2 DEF Lifecycle!Next
<1> QED
  BY <1>7, <1>8, <1>9

(* The transaction of a FAILED report ends the attempt it reports on.      *)
LEMMA FailedMaps ==
    ASSUME RecoverySweep = FALSE, Inductive, ServeFailed
    PROVE  Lifecycle!Next
<1> USE DEF Inductive, TypeOK, ApiTypeOK, StoreTypeOK
<1> PICK m \in requests : RecordFailed(m)
  BY DEF ServeFailed
<1>1. m.type = "FAILED" /\ m.id \in Ids /\ m \in FailureReports(m.id)
  BY DEF RecordFailed, FailureReports
<1>2. UNCHANGED <<pc, job, final>>
  BY DEF ServeFailed, workerVars, storageVars
<1>3. status' = [status EXCEPT ![m.id] = "FAILED"]
  BY <1>1, UpdateType DEF RecordFailed
<1>4. m.caller \in Workers /\ replies[m.caller] = NoReply /\ NoReply.type # "job"
  BY DEF ReportInv, CallDiscipline, OneCall, SentBy, NoReply
<1>5. \A v \in Workers :
          \/ v # m.caller /\ replies'[v] = replies[v]
          \/ v = m.caller /\ replies'[v].type = "ok"
  BY <1>4, ProcessAssumption DEF RecordFailed, Answer, PlainReply
<1>6. \A v \in Workers, u \in Ids : Owns(v, u)' <=> Owns(v, u)
  BY <1>2, <1>4, <1>5 DEF Owns
<1>7. \A u \in Ids : FailureReports(u)' = FailureReports(u) \ {m}
  BY DEF RecordFailed, FailureReports
<1>8. /\ \A u \in Ids \ {m.id} : Running(u)' <=> Running(u)
      /\ Running(m.id) /\ ~Running(m.id)'
  <2>1. \A u \in Ids \ {m.id} : m \notin FailureReports(u)
    BY DEF FailureReports
  <2>2. FailureReports(m.id)' = {} /\ \A v \in Workers : ~Owns(v, m.id)'
    BY <1>1, <1>6, <1>7 DEF Alone
  <2> QED
    BY <1>1, <1>6, <1>7, <2>1, <2>2 DEF Running
<1>9. status[m.id] \in {"PROCESSING", "COMPLETED"}
  BY <1>1, <1>8 DEF OneAttempt, SingleAttempt, Quiet, ProcessingStatus
<1>10. \A u \in Ids : OutputComplete(u)' <=> OutputComplete(u)
  BY <1>2 DEF OutputComplete
<1>11. Lifecycle!Fail(m.id)
  BY <1>1, <1>3, <1>8, <1>9, <1>10 DEF Lifecycle!Fail, Lifecycle!Move
<1> QED
  BY <1>1, <1>11 DEF Lifecycle!Next

(* An answer other than a granted claim leaves the owners as they are: its *)
(* caller had no answer before.                                            *)
LEMMA PlainAnswerKeeps ==
    ASSUME Inductive, NEW m \in Request, NEW t \in {"empty", "ok", "error"},
           Answer(m, PlainReply(t)), UNCHANGED workerVars,
           m.caller \in Workers => replies[m.caller] = NoReply,
           NEW v \in Workers, NEW u \in Ids
    PROVE  Owns(v, u)' <=> Owns(v, u)
<1>1. \/ replies'[v] = replies[v]
      \/ replies[v] = NoReply /\ replies'[v].type = t
  BY DEF Inductive, TypeOK, ApiTypeOK, Answer, PlainReply, Request
<1>2. NoReply.type # "job"
  BY DEF NoReply
<1> QED
  BY <1>1, <1>2 DEF Owns, workerVars

(* The second transaction of a COMPLETED report changes no attempt.        *)
LEMMA FinishMaps ==
    ASSUME Inductive, NEW r \in Replicas, FinishCompleted(r)
    PROVE  UNCHANGED Lifecycle!vars
<1> USE DEF Inductive, TypeOK, ApiTypeOK
<1>1. handler[r] \in Request /\ UNCHANGED workerVars
  BY DEF FinishCompleted, StoreRenditions, RenditionsBusy, Free
<1>2. \E t \in {"empty", "ok", "error"} : Answer(handler[r], PlainReply(t))
  BY DEF FinishCompleted, StoreRenditions, RenditionsBusy
<1>3. handler[r].caller \in Workers => replies[handler[r].caller] = NoReply
  BY DEF CallDiscipline, OneCall
<1>4. \A v \in Workers, u \in Ids : Owns(v, u)' <=> Owns(v, u)
  BY <1>1, <1>2, <1>3, PlainAnswerKeeps
<1>5. \A u \in Ids : FailureReports(u)' = FailureReports(u)
  BY DEF FinishCompleted, StoreRenditions, RenditionsBusy, FailureReports
<1>6. SameRuns
  BY <1>4, <1>5 DEF SameRuns, Running
<1>7. UNCHANGED <<status, final>>
  BY DEF FinishCompleted, StoreRenditions, SetRenditions, RenditionsBusy, storeVars,
     storageVars
<1> QED
  BY <1>6, <1>7, StutterMaps

(* A call that is answered without a transaction ends an attempt if it is  *)
(* a FAILED report: the worker does not send it again.                     *)
LEMMA RefusalMaps ==
    ASSUME Inductive, ServeEmpty \/ ServeBusy
    PROVE  [Lifecycle!Next]_(Lifecycle!vars)
<1> USE DEF Inductive, TypeOK, ApiTypeOK
<1> PICK m \in requests : NothingToClaim(m) \/ RejectBusy(m)
  BY DEF ServeEmpty, ServeBusy
<1>1. m \in Request /\ UNCHANGED workerVars /\ UNCHANGED <<status, final>>
  BY DEF ServeEmpty, ServeBusy, NothingToClaim, RejectBusy, storeVars, storageVars
<1>2. \E t \in {"empty", "ok", "error"} : Answer(m, PlainReply(t))
  BY DEF NothingToClaim, RejectBusy
<1>3. m.caller \in Workers => replies[m.caller] = NoReply
  BY DEF CallDiscipline, OneCall, SentBy
<1>4. \A v \in Workers, u \in Ids : Owns(v, u)' <=> Owns(v, u)
  BY <1>1, <1>2, <1>3, PlainAnswerKeeps
<1>5. \A u \in Ids : FailureReports(u)' = FailureReports(u) \ {m}
  BY DEF NothingToClaim, RejectBusy, FailureReports
<1>6. CASE m.type # "FAILED"
  <2>1. \A u \in Ids : FailureReports(u)' = FailureReports(u)
    BY <1>5, <1>6 DEF FailureReports
  <2>2. SameRuns
    BY <1>4, <2>1 DEF SameRuns, Running
  <2> QED
    BY <1>1, <2>2, StutterMaps
<1>7. CASE m.type = "FAILED"
  <2>1. m.id \in Ids
    BY <1>7
  <2>2. m \in FailureReports(m.id) /\ \A u \in Ids \ {m.id} : m \notin FailureReports(u)
    BY <1>7 DEF FailureReports
  <2>3. FailureReports(m.id)' = {} /\ \A v \in Workers : ~Owns(v, m.id)'
    BY <1>4, <1>5, <2>1, <2>2 DEF Alone
  <2>4. EndsRun(m.id)
    BY <1>4, <1>5, <2>1, <2>2, <2>3 DEF EndsRun, Running
  <2> QED
    BY <1>1, <2>1, <2>4, EndMaps
<1> QED
  BY <1>6, <1>7

(* Users and crashing replicas do not touch attempts or output.            *)
LEMMA OutsideMaps ==
    ASSUME Inductive,
           \/ UNCHANGED vars
           \/ \E id \in Ids : UserRetry(id) \/ Intake(id)
           \/ \E r \in Replicas :
                  CrashBackend(r) \/ \E id \in Ids : UserUpload(r, id)
    PROVE  [Lifecycle!Next]_(Lifecycle!vars)
<1> USE DEF Inductive, TypeOK, StoreTypeOK
<1>1. UNCHANGED <<pc, job, requests, replies, final>>
  BY DEF vars, UserRetry, Retry, Intake, IntakeStep, StreamEnds, StreamBreaks, Reject,
     Accept, AcceptFails, SafeUnlink, WriteOriginal, CrashBackend, LoseHandler,
     UserUpload, BeginUpload, workerVars, apiVars, storageVars
<1>2. SameRuns
  BY <1>1 DEF SameRuns, Running, Owns, FailureReports
<1>3. \A u \in Ids : OutputComplete(u)' <=> OutputComplete(u)
  BY <1>1 DEF OutputComplete
<1>4. CASE UNCHANGED status
  BY <1>1, <1>2, <1>4, StutterMaps
<1>5. ASSUME NEW id \in Ids, UserRetry(id)
      PROVE  Lifecycle!Next
  <2>1. status[id] = "FAILED" /\ status' = [status EXCEPT ![id] = "PENDING"]
    BY <1>5 DEF UserRetry, Retry, RetryProcessing
  <2>2. Lifecycle!Retry(id)
    BY <1>2, <1>3, <2>1 DEF Lifecycle!Retry, Lifecycle!Move, SameRuns
  <2> QED
    BY <2>2 DEF Lifecycle!Next
<1>6. ASSUME NEW id \in Ids, Accept(id)
      PROVE  Lifecycle!Next
  <2>1. status[id] = "NO_ROW" /\ status' = [status EXCEPT ![id] = "PENDING"]
    BY <1>6 DEF Accept, CreateUpload, Exists, NoRow
  <2>2. Lifecycle!Upload(id)
    BY <1>2, <1>3, <2>1 DEF Lifecycle!Upload, Lifecycle!Move, SameRuns
  <2> QED
    BY <2>2 DEF Lifecycle!Next
<1>7. ASSUME NEW id \in Ids, Intake(id)
      PROVE  Accept(id) \/ UNCHANGED status
  BY <1>7 DEF Intake, IntakeStep, StreamEnds, StreamBreaks, Reject, AcceptFails,
     storeVars
<1>8. ASSUME NEW r \in Replicas, CrashBackend(r) \/ \E id \in Ids : UserUpload(r, id)
      PROVE  UNCHANGED status
  BY <1>8 DEF CrashBackend, UserUpload, BeginUpload, storeVars
<1> QED
  BY <1>4, <1>5, <1>6, <1>7, <1>8 DEF vars, storeVars

-----------------------------------------------------------------------------
(* Every step of the platform is a step of the lifecycle of one upload, or *)
(* none: an upload is claimed from PENDING by one attempt at a time, only  *)
(* that attempt publishes, completes or fails it, and COMPLETED means that *)
(* the whole output is published.                                          *)
THEOREM ImplementsLifecycle ==
    RecoverySweep = FALSE /\ "lateRequest" \notin Faults => (Spec => LifecycleSpec)
<1> SUFFICES ASSUME RecoverySweep = FALSE, "lateRequest" \notin Faults
             PROVE  Spec => LifecycleSpec
  OBVIOUS
<1>1. Init => Lifecycle!Init
  <2> SUFFICES ASSUME Init
               PROVE  Lifecycle!Init
    OBVIOUS
  <2>1. \A u \in Ids : ~Running(u)
    BY DEF Init, ApiInit, WorkerInit, Running, Owns, NoReply, FileWork, Reporting,
       Failing, FailureReports
  <2>2. \A u \in Ids : ~OutputComplete(u)
    <3>1. Thumbnail \in Slots
      BY LadderAssumption DEF Thumbnail, Slots
    <3> QED
      BY <3>1 DEF Init, StorageInit, OutputComplete, Outputs, NoFiles
  <2> QED
    BY <2>1, <2>2 DEF Init, StoreInit, NoRow, Lifecycle!Init
<1>2. Inductive /\ [Next]_vars => [Lifecycle!Next]_(Lifecycle!vars)
  <2> SUFFICES ASSUME Inductive, [Next]_vars
               PROVE  [Lifecycle!Next]_(Lifecycle!vars)
    OBVIOUS
  <2>1. ~Sweep /\ ~ClockTick
    BY DEF Sweep, ClockTick
  <2> QED
    BY <2>1, WorkerMaps, GrantMaps, CompletedMaps, FailedMaps, FinishMaps, RefusalMaps,
       OutsideMaps DEF Next
<1>3. NoRivals
  BY DEF NoRivals
<1> QED
  BY <1>1, <1>2, <1>3, InductiveHolds, PTL DEF Spec, LifecycleSpec, Lifecycle!Spec

-----------------------------------------------------------------------------
(* What JobLifecycle promises, and with it the platform.                   *)
LifecycleInv == Lifecycle!TypeOK /\ Lifecycle!Promise

(* Each step of the lifecycle keeps its promise: only the running attempt  *)
(* moves a row on from PROCESSING, and only in PROCESSING may the output   *)
(* change.                                                                 *)
LEMMA LifecycleInvStep ==
    ASSUME LifecycleInv, [Lifecycle!Next]_(Lifecycle!vars)
    PROVE  LifecycleInv'
<1> DEFINE run == {u \in Ids : Running(u)}
           pub == {u \in Ids : OutputComplete(u)}
<1> USE DEF LifecycleInv, Lifecycle!TypeOK, Lifecycle!Promise
<1>1. CASE UNCHANGED Lifecycle!vars
  BY <1>1 DEF Lifecycle!vars
<1>2. ASSUME NEW x \in Ids,
             \/ Lifecycle!Upload(x) \/ Lifecycle!Claim(x) \/ Lifecycle!Publish(x)
             \/ Lifecycle!Complete(x) \/ Lifecycle!Fail(x)
             \/ Lifecycle!EndAttempt(x) \/ Lifecycle!Retry(x)
      PROVE  LifecycleInv'
  <2>1. status' \in [Ids -> {"NO_ROW", "PENDING", "PROCESSING", "COMPLETED", "FAILED"}]
    BY <1>2 DEF Lifecycle!Upload, Lifecycle!Claim, Lifecycle!Publish,
       Lifecycle!Complete, Lifecycle!Fail, Lifecycle!EndAttempt, Lifecycle!Retry,
       Lifecycle!Move
  <2>2. ASSUME NEW u \in Ids
        PROVE  /\ u \in run' => status'[u] \in {"PROCESSING", "COMPLETED"}
               /\ status'[u] = "COMPLETED" => u \in pub'
    BY <1>2 DEF Lifecycle!Upload, Lifecycle!Claim, Lifecycle!Publish,
       Lifecycle!Complete, Lifecycle!Fail, Lifecycle!EndAttempt, Lifecycle!Retry,
       Lifecycle!Move
  <2> QED
    BY <2>1, <2>2
<1> QED
  BY <1>1, <1>2 DEF Lifecycle!Next

(* No attempt is under way for a row that waits, has failed or does not    *)
(* exist, and a COMPLETED row has its whole output: the promise of the     *)
(* abstract lifecycle, which the platform keeps because it implements it.  *)
THEOREM LifecyclePromiseKept ==
    RecoverySweep = FALSE /\ "lateRequest" \notin Faults
        => (Spec => []Lifecycle!Promise)
<1> SUFFICES ASSUME RecoverySweep = FALSE, "lateRequest" \notin Faults
             PROVE  Spec => []Lifecycle!Promise
  OBVIOUS
<1>1. Lifecycle!Init => LifecycleInv
  BY DEF Lifecycle!Init, LifecycleInv, Lifecycle!TypeOK, Lifecycle!Promise
<1>2. LifecycleInv => Lifecycle!Promise
  BY DEF LifecycleInv
<1>3. Spec => LifecycleSpec
  BY ImplementsLifecycle
<1> QED
  BY <1>1, <1>2, <1>3, LifecycleInvStep, PTL DEF LifecycleSpec, Lifecycle!Spec

-----------------------------------------------------------------------------
(* With the list of silent attempts the platform is the same platform.     *)
LEMMA HistoryStepIsStep ==
    ASSUME [HistoryNext]_historyVars
    PROVE  [Next]_vars
<1>1. CASE UNCHANGED historyVars
  BY <1>1 DEF historyVars
<1>2. ASSUME NEW w \in Workers, Speaks(w) \/ FallsSilent(w)
      PROVE  Next
  BY <1>2 DEF Speaks, FallsSilent, Next, WorkerStep
<1>3. CASE HistoryNext
  BY <1>2, <1>3 DEF HistoryNext, OtherSteps, ReportRefused, Next
<1> QED
  BY <1>1, <1>3

LEMMA HistorySpecIsSpec == HistorySpec => Spec
<1>1. HistoryInit => Init
  BY DEF HistoryInit
<1>2. [HistoryNext]_historyVars => [Next]_vars
  BY HistoryStepIsStep
<1> QED
  BY <1>1, <1>2, PTL DEF HistorySpec, Spec

(* A step of worker w, with its entry in the list.                         *)
WorkerWrites(w) ==
    \/ Speaks(w) /\ UNCHANGED unreported
    \/ FallsSilent(w)

LEMMA WorkerWritesStep ==
    ASSUME NEW w \in Workers, WorkerWrites(w)
    PROVE  WorkerStep(w) \/ CrashWorker(w)
  BY DEF WorkerWrites, Speaks, FallsSilent, WorkerStep

(* A worker that speaks withdraws no FAILED report.                        *)
LEMMA SpeakerKeepsReports ==
    ASSUME Inductive, NEW w \in Workers, Speaks(w), "lateRequest" \notin Faults,
           NEW id \in Ids
    PROVE  FailureReports(id) \subseteq FailureReports(id)'
<1>1. CASE CallFails(w) /\ pc[w] = "reporting"
  <2>1. requests' = requests \ SentBy(w)
    BY <1>1 DEF CallFails, HangUp
  <2>2. \A m \in SentBy(w) : m.type = "COMPLETED"
    BY <1>1 DEF Inductive, CallDiscipline, OneCall, Awaits
  <2> QED
    BY <2>1, <2>2 DEF FailureReports
<1>2. CASE ~(CallFails(w) /\ pc[w] = "reporting")
  <2>1. requests \subseteq requests'
    BY <1>2 DEF Speaks, CallClaimNext, ReceiveJob, ReceiveNothing, WorkFiles,
       ReportCompleted, ReportFailed, ReceiveAccepted, ReceiveError, Send, TakeReply,
       apiVars
  <2> QED
    BY <2>1 DEF FailureReports
<1> QED
  BY <1>1, <1>2

(* A worker that falls silent with a job in hand is on the list.           *)
LEMMA SilenceIsListed ==
    ASSUME NEW w \in Workers, FallsSilent(w), NEW id \in Ids, HoldsToken(w, id)
    PROVE  id \in unreported'
  BY DEF FallsSilent, AtStake, HoldsToken

-----------------------------------------------------------------------------
(* A replica is inside the report of a worker about the job it still holds. *)
HandlerInv ==
    \A r \in Replicas :
        handler[r].caller \in Workers => handler[r].id = job[handler[r].caller]

(* Worker w has not seen its COMPLETED report on id succeed, or knows that *)
(* it did not.                                                             *)
Unsettled(w, id) ==
    /\ job[w] = id
    /\ \/ pc[w] = "reporting" /\ replies[w].type # "ok"
       \/ pc[w] \in Failing

(* Somebody will report id FAILED, or cannot any more.                     *)
Open(id) ==
    \/ \E w \in Workers : Unsettled(w, id)
    \/ FailureReports(id) # {}
    \/ id \in unreported

(* The inductive form of IncompleteMetadataIsTransient.                    *)
MetadataInv ==
    \A id \in Ids :
        status[id] = "COMPLETED" /\ renditionRows[id] # Renditions(id) => Open(id)

(* A worker that a replica is busy for does not leave its job without      *)
(* hanging up.                                                             *)
LEMMA HandlerStep ==
    ASSUME "lateRequest" \notin Faults, Inductive, HandlerInv, [Next]_vars
    PROVE  HandlerInv'
<1> USE DEF Inductive, TypeOK, ApiTypeOK
<1>1. ASSUME NEW w \in Workers, WorkerStep(w) \/ CrashWorker(w)
      PROVE  HandlerInv'
  <2>1. ASSUME NEW r \in Replicas, handler'[r].caller \in Workers
        PROVE  handler'[r].id = job'[handler'[r].caller]
    <3>1. handler'[r] = handler[r]
      BY <1>1, <2>1, ProcessAssumption DEF WorkerStep, CallClaimNext,
         ReceiveJob, ReceiveNothing, WorkFiles, ReportCompleted, ReportFailed,
         ReceiveAccepted, ReceiveError, CallFails, CrashWorker, Send, TakeReply,
         HangUp, apiVars, Orphaned, Request, NoRequest
    <3>2. CASE handler[r].caller # w
      BY <1>1, <2>1, <3>1, <3>2, OthersStay DEF HandlerInv
    <3>3. CASE handler[r].caller = w
      <4>1. pc[w] = "reporting" /\ replies[w] = NoReply
        BY <3>3 DEF CallDiscipline, OneCall
      <4>2. ~CallFails(w) /\ ~CrashWorker(w)
        BY <2>1, <3>1, <3>3, ProcessAssumption
           DEF CallFails, CrashWorker, HangUp, Orphaned, Request, NoRequest
      <4>3. job'[w] = job[w]
        BY <1>1, <3>3, <4>1, <4>2 DEF WorkerStep, CallClaimNext, Poll, ReceiveJob,
           ReceiveNothing, WorkFiles, FileStep, CleanStaging, Probe, StartOutput,
           FinishOutput, ClearFinal, MoveOutput, DiscardStaging, StepThrows,
           CatchCleanup, FileWork, ReportCompleted, SendCompleted, ReportFailed,
           SendFailed, ReceiveAccepted, ReceiveError, NoReply
      <4> QED
        BY <2>1, <3>1, <3>3, <4>3 DEF HandlerInv
    <3> QED
      BY <3>2, <3>3
  <2> QED
    BY <2>1 DEF HandlerInv
<1>2. ASSUME NEW r \in Replicas, ServeCompleted(r)
      PROVE  HandlerInv'
  BY <1>2 DEF ServeCompleted, RecordCompleted, ReportInv, HandlerInv, workerVars
<1>3. ASSUME NEW r \in Replicas, FinishCompleted(r) \/ CrashBackend(r)
      PROVE  HandlerInv'
  <2>1. handler' = [handler EXCEPT ![r] = NoRequest] /\ UNCHANGED job
    BY <1>3 DEF FinishCompleted, StoreRenditions, RenditionsBusy, CrashBackend,
       LoseHandler, workerVars
  <2> QED
    BY <2>1, ProcessAssumption DEF HandlerInv, NoRequest
<1>4. ASSUME \/ UNCHANGED vars
             \/ \E id \in Ids : Grant(id) \/ UserRetry(id) \/ Intake(id)
             \/ \E r \in Replicas, id \in Ids : UserUpload(r, id)
             \/ ServeEmpty \/ ServeFailed \/ ServeBusy \/ Sweep \/ ClockTick
      PROVE  UNCHANGED <<handler, job>>
  BY <1>4 DEF vars, Grant, GrantClaim, UserRetry, Retry, Intake, UserUpload,
     ServeEmpty, NothingToClaim, ServeFailed, RecordFailed, ServeBusy, RejectBusy,
     Sweep, ClockTick, apiVars, workerVars
<1>5. CASE UNCHANGED <<handler, job>>
  BY <1>5 DEF HandlerInv
<1> QED
  BY <1>1, <1>2, <1>3, <1>4, <1>5 DEF Next

(* A worker with an unsettled report goes on to report the failure, or     *)
(* falls silent.                                                           *)
LEMMA WorkerSettles ==
    ASSUME "lateRequest" \notin Faults, Inductive,
           NEW w \in Workers, WorkerWrites(w), NEW id \in Ids, Open(id)
    PROVE  Open(id)'
<1> USE DEF Inductive, TypeOK, ApiTypeOK, WorkerTypeOK
<1>1. WorkerStep(w) \/ CrashWorker(w)
  BY WorkerWritesStep
<1>2. CASE id \in unreported
  BY <1>2 DEF WorkerWrites, FallsSilent, Open
<1>3. CASE HoldsToken(w, id) /\ FallsSilent(w)
  BY <1>3, SilenceIsListed DEF Open
<1>4. CASE FailureReports(id) # {}
  <2>1. CASE Speaks(w)
    BY <1>4, <2>1, SpeakerKeepsReports DEF Open
  <2>2. ASSUME FallsSilent(w), NEW m \in FailureReports(id), m.caller # w
        PROVE  m \in FailureReports(id)'
    BY <2>2 DEF FallsSilent, CallFails, CrashWorker, HangUp, FailureReports, SentBy
  <2> QED
    BY <1>3, <1>4, <2>1, <2>2 DEF WorkerWrites, HoldsToken, Open
<1>5. ASSUME NEW v \in Workers, v # w, Unsettled(v, id)
      PROVE  Unsettled(v, id)'
  <2>1. replies'[v] = replies[v]
    BY <1>1, <1>5 DEF WorkerStep, CallClaimNext, ReceiveJob, ReceiveNothing, WorkFiles,
       ReportCompleted, ReportFailed, ReceiveAccepted, ReceiveError, CallFails,
       CrashWorker, Send, TakeReply, HangUp, apiVars
  <2> QED
    BY <1>1, <1>5, <2>1, OthersStay DEF Unsettled
<1>6. ASSUME Unsettled(w, id), Speaks(w), pc[w] = "reporting"
      PROVE  Unsettled(w, id)'
  <2>1. replies[w].type \notin {"job", "empty", "ok"}
    BY <1>6 DEF Unsettled, CallDiscipline, OneCall, Failing
  <2>2. ReceiveError(w) \/ CallFails(w)
    BY <1>6, <2>1 DEF Speaks, CallClaimNext, Poll, ReceiveJob, ReceiveNothing,
       WorkFiles, FileStep, CleanStaging, Probe, StartOutput, FinishOutput, ClearFinal,
       MoveOutput, DiscardStaging, StepThrows, CatchCleanup, FileWork,
       ReportCompleted, SendCompleted, ReportFailed, SendFailed, ReceiveAccepted
  <2> QED
    BY <1>6, <2>2 DEF ReceiveError, CallFails, CallThrows, Goto, Unsettled, Failing
<1>7. ASSUME Unsettled(w, id), Speaks(w), pc[w] \in Failing
      PROVE  Unsettled(w, id)' \/ FailureReports(id)' # {}
  <2>1. replies[w] = NoReply /\ NoReply.type \notin {"job", "empty", "ok", "error"}
    BY <1>7 DEF CallDiscipline, OneCall, Calling, Failing, NoReply
  <2>2. CASE ReportFailed(w)
    <3> DEFINE m == ResultRequest(w, "FAILED")
    <3>1. m \in requests'
      BY <2>2 DEF ReportFailed, Send
    <3>2. m.type = "FAILED" /\ m.id = id
      BY <1>7 DEF ResultRequest, Unsettled
    <3> HIDE DEF m
    <3> QED
      BY <3>1, <3>2 DEF FailureReports
  <2>3. CASE WorkFiles(w)
    BY <1>7, <2>3 DEF WorkFiles, FileStep, CleanStaging, Probe, StartOutput,
       FinishOutput, ClearFinal, MoveOutput, DiscardStaging, StepThrows, CatchCleanup,
       FileWork, Goto, Unsettled, Failing
  <2>4. WorkFiles(w) \/ ReportFailed(w)
    BY <1>7, <2>1 DEF Speaks, CallClaimNext, Poll, ReceiveJob, ReceiveNothing,
       ReportCompleted, SendCompleted, ReceiveAccepted, ReceiveError, CallFails,
       CallThrows, Calling, Failing
  <2> QED
    BY <2>2, <2>3, <2>4
<1>8. Unsettled(w, id) => HoldsToken(w, id)
  BY DEF Unsettled, HoldsToken, Owns, Reporting
<1>9. CASE Unsettled(w, id)
  BY <1>3, <1>6, <1>7, <1>8, <1>9 DEF WorkerWrites, Unsettled, Open
<1> QED
  BY <1>2, <1>4, <1>5, <1>9 DEF Open

(* A backend answers "ok" to a COMPLETED report only when the rendition    *)
(* rows are there.                                                         *)
LEMMA MetadataStep ==
    ASSUME "lateRequest" \notin Faults, Inductive, HandlerInv, MetadataInv,
           [HistoryNext]_historyVars
    PROVE  MetadataInv'
<1> USE DEF Inductive, TypeOK, ApiTypeOK, StoreTypeOK, WorkerTypeOK
<1> SUFFICES ASSUME NEW id \in Ids, status'[id] = "COMPLETED",
                    renditionRows'[id] # Renditions(id)
             PROVE  Open(id)'
  BY DEF MetadataInv, Renditions
<1>1. ASSUME status[id] = "COMPLETED", renditionRows[id] # Renditions(id)
      PROVE  Open(id)
  BY <1>1 DEF MetadataInv
<1>2. ASSUME Open(id), UNCHANGED <<pc, job>>,
             \A w \in Workers : pc[w] = "reporting" /\ job[w] = id /\ replies'[w].type = "ok"
                                   => replies[w].type = "ok",
             FailureReports(id) \subseteq FailureReports(id)' \/ id \in unreported',
             id \in unreported => id \in unreported'
      PROVE  Open(id)'
  BY <1>2 DEF Unsettled, Open
<1>3. ASSUME NEW w \in Workers, WorkerWrites(w)
      PROVE  Open(id)'
  <2>1. WorkerStep(w) \/ CrashWorker(w)
    BY <1>3, WorkerWritesStep
  <2>2. UNCHANGED <<status, renditionRows>>
    BY <2>1 DEF WorkerStep, CallClaimNext, ReceiveJob, ReceiveNothing, WorkFiles,
       ReportCompleted, ReportFailed, ReceiveAccepted, ReceiveError, CallFails,
       CrashWorker, storeVars
  <2> QED
    BY <1>1, <1>3, <2>2, WorkerSettles
<1>4. ASSUME NEW u \in Ids, Grant(u), unreported' = unreported \ {u}
      PROVE  Open(id)'
  <2> PICK m \in requests : GrantClaim(m, u)
    BY <1>4 DEF Grant
  <2>1. Open(id) /\ id # u
    BY <1>1 DEF GrantClaim, ClaimNext
  <2>2. \A w \in Workers : replies'[w] = replies[w] \/ replies'[w].type = "job"
    BY DEF GrantClaim, Answer
  <2>3. FailureReports(id) \subseteq FailureReports(id)' /\ UNCHANGED <<pc, job>>
    BY <1>4 DEF Grant, GrantClaim, FailureReports, workerVars
  <2> QED
    BY <1>2, <1>4, <2>1, <2>2, <2>3
<1>5. ASSUME NEW r \in Replicas, ServeCompleted(r), UNCHANGED unreported
      PROVE  Open(id)'
  <2> PICK m \in requests : RecordCompleted(r, m)
    BY <1>5 DEF ServeCompleted
  <2>1. m.type = "COMPLETED" /\ m.id \in Ids /\ UNCHANGED <<pc, job, replies>>
    BY <1>5 DEF RecordCompleted, ServeCompleted, workerVars
  <2>2. status' = [status EXCEPT ![m.id] = "COMPLETED"] /\ UNCHANGED renditionRows
    BY <2>1, UpdateType DEF RecordCompleted, UpdateUpload
  <2>3. CASE m.id = id
    <3>1. /\ m.caller \in Workers /\ pc[m.caller] = "reporting" /\ job[m.caller] = id
          /\ replies[m.caller] = NoReply
      BY <2>1, <2>3, ReporterOwns DEF CallDiscipline, OneCall, SentBy
    <3> QED
      BY <2>1, <3>1 DEF Unsettled, NoReply, Open
  <2>4. CASE m.id # id
    <3>1. Open(id)
      BY <1>1, <2>1, <2>2, <2>4
    <3>2. FailureReports(id) \subseteq FailureReports(id)'
      BY <2>1 DEF RecordCompleted, FailureReports
    <3> QED
      BY <1>2, <1>5, <2>1, <3>1, <3>2
  <2> QED
    BY <2>3, <2>4
<1>6. ASSUME NEW r \in Replicas, FinishCompleted(r), UNCHANGED unreported
      PROVE  Open(id)'
  <2>1. handler[r] \in Request /\ UNCHANGED <<pc, job, requests>>
    BY <1>6 DEF FinishCompleted, RenditionsBusy, StoreRenditions, Free, workerVars
  <2>2. FailureReports(id) \subseteq FailureReports(id)'
    BY <2>1 DEF FailureReports
  <2>3. CASE RenditionsBusy(r)
    <3>1. Open(id)
      BY <1>1, <2>3 DEF RenditionsBusy, storeVars
    <3>2. \A w \in Workers : replies'[w] = replies[w] \/ replies'[w].type = "error"
      BY <2>3 DEF RenditionsBusy, Answer, PlainReply
    <3> QED
      BY <1>2, <1>6, <2>1, <2>2, <3>1, <3>2
  <2>4. CASE StoreRenditions(r)
    <3>1. /\ renditionRows' = [renditionRows EXCEPT ![handler[r].id] =
                                                        Renditions(handler[r].id)]
          /\ UNCHANGED status
      BY <2>4 DEF StoreRenditions, SetRenditions
    <3>2. id # handler[r].id
      BY <3>1
    <3>3. Open(id)
      BY <1>1, <3>1, <3>2
    <3>4. \A w \in Workers : job[w] = id => replies'[w] = replies[w]
      BY <2>1, <2>4, <3>2 DEF StoreRenditions, Answer, HandlerInv, Request
    <3> QED
      BY <1>2, <1>6, <2>1, <2>2, <3>3, <3>4
  <2> QED
    BY <1>6, <2>3, <2>4 DEF FinishCompleted
<1>7. ASSUME ServeFailed, UNCHANGED unreported
      PROVE  Open(id)'
  <2> PICK m \in requests : RecordFailed(m)
    BY <1>7 DEF ServeFailed
  <2>1. m.type = "FAILED" /\ m.id \in Ids /\ UNCHANGED <<pc, job>>
    BY <1>7 DEF RecordFailed, ServeFailed, workerVars
  <2>2. status' = [status EXCEPT ![m.id] = "FAILED"] /\ UNCHANGED renditionRows
    BY <2>1, UpdateType DEF RecordFailed, UpdateUpload
  <2>3. Open(id) /\ m.id # id
    BY <1>1, <2>1, <2>2
  <2>4. m.caller \in Workers /\ pc[m.caller] = "reportingFailure"
    BY <2>1 DEF ReportInv, CallDiscipline, OneCall, SentBy, Awaits
  <2>5. \A w \in Workers : pc[w] = "reporting" => replies'[w] = replies[w]
    BY <2>4 DEF RecordFailed, Answer
  <2>6. FailureReports(id) \subseteq FailureReports(id)'
    BY <2>3 DEF RecordFailed, FailureReports
  <2> QED
    BY <1>2, <1>7, <2>1, <2>3, <2>5, <2>6
<1>8. ASSUME \/ ServeEmpty /\ UNCHANGED unreported
             \/ ReportRefused
      PROVE  Open(id)'
  <2> PICK m \in requests : NothingToClaim(m) \/ RejectBusy(m)
    BY <1>8 DEF ServeEmpty, ReportRefused, ServeBusy
  <2>1. UNCHANGED <<pc, job, status, renditionRows>>
    BY <1>8 DEF ServeEmpty, ReportRefused, ServeBusy, NothingToClaim, RejectBusy,
       workerVars, storeVars
  <2>2. \A w \in Workers : replies'[w] = replies[w] \/ replies'[w].type \in {"empty", "error"}
    BY DEF NothingToClaim, RejectBusy, Answer, PlainReply
  <2>3. FailureReports(id) \subseteq FailureReports(id)' \/ id \in unreported'
    BY <1>8 DEF ServeEmpty, NothingToClaim, ReportRefused, FailureReports
  <2>4. id \in unreported => id \in unreported'
    BY <1>8 DEF ReportRefused
  <2> QED
    BY <1>1, <1>2, <2>1, <2>2, <2>3, <2>4
<1>9. ASSUME \/ UNCHANGED vars
             \/ \E u \in Ids : UserRetry(u) \/ Intake(u)
             \/ \E r \in Replicas :
                    CrashBackend(r) \/ \E u \in Ids : UserUpload(r, u)
             \/ Sweep \/ ClockTick,
             UNCHANGED unreported
      PROVE  Open(id)'
  <2>1. UNCHANGED <<pc, job, replies, requests, renditionRows>>
    BY <1>9 DEF vars, UserRetry, Retry, RetryProcessing, Intake, IntakeStep, StreamEnds,
       StreamBreaks, Reject, Accept, AcceptFails, CreateUpload, CrashBackend,
       LoseHandler, UserUpload, BeginUpload, Sweep, ResetStuckProcessing, ClockTick,
       Tick, workerVars, apiVars, storeVars
  <2>2. status[id] = "COMPLETED"
    BY <1>9 DEF vars, UserRetry, Retry, RetryProcessing, Intake, IntakeStep, StreamEnds,
       StreamBreaks, Reject, Accept, AcceptFails, CreateUpload, CrashBackend,
       UserUpload, BeginUpload, Sweep, ResetStuckProcessing, ClockTick, Tick, storeVars
  <2> QED
    BY <1>1, <1>2, <1>9, <2>1, <2>2 DEF FailureReports
<1>10. CASE UNCHANGED historyVars
  BY <1>9, <1>10 DEF historyVars
<1>11. CASE OtherSteps /\ UNCHANGED unreported
  BY <1>3, <1>5, <1>6, <1>7, <1>8, <1>9, <1>11 DEF OtherSteps, WorkerWrites
<1>12. CASE HistoryNext /\ ~(OtherSteps /\ UNCHANGED unreported)
  BY <1>3, <1>4, <1>8, <1>12 DEF HistoryNext, WorkerWrites
<1> QED
  BY <1>10, <1>11, <1>12

(* A COMPLETED record whose rendition rows are missing is in the hands of  *)
(* a worker that is about to report the failure, or that failure is on its *)
(* way, or the attempt ended in silence: for any number of workers and     *)
(* replicas, through every failure, and through sweeps if there is one     *)
(* worker.                                                                 *)
THEOREM IncompleteIsTransient ==
    NoRivals /\ "lateRequest" \notin Faults
        => (HistorySpec => []IncompleteMetadataIsTransient)
<1> SUFFICES ASSUME NoRivals, "lateRequest" \notin Faults
             PROVE  HistorySpec => []IncompleteMetadataIsTransient
  OBVIOUS
<1>1. HistoryInit => HandlerInv /\ MetadataInv
  BY ProcessAssumption DEF HistoryInit, Init, StoreInit, ApiInit, HandlerInv,
     MetadataInv, NoRequest, NoRow
<1>2. Inductive /\ HandlerInv /\ MetadataInv /\ [HistoryNext]_historyVars
          => HandlerInv' /\ MetadataInv'
  BY HandlerStep, MetadataStep, HistoryStepIsStep
<1>3. MetadataInv => IncompleteMetadataIsTransient
  BY DEF MetadataInv, IncompleteMetadataIsTransient, Open, Unsettled, Running, Owns,
     Reporting
<1>4. HistorySpec => []Inductive
  BY HistorySpecIsSpec, InductiveHolds, PTL
<1> QED
  BY <1>1, <1>2, <1>3, <1>4, PTL DEF HistorySpec

-----------------------------------------------------------------------------
(* A worker whose COMPLETED report a replica is inside of, or has accepted, *)
(* holds an upload that is COMPLETED.                                      *)
AnsweredInv ==
    \A w \in Workers :
        pc[w] = "reporting" =>
            \/ status[job[w]] = "COMPLETED"
            \/ /\ replies[w].type # "ok"
               /\ \A r \in Replicas : handler[r].caller # w

(* Once a COMPLETED report is recorded its row changes only when its       *)
(* reporter has read the answer or hung up.                                *)
LEMMA AnsweredStep ==
    ASSUME "lateRequest" \notin Faults, Inductive, AnsweredInv, [Next]_vars
    PROVE  AnsweredInv'
<1> USE DEF Inductive, TypeOK, ApiTypeOK, StoreTypeOK, WorkerTypeOK
<1> SUFFICES ASSUME NEW v \in Workers, pc'[v] = "reporting",
                    \/ replies'[v].type = "ok"
                    \/ \E r \in Replicas : handler'[r].caller = v
             PROVE  status'[job'[v]] = "COMPLETED"
  BY DEF AnsweredInv
<1> DEFINE Answered == \/ replies[v].type = "ok"
                       \/ \E r \in Replicas : handler[r].caller = v
<1>1. ASSUME NEW w \in Workers, WorkerStep(w) \/ CrashWorker(w)
      PROVE  status'[job'[v]] = "COMPLETED"
  <2>1. UNCHANGED status
    BY <1>1 DEF WorkerStep, CallClaimNext, ReceiveJob, ReceiveNothing, WorkFiles,
       ReportCompleted, ReportFailed, ReceiveAccepted, ReceiveError, CallFails,
       CrashWorker, storeVars
  <2>2. \A r \in Replicas : handler'[r].caller = v => handler[r].caller = v
    BY <1>1, ProcessAssumption DEF WorkerStep, CallClaimNext, ReceiveJob,
       ReceiveNothing, WorkFiles, ReportCompleted, ReportFailed, ReceiveAccepted,
       ReceiveError, CallFails, CrashWorker, Send, TakeReply, HangUp, apiVars, Orphaned,
       Request, NoRequest
  <2>3. CASE v # w
    <3>1. pc'[v] = pc[v] /\ job'[v] = job[v]
      BY <1>1, <2>3, OthersStay
    <3>2. replies'[v] = replies[v]
      BY <1>1, <2>3 DEF WorkerStep, CallClaimNext, ReceiveJob, ReceiveNothing,
         WorkFiles, ReportCompleted, ReportFailed, ReceiveAccepted, ReceiveError,
         CallFails, CrashWorker, Send, TakeReply, HangUp, apiVars
    <3> QED
      BY <2>1, <2>2, <3>1, <3>2 DEF AnsweredInv
  <2>4. CASE v = w
    <3>1. ReportCompleted(w)
      BY <1>1, <2>4 DEF WorkerStep, CallClaimNext, Poll, ReceiveJob, StartJob,
         ReceiveNothing, WorkFiles, FileStep, CleanStaging, Probe, StartOutput,
         FinishOutput, ClearFinal, MoveOutput, DiscardStaging, StepThrows,
         CatchCleanup, ReportFailed, SendFailed, ReceiveAccepted, ReportAccepted,
         ReceiveError, CallFails, CallThrows, CrashWorker, Restart, Goto, EndJob
    <3>2. pc[w] = "report" /\ replies'[w] = replies[w]
      BY <3>1 DEF ReportCompleted, SendCompleted, Send
    <3>3. replies[w] = NoReply /\ \A r \in Replicas : handler[r].caller # w
      BY <3>2 DEF CallDiscipline, OneCall, Calling
    <3> QED
      BY <2>2, <2>4, <3>2, <3>3 DEF NoReply
  <2> QED
    BY <2>3, <2>4
<1>2. ASSUME UNCHANGED <<pc, job>>, Answered,
             status[job[v]] = "COMPLETED" => status'[job[v]] = "COMPLETED"
      PROVE  status'[job'[v]] = "COMPLETED"
  BY <1>2 DEF AnsweredInv
<1>3. ASSUME NEW id \in Ids, Grant(id)
      PROVE  status'[job'[v]] = "COMPLETED"
  <2> PICK m \in requests : GrantClaim(m, id)
    BY <1>3 DEF Grant
  <2>1. Answered /\ UNCHANGED <<pc, job>>
    BY <1>3 DEF Grant, GrantClaim, Answer, workerVars
  <2>2. status[id] = "PENDING" /\ status' = [status EXCEPT ![id] = "PROCESSING"]
    BY DEF GrantClaim, ClaimNext, OldestPending
  <2>3. job[v] \in Ids
    BY <2>1
  <2> QED
    BY <1>2, <2>1, <2>2, <2>3
<1>4. ASSUME NEW r \in Replicas, ServeCompleted(r)
      PROVE  status'[job'[v]] = "COMPLETED"
  <2> PICK m \in requests : RecordCompleted(r, m)
    BY <1>4 DEF ServeCompleted
  <2>1. m.type = "COMPLETED" /\ m.id \in Ids /\ UNCHANGED <<pc, job, replies>>
    BY <1>4 DEF RecordCompleted, ServeCompleted, workerVars
  <2>2. status' = [status EXCEPT ![m.id] = "COMPLETED"]
    BY <2>1, UpdateType DEF RecordCompleted
  <2>3. job[v] \in Ids
    BY <2>1
  <2>4. CASE m.caller = v
    BY <2>1, <2>2, <2>4 DEF ReportInv
  <2>5. CASE m.caller # v
    <3>1. Answered
      BY <2>1, <2>5 DEF RecordCompleted
    <3> QED
      BY <1>2, <2>1, <2>2, <2>3, <3>1
  <2> QED
    BY <2>4, <2>5
<1>5. ASSUME NEW r \in Replicas, FinishCompleted(r)
      PROVE  status'[job'[v]] = "COMPLETED"
  <2>1. /\ handler[r] \in Request
        /\ \E t \in {"ok", "error"} : Answer(handler[r], PlainReply(t))
        /\ handler' = [handler EXCEPT ![r] = NoRequest]
        /\ UNCHANGED <<status, pc, job>>
    BY <1>5 DEF FinishCompleted, StoreRenditions, SetRenditions, RenditionsBusy, Free,
       workerVars, storeVars
  <2>2. Answered
    BY <2>1, ProcessAssumption DEF Answer, NoRequest, Request
  <2> QED
    BY <1>2, <2>1, <2>2
<1>6. ASSUME ServeFailed
      PROVE  status'[job'[v]] = "COMPLETED"
  <2> PICK m \in requests : RecordFailed(m)
    BY <1>6 DEF ServeFailed
  <2>1. /\ m.type = "FAILED" /\ m.id \in Ids
        /\ Answer(m, PlainReply("ok"))
        /\ UNCHANGED <<pc, job, handler>>
    BY <1>6 DEF RecordFailed, ServeFailed, workerVars
  <2>2. status' = [status EXCEPT ![m.id] = "FAILED"]
    BY <2>1, UpdateType DEF RecordFailed
  <2>3. m.caller # v
    BY <2>1 DEF CallDiscipline, OneCall, SentBy, Awaits
  <2>4. Answered
    BY <2>1, <2>3 DEF Answer
  <2>5. Owns(v, job[v]) /\ job[v] \in Ids
    BY <2>1 DEF Owns, Reporting
  <2>6. job[v] # m.id
    BY <2>1, <2>5 DEF Alone, FailureReports
  <2> QED
    BY <1>2, <2>1, <2>2, <2>4, <2>5, <2>6
<1>7. ASSUME ServeEmpty \/ ServeBusy
      PROVE  status'[job'[v]] = "COMPLETED"
  <2> PICK m \in requests : NothingToClaim(m) \/ RejectBusy(m)
    BY <1>7 DEF ServeEmpty, ServeBusy
  <2>1. Answered /\ UNCHANGED <<status, pc, job>>
    BY <1>7 DEF ServeEmpty, ServeBusy, NothingToClaim, RejectBusy, Answer, PlainReply,
       storeVars, workerVars
  <2> QED
    BY <1>2, <2>1
<1>8. ASSUME \/ UNCHANGED vars
             \/ \E id \in Ids : UserRetry(id) \/ Intake(id)
             \/ \E r \in Replicas :
                    CrashBackend(r) \/ \E id \in Ids : UserUpload(r, id)
             \/ Sweep \/ ClockTick
      PROVE  status'[job'[v]] = "COMPLETED"
  <2>1. UNCHANGED <<pc, job, replies>>
    BY <1>8 DEF vars, UserRetry, Retry, Intake, CrashBackend, LoseHandler, UserUpload,
       Sweep, ClockTick, workerVars, apiVars
  <2>2. \A r \in Replicas : handler'[r].caller = v => handler[r].caller = v
    BY <1>8, ProcessAssumption DEF vars, UserRetry, Retry, Intake, CrashBackend,
       LoseHandler, UserUpload, Sweep, ClockTick, apiVars, NoRequest
  <2>3. job[v] \in Ids
    BY <2>1
  <2>4. status[job[v]] = "COMPLETED" => status'[job[v]] = "COMPLETED"
    BY <1>8, <2>3 DEF vars, UserRetry, Retry, RetryProcessing, Intake, IntakeStep,
       StreamEnds, StreamBreaks, Reject, Accept, AcceptFails, CreateUpload, Exists,
       CrashBackend, UserUpload, BeginUpload, Sweep, ResetStuckProcessing, Stuck,
       ClockTick, Tick, NoRow, storeVars
  <2> QED
    BY <1>2, <2>1, <2>2, <2>4
<1> QED
  BY <1>1, <1>3, <1>4, <1>5, <1>6, <1>7, <1>8 DEF Next

(* An upload somebody is at, or whose attempt ended in silence.            *)
Attempted(id) == Running(id) \/ id \in unreported

(* A worker lets go of a record only by a report that has settled it, by   *)
(* sending its FAILED report, or in silence.                               *)
LEMMA WorkerKeepsOn ==
    ASSUME "lateRequest" \notin Faults, Inductive, AnsweredInv,
           NEW w \in Workers, WorkerWrites(w),
           NEW id \in Ids, status[id] = "PROCESSING", Attempted(id)
    PROVE  Attempted(id)'
<1> USE DEF Inductive, TypeOK, ApiTypeOK, WorkerTypeOK, Attempted
<1>1. WorkerStep(w) \/ CrashWorker(w)
  BY WorkerWritesStep
<1>2. CASE id \in unreported
  BY <1>2 DEF WorkerWrites, FallsSilent
<1>3. CASE Running(id) /\ ~HoldsToken(w, id)
  BY <1>1, <1>3, OthersRun
<1>4. CASE HoldsToken(w, id) /\ FallsSilent(w)
  BY <1>4, SilenceIsListed
<1>5. CASE FailureReports(id) # {} /\ Speaks(w)
  BY <1>5, SpeakerKeepsReports DEF Running
<1>6. ASSUME replies[w].type = "job", replies[w].id = id, Speaks(w)
      PROVE  Running(id)'
  <2>1. pc[w] = "claiming"
    BY <1>6 DEF CallDiscipline, OneCall
  <2>2. ReceiveJob(w)
    BY <1>6, <2>1 DEF Speaks, CallClaimNext, Poll, ReceiveNothing, WorkFiles,
       FileStep, CleanStaging, Probe, StartOutput, FinishOutput, ClearFinal, MoveOutput,
       DiscardStaging, StepThrows, CatchCleanup, FileWork, ReportCompleted,
       SendCompleted, ReportFailed, SendFailed, ReceiveAccepted, ReceiveError
  <2>3. Owns(w, id)'
    BY <1>6, <2>2 DEF ReceiveJob, StartJob, Owns, FileWork
  <2> QED
    BY <2>3 DEF Running
<1>7. ASSUME job[w] = id, pc[w] \in FileWork \cup {"cleanup"}, Speaks(w)
      PROVE  Running(id)'
  <2>1. replies[w] = NoReply
    BY <1>7 DEF CallDiscipline, OneCall, Calling, FileWork
  <2>2. WorkFiles(w)
    BY <1>7, <2>1 DEF Speaks, CallClaimNext, Poll, ReceiveJob, ReceiveNothing,
       ReportCompleted, SendCompleted, ReportFailed, SendFailed, ReceiveAccepted,
       ReceiveError, FileWork, NoReply
  <2>3. job'[w] = id /\ pc'[w] \in FileWork \cup Failing \cup Reporting
    BY <1>7, <2>2 DEF WorkFiles, FileStep, CleanStaging, Probe, StartOutput, FinishOutput,
       ClearFinal, MoveOutput, DiscardStaging, StepThrows, CatchCleanup, Goto, FileWork,
       Failing, Reporting
  <2> QED
    BY <2>3 DEF Running, Owns
<1>8. ASSUME job[w] = id, pc[w] \in {"report", "reportFailure"}, Speaks(w)
      PROVE  Running(id)'
  <2>1. replies[w] = NoReply
    BY <1>8 DEF CallDiscipline, OneCall, Calling
  <2>2. ReportCompleted(w) \/ ReportFailed(w)
    BY <1>8, <2>1 DEF Speaks, CallClaimNext, Poll, ReceiveJob, ReceiveNothing,
       WorkFiles, FileStep, CleanStaging, Probe, StartOutput, FinishOutput, ClearFinal,
       MoveOutput, DiscardStaging, StepThrows, CatchCleanup, FileWork, ReceiveAccepted,
       ReceiveError, NoReply
  <2>3. CASE ReportCompleted(w)
    <3>1. job'[w] = id /\ pc'[w] = "reporting"
      BY <1>8, <2>3 DEF ReportCompleted, SendCompleted, Goto
    <3> QED
      BY <3>1 DEF Running, Owns, Reporting
  <2>4. CASE ReportFailed(w)
    <3> DEFINE m == ResultRequest(w, "FAILED")
    <3>1. m \in requests'
      BY <2>4 DEF ReportFailed, Send
    <3>2. m.type = "FAILED" /\ m.id = id
      BY <1>8 DEF ResultRequest
    <3> HIDE DEF m
    <3> QED
      BY <3>1, <3>2 DEF FailureReports, Running
  <2> QED
    BY <2>2, <2>3, <2>4
<1>9. ASSUME job[w] = id, pc[w] = "reporting", Speaks(w)
      PROVE  Running(id)'
  <2>1. replies[w].type \notin {"job", "empty", "ok"}
    BY <1>9 DEF AnsweredInv, CallDiscipline, OneCall
  <2>2. ReceiveError(w) \/ CallFails(w)
    BY <1>9, <2>1 DEF Speaks, CallClaimNext, Poll, ReceiveJob, ReceiveNothing,
       WorkFiles, FileStep, CleanStaging, Probe, StartOutput, FinishOutput, ClearFinal,
       MoveOutput, DiscardStaging, StepThrows, CatchCleanup, FileWork, ReportCompleted,
       SendCompleted, ReportFailed, SendFailed, ReceiveAccepted
  <2>3. job'[w] = id /\ pc'[w] = "cleanup"
    BY <1>9, <2>2 DEF ReceiveError, CallFails, CallThrows, Goto
  <2> QED
    BY <2>3 DEF Running, Owns, Failing
<1>10. CASE Owns(w, id) /\ Speaks(w)
  BY <1>6, <1>7, <1>8, <1>9, <1>10 DEF Owns, Reporting, Failing
<1>11. HoldsToken(w, id) => Owns(w, id) \/ FailureReports(id) # {}
  BY DEF HoldsToken
<1> QED
  BY <1>2, <1>3, <1>4, <1>5, <1>10, <1>11 DEF WorkerWrites

(* Nothing else ends an attempt whose record stays PROCESSING.             *)
LEMMA UnderWayStep ==
    ASSUME "lateRequest" \notin Faults, Inductive, AnsweredInv, ProcessingIsUnderWay,
           [HistoryNext]_historyVars
    PROVE  ProcessingIsUnderWay'
<1> USE DEF Inductive, TypeOK, ApiTypeOK, StoreTypeOK
<1> SUFFICES ASSUME NEW id \in Ids, status'[id] = "PROCESSING"
             PROVE  Attempted(id)'
  BY DEF ProcessingIsUnderWay, Attempted
<1>1. ASSUME status[id] = "PROCESSING",
             \A v \in Workers : Owns(v, id) => Owns(v, id)',
             FailureReports(id) \subseteq FailureReports(id)' \/ id \in unreported',
             id \in unreported => id \in unreported'
      PROVE  Attempted(id)'
  BY <1>1 DEF ProcessingIsUnderWay, Running, Attempted
<1>2. ASSUME NEW w \in Workers, WorkerWrites(w)
      PROVE  Attempted(id)'
  <2>1. UNCHANGED status
    BY <1>2, WorkerWritesStep DEF WorkerStep, CallClaimNext, ReceiveJob, ReceiveNothing,
       WorkFiles, ReportCompleted, ReportFailed, ReceiveAccepted, ReceiveError,
       CallFails, CrashWorker, storeVars
  <2>2. status[id] = "PROCESSING" /\ Attempted(id)
    BY <2>1 DEF ProcessingIsUnderWay, Attempted
  <2> QED
    BY <1>2, <2>2, WorkerKeepsOn
<1>3. ASSUME NEW u \in Ids, Grant(u), unreported' = unreported \ {u}
      PROVE  Attempted(id)'
  <2> PICK m \in requests : GrantClaim(m, u)
    BY <1>3 DEF Grant
  <2>1. /\ m.type = "claimNext" /\ m.caller \in Workers
        /\ replies[m.caller] = NoReply /\ pc[m.caller] = "claiming"
    BY DEF GrantClaim, ReportInv, CallDiscipline, OneCall, SentBy, Awaits
  <2>2. /\ UNCHANGED <<pc, job>>
        /\ status' = [status EXCEPT ![u] = "PROCESSING"]
        /\ replies' = [replies EXCEPT ![m.caller] =
                           [type |-> "job", id |-> u, attempt |-> Bump(claims[u])]]
    BY <1>3, <2>1, ProcessAssumption
       DEF Grant, GrantClaim, ClaimNext, Answer, workerVars
  <2>3. CASE id = u
    <3>1. replies'[m.caller].type = "job" /\ replies'[m.caller].id = id
      BY <2>1, <2>2, <2>3
    <3> QED
      BY <2>1, <3>1 DEF Running, Owns, Attempted
  <2>4. CASE id # u
    <3>1. \A v \in Workers : Owns(v, id) => v # m.caller
      BY <2>1 DEF Owns, NoReply, FileWork, Reporting, Failing
    <3>2. \A v \in Workers : Owns(v, id) => Owns(v, id)'
      BY <2>2, <3>1 DEF Owns
    <3>3. FailureReports(id) \subseteq FailureReports(id)'
      BY <2>1 DEF GrantClaim, FailureReports
    <3> QED
      BY <1>1, <1>3, <2>2, <2>4, <3>2, <3>3
  <2> QED
    BY <2>3, <2>4
<1>4. ASSUME NEW r \in Replicas, ServeCompleted(r), UNCHANGED unreported
      PROVE  Attempted(id)'
  <2> PICK m \in requests : RecordCompleted(r, m)
    BY <1>4 DEF ServeCompleted
  <2>1. m.type = "COMPLETED" /\ m.id \in Ids /\ UNCHANGED <<pc, job, replies>>
    BY <1>4 DEF RecordCompleted, ServeCompleted, workerVars
  <2>2. status[id] = "PROCESSING"
    BY <2>1, UpdateType DEF RecordCompleted
  <2>3. FailureReports(id) \subseteq FailureReports(id)'
    BY <2>1 DEF RecordCompleted, FailureReports
  <2> QED
    BY <1>1, <1>4, <2>1, <2>2, <2>3 DEF Owns
<1>5. ASSUME NEW r \in Replicas, FinishCompleted(r), UNCHANGED unreported
      PROVE  Attempted(id)'
  <2>1. handler[r] \in Request /\ UNCHANGED workerVars /\ UNCHANGED <<requests, status>>
    BY <1>5 DEF FinishCompleted, StoreRenditions, SetRenditions, RenditionsBusy, Free,
       storeVars
  <2>2. \E t \in {"empty", "ok", "error"} : Answer(handler[r], PlainReply(t))
    BY <1>5 DEF FinishCompleted, StoreRenditions, RenditionsBusy
  <2>3. handler[r].caller \in Workers => replies[handler[r].caller] = NoReply
    BY DEF CallDiscipline, OneCall
  <2>4. \A v \in Workers : Owns(v, id)' <=> Owns(v, id)
    BY <2>1, <2>2, <2>3, PlainAnswerKeeps
  <2> QED
    BY <1>1, <1>5, <2>1, <2>4 DEF FailureReports
<1>6. ASSUME \/ UNCHANGED unreported /\ (ServeFailed \/ ServeEmpty)
             \/ ReportRefused
      PROVE  Attempted(id)'
  <2> PICK m \in requests : \/ RecordFailed(m)
                            \/ NothingToClaim(m)
                            \/ ReportRefused /\ RejectBusy(m)
    BY <1>6 DEF ServeFailed, ServeEmpty, ReportRefused, ServeBusy
  <2>1. m \in Request /\ UNCHANGED workerVars
    BY <1>6 DEF ServeFailed, ServeEmpty, ReportRefused, ServeBusy
  <2>2. \E t \in {"empty", "ok", "error"} : Answer(m, PlainReply(t))
    BY DEF RecordFailed, NothingToClaim, RejectBusy
  <2>3. m.caller \in Workers => replies[m.caller] = NoReply
    BY DEF CallDiscipline, OneCall, SentBy
  <2>4. \A v \in Workers : Owns(v, id)' <=> Owns(v, id)
    BY <2>1, <2>2, <2>3, PlainAnswerKeeps
  <2>5. ASSUME RecordFailed(m)
        PROVE  status[id] = "PROCESSING" /\ m.type = "FAILED" /\ m.id # id
    <3>1. m.type = "FAILED" /\ m.id \in Ids
      BY <2>5 DEF RecordFailed
    <3>2. status' = [status EXCEPT ![m.id] = "FAILED"]
      BY <2>5, <3>1, UpdateType DEF RecordFailed
    <3> QED
      BY <3>1, <3>2
  <2>6. status[id] = "PROCESSING"
    BY <2>5 DEF NothingToClaim, RejectBusy, storeVars
  <2>7. FailureReports(id) \subseteq FailureReports(id)' \/ id \in unreported'
    BY <2>5 DEF RecordFailed, NothingToClaim, ReportRefused, FailureReports
  <2>8. id \in unreported => id \in unreported'
    BY <1>6 DEF ReportRefused
  <2> QED
    BY <1>1, <2>4, <2>6, <2>7, <2>8
<1>7. ASSUME \/ UNCHANGED vars
             \/ \E u \in Ids : UserRetry(u) \/ Intake(u)
             \/ \E r \in Replicas :
                    CrashBackend(r) \/ \E u \in Ids : UserUpload(r, u)
             \/ Sweep \/ ClockTick,
             UNCHANGED unreported
      PROVE  Attempted(id)'
  <2>1. UNCHANGED <<pc, job, replies, requests>>
    BY <1>7 DEF vars, UserRetry, Retry, Intake, CrashBackend, LoseHandler, UserUpload,
       Sweep, ClockTick, workerVars, apiVars
  <2>2. status[id] = "PROCESSING"
    BY <1>7 DEF vars, UserRetry, Retry, RetryProcessing, Intake, IntakeStep, StreamEnds,
       StreamBreaks, Reject, Accept, AcceptFails, CreateUpload, CrashBackend,
       UserUpload, BeginUpload, Sweep, ResetStuckProcessing, ClockTick, Tick, storeVars
  <2> QED
    BY <1>1, <1>7, <2>1, <2>2 DEF Owns, FailureReports
<1>8. CASE UNCHANGED historyVars
  BY <1>7, <1>8 DEF historyVars
<1>9. CASE OtherSteps /\ UNCHANGED unreported
  BY <1>2, <1>4, <1>5, <1>6, <1>7, <1>9 DEF OtherSteps, WorkerWrites
<1>10. CASE HistoryNext /\ ~(OtherSteps /\ UNCHANGED unreported)
  BY <1>2, <1>3, <1>6, <1>10 DEF HistoryNext, WorkerWrites
<1> QED
  BY <1>8, <1>9, <1>10

(* A record is PROCESSING only while somebody is at it or after an attempt *)
(* that ended in silence, for any number of workers, replicas and uploads, *)
(* through every failure, and through sweeps if there is one worker. What  *)
(* it takes to strand a record is a worker that dies, a claim whose answer *)
(* is lost, by a restart of the backend for one, or a FAILED report that   *)
(* is refused: nothing the worker or the backend gets to handle does.      *)
THEOREM ProcessingNeverStranded ==
    NoRivals /\ "lateRequest" \notin Faults
        => (HistorySpec => []ProcessingIsUnderWay)
<1> SUFFICES ASSUME NoRivals, "lateRequest" \notin Faults
             PROVE  HistorySpec => []ProcessingIsUnderWay
  OBVIOUS
<1>1. HistoryInit => AnsweredInv /\ ProcessingIsUnderWay
  BY ProcessAssumption DEF HistoryInit, Init, StoreInit, ApiInit, WorkerInit,
     AnsweredInv, ProcessingIsUnderWay, NoRequest, NoRow
<1>2. Inductive /\ AnsweredInv /\ ProcessingIsUnderWay /\ [HistoryNext]_historyVars
          => AnsweredInv' /\ ProcessingIsUnderWay'
  BY AnsweredStep, UnderWayStep, HistoryStepIsStep
<1>3. HistorySpec => []Inductive
  BY HistorySpecIsSpec, InductiveHolds, PTL
<1> QED
  BY <1>1, <1>2, <1>3, PTL DEF HistorySpec

-----------------------------------------------------------------------------
(* The faults after which a worker may take a COMPLETED report that was    *)
(* recorded for one that was not.                                          *)
Doubting == {"busy", "backendCrash", "lostCall", "lateRequest"}

(* Without them no call fails and no answer is an error, ...               *)
NoErrors == \A w \in Workers : replies[w].type # "error"

(* ... so nobody comes to report the failure of a COMPLETED upload.        *)
Undisputed ==
    \A id \in Ids : status[id] = "COMPLETED" =>
        /\ FailureReports(id) = {}
        /\ \A w \in Workers : ~(job[w] = id /\ pc[w] \in Failing)

(* Only a write that gives up is answered with an error.                   *)
LEMMA NoErrorsStep ==
    ASSUME Doubting \cap Faults = {}, Inductive, NoErrors, [Next]_vars
    PROVE  NoErrors'
<1> USE DEF Inductive, TypeOK, ApiTypeOK, Doubting
<1>1. NoReply.type # "error"
  BY DEF NoReply
<1>2. ASSUME NEW w \in Workers, WorkerStep(w) \/ CrashWorker(w)
      PROVE  NoErrors'
  BY <1>1, <1>2 DEF WorkerStep, CallClaimNext, ReceiveJob, ReceiveNothing, WorkFiles,
     ReportCompleted, ReportFailed, ReceiveAccepted, ReceiveError, CallFails,
     CrashWorker, Send, TakeReply, HangUp, apiVars, NoErrors
<1>3. ASSUME NEW m \in Request, NEW reply \in Reply, reply.type # "error",
             Answer(m, reply)
      PROVE  NoErrors'
  BY <1>3 DEF Answer, NoErrors
<1>4. ASSUME NEW id \in Ids, Grant(id)
      PROVE  NoErrors'
  <2> PICK m \in requests : GrantClaim(m, id)
    BY <1>4 DEF Grant
  <2> DEFINE reply == [type |-> "job", id |-> id, attempt |-> Bump(claims[id])]
  <2>1. reply \in Reply /\ reply.type # "error"
    BY MaxClaimsAssumption DEF Reply, Bump
  <2>2. Answer(m, reply)
    BY DEF GrantClaim
  <2> HIDE DEF reply
  <2> QED
    BY <1>3, <2>1, <2>2
<1>5. PlainReply("ok") \in Reply /\ PlainReply("empty") \in Reply
  BY DEF PlainReply, Reply
<1>6. ASSUME ServeEmpty \/ ServeFailed \/ ServeBusy
      PROVE  NoErrors'
  <2> PICK m \in requests : NothingToClaim(m) \/ RecordFailed(m)
    BY <1>6 DEF ServeEmpty, ServeFailed, ServeBusy, RejectBusy
  <2> QED
    BY <1>3, <1>5 DEF NothingToClaim, RecordFailed, PlainReply
<1>7. ASSUME NEW r \in Replicas, FinishCompleted(r)
      PROVE  NoErrors'
  <2>1. handler[r] \in Request /\ Answer(handler[r], PlainReply("ok"))
    BY <1>7 DEF FinishCompleted, StoreRenditions, RenditionsBusy, Free
  <2> QED
    BY <1>3, <1>5, <2>1 DEF PlainReply
<1>8. ASSUME \/ UNCHANGED vars
             \/ \E id \in Ids : UserRetry(id) \/ Intake(id)
             \/ \E r \in Replicas :
                    \/ ServeCompleted(r)
                    \/ CrashBackend(r)
                    \/ \E id \in Ids : UserUpload(r, id)
             \/ Sweep \/ ClockTick
      PROVE  NoErrors'
  <2>1. UNCHANGED replies
    BY <1>8 DEF vars, UserRetry, Retry, Intake, ServeCompleted, RecordCompleted,
       CrashBackend, LoseHandler, UserUpload, Sweep, ClockTick, apiVars
  <2> QED
    BY <2>1 DEF NoErrors
<1> QED
  BY <1>2, <1>4, <1>6, <1>7, <1>8 DEF Next

(* No worker comes to handle the failure of a COMPLETED upload, ...        *)
LEMMA WorkerUndisputed ==
    ASSUME Doubting \cap Faults = {}, Inductive, NoErrors, Undisputed,
           NEW w \in Workers, WorkerStep(w) \/ CrashWorker(w)
    PROVE  Undisputed'
<1> USE DEF Inductive, TypeOK, ApiTypeOK, WorkerTypeOK, Doubting
<1>1. UNCHANGED status
  BY DEF WorkerStep, CallClaimNext, ReceiveJob, ReceiveNothing, WorkFiles,
     ReportCompleted, ReportFailed, ReceiveAccepted, ReceiveError, CallFails,
     CrashWorker, storeVars
<1> SUFFICES ASSUME NEW id \in Ids, status[id] = "COMPLETED"
             PROVE  /\ FailureReports(id)' = {}
                    /\ \A v \in Workers : ~(job'[v] = id /\ pc'[v] \in Failing)
  BY <1>1 DEF Undisputed
<1>2. /\ FailureReports(id) = {}
      /\ \A v \in Workers : ~(job[v] = id /\ pc[v] \in Failing)
  BY DEF Undisputed
<1>3. FailureReports(id)' = {}
  <2>1. CASE ReportFailed(w)
    <3>1. job[w] # id
      BY <1>2, <2>1 DEF ReportFailed, SendFailed, Failing
    <3>2. requests' = requests \cup {ResultRequest(w, "FAILED")}
      BY <2>1 DEF ReportFailed, Send
    <3> QED
      BY <1>2, <3>1, <3>2 DEF FailureReports, ResultRequest
  <2>2. CASE ~ReportFailed(w)
    <3>1. \A m \in requests' : m \in requests \/ m.type # "FAILED"
      BY <2>2 DEF WorkerStep, CallClaimNext, ClaimRequest, ReceiveJob, ReceiveNothing,
         WorkFiles, ReportCompleted, ResultRequest, ReceiveAccepted, ReceiveError,
         CallFails, CrashWorker, Send, TakeReply, HangUp, apiVars
    <3> QED
      BY <1>2, <3>1 DEF FailureReports
  <2> QED
    BY <2>1, <2>2
<1>4. \A v \in Workers \ {w} : ~(job'[v] = id /\ pc'[v] \in Failing)
  BY <1>2, OthersStay
<1>5. ~(job'[w] = id /\ pc'[w] \in Failing)
  <2> SUFFICES ASSUME job'[w] = id, pc'[w] \in Failing
               PROVE  FALSE
    OBVIOUS
  <2>1. WorkFiles(w) \/ ReceiveError(w) \/ CallFails(w)
    BY DEF WorkerStep, CallClaimNext, Poll, ReceiveJob, StartJob, ReceiveNothing, EndJob,
       ReportCompleted, SendCompleted, ReportFailed, SendFailed, ReceiveAccepted,
       ReportAccepted, CrashWorker, Restart, Goto, Failing
  <2>2. ~ReceiveError(w)
    BY DEF ReceiveError, NoErrors
  <2>3. ~CallFails(w)
    BY DEF CallFails
  <2>4. WorkFiles(w)
    BY <2>1, <2>2, <2>3
  <2>5. job[w] = id /\ pc[w] \in FileWork \cup Failing
    BY <2>4 DEF WorkFiles, FileStep, CleanStaging, Probe, StartOutput, FinishOutput,
       ClearFinal, MoveOutput, DiscardStaging, StepThrows, CatchCleanup, Goto,
       FileWork, Failing
  <2>6. pc[w] \in FileWork
    BY <1>2, <2>5
  <2>7. Owns(w, id)
    BY <2>5, <2>6 DEF Owns
  <2> QED
    BY <2>6, <2>7 DEF OwnerInv, FileWork, Failing
<1> QED
  BY <1>3, <1>4, <1>5

(* ... and a report of success finds nobody handling a failure.            *)
LEMMA UndisputedStep ==
    ASSUME Doubting \cap Faults = {}, Inductive, NoErrors, Undisputed,
           [Next]_vars
    PROVE  Undisputed'
<1> USE DEF Inductive, TypeOK, ApiTypeOK, StoreTypeOK
<1>1. ASSUME NEW w \in Workers, WorkerStep(w) \/ CrashWorker(w)
      PROVE  Undisputed'
  BY <1>1, WorkerUndisputed
<1>2. ASSUME UNCHANGED <<pc, job>>, requests' \subseteq requests,
             \A id \in Ids : status'[id] = "COMPLETED" => status[id] = "COMPLETED"
      PROVE  Undisputed'
  BY <1>2 DEF Undisputed, FailureReports
<1>3. ASSUME NEW r \in Replicas, ServeCompleted(r)
      PROVE  Undisputed'
  <2> PICK m \in requests : RecordCompleted(r, m)
    BY <1>3 DEF ServeCompleted
  <2>1. m.type = "COMPLETED" /\ UNCHANGED <<pc, job>> /\ requests' = requests \ {m}
    BY <1>3 DEF RecordCompleted, ServeCompleted, workerVars
  <2>2. m.id \in Ids /\ m.caller \in Workers /\ Owns(m.caller, m.id)
        /\ pc[m.caller] = "reporting"
    BY <2>1, ReporterOwns
  <2>3. status' = [status EXCEPT ![m.id] = "COMPLETED"]
    BY <2>2, UpdateType DEF RecordCompleted
  <2>4. FailureReports(m.id) = {}
    BY <2>2 DEF Alone
  <2>5. \A v \in Workers : ~(job[v] = m.id /\ pc[v] \in Failing)
    BY <2>2 DEF Alone, Owns, Failing
  <2> QED
    BY <2>1, <2>2, <2>3, <2>4, <2>5 DEF Undisputed, FailureReports
<1>4. ASSUME ServeFailed
      PROVE  Undisputed'
  <2> PICK m \in requests : RecordFailed(m)
    BY <1>4 DEF ServeFailed
  <2>1. m.id \in Ids /\ UNCHANGED <<pc, job>> /\ requests' = requests \ {m}
    BY <1>4 DEF RecordFailed, ServeFailed, workerVars
  <2>2. status' = [status EXCEPT ![m.id] = "FAILED"]
    BY <2>1, UpdateType DEF RecordFailed
  <2> QED
    BY <1>2, <2>1, <2>2
<1>5. ASSUME \/ UNCHANGED vars
             \/ \E id \in Ids : Grant(id) \/ UserRetry(id) \/ Intake(id)
             \/ \E r \in Replicas :
                    \/ FinishCompleted(r)
                    \/ CrashBackend(r)
                    \/ \E id \in Ids : UserUpload(r, id)
             \/ ServeEmpty \/ ServeBusy \/ Sweep \/ ClockTick
      PROVE  Undisputed'
  <2>1. UNCHANGED <<pc, job>> /\ requests' \subseteq requests
    BY <1>5 DEF vars, Grant, GrantClaim, UserRetry, Retry, Intake, FinishCompleted,
       StoreRenditions, RenditionsBusy, CrashBackend, LoseHandler, UserUpload, ServeEmpty,
       NothingToClaim, ServeBusy, RejectBusy, Sweep, ClockTick, workerVars, apiVars
  <2>2. \A id \in Ids : status'[id] = "COMPLETED" => status[id] = "COMPLETED"
    BY <1>5 DEF vars, Grant, GrantClaim, ClaimNext, UserRetry, Retry, RetryProcessing,
       Intake, IntakeStep, StreamEnds, StreamBreaks, Reject, Accept, AcceptFails,
       CreateUpload, FinishCompleted, StoreRenditions, SetRenditions, RenditionsBusy,
       CrashBackend, UserUpload, BeginUpload, ServeEmpty, NothingToClaim, ServeBusy,
       RejectBusy, Sweep, ResetStuckProcessing, ClockTick, Tick, storeVars
  <2> QED
    BY <1>2, <2>1, <2>2
<1> QED
  BY <1>1, <1>3, <1>4, <1>5 DEF Next

(* Only a FAILED report takes a record out of COMPLETED.                   *)
LEMMA CompletedStays ==
    ASSUME Inductive, Undisputed, [Next]_vars,
           NEW id \in Ids, status[id] = "COMPLETED"
    PROVE  status'[id] = "COMPLETED"
<1> USE DEF Inductive, TypeOK, ApiTypeOK, StoreTypeOK
<1>1. ASSUME NEW u \in Ids, Accept(u) \/ Grant(u) \/ UserRetry(u)
      PROVE  status'[id] = "COMPLETED"
  BY <1>1 DEF Accept, CreateUpload, Exists, NoRow, Grant, GrantClaim, ClaimNext,
     OldestPending, UserRetry, Retry, RetryProcessing
<1>2. ASSUME NEW r \in Replicas, ServeCompleted(r) \/ StoreRenditions(r)
      PROVE  status'[id] = "COMPLETED"
  <2>1. CASE StoreRenditions(r)
    BY <2>1 DEF StoreRenditions, SetRenditions
  <2>2. CASE ServeCompleted(r)
    <3> PICK m \in requests : RecordCompleted(r, m)
      BY <2>2 DEF ServeCompleted
    <3>1. m.id \in Ids
      BY DEF RecordCompleted
    <3> QED
      BY <3>1, UpdateType DEF RecordCompleted
  <2> QED
    BY <1>2, <2>1, <2>2
<1>3. ASSUME ServeFailed
      PROVE  status'[id] = "COMPLETED"
  <2> PICK m \in requests : RecordFailed(m)
    BY <1>3 DEF ServeFailed
  <2>1. m.id \in Ids /\ m.id # id
    BY DEF RecordFailed, Undisputed, FailureReports
  <2> QED
    BY <2>1, UpdateType DEF RecordFailed
<1>4. CASE UNCHANGED storeVars
  BY <1>4 DEF storeVars
<1>5. CASE Sweep \/ ClockTick
  BY <1>5 DEF Sweep, ResetStuckProcessing, Stuck, ClockTick, Tick
<1> QED
  BY <1>1, <1>2, <1>3, <1>4, <1>5, StoreFrame DEF StoreStep

(* COMPLETED is final, whatever files, ffmpeg runs and worker processes    *)
(* break, as long as every report is answered with what was recorded: it   *)
(* takes a busy database, a dying backend or a lost call to unmake a       *)
(* success.                                                                *)
THEOREM CompletedUndoubted ==
    NoRivals /\ Doubting \cap Faults = {} => (Spec => CompletedIsFinal)
<1> SUFFICES ASSUME NoRivals, Doubting \cap Faults = {}
             PROVE  Spec => CompletedIsFinal
  OBVIOUS
<1>1. "lateRequest" \notin Faults
  BY DEF Doubting
<1>2. Init => NoErrors /\ Undisputed
  BY DEF Init, StoreInit, ApiInit, NoErrors, NoReply, Undisputed, NoRow
<1>3. Inductive /\ NoErrors /\ Undisputed /\ [Next]_vars
          => NoErrors' /\ Undisputed'
  BY NoErrorsStep, UndisputedStep
<1>4. Inductive /\ Undisputed /\ [Next]_vars
          => [\A id \in Ids : status[id] = "COMPLETED"
                                => status'[id] = "COMPLETED"]_vars
  BY CompletedStays
<1> QED
  BY <1>1, <1>2, <1>3, <1>4, InductiveHolds, PTL DEF Spec, CompletedIsFinal
=============================================================================
