--------------------------- MODULE AttemptHistory ---------------------------
(***************************************************************************)
(* VideoPlatform with one auxiliary variable: the uploads whose last       *)
(* attempt ended in silence, because its worker died, the answer to its    *)
(* claim got lost or its FAILED report was not recorded.  The code keeps   *)
(* no such list (index.ts only logs); with it one can say that silence is  *)
(* the only way in which a job is left half done.                          *)
(***************************************************************************)
EXTENDS PlatformProperties

VARIABLE unreported   \* auxiliary: uploads whose last attempt ended in silence

historyVars == <<vars, unreported>>

HistoryInit == Init /\ unreported = {}

(* What worker w has in hand: its job, a job on its way to it, and the job *)
(* whose failure it is reporting.                                          *)
AtStake(w) ==
    {id \in Ids : Owns(w, id) \/ \E m \in FailureReports(id) : m.caller = w}

(* Worker w goes on, also when its COMPLETED report is refused or gets no  *)
(* answer: the FAILED report follows.                                      *)
Speaks(w) ==
    \/ CallClaimNext(w)
    \/ ReceiveJob(w)
    \/ ReceiveNothing(w)
    \/ WorkFiles(w)
    \/ ReportCompleted(w)
    \/ ReportFailed(w)
    \/ ReceiveAccepted(w)
    \/ ReceiveError(w)
    \/ CallFails(w) /\ pc[w] = "reporting"

(* Steps that neither begin an attempt nor end one in silence.             *)
OtherSteps ==
    \/ \E w \in Workers : Speaks(w)
    \/ \E id \in Ids : UserRetry(id) \/ Intake(id)
    \/ \E r \in Replicas :
           \/ ServeCompleted(r)
           \/ FinishCompleted(r)
           \/ CrashBackend(r)
           \/ \E id \in Ids : UserUpload(r, id)
    \/ ServeEmpty
    \/ ServeFailed
    \/ Sweep
    \/ ClockTick

(* The worker dies, or its claim or its FAILED report fails: processOne    *)
(* throws, and the poll loop logs the error and goes on.                   *)
FallsSilent(w) ==
    /\ \/ CrashWorker(w)
       \/ CallFails(w) /\ pc[w] # "reporting"
    /\ unreported' = unreported \cup AtStake(w)

(* The database stays busy; if the call was a FAILED report, that was it.  *)
ReportRefused ==
    /\ ServeBusy
    /\ unreported' =
           unreported \cup {id \in Ids : FailureReports(id) # FailureReports(id)'}

HistoryNext ==
    \/ OtherSteps /\ UNCHANGED unreported
    \/ \E id \in Ids : Grant(id) /\ unreported' = unreported \ {id}
    \/ \E w \in Workers : FallsSilent(w)
    \/ ReportRefused

HistorySpec == HistoryInit /\ [][HistoryNext]_historyVars

FairHistorySpec == HistorySpec /\ Fairness

-----------------------------------------------------------------------------
(* A COMPLETED record whose rendition rows are not all there is in the     *)
(* hands of a worker that will see the error and report FAILED, or its     *)
(* attempt ended in silence: whatever breaks between the two transactions  *)
(* of a report, only silence leaves it so. Holds under NoRivals, unless    *)
(* requests are served after their caller gave up.                         *)
IncompleteMetadataIsTransient ==
    \A id \in Ids :
        status[id] = "COMPLETED" /\ renditionRows[id] # Renditions(id)
            => Running(id) \/ id \in unreported

(* A record is PROCESSING only while an attempt at it is under way, or when *)
(* its attempt ended in silence: every way out of processJob, through a    *)
(* failed step, a refused COMPLETED report or a restart of the backend in  *)
(* the middle of one, passes a report that settles the record, if that     *)
(* report gets through. Same conditions.                                   *)
ProcessingIsUnderWay ==
    \A id \in Ids :
        status[id] = "PROCESSING" => Running(id) \/ id \in unreported

(* Every record that waits ends COMPLETED or FAILED, or an attempt at it   *)
(* ends in silence, unless older uploads are retried again and again.      *)
EveryUploadSettles ==
    \A id \in Ids :
        \/ status[id] = "PENDING" ~>
               status[id] \in {"COMPLETED", "FAILED"} \/ id \in unreported
        \/ []<><<Overtaken(id)>>_historyVars
=============================================================================
