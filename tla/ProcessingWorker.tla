-------------------------- MODULE ProcessingWorker --------------------------
(***************************************************************************)
(* The processing component: the poll loop of index.ts around              *)
(* ProcessingWorker.processOne/processJob, one action per awaited call.    *)
(* The loop is sequential, so one worker process is one control state      *)
(* pc[w] with the job it holds.                                            *)
(*                                                                         *)
(* Outputs are produced and moved one slot after the other: renditions     *)
(* 1..Plan[id], then the thumbnail.  The actions that talk to the backend  *)
(* say here what the worker does; VideoPlatform adds the message.          *)
(***************************************************************************)
EXTENDS VideoStorage

VARIABLES
    pc,       \* the await the worker stands at
    job,      \* the claimed upload, Null between jobs
    attempt,  \* auxiliary: which claim of the upload this is
    cursor    \* the slot the rendition and move loops have come to

workerVars == <<pc, job, attempt, cursor>>

(* await points at which the worker touches files of its job               *)
FileWork == {"clean", "probe", "produce", "producing", "clear", "move",
             "discard"}
(* ... at which it reports success, and at which it handles a failure      *)
Reporting == {"report", "reporting"}
Failing == {"cleanup", "reportFailure"}
(* await points inside backend.request                                     *)
Calling == {"claiming", "reporting", "reportingFailure"}

WorkerTypeOK ==
    /\ pc \in [Workers -> {"poll", "claiming", "reportingFailure"}
                              \cup FileWork \cup Reporting \cup Failing]
    /\ job \in [Workers -> Ids \cup {Null}]
    /\ attempt \in [Workers -> Nat]
    /\ cursor \in [Workers -> Slots]
    /\ \A w \in Workers :
           IF pc[w] \in {"poll", "claiming"}
           THEN cursor[w] = Thumbnail
           ELSE job[w] \in Ids /\ cursor[w] \in Outputs(job[w])

WorkerInit ==
    /\ pc = [w \in Workers |-> "poll"]
    /\ job = [w \in Workers |-> Null]
    /\ attempt = [w \in Workers |-> 0]
    /\ cursor = [w \in Workers |-> Thumbnail]

Goto(w, label) ==
    /\ pc' = [pc EXCEPT ![w] = label]
    /\ UNCHANGED <<job, attempt, cursor>>

(* Back to the poll loop: processOne returned or threw.                    *)
EndJob(w) ==
    /\ pc' = [pc EXCEPT ![w] = "poll"]
    /\ job' = [job EXCEPT ![w] = Null]
    /\ attempt' = [attempt EXCEPT ![w] = 0]
    /\ cursor' = [cursor EXCEPT ![w] = Thumbnail]

-----------------------------------------------------------------------------
(* processOne: the claim, its two answers, and a claim that throws.        *)
Poll(w) == pc[w] = "poll" /\ Goto(w, "claiming") /\ UNCHANGED storageVars

StartJob(w, id, n) ==
    /\ pc[w] = "claiming"
    /\ pc' = [pc EXCEPT ![w] = "clean"]
    /\ job' = [job EXCEPT ![w] = id]
    /\ attempt' = [attempt EXCEPT ![w] = n]
    /\ UNCHANGED cursor
    /\ UNCHANGED storageVars

(* processJob, step by step                                                *)
CleanStaging(w) ==
    /\ pc[w] = "clean"
    /\ RecreateStaging(job[w])
    /\ Goto(w, "probe")

(* probeDimensions and planRenditions                                      *)
Probe(w) ==
    /\ pc[w] = "probe"
    /\ original[job[w]] = "full"
    /\ pc' = [pc EXCEPT ![w] = "produce"]
    /\ cursor' = [cursor EXCEPT ![w] = 1]
    /\ UNCHANGED <<job, attempt>>
    /\ UNCHANGED storageVars

(* transcodeRendition or extractThumbnail: ffmpeg starts writing, ...      *)
StartOutput(w) ==
    /\ pc[w] = "produce"
    /\ OpenOutput(job[w], cursor[w])
    /\ Goto(w, "producing")

NextSlot(id, slot) == IF slot = Plan[id] THEN Thumbnail ELSE slot + 1

(* A loop that does not wait for ffmpeg to finish the output.              *)
FinishOutputUnawaited(w) ==
    /\ pc[w] = "producing"
    /\ UNCHANGED storageVars
    /\ pc' = [pc EXCEPT ![w] =
                  IF cursor[w] = Thumbnail THEN "clear" ELSE "produce"]
    /\ cursor' = [cursor EXCEPT ![w] =
                      IF @ = Thumbnail THEN 1 ELSE NextSlot(job[w], @)]
    /\ UNCHANGED <<job, attempt>>

(* ... and is done with this output. The thumbnail is the last one.        *)
FinishOutput(w) ==
    /\ pc[w] = "producing"
    /\ CloseOutput(job[w], cursor[w])
    /\ pc' = [pc EXCEPT ![w] =
                  IF cursor[w] = Thumbnail THEN "clear" ELSE "produce"]
    /\ cursor' = [cursor EXCEPT ![w] =
                      IF @ = Thumbnail THEN 1 ELSE NextSlot(job[w], @)]
    /\ UNCHANGED <<job, attempt>>

ClearFinal(w) ==
    /\ pc[w] = "clear"
    /\ ClearRenditions(job[w])
    /\ Goto(w, "move")

(* A move loop that ends with the last rendition.                          *)
MoveOutputButThumbnail(w) ==
    /\ pc[w] = "move"
    /\ MoveIntoPlace(job[w], cursor[w])
    /\ pc' = [pc EXCEPT ![w] =
                  IF cursor[w] = Plan[job[w]] THEN "discard" ELSE "move"]
    /\ cursor' = [cursor EXCEPT ![w] = NextSlot(job[w], @)]
    /\ UNCHANGED <<job, attempt>>

(* The rename of one staged file; the thumbnail comes last.                *)
MoveOutput(w) ==
    /\ pc[w] = "move"
    /\ MoveIntoPlace(job[w], cursor[w])
    /\ pc' = [pc EXCEPT ![w] =
                  IF cursor[w] = Thumbnail THEN "discard" ELSE "move"]
    /\ cursor' = [cursor EXCEPT ![w] =
                      IF @ = Thumbnail THEN Thumbnail ELSE NextSlot(job[w], @)]
    /\ UNCHANGED <<job, attempt>>

DiscardStaging(w) ==
    /\ pc[w] = "discard"
    /\ RemoveStaging(job[w])
    /\ Goto(w, "report")

SendCompleted(w) ==
    /\ pc[w] = "report"
    /\ Goto(w, "reporting")
    /\ UNCHANGED storageVars

(* Any await before the report may throw into the catch block. Some        *)
(* failures need no fault: the file to read or to move is not there.       *)
MissingInput(w) ==
    \/ pc[w] = "probe" /\ original[job[w]] # "full"
    \/ pc[w] = "produce" /\ job[w] \notin stagingDirs
    \/ pc[w] = "move" /\ tmp[job[w]][cursor[w]] = "absent"

StepThrows(w) ==
    /\ pc[w] \in FileWork
    /\ "ioError" \in Faults \/ MissingInput(w)
    /\ Goto(w, "cleanup")
    /\ UNCHANGED storageVars

(* A catch block that cleans up and reports nothing.                       *)
CatchCleanupSilently(w) ==
    /\ pc[w] = "cleanup"
    /\ EndJob(w)
    /\ RemoveStaging(job[w])

(* The catch block: removeDir(tmp/<id>) with its error swallowed, then the *)
(* FAILED report.                                                          *)
CatchCleanup(w) ==
    /\ pc[w] = "cleanup"
    /\ Goto(w, "reportFailure")
    /\ \/ RemoveStaging(job[w])
       \/ "ioError" \in Faults /\ UNCHANGED storageVars

SendFailed(w) ==
    /\ pc[w] = "reportFailure"
    /\ Goto(w, "reportingFailure")
    /\ UNCHANGED storageVars

(* backend.request resolves: the job is over, whichever report it was.     *)
ReportAccepted(w) ==
    /\ pc[w] \in {"reporting", "reportingFailure"}
    /\ EndJob(w)
    /\ UNCHANGED storageVars

(* The COMPLETED report moved out of the try block.                        *)
CallThrowsUncaught(w) ==
    /\ pc[w] \in Calling
    /\ EndJob(w)
    /\ UNCHANGED storageVars

(* backend.request throws. The COMPLETED report is inside the try block,   *)
(* so its failure is handled like a failed transcode; the other two leave  *)
(* processOne and are logged by the poll loop.                             *)
CallThrows(w) ==
    /\ pc[w] \in Calling
    /\ IF pc[w] = "reporting" THEN Goto(w, "cleanup") ELSE EndJob(w)
    /\ UNCHANGED storageVars

(* The process dies and is started again; the files stay as they are.      *)
Restart(w) ==
    /\ "workerCrash" \in Faults
    /\ pc[w] # "poll"
    /\ EndJob(w)
    /\ UNCHANGED storageVars

FileStep(w) ==
    \/ CleanStaging(w)
    \/ Probe(w)
    \/ StartOutput(w)
    \/ FinishOutput(w)
    \/ ClearFinal(w)
    \/ MoveOutput(w)
    \/ DiscardStaging(w)
    \/ StepThrows(w)
    \/ CatchCleanup(w)
=============================================================================
