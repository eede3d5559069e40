---------------------------- MODULE UploadIntake ----------------------------
(***************************************************************************)
(* UploadService.handleUpload in the backend replicas: stream the file to  *)
(* originals/<id>.mp4, validate it, and only then insert the record.  Each *)
(* upload request has its own randomUUID, so intake is kept per id.        *)
(***************************************************************************)
EXTENDS MetadataStore, VideoStorage

CONSTANT Valid   \* the ids whose upload is an MP4 that ftyp and ffprobe accept
ASSUME ValidAssumption == Valid \subseteq Ids

VARIABLES
    intake,     \* how far the upload request is
    host        \* the replica that serves it, Null before and after

intakeVars == <<intake, host>>

InProgress == {"streaming", "validating"}
Settled == {"accepted", "failed", "lost"}

IntakeTypeOK ==
    /\ intake \in [Ids -> {"idle"} \cup InProgress \cup Settled]
    /\ host \in [Ids -> Replicas \cup {Null}]
    /\ \A id \in Ids : host[id] \in Replicas <=> intake[id] \in InProgress

IntakeInit ==
    /\ intake = [id \in Ids |-> "idle"]
    /\ host = [id \in Ids |-> Null]

WriteOriginal(id, state) ==
    /\ original' = [original EXCEPT ![id] = state]
    /\ UNCHANGED <<stagingDirs, tmp, final>>

(* safeUnlink: the file goes, unless unlink itself fails.                  *)
SafeUnlink(id) ==
    \/ WriteOriginal(id, "absent")
    \/ "ioError" \in Faults /\ UNCHANGED storageVars

(* The request ends, answered or not.                                      *)
Settle(id, outcome) ==
    /\ intake' = [intake EXCEPT ![id] = outcome]
    /\ host' = [host EXCEPT ![id] = Null]

-----------------------------------------------------------------------------
(* handleUpload starts and streamToDisk opens the file.                    *)
BeginUpload(r, id) ==
    /\ intake[id] = "idle"
    /\ intake' = [intake EXCEPT ![id] = "streaming"]
    /\ host' = [host EXCEPT ![id] = r]
    /\ WriteOriginal(id, "partial")
    /\ UNCHANGED storeVars

(* A streamToDisk that does not wait for the end of the pipeline.          *)
StreamEndsEarly(id) ==
    /\ intake[id] = "streaming"
    /\ intake' = [intake EXCEPT ![id] = "validating"]
    /\ UNCHANGED host
    /\ UNCHANGED storageVars
    /\ UNCHANGED storeVars

StreamEnds(id) ==
    /\ intake[id] = "streaming"
    /\ intake' = [intake EXCEPT ![id] = "validating"]
    /\ UNCHANGED host
    /\ WriteOriginal(id, "full")
    /\ UNCHANGED storeVars

(* The pipeline rejects (the client went away, the disk is full): the      *)
(* partial file is unlinked and the error rethrown.                        *)
StreamBreaks(id) ==
    /\ intake[id] = "streaming"
    /\ Settle(id, "failed")
    /\ SafeUnlink(id)
    /\ UNCHANGED storeVars

(* A rejection that answers and forgets the file.                          *)
RejectWithoutUnlink(id) ==
    /\ intake[id] = "validating"
    /\ id \notin Valid \/ "ioError" \in Faults
    /\ Settle(id, "failed")
    /\ UNCHANGED storageVars
    /\ UNCHANGED storeVars

(* validate throws InvalidMp4Error, or its file operations fail.           *)
Reject(id) ==
    /\ intake[id] = "validating"
    /\ id \notin Valid \/ "ioError" \in Faults
    /\ Settle(id, "failed")
    /\ SafeUnlink(id)
    /\ UNCHANGED storeVars

(* validate returns and createUpload commits.                              *)
Accept(id) ==
    /\ intake[id] = "validating"
    /\ id \in Valid
    /\ Settle(id, "accepted")
    /\ \E at \in Stamps : CreateUpload(id, at)
    /\ UNCHANGED storageVars

(* createUpload gives up on a busy database. It is outside the try block   *)
(* of handleUpload, so the original stays where it was streamed to.        *)
AcceptFails(id) ==
    /\ intake[id] = "validating"
    /\ id \in Valid
    /\ "busy" \in Faults
    /\ Settle(id, "failed")
    /\ UNCHANGED storageVars
    /\ UNCHANGED storeVars

(* The replica dies: its uploads end where they are, files included.       *)
LoseUploads(r) ==
    /\ intake' = [id \in Ids |-> IF host[id] = r THEN "lost" ELSE intake[id]]
    /\ host' = [id \in Ids |-> IF host[id] = r THEN Null ELSE host[id]]

IntakeStep(id) ==
    \/ StreamEnds(id)
    \/ StreamBreaks(id)
    \/ Reject(id)
    \/ Accept(id)
    \/ AcceptFails(id)
=============================================================================
