--------------------------- MODULE MetadataStore ---------------------------
(***************************************************************************)
(* SqliteMetadataStore: the tables upload_records and renditions, and one  *)
(* action per mutating operation.                                          *)
(*                                                                         *)
(* Every mutation runs inside runWrite, a BEGIN IMMEDIATE transaction, so  *)
(* the writers of all backend replicas are serialised by SQLite and an     *)
(* operation is one atomic step.  A write that does not get the lock in    *)
(* DEFAULT_MAX_WRITE_ATTEMPTS attempts throws and changes nothing; its     *)
(* caller models that.                                                     *)
(*                                                                         *)
(* upload_records is kept as one function per column.  A path column is    *)
(* TRUE when it is set, since a path is a function of the id; an error     *)
(* message is likewise only present or not.                                *)
(***************************************************************************)
EXTENDS SharedTypes

CONSTANTS
    Stamps,        \* the values uploaded_at may take, as read on a replica
    StuckTimeout   \* timeoutMs of resetStuckProcessing, in clock ticks

ASSUME StampsAssumption  == Stamps \subseteq Nat
ASSUME TimeoutAssumption == StuckTimeout \in Nat

VARIABLES
    status,          \* NoRow, or the status column
    uploadedAt,      \* the uploaded_at column (Null without a row)
    processingAge,   \* ticks since processing_started_at, Null when NULL;
                     \* it stops at StuckTimeout, the only value compared with
    thumbnailPath,   \* thumbnail_path IS NOT NULL
    error,           \* error IS NOT NULL
    renditionRows    \* the rows of table renditions, by upload_id

storeVars ==
    <<status, uploadedAt, processingAge, thumbnailPath, error, renditionRows>>

NoRow == "NO_ROW"
Exists(id) == status[id] # NoRow

StoreTypeOK ==
    /\ status \in [Ids -> ProcessingStatus \cup {NoRow}]
    /\ uploadedAt \in [Ids -> Stamps \cup {Null}]
    /\ processingAge \in [Ids -> (0..StuckTimeout) \cup {Null}]
    /\ thumbnailPath \in [Ids -> BOOLEAN]
    /\ error \in [Ids -> BOOLEAN]
    /\ renditionRows \in [Ids -> SUBSET (1..MaxRenditions)]

StoreInit ==
    /\ status = [id \in Ids |-> NoRow]
    /\ uploadedAt = [id \in Ids |-> Null]
    /\ processingAge = [id \in Ids |-> Null]
    /\ thumbnailPath = [id \in Ids |-> FALSE]
    /\ error = [id \in Ids |-> FALSE]
    /\ renditionRows = [id \in Ids |-> {}]

-----------------------------------------------------------------------------
(* createUpload: the INSERT of a PENDING row; `at` was read from the clock *)
(* before the write lock was asked for.                                    *)
CreateUpload(id, at) ==
    /\ ~Exists(id)
    /\ status' = [status EXCEPT ![id] = "PENDING"]
    /\ uploadedAt' = [uploadedAt EXCEPT ![id] = at]
    /\ processingAge' = [processingAge EXCEPT ![id] = Null]
    /\ thumbnailPath' = [thumbnailPath EXCEPT ![id] = FALSE]
    /\ error' = [error EXCEPT ![id] = FALSE]
    /\ UNCHANGED renditionRows

(* ORDER BY uploaded_at ASC, id ASC *)
Before(a, b) ==
    \/ uploadedAt[a] < uploadedAt[b]
    \/ uploadedAt[a] = uploadedAt[b] /\ a < b

NothingPending == \A id \in Ids : status[id] # "PENDING"

(* A SELECT that does not filter on the status: the oldest row of all, if  *)
(* it happens to be PENDING.                                               *)
OldestPendingUnfiltered(id) ==
    /\ status[id] = "PENDING"
    /\ \A other \in Ids \ {id} : Exists(other) => Before(id, other)

(* The row the SELECT of claimNext returns.                                *)
OldestPending(id) ==
    /\ status[id] = "PENDING"
    /\ \A other \in Ids \ {id} :
           status[other] = "PENDING" => Before(id, other)

(* claimNext when `id` is the row its SELECT returns. The SELECT and the   *)
(* guarded UPDATE are in one transaction, so info.changes is never 0.      *)
ClaimNext(id) ==
    /\ OldestPending(id)
    /\ status' = [status EXCEPT ![id] = "PROCESSING"]
    /\ processingAge' = [processingAge EXCEPT ![id] = 0]
    /\ UNCHANGED <<uploadedAt, thumbnailPath, error, renditionRows>>

(* A patch that writes undefined into the row.                             *)
PatchedAlways(old, new) == new

(* A patched column keeps its value when the patch leaves it undefined.    *)
Patched(old, new) == IF new = Keep THEN old ELSE new

(* updateUpload: it requires the row and applies the patch; it looks at    *)
(* neither the current status nor who asks.                                *)
UpdateUpload(id, patch) ==
    /\ Exists(id)
    /\ status' = [status EXCEPT ![id] = Patched(@, patch.status)]
    /\ processingAge' =
           [processingAge EXCEPT ![id] = Patched(@, patch.processingAge)]
    /\ thumbnailPath' =
           [thumbnailPath EXCEPT ![id] = Patched(@, patch.thumbnailPath)]
    /\ error' = [error EXCEPT ![id] = Patched(@, patch.error)]
    /\ UNCHANGED <<uploadedAt, renditionRows>>

(* setRenditions: delete the rows of the upload and insert the new ones;   *)
(* the foreign key needs the upload's row.                                 *)
SetRenditions(id, rows) ==
    /\ rows # {} => Exists(id)
    /\ renditionRows' = [renditionRows EXCEPT ![id] = rows]
    /\ UNCHANGED <<status, uploadedAt, processingAge, thumbnailPath, error>>

(* A retry without its status check.                                       *)
RetryProcessingUnguarded(id) ==
    /\ Exists(id)
    /\ status' = [status EXCEPT ![id] = "PENDING"]
    /\ error' = [error EXCEPT ![id] = FALSE]
    /\ processingAge' = [processingAge EXCEPT ![id] = Null]
    /\ UNCHANGED <<uploadedAt, thumbnailPath, renditionRows>>

(* A retry that forgets to clear the error of the failed run.              *)
RetryProcessingKeepingError(id) ==
    /\ status[id] = "FAILED"
    /\ status' = [status EXCEPT ![id] = "PENDING"]
    /\ processingAge' = [processingAge EXCEPT ![id] = Null]
    /\ UNCHANGED <<uploadedAt, thumbnailPath, error, renditionRows>>

(* retryProcessing: only a FAILED row goes back to PENDING. The thumbnail  *)
(* path and the rendition rows of the earlier run stay.                    *)
RetryProcessing(id) ==
    /\ status[id] = "FAILED"
    /\ status' = [status EXCEPT ![id] = "PENDING"]
    /\ error' = [error EXCEPT ![id] = FALSE]
    /\ processingAge' = [processingAge EXCEPT ![id] = Null]
    /\ UNCHANGED <<uploadedAt, thumbnailPath, renditionRows>>

(* A recovery that only looks for a missing start time.                    *)
StuckWithoutStart(id) ==
    /\ status[id] = "PROCESSING"
    /\ processingAge[id] = Null

(* resetStuckProcessing: every PROCESSING row claimed at least StuckTimeout *)
(* ago, or with a NULL start, goes back to PENDING in one transaction.     *)
Stuck(id) ==
    /\ status[id] = "PROCESSING"
    /\ processingAge[id] = Null \/ processingAge[id] >= StuckTimeout

ResetStuckProcessing ==
    /\ \E id \in Ids : Stuck(id)
    /\ status' = [id \in Ids |-> IF Stuck(id) THEN "PENDING" ELSE status[id]]
    /\ processingAge' =
           [id \in Ids |-> IF Stuck(id) THEN Null ELSE processingAge[id]]
    /\ UNCHANGED <<uploadedAt, thumbnailPath, error, renditionRows>>

(* One tick of the clock: running jobs get older.                          *)
Tick ==
    /\ \E id \in Ids : processingAge[id] # Null /\ processingAge[id] < StuckTimeout
    /\ processingAge' =
           [id \in Ids |-> IF /\ processingAge[id] # Null
                              /\ processingAge[id] < StuckTimeout
                           THEN processingAge[id] + 1
                           ELSE processingAge[id]]
    /\ UNCHANGED <<status, uploadedAt, thumbnailPath, error, renditionRows>>
=============================================================================
