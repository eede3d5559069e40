----------------------------- MODULE BackendApi -----------------------------
(***************************************************************************)
(* The GraphQL operations of UploadResolver that change metadata, as the   *)
(* worker's calls and a user's retry reach them, and the calls themselves. *)
(*                                                                         *)
(* A resolver runs synchronously inside its replica (better-sqlite3 never  *)
(* yields), so a replica serves one call at a time; two replicas interleave*)
(* between the transactions of updateProcessingResult.                     *)
(***************************************************************************)
EXTENDS MetadataStore

CONSTANT MaxClaims   \* bound: claims are told apart up to this number, and
                     \* requests outlive their callers for as many attempts
ASSUME MaxClaimsAssumption == MaxClaims \in Nat \ {0}

VARIABLES
    requests,   \* calls that have been sent and not been served
    replies,    \* replies[w]: the answer on its way to worker w
    handler,    \* handler[r]: the COMPLETED report replica r is inside of,
                \* after updateUpload and before setRenditions
    claims      \* auxiliary: how often each id was claimed, up to MaxClaims

apiVars == <<requests, replies, handler, claims>>

(* caller is Null once the worker has given up on the call.                *)
Request == [type: {"claimNext", "COMPLETED", "FAILED"},
            caller: Workers \cup {Null}, id: Ids \cup {Null}, attempt: Nat]
NoRequest == [type |-> "none", caller |-> Null, id |-> Null, attempt |-> 0]

Reply == [type: {"none", "job", "empty", "ok", "error"},
          id: Ids \cup {Null}, attempt: Nat]
NoReply == [type |-> "none", id |-> Null, attempt |-> 0]
PlainReply(t) == [type |-> t, id |-> Null, attempt |-> 0]

ApiTypeOK ==
    /\ requests \in SUBSET Request
    /\ \A m \in requests : m.type # "claimNext" => m.id \in Ids
    /\ replies \in [Workers -> Reply]
    /\ \A w \in Workers : replies[w].type = "job" => replies[w].id \in Ids
    /\ handler \in [Replicas -> Request \cup {NoRequest}]
    /\ \A r \in Replicas : handler[r] # NoRequest => handler[r].id \in Ids
    /\ claims \in [Ids -> Nat]

ApiInit ==
    /\ requests = {}
    /\ replies = [w \in Workers |-> NoReply]
    /\ handler = [r \in Replicas |-> NoRequest]
    /\ claims = [id \in Ids |-> 0]

Free(r) == handler[r] = NoRequest

Answer(m, reply) ==
    replies' = IF m.caller = Null THEN replies
               ELSE [replies EXCEPT ![m.caller] = reply]

-----------------------------------------------------------------------------
(* fetch sends a request ...                                               *)
Send(m) ==
    /\ requests' = requests \cup {m}
    /\ UNCHANGED <<replies, handler, claims>>

(* ... its answer arrives ...                                              *)
TakeReply(w) ==
    /\ replies' = [replies EXCEPT ![w] = NoReply]
    /\ UNCHANGED <<requests, handler, claims>>

(* ... or the caller is gone: its answer is dropped, and a request that    *)
(* was not served yet is dropped or (lateRequest) served without a caller. *)
(* Two abandoned claims in flight are one element of the set.              *)
Orphaned(m) == [m EXCEPT !.caller = Null]
SentBy(w) == {m \in requests : m.caller = w}

HangUp(w) ==
    /\ \/ requests' = requests \ SentBy(w)
       \/ /\ "lateRequest" \in Faults
          /\ requests' = (requests \ SentBy(w))
                             \cup {Orphaned(m) : m \in SentBy(w)}
    /\ replies' = [replies EXCEPT ![w] = NoReply]
    /\ handler' = [r \in Replicas |-> IF handler[r].caller = w
                                      THEN Orphaned(handler[r])
                                      ELSE handler[r]]
    /\ UNCHANGED claims

(* A replica is between the two transactions of w's report.                *)
InService(w) == \E r \in Replicas : handler[r].caller = w

-----------------------------------------------------------------------------
(* claimNext, on a replica that is free                                    *)
Bump(n) == IF n < MaxClaims THEN n + 1 ELSE n

(* A claim whose UPDATE leaves the row PENDING.                            *)
GrantWithoutClaim(m, id) ==
    /\ m.type = "claimNext"
    /\ OldestPending(id)
    /\ claims' = [claims EXCEPT ![id] = Bump(@)]
    /\ Answer(m, [type |-> "job", id |-> id, attempt |-> Bump(claims[id])])
    /\ requests' = requests \ {m}
    /\ UNCHANGED handler
    /\ UNCHANGED storeVars

GrantClaim(m, id) ==
    /\ m.type = "claimNext"
    /\ ClaimNext(id)
    /\ claims' = [claims EXCEPT ![id] = Bump(@)]
    /\ Answer(m, [type |-> "job", id |-> id, attempt |-> Bump(claims[id])])
    /\ requests' = requests \ {m}
    /\ UNCHANGED handler

NothingToClaim(m) ==
    /\ m.type = "claimNext"
    /\ NothingPending
    /\ Answer(m, PlainReply("empty"))
    /\ requests' = requests \ {m}
    /\ UNCHANGED <<handler, claims>>
    /\ UNCHANGED storeVars

(* The first write of any operation gives up: the call gets an error.      *)
RejectBusy(m) ==
    /\ "busy" \in Faults
    /\ Answer(m, PlainReply("error"))
    /\ requests' = requests \ {m}
    /\ UNCHANGED <<handler, claims>>
    /\ UNCHANGED storeVars

(* A report that leaves the start time of its attempt in the row.          *)
ResultPatchKeepingStart(st) ==
    [status |-> st,
     processingAge |-> Keep,
     thumbnailPath |-> IF st = "COMPLETED" THEN TRUE ELSE Keep,
     error |-> IF st = "FAILED" THEN TRUE ELSE Keep]

(* updateProcessingResult: the patch of its updateUpload. A terminal       *)
(* status clears processing_started_at; what the worker left out is kept.  *)
ResultPatch(st) ==
    [status |-> st,
     processingAge |-> IF st \in {"COMPLETED", "FAILED"} THEN Null ELSE Keep,
     thumbnailPath |-> IF st = "COMPLETED" THEN TRUE ELSE Keep,
     error |-> IF st = "FAILED" THEN TRUE ELSE Keep]

(* A COMPLETED report: updateUpload commits on its own, ...                *)
RecordCompleted(r, m) ==
    /\ m.type = "COMPLETED"
    /\ UpdateUpload(m.id, ResultPatch("COMPLETED"))
    /\ handler' = [handler EXCEPT ![r] = m]
    /\ requests' = requests \ {m}
    /\ UNCHANGED <<replies, claims>>

(* ... and setRenditions is a second transaction, which may give up.       *)
StoreRenditions(r) ==
    /\ ~Free(r)
    /\ SetRenditions(handler[r].id, Renditions(handler[r].id))
    /\ Answer(handler[r], PlainReply("ok"))
    /\ handler' = [handler EXCEPT ![r] = NoRequest]
    /\ UNCHANGED <<requests, claims>>

RenditionsBusy(r) ==
    /\ ~Free(r)
    /\ "busy" \in Faults
    /\ Answer(handler[r], PlainReply("error"))
    /\ handler' = [handler EXCEPT ![r] = NoRequest]
    /\ UNCHANGED <<requests, claims>>
    /\ UNCHANGED storeVars

(* A FAILED report carries no renditions: one transaction.                 *)
RecordFailed(m) ==
    /\ m.type = "FAILED"
    /\ UpdateUpload(m.id, ResultPatch("FAILED"))
    /\ Answer(m, PlainReply("ok"))
    /\ requests' = requests \ {m}
    /\ UNCHANGED <<handler, claims>>

(* retryProcessing by a user, as often as he likes. Where requests outlive *)
(* their callers the bound ends the retries: attempts would pile up.       *)
Retry(id) ==
    /\ "lateRequest" \in Faults => claims[id] < MaxClaims
    /\ RetryProcessing(id)
    /\ UNCHANGED apiVars

(* A replica dies inside updateProcessingResult. What the callers of its   *)
(* other operations see of its death is CallFails of VideoPlatform.        *)
LoseHandler(r) ==
    /\ handler' = [handler EXCEPT ![r] = NoRequest]
    /\ UNCHANGED <<requests, replies, claims>>
=============================================================================
