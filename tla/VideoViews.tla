----------------------------- MODULE VideoViews -----------------------------
(***************************************************************************)
(* What a user sees of the platform: one browser with the list of videos,  *)
(* polled, and the opened detail, read once per page load and cached, with *)
(* the files it shows, cached for longer than that; and the two queries    *)
(* behind them, as the backend replicas serve them while uploads, jobs and *)
(* reports go on.                                                          *)
(*                                                                         *)
(* videoMetadata is two SELECTs outside any transaction.  Its replica does *)
(* nothing else between them, but the other replicas do.                   *)
(***************************************************************************)
EXTENDS VideoPlatform

VARIABLES
    shown,     \* Apollo cache of the Videos query: the badge of each row
    listError, \* the list is replaced by the error of its last poll
    poll,      \* the Videos request and its answer
    expanded,  \* VideoList's state: the row whose detail is open
    query,     \* query[id]: the videoMetadata request and its answer
    detail,    \* Apollo cache of videoMetadata(id), or an error
    pieces,    \* HTTP cache: what the browser holds for each file's URL
    kept,      \* auxiliary: the files taken from a COMPLETED record that has
               \* not left COMPLETED since
    held       \* auxiliary: the rendition rows seen with status COMPLETED
               \* since the first SELECT of the query

browserVars == <<shown, listError, poll, expanded, query, detail>>
observerVars == <<pieces, kept, held>>
viewVars == <<vars, browserVars, observerVars>>

Badge == ProcessingStatus \cup {NoRow}
EmptyList == [id \in Ids |-> NoRow]

(* VideoMetadataModel: the references are URLs derived from the id.        *)
Metadata == [status: ProcessingStatus, renditions: SUBSET (1..MaxRenditions),
             thumbnail: BOOLEAN]
NoMetadata == [status |-> "PENDING", renditions |-> {}, thumbnail |-> FALSE]

Query == [state: {"idle", "sent", "reading", "answered", "failed"},
          at: Replicas \cup {Null}, meta: Metadata]
NoQuery == [state |-> "idle", at |-> Null, meta |-> NoMetadata]
NoDetail == [state |-> "none", meta |-> NoMetadata]

(* Nothing, a 404, the file that was published last, or one before it.     *)
Copy == {"none", "missing", "current", "replaced"}

ViewsTypeOK ==
    /\ TypeOK
    /\ shown \in [Ids -> Badge]
    /\ listError \in BOOLEAN
    /\ poll \in [state: {"idle", "sent", "answered"}, list: [Ids -> Badge]]
    /\ expanded \in Ids \cup {Null}
    /\ query \in [Ids -> Query]
    /\ \A id \in Ids : query[id].at # Null <=> query[id].state = "reading"
    /\ detail \in [Ids -> [state: {"none", "error", "loaded"}, meta: Metadata]]
    /\ pieces \in [Ids -> [Slots -> Copy]]
    /\ kept \in [Ids -> SUBSET Slots]
    /\ held \in [Ids -> SUBSET SUBSET (1..MaxRenditions)]

ViewsInit ==
    /\ Init
    /\ shown = EmptyList
    /\ listError = FALSE
    /\ poll = [state |-> "idle", list |-> EmptyList]
    /\ expanded = Null
    /\ query = [id \in Ids |-> NoQuery]
    /\ detail = [id \in Ids |-> NoDetail]
    /\ pieces = [id \in Ids |-> [s \in Slots |-> "none"]]
    /\ kept = [id \in Ids |-> {}]
    /\ held = [id \in Ids |-> {}]

Reading(r) == \E id \in Ids : query[id].at = r
Available(r) == Free(r) /\ ~Reading(r)
SomeAvailable == \E r \in Replicas : Available(r)

-----------------------------------------------------------------------------
(* The platform goes on, except on the thread of a replica that is between *)
(* the two SELECTs. What its steps mean for what the browser holds: a file *)
(* published anew outdates the copy of its URL, which carries no ETag.     *)
Published(id, s) ==
    \E w \in Workers : job[w] = id /\ cursor[w] = s /\ MoveOutput(w)

Observe ==
    /\ pieces' = [id \in Ids |-> [s \in Slots |->
           IF Published(id, s) /\ pieces[id][s] = "current"
           THEN "replaced" ELSE pieces[id][s]]]
    /\ kept' = [id \in Ids |-> IF status'[id] = "COMPLETED" THEN kept[id] ELSE {}]
    /\ held' = [id \in Ids |->
           IF query[id].state = "reading" /\ status'[id] = "COMPLETED"
           THEN held[id] \cup {renditionRows'[id]} ELSE held[id]]

PlatformStep ==
    /\ \/ \E w \in Workers : WorkerStep(w) \/ CrashWorker(w)
       \/ SomeAvailable /\ \E id \in Ids : Grant(id) \/ UserRetry(id)
       \/ SomeAvailable /\ (ServeEmpty \/ ServeFailed \/ ServeBusy)
       \/ \E id \in Ids : ~Reading(host[id]) /\ Intake(id)
       \/ \E r \in Replicas :
              /\ ~Reading(r)
              /\ \/ ServeCompleted(r)
                 \/ FinishCompleted(r)
                 \/ \E id \in Ids : UserUpload(r, id)
    /\ Observe
    /\ UNCHANGED browserVars

(* A query that fails with its replica and is still taken to be inside it. *)
LoseReplicaStillReading(r) ==
    /\ CrashBackend(r)
    /\ query' = [id \in Ids |-> IF query[id].at = r
                                THEN [query[id] EXCEPT !.state = "failed"]
                                ELSE query[id]]
    /\ Observe
    /\ UNCHANGED <<shown, listError, poll, expanded, detail>>

(* A replica dies, and with it the query it is inside of.                  *)
LoseReplica(r) ==
    /\ CrashBackend(r)
    /\ query' = [id \in Ids |-> IF query[id].at = r
                                THEN [NoQuery EXCEPT !.state = "failed"]
                                ELSE query[id]]
    /\ Observe
    /\ UNCHANGED <<shown, listError, poll, expanded, detail>>

-----------------------------------------------------------------------------
(* The list. At most one Videos request is in flight: the refetch after an *)
(* upload is deduplicated with a poll.                                     *)
ListOnly == UNCHANGED <<vars, observerVars, expanded, query>>

(* A poll timer that an error stops.                                       *)
SendPollUnlessError ==
    /\ poll.state = "idle"
    /\ ~listError
    /\ poll' = [poll EXCEPT !.state = "sent"]
    /\ UNCHANGED <<shown, listError, detail>>
    /\ ListOnly

SendPoll ==
    /\ poll.state = "idle"
    /\ poll' = [poll EXCEPT !.state = "sent"]
    /\ UNCHANGED <<shown, listError, detail>>
    /\ ListOnly

(* videos: one SELECT                                                      *)
ServeList ==
    /\ poll.state = "sent"
    /\ SomeAvailable
    /\ poll' = [state |-> "answered", list |-> status]
    /\ UNCHANGED <<shown, listError, detail>>
    /\ ListOnly

ReceiveList ==
    /\ poll.state = "answered"
    /\ shown' = poll.list
    /\ listError' = FALSE
    /\ poll' = [state |-> "idle", list |-> EmptyList]
    /\ UNCHANGED detail
    /\ ListOnly

(* A detail that is not rendered any more forgets its error, not its data. *)
Unmounted(d) == IF d.state = "error" THEN NoDetail ELSE d

(* The SELECT finds the database locked, or the connection breaks. The     *)
(* list, and an open detail with it, gives way to the error.               *)
PollFails ==
    /\ {"busy", "backendCrash"} \cap Faults # {}
    /\ poll.state # "idle"
    /\ listError' = TRUE
    /\ poll' = [state |-> "idle", list |-> EmptyList]
    /\ detail' = [id \in Ids |-> Unmounted(detail[id])]
    /\ UNCHANGED shown
    /\ ListOnly

-----------------------------------------------------------------------------
(* The detail of a row. The button exists on COMPLETED badges only: a row  *)
(* that leaves COMPLETED stays open.                                       *)
Toggle(id) ==
    /\ ~listError
    /\ shown[id] = "COMPLETED"
    /\ expanded' = IF expanded = id THEN Null ELSE id
    /\ detail' = [i \in Ids |-> Unmounted(detail[i])]
    /\ UNCHANGED <<vars, observerVars, shown, listError, poll, query>>

Mounted(id) == expanded = id /\ ~listError /\ shown[id] # NoRow

DetailOnly == UNCHANGED <<vars, shown, listError, poll, expanded>>

(* useQuery, cache-first: what is cached is not asked for again, before    *)
(* the page is loaded anew.                                                *)
FetchDetail(id) ==
    /\ Mounted(id)
    /\ detail[id].state = "none"
    /\ query[id].state = "idle"
    /\ query' = [query EXCEPT ![id].state = "sent"]
    /\ UNCHANGED <<detail, observerVars>>
    /\ DetailOnly

Answered(meta) == [state |-> "answered", at |-> Null, meta |-> meta]

(* A resolver that looks at the record's existence only.                   *)
WithheldNever(id) == ~Exists(id)

(* References are withheld until the record is COMPLETED.                  *)
Withheld(id) == status[id] # "COMPLETED"

ServeWithheld(id) ==
    /\ query[id].state = "sent"
    /\ SomeAvailable
    /\ Exists(id)
    /\ Withheld(id)
    /\ query' = [query EXCEPT
           ![id] = Answered([NoMetadata EXCEPT !.status = status[id]])]
    /\ UNCHANGED <<detail, observerVars>>
    /\ DetailOnly

(* videoMetadata: getUpload, and ...                                       *)
ReadRecord(r, id) ==
    /\ query[id].state = "sent"
    /\ Available(r)
    /\ Exists(id)
    /\ ~Withheld(id)
    /\ query' = [query EXCEPT ![id] =
           [state |-> "reading", at |-> r,
            meta |-> [status |-> status[id], renditions |-> {},
                      thumbnail |-> thumbnailPath[id]]]]
    /\ held' = [held EXCEPT ![id] = IF status[id] = "COMPLETED"
                                    THEN {renditionRows[id]} ELSE {}]
    /\ UNCHANGED <<detail, pieces, kept>>
    /\ DetailOnly

(* ... getRenditions.                                                      *)
ReadRenditions(id) ==
    /\ query[id].state = "reading"
    /\ query' = [query EXCEPT ![id] =
           Answered([query[id].meta EXCEPT !.renditions = renditionRows[id]])]
    /\ UNCHANGED <<detail, observerVars>>
    /\ DetailOnly

(* A SELECT finds the database locked, or the connection breaks.           *)
QueryFails(id) ==
    /\ \/ "busy" \in Faults /\ query[id].state \in {"sent", "reading"}
       \/ "backendCrash" \in Faults /\ query[id].state \in {"sent", "answered"}
    /\ query' = [query EXCEPT ![id] = [NoQuery EXCEPT !.state = "failed"]]
    /\ UNCHANGED <<detail, observerVars>>
    /\ DetailOnly

(* The answer arrives; if the detail is hidden meanwhile it is dropped.    *)
ReceiveDetail(id) ==
    /\ query[id].state \in {"answered", "failed"}
    /\ detail' = [detail EXCEPT ![id] =
           IF ~Mounted(id) THEN NoDetail
           ELSE IF query[id].state = "failed"
                THEN [state |-> "error", meta |-> NoMetadata]
                ELSE [state |-> "loaded", meta |-> query[id].meta]]
    /\ query' = [query EXCEPT ![id] = NoQuery]
    /\ held' = [held EXCEPT ![id] = {}]
    /\ UNCHANGED <<pieces, kept>>
    /\ DetailOnly

(* The files VideoDetail renders: none unless the metadata says COMPLETED. *)
References(meta) ==
    IF meta.status # "COMPLETED" THEN {}
    ELSE meta.renditions \cup (IF meta.thumbnail THEN {Thumbnail} ELSE {})

Referenced(id) ==
    IF detail[id].state = "loaded" THEN References(detail[id].meta) ELSE {}

(* The img, or the player by ranges, takes a file through the file route.  *)
(* Cache-Control is set before the handler runs, so whatever it answers is *)
(* kept, a 404 as well ...                                                 *)
FetchFile(id, s) ==
    /\ Mounted(id)
    /\ s \in Referenced(id)
    /\ pieces[id][s] = "none"
    /\ pieces' = [pieces EXCEPT ![id][s] =
           IF final[id][s] = "absent" THEN "missing" ELSE "current"]
    /\ kept' = IF status[id] = "COMPLETED"
               THEN [kept EXCEPT ![id] = @ \cup {s}] ELSE kept
    /\ UNCHANGED <<query, detail, held>>
    /\ DetailOnly

(* ... until its hour is over or the browser needs the room.               *)
Evict(id, s) ==
    /\ pieces[id][s] # "none"
    /\ pieces' = [pieces EXCEPT ![id][s] = "none"]
    /\ kept' = [kept EXCEPT ![id] = @ \ {s}]
    /\ UNCHANGED <<query, detail, held>>
    /\ DetailOnly

-----------------------------------------------------------------------------
(* The user loads the page anew: Apollo's cache and the requests under way *)
(* are gone, what the HTTP cache holds is still there.                     *)
Reload ==
    /\ shown' = EmptyList
    /\ listError' = FALSE
    /\ poll' = [state |-> "idle", list |-> EmptyList]
    /\ expanded' = Null
    /\ query' = [id \in Ids |-> NoQuery]
    /\ detail' = [id \in Ids |-> NoDetail]
    /\ held' = [id \in Ids |-> {}]
    /\ UNCHANGED <<vars, pieces, kept>>

-----------------------------------------------------------------------------
ListStep == SendPoll \/ ServeList \/ ReceiveList \/ PollFails

AnswerDetail(id) ==
    \/ ServeWithheld(id)
    \/ \E r \in Replicas : ReadRecord(r, id)
    \/ ReadRenditions(id)

DetailStep(id) ==
    \/ Toggle(id)
    \/ FetchDetail(id)
    \/ AnswerDetail(id)
    \/ QueryFails(id)
    \/ ReceiveDetail(id)
    \/ \E s \in Slots : FetchFile(id, s) \/ Evict(id, s)

ViewsNext ==
    \/ PlatformStep
    \/ \E r \in Replicas : LoseReplica(r)
    \/ ListStep
    \/ \E id \in Ids : DetailStep(id)
    \/ Reload

ViewsSpec == ViewsInit /\ [][ViewsNext]_viewVars
=============================================================================
