----------------------------- MODULE ViewProofs -----------------------------
(***************************************************************************)
(* Theorems about VideoViews for every set of uploads, workers and         *)
(* replicas: the types, and the two invariants of ViewProperties. The      *)
(* views add readers to the platform and change none of its steps, so what *)
(* PublishProofs shows of it holds here as well.                           *)
(***************************************************************************)
EXTENDS ViewProperties, PublishProofs

-----------------------------------------------------------------------------
(* Every step with a browser is a step of the platform, or none of its.    *)
LEMMA StepsAreSteps ==
    ASSUME [ViewsNext]_viewVars
    PROVE  [Next]_vars
<1>1. ASSUME PlatformStep
      PROVE  Next
  BY <1>1 DEF PlatformStep, Next
<1>2. ASSUME NEW r \in Replicas, LoseReplica(r)
      PROVE  Next
  BY <1>2 DEF LoseReplica, Next
<1>3. ASSUME ListStep
      PROVE  UNCHANGED vars
  BY <1>3 DEF ListStep, SendPoll, ServeList, ReceiveList, PollFails, ListOnly
<1>4. ASSUME NEW id \in Ids, DetailStep(id)
      PROVE  UNCHANGED vars
  BY <1>4 DEF DetailStep, Toggle, FetchDetail, AnswerDetail, ServeWithheld, ReadRecord,
     ReadRenditions, QueryFails, ReceiveDetail, FetchFile, Evict, DetailOnly
<1>5. CASE Reload \/ UNCHANGED viewVars
  BY <1>5 DEF Reload, viewVars
<1> QED
  BY <1>1, <1>2, <1>3, <1>4, <1>5 DEF ViewsNext

(* So the platform under a browser is the platform.                        *)
LEMMA ViewsPlatform == ViewsSpec => Spec
<1>1. ViewsInit => Init
  BY DEF ViewsInit
<1>2. [ViewsNext]_viewVars => [Next]_vars
  BY StepsAreSteps
<1> QED
  BY <1>1, <1>2, PTL DEF ViewsSpec, Spec

-----------------------------------------------------------------------------
(* The types of what the browser and the observer keep.                    *)
BrowserTypeOK ==
    /\ shown \in [Ids -> Badge]
    /\ listError \in BOOLEAN
    /\ poll \in [state: {"idle", "sent", "answered"}, list: [Ids -> Badge]]
    /\ expanded \in Ids \cup {Null}
    /\ query \in [Ids -> Query]
    /\ \A id \in Ids : query[id].at # Null <=> query[id].state = "reading"
    /\ detail \in [Ids -> [state: {"none", "error", "loaded"}, meta: Metadata]]

ObserverTypeOK ==
    /\ pieces \in [Ids -> [Slots -> Copy]]
    /\ kept \in [Ids -> SUBSET Slots]
    /\ held \in [Ids -> SUBSET SUBSET (1..MaxRenditions)]

(* A record without references is metadata.                                *)
LEMMA NoMetadataType == NoMetadata \in Metadata
  BY DEF NoMetadata, Metadata, ProcessingStatus

(* A page that was just loaded is typed.                                   *)
LEMMA EmptyTypes ==
    /\ EmptyList \in [Ids -> Badge]
    /\ NoQuery \in Query /\ NoQuery.at = Null /\ NoQuery.state = "idle"
    /\ NoDetail \in [state: {"none", "error", "loaded"}, meta: Metadata]
  BY NoMetadataType DEF EmptyList, Badge, NoQuery, Query, NoDetail

(* What the observer notes at a step of the platform is typed.             *)
LEMMA ObserveType ==
    ASSUME TypeOK', ObserverTypeOK, Observe
    PROVE  ObserverTypeOK'
<1>1. pieces' \in [Ids -> [Slots -> Copy]]
  BY DEF Observe, ObserverTypeOK, Copy
<1>2. kept' \in [Ids -> SUBSET Slots]
  BY DEF Observe, ObserverTypeOK
<1>3. \A id \in Ids : renditionRows'[id] \in SUBSET (1..MaxRenditions)
  BY DEF TypeOK, StoreTypeOK
<1>4. held' \in [Ids -> SUBSET SUBSET (1..MaxRenditions)]
  BY <1>3 DEF Observe, ObserverTypeOK
<1> QED
  BY <1>1, <1>2, <1>4 DEF ObserverTypeOK

(* A request goes from one of its states to another.                       *)
LEMMA QueryType ==
    ASSUME BrowserTypeOK, NEW id \in Ids, NEW q \in Query,
           q.at # Null <=> q.state = "reading", query' = [query EXCEPT ![id] = q]
    PROVE  /\ query' \in [Ids -> Query]
           /\ \A i \in Ids : query'[i].at # Null <=> query'[i].state = "reading"
  BY DEF BrowserTypeOK

(* The types of the views are kept by every step.                          *)
LEMMA ViewsTypeStep ==
    ASSUME TypeOK, TypeOK', BrowserTypeOK, ObserverTypeOK, [ViewsNext]_viewVars
    PROVE  BrowserTypeOK' /\ ObserverTypeOK'
<1> USE DEF BrowserTypeOK, Badge, Query
<1>1. CASE PlatformStep
  BY <1>1, ObserveType DEF PlatformStep, browserVars
<1>2. ASSUME NEW r \in Replicas, LoseReplica(r)
      PROVE  BrowserTypeOK' /\ ObserverTypeOK'
  <2>1. query' \in [Ids -> Query]
    BY <1>2, NoMetadataType DEF LoseReplica, NoQuery
  <2>2. \A id \in Ids : query'[id].at # Null <=> query'[id].state = "reading"
    BY <1>2, NoMetadataType DEF LoseReplica, NoQuery
  <2> QED
    BY <1>2, <2>1, <2>2, ObserveType DEF LoseReplica
<1>3. CASE ListStep
  <2>0. /\ status \in [Ids -> ProcessingStatus \cup {NoRow}]
        /\ NoDetail \in [state: {"none", "error", "loaded"}, meta: Metadata]
    BY NoMetadataType DEF TypeOK, StoreTypeOK, NoDetail
  <2>1. UNCHANGED <<expanded, query, pieces, kept, held>>
    BY <1>3 DEF ListStep, SendPoll, ServeList, ReceiveList, PollFails, ListOnly,
       observerVars
  <2>2. shown' \in [Ids -> Badge] /\ listError' \in BOOLEAN
    BY <1>3 DEF ListStep, SendPoll, ServeList, ReceiveList, PollFails
  <2>4. poll' \in [state: {"idle", "sent", "answered"}, list: [Ids -> Badge]]
    <3>1. EmptyList \in [Ids -> Badge] /\ status \in [Ids -> Badge]
      BY <2>0 DEF EmptyList
    <3> QED
      BY <1>3, <3>1 DEF ListStep, SendPoll, ServeList, ReceiveList, PollFails
  <2>3. detail' \in [Ids -> [state: {"none", "error", "loaded"}, meta: Metadata]]
    BY <1>3, <2>0 DEF ListStep, SendPoll, ServeList, ReceiveList, PollFails, Unmounted
  <2> QED
    BY <2>1, <2>2, <2>3, <2>4 DEF ObserverTypeOK
<1>4. ASSUME NEW id \in Ids, Toggle(id)
      PROVE  BrowserTypeOK' /\ ObserverTypeOK'
  BY <1>4, NoMetadataType DEF Toggle, Unmounted, NoDetail, observerVars, ObserverTypeOK
<1>5. ASSUME NEW id \in Ids, FetchDetail(id) \/ QueryFails(id) \/ ServeWithheld(id)
             \/ ReadRenditions(id)
      PROVE  BrowserTypeOK' /\ ObserverTypeOK'
  <2>1. UNCHANGED <<shown, listError, poll, expanded, detail, pieces, kept, held>>
    BY <1>5 DEF FetchDetail, QueryFails, ServeWithheld, ReadRenditions, DetailOnly,
       observerVars
  <2>2. CASE FetchDetail(id)
    BY <2>1, <2>2 DEF FetchDetail, ObserverTypeOK
  <2>3. CASE QueryFails(id)
    <3> DEFINE q == [NoQuery EXCEPT !.state = "failed"]
    <3>1. q \in Query /\ q.at = Null /\ q.state = "failed"
      BY NoMetadataType DEF NoQuery
    <3>2. query' = [query EXCEPT ![id] = q]
      BY <2>3 DEF QueryFails
    <3> HIDE DEF q
    <3> QED
      BY <2>1, <3>1, <3>2, QueryType DEF ObserverTypeOK
  <2>4. CASE ServeWithheld(id)
    <3> DEFINE q == Answered([NoMetadata EXCEPT !.status = status[id]])
    <3>1. [NoMetadata EXCEPT !.status = status[id]] \in Metadata
      BY <2>4 DEF ServeWithheld, Exists, NoMetadata, Metadata, TypeOK, StoreTypeOK
    <3>2. q \in Query /\ q.at = Null /\ q.state = "answered"
      BY <3>1 DEF Answered
    <3>3. query' = [query EXCEPT ![id] = q]
      BY <2>4 DEF ServeWithheld
    <3> HIDE DEF q
    <3> QED
      BY <2>1, <3>2, <3>3, QueryType DEF ObserverTypeOK
  <2>5. CASE ReadRenditions(id)
    <3> DEFINE q == Answered([query[id].meta EXCEPT !.renditions = renditionRows[id]])
    <3>1. [query[id].meta EXCEPT !.renditions = renditionRows[id]] \in Metadata
      <4>1. query[id].meta \in Metadata
        BY DEF Metadata
      <4>2. renditionRows[id] \in SUBSET (1..MaxRenditions)
        BY DEF TypeOK, StoreTypeOK
      <4> QED
        BY <4>1, <4>2 DEF Metadata
    <3>2. q \in Query /\ q.at = Null /\ q.state = "answered"
      BY <3>1 DEF Answered
    <3>3. query' = [query EXCEPT ![id] = q]
      BY <2>5 DEF ReadRenditions
    <3> HIDE DEF q
    <3> QED
      BY <2>1, <3>2, <3>3, QueryType DEF ObserverTypeOK
  <2> QED
    BY <1>5, <2>2, <2>3, <2>4, <2>5
<1>6. ASSUME NEW id \in Ids, NEW r \in Replicas, ReadRecord(r, id)
      PROVE  BrowserTypeOK' /\ ObserverTypeOK'
  <2>1. UNCHANGED <<shown, listError, poll, expanded, detail, pieces, kept>>
    BY <1>6 DEF ReadRecord, DetailOnly
  <2>2. query' \in [Ids -> Query]
        /\ \A i \in Ids : query'[i].at # Null <=> query'[i].state = "reading"
    BY <1>6, ProcessAssumption DEF ReadRecord, Metadata, TypeOK, StoreTypeOK, Exists
  <2>3. held' \in [Ids -> SUBSET SUBSET (1..MaxRenditions)]
    BY <1>6 DEF ReadRecord, TypeOK, StoreTypeOK, ObserverTypeOK
  <2> QED
    BY <2>1, <2>2, <2>3 DEF ObserverTypeOK
<1>7. ASSUME NEW id \in Ids, ReceiveDetail(id)
      PROVE  BrowserTypeOK' /\ ObserverTypeOK'
  <2>1. UNCHANGED <<shown, listError, poll, expanded, pieces, kept>>
    BY <1>7 DEF ReceiveDetail, DetailOnly
  <2>2. query' \in [Ids -> Query]
        /\ \A i \in Ids : query'[i].at # Null <=> query'[i].state = "reading"
    BY <1>7, NoMetadataType DEF ReceiveDetail, NoQuery
  <2>3. detail' \in [Ids -> [state: {"none", "error", "loaded"}, meta: Metadata]]
    BY <1>7, NoMetadataType DEF ReceiveDetail, NoDetail
  <2>4. held' \in [Ids -> SUBSET SUBSET (1..MaxRenditions)]
    BY <1>7 DEF ReceiveDetail, ObserverTypeOK
  <2> QED
    BY <2>1, <2>2, <2>3, <2>4 DEF ObserverTypeOK
<1>8. ASSUME NEW id \in Ids, NEW s \in Slots, FetchFile(id, s) \/ Evict(id, s)
      PROVE  BrowserTypeOK' /\ ObserverTypeOK'
  <2>1. CASE FetchFile(id, s)
    BY <2>1 DEF FetchFile, DetailOnly, ObserverTypeOK, Copy
  <2>2. CASE Evict(id, s)
    BY <2>2 DEF Evict, DetailOnly, ObserverTypeOK, Copy
  <2> QED
    BY <1>8, <2>1, <2>2
<1>9. CASE UNCHANGED viewVars
  BY <1>9 DEF viewVars, browserVars, observerVars, ObserverTypeOK
<1>10. CASE Reload
  BY <1>10, EmptyTypes DEF Reload, ObserverTypeOK
<1> QED
  BY <1>1, <1>2, <1>3, <1>4, <1>5, <1>6, <1>7, <1>8, <1>9, <1>10
     DEF ViewsNext, DetailStep, AnswerDetail

(* Every state the browser, its queries and the platform get into is typed, *)
(* for all constants.                                                      *)
THEOREM ViewsTyped == ViewsSpec => []ViewsTypeOK
<1>1. ViewsInit => BrowserTypeOK /\ ObserverTypeOK
  <2> SUFFICES ASSUME ViewsInit
               PROVE  BrowserTypeOK /\ ObserverTypeOK
    OBVIOUS
  <2>3. /\ shown \in [Ids -> Badge] /\ listError \in BOOLEAN
        /\ poll \in [state: {"idle", "sent", "answered"}, list: [Ids -> Badge]]
        /\ expanded \in Ids \cup {Null}
    BY EmptyTypes DEF ViewsInit
  <2>4. /\ query \in [Ids -> Query]
        /\ \A id \in Ids : query[id].at # Null <=> query[id].state = "reading"
        /\ detail \in [Ids -> [state: {"none", "error", "loaded"}, meta: Metadata]]
    BY EmptyTypes DEF ViewsInit
  <2>5. ObserverTypeOK
    BY DEF ViewsInit, ObserverTypeOK, Copy
  <2> QED
    BY <2>3, <2>4, <2>5 DEF BrowserTypeOK
<1>2. TypeOK /\ TypeOK' /\ BrowserTypeOK /\ ObserverTypeOK /\ [ViewsNext]_viewVars
          => BrowserTypeOK' /\ ObserverTypeOK'
  BY ViewsTypeStep
<1>3. TypeOK /\ BrowserTypeOK /\ ObserverTypeOK => ViewsTypeOK
  BY DEF ViewsTypeOK, BrowserTypeOK, ObserverTypeOK
<1> QED
  BY <1>1, <1>2, <1>3, ViewsPlatform, TypeCorrect, PTL DEF ViewsSpec

-----------------------------------------------------------------------------
(* Copies are noted as kept while their record is COMPLETED only.          *)
KeptInv == \A id \in Ids : kept[id] # {} => status[id] = "COMPLETED"

(* No reference points outside the plan of its upload.                     *)
RowsInv ==
    \A id \in Ids :
        /\ renditionRows[id] \subseteq Renditions(id)
        /\ query[id].meta.renditions \subseteq Renditions(id)
        /\ detail[id].meta.renditions \subseteq Renditions(id)

(* Rendition rows are written by the second transaction of a report only.  *)
LEMMA RowsWritten ==
    ASSUME TypeOK, [Next]_vars, NEW id \in Ids,
           renditionRows'[id] # renditionRows[id]
    PROVE  /\ renditionRows'[id] = Renditions(id)
           /\ UNCHANGED status
           /\ \E r \in Replicas : handler[r] # NoRequest /\ handler[r].id = id
<1> USE DEF TypeOK, StoreTypeOK, ApiTypeOK
<1>1. ~UNCHANGED renditionRows
  OBVIOUS
<1>2. \E r \in Replicas : StoreRenditions(r)
  BY <1>1, StoreFrame DEF StoreStep, storeVars, Accept, CreateUpload, Grant, GrantClaim,
     ClaimNext, UserRetry, Retry, RetryProcessing, ServeCompleted, RecordCompleted,
     ServeFailed, RecordFailed, UpdateUpload, Sweep, ResetStuckProcessing, ClockTick,
     Tick
<1> QED
  BY <1>2 DEF StoreRenditions, SetRenditions, Free

(* References stay within the plan.                                        *)
LEMMA RowsStep ==
    ASSUME TypeOK, BrowserTypeOK, RowsInv, [ViewsNext]_viewVars
    PROVE  RowsInv'
<1> USE DEF BrowserTypeOK, Query
<1>0. /\ NoMetadata.renditions = {}
      /\ \A id \in Ids, st \in ProcessingStatus :
             [NoMetadata EXCEPT !.status = st].renditions = {}
  BY DEF NoMetadata
<1>1. \A id \in Ids : renditionRows'[id] \subseteq Renditions(id)
  BY StepsAreSteps, RowsWritten DEF RowsInv
<1> SUFFICES ASSUME NEW id \in Ids
             PROVE  /\ query'[id].meta.renditions \subseteq Renditions(id)
                    /\ detail'[id].meta.renditions \subseteq Renditions(id)
  BY <1>1 DEF RowsInv, Renditions
<1>2. \/ query'[id].meta \in {query[id].meta, NoMetadata}
      \/ query'[id].meta.renditions \subseteq {}
      \/ query'[id].meta.renditions \subseteq renditionRows[id]
  <2>1. ASSUME NEW i \in Ids, FetchDetail(i) \/ QueryFails(i) \/ ReceiveDetail(i)
        PROVE  query'[id].meta \in {query[id].meta, NoMetadata}
    BY <2>1 DEF FetchDetail, QueryFails, ReceiveDetail, NoQuery
  <2>2. ASSUME NEW i \in Ids, ServeWithheld(i)
        PROVE  query'[id].meta = query[id].meta \/ query'[id].meta.renditions = {}
    BY <2>2 DEF ServeWithheld, Answered, NoMetadata
  <2>3. ASSUME NEW i \in Ids, NEW r \in Replicas, ReadRecord(r, i)
        PROVE  query'[id].meta = query[id].meta \/ query'[id].meta.renditions = {}
    BY <2>3 DEF ReadRecord
  <2>4. ASSUME NEW i \in Ids, ReadRenditions(i)
        PROVE  \/ query'[id].meta = query[id].meta
               \/ query'[id].meta.renditions = renditionRows[id]
    BY <2>4 DEF ReadRenditions, Answered, Metadata
  <2>5. ASSUME NEW r \in Replicas, LoseReplica(r)
        PROVE  query'[id].meta \in {query[id].meta, NoMetadata}
    BY <2>5 DEF LoseReplica, NoQuery
  <2>6. ASSUME PlatformStep \/ ListStep \/ UNCHANGED viewVars
        PROVE  UNCHANGED query
    BY <2>6 DEF PlatformStep, browserVars, ListStep, SendPoll, ServeList, ReceiveList,
       PollFails, ListOnly, viewVars
  <2>7. ASSUME NEW i \in Ids, Toggle(i) \/ \E s \in Slots : FetchFile(i, s) \/ Evict(i, s)
        PROVE  UNCHANGED query
    BY <2>7 DEF Toggle, FetchFile, Evict
  <2>8. ASSUME Reload
        PROVE  query'[id].meta = NoMetadata
    BY <2>8 DEF Reload, NoQuery
  <2> QED
    BY <2>1, <2>2, <2>3, <2>4, <2>5, <2>6, <2>7, <2>8
       DEF ViewsNext, DetailStep, AnswerDetail
<1>3. detail'[id].meta \in {detail[id].meta, query[id].meta, NoMetadata}
  <2>1. ASSUME NEW i \in Ids, ReceiveDetail(i)
        PROVE  detail'[id].meta \in {detail[id].meta, query[id].meta, NoMetadata}
    BY <2>1 DEF ReceiveDetail, NoDetail
  <2>2. ASSUME ListStep \/ Reload \/ \E i \in Ids : Toggle(i)
        PROVE  detail'[id].meta \in {detail[id].meta, NoMetadata}
    BY <2>2 DEF ListStep, SendPoll, ServeList, ReceiveList, PollFails, Toggle, Unmounted,
       NoDetail, Reload
  <2>3. ASSUME \/ PlatformStep \/ UNCHANGED viewVars
               \/ \E r \in Replicas : LoseReplica(r)
        PROVE  UNCHANGED detail
    BY <2>3 DEF PlatformStep, browserVars, viewVars, LoseReplica
  <2>4. ASSUME NEW i \in Ids, FetchDetail(i) \/ AnswerDetail(i) \/ QueryFails(i)
               \/ \E s \in Slots : FetchFile(i, s) \/ Evict(i, s)
        PROVE  UNCHANGED detail
    BY <2>4 DEF FetchDetail, AnswerDetail, ServeWithheld, ReadRecord, ReadRenditions,
       QueryFails, FetchFile, Evict
  <2> QED
    BY <2>1, <2>2, <2>3, <2>4 DEF ViewsNext, DetailStep
<1> QED
  BY <1>0, <1>2, <1>3 DEF RowsInv

-----------------------------------------------------------------------------
(* What is referenced is part of the output.                               *)
LEMMA ReferencedIsOutput ==
    ASSUME RowsInv, NEW id \in Ids
    PROVE  Referenced(id) \subseteq Outputs(id)
  BY DEF RowsInv, Referenced, References, Outputs

(* Nothing is published at a COMPLETED record.                             *)
LEMMA NothingPublished ==
    ASSUME TypeOK, OwnerInv, NEW id \in Ids, status[id] = "COMPLETED", NEW s \in Slots
    PROVE  ~Published(id, s)
<1> SUFFICES ASSUME NEW w \in Workers, job[w] = id, MoveOutput(w)
             PROVE  FALSE
  BY DEF Published
<1>1. Owns(w, id) /\ pc[w] = "move"
  BY DEF MoveOutput, Owns, FileWork
<1> QED
  BY <1>1 DEF OwnerInv, Failing

(* A kept copy's record has not left COMPLETED.                            *)
LEMMA KeptStep ==
    ASSUME BrowserTypeOK, ObserverTypeOK, KeptInv, [ViewsNext]_viewVars
    PROVE  KeptInv'
<1>1. ASSUME PlatformStep \/ \E r \in Replicas : LoseReplica(r)
      PROVE  KeptInv'
  BY <1>1 DEF PlatformStep, LoseReplica, Observe, KeptInv
<1>2. ASSUME ListStep \/ Reload \/ UNCHANGED viewVars \/ \E id \in Ids : Toggle(id)
      PROVE  UNCHANGED <<status, kept>>
  BY <1>2 DEF ListStep, SendPoll, ServeList, ReceiveList, PollFails, ListOnly, Toggle,
     Reload, viewVars, vars, storeVars, observerVars
<1>3. ASSUME NEW id \in Ids,
             FetchDetail(id) \/ AnswerDetail(id) \/ QueryFails(id) \/ ReceiveDetail(id)
      PROVE  UNCHANGED <<status, kept>>
  BY <1>3 DEF FetchDetail, AnswerDetail, ServeWithheld, ReadRecord, ReadRenditions,
     QueryFails, ReceiveDetail, DetailOnly, vars, storeVars, observerVars
<1>4. ASSUME NEW id \in Ids, NEW s \in Slots, FetchFile(id, s) \/ Evict(id, s)
      PROVE  KeptInv'
  <2>1. /\ UNCHANGED status
        /\ \A i \in Ids : i # id => kept'[i] = kept[i]
        /\ kept'[id] # {} => kept[id] # {} \/ status[id] = "COMPLETED"
    BY <1>4 DEF FetchFile, Evict, DetailOnly, vars, storeVars, ObserverTypeOK
  <2> QED
    BY <2>1 DEF KeptInv
<1>5. CASE UNCHANGED <<status, kept>>
  BY <1>5 DEF KeptInv
<1> QED
  BY <1>1, <1>2, <1>3, <1>4, <1>5 DEF ViewsNext, DetailStep

(* What the browser takes from a COMPLETED record is there, and stays.     *)
LEMMA PlayableStep ==
    ASSUME Inductive, BrowserTypeOK, ObserverTypeOK, KeptInv, RowsInv,
           PlayableWhileCompleted, [ViewsNext]_viewVars
    PROVE  PlayableWhileCompleted'
<1>1. ASSUME PlatformStep \/ \E r \in Replicas : LoseReplica(r)
      PROVE  PlayableWhileCompleted'
  <2>1. Observe
    BY <1>1 DEF PlatformStep, LoseReplica
  <2>2. \A id \in Ids : kept'[id] \subseteq kept[id]
    BY <2>1 DEF Observe
  <2>3. \A id \in Ids : \A s \in kept[id] : ~Published(id, s)
    BY NothingPublished DEF KeptInv, Inductive, ObserverTypeOK
  <2>4. \A id \in Ids, s \in Slots : ~Published(id, s) => pieces'[id][s] = pieces[id][s]
    BY <2>1 DEF Observe
  <2> QED
    BY <2>2, <2>3, <2>4 DEF PlayableWhileCompleted, ObserverTypeOK
<1>2. ASSUME ListStep \/ Reload \/ UNCHANGED viewVars \/ \E id \in Ids : Toggle(id)
      PROVE  UNCHANGED <<pieces, kept>>
  BY <1>2 DEF ListStep, SendPoll, ServeList, ReceiveList, PollFails, ListOnly, Toggle,
     Reload, viewVars, observerVars
<1>3. ASSUME NEW id \in Ids,
             FetchDetail(id) \/ AnswerDetail(id) \/ QueryFails(id) \/ ReceiveDetail(id)
      PROVE  UNCHANGED <<pieces, kept>>
  BY <1>3 DEF FetchDetail, AnswerDetail, ServeWithheld, ReadRecord, ReadRenditions,
     QueryFails, ReceiveDetail, observerVars
<1>4. ASSUME NEW id \in Ids, NEW s \in Slots, FetchFile(id, s)
      PROVE  PlayableWhileCompleted'
  <2>1. s \in Referenced(id) /\ pieces[id][s] = "none"
    BY <1>4 DEF FetchFile
  <2>2. ASSUME status[id] = "COMPLETED"
        PROVE  pieces'[id][s] = "current"
    <3>1. OutputComplete(id)
      BY <2>2 DEF Inductive, PublishInv, CompletedIsRetrievable
    <3>2. final[id][s] = "full"
      BY <2>1, <3>1, ReferencedIsOutput DEF OutputComplete
    <3> QED
      BY <1>4, <3>2 DEF FetchFile, ObserverTypeOK
  <2>3. \A i \in Ids, u \in Slots :
            i # id \/ u # s => pieces'[i][u] = pieces[i][u]
    BY <1>4 DEF FetchFile, ObserverTypeOK
  <2>4. s \notin kept[id]
    BY <2>1 DEF PlayableWhileCompleted
  <2>5. CASE status[id] = "COMPLETED"
    <3>1. kept' = [kept EXCEPT ![id] = @ \cup {s}]
      BY <1>4, <2>5 DEF FetchFile
    <3> QED
      BY <2>2, <2>3, <2>5, <3>1 DEF PlayableWhileCompleted, ObserverTypeOK
  <2>6. CASE status[id] # "COMPLETED"
    <3>1. kept' = kept
      BY <1>4, <2>6 DEF FetchFile
    <3> QED
      BY <2>3, <2>4, <3>1 DEF PlayableWhileCompleted, ObserverTypeOK
  <2> QED
    BY <2>5, <2>6
<1>5. ASSUME NEW id \in Ids, NEW s \in Slots, Evict(id, s)
      PROVE  PlayableWhileCompleted'
  BY <1>5 DEF Evict, ObserverTypeOK, PlayableWhileCompleted
<1>6. CASE UNCHANGED <<pieces, kept>>
  BY <1>6 DEF PlayableWhileCompleted
<1> QED
  BY <1>1, <1>2, <1>3, <1>4, <1>5, <1>6 DEF ViewsNext, DetailStep

(* The types, separately from ViewsTypeOK.                                 *)
LEMMA ViewTypesHold == ViewsSpec => [](BrowserTypeOK /\ ObserverTypeOK)
<1>1. ViewsTypeOK => BrowserTypeOK /\ ObserverTypeOK
  BY DEF ViewsTypeOK, BrowserTypeOK, ObserverTypeOK
<1> QED
  BY <1>1, ViewsTyped, PTL

(* A file that a browser takes while the record is COMPLETED is there, and *)
(* its copy is not outdated before the record leaves COMPLETED, through    *)
(* page loads and whatever the browser held before: for any number of      *)
(* uploads, workers and replicas. FetchFile uses a copy from before a      *)
(* retry as it is; of those the theorem says nothing.                      *)
THEOREM PlayableAlways ==
    RecoverySweep = FALSE /\ "lateRequest" \notin Faults
        => (ViewsSpec => []PlayableWhileCompleted)
<1> SUFFICES ASSUME RecoverySweep = FALSE, "lateRequest" \notin Faults
             PROVE  ViewsSpec => []PlayableWhileCompleted
  OBVIOUS
<1> DEFINE Inv == KeptInv /\ RowsInv /\ PlayableWhileCompleted
<1>1. ViewsInit => Inv
  BY DEF ViewsInit, Init, StoreInit, KeptInv, RowsInv, PlayableWhileCompleted, NoQuery, NoDetail,
     NoMetadata
<1>2. Inductive /\ BrowserTypeOK /\ ObserverTypeOK /\ Inv /\ [ViewsNext]_viewVars => Inv'
  <2>1. Inductive => TypeOK
    BY DEF Inductive
  <2> QED
    BY <2>1, KeptStep, RowsStep, PlayableStep
<1>3. Inv => PlayableWhileCompleted
  OBVIOUS
<1>4. NoRivals
  BY DEF NoRivals
<1> HIDE DEF Inv
<1> QED
  BY <1>1, <1>2, <1>3, <1>4, ViewsPlatform, InductiveHolds, ViewTypesHold, PTL DEF ViewsSpec

-----------------------------------------------------------------------------
(* While a replica is between the two transactions of a report, the record *)
(* stays COMPLETED: its worker, if it lives, awaits the answer, and nobody *)
(* else has the upload in hand.                                            *)
HandlerDone(r, id) ==
    handler[r] # NoRequest /\ handler[r].id = id =>
        /\ status[id] = "COMPLETED"
        /\ FailureReports(id) = {}
        /\ \A w \in Workers : Owns(w, id) => handler[r].caller = w

HandlersDone == \A r \in Replicas, id \in Ids : HandlerDone(r, id)

(* A replica that keeps its report, on an upload that gains no owner and   *)
(* no FAILED report and stays COMPLETED.                                   *)
LEMMA HandlerKeeps ==
    ASSUME NEW r \in Replicas, NEW id \in Ids, HandlerDone(r, id),
           handler'[r] = handler[r],
           handler[r] # NoRequest /\ handler[r].id = id =>
               /\ status'[id] = "COMPLETED"
               /\ FailureReports(id)' \subseteq FailureReports(id)
               /\ \A w \in Workers : Owns(w, id)' => Owns(w, id)
    PROVE  HandlerDone(r, id)'
  BY DEF HandlerDone

(* A worker whose report is being recorded waits, or dies.                 *)
LEMMA HandlerWorkerStep ==
    ASSUME {"lostCall", "lateRequest"} \cap Faults = {}, Inductive, HandlersDone,
           NEW w \in Workers, WorkerStep(w) \/ CrashWorker(w),
           NEW r \in Replicas, NEW id \in Ids
    PROVE  HandlerDone(r, id)'
<1> USE DEF Inductive, TypeOK, ApiTypeOK
<1> SUFFICES ASSUME handler'[r] # NoRequest, handler'[r].id = id
             PROVE  /\ status'[id] = "COMPLETED"
                    /\ FailureReports(id)' = {}
                    /\ \A v \in Workers : Owns(v, id)' => handler'[r].caller = v
  BY DEF HandlerDone
<1>1. /\ handler[r] # NoRequest
      /\ handler[r].id = id
      /\ \/ handler'[r] = handler[r]
         \/ handler[r].caller = w /\ CrashWorker(w)
  BY DEF WorkerStep, CallClaimNext, ReceiveJob, ReceiveNothing, WorkFiles,
     ReportCompleted, ReportFailed, ReceiveAccepted, ReceiveError, CallFails,
     InService, CrashWorker, Send, TakeReply, HangUp, apiVars, Orphaned, Request,
     NoRequest
<1>2. /\ status[id] = "COMPLETED" /\ FailureReports(id) = {}
      /\ \A v \in Workers : Owns(v, id) => handler[r].caller = v
  BY <1>1 DEF HandlersDone, HandlerDone
<1>3. UNCHANGED status
  BY DEF WorkerStep, CallClaimNext, ReceiveJob, ReceiveNothing, WorkFiles,
     ReportCompleted, ReportFailed, ReceiveAccepted, ReceiveError, CallFails,
     CrashWorker, storeVars
<1>4. ASSUME NEW v \in Workers, Owns(v, id)'
      PROVE  handler'[r].caller = v
  <2>1. Owns(v, id)
    BY <1>4, WorkerOwns
  <2>2. CASE CrashWorker(w) /\ v = w
    <3>1. pc'[w] = "poll" /\ replies'[w] = NoReply
      BY <2>2 DEF CrashWorker, Restart, EndJob, HangUp, WorkerTypeOK
    <3> QED
      BY <1>4, <2>2, <3>1 DEF Owns, FileWork, Reporting, Failing, NoReply
  <2> QED
    BY <1>1, <1>2, <2>1, <2>2
<1>5. FailureReports(id)' = {}
  <2>1. CASE ReportFailed(w)
    <3>1. pc[w] = "reportFailure" /\ replies' = replies
      BY <2>1 DEF ReportFailed, SendFailed, Send
    <3>2. job[w] # id
      <4>1. job[w] = id => handler[r].caller = w
        BY <1>2, <3>1 DEF Owns, Failing
      <4>2. handler[r].caller = w => pc[w] = "reporting"
        BY DEF CallDiscipline, OneCall
      <4> QED
        BY <3>1, <4>1, <4>2
    <3> QED
      BY <1>2, <2>1, <3>2 DEF ReportFailed, Send, ResultRequest, FailureReports
  <2>2. CASE ~ReportFailed(w)
    <3>1. \A m \in FailureReports(id)' : m \in FailureReports(id)
      BY <2>2 DEF WorkerStep, CallClaimNext, ReceiveJob, ReceiveNothing, WorkFiles,
         ReportCompleted, ReceiveAccepted, ReceiveError, CallFails, CrashWorker, Send,
         TakeReply, HangUp, apiVars, FailureReports, SentBy, ClaimRequest, ResultRequest
    <3> QED
      BY <1>2, <3>1
  <2> QED
    BY <2>1, <2>2
<1> QED
  BY <1>2, <1>3, <1>4, <1>5

(* Nor does anything else take the record from under the replica.          *)
LEMMA HandlersStep ==
    ASSUME RecoverySweep = FALSE, {"lostCall", "lateRequest"} \cap Faults = {},
           Inductive, HandlersDone, [Next]_vars
    PROVE  HandlersDone'
<1> USE DEF Inductive, TypeOK, ApiTypeOK, StoreTypeOK
<1> SUFFICES ASSUME NEW r \in Replicas, NEW id \in Ids
             PROVE  HandlerDone(r, id)'
  BY DEF HandlersDone
<1>0. HandlerDone(r, id)
  BY DEF HandlersDone
<1>1. ASSUME NEW w \in Workers, WorkerStep(w) \/ CrashWorker(w)
      PROVE  HandlerDone(r, id)'
  BY <1>1, HandlerWorkerStep
<1>2. ASSUME UNCHANGED <<pc, job, replies, requests>>, handler'[r] = handler[r],
             status[id] = "COMPLETED" => status'[id] = "COMPLETED"
      PROVE  HandlerDone(r, id)'
  <2>1. /\ FailureReports(id)' \subseteq FailureReports(id)
        /\ \A w \in Workers : Owns(w, id)' => Owns(w, id)
    BY <1>2 DEF FailureReports, Owns
  <2> QED
    BY <1>0, <1>2, <2>1, HandlerKeeps DEF HandlerDone
<1>3. ASSUME NEW u \in Ids, Grant(u)
      PROVE  HandlerDone(r, id)'
  <2> PICK m \in requests : GrantClaim(m, u)
    BY <1>3 DEF Grant
  <2>1. UNCHANGED <<pc, job, handler>> /\ status[u] = "PENDING"
    BY <1>3 DEF Grant, GrantClaim, ClaimNext, OldestPending, workerVars
  <2>2. FailureReports(id)' \subseteq FailureReports(id)
    BY DEF GrantClaim, FailureReports
  <2>3. u # id => status'[id] = status[id]
    BY DEF GrantClaim, ClaimNext
  <2>4. \A w \in Workers : u # id /\ Owns(w, id)' => Owns(w, id)
    BY <2>1 DEF GrantClaim, Answer, Owns
  <2> QED
    BY <1>0, <2>1, <2>2, <2>3, <2>4, HandlerKeeps DEF HandlerDone
<1>4. ASSUME NEW q \in Replicas, ServeCompleted(q)
      PROVE  HandlerDone(r, id)'
  <2> PICK m \in requests : RecordCompleted(q, m)
    BY <1>4 DEF ServeCompleted
  <2>1. /\ m.type = "COMPLETED" /\ m.id \in Ids
        /\ UNCHANGED <<pc, job, replies>>
        /\ handler' = [handler EXCEPT ![q] = m]
        /\ FailureReports(id)' \subseteq FailureReports(id)
    BY <1>4 DEF ServeCompleted, RecordCompleted, workerVars, FailureReports
  <2>2. status' = [status EXCEPT ![m.id] = "COMPLETED"]
    BY <2>1, UpdateType DEF RecordCompleted
  <2>3. \A w \in Workers : Owns(w, id)' => Owns(w, id)
    BY <2>1 DEF Owns
  <2>4. CASE r # q
    BY <1>0, <2>1, <2>2, <2>3, <2>4, HandlerKeeps DEF HandlerDone
  <2>5. CASE r = q
    <3> SUFFICES ASSUME m.id = id
                 PROVE  /\ status'[id] = "COMPLETED"
                        /\ FailureReports(id)' = {}
                        /\ \A w \in Workers : Owns(w, id)' => m.caller = w
      BY <2>1, <2>5 DEF HandlerDone
    <3>1. m.caller \in Workers /\ Owns(m.caller, id)
      BY <2>1, ReporterOwns
    <3>2. FailureReports(id) = {} /\ \A w \in Workers : Owns(w, id) => m.caller = w
      BY <3>1 DEF Alone
    <3> QED
      BY <2>1, <2>2, <2>3, <3>2
  <2> QED
    BY <2>4, <2>5
<1>5. ASSUME NEW q \in Replicas, FinishCompleted(q)
      PROVE  HandlerDone(r, id)'
  <2>1. /\ handler' = [handler EXCEPT ![q] = NoRequest]
        /\ UNCHANGED workerVars /\ handler[q] \in Request \cup {NoRequest}
        /\ UNCHANGED status /\ FailureReports(id)' \subseteq FailureReports(id)
    BY <1>5 DEF FinishCompleted, StoreRenditions, SetRenditions, RenditionsBusy,
       FailureReports, storeVars
  <2>2. \E t \in {"ok", "error"} : Answer(handler[q], PlainReply(t))
    BY <1>5 DEF FinishCompleted, StoreRenditions, RenditionsBusy
  <2>3. \A w \in Workers : Owns(w, id)' => Owns(w, id)
    BY <2>1, <2>2, PlainAnswerOwns
  <2>4. CASE r = q
    BY <2>1, <2>4 DEF HandlerDone
  <2>5. CASE r # q
    BY <1>0, <2>1, <2>3, <2>5, HandlerKeeps DEF HandlerDone
  <2> QED
    BY <2>4, <2>5
<1>6. ASSUME ServeFailed
      PROVE  HandlerDone(r, id)'
  <2> PICK m \in requests : RecordFailed(m)
    BY <1>6 DEF ServeFailed
  <2>1. /\ m.type = "FAILED" /\ m.id \in Ids /\ m \in Request
        /\ UNCHANGED workerVars /\ UNCHANGED handler
        /\ FailureReports(id)' \subseteq FailureReports(id)
        /\ m.id = id => m \in FailureReports(id)
    BY <1>6 DEF RecordFailed, ServeFailed, FailureReports
  <2>2. status' = [status EXCEPT ![m.id] = "FAILED"]
    BY <2>1, UpdateType DEF RecordFailed
  <2>3. \A w \in Workers : Owns(w, id)' => Owns(w, id)
    BY <2>1, PlainAnswerOwns DEF RecordFailed
  <2> QED
    BY <1>0, <2>1, <2>2, <2>3, HandlerKeeps DEF HandlerDone
<1>7. ASSUME ServeEmpty \/ ServeBusy
      PROVE  HandlerDone(r, id)'
  <2> PICK m \in requests : NothingToClaim(m) \/ RejectBusy(m)
    BY <1>7 DEF ServeEmpty, ServeBusy
  <2>1. /\ m \in Request /\ UNCHANGED workerVars /\ UNCHANGED <<handler, status>>
        /\ FailureReports(id)' \subseteq FailureReports(id)
    BY <1>7 DEF ServeEmpty, ServeBusy, NothingToClaim, RejectBusy, FailureReports,
       storeVars
  <2>2. \E t \in {"empty", "error"} : Answer(m, PlainReply(t))
    BY DEF NothingToClaim, RejectBusy
  <2>3. \A w \in Workers : Owns(w, id)' => Owns(w, id)
    BY <2>1, <2>2, PlainAnswerOwns
  <2> QED
    BY <1>0, <2>1, <2>3, HandlerKeeps DEF HandlerDone
<1>8. ASSUME NEW u \in Ids, UserRetry(u) \/ Intake(u)
      PROVE  HandlerDone(r, id)'
  BY <1>2, <1>8 DEF UserRetry, Retry, RetryProcessing, Intake, IntakeStep, StreamEnds,
     StreamBreaks, Reject, Accept, AcceptFails, CreateUpload, Exists, NoRow, storeVars,
     apiVars, workerVars
<1>9. ASSUME NEW q \in Replicas, NEW u \in Ids, UserUpload(q, u)
      PROVE  HandlerDone(r, id)'
  BY <1>2, <1>9 DEF UserUpload, BeginUpload, storeVars, apiVars, workerVars
<1>10. ASSUME NEW q \in Replicas, CrashBackend(q)
       PROVE  HandlerDone(r, id)'
  <2>1. /\ UNCHANGED <<pc, job, replies, requests, status>>
        /\ handler' = [handler EXCEPT ![q] = NoRequest]
    BY <1>10 DEF CrashBackend, LoseHandler, storeVars, workerVars
  <2>2. CASE r = q
    BY <2>1, <2>2 DEF HandlerDone
  <2>3. CASE r # q
    BY <1>2, <2>1, <2>3
  <2> QED
    BY <2>2, <2>3
<1>11. CASE UNCHANGED vars
  BY <1>2, <1>11 DEF vars, storeVars, apiVars, workerVars
<1> QED
  BY <1>1, <1>3, <1>4, <1>5, <1>6, <1>7, <1>8, <1>9, <1>10, <1>11
     DEF Next, Sweep, ClockTick

-----------------------------------------------------------------------------
(* The inductive form of MetadataIsSnapshot: the rows a query will read    *)
(* were in a COMPLETED record since the query read the record.             *)
HeldFor(id) ==
    /\ query[id].state = "reading" => renditionRows[id] \in held[id]
    /\ query[id].state = "answered" =>
           \/ query[id].meta.renditions = {} /\ ~query[id].meta.thumbnail
           \/ query[id].meta.renditions \in held[id]

HeldInv == \A id \in Ids : HeldFor(id)

(* Rows change under a reader only while the record is COMPLETED.          *)
LEMMA HeldStep ==
    ASSUME TypeOK, BrowserTypeOK, ObserverTypeOK, HandlersDone, HeldInv,
           [ViewsNext]_viewVars
    PROVE  HeldInv'
<1> SUFFICES ASSUME NEW id \in Ids
             PROVE  HeldFor(id)'
  BY DEF HeldInv
<1>0. HeldFor(id)
  BY DEF HeldInv
<1>1. ASSUME PlatformStep \/ \E r \in Replicas : LoseReplica(r)
      PROVE  HeldFor(id)'
  <2>1. query'[id] = query[id] \/ query'[id].state = "failed"
    BY <1>1 DEF PlatformStep, LoseReplica, browserVars, NoQuery, BrowserTypeOK
  <2>2. held[id] \subseteq held'[id]
    BY <1>1 DEF PlatformStep, LoseReplica, Observe
  <2>3. CASE renditionRows'[id] = renditionRows[id]
    BY <1>0, <2>1, <2>2, <2>3 DEF HeldFor
  <2>4. CASE renditionRows'[id] # renditionRows[id]
    <3>1. status'[id] = "COMPLETED"
      BY <2>4, StepsAreSteps, RowsWritten DEF HandlersDone, HandlerDone
    <3>2. query[id].state = "reading" => renditionRows'[id] \in held'[id]
      BY <1>1, <3>1 DEF PlatformStep, LoseReplica, Observe
    <3> QED
      BY <1>0, <2>1, <2>2, <3>2 DEF HeldFor
  <2> QED
    BY <2>3, <2>4
<1>2. ASSUME query'[id] = query[id], held'[id] = held[id], UNCHANGED renditionRows
      PROVE  HeldFor(id)'
  BY <1>0, <1>2 DEF HeldFor
<1>3. ASSUME ListStep \/ UNCHANGED viewVars \/ \E i \in Ids : Toggle(i)
      PROVE  UNCHANGED <<query, held, renditionRows>>
  BY <1>3 DEF ListStep, SendPoll, ServeList, ReceiveList, PollFails, ListOnly, Toggle,
     viewVars, vars, storeVars, browserVars, observerVars
<1>4. ASSUME NEW i \in Ids, DetailStep(i), ~Toggle(i)
      PROVE  UNCHANGED renditionRows
  BY <1>4 DEF DetailStep, AnswerDetail, FetchDetail, ServeWithheld, ReadRecord,
     ReadRenditions, QueryFails, ReceiveDetail, FetchFile, Evict, DetailOnly, vars, storeVars
<1>5. ASSUME NEW i \in Ids, DetailStep(i), ~Toggle(i), i # id
      PROVE  query'[id] = query[id] /\ held'[id] = held[id]
  BY <1>5 DEF DetailStep, AnswerDetail, FetchDetail, ServeWithheld, ReadRecord,
     ReadRenditions, QueryFails, ReceiveDetail, FetchFile, Evict, BrowserTypeOK,
     ObserverTypeOK, observerVars
<1>6. ASSUME FetchDetail(id) \/ QueryFails(id) \/ ReceiveDetail(id)
      PROVE  HeldFor(id)'
  <2>1. query'[id].state \in {"sent", "failed", "idle"}
    BY <1>6 DEF FetchDetail, QueryFails, ReceiveDetail, NoQuery, BrowserTypeOK, Query
  <2> QED
    BY <2>1 DEF HeldFor
<1>7. ASSUME ServeWithheld(id)
      PROVE  HeldFor(id)'
  <2>1. query'[id] = Answered([NoMetadata EXCEPT !.status = status[id]])
    BY <1>7 DEF ServeWithheld, BrowserTypeOK
  <2> QED
    BY <2>1 DEF HeldFor, Answered, NoMetadata
<1>8. ASSUME NEW r \in Replicas, ReadRecord(r, id)
      PROVE  HeldFor(id)'
  <2>1. query'[id].state = "reading"
    BY <1>8 DEF ReadRecord, BrowserTypeOK
  <2>2. UNCHANGED renditionRows /\ held'[id] = {renditionRows[id]}
    BY <1>8 DEF ReadRecord, DetailOnly, vars, storeVars, Withheld, ObserverTypeOK
  <2> QED
    BY <2>1, <2>2 DEF HeldFor
<1>9. ASSUME ReadRenditions(id)
      PROVE  HeldFor(id)'
  <2>1. /\ query'[id] =
              Answered([query[id].meta EXCEPT !.renditions = renditionRows[id]])
        /\ query[id].state = "reading" /\ query[id].meta \in Metadata
        /\ UNCHANGED held
    BY <1>9 DEF ReadRenditions, BrowserTypeOK, Query, observerVars
  <2>2. query'[id].state = "answered" /\ query'[id].meta.renditions = renditionRows[id]
    BY <2>1 DEF Answered, Metadata
  <2> QED
    BY <1>0, <2>1, <2>2 DEF HeldFor
<1>10. ASSUME NEW s \in Slots, FetchFile(id, s) \/ Evict(id, s)
       PROVE  query'[id] = query[id] /\ held'[id] = held[id]
  BY <1>10 DEF FetchFile, Evict
<1>11. ASSUME NEW i \in Ids, DetailStep(i), ~Toggle(i)
       PROVE  HeldFor(id)'
  <2>1. CASE i # id
    BY <1>2, <1>4, <1>5, <1>11, <2>1
  <2>2. CASE i = id
    BY <1>2, <1>4, <1>6, <1>7, <1>8, <1>9, <1>10, <1>11, <2>2
       DEF DetailStep, AnswerDetail
  <2> QED
    BY <2>1, <2>2
<1>12. ASSUME Reload
       PROVE  HeldFor(id)'
  BY <1>12 DEF Reload, HeldFor, NoQuery
<1> QED
  BY <1>1, <1>2, <1>3, <1>11, <1>12 DEF ViewsNext

(* The two SELECTs of videoMetadata answer as one: whatever the workers    *)
(* and the other replicas do between them, the references returned were    *)
(* together in a COMPLETED record at one moment of the query, as long as   *)
(* no call of a worker is lost while its replica goes on.                  *)
THEOREM MetadataAsOne ==
    RecoverySweep = FALSE /\ {"lostCall", "lateRequest"} \cap Faults = {}
        => (ViewsSpec => []MetadataIsSnapshot)
<1> SUFFICES ASSUME RecoverySweep = FALSE, {"lostCall", "lateRequest"} \cap Faults = {}
             PROVE  ViewsSpec => []MetadataIsSnapshot
  OBVIOUS
<1>1. "lateRequest" \notin Faults /\ NoRivals
  BY DEF NoRivals
<1>2. Init => HandlersDone
  BY DEF Init, ApiInit, HandlersDone, HandlerDone
<1>3. Inductive /\ HandlersDone /\ [Next]_vars => HandlersDone'
  BY HandlersStep
<1>4. Spec => []HandlersDone
  BY <1>1, <1>2, <1>3, InductiveHolds, PTL DEF Spec
<1>5. ViewsInit => HeldInv
  <2> SUFFICES ASSUME ViewsInit, NEW id \in Ids
               PROVE  HeldFor(id)
    BY DEF HeldInv
  <2>1. query[id] = NoQuery
    BY DEF ViewsInit
  <2>2. query[id].state = "idle" /\ detail[id] = NoDetail
    BY <2>1 DEF ViewsInit, NoQuery
  <2> QED
    BY <2>2 DEF HeldFor, NoDetail
<1>6. TypeOK /\ BrowserTypeOK /\ ObserverTypeOK /\ HandlersDone /\ HeldInv
          /\ [ViewsNext]_viewVars => HeldInv'
  BY HeldStep
<1>7. HeldInv => MetadataIsSnapshot
  BY DEF HeldInv, HeldFor, MetadataIsSnapshot
<1> QED
  BY <1>4, <1>5, <1>6, <1>7, ViewsPlatform, TypeCorrect, ViewTypesHold, PTL DEF ViewsSpec
=============================================================================
