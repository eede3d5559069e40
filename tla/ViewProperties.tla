--------------------------- MODULE ViewProperties ---------------------------
(***************************************************************************)
(* What is asked of the views: that the queries answer what was true, that *)
(* what the browser keeps goes with what the volume holds, and that the    *)
(* badges follow the database.                                             *)
(***************************************************************************)
EXTENDS VideoViews

(* The two SELECTs of videoMetadata answer as one would: the references    *)
(* they return were, together, in a COMPLETED record at one moment of the  *)
(* query. Holds as long as calls of the workers are not lost: a retried    *)
(* attempt never writes rows under a reader that saw the earlier one.      *)
MetadataIsSnapshot ==
    \A id \in Ids :
        /\ query[id].state = "answered"
        /\ query[id].meta.renditions # {} \/ query[id].meta.thumbnail
        => query[id].meta.renditions \in held[id]

(* Whatever page loads lie between, a file the browser took while the      *)
(* record was COMPLETED was there, and as long as the record has not left  *)
(* COMPLETED since, its copy is the file on the volume: what the browser   *)
(* puts together from its cache and further ranges is of one edition. So   *)
(* only a copy from before a retry is stale; that one, a kept 404 as well, *)
(* outlives the retry by up to an hour (files.controller.ts:24).           *)
(* Holds unless requests are served after their caller gave up.            *)
PlayableWhileCompleted ==
    \A id \in Ids : \A s \in kept[id] : pieces[id][s] = "current"

-----------------------------------------------------------------------------
(* Fairness. The poll timer fires again after answers and errors alike;    *)
(* single polls may fail, but not all of them: strong fairness. A rendered *)
(* detail sends its query, which a replica serves and whose answer comes.  *)
ViewsFairness ==
    /\ WF_viewVars(SendPoll)
    /\ SF_viewVars(ServeList)
    /\ SF_viewVars(ReceiveList)
    /\ \A id \in Ids :
           /\ WF_viewVars(FetchDetail(id))
           /\ WF_viewVars(AnswerDetail(id))
           /\ WF_viewVars(ReceiveDetail(id))

FairViewsSpec == ViewsSpec /\ ViewsFairness

(* A record that comes to rest is shown as it is: no answer that overtook  *)
(* a change of status, and no failed poll, leaves a wrong badge or an      *)
(* error on the page for good, unless the user never stops reloading it.   *)
BadgeCatchesUp ==
    \A id \in Ids :
        \/ []<><<Reload \/ status'[id] # status[id]>>_viewVars
        \/ <>[](shown[id] = status[id]) /\ []<>~listError

(* Property 8 of the design document and Requirement 9: the open detail of *)
(* a record that stays COMPLETED gives access to its thumbnail and to each *)
(* of its renditions.                                                      *)
CompletedIsViewable ==
    \A id \in Ids :
        (<>[](status[id] = "COMPLETED" /\ Mounted(id)))
            => <>(Referenced(id) = Outputs(id))
=============================================================================
