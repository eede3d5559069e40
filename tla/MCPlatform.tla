----------------------------- MODULE MCPlatform -----------------------------
(* Instances of VideoPlatform for TLC.                                     *)
EXTENDS PlatformProperties, RenditionPlan, TLC

(* The first upload is a 720p video, with two renditions; every other is   *)
(* 480p and has one.                                                       *)
MCPlan == [id \in Ids |-> IF id = 1 THEN 2 ELSE 1]

(* Short videos, for runs about the queue.                                 *)
MCShortPlan == [id \in Ids |-> 1]

ASSUME MCPlanIsPlanned ==
    /\ Len(PlanRenditions(1280, 720)) = 2
    /\ Len(PlanRenditions(854, 480)) = 1

(* planRenditions as documented, for sources at the edges of the ladder,   *)
(* tiny, odd, tall and wide ones: nothing is upscaled, nothing is missing, *)
(* nothing doubled, and ffmpeg can encode every size that is asked for.    *)
MCHeights == {1, 2, 3, 4, 239, 479, 480, 481, 719, 720, 721, 1079, 1080,
              1081, 1439, 1440, 1441, 2160}
MCWidths == MCHeights \cup {853, 854, 1280, 1920, 2560, 2561, 3840, 4096}

ASSUME PlanIsDownscaleOnly ==
    \A width \in MCWidths, height \in MCHeights :
        IsPlan(PlanRenditions(width, height), width, height)

(* Workers are interchangeable, and so are replicas.                       *)
MCSymmetry == Permutations(Workers) \cup Permutations(Replicas)

NonLateFaults == AllFaults \ {"lateRequest"}
=============================================================================
