--------------------------- MODULE RenditionPlan ---------------------------
(***************************************************************************)
(* planRenditions: which renditions a video of a given size is turned      *)
(* into.  Sizes are whole pixels, as ffprobe reports them.  The quotients  *)
(* are exact: floating point can differ by one rounding only where the     *)
(* exact width is a half.                                                  *)
(***************************************************************************)
EXTENDS Integers, Sequences

(* RENDITION_LADDER: 2K, 1080p, 720p and 480p by their heights.            *)
RenditionLadder == <<1440, 1080, 720, 480>>

(* Math.round(n / d)                                                       *)
Rounded(n, d) == (2 * n + d) \div (2 * d)

(* toEven of n / d: an odd result goes down, and nothing is below 2.       *)
ToEven(n, d) ==
    LET rounded == Rounded(n, d)
        even == rounded - (rounded % 2)
    IN  IF even < 2 THEN 2 ELSE even

(* One entry of the ladder, at the source's aspect ratio.                  *)
Rung(width, height, target) ==
    [label |-> target,
     width |-> ToEven(ToEven(target, 1) * width, height),
     height |-> ToEven(target, 1)]

(* The body of the loop: skip what is taller than the source or whose size *)
(* is planned already.                                                     *)
AddRung(width, height, planned, i) ==
    LET rung == Rung(width, height, RenditionLadder[i])
        seen == \E j \in DOMAIN planned :
                    /\ planned[j].width = rung.width
                    /\ planned[j].height = rung.height
    IN  IF RenditionLadder[i] > height \/ seen
        THEN planned
        ELSE Append(planned, rung)

(* The loop over the four entries.                                         *)
LadderPlan(width, height) ==
    LET first == AddRung(width, height, <<>>, 1)
        second == AddRung(width, height, first, 2)
        third == AddRung(width, height, second, 3)
    IN  AddRung(width, height, third, 4)

(* A source below the ladder is kept at its own size, labelled 480p.       *)
PlanRenditions(width, height) ==
    LET planned == LadderPlan(width, height)
    IN  IF planned # <<>> THEN planned
        ELSE <<[label |-> RenditionLadder[4],
                width |-> ToEven(width, 1),
                height |-> ToEven(height, 1)]>>

-----------------------------------------------------------------------------
(* The same plan by its result, not by its loop: the rungs that are not    *)
(* taller than the source, or the last one; largest first; sizes that      *)
(* yuv420p can have; none larger than the source, unless that is one pixel *)
(* wide or high; and the source's aspect, up to the pixel and a half that  *)
(* rounding and evening take and the half they add.                        *)
Rungs == {RenditionLadder[i] : i \in DOMAIN RenditionLadder}

YuvSize(n) == n >= 2 /\ n % 2 = 0

SameAspect(p, width, height) ==
    /\ 2 * height * p.width <= 2 * p.height * width + height
    /\ 2 * height * p.width > 2 * p.height * width - 3 * height

IsPlan(planned, width, height) ==
    LET fitting == {t \in Rungs : t <= height}
        labels == {planned[i].label : i \in DOMAIN planned}
    IN  /\ labels = IF fitting = {} THEN {480} ELSE fitting
        /\ \A i, j \in DOMAIN planned :
               i < j => planned[i].height > planned[j].height
        /\ \A i \in DOMAIN planned :
               /\ YuvSize(planned[i].width) /\ YuvSize(planned[i].height)
               /\ width >= 2 => planned[i].width <= width
               /\ height >= 2 => planned[i].height <= height
               /\ fitting # {} => planned[i].height = planned[i].label
               /\ fitting # {} /\ planned[i].width > 2
                      => SameAspect(planned[i], width, height)
=============================================================================
