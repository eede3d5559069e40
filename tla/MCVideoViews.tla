---------------------------- MODULE MCVideoViews ----------------------------
(* Instances of VideoViews for TLC.                                        *)
EXTENDS ViewProperties

(* The first upload has two renditions, every other has one.               *)
MCPlan == [id \in Ids |-> IF id = 1 THEN 2 ELSE 1]

(* Every upload has one rendition.                                         *)
MCShortPlan == [id \in Ids |-> 1]
=============================================================================
