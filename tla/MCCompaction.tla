---------------------------- MODULE MCCompaction ----------------------------
(* Values of the constants of Compaction for TLC.                          *)
EXTENDS Compaction

CONSTANTS p1, p2, a1, r1

(* p1 is in the area, p2 is not; everything is in one region.              *)
PointCover == [p \in Points |-> IF p = p1 THEN {a1} ELSE {}]

OneRegion == [x \in Points \X (Regions \cup {None}) |-> r1]
=============================================================================
