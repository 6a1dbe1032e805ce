---------------------------- MODULE MCDispatcher ----------------------------
(* Values of the constants of Dispatcher for TLC.                          *)
EXTENDS Dispatcher

CONSTANTS p1, p2, p3, a1, r1, r2

(* One area: p2 is outside.                                                *)
OneAreaCover == [p \in Points |-> IF p = p2 THEN {} ELSE {a1}]

(* One region: every point resolves to it.                                 *)
OneRegion == [x \in Points \X (Regions \cup {None}) |-> r1]

(* A resolver with hysteresis: p2, on the boundary, keeps the region the   *)
(* object is in and is refused for an object without a region.             *)
Hysteresis ==
  [x \in Points \X (Regions \cup {None}) |->
     CASE x[1] = p1 -> r1 [] x[1] = p2 -> x[2] [] x[1] = p3 -> r2]
=============================================================================
