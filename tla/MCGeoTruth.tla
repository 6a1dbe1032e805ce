----------------------------- MODULE MCGeoTruth -----------------------------
(* Values of the constants of GeoTruth for TLC, and scenes: one state      *)
(* space of all its bounds at once is out of reach, so a behaviour is one  *)
(* of several, each wide in what it is about.                              *)
EXTENDS GeoTruth

CONSTANTS p1, p2, p3, p4, a1, a2, r1, r2, Scenes

VARIABLE scene

(* p1 is in a1 only, p2 in no area, p3 and p4 are in every area.           *)
PointCover ==
  [p \in Points |-> Areas \cap (CASE p = p1 -> {a1} [] p = p2 -> {} [] OTHER -> {a1, a2})]

(* A resolver with hysteresis: p3 is in r2, p1 and p4 are in r1, and p2,   *)
(* on the boundary, keeps the region the object is in and is refused for   *)
(* an object without a region.                                             *)
Hysteresis ==
  [x \in Points \X (Regions \cup {None}) |->
     CASE x[1] = p2 -> x[2] [] x[1] = p3 -> r2 [] OTHER -> r1]

(* crash: two areas of one region, a process that ends twice.  live: two   *)
(* regions, a process that ends once.  regions: no area is written, no     *)
(* process ends, the longest sequences of commands.  moves: areas are      *)
(* written to two regions while objects cross them and the process ends.   *)
(* stays: one process, and objects that stay in one region while their     *)
(* areas come and go.  No scene starts with an area in r2: the regions,    *)
(* with p1 and p3, are interchangeable where both are used.                *)
Bound ==
  [ crash   |-> [points |-> {p1, p4}, start |-> {r1}, homes |-> {},
                 ops |-> 3, failures |-> 1, ends |-> 2, writes |-> 0],
    live    |-> [points |-> {p1, p3}, start |-> {r1}, homes |-> {},
                 ops |-> 3, failures |-> 1, ends |-> 1, writes |-> 0],
    regions |-> [points |-> {p1, p2, p3}, start |-> {r1}, homes |-> {},
                 ops |-> 5, failures |-> 1, ends |-> 0, writes |-> 0],
    moves   |-> [points |-> {p1, p3}, start |-> {r1, None}, homes |-> {r1, r2, None},
                 ops |-> 3, failures |-> 0, ends |-> 1, writes |-> 2],
    stays   |-> [points |-> {p1, p2}, start |-> {r1, None}, homes |-> {r1, Elsewhere, None},
                 ops |-> 4, failures |-> 0, ends |-> 0, writes |-> 2] ]

Commands == UNION {{ctl[o].head} \cup ToSet(ctl[o].queue) : o \in Objects} \ {None}

Within(b) ==
  /\ \A k \in Commands : k.pt \in b.points \cup {None}
  /\ \A a \in Areas : bucket[a] \in b.start \cup b.homes
  /\ nextOp <= b.ops + 1
  /\ faults <= b.failures
  /\ crashes <= b.ends
  /\ areaWrites <= b.writes

ScenesInit ==
  /\ GeoTruthInit
  /\ scene \in Scenes
  /\ \A a \in Areas : bucket[a] \in Bound[scene].start

ScenesNext ==
  /\ GeoTruthNext
  /\ UNCHANGED scene
  /\ Within(Bound[scene])'

ScenesSpec == ScenesInit /\ [][ScenesNext]_<<allVars, scene>>

ScenesFairSpec == ScenesSpec /\ GeoTruthFairness
=============================================================================
