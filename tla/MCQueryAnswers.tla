---------------------------- MODULE MCQueryAnswers ----------------------------
(* Instances of QueryAnswers.  One state space of everything at once is    *)
(* out of reach, so a behaviour is one of three scenes: an object that is  *)
(* removed and registered again under any query about it, areas that come  *)
(* and go under queries, and both of them without a query.                 *)
EXTENDS QueryAnswers

CONSTANTS p1, p2, a1, r1, r2

VARIABLE scene

TwoRegions == <<r1, r2>>

(* Each point has its own region; the area covers both.                    *)
EachItsRegion == [x \in Points \X (Regions \cup {None}) |-> IF x[1] = p1 THEN r1 ELSE r2]

CoverAll == [p \in Points |-> Areas]

SceneKinds ==
  [lives |-> {"object", "regionOf", "region", "all"}, areas |-> {"area", "region", "all"}, both |-> {}]

InScene(s, ops, lives, asked) ==
  /\ s = "lives" => ops = 0
  /\ s = "areas" => \A o \in Objects : lives[o] = 0
  /\ s = "both" => \A o \in Objects : lives[o] <= 1
  /\ asked \subseteq SceneKinds[s]

Asked == {thread[q].job.call.kind : q \in {x \in Queries : thread[x].job # None}}

ScenesInit == QueriesInit /\ scene \in DOMAIN SceneKinds

ScenesNext ==
  /\ QueriesNext
  /\ UNCHANGED scene
  /\ InScene(scene, areaOps', life', Asked')

ScenesSpec == ScenesInit /\ [][ScenesNext]_<<queryVars, scene>>
=============================================================================
