------------------------------- MODULE Engine -------------------------------
(***************************************************************************)
(* The in-memory spatial state (internal/engine): per region an object     *)
(* tree, an area tree and the committed geofence snapshot prevInside; per  *)
(* object the query-visible fields of its ObjCtl.  One goroutine per       *)
(* region, one for region transitions, and the goroutine that follows the  *)
(* areas bucket act on it.                                                 *)
(*                                                                         *)
(* A worker holds the object's pubMu and the region locks from its first   *)
(* read to its last write, so each task is one action.  RemoveArea locks   *)
(* one region at a time: one action per region.                            *)
(*                                                                         *)
(* tasks is the union of the workers' inboxes and of the transition inbox  *)
(* (the task's kind and region say which), results is resultCh.  As for    *)
(* the publisher's channels, sets are enough: an object has at most one    *)
(* entry in all of them.                                                   *)
(***************************************************************************)
EXTENDS GtEvents

CONSTANT MaxAreaOps  \* bound of the model: area registrations and removals

ASSUME EngineAssumption == MaxAreaOps \in Nat

VARIABLES
  tree,       \* [Regions -> [Objects -> PointOrNone]]
  areaTree,   \* [Regions -> SUBSET Areas]
  prevInside, \* [Regions -> [Objects -> SUBSET Areas]]
  registered, \* the objects that have an ObjCtl
  pubRegion,  \* [Objects -> RegionOrNone]: None is hasPubRegion = FALSE
  deleted,    \* [Objects -> BOOLEAN]
  tasks,
  results,
  sweep,      \* RemoveArea in progress: the area, and the regions still to visit
  areaOps     \* area changes applied so far

indexVars == <<tree, areaTree, pubRegion, sweep, areaOps>>
engineVars == <<tree, areaTree, prevInside, registered, pubRegion, deleted,
                tasks, results, sweep, areaOps>>

WorkerTask ==
  [ kind : {"init", "update", "remove"}, obj : Objects, op : Nat,
    pt : PointOrNone, region : Regions, old : RegionOrNone ] \cup
  [ kind : {"transition"}, obj : Objects, op : Nat,
    pt : Points, region : Regions, old : Regions ]

WorkerResult ==
  [ obj : Objects, op : Nat, ready : BOOLEAN, region : Regions, old : RegionOrNone,
    pt : PointOrNone, inside : SUBSET Areas, trans : Seq(Transition) ]

NoSweep == [area |-> None, left |-> {}]

EngineTypeOK ==
  /\ tree \in [Regions -> [Objects -> PointOrNone]]
  /\ areaTree \in [Regions -> SUBSET Areas]
  /\ prevInside \in [Regions -> [Objects -> SUBSET Areas]]
  /\ registered \subseteq Objects
  /\ pubRegion \in [Objects -> RegionOrNone]
  /\ deleted \in [Objects -> BOOLEAN]
  /\ tasks \subseteq WorkerTask
  /\ results \subseteq WorkerResult
  /\ sweep \in [area : Areas \cup {None}, left : SUBSET Regions]
  /\ areaOps \in Nat

(* Areas seeded at boot: the initial value of the area trees is any map    *)
(* the areas bucket can hold, an area being in at most one region of it.   *)
EngineInit ==
  /\ tree = [r \in Regions |-> [o \in Objects |-> None]]
  /\ \E home \in [Areas -> RegionOrNone] :
       areaTree = [r \in Regions |-> {a \in Areas : home[a] = r}]
  /\ prevInside = [r \in Regions |-> [o \in Objects |-> {}]]
  /\ registered = {}
  /\ pubRegion = [o \in Objects |-> None]
  /\ deleted = [o \in Objects |-> FALSE]
  /\ tasks = {}
  /\ results = {}
  /\ sweep = NoSweep
  /\ areaOps = 0

---------------------------------------------------------------------------
(* Geofences: the areas touched now against the committed snapshot of the  *)
(* region.  Only computed; the dispatcher writes the snapshot later.       *)
Inside(r, p) == areaTree[r] \cap Cover[p]

Entries(r, o, p) == Transitions(Inside(r, p) \ prevInside[r][o], TRUE)

Departures(r, o, p) == Transitions(prevInside[r][o] \ Inside(r, p), FALSE)

(* Faulty variant: areas that are no longer touched are forgotten.         *)
ChangesEntersOnly(r, o, p) == Entries(r, o, p)

Changes(r, o, p) ==
  {enters \o exits : enters \in Entries(r, o, p), exits \in Departures(r, o, p)}

Exits(r, o) == Transitions(prevInside[r][o], FALSE)

---------------------------------------------------------------------------
Result(t, old, p, inside, trans) ==
  [ obj |-> t.obj, op |-> t.op, ready |-> TRUE, region |-> t.region, old |-> old,
    pt |-> p, inside |-> inside, trans |-> trans ]

Rejection(t) == [Result(t, None, None, {}, <<>>) EXCEPT !.ready = FALSE]

Answered(t, res) ==
  /\ tasks' = tasks \ {t}
  /\ results' = results \cup {res}

Refused(t) == Answered(t, Rejection(t)) /\ UNCHANGED <<tree, pubRegion, deleted>>

Moved(o, from, to, p) ==
  tree' = [r \in Regions |-> [tree[r] EXCEPT ![o] = IF r = to THEN p
                                                   ELSE IF r = from THEN None
                                                   ELSE @]]

workerFrame == <<areaTree, prevInside, registered, sweep, areaOps>>

(* processInit: first position of the object since it has a region.        *)
ProcessInit(t) ==
  /\ t \in tasks
  /\ t.kind = "init"
  /\ IF t.obj \notin registered THEN Refused(t)
     ELSE /\ Moved(t.obj, None, t.region, t.pt)
          /\ pubRegion' = [pubRegion EXCEPT ![t.obj] = t.region]
          /\ \E trans \in Changes(t.region, t.obj, t.pt) :
               Answered(t, Result(t, None, t.pt, Inside(t.region, t.pt), trans))
          /\ UNCHANGED deleted
  /\ UNCHANGED workerFrame

(* processUpdate: a position in the region the object is already in.  The  *)
(* code logs a broken invariant when pubRegion is another region.          *)
ProcessUpdate(t) ==
  /\ t \in tasks
  /\ t.kind = "update"
  /\ IF t.obj \notin registered \/ deleted[t.obj] \/ pubRegion[t.obj] # t.region
     THEN Refused(t)
     ELSE /\ Moved(t.obj, None, t.region, t.pt)
          /\ \E trans \in Changes(t.region, t.obj, t.pt) :
               Answered(t, Result(t, None, t.pt, Inside(t.region, t.pt), trans))
          /\ UNCHANGED <<pubRegion, deleted>>
  /\ UNCHANGED workerFrame

(* processTransition: under both region locks, exits of the old region     *)
(* first, then the changes against the new region's snapshot.              *)
ProcessTransition(t) ==
  /\ t \in tasks
  /\ t.kind = "transition"
  /\ IF t.obj \notin registered THEN Refused(t)
     ELSE /\ Moved(t.obj, t.old, t.region, t.pt)
          /\ pubRegion' = [pubRegion EXCEPT ![t.obj] = t.region]
          /\ \E exits \in Exits(t.old, t.obj), trans \in Changes(t.region, t.obj, t.pt) :
               Answered(t, Result(t, t.old, t.pt, Inside(t.region, t.pt), exits \o trans))
          /\ UNCHANGED deleted
  /\ UNCHANGED workerFrame

(* processRemove: exits from the snapshot, which is left as it is.         *)
ProcessRemove(t) ==
  /\ t \in tasks
  /\ t.kind = "remove"
  /\ IF t.obj \notin registered
     THEN /\ Answered(t, Result(t, None, None, {}, <<>>))
          /\ UNCHANGED <<tree, pubRegion, deleted>>
     ELSE /\ \E exits \in Exits(t.region, t.obj) :
               Answered(t, Result(t, t.region, tree[t.region][t.obj], {}, exits))
          /\ Moved(t.obj, t.region, None, None)
          /\ pubRegion' = [pubRegion EXCEPT ![t.obj] = None]
          /\ deleted' = [deleted EXCEPT ![t.obj] = TRUE]
  /\ UNCHANGED workerFrame

---------------------------------------------------------------------------
(* RegisterArea, called by the one goroutine that follows the bucket.  An  *)
(* unknown region is an error that changes nothing.                        *)
RegisterArea(a, r) ==
  /\ sweep = NoSweep
  /\ areaOps < MaxAreaOps
  /\ areaOps' = areaOps + 1
  /\ areaTree' = [areaTree EXCEPT ![r] = @ \cup {a}]
  /\ UNCHANGED <<tree, prevInside, registered, pubRegion, deleted, tasks, results, sweep>>

RemoveAreaStart(a) ==
  /\ sweep = NoSweep
  /\ areaOps < MaxAreaOps
  /\ areaOps' = areaOps + 1
  /\ sweep' = [area |-> a, left |-> Regions]
  /\ UNCHANGED <<tree, areaTree, prevInside, registered, pubRegion, deleted, tasks, results>>

Purged(r, a) == [o \in Objects |-> prevInside[r][o] \ {a}]

(* Faulty variant: the loop stops at the first region without the area.    *)
AfterRegionStop(r) ==
  IF sweep.left = {r} \/ sweep.area \notin areaTree[r] THEN NoSweep
  ELSE [sweep EXCEPT !.left = @ \ {r}]

AfterRegion(r) == IF sweep.left = {r} THEN NoSweep ELSE [sweep EXCEPT !.left = @ \ {r}]

(* One region of RemoveArea's loop, in any order; regions without the area *)
(* are skipped.                                                            *)
RemoveAreaFrom(r) ==
  /\ r \in sweep.left
  /\ sweep' = AfterRegion(r)
  /\ IF sweep.area \in areaTree[r]
     THEN /\ prevInside' = [prevInside EXCEPT ![r] = Purged(r, sweep.area)]
          /\ areaTree' = [areaTree EXCEPT ![r] = @ \ {sweep.area}]
     ELSE UNCHANGED <<prevInside, areaTree>>
  /\ UNCHANGED <<tree, registered, pubRegion, deleted, tasks, results, areaOps>>

EngineNext ==
  \/ \E t \in tasks :
       \/ ProcessInit(t)
       \/ ProcessUpdate(t)
       \/ ProcessTransition(t)
       \/ ProcessRemove(t)
  \/ \E a \in Areas, r \in Regions : RegisterArea(a, r)
  \/ \E a \in Areas : RemoveAreaStart(a)
  \/ \E r \in Regions : RemoveAreaFrom(r)
=============================================================================
