------------------------------ MODULE GeoTruth ------------------------------
(***************************************************************************)
(* The service over several lives of its process (internal/app/geotruth    *)
(* and the recovery half of internal/gtevents/stream.go): everything of    *)
(* module Dispatcher is memory of one process and is lost when it ends;    *)
(* the GT_EVENTS stream and the bucket "areas" remain.  Boot seeds the     *)
(* areas, reads the latest commit of every object, publishes the geofence  *)
(* projections missing after it, rebuilds the active objects and reserves  *)
(* a boot epoch with a marker in the stream.                               *)
(*                                                                         *)
(* One process at a time: nothing in the code excludes a second one, but   *)
(* it is not a supported deployment.  A publish does not outlive the       *)
(* process that sent it.                                                   *)
(***************************************************************************)
EXTENDS Dispatcher

CONSTANTS
  Elsewhere,     \* a region name that the resolver does not know
  MaxCrashes,    \* bound of the model: ends of the process
  MaxAreaWrites  \* bound of the model: writes to the bucket

ASSUME GeoTruthAssumption ==
  /\ MaxCrashes \in Nat /\ MaxAreaWrites \in Nat
  /\ Elsewhere \notin RegionOrNone

VARIABLES
  mode,       \* "down", "booting", "up"
  repair,     \* projections Boot has found missing and not yet published
  bucket,     \* [Areas -> Regions \cup {Elsewhere, None}]: the areas bucket
  watched,    \* entries of the bucket the watcher has still to apply
  markers,    \* boot markers in the stream
  crashes,
  areaWrites

geotruthVars == <<mode, repair, bucket, watched, markers, crashes, areaWrites>>
allVars == <<vars, geotruthVars>>

Entry == [area : Areas, region : Regions \cup {Elsewhere, None}]

GeoTruthTypeOK ==
  /\ TypeOK
  /\ mode \in {"down", "booting", "up"}
  /\ repair \subseteq ProjectionEvent
  /\ bucket \in [Areas -> Regions \cup {Elsewhere, None}]
  /\ watched \in Seq(Entry)
  /\ markers \in Nat /\ crashes \in Nat /\ areaWrites \in Nat
  /\ mode = "up" => repair = {}
  /\ mode # "up" => registered = {} /\ InFlight = {} /\ watched = <<>>

(* The memory of a process that is not running.                            *)
NoMemory ==
  /\ tree' = [r \in Regions |-> [o \in Objects |-> None]]
  /\ areaTree' = [r \in Regions |-> {}]
  /\ prevInside' = [r \in Regions |-> [o \in Objects |-> {}]]
  /\ registered' = {}
  /\ pubRegion' = [o \in Objects |-> None]
  /\ deleted' = [o \in Objects |-> FALSE]
  /\ tasks' = {} /\ results' = {} /\ sweep' = NoSweep /\ areaOps' = 0
  /\ commitCh' = {} /\ publishing' = {} /\ commitResults' = {} /\ cancelled' = FALSE
  /\ ctl' = [o \in Objects |-> NoCtl]
  /\ instances' = 0
  /\ repair' = {} /\ watched' = <<>>

(* Before the first boot: an empty stream, any bucket.                     *)
GeoTruthInit ==
  /\ tree = [r \in Regions |-> [o \in Objects |-> None]]
  /\ areaTree = [r \in Regions |-> {}]
  /\ prevInside = [r \in Regions |-> [o \in Objects |-> {}]]
  /\ registered = {}
  /\ pubRegion = [o \in Objects |-> None]
  /\ deleted = [o \in Objects |-> FALSE]
  /\ tasks = {} /\ results = {} /\ sweep = NoSweep /\ areaOps = 0
  /\ PublisherInit
  /\ ctl = [o \in Objects |-> NoCtl]
  /\ instances = 0 /\ bootEpoch = 0
  /\ nextOp = 1
  /\ replies = [op \in Ops |-> <<>>]
  /\ mode = "down"
  /\ repair = {} /\ watched = <<>>
  /\ bucket \in [Areas -> RegionOrNone]
  /\ markers = 0 /\ crashes = 0 /\ areaWrites = 0

---------------------------------------------------------------------------
(* RecoverObjectCommits: the last commit of the object in the stream.      *)
CommitsAt(o) == {i \in DOMAIN stream[o] : IsCommit(stream[o][i])}

Recovered(o) == stream[o][Max(CommitsAt(o))]

Active(o) == CommitsAt(o) # {} /\ Recovered(o).type # "removed"

(* Faulty variant: only active objects are repaired.                       *)
MissingActive(o) ==
  IF ~Active(o) THEN {}
  ELSE { e \in ToSet(ExpectedProjections(Recovered(o))) :
           \A j \in DOMAIN stream[o] : EventID(stream[o][j]) # EventID(e) }

(* RepairLatestProjections: the projections of that commit that a scan of  *)
(* what follows it does not find, by event ID.                             *)
Missing(o) ==
  IF CommitsAt(o) = {} THEN {}
  ELSE { e \in ToSet(ExpectedProjections(Recovered(o))) :
           \A j \in DOMAIN stream[o] :
             j > Max(CommitsAt(o)) => EventID(stream[o][j]) # EventID(e) }

(* Every place of the stream that holds an event.                          *)
Stored == UNION {{<<o, i>> : i \in DOMAIN stream[o]} : o \in Objects}

(* LastSeq of the stream: every event and every boot marker.               *)
LastSeq == markers + Cardinality(Stored)

memoryVars == <<tree, prevInside, registered, pubRegion, deleted, tasks, results, sweep,
                areaOps, commitCh, publishing, commitResults, cancelled,
                ctl, instances, nextOp, replies, watched>>
durableVars == <<bucket, markers, crashes, areaWrites>>

(* Boot, up to the publication of what is missing: areas are seeded from   *)
(* the bucket, an entry of an unknown region being skipped.                *)
StartBoot ==
  /\ mode = "down"
  /\ mode' = "booting"
  /\ areaTree' = [r \in Regions |-> {a \in Areas : bucket[a] = r}]
  /\ repair' = UNION {Missing(o) : o \in Objects}
  /\ UNCHANGED <<memoryVars, durableVars, stream, faults, bootEpoch>>

(* One missing projection, in any order: the code ranges over a map.       *)
RepairProjection(e) ==
  /\ mode = "booting"
  /\ e \in repair
  /\ stream' = [stream EXCEPT ![e.obj] = Append(@, e)]
  /\ repair' = repair \ {e}
  /\ UNCHANGED <<memoryVars, durableVars, mode, areaTree, faults, bootEpoch>>

(* Boot publishes once: an unconfirmed repair, stored or not, ends it with *)
(* an error, and the process with it.                                      *)
RepairFails(e) ==
  /\ mode = "booting"
  /\ e \in repair
  /\ faults < MaxFaults
  /\ faults' = faults + 1
  /\ stream' \in {stream, [stream EXCEPT ![e.obj] = Append(@, e)]}
  /\ mode' = "down"
  /\ NoMemory
  /\ UNCHANGED <<durableVars, bootEpoch, nextOp, replies>>

(* Faulty variant: the objects come back without their geofence snapshot.  *)
BootstrapInsideNone(o) == {}

BootstrapInside(o) == Recovered(o).inside


BootstrapCtl(o) ==
  IF Active(o)
  THEN [NoCtl EXCEPT !.inst = Recovered(o).inst, !.seq = Recovered(o).seq,
                     !.route = Recovered(o).region]
  ELSE NoCtl

(* Faulty variant: the epoch is a count of boots kept in memory.           *)
NextEpochSame == 1

NextEpoch == LastSeq + 1

Repaired == repair = {}

PlacedIn(o, r) == Active(o) /\ Recovered(o).region = r

(* The rest of Boot: active objects are rebuilt; PublishBooted reserves    *)
(* the next sequence of the stream as the boot epoch.  The watcher starts  *)
(* by repeating the latest entry of every key, which seeding has applied.  *)
FinishBoot ==
  /\ mode = "booting"
  /\ Repaired
  /\ mode' = "up"
  /\ registered' = {o \in Objects : Active(o)}
  /\ ctl' = [o \in Objects |-> BootstrapCtl(o)]
  /\ pubRegion' = [o \in Objects |-> BootstrapCtl(o).route]
  /\ tree' = [r \in Regions |-> [o \in Objects |->
                IF PlacedIn(o, r) THEN Recovered(o).pt ELSE None]]
  /\ prevInside' = [r \in Regions |-> [o \in Objects |->
                      IF PlacedIn(o, r) THEN BootstrapInside(o) ELSE {}]]
  /\ bootEpoch' = NextEpoch
  /\ markers' = markers + 1
  /\ UNCHANGED <<areaTree, deleted, tasks, results, sweep, areaOps, publisherVars,
                 instances, nextOp, replies, repair, bucket, watched, crashes, areaWrites>>

(* The process ends, at any point.                                         *)
Crash ==
  /\ mode # "down"
  /\ crashes < MaxCrashes
  /\ crashes' = crashes + 1
  /\ mode' = "down"
  /\ NoMemory
  /\ UNCHANGED <<stream, faults, bootEpoch, nextOp, replies, bucket, markers, areaWrites>>

---------------------------------------------------------------------------
(* The place of the latest entry of an area that the watcher has still to  *)
(* apply.                                                                  *)
LatestEntry(a) ==
  { i \in DOMAIN watched :
      /\ watched[i].area = a
      /\ \A j \in DOMAIN watched : j > i => watched[j].area # a }

(* handleRegisterArea (region r, not checked here) and handleRemoveArea    *)
(* (r = None): the bucket is written, the watcher is told.  The bucket     *)
(* keeps one revision of a key, so the entry that this one supersedes may  *)
(* be gone before the watcher receives it.                                 *)
WriteArea(a, r) ==
  /\ mode = "up"
  /\ areaWrites < MaxAreaWrites
  /\ areaWrites' = areaWrites + 1
  /\ bucket' = [bucket EXCEPT ![a] = r]
  /\ \E kept \in {watched} \cup {RemoveAt(watched, i) : i \in LatestEntry(a)} :
       watched' = Append(kept, [area |-> a, region |-> r])
  /\ UNCHANGED <<vars, mode, repair, markers, crashes>>

(* watchAreas: one entry at a time; removing an area ends with its sweep.  *)
WatchEntry ==
  /\ mode = "up"
  /\ watched # <<>>
  /\ sweep = NoSweep
  /\ LET e == Head(watched)
     IN  CASE e.region \in Regions -> RegisterArea(e.area, e.region)
           [] e.region = None -> RemoveAreaStart(e.area)
           [] OTHER -> UNCHANGED engineVars
  /\ watched' = Tail(watched)
  /\ UNCHANGED <<publisherVars, dispatcherVars, mode, repair, bucket, markers, crashes, areaWrites>>

(* What Dispatcher says of the running process; area changes come from the *)
(* watcher.                                                                *)
Work ==
  /\ mode = "up"
  /\ \/ DispatcherNext
     \/ /\ \/ \E t \in tasks : \/ ProcessInit(t)
                              \/ ProcessUpdate(t)
                              \/ ProcessTransition(t)
                              \/ ProcessRemove(t)
           \/ \E r \in Regions : RemoveAreaFrom(r)
        /\ UNCHANGED <<publisherVars, dispatcherVars>>
     \/ PublisherNext /\ UNCHANGED <<engineVars, dispatcherVars>>
  /\ UNCHANGED geotruthVars

Boot ==
  \/ StartBoot
  \/ \E e \in repair : RepairProjection(e) \/ RepairFails(e)
  \/ FinishBoot

GeoTruthNext ==
  \/ Boot
  \/ Crash
  \/ \E a \in Areas, r \in Regions \cup {Elsewhere, None} : WriteArea(a, r)
  \/ WatchEntry
  \/ Work

GeoTruthSpec == GeoTruthInit /\ [][GeoTruthNext]_allVars

(* Fairness: Boot goes on while the process lives, and the goroutines of   *)
(* Dispatcher run while it is up: channels are first-in first-out, so no   *)
(* entry waits for ever.  None for clients, areas, faults, shutdown, and   *)
(* the end or the start of the process.  A publish succeeds in the end     *)
(* because MaxFaults bounds the failures.                                  *)
BootStep ==
  \/ \E e \in repair : RepairProjection(e)
  \/ FinishBoot

UpStep(o) ==
  /\ mode = "up"
  /\ WorkerStep(o) \/ PublisherStep(o) \/ ResultStep(o)
  /\ UNCHANGED geotruthVars

GeoTruthFairness ==
  WF_allVars(BootStep) /\ \A o \in Objects : WF_allVars(UpStep(o))

GeoTruthFairSpec == GeoTruthSpec /\ GeoTruthFairness

---------------------------------------------------------------------------

(* An object with no command in flight has all the geofence events of its  *)
(* latest commit in the stream, also when the process that committed it    *)
(* ended between the commit and a projection.                              *)
IdleIsProjected ==
  mode = "up" /\ ~cancelled =>
    \A o \in Objects :
      ctl[o].head = None /\ CommitsAt(o) # {} =>
        ProjectedBefore(stream[o], Max(FirstCommits(stream[o])), Len(stream[o]) + 1)

(* The geofence snapshot of a running process follows the commits: applied *)
(* any earlier, an event of a commit that is not durable yet would be      *)
(* taken for sent by the command behind it.                                *)
SnapshotFollowsCommit == [][mode = "up" /\ mode' = "up" => SnapshotChange]_allVars

(* When the watcher has caught up, no area is missed and no removed one    *)
(* stays, whatever the order of writes, restarts and superseded entries:   *)
(* an area with a known region is in that region's tree, a removed area in *)
(* none.  It may be in the tree of an earlier registration as well.        *)
CaughtUp == mode = "up" /\ watched = <<>> /\ sweep = NoSweep

BucketAreasAreServed ==
  CaughtUp =>
    \A a \in Areas :
      /\ bucket[a] \in Regions => a \in areaTree[bucket[a]]
      /\ bucket[a] = None => \A r \in Regions : a \notin areaTree[r]

(* architecture.md: an area is "attached to exactly one string region".    *)
(* It is not once it has been registered for another region: RegisterArea  *)
(* puts it into that region's tree and takes it out of no other.           *)
OneRegionEach ==
  CaughtUp =>
    \A a \in Areas, r, s \in Regions : a \in areaTree[r] /\ a \in areaTree[s] => r = s

(* The commands the dispatcher holds: in flight or queued behind it.       *)
Held(o) == {k.op : k \in {ctl[o].head} \ {None}} \cup {k.op : k \in ToSet(ctl[o].queue)}

(* Every command the dispatcher holds is answered, also when the object is *)
(* removed under it, unless the process ends or shuts down first.          *)
EveryCommandAnswered ==
  \A o \in Objects : \A op \in Ops :
    (mode = "up" /\ op \in Held(o)) ~> (replies[op] # <<>> \/ cancelled \/ mode = "down")

(* A commit in the stream gets its geofence events from the process that   *)
(* is running, whichever process wrote it.                                 *)
CommitsOf(o, op) == {i \in FirstCommits(stream[o]) : stream[o][i].op = op}

CommitIsProjected ==
  \A o \in Objects : \A op \in Ops :
    (mode # "down" /\ CommitsOf(o, op) # {}) ~>
      \/ mode = "down"
      \/ cancelled
      \/ \E i \in CommitsOf(o, op) : ProjectedBefore(stream[o], i, Len(stream[o]) + 1)
=============================================================================
