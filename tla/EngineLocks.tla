----------------------------- MODULE EngineLocks -----------------------------
(***************************************************************************)
(* The locks of internal/engine.  Engine takes each worker task for one    *)
(* step; here every goroutine takes and gives back its locks one by one,   *)
(* and the queries (queries.go) run between them.                          *)
(*                                                                         *)
(* A goroutine is a thread with the steps it has still to make (run).  A   *)
(* step takes or gives back one lock, or reads or writes what a lock       *)
(* guards.  An object's ObjCtl has the lock pubMu, a region has mu; the    *)
(* lock of an ObjCtl that has left the map lives as long as a query that   *)
(* looked it up, so it carries the number of the life of the object.       *)
(* ctlMu, held for one map access, is not modelled: each access is a step. *)
(*                                                                         *)
(* The dispatcher is reduced to what the locks see of it: one command of   *)
(* an object at a time, and a result whose commit is confirmed.            *)
(***************************************************************************)
EXTENDS Engine

CONSTANTS
  Queries,  \* the goroutines that answer queries
  Order,    \* sortedRegions(): the regions in the order of their names
  MaxLives, \* bound of the model: registrations of an object
  Kinds     \* bound of the model: the kinds of query that are made

(* NewEngine refuses a resolver without regions (validateKnownRegions).    *)
ASSUME LocksAssumption ==
  /\ Regions # {} /\ IsFiniteSet(Regions)
  /\ Order \in [1..Cardinality(Regions) -> Regions]
  /\ \A r \in Regions : \E i \in DOMAIN Order : Order[i] = r
  /\ \A i, j \in DOMAIN Order : Order[i] = Order[j] => i = j
  /\ MaxLives \in Nat
  /\ Kinds \subseteq {"object", "regionOf", "region", "area", "all"}

VARIABLES
  head,   \* [Objects -> kind of ctl.head, None when the mailbox is free]
  life,   \* [Objects -> Nat]: the ObjCtls the object has had
  lock,   \* [Locks -> RWMutex]
  thread  \* [Threads -> [job, run, got, before]]

lockVars == <<engineVars, head, life, lock, thread>>

Workers == Regions \cup {"transition"}
Threads == Workers \cup {"dispatcher", "watcher"} \cup Queries

(* Each goroutine has a name of its own, and None is no kind of command.   *)
ASSUME NamesAssumption ==
  /\ {"transition", "dispatcher", "watcher"} \cap (Regions \cup Queries) = {}
  /\ Regions \cap Queries = {}
  /\ None \notin Threads \cup {"update", "remove"}

Ctl(o, n) == <<"ctl", o, n>>
Region(r) == <<"region", r>>
Locks == {Ctl(o, n) : o \in Objects, n \in 1..MaxLives} \cup {Region(r) : r \in Regions}

---------------------------------------------------------------------------
(* sync.RWMutex: a writer announces itself and then waits for the readers  *)
(* it found; from then on readers wait, and all that wait are let in when  *)
(* it unlocks, before the next writer.                                     *)
Unlocked == [writer |-> None, readers |-> {}, waiting |-> {}]

Announced(k, t) == [k EXCEPT !.writer = t]

Entered(k, t) == IF k.writer = None THEN [k EXCEPT !.readers = @ \cup {t}]
                 ELSE [k EXCEPT !.waiting = @ \cup {t}]

Left(k, t) == [k EXCEPT !.readers = @ \ {t}]

Freed(k) == [writer |-> None, readers |-> k.waiting, waiting |-> {}]

(* The threads a thread waits for.                                         *)
Blocks(t, l) ==
  IF t \in lock[l].waiting THEN {lock[l].writer}
  ELSE IF lock[l].writer = t THEN lock[l].readers ELSE {}

Wants(t) == IF thread[t].run # <<>> /\ Head(thread[t].run).do = "lock"
            THEN {lock[Head(thread[t].run).on].writer} \ {None} ELSE {}

WaitsFor(t) == Wants(t) \cup UNION {Blocks(t, l) : l \in Locks}

---------------------------------------------------------------------------
(* The programs: what each function does once it is called.                *)
Do(what, x) == [do |-> what, on |-> x]
Lock(l) == Do("lock", l)
RLock(l) == Do("rlock", l)
Unlock(l) == Do("unlock", l)
RUnlock(l) == Do("runlock", l)
Send == Do("send", None)
Reply == Do("reply", None)

Position(x) == CHOOSE i \in DOMAIN Order : Order[i] = x
Lower(r, s) == IF Position(r) < Position(s) THEN r ELSE s
Higher(r, s) == IF Position(r) < Position(s) THEN s ELSE r

InitProgram(c, r) ==
  <<Lock(c), Lock(Region(r)), Do("enter", r), Do("publish", r),
    Unlock(Region(r)), Unlock(c), Send>>

(* Once the region has been checked under the read lock.                   *)
UpdateProgram(c, r) ==
  <<Lock(Region(r)), Do("enter", r), Do("publish", r),
    Unlock(Region(r)), RUnlock(c), Send>>

(* Programs of the same length, one after the other.                       *)
InTurn(programs) ==
  LET n == Len(programs[1])
  IN  [i \in 1..(n * Len(programs)) |-> programs[(i + n - 1) \div n][1 + ((i - 1) % n)]]

(* Faulty variant: the region that is left is locked first.                *)
TransitionProgramUnsorted(c, r, s) ==
  <<Lock(c), Lock(Region(r)), Lock(Region(s)), Do("leave", r), Do("enter", s),
    Do("publish", s), Unlock(Region(s)), Unlock(Region(r)), Unlock(c), Send>>

TransitionProgram(c, r, s) ==
  LET lo == Region(Lower(r, s))
      hi == Region(Higher(r, s))
  IN <<Lock(c), Lock(lo), Lock(hi), Do("leave", r), Do("enter", s),
       Do("publish", s), Unlock(hi), Unlock(lo), Unlock(c), Send>>

RemoveProgram(c, r) ==
  <<Lock(c), Lock(Region(r)), Do("leave", r), Do("publish", r),
    Unlock(Region(r)), Unlock(c), Send>>

TaskProgram(t) ==
  LET c == Ctl(t.obj, life[t.obj])
  IN CASE t.kind = "init" -> InitProgram(c, t.region)
       [] t.kind = "update" -> <<RLock(c), Do("check", c)>>
       [] t.kind = "transition" -> TransitionProgram(c, t.old, t.region)
       [] t.kind = "remove" -> RemoveProgram(c, t.region)

(* Faulty variant: the snapshot is written without the region's lock.      *)
SnapshotProgramUnlocked(r) == <<Do("snapshot", r), Do("confirm", None)>>

SnapshotProgram(r) ==
  <<Lock(Region(r)), Do("snapshot", r), Unlock(Region(r)), Do("confirm", None)>>

RegisterAreaProgram(r) == <<Lock(Region(r)), Do("addArea", r), Unlock(Region(r))>>

(* Faulty variant: the lock is given back between the snapshots and the    *)
(* area tree.                                                              *)
RemoveAreaProgramTwice(r) ==
  <<Lock(Region(r)), Do("purge", r), Unlock(Region(r)),
    Lock(Region(r)), Do("dropArea", r), Unlock(Region(r))>>

RemoveAreaProgram(r) ==
  <<Lock(Region(r)), Do("purge", r), Do("dropArea", r), Unlock(Region(r))>>

(* Faulty variant: the object is let go before its region is held.         *)
LocatedProgramEarly(c, r) ==
  <<RUnlock(c), RLock(Region(r)), Do("get", r), RUnlock(Region(r)), Reply>>

(* The region is locked before pubMu is given back.                        *)
LocatedProgram(c, r) ==
  <<RLock(Region(r)), RUnlock(c), Do("get", r), RUnlock(Region(r)), Reply>>

NotFoundProgram(c) == <<RUnlock(c), Reply>>

(* Nearby, WithinArea, AreasAtPoint, NearbyAreas.                          *)
RegionProgram(r) == <<RLock(Region(r)), Do("scan", {r}), RUnlock(Region(r)), Reply>>

(* AllObjects, AllObjectsOriented, AllAreas.                               *)
AllProgram ==
  [i \in DOMAIN Order |-> RLock(Region(Order[i]))] \o <<Do("scan", Regions)>> \o
  [i \in DOMAIN Order |-> RUnlock(Region(Order[i]))] \o <<Reply>>

(* Area: one region after the other, in the order of a map.                *)
LookProgram(r) == <<RLock(Region(r)), Do("look", r), RUnlock(Region(r))>>

AreaProgram(s) == InTurn([i \in DOMAIN s |-> LookProgram(s[i])]) \o <<Reply>>

---------------------------------------------------------------------------
(* Calls.                                                                  *)
Idle == [job |-> None, run |-> <<>>, got |-> None, before |-> None]

NotFound == [at |-> None, objects |-> <<>>, areas |-> {}]

(* What a region shows, under its lock: NearbyOf, AreasContaining,         *)
(* Intersecting, Bounds and ObjectPosition compute their answer from it.   *)
Shown(r, tr) == [at |-> r, objects |-> tr[r], areas |-> areaTree[r]]

Call == [kind : {"object", "regionOf"}, of : Objects] \cup
        [kind : {"region"}, of : Regions] \cup
        [kind : {"area"}, of : Areas] \cup
        [kind : {"all"}, of : {None}]

LocksInit ==
  /\ EngineInit
  /\ head = [o \in Objects |-> None]
  /\ life = [o \in Objects |-> 0]
  /\ lock = [l \in Locks |-> Unlocked]
  /\ thread = [t \in Threads |-> Idle]

CanStep(t) == thread[t].run # <<>> /\ WaitsFor(t) = {}

Upcoming(t) == Head(thread[t].run)

(* Thread t goes on with the rest of its program.                          *)
Goes(t) == thread' = [thread EXCEPT ![t].run = Tail(@)]

GoesWith(t, answer) == thread' = [thread EXCEPT ![t].run = Tail(@), ![t].got = answer]

GoesTo(t, program) == thread' = [thread EXCEPT ![t].run = program]

Starts(t, what, program) ==
  thread' = [thread EXCEPT ![t] = [Idle EXCEPT !.job = what, !.run = program]]

Ends(t) == thread' = [thread EXCEPT ![t] = Idle]

---------------------------------------------------------------------------
(* The steps on locks.                                                     *)
LockStep(t) ==
  /\ CanStep(t)
  /\ \E l \in Locks :
       /\ \/ Upcoming(t) = Lock(l) /\ lock' = [lock EXCEPT ![l] = Announced(@, t)]
          \/ Upcoming(t) = RLock(l) /\ lock' = [lock EXCEPT ![l] = Entered(@, t)]
          \/ Upcoming(t) = Unlock(l) /\ lock' = [lock EXCEPT ![l] = Freed(@)]
          \/ Upcoming(t) = RUnlock(l) /\ lock' = [lock EXCEPT ![l] = Left(@, t)]
  (* The watcher ends with the last lock it gives back.                    *)
  /\ IF Len(thread[t].run) = 1 THEN Ends(t) ELSE Goes(t)
  /\ UNCHANGED <<engineVars, head, life>>

---------------------------------------------------------------------------
(* The dispatcher.                                                         *)
dispatcherFrame == <<tree, areaTree, sweep, areaOps, lock>>

(* onRegister: a new ObjCtl enters the map.                                *)
Register(o) ==
  /\ thread["dispatcher"] = Idle
  /\ o \notin registered
  /\ life[o] < MaxLives
  /\ registered' = registered \cup {o}
  /\ life' = [life EXCEPT ![o] = @ + 1]
  /\ pubRegion' = [pubRegion EXCEPT ![o] = None]
  /\ deleted' = [deleted EXCEPT ![o] = FALSE]
  /\ UNCHANGED <<dispatcherFrame, prevInside, tasks, results, head, thread>>

(* dispatchPosition and dispatchRemove; a free mailbox was last routed to  *)
(* pubRegion.  The number of the command is not used here.                 *)
TaskFor(kind, o, p, r) ==
  [kind |-> kind, obj |-> o, op |-> 0, pt |-> p, region |-> r,
   old |-> IF kind = "remove" THEN None ELSE pubRegion[o]]

(* onPosition and onRemove: ctl.deleted is read without pubMu.             *)
Dispatch(o) ==
  /\ thread["dispatcher"] = Idle
  /\ o \in registered /\ ~deleted[o]
  /\ head[o] = None
  /\ \/ \E p \in Points :
          LET r == Resolve[<<p, pubRegion[o]>>]
          IN /\ r # None
             /\ head' = [head EXCEPT ![o] = "update"]
             /\ tasks' = tasks \cup
                  {TaskFor(IF pubRegion[o] = None THEN "init"
                           ELSE IF r = pubRegion[o] THEN "update" ELSE "transition", o, p, r)}
     \/ /\ pubRegion[o] # None
        /\ head' = [head EXCEPT ![o] = "remove"]
        /\ tasks' = tasks \cup {TaskFor("remove", o, None, pubRegion[o])}
  /\ UNCHANGED <<dispatcherFrame, prevInside, registered, pubRegion, deleted, results, life, thread>>

(* submitRemoveWithoutPosition, once its commit is confirmed.              *)
RemoveUnplaced(o) ==
  /\ thread["dispatcher"] = Idle
  /\ o \in registered
  /\ head[o] = None
  /\ pubRegion[o] = None
  /\ registered' = registered \ {o}
  /\ UNCHANGED <<dispatcherFrame, prevInside, pubRegion, deleted, tasks, results, head, life, thread>>

(* onResult, and later onCommitResult: the commit of the result is         *)
(* confirmed, which takes no lock.  A refused task frees the mailbox.      *)
TakeResult(res) ==
  /\ thread["dispatcher"] = Idle
  /\ res \in results
  /\ results' = results \ {res}
  /\ IF res.ready
     THEN /\ Starts("dispatcher", res,
               SnapshotProgram(IF head[res.obj] = "remove" THEN res.old ELSE res.region))
          /\ UNCHANGED head
     ELSE /\ head' = [head EXCEPT ![res.obj] = None]
          /\ UNCHANGED thread
  /\ UNCHANGED <<dispatcherFrame, prevInside, registered, pubRegion, deleted, tasks, life>>

(* setPrevInside or, after a removal, deletePrevInside.                    *)
WriteSnapshot ==
  LET t == "dispatcher"
      res == thread[t].job
  IN /\ CanStep(t)
     /\ Upcoming(t).do = "snapshot"
     /\ prevInside' = [prevInside EXCEPT ![Upcoming(t).on][res.obj] = res.inside]
     /\ Goes(t)
     /\ UNCHANGED <<dispatcherFrame, registered, pubRegion, deleted, tasks, results, head, life>>

(* The mailbox is free again; after a removal the ObjCtl leaves the map.   *)
Confirm ==
  LET t == "dispatcher"
      o == thread[t].job.obj
  IN /\ CanStep(t)
     /\ Upcoming(t).do = "confirm"
     /\ registered' = IF head[o] = "remove" THEN registered \ {o} ELSE registered
     /\ head' = [head EXCEPT ![o] = None]
     /\ Ends(t)
     /\ UNCHANGED <<dispatcherFrame, prevInside, pubRegion, deleted, tasks, results, life>>

---------------------------------------------------------------------------
(* The workers and the transition goroutine.                               *)
ServedBy(t) == IF t.kind = "transition" THEN "transition" ELSE t.region

(* Run takes a task.  processUpdate reads ctl.deleted before any lock.     *)
TakeTask(t) ==
  /\ t \in tasks
  /\ thread[ServedBy(t)] = Idle
  /\ tasks' = tasks \ {t}
  /\ IF t.obj \notin registered \/ (t.kind = "update" /\ deleted[t.obj])
     THEN thread' = [thread EXCEPT ![ServedBy(t)] =
            [Idle EXCEPT !.job = t, !.run = <<Send>>,
               !.got = IF t.kind = "remove" THEN Result(t, None, None, {}, <<>>)
                       ELSE Rejection(t)]]
     ELSE Starts(ServedBy(t), t, TaskProgram(t))
  /\ UNCHANGED <<tree, areaTree, prevInside, registered, pubRegion, deleted, results,
                 sweep, areaOps, head, life, lock>>

(* processUpdate under the read lock.                                      *)
CheckRegion(w) ==
  LET t == thread[w].job
      c == Upcoming(w).on
  IN /\ CanStep(w)
     /\ Upcoming(w).do = "check"
     /\ IF pubRegion[t.obj] = t.region
        THEN GoesTo(w, UpdateProgram(c, t.region))
        ELSE thread' = [thread EXCEPT ![w].run = <<RUnlock(c), Send>>,
                                      ![w].got = Rejection(t)]
     /\ UNCHANGED <<engineVars, head, life, lock>>

(* Upsert in one tree or delete from one.                                  *)
WriteTree(w) ==
  LET t == thread[w].job
      r == Upcoming(w).on
  IN /\ CanStep(w)
     /\ Upcoming(w).do \in {"enter", "leave"}
     /\ tree' = [tree EXCEPT ![r][t.obj] = IF Upcoming(w).do = "enter" THEN t.pt ELSE None]
     /\ thread' = [thread EXCEPT ![w].run = Tail(@),
                     ![w].before = IF @ = None THEN [x \in Regions |-> tree[x][t.obj]] ELSE @]
     /\ UNCHANGED <<areaTree, prevInside, registered, pubRegion, deleted, tasks, results,
                    sweep, areaOps, head, life, lock>>

(* The geofence comparison and, but for an update, the fields of ObjCtl:   *)
(* the last step under the locks.                                          *)
Publish(w) ==
  LET t == thread[w].job
      o == t.obj
      Got(res) == thread' = [thread EXCEPT ![w].run = Tail(@), ![w].got = res, ![w].before = None]
  IN /\ CanStep(w)
     /\ Upcoming(w).do = "publish"
     /\ \/ /\ t.kind \in {"init", "update"}
           /\ \E trans \in Changes(t.region, o, t.pt) :
                Got(Result(t, None, t.pt, Inside(t.region, t.pt), trans))
        \/ /\ t.kind = "transition"
           /\ \E exits \in Exits(t.old, o), trans \in Changes(t.region, o, t.pt) :
                Got(Result(t, t.old, t.pt, Inside(t.region, t.pt), exits \o trans))
        \/ /\ t.kind = "remove"
           /\ \E exits \in Exits(t.region, o) :
                Got(Result(t, t.region, thread[w].before[t.region], {}, exits))
     /\ pubRegion' = [pubRegion EXCEPT ![o] = IF t.kind = "remove" THEN None ELSE t.region]
     /\ deleted' = [deleted EXCEPT ![o] = t.kind = "remove"]
     /\ UNCHANGED <<tree, areaTree, prevInside, registered, tasks, results, sweep, areaOps,
                    head, life, lock>>

SendResult(w) ==
  /\ CanStep(w)
  /\ Upcoming(w).do = "send"
  /\ results' = results \cup {thread[w].got}
  /\ Ends(w)
  /\ UNCHANGED <<tree, areaTree, prevInside, registered, pubRegion, deleted, tasks, sweep,
                 areaOps, head, life, lock>>

---------------------------------------------------------------------------
(* The goroutine that follows the areas bucket.                            *)
watcherFrame == <<tree, registered, pubRegion, deleted, tasks, results, head, life, lock>>

ChangeArea(a) ==
  /\ thread["watcher"] = Idle
  /\ areaOps < MaxAreaOps
  /\ \/ /\ \E r \in Regions :
             Starts("watcher", [area |-> a, region |-> r], RegisterAreaProgram(r))
        /\ UNCHANGED <<sweep, areaOps>>
     \/ /\ \E s \in SetToSeqs(Regions) :
             Starts("watcher", [area |-> a, region |-> None],
               InTurn([i \in DOMAIN s |-> RemoveAreaProgram(s[i])]))
        /\ sweep' = [area |-> a, left |-> Regions]
        /\ areaOps' = areaOps + 1
  /\ UNCHANGED <<watcherFrame, areaTree, prevInside>>

(* One write to a region.                                                  *)
WriteArea ==
  LET t == "watcher"
      a == thread[t].job.area
      r == Upcoming(t).on
      present == a \in areaTree[r]
  IN /\ CanStep(t)
     /\ \/ /\ Upcoming(t).do = "addArea"
           /\ areaTree' = [areaTree EXCEPT ![r] = @ \cup {a}]
           /\ areaOps' = areaOps + 1
           /\ Goes(t)
           /\ UNCHANGED <<prevInside, sweep>>
        \/ /\ Upcoming(t).do = "purge"
           /\ prevInside' = IF present THEN [prevInside EXCEPT ![r] = Purged(r, a)] ELSE prevInside
           /\ thread' = [thread EXCEPT ![t].run = Tail(@), ![t].before = prevInside[r]]
           /\ UNCHANGED <<areaTree, sweep, areaOps>>
        \/ /\ Upcoming(t).do = "dropArea"
           /\ areaTree' = IF present THEN [areaTree EXCEPT ![r] = @ \ {a}] ELSE areaTree
           /\ sweep' = AfterRegion(r)
           /\ thread' = [thread EXCEPT ![t].run = Tail(@), ![t].before = None]
           /\ UNCHANGED <<prevInside, areaOps>>
     /\ UNCHANGED watcherFrame

---------------------------------------------------------------------------
(* Queries.  lookupCtl is the first step of a query about an object.       *)
ProgramOf(c) ==
  CASE c.kind \in {"object", "regionOf"} ->
         IF c.of \notin registered THEN {<<Reply>>}
         ELSE {<<RLock(Ctl(c.of, life[c.of])), Do("locate", Ctl(c.of, life[c.of]))>>}
    [] c.kind = "region" -> {RegionProgram(c.of)}
    [] c.kind = "all" -> {AllProgram}
    [] c.kind = "area" -> {AreaProgram(s) : s \in SetToSeqs(Regions)}

QueryCalled(q) ==
  /\ thread[q] = Idle
  /\ \E c \in {x \in Call : x.kind \in Kinds} : \E program \in ProgramOf(c) :
       thread' = [thread EXCEPT ![q] =
         [ job |-> [call |-> c, ctl |-> IF c.kind \in {"object", "regionOf"} THEN life[c.of] ELSE 0],
           run |-> program, got |-> IF c.kind = "area" THEN None ELSE NotFound,
           before |-> None ]]
  /\ UNCHANGED <<engineVars, head, life, lock>>

(* The ObjCtl under pubMu: one that has left the map is deleted, or never  *)
(* had a region.                                                           *)
Locate(q) ==
  LET c == thread[q].job.call
      ctl == Upcoming(q).on
      r == pubRegion[c.of]
  IN /\ CanStep(q)
     /\ Upcoming(q).do = "locate"
     /\ IF thread[q].job.ctl # life[c.of] \/ deleted[c.of] \/ r = None
        THEN GoesTo(q, NotFoundProgram(ctl))
        ELSE IF c.kind = "object" THEN GoesTo(q, LocatedProgram(ctl, r))
        ELSE thread' = [thread EXCEPT ![q].run = NotFoundProgram(ctl),
                                      ![q].got = [NotFound EXCEPT !.at = r]]
     /\ UNCHANGED <<engineVars, head, life, lock>>

(* An answer "not in R-tree" is the model's "missing".                     *)
ReadRegion(q) ==
  LET c == thread[q].job.call
      x == Upcoming(q).on
  IN /\ CanStep(q)
     /\ \/ /\ Upcoming(q).do = "get"
           /\ GoesWith(q, IF tree[x][c.of] = None THEN [NotFound EXCEPT !.at = "missing"]
                          ELSE Shown(x, tree))
        \/ /\ Upcoming(q).do = "scan"
           /\ GoesWith(q, [r \in x |-> Shown(r, tree)])
        \/ /\ Upcoming(q).do = "look"
           /\ IF c.of \in areaTree[x]
              THEN thread' = [thread EXCEPT ![q].run = <<RUnlock(Region(x)), Reply>>,
                                            ![q].got = x]
              ELSE Goes(q)
     /\ UNCHANGED <<engineVars, head, life, lock>>

QueryReplied(q) ==
  /\ CanStep(q)
  /\ Upcoming(q).do = "reply"
  /\ Ends(q)
  /\ UNCHANGED <<engineVars, head, life, lock>>

---------------------------------------------------------------------------
(* What is true at a moment.  A worker's writes count from its last one,   *)
(* so the view has the object where it was until then; the same for the    *)
(* snapshots while an area is being removed from a region.                 *)
Writer(o) == {w \in Workers : thread[w].before # None /\ thread[w].job.obj = o}

ViewTree ==
  [r \in Regions |-> [o \in Objects |->
     IF Writer(o) # {} THEN thread[CHOOSE w \in Writer(o) : TRUE].before[r] ELSE tree[r][o]]]

ViewInside ==
  [r \in Regions |->
     IF thread["watcher"].before # None /\ Upcoming("watcher").on = r
     THEN thread["watcher"].before ELSE prevInside[r]]

Working == {w \in Workers : thread[w].job # None}
ViewTasks == tasks \cup {thread[w].job : w \in {v \in Working : thread[v].got = None}}
ViewResults == results \cup {thread[w].got : w \in {v \in Working : thread[v].got # None}}

LocksNext ==
  \/ \E t \in Threads : LockStep(t)
  \/ \E o \in Objects : Register(o) \/ Dispatch(o) \/ RemoveUnplaced(o)
  \/ \E res \in results : TakeResult(res)
  \/ WriteSnapshot
  \/ Confirm
  \/ \E t \in tasks : TakeTask(t)
  \/ \E w \in Workers : CheckRegion(w) \/ WriteTree(w) \/ Publish(w) \/ SendResult(w)
  \/ \E a \in Areas : ChangeArea(a)
  \/ WriteArea
  \/ \E q \in Queries : QueryCalled(q) \/ Locate(q) \/ ReadRegion(q) \/ QueryReplied(q)

LocksSpec == LocksInit /\ [][LocksNext]_lockVars

---------------------------------------------------------------------------
(* No set of goroutines waits only for one another, whichever locks they   *)
(* hold: pubMu before mu, the regions in the order of their names          *)
(* (transition.go, queries.go), also when a writer that waits holds back   *)
(* the readers behind it.                                                  *)
Waiting == {t \in Threads : WaitsFor(t) # {}}

NoCyclicWait ==
  ~ \E S \in (SUBSET Waiting) \ {{}} : \A t \in S : WaitsFor(t) \cap S # {}

(* What a thread's next step writes and reads: field f of the region or    *)
(* object k.  "pub" is hasPubRegion and pubRegion of an ObjCtl.            *)
SharedFields == {"tree", "inside", "areas", "pub", "deleted"}

Writes(t, f, k) ==
  LET s == Upcoming(t)
      job == thread[t].job
  IN  \/ f = "tree" /\ s.do \in {"enter", "leave"} /\ s.on = k
      \/ f = "inside" /\ s.do \in {"snapshot", "purge"} /\ s.on = k
      \/ f = "areas" /\ s.do \in {"addArea", "dropArea"} /\ s.on = k
      \/ f = "pub" /\ s.do = "publish" /\ job.kind # "update" /\ job.obj = k
      \/ f = "deleted" /\ s.do = "publish" /\ job.kind = "remove" /\ job.obj = k

Reads(t, f, k) ==
  LET s == Upcoming(t)
      job == thread[t].job
  IN  \/ f \in {"tree", "areas"} /\ s.do \in {"get", "look"} /\ s.on = k
      \/ f \in {"tree", "areas"} /\ s.do = "scan" /\ k \in s.on
      \/ f \in {"inside", "areas"} /\ s.do = "publish" /\ s.on = k
      \/ f = "inside" /\ s.do = "publish" /\ job.kind = "transition" /\ job.old = k
      \/ f = "areas" /\ s.do = "purge" /\ s.on = k
      \/ f = "pub" /\ s.do \in {"check", "publish"} /\ job.obj = k
      \/ f \in {"pub", "deleted"} /\ s.do = "locate" /\ job.call.of = k /\ job.ctl = life[k]

(* What an idle goroutine reads of ObjCtl without pubMu when it takes its  *)
(* next message: onRegister, onPosition and onRemove of the dispatcher for *)
(* an object in the map, processUpdate of a worker.                        *)
ReadsUnlocked(t, f, k) ==
  /\ f = "deleted" /\ thread[t] = Idle
  /\ \/ t = "dispatcher" /\ k \in registered
     \/ \E x \in tasks : ServedBy(x) = t /\ x.kind = "update" /\ x.obj = k

(* The maps and trees are not safe for concurrent use, and ObjCtl is       *)
(* shared: what a goroutine is about to write no other is about to write   *)
(* or read (the locks of worker.go, transition.go, engine.go, queries.go   *)
(* and dispatcher.go), with one exception, which is a data race: the       *)
(* dispatcher reads ctl.deleted without pubMu (dispatcher.go:109,129,143)  *)
(* while a worker sets it (worker.go:171).  The unlocked read of           *)
(* processUpdate (worker.go:82) is none, for an object has one command.    *)
OnlyTheFlagRaces ==
  LET ready == {t \in Threads : CanStep(t)}
  IN  \A t \in ready, f \in SharedFields, k \in Regions \cup Objects :
        Writes(t, f, k) =>
          \A u \in Threads \ {t} :
            /\ u \in ready => ~Writes(u, f, k) /\ ~Reads(u, f, k)
            /\ ReadsUnlocked(u, f, k) => u = "dispatcher"

(* Under its locks every task is the one step it is in Engine, and so is   *)
(* each region of RemoveArea; the dispatcher's own steps leave trees and   *)
(* areas alone.                                                            *)
Atomic == INSTANCE Engine WITH
            tree <- ViewTree, prevInside <- ViewInside, tasks <- ViewTasks, results <- ViewResults

ByDispatcher ==
  /\ UNCHANGED <<ViewTree, areaTree, sweep, areaOps>>
  /\ \/ (* registers, or removes after the commit *)
        registered' # registered /\ UNCHANGED <<ViewInside, ViewTasks>>
     \/ (* dispatches *)
        ViewTasks' # ViewTasks /\ UNCHANGED <<ViewInside, registered, pubRegion, deleted, ViewResults>>
     \/ (* takes a result, writes a snapshot *)
        UNCHANGED <<registered, pubRegion, deleted, ViewTasks>>

TasksAreAtomic == [][Atomic!EngineNext \/ ByDispatcher]_(Atomic!engineVars)
=============================================================================
