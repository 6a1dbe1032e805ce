------------------------------ MODULE Compaction ------------------------------
(***************************************************************************)
(* The compaction of GT_EVENTS (pkg/geotruthops/ops.go) by an operator,    *)
(* next to a service that commits, ends and boots again.                   *)
(*                                                                         *)
(* GT_EVENTS is one log here: compaction works with stream sequences.      *)
(* gone are the sequences deleted from it.  The service is what module     *)
(* GeoTruth says of it, in brief: a commit of an object, then its          *)
(* projections in order, then its next commit.  Boot takes the messages of *)
(* its recovery consumer one by one.                                       *)
(*                                                                         *)
(* A scan fetches the sequences up to the last one at its start.  What it  *)
(* finds does not depend on when it fetches them: messages do not change,  *)
(* and there is one compaction at a time.  So it is one step.              *)
(***************************************************************************)
EXTENDS GtEvents

CONSTANTS
  QuietBoot, \* TRUE: no boot while messages are deleted
  MaxLog,    \* bound of the model: messages in GT_EVENTS
  MaxStops,  \* bound of the model: ends of the service's process
  MaxPlans,  \* bound of the model: plans made
  MaxMisses  \* bound of the model: scans in which a fetch fails

ASSUME CompactionAssumption ==
  /\ IsFiniteSet(Objects)
  /\ QuietBoot \in BOOLEAN
  /\ None \notin CommitEvent
  /\ MaxLog \in Nat /\ MaxStops \in Nat /\ MaxPlans \in Nat /\ MaxMisses \in Nat

VARIABLES
  log,      \* Seq(Event \cup {Booted}): all that was ever stored
  gone,     \* the sequences deleted since
  service,  \* "down", "recovering", "repairing", "up"
  live,     \* [Objects -> CommitEvent \cup {None}]: the last commit the process knows
  owed,     \* [Objects -> Seq(ProjectionEvent)]: projections not yet published
  pending,  \* sequences the recovery consumer has still to deliver
  instances,
  plan,     \* sequences to delete, in order
  compactor, \* "idle", "planned", "deleting"
  stops, plans, misses

serviceVars == <<log, service, live, owed, pending, instances, stops>>
compactionVars == <<gone, plan, compactor, plans, misses>>
vars == <<serviceVars, compactionVars>>

(* The boot marker, the one message that belongs to no object.             *)
Booted == [type |-> "booted"]

CompactionTypeOK ==
  /\ log \in Seq(Event \cup {Booted})
  /\ gone \subseteq DOMAIN log
  /\ service \in {"down", "recovering", "repairing", "up"}
  /\ live \in [Objects -> CommitEvent \cup {None}]
  /\ owed \in [Objects -> Seq(ProjectionEvent)]
  /\ pending \in Seq(DOMAIN log) /\ plan \in Seq(DOMAIN log)
  /\ compactor \in {"idle", "planned", "deleting"}
  /\ \A n \in {instances, stops, plans, misses} : n \in Nat
  /\ service = "up" => \A o \in Objects : live[o] # None => live[o].type # "removed"

Init ==
  /\ log = <<>> /\ gone = {} /\ service = "down"
  /\ live = [o \in Objects |-> None]
  /\ owed = [o \in Objects |-> <<>>]
  /\ pending = <<>> /\ plan = <<>> /\ compactor = "idle"
  /\ instances = 0 /\ stops = 0 /\ plans = 0 /\ misses = 0

---------------------------------------------------------------------------
(* Readings of the log.  seqs is a set of sequences: all, or the retained. *)
Retained == DOMAIN log \ gone

CommitsIn(seqs, o) == {s \in seqs : IsCommit(log[s]) /\ log[s].obj = o}

ProjectionsIn(seqs, o) ==
  {s \in seqs : log[s].type \in ProjectionTypes /\ log[s].obj = o}

Active(c) == c # None /\ c.type # "removed"

LatestIn(seqs, o) ==
  IF CommitsIn(seqs, o) = {} THEN None ELSE log[Max(CommitsIn(seqs, o))]

(* What a boot that reads these sequences rebuilds of the object.          *)
Recovers(seqs, o) == IF Active(LatestIn(seqs, o)) THEN LatestIn(seqs, o) ELSE None

(* The elements of a finite set as a sequence; before is a set of pairs.   *)
InOrder(S, before) ==
  [k \in 1..Cardinality(S) |->
     CHOOSE s \in S : Cardinality({n \in S : <<n, s>> \in before}) = k - 1]

Ascending(S) == InOrder(S, {p \in S \X S : p[1] < p[2]})

---------------------------------------------------------------------------
(* The service.                                                            *)
BootEpoch == Max({0} \cup {s \in DOMAIN log : log[s] = Booted})

Registration(o) ==
  [ type |-> "registered", obj |-> o, inst |-> <<BootEpoch, instances + 1>>, seq |-> 1,
    op |-> Len(log) + 1, region |-> None, pt |-> None, inside |-> {}, trans |-> <<>> ]

(* Every order in which areas may be entered, then left.                   *)
Changes(before, after) ==
  { t[1] \o t[2] :
      t \in Transitions(after \ before, TRUE) \X Transitions(before \ after, FALSE) }

NextCommits(o) ==
  LET c == live[o]
      Continued(type, r, p, inside) ==
        { [ type |-> type, obj |-> o, inst |-> c.inst, seq |-> c.seq + 1, op |-> Len(log) + 1,
            region |-> r, pt |-> p, inside |-> inside, trans |-> t ] :
          t \in Changes(c.inside, inside) }
  IN  (UNION {Continued("position", Resolve[<<p, c.region>>], p, Cover[p]) : p \in Points})
      \cup Continued("removed", None, None, {})

(* A command of the object is committed: none of its projections is owed.  *)
Commit(o) ==
  /\ service = "up"
  /\ owed[o] = <<>>
  /\ Len(log) < MaxLog
  /\ \E c \in IF live[o] = None THEN {Registration(o)} ELSE NextCommits(o) :
       /\ log' = Append(log, c)
       /\ live' = [live EXCEPT ![o] = IF Active(c) THEN c ELSE None]
       /\ owed' = [owed EXCEPT ![o] = Projections(c)]
  /\ instances' = IF live[o] = None THEN instances + 1 ELSE instances
  /\ UNCHANGED <<service, pending, stops, compactionVars>>

(* The next projection, of the publisher or of the repair.                 *)
Project(o) ==
  /\ service \in {"up", "repairing"}
  /\ owed[o] # <<>>
  /\ log' = Append(log, Head(owed[o]))
  /\ owed' = [owed EXCEPT ![o] = Tail(@)]
  /\ UNCHANGED <<service, live, pending, instances, stops, compactionVars>>

(* The process ends and its memory is lost.                                *)
Stop ==
  /\ service # "down"
  /\ stops < MaxStops
  /\ stops' = stops + 1
  /\ service' = "down"
  /\ live' = [o \in Objects |-> None]
  /\ owed' = [o \in Objects |-> <<>>]
  /\ pending' = <<>> /\ instances' = 0
  /\ UNCHANGED <<log, compactionVars>>

(* RecoverObjectCommits creates its consumer: the last retained message of *)
(* every commit subject, in stream order.                                  *)
LastPerSubject ==
  { s \in Retained : /\ IsCommit(log[s])
                     /\ \A n \in Retained :
                          n > s /\ IsCommit(log[n]) =>
                            <<log[n].obj, Subject(log[n])>> # <<log[s].obj, Subject(log[s])>> }

StartBoot ==
  /\ service = "down"
  /\ QuietBoot => compactor # "deleting"
  /\ service' = "recovering"
  /\ pending' = Ascending(LastPerSubject)
  /\ UNCHANGED <<log, live, owed, instances, stops, compactionVars>>

(* Faulty variant: the first message of an object is kept.                 *)
RecoveredFirst(s) ==
  IF s \in gone \/ live[log[s].obj] # None THEN live ELSE [live EXCEPT ![log[s].obj] = log[s]]

(* Messages arrive in stream order, so a later one replaces an earlier one *)
(* of the object; one that has been deleted since is not delivered.        *)
RecoveredWith(s) == IF s \in gone THEN live ELSE [live EXCEPT ![log[s].obj] = log[s]]

Deliver ==
  /\ service = "recovering"
  /\ pending # <<>>
  /\ pending' = Tail(pending)
  /\ live' = RecoveredWith(Head(pending))
  /\ UNCHANGED <<log, service, owed, instances, stops, compactionVars>>

(* RepairLatestProjections: the projections of the recovered commits, the  *)
(* removed objects included, that a scan of the stream does not find.      *)
Lost(o) ==
  LET expected == ExpectedProjections(live[o])
      places == Ascending({i \in DOMAIN expected :
                  \A s \in ProjectionsIn(Retained, o) : EventID(log[s]) # EventID(expected[i])})
  IN  [k \in DOMAIN places |-> expected[places[k]]]

StartRepair ==
  /\ service = "recovering"
  /\ pending = <<>>
  /\ service' = "repairing"
  /\ owed' = [o \in Objects |-> IF live[o] = None THEN <<>> ELSE Lost(o)]
  /\ UNCHANGED <<log, live, pending, instances, stops, compactionVars>>

Rebuilt == [o \in Objects |-> IF Active(live[o]) THEN live[o] ELSE None]

(* Only active objects are rebuilt; the marker reserves the boot epoch.    *)
FinishBoot ==
  /\ service = "repairing"
  /\ \A o \in Objects : owed[o] = <<>>
  /\ service' = "up"
  /\ live' = Rebuilt
  /\ log' = Append(log, Booted)
  /\ UNCHANGED <<owed, pending, instances, stops, compactionVars>>

ServiceNext ==
  \/ \E o \in Objects : Commit(o) \/ Project(o)
  \/ Stop
  \/ StartBoot
  \/ Deliver
  \/ StartRepair
  \/ FinishBoot

---------------------------------------------------------------------------
(* PlanCompaction over the records of a scan.                              *)
ProtectedIDs(seqs, o) ==
  LET c == LatestIn(seqs, o)
  IN  IF Active(c) THEN {EventID(e) : e \in ToSet(ExpectedProjections(c))} ELSE {}

(* Faulty variant: the geofence events of the latest commit are not spared. *)
DeletableProjectionsAll(seqs, o) == ProjectionsIn(seqs, o)

DeletableProjections(seqs, o) ==
  {s \in ProjectionsIn(seqs, o) : EventID(log[s]) \notin ProtectedIDs(seqs, o)}

(* The latest commit of an active object is kept, and that of a removed    *)
(* one unless the option IncludeRemovedTombstones is given.                *)
DeletableCommits(seqs, o, tombstones) ==
  {s \in CommitsIn(seqs, o) :
     log[s] = LatestIn(seqs, o) => ~Active(log[s]) /\ tombstones}

(* Faulty variant: the latest messages first.                              *)
DescendingByObject(seqs, order) ==
  InOrder(seqs, {p \in seqs \X seqs :
                   IF log[p[1]].obj = log[p[2]].obj THEN p[1] > p[2]
                   ELSE order[log[p[1]].obj] < order[log[p[2]].obj]})

(* One object after the other, each object's messages in stream order.     *)
AscendingByObject(seqs, order) ==
  InOrder(seqs, {p \in seqs \X seqs :
                   IF log[p[1]].obj = log[p[2]].obj THEN p[1] < p[2]
                   ELSE order[log[p[1]].obj] < order[log[p[2]].obj]})

(* The commits if the option IncludePublicGTEvents is given, then the      *)
(* projections: the code ranges over two maps of objects.                  *)
Plans(seqs, public, tombstones) ==
  LET commits == UNION {DeletableCommits(seqs, o, tombstones) : o \in Objects}
      projections == UNION {DeletableProjections(seqs, o) : o \in Objects}
      Orders == Injection(Objects, 1..Cardinality(Objects))
  IN  { (IF public THEN AscendingByObject(commits, order[1]) ELSE <<>>) \o
          AscendingByObject(projections, order[2]) : order \in Orders \X Orders }

(* scanGTEvents skips a sequence that it cannot fetch: a deleted one, or   *)
(* one whose fetch fails.                                                  *)
Scans == {Retained} \cup IF misses < MaxMisses THEN {Retained \ {s} : s \in Retained} ELSE {}

Missed(seqs) == misses' = IF seqs = Retained THEN misses ELSE misses + 1

Plan ==
  /\ compactor = "idle"
  /\ plans < MaxPlans
  /\ plans' = plans + 1
  /\ \E seqs \in Scans :
       /\ Missed(seqs)
       /\ \E public, tombstones \in BOOLEAN : plan' \in Plans(seqs, public, tombstones)
  /\ compactor' = "planned"
  /\ UNCHANGED <<gone, serviceVars>>

(* validatePlan makes a new plan with every option.                        *)
Allowed(seqs) ==
  UNION {DeletableCommits(seqs, o, TRUE) \cup DeletableProjections(seqs, o) : o \in Objects}

(* Compact, up to the first deletion: a plan that is no longer allowed is  *)
(* refused, however old it is otherwise.                                   *)
Validate ==
  /\ compactor = "planned"
  /\ QuietBoot => service \notin {"recovering", "repairing"}
  /\ \E seqs \in Scans :
       /\ Missed(seqs)
       /\ IF ToSet(plan) \subseteq Allowed(seqs)
          THEN compactor' = "deleting" /\ UNCHANGED plan
          ELSE compactor' = "idle" /\ plan' = <<>>
  /\ UNCHANGED <<gone, plans, serviceVars>>

DeleteMsg ==
  /\ compactor = "deleting"
  /\ plan # <<>>
  /\ gone' = gone \cup {Head(plan)}
  /\ plan' = Tail(plan)
  /\ UNCHANGED <<compactor, plans, misses, serviceVars>>

(* Compact returns: all is deleted, or a fetch, the export or a deletion   *)
(* has failed, or the operator has given the plan up.                      *)
EndCompaction ==
  /\ compactor # "idle"
  /\ compactor' = "idle"
  /\ plan' = <<>>
  /\ UNCHANGED <<gone, plans, misses, serviceVars>>

CompactionNext ==
  \/ Plan
  \/ Validate
  \/ DeleteMsg
  \/ EndCompaction

Next == ServiceNext \/ CompactionNext

Spec == Init /\ [][Next]_vars
---------------------------------------------------------------------------
(* Whatever has been deleted, and wherever a compaction was interrupted, a *)
(* boot rebuilds what it would from the whole log: no active object is     *)
(* lost or set back, no removed object returns (ops.go: "no surviving      *)
(* older commit remains to resurrect on the next boot").                   *)
RecoveryUnaffected ==
  \A o \in Objects : Recovers(Retained, o) = Recovers(DOMAIN log, o)

(* The service never holds an object that the log says is removed, or an   *)
(* older state of it.                                                      *)
LiveIsLatest ==
  service = "up" => \A o \in Objects : live[o] = Recovers(DOMAIN log, o)

(* Deleting what was published does not make the repair of a later boot    *)
(* publish it again, but for the events of a removal whose tombstone is    *)
(* kept: a plan deletes those in any case.                                 *)
PublishedOnce ==
  \A s, n \in DOMAIN log :
    /\ s < n /\ log[s] # Booted /\ log[n] # Booted /\ EventID(log[s]) = EventID(log[n])
    => /\ ~IsCommit(log[s])
       /\ ~Active(LatestIn(1..(n - 1), log[s].obj))

(* All that was ever stored keeps the promise of ObjectHistory: after a    *)
(* compaction and a boot every object continues where it stopped, and a    *)
(* forgotten one starts with a fresh instance.                             *)
CommitsOf(o) ==
  LET places == Ascending(CommitsIn(DOMAIN log, o))
  IN  [k \in DOMAIN places |-> log[places[k]]]

History == INSTANCE ObjectHistory WITH history <- [o \in Objects |-> CommitsOf(o)]

ImplementsHistory == History!Spec
=============================================================================
