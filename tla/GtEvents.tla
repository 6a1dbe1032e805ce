------------------------------ MODULE GtEvents ------------------------------
(***************************************************************************)
(* The data that GeoTruth writes to the GT_EVENTS stream and the envelopes *)
(* that carry it (internal/gtevents).  Constant level: no state here.      *)
(*                                                                         *)
(* A position is a point of a finite set.  What the service computes from  *)
(* a position is given by two constant functions: Cover[p], the areas      *)
(* whose polygon the object's box touches at p, and Resolve[<<p, r>>], the *)
(* region the resolver answers for p when the object was last routed to r  *)
(* (None: never routed, or the resolver refuses).  Dimensions, rotation,   *)
(* times and the encoding of the events are left out.                      *)
(***************************************************************************)
EXTENDS Integers, Sequences, FiniteSets, SequencesExt

CONSTANTS
  Objects,  \* object IDs
  Areas,    \* area IDs
  Regions,  \* KnownRegions() of the resolver: one worker each
  Points,   \* positions a client may send
  Cover,    \* [Points -> SUBSET Areas]
  Resolve,  \* [Points \X (Regions \cup {None}) -> Regions \cup {None}]
  None      \* the absent region, point, command or envelope

ASSUME DataAssumption ==
  /\ IsFiniteSet(Areas)
  /\ Cover \in [Points -> SUBSET Areas]
  /\ Resolve \in [Points \X (Regions \cup {None}) -> Regions \cup {None}]
  /\ None \notin Regions \cup Points \cup Areas

RegionOrNone == Regions \cup {None}
PointOrNone == Points \cup {None}

(* An incarnation of an object: the boot epoch and a counter of that boot. *)
InstanceID == Nat \X Nat

---------------------------------------------------------------------------
(* Geofence transitions found by the engine, in the order they are sent.   *)
Transition == [area : Areas, entered : BOOLEAN]

(* Go ranges over a map in any order: every order of the areas is possible. *)
Transitions(areas, entered) ==
  { [i \in DOMAIN s |-> [area |-> s[i], entered |-> entered]] : s \in SetToSeqs(areas) }

---------------------------------------------------------------------------
(* Events.  A commit event is the durable checkpoint of one object command; *)
(* the projections are the geofence events derived from it.                *)
CommitTypes == {"registered", "position", "removed"}
ProjectionTypes == {"entered", "exited"}

CommitEvent ==
  [ type : CommitTypes, obj : Objects, inst : InstanceID, seq : Nat, op : Nat,
    region : RegionOrNone, pt : PointOrNone, inside : SUBSET Areas, trans : Seq(Transition) ]

ProjectionEvent ==
  [ type : ProjectionTypes, obj : Objects, inst : InstanceID, seq : Nat, op : Nat,
    region : RegionOrNone, pt : PointOrNone, inside : SUBSET Areas, area : Areas ]

Event == CommitEvent \cup ProjectionEvent

IsCommit(e) == e.type \in CommitTypes

(* The deterministic identifier in the payload: what consumers and the     *)
(* publisher's verification compare.                                       *)
EventID(e) ==
  <<e.type, e.obj, e.inst, e.seq, IF IsCommit(e) THEN None ELSE e.area>>

(* The subject of an event within its object: there is one per kind of     *)
(* commit and one per area and direction.                                  *)
Subject(e) == <<e.type, IF IsCommit(e) THEN None ELSE e.area>>

(* One projection per transition, in order, carrying the commit's state.   *)
Projections(c) ==
  [ i \in 1..Len(c.trans) |->
      [ type |-> IF c.trans[i].entered THEN "entered" ELSE "exited",
        obj |-> c.obj, inst |-> c.inst, seq |-> c.seq, op |-> c.op,
        region |-> c.region, pt |-> c.pt, inside |-> c.inside,
        area |-> c.trans[i].area ] ]

(* The compact checkpoint embedded in a commit event: everything recovery  *)
(* and the projections need, except the client's operation ID.             *)
Checkpoint(c) == [c EXCEPT !.op = 0]

(* The projections that a restart derives from a commit.                   *)
ExpectedProjections(c) == Projections(Checkpoint(c))

---------------------------------------------------------------------------
(* The deferred write of prevInside that travels with an envelope.         *)
Mutation ==
  [ kind : {"noop", "set", "move", "delete"},
    old : RegionOrNone, new : RegionOrNone, inside : SUBSET Areas ]

NoMutation == [kind |-> "noop", old |-> None, new |-> None, inside |-> {}]

Envelope == [commit : CommitEvent, projections : Seq(ProjectionEvent), mutation : Mutation]

NewEnvelope(commit, mutation) ==
  [commit |-> commit, projections |-> Projections(commit), mutation |-> mutation]

CommitResult ==
  [obj : Objects, inst : InstanceID, seq : Nat, op : Nat, failed : BOOLEAN]

---------------------------------------------------------------------------
(* Readings of an object's part of the stream, used by the properties.     *)

(* The commit at position i is the commit before it, stored again.         *)
Repeats(log, i) ==
  \E j \in 1..(i - 1) :
    /\ IsCommit(log[j])
    /\ EventID(log[j]) = EventID(log[i])
    /\ \A k \in (j + 1)..(i - 1) : IsCommit(log[k]) => EventID(log[k]) = EventID(log[i])

(* Positions of the commits.  A publish whose confirmation was lost may    *)
(* store a commit again: a repetition of the latest commit is not counted. *)
FirstCommits(log) == {i \in DOMAIN log : IsCommit(log[i]) /\ ~Repeats(log, i)}

(* The entries of a log at the positions in S, in the order of the log:    *)
(* the n-th of them is the one with n of them up to it.                    *)
EntriesAt(log, S) ==
  [n \in 1..Cardinality(S) |-> log[Max({i \in S : Cardinality({j \in S : j <= i}) = n})]]

(* The same commits, as a sequence.  FirstCommits(log) is bound to S so    *)
(* that TLC evaluates it once.                                             *)
CommitSeqOf(log) ==
  CHOOSE h \in {EntriesAt(log, S) : S \in {FirstCommits(log)}} : TRUE

(* Geofence transitions a consumer that drops repeated event IDs sees for  *)
(* area a and one incarnation.                                             *)
FirstTransitions(log, inst, a) ==
  { i \in DOMAIN log : /\ ~IsCommit(log[i])
                       /\ log[i].inst = inst
                       /\ log[i].area = a
                       /\ \A j \in 1..(i - 1) : EventID(log[j]) # EventID(log[i]) }
=============================================================================
