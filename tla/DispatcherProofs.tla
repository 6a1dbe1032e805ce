-------------------------- MODULE DispatcherProofs --------------------------
(***************************************************************************)
(* Proofs about module Dispatcher, for every value of its constants: type  *)
(* correctness, and that an object has at most one command in flight.      *)
(***************************************************************************)
EXTENDS Dispatcher, TLAPS, FiniteSetTheorems, SequenceTheorems

---------------------------------------------------------------------------
(* What the helpers return.                                                *)

(* The geofence transitions of a set of areas are sequences of transitions. *)
LEMMA TransitionsType ==
  ASSUME NEW S \in SUBSET Areas, NEW b \in BOOLEAN, NEW s \in Transitions(S, b)
  PROVE  s \in Seq(Transition)
<1>1. IsFiniteSet(S)
  BY DataAssumption, FS_Subset
<1>2. Cardinality(S) \in Nat
  BY <1>1, FS_CardinalityType
<1>3. PICK f \in SetToSeqs(S) : s = [i \in DOMAIN f |-> [area |-> f[i], entered |-> b]]
  BY DEF Transitions
<1>4. f \in [1..Cardinality(S) -> S]
  BY DEF SetToSeqs
<1>5. s \in [1..Cardinality(S) -> Transition]
  BY <1>3, <1>4 DEF Transition
<1> QED
  BY <1>2, <1>5

(* The projections of a commit event are projection events.                *)
LEMMA ProjectionsType ==
  ASSUME NEW c \in CommitEvent
  PROVE  Projections(c) \in Seq(ProjectionEvent)
<1> DEFINE P(i) == [ type |-> IF c.trans[i].entered THEN "entered" ELSE "exited",
                     obj |-> c.obj, inst |-> c.inst, seq |-> c.seq, op |-> c.op,
                     region |-> c.region, pt |-> c.pt, inside |-> c.inside,
                     area |-> c.trans[i].area ]
<1>1. c.trans \in Seq(Transition)
  BY DEF CommitEvent
<1>2. \A i \in 1..Len(c.trans) : c.trans[i] \in Transition
  BY <1>1
<1>3. \A i \in 1..Len(c.trans) : P(i) \in ProjectionEvent
  BY <1>2 DEF ProjectionEvent, ProjectionTypes, CommitEvent, Transition
<1>4. Len(c.trans) \in Nat
  BY <1>1
<1>5. Projections(c) = [i \in 1..Len(c.trans) |-> P(i)]
  BY DEF Projections
<1> HIDE DEF P
<1>6. Projections(c) \in [1..Len(c.trans) -> ProjectionEvent]
  BY <1>3, <1>5
<1> QED
  BY <1>4, <1>6

(* An envelope built from a commit event and a mutation is an envelope for *)
(* the object of the commit.                                               *)
LEMMA EnvelopeType ==
  ASSUME NEW c \in CommitEvent, NEW m \in Mutation
  PROVE  /\ NewEnvelope(c, m) \in Envelope
         /\ NewEnvelope(c, m).commit = c
BY ProjectionsType DEF NewEnvelope, Envelope

(* Geofence changes and exits are sequences of transitions.                *)
LEMMA ChangesType ==
  ASSUME EngineTypeOK, NEW r \in Regions, NEW o \in Objects, NEW p,
         NEW s \in Changes(r, o, p)
  PROVE  s \in Seq(Transition)
<1>1. /\ Inside(r, p) \ prevInside[r][o] \in SUBSET Areas
      /\ prevInside[r][o] \ Inside(r, p) \in SUBSET Areas
  BY DEF EngineTypeOK, Inside
<1>2. Entries(r, o, p) \subseteq Seq(Transition) /\ Departures(r, o, p) \subseteq Seq(Transition)
  BY <1>1, TransitionsType DEF Entries, Departures
<1>3. PICK enters \in Entries(r, o, p), exits \in Departures(r, o, p) : s = enters \o exits
  BY DEF Changes
<1> QED
  BY <1>2, <1>3

LEMMA ExitsType ==
  ASSUME EngineTypeOK, NEW r \in Regions, NEW o \in Objects, NEW s \in Exits(r, o)
  PROVE  s \in Seq(Transition)
<1>1. prevInside[r][o] \in SUBSET Areas
  BY DEF EngineTypeOK
<1> QED
  BY <1>1, TransitionsType DEF Exits

---------------------------------------------------------------------------
(* Type correctness of the publisher's steps.                              *)

LEMMA JobType ==
  ASSUME NEW job \in Job, job.env.projections \in Seq(ProjectionEvent)
  PROVE  /\ Confirmed(job) \in Job
         /\ Retried(job) \in Job
         /\ \A f \in BOOLEAN : ResultOf(job, f) \in CommitResult
         /\ ~JobFinished(job) => MessageOf(job) \in Event
<1>1. job.env \in Envelope /\ job.committed \in BOOLEAN /\ job.next \in Nat \ {0}
  BY DEF Job
<1>2. Confirmed(job) \in Job /\ Retried(job) \in Job
  <2>1. [job EXCEPT !.committed = TRUE] \in Job
    BY DEF Job
  <2>2. [job EXCEPT !.next = @ + 1] \in Job
    BY DEF Job
  <2>3. [job EXCEPT !.next = 1] \in Job
    BY DEF Job
  <2> QED
    BY <2>1, <2>2, <2>3 DEF Confirmed, Retried
<1>3. job.env.commit \in CommitEvent
  BY <1>1 DEF Envelope
<1>4. \A f \in BOOLEAN : ResultOf(job, f) \in CommitResult
  BY <1>3 DEF ResultOf, JobObject, CommitResult, CommitEvent
<1>5. ~JobFinished(job) => MessageOf(job) \in Event
  <2>1. CASE job.committed
    <3>1. ~JobFinished(job) => job.next \in 1..Len(job.env.projections)
      BY <1>1, <2>1, LenProperties DEF JobFinished
    <3>2. ~JobFinished(job) => job.env.projections[job.next] \in ProjectionEvent
      BY <3>1
    <3> QED
      BY <2>1, <3>2 DEF MessageOf, Event
  <2>2. CASE ~job.committed
    BY <1>3, <2>2 DEF MessageOf, Event
  <2> QED
    BY <2>1, <2>2
<1> QED
  BY <1>2, <1>4, <1>5

LEMMA PublisherType ==
  ASSUME PublisherTypeOK, PublisherNext
  PROVE  PublisherTypeOK'
<1> USE DEF PublisherTypeOK
<1>1. ASSUME NEW env \in commitCh, TakeEnvelope(env)
      PROVE  PublisherTypeOK'
  <2>1. NewJob(env) \in Job
    BY DEF NewJob, Job
  <2> QED
    BY <1>1, <2>1 DEF TakeEnvelope
<1>2. ASSUME NEW job \in publishing,
             PublishConfirmed(job) \/ PublishVerified(job) \/ PublishUnconfirmed(job)
               \/ PublishFailed(job)
      PROVE  PublisherTypeOK'
  <2> job \in Job /\ JobObject(job) \in Objects
    BY DEF Job, Envelope, CommitEvent, JobObject
  <2>1. /\ Confirmed(job) \in Job
        /\ Retried(job) \in Job
        /\ ~JobFinished(job) => MessageOf(job) \in Event
    BY JobType DEF Job, Envelope
  <2>2. stream' \in [Objects -> Seq(Event)]
    <3>1. UNCHANGED stream \/ (~JobFinished(job) /\ Store(job))
      BY <1>2 DEF PublishConfirmed, PublishVerified, PublishUnconfirmed, PublishFailed
    <3>2. ~JobFinished(job) => Append(stream[JobObject(job)], MessageOf(job)) \in Seq(Event)
      BY <2>1, AppendProperties
    <3> QED
      BY <3>1, <3>2 DEF Store
  <2>3. publishing' \subseteq Job
    BY <1>2, <2>1 DEF PublishConfirmed, PublishVerified, PublishUnconfirmed, PublishFailed, ReplaceJob
  <2>4. faults' \in Nat
    BY <1>2 DEF PublishConfirmed, PublishVerified, PublishUnconfirmed, PublishFailed
  <2> QED
    BY <1>2, <2>2, <2>3, <2>4 DEF PublishConfirmed, PublishVerified, PublishUnconfirmed, PublishFailed
<1>3. ASSUME NEW job \in publishing, ReturnResult(job)
      PROVE  PublisherTypeOK'
  <2>1. ResultOf(job, ~JobFinished(job)) \in CommitResult
    BY DEF ResultOf, JobObject, CommitResult, CommitEvent, Job, Envelope, JobFinished
  <2> QED
    BY <1>3, <2>1 DEF ReturnResult
<1>4. ASSUME NEW job \in publishing, DropResult(job)
      PROVE  PublisherTypeOK'
  BY <1>4 DEF DropResult
<1>5. CASE Cancel
  BY <1>5 DEF Cancel
<1> QED
  BY <1>1, <1>2, <1>3, <1>4, <1>5 DEF PublisherNext

---------------------------------------------------------------------------
(* Type correctness of the engine's steps.                                 *)

LEMMA MovedType ==
  ASSUME EngineTypeOK, NEW o \in Objects, NEW from, NEW to, NEW p \in PointOrNone,
         Moved(o, from, to, p)
  PROVE  tree' \in [Regions -> [Objects -> PointOrNone]]
BY DEF EngineTypeOK, Moved, PointOrNone

LEMMA AnsweredType ==
  ASSUME EngineTypeOK, NEW t \in WorkerTask, NEW old \in RegionOrNone, NEW p \in PointOrNone,
         NEW inside \in SUBSET Areas, NEW trans \in Seq(Transition),
         Answered(t, Result(t, old, p, inside, trans))
  PROVE  tasks' \subseteq WorkerTask /\ results' \subseteq WorkerResult
<1>1. t.obj \in Objects /\ t.op \in Nat /\ t.region \in Regions
  BY DEF WorkerTask
<1>2. Result(t, old, p, inside, trans) \in WorkerResult
  BY <1>1 DEF Result, WorkerResult
<1> QED
  BY <1>2 DEF EngineTypeOK, Answered

LEMMA RefusedType ==
  ASSUME EngineTypeOK, NEW t \in WorkerTask, Refused(t)
  PROVE  tasks' \subseteq WorkerTask /\ results' \subseteq WorkerResult
<1>1. Rejection(t) \in WorkerResult
  BY EmptySeq DEF Rejection, Result, WorkerTask, WorkerResult, RegionOrNone, PointOrNone
<1> QED
  BY <1>1 DEF EngineTypeOK, Refused, Answered

LEMMA WorkerType ==
  ASSUME EngineTypeOK, NEW t \in tasks,
         ProcessInit(t) \/ ProcessUpdate(t) \/ ProcessTransition(t) \/ ProcessRemove(t)
  PROVE  EngineTypeOK'
<1> t \in WorkerTask /\ t.obj \in Objects /\ t.region \in Regions /\ t.pt \in PointOrNone
  BY DEF EngineTypeOK, WorkerTask, PointOrNone
<1> Inside(t.region, t.pt) \in SUBSET Areas
  BY DEF EngineTypeOK, Inside
<1>1. UNCHANGED workerFrame
  BY DEF ProcessInit, ProcessUpdate, ProcessTransition, ProcessRemove
<1>2. SUFFICES /\ tree' \in [Regions -> [Objects -> PointOrNone]]
               /\ pubRegion' \in [Objects -> RegionOrNone]
               /\ deleted' \in [Objects -> BOOLEAN]
               /\ tasks' \subseteq WorkerTask /\ results' \subseteq WorkerResult
  BY <1>1 DEF EngineTypeOK, workerFrame
<1>3. CASE Refused(t)
  BY <1>3, RefusedType DEF Refused, EngineTypeOK
<1>4. CASE ProcessInit(t) /\ ~Refused(t)
  <2>1. PICK trans \in Changes(t.region, t.obj, t.pt) :
          Answered(t, Result(t, None, t.pt, Inside(t.region, t.pt), trans))
    BY <1>4 DEF ProcessInit
  <2>2. trans \in Seq(Transition)
    BY ChangesType
  <2>3. tasks' \subseteq WorkerTask /\ results' \subseteq WorkerResult
    BY <2>1, <2>2, AnsweredType DEF RegionOrNone
  <2>4. /\ Moved(t.obj, None, t.region, t.pt)
        /\ pubRegion' = [pubRegion EXCEPT ![t.obj] = t.region]
        /\ UNCHANGED deleted
    BY <1>4 DEF ProcessInit
  <2> QED
    BY <2>3, <2>4, MovedType DEF EngineTypeOK, RegionOrNone
<1>5. CASE ProcessUpdate(t) /\ ~Refused(t)
  <2>1. PICK trans \in Changes(t.region, t.obj, t.pt) :
          Answered(t, Result(t, None, t.pt, Inside(t.region, t.pt), trans))
    BY <1>5 DEF ProcessUpdate
  <2>2. trans \in Seq(Transition)
    BY ChangesType
  <2>3. tasks' \subseteq WorkerTask /\ results' \subseteq WorkerResult
    BY <2>1, <2>2, AnsweredType DEF RegionOrNone
  <2>4. Moved(t.obj, None, t.region, t.pt) /\ UNCHANGED <<pubRegion, deleted>>
    BY <1>5 DEF ProcessUpdate
  <2> QED
    BY <2>3, <2>4, MovedType DEF EngineTypeOK
<1>6. CASE ProcessTransition(t) /\ ~Refused(t)
  <2>0. t.old \in Regions
    BY <1>6 DEF ProcessTransition, WorkerTask
  <2>1. PICK exits \in Exits(t.old, t.obj), trans \in Changes(t.region, t.obj, t.pt) :
          Answered(t, Result(t, t.old, t.pt, Inside(t.region, t.pt), exits \o trans))
    BY <1>6 DEF ProcessTransition
  <2>2. exits \o trans \in Seq(Transition)
    BY <2>0, ChangesType, ExitsType, ConcatProperties
  <2>3. tasks' \subseteq WorkerTask /\ results' \subseteq WorkerResult
    BY <2>0, <2>1, <2>2, AnsweredType DEF RegionOrNone
  <2>4. /\ Moved(t.obj, t.old, t.region, t.pt)
        /\ pubRegion' = [pubRegion EXCEPT ![t.obj] = t.region]
        /\ UNCHANGED deleted
    BY <1>6 DEF ProcessTransition
  <2> QED
    BY <2>3, <2>4, MovedType DEF EngineTypeOK, RegionOrNone
<1>7. CASE ProcessRemove(t) /\ t.obj \notin registered
  <2>1. Answered(t, Result(t, None, None, {}, <<>>)) /\ UNCHANGED <<tree, pubRegion, deleted>>
    BY <1>7 DEF ProcessRemove
  <2>2. tasks' \subseteq WorkerTask /\ results' \subseteq WorkerResult
    BY <2>1, AnsweredType, EmptySeq DEF RegionOrNone, PointOrNone
  <2> QED
    BY <2>1, <2>2 DEF EngineTypeOK
<1>8. CASE ProcessRemove(t) /\ t.obj \in registered
  <2>1. PICK exits \in Exits(t.region, t.obj) :
          Answered(t, Result(t, t.region, tree[t.region][t.obj], {}, exits))
    BY <1>8 DEF ProcessRemove
  <2>2. exits \in Seq(Transition) /\ tree[t.region][t.obj] \in PointOrNone
    BY ExitsType DEF EngineTypeOK
  <2>3. tasks' \subseteq WorkerTask /\ results' \subseteq WorkerResult
    BY <2>1, <2>2, AnsweredType DEF RegionOrNone
  <2>4. /\ Moved(t.obj, t.region, None, None)
        /\ pubRegion' = [pubRegion EXCEPT ![t.obj] = None]
        /\ deleted' = [deleted EXCEPT ![t.obj] = TRUE]
    BY <1>8 DEF ProcessRemove
  <2> QED
    BY <2>3, <2>4, MovedType DEF EngineTypeOK, RegionOrNone, PointOrNone
<1> QED
  BY <1>3, <1>4, <1>5, <1>6, <1>7, <1>8

LEMMA AreaType ==
  ASSUME EngineTypeOK
  PROVE  /\ \A a \in Areas, r \in Regions : RegisterArea(a, r) => EngineTypeOK'
         /\ \A a \in Areas : RemoveAreaStart(a) => EngineTypeOK'
         /\ \A r \in Regions : RemoveAreaFrom(r) => EngineTypeOK'
<1> USE DEF EngineTypeOK
<1>1. ASSUME NEW a \in Areas, NEW r \in Regions, RegisterArea(a, r)
      PROVE  EngineTypeOK'
  BY <1>1 DEF RegisterArea
<1>2. ASSUME NEW a \in Areas, RemoveAreaStart(a)
      PROVE  EngineTypeOK'
  BY <1>2 DEF RemoveAreaStart
<1>3. ASSUME NEW r \in Regions, RemoveAreaFrom(r)
      PROVE  EngineTypeOK'
  <2>1. sweep' \in [area : Areas \cup {None}, left : SUBSET Regions]
    BY <1>3 DEF RemoveAreaFrom, AfterRegion, NoSweep
  <2>2. prevInside' \in [Regions -> [Objects -> SUBSET Areas]]
    BY <1>3 DEF RemoveAreaFrom, Purged
  <2>3. areaTree' \in [Regions -> SUBSET Areas]
    BY <1>3 DEF RemoveAreaFrom
  <2> QED
    BY <1>3, <2>1, <2>2, <2>3 DEF RemoveAreaFrom
<1> QED
  BY <1>1, <1>2, <1>3

LEMMA EngineType ==
  ASSUME EngineTypeOK, EngineNext
  PROVE  EngineTypeOK'
BY WorkerType, AreaType DEF EngineNext

---------------------------------------------------------------------------
(* Type correctness of the dispatcher's steps.                             *)

LEMMA AnswerType ==
  ASSUME TypeOK, NEW oks, NEW errs, Answer(oks, errs)
  PROVE  replies' \in [Ops -> Seq({"ok", "err"})]
<1>1. \A op \in Ops : replies[op] \in Seq({"ok", "err"})
  BY DEF TypeOK
<1>2. \A op \in Ops : /\ Append(replies[op], "ok") \in Seq({"ok", "err"})
                      /\ Append(replies[op], "err") \in Seq({"ok", "err"})
  BY <1>1, AppendProperties
<1> QED
  BY <1>1, <1>2 DEF Answer

(* A mailbox with a new head, queue, route or envelope is a mailbox.       *)
LEMMA CtlType ==
  ASSUME NEW c \in Ctl
  PROVE  /\ Released(c) \in Ctl
         /\ \A cmd \in Command : [c EXCEPT !.head = cmd] \in Ctl
         /\ \A q \in Seq(Command) : [c EXCEPT !.queue = q] \in Ctl
         /\ \A r \in RegionOrNone : [c EXCEPT !.route = r] \in Ctl
         /\ \A env \in Envelope : [c EXCEPT !.env = env] \in Ctl
         /\ \A n \in Nat : [c EXCEPT !.seq = n] \in Ctl
BY DEF Ctl, Released

LEMMA NoCtlType == NoCtl \in Ctl
BY EmptySeq DEF NoCtl, Ctl, InstanceID, RegionOrNone

LEMMA CommitOfType ==
  ASSUME NEW o \in Objects, NEW c \in Ctl, NEW op \in Nat, NEW type \in CommitTypes
  PROVE  CommitOf(o, c, op, type) \in CommitEvent
<1>1. c.inst \in InstanceID /\ c.seq + 1 \in Nat
  BY DEF Ctl
<1> QED
  BY <1>1, EmptySeq DEF CommitOf, NextSeq, CommitEvent, RegionOrNone, PointOrNone

LEMMA SubmitType ==
  ASSUME TypeOK, NEW o \in Objects, NEW c \in Ctl, NEW commit \in CommitEvent,
         NEW m \in Mutation, Submit(o, c, commit, m)
  PROVE  ctl' \in [Objects -> Ctl] /\ commitCh' \subseteq Envelope
<1>1. NewEnvelope(commit, m) \in Envelope
  BY EnvelopeType
<1>2. [c EXCEPT !.env = NewEnvelope(commit, m)] \in Ctl
  BY <1>1, CtlType
<1> QED
  BY <1>1, <1>2 DEF TypeOK, PublisherTypeOK, Submit

LEMMA NoMutationType == NoMutation \in Mutation
BY DEF NoMutation, Mutation, RegionOrNone

(* A command that is dispatched to a worker becomes a well-formed task.    *)
LEMMA TaskType ==
  ASSUME NEW o \in Objects, NEW c \in Ctl, NEW cmd \in Command, Dispatchable(c, cmd),
         ~(cmd.kind = "remove" /\ c.route = None)
  PROVE  /\ Task(o, c, cmd) \in WorkerTask
         /\ Task(o, c, cmd).obj = o
         /\ cmd.kind # "remove" => Target(c, cmd) \in RegionOrNone
<1>1. cmd.op \in Nat /\ c.route \in RegionOrNone
  BY DispatcherAssumption DEF Command, Ctl, Ops
<1>2. CASE cmd.kind = "remove"
  <2>1. c.route \in Regions
    BY <1>1, <1>2 DEF RegionOrNone
  <2> QED
    BY <1>1, <1>2, <2>1 DEF Task, WorkerTask, RegionOrNone, PointOrNone
<1>3. CASE cmd.kind # "remove"
  <2>1. cmd.kind = "update" /\ Target(c, cmd) # None
    BY <1>3 DEF Dispatchable
  <2>2. cmd.pt \in Points
    BY <2>1 DEF Command
  <2>3. Target(c, cmd) \in Regions
    BY <1>1, <2>1, <2>2, DataAssumption DEF Target, RegionOrNone
  <2> DEFINE T(kind) == [ kind |-> kind, obj |-> o, op |-> cmd.op, pt |-> cmd.pt,
                          region |-> Target(c, cmd), old |-> c.route ]
  <2>4. CASE c.route = None \/ Target(c, cmd) = c.route
    <3>1. Task(o, c, cmd) = T("init") \/ Task(o, c, cmd) = T("update")
      BY <1>3, <2>4 DEF Task
    <3>2. T("init") \in WorkerTask /\ T("update") \in WorkerTask
      BY <1>1, <2>2, <2>3 DEF WorkerTask, PointOrNone
    <3> QED
      BY <2>3, <3>1, <3>2 DEF RegionOrNone
  <2>5. CASE c.route # None /\ Target(c, cmd) # c.route
    <3>1. c.route \in Regions
      BY <1>1, <2>5 DEF RegionOrNone
    <3>2. Task(o, c, cmd) = T("transition")
      BY <1>3, <2>5 DEF Task
    <3>3. T("transition") \in WorkerTask
      BY <1>1, <2>2, <2>3, <3>1 DEF WorkerTask
    <3> QED
      BY <2>3, <3>2, <3>3 DEF RegionOrNone
  <2> QED
    BY <2>4, <2>5
<1> QED
  BY <1>2, <1>3

LEMMA StartType ==
  ASSUME TypeOK, NEW o \in Objects, NEW c \in Ctl, NEW cmd \in Command,
         Dispatchable(c, cmd), Start(o, c, cmd)
  PROVE  /\ ctl' \in [Objects -> Ctl]
         /\ tasks' \subseteq WorkerTask
         /\ commitCh' \subseteq Envelope
<1>1. [c EXCEPT !.head = cmd] \in Ctl
  BY CtlType
<1>2. CASE cmd.kind = "remove" /\ c.route = None
  <2>1. CommitOf(o, c, cmd.op, "removed") \in CommitEvent
    BY CommitOfType, DispatcherAssumption DEF Command, Ops, CommitTypes
  <2> QED
    BY <1>1, <1>2, <2>1, SubmitType, NoMutationType DEF Start, TypeOK, EngineTypeOK
<1>3. CASE ~(cmd.kind = "remove" /\ c.route = None)
  <2>1. Task(o, c, cmd) \in WorkerTask
    BY <1>3, TaskType
  <2>2. (IF cmd.kind = "remove" THEN c.route ELSE Target(c, cmd)) \in RegionOrNone
    BY <1>3, TaskType DEF Ctl
  <2>3. [c EXCEPT !.head = cmd,
                  !.route = IF cmd.kind = "remove" THEN c.route ELSE Target(c, cmd)] \in Ctl
    BY <2>2 DEF Ctl
  <2> QED
    BY <1>3, <2>1, <2>3 DEF Start, TypeOK, EngineTypeOK, PublisherTypeOK
<1> QED
  BY <1>2, <1>3

LEMMA DispatchFirstType ==
  ASSUME TypeOK, NEW o \in Objects, NEW c \in Ctl, NEW q \in Seq(Command),
         NEW oks, NEW errs, DispatchFirst(o, c, q, oks, errs)
  PROVE  /\ ctl' \in [Objects -> Ctl]
         /\ tasks' \subseteq WorkerTask
         /\ commitCh' \subseteq Envelope
         /\ replies' \in [Ops -> Seq({"ok", "err"})]
<1>1. PICK k \in 0..Len(q) :
        /\ k < Len(q) => Dispatchable(c, q[k + 1])
        /\ Answer(oks, errs \cup OpsOf(SubSeq(q, 1, k)))
        /\ IF k = Len(q)
           THEN /\ ctl' = [ctl EXCEPT ![o] = [c EXCEPT !.queue = <<>>]]
                /\ UNCHANGED <<tasks, commitCh>>
           ELSE Start(o, [c EXCEPT !.queue = Rest(q, k)], q[k + 1])
  BY DEF DispatchFirst
<1>2. replies' \in [Ops -> Seq({"ok", "err"})]
  BY <1>1, AnswerType
<1>3. CASE k = Len(q)
  <2>1. [c EXCEPT !.queue = <<>>] \in Ctl
    BY CtlType, EmptySeq
  <2> QED
    BY <1>1, <1>2, <1>3, <2>1 DEF TypeOK, EngineTypeOK, PublisherTypeOK
<1>4. CASE k # Len(q)
  <2> DEFINE d == [c EXCEPT !.queue = Rest(q, k)]
  <2>1. k < Len(q) /\ k + 1 \in 1..Len(q)
    BY <1>4, LenProperties
  <2>2. q[k + 1] \in Command /\ Rest(q, k) \in Seq(Command)
    BY <2>1, SubSeqProperties DEF Rest
  <2>3. d \in Ctl
    BY <2>2, CtlType
  <2>4. Dispatchable(d, q[k + 1])
    BY <1>1, <2>1 DEF Dispatchable, Target, Ctl
  <2> QED
    BY <1>1, <1>2, <1>4, <2>2, <2>3, <2>4, StartType
<1> QED
  BY <1>3, <1>4

LEMMA RejectType ==
  ASSUME TypeOK, NEW o \in Objects, RejectRegister(o) \/ RejectUnregistered(o)
  PROVE  TypeOK'
<1>1. replies' \in [Ops -> Seq({"ok", "err"})]
  BY AnswerType DEF RejectRegister, RejectUnregistered
<1> QED
  BY <1>1 DEF TypeOK, EngineTypeOK, PublisherTypeOK, RejectRegister, RejectUnregistered,
              Receive, receiveFrame, indexVars

LEMMA RegisteredCtlType ==
  ASSUME TypeOK, Receive, NEW o \in Objects
  PROVE  /\ RegisteredCtl(o) \in Ctl /\ RegisteredCtl(o).head # None
         /\ CommitOf(o, RegisteredCtl(o), nextOp, "registered") \in CommitEvent
         /\ CommitOf(o, RegisteredCtl(o), nextOp, "registered").obj = o
<1> DEFINE cmd == Received("register", o, None)
           inst == <<bootEpoch, instances + 1>>
<1>1. cmd \in Command
  BY DispatcherAssumption DEF Receive, Received, Command, Ops, TypeOK
<1>2. inst \in InstanceID
  BY DEF TypeOK, InstanceID
<1>3. RegisteredCtl(o) = [NoCtl EXCEPT !.head = cmd, !.inst = inst]
  BY DEF RegisteredCtl
<1>4. nextOp \in Nat
  BY DEF TypeOK
<1> HIDE DEF cmd, inst
<1>5. RegisteredCtl(o) \in Ctl /\ RegisteredCtl(o).head # None
  BY <1>1, <1>2, <1>3, NoCtlType, NoneAssumption DEF Ctl
<1> QED
  BY <1>4, <1>5, CommitOfType DEF CommitOf, CommitTypes

LEMMA OnRegisterType ==
  ASSUME TypeOK, NEW o \in Objects, OnRegister(o)
  PROVE  TypeOK'
<1>1. ctl' \in [Objects -> Ctl] /\ commitCh' \subseteq Envelope
  BY RegisteredCtlType, NoMutationType, SubmitType DEF OnRegister
<1>2. /\ registered' \subseteq Objects
      /\ deleted' \in [Objects -> BOOLEAN]
      /\ instances' \in Nat
      /\ nextOp' \in Nat \ {0}
  BY DEF OnRegister, Receive, TypeOK, EngineTypeOK
<1>3. UNCHANGED <<tasks, replies, receiveFrame>>
  BY DEF OnRegister
<1> QED
  BY <1>1, <1>2, <1>3 DEF TypeOK, EngineTypeOK, PublisherTypeOK, receiveFrame, indexVars

LEMMA AcceptType ==
  ASSUME TypeOK, Receive, NEW cmd \in Command, Accept(cmd)
  PROVE  TypeOK'
<1> DEFINE o == cmd.obj
           c == ctl[o]
<1>1. o \in Objects
  BY DEF Command
<1>2. c \in Ctl /\ c.queue \in Seq(Command)
  BY <1>1 DEF TypeOK, Ctl
<1>3. /\ ctl' \in [Objects -> Ctl]
      /\ tasks' \subseteq WorkerTask
      /\ commitCh' \subseteq Envelope
      /\ replies' \in [Ops -> Seq({"ok", "err"})]
  <2>1. CASE Free(c)
    <3>1. <<cmd>> \o c.queue \in Seq(Command)
      BY <1>2, ConcatProperties
    <3>2. DispatchFirst(o, c, <<cmd>> \o c.queue, {}, {})
      BY <2>1 DEF Accept
    <3> QED
      BY <1>1, <1>2, <3>1, <3>2, DispatchFirstType
  <2>2. CASE ~Free(c)
    <3>1. [c EXCEPT !.queue = Append(c.queue, cmd)] \in Ctl
      BY <1>2, CtlType, AppendProperties
    <3>2. /\ ctl' = [ctl EXCEPT ![o] = [c EXCEPT !.queue = Append(c.queue, cmd)]]
          /\ UNCHANGED <<tasks, commitCh, replies>>
      BY <2>2 DEF Accept
    <3> QED
      BY <3>1, <3>2 DEF TypeOK, EngineTypeOK, PublisherTypeOK
  <2> QED
    BY <2>1, <2>2
<1> QED
  BY <1>3 DEF TypeOK, EngineTypeOK, PublisherTypeOK, Accept, Receive, receiveFrame, indexVars

LEMMA ReceivedType ==
  ASSUME TypeOK, Receive, NEW o \in Objects
  PROVE  /\ \A p \in Points : Received("update", o, p) \in Command
         /\ Received("remove", o, None) \in Command
BY DispatcherAssumption DEF TypeOK, Receive, Received, Command, Ops

(* What onResult builds from a worker's result.                            *)
LEMMA BuiltType ==
  ASSUME NEW o \in Objects, NEW c \in Ctl, NEW res \in WorkerResult
  PROVE  CommitFor(o, c, res) \in CommitEvent /\ MutationFor(c.head, res) \in Mutation
<1>1. /\ res.op \in Nat /\ res.region \in Regions /\ res.old \in RegionOrNone
      /\ res.pt \in PointOrNone /\ res.inside \in SUBSET Areas
      /\ res.trans \in Seq(Transition)
  BY DEF WorkerResult
<1>2. /\ CommitOf(o, c, res.op, "removed") \in CommitEvent
      /\ CommitOf(o, c, res.op, "position") \in CommitEvent
  BY <1>1, CommitOfType DEF CommitTypes
<1>3. CommitFor(o, c, res) \in CommitEvent
  BY <1>1, <1>2 DEF CommitFor, CommitEvent, RegionOrNone
<1>4. MutationFor(c.head, res) \in Mutation
  BY <1>1 DEF MutationFor, Mutation, RegionOrNone
<1> QED
  BY <1>3, <1>4

LEMMA OnResultType ==
  ASSUME TypeOK, NEW res \in results, OnResult(res)
  PROVE  TypeOK'
<1> DEFINE o == res.obj
           c == ctl[o]
<1>1. o \in Objects /\ res \in WorkerResult
  BY DEF TypeOK, EngineTypeOK, WorkerResult
<1>2. c \in Ctl /\ c.queue \in Seq(Command)
  BY <1>1 DEF TypeOK, Ctl
<1>3. /\ ctl' \in [Objects -> Ctl]
      /\ tasks' \subseteq WorkerTask
      /\ commitCh' \subseteq Envelope
      /\ replies' \in [Ops -> Seq({"ok", "err"})]
  <2>1. CASE UNCHANGED <<ctl, tasks, commitCh, replies>>
    BY <2>1 DEF TypeOK, EngineTypeOK, PublisherTypeOK
  <2>2. CASE DispatchFirst(o, Released(c), c.queue, {}, {c.head.op})
    BY <1>1, <1>2, <2>2, CtlType, DispatchFirstType
  <2>3. CASE /\ Submit(o, c, CommitFor(o, c, res), MutationFor(c.head, res))
             /\ UNCHANGED <<tasks, replies>>
    BY <1>1, <1>2, <2>3, BuiltType, SubmitType DEF TypeOK, EngineTypeOK
  <2> QED
    BY <2>1, <2>2, <2>3 DEF OnResult
<1> QED
  BY <1>3 DEF TypeOK, EngineTypeOK, PublisherTypeOK, OnResult, indexVars

LEMMA SnapshotType ==
  ASSUME TypeOK, NEW m \in Mutation, NEW o \in Objects
  PROVE  Snapshot(m, o) \in [Regions -> [Objects -> SUBSET Areas]]
<1>1. /\ prevInside \in [Regions -> [Objects -> SUBSET Areas]]
      /\ m.inside \in SUBSET Areas
  BY DEF TypeOK, EngineTypeOK, Mutation
<1>2. \A r \in Regions : \A s \in SUBSET Areas :
        [prevInside EXCEPT ![r][o] = s] \in [Regions -> [Objects -> SUBSET Areas]]
  BY <1>1
<1>3. [r \in Regions |-> [prevInside[r] EXCEPT ![o] = IF r = m.new THEN m.inside
                                                      ELSE IF r = m.old THEN {}
                                                      ELSE @]]
        \in [Regions -> [Objects -> SUBSET Areas]]
  BY <1>1
<1>4. m.old \in Regions \cup {None} /\ m.new \in Regions \cup {None}
  BY DEF Mutation, RegionOrNone
<1>5. CASE m.kind = "set" /\ m.new # None
  BY <1>1, <1>2, <1>4, <1>5 DEF Snapshot
<1>6. CASE m.kind = "move"
  BY <1>3, <1>6 DEF Snapshot
<1>7. CASE m.kind = "delete" /\ m.old # None
  BY <1>2, <1>4, <1>7 DEF Snapshot
<1>8. CASE ~(m.kind = "set" /\ m.new # None) /\ m.kind # "move" /\ ~(m.kind = "delete" /\ m.old # None)
  BY <1>1, <1>8 DEF Snapshot
<1> QED
  BY <1>5, <1>6, <1>7, <1>8

LEMMA OnCommitResultType ==
  ASSUME TypeOK, NEW cr \in commitResults, OnCommitResult(cr)
  PROVE  TypeOK'
<1> DEFINE o == cr.obj
           c == ctl[o]
           done == [Released(c) EXCEPT !.seq = cr.seq]
<1>1. o \in Objects /\ cr.seq \in Nat
  BY DEF TypeOK, PublisherTypeOK, CommitResult
<1>2. c \in Ctl /\ c.queue \in Seq(Command) /\ c.env \in Envelope \cup {None}
  BY <1>1 DEF TypeOK, Ctl
<1>3. Released(c) \in Ctl /\ done \in Ctl
  BY <1>1, <1>2, CtlType
<1>4. registered' \subseteq Objects
  BY DEF OnCommitResult, TypeOK, EngineTypeOK
<1>5. prevInside' \in [Regions -> [Objects -> SUBSET Areas]]
  <2>1. prevInside' = prevInside \/ (c.env # None /\ prevInside' = Snapshot(c.env.mutation, o))
    BY DEF OnCommitResult
  <2>2. c.env # None => c.env.mutation \in Mutation
    BY <1>2 DEF Envelope
  <2> QED
    BY <1>1, <2>1, <2>2, SnapshotType DEF TypeOK, EngineTypeOK
<1>6. /\ ctl' \in [Objects -> Ctl]
      /\ tasks' \subseteq WorkerTask
      /\ commitCh' \subseteq Envelope
      /\ replies' \in [Ops -> Seq({"ok", "err"})]
  <2>1. CASE UNCHANGED <<ctl, tasks, commitCh, replies>>
    BY <2>1 DEF TypeOK, EngineTypeOK, PublisherTypeOK
  <2>2. ASSUME NEW errs, DispatchFirst(o, Released(c), c.queue, {}, errs)
        PROVE  /\ ctl' \in [Objects -> Ctl]
               /\ tasks' \subseteq WorkerTask
               /\ commitCh' \subseteq Envelope
               /\ replies' \in [Ops -> Seq({"ok", "err"})]
    BY <1>1, <1>2, <1>3, <2>2, DispatchFirstType
  <2>3. CASE DispatchFirst(o, done, c.queue, {cr.op}, {})
    BY <1>1, <1>2, <1>3, <2>3, DispatchFirstType
  <2>4. CASE /\ Answer({cr.op}, Orphaned(c))
             /\ ctl' = [ctl EXCEPT ![o] = NoCtl]
             /\ UNCHANGED <<tasks, commitCh>>
    BY <2>4, AnswerType, NoCtlType DEF TypeOK, EngineTypeOK, PublisherTypeOK
  <2> QED
    BY <2>1, <2>2, <2>3, <2>4 DEF OnCommitResult
<1> QED
  BY <1>4, <1>5, <1>6 DEF TypeOK, EngineTypeOK, PublisherTypeOK, OnCommitResult,
                          resultFrame, indexVars

LEMMA DispatcherType ==
  ASSUME TypeOK, DispatcherNext
  PROVE  TypeOK'
<1>1. ASSUME NEW o \in Objects,
             \/ RejectRegister(o) \/ RejectUnregistered(o) \/ OnRegister(o)
             \/ (\E p \in Points : OnPosition(o, p)) \/ OnRemove(o)
      PROVE  TypeOK'
  BY <1>1, RejectType, OnRegisterType, ReceivedType, AcceptType DEF OnPosition, OnRemove
<1> QED
  BY <1>1, OnResultType, OnCommitResultType DEF DispatcherNext

---------------------------------------------------------------------------
LEMMA InitType ==
  ASSUME Init
  PROVE  TypeOK
<1>1. EngineTypeOK
  BY DEF Init, EngineInit, EngineTypeOK, NoSweep, PointOrNone, RegionOrNone
<1>2. PublisherTypeOK
  BY EmptySeq DEF Init, PublisherInit, PublisherTypeOK
<1>3. ctl \in [Objects -> Ctl] /\ replies \in [Ops -> Seq({"ok", "err"})]
  BY NoCtlType, EmptySeq DEF Init
<1> QED
  BY <1>1, <1>2, <1>3 DEF Init, TypeOK

LEMMA NextType ==
  ASSUME TypeOK, [Next]_vars
  PROVE  TypeOK'
<1>1. CASE DispatcherNext
  BY <1>1, DispatcherType
<1>2. CASE EngineNext /\ UNCHANGED <<publisherVars, dispatcherVars>>
  BY <1>2, EngineType DEF TypeOK, PublisherTypeOK, publisherVars, dispatcherVars
<1>3. CASE PublisherNext /\ UNCHANGED <<engineVars, dispatcherVars>>
  BY <1>3, PublisherType DEF TypeOK, EngineTypeOK, engineVars, dispatcherVars
<1>4. CASE UNCHANGED vars
  BY <1>4 DEF TypeOK, EngineTypeOK, PublisherTypeOK, vars, engineVars, publisherVars,
              dispatcherVars
<1> QED
  BY <1>1, <1>2, <1>3, <1>4 DEF Next

(* Every variable of the write path keeps its type: among others, workers  *)
(* get only tasks for known regions, so that the region map is never       *)
(* indexed with a name it lacks (processTransition looks two up without a  *)
(* check), and every event that reaches GT_EVENTS is well formed.          *)
THEOREM TypeCorrect == Spec => []TypeOK
<1>1. Init => TypeOK
  BY InitType
<1>2. TypeOK /\ [Next]_vars => TypeOK'
  BY NextType
<1> QED
  BY <1>1, <1>2, PTL DEF Spec

---------------------------------------------------------------------------
(* At most one command of an object is in flight.                          *)

(* Only the mailbox of a registered object holds a command: it makes the   *)
(* invariant inductive, OnRegister starting from an empty mailbox.         *)
MailboxOwned == \A o \in Objects : ctl[o].head # None => o \in registered

IInv == TypeOK /\ AtMostOneInFlight /\ MailboxOwned

(* No item of o is left once a handler has taken what it read.             *)
NoneLeft(o) ==
  /\ \A t \in tasks : t.obj # o
  /\ \A res \in results' : res.obj # o
  /\ \A env \in commitCh : env.commit.obj # o
  /\ \A job \in publishing : JobObject(job) # o
  /\ \A cr \in commitResults' : cr.obj # o

(* What a handler of the dispatcher does to the stages for object o: it    *)
(* adds nothing, or a task, or an envelope, and then o has a head.         *)
Handled(o) ==
  /\ \A p \in Objects : p # o => ctl'[p] = ctl[p]
  /\ \/ UNCHANGED <<tasks, commitCh>>
     \/ /\ ctl'[o].head # None
        /\ UNCHANGED commitCh
        /\ \E t \in WorkerTask : t.obj = o /\ tasks' = tasks \cup {t}
     \/ /\ ctl'[o].head # None
        /\ UNCHANGED tasks
        /\ \E env \in Envelope : env.commit.obj = o /\ commitCh' = commitCh \cup {env}

LEMMA InFlightObject ==
  ASSUME TypeOK
  PROVE  \A x \in InFlight : x[1] \in Objects
BY DEF TypeOK, EngineTypeOK, PublisherTypeOK, InFlight, WorkerTask, WorkerResult, Job, JobObject,
       Envelope, CommitEvent, CommitResult

(* An item goes to its next stage.                                         *)
LEMMA ItemMoves ==
  ASSUME AtMostOneInFlight, NEW x \in InFlight, NEW y, y[1] = x[1],
         InFlight' \subseteq (InFlight \ {x}) \cup {y}, UNCHANGED ctl
  PROVE  AtMostOneInFlight'
<1>1. \A z \in InFlight : z # x => z[1] # x[1]
  BY DEF AtMostOneInFlight
<1> QED
  BY <1>1 DEF AtMostOneInFlight

(* Items disappear, and mailboxes keep their heads.                        *)
LEMMA ItemsLeave ==
  ASSUME TypeOK, AtMostOneInFlight, InFlight' \subseteq InFlight,
         \A o \in Objects : ctl'[o].head = ctl[o].head
  PROVE  AtMostOneInFlight'
<1>1. \A x \in InFlight' : ctl'[x[1]].head = ctl[x[1]].head
  BY InFlightObject
<1> QED
  BY <1>1 DEF AtMostOneInFlight

(* An item of o enters, no other item of o being in flight.                *)
LEMMA ItemEnters ==
  ASSUME TypeOK, AtMostOneInFlight, NEW o, NEW y, y[1] = o,
         \A z \in InFlight' : (z \in InFlight /\ z[1] # o) \/ z = y,
         y \in InFlight' => ctl'[o].head # None,
         \A p \in Objects : p # o => ctl'[p] = ctl[p]
  PROVE  AtMostOneInFlight'
<1>1. \A z \in InFlight : z[1] # o => ctl'[z[1]] = ctl[z[1]]
  BY InFlightObject
<1>2. \A z1, z2 \in InFlight' : z1[1] = z2[1] => z1 = z2
  BY DEF AtMostOneInFlight
<1>3. \A z \in InFlight' : ctl'[z[1]].head # None
  BY <1>1 DEF AtMostOneInFlight
<1> QED
  BY <1>2, <1>3 DEF AtMostOneInFlight

(* A handler keeps the invariant when it has taken the only item of o.     *)
LEMMA HandledKeepsOne ==
  ASSUME TypeOK, AtMostOneInFlight, NEW o \in Objects, Handled(o), NoneLeft(o),
         results' \subseteq results, commitResults' \subseteq commitResults, UNCHANGED publishing
  PROVE  AtMostOneInFlight'
<1>0. \A p \in Objects : p # o => ctl'[p] = ctl[p]
  BY DEF Handled
<1>1. CASE UNCHANGED <<tasks, commitCh>>
  <2>1. \A z \in InFlight' : z \in InFlight /\ z[1] # o
    BY <1>1 DEF NoneLeft, InFlight, JobObject
  <2>2. \A z \in InFlight' : z # <<o>>
    BY DEF InFlight
  <2>3. <<o>>[1] = o
    OBVIOUS
  <2> QED
    BY <1>0, <2>1, <2>2, <2>3, ItemEnters
<1>2. ASSUME NEW t \in WorkerTask, t.obj = o, tasks' = tasks \cup {t}, UNCHANGED commitCh,
             ctl'[o].head # None
      PROVE  AtMostOneInFlight'
  <2> DEFINE y == <<o, "inbox", t>>
  <2>1. \A z \in InFlight' : (z \in InFlight /\ z[1] # o) \/ z = y
    BY <1>2 DEF NoneLeft, InFlight, JobObject
  <2>2. y[1] = o
    OBVIOUS
  <2> HIDE DEF y
  <2> QED
    BY <1>0, <1>2, <2>1, <2>2, ItemEnters
<1>3. ASSUME NEW env \in Envelope, env.commit.obj = o, commitCh' = commitCh \cup {env},
             UNCHANGED tasks, ctl'[o].head # None
      PROVE  AtMostOneInFlight'
  <2> DEFINE y == <<o, "commitCh", env>>
  <2>1. \A z \in InFlight' : (z \in InFlight /\ z[1] # o) \/ z = y
    BY <1>3 DEF NoneLeft, InFlight, JobObject
  <2>2. y[1] = o
    OBVIOUS
  <2> HIDE DEF y
  <2> QED
    BY <1>0, <1>3, <2>1, <2>2, ItemEnters
<1> QED
  BY <1>1, <1>2, <1>3 DEF Handled

(* An object whose mailbox has no head has nothing in flight.              *)
LEMMA NoHeadNoneLeft ==
  ASSUME AtMostOneInFlight, NEW o, ctl[o].head = None,
         results' \subseteq results, commitResults' \subseteq commitResults
  PROVE  NoneLeft(o)
<1>1. \A x \in InFlight : x[1] # o
  BY DEF AtMostOneInFlight
<1>2. /\ \A t \in tasks : <<t.obj, "inbox", t>> \in InFlight
      /\ \A res \in results : <<res.obj, "results", res>> \in InFlight
      /\ \A env \in commitCh : <<env.commit.obj, "commitCh", env>> \in InFlight
      /\ \A job \in publishing : <<JobObject(job), "publishing", job>> \in InFlight
      /\ \A cr \in commitResults : <<cr.obj, "commitResults", cr>> \in InFlight
  BY DEF InFlight
<1> QED
  BY <1>1, <1>2 DEF NoneLeft

(* Taking the result of o leaves nothing of o in flight.                   *)
LEMMA ResultTaken ==
  ASSUME AtMostOneInFlight, NEW res \in results, results' = results \ {res},
         UNCHANGED commitResults
  PROVE  NoneLeft(res.obj)
<1> DEFINE y == <<res.obj, "results", res>>
<1>0. y \in InFlight /\ y[1] = res.obj
  BY DEF InFlight
<1>1. \A x \in InFlight : x[1] = res.obj => x = y
  BY <1>0 DEF AtMostOneInFlight
<1>2. /\ \A t \in tasks : <<t.obj, "inbox", t>> \in InFlight
      /\ \A r \in results : <<r.obj, "results", r>> \in InFlight
      /\ \A env \in commitCh : <<env.commit.obj, "commitCh", env>> \in InFlight
      /\ \A job \in publishing : <<JobObject(job), "publishing", job>> \in InFlight
      /\ \A cr \in commitResults : <<cr.obj, "commitResults", cr>> \in InFlight
  BY DEF InFlight
<1> QED
  BY <1>1, <1>2 DEF NoneLeft

LEMMA CommitResultTaken ==
  ASSUME AtMostOneInFlight, NEW cr \in commitResults, commitResults' = commitResults \ {cr},
         UNCHANGED results
  PROVE  NoneLeft(cr.obj)
<1> DEFINE y == <<cr.obj, "commitResults", cr>>
<1>0. y \in InFlight /\ y[1] = cr.obj
  BY DEF InFlight
<1>1. \A x \in InFlight : x[1] = cr.obj => x = y
  BY <1>0 DEF AtMostOneInFlight
<1>2. /\ \A t \in tasks : <<t.obj, "inbox", t>> \in InFlight
      /\ \A res \in results : <<res.obj, "results", res>> \in InFlight
      /\ \A env \in commitCh : <<env.commit.obj, "commitCh", env>> \in InFlight
      /\ \A job \in publishing : <<JobObject(job), "publishing", job>> \in InFlight
      /\ \A c \in commitResults : <<c.obj, "commitResults", c>> \in InFlight
  BY DEF InFlight
<1> QED
  BY <1>1, <1>2 DEF NoneLeft

LEMMA SubmitHandled ==
  ASSUME TypeOK, NEW o \in Objects, NEW c \in Ctl, c.head # None, NEW commit \in CommitEvent,
         commit.obj = o, NEW m \in Mutation, Submit(o, c, commit, m), UNCHANGED tasks
  PROVE  Handled(o)
<1>1. NewEnvelope(commit, m) \in Envelope /\ NewEnvelope(commit, m).commit.obj = o
  BY EnvelopeType
<1>2. ctl' = [ctl EXCEPT ![o] = [c EXCEPT !.env = NewEnvelope(commit, m)]]
  BY DEF Submit
<1>3. ctl'[o].head # None /\ \A p \in Objects : p # o => ctl'[p] = ctl[p]
  BY <1>2 DEF TypeOK, Ctl
<1> QED
  BY <1>1, <1>3 DEF Submit, Handled

LEMMA StartHandled ==
  ASSUME TypeOK, NEW o \in Objects, NEW c \in Ctl, NEW cmd \in Command,
         Dispatchable(c, cmd), Start(o, c, cmd)
  PROVE  Handled(o)
<1> DEFINE d == [c EXCEPT !.head = cmd]
<1>1. d \in Ctl /\ d.head # None
  BY CtlType, NoneAssumption DEF Ctl
<1>2. CASE cmd.kind = "remove" /\ c.route = None
  <2>1. CommitOf(o, c, cmd.op, "removed") \in CommitEvent
    BY CommitOfType, DispatcherAssumption DEF Command, Ops, CommitTypes
  <2>2. CommitOf(o, c, cmd.op, "removed").obj = o
    BY DEF CommitOf
  <2>3. Submit(o, d, CommitOf(o, c, cmd.op, "removed"), NoMutation) /\ UNCHANGED tasks
    BY <1>2 DEF Start
  <2> HIDE DEF d
  <2> QED
    BY <1>1, <2>1, <2>2, <2>3, SubmitHandled, NoMutationType
<1>3. CASE ~(cmd.kind = "remove" /\ c.route = None)
  <2>1. Task(o, c, cmd) \in WorkerTask /\ Task(o, c, cmd).obj = o
    BY <1>3, TaskType
  <2>2. ctl' = [ctl EXCEPT ![o] =
                  [c EXCEPT !.head = cmd,
                            !.route = IF cmd.kind = "remove" THEN @ ELSE Target(c, cmd)]]
    BY <1>3 DEF Start
  <2>3. ctl'[o].head = cmd /\ \A p \in Objects : p # o => ctl'[p] = ctl[p]
    BY <2>2 DEF TypeOK, Ctl
  <2>4. tasks' = tasks \cup {Task(o, c, cmd)} /\ UNCHANGED commitCh
    BY <1>3 DEF Start
  <2> QED
    BY <2>1, <2>3, <2>4, NoneAssumption DEF Handled
<1> QED
  BY <1>2, <1>3

LEMMA DispatchFirstHandled ==
  ASSUME TypeOK, NEW o \in Objects, NEW c \in Ctl, NEW q \in Seq(Command),
         NEW oks, NEW errs, DispatchFirst(o, c, q, oks, errs)
  PROVE  Handled(o)
<1>1. PICK k \in 0..Len(q) :
        /\ k < Len(q) => Dispatchable(c, q[k + 1])
        /\ IF k = Len(q)
           THEN /\ ctl' = [ctl EXCEPT ![o] = [c EXCEPT !.queue = <<>>]]
                /\ UNCHANGED <<tasks, commitCh>>
           ELSE Start(o, [c EXCEPT !.queue = Rest(q, k)], q[k + 1])
  BY DEF DispatchFirst
<1>2. CASE k = Len(q)
  BY <1>1, <1>2 DEF Handled, TypeOK
<1>3. CASE k # Len(q)
  <2> DEFINE d == [c EXCEPT !.queue = Rest(q, k)]
  <2>1. k < Len(q) /\ k + 1 \in 1..Len(q)
    BY <1>3, LenProperties
  <2>2. q[k + 1] \in Command /\ Rest(q, k) \in Seq(Command)
    BY <2>1, SubSeqProperties DEF Rest
  <2>3. d \in Ctl
    BY <2>2, CtlType
  <2>4. Dispatchable(d, q[k + 1])
    BY <1>1, <2>1 DEF Dispatchable, Target, Ctl
  <2> QED
    BY <1>1, <1>3, <2>2, <2>3, <2>4, StartHandled
<1> QED
  BY <1>2, <1>3

(* One command per object: the steps of the dispatcher.                    *)
LEMMA DispatcherKeepsOne ==
  ASSUME IInv, DispatcherNext
  PROVE  AtMostOneInFlight'
<1> USE DEF IInv
<1>1. ASSUME NEW o \in Objects, RejectRegister(o) \/ RejectUnregistered(o)
      PROVE  AtMostOneInFlight'
  BY <1>1 DEF RejectRegister, RejectUnregistered, receiveFrame, AtMostOneInFlight, InFlight,
              JobObject
<1>2. ASSUME NEW o \in Objects, OnRegister(o)
      PROVE  AtMostOneInFlight'
  <2>2. Handled(o)
    BY <1>2, RegisteredCtlType, SubmitHandled, NoMutationType DEF OnRegister
  <2>3. NoneLeft(o)
    BY <1>2, NoHeadNoneLeft DEF OnRegister, MailboxOwned, receiveFrame
  <2> QED
    BY <1>2, <2>2, <2>3, HandledKeepsOne DEF OnRegister, receiveFrame
<1>3. ASSUME NEW o \in Objects, (\E p \in Points : OnPosition(o, p)) \/ OnRemove(o)
      PROVE  AtMostOneInFlight'
  <2>1. PICK cmd \in Command : cmd.obj = o /\ Accept(cmd)
    BY <1>3, ReceivedType DEF OnPosition, OnRemove, Received
  <2>2. ctl[o] \in Ctl /\ ctl[o].queue \in Seq(Command)
    BY DEF TypeOK, Ctl
  <2>3. UNCHANGED <<results, publishing, commitResults>>
    BY <2>1 DEF Accept, receiveFrame
  <2>4. CASE Free(ctl[o])
    <3>1. DispatchFirst(o, ctl[o], <<cmd>> \o ctl[o].queue, {}, {})
      BY <2>1, <2>4 DEF Accept
    <3>2. <<cmd>> \o ctl[o].queue \in Seq(Command)
      BY <2>2, ConcatProperties
    <3>4. Handled(o)
      BY <2>2, <3>1, <3>2, DispatchFirstHandled
    <3>3. NoneLeft(o)
      BY <2>3, <2>4, NoHeadNoneLeft DEF Free
    <3> QED
      BY <2>3, <3>3, <3>4, HandledKeepsOne
  <2>5. CASE ~Free(ctl[o])
    <3>1. ctl' = [ctl EXCEPT ![o].queue = Append(@, cmd)] /\ UNCHANGED <<tasks, commitCh>>
      BY <2>1, <2>5 DEF Accept
    <3>2. \A p \in Objects : ctl'[p].head = ctl[p].head
      BY <2>2, <3>1 DEF TypeOK, Ctl
    <3>3. InFlight' = InFlight
      BY <2>3, <3>1 DEF InFlight, JobObject
    <3> QED
      BY <3>2, <3>3, ItemsLeave
  <2> QED
    BY <2>4, <2>5
<1>4. ASSUME NEW res \in results, OnResult(res)
      PROVE  AtMostOneInFlight'
  <2> DEFINE o == res.obj
             c == ctl[o]
  <2>1. o \in Objects /\ c \in Ctl /\ c.queue \in Seq(Command) /\ res \in WorkerResult
    BY DEF TypeOK, EngineTypeOK, WorkerResult, Ctl
  <2>2. results' = results \ {res} /\ UNCHANGED <<publishing, commitResults>>
    BY <1>4 DEF OnResult
  <2>3. NoneLeft(o)
    BY <2>2, ResultTaken
  <2>4. CASE UNCHANGED <<ctl, tasks, commitCh>>
    BY <2>1, <2>2, <2>3, <2>4, HandledKeepsOne DEF Handled
  <2>5. CASE DispatchFirst(o, Released(c), c.queue, {}, {c.head.op})
    BY <2>1, <2>2, <2>3, <2>5, CtlType, DispatchFirstHandled, HandledKeepsOne
  <2>6. CASE /\ c.head # None
             /\ Submit(o, c, CommitFor(o, c, res), MutationFor(c.head, res))
             /\ UNCHANGED tasks
    <3>1. CommitFor(o, c, res) \in CommitEvent /\ MutationFor(c.head, res) \in Mutation
      BY <2>1, BuiltType
    <3>2. CommitFor(o, c, res).obj = o
      BY DEF CommitFor, CommitOf
    <3> QED
      BY <2>1, <2>2, <2>3, <2>6, <3>1, <3>2, SubmitHandled, HandledKeepsOne
  <2> QED
    BY <1>4, <2>4, <2>5, <2>6 DEF OnResult
<1>5. ASSUME NEW cr \in commitResults, OnCommitResult(cr)
      PROVE  AtMostOneInFlight'
  <2> DEFINE o == cr.obj
             c == ctl[o]
             done == [Released(c) EXCEPT !.seq = cr.seq]
  <2>1. o \in Objects /\ c \in Ctl /\ c.queue \in Seq(Command) /\ cr.seq \in Nat
    BY DEF TypeOK, PublisherTypeOK, CommitResult, Ctl
  <2>2. commitResults' = commitResults \ {cr} /\ UNCHANGED <<results, publishing>>
    BY <1>5 DEF OnCommitResult, resultFrame
  <2>3. NoneLeft(o)
    BY <2>2, CommitResultTaken
  <2>4. CASE UNCHANGED <<ctl, tasks, commitCh>>
    BY <2>1, <2>2, <2>3, <2>4, HandledKeepsOne DEF Handled
  <2>5. ASSUME NEW d \in Ctl, NEW oks, NEW errs, DispatchFirst(o, d, c.queue, oks, errs)
        PROVE  AtMostOneInFlight'
    BY <2>1, <2>2, <2>3, <2>5, DispatchFirstHandled, HandledKeepsOne
  <2>6. CASE ctl' = [ctl EXCEPT ![o] = NoCtl] /\ UNCHANGED <<tasks, commitCh>>
    <3>1. Handled(o)
      BY <2>1, <2>6 DEF Handled, TypeOK
    <3> QED
      BY <2>1, <2>2, <2>3, <3>1, HandledKeepsOne
  <2>7. Released(c) \in Ctl /\ done \in Ctl
    BY <2>1, CtlType
  <2> HIDE DEF c, done
  <2> QED
    BY <1>5, <2>4, <2>5, <2>6, <2>7 DEF OnCommitResult, c, done
<1> QED
  BY <1>1, <1>2, <1>3, <1>4, <1>5 DEF DispatcherNext

(* The steps of the workers: an item goes from the inbox to the results.   *)
LEMMA EngineKeepsOne ==
  ASSUME IInv, EngineNext, UNCHANGED <<publisherVars, dispatcherVars>>
  PROVE  AtMostOneInFlight'
<1> USE DEF IInv
<1>1. UNCHANGED <<ctl, commitCh, publishing, commitResults>>
  BY DEF publisherVars, dispatcherVars
<1>2. ASSUME NEW t \in tasks, NEW res, res.obj = t.obj, Answered(t, res)
      PROVE  AtMostOneInFlight'
  <2> DEFINE x == <<t.obj, "inbox", t>>
             y == <<t.obj, "results", res>>
  <2>1. x \in InFlight /\ y[1] = x[1]
    BY DEF InFlight
  <2>2. InFlight' \subseteq (InFlight \ {x}) \cup {y}
    BY <1>1, <1>2 DEF Answered, InFlight, JobObject
  <2> HIDE DEF x, y
  <2> QED
    BY <1>1, <2>1, <2>2, ItemMoves
<1>3. ASSUME NEW t \in tasks,
             ProcessInit(t) \/ ProcessUpdate(t) \/ ProcessTransition(t) \/ ProcessRemove(t)
      PROVE  \E res : res.obj = t.obj /\ Answered(t, res)
  <2>1. Rejection(t).obj = t.obj
    BY DEF Rejection, Result
  <2>2. \A old, p, inside, trans : Result(t, old, p, inside, trans).obj = t.obj
    BY DEF Result
  <2> QED
    BY <1>3, <2>1, <2>2 DEF ProcessInit, ProcessUpdate, ProcessTransition, ProcessRemove, Refused
<1>4. CASE UNCHANGED <<tasks, results>>
  <2>1. InFlight' = InFlight
    BY <1>1, <1>4 DEF InFlight, JobObject
  <2> QED
    BY <1>1, <2>1, ItemsLeave
<1> QED
  BY <1>2, <1>3, <1>4 DEF EngineNext, RegisterArea, RemoveAreaStart, RemoveAreaFrom

(* The steps of the publisher: from the channel to a job to a result.      *)
LEMMA PublisherKeepsOne ==
  ASSUME IInv, PublisherNext, UNCHANGED <<engineVars, dispatcherVars>>
  PROVE  AtMostOneInFlight'
<1> USE DEF IInv
<1>1. UNCHANGED <<ctl, tasks, results>>
  BY DEF engineVars, dispatcherVars
<1>2. ASSUME NEW env \in commitCh, TakeEnvelope(env)
      PROVE  AtMostOneInFlight'
  <2> DEFINE x == <<env.commit.obj, "commitCh", env>>
             y == <<env.commit.obj, "publishing", NewJob(env)>>
  <2>1. x \in InFlight /\ y[1] = x[1]
    BY DEF InFlight
  <2>2. JobObject(NewJob(env)) = env.commit.obj
    BY DEF JobObject, NewJob
  <2>3. InFlight' \subseteq (InFlight \ {x}) \cup {y}
    BY <1>1, <1>2, <2>2 DEF TakeEnvelope, InFlight, JobObject
  <2> HIDE DEF x, y
  <2> QED
    BY <1>1, <2>1, <2>3, ItemMoves
<1>3. ASSUME NEW job \in publishing, NEW new, JobObject(new) = JobObject(job),
             ReplaceJob(job, new), UNCHANGED <<commitCh, commitResults>>
      PROVE  AtMostOneInFlight'
  <2> DEFINE x == <<JobObject(job), "publishing", job>>
             y == <<JobObject(job), "publishing", new>>
  <2>1. x \in InFlight /\ y[1] = x[1]
    BY DEF InFlight
  <2>2. InFlight' \subseteq (InFlight \ {x}) \cup {y}
    BY <1>1, <1>3 DEF ReplaceJob, InFlight, JobObject
  <2> HIDE DEF x, y
  <2> QED
    BY <1>1, <2>1, <2>2, ItemMoves
<1>4. ASSUME NEW job \in publishing,
             PublishConfirmed(job) \/ PublishVerified(job) \/ PublishUnconfirmed(job)
               \/ PublishFailed(job)
      PROVE  AtMostOneInFlight'
  <2>1. job \in Job
    BY DEF TypeOK, PublisherTypeOK
  <2>2. JobObject(Confirmed(job)) = JobObject(job) /\ JobObject(Retried(job)) = JobObject(job)
    BY <2>1 DEF Job, JobObject, Confirmed, Retried
  <2> QED
    BY <1>3, <1>4, <2>2 DEF PublishConfirmed, PublishVerified, PublishUnconfirmed, PublishFailed
<1>5. ASSUME NEW job \in publishing, ReturnResult(job)
      PROVE  AtMostOneInFlight'
  <2> DEFINE x == <<JobObject(job), "publishing", job>>
             res == ResultOf(job, ~JobFinished(job))
             y == <<JobObject(job), "commitResults", res>>
  <2>1. x \in InFlight /\ y[1] = x[1]
    BY DEF InFlight
  <2>2. res.obj = JobObject(job)
    BY DEF ResultOf
  <2>3. /\ publishing' = publishing \ {job}
        /\ commitResults' = commitResults \cup {res}
        /\ UNCHANGED commitCh
    BY <1>5 DEF ReturnResult
  <2> HIDE DEF res
  <2>4. InFlight' \subseteq (InFlight \ {x}) \cup {y}
    BY <1>1, <2>2, <2>3 DEF InFlight, JobObject
  <2> HIDE DEF x, y
  <2> QED
    BY <1>1, <2>1, <2>4, ItemMoves
<1>6. CASE (\E job \in publishing : DropResult(job)) \/ Cancel
  <2>1. InFlight' \subseteq InFlight
    BY <1>1, <1>6 DEF DropResult, Cancel, InFlight, JobObject
  <2> QED
    BY <1>1, <2>1, ItemsLeave
<1> QED
  BY <1>2, <1>4, <1>5, <1>6 DEF PublisherNext

(* The dispatcher keeps commands in the mailboxes of registered objects.   *)
LEMMA DispatcherKeepsOwned ==
  ASSUME IInv, DispatcherNext
  PROVE  MailboxOwned'
<1> USE DEF IInv
<1>1. ASSUME NEW o \in Objects, o \in registered', registered \ {o} \subseteq registered',
             \A p \in Objects : p # o => ctl'[p] = ctl[p]
      PROVE  MailboxOwned'
  BY <1>1 DEF MailboxOwned
<1>2. CASE UNCHANGED <<ctl, registered>>
  BY <1>2 DEF MailboxOwned
<1>3. ASSUME NEW o \in Objects, OnRegister(o)
      PROVE  MailboxOwned'
  BY <1>1, <1>3 DEF OnRegister, Submit, TypeOK
<1>4. ASSUME NEW cmd \in Command, Accept(cmd)
      PROVE  MailboxOwned'
  <2> DEFINE o == cmd.obj
  <2>1. o \in Objects /\ ctl[o] \in Ctl /\ ctl[o].queue \in Seq(Command)
    BY DEF TypeOK, Command, Ctl
  <2>2. \A p \in Objects : p # o => ctl'[p] = ctl[p]
    <3>1. CASE Free(ctl[o])
      <4>1. <<cmd>> \o ctl[o].queue \in Seq(Command)
        BY <2>1, ConcatProperties
      <4>2. Handled(o)
        BY <1>4, <2>1, <3>1, <4>1, DispatchFirstHandled DEF Accept
      <4> QED
        BY <4>2 DEF Handled
    <3>2. CASE ~Free(ctl[o])
      BY <1>4, <3>2 DEF Accept, TypeOK
    <3> QED
      BY <3>1, <3>2
  <2> QED
    BY <1>1, <1>4, <2>1, <2>2 DEF Accept
<1>5. ASSUME NEW res \in results, OnResult(res)
      PROVE  MailboxOwned'
  <2> DEFINE o == res.obj
             c == ctl[o]
  <2>1. o \in Objects /\ c \in Ctl /\ c.queue \in Seq(Command)
    BY DEF TypeOK, EngineTypeOK, WorkerResult, Ctl
  <2>2. UNCHANGED registered
    BY <1>5 DEF OnResult
  <2>3. ASSUME o \in registered,
               \/ DispatchFirst(o, Released(c), c.queue, {}, {c.head.op})
               \/ Submit(o, c, CommitFor(o, c, res), MutationFor(c.head, res))
        PROVE  MailboxOwned'
    <3>1. \A p \in Objects : p # o => ctl'[p] = ctl[p]
      BY <2>1, <2>3, CtlType, DispatchFirstHandled DEF Submit, Handled, TypeOK
    <3> QED
      BY <1>1, <2>1, <2>2, <2>3, <3>1
  <2> QED
    BY <1>2, <1>5, <2>2, <2>3 DEF OnResult
<1>6. ASSUME NEW cr \in commitResults, OnCommitResult(cr)
      PROVE  MailboxOwned'
  <2> DEFINE o == cr.obj
             c == ctl[o]
             done == [Released(c) EXCEPT !.seq = cr.seq]
  <2>1. o \in Objects /\ c \in Ctl /\ c.queue \in Seq(Command) /\ cr.seq \in Nat
    BY DEF TypeOK, PublisherTypeOK, CommitResult, Ctl
  <2>2. ASSUME NEW d \in Ctl, NEW oks, NEW errs, DispatchFirst(o, d, c.queue, oks, errs),
               UNCHANGED registered, o \in registered
        PROVE  MailboxOwned'
    <3>1. Handled(o)
      BY <2>1, <2>2, DispatchFirstHandled
    <3> QED
      BY <1>1, <2>1, <2>2, <3>1 DEF Handled
  <2>3. CASE ctl' = [ctl EXCEPT ![o] = NoCtl] /\ registered' = registered \ {o}
    BY <2>1, <2>3 DEF MailboxOwned, NoCtl, TypeOK
  <2>4. Released(c) \in Ctl /\ done \in Ctl
    BY <2>1, CtlType
  <2> HIDE DEF c, done
  <2> QED
    BY <1>2, <1>6, <2>2, <2>3, <2>4 DEF OnCommitResult, c, done
<1> QED
  BY <1>2, <1>3, <1>4, <1>5, <1>6, ReceivedType
     DEF DispatcherNext, OnPosition, OnRemove, RejectRegister, RejectUnregistered, receiveFrame

LEMMA NextKeepsIInv ==
  ASSUME IInv, [Next]_vars
  PROVE  IInv'
<1>1. TypeOK'
  BY NextType DEF IInv
<1>2. CASE DispatcherNext
  BY <1>1, <1>2, DispatcherKeepsOne, DispatcherKeepsOwned DEF IInv
<1>3. CASE EngineNext /\ UNCHANGED <<publisherVars, dispatcherVars>>
  <2>1. UNCHANGED <<ctl, registered>>
    BY <1>3 DEF dispatcherVars, EngineNext, ProcessInit, ProcessUpdate, ProcessTransition,
                ProcessRemove, workerFrame, RegisterArea, RemoveAreaStart, RemoveAreaFrom
  <2> QED
    BY <1>1, <1>3, <2>1, EngineKeepsOne DEF IInv, MailboxOwned
<1>4. CASE PublisherNext /\ UNCHANGED <<engineVars, dispatcherVars>>
  <2>1. UNCHANGED <<ctl, registered>>
    BY <1>4 DEF engineVars, dispatcherVars
  <2> QED
    BY <1>1, <1>4, <2>1, PublisherKeepsOne DEF IInv, MailboxOwned
<1>5. CASE UNCHANGED vars
  <2>1. InFlight' = InFlight
    BY <1>5 DEF vars, engineVars, publisherVars, InFlight, JobObject
  <2> QED
    BY <1>1, <1>5, <2>1 DEF IInv, AtMostOneInFlight, MailboxOwned, vars, engineVars,
                            dispatcherVars
<1> QED
  BY <1>2, <1>3, <1>4, <1>5 DEF Next

(* An object has at most one command between its mailbox and its answer,   *)
(* for any number of objects, regions, jobs, faults and commands: what     *)
(* publisher.go relies on for the order of an object's events and          *)
(* applyPrevInsideMutation for writing the snapshot of the right commit.   *)
THEOREM OneInFlight == Spec => []AtMostOneInFlight
<1>1. Init => IInv
  <2> SUFFICES ASSUME Init PROVE IInv
    OBVIOUS
  <2>1. InFlight = {}
    BY DEF Init, EngineInit, PublisherInit, InFlight
  <2>2. MailboxOwned
    BY DEF Init, NoCtl, MailboxOwned
  <2> QED
    BY <2>1, <2>2, InitType DEF IInv, AtMostOneInFlight
<1>2. IInv /\ [Next]_vars => IInv'
  BY NextKeepsIInv
<1>3. IInv => AtMostOneInFlight
  BY DEF IInv
<1> QED
  BY <1>1, <1>2, <1>3, PTL DEF Spec
=============================================================================
