---------------------------- MODULE MailboxProofs ----------------------------
(***************************************************************************)
(* Proofs about the mailboxes of module Dispatcher: what the mailbox of an *)
(* object knows of its command in flight, that a command is answered at    *)
(* most once, that a command that was told an error left nothing in the    *)
(* stream, and that the workers never refuse a task.                       *)
(*                                                                         *)
(* The invariants are stated for one object and proved for the steps of    *)
(* the three parts (dispatcher, engine, publisher) one part at a time, so  *)
(* that the proofs of module GeoTruth use the same lemmas.                 *)
(***************************************************************************)
EXTENDS DispatcherProofs

---------------------------------------------------------------------------
(* The object of a command in flight: the stages, one by one.              *)
NoTask(o) == \A t \in tasks : t.obj # o
NoResult(o) == \A res \in results : res.obj # o
NoEnvelope(o) == \A env \in commitCh : env.commit.obj # o
NoJob(o) == \A job \in publishing : JobObject(job) # o
NoCommitResult(o) == \A cr \in commitResults : cr.obj # o

(* A command in flight is in one stage, and alone in it.                   *)
LEMMA Alone ==
  ASSUME AtMostOneInFlight
  PROVE  /\ \A t \in tasks :
              /\ \A u \in tasks : u.obj = t.obj => u = t
              /\ NoResult(t.obj) /\ NoEnvelope(t.obj) /\ NoJob(t.obj) /\ NoCommitResult(t.obj)
              /\ ctl[t.obj].head # None
         /\ \A res \in results :
              /\ \A u \in results : u.obj = res.obj => u = res
              /\ NoTask(res.obj) /\ NoEnvelope(res.obj) /\ NoJob(res.obj) /\ NoCommitResult(res.obj)
              /\ ctl[res.obj].head # None
         /\ \A env \in commitCh :
              /\ \A u \in commitCh : u.commit.obj = env.commit.obj => u = env
              /\ NoTask(env.commit.obj) /\ NoResult(env.commit.obj) /\ NoJob(env.commit.obj)
              /\ NoCommitResult(env.commit.obj)
              /\ ctl[env.commit.obj].head # None
         /\ \A job \in publishing :
              /\ \A u \in publishing : JobObject(u) = JobObject(job) => u = job
              /\ NoTask(JobObject(job)) /\ NoResult(JobObject(job)) /\ NoEnvelope(JobObject(job))
              /\ NoCommitResult(JobObject(job))
              /\ ctl[JobObject(job)].head # None
         /\ \A cr \in commitResults :
              /\ \A u \in commitResults : u.obj = cr.obj => u = cr
              /\ NoTask(cr.obj) /\ NoResult(cr.obj) /\ NoEnvelope(cr.obj) /\ NoJob(cr.obj)
              /\ ctl[cr.obj].head # None
<1> DEFINE In(o, s, x) == <<o, s, x>> \in InFlight
<1>1. /\ \A t \in tasks : In(t.obj, "inbox", t)
      /\ \A res \in results : In(res.obj, "results", res)
      /\ \A env \in commitCh : In(env.commit.obj, "commitCh", env)
      /\ \A job \in publishing : In(JobObject(job), "publishing", job)
      /\ \A cr \in commitResults : In(cr.obj, "commitResults", cr)
  BY DEF InFlight
<1>2. \A o, s1, s2, i1, i2 :
        In(o, s1, i1) /\ In(o, s2, i2) => s1 = s2 /\ i1 = i2
  BY DEF AtMostOneInFlight
<1>3. \A o, s, i : In(o, s, i) => ctl[o].head # None
  BY DEF AtMostOneInFlight
<1> HIDE DEF In
<1>4. ASSUME NEW o, NEW s, NEW x, In(o, s, x)
      PROVE  /\ ctl[o].head # None
             /\ s # "inbox" => NoTask(o)
             /\ s # "results" => NoResult(o)
             /\ s # "commitCh" => NoEnvelope(o)
             /\ s # "publishing" => NoJob(o)
             /\ s # "commitResults" => NoCommitResult(o)
  <2>1. \A i, r : In(o, r, i) => r = s
    BY <1>2, <1>4
  <2>2. s # "inbox" => NoTask(o)
    BY <1>1, <2>1 DEF NoTask
  <2>3. s # "results" => NoResult(o)
    BY <1>1, <2>1 DEF NoResult
  <2>4. s # "commitCh" => NoEnvelope(o)
    BY <1>1, <2>1 DEF NoEnvelope
  <2>5. s # "publishing" => NoJob(o)
    BY <1>1, <2>1 DEF NoJob
  <2>6. s # "commitResults" => NoCommitResult(o)
    BY <1>1, <2>1 DEF NoCommitResult
  <2> QED
    BY <1>3, <1>4, <2>2, <2>3, <2>4, <2>5, <2>6
<1>5. /\ \A t \in tasks : \A u \in tasks : u.obj = t.obj => u = t
      /\ \A res \in results : \A u \in results : u.obj = res.obj => u = res
      /\ \A env \in commitCh : \A u \in commitCh : u.commit.obj = env.commit.obj => u = env
      /\ \A job \in publishing : \A u \in publishing : JobObject(u) = JobObject(job) => u = job
      /\ \A cr \in commitResults : \A u \in commitResults : u.obj = cr.obj => u = cr
  <2>1. \A t, u \in tasks : u.obj = t.obj => u = t
    BY <1>1, <1>2
  <2>2. \A res, u \in results : u.obj = res.obj => u = res
    BY <1>1, <1>2
  <2>3. \A env, u \in commitCh : u.commit.obj = env.commit.obj => u = env
    BY <1>1, <1>2
  <2>4. \A job, u \in publishing : JobObject(u) = JobObject(job) => u = job
    BY <1>1, <1>2
  <2>5. \A cr, u \in commitResults : u.obj = cr.obj => u = cr
    BY <1>1, <1>2
  <2> QED
    BY <2>1, <2>2, <2>3, <2>4, <2>5
<1>6. \A t \in tasks :
        /\ NoResult(t.obj) /\ NoEnvelope(t.obj) /\ NoJob(t.obj) /\ NoCommitResult(t.obj)
        /\ ctl[t.obj].head # None
  BY <1>1, <1>4
<1>7. \A res \in results :
        /\ NoTask(res.obj) /\ NoEnvelope(res.obj) /\ NoJob(res.obj) /\ NoCommitResult(res.obj)
        /\ ctl[res.obj].head # None
  BY <1>1, <1>4
<1>8. \A env \in commitCh :
        /\ NoTask(env.commit.obj) /\ NoResult(env.commit.obj) /\ NoJob(env.commit.obj)
        /\ NoCommitResult(env.commit.obj)
        /\ ctl[env.commit.obj].head # None
  BY <1>1, <1>4
<1>9. \A job \in publishing :
        /\ NoTask(JobObject(job)) /\ NoResult(JobObject(job)) /\ NoEnvelope(JobObject(job))
        /\ NoCommitResult(JobObject(job))
        /\ ctl[JobObject(job)].head # None
  BY <1>1, <1>4
<1>10. \A cr \in commitResults :
        /\ NoTask(cr.obj) /\ NoResult(cr.obj) /\ NoEnvelope(cr.obj) /\ NoJob(cr.obj)
        /\ ctl[cr.obj].head # None
  BY <1>1, <1>4
<1> QED
  BY <1>5, <1>6, <1>7, <1>8, <1>9, <1>10

---------------------------------------------------------------------------
(* What a mailbox knows of its command.                                    *)

(* The envelope a mailbox keeps is the commit of its head, and it writes   *)
(* to the snapshot what the commit says.                                   *)
Carries(o) ==
  LET c == ctl[o]
      commit == c.env.commit
      m == c.env.mutation
  IN  /\ c.head # None
      /\ commit.obj = o /\ commit.inst = c.inst /\ commit.seq = c.seq + 1
      /\ commit.op = c.head.op
      /\ commit.type = "registered" <=> c.head.kind = "register"
      /\ commit.type = "position" <=> c.head.kind = "update"
      /\ commit.type = "removed" <=> c.head.kind = "remove"
      /\ commit.type = "position" => commit.region \in Regions /\ commit.pt \in Points
      /\ commit.type = "registered" => commit.region = None /\ c.seq = 0
      /\ c.env.projections = Projections(commit)
      /\ m.kind \in {"noop", "set", "delete"}
      /\ m.kind # "noop" => m.inside = commit.inside
      /\ m.kind = "delete" => m.inside = {}

(* The head and the envelope of a mailbox are those of the command in      *)
(* flight, in whatever stage it is.                                        *)
TaskStaged(o, t) ==
  /\ ctl[o].env = None /\ t.op = ctl[o].head.op
  /\ t.kind = "remove" <=> ctl[o].head.kind = "remove"
  /\ t.kind # "remove" => t.pt # None

ResultStaged(o, res) ==
  /\ ctl[o].env = None /\ res.op = ctl[o].head.op
  /\ res.ready /\ ctl[o].head.kind # "remove" => res.pt # None

CommitResultStaged(o, cr) ==
  /\ ctl[o].env # None
  /\ cr.seq = ctl[o].env.commit.seq /\ cr.op = ctl[o].env.commit.op
  /\ cr.failed => cancelled

MailboxOK(o) ==
  LET c == ctl[o]
  IN  /\ c.head = None => c.env = None /\ c.queue = <<>>
      /\ c.head # None => c.head.obj = o
      /\ \A i \in DOMAIN c.queue : c.queue[i].obj = o
      /\ c.head # None /\ c.env = None => c.head.kind \in {"update", "remove"}
      /\ c.env # None => Carries(o)

Staged(o) ==
  /\ MailboxOK(o)
  /\ \A t \in tasks : t.obj = o => TaskStaged(o, t)
  /\ \A res \in results : res.obj = o => ResultStaged(o, res)
  /\ \A env \in commitCh : env.commit.obj = o => ctl[o].env = env
  /\ \A job \in publishing : JobObject(job) = o => ctl[o].env = job.env
  /\ \A cr \in commitResults : cr.obj = o => CommitResultStaged(o, cr)

---------------------------------------------------------------------------
(* What the handlers of the dispatcher amount to.                          *)

(* The task a mailbox has just sent; was is the route before.              *)
TaskFor(o, t, was) ==
  /\ t \in WorkerTask /\ t.obj = o /\ t.op = ctl'[o].head.op
  /\ t.kind = "remove" <=> ctl'[o].head.kind = "remove"
  /\ t.kind # "remove" => t.pt # None
  /\ t.region = ctl'[o].route
  /\ t.kind \in {"update", "remove"} => ctl'[o].route = was

(* Nothing was left to start in the queue q of mailbox c.                  *)
Waits(o, c) ==
  /\ ctl'[o] = [c EXCEPT !.queue = <<>>]
  /\ UNCHANGED <<tasks, commitCh>>

SendsTask(o, was) ==
  /\ ctl'[o].env = None
  /\ \E t \in WorkerTask : TaskFor(o, t, was) /\ tasks' = tasks \cup {t}
  /\ UNCHANGED commitCh

(* An object that was never placed is removed without a worker.            *)
CommitsRemoval(o, was) ==
  /\ ctl'[o].head.kind = "remove" /\ ctl'[o].route = None /\ was = None
  /\ ctl'[o].env # None /\ Carries(o)'
  /\ commitCh' = commitCh \cup {ctl'[o].env}
  /\ UNCHANGED tasks

(* The first k commands of q are refused and the next one is started.      *)
Passes(o, c, q, k) ==
  /\ \A p \in Objects : p # o => ctl'[p] = ctl[p]
  /\ ctl'[o].inst = c.inst /\ ctl'[o].seq = c.seq
  /\ \/ k = Len(q) /\ Waits(o, c)
     \/ /\ k < Len(q)
        /\ ctl'[o].head = q[k + 1] /\ ctl'[o].queue = SubSeq(q, k + 2, Len(q))
        /\ ctl'[o].head.kind \in {"update", "remove"}
        /\ SendsTask(o, c.route) \/ CommitsRemoval(o, c.route)

LEMMA StartPasses ==
  ASSUME TypeOK, NEW o \in Objects, NEW c \in Ctl, c.head = None, c.env = None,
         NEW cmd \in Command, Dispatchable(c, cmd), Start(o, c, cmd)
  PROVE  /\ \A p \in Objects : p # o => ctl'[p] = ctl[p]
         /\ ctl'[o].inst = c.inst /\ ctl'[o].seq = c.seq
         /\ ctl'[o].head = cmd /\ ctl'[o].queue = c.queue
         /\ cmd.kind \in {"update", "remove"}
         /\ SendsTask(o, c.route) \/ CommitsRemoval(o, c.route)
<1>0. cmd.kind \in {"update", "remove"} /\ cmd # None
  BY NoneAssumption DEF Dispatchable
<1>1. CASE cmd.kind = "remove" /\ c.route = None
  <2> DEFINE commit == CommitOf(o, c, cmd.op, "removed")
             env == NewEnvelope(commit, NoMutation)
             d == [c EXCEPT !.head = cmd]
  <2>1. commit \in CommitEvent
    BY CommitOfType, DispatcherAssumption DEF Command, Ops, CommitTypes
  <2>2. env \in Envelope /\ env # None
    BY <2>1, EnvelopeType, NoMutationType, NoneAssumption
  <2>3. d \in Ctl /\ d.head = cmd /\ d.inst = c.inst /\ d.seq = c.seq /\ d.queue = c.queue
        /\ d.route = None
    BY <1>1, CtlType DEF Ctl
  <2>4. Start(o, c, cmd) <=>
          /\ ctl' = [ctl EXCEPT ![o] = [d EXCEPT !.env = env]]
          /\ commitCh' = commitCh \cup {env}
          /\ UNCHANGED tasks
    BY <1>1 DEF Start, Submit
  <2>5. /\ commit.type = "removed" /\ commit.obj = o /\ commit.inst = c.inst
        /\ commit.seq = c.seq + 1 /\ commit.op = cmd.op
    BY DEF CommitOf, NextSeq
  <2>6. /\ env.commit = commit /\ env.projections = Projections(commit)
        /\ env.mutation.kind = "noop"
    BY DEF NewEnvelope, NoMutation
  <2> HIDE DEF d, env, commit
  <2>7. /\ ctl'[o] = [d EXCEPT !.env = env]
        /\ \A p \in Objects : p # o => ctl'[p] = ctl[p]
        /\ commitCh' = commitCh \cup {env}
        /\ UNCHANGED tasks
    BY <2>4 DEF TypeOK
  <2>8. /\ ctl'[o].head = cmd /\ ctl'[o].env = env /\ ctl'[o].inst = c.inst
        /\ ctl'[o].seq = c.seq /\ ctl'[o].queue = c.queue /\ ctl'[o].route = None
    BY <2>3, <2>7 DEF Ctl
  <2>9. Carries(o)'
    BY <1>0, <1>1, <2>5, <2>6, <2>8 DEF Carries
  <2> QED
    BY <1>0, <1>1, <2>2, <2>7, <2>8, <2>9 DEF CommitsRemoval
<1>2. CASE ~(cmd.kind = "remove" /\ c.route = None)
  <2> DEFINE t == Task(o, c, cmd)
             route == IF cmd.kind = "remove" THEN c.route ELSE Target(c, cmd)
             d == [c EXCEPT !.head = cmd, !.route = route]
  <2>1. t \in WorkerTask /\ t.obj = o
    BY <1>2, TaskType
  <2>2. ctl' = [ctl EXCEPT ![o] = d] /\ tasks' = tasks \cup {t} /\ UNCHANGED commitCh
    BY <1>2 DEF Start
  <2>3. /\ d.head = cmd /\ d.inst = c.inst /\ d.seq = c.seq /\ d.queue = c.queue
        /\ d.route = route /\ d.env = None
    BY DEF Ctl
  <2>4. ctl'[o] = d /\ \A p \in Objects : p # o => ctl'[p] = ctl[p]
    BY <2>2 DEF TypeOK
  <2>5. /\ t.op = cmd.op /\ t.region = route
        /\ t.kind = "remove" <=> cmd.kind = "remove"
        /\ t.kind \in {"update", "remove"} => route = c.route
    BY <1>0 DEF Task
  <2>6. t.kind # "remove" => t.pt # None
    <3>1. cmd.kind = "update" => cmd.pt \in Points
      BY <1>0 DEF Command
    <3> QED
      BY <1>0, <3>1, DataAssumption DEF Task
  <2> HIDE DEF t, d, route
  <2>7. TaskFor(o, t, c.route)
    BY <2>1, <2>3, <2>4, <2>5, <2>6 DEF TaskFor
  <2> QED
    BY <1>0, <2>1, <2>2, <2>3, <2>4, <2>7 DEF SendsTask
<1> QED
  BY <1>1, <1>2

(* dispatchNext: it answers and passes the mailbox on.                     *)
LEMMA Dispatched ==
  ASSUME TypeOK, NEW o \in Objects, NEW c \in Ctl, c.head = None, c.env = None,
         NEW q \in Seq(Command), NEW oks, NEW errs, DispatchFirst(o, c, q, oks, errs)
  PROVE  \E k \in 0..Len(q) :
           /\ Answer(oks, errs \cup OpsOf(SubSeq(q, 1, k)))
           /\ Passes(o, c, q, k)
<1>1. PICK k \in 0..Len(q) :
        /\ k < Len(q) => Dispatchable(c, q[k + 1])
        /\ Answer(oks, errs \cup OpsOf(SubSeq(q, 1, k)))
        /\ IF k = Len(q)
           THEN /\ ctl' = [ctl EXCEPT ![o] = [c EXCEPT !.queue = <<>>]]
                /\ UNCHANGED <<tasks, commitCh>>
           ELSE Start(o, [c EXCEPT !.queue = Rest(q, k)], q[k + 1])
  BY DEF DispatchFirst
<1>2. CASE k = Len(q)
  <2>1. ctl'[o] = [c EXCEPT !.queue = <<>>] /\ \A p \in Objects : p # o => ctl'[p] = ctl[p]
    BY <1>1, <1>2 DEF TypeOK
  <2>2. ctl'[o].inst = c.inst /\ ctl'[o].seq = c.seq
    BY <2>1 DEF Ctl
  <2> QED
    BY <1>1, <1>2, <2>1, <2>2 DEF Passes, Waits
<1>3. CASE k # Len(q)
  <2> DEFINE d == [c EXCEPT !.queue = Rest(q, k)]
  <2>1. k < Len(q) /\ k + 1 \in 1..Len(q)
    BY <1>3, LenProperties
  <2>2. q[k + 1] \in Command /\ Rest(q, k) \in Seq(Command)
    BY <2>1, SubSeqProperties DEF Rest
  <2>3. d \in Ctl
    BY <2>2, CtlType
  <2>4. /\ d.head = None /\ d.env = None /\ d.queue = Rest(q, k)
        /\ d.inst = c.inst /\ d.seq = c.seq /\ d.route = c.route
    BY DEF Ctl
  <2>5. Dispatchable(d, q[k + 1]) /\ Start(o, d, q[k + 1])
    BY <1>1, <1>3, <2>1, <2>4 DEF Dispatchable, Target
  <2> HIDE DEF d
  <2>6. Passes(o, c, q, k)
    BY <2>1, <2>2, <2>3, <2>4, <2>5, StartPasses DEF Passes, Rest
  <2> QED
    BY <1>1, <2>6
<1> QED
  BY <1>2, <1>3

---------------------------------------------------------------------------
(* A step of the dispatcher, as one of eight.                              *)

dispatcherFrame == <<indexVars, stream, publishing, cancelled, faults, bootEpoch>>
receiptFrame == <<prevInside, results, commitResults>>

(* A command is refused on receipt.                                        *)
Refuses ==
  /\ Receive /\ Answer({}, {nextOp})
  /\ UNCHANGED <<ctl, registered, deleted, instances, tasks, commitCh, receiptFrame>>

Registers(o) ==
  /\ Receive /\ o \notin registered
  /\ registered' = registered \cup {o}
  /\ deleted' = [deleted EXCEPT ![o] = FALSE]
  /\ instances' = instances + 1
  /\ \A p \in Objects : p # o => ctl'[p] = ctl[p]
  /\ ctl'[o].head.kind = "register" /\ ctl'[o].head.op = nextOp /\ ctl'[o].head.obj = o
  /\ ctl'[o].queue = <<>> /\ ctl'[o].route = None /\ ctl'[o].seq = 0
  /\ ctl'[o].inst = <<bootEpoch, instances + 1>>
  /\ ctl'[o].env # None /\ Carries(o)'
  /\ commitCh' = commitCh \cup {ctl'[o].env}
  /\ UNCHANGED <<tasks, replies, receiptFrame>>

(* A command is received by a mailbox that is free.                        *)
Takes(o) ==
  /\ Receive /\ o \in registered /\ ~deleted[o] /\ ctl[o].head = None
  /\ \E cmd \in Command : \E k \in 0..1 :
       /\ cmd.op = nextOp /\ cmd.obj = o
       /\ Answer({}, OpsOf(SubSeq(<<cmd>>, 1, k)))
       /\ Passes(o, ctl[o], <<cmd>>, k)
  /\ UNCHANGED <<registered, deleted, instances, receiptFrame>>

(* A command is received behind a head.                                    *)
Queues(o) ==
  /\ Receive /\ o \in registered /\ ctl[o].head # None
  /\ \E cmd \in Command :
       /\ cmd.op = nextOp /\ cmd.obj = o
       /\ ctl' = [ctl EXCEPT ![o].queue = Append(@, cmd)]
  /\ UNCHANGED <<replies, registered, deleted, instances, tasks, commitCh, receiptFrame>>

(* A result is taken: the head is refused, or its commit is submitted.     *)
TakesResult(o, res) ==
  /\ res \in results /\ res.obj = o /\ o \in registered /\ ctl[o].head # None
  /\ results' = results \ {res}
  /\ UNCHANGED <<prevInside, registered, deleted, commitResults, instances, nextOp>>

Declines(o, res) ==
  /\ TakesResult(o, res)
  /\ ~res.ready \/ ~Buildable(ctl[o].head, res)
  /\ \E k \in 0..Len(ctl[o].queue) :
       /\ Answer({}, {ctl[o].head.op} \cup OpsOf(SubSeq(ctl[o].queue, 1, k)))
       /\ Passes(o, Released(ctl[o]), ctl[o].queue, k)

Submits(o, res) ==
  /\ TakesResult(o, res) /\ res.ready
  /\ \A p \in Objects : p # o => ctl'[p] = ctl[p]
  /\ ctl'[o] = [ctl[o] EXCEPT !.env = ctl'[o].env]
  /\ ctl'[o].env # None /\ Carries(o)'
  /\ commitCh' = commitCh \cup {ctl'[o].env}
  /\ UNCHANGED <<tasks, replies>>

(* The result of a commit is taken: it failed, it was the last one of its  *)
(* incarnation, or the mailbox goes on.                                    *)
TakesCommitResult(o, cr) ==
  /\ cr \in commitResults /\ cr.obj = o /\ o \in registered /\ ctl[o].head # None
  /\ commitResults' = commitResults \ {cr}
  /\ UNCHANGED <<deleted, results, instances, nextOp>>

Fails(o, cr) ==
  /\ TakesCommitResult(o, cr) /\ cr.failed
  /\ \E k \in 0..Len(ctl[o].queue) :
       /\ Answer({}, {ctl[o].head.op} \cup OpsOf(SubSeq(ctl[o].queue, 1, k)))
       /\ Passes(o, Released(ctl[o]), ctl[o].queue, k)
  /\ UNCHANGED <<registered, prevInside>>

Closes(o, cr) ==
  /\ TakesCommitResult(o, cr) /\ ~cr.failed /\ ctl[o].head.kind = "remove"
  /\ prevInside' = Snapshot(ctl[o].env.mutation, o)
  /\ Answer({cr.op}, OpsOf(ctl[o].queue))
  /\ registered' = registered \ {o}
  /\ ctl' = [ctl EXCEPT ![o] = NoCtl]
  /\ UNCHANGED <<tasks, commitCh>>

Confirms(o, cr) ==
  /\ TakesCommitResult(o, cr) /\ ~cr.failed /\ ctl[o].head.kind # "remove"
  /\ prevInside' = Snapshot(ctl[o].env.mutation, o)
  /\ \E k \in 0..Len(ctl[o].queue) :
       /\ Answer({cr.op}, OpsOf(SubSeq(ctl[o].queue, 1, k)))
       /\ Passes(o, [Released(ctl[o]) EXCEPT !.seq = cr.seq], ctl[o].queue, k)
  /\ UNCHANGED registered

StepOf(o) ==
  \/ Registers(o) \/ Takes(o) \/ Queues(o)
  \/ \E res \in results : Declines(o, res) \/ Submits(o, res)
  \/ \E cr \in commitResults : Fails(o, cr) \/ Closes(o, cr) \/ Confirms(o, cr)

DispatcherStep ==
  /\ UNCHANGED dispatcherFrame
  /\ Refuses \/ \E o \in Objects : StepOf(o)

StagedInv == IInv /\ \A o \in Objects : Staged(o)

LEMMA RegisterStep ==
  ASSUME TypeOK, NEW o \in Objects, OnRegister(o)
  PROVE  Registers(o) /\ UNCHANGED dispatcherFrame
<1> DEFINE c == RegisteredCtl(o)
           commit == CommitOf(o, c, nextOp, "registered")
           env == NewEnvelope(commit, NoMutation)
           cmd == Received("register", o, None)
<1>1. c \in Ctl /\ c.head # None /\ commit \in CommitEvent
  BY RegisteredCtlType DEF OnRegister
<1>2. env \in Envelope /\ env # None
  BY <1>1, EnvelopeType, NoMutationType, NoneAssumption
<1>3. /\ c.head = cmd /\ c.queue = <<>> /\ c.route = None /\ c.seq = 0
      /\ c.inst = <<bootEpoch, instances + 1>>
  BY DEF RegisteredCtl, NoCtl
<1>4. cmd.kind = "register" /\ cmd.op = nextOp /\ cmd.obj = o
  BY DEF Received
<1>5. /\ commit.type = "registered" /\ commit.obj = o /\ commit.inst = c.inst
      /\ commit.seq = c.seq + 1 /\ commit.op = nextOp /\ commit.region = None
  BY DEF CommitOf, NextSeq
<1>6. /\ env.commit = commit /\ env.projections = Projections(commit)
      /\ env.mutation.kind = "noop"
  BY DEF NewEnvelope, NoMutation
<1>7. Submit(o, c, commit, NoMutation)
  BY DEF OnRegister
<1>8. ctl' = [ctl EXCEPT ![o] = [c EXCEPT !.env = env]] /\ commitCh' = commitCh \cup {env}
  BY <1>7 DEF Submit
<1> HIDE DEF c, commit, env, cmd
<1>9. ctl'[o] = [c EXCEPT !.env = env] /\ \A p \in Objects : p # o => ctl'[p] = ctl[p]
  BY <1>8 DEF TypeOK
<1>10. /\ ctl'[o].head = cmd /\ ctl'[o].queue = <<>> /\ ctl'[o].route = None /\ ctl'[o].seq = 0
       /\ ctl'[o].inst = <<bootEpoch, instances + 1>> /\ ctl'[o].env = env
  BY <1>1, <1>3, <1>9 DEF Ctl
<1>11. Carries(o)'
  BY <1>1, <1>3, <1>4, <1>5, <1>6, <1>10 DEF Carries
<1> QED
  BY <1>2, <1>4, <1>8, <1>9, <1>10, <1>11
     DEF OnRegister, Registers, receiveFrame, receiptFrame, dispatcherFrame

LEMMA AcceptStep ==
  ASSUME StagedInv, Receive, NEW cmd \in Command, cmd.op = nextOp, Accept(cmd)
  PROVE  /\ Takes(cmd.obj) \/ Queues(cmd.obj)
         /\ UNCHANGED dispatcherFrame
<1> DEFINE o == cmd.obj
           c == ctl[o]
<1>1. o \in Objects /\ c \in Ctl /\ c.queue \in Seq(Command) /\ MailboxOK(o)
  BY DEF Command, StagedInv, IInv, TypeOK, Ctl, Staged
<1>2. /\ o \in registered /\ ~deleted[o]
      /\ UNCHANGED <<instances, registered, deleted, receiveFrame>>
  BY DEF Accept
<1>3. UNCHANGED dispatcherFrame /\ UNCHANGED receiptFrame
  BY <1>2 DEF receiveFrame, receiptFrame, dispatcherFrame
<1>4. CASE Free(c)
  <2>1. c.head = None /\ c.env = None /\ c.queue = <<>>
    BY <1>1, <1>4 DEF Free, MailboxOK
  <2>2. <<cmd>> \o c.queue = <<cmd>> /\ <<cmd>> \in Seq(Command) /\ Len(<<cmd>>) = 1
    BY <2>1, ConcatEmptySeq
  <2>3. DispatchFirst(o, c, <<cmd>>, {}, {})
    BY <1>4, <2>2 DEF Accept
  <2>4. PICK k \in 0..Len(<<cmd>>) :
          /\ Answer({}, {} \cup OpsOf(SubSeq(<<cmd>>, 1, k)))
          /\ Passes(o, c, <<cmd>>, k)
    BY <1>1, <2>1, <2>2, <2>3, Dispatched DEF StagedInv, IInv
  <2>5. {} \cup OpsOf(SubSeq(<<cmd>>, 1, k)) = OpsOf(SubSeq(<<cmd>>, 1, k)) /\ k \in 0..1
    BY <2>2
  <2> QED
    BY <1>2, <1>3, <2>1, <2>4, <2>5 DEF Takes
<1>5. CASE ~Free(c)
  <2>1. c.head # None
    BY <1>1, <1>5 DEF Free, MailboxOK
  <2>2. /\ ctl' = [ctl EXCEPT ![o].queue = Append(@, cmd)]
        /\ UNCHANGED <<tasks, commitCh, replies>>
    BY <1>5 DEF Accept
  <2> QED
    BY <1>2, <1>3, <2>1, <2>2 DEF Queues
<1> QED
  BY <1>3, <1>4, <1>5

LEMMA WorkerResultStep ==
  ASSUME StagedInv, NEW res \in results, OnResult(res)
  PROVE  /\ Declines(res.obj, res) \/ Submits(res.obj, res)
         /\ UNCHANGED dispatcherFrame
<1> DEFINE o == res.obj
           c == ctl[o]
           commit == CommitFor(o, c, res)
           m == MutationFor(c.head, res)
           env == NewEnvelope(commit, m)
<1>1. o \in Objects /\ c \in Ctl /\ c.queue \in Seq(Command) /\ MailboxOK(o) /\ TypeOK
  BY DEF StagedInv, IInv, TypeOK, EngineTypeOK, WorkerResult, Ctl, Staged
<1>2. res \in WorkerResult /\ ResultStaged(o, res)
  BY <1>1 DEF StagedInv, IInv, TypeOK, EngineTypeOK, Staged
<1>3. c.head # None /\ o \in registered
  BY <1>1, Alone DEF StagedInv, IInv, MailboxOwned
<1>4. /\ results' = results \ {res} /\ UNCHANGED dispatcherFrame
      /\ UNCHANGED <<prevInside, registered, deleted, commitResults, instances, nextOp>>
  BY DEF OnResult, dispatcherFrame
<1>5. TakesResult(o, res)
  BY <1>3, <1>4 DEF TakesResult
<1>6. c.env = None /\ res.op = c.head.op /\ c.head.kind \in {"update", "remove"}
  BY <1>1, <1>2, <1>3 DEF ResultStaged, MailboxOK
<1>7. CASE ~res.ready \/ ~Buildable(c.head, res)
  <2>1. DispatchFirst(o, Released(c), c.queue, {}, {c.head.op})
    BY <1>3, <1>7 DEF OnResult
  <2>2. Released(c) \in Ctl /\ Released(c).head = None /\ Released(c).env = None
    BY <1>1, CtlType DEF Released, Ctl
  <2>3. PICK k \in 0..Len(c.queue) :
          /\ Answer({}, {c.head.op} \cup OpsOf(SubSeq(c.queue, 1, k)))
          /\ Passes(o, Released(c), c.queue, k)
    BY <1>1, <2>1, <2>2, Dispatched
  <2> QED
    BY <1>4, <1>5, <1>7, <2>3 DEF Declines
<1>8. CASE res.ready /\ Buildable(c.head, res)
  <2>1. Submit(o, c, commit, m) /\ UNCHANGED <<tasks, replies>>
    BY <1>3, <1>8 DEF OnResult
  <2>2. commit \in CommitEvent /\ m \in Mutation
    BY <1>1, <1>2, BuiltType
  <2>3. env \in Envelope /\ env # None
    BY <2>2, EnvelopeType, NoneAssumption
  <2>4. /\ commit.obj = o /\ commit.inst = c.inst /\ commit.seq = c.seq + 1
        /\ commit.op = c.head.op
        /\ commit.type = IF c.head.kind = "remove" THEN "removed" ELSE "position"
    BY <1>6 DEF CommitFor, CommitOf, NextSeq
  <2>5. /\ c.head.kind # "remove" => /\ commit.region = res.region /\ commit.pt = res.pt
                                     /\ commit.inside = res.inside
        /\ c.head.kind = "remove" => commit.inside = {}
    BY DEF CommitFor, CommitOf
  <2>6. commit.type = "position" => commit.region \in Regions /\ commit.pt \in Points
    BY <1>2, <1>8, <2>4, <2>5 DEF ResultStaged, WorkerResult, PointOrNone
  <2>7. /\ m.kind \in {"set", "delete"} /\ m.inside = commit.inside
        /\ m.kind = "delete" => m.inside = {}
    BY <1>6, <2>5 DEF MutationFor
  <2>8. env.commit = commit /\ env.projections = Projections(commit) /\ env.mutation = m
    BY DEF NewEnvelope
  <2>9. ctl' = [ctl EXCEPT ![o] = [c EXCEPT !.env = env]] /\ commitCh' = commitCh \cup {env}
    BY <2>1 DEF Submit
  <2> HIDE DEF commit, m, env
  <2>10. ctl'[o] = [c EXCEPT !.env = env] /\ \A p \in Objects : p # o => ctl'[p] = ctl[p]
    BY <1>1, <2>9 DEF TypeOK
  <2>11. /\ ctl'[o].env = env /\ ctl'[o].head = c.head /\ ctl'[o].inst = c.inst
         /\ ctl'[o].seq = c.seq
    BY <1>1, <2>10 DEF Ctl
  <2>12. Carries(o)'
    BY <1>3, <1>6, <2>4, <2>6, <2>7, <2>8, <2>11 DEF Carries
  <2> QED
    BY <1>4, <1>5, <1>8, <2>1, <2>3, <2>9, <2>10, <2>11, <2>12 DEF Submits
<1> QED
  BY <1>7, <1>8

LEMMA CommitResultStep ==
  ASSUME StagedInv, NEW cr \in commitResults, OnCommitResult(cr)
  PROVE  /\ Fails(cr.obj, cr) \/ Closes(cr.obj, cr) \/ Confirms(cr.obj, cr)
         /\ UNCHANGED dispatcherFrame
<1> DEFINE o == cr.obj
           c == ctl[o]
           done == [Released(c) EXCEPT !.seq = cr.seq]
<1>1. o \in Objects /\ c \in Ctl /\ c.queue \in Seq(Command) /\ MailboxOK(o) /\ TypeOK
      /\ cr.seq \in Nat
  BY DEF StagedInv, IInv, TypeOK, PublisherTypeOK, CommitResult, Ctl, Staged
<1>2. CommitResultStaged(o, cr)
  BY <1>1 DEF StagedInv, Staged
<1>3. c.head # None /\ o \in registered
  BY <1>1, Alone DEF StagedInv, IInv, MailboxOwned
<1>4. commitResults' = commitResults \ {cr} /\ UNCHANGED resultFrame
  BY DEF OnCommitResult
<1>5. UNCHANGED dispatcherFrame /\ TakesCommitResult(o, cr)
  BY <1>3, <1>4 DEF TakesCommitResult, dispatcherFrame, resultFrame
<1>6. /\ Released(c) \in Ctl /\ Released(c).head = None /\ Released(c).env = None
      /\ done \in Ctl /\ done.head = None /\ done.env = None
  BY <1>1, CtlType DEF Released, Ctl
<1>7. CASE cr.failed
  <2>1. /\ DispatchFirst(o, Released(c), c.queue, {}, {c.head.op})
        /\ UNCHANGED <<registered, prevInside>>
    BY <1>3, <1>7 DEF OnCommitResult
  <2>2. PICK k \in 0..Len(c.queue) :
          /\ Answer({}, {c.head.op} \cup OpsOf(SubSeq(c.queue, 1, k)))
          /\ Passes(o, Released(c), c.queue, k)
    BY <1>1, <1>6, <2>1, Dispatched
  <2> QED
    BY <1>5, <1>7, <2>1, <2>2 DEF Fails
<1>8. CASE ~cr.failed
  <2>1. c.env # None
    BY <1>2 DEF CommitResultStaged
  <2>2. prevInside' = Snapshot(c.env.mutation, o)
    BY <1>3, <1>8, <2>1 DEF OnCommitResult
  <2>3. CASE c.head.kind = "remove"
    <3>1. /\ Answer({cr.op}, Orphaned(c)) /\ registered' = registered \ {o}
          /\ ctl' = [ctl EXCEPT ![o] = NoCtl] /\ UNCHANGED <<tasks, commitCh>>
      BY <1>3, <1>8, <2>3 DEF OnCommitResult
    <3> QED
      BY <1>5, <1>8, <2>2, <2>3, <3>1 DEF Closes, Orphaned
  <2>4. CASE c.head.kind # "remove"
    <3>1. DispatchFirst(o, done, c.queue, {cr.op}, {}) /\ UNCHANGED registered
      BY <1>3, <1>8, <2>4 DEF OnCommitResult
    <3>2. PICK k \in 0..Len(c.queue) :
            /\ Answer({cr.op}, {} \cup OpsOf(SubSeq(c.queue, 1, k)))
            /\ Passes(o, done, c.queue, k)
      BY <1>1, <1>6, <3>1, Dispatched
    <3>3. {} \cup OpsOf(SubSeq(c.queue, 1, k)) = OpsOf(SubSeq(c.queue, 1, k))
      OBVIOUS
    <3> QED
      BY <1>5, <1>8, <2>2, <2>4, <3>1, <3>2, <3>3 DEF Confirms
  <2> QED
    BY <2>3, <2>4
<1> QED
  BY <1>5, <1>7, <1>8

(* Every step of the dispatcher is one of them.                            *)
LEMMA DispatcherSteps ==
  ASSUME StagedInv, DispatcherNext
  PROVE  DispatcherStep
<1>0. TypeOK
  BY DEF StagedInv, IInv
<1>1. ASSUME NEW o \in Objects, RejectRegister(o) \/ RejectUnregistered(o)
      PROVE  DispatcherStep
  BY <1>1 DEF RejectRegister, RejectUnregistered, receiveFrame, DispatcherStep, Refuses,
              dispatcherFrame, receiptFrame
<1>2. ASSUME NEW o \in Objects, OnRegister(o)
      PROVE  DispatcherStep
  BY <1>0, <1>2, RegisterStep DEF DispatcherStep, StepOf
<1>3. ASSUME NEW o \in Objects, (\E p \in Points : OnPosition(o, p)) \/ OnRemove(o)
      PROVE  DispatcherStep
  <2>1. PICK cmd \in Command : cmd.obj = o /\ cmd.op = nextOp /\ Receive /\ Accept(cmd)
    BY <1>0, <1>3, ReceivedType DEF OnPosition, OnRemove, Received
  <2> QED
    BY <2>1, AcceptStep DEF DispatcherStep, StepOf, Command
<1>4. ASSUME NEW res \in results, OnResult(res)
      PROVE  DispatcherStep
  <2>1. res.obj \in Objects
    BY <1>0 DEF TypeOK, EngineTypeOK, WorkerResult
  <2> QED
    BY <1>4, <2>1, WorkerResultStep DEF DispatcherStep, StepOf
<1>5. ASSUME NEW cr \in commitResults, OnCommitResult(cr)
      PROVE  DispatcherStep
  <2>1. cr.obj \in Objects
    BY <1>0 DEF TypeOK, PublisherTypeOK, CommitResult
  <2> QED
    BY <1>5, <2>1, CommitResultStep DEF DispatcherStep, StepOf
<1> QED
  BY <1>1, <1>2, <1>3, <1>4, <1>5 DEF DispatcherNext

---------------------------------------------------------------------------
(* A step of one object leaves the others alone.                           *)

(* Nothing of o has entered a stage in this step.                          *)
NoNews(o) ==
  /\ \A t \in tasks' : t.obj = o => t \in tasks
  /\ \A res \in results' : res.obj = o => res \in results
  /\ \A env \in commitCh' : env.commit.obj = o => env \in commitCh
  /\ \A job \in publishing' : JobObject(job) = o => job \in publishing
  /\ \A cr \in commitResults' : cr.obj = o => cr \in commitResults

LEMMA PassesAlone ==
  ASSUME NEW o, NEW c, NEW q, NEW k, Passes(o, c, q, k), UNCHANGED publishing,
         results' \subseteq results, commitResults' \subseteq commitResults,
         NEW p \in Objects, p # o
  PROVE  ctl'[p] = ctl[p] /\ NoNews(p)
<1>1. ctl'[p] = ctl[p]
  BY DEF Passes
<1>2. CASE UNCHANGED <<tasks, commitCh>>
  BY <1>1, <1>2 DEF NoNews
<1>3. CASE SendsTask(o, c.route)
  BY <1>1, <1>3 DEF SendsTask, TaskFor, NoNews
<1>4. CASE CommitsRemoval(o, c.route)
  BY <1>1, <1>4 DEF CommitsRemoval, Carries, NoNews
<1> QED
  BY <1>2, <1>3, <1>4 DEF Passes, Waits

LEMMA StepIsLocal ==
  ASSUME TypeOK, NEW o \in Objects, StepOf(o), UNCHANGED dispatcherFrame,
         NEW p \in Objects, p # o
  PROVE  ctl'[p] = ctl[p] /\ NoNews(p)
<1>0. UNCHANGED publishing
  BY DEF dispatcherFrame
<1>1. CASE Registers(o)
  <2>1. ctl'[p] = ctl[p] /\ UNCHANGED <<tasks, results, commitResults>>
    BY <1>1 DEF Registers, receiptFrame
  <2>2. ctl'[o].env.commit.obj = o /\ commitCh' = commitCh \cup {ctl'[o].env}
    BY <1>1 DEF Registers, Carries
  <2> QED
    BY <1>0, <2>1, <2>2 DEF NoNews
<1>7. ASSUME NEW res \in results, Submits(o, res)
       PROVE  ctl'[p] = ctl[p] /\ NoNews(p)
  <2>1. ctl'[p] = ctl[p] /\ results' \subseteq results /\ UNCHANGED <<tasks, commitResults>>
    BY <1>7 DEF Submits, TakesResult
  <2>2. ctl'[o].env.commit.obj = o /\ commitCh' = commitCh \cup {ctl'[o].env}
    BY <1>7 DEF Submits, Carries
  <2> QED
    BY <1>0, <2>1, <2>2 DEF NoNews
<1>2. CASE Takes(o)
  BY <1>0, <1>2, PassesAlone DEF Takes, receiptFrame
<1>3. CASE Queues(o)
  BY <1>0, <1>3 DEF Queues, receiptFrame, NoNews, TypeOK
<1>4. CASE \E res \in results : Declines(o, res)
  BY <1>0, <1>4, PassesAlone DEF Declines, TakesResult
<1>5. ASSUME NEW cr \in commitResults, Fails(o, cr) \/ Confirms(o, cr)
      PROVE  ctl'[p] = ctl[p] /\ NoNews(p)
  <2>1. results' \subseteq results /\ commitResults' \subseteq commitResults
    BY <1>5 DEF Fails, Confirms, TakesCommitResult
  <2>2. CASE Fails(o, cr)
    BY <1>0, <2>1, <2>2, PassesAlone DEF Fails
  <2>3. CASE Confirms(o, cr)
    BY <1>0, <2>1, <2>3, PassesAlone DEF Confirms
  <2> QED
    BY <1>5, <2>2, <2>3
<1>6. ASSUME NEW cr \in commitResults, Closes(o, cr)
      PROVE  ctl'[p] = ctl[p] /\ NoNews(p)
  BY <1>0, <1>6 DEF Closes, TakesCommitResult, NoNews, TypeOK
<1> QED
  BY <1>1, <1>2, <1>3, <1>4, <1>5, <1>6, <1>7 DEF StepOf

(* What the mailbox of o knows stays true as long as its mailbox is left   *)
(* alone and nothing of it enters a stage.                                 *)
LEMMA StagedStays ==
  ASSUME NEW o, Staged(o), ctl'[o] = ctl[o], NoNews(o), cancelled => cancelled'
  PROVE  Staged(o)'
<1>1. MailboxOK(o)'
  BY DEF Staged, MailboxOK, Carries
<1>2. \A t \in tasks' : t.obj = o => TaskStaged(o, t)'
  BY DEF Staged, NoNews, TaskStaged
<1>3. \A res \in results' : res.obj = o => ResultStaged(o, res)'
  BY DEF Staged, NoNews, ResultStaged
<1>4. \A env \in commitCh' : env.commit.obj = o => ctl'[o].env = env
  BY DEF Staged, NoNews
<1>5. \A job \in publishing' : JobObject(job) = o => ctl'[o].env = job.env
  BY DEF Staged, NoNews
<1>6. \A cr \in commitResults' : cr.obj = o => CommitResultStaged(o, cr)'
  BY DEF Staged, NoNews, CommitResultStaged
<1> QED
  BY <1>1, <1>2, <1>3, <1>4, <1>5, <1>6 DEF Staged

(* A mailbox that has just handed its envelope to the publisher.           *)
LEMMA SubmittedStaged ==
  ASSUME NEW o, NoTask(o)', NoResult(o)', NoEnvelope(o), NoJob(o)', NoCommitResult(o)',
         ctl'[o].head.obj = o, \A i \in DOMAIN ctl'[o].queue : ctl'[o].queue[i].obj = o,
         ctl'[o].env # None, Carries(o)', commitCh' = commitCh \cup {ctl'[o].env}
  PROVE  Staged(o)'
<1>1. ctl'[o].head # None
  BY DEF Carries
<1>2. MailboxOK(o)'
  BY <1>1 DEF MailboxOK
<1> QED
  BY <1>2 DEF Staged, NoTask, NoResult, NoEnvelope, NoJob, NoCommitResult

(* A mailbox that has just been passed on.                                 *)
LEMMA PassedStaged ==
  ASSUME NEW o \in Objects, NEW c \in Ctl, c.head = None, c.env = None,
         NEW q \in Seq(Command), \A i \in DOMAIN q : q[i].obj = o,
         NEW k \in 0..Len(q), Passes(o, c, q, k),
         NoTask(o), NoEnvelope(o), NoResult(o)', NoJob(o)', NoCommitResult(o)'
  PROVE  Staged(o)'
<1>1. CASE k = Len(q) /\ Waits(o, c)
  <2>1. ctl'[o].head = None /\ ctl'[o].env = None /\ ctl'[o].queue = <<>>
    BY <1>1 DEF Waits, Ctl
  <2>2. MailboxOK(o)'
    BY <2>1 DEF MailboxOK
  <2> QED
    BY <1>1, <2>2 DEF Waits, Staged, NoTask, NoResult, NoEnvelope, NoJob, NoCommitResult
<1>2. CASE /\ k < Len(q)
           /\ ctl'[o].head = q[k + 1] /\ ctl'[o].queue = SubSeq(q, k + 2, Len(q))
           /\ ctl'[o].head.kind \in {"update", "remove"}
           /\ SendsTask(o, c.route) \/ CommitsRemoval(o, c.route)
  <2>1. Len(q) \in Nat /\ DOMAIN q = 1..Len(q) /\ k + 1 \in 1..Len(q)
    BY <1>2, LenProperties
  <2>2. ctl'[o].head \in Command /\ ctl'[o].head.obj = o /\ ctl'[o].head # None
    BY <1>2, <2>1, NoneAssumption
  <2>3. \A i \in DOMAIN ctl'[o].queue : ctl'[o].queue[i].obj = o
    <3>1. SubSeq(q, k + 2, Len(q)) = [i \in 1..(Len(q) - (k + 2) + 1) |-> q[i + (k + 2) - 1]]
      BY <2>1
    <3>2. \A i \in DOMAIN SubSeq(q, k + 2, Len(q)) : SubSeq(q, k + 2, Len(q))[i].obj = o
      BY <2>1, <3>1
    <3> QED
      BY <1>2, <3>2
  <2>4. CASE SendsTask(o, c.route)
    <3>1. MailboxOK(o)'
      BY <1>2, <2>2, <2>3, <2>4 DEF SendsTask, MailboxOK
    <3>2. \A t \in tasks' : t.obj = o => TaskStaged(o, t)'
      BY <2>4 DEF SendsTask, TaskFor, TaskStaged, NoTask
    <3> QED
      BY <2>4, <3>1, <3>2 DEF SendsTask, Staged, NoResult, NoEnvelope, NoJob, NoCommitResult
  <2>5. CASE CommitsRemoval(o, c.route)
    <3>1. NoTask(o)'
      BY <2>5 DEF CommitsRemoval, NoTask
    <3> QED
      BY <2>2, <2>3, <2>5, <3>1, SubmittedStaged DEF CommitsRemoval
  <2> QED
    BY <1>2, <2>4, <2>5
<1> QED
  BY <1>1, <1>2 DEF Passes

LEMMA DispatcherKeepsStaged ==
  ASSUME StagedInv, DispatcherStep, NEW p \in Objects
  PROVE  Staged(p)'
<1> USE DEF StagedInv
<1>1. UNCHANGED <<publishing, cancelled>>
  BY DEF DispatcherStep, dispatcherFrame
<1>2. CASE Refuses
  <2>1. ctl'[p] = ctl[p] /\ NoNews(p)
    BY <1>1, <1>2 DEF Refuses, receiptFrame, NoNews
  <2> QED
    BY <1>1, <2>1, StagedStays
<1>3. ASSUME NEW o \in Objects, StepOf(o), p # o
      PROVE  Staged(p)'
  BY <1>1, <1>3, StepIsLocal, StagedStays DEF DispatcherStep, IInv
<1>4. ASSUME StepOf(p)
      PROVE  Staged(p)'
  <2>0. /\ AtMostOneInFlight /\ MailboxOwned /\ MailboxOK(p)
        /\ ctl[p] \in Ctl /\ ctl[p].queue \in Seq(Command)
    BY DEF IInv, TypeOK, Ctl, Staged
  <2>1. ctl[p].head = None =>
          NoTask(p) /\ NoResult(p) /\ NoEnvelope(p) /\ NoJob(p) /\ NoCommitResult(p)
    BY <2>0, Alone DEF NoTask, NoResult, NoEnvelope, NoJob, NoCommitResult
  <2>2. CASE Registers(p)
    <3>1. ctl[p].head = None
      BY <2>0, <2>2 DEF Registers, MailboxOwned
    <3>2. NoTask(p)' /\ NoResult(p)' /\ NoEnvelope(p) /\ NoJob(p)' /\ NoCommitResult(p)'
      BY <1>1, <2>1, <2>2, <3>1
         DEF Registers, receiptFrame, NoTask, NoResult, NoJob, NoCommitResult
    <3>3. DOMAIN ctl'[p].queue = {}
      BY <2>2 DEF Registers
    <3> QED
      BY <2>2, <3>2, <3>3, SubmittedStaged DEF Registers
  <2>3. CASE Takes(p)
    <3>1. ctl[p].head = None /\ ctl[p].env = None
      BY <2>0, <2>3 DEF Takes, MailboxOK
    <3>2. NoResult(p)' /\ NoJob(p)' /\ NoCommitResult(p)'
      BY <1>1, <2>1, <2>3, <3>1 DEF Takes, receiptFrame, NoResult, NoJob, NoCommitResult
    <3>3. PICK cmd \in Command : \E k \in 0..1 : cmd.obj = p /\ Passes(p, ctl[p], <<cmd>>, k)
      BY <2>3 DEF Takes
    <3>4. <<cmd>> \in Seq(Command) /\ Len(<<cmd>>) = 1 /\ \A i \in DOMAIN <<cmd>> : <<cmd>>[i].obj = p
      BY <3>3
    <3> QED
      BY <2>0, <2>1, <3>1, <3>2, <3>3, <3>4, PassedStaged
  <2>4. CASE Queues(p)
    <3>1. PICK cmd \in Command : cmd.obj = p /\ ctl' = [ctl EXCEPT ![p].queue = Append(@, cmd)]
      BY <2>4 DEF Queues
    <3>2. /\ ctl'[p].head = ctl[p].head /\ ctl'[p].env = ctl[p].env /\ ctl'[p].inst = ctl[p].inst
          /\ ctl'[p].seq = ctl[p].seq /\ ctl'[p].queue = Append(ctl[p].queue, cmd)
      BY <2>0, <3>1 DEF IInv, TypeOK, Ctl
    <3>3. \A i \in DOMAIN Append(ctl[p].queue, cmd) : Append(ctl[p].queue, cmd)[i].obj = p
      BY <2>0, <3>1, AppendProperties DEF MailboxOK
    <3>4. ctl[p].env # None => Carries(p)'
      BY <2>0, <3>2 DEF MailboxOK, Carries
    <3>5. MailboxOK(p)'
      BY <2>0, <2>4, <3>2, <3>3, <3>4 DEF MailboxOK, Queues
    <3>6. UNCHANGED <<tasks, results, commitCh, commitResults>>
      BY <2>4 DEF Queues, receiptFrame
    <3> QED
      BY <1>1, <3>2, <3>5, <3>6 DEF Staged, TaskStaged, ResultStaged, CommitResultStaged
  <2>5. ASSUME NEW res \in results, Declines(p, res) \/ Submits(p, res)
        PROVE  Staged(p)'
    <3>1. /\ NoTask(p) /\ NoEnvelope(p) /\ NoJob(p) /\ NoCommitResult(p)
          /\ \A u \in results : u.obj = p => u = res
      BY <2>0, <2>5, Alone DEF Declines, Submits, TakesResult
    <3>2. NoResult(p)' /\ NoJob(p)' /\ NoCommitResult(p)'
      BY <1>1, <2>5, <3>1
         DEF Declines, Submits, TakesResult, NoResult, NoJob, NoCommitResult
    <3>3. CASE Declines(p, res)
      <4>1. Released(ctl[p]) \in Ctl /\ Released(ctl[p]).head = None /\ Released(ctl[p]).env = None
        BY <2>0, CtlType DEF Released, Ctl
      <4>2. \A i \in DOMAIN ctl[p].queue : ctl[p].queue[i].obj = p
        BY <2>0 DEF MailboxOK
      <4> QED
        BY <2>0, <3>1, <3>2, <3>3, <4>1, <4>2, PassedStaged DEF Declines
    <3>4. CASE Submits(p, res)
      <4>1. ctl'[p].head = ctl[p].head /\ ctl'[p].queue = ctl[p].queue
        BY <2>0, <3>4 DEF Submits, Ctl
      <4>2. NoTask(p)' /\ ctl[p].head # None
        BY <3>1, <3>4 DEF Submits, TakesResult, NoTask
      <4> QED
        BY <2>0, <3>1, <3>2, <3>4, <4>1, <4>2, SubmittedStaged DEF Submits, MailboxOK
    <3> QED
      BY <2>5, <3>3, <3>4
  <2>6. ASSUME NEW cr \in commitResults, Fails(p, cr) \/ Closes(p, cr) \/ Confirms(p, cr)
        PROVE  Staged(p)'
    <3>1. /\ NoTask(p) /\ NoResult(p) /\ NoEnvelope(p) /\ NoJob(p)
          /\ \A u \in commitResults : u.obj = p => u = cr
      BY <2>0, <2>6, Alone DEF Fails, Closes, Confirms, TakesCommitResult
    <3>2. NoResult(p)' /\ NoJob(p)' /\ NoCommitResult(p)'
      BY <1>1, <2>6, <3>1
         DEF Fails, Closes, Confirms, TakesCommitResult, NoResult, NoJob, NoCommitResult
    <3>3. /\ Released(ctl[p]) \in Ctl /\ Released(ctl[p]).head = None /\ Released(ctl[p]).env = None
          /\ \A i \in DOMAIN ctl[p].queue : ctl[p].queue[i].obj = p
      BY <2>0, CtlType DEF Released, Ctl, MailboxOK
    <3>4. CASE Fails(p, cr)
      BY <2>0, <3>1, <3>2, <3>3, <3>4, PassedStaged DEF Fails
    <3>5. CASE Confirms(p, cr)
      <4> DEFINE d == [Released(ctl[p]) EXCEPT !.seq = cr.seq]
      <4>1. cr.seq \in Nat
        BY DEF IInv, TypeOK, PublisherTypeOK, CommitResult
      <4>2. d \in Ctl /\ d.head = None /\ d.env = None
        BY <3>3, <4>1, CtlType DEF Ctl
      <4>3. PICK k \in 0..Len(ctl[p].queue) : Passes(p, d, ctl[p].queue, k)
        BY <3>5 DEF Confirms
      <4> HIDE DEF d
      <4> QED
        BY <2>0, <3>1, <3>2, <3>3, <4>2, <4>3, PassedStaged
    <3>6. CASE Closes(p, cr)
      <4>1. ctl'[p] = NoCtl /\ UNCHANGED <<tasks, commitCh>>
        BY <3>6 DEF Closes, IInv, TypeOK
      <4>2. MailboxOK(p)'
        BY <4>1 DEF MailboxOK, NoCtl
      <4>3. NoTask(p)' /\ NoEnvelope(p)'
        BY <3>1, <4>1 DEF NoTask, NoEnvelope
      <4> QED
        BY <3>2, <4>2, <4>3 DEF Staged, NoTask, NoResult, NoEnvelope, NoJob, NoCommitResult
    <3> QED
      BY <2>6, <3>4, <3>5, <3>6
  <2> QED
    BY <1>4, <2>2, <2>3, <2>4, <2>5, <2>6 DEF StepOf
<1> QED
  BY <1>2, <1>3, <1>4 DEF DispatcherStep

---------------------------------------------------------------------------
(* The steps of the workers and of the publisher.                          *)

(* A worker answers task t with res.                                       *)
Worked(t, res) ==
  /\ t \in tasks /\ Answered(t, res) /\ UNCHANGED workerFrame
  /\ res.obj = t.obj /\ res.op = t.op
  /\ res.ready /\ t.kind # "remove" => res.pt = t.pt
  /\ \A p \in Objects : p # t.obj =>
       /\ pubRegion'[p] = pubRegion[p] /\ deleted'[p] = deleted[p]
       /\ \A r \in Regions : tree'[r][p] = tree[r][p]

LEMMA MovedAlone ==
  ASSUME EngineTypeOK, NEW o \in Objects, NEW from, NEW to, NEW pt, Moved(o, from, to, pt),
         NEW p \in Objects, p # o
  PROVE  \A r \in Regions : tree'[r][p] = tree[r][p]
BY DEF EngineTypeOK, Moved

LEMMA WorkerSteps ==
  ASSUME EngineTypeOK, NEW t \in tasks,
         ProcessInit(t) \/ ProcessUpdate(t) \/ ProcessTransition(t) \/ ProcessRemove(t)
  PROVE  \E res : Worked(t, res)
<1>0. t.obj \in Objects
  BY DEF EngineTypeOK, WorkerTask
<1>1. UNCHANGED workerFrame
  BY DEF ProcessInit, ProcessUpdate, ProcessTransition, ProcessRemove
<1>2. CASE Refused(t)
  <2>1. Rejection(t).obj = t.obj /\ Rejection(t).op = t.op /\ ~Rejection(t).ready
    BY DEF Rejection, Result
  <2>2. Worked(t, Rejection(t))
    BY <1>1, <1>2, <2>1 DEF Refused, Worked
  <2> QED
    BY <2>2
<1>3. ASSUME NEW from, NEW to, NEW pt, Moved(t.obj, from, to, pt),
             NEW old, NEW inside, NEW trans, NEW at,
             Answered(t, Result(t, old, at, inside, trans)),
             t.kind # "remove" => at = t.pt,
             \A p \in Objects : p # t.obj => pubRegion'[p] = pubRegion[p] /\ deleted'[p] = deleted[p]
      PROVE  \E res : Worked(t, res)
  <2> DEFINE res == Result(t, old, at, inside, trans)
  <2>1. res.obj = t.obj /\ res.op = t.op /\ res.pt = at
    BY DEF Result
  <2>2. \A p \in Objects : p # t.obj => \A r \in Regions : tree'[r][p] = tree[r][p]
    BY <1>0, <1>3, MovedAlone
  <2>3. Answered(t, res)
    BY <1>3
  <2> HIDE DEF res
  <2>4. Worked(t, res)
    BY <1>1, <1>3, <2>1, <2>2, <2>3 DEF Worked
  <2> QED
    BY <2>4
<1>4. CASE ProcessInit(t) /\ ~Refused(t)
  <2>1. /\ Moved(t.obj, None, t.region, t.pt)
        /\ pubRegion' = [pubRegion EXCEPT ![t.obj] = t.region] /\ UNCHANGED deleted
    BY <1>4 DEF ProcessInit
  <2>2. PICK trans : Answered(t, Result(t, None, t.pt, Inside(t.region, t.pt), trans))
    BY <1>4 DEF ProcessInit
  <2>3. \A p \in Objects : p # t.obj => pubRegion'[p] = pubRegion[p] /\ deleted'[p] = deleted[p]
    BY <2>1 DEF EngineTypeOK
  <2> QED
    BY <1>3, <2>1, <2>2, <2>3
<1>5. CASE ProcessUpdate(t) /\ ~Refused(t)
  <2>1. Moved(t.obj, None, t.region, t.pt) /\ UNCHANGED <<pubRegion, deleted>>
    BY <1>5 DEF ProcessUpdate
  <2>2. PICK trans : Answered(t, Result(t, None, t.pt, Inside(t.region, t.pt), trans))
    BY <1>5 DEF ProcessUpdate
  <2> QED
    BY <1>3, <2>1, <2>2
<1>6. CASE ProcessTransition(t) /\ ~Refused(t)
  <2>1. /\ Moved(t.obj, t.old, t.region, t.pt)
        /\ pubRegion' = [pubRegion EXCEPT ![t.obj] = t.region] /\ UNCHANGED deleted
    BY <1>6 DEF ProcessTransition
  <2>2. PICK exits, trans :
          Answered(t, Result(t, t.old, t.pt, Inside(t.region, t.pt), exits \o trans))
    BY <1>6 DEF ProcessTransition
  <2>3. \A p \in Objects : p # t.obj => pubRegion'[p] = pubRegion[p] /\ deleted'[p] = deleted[p]
    BY <2>1 DEF EngineTypeOK
  <2> QED
    BY <1>3, <2>1, <2>2, <2>3
<1>7. CASE ProcessRemove(t) /\ t.obj \in registered
  <2>1. /\ Moved(t.obj, t.region, None, None) /\ t.kind = "remove"
        /\ pubRegion' = [pubRegion EXCEPT ![t.obj] = None]
        /\ deleted' = [deleted EXCEPT ![t.obj] = TRUE]
    BY <1>7 DEF ProcessRemove
  <2>2. PICK exits : Answered(t, Result(t, t.region, tree[t.region][t.obj], {}, exits))
    BY <1>7 DEF ProcessRemove
  <2>3. \A p \in Objects : p # t.obj => pubRegion'[p] = pubRegion[p] /\ deleted'[p] = deleted[p]
    BY <2>1 DEF EngineTypeOK
  <2> QED
    BY <1>3, <2>1, <2>2, <2>3
<1>8. CASE ProcessRemove(t) /\ t.obj \notin registered
  <2> DEFINE res == Result(t, None, None, {}, <<>>)
  <2>1. /\ Answered(t, res) /\ t.kind = "remove" /\ UNCHANGED <<tree, pubRegion, deleted>>
    BY <1>8 DEF ProcessRemove
  <2>2. res.obj = t.obj /\ res.op = t.op
    BY DEF Result
  <2> HIDE DEF res
  <2>3. Worked(t, res)
    BY <1>1, <2>1, <2>2 DEF Worked
  <2> QED
    BY <2>3
<1> QED
  BY <1>2, <1>4, <1>5, <1>6, <1>7, <1>8

(* No worker is involved in a change of the areas.                         *)
AreaStep ==
  \/ \E a \in Areas, r \in Regions : RegisterArea(a, r)
  \/ \E a \in Areas : RemoveAreaStart(a)
  \/ \E r \in Regions : RemoveAreaFrom(r)

LEMMA AreaStepFrame ==
  ASSUME AreaStep
  PROVE  UNCHANGED <<tree, registered, pubRegion, deleted, tasks, results>>
BY DEF AreaStep, RegisterArea, RemoveAreaStart, RemoveAreaFrom

LEMMA EngineKeepsStaged ==
  ASSUME StagedInv, EngineNext, UNCHANGED <<publisherVars, dispatcherVars>>, NEW p \in Objects
  PROVE  Staged(p)'
<1> USE DEF StagedInv
<1>1. UNCHANGED <<commitCh, publishing, commitResults, cancelled, ctl>>
  BY DEF publisherVars, dispatcherVars
<1>2. ASSUME NEW t \in tasks, NEW res, Worked(t, res)
      PROVE  Staged(p)'
  <2>1. tasks' = tasks \ {t} /\ results' = results \cup {res} /\ res.obj = t.obj
    BY <1>2 DEF Worked, Answered
  <2>2. CASE p # t.obj
    <3>1. NoNews(p)
      BY <1>1, <2>1, <2>2 DEF NoNews, JobObject
    <3> QED
      BY <1>1, <3>1, StagedStays
  <2>3. CASE p = t.obj
    <3>1. TaskStaged(p, t) /\ NoResult(p) /\ \A u \in tasks : u.obj = p => u = t
      BY <2>3, Alone DEF IInv, Staged
    <3>2. ResultStaged(p, res)'
      BY <1>1, <1>2, <3>1 DEF Worked, TaskStaged, ResultStaged
    <3>3. MailboxOK(p)'
      BY <1>1 DEF Staged, MailboxOK, Carries
    <3>4. \A cr \in commitResults' : cr.obj = p => CommitResultStaged(p, cr)'
      BY <1>1 DEF Staged, CommitResultStaged
    <3>5. \A u \in results' : u.obj = p => ResultStaged(p, u)'
      BY <2>1, <3>1, <3>2 DEF NoResult
    <3>6. \A u \in tasks' : u.obj = p => TaskStaged(p, u)'
      BY <2>1, <3>1
    <3>7. /\ \A env \in commitCh' : env.commit.obj = p => ctl'[p].env = env
          /\ \A job \in publishing' : JobObject(job) = p => ctl'[p].env = job.env
      BY <1>1 DEF Staged
    <3> QED
      BY <3>3, <3>4, <3>5, <3>6, <3>7 DEF Staged
  <2> QED
    BY <2>2, <2>3
<1>3. CASE AreaStep
  <2>1. NoNews(p)
    BY <1>1, <1>3, AreaStepFrame DEF NoNews, JobObject
  <2> QED
    BY <1>1, <2>1, StagedStays
<1> QED
  BY <1>2, <1>3, WorkerSteps DEF EngineNext, AreaStep, IInv, TypeOK

(* What a job publishes is the envelope it was given.                      *)
LEMMA JobKeepsEnvelope ==
  ASSUME NEW job \in Job
  PROVE  Confirmed(job).env = job.env /\ Retried(job).env = job.env
BY DEF Confirmed, Retried, Job

LEMMA PublisherKeepsStaged ==
  ASSUME StagedInv, PublisherNext, UNCHANGED <<engineVars, dispatcherVars>>, NEW p \in Objects
  PROVE  Staged(p)'
<1> USE DEF StagedInv
<1>1. UNCHANGED <<tasks, results, ctl>> /\ (cancelled => cancelled')
  BY DEF engineVars, dispatcherVars, PublisherNext, TakeEnvelope, PublishConfirmed,
         PublishVerified, PublishUnconfirmed, PublishFailed, ReturnResult, DropResult, Cancel
<1>2. /\ MailboxOK(p)'
      /\ \A t \in tasks' : t.obj = p => TaskStaged(p, t)'
      /\ \A res \in results' : res.obj = p => ResultStaged(p, res)'
  <2>1. MailboxOK(p)'
    BY <1>1 DEF Staged, MailboxOK, Carries
  <2>2. \A t \in tasks' : t.obj = p => TaskStaged(p, t)'
    BY <1>1 DEF Staged, TaskStaged
  <2>3. \A res \in results' : res.obj = p => ResultStaged(p, res)'
    BY <1>1 DEF Staged, ResultStaged
  <2> QED
    BY <2>1, <2>2, <2>3
<1>3. \A cr \in commitResults : cr.obj = p => CommitResultStaged(p, cr)'
  BY <1>1 DEF Staged, CommitResultStaged
<1>4. ASSUME NEW env \in commitCh, TakeEnvelope(env)
      PROVE  Staged(p)'
  <2>1. JobObject(NewJob(env)) = env.commit.obj /\ NewJob(env).env = env
    BY DEF JobObject, NewJob
  <2>2. \A job \in publishing' : JobObject(job) = p => ctl'[p].env = job.env
    BY <1>1, <1>4, <2>1 DEF TakeEnvelope, Staged
  <2> QED
    BY <1>1, <1>2, <1>3, <1>4, <2>2 DEF TakeEnvelope, Staged
<1>5. ASSUME NEW job \in publishing, NEW new, new.env = job.env, ReplaceJob(job, new),
             UNCHANGED <<commitCh, commitResults>>
      PROVE  Staged(p)'
  <2>1. JobObject(new) = JobObject(job)
    BY <1>5 DEF JobObject
  <2>2. \A u \in publishing' : JobObject(u) = p => ctl'[p].env = u.env
    BY <1>1, <1>5, <2>1 DEF ReplaceJob, Staged
  <2> QED
    BY <1>1, <1>2, <1>3, <1>5, <2>2 DEF Staged
<1>6. ASSUME NEW job \in publishing,
             PublishConfirmed(job) \/ PublishVerified(job) \/ PublishUnconfirmed(job)
               \/ PublishFailed(job)
      PROVE  Staged(p)'
  <2>1. job \in Job
    BY DEF IInv, TypeOK, PublisherTypeOK
  <2> QED
    BY <1>5, <1>6, <2>1, JobKeepsEnvelope
       DEF PublishConfirmed, PublishVerified, PublishUnconfirmed, PublishFailed
<1>7. ASSUME NEW job \in publishing, ReturnResult(job)
      PROVE  Staged(p)'
  <2> DEFINE cr == ResultOf(job, ~JobFinished(job))
  <2>1. /\ cr.obj = JobObject(job) /\ cr.seq = job.env.commit.seq /\ cr.op = job.env.commit.op
        /\ cr.failed => cancelled
    BY <1>7 DEF ResultOf, ReturnResult
  <2>2. /\ publishing' = publishing \ {job} /\ commitResults' = commitResults \cup {cr}
        /\ UNCHANGED <<commitCh, cancelled>>
    BY <1>7 DEF ReturnResult
  <2>3. JobObject(job) = p => job.env \in Envelope /\ ctl[p].env = job.env
    BY DEF IInv, TypeOK, PublisherTypeOK, Job, Staged
  <2> HIDE DEF cr
  <2>4. cr.obj = p => CommitResultStaged(p, cr)'
    BY <1>1, <2>1, <2>3, NoneAssumption DEF CommitResultStaged
  <2> QED
    BY <1>1, <1>2, <1>3, <2>2, <2>4 DEF Staged
<1>8. CASE (\E job \in publishing : DropResult(job)) \/ Cancel
  <2>1. NoNews(p)
    BY <1>1, <1>8 DEF DropResult, Cancel, NoNews, JobObject
  <2> QED
    BY <1>1, <2>1, StagedStays
<1> QED
  BY <1>4, <1>6, <1>7, <1>8 DEF PublisherNext

---------------------------------------------------------------------------
(* Commands are answered once.                                             *)

(* Command n is held by the mailbox of o: it is the head or waits.         *)
InLine(o, n) ==
  \/ ctl[o].head # None /\ ctl[o].head.op = n
  \/ \E i \in DOMAIN ctl[o].queue : ctl[o].queue[i].op = n

(* A mailbox holds its commands in the order they were received.           *)
Ordered(o) ==
  LET c == ctl[o]
  IN  /\ c.head # None => c.head.op < nextOp
      /\ \A i \in DOMAIN c.queue : /\ c.queue[i].op < nextOp
                                   /\ c.head # None => c.head.op < c.queue[i].op
                                   /\ \A j \in DOMAIN c.queue : j < i => c.queue[j].op < c.queue[i].op

Apart == \A o, p \in Objects : \A n \in Ops : InLine(o, n) /\ InLine(p, n) => o = p

Unanswered ==
  \A n \in Ops : /\ Len(replies[n]) <= 1
                 /\ n >= nextOp \/ (\E o \in Objects : InLine(o, n)) => replies[n] = <<>>

AnsweredInv == StagedInv /\ (\A o \in Objects : Ordered(o)) /\ Apart /\ Unanswered

(* Command n comes into the mailbox of o in this step, or was held before. *)
Holds(o, n) == InLine(o, n) \/ (n = nextOp /\ Receive)

(* What a step of the dispatcher for o does to the line of o: no command   *)
(* but a new one joins it, and those that are answered have left it.       *)
LineStep(o) ==
  /\ Ordered(o)'
  /\ \A n : InLine(o, n)' => Holds(o, n)
  /\ nextOp' = nextOp \/ Receive
  /\ \E oks, errs : /\ Answer(oks, errs)
                    /\ \A n \in oks \cup errs : ~InLine(o, n)' /\ Holds(o, n)

Increasing(q) == \A i, j \in DOMAIN q : i < j => q[i].op < q[j].op

LEMMA PassedLine ==
  ASSUME TypeOK, TypeOK', NEW o \in Objects, NEW c \in Ctl, c.head = None,
         NEW q \in Seq(Command), Increasing(q),
         \A i \in DOMAIN q : q[i].op < nextOp',
         NEW k \in 0..Len(q), Passes(o, c, q, k)
  PROVE  /\ Ordered(o)'
         /\ \A n : InLine(o, n)' => \E i \in (k + 1)..Len(q) : q[i].op = n
         /\ \A n \in OpsOf(SubSeq(q, 1, k)) : \E i \in 1..k : q[i].op = n
         /\ \A n \in OpsOf(SubSeq(q, 1, k)) : ~InLine(o, n)'
<1>1. Len(q) \in Nat /\ DOMAIN q = 1..Len(q) /\ \A i \in 1..Len(q) : q[i] \in Command
  BY LenProperties
<1>0. \A i \in 1..Len(q) : q[i].op \in Nat
  BY <1>1, DispatcherAssumption DEF Command, Ops
<1>2. \A n \in OpsOf(SubSeq(q, 1, k)) : \E i \in 1..k : q[i].op = n
  BY <1>1 DEF OpsOf
<1>3. /\ Ordered(o)'
      /\ \A n : InLine(o, n)' => \E i \in (k + 1)..Len(q) : q[i].op = n
  <2>1. CASE k = Len(q) /\ Waits(o, c)
    <3>1. ctl'[o].head = None /\ DOMAIN ctl'[o].queue = {}
      BY <2>1 DEF Waits, Ctl
    <3> QED
      BY <3>1 DEF Ordered, InLine
  <2>2. CASE /\ k < Len(q)
             /\ ctl'[o].head = q[k + 1] /\ ctl'[o].queue = SubSeq(q, k + 2, Len(q))
    <3> DEFINE r == ctl'[o].queue
    <3>1. k + 1 \in 1..Len(q) /\ DOMAIN r = 1..(Len(q) - k - 1)
          /\ \A i \in DOMAIN r : i + k + 1 \in 1..Len(q) /\ r[i] = q[i + k + 1]
      BY <1>1, <2>2
    <3> HIDE DEF r
    <3>2. ctl'[o].head.op < nextOp'
      BY <1>1, <2>2, <3>1
    <3>3. ASSUME NEW i \in DOMAIN r
          PROVE  /\ r[i].op < nextOp' /\ ctl'[o].head.op < r[i].op
                 /\ \A j \in DOMAIN r : j < i => r[j].op < r[i].op
      <4>1. i + k + 1 \in 1..Len(q) /\ r[i] = q[i + k + 1] /\ i \in 1..(Len(q) - k - 1)
        BY <3>1
      <4>2. r[i].op < nextOp'
        BY <1>1, <4>1
      <4>3. q[k + 1].op < q[i + k + 1].op
        <5>1. k + 1 < i + k + 1
          BY <1>1, <4>1
        <5> QED
          BY <1>1, <3>1, <4>1, <5>1 DEF Increasing
      <4>4. ASSUME NEW j \in DOMAIN r, j < i
            PROVE  r[j].op < r[i].op
        <5>1. j + k + 1 \in 1..Len(q) /\ r[j] = q[j + k + 1] /\ j \in 1..(Len(q) - k - 1)
          BY <3>1
        <5>2. j + k + 1 < i + k + 1
          BY <1>1, <4>1, <4>4, <5>1
        <5> QED
          BY <1>1, <4>1, <5>1, <5>2 DEF Increasing
      <4> QED
        BY <2>2, <4>1, <4>2, <4>3, <4>4
    <3>4. Ordered(o)'
      BY <3>2, <3>3 DEF Ordered, r
    <3>5. ASSUME NEW n, InLine(o, n)'
          PROVE  \E i \in (k + 1)..Len(q) : q[i].op = n
      <4>1. CASE ctl'[o].head.op = n
        BY <1>1, <2>2, <4>1
      <4>2. ASSUME NEW i \in DOMAIN r, r[i].op = n
            PROVE  \E j \in (k + 1)..Len(q) : q[j].op = n
        <5>1. i + k + 1 \in (k + 1)..Len(q) /\ q[i + k + 1].op = n
          BY <1>1, <3>1, <4>2
        <5> QED
          BY <5>1
      <4> QED
        BY <3>5, <4>1, <4>2 DEF InLine, r
    <3> QED
      BY <3>4, <3>5
  <2> QED
    BY <2>1, <2>2 DEF Passes
<1>4. ASSUME NEW n \in OpsOf(SubSeq(q, 1, k)), InLine(o, n)'
      PROVE  FALSE
  <2>1. PICK i \in 1..k : q[i].op = n
    BY <1>2
  <2>2. PICK j \in (k + 1)..Len(q) : q[j].op = n
    BY <1>3, <1>4
  <2>3. i < j /\ i \in 1..Len(q) /\ j \in 1..Len(q)
    BY <1>1
  <2> QED
    BY <1>0, <1>1, <2>1, <2>2, <2>3 DEF Increasing
<1> QED
  BY <1>2, <1>3, <1>4

LEMMA QueueIncreases ==
  ASSUME TypeOK, NEW o \in Objects, Ordered(o)
  PROVE  Increasing(ctl[o].queue) /\ \A i \in DOMAIN ctl[o].queue : ctl[o].queue[i].op < nextOp
BY DEF Ordered, Increasing

(* The head has left, what waited was passed on.                           *)
LEMMA HeadAnswered ==
  ASSUME TypeOK, TypeOK', NEW o \in Objects, Ordered(o), ctl[o].head # None, UNCHANGED nextOp,
         NEW c \in Ctl, c.head = None, NEW k \in 0..Len(ctl[o].queue),
         Passes(o, c, ctl[o].queue, k)
  PROVE  /\ Ordered(o)'
         /\ \A n : InLine(o, n)' => InLine(o, n)
         /\ \A n \in {ctl[o].head.op} \cup OpsOf(SubSeq(ctl[o].queue, 1, k)) :
              ~InLine(o, n)' /\ InLine(o, n)
<1> DEFINE q == ctl[o].queue
<1>0. ctl[o] \in Ctl /\ \A cmd \in Command : cmd.op \in Nat
  BY DispatcherAssumption DEF TypeOK, Command, Ops
<1>1. q \in Seq(Command) /\ Len(q) \in Nat /\ DOMAIN q = 1..Len(q)
      /\ \A i \in 1..Len(q) : q[i].op \in Nat
  <2>1. q \in Seq(Command)
    BY <1>0 DEF Ctl
  <2> HIDE DEF q
  <2> QED
    BY <1>0, <2>1, LenProperties, ElementOfSeq
<1>2. ctl[o].head.op \in Nat
  BY <1>0 DEF Ctl
<1>3. /\ Ordered(o)'
      /\ \A n : InLine(o, n)' => \E i \in (k + 1)..Len(q) : q[i].op = n
      /\ \A n \in OpsOf(SubSeq(q, 1, k)) : \E i \in 1..k : q[i].op = n
      /\ \A n \in OpsOf(SubSeq(q, 1, k)) : ~InLine(o, n)'
  <2>1. Increasing(q) /\ \A i \in DOMAIN q : q[i].op < nextOp'
    BY QueueIncreases
  <2> QED
    BY <1>1, <2>1, PassedLine
<1>4. ASSUME NEW n, n = ctl[o].head.op, InLine(o, n)'
      PROVE  FALSE
  <2>1. \A i \in 1..Len(q) : ctl[o].head.op < q[i].op
    BY <1>1 DEF Ordered
  <2>2. PICK i \in (k + 1)..Len(q) : q[i].op = n
    BY <1>3, <1>4
  <2>3. i \in 1..Len(q)
    BY <1>1
  <2> HIDE DEF q
  <2> QED
    BY <1>1, <1>2, <1>4, <2>1, <2>2, <2>3
<1>5. \A i \in 1..Len(q) : InLine(o, q[i].op)
  BY <1>1 DEF InLine
<1>6. InLine(o, ctl[o].head.op)
  BY DEF InLine
<1>7. (\A i \in (k + 1)..Len(q) : i \in 1..Len(q)) /\ (\A i \in 1..k : i \in 1..Len(q))
  BY <1>1
<1> HIDE DEF q
<1>8. \A n : InLine(o, n)' => InLine(o, n)
  BY <1>3, <1>5, <1>7
<1>9. \A n \in OpsOf(SubSeq(q, 1, k)) : InLine(o, n)
  BY <1>3, <1>5, <1>7
<1> QED
  BY <1>3, <1>4, <1>6, <1>8, <1>9 DEF q

LEMMA ReleasedFree ==
  ASSUME NEW c \in Ctl
  PROVE  Released(c) \in Ctl /\ Released(c).head = None /\ Released(c).env = None
BY CtlType DEF Released, Ctl

LEMMA LineSteps ==
  ASSUME AnsweredInv, TypeOK', NEW o \in Objects, StepOf(o)
  PROVE  LineStep(o)
<1>0. /\ TypeOK /\ Ordered(o) /\ MailboxOK(o) /\ ctl[o] \in Ctl /\ ctl[o].queue \in Seq(Command)
      /\ nextOp \in Nat /\ AtMostOneInFlight /\ MailboxOwned
  BY DEF AnsweredInv, StagedInv, IInv, TypeOK, Ctl, Staged
<1>1. ASSUME UNCHANGED replies
      PROVE  Answer({}, {})
  BY <1>0, <1>1 DEF Answer, TypeOK
<1>2. CASE Registers(o)
  <2>1. ctl'[o].head.op = nextOp /\ DOMAIN ctl'[o].queue = {} /\ nextOp' = nextOp + 1
    BY <1>2 DEF Registers, Receive
  <2>2. Ordered(o)'
    BY <1>0, <2>1 DEF Ordered
  <2>3. \A n : InLine(o, n)' => Holds(o, n)
    BY <1>2, <2>1 DEF InLine, Holds, Registers
  <2> QED
    BY <1>1, <1>2, <2>2, <2>3 DEF LineStep, Registers
<1>3. CASE Takes(o)
  <2>1. PICK cmd \in Command, k \in 0..1 :
          /\ cmd.op = nextOp
          /\ Answer({}, OpsOf(SubSeq(<<cmd>>, 1, k)))
          /\ Passes(o, ctl[o], <<cmd>>, k)
    BY <1>3 DEF Takes
  <2>2. <<cmd>> \in Seq(Command) /\ Len(<<cmd>>) = 1 /\ Increasing(<<cmd>>) /\ k \in 0..Len(<<cmd>>)
    BY DEF Increasing
  <2>3. ctl[o].head = None /\ nextOp' = nextOp + 1 /\ Receive
    BY <1>3 DEF Takes, Receive
  <2>4. \A i \in DOMAIN <<cmd>> : <<cmd>>[i].op < nextOp'
    BY <1>0, <2>1, <2>3
  <2>5. /\ Ordered(o)'
        /\ \A n : InLine(o, n)' => \E i \in (k + 1)..Len(<<cmd>>) : <<cmd>>[i].op = n
        /\ \A n \in OpsOf(SubSeq(<<cmd>>, 1, k)) : \E i \in 1..k : <<cmd>>[i].op = n
        /\ \A n \in OpsOf(SubSeq(<<cmd>>, 1, k)) : ~InLine(o, n)'
    BY <1>0, <2>1, <2>2, <2>3, <2>4, PassedLine
  <2>6. \A i \in 1..1 : <<cmd>>[i].op = nextOp
    BY <2>1
  <2>7. \A n : InLine(o, n)' => n = nextOp
    BY <2>2, <2>5, <2>6
  <2>8. \A n \in OpsOf(SubSeq(<<cmd>>, 1, k)) : n = nextOp
    BY <2>2, <2>5, <2>6
  <2> QED
    BY <2>1, <2>3, <2>5, <2>7, <2>8 DEF LineStep, Holds
<1>4. CASE Queues(o)
  <2>1. PICK cmd \in Command : cmd.op = nextOp /\ ctl' = [ctl EXCEPT ![o].queue = Append(@, cmd)]
    BY <1>4 DEF Queues
  <2>2. /\ ctl'[o].head = ctl[o].head /\ ctl'[o].queue = Append(ctl[o].queue, cmd)
        /\ nextOp' = nextOp + 1 /\ Receive /\ ctl[o].head # None
    BY <1>0, <1>4, <2>1 DEF TypeOK, Ctl, Queues, Receive
  <2> DEFINE q == ctl[o].queue
             r == ctl'[o].queue
  <2>3. /\ DOMAIN q = 1..Len(q) /\ Len(q) \in Nat /\ DOMAIN r = 1..(Len(q) + 1)
        /\ \A i \in DOMAIN q : r[i] = q[i] /\ q[i].op \in Nat
        /\ r[Len(q) + 1].op = nextOp /\ ctl[o].head.op \in Nat
    <3>1. q \in Seq(Command) /\ r = Append(q, cmd) /\ \A c \in Command : c.op \in Nat
      BY <1>0, <2>2, DispatcherAssumption DEF Command, Ops
    <3>2. ctl[o].head \in Command
      BY <1>0, <2>2 DEF Ctl
    <3> HIDE DEF q, r
    <3>3. /\ DOMAIN q = 1..Len(q) /\ Len(q) \in Nat /\ DOMAIN r = 1..(Len(q) + 1)
          /\ \A i \in DOMAIN q : r[i] = q[i] /\ q[i] \in Command
          /\ r[Len(q) + 1] = cmd
      BY <3>1, AppendProperties, LenProperties
    <3> QED
      BY <2>1, <3>1, <3>2, <3>3
  <2>6. /\ ctl[o].head.op < nextOp
        /\ \A i \in DOMAIN q : /\ q[i].op < nextOp /\ ctl[o].head.op < q[i].op
                              /\ \A j \in DOMAIN q : j < i => q[j].op < q[i].op
    BY <1>0, <2>2 DEF Ordered
  <2>4. Ordered(o)'
    <3>1. ctl'[o].head.op < nextOp'
      BY <1>0, <2>2, <2>3, <2>6
    <3>2. ASSUME NEW i \in DOMAIN r
          PROVE  /\ r[i].op < nextOp' /\ ctl'[o].head.op < r[i].op
                 /\ \A j \in DOMAIN r : j < i => r[j].op < r[i].op
      <4> HIDE DEF q, r
      <4>1. CASE i \in DOMAIN q
        <5>1. \A j \in DOMAIN r : j < i => j \in DOMAIN q
          BY <2>3, <4>1
        <5> QED
          BY <1>0, <2>2, <2>3, <2>6, <4>1, <5>1
      <4>2. CASE i = Len(q) + 1
        <5>1. \A j \in DOMAIN r : j < i => j \in DOMAIN q
          BY <2>3, <4>2
        <5> QED
          BY <1>0, <2>2, <2>3, <2>6, <4>2, <5>1
      <4> QED
        BY <2>3, <4>1, <4>2
    <3> QED
      BY <3>1, <3>2 DEF Ordered
  <2>5. \A n : InLine(o, n)' => Holds(o, n)
    BY <2>2, <2>3 DEF InLine, Holds
  <2> QED
    BY <1>1, <1>4, <2>2, <2>4, <2>5 DEF LineStep, Queues
<1>5. ASSUME NEW res \in results, Declines(o, res)
      PROVE  LineStep(o)
  <2>1. PICK k \in 0..Len(ctl[o].queue) :
          /\ Answer({}, {ctl[o].head.op} \cup OpsOf(SubSeq(ctl[o].queue, 1, k)))
          /\ Passes(o, Released(ctl[o]), ctl[o].queue, k)
    BY <1>5 DEF Declines
  <2>2. Released(ctl[o]) \in Ctl /\ Released(ctl[o]).head = None
    BY <1>0, ReleasedFree
  <2>3. ctl[o].head # None /\ UNCHANGED nextOp
    BY <1>5 DEF Declines, TakesResult
  <2> QED
    BY <1>0, <2>1, <2>2, <2>3, HeadAnswered DEF LineStep, Holds
<1>6. ASSUME NEW res \in results, Submits(o, res)
      PROVE  LineStep(o)
  <2>1. /\ ctl'[o].head = ctl[o].head /\ ctl'[o].queue = ctl[o].queue
        /\ UNCHANGED <<nextOp, replies>>
    BY <1>0, <1>6 DEF Submits, TakesResult, Ctl
  <2>2. Ordered(o)'
    BY <1>0, <2>1 DEF Ordered
  <2> QED
    BY <1>1, <2>1, <2>2 DEF LineStep, Holds, InLine
<1>7. ASSUME NEW cr \in commitResults, Fails(o, cr)
      PROVE  LineStep(o)
  <2>1. PICK k \in 0..Len(ctl[o].queue) :
          /\ Answer({}, {ctl[o].head.op} \cup OpsOf(SubSeq(ctl[o].queue, 1, k)))
          /\ Passes(o, Released(ctl[o]), ctl[o].queue, k)
    BY <1>7 DEF Fails
  <2>2. Released(ctl[o]) \in Ctl /\ Released(ctl[o]).head = None
    BY <1>0, ReleasedFree
  <2>3. ctl[o].head # None /\ UNCHANGED nextOp
    BY <1>7 DEF Fails, TakesCommitResult
  <2> QED
    BY <1>0, <2>1, <2>2, <2>3, HeadAnswered DEF LineStep, Holds
<1>8. ASSUME NEW cr \in commitResults, Confirms(o, cr) \/ Closes(o, cr)
      PROVE  LineStep(o)
  <2>1. cr.op = ctl[o].head.op /\ ctl[o].head # None /\ UNCHANGED nextOp /\ cr.seq \in Nat
    <3>1. cr.obj = o /\ cr \in commitResults /\ UNCHANGED nextOp
      BY <1>8 DEF Confirms, Closes, TakesCommitResult
    <3>2. CommitResultStaged(o, cr)
      BY <3>1 DEF AnsweredInv, StagedInv, Staged
    <3> QED
      BY <1>0, <3>1, <3>2 DEF CommitResultStaged, MailboxOK, Carries, TypeOK, PublisherTypeOK,
                              CommitResult
  <2>2. CASE Confirms(o, cr)
    <3> DEFINE d == [Released(ctl[o]) EXCEPT !.seq = cr.seq]
    <3>1. PICK k \in 0..Len(ctl[o].queue) :
            /\ Answer({cr.op}, OpsOf(SubSeq(ctl[o].queue, 1, k)))
            /\ Passes(o, d, ctl[o].queue, k)
      BY <2>2 DEF Confirms
    <3>2. d \in Ctl /\ d.head = None
      <4>1. PICK c : c = Released(ctl[o])
        OBVIOUS
      <4>2. c \in Ctl /\ c.head = None
        BY <1>0, <4>1, CtlType DEF Released, Ctl
      <4>3. d = [c EXCEPT !.seq = cr.seq] /\ d \in Ctl
        BY <2>1, <4>1, <4>2, CtlType
      <4>4. d.head = c.head
        BY <4>2, <4>3 DEF Ctl
      <4> QED
        BY <4>2, <4>3, <4>4
    <3> HIDE DEF d
    <3> QED
      BY <1>0, <2>1, <3>1, <3>2, HeadAnswered DEF LineStep, Holds
  <2>3. CASE Closes(o, cr)
    <3>1. ctl'[o].head = None /\ DOMAIN ctl'[o].queue = {}
      BY <2>3 DEF Closes, TypeOK, NoCtl
    <3>2. Ordered(o)' /\ \A n : ~InLine(o, n)'
      BY <3>1 DEF Ordered, InLine
    <3>3. \A n \in {cr.op} \cup OpsOf(ctl[o].queue) : InLine(o, n)
      BY <2>1 DEF InLine, OpsOf
    <3> QED
      BY <2>1, <2>3, <3>2, <3>3 DEF LineStep, Holds, Closes
  <2> QED
    BY <1>8, <2>2, <2>3
<1> QED
  BY <1>2, <1>3, <1>4, <1>5, <1>6, <1>7, <1>8 DEF StepOf

LEMMA InLineBelow ==
  ASSUME NEW o, NEW n, Ordered(o), InLine(o, n)
  PROVE  n < nextOp
BY DEF Ordered, InLine

LEMMA OrderedStays ==
  ASSUME TypeOK, NEW o \in Objects, Ordered(o), ctl'[o] = ctl[o], nextOp' \in Nat,
         nextOp <= nextOp'
  PROVE  Ordered(o)'
<1>1. /\ ctl[o].head # None => ctl[o].head \in Command
      /\ \A i \in DOMAIN ctl[o].queue : ctl[o].queue[i] \in Command
      /\ nextOp \in Nat
  BY DEF TypeOK, Ctl
<1>2. \A cmd \in Command : cmd.op \in Nat
  BY DispatcherAssumption DEF Command, Ops
<1> QED
  BY <1>1, <1>2 DEF Ordered

(* What a step answers was not answered before.                            *)
LEMMA AnsweredWereOpen ==
  ASSUME AnsweredInv, NEW o \in Objects, NEW n \in Ops, Holds(o, n)
  PROVE  replies[n] = <<>>
<1>1. n >= nextOp \/ InLine(o, n)
  BY DispatcherAssumption DEF Holds, AnsweredInv, StagedInv, IInv, TypeOK, Ops
<1> QED
  BY <1>1 DEF AnsweredInv, Unanswered

LEMMA AnswersStay ==
  ASSUME AnsweredInv, NEW o \in Objects, LineStep(o), NEW n \in Ops, replies[n] # <<>>
  PROVE  replies'[n] = replies[n]
<1>1. PICK oks, errs : /\ Answer(oks, errs)
                       /\ \A m \in oks \cup errs : Holds(o, m)
  BY DEF LineStep
<1>2. n \notin oks \cup errs
  BY <1>1, AnsweredWereOpen
<1> QED
  BY <1>1, <1>2 DEF Answer

LEMMA LinesStay ==
  ASSUME AnsweredInv, StagedInv', UNCHANGED <<ctl, nextOp, replies>>
  PROVE  AnsweredInv'
<1>1. \A o \in Objects : Ordered(o)'
  BY DEF AnsweredInv, Ordered
<1>2. Apart' /\ Unanswered'
  BY DEF AnsweredInv, Apart, Unanswered, InLine
<1> QED
  BY <1>1, <1>2 DEF AnsweredInv

LEMMA LenOfAnswer == Len(<<>>) = 0 /\ Len(<<"ok">>) = 1 /\ Len(<<"err">>) = 1
OBVIOUS

LEMMA DispatcherKeepsAnswered ==
  ASSUME AnsweredInv, DispatcherStep, StagedInv'
  PROVE  AnsweredInv'
<1>0. /\ TypeOK /\ TypeOK' /\ nextOp \in Nat /\ Ops \subseteq Nat
      /\ \A n \in Ops : replies[n] \in Seq({"ok", "err"})
      /\ Apart /\ Unanswered /\ \A o \in Objects : Ordered(o)
  BY DispatcherAssumption DEF AnsweredInv, StagedInv, IInv, TypeOK, Ops
<1>1. ASSUME NEW n \in Ops, replies[n] = <<>>, NEW oks, NEW errs, Answer(oks, errs)
      PROVE  Len(replies'[n]) <= 1
  <2>1. replies'[n] = <<>> \/ replies'[n] = <<"ok">> \/ replies'[n] = <<"err">>
    <3>1. Append(<<>>, "ok") = <<"ok">> /\ Append(<<>>, "err") = <<"err">>
      OBVIOUS
    <3> QED
      BY <1>1, <3>1 DEF Answer
  <2> DEFINE L == Len(replies'[n])
  <2>2. L = 0 \/ L = 1
    BY <2>1, LenOfAnswer, Zenon
  <2> HIDE DEF L
  <2>3. L <= 1
    BY <2>2
  <2> QED
    BY <2>3, Zenon DEF L
<1>2. CASE Refuses
  <2>1. /\ Answer({}, {nextOp}) /\ nextOp' = nextOp + 1 /\ UNCHANGED ctl
    BY <1>2 DEF Refuses, Receive
  <2>2. \A o \in Objects : Ordered(o)'
    BY <1>0, <2>1, OrderedStays
  <2>3. Apart'
    BY <1>0, <2>1 DEF Apart, InLine
  <2>4. ASSUME NEW n \in Ops
        PROVE  /\ Len(replies'[n]) <= 1
               /\ n >= nextOp' \/ (\E o \in Objects : InLine(o, n)') => replies'[n] = <<>>
    <3>1. CASE n = nextOp
      <4>1. replies[n] = <<>>
        BY <1>0, <3>1 DEF Unanswered
      <4>2. Len(replies'[n]) <= 1
        BY <1>1, <2>1, <4>1
      <4>3. ~(n >= nextOp')
        BY <1>0, <2>1, <3>1
      <4>4. \A o \in Objects : InLine(o, n)' => n < nextOp
        BY <1>0, <2>1, InLineBelow DEF InLine
      <4> QED
        BY <1>0, <3>1, <4>2, <4>3, <4>4
    <3>2. CASE n # nextOp
      <4>1. replies'[n] = replies[n]
        BY <2>1, <3>2 DEF Answer
      <4>2. n >= nextOp' => n >= nextOp
        BY <1>0, <2>1
      <4>3. \A o \in Objects : InLine(o, n)' => InLine(o, n)
        BY <2>1 DEF InLine
      <4> QED
        BY <1>0, <4>1, <4>2, <4>3 DEF Unanswered
    <3> QED
      BY <3>1, <3>2
  <2> QED
    BY <2>2, <2>3, <2>4 DEF AnsweredInv, Unanswered
<1>3. ASSUME NEW o \in Objects, StepOf(o)
      PROVE  AnsweredInv'
  <2>1. LineStep(o)
    BY <1>0, <1>3, LineSteps
  <2>2. PICK oks, errs : /\ Answer(oks, errs)
                         /\ \A n \in oks \cup errs : ~InLine(o, n)' /\ Holds(o, n)
    BY <2>1 DEF LineStep
  <2>3. nextOp' \in Nat /\ nextOp <= nextOp' /\ (Receive => nextOp' = nextOp + 1)
    BY <1>0, <2>1 DEF LineStep, Receive
  <2>4. \A p \in Objects : p # o => ctl'[p] = ctl[p]
    BY <1>0, <1>3, StepIsLocal DEF DispatcherStep
  <2>5. ASSUME NEW p \in Objects, p # o
        PROVE  Ordered(p)' /\ \A n : InLine(p, n)' <=> InLine(p, n)
    <3>1. Ordered(p)'
      BY <1>0, <2>3, <2>4, <2>5, OrderedStays
    <3>2. \A n : InLine(p, n)' <=> InLine(p, n)
      BY <2>4, <2>5 DEF InLine
    <3> QED
      BY <3>1, <3>2
  <2>6. \A p \in Objects : Ordered(p)'
    BY <2>1, <2>5 DEF LineStep
  <2>7. ASSUME NEW p \in Objects, NEW n \in Ops, p # o, InLine(p, n)
        PROVE  ~Holds(o, n)
    <3>1. n < nextOp
      BY <1>0, <2>7, InLineBelow
    <3>2. ~InLine(o, n)
      BY <1>0, <2>7 DEF Apart
    <3> QED
      BY <1>0, <3>1, <3>2 DEF Holds
  <2>8. Apart'
    <3>1. ASSUME NEW p \in Objects, NEW n \in Ops, InLine(p, n)', InLine(o, n)'
          PROVE  p = o
      BY <2>1, <2>5, <2>7, <3>1 DEF LineStep
    <3>2. ASSUME NEW p \in Objects, NEW u \in Objects, NEW n \in Ops, InLine(p, n)', InLine(u, n)',
                 p # o, u # o
          PROVE  p = u
      BY <1>0, <2>5, <3>2 DEF Apart
    <3> QED
      BY <3>1, <3>2 DEF Apart
  <2>9. ASSUME NEW n \in Ops
        PROVE  Len(replies'[n]) <= 1
    <3>1. CASE replies[n] = <<>>
      BY <1>1, <2>2, <3>1
    <3>2. CASE replies[n] # <<>>
      BY <1>0, <2>1, <3>2, AnswersStay DEF Unanswered
    <3> QED
      BY <3>1, <3>2
  <2>10. ASSUME NEW n \in Ops, n >= nextOp' \/ \E p \in Objects : InLine(p, n)'
         PROVE  replies'[n] = <<>>
    <3>1. n \notin oks \cup errs
      <4>1. CASE n >= nextOp'
        <5>1. ~InLine(o, n)
          BY <1>0, <2>3, <4>1, InLineBelow
        <5>2. ~Holds(o, n)
          BY <1>0, <2>3, <4>1, <5>1 DEF Holds
        <5> QED
          BY <2>2, <5>2
      <4>2. ASSUME NEW p \in Objects, InLine(p, n)', p # o
            PROVE  n \notin oks \cup errs
        BY <2>2, <2>5, <2>7, <4>2
      <4> QED
        BY <2>2, <2>10, <4>1, <4>2
    <3>2. replies'[n] = replies[n]
      BY <2>2, <3>1 DEF Answer
    <3>3. replies[n] = <<>>
      <4>1. CASE n >= nextOp'
        <5>1. n >= nextOp
          BY <1>0, <2>3, <4>1
        <5> QED
          BY <1>0, <5>1 DEF Unanswered
      <4>2. ASSUME NEW p \in Objects, InLine(p, n)', p # o
            PROVE  replies[n] = <<>>
        BY <1>0, <2>5, <4>2 DEF Unanswered
      <4>3. CASE InLine(o, n)'
        BY <2>1, <4>3, AnsweredWereOpen DEF LineStep
      <4> QED
        BY <2>10, <4>1, <4>2, <4>3
    <3> QED
      BY <3>2, <3>3
  <2> QED
    BY <2>6, <2>8, <2>9, <2>10 DEF AnsweredInv, Unanswered
<1> QED
  BY <1>2, <1>3 DEF DispatcherStep

(* The invariant holds at the start, and every step of Dispatcher keeps it. *)
LEMMA InitAnswered ==
  ASSUME Init
  PROVE  AnsweredInv
<1>1. InFlight = {}
  BY DEF Init, EngineInit, PublisherInit, InFlight
<1>2. IInv
  BY <1>1, InitType DEF Init, NoCtl, MailboxOwned, IInv, AtMostOneInFlight
<1>3. \A o \in Objects : ctl[o] = NoCtl /\ NoCtl.head = None /\ NoCtl.env = None /\ NoCtl.queue = <<>>
  BY DEF Init, NoCtl
<1>4. tasks = {} /\ results = {} /\ commitCh = {} /\ publishing = {} /\ commitResults = {}
  BY DEF Init, EngineInit, PublisherInit
<1>5. \A o \in Objects : Staged(o)
  BY <1>3, <1>4 DEF Staged, MailboxOK
<1>6. \A o \in Objects : Ordered(o) /\ \A n : ~InLine(o, n)
  BY <1>3 DEF Ordered, InLine
<1>7. Unanswered
  BY <1>6 DEF Unanswered, Init
<1> QED
  BY <1>2, <1>5, <1>6, <1>7 DEF AnsweredInv, StagedInv, Apart

LEMMA NextKeepsAnswered ==
  ASSUME AnsweredInv, [Next]_vars
  PROVE  AnsweredInv'
<1> USE DEF AnsweredInv, StagedInv
<1>1. IInv'
  BY NextKeepsIInv
<1>2. CASE DispatcherNext
  <2>1. DispatcherStep
    BY <1>2, DispatcherSteps
  <2>2. StagedInv'
    BY <1>1, <2>1, DispatcherKeepsStaged
  <2> QED
    BY <2>1, <2>2, DispatcherKeepsAnswered
<1>3. CASE EngineNext /\ UNCHANGED <<publisherVars, dispatcherVars>>
  BY <1>1, <1>3, EngineKeepsStaged, LinesStay DEF dispatcherVars
<1>4. CASE PublisherNext /\ UNCHANGED <<engineVars, dispatcherVars>>
  BY <1>1, <1>4, PublisherKeepsStaged, LinesStay DEF dispatcherVars
<1>5. CASE UNCHANGED vars
  <2>1. \A o \in Objects : NoNews(o) /\ ctl'[o] = ctl[o] /\ UNCHANGED cancelled
    BY <1>5 DEF vars, engineVars, publisherVars, dispatcherVars, NoNews, JobObject
  <2>2. \A o \in Objects : Staged(o)'
    BY <2>1, StagedStays
  <2> QED
    BY <1>1, <1>5, <2>2, LinesStay DEF vars, dispatcherVars
<1> QED
  BY <1>2, <1>3, <1>4, <1>5 DEF Next

(* A command gets at most one answer, however receipt, results, failures   *)
(* and confirmations interleave, and whatever waits behind it.             *)
THEOREM AtMostOneAnswer == Spec => []AnsweredOnce
<1>1. Init => AnsweredInv
  BY InitAnswered
<1>2. AnsweredInv /\ [Next]_vars => AnsweredInv'
  BY NextKeepsAnswered
<1>3. AnsweredInv => AnsweredOnce
  BY DEF AnsweredInv, Unanswered, AnsweredOnce
<1> QED
  BY <1>1, <1>2, <1>3, PTL DEF Spec

---------------------------------------------------------------------------
(* A command that was told an error left nothing in the stream.            *)

(* A command with an event in the stream is acknowledged, or is the head   *)
(* of its mailbox with its commit at the publisher.                        *)
Placed(o, n) ==
  /\ n \in Ops
  /\ replies[n] = <<"ok">> \/ (ctl[o].env # None /\ ctl[o].head.op = n)

Written ==
  ~cancelled => \A o \in Objects : \A i \in DOMAIN stream[o] : Placed(o, stream[o][i].op)

WrittenInv == AnsweredInv /\ Written

(* What a job publishes: the commit of the head, or a projection of it.    *)
LEMMA Message ==
  ASSUME StagedInv, NEW job \in publishing, ~JobFinished(job)
  PROVE  /\ JobObject(job) \in Objects /\ job \in Job
         /\ ctl[JobObject(job)].env = job.env /\ job.env # None /\ Carries(JobObject(job))
         /\ job.env.commit \in CommitEvent
         /\ job.env.projections = Projections(job.env.commit)
         /\ MessageOf(job) \in Event
         /\ MessageOf(job).op = job.env.commit.op
         /\ ~job.committed => MessageOf(job) = job.env.commit
         /\ job.committed => /\ job.next \in 1..Len(job.env.commit.trans)
                             /\ MessageOf(job) = Projections(job.env.commit)[job.next]
<1> DEFINE o == JobObject(job)
<1>1. job \in Job /\ job.env \in Envelope /\ job.env # None /\ job.env.commit \in CommitEvent
      /\ o \in Objects /\ job.env.projections \in Seq(ProjectionEvent)
  BY NoneAssumption DEF StagedInv, IInv, TypeOK, PublisherTypeOK, Job, Envelope, CommitEvent, JobObject
<1>2. ctl[o].env = job.env /\ Carries(o)
  BY <1>1 DEF StagedInv, Staged, MailboxOK
<1>3. job.env.projections = Projections(job.env.commit)
  BY <1>2 DEF Carries
<1>4. MessageOf(job) \in Event
  BY <1>1, JobType
<1>5. job.committed => /\ job.next \in 1..Len(job.env.commit.trans)
                       /\ MessageOf(job) = Projections(job.env.commit)[job.next]
  <2>1. Len(job.env.projections) = Len(job.env.commit.trans)
        /\ Len(job.env.commit.trans) \in Nat
    <3>1. job.env.commit.trans \in Seq(Transition)
      BY <1>1 DEF CommitEvent
    <3>2. DOMAIN Projections(job.env.commit) = 1..Len(job.env.commit.trans)
      BY DEF Projections
    <3> QED
      BY <1>1, <1>3, <3>1, <3>2, LenProperties
  <2> QED
    BY <1>1, <1>3, <2>1 DEF JobFinished, MessageOf, Job
<1>6. \A k \in 1..Len(job.env.commit.trans) : Projections(job.env.commit)[k].op = job.env.commit.op
  BY DEF Projections
<1>7. ~job.committed => MessageOf(job) = job.env.commit
  BY DEF MessageOf
<1> QED
  BY <1>1, <1>2, <1>3, <1>4, <1>5, <1>6, <1>7

LEMMA DispatcherKeepsWritten ==
  ASSUME WrittenInv, DispatcherStep, TypeOK'
  PROVE  Written'
<1>0. /\ UNCHANGED <<stream, cancelled>> /\ TypeOK /\ Unanswered /\ nextOp \in Nat /\ Ops \subseteq Nat
      /\ AnsweredInv /\ StagedInv
  BY DispatcherAssumption
     DEF DispatcherStep, dispatcherFrame, WrittenInv, AnsweredInv, StagedInv, IInv, TypeOK, Ops
<1>1. ASSUME NEW p \in Objects, NEW n, Placed(p, n), ~cancelled
      PROVE  Placed(p, n)'
  <2>1. CASE Refuses
    <3>1. replies[n] # <<>> => n # nextOp
      BY <1>0, <1>1 DEF Unanswered, Placed
    <3>2. replies[n] = <<"ok">> => replies'[n] = replies[n]
      BY <1>1, <2>1, <3>1 DEF Refuses, Answer, Placed
    <3>3. UNCHANGED ctl
      BY <2>1 DEF Refuses
    <3> QED
      BY <1>1, <3>2, <3>3 DEF Placed
  <2>2. ASSUME NEW o \in Objects, StepOf(o)
        PROVE  Placed(p, n)'
    <3>1. LineStep(o)
      BY <1>0, <2>2, LineSteps
    <3>2. CASE replies[n] = <<"ok">>
      <4>1. n \in Ops /\ replies[n] # <<>>
        BY <1>1, <3>2 DEF Placed
      <4>2. replies'[n] = replies[n]
        BY <1>0, <3>1, <4>1, AnswersStay
      <4> QED
        BY <3>2, <4>1, <4>2 DEF Placed
    <3>3. CASE ctl[p].env # None /\ ctl[p].head.op = n /\ p # o
      <4>1. ctl'[p] = ctl[p]
        BY <1>0, <2>2, <3>3, StepIsLocal DEF DispatcherStep
      <4> QED
        BY <1>1, <3>3, <4>1 DEF Placed
    <3>4. CASE ctl[o].env # None /\ ctl[o].head.op = n /\ p = o
      <4>0. /\ ctl[o].head # None /\ ctl[o] \in Ctl /\ n \in Ops /\ Carries(o) /\ MailboxOwned
        BY <1>0, <1>1, <3>4 DEF StagedInv, IInv, Staged, MailboxOK, TypeOK, Placed
      <4>1. ~Registers(o) /\ ~Takes(o)
        BY <4>0 DEF Registers, Takes, MailboxOwned
      <4>2. CASE Queues(o)
        <5>1. ctl'[o].env = ctl[o].env /\ ctl'[o].head = ctl[o].head
          BY <1>0, <4>0, <4>2 DEF Queues, TypeOK, Ctl
        <5> QED
          BY <3>4, <4>0, <5>1 DEF Placed
      <4>3. ASSUME NEW res \in results, Declines(o, res) \/ Submits(o, res)
            PROVE  FALSE
        <5>1. ResultStaged(o, res)
          BY <1>0, <4>3 DEF StagedInv, Staged, Declines, Submits, TakesResult
        <5> QED
          BY <3>4, <5>1 DEF ResultStaged
      <4>4. ASSUME NEW cr \in commitResults, Fails(o, cr) \/ Closes(o, cr) \/ Confirms(o, cr)
            PROVE  Placed(p, n)'
        <5>1. CommitResultStaged(o, cr)
          BY <1>0, <4>4 DEF StagedInv, Staged, Fails, Closes, Confirms, TakesCommitResult
        <5>2. ~Fails(o, cr) /\ cr.op = n
          BY <1>1, <3>4, <4>0, <5>1 DEF Fails, CommitResultStaged, Carries
        <5>3. replies'[n] = Append(replies[n], "ok")
          BY <4>0, <4>4, <5>2 DEF Closes, Confirms, Answer
        <5>4. replies[n] = <<>>
          BY <1>0, <3>4, <4>0 DEF Unanswered, InLine
        <5>5. Append(<<>>, "ok") = <<"ok">>
          OBVIOUS
        <5> QED
          BY <4>0, <5>3, <5>4, <5>5 DEF Placed
      <4> QED
        BY <2>2, <4>1, <4>2, <4>3, <4>4 DEF StepOf
    <3> QED
      BY <1>1, <3>2, <3>3, <3>4 DEF Placed
  <2> QED
    BY <2>1, <2>2 DEF DispatcherStep
<1> HIDE DEF Placed
<1>2. ASSUME ~cancelled', NEW o \in Objects, NEW i \in DOMAIN stream'[o]
      PROVE  Placed(o, stream[o][i].op)'
  <2>1. PICK n : n = stream[o][i].op
    OBVIOUS
  <2>2. Placed(o, n)
    BY <1>0, <1>2, <2>1 DEF WrittenInv, Written
  <2>3. Placed(o, n)' /\ n = stream'[o][i].op
    BY <1>0, <1>1, <1>2, <2>1, <2>2
  <2> QED
    BY <2>3 DEF Placed
<1> QED
  BY <1>2 DEF Written

LEMMA PublisherKeepsWritten ==
  ASSUME WrittenInv, PublisherNext, UNCHANGED <<engineVars, dispatcherVars>>
  PROVE  Written'
<1>0. /\ UNCHANGED <<ctl, replies>> /\ (cancelled => cancelled') /\ StagedInv
  BY DEF dispatcherVars, PublisherNext, TakeEnvelope, PublishConfirmed, PublishVerified,
         PublishUnconfirmed, PublishFailed, ReturnResult, DropResult, Cancel, WrittenInv, AnsweredInv
<1>1. CASE UNCHANGED stream
  BY <1>0, <1>1 DEF WrittenInv, Written, Placed
<1>2. ASSUME NEW job \in publishing, ~JobFinished(job), Store(job)
      PROVE  Written'
  <2> DEFINE o == JobObject(job)
             m == MessageOf(job)
  <2>1. /\ o \in Objects /\ ctl[o].env = job.env /\ job.env # None /\ Carries(o)
        /\ m.op = job.env.commit.op
    BY <1>0, <1>2, Message
  <2>2. ctl[o].env # None /\ ctl[o].head.op = m.op /\ ctl[o].head \in Command
    BY <2>1, <1>0 DEF Carries, StagedInv, IInv, TypeOK, Ctl
  <2>3. m.op \in Ops
    BY <2>2 DEF Command
  <2>4. \A p \in Objects : stream[p] \in Seq(Event)
    BY <1>0 DEF StagedInv, IInv, TypeOK, PublisherTypeOK
  <2>5. /\ stream'[o] = Append(stream[o], m)
        /\ \A p \in Objects : p # o => stream'[p] = stream[p]
    BY <1>0, <1>2, <2>1 DEF Store, StagedInv, IInv, TypeOK, PublisherTypeOK
  <2> HIDE DEF m, o
  <2>6. ASSUME ~cancelled', NEW p \in Objects, NEW i \in DOMAIN stream'[p]
        PROVE  Placed(p, stream[p][i].op)'
    <3>1. CASE i \in DOMAIN stream[p] /\ stream'[p][i] = stream[p][i]
      BY <1>0, <2>6, <3>1 DEF WrittenInv, Written, Placed
    <3>2. CASE p = o /\ stream'[p][i] = m
      BY <1>0, <2>2, <2>3, <3>2 DEF Placed
    <3>3. p = o => \/ i \in DOMAIN stream[p] /\ stream'[p][i] = stream[p][i]
                   \/ stream'[p][i] = m
      BY <2>1, <2>4, <2>5, <2>6, AppendProperties
    <3> QED
      BY <2>5, <2>6, <3>1, <3>2, <3>3
  <2> QED
    BY <2>6 DEF Written
<1> QED
  BY <1>1, <1>2 DEF PublisherNext, TakeEnvelope, PublishConfirmed, PublishVerified,
         PublishUnconfirmed, PublishFailed, ReturnResult, DropResult, Cancel

(* While the process is not shutting down, a command that was told an      *)
(* error has left no event in the stream: a commit that reached the        *)
(* publisher is never given up before shutdown.                            *)
THEOREM ErrorsLeaveNothing == Spec => ErrorMeansNotCommitted
<1>1. Init => WrittenInv
  <2> SUFFICES ASSUME Init PROVE WrittenInv
    OBVIOUS
  <2>1. \A o \in Objects : DOMAIN stream[o] = {}
    BY DEF Init, PublisherInit
  <2> QED
    BY <2>1, InitAnswered DEF WrittenInv, Written
<1>2. WrittenInv /\ [Next]_vars => WrittenInv'
  <2> SUFFICES ASSUME WrittenInv, [Next]_vars
               PROVE  WrittenInv'
    OBVIOUS
  <2>1. AnsweredInv' /\ TypeOK' /\ StagedInv
    BY NextKeepsAnswered DEF WrittenInv, AnsweredInv, StagedInv, IInv
  <2>2. CASE DispatcherNext
    BY <2>1, <2>2, DispatcherSteps, DispatcherKeepsWritten DEF WrittenInv
  <2>3. CASE PublisherNext /\ UNCHANGED <<engineVars, dispatcherVars>>
    BY <2>1, <2>3, PublisherKeepsWritten DEF WrittenInv
  <2>4. CASE UNCHANGED <<publisherVars, dispatcherVars>>
    BY <2>1, <2>4 DEF WrittenInv, Written, Placed, publisherVars, dispatcherVars
  <2> QED
    BY <2>2, <2>3, <2>4 DEF Next, vars
<1>3. WrittenInv /\ ~cancelled => Contradicted = {}
  <2> SUFFICES ASSUME WrittenInv, ~cancelled,
                      NEW n \in Ops, "err" \in ToSet(replies[n]),
                      NEW o \in Objects, NEW i \in DOMAIN stream[o], stream[o][i].op = n
               PROVE  FALSE
    BY DEF Contradicted
  <2>1. Placed(o, n) /\ Unanswered /\ MailboxOK(o)
    BY DEF WrittenInv, Written, AnsweredInv, StagedInv, Staged
  <2>2. replies[n] = <<"ok">> \/ replies[n] = <<>>
    <3>1. CASE ctl[o].env # None /\ ctl[o].head.op = n
      <4>1. ctl[o].head # None
        BY <2>1, <3>1 DEF MailboxOK, Carries
      <4> QED
        BY <2>1, <3>1, <4>1 DEF Unanswered, InLine
    <3> QED
      BY <2>1, <3>1 DEF Placed
  <2>3. ToSet(<<>>) = {} /\ ToSet(<<"ok">>) = {"ok"}
    BY DEF ToSet
  <2> QED
    BY <2>2, <2>3
<1>4. (WrittenInv /\ ~cancelled => Contradicted = {})'
  BY <1>3, PTL
<1>5. ASSUME WrittenInv, Next, ~cancelled, cancelled'
      PROVE  UNCHANGED <<replies, stream>>
  <2>1. ~DispatcherNext
    <3>1. StagedInv
      BY <1>5 DEF WrittenInv, AnsweredInv
    <3> QED
      BY <1>5, <3>1, DispatcherSteps DEF DispatcherStep, dispatcherFrame
  <2>2. PublisherNext /\ UNCHANGED <<engineVars, dispatcherVars>>
    BY <1>5, <2>1 DEF Next, publisherVars
  <2>3. Cancel
    BY <1>5, <2>2 DEF PublisherNext, TakeEnvelope, PublishConfirmed, PublishVerified,
       PublishUnconfirmed, PublishFailed, ReturnResult, DropResult
  <2> QED
    BY <2>2, <2>3 DEF Cancel, dispatcherVars
<1>6. ASSUME WrittenInv, WrittenInv', [Next]_vars
      PROVE  [~cancelled => Contradicted' \subseteq Contradicted]_vars
  <2> SUFFICES ASSUME Next, ~cancelled
               PROVE  Contradicted' \subseteq Contradicted
    BY <1>6
  <2>1. CASE ~cancelled'
    BY <1>4, <1>6, <2>1
  <2>2. CASE cancelled'
    <3>1. UNCHANGED <<replies, stream>>
      BY <1>5, <1>6, <2>2
    <3> QED
      BY <3>1 DEF Contradicted
  <2> QED
    BY <2>1, <2>2
<1> QED
  BY <1>1, <1>2, <1>6, PTL DEF Spec, ErrorMeansNotCommitted

---------------------------------------------------------------------------
(* The workers refuse nothing: the route of a mailbox and the place the    *)
(* workers left the object in agree.                                       *)

(* The object is where its mailbox says.                                   *)
Settled(o) ==
  /\ ~deleted[o] /\ pubRegion[o] = ctl[o].route
  /\ ctl[o].route # None => tree[ctl[o].route][o] # None

Removing(o) == ctl[o].env # None /\ ctl[o].head.kind = "remove"

Routed(o) ==
  /\ o \notin registered => pubRegion[o] = None
  /\ \A t \in tasks : t.obj = o =>
       /\ ~deleted[o] /\ t.region = ctl[o].route
       /\ t.kind \in {"update", "remove"} => Settled(o)
  /\ \A res \in results : res.obj = o =>
       /\ res.ready
       /\ ctl[o].head.kind = "remove" => pubRegion[o] = None /\ res.pt # None
       /\ ctl[o].head.kind # "remove" => Settled(o)
  /\ Removing(o) => pubRegion[o] = None
  /\ o \in registered /\ NoTask(o) /\ NoResult(o) /\ ~Removing(o) => Settled(o)

RoutedInv == AnsweredInv /\ (~cancelled => \A o \in Objects : Routed(o))

(* Nothing of o has left the workers in this step.                         *)
SameInbox(o) == (NoTask(o)' => NoTask(o)) /\ (NoResult(o)' => NoResult(o))

LEMMA SettledStays ==
  ASSUME TypeOK, NEW o \in Objects, Settled(o), ctl'[o].route = ctl[o].route,
         pubRegion'[o] = pubRegion[o], deleted'[o] = deleted[o],
         \A r \in Regions : tree'[r][o] = tree[r][o]
  PROVE  Settled(o)'
<1>1. ctl[o].route # None => ctl[o].route \in Regions
  BY DEF TypeOK, Ctl, RegionOrNone
<1> QED
  BY <1>1 DEF Settled

LEMMA RoutedStays ==
  ASSUME TypeOK, NEW o \in Objects, Routed(o), ctl'[o] = ctl[o], NoNews(o), SameInbox(o),
         o \in registered' <=> o \in registered,
         pubRegion'[o] = pubRegion[o], deleted'[o] = deleted[o],
         \A r \in Regions : tree'[r][o] = tree[r][o]
  PROVE  Routed(o)'
<1>1. Settled(o) => Settled(o)'
  BY SettledStays
<1>2. Removing(o)' <=> Removing(o)
  BY DEF Removing
<1>3. \A t \in tasks' : t.obj = o =>
        /\ ~deleted'[o] /\ t.region = ctl'[o].route
        /\ t.kind \in {"update", "remove"} => Settled(o)'
  BY <1>1 DEF Routed, NoNews
<1>4. \A res \in results' : res.obj = o =>
        /\ res.ready
        /\ ctl'[o].head.kind = "remove" => pubRegion'[o] = None /\ res.pt # None
        /\ ctl'[o].head.kind # "remove" => Settled(o)'
  BY <1>1 DEF Routed, NoNews
<1>5. /\ o \notin registered' => pubRegion'[o] = None
      /\ Removing(o)' => pubRegion'[o] = None
      /\ o \in registered' /\ NoTask(o)' /\ NoResult(o)' /\ ~Removing(o)' => Settled(o)'
  BY <1>1, <1>2 DEF Routed, SameInbox
<1> QED
  BY <1>3, <1>4, <1>5 DEF Routed

(* A mailbox whose command is answered: the rest of it is as it was.       *)
LEMMA ReleasedFields ==
  ASSUME NEW c \in Ctl, NEW s \in Nat
  PROVE  LET d == [Released(c) EXCEPT !.seq = s]
         IN  /\ Released(c) \in Ctl /\ Released(c).head = None /\ Released(c).env = None
             /\ Released(c).route = c.route /\ Released(c).inst = c.inst
             /\ Released(c).seq = c.seq /\ Released(c).queue = c.queue
             /\ d \in Ctl /\ d.head = None /\ d.env = None
             /\ d.route = c.route /\ d.inst = c.inst /\ d.seq = s /\ d.queue = c.queue
<1>1. Released(c) \in Ctl
  BY CtlType
<1>2. /\ Released(c).head = None /\ Released(c).env = None
      /\ Released(c).route = c.route /\ Released(c).inst = c.inst
      /\ Released(c).seq = c.seq /\ Released(c).queue = c.queue
  BY DEF Released, Ctl
<1> DEFINE d == [Released(c) EXCEPT !.seq = s]
<1>3. d \in Ctl
  BY <1>1, CtlType
<1>4. /\ d.head = Released(c).head /\ d.env = Released(c).env /\ d.route = Released(c).route
      /\ d.inst = Released(c).inst /\ d.queue = Released(c).queue /\ d.seq = s
  BY <1>1 DEF Ctl
<1> HIDE DEF d
<1> QED
  BY <1>1, <1>2, <1>3, <1>4 DEF d

(* A settled object stays so when its mailbox is passed on.                *)
LEMMA PassedRouted ==
  ASSUME TypeOK, NEW o \in Objects, NEW c \in Ctl, c.route = ctl[o].route, c.env = None,
         NEW q \in Seq(Command), NEW k \in 0..Len(q), Passes(o, c, q, k),
         Settled(o), o \in registered', NoTask(o), NoResult(o)',
         UNCHANGED <<pubRegion, deleted, tree>>
  PROVE  Routed(o)'
<1>1. CASE k = Len(q) /\ Waits(o, c)
  <2>1. ctl'[o].route = ctl[o].route /\ ctl'[o].env = None /\ UNCHANGED tasks
    BY <1>1 DEF Waits, Ctl
  <2>2. Settled(o)'
    BY <2>1, SettledStays
  <2> QED
    BY <2>1, <2>2 DEF Routed, Removing, NoTask, NoResult
<1>2. CASE SendsTask(o, c.route)
  <2>1. PICK t : TaskFor(o, t, c.route) /\ tasks' = tasks \cup {t} /\ ctl'[o].env = None
    BY <1>2 DEF SendsTask
  <2>2. ~deleted'[o] /\ t.region = ctl'[o].route /\ t.obj = o
    BY <2>1 DEF TaskFor, Settled
  <2>3. t.kind \in {"update", "remove"} => Settled(o)'
    BY <2>1, SettledStays DEF TaskFor
  <2> QED
    BY <2>1, <2>2, <2>3 DEF Routed, Removing, NoTask, NoResult
<1>3. CASE CommitsRemoval(o, c.route)
  <2>1. pubRegion'[o] = None /\ UNCHANGED tasks /\ Removing(o)'
    BY <1>3 DEF CommitsRemoval, Settled, Removing
  <2> QED
    BY <2>1 DEF Routed, NoTask, NoResult
<1> QED
  BY <1>1, <1>2, <1>3 DEF Passes

LEMMA StepKeepsInbox ==
  ASSUME TypeOK, NEW o \in Objects, StepOf(o), UNCHANGED dispatcherFrame,
         NEW p \in Objects, p # o
  PROVE  /\ SameInbox(p) /\ (p \in registered' <=> p \in registered)
         /\ deleted'[p] = deleted[p]
<1>1. tasks \subseteq tasks'
  BY DEF StepOf, Registers, Takes, Queues, Declines, Submits, Fails, Closes, Confirms, Passes,
         Waits, SendsTask, CommitsRemoval
<1>2. \A res \in results : res.obj = p => res \in results'
  BY DEF StepOf, Registers, Takes, Queues, Declines, Submits, Fails, Closes, Confirms,
         TakesResult, TakesCommitResult, receiptFrame
<1>3. p \in registered' <=> p \in registered
  BY DEF StepOf, Registers, Takes, Queues, Declines, Submits, Fails, Closes, Confirms,
         TakesResult, TakesCommitResult
<1>4. deleted'[p] = deleted[p]
  <2>1. deleted \in [Objects -> BOOLEAN]
    BY DEF TypeOK, EngineTypeOK
  <2>2. deleted' = [deleted EXCEPT ![o] = FALSE] \/ deleted' = deleted
    BY DEF StepOf, Registers, Takes, Queues, Declines, Submits, Fails, Closes, Confirms,
           TakesResult, TakesCommitResult
  <2> QED
    BY <2>1, <2>2
<1>5. NoTask(p)' => NoTask(p)
  BY <1>1 DEF NoTask
<1>6. NoResult(p)' => NoResult(p)
  BY <1>2, Zenon DEF NoResult
<1> QED
  BY <1>3, <1>4, <1>5, <1>6 DEF SameInbox

LEMMA DispatcherKeepsRouted ==
  ASSUME RoutedInv, ~cancelled, DispatcherStep, NEW p \in Objects
  PROVE  Routed(p)'
<1>0. /\ UNCHANGED <<tree, pubRegion>> /\ UNCHANGED dispatcherFrame
      /\ TypeOK /\ StagedInv /\ AtMostOneInFlight /\ MailboxOwned
      /\ \A o \in Objects : Routed(o) /\ MailboxOK(o) /\ ctl[o] \in Ctl /\ ctl[o].queue \in Seq(Command)
  <2>1. UNCHANGED <<tree, pubRegion>> /\ UNCHANGED dispatcherFrame
    BY DEF DispatcherStep, dispatcherFrame, indexVars
  <2>2. TypeOK /\ StagedInv /\ AtMostOneInFlight /\ MailboxOwned
    BY DEF RoutedInv, AnsweredInv, StagedInv, IInv
  <2>3. \A o \in Objects : Routed(o) /\ MailboxOK(o)
    BY <2>2 DEF RoutedInv, StagedInv, Staged
  <2>4. \A o \in Objects : ctl[o] \in Ctl /\ ctl[o].queue \in Seq(Command)
    <3>1. ctl \in [Objects -> Ctl]
      BY <2>2 DEF TypeOK
    <3> QED
      BY <3>1 DEF Ctl
  <2> QED
    BY <2>1, <2>2, <2>3, <2>4
<1>1. CASE Refuses
  <2>1. /\ UNCHANGED <<ctl, registered, deleted, tasks, results>>
    BY <1>1 DEF Refuses, receiptFrame
  <2>2. NoNews(p) /\ SameInbox(p)
    BY <1>0, <1>1, <2>1
       DEF NoNews, SameInbox, NoTask, NoResult, Refuses, receiptFrame, dispatcherFrame
  <2> QED
    BY <1>0, <2>1, <2>2, RoutedStays
<1>2. ASSUME NEW o \in Objects, StepOf(o), p # o
      PROVE  Routed(p)'
  BY <1>0, <1>2, StepIsLocal, StepKeepsInbox, RoutedStays
<1>3. CASE Registers(p)
  <2>1. pubRegion[p] = None /\ ctl[p].head = None
    BY <1>0, <1>3 DEF Routed, Registers, MailboxOwned
  <2>2. NoTask(p) /\ NoResult(p)
    BY <1>0, <2>1, Alone DEF NoTask, NoResult
  <2>3. /\ UNCHANGED <<tasks, results>> /\ ctl'[p].route = None /\ ~deleted'[p]
        /\ ctl'[p].head.kind = "register"
    BY <1>0, <1>3 DEF Registers, receiptFrame, TypeOK, EngineTypeOK
  <2>4. Settled(p)' /\ ~Removing(p)'
    BY <1>0, <2>1, <2>3 DEF Settled, Removing
  <2> QED
    BY <1>0, <2>1, <2>2, <2>3, <2>4 DEF Routed, NoTask, NoResult
<1>4. CASE Takes(p)
  <2>1. ctl[p].head = None /\ ctl[p].env = None /\ p \in registered
        /\ UNCHANGED <<registered, deleted, results>>
    BY <1>0, <1>4 DEF Takes, MailboxOK, receiptFrame
  <2>2. NoTask(p) /\ NoResult(p)
    BY <1>0, <2>1, Alone DEF NoTask, NoResult
  <2>3. Settled(p) /\ NoResult(p)'
    BY <1>0, <2>1, <2>2 DEF Routed, Removing, NoResult
  <2>4. PICK cmd \in Command : \E k \in 0..1 : Passes(p, ctl[p], <<cmd>>, k)
    BY <1>4 DEF Takes
  <2>5. <<cmd>> \in Seq(Command) /\ Len(<<cmd>>) = 1
    OBVIOUS
  <2> QED
    BY <1>0, <2>1, <2>2, <2>3, <2>4, <2>5, PassedRouted
<1>5. CASE Queues(p)
  <2>1. /\ ctl'[p].head = ctl[p].head /\ ctl'[p].env = ctl[p].env /\ ctl'[p].route = ctl[p].route
        /\ UNCHANGED <<registered, deleted, tasks, results>>
    BY <1>0, <1>5 DEF Queues, TypeOK, Ctl, receiptFrame
  <2>2. Settled(p) <=> Settled(p)'
    BY <1>0, <2>1 DEF Settled
  <2> QED
    BY <1>0, <2>1, <2>2 DEF Routed, Removing, NoTask, NoResult
<1>6. ASSUME NEW res \in results, Declines(p, res) \/ Submits(p, res)
      PROVE  Routed(p)'
  <2>1. res.obj = p /\ UNCHANGED <<registered, deleted>> /\ results' = results \ {res}
    BY <1>6 DEF Declines, Submits, TakesResult
  <2>2. /\ res.ready
        /\ ctl[p].head.kind = "remove" => pubRegion[p] = None /\ res.pt # None
        /\ ctl[p].head.kind # "remove" => Settled(p)
    BY <1>0, <2>1 DEF Routed
  <2>3. ~Declines(p, res)
    <3>1. res.ready /\ Buildable(ctl[p].head, res)
      BY <2>2 DEF Buildable
    <3> QED
      BY <3>1 DEF Declines
  <2>4. NoTask(p) /\ NoResult(p)'
    BY <1>0, <2>1, Alone DEF NoTask, NoResult
  <2>5. /\ ctl'[p].head = ctl[p].head /\ ctl'[p].route = ctl[p].route /\ ctl'[p].env # None
        /\ UNCHANGED tasks
    BY <1>0, <1>6, <2>3 DEF Submits, Ctl
  <2>6. Settled(p) => Settled(p)'
    BY <1>0, <2>1, <2>5 DEF Settled
  <2>7. p \in registered /\ NoTask(p)'
    BY <1>6, <2>4, <2>5 DEF Declines, Submits, TakesResult, NoTask
  <2> QED
    BY <1>0, <2>1, <2>2, <2>4, <2>5, <2>6, <2>7 DEF Routed, Removing, NoTask, NoResult
<1>7. ASSUME NEW cr \in commitResults, Fails(p, cr) \/ Closes(p, cr) \/ Confirms(p, cr)
      PROVE  Routed(p)'
  <2>1. cr.obj = p /\ p \in registered /\ UNCHANGED <<deleted, results>> /\ ctl[p].head # None
    BY <1>7 DEF Fails, Closes, Confirms, TakesCommitResult
  <2>2. CommitResultStaged(p, cr) /\ cr.seq \in Nat
    BY <1>0, <2>1 DEF StagedInv, Staged, TypeOK, PublisherTypeOK, CommitResult
  <2>3. ctl[p].env # None /\ ~Fails(p, cr)
    BY <2>2 DEF CommitResultStaged, Fails, RoutedInv
  <2>4. NoTask(p) /\ NoResult(p)
    BY <1>0, <2>1, Alone DEF NoTask, NoResult
  <2>5. CASE Closes(p, cr)
    <3>1. p \notin registered' /\ ctl'[p].env = None /\ UNCHANGED tasks /\ pubRegion[p] = None
      BY <1>0, <2>3, <2>5 DEF Closes, Routed, Removing, NoCtl, TypeOK
    <3> QED
      BY <1>0, <2>1, <2>4, <3>1 DEF Routed, Removing, NoTask, NoResult
  <2>6. CASE Confirms(p, cr)
    <3> DEFINE d == [Released(ctl[p]) EXCEPT !.seq = cr.seq]
    <3>1. Settled(p) /\ NoResult(p)' /\ p \in registered'
      BY <1>0, <2>1, <2>4, <2>6 DEF Confirms, Routed, Removing, NoResult
    <3>2. PICK k \in 0..Len(ctl[p].queue) : Passes(p, d, ctl[p].queue, k)
      BY <2>6 DEF Confirms
    <3>3. d \in Ctl /\ d.env = None /\ d.route = ctl[p].route
      BY <1>0, <2>2, ReleasedFields
    <3> HIDE DEF d
    <3> QED
      BY <1>0, <2>1, <2>4, <3>1, <3>2, <3>3, PassedRouted
  <2> QED
    BY <1>7, <2>3, <2>5, <2>6
<1> QED
  BY <1>1, <1>2, <1>3, <1>4, <1>5, <1>6, <1>7 DEF DispatcherStep, StepOf

(* A worker finds the object where the mailbox sent the task.              *)
LEMMA WorkerRoutes ==
  ASSUME TypeOK, NEW t \in tasks, t.obj \in registered, ~deleted[t.obj],
         t.region = ctl[t.obj].route, UNCHANGED ctl, t.kind # "remove" => t.pt # None,
         t.kind \in {"update", "remove"} => Settled(t.obj),
         ProcessInit(t) \/ ProcessUpdate(t) \/ ProcessTransition(t) \/ ProcessRemove(t)
  PROVE  \E res :
           /\ Answered(t, res) /\ res.obj = t.obj /\ res.ready
           /\ t.kind = "remove" => pubRegion'[t.obj] = None /\ res.pt # None
           /\ t.kind # "remove" => Settled(t.obj)'
<1> DEFINE o == t.obj
<1>0. /\ o \in Objects /\ t.region \in Regions /\ t.region # None
      /\ tree \in [Regions -> [Objects -> PointOrNone]]
      /\ pubRegion \in [Objects -> RegionOrNone] /\ deleted \in [Objects -> BOOLEAN]
  BY DataAssumption DEF TypeOK, EngineTypeOK, WorkerTask
<1>1. ASSUME NEW old, NEW inside, NEW trans, NEW pt, NEW from,
             Answered(t, Result(t, old, pt, inside, trans)),
             t.kind # "remove", Moved(o, from, t.region, t.pt),
             pubRegion'[o] = t.region, UNCHANGED deleted
      PROVE  \E res :
               /\ Answered(t, res) /\ res.obj = o /\ res.ready
               /\ t.kind = "remove" => pubRegion'[o] = None /\ res.pt # None
               /\ t.kind # "remove" => Settled(o)'
  <2>1. tree'[t.region][o] = t.pt
    BY <1>0, <1>1 DEF Moved
  <2>2. Settled(o)'
    BY <1>0, <1>1, <2>1 DEF Settled
  <2>3. Result(t, old, pt, inside, trans).obj = o /\ Result(t, old, pt, inside, trans).ready
    BY DEF Result
  <2> QED
    BY <1>1, <2>2, <2>3
<1>2. CASE ProcessInit(t)
  <2>1. /\ Moved(o, None, t.region, t.pt) /\ t.kind = "init"
        /\ pubRegion' = [pubRegion EXCEPT ![o] = t.region] /\ UNCHANGED deleted
    BY <1>2 DEF ProcessInit
  <2>2. PICK trans : Answered(t, Result(t, None, t.pt, Inside(t.region, t.pt), trans))
    BY <1>2 DEF ProcessInit
  <2>3. pubRegion'[o] = t.region
    BY <1>0, <2>1
  <2> QED
    BY <1>1, <2>1, <2>2, <2>3
<1>3. CASE ProcessUpdate(t)
  <2>1. t.kind = "update" /\ pubRegion[o] = t.region
    BY <1>3 DEF ProcessUpdate, Settled
  <2>2. Moved(o, None, t.region, t.pt) /\ UNCHANGED <<pubRegion, deleted>>
    BY <1>3, <2>1 DEF ProcessUpdate
  <2>3. PICK trans : Answered(t, Result(t, None, t.pt, Inside(t.region, t.pt), trans))
    BY <1>3, <2>1 DEF ProcessUpdate
  <2> QED
    BY <1>1, <2>1, <2>2, <2>3
<1>4. CASE ProcessTransition(t)
  <2>1. /\ Moved(o, t.old, t.region, t.pt) /\ t.kind = "transition"
        /\ pubRegion' = [pubRegion EXCEPT ![o] = t.region] /\ UNCHANGED deleted
    BY <1>4 DEF ProcessTransition
  <2>2. PICK exits, trans :
          Answered(t, Result(t, t.old, t.pt, Inside(t.region, t.pt), exits \o trans))
    BY <1>4 DEF ProcessTransition
  <2>3. pubRegion'[o] = t.region
    BY <1>0, <2>1
  <2> QED
    BY <1>1, <2>1, <2>2, <2>3
<1>5. CASE ProcessRemove(t)
  <2>1. t.kind = "remove" /\ pubRegion' = [pubRegion EXCEPT ![o] = None]
    BY <1>5 DEF ProcessRemove
  <2>2. PICK exits : Answered(t, Result(t, t.region, tree[t.region][o], {}, exits))
    BY <1>5 DEF ProcessRemove
  <2> DEFINE res == Result(t, t.region, tree[t.region][o], {}, exits)
  <2>3. res.obj = o /\ res.ready /\ res.pt = tree[t.region][o]
    BY DEF Result
  <2>4. pubRegion'[o] = None
    BY <1>0, <2>1
  <2>5. tree[t.region][o] # None
    BY <1>0, <2>1 DEF Settled
  <2>6. Answered(t, res)
    BY <2>2
  <2> HIDE DEF res
  <2> QED
    BY <2>1, <2>3, <2>4, <2>5, <2>6
<1> QED
  BY <1>2, <1>3, <1>4, <1>5

LEMMA EngineKeepsRouted ==
  ASSUME RoutedInv, ~cancelled, EngineNext, UNCHANGED <<publisherVars, dispatcherVars>>,
         NEW p \in Objects
  PROVE  Routed(p)'
<1>0. /\ UNCHANGED <<ctl, commitCh, publishing, commitResults>>
      /\ TypeOK /\ AtMostOneInFlight /\ MailboxOwned /\ EngineTypeOK
      /\ Routed(p) /\ Staged(p)
  BY DEF publisherVars, dispatcherVars, RoutedInv, AnsweredInv, StagedInv, IInv, TypeOK
<1>1. CASE AreaStep
  <2>1. UNCHANGED <<tree, registered, pubRegion, deleted, tasks, results>>
    BY <1>1, AreaStepFrame
  <2>2. NoNews(p) /\ SameInbox(p)
    BY <1>0, <2>1 DEF NoNews, SameInbox, NoTask, NoResult, JobObject
  <2> QED
    BY <1>0, <2>1, <2>2, RoutedStays
<1>2. ASSUME NEW t \in tasks,
             ProcessInit(t) \/ ProcessUpdate(t) \/ ProcessTransition(t) \/ ProcessRemove(t)
      PROVE  Routed(p)'
  <2>1. PICK res : Worked(t, res)
    BY <1>0, <1>2, WorkerSteps
  <2>2. tasks' = tasks \ {t} /\ results' = results \cup {res} /\ res.obj = t.obj
        /\ UNCHANGED registered
    BY <2>1 DEF Worked, Answered, workerFrame
  <2>3. CASE p # t.obj
    <3>1. NoNews(p) /\ SameInbox(p)
      BY <1>0, <2>2, <2>3 DEF NoNews, SameInbox, NoTask, NoResult, JobObject
    <3>2. /\ pubRegion'[p] = pubRegion[p] /\ deleted'[p] = deleted[p]
          /\ \A r \in Regions : tree'[r][p] = tree[r][p]
      BY <2>1, <2>3 DEF Worked
    <3> QED
      BY <1>0, <2>2, <3>1, <3>2, RoutedStays
  <2>4. CASE p = t.obj
    <3>1. /\ \A u \in tasks : u.obj = p => u = t
          /\ NoResult(p) /\ ctl[p].head # None
      BY <1>0, <2>4, Alone
    <3>2. p \in registered /\ TaskStaged(p, t)
      BY <1>0, <2>4, <3>1 DEF MailboxOwned, Staged
    <3>3. /\ ~deleted[p] /\ t.region = ctl[p].route
          /\ t.kind \in {"update", "remove"} => Settled(p)
      BY <1>0, <2>4 DEF Routed
    <3>4. PICK r : /\ Answered(t, r) /\ r.obj = p /\ r.ready
                   /\ t.kind = "remove" => pubRegion'[p] = None /\ r.pt # None
                   /\ t.kind # "remove" => Settled(p)'
      BY <1>0, <1>2, <2>4, <3>2, <3>3, WorkerRoutes DEF TaskStaged
    <3>5. NoTask(p)' /\ r \in results' /\ (\A u \in results' : u.obj = p => u = r)
      BY <3>1, <3>4 DEF Answered, NoTask, NoResult
    <3>6. ~Removing(p)' /\ ~NoResult(p)' /\ (t.kind = "remove" <=> ctl'[p].head.kind = "remove")
      BY <1>0, <3>2, <3>4, <3>5 DEF Removing, TaskStaged, NoResult
    <3> QED
      BY <2>2, <3>2, <3>4, <3>5, <3>6 DEF Routed, NoTask
  <2> QED
    BY <2>3, <2>4
<1> QED
  BY <1>1, <1>2 DEF EngineNext, AreaStep

(* No worker refuses a task before shutdown: the route the dispatcher      *)
(* keeps ahead of the workers and the region they left the object in       *)
(* agree, for every order of receipts, results and answers.                *)
THEOREM WorkersNeverRefuse == Spec => []WorkersAgree
<1>1. Init => RoutedInv
  <2> SUFFICES ASSUME Init PROVE RoutedInv
    OBVIOUS
  <2>1. /\ tasks = {} /\ results = {} /\ registered = {}
        /\ \A o \in Objects : pubRegion[o] = None /\ ctl[o] = NoCtl
    BY DEF Init, EngineInit
  <2>2. NoCtl.env = None
    BY DEF NoCtl
  <2>3. \A o \in Objects : Routed(o)
    BY <2>1, <2>2 DEF Routed, Removing
  <2> QED
    BY <2>3, InitAnswered DEF RoutedInv
<1>2. RoutedInv /\ [Next]_vars => RoutedInv'
  <2> SUFFICES ASSUME RoutedInv, [Next]_vars, ~cancelled', NEW p \in Objects, AnsweredInv'
               PROVE  Routed(p)'
    BY NextKeepsAnswered DEF RoutedInv
  <2>1. StagedInv /\ TypeOK /\ (Routed(p) \/ cancelled)
    BY DEF RoutedInv, AnsweredInv, StagedInv, IInv
  <2>2. CASE DispatcherNext
    <3>1. DispatcherStep
      BY <2>2, DispatcherSteps DEF RoutedInv, AnsweredInv
    <3> QED
      BY <3>1, DispatcherKeepsRouted DEF DispatcherStep, dispatcherFrame
  <2>3. CASE EngineNext /\ UNCHANGED <<publisherVars, dispatcherVars>>
    BY <2>3, EngineKeepsRouted DEF publisherVars
  <2>4. CASE UNCHANGED <<engineVars, dispatcherVars>> /\ ~cancelled
    <3>1. Routed(p) /\ UNCHANGED <<tasks, results, registered, tree, pubRegion, deleted, ctl>>
      BY <2>4 DEF RoutedInv, engineVars, dispatcherVars
    <3>2. Settled(p)' <=> Settled(p)
      BY <3>1 DEF Settled
    <3> QED
      BY <3>1, <3>2 DEF Routed, Removing, NoTask, NoResult
  <2>5. PublisherNext \/ UNCHANGED publisherVars => ~cancelled
    BY DEF PublisherNext, TakeEnvelope, PublishConfirmed, PublishVerified, PublishUnconfirmed,
           PublishFailed, ReturnResult, DropResult, Cancel, publisherVars
  <2> QED
    BY <2>2, <2>3, <2>4, <2>5 DEF Next, vars
<1>3. RoutedInv => WorkersAgree
  <2> SUFFICES ASSUME RoutedInv, ~cancelled, NEW res \in results PROVE res.ready
    BY DEF WorkersAgree
  <2>1. res.obj \in Objects
    BY DEF RoutedInv, AnsweredInv, StagedInv, IInv, TypeOK, EngineTypeOK, WorkerResult
  <2> QED
    BY <2>1 DEF RoutedInv, Routed
<1> QED
  BY <1>1, <1>2, <1>3, PTL DEF Spec
=============================================================================
