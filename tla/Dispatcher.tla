----------------------------- MODULE Dispatcher -----------------------------
(***************************************************************************)
(* The dispatcher goroutine (internal/engine/dispatcher.go), composed with *)
(* the engine it routes work to and the publisher it submits commits to:   *)
(* the whole write path of one process, from the receipt of a command to   *)
(* its answer.                                                             *)
(*                                                                         *)
(* Each object has a mailbox, its ObjCtl: the command being processed      *)
(* (head), the commands waiting behind it, the region it was last routed   *)
(* to, its incarnation and its last commit.  The flag committing of the    *)
(* code is env # None: both are set and cleared together.                  *)
(*                                                                         *)
(* A command is received straight into the dispatcher: ingressCh only      *)
(* delays it.  A received command gets the next number, which is also the  *)
(* address of its answer.                                                  *)
(***************************************************************************)
EXTENDS Engine, Publisher

CONSTANT MaxOps  \* bound of the model: commands received

ASSUME DispatcherAssumption == MaxOps \in Nat

VARIABLES
  ctl,       \* [Objects -> Ctl]: the mailboxes
  instances, \* localInstanceCounter of the process
  bootEpoch, \* bootEpochSeq of the process
  nextOp,    \* number of the next command
  replies    \* [1..MaxOps -> Seq({"ok", "err"})]: the answers to each command

dispatcherVars == <<ctl, instances, bootEpoch, nextOp, replies>>
vars == <<engineVars, publisherVars, dispatcherVars>>

Ops == 1..MaxOps

(* An ingress envelope.  Its kind is never "transition": the dispatcher    *)
(* derives that from the route.                                            *)
Command ==
  [ op : Ops, kind : {"update"}, obj : Objects, pt : Points ] \cup
  [ op : Ops, kind : {"register", "remove"}, obj : Objects, pt : {None} ]

Ctl ==
  [ head : Command \cup {None}, queue : Seq(Command), route : RegionOrNone,
    inst : InstanceID, seq : Nat, env : Envelope \cup {None} ]

ASSUME NoneAssumption == None \notin Command \cup Envelope

NoCtl == [ head |-> None, queue |-> <<>>, route |-> None, inst |-> <<0, 0>>,
           seq |-> 0, env |-> None ]

TypeOK ==
  /\ EngineTypeOK
  /\ PublisherTypeOK
  /\ ctl \in [Objects -> Ctl]
  /\ instances \in Nat
  /\ bootEpoch \in Nat
  /\ nextOp \in Nat \ {0}
  /\ replies \in [Ops -> Seq({"ok", "err"})]

Init ==
  /\ EngineInit
  /\ PublisherInit
  /\ ctl = [o \in Objects |-> NoCtl]
  /\ instances = 0
  /\ bootEpoch = 1
  /\ nextOp = 1
  /\ replies = [op \in Ops |-> <<>>]

---------------------------------------------------------------------------
(* Answers: every command of oks is acknowledged, every one of errs is     *)
(* told an error.                                                          *)
Answer(oks, errs) ==
  replies' = [ op \in Ops |-> IF op \in oks THEN Append(replies[op], "ok")
                             ELSE IF op \in errs THEN Append(replies[op], "err")
                             ELSE replies[op] ]

OpsOf(cmds) == { cmds[i].op : i \in DOMAIN cmds }

(* Faulty variant: a mailbox looks free while its commit is published.     *)
FreeHead(c) == c.head = None \/ c.env # None

Free(c) == c.head = None /\ c.env = None

Released(c) == [c EXCEPT !.head = None, !.env = None]

NextSeq(c) == c.seq + 1

(* Faulty variant: a command is started and stays in the queue.            *)
RestKeepsStarted(q, k) == SubSeq(q, k + 1, Len(q))

(* The queue once its first k commands are refused and the next started.   *)
Rest(q, k) == SubSeq(q, k + 2, Len(q))

(* What the resolver makes of a position, given the last routed region.    *)
Target(c, cmd) == Resolve[<<cmd.pt, c.route>>]

(* Faulty variant: a position that resolves to no region is dispatched.    *)
DispatchableAnywhere(c, cmd) == cmd.kind \in {"remove", "update"}

(* A command that reaches the head of its mailbox is refused when its      *)
(* position resolves to no known region.                                   *)
Dispatchable(c, cmd) ==
  \/ cmd.kind = "remove"
  \/ cmd.kind = "update" /\ Target(c, cmd) # None

(* Faulty variant: a change of region is sent as an update.                *)
TaskNoTransition(o, c, cmd) ==
  [ kind |-> IF cmd.kind = "remove" THEN "remove"
             ELSE IF c.route = None THEN "init" ELSE "update",
    obj |-> o, op |-> cmd.op, pt |-> cmd.pt,
    region |-> IF cmd.kind = "remove" THEN c.route ELSE Target(c, cmd),
    old |-> IF cmd.kind = "remove" THEN None ELSE c.route ]

(* dispatchPosition and dispatchRemove: the task sent to the region worker *)
(* or, for a change of region, to the transition goroutine.                *)
Task(o, c, cmd) ==
  IF cmd.kind = "remove"
  THEN [ kind |-> "remove", obj |-> o, op |-> cmd.op, pt |-> None,
         region |-> c.route, old |-> None ]
  ELSE [ kind |-> IF c.route = None THEN "init"
                  ELSE IF Target(c, cmd) = c.route THEN "update" ELSE "transition",
         obj |-> o, op |-> cmd.op, pt |-> cmd.pt,
         region |-> Target(c, cmd), old |-> c.route ]

(* submitBuilt: the mailbox keeps the envelope and the publisher gets it.  *)
Submit(o, c, commit, mutation) ==
  /\ ctl' = [ctl EXCEPT ![o] = [c EXCEPT !.env = NewEnvelope(commit, mutation)]]
  /\ commitCh' = commitCh \cup {NewEnvelope(commit, mutation)}

CommitOf(o, c, op, type) ==
  [ type |-> type, obj |-> o, inst |-> c.inst, seq |-> NextSeq(c), op |-> op,
    region |-> None, pt |-> None, inside |-> {}, trans |-> <<>> ]

(* A dispatchable command takes the head.  An object that never had a      *)
(* position is removed without asking a worker.                            *)
Start(o, c, cmd) ==
  IF cmd.kind = "remove" /\ c.route = None
  THEN /\ Submit(o, [c EXCEPT !.head = cmd], CommitOf(o, c, cmd.op, "removed"), NoMutation)
       /\ UNCHANGED tasks
  ELSE /\ ctl' = [ctl EXCEPT ![o] =
                    [c EXCEPT !.head = cmd,
                              !.route = IF cmd.kind = "remove" THEN @ ELSE Target(c, cmd)]]
       /\ tasks' = tasks \cup {Task(o, c, cmd)}
       /\ UNCHANGED commitCh

(* dispatchNext, with the calls it makes of itself through rejectHead: the *)
(* first k commands of q are refused and the next one is started.  c is    *)
(* the mailbox with its head free; oks and errs are answered in the same   *)
(* handler.                                                                *)
DispatchFirst(o, c, q, oks, errs) ==
  \E k \in 0..Len(q) :
    /\ \A i \in 1..k : ~Dispatchable(c, q[i])
    /\ k < Len(q) => Dispatchable(c, q[k + 1])
    /\ Answer(oks, errs \cup OpsOf(SubSeq(q, 1, k)))
    /\ IF k = Len(q)
       THEN /\ ctl' = [ctl EXCEPT ![o] = [c EXCEPT !.queue = <<>>]]
            /\ UNCHANGED <<tasks, commitCh>>
       ELSE Start(o, [c EXCEPT !.queue = Rest(q, k)], q[k + 1])

---------------------------------------------------------------------------
(* Receipt of a command.                                                   *)
Received(kind, o, p) == [op |-> nextOp, kind |-> kind, obj |-> o, pt |-> p]

Receive == nextOp <= MaxOps /\ nextOp' = nextOp + 1

receiveFrame == <<indexVars, prevInside, results, stream, publishing, commitResults,
                  cancelled, faults, bootEpoch>>

(* onRegister of an object that has a mailbox.  The two errors of the code *)
(* (registered, being removed) differ in their text.                       *)
RejectRegister(o) ==
  /\ Receive
  /\ o \in registered
  /\ Answer({}, {nextOp})
  /\ UNCHANGED <<ctl, instances, registered, deleted, tasks, commitCh, receiveFrame>>

RegisteredCtl(o) ==
  [NoCtl EXCEPT !.head = Received("register", o, None), !.inst = <<bootEpoch, instances + 1>>]

OnRegister(o) ==
  /\ Receive
  /\ o \notin registered
  /\ registered' = registered \cup {o}
  /\ deleted' = [deleted EXCEPT ![o] = FALSE]
  /\ instances' = instances + 1
  /\ Submit(o, RegisteredCtl(o), CommitOf(o, RegisteredCtl(o), nextOp, "registered"), NoMutation)
  /\ UNCHANGED <<tasks, replies, receiveFrame>>

(* onPosition and onRemove for an object that is not registered, or that a *)
(* worker has just deleted.                                                *)
RejectUnregistered(o) ==
  /\ Receive
  /\ o \notin registered \/ deleted[o]
  /\ Answer({}, {nextOp})
  /\ UNCHANGED <<ctl, instances, registered, deleted, tasks, commitCh, receiveFrame>>

(* onPosition and onRemove: behind the head when there is one, else        *)
(* started at once.                                                        *)
Accept(cmd) ==
  LET o == cmd.obj
      c == ctl[o]
  IN  /\ o \in registered /\ ~deleted[o]
      /\ IF Free(c)
         THEN DispatchFirst(o, c, <<cmd>> \o c.queue, {}, {})
         ELSE /\ ctl' = [ctl EXCEPT ![o].queue = Append(@, cmd)]
              /\ UNCHANGED <<tasks, commitCh, replies>>
      /\ UNCHANGED <<instances, registered, deleted, receiveFrame>>

OnPosition(o, p) == Receive /\ Accept(Received("update", o, p))

OnRemove(o) == Receive /\ Accept(Received("remove", o, None))

---------------------------------------------------------------------------
(* A worker's result.                                                      *)
CommitFor(o, c, res) ==
  IF c.head.kind = "remove"
  THEN [CommitOf(o, c, res.op, "removed") EXCEPT
          !.region = res.old, !.pt = res.pt, !.trans = res.trans]
  ELSE [CommitOf(o, c, res.op, "position") EXCEPT
          !.region = res.region, !.pt = res.pt, !.inside = res.inside, !.trans = res.trans]

(* Faulty variant: an empty snapshot is not written.                       *)
MutationNoClear(head, res) ==
  IF res.inside = {} THEN NoMutation
  ELSE [kind |-> "set", old |-> None, new |-> res.region, inside |-> res.inside]

(* The snapshot write that waits for the commit.  The code asks for a move *)
(* when the head's kind is "transition"; the kind of an ingress envelope   *)
(* never is.                                                               *)
MutationFor(head, res) ==
  CASE head.kind = "remove" ->
         [kind |-> "delete", old |-> res.old, new |-> res.region, inside |-> {}]
    [] head.kind = "transition" ->
         [kind |-> "move", old |-> res.old, new |-> res.region, inside |-> res.inside]
    [] OTHER ->
         [kind |-> "set", old |-> None, new |-> res.region, inside |-> res.inside]

(* BuildCommitMsgs refuses transitions without a position to report.       *)
Buildable(head, res) ==
  res.trans = <<>> \/ head.kind # "remove" \/ res.pt # None

OnResult(res) ==
  LET o == res.obj
      c == ctl[o]
  IN  /\ res \in results
      /\ results' = results \ {res}
      /\ IF o \notin registered \/ c.head = None
         THEN UNCHANGED <<ctl, tasks, commitCh, replies>>
         ELSE IF ~res.ready \/ ~Buildable(c.head, res)
         THEN DispatchFirst(o, Released(c), c.queue, {}, {c.head.op})
         ELSE /\ Submit(o, c, CommitFor(o, c, res), MutationFor(c.head, res))
              /\ UNCHANGED <<tasks, replies>>
      /\ UNCHANGED <<indexVars, prevInside, registered, deleted, stream, publishing,
                     commitResults, cancelled, faults, instances, bootEpoch, nextOp>>

---------------------------------------------------------------------------
(* applyPrevInsideMutation.                                                *)
Snapshot(m, o) ==
  CASE m.kind = "set" /\ m.new # None ->
         [prevInside EXCEPT ![m.new][o] = m.inside]
    [] m.kind = "move" ->
         [r \in Regions |-> [prevInside[r] EXCEPT ![o] = IF r = m.new THEN m.inside
                                                         ELSE IF r = m.old THEN {}
                                                         ELSE @]]
    [] m.kind = "delete" /\ m.old # None ->
         [prevInside EXCEPT ![m.old][o] = {}]
    [] OTHER -> prevInside

(* Faulty variant: the commands behind a remove are dropped unanswered.    *)
ForgetQueue(c) == {}

Orphaned(c) == OpsOf(c.queue)

resultFrame == <<indexVars, deleted, results, stream, publishing, cancelled, faults,
                 instances, bootEpoch, nextOp>>

(* onCommitResult.  A failed commit (shutdown only) releases the mailbox;  *)
(* a confirmed remove closes it and refuses what is queued; any other      *)
(* confirmed command hands the mailbox to the next one.                    *)
OnCommitResult(cr) ==
  LET o == cr.obj
      c == ctl[o]
      done == [Released(c) EXCEPT !.seq = cr.seq]
  IN  /\ cr \in commitResults
      /\ commitResults' = commitResults \ {cr}
      /\ IF o \notin registered
         THEN UNCHANGED <<ctl, registered, prevInside, tasks, commitCh, replies>>
         ELSE IF cr.failed
         THEN /\ DispatchFirst(o, Released(c), c.queue, {},
                               IF c.head = None THEN {} ELSE {c.head.op})
              /\ UNCHANGED <<registered, prevInside>>
         ELSE /\ prevInside' = IF c.env = None THEN prevInside
                               ELSE Snapshot(c.env.mutation, o)
              /\ IF c.head # None /\ c.head.kind = "remove"
                 THEN /\ Answer({cr.op}, Orphaned(c))
                      /\ registered' = registered \ {o}
                      /\ ctl' = [ctl EXCEPT ![o] = NoCtl]
                      /\ UNCHANGED <<tasks, commitCh>>
                 ELSE /\ DispatchFirst(o, done, c.queue, {cr.op}, {})
                      /\ UNCHANGED registered
      /\ UNCHANGED resultFrame

---------------------------------------------------------------------------
DispatcherNext ==
  \/ \E o \in Objects :
       \/ RejectRegister(o)
       \/ OnRegister(o)
       \/ RejectUnregistered(o)
       \/ \E p \in Points : OnPosition(o, p)
       \/ OnRemove(o)
  \/ \E res \in results : OnResult(res)
  \/ \E cr \in commitResults : OnCommitResult(cr)

Next ==
  \/ DispatcherNext
  \/ EngineNext /\ UNCHANGED <<publisherVars, dispatcherVars>>
  \/ PublisherNext /\ UNCHANGED <<engineVars, dispatcherVars>>

Spec == Init /\ [][Next]_vars
---------------------------------------------------------------------------
(* The steps the goroutines take for an object of their own accord: the    *)
(* dispatcher keeps reading its channels, the workers their inboxes, the   *)
(* publisher its channel and its jobs.  Fairness of module GeoTruth.       *)
WorkerStep(o) ==
  \E t \in tasks : /\ t.obj = o
                   /\ ProcessInit(t) \/ ProcessUpdate(t) \/ ProcessTransition(t) \/ ProcessRemove(t)
                   /\ UNCHANGED <<publisherVars, dispatcherVars>>

PublisherStep(o) ==
  /\ \/ \E env \in commitCh : env.commit.obj = o /\ TakeEnvelope(env)
     \/ \E job \in publishing : JobObject(job) = o /\ (PublishConfirmed(job) \/ ReturnResult(job))
  /\ UNCHANGED <<engineVars, dispatcherVars>>

ResultStep(o) ==
  \/ \E res \in results : res.obj = o /\ OnResult(res)
  \/ \E cr \in commitResults : cr.obj = o /\ OnCommitResult(cr)

---------------------------------------------------------------------------
(* Everything between the mailboxes and their answers, with its object and *)
(* its stage.                                                              *)
InFlight ==
  {<<t.obj, "inbox", t>> : t \in tasks} \cup
  {<<res.obj, "results", res>> : res \in results} \cup
  {<<env.commit.obj, "commitCh", env>> : env \in commitCh} \cup
  {<<JobObject(job), "publishing", job>> : job \in publishing} \cup
  {<<cr.obj, "commitResults", cr>> : cr \in commitResults}

(* The invariant the publisher and the snapshots rest on: an object has at *)
(* most one command between its mailbox and its answer, in one stage, and  *)
(* its mailbox knows (technical-manual.md: "at most one command per        *)
(* objectID is in flight"; publisher.go: per-object ordering is preserved  *)
(* because only one envelope per object is in-flight).                     *)
AtMostOneInFlight ==
  /\ \A x, y \in InFlight : x[1] = y[1] => x = y
  /\ \A x \in InFlight : ctl[x[1]].head # None

(* No worker refuses a task: the route the dispatcher keeps ahead of the   *)
(* workers and the region they left the object in agree (worker.go logs    *)
(* "invariant" where they do not).  Shutdown is the exception: a remove    *)
(* whose commit is cancelled leaves the object deleted and its mailbox     *)
(* open for what is queued.                                                *)
WorkersAgree == ~cancelled => \A res \in results : res.ready

(* The projections of the commit at position i of a log, at later          *)
(* positions before n.                                                     *)
ProjectedBefore(log, i, n) ==
  \A k \in 1..Len(log[i].trans) :
    \E j \in (i + 1)..(n - 1) : EventID(log[j]) = EventID(Projections(log[i])[k])

(* A client that is told OK finds its commit and all the geofence events   *)
(* of it in the stream.                                                    *)
AckedIsDurable ==
  \A op \in Ops :
    "ok" \in ToSet(replies[op]) =>
      \E o \in Objects : \E i \in FirstCommits(stream[o]) :
        /\ stream[o][i].op = op
        /\ ProjectedBefore(stream[o], i, Len(stream[o]) + 1)

(* No commit of an object is in the stream before every projection of the  *)
(* previous one: repair at boot looks at the latest commits only, so a     *)
(* projection left behind would be lost.                                   *)
ProjectionsBeforeNextCommit ==
  \A o \in Objects : \A i, n \in FirstCommits(stream[o]) :
    i < n => ProjectedBefore(stream[o], i, n)

(* A command gets at most one answer.                                      *)
AnsweredOnce == \A op \in Ops : Len(replies[op]) <= 1

(* The commands that were told an error and are in the stream.             *)
Contradicted ==
  {op \in Ops : /\ "err" \in ToSet(replies[op])
                /\ \E o \in Objects : \E i \in DOMAIN stream[o] : stream[o][i].op = op}

(* While the process is not shutting down, no command that was told an     *)
(* error has left anything in the stream, and none leaves anything later.  *)
ErrorMeansNotCommitted == [][~cancelled => Contradicted' \subseteq Contradicted]_vars

(* The stream keeps the promise of ObjectHistory.                          *)
History == INSTANCE ObjectHistory
             WITH history <- [o \in Objects |-> CommitSeqOf(stream[o])]

ImplementsHistory == History!Spec

(* A step that changes the committed geofence snapshot of an object comes  *)
(* when its latest commit and all projections of it are durable, and sets  *)
(* it to what that commit says, or it removes an area.                     *)
SnapshotChange ==
  \A r \in Regions, o \in Objects :
    prevInside'[r][o] # prevInside[r][o] =>
      \/ r \in sweep.left
      \/ LET log == stream[o]
             i == Max(FirstCommits(log))
         IN  /\ FirstCommits(log) # {}
             /\ ProjectedBefore(log, i, Len(log) + 1)
             /\ prevInside'[r][o] = log[i].inside

(* The region, point and snapshot a restart would rebuild from the stream. *)
LatestCommit(o) == stream[o][Max(FirstCommits(stream[o]))]

Open(o) == FirstCommits(stream[o]) # {} /\ LatestCommit(o).type # "removed"

(* While no command of an object is in flight, the live state is what a    *)
(* restart would rebuild from its latest commit (areas unchanged).         *)
IdleMatchesStream ==
  \A o \in Objects :
    ctl[o].head = None /\ ~cancelled =>
      IF Open(o)
      THEN LET c == LatestCommit(o)
           IN  /\ o \in registered /\ ~deleted[o]
               /\ <<ctl[o].inst, ctl[o].seq>> = <<c.inst, c.seq>>
               /\ ctl[o].route = c.region /\ pubRegion[o] = c.region
               /\ c.region # None =>
                    /\ tree[c.region][o] = c.pt
                    /\ prevInside[c.region][o] = c.inside
      ELSE o \notin registered /\ pubRegion[o] = None

(* For a consumer that drops repeated event IDs, the geofence events of    *)
(* one area and one incarnation alternate, entered first.                  *)
GeofenceAlternates ==
  \A o \in Objects, a \in Areas : \A e \in {stream[o][i].inst : i \in DOMAIN stream[o]} :
    LET at == FirstTransitions(stream[o], e, a)
    IN  \A i \in at :
          LET before == {j \in at : j < i}
          IN  stream[o][i].type =
                IF before # {} /\ stream[o][Max(before)].type = "entered"
                THEN "exited" ELSE "entered"

(* user-manual.md: a geofence event is "produced by the geometric          *)
(* relationship between an object and an area".  The events of a commit    *)
(* are the difference between the areas of the previous commit of the      *)
(* incarnation and its own (areas unchanged).  It holds while an object    *)
(* stays in one region, and not when it changes regions: the snapshot of   *)
(* the region it left is kept, OnResult never asks for a move.             *)
EventsFollowGeometry ==
  \A o \in Objects : \A i, n \in FirstCommits(stream[o]) :
    LET c == stream[o][i]
        d == stream[o][n]
        Crossed(entered) == {t.area : t \in {t \in ToSet(d.trans) : t.entered = entered}}
    IN  d.inst = c.inst /\ d.seq = c.seq + 1 =>
          /\ Crossed(TRUE) = d.inside \ c.inside
          /\ Crossed(FALSE) = c.inside \ d.inside

(* An incarnation whose commits come back to a region they left.           *)
ComesBack(o, e) ==
  LET region(i) == stream[o][i].region
      at == {i \in FirstCommits(stream[o]) : stream[o][i].inst = e}
  IN  \E i, j, k \in at : i < j /\ j < k /\ region(i) = region(k) /\ region(i) # region(j)

(* A geofence exit is always preceded by an entry that no other exit has   *)
(* closed, also when areas come and go while commands are in flight.  It   *)
(* is not when the object comes back to a region it left, whose snapshot   *)
(* is still there (see EventsFollowGeometry).                              *)
ExitFollowsEntry ==
  \A o \in Objects, a \in Areas : \A e \in {stream[o][i].inst : i \in DOMAIN stream[o]} :
    LET at == FirstTransitions(stream[o], e, a)
        Unclosed(i) == LET before == {j \in at : j < i}
                       IN  before # {} /\ stream[o][Max(before)].type = "entered"
    IN  \A i \in at : stream[o][i].type = "exited" => Unclosed(i) \/ ComesBack(o, e)
=============================================================================
