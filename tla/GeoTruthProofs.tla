--------------------------- MODULE GeoTruthProofs ---------------------------
(***************************************************************************)
(* Proofs about module GeoTruth: the service over any number of lives of   *)
(* its process.  What StreamProofs proves of one process is used for the   *)
(* steps taken while a process is up; here are the end of a process, at    *)
(* any point, and Boot.                                                    *)
(*                                                                         *)
(* Most of the invariant holds in every mode: what the stream holds, and   *)
(* that it covers the answers given.  What relates the stream to the       *)
(* mailboxes (Distinct, Phase) holds while the process is up, is lost with *)
(* it, and is what Boot has to establish again.                            *)
(***************************************************************************)
EXTENDS GeoTruth, StreamProofs

---------------------------------------------------------------------------
(* The logs grow at the end.                                               *)
Appended(o, m) ==
  /\ stream'[o] = Append(stream[o], m)
  /\ \A p \in Objects : p # o => stream'[p] = stream[p]

Grown(o) == stream'[o] = stream[o] \/ \E m \in Event : stream'[o] = Append(stream[o], m)

(* A commit of command n is in the stream, with all of its projections.    *)
Durable(o, n) ==
  \E i \in FirstCommits(stream[o]) :
    stream[o][i].op = n /\ ProjectedBefore(stream[o], i, Len(stream[o]) + 1)

LEMMA DurableStays ==
  ASSUME NEW o \in Objects, stream[o] \in Seq(Event), Grown(o), NEW n, Durable(o, n)
  PROVE  Durable(o, n)'
<1>1. CASE stream'[o] = stream[o]
  BY <1>1 DEF Durable
<1>2. ASSUME NEW m \in Event, stream'[o] = Append(stream[o], m)
      PROVE  Durable(o, n)'
  <2> DEFINE log == stream[o]
  <2>1. PICK i \in FirstCommits(log) : log[i].op = n /\ ProjectedBefore(log, i, Len(log) + 1)
    BY DEF Durable
  <2>2. i \in 1..Len(log) /\ i \in DOMAIN log /\ Len(log) \in Nat
    BY FirstCommitsFinite, LenProperties
  <2>3. i \in FirstCommits(Append(log, m))
    BY <2>2, AppendRepeats
  <2>4. Append(log, m)[i] = log[i] /\ Len(Append(log, m)) = Len(log) + 1
    BY <2>2, AppendEntries
  <2>5. ProjectedBefore(Append(log, m), i, Len(log) + 2)
    <3>1. Len(log) + 1 \in 1..(Len(log) + 1) /\ Len(log) + 2 \in (Len(log) + 1)..(Len(log) + 2)
      BY <2>2
    <3> QED
      BY <2>1, <2>2, <3>1, AppendProjected
  <2> HIDE DEF log
  <2>6. Len(Append(log, m)) + 1 = Len(log) + 2
    BY <2>2, <2>4
  <2>7. stream'[o] = Append(log, m)
    BY <1>2 DEF log
  <2> QED
    BY <2>1, <2>3, <2>4, <2>5, <2>6, <2>7 DEF Durable
<1> QED
  BY <1>1, <1>2 DEF Grown

LEMMA StoredIs ==
  ASSUME NEW x
  PROVE  x \in Stored <=> \E o \in Objects : \E i \in DOMAIN stream[o] : x = <<o, i>>
BY DEF Stored

LEMMA StoredGrows ==
  ASSUME stream \in [Objects -> Seq(Event)], IsFiniteSet(Stored),
         NEW o \in Objects, NEW m \in Event, Appended(o, m)
  PROVE  IsFiniteSet(Stored)' /\ Cardinality(Stored') = Cardinality(Stored) + 1
<1>1. /\ Len(stream[o]) \in Nat /\ DOMAIN stream[o] = 1..Len(stream[o])
      /\ DOMAIN stream'[o] = 1..(Len(stream[o]) + 1)
  BY AppendEntries DEF Appended
<1>2. PICK last : last = Len(stream[o]) + 1
  OBVIOUS
<1>3. DOMAIN stream'[o] = DOMAIN stream[o] \cup {last} /\ last \notin DOMAIN stream[o]
  BY <1>1, <1>2
<1>4. \A p \in Objects : p # o => stream'[p] = stream[p]
  BY DEF Appended
<1>5. \A x : x \in Stored' <=> \E p \in Objects : \E i \in DOMAIN stream'[p] : x = <<p, i>>
  BY DEF Stored
<1>6. Stored' = Stored \cup {<<o, last>>}
  <2>1. \A x \in Stored' : x \in Stored \/ x = <<o, last>>
    BY <1>3, <1>4, <1>5, StoredIs
  <2>2. \A x \in Stored : x \in Stored'
    BY <1>3, <1>4, <1>5, StoredIs
  <2>3. <<o, last>> \in Stored'
    BY <1>3, <1>5
  <2> QED
    BY <2>1, <2>2, <2>3
<1>7. <<o, last>> \notin Stored
  BY <1>3, StoredIs
<1> QED
  BY <1>6, <1>7, FS_AddElement

---------------------------------------------------------------------------
(* The invariant.                                                          *)
Logs == \A o \in Objects : LogOK(stream[o]) /\ InOrder(o)

(* Incarnations of the stream were given out by this boot or before it.    *)
Past == \A o \in Objects : \A inst \in Insts(o) : inst \in InstanceID /\ inst[1] <= bootEpoch

Separate == \A o, p \in Objects : \A inst : inst \in Insts(o) /\ inst \in Insts(p) => o = p

(* The memory of a process that is not up.                                 *)
Quiet ==
  /\ registered = {} /\ ~cancelled /\ watched = <<>> /\ sweep = NoSweep /\ instances = 0
  /\ \A o \in Objects : ctl[o] = NoCtl
  /\ tasks = {} /\ results = {} /\ commitCh = {} /\ publishing = {} /\ commitResults = {}

(* What Boot publishes are projections of the latest commit of an object.  *)
Repairs(e) ==
  /\ e.obj \in Objects
  /\ \E f \in DOMAIN stream[e.obj] :
       LatestAt(stream[e.obj], f) /\ e \in ToSet(ExpectedProjections(stream[e.obj][f]))

(* It leaves none out.                                                     *)
Covered(o) ==
  \A f \in DOMAIN stream[o] : LatestAt(stream[o], f) =>
    \A k \in 1..Len(stream[o][f].trans) :
      \/ \E j \in (f + 1)..Len(stream[o]) :
           EventID(stream[o][j]) = EventID(Projections(stream[o][f])[k])
      \/ \E e \in repair : e.obj = o /\ EventID(e) = EventID(Projections(stream[o][f])[k])

Repairing ==
  /\ \A e \in repair : Repairs(e)
  /\ mode = "booting" => \A o \in Objects : Covered(o)

(* The boot epoch is a sequence number of the stream.                      *)
EpochOK == IsFiniteSet(Stored) /\ bootEpoch <= LastSeq

Acked == \A n \in Ops : "ok" \in ToSet(replies[n]) => \E o \in Objects : Durable(o, n)

LivesInv ==
  /\ GeoTruthTypeOK /\ AnsweredInv
  /\ Logs /\ Past /\ Separate
  /\ mode = "up" => Distinct /\ \A o \in Objects : Phase(o)
  /\ mode # "up" => Quiet
  /\ Repairing /\ EpochOK /\ Acked

LEMMA UpStream ==
  ASSUME LivesInv, mode = "up"
  PROVE  StreamInv
BY DEF LivesInv, Logs, StreamInv, Logged

---------------------------------------------------------------------------
(* Steps of a process that is up.                                          *)

LEMMA UpSteps ==
  ASSUME GeoTruthTypeOK,
         \/ \E a \in Areas, r \in Regions \cup {Elsewhere, None} : WriteArea(a, r)
         \/ WatchEntry
         \/ Work
  PROVE  /\ [Next]_vars /\ mode = "up" /\ mode' = "up" /\ UNCHANGED <<repair, markers>>
<1>1. ASSUME NEW a \in Areas, NEW r, WriteArea(a, r)
      PROVE  [Next]_vars /\ mode = "up" /\ mode' = "up" /\ UNCHANGED <<repair, markers>>
  BY <1>1 DEF WriteArea
<1>2. CASE WatchEntry
  <2>1. PICK e : e = Head(watched)
    OBVIOUS
  <2>2. e.area \in Areas
    <3>1. watched \in Seq(Entry) /\ watched # <<>>
      BY <1>2 DEF WatchEntry, GeoTruthTypeOK
    <3>2. e \in Entry
      BY <2>1, <3>1, HeadTailProperties
    <3> QED
      BY <3>2 DEF Entry
  <2>3. \/ e.region \in Regions /\ RegisterArea(e.area, e.region)
        \/ RemoveAreaStart(e.area)
        \/ UNCHANGED engineVars
    <3>1. CASE e.region \in Regions
      <4>1. RegisterArea(e.area, e.region)
        BY <1>2, <2>1, <3>1, DataAssumption DEF WatchEntry
      <4> QED
        BY <3>1, <4>1
    <3>2. CASE e.region = None
      <4>1. RemoveAreaStart(e.area)
        BY <1>2, <2>1, <3>2, DataAssumption DEF WatchEntry
      <4> QED
        BY <4>1
    <3>3. CASE e.region \notin Regions /\ e.region # None
      <4>1. UNCHANGED engineVars
        BY <1>2, <2>1, <3>3 DEF WatchEntry
      <4> QED
        BY <4>1
    <3> QED
      BY <3>1, <3>2, <3>3
  <2>4. EngineNext \/ UNCHANGED engineVars
    BY <2>2, <2>3 DEF EngineNext
  <2>5. UNCHANGED <<publisherVars, dispatcherVars>>
    BY <1>2 DEF WatchEntry
  <2>6. [Next]_vars
    BY <2>4, <2>5 DEF Next, vars
  <2> QED
    BY <1>2, <2>6 DEF WatchEntry
<1>3. CASE Work
  <2>1. Next
    BY <1>3 DEF Work, Next, EngineNext
  <2> QED
    BY <1>3, <2>1 DEF Work, geotruthVars
<1> QED
  BY <1>1, <1>2, <1>3

(* What a step of one process writes.                                      *)
LEMMA StreamSteps ==
  ASSUME StreamInv, [Next]_vars
  PROVE  \/ UNCHANGED stream
         \/ /\ UNCHANGED <<engineVars, dispatcherVars>>
            /\ \E job \in publishing : ~cancelled /\ ~JobFinished(job) /\ Store(job)
<1>1. CASE DispatcherNext
  BY <1>1, DispatcherSteps DEF StreamInv, AnsweredInv, DispatcherStep, dispatcherFrame
<1>2. CASE EngineNext /\ UNCHANGED <<publisherVars, dispatcherVars>>
  BY <1>2 DEF publisherVars
<1>3. CASE PublisherNext /\ UNCHANGED <<engineVars, dispatcherVars>>
  BY <1>3 DEF PublisherNext, TakeEnvelope, PublishConfirmed, PublishVerified, PublishUnconfirmed,
              PublishFailed, ReturnResult, DropResult, Cancel
<1>4. CASE UNCHANGED vars
  BY <1>4 DEF vars, publisherVars
<1> QED
  BY <1>1, <1>2, <1>3, <1>4 DEF Next

LEMMA StreamGrows ==
  ASSUME StreamInv, [Next]_vars
  PROVE  UNCHANGED stream \/ \E o \in Objects : \E m \in Event : Appended(o, m)
<1>1. ASSUME NEW job \in publishing, ~cancelled, ~JobFinished(job), Store(job)
      PROVE  \E o \in Objects : \E m \in Event : Appended(o, m)
  <2>1. PICK o, m : o = JobObject(job) /\ m = MessageOf(job)
    OBVIOUS
  <2>2. o \in Objects /\ m \in Event /\ Appended(o, m)
    BY <1>1, <2>1, Stores DEF Appended
  <2> QED
    BY <2>2
<1> QED
  BY <1>1, StreamSteps

(* An acknowledgement is given for a commit that is in the stream with all *)
(* of its projections.                                                     *)
LEMMA AckedNow ==
  ASSUME StreamInv, NEW o \in Objects, NEW cr \in commitResults, cr.obj = o, ~cr.failed
  PROVE  Durable(o, cr.op)
<1>1. /\ CommitResultStaged(o, cr) /\ Phase(o) /\ LogOK(stream[o])
  BY DEF StreamInv, AnsweredInv, StagedInv, Staged, Logged
<1>2. PICK f \in DOMAIN stream[o] : WrittenAt(o, f, 1) /\ Projected(stream[o], f)
  BY <1>1 DEF Phase
<1>3. f \in FirstCommits(stream[o]) /\ stream[o][f].op = cr.op
  BY <1>1, <1>2 DEF WrittenAt, LatestAt, CommitResultStaged
<1> QED
  BY <1>2, <1>3 DEF Durable, Projected

LEMMA AnswersOf ==
  ASSUME replies \in [Ops -> Seq({"ok", "err"})], NEW oks, NEW errs, Answer(oks, errs),
         NEW n \in Ops, "ok" \in ToSet(replies'[n])
  PROVE  "ok" \in ToSet(replies[n]) \/ n \in oks
<1>1. SUFFICES ASSUME n \notin oks PROVE "ok" \in ToSet(replies[n])
  OBVIOUS
<1>2. replies'[n] = replies[n] \/ replies'[n] = Append(replies[n], "err")
  BY <1>1 DEF Answer
<1>3. CASE replies'[n] = Append(replies[n], "err")
  <2> DEFINE s == replies[n]
  <2>1. s \in Seq({"ok", "err"}) /\ Len(s) \in Nat /\ DOMAIN s = 1..Len(s)
    BY LenProperties
  <2>2. PICK i \in DOMAIN Append(s, "err") : Append(s, "err")[i] = "ok"
    BY <1>3 DEF ToSet
  <2>3. i \in 1..(Len(s) + 1) /\ i # Len(s) + 1
    BY <2>1, <2>2, AppendProperties
  <2>4. i \in DOMAIN s /\ s[i] = "ok"
    BY <2>1, <2>2, <2>3, AppendProperties
  <2> QED
    BY <2>4 DEF ToSet
<1> QED
  BY <1>2, <1>3

LEMMA AckedStays ==
  ASSUME Acked, stream \in [Objects -> Seq(Event)], \A o \in Objects : Grown(o), UNCHANGED replies
  PROVE  Acked'
BY DurableStays DEF Acked

LEMMA UpKeepsAcked ==
  ASSUME StreamInv, Acked, [Next]_vars
  PROVE  Acked'
<1>0. /\ stream \in [Objects -> Seq(Event)] /\ replies \in [Ops -> Seq({"ok", "err"})]
      /\ StagedInv
  BY DEF StreamInv, AnsweredInv, StagedInv, IInv, TypeOK, PublisherTypeOK
<1>1. \A o \in Objects : Grown(o)
  BY StreamGrows DEF Appended, Grown
<1>2. CASE UNCHANGED replies
  BY <1>0, <1>1, <1>2, AckedStays
<1>3. ASSUME DispatcherNext, ~UNCHANGED replies, NEW n \in Ops, "ok" \in ToSet(replies'[n]),
             "ok" \notin ToSet(replies[n])
      PROVE  \E o \in Objects : Durable(o, n)'
  <2>0. DispatcherStep
    BY <1>0, <1>3, DispatcherSteps
  <2>1. \A oks, errs : Answer(oks, errs) => n \in oks
    BY <1>0, <1>3, AnswersOf
  <2>2. ~Refuses
    BY <2>1 DEF Refuses
  <2>3. PICK o \in Objects : StepOf(o)
    BY <2>0, <2>2 DEF DispatcherStep
  <2>4. ~Registers(o) /\ ~Takes(o) /\ ~Queues(o)
    BY <1>3, <2>1 DEF Registers, Takes, Queues
  <2>5. \A res \in results : ~Declines(o, res) /\ ~Submits(o, res)
    BY <1>3, <2>1 DEF Declines, Submits
  <2>6. PICK cr \in commitResults : Closes(o, cr) \/ Confirms(o, cr)
    BY <2>1, <2>3, <2>4, <2>5 DEF StepOf, Fails
  <2>7. n = cr.op /\ cr.obj = o /\ ~cr.failed
    BY <2>1, <2>6 DEF Closes, Confirms, TakesCommitResult
  <2>8. Durable(o, n)
    BY <2>6, <2>7, AckedNow
  <2> QED
    BY <1>0, <1>1, <2>8, DurableStays
<1>4. CASE DispatcherNext /\ ~UNCHANGED replies
  BY <1>0, <1>1, <1>3, <1>4, DurableStays DEF Acked
<1>5. DispatcherNext \/ UNCHANGED replies
  BY DEF Next, vars, dispatcherVars
<1> QED
  BY <1>2, <1>4, <1>5

(* The watcher's entries after a write: what stays of them, and the new.   *)
LEMMA WatchedType ==
  ASSUME watched \in Seq(Entry), NEW i \in DOMAIN watched
  PROVE  /\ RemoveAt(watched, i) \in Seq(Entry)
         /\ Len(RemoveAt(watched, i)) = Len(watched) - 1
         /\ \A j \in 1..(Len(watched) - 1) :
              RemoveAt(watched, i)[j] = watched[IF j < i THEN j ELSE j + 1]
<1> DEFINE n == Len(watched)
           a == SubSeq(watched, 1, i - 1)
           b == SubSeq(watched, i + 1, n)
<1>1. n \in Nat /\ i \in 1..n
  BY LenProperties
<1>2. /\ a \in Seq(Entry) /\ Len(a) = i - 1
      /\ \A j \in 1..(i - 1) : a[j] = watched[j]
  BY <1>1, SubSeqProperties
<1>3. /\ b \in Seq(Entry) /\ Len(b) = n - i
      /\ \A j \in 1..(n - i) : b[j] = watched[i + j]
  BY <1>1, SubSeqProperties
<1>4. RemoveAt(watched, i) = a \o b
  BY DEF RemoveAt
<1> HIDE DEF n, a, b
<1>5. /\ a \o b \in Seq(Entry) /\ Len(a \o b) = (i - 1) + (n - i)
      /\ \A j \in 1..((i - 1) + (n - i)) :
           (a \o b)[j] = IF j <= i - 1 THEN a[j] ELSE b[j - (i - 1)]
  <2>1. /\ a \o b \in Seq(Entry) /\ Len(a \o b) = Len(a) + Len(b)
        /\ \A j \in 1..(Len(a) + Len(b)) :
             (a \o b)[j] = IF j <= Len(a) THEN a[j] ELSE b[j - Len(a)]
    BY <1>2, <1>3, ConcatProperties
  <2> QED
    BY <1>2, <1>3, <2>1
<1>6. ASSUME NEW j \in 1..(n - 1)
      PROVE  (a \o b)[j] = watched[IF j < i THEN j ELSE j + 1]
  <2>1. j \in 1..((i - 1) + (n - i))
    BY <1>1
  <2>2. CASE j < i
    <3>1. j <= i - 1 /\ j \in 1..(i - 1)
      BY <1>1, <2>2
    <3> QED
      BY <1>2, <1>5, <2>1, <2>2, <3>1
  <2>3. CASE ~(j < i)
    <3>1. ~(j <= i - 1) /\ j - (i - 1) \in 1..(n - i) /\ i + (j - (i - 1)) = j + 1
      BY <1>1, <2>3
    <3> QED
      BY <1>3, <1>5, <2>1, <2>3, <3>1
  <2> QED
    BY <2>2, <2>3
<1>7. (i - 1) + (n - i) = n - 1
  BY <1>1
<1> QED
  BY <1>4, <1>5, <1>6, <1>7 DEF n

LEMMA WrittenEntry ==
  ASSUME GeoTruthTypeOK, NEW a \in Areas, NEW r \in Regions \cup {Elsewhere, None}, WriteArea(a, r)
  PROVE  /\ \E kept \in Seq(Entry) :
              /\ watched' = Append(kept, [area |-> a, region |-> r])
              /\ \/ kept = watched
                 \/ \E i \in LatestEntry(a) : i \in DOMAIN watched /\ kept = RemoveAt(watched, i)
         /\ [area |-> a, region |-> r] \in Entry
         /\ watched' \in Seq(Entry)
<1>1. watched \in Seq(Entry) /\ [area |-> a, region |-> r] \in Entry
  BY DEF GeoTruthTypeOK, Entry
<1>2. PICK kept \in {watched} \cup {RemoveAt(watched, i) : i \in LatestEntry(a)} :
        watched' = Append(kept, [area |-> a, region |-> r])
  BY DEF WriteArea
<1>3. \/ kept = watched
      \/ \E i \in LatestEntry(a) : i \in DOMAIN watched /\ kept = RemoveAt(watched, i)
  BY DEF LatestEntry
<1>4. kept \in Seq(Entry)
  BY <1>1, <1>3, WatchedType
<1> QED
  BY <1>1, <1>2, <1>3, <1>4, AppendProperties

LEMMA UpKeepsType ==
  ASSUME GeoTruthTypeOK, TypeOK',
         \/ \E a \in Areas, r \in Regions \cup {Elsewhere, None} : WriteArea(a, r)
         \/ WatchEntry
         \/ Work
  PROVE  GeoTruthTypeOK'
<1>1. mode = "up" /\ mode' = "up" /\ UNCHANGED <<repair, markers>>
  BY UpSteps
<1>2. ASSUME NEW a \in Areas, NEW r \in Regions \cup {Elsewhere, None}, WriteArea(a, r)
      PROVE  GeoTruthTypeOK'
  <2>1. watched' \in Seq(Entry)
    BY <1>2, WrittenEntry
  <2>2. bucket' \in [Areas -> Regions \cup {Elsewhere, None}] /\ areaWrites' \in Nat /\ crashes' \in Nat
    BY <1>2 DEF WriteArea, GeoTruthTypeOK
  <2> QED
    BY <1>1, <2>1, <2>2 DEF GeoTruthTypeOK
<1>3. CASE WatchEntry
  <2>1. watched' \in Seq(Entry)
    <3>1. watched \in Seq(Entry) /\ watched # <<>> /\ watched' = Tail(watched)
      BY <1>3 DEF WatchEntry, GeoTruthTypeOK
    <3> QED
      BY <3>1, HeadTailProperties
  <2> QED
    BY <1>1, <1>3, <2>1 DEF GeoTruthTypeOK, WatchEntry
<1>4. CASE Work
  BY <1>1, <1>4 DEF GeoTruthTypeOK, Work, geotruthVars
<1> QED
  BY <1>2, <1>3, <1>4

LEMMA UpKeepsLives ==
  ASSUME LivesInv,
         \/ \E a \in Areas, r \in Regions \cup {Elsewhere, None} : WriteArea(a, r)
         \/ WatchEntry
         \/ Work
  PROVE  LivesInv'
<1>1. /\ [Next]_vars /\ mode = "up" /\ mode' = "up" /\ UNCHANGED <<repair, markers>>
  BY UpSteps DEF LivesInv
<1>2. StreamInv /\ StreamInv'
  BY <1>1, UpStream, NextKeepsStream
<1>3. GeoTruthTypeOK'
  BY <1>2, UpKeepsType DEF LivesInv, StreamInv, AnsweredInv, StagedInv, IInv
<1>4. AnsweredInv' /\ Logs' /\ Distinct' /\ \A o \in Objects : Phase(o)'
  BY <1>2 DEF StreamInv, Logs, Logged
<1>5. Past' /\ Separate'
  <2>1. \A o \in Objects : \A inst \in Insts(o)' : inst \in Owns(o)'
    BY DEF Owns
  <2>2. \A inst \in InstanceID : Known(inst)' => inst[1] <= bootEpoch'
    <3>1. bootEpoch' \in Nat
      BY <1>3 DEF GeoTruthTypeOK, TypeOK
    <3> QED
      BY <3>1 DEF Known, InstanceID
  <2> QED
    BY <1>4, <2>1, <2>2 DEF Distinct, Past, Separate
<1>6. repair = {}
  BY <1>1 DEF LivesInv, GeoTruthTypeOK
<1>7. Repairing'
  BY <1>1, <1>6 DEF Repairing
<1>8. EpochOK'
  <2>1. stream \in [Objects -> Seq(Event)]
    BY DEF LivesInv, GeoTruthTypeOK, TypeOK, PublisherTypeOK
  <2>2. IsFiniteSet(Stored) /\ Cardinality(Stored) \in Nat /\ bootEpoch <= LastSeq
        /\ markers \in Nat /\ bootEpoch \in Nat
    <3>1. IsFiniteSet(Stored) /\ bootEpoch <= LastSeq
      BY DEF LivesInv, EpochOK
    <3>2. markers \in Nat
      BY DEF LivesInv, GeoTruthTypeOK
    <3>3. bootEpoch \in Nat
      <4>1. GeoTruthTypeOK
        BY DEF LivesInv
      <4>2. TypeOK
        BY <4>1 DEF GeoTruthTypeOK
      <4> QED
        BY <4>2 DEF TypeOK
    <3> QED
      BY <3>1, <3>2, <3>3, FS_CardinalityType
  <2>3. bootEpoch' = bootEpoch
    BY <1>1 DEF Next, vars, dispatcherVars, DispatcherNext, RejectRegister, OnRegister,
       RejectUnregistered, OnPosition, OnRemove, Accept, OnResult, OnCommitResult, receiveFrame,
       resultFrame
  <2>4. CASE UNCHANGED stream
    BY <1>1, <2>2, <2>3, <2>4 DEF EpochOK, LastSeq, Stored
  <2>5. ASSUME NEW o \in Objects, NEW m \in Event, Appended(o, m)
        PROVE  EpochOK'
    <3>1. IsFiniteSet(Stored)' /\ Cardinality(Stored') = Cardinality(Stored) + 1
      BY <2>1, <2>2, <2>5, StoredGrows
    <3> QED
      BY <1>1, <2>2, <2>3, <3>1 DEF EpochOK, LastSeq
  <2> QED
    BY <1>1, <1>2, <2>4, <2>5, StreamGrows
<1>9. Acked'
  BY <1>1, <1>2, UpKeepsAcked DEF LivesInv
<1> QED
  BY <1>1, <1>3, <1>4, <1>5, <1>7, <1>8, <1>9 DEF LivesInv

---------------------------------------------------------------------------
(* The end of a process.                                                   *)

LEMMA EmptyMailbox ==
  /\ NoCtl.head = None /\ NoCtl.env = None /\ NoCtl.queue = <<>> /\ NoCtl.inst = <<0, 0>>
  /\ NoCtl.seq = 0 /\ NoCtl.route = None
  /\ DOMAIN NoCtl.queue = {}
BY DEF NoCtl

(* Nothing is in line in mailboxes that hold no command.                   *)
LEMMA NothingHeld ==
  ASSUME NEW o, ctl[o].head = None, ctl[o].queue = <<>>
  PROVE  Ordered(o) /\ \A n : ~InLine(o, n)
BY DEF Ordered, InLine

(* Mailboxes that hold no command, and channels that hold no message.      *)
LEMMA IdleAnswered ==
  ASSUME TypeOK, Unanswered,
         \A o \in Objects : ctl[o].head = None /\ ctl[o].queue = <<>> /\ ctl[o].env = None,
         tasks = {}, results = {}, commitCh = {}, publishing = {}, commitResults = {}
  PROVE  AnsweredInv
<1>1. InFlight = {}
  BY DEF InFlight
<1>2. IInv
  BY <1>1 DEF IInv, AtMostOneInFlight, MailboxOwned
<1>3. \A o \in Objects : Staged(o)
  BY DEF Staged, MailboxOK
<1>4. \A o \in Objects : Ordered(o) /\ \A n : ~InLine(o, n)
  BY NothingHeld
<1> QED
  BY <1>2, <1>3, <1>4 DEF AnsweredInv, StagedInv, Apart

LEMMA Forgotten ==
  ASSUME GeoTruthTypeOK, Unanswered, NoMemory, mode' = "down",
         UNCHANGED <<bootEpoch, nextOp, replies, bucket, markers, areaWrites>>,
         stream' \in [Objects -> Seq(Event)], faults' \in Nat, crashes' \in Nat
  PROVE  GeoTruthTypeOK' /\ AnsweredInv' /\ Quiet' /\ Repairing'
<1>1. EngineTypeOK'
  BY DEF NoMemory, EngineTypeOK, PointOrNone, RegionOrNone, NoSweep
<1>2. PublisherTypeOK'
  BY DEF NoMemory, PublisherTypeOK
<1>3. TypeOK'
  BY <1>1, <1>2, NoCtlType DEF NoMemory, TypeOK, GeoTruthTypeOK
<1>4. InFlight' = {}
  BY DEF NoMemory, InFlight
<1>5. GeoTruthTypeOK'
  <2>1. watched' = <<>> /\ repair' = {} /\ registered' = {}
    BY DEF NoMemory
  <2>2. <<>> \in Seq(Entry)
    BY EmptySeq
  <2> QED
    BY <1>3, <1>4, <2>1, <2>2 DEF GeoTruthTypeOK
<1>6. Quiet'
  BY DEF NoMemory, Quiet
<1>7. \A o \in Objects : \A n : ~InLine(o, n)'
  BY <1>6, EmptyMailbox DEF Quiet, InLine
<1>8. Unanswered'
  BY <1>7 DEF Unanswered
<1>9. \A o \in Objects : Staged(o)' /\ Ordered(o)'
  BY <1>6, EmptyMailbox DEF Quiet, Staged, MailboxOK, Ordered
<1>10. IInv'
  BY <1>3, <1>4, <1>6, EmptyMailbox DEF IInv, AtMostOneInFlight, MailboxOwned, Quiet
<1>11. AnsweredInv'
  BY <1>7, <1>8, <1>9, <1>10 DEF AnsweredInv, StagedInv, Apart
<1>12. Repairing'
  BY DEF NoMemory, Repairing
<1> QED
  BY <1>5, <1>6, <1>11, <1>12

(* The commits of a log do not come after a command of an empty mailbox.   *)
LEMMA OrderStays ==
  ASSUME NEW o \in Objects, InOrder(o), ctl'[o] = NoCtl, UNCHANGED nextOp,
         \A i \in DOMAIN stream'[o] : IsCommit(stream'[o][i]) =>
           \E j \in DOMAIN stream[o] : stream[o][j] = stream'[o][i]
  PROVE  InOrder(o)'
<1>1. \A n : ~InLine(o, n)'
  BY EmptyMailbox DEF InLine
<1>2. ASSUME NEW i \in DOMAIN stream'[o], IsCommit(stream'[o][i])
      PROVE  stream'[o][i].obj = o /\ stream'[o][i].op < nextOp
  BY <1>2 DEF InOrder, Before
<1> QED
  BY <1>1, <1>2 DEF InOrder, Before

LEMMA CrashKeepsLives ==
  ASSUME LivesInv, Crash
  PROVE  LivesInv'
<1>1. /\ stream \in [Objects -> Seq(Event)] /\ Unanswered /\ crashes' \in Nat /\ faults' \in Nat
      /\ NoMemory /\ mode' = "down"
      /\ UNCHANGED <<stream, faults, bootEpoch, nextOp, replies, bucket, markers, areaWrites>>
  BY DEF LivesInv, Crash, GeoTruthTypeOK, TypeOK, PublisherTypeOK, AnsweredInv
<1>2. GeoTruthTypeOK' /\ AnsweredInv' /\ Quiet' /\ Repairing'
  BY <1>1, Forgotten DEF LivesInv
<1>3. Logs'
  BY <1>1, <1>2, OrderStays DEF LivesInv, Logs, Quiet
<1>4. Past' /\ Separate' /\ EpochOK'
  BY <1>1 DEF LivesInv, Past, Separate, Insts, EpochOK, LastSeq, Stored
<1>5. Acked'
  BY <1>1, AckedStays DEF LivesInv, Grown
<1> QED
  BY <1>1, <1>2, <1>3, <1>4, <1>5 DEF LivesInv

---------------------------------------------------------------------------
(* Boot: what is missing is published.                                     *)

(* A projection derived from the checkpoint of a commit is identified as   *)
(* the projection that the publisher sends for it.                         *)
LEMMA ExpectedFields ==
  ASSUME NEW c \in CommitEvent
  PROVE  /\ ExpectedProjections(c) \in Seq(ProjectionEvent)
         /\ DOMAIN ExpectedProjections(c) = 1..Len(c.trans)
         /\ \A k \in 1..Len(c.trans) :
              LET e == ExpectedProjections(c)[k]
              IN  /\ ~IsCommit(e) /\ e.inst = c.inst /\ e.seq = c.seq /\ e.obj = c.obj
                  /\ EventID(e) = EventID(Projections(c)[k])
<1> DEFINE d == Checkpoint(c)
<1>1. d \in CommitEvent
  BY DEF CommitEvent, Checkpoint
<1>2. d.trans = c.trans /\ d.inst = c.inst /\ d.seq = c.seq /\ d.obj = c.obj
  BY DEF CommitEvent, Checkpoint
<1>3. ExpectedProjections(c) = Projections(d)
  BY DEF ExpectedProjections
<1> HIDE DEF d
<1>4. Projections(d) \in Seq(ProjectionEvent)
  BY <1>1, ProjectionsType
<1>5. DOMAIN Projections(d) = 1..Len(c.trans)
  BY <1>2 DEF Projections
<1>6. ASSUME NEW k \in 1..Len(c.trans)
      PROVE  LET e == Projections(d)[k]
             IN  /\ ~IsCommit(e) /\ e.inst = c.inst /\ e.seq = c.seq /\ e.obj = c.obj
                 /\ EventID(e) = EventID(Projections(c)[k])
  <2>1. /\ ~IsCommit(Projections(d)[k]) /\ Projections(d)[k].inst = d.inst
        /\ Projections(d)[k].seq = d.seq /\ Projections(d)[k].obj = d.obj
        /\ EventID(Projections(d)[k]) =
             <<Projections(d)[k].type, d.obj, d.inst, d.seq, d.trans[k].area>>
        /\ Projections(d)[k].type = IF d.trans[k].entered THEN "entered" ELSE "exited"
    BY <1>2, ProjectionFields
  <2>2. /\ EventID(Projections(c)[k]) =
             <<Projections(c)[k].type, c.obj, c.inst, c.seq, c.trans[k].area>>
        /\ Projections(c)[k].type = IF c.trans[k].entered THEN "entered" ELSE "exited"
    BY ProjectionFields
  <2> QED
    BY <1>2, <2>1, <2>2
<1> QED
  BY <1>3, <1>4, <1>5, <1>6

(* The first position of the latest commit of an object.                   *)
LEMMA LatestIs ==
  ASSUME Logs, NEW o \in Objects, NEW f, LatestAt(stream[o], f)
  PROVE  /\ f \in DOMAIN stream[o] /\ stream[o] \in Seq(Event)
         /\ stream[o][f] \in CommitEvent /\ IsCommit(stream[o][f]) /\ stream[o][f].obj = o
<1>1. stream[o] \in Seq(Event) /\ InOrder(o)
  BY DEF Logs, LogOK
<1>2. f \in DOMAIN stream[o] /\ IsCommit(stream[o][f])
  BY DEF LatestAt, FirstCommits
<1>3. stream[o][f] \in Event /\ stream[o][f].obj = o
  BY <1>1, <1>2 DEF InOrder, Before
<1>4. stream[o][f] \in CommitEvent
  BY <1>2, <1>3 DEF Event, ProjectionEvent, IsCommit, CommitTypes, ProjectionTypes
<1> QED
  BY <1>1, <1>2, <1>3, <1>4

LEMMA RepairStored ==
  ASSUME LivesInv, NEW e \in repair, stream' = [stream EXCEPT ![e.obj] = Append(@, e)]
  PROVE  /\ Appended(e.obj, e) /\ e.obj \in Objects /\ e \in Event
         /\ stream' \in [Objects -> Seq(Event)]
         /\ \A o \in Objects :
              /\ LogOK(stream'[o]) /\ Insts(o)' = Insts(o) /\ Grown(o)
              /\ CommitSeqOf(stream'[o]) = CommitSeqOf(stream[o])
              /\ \A i \in DOMAIN stream'[o] : IsCommit(stream'[o][i]) =>
                   \E j \in DOMAIN stream[o] : stream[o][j] = stream'[o][i]
              /\ \A f : LatestAt(stream[o], f) =>
                   /\ LatestAt(stream'[o], f) /\ f \in DOMAIN stream[o] /\ f \in DOMAIN stream'[o]
                   /\ stream'[o][f] = stream[o][f]
<1>1. /\ stream \in [Objects -> Seq(Event)] /\ Logs /\ Repairs(e) /\ e \in Event
  BY DEF LivesInv, GeoTruthTypeOK, TypeOK, PublisherTypeOK, Repairing, Event
<1>2. PICK p : p = e.obj
  OBVIOUS
<1>3. PICK g \in DOMAIN stream[p] :
        LatestAt(stream[p], g) /\ e \in ToSet(ExpectedProjections(stream[p][g]))
  BY <1>1, <1>2 DEF Repairs
<1>4. p \in Objects /\ stream[p] \in Seq(Event) /\ LogOK(stream[p])
  BY <1>1, <1>2 DEF Repairs, Logs
<1>5. ~IsCommit(e) /\ e.inst = stream[p][g].inst /\ e.seq = stream[p][g].seq
  <2>1. stream[p][g] \in CommitEvent
    BY <1>1, <1>3, <1>4, LatestIs
  <2> QED
    BY <1>3, <2>1, ExpectedFields DEF ToSet
<1>6. Appended(p, e) /\ stream' \in [Objects -> Seq(Event)]
  <2>1. Append(stream[p], e) \in Seq(Event)
    BY <1>1, <1>4, AppendEntries
  <2> QED
    BY <1>1, <1>2, <1>4, <2>1 DEF Appended
<1>7. /\ LogOK(stream'[p]) /\ LatestAt(stream'[p], g)
      /\ CommitSeqOf(stream'[p]) = CommitSeqOf(stream[p])
  BY <1>1, <1>3, <1>4, <1>5, <1>6, AppendRest DEF Appended
<1>8. PICK last : last = Len(stream[p]) + 1
  OBVIOUS
<1>9. /\ DOMAIN stream'[p] = DOMAIN stream[p] \cup {last} /\ stream'[p][last] = e
      /\ \A i \in DOMAIN stream[p] : stream'[p][i] = stream[p][i]
  <2>1. /\ Len(stream[p]) \in Nat /\ DOMAIN stream[p] = 1..Len(stream[p])
        /\ DOMAIN stream'[p] = 1..(Len(stream[p]) + 1) /\ stream'[p][Len(stream[p]) + 1] = e
        /\ \A i \in 1..Len(stream[p]) : stream'[p][i] = stream[p][i]
    BY <1>1, <1>4, <1>6, AppendEntries DEF Appended
  <2> QED
    BY <1>8, <2>1
<1>10. /\ Insts(p)' = Insts(p)
       /\ \A i \in DOMAIN stream'[p] : IsCommit(stream'[p][i]) =>
            \E j \in DOMAIN stream[p] : stream[p][j] = stream'[p][i]
  <2>1. \A x \in Insts(p)' : x \in Insts(p)
    BY <1>3, <1>5, <1>9 DEF Insts
  <2>2. \A x \in Insts(p) : x \in Insts(p)'
    BY <1>9 DEF Insts
  <2> QED
    BY <1>5, <1>9, <2>1, <2>2
<1>11. \A f : LatestAt(stream[p], f) => f = g
  BY <1>3, <1>4, LatestUnique
<1>12. ASSUME NEW o \in Objects, o # p
       PROVE  /\ LogOK(stream'[o]) /\ Insts(o)' = Insts(o) /\ Grown(o)
              /\ stream'[o] = stream[o]
  BY <1>1, <1>6, <1>12 DEF Appended, Logs, Insts, Grown
<1>13. \A o \in Objects : \A f : LatestAt(stream[o], f) => f \in DOMAIN stream[o]
  BY DEF LatestAt, FirstCommits
<1>14. Grown(p)
  BY <1>1, <1>6 DEF Appended, Grown
<1>15. ASSUME NEW o \in Objects
       PROVE  /\ LogOK(stream'[o]) /\ Insts(o)' = Insts(o) /\ Grown(o)
              /\ CommitSeqOf(stream'[o]) = CommitSeqOf(stream[o])
              /\ \A i \in DOMAIN stream'[o] : IsCommit(stream'[o][i]) =>
                   \E j \in DOMAIN stream[o] : stream[o][j] = stream'[o][i]
              /\ \A f : LatestAt(stream[o], f) =>
                   /\ LatestAt(stream'[o], f) /\ f \in DOMAIN stream[o] /\ f \in DOMAIN stream'[o]
                   /\ stream'[o][f] = stream[o][f]
  <2>1. CASE o = p
    BY <1>3, <1>7, <1>9, <1>10, <1>11, <1>14, <2>1
  <2>2. CASE o # p
    BY <1>12, <1>13, <2>2
  <2> QED
    BY <2>1, <2>2
<1> QED
  BY <1>1, <1>2, <1>4, <1>6, <1>15

(* A repair that is stored leaves the rest of the invariant as it is.      *)
LEMMA StoredKeeps ==
  ASSUME LivesInv, NEW e \in repair, stream' = [stream EXCEPT ![e.obj] = Append(@, e)],
         UNCHANGED <<markers, bootEpoch, replies, nextOp>>, \A o \in Objects : ctl'[o] = NoCtl
  PROVE  Logs' /\ Past' /\ Separate' /\ EpochOK' /\ Acked'
<1>1. Logs'
  BY RepairStored, OrderStays DEF LivesInv, Logs
<1>2. Past' /\ Separate'
  <2>1. \A o \in Objects : Insts(o)' = Insts(o)
    BY RepairStored
  <2>2. Past /\ Separate /\ bootEpoch' = bootEpoch
    BY DEF LivesInv
  <2> QED
    BY <2>1, <2>2 DEF Past, Separate
<1>3. EpochOK'
  <2>1. /\ stream \in [Objects -> Seq(Event)] /\ IsFiniteSet(Stored) /\ Cardinality(Stored) \in Nat
        /\ bootEpoch <= LastSeq /\ markers \in Nat /\ bootEpoch \in Nat
    BY FS_CardinalityType DEF LivesInv, EpochOK, GeoTruthTypeOK, TypeOK, PublisherTypeOK
  <2>2. IsFiniteSet(Stored)' /\ Cardinality(Stored') = Cardinality(Stored) + 1
    BY <2>1, RepairStored, StoredGrows
  <2> QED
    BY <2>1, <2>2 DEF EpochOK, LastSeq
<1>4. Acked'
  BY RepairStored, AckedStays DEF LivesInv, GeoTruthTypeOK, TypeOK, PublisherTypeOK
<1> QED
  BY <1>1, <1>2, <1>3, <1>4

(* A process that is not up, and whose memory does not change.             *)
LEMMA StillQuiet ==
  ASSUME LivesInv, mode # "up", UNCHANGED memoryVars, UNCHANGED <<bootEpoch, faults>>,
         stream' \in [Objects -> Seq(Event)], areaTree' \in [Regions -> SUBSET Areas]
  PROVE  /\ TypeOK' /\ AnsweredInv' /\ Quiet' /\ InFlight' = {}
         /\ \A o \in Objects : ctl'[o] = NoCtl
<1>1. Quiet /\ TypeOK /\ Unanswered
  BY DEF LivesInv, GeoTruthTypeOK, AnsweredInv
<1>2. Quiet' /\ \A o \in Objects : ctl'[o] = NoCtl
  BY <1>1 DEF Quiet, memoryVars
<1>3. EngineTypeOK'
  BY <1>1 DEF TypeOK, EngineTypeOK, memoryVars
<1>4. PublisherTypeOK'
  BY <1>1 DEF TypeOK, PublisherTypeOK, memoryVars
<1>5. TypeOK'
  BY <1>1, <1>3, <1>4 DEF TypeOK, memoryVars
<1>6. InFlight' = {}
  BY <1>2 DEF Quiet, InFlight
<1>7. \A o \in Objects : \A n : ~InLine(o, n)'
  BY <1>2, EmptyMailbox DEF InLine
<1>8. Unanswered'
  BY <1>1, <1>7 DEF Unanswered, memoryVars
<1>9. \A o \in Objects : Staged(o)' /\ Ordered(o)'
  BY <1>2, EmptyMailbox DEF Quiet, Staged, MailboxOK, Ordered
<1>10. IInv'
  BY <1>2, <1>5, <1>6, EmptyMailbox DEF IInv, AtMostOneInFlight, MailboxOwned
<1>11. AnsweredInv'
  BY <1>7, <1>8, <1>9, <1>10 DEF AnsweredInv, StagedInv, Apart
<1> QED
  BY <1>2, <1>5, <1>6, <1>11

LEMMA RepairKeepsLives ==
  ASSUME LivesInv, NEW e \in repair, RepairProjection(e)
  PROVE  LivesInv'
<1>1. /\ mode = "booting" /\ mode' = "booting" /\ UNCHANGED memoryVars
      /\ UNCHANGED <<bootEpoch, faults, areaTree, bucket, markers, crashes, areaWrites>>
      /\ stream' = [stream EXCEPT ![e.obj] = Append(@, e)] /\ repair' = repair \ {e}
  BY DEF RepairProjection, durableVars
<1>2. /\ Appended(e.obj, e) /\ e.obj \in Objects /\ e \in Event
      /\ stream' \in [Objects -> Seq(Event)]
  BY <1>1, RepairStored
<1>3. TypeOK' /\ AnsweredInv' /\ Quiet' /\ InFlight' = {} /\ \A o \in Objects : ctl'[o] = NoCtl
  BY <1>1, <1>2, StillQuiet DEF LivesInv, GeoTruthTypeOK, TypeOK, EngineTypeOK
<1>4. GeoTruthTypeOK'
  BY <1>1, <1>3 DEF LivesInv, GeoTruthTypeOK, Quiet
<1>5. Logs' /\ Past' /\ Separate' /\ EpochOK' /\ Acked'
  BY <1>1, <1>3, StoredKeeps DEF memoryVars
<1>6. \A o \in Objects : \A f : LatestAt(stream[o], f) =>
        /\ LatestAt(stream'[o], f) /\ f \in DOMAIN stream[o] /\ f \in DOMAIN stream'[o]
        /\ stream'[o][f] = stream[o][f]
  BY <1>1, RepairStored
<1>7. ASSUME NEW d \in repair'
      PROVE  Repairs(d)'
  <2>1. Repairs(d)
    BY <1>1, <1>7 DEF LivesInv, Repairing
  <2> QED
    BY <1>6, <2>1 DEF Repairs
<1>8. ASSUME NEW o \in Objects
      PROVE  Covered(o)'
  <2>1. Logs /\ Covered(o) /\ Repairs(e)
    BY <1>1 DEF LivesInv, Repairing
  <2>2. SUFFICES ASSUME NEW f \in DOMAIN stream'[o], LatestAt(stream'[o], f),
                        NEW k \in 1..Len(stream'[o][f].trans)
                 PROVE  \/ \E j \in (f + 1)..Len(stream'[o]) :
                             EventID(stream'[o][j]) = EventID(Projections(stream'[o][f])[k])
                        \/ \E d \in repair' : /\ d.obj = o
                                              /\ EventID(d) = EventID(Projections(stream'[o][f])[k])
    BY DEF Covered
  <2>3. stream[o] \in Seq(Event) /\ stream'[o] \in Seq(Event) /\ LogOK(stream[o])
    BY <1>5, <2>1 DEF Logs, LogOK
  <2>4. LatestAt(stream[o], f) /\ f \in DOMAIN stream[o] /\ stream'[o][f] = stream[o][f]
    <3>1. ASSUME stream[o] = <<>>
          PROVE  FALSE
      <4>1. o = e.obj => FALSE
        <5>1. PICK g \in DOMAIN stream[e.obj] : TRUE
          BY <2>1 DEF Repairs
        <5> QED
          BY <3>1, <5>1
      <4>2. o # e.obj => stream'[o] = <<>>
        BY <1>2, <3>1 DEF Appended
      <4> QED
        BY <4>1, <4>2
    <3>2. PICK g \in DOMAIN stream[o] : LatestAt(stream[o], g)
      BY <2>3, <3>1 DEF LogOK
    <3>3. LatestAt(stream'[o], g) /\ stream'[o][g] = stream[o][g]
      BY <1>6, <3>2
    <3>4. g = f
      BY <2>2, <2>3, <3>3, LatestUnique
    <3> QED
      BY <3>2, <3>3, <3>4
  <2>5. PICK c : c = stream[o][f]
    OBVIOUS
  <2>6. /\ Len(stream[o]) \in Nat /\ f \in 1..Len(stream[o]) /\ Len(stream'[o]) \in Nat
        /\ \A j \in 1..Len(stream[o]) : stream'[o][j] = stream[o][j]
        /\ Len(stream[o]) <= Len(stream'[o])
    <3>1. CASE o = e.obj
      BY <1>2, <2>3, <2>4, <3>1, AppendEntries DEF Appended
    <3>2. CASE o # e.obj
      BY <1>2, <2>3, <2>4, <3>2, LenProperties DEF Appended
    <3> QED
      BY <3>1, <3>2
  <2>7. \/ \E j \in (f + 1)..Len(stream[o]) : EventID(stream[o][j]) = EventID(Projections(c)[k])
        \/ \E d \in repair : d.obj = o /\ EventID(d) = EventID(Projections(c)[k])
    BY <2>1, <2>2, <2>4, <2>5 DEF Covered
  <2>8. ASSUME NEW j \in (f + 1)..Len(stream[o]), EventID(stream[o][j]) = EventID(Projections(c)[k])
        PROVE  \E i \in (f + 1)..Len(stream'[o]) : EventID(stream'[o][i]) = EventID(Projections(c)[k])
    <3>1. j \in 1..Len(stream[o]) /\ j \in (f + 1)..Len(stream'[o])
      BY <2>6
    <3> QED
      BY <2>6, <2>8, <3>1
  <2>9. ASSUME e.obj = o, EventID(e) = EventID(Projections(c)[k])
        PROVE  \E i \in (f + 1)..Len(stream'[o]) : EventID(stream'[o][i]) = EventID(Projections(c)[k])
    <3>1. Len(stream'[o]) = Len(stream[o]) + 1 /\ stream'[o][Len(stream[o]) + 1] = e
      BY <1>2, <2>3, <2>9, AppendEntries DEF Appended
    <3>2. Len(stream[o]) + 1 \in (f + 1)..Len(stream'[o])
      BY <2>6, <3>1
    <3> QED
      BY <2>9, <3>1, <3>2
  <2>10. \A d \in repair : d # e => d \in repair'
    BY <1>1
  <2> QED
    BY <2>4, <2>5, <2>7, <2>8, <2>9, <2>10
<1>9. Repairing'
  BY <1>7, <1>8 DEF Repairing
<1> QED
  BY <1>1, <1>3, <1>4, <1>5, <1>9 DEF LivesInv

LEMMA RepairFailureKeepsLives ==
  ASSUME LivesInv, NEW e \in repair, RepairFails(e)
  PROVE  LivesInv'
<1>1. /\ NoMemory /\ mode' = "down" /\ faults' \in Nat
      /\ UNCHANGED <<bootEpoch, nextOp, replies, bucket, markers, crashes, areaWrites>>
      /\ stream' = stream \/ stream' = [stream EXCEPT ![e.obj] = Append(@, e)]
  BY DEF RepairFails, durableVars, LivesInv, GeoTruthTypeOK, TypeOK, PublisherTypeOK
<1>2. stream \in [Objects -> Seq(Event)] /\ stream' \in [Objects -> Seq(Event)]
  BY <1>1, RepairStored DEF LivesInv, GeoTruthTypeOK, TypeOK, PublisherTypeOK
<1>3. GeoTruthTypeOK' /\ AnsweredInv' /\ Quiet' /\ Repairing'
  <2>1. GeoTruthTypeOK /\ Unanswered /\ crashes' \in Nat
    BY <1>1 DEF LivesInv, AnsweredInv, GeoTruthTypeOK
  <2> QED
    BY <1>1, <1>2, <2>1, Forgotten
<1>4. \A o \in Objects : ctl'[o] = NoCtl
  BY <1>3 DEF Quiet
<1>5. CASE stream' = [stream EXCEPT ![e.obj] = Append(@, e)]
  BY <1>1, <1>3, <1>4, <1>5, StoredKeeps DEF LivesInv
<1>6. CASE stream' = stream
  <2>1. Logs'
    BY <1>1, <1>4, <1>6, OrderStays DEF LivesInv, Logs
  <2>2. Past' /\ Separate' /\ EpochOK'
    BY <1>1, <1>6 DEF LivesInv, Past, Separate, Insts, EpochOK, LastSeq, Stored
  <2>3. Acked'
    BY <1>1, <1>2, <1>6, AckedStays DEF LivesInv, Grown
  <2> QED
    BY <1>1, <1>3, <2>1, <2>2, <2>3 DEF LivesInv
<1> QED
  BY <1>1, <1>5, <1>6

(* What Boot reads back of an object.                                      *)
LEMMA ReadBack ==
  ASSUME Logs, NEW o \in Objects
  PROVE  /\ CommitsAt(o) = {} => stream[o] = <<>>
         /\ stream[o] = <<>> => CommitsAt(o) = {}
         /\ \A f : LatestAt(stream[o], f) =>
              /\ CommitsAt(o) # {} /\ Max(CommitsAt(o)) \in CommitsAt(o)
              /\ f <= Max(CommitsAt(o)) /\ Recovered(o) = stream[o][f]
<1>1. LogOK(stream[o])
  BY DEF Logs
<1>2. PICK C : C = CommitsAt(o)
  OBVIOUS
<1>3. C = {i \in DOMAIN stream[o] : IsCommit(stream[o][i])}
  BY <1>2 DEF CommitsAt
<1>4. /\ C = {} => stream[o] = <<>>
      /\ stream[o] = <<>> => C = {}
      /\ \A f : LatestAt(stream[o], f) => /\ C # {} /\ Max(C) \in C /\ f <= Max(C)
                                          /\ stream[o][Max(C)] = stream[o][f]
  BY <1>1, <1>3, LastCommit
<1> QED
  BY <1>2, <1>4 DEF Recovered

(* What is missing after the latest commit, f.                             *)
LEMMA MissingIs ==
  ASSUME Logs, NEW o \in Objects, NEW f, LatestAt(stream[o], f),
         NEW c, c = stream[o][f]
  PROVE  /\ \A e \in Missing(o) : e \in ToSet(ExpectedProjections(c))
         /\ \A k \in 1..Len(c.trans) :
              \/ \E j \in (f + 1)..Len(stream[o]) : EventID(stream[o][j]) = EventID(Projections(c)[k])
              \/ \E e \in Missing(o) : e.obj = o /\ EventID(e) = EventID(Projections(c)[k])
<1>1. /\ CommitsAt(o) # {} /\ Max(CommitsAt(o)) \in CommitsAt(o)
      /\ f <= Max(CommitsAt(o)) /\ Recovered(o) = c
  BY ReadBack
<1>2. /\ f \in DOMAIN stream[o] /\ stream[o] \in Seq(Event)
      /\ c \in CommitEvent /\ c.obj = o
  BY LatestIs
<1>3. PICK last : last = Max(CommitsAt(o))
  OBVIOUS
<1>4. /\ last \in DOMAIN stream[o] /\ f <= last
      /\ Missing(o) = { e \in ToSet(ExpectedProjections(c)) :
           \A j \in DOMAIN stream[o] : j > last => EventID(stream[o][j]) # EventID(e) }
  BY <1>1, <1>3 DEF Missing, CommitsAt
<1>5. Len(stream[o]) \in Nat /\ DOMAIN stream[o] = 1..Len(stream[o])
  BY <1>2, LenProperties
<1>6. ASSUME NEW k \in 1..Len(c.trans)
      PROVE  \/ \E j \in (f + 1)..Len(stream[o]) : EventID(stream[o][j]) = EventID(Projections(c)[k])
             \/ \E e \in Missing(o) : e.obj = o /\ EventID(e) = EventID(Projections(c)[k])
  <2>1. PICK e : e = ExpectedProjections(c)[k]
    OBVIOUS
  <2>2. /\ k \in DOMAIN ExpectedProjections(c)
        /\ e.obj = o /\ EventID(e) = EventID(Projections(c)[k])
    BY <1>2, <2>1, ExpectedFields
  <2>3. e \in ToSet(ExpectedProjections(c))
    BY <2>1, <2>2 DEF ToSet
  <2>4. CASE e \in Missing(o)
    BY <2>2, <2>4
  <2>5. CASE e \notin Missing(o)
    <3>1. PICK j \in DOMAIN stream[o] : j > last /\ EventID(stream[o][j]) = EventID(e)
      BY <1>4, <2>3, <2>5
    <3>2. j \in (f + 1)..Len(stream[o])
      BY <1>2, <1>4, <1>5, <3>1
    <3> QED
      BY <2>2, <3>1, <3>2
  <2> QED
    BY <2>4, <2>5
<1> QED
  BY <1>4, <1>6

LEMMA StartKeepsLives ==
  ASSUME LivesInv, StartBoot
  PROVE  LivesInv'
<1>1. /\ mode = "down" /\ mode' = "booting" /\ UNCHANGED memoryVars
      /\ UNCHANGED <<bootEpoch, faults, stream, bucket, markers, crashes, areaWrites>>
      /\ areaTree' = [r \in Regions |-> {a \in Areas : bucket[a] = r}]
      /\ repair' = UNION {Missing(o) : o \in Objects}
  BY DEF StartBoot, durableVars
<1>2. stream \in [Objects -> Seq(Event)] /\ Logs
  BY DEF LivesInv, GeoTruthTypeOK, TypeOK, PublisherTypeOK
<1>3. TypeOK' /\ AnsweredInv' /\ Quiet' /\ InFlight' = {} /\ \A o \in Objects : ctl'[o] = NoCtl
  BY <1>1, <1>2, StillQuiet
<1>4. ASSUME NEW o \in Objects, NEW e \in Missing(o)
      PROVE  e \in ProjectionEvent /\ Repairs(e)
  <2>1. stream[o] # <<>>
    BY <1>2, <1>4, ReadBack DEF Missing
  <2>2. PICK f \in DOMAIN stream[o] : LatestAt(stream[o], f)
    BY <1>2, <2>1 DEF Logs, LogOK
  <2>3. stream[o][f] \in CommitEvent /\ stream[o][f].obj = o
    BY <1>2, <2>2, LatestIs
  <2>4. e \in ToSet(ExpectedProjections(stream[o][f]))
    BY <1>2, <1>4, <2>2, MissingIs
  <2>5. e \in ProjectionEvent /\ e.obj = o
    <3>1. PICK k \in DOMAIN ExpectedProjections(stream[o][f]) : e = ExpectedProjections(stream[o][f])[k]
      BY <2>4 DEF ToSet
    <3>2. /\ ExpectedProjections(stream[o][f]) \in Seq(ProjectionEvent)
          /\ ExpectedProjections(stream[o][f])[k].obj = o
      BY <2>3, <3>1, ExpectedFields
    <3> QED
      BY <3>1, <3>2, ElementOfSeq, LenProperties
  <2> QED
    BY <2>2, <2>4, <2>5 DEF Repairs
<1>5. ASSUME NEW e \in repair'
      PROVE  e \in ProjectionEvent /\ Repairs(e)'
  <2>1. e \in ProjectionEvent /\ Repairs(e)
    BY <1>1, <1>4, <1>5
  <2> QED
    BY <1>1, <2>1 DEF Repairs
<1>6. ASSUME NEW o \in Objects
      PROVE  Covered(o)'
  <2>1. SUFFICES ASSUME NEW f \in DOMAIN stream[o], LatestAt(stream[o], f),
                        NEW k \in 1..Len(stream[o][f].trans)
                 PROVE  \/ \E j \in (f + 1)..Len(stream[o]) :
                             EventID(stream[o][j]) = EventID(Projections(stream[o][f])[k])
                        \/ \E d \in repair' : /\ d.obj = o
                                              /\ EventID(d) = EventID(Projections(stream[o][f])[k])
    BY <1>1 DEF Covered
  <2>2. \A d \in Missing(o) : d \in repair'
    BY <1>1
  <2> QED
    BY <1>2, <2>1, <2>2, MissingIs
<1>7. Repairing'
  BY <1>5, <1>6 DEF Repairing
<1>8. GeoTruthTypeOK'
  BY <1>1, <1>3, <1>5 DEF LivesInv, GeoTruthTypeOK, Quiet
<1>9. Logs'
  BY <1>1, <1>2, <1>3, OrderStays DEF Logs, memoryVars
<1>10. Past' /\ Separate' /\ EpochOK'
  BY <1>1 DEF LivesInv, Past, Separate, Insts, EpochOK, LastSeq, Stored
<1>11. Acked'
  BY <1>1, <1>2, AckedStays DEF LivesInv, Grown, memoryVars
<1> QED
  BY <1>1, <1>3, <1>7, <1>8, <1>9, <1>10, <1>11 DEF LivesInv

(* The mailbox that Boot gives an object holds no command, and continues   *)
(* the incarnation of the latest commit.                                   *)
LEMMA BootstrapMailbox ==
  ASSUME Logs, NEW o \in Objects
  PROVE  /\ BootstrapCtl(o) \in Ctl
         /\ BootstrapCtl(o).head = None /\ BootstrapCtl(o).queue = <<>>
         /\ BootstrapCtl(o).env = None
         /\ Active(o) =>
              /\ Recovered(o) \in CommitEvent
              /\ BootstrapCtl(o).inst = Recovered(o).inst
              /\ BootstrapCtl(o).seq = Recovered(o).seq
              /\ \E f \in DOMAIN stream[o] : LatestAt(stream[o], f) /\ Recovered(o) = stream[o][f]
<1>1. CASE ~Active(o)
  BY <1>1, NoCtlType, EmptyMailbox DEF BootstrapCtl
<1>2. CASE Active(o)
  <2>1. stream[o] # <<>>
    BY <1>2, ReadBack DEF Active
  <2>2. PICK f \in DOMAIN stream[o] : LatestAt(stream[o], f)
    BY <2>1 DEF Logs, LogOK
  <2>3. Recovered(o) = stream[o][f] /\ stream[o][f] \in CommitEvent
    BY <2>2, ReadBack, LatestIs
  <2>4. PICK c : c = Recovered(o)
    OBVIOUS
  <2>5. c.inst \in InstanceID /\ c.seq \in Nat /\ c.region \in RegionOrNone
    BY <2>3, <2>4 DEF CommitEvent
  <2>6. BootstrapCtl(o) = [NoCtl EXCEPT !.inst = c.inst, !.seq = c.seq, !.route = c.region]
    BY <1>2, <2>4 DEF BootstrapCtl
  <2>7. /\ BootstrapCtl(o) \in Ctl /\ BootstrapCtl(o).inst = c.inst /\ BootstrapCtl(o).seq = c.seq
        /\ BootstrapCtl(o).head = NoCtl.head /\ BootstrapCtl(o).queue = NoCtl.queue
        /\ BootstrapCtl(o).env = NoCtl.env
    BY <2>5, <2>6, NoCtlType DEF Ctl
  <2> QED
    BY <2>2, <2>3, <2>4, <2>7, EmptyMailbox
<1> QED
  BY <1>1, <1>2

LEMMA BootType ==
  ASSUME LivesInv, FinishBoot
  PROVE  GeoTruthTypeOK' /\ bootEpoch' = LastSeq + 1 /\ LastSeq \in Nat /\ bootEpoch <= LastSeq
<1>1. Logs /\ TypeOK /\ Quiet /\ mode = "booting"
  BY DEF LivesInv, GeoTruthTypeOK, FinishBoot
<1>2. \A o \in Objects : /\ BootstrapCtl(o) \in Ctl
                         /\ Active(o) => Recovered(o) \in CommitEvent
  BY <1>1, BootstrapMailbox
<1>3. LastSeq \in Nat /\ bootEpoch' = LastSeq + 1 /\ markers' \in Nat /\ bootEpoch <= LastSeq
  <2>1. Cardinality(Stored) \in Nat /\ markers \in Nat /\ bootEpoch <= LastSeq
    BY FS_CardinalityType DEF LivesInv, EpochOK, GeoTruthTypeOK
  <2> QED
    BY <2>1 DEF LastSeq, FinishBoot, NextEpoch
<1>4. \A o \in Objects : Active(o) => /\ Recovered(o).pt \in PointOrNone
                                      /\ Recovered(o).inside \in SUBSET Areas
  BY <1>2 DEF CommitEvent
<1>5. tree' \in [Regions -> [Objects -> PointOrNone]]
  <2>1. \A o \in Objects : \A r \in Regions :
          (IF PlacedIn(o, r) THEN Recovered(o).pt ELSE None) \in PointOrNone
    BY <1>4 DEF PlacedIn, PointOrNone
  <2> QED
    BY <2>1 DEF FinishBoot
<1>6. prevInside' \in [Regions -> [Objects -> SUBSET Areas]]
  <2>1. \A o \in Objects : \A r \in Regions :
          (IF PlacedIn(o, r) THEN BootstrapInside(o) ELSE {}) \in SUBSET Areas
    BY <1>4 DEF PlacedIn, BootstrapInside
  <2> QED
    BY <2>1 DEF FinishBoot
<1>7. registered' \subseteq Objects /\ ctl' \in [Objects -> Ctl]
  BY <1>2 DEF FinishBoot
<1>8. pubRegion' \in [Objects -> RegionOrNone]
  <2>1. \A o \in Objects : BootstrapCtl(o).route \in RegionOrNone
    BY <1>2 DEF Ctl
  <2> QED
    BY <2>1 DEF FinishBoot
<1>9. EngineTypeOK'
  BY <1>1, <1>5, <1>6, <1>7, <1>8 DEF TypeOK, EngineTypeOK, FinishBoot
<1>10. PublisherTypeOK'
  BY <1>1 DEF TypeOK, PublisherTypeOK, FinishBoot, publisherVars
<1>11. TypeOK'
  BY <1>1, <1>3, <1>7, <1>9, <1>10 DEF TypeOK, FinishBoot
<1> QED
  BY <1>3, <1>11 DEF LivesInv, GeoTruthTypeOK, FinishBoot, Repaired

LEMMA FinishKeepsLives ==
  ASSUME LivesInv, FinishBoot
  PROVE  LivesInv'
<1>1. /\ mode = "booting" /\ mode' = "up" /\ repair = {} /\ repair' = {}
      /\ UNCHANGED <<tasks, results, commitCh, publishing, commitResults, stream, cancelled>>
      /\ UNCHANGED <<nextOp, replies>>
      /\ registered' = {o \in Objects : Active(o)} /\ ctl' = [o \in Objects |-> BootstrapCtl(o)]
      /\ markers' = markers + 1
  BY DEF FinishBoot, Repaired, publisherVars
<1>2. /\ Logs /\ Past /\ Separate /\ Quiet /\ Unanswered /\ EpochOK /\ Acked
      /\ \A o \in Objects : Covered(o)
  BY <1>1 DEF LivesInv, AnsweredInv, Repairing
<1>3. GeoTruthTypeOK' /\ bootEpoch' = LastSeq + 1 /\ LastSeq \in Nat /\ bootEpoch <= LastSeq
  BY BootType
<1>4. \A o \in Objects : /\ ctl'[o].head = None /\ ctl'[o].queue = <<>> /\ ctl'[o].env = None
                         /\ DOMAIN ctl'[o].queue = {}
  BY <1>1, <1>2, BootstrapMailbox, EmptyMailbox
<1>5. \A o \in Objects : \A n : ~InLine(o, n)'
  BY <1>4 DEF InLine
<1>6. AnsweredInv'
  <2>1. InFlight' = {}
    BY <1>1, <1>2 DEF Quiet, InFlight
  <2>2. IInv'
    BY <1>3, <1>4, <2>1 DEF IInv, AtMostOneInFlight, MailboxOwned, GeoTruthTypeOK
  <2>3. \A o \in Objects : Staged(o)' /\ Ordered(o)'
    BY <1>1, <1>2, <1>4 DEF Quiet, Staged, MailboxOK, Ordered
  <2>4. Unanswered'
    BY <1>1, <1>2, <1>5 DEF Unanswered
  <2> QED
    BY <1>5, <2>2, <2>3, <2>4 DEF AnsweredInv, StagedInv, Apart
<1>7. Logs'
  <2>1. ASSUME NEW o \in Objects
        PROVE  InOrder(o)'
    BY <1>1, <1>2, <1>5 DEF Logs, InOrder, Before
  <2> QED
    BY <1>1, <1>2, <2>1 DEF Logs
<1>8. ASSUME NEW o \in Objects, NEW inst \in Insts(o)
      PROVE  inst \in InstanceID /\ inst[1] < bootEpoch' /\ inst[1] <= bootEpoch'
  <2>1. inst \in InstanceID /\ inst[1] <= bootEpoch /\ inst[1] \in Nat
    BY <1>2, <1>8 DEF Past, InstanceID
  <2>2. bootEpoch \in Nat
    BY DEF LivesInv, GeoTruthTypeOK, TypeOK
  <2> QED
    BY <1>3, <2>1, <2>2
<1>9. \A o \in Objects : Insts(o)' = Insts(o)
  BY <1>1 DEF Insts
<1>10. Past' /\ Separate'
  BY <1>2, <1>8, <1>9 DEF Past, Separate
<1>11. Distinct'
  <2>1. ASSUME NEW o \in Objects, NEW inst \in Owns(o)'
        PROVE  inst \in Insts(o)
    <3>1. CASE inst \in Insts(o)'
      BY <1>9, <3>1
    <3>2. CASE Active(o) /\ inst = ctl'[o].inst
      <4>1. PICK f \in DOMAIN stream[o] : Recovered(o) = stream[o][f]
        BY <1>2, <3>2, BootstrapMailbox
      <4>2. inst = stream[o][f].inst
        BY <1>1, <1>2, <3>2, <4>1, BootstrapMailbox
      <4> QED
        BY <4>2 DEF Insts
    <3> QED
      BY <1>1, <2>1, <3>1, <3>2 DEF Owns
  <2>2. \A o \in Objects : \A inst \in Insts(o) : inst \in InstanceID /\ Known(inst)'
    BY <1>8 DEF Known
  <2> QED
    BY <1>2, <2>1, <2>2 DEF Distinct, Separate
<1>12. ASSUME NEW o \in Objects
       PROVE  Phase(o)'
  <2>1. /\ LogOK(stream[o]) /\ stream[o] \in Seq(Event) /\ stream'[o] = stream[o]
        /\ ctl'[o].env = None /\ ctl'[o] = BootstrapCtl(o) /\ ~Registering(o)'
    BY <1>1, <1>2, <1>4 DEF Logs, LogOK, Registering
  <2>2. ASSUME NEW f \in DOMAIN stream[o], LatestAt(stream[o], f)
        PROVE  Projected(stream[o], f)
    <3>1. Len(stream[o]) \in Nat /\ (Len(stream[o]) + 1) - 1 = Len(stream[o])
      BY <2>1, LenProperties
    <3>2. \A k \in 1..Len(stream[o][f].trans) : \E j \in (f + 1)..Len(stream[o]) :
            EventID(stream[o][j]) = EventID(Projections(stream[o][f])[k])
      BY <1>1, <1>2, <2>2 DEF Covered
    <3> QED
      BY <3>1, <3>2 DEF Projected, ProjectedBefore
  <2>3. Unwritten(o)'
    <3>1. CASE Active(o)
      <4>1. PICK f \in DOMAIN stream[o] : /\ LatestAt(stream[o], f) /\ Recovered(o) = stream[o][f]
                                          /\ ctl'[o].inst = stream[o][f].inst
                                          /\ ctl'[o].seq = stream[o][f].seq
        BY <1>2, <2>1, <3>1, BootstrapMailbox
      <4>2. stream[o][f].type # "removed"
        BY <3>1, <4>1 DEF Active
      <4> QED
        BY <1>1, <2>1, <2>2, <3>1, <4>1, <4>2 DEF Unwritten
    <3>2. CASE ~Active(o)
      <4>1. \A f \in DOMAIN stream[o] : LatestAt(stream[o], f) => stream[o][f].type = "removed"
        BY <1>2, <3>2, ReadBack DEF Active
      <4> QED
        BY <1>1, <2>1, <2>2, <3>2, <4>1 DEF Unwritten
    <3> QED
      BY <3>1, <3>2
  <2>4. NoJob(o)' /\ NoCommitResult(o)'
    BY <1>1, <1>2 DEF Quiet, NoJob, NoCommitResult
  <2> QED
    BY <2>3, <2>4, UnwrittenPhase
<1>13. Repairing'
  BY <1>1 DEF Repairing
<1>14. EpochOK'
  <2>1. Stored' = Stored
    BY <1>1 DEF Stored
  <2>2. markers \in Nat /\ Cardinality(Stored) \in Nat
    BY <1>2, FS_CardinalityType DEF LivesInv, GeoTruthTypeOK, EpochOK
  <2> QED
    BY <1>1, <1>2, <1>3, <2>1, <2>2 DEF EpochOK, LastSeq
<1>15. Acked'
  BY <1>1, <1>2 DEF Acked, Durable
<1> QED
  BY <1>1, <1>3, <1>6, <1>7, <1>10, <1>11, <1>12, <1>13, <1>14, <1>15 DEF LivesInv

---------------------------------------------------------------------------
(* The invariant of all lives.                                             *)

LEMMA InitLives ==
  ASSUME GeoTruthInit
  PROVE  LivesInv
<1>1. /\ mode = "down" /\ repair = {} /\ bootEpoch = 0 /\ markers = 0 /\ nextOp = 1
      /\ replies = [n \in Ops |-> <<>>] /\ stream = [o \in Objects |-> <<>>]
      /\ registered = {} /\ tasks = {} /\ results = {} /\ sweep = NoSweep /\ watched = <<>>
      /\ instances = 0 /\ ctl = [o \in Objects |-> NoCtl]
      /\ commitCh = {} /\ publishing = {} /\ commitResults = {} /\ ~cancelled
  BY DEF GeoTruthInit, PublisherInit
<1>2. Quiet /\ InFlight = {}
  BY <1>1 DEF Quiet, InFlight
<1>3. EngineTypeOK
  BY DEF GeoTruthInit, EngineTypeOK, PointOrNone, RegionOrNone, NoSweep
<1>4. PublisherTypeOK
  BY EmptySeq DEF GeoTruthInit, PublisherInit, PublisherTypeOK
<1>5. TypeOK
  <2>1. replies \in [Ops -> Seq({"ok", "err"})]
    BY <1>1, EmptySeq
  <2> QED
    BY <1>1, <1>3, <1>4, <2>1, NoCtlType DEF TypeOK
<1>6. GeoTruthTypeOK
  <2>1. watched \in Seq(Entry)
    BY <1>1, EmptySeq
  <2> QED
    BY <1>1, <1>2, <1>5, <2>1 DEF GeoTruthTypeOK, GeoTruthInit, RegionOrNone
<1>7. \A o \in Objects : /\ ctl[o].head = None /\ ctl[o].queue = <<>> /\ ctl[o].env = None
                         /\ stream[o] = <<>> /\ DOMAIN stream[o] = {}
  BY <1>1, EmptyMailbox
<1>8. AnsweredInv
  <2>1. \A o \in Objects : \A n : ~InLine(o, n)
    BY <1>7, NothingHeld
  <2>2. Unanswered
    BY <1>1, <2>1 DEF Unanswered
  <2> QED
    BY <1>1, <1>5, <1>7, <2>2, IdleAnswered
<1>9. Logs
  BY <1>7, EmptyLog DEF Logs, InOrder
<1>10. Past /\ Separate
  BY <1>7 DEF Past, Separate, Insts
<1>11. Repairing
  BY <1>1 DEF Repairing
<1>12. EpochOK
  <2>1. Stored = {}
    BY <1>7 DEF Stored
  <2> QED
    BY <1>1, <2>1, FS_EmptySet DEF EpochOK, LastSeq
<1>13. Acked
  BY <1>1 DEF Acked, ToSet
<1> QED
  BY <1>1, <1>2, <1>6, <1>8, <1>9, <1>10, <1>11, <1>12, <1>13 DEF LivesInv

LEMMA LivesKept ==
  ASSUME LivesInv, [GeoTruthNext]_allVars
  PROVE  LivesInv'
<1>1. CASE Boot
  <2>1. CASE \E e \in repair : RepairProjection(e) \/ RepairFails(e)
    BY <2>1, RepairKeepsLives, RepairFailureKeepsLives
  <2> QED
    BY <1>1, <2>1, StartKeepsLives, FinishKeepsLives DEF Boot
<1>2. CASE Crash
  BY <1>2, CrashKeepsLives
<1>3. CASE \/ \E a \in Areas, r \in Regions \cup {Elsewhere, None} : WriteArea(a, r)
           \/ WatchEntry
           \/ Work
  BY <1>3, UpKeepsLives
<1>4. CASE UNCHANGED allVars
  <2>1. /\ UNCHANGED <<mode, repair, bucket, watched, markers, crashes, areaWrites>>
        /\ UNCHANGED engineVars /\ UNCHANGED publisherVars /\ UNCHANGED dispatcherVars
    BY <1>4 DEF allVars, vars, geotruthVars
  <2>2. CASE mode = "up"
    <3>1. StreamInv'
      BY <2>1, <2>2, UpStream, NextKeepsStream DEF vars
    <3>2. GeoTruthTypeOK'
      <4>1. InFlight' = InFlight
        BY <2>1 DEF InFlight, engineVars, publisherVars
      <4>2. TypeOK'
        BY <3>1 DEF StreamInv, AnsweredInv, StagedInv, IInv
      <4> QED
        BY <2>1, <4>1, <4>2 DEF LivesInv, GeoTruthTypeOK, engineVars
    <3>3. /\ Past' /\ Separate' /\ Repairing' /\ EpochOK' /\ Acked'
      BY <2>1, <2>2 DEF LivesInv, Past, Separate, Insts, Repairing, Repairs, EpochOK, LastSeq,
                        Stored, Acked, Durable, publisherVars, dispatcherVars
    <3> QED
      BY <2>1, <2>2, <3>1, <3>2, <3>3 DEF LivesInv, StreamInv, Logs, Logged
  <2>3. CASE mode # "up"
    <3>1. UNCHANGED memoryVars /\ UNCHANGED <<bootEpoch, faults, stream, areaTree>>
      BY <2>1 DEF memoryVars, engineVars, publisherVars, dispatcherVars
    <3>2. /\ TypeOK' /\ AnsweredInv' /\ Quiet' /\ InFlight' = {} /\ \A o \in Objects : ctl'[o] = NoCtl
      BY <2>3, <3>1, StillQuiet DEF LivesInv, GeoTruthTypeOK, TypeOK, EngineTypeOK, PublisherTypeOK
    <3>3. GeoTruthTypeOK'
      BY <2>1, <3>2 DEF LivesInv, GeoTruthTypeOK, Quiet
    <3>4. Logs'
      BY <3>1, <3>2, OrderStays DEF LivesInv, Logs, memoryVars
    <3>5. /\ Past' /\ Separate' /\ Repairing' /\ EpochOK' /\ Acked'
      BY <2>1, <3>1 DEF LivesInv, Past, Separate, Insts, Repairing, Repairs, Covered, EpochOK,
                        LastSeq, Stored, Acked, Durable, memoryVars
    <3> QED
      BY <2>1, <2>3, <3>2, <3>3, <3>4, <3>5 DEF LivesInv
  <2> QED
    BY <2>2, <2>3
<1> QED
  BY <1>1, <1>2, <1>3, <1>4 DEF GeoTruthNext

LEMMA LivesInvariant == GeoTruthSpec => []LivesInv
<1>1. GeoTruthInit => LivesInv
  BY InitLives
<1>2. LivesInv /\ [GeoTruthNext]_allVars => LivesInv'
  BY LivesKept
<1> QED
  BY <1>1, <1>2, PTL DEF GeoTruthSpec

(* A client that is told OK finds its commit, and all the geofence events  *)
(* of it, in the stream for ever after, however often the process ends:    *)
(* onCommitResult answers only what commitOne has confirmed.               *)
THEOREM AcknowledgedIsDurable == GeoTruthSpec => []AckedIsDurable
<1>1. LivesInv => AckedIsDurable
  BY DEF LivesInv, Acked, Durable, AckedIsDurable
<1> QED
  BY <1>1, LivesInvariant, PTL

(* No commit of an object is in the stream before every projection of the  *)
(* previous one, so that it is enough that RepairLatestProjections reads   *)
(* the latest commits.                                                     *)
THEOREM LatestCommitsSuffice == GeoTruthSpec => []ProjectionsBeforeNextCommit
<1>1. LivesInv => ProjectionsBeforeNextCommit
  BY DEF LivesInv, Logs, LogOK, ProjectionsBeforeNextCommit
<1> QED
  BY <1>1, LivesInvariant, PTL

(* An object with no command in flight has all the geofence events of its  *)
(* latest commit in the stream, also when the process that committed it    *)
(* ended between the commit and a projection: Boot does not come up before *)
(* every missing projection is published.                                  *)
THEOREM IdleObjectsAreProjected == GeoTruthSpec => []IdleIsProjected
<1>1. ASSUME LivesInv, mode = "up", ~cancelled, NEW o \in Objects,
             ctl[o].head = None, CommitsAt(o) # {}
      PROVE  ProjectedBefore(stream[o], Max(FirstCommits(stream[o])), Len(stream[o]) + 1)
  <2>1. /\ Logs /\ Phase(o) /\ AtMostOneInFlight /\ LogOK(stream[o]) /\ stream[o] \in Seq(Event)
    BY <1>1 DEF LivesInv, AnsweredInv, StagedInv, IInv, Logs, LogOK
  <2>2. NoJob(o) /\ NoCommitResult(o)
    BY <1>1, <2>1, Alone DEF NoJob, NoCommitResult
  <2>3. Unwritten(o)
    BY <1>1, <2>1, <2>2 DEF Phase
  <2>4. PICK f \in DOMAIN stream[o] : LatestAt(stream[o], f)
    BY <1>1, <2>1, ReadBack DEF LogOK
  <2>5. f = Max(FirstCommits(stream[o]))
    BY <2>1, <2>4, LatestIsMax
  <2> QED
    BY <2>3, <2>4, <2>5 DEF Unwritten, Projected
<1>2. LivesInv => IdleIsProjected
  BY <1>1 DEF IdleIsProjected
<1> QED
  BY <1>2, LivesInvariant, PTL

(* While a process runs, the geofence snapshot of an object changes only   *)
(* when its commit and all its projections are in the stream, and then to  *)
(* what that commit says, or because an area is removed.                   *)
THEOREM SnapshotsFollowCommits == GeoTruthSpec => SnapshotFollowsCommit
<1>1. ASSUME LivesInv, GeoTruthNext, mode = "up", mode' = "up"
      PROVE  SnapshotChange
  <2>1. \/ \E a \in Areas, r \in Regions \cup {Elsewhere, None} : WriteArea(a, r)
        \/ WatchEntry
        \/ Work
    BY <1>1 DEF GeoTruthNext, Boot, StartBoot, RepairProjection, RepairFails, FinishBoot, Crash
  <2> QED
    BY <1>1, <2>1, UpSteps, UpStream, SnapshotFollows DEF LivesInv
<1>2. LivesInv /\ [GeoTruthNext]_allVars => [mode = "up" /\ mode' = "up" => SnapshotChange]_allVars
  BY <1>1
<1> QED
  BY <1>2, LivesInvariant, PTL DEF GeoTruthSpec, SnapshotFollowsCommit

---------------------------------------------------------------------------
(* The stream keeps the promise of ObjectHistory.                          *)

(* The commit a job stores for the first time is that of its mailbox.      *)
LEMMA CommitIsNext ==
  ASSUME StreamInv, NEW o \in Objects, o \in registered, NEW c, ctl[o].env # None,
         c = ctl[o].env.commit, Unwritten(o)
  PROVE  /\ c \in CommitEvent /\ c.obj = o /\ c.inst = ctl[o].inst
         /\ \A j \in DOMAIN stream[o] : IsCommit(stream[o][j]) => stream[o][j].op < c.op
         /\ \/ /\ c.type = "registered" /\ c.seq = 1
               /\ \A f : LatestAt(stream[o], f) => stream[o][f].type = "removed"
               /\ \A p \in Objects : \A j \in DOMAIN stream[p] : stream[p][j].inst # c.inst
            \/ /\ c.type \in {"position", "removed"}
               /\ \E f : /\ LatestAt(stream[o], f) /\ stream[o][f].type # "removed"
                         /\ c.inst = stream[o][f].inst /\ c.seq = stream[o][f].seq + 1
<1>1. /\ Staged(o) /\ Logged(o) /\ Distinct /\ TypeOK
  BY DEF StreamInv, AnsweredInv, StagedInv, IInv
<1>2. Carries(o) /\ ctl[o].head # None
  BY <1>1 DEF Staged, MailboxOK
<1>3. /\ ctl[o] \in Ctl /\ ctl[o].env \in Envelope /\ ctl[o].seq \in Nat
      /\ ctl[o].head \in Command
  BY <1>2 DEF TypeOK, StreamInv, AnsweredInv, StagedInv, IInv, Ctl
<1>4. /\ c \in CommitEvent /\ c.obj = o /\ c.inst = ctl[o].inst /\ c.seq = ctl[o].seq + 1
      /\ c.op = ctl[o].head.op /\ c.type \in CommitTypes
      /\ c.type = "registered" => ctl[o].seq = 0
  BY <1>2, <1>3 DEF Carries, Envelope, CommitEvent
<1>5. \A j \in DOMAIN stream[o] : stream[o][j].inst = c.inst => stream[o][j].seq # c.seq
  BY <1>1, <1>2, <1>3, <1>4, UnwrittenSeqs DEF Logged
<1>6. ASSUME NEW j \in DOMAIN stream[o], IsCommit(stream[o][j])
      PROVE  stream[o][j].op < c.op
  <2>1. Before(o, stream[o][j]) /\ InLine(o, c.op)
    BY <1>1, <1>2, <1>4, <1>6 DEF Logged, InOrder, InLine
  <2>2. stream[o][j] # c
    BY <1>5
  <2> QED
    BY <2>1, <2>2 DEF Before
<1>7. \A f : LatestAt(stream[o], f) => f \in DOMAIN stream[o]
  BY DEF LatestAt, FirstCommits
<1>8. CASE c.type = "registered"
  <2>1. Registering(o)
    BY <1>8 DEF Registering
  <2>2. c.inst \notin Insts(o) /\ \A f : LatestAt(stream[o], f) => stream[o][f].type = "removed"
    BY <1>4, <1>7, <2>1 DEF Unwritten
  <2>3. ASSUME NEW p \in Objects, NEW j \in DOMAIN stream[p], stream[p][j].inst = c.inst
        PROVE  FALSE
    <3>1. c.inst \in Insts(p)
      BY <2>3 DEF Insts
    <3>2. c.inst \in Owns(p) /\ c.inst \in Owns(o)
      BY <1>4, <3>1 DEF Owns
    <3>3. p = o
      BY <1>1, <3>2 DEF Distinct
    <3> QED
      BY <2>2, <3>1, <3>3
  <2>4. c.seq = 1
    BY <1>4, <1>8
  <2> QED
    BY <1>4, <1>6, <1>8, <2>2, <2>3, <2>4
<1>9. CASE c.type # "registered"
  <2>1. c.type \in {"position", "removed"} /\ ~Registering(o)
    BY <1>4, <1>9 DEF CommitTypes, Registering
  <2>2. PICK f \in DOMAIN stream[o] :
          /\ LatestAt(stream[o], f) /\ stream[o][f].type # "removed"
          /\ stream[o][f].inst = ctl[o].inst /\ stream[o][f].seq = ctl[o].seq
    BY <2>1 DEF Unwritten
  <2> QED
    BY <1>4, <1>6, <2>1, <2>2
<1> QED
  BY <1>8, <1>9

(* The history of the objects that are not written to stays.               *)
LEMMA HistoryStays ==
  ASSUME \A o \in Objects : CommitSeqOf(stream'[o]) = CommitSeqOf(stream[o])
  PROVE  UNCHANGED [o \in Objects |-> CommitSeqOf(stream[o])]
OBVIOUS

LEMMA HistoryGrows ==
  ASSUME StreamInv, NEW o \in Objects, o \in registered, NEW c, ctl[o].env # None,
         NextCommit(o, c, Len(stream[o]) + 1),
         \A p \in Objects : p # o => stream'[p] = stream[p]
  PROVE  History!Commit(o)
<1> DEFINE history == [p \in Objects |-> CommitSeqOf(stream[p])]
           h == CommitSeqOf(stream[o])
<1>1. Unwritten(o) /\ c = ctl[o].env.commit /\ CommitSeqOf(stream'[o]) = Append(h, c)
  BY DEF NextCommit
<1>2. \A p \in Objects : LogOK(stream[p])
  BY DEF StreamInv, Logged
<1>3. /\ c \in CommitEvent /\ c.obj = o /\ c.inst = ctl[o].inst
      /\ \A j \in DOMAIN stream[o] : IsCommit(stream[o][j]) => stream[o][j].op < c.op
      /\ \/ /\ c.type = "registered" /\ c.seq = 1
            /\ \A f : LatestAt(stream[o], f) => stream[o][f].type = "removed"
            /\ \A p \in Objects : \A j \in DOMAIN stream[p] : stream[p][j].inst # c.inst
         \/ /\ c.type \in {"position", "removed"}
            /\ \E f : /\ LatestAt(stream[o], f) /\ stream[o][f].type # "removed"
                      /\ c.inst = stream[o][f].inst /\ c.seq = stream[o][f].seq + 1
  BY <1>1, CommitIsNext
<1>4. /\ h \in Seq(Event)
      /\ \A n \in DOMAIN h : \E i \in FirstCommits(stream[o]) : h[n] = stream[o][i]
      /\ \A f : LatestAt(stream[o], f) => h # <<>> /\ h[Len(h)] = stream[o][f]
  BY <1>2, CommitSeqType
<1>5. /\ Len(h) \in Nat /\ Len(Append(h, c)) = Len(h) + 1
      /\ Append(h, c)[Len(h) + 1] = c
  <2>1. c \in Event
    BY <1>3 DEF Event
  <2> QED
    BY <1>4, <2>1, AppendProperties, LenProperties
<1>6. /\ history' = [history EXCEPT ![o] = Append(@, c)]
      /\ history[o] = h /\ history'[o] = Append(h, c)
  BY <1>1
<1>7. \A n \in DOMAIN h : h[n].op < c.op
  BY <1>3, <1>4 DEF FirstCommits
<1>8. stream[o] # <<>> => \E f : LatestAt(stream[o], f)
  BY <1>2 DEF LogOK
<1>9. stream[o] = <<>> => h = <<>>
  BY EmptyLog
<1>10. ASSUME /\ c.type = "registered" /\ c.seq = 1
              /\ \A f : LatestAt(stream[o], f) => stream[o][f].type = "removed"
              /\ \A p \in Objects : \A j \in DOMAIN stream[p] : stream[p][j].inst # c.inst
       PROVE  History!Register(o, c)
  <2>1. h = <<>> \/ h[Len(h)].type = "removed"
    BY <1>4, <1>8, <1>9, <1>10
  <2>2. ASSUME NEW p \in Objects, NEW n \in DOMAIN CommitSeqOf(stream[p])
        PROVE  CommitSeqOf(stream[p])[n].inst # c.inst
    <3>1. PICK i \in FirstCommits(stream[p]) : CommitSeqOf(stream[p])[n] = stream[p][i]
      BY <1>2, <2>2, CommitSeqType
    <3>2. i \in DOMAIN stream[p]
      BY DEF FirstCommits
    <3> QED
      BY <1>10, <3>1, <3>2
  <2>3. ~History!Active(h)
    BY <2>1 DEF History!Active, History!Last
  <2>4. History!Fresh(c.inst)
    BY <2>2 DEF History!Fresh
  <2> QED
    BY <1>10, <2>3, <2>4 DEF History!Register
<1>11. ASSUME /\ c.type \in {"position", "removed"}
              /\ \E f : /\ LatestAt(stream[o], f) /\ stream[o][f].type # "removed"
                        /\ c.inst = stream[o][f].inst /\ c.seq = stream[o][f].seq + 1
       PROVE  History!Continue(o, c)
  <2>1. /\ h # <<>> /\ h[Len(h)].type # "removed"
        /\ c.inst = h[Len(h)].inst /\ c.seq = h[Len(h)].seq + 1
    BY <1>4, <1>11
  <2>2. History!Active(h) /\ History!Last(h) = h[Len(h)]
    BY <2>1 DEF History!Active, History!Last
  <2> QED
    BY <1>11, <2>1, <2>2 DEF History!Continue
<1>12. History!Register(o, c) \/ History!Continue(o, c)
  BY <1>3, <1>10, <1>11
<1>13. History!Last(Append(h, c)) = c
  BY <1>5 DEF History!Last
<1> HIDE DEF h
<1> QED
  BY <1>3, <1>5, <1>6, <1>7, <1>12, <1>13 DEF History!Commit

LEMMA HistoryStep ==
  ASSUME LivesInv, [GeoTruthNext]_allVars
  PROVE  History!Next \/ UNCHANGED [o \in Objects |-> CommitSeqOf(stream[o])]
<1>1. CASE UNCHANGED stream
  BY <1>1, HistoryStays
<1>2. ASSUME NEW e \in repair, stream' = [stream EXCEPT ![e.obj] = Append(@, e)]
      PROVE  UNCHANGED [o \in Objects |-> CommitSeqOf(stream[o])]
  BY <1>2, RepairStored, HistoryStays
<1>3. ASSUME StreamInv, NEW job \in publishing, ~cancelled, ~JobFinished(job), Store(job)
      PROVE  History!Next \/ UNCHANGED [o \in Objects |-> CommitSeqOf(stream[o])]
  <2>1. PICK o, m : o = JobObject(job) /\ m = MessageOf(job)
    OBVIOUS
  <2>2. /\ o \in Objects /\ o \in registered
        /\ \A p \in Objects : p # o => stream'[p] = stream[p]
        /\ \/ NextCommit(o, m, Len(stream[o]) + 1)
           \/ \E f \in DOMAIN stream[o] : SameCommit(o, f, IF job.committed THEN job.next ELSE 1)
    BY <1>3, <2>1, Stores
  <2>3. CASE NextCommit(o, m, Len(stream[o]) + 1)
    <3>1. ctl[o].env # None
      <4>1. TypeOK /\ Staged(o)
        BY <1>3, <2>2 DEF StreamInv, AnsweredInv, StagedInv, IInv
      <4>2. ctl[o].env = job.env /\ job.env \in Envelope
        BY <2>1, <4>1 DEF Staged, TypeOK, PublisherTypeOK, Job
      <4> QED
        BY <4>2, NoneAssumption
    <3> QED
      BY <1>3, <2>2, <2>3, <3>1, HistoryGrows DEF History!Next
  <2>4. CASE \E f \in DOMAIN stream[o] : SameCommit(o, f, IF job.committed THEN job.next ELSE 1)
    <3>1. \A p \in Objects : CommitSeqOf(stream'[p]) = CommitSeqOf(stream[p])
      BY <2>2, <2>4 DEF SameCommit
    <3> QED
      BY <3>1, HistoryStays
  <2> QED
    BY <2>2, <2>3, <2>4
<1>4. CASE Boot
  BY <1>1, <1>2, <1>4 DEF Boot, StartBoot, RepairProjection, RepairFails, FinishBoot, publisherVars
<1>5. CASE Crash \/ UNCHANGED allVars
  BY <1>1, <1>5 DEF Crash, allVars, vars, publisherVars
<1>6. CASE \/ \E a \in Areas, r \in Regions \cup {Elsewhere, None} : WriteArea(a, r)
           \/ WatchEntry
           \/ Work
  <2>1. [Next]_vars /\ mode = "up"
    BY <1>6, UpSteps DEF LivesInv
  <2>2. StreamInv
    BY <2>1, UpStream
  <2> QED
    BY <1>1, <1>3, <2>1, <2>2, StreamSteps
<1> QED
  BY <1>4, <1>5, <1>6 DEF GeoTruthNext

(* Whatever happens to the process, the commits of an object in the stream *)
(* are what ObjectHistory allows: incarnations with fresh instance IDs,    *)
(* each numbered from 1 without a gap, ended by a removal, each command    *)
(* committed once and in the order of receipt.                             *)
THEOREM StreamKeepsHistory == GeoTruthSpec => ImplementsHistory
<1>1. GeoTruthInit => History!Init
  <2>1. GeoTruthInit => \A o \in Objects : stream[o] = <<>>
    BY DEF GeoTruthInit, PublisherInit
  <2> QED
    BY <2>1, EmptyLog DEF History!Init
<1>2. LivesInv /\ [GeoTruthNext]_allVars =>
        [History!Next]_[o \in Objects |-> CommitSeqOf(stream[o])]
  BY HistoryStep
<1> QED
  BY <1>1, <1>2, LivesInvariant, PTL DEF GeoTruthSpec, ImplementsHistory, History!Spec

---------------------------------------------------------------------------
(* The areas served follow the bucket.                                     *)

Mentions(w, a) == \E i \in DOMAIN w : w[i].area = a

(* The latest entry of area a in w, if any, is for region x.               *)
EndsWith(w, a, x) ==
  \A i \in DOMAIN w :
    w[i].area = a /\ (\A j \in DOMAIN w : j > i => w[j].area # a) => w[i].region = x

(* What is to come for an area ends with what the bucket holds of it; when *)
(* nothing is to come, the trees hold it, but for the regions that the     *)
(* removal in progress has still to visit.                                 *)
FollowsBucket(a) ==
  IF Mentions(watched, a)
  THEN EndsWith(watched, a, bucket[a])
  ELSE /\ bucket[a] \in Regions => a \in areaTree[bucket[a]] /\ sweep.area # a
       /\ bucket[a] = None =>
            \A r \in Regions : a \in areaTree[r] => sweep.area = a /\ r \in sweep.left

AreasInv == mode # "down" => \A a \in Areas : FollowsBucket(a)

LEMMA WrittenFollows ==
  ASSUME GeoTruthTypeOK, NEW a \in Areas, NEW r \in Regions \cup {Elsewhere, None}, WriteArea(a, r)
  PROVE  /\ Mentions(watched', a) /\ EndsWith(watched', a, r)
         /\ \A b \in Areas : b # a =>
              /\ Mentions(watched', b) => Mentions(watched, b)
              /\ Mentions(watched, b) => Mentions(watched', b)
              /\ \A x : EndsWith(watched, b, x) => EndsWith(watched', b, x)
<1>1. PICK kept \in Seq(Entry) :
        /\ watched' = Append(kept, [area |-> a, region |-> r])
        /\ \/ kept = watched
           \/ \E i \in LatestEntry(a) : i \in DOMAIN watched /\ kept = RemoveAt(watched, i)
  BY WrittenEntry
<1>2. [area |-> a, region |-> r] \in Entry /\ watched \in Seq(Entry)
  BY WrittenEntry DEF GeoTruthTypeOK
<1>3. PICK n : n = Len(kept)
  OBVIOUS
<1>4. /\ n \in Nat /\ DOMAIN kept = 1..n /\ DOMAIN watched' = 1..(n + 1)
      /\ watched'[n + 1] = [area |-> a, region |-> r]
      /\ \A j \in 1..n : watched'[j] = kept[j]
  BY <1>1, <1>2, <1>3, AppendProperties, LenProperties
<1>5. Mentions(watched', a)
  <2>1. n + 1 \in DOMAIN watched' /\ watched'[n + 1].area = a
    BY <1>4
  <2> QED
    BY <2>1 DEF Mentions
<1>6. EndsWith(watched', a, r)
  <2>1. SUFFICES ASSUME NEW i \in DOMAIN watched', \A j \in DOMAIN watched' : j > i => watched'[j].area # a
                 PROVE  watched'[i].region = r
    BY DEF EndsWith
  <2>2. i = n + 1
    <3>1. i \in 1..(n + 1) /\ n + 1 \in DOMAIN watched' /\ watched'[n + 1].area = a
      BY <1>4
    <3>2. ~(n + 1 > i)
      BY <2>1, <3>1
    <3> QED
      BY <1>4, <3>1, <3>2
  <2> QED
    BY <1>4, <2>2
<1>7. ASSUME NEW b \in Areas, b # a
      PROVE  /\ Mentions(watched', b) => Mentions(kept, b)
             /\ Mentions(kept, b) => Mentions(watched', b)
             /\ \A x : EndsWith(kept, b, x) => EndsWith(watched', b, x)
  <2>1. \A j \in DOMAIN watched' : watched'[j].area = b => j \in DOMAIN kept
    BY <1>4, <1>7
  <2>2. \A j \in DOMAIN kept : j \in DOMAIN watched' /\ watched'[j] = kept[j]
    BY <1>4
  <2> QED
    BY <2>1, <2>2 DEF Mentions, EndsWith
<1>8. ASSUME NEW b \in Areas, b # a
      PROVE  /\ Mentions(kept, b) => Mentions(watched, b)
             /\ Mentions(watched, b) => Mentions(kept, b)
             /\ \A x : EndsWith(watched, b, x) => EndsWith(kept, b, x)
  <2>1. CASE kept = watched
    BY <2>1
  <2>2. ASSUME NEW i \in LatestEntry(a), i \in DOMAIN watched, kept = RemoveAt(watched, i)
        PROVE  /\ Mentions(kept, b) => Mentions(watched, b)
               /\ Mentions(watched, b) => Mentions(kept, b)
               /\ \A x : EndsWith(watched, b, x) => EndsWith(kept, b, x)
    <3>1. PICK m : m = Len(watched)
      OBVIOUS
    <3>2. /\ m \in Nat /\ DOMAIN watched = 1..m /\ i \in 1..m /\ watched[i].area = a
          /\ n = m - 1 /\ \A j \in 1..(m - 1) : kept[j] = watched[IF j < i THEN j ELSE j + 1]
      BY <1>2, <1>3, <2>2, <3>1, WatchedType, LenProperties DEF LatestEntry
    <3>3. \A j \in DOMAIN kept : /\ (IF j < i THEN j ELSE j + 1) \in DOMAIN watched
                                 /\ kept[j] = watched[IF j < i THEN j ELSE j + 1]
      BY <1>4, <3>2
    <3>4. \A k \in DOMAIN watched : watched[k].area = b =>
            /\ (IF k < i THEN k ELSE k - 1) \in DOMAIN kept
            /\ kept[IF k < i THEN k ELSE k - 1] = watched[k]
      <4>1. ASSUME NEW k \in 1..m, k # i
            PROVE  /\ (IF k < i THEN k ELSE k - 1) \in 1..(m - 1)
                   /\ kept[IF k < i THEN k ELSE k - 1] = watched[k]
        <5>1. CASE k < i
          BY <3>2, <5>1
        <5>2. CASE k > i
          <6>1. k - 1 \in 1..(m - 1) /\ ~(k - 1 < i) /\ (k - 1) + 1 = k
            BY <3>2, <5>2
          <6> QED
            BY <3>2, <5>2, <6>1
        <5> QED
          BY <3>2, <4>1, <5>1, <5>2
      <4>2. \A k \in DOMAIN watched : watched[k].area = b => k # i
        BY <1>8, <3>2
      <4> QED
        BY <1>4, <3>2, <4>1, <4>2
    <3>5. ASSUME NEW x, EndsWith(watched, b, x), NEW j \in DOMAIN kept, kept[j].area = b,
                 \A l \in DOMAIN kept : l > j => kept[l].area # b
          PROVE  kept[j].region = x
      <4>1. PICK k : k = IF j < i THEN j ELSE j + 1
        OBVIOUS
      <4>2. k \in DOMAIN watched /\ kept[j] = watched[k]
        BY <3>3, <4>1
      <4>3. ASSUME NEW l \in DOMAIN watched, l > k, watched[l].area = b
            PROVE  FALSE
        <5>1. PICK q : q = IF l < i THEN l ELSE l - 1
          OBVIOUS
        <5>2. q \in DOMAIN kept /\ kept[q].area = b
          BY <3>4, <4>3, <5>1
        <5>3. l # i
          BY <1>8, <3>2, <4>3
        <5>4. q > j
          BY <1>4, <3>2, <4>1, <4>3, <5>1, <5>3
        <5> QED
          BY <3>5, <5>2, <5>4
      <4> QED
        BY <3>5, <4>2, <4>3 DEF EndsWith
    <3> QED
      BY <3>3, <3>4, <3>5 DEF Mentions, EndsWith
  <2> QED
    BY <1>1, <2>1, <2>2
<1> QED
  BY <1>5, <1>6, <1>7, <1>8

LEMMA AppliedFollows ==
  ASSUME watched \in Seq(Entry), watched # <<>>, NEW e, e = Head(watched), watched' = Tail(watched)
  PROVE  /\ e \in Entry
         /\ \A b : /\ Mentions(watched', b) => Mentions(watched, b)
                   /\ b # e.area /\ Mentions(watched, b) => Mentions(watched', b)
         /\ Mentions(watched, e.area)
         /\ \A b : \A x : EndsWith(watched, b, x) => EndsWith(watched', b, x)
         /\ \A x : ~Mentions(watched', e.area) /\ EndsWith(watched, e.area, x) => e.region = x
<1>1. PICK n : n = Len(watched)
  OBVIOUS
<1>2. /\ n \in Nat /\ n > 0 /\ DOMAIN watched = 1..n /\ e = watched[1] /\ e \in Entry
      /\ DOMAIN watched' = 1..(n - 1) /\ \A j \in 1..(n - 1) : watched'[j] = watched[j + 1]
  BY <1>1, HeadTailProperties, EmptySeq, LenProperties
<1>3. \A j \in DOMAIN watched' : j + 1 \in DOMAIN watched /\ watched'[j] = watched[j + 1]
  BY <1>2
<1>4. \A k \in DOMAIN watched : k # 1 => k - 1 \in DOMAIN watched' /\ watched'[k - 1] = watched[k]
  BY <1>2
<1>5. 1 \in DOMAIN watched /\ watched[1] = e
  BY <1>2
<1>6. ASSUME NEW b, NEW x, EndsWith(watched, b, x)
      PROVE  EndsWith(watched', b, x)
  <2>1. SUFFICES ASSUME NEW i \in DOMAIN watched', watched'[i].area = b,
                        \A j \in DOMAIN watched' : j > i => watched'[j].area # b
                 PROVE  watched'[i].region = x
    BY DEF EndsWith
  <2>2. i + 1 \in DOMAIN watched /\ watched[i + 1] = watched'[i]
    BY <1>3
  <2>3. ASSUME NEW k \in DOMAIN watched, k > i + 1
        PROVE  watched[k].area # b
    <3>1. k # 1 /\ k - 1 > i
      BY <1>2, <2>3
    <3>2. k - 1 \in DOMAIN watched' /\ watched'[k - 1] = watched[k]
      BY <1>4, <3>1
    <3> QED
      BY <2>1, <3>1, <3>2
  <2> QED
    BY <1>6, <2>1, <2>2, <2>3 DEF EndsWith
<1>7. ASSUME NEW x, ~Mentions(watched', e.area), EndsWith(watched, e.area, x)
      PROVE  e.region = x
  <2>1. ASSUME NEW k \in DOMAIN watched, k > 1
        PROVE  watched[k].area # e.area
    <3>1. k - 1 \in DOMAIN watched' /\ watched'[k - 1] = watched[k]
      BY <1>2, <1>4, <2>1
    <3> QED
      BY <1>7, <3>1 DEF Mentions
  <2> QED
    BY <1>5, <1>7, <2>1 DEF EndsWith
<1>8. \A b : Mentions(watched', b) => Mentions(watched, b)
  BY <1>3 DEF Mentions
<1>9. \A b : b # e.area /\ Mentions(watched, b) => Mentions(watched', b)
  BY <1>4, <1>5 DEF Mentions
<1> QED
  BY <1>2, <1>5, <1>6, <1>7, <1>8, <1>9 DEF Mentions

(* What follows is said of the areas and of the watcher only.              *)
LEMMA FollowsStays ==
  ASSUME NEW a, FollowsBucket(a), UNCHANGED <<watched, bucket, areaTree, sweep>>
  PROVE  FollowsBucket(a)'
BY DEF FollowsBucket

LEMMA AppliesEntry ==
  ASSUME GeoTruthTypeOK, WatchEntry, AreasInv
  PROVE  AreasInv'
<1>1. PICK e : e = Head(watched)
  OBVIOUS
<1>2. /\ mode = "up" /\ mode' = "up" /\ watched # <<>> /\ sweep = NoSweep /\ UNCHANGED bucket
      /\ watched' = Tail(watched) /\ watched \in Seq(Entry)
      /\ areaTree \in [Regions -> SUBSET Areas]
      /\ \A a \in Areas : FollowsBucket(a)
  BY DEF WatchEntry, GeoTruthTypeOK, TypeOK, EngineTypeOK, AreasInv
<1>3. /\ e \in Entry
      /\ \A b : /\ Mentions(watched', b) => Mentions(watched, b)
                /\ b # e.area /\ Mentions(watched, b) => Mentions(watched', b)
      /\ Mentions(watched, e.area)
      /\ \A b : \A x : EndsWith(watched, b, x) => EndsWith(watched', b, x)
      /\ \A x : ~Mentions(watched', e.area) /\ EndsWith(watched, e.area, x) => e.region = x
  BY <1>1, <1>2, AppliedFollows
<1>4. e.area \in Areas /\ e.area # None
  BY <1>3, DataAssumption DEF Entry
<1>5. \/ /\ e.region \in Regions /\ areaTree' = [areaTree EXCEPT ![e.region] = @ \cup {e.area}]
         /\ UNCHANGED sweep
      \/ /\ e.region = None /\ sweep' = [area |-> e.area, left |-> Regions]
         /\ UNCHANGED areaTree
      \/ e.region \notin Regions /\ e.region # None /\ UNCHANGED <<areaTree, sweep>>
  <2>1. CASE e.region \in Regions
    <3>1. RegisterArea(e.area, e.region)
      BY <1>1, <2>1, DataAssumption DEF WatchEntry
    <3> QED
      BY <2>1, <3>1 DEF RegisterArea
  <2>2. CASE e.region = None
    <3>1. RemoveAreaStart(e.area)
      BY <1>1, <2>2, DataAssumption DEF WatchEntry
    <3> QED
      BY <2>2, <3>1 DEF RemoveAreaStart
  <2>3. CASE e.region \notin Regions /\ e.region # None
    <3>1. UNCHANGED engineVars
      BY <1>1, <2>3 DEF WatchEntry
    <3> QED
      BY <2>3, <3>1 DEF engineVars
  <2> QED
    BY <2>1, <2>2, <2>3
<1>6. ASSUME NEW a \in Areas
      PROVE  FollowsBucket(a)'
  <2>1. CASE Mentions(watched', a)
    BY <1>2, <1>3, <2>1 DEF FollowsBucket
  <2>2. CASE ~Mentions(watched', a) /\ a = e.area
    <3>1. bucket[a] = e.region
      BY <1>2, <1>3, <2>2 DEF FollowsBucket
    <3>2. CASE e.region \in Regions
      <4>1. a \in areaTree'[bucket[a]] /\ sweep'.area = None /\ e.region # None
        BY <1>2, <1>5, <2>2, <3>1, <3>2, DataAssumption DEF NoSweep
      <4> QED
        BY <1>2, <1>4, <2>2, <3>1, <3>2, <4>1 DEF FollowsBucket
    <3>3. CASE e.region = None
      BY <1>2, <1>5, <2>2, <3>1, <3>3, DataAssumption DEF FollowsBucket
    <3>4. CASE e.region \notin Regions /\ e.region # None
      BY <1>2, <2>2, <3>1, <3>4 DEF FollowsBucket
    <3> QED
      BY <3>2, <3>3, <3>4
  <2>3. CASE ~Mentions(watched', a) /\ a # e.area
    <3>1. ~Mentions(watched, a)
      BY <1>3, <2>3
    <3>2. /\ bucket[a] \in Regions => a \in areaTree[bucket[a]]
          /\ bucket[a] = None => \A r \in Regions : a \notin areaTree[r]
      <4>1. sweep.area # a
        BY <1>2, DataAssumption DEF NoSweep
      <4> QED
        BY <1>2, <3>1, <4>1 DEF FollowsBucket
    <3>3. sweep'.area # a
      BY <1>2, <1>5, <2>3, DataAssumption DEF NoSweep
    <3>4. \A r \in Regions : a \in areaTree'[r] <=> a \in areaTree[r]
      BY <1>2, <1>5, <2>3
    <3> QED
      BY <1>2, <2>3, <3>2, <3>3, <3>4 DEF FollowsBucket
  <2> QED
    BY <2>1, <2>2, <2>3
<1> QED
  BY <1>6 DEF AreasInv

LEMMA SweepsRegion ==
  ASSUME EngineTypeOK, NEW r \in Regions, RemoveAreaFrom(r), UNCHANGED <<watched, bucket>>,
         NEW a \in Areas, FollowsBucket(a)
  PROVE  FollowsBucket(a)'
<1>1. CASE Mentions(watched, a)
  BY <1>1 DEF FollowsBucket
<1>2. CASE ~Mentions(watched, a)
  <2>1. /\ areaTree \in [Regions -> SUBSET Areas]
        /\ sweep \in [area : Areas \cup {None}, left : SUBSET Regions] /\ r \in sweep.left
        /\ sweep' = AfterRegion(r)
        /\ areaTree' = [areaTree EXCEPT ![r] = @ \ {sweep.area}] \/ areaTree' = areaTree
        /\ sweep.area \notin areaTree'[r]
    BY DEF EngineTypeOK, RemoveAreaFrom
  <2>2. /\ sweep'.area = sweep.area \/ sweep'.area = None
        /\ \A q \in sweep.left : q # r => sweep'.area = sweep.area /\ q \in sweep'.left
    BY <2>1 DEF AfterRegion, NoSweep
  <2>3. /\ bucket[a] \in Regions => a \in areaTree[bucket[a]] /\ sweep.area # a
        /\ bucket[a] = None =>
             \A q \in Regions : a \in areaTree[q] => sweep.area = a /\ q \in sweep.left
    BY <1>2 DEF FollowsBucket
  <2>4. \A q \in Regions : a \in areaTree'[q] => a \in areaTree[q] /\ ~(q = r /\ sweep.area = a)
    BY <2>1
  <2>5. \A q \in Regions : sweep.area # a /\ a \in areaTree[q] => a \in areaTree'[q]
    BY <2>1
  <2>6. a # None
    BY DataAssumption
  <2>7. bucket[a] \in Regions => a \in areaTree'[bucket[a]] /\ sweep'.area # a
    BY <2>2, <2>3, <2>5, <2>6
  <2>8. bucket[a] = None =>
          \A q \in Regions : a \in areaTree'[q] => sweep'.area = a /\ q \in sweep'.left
    BY <2>2, <2>3, <2>4
  <2> QED
    BY <1>2, <2>7, <2>8 DEF FollowsBucket
<1> QED
  BY <1>1, <1>2

(* Only the watcher touches the areas, and the sweep it has started.       *)
LEMMA WorkOnAreas ==
  ASSUME StagedInv, Work
  PROVE  UNCHANGED <<areaTree, sweep>> \/ \E r \in Regions : RemoveAreaFrom(r)
<1>1. CASE DispatcherNext
  BY <1>1, DispatcherSteps DEF DispatcherStep, dispatcherFrame, indexVars
<1>2. ASSUME NEW t \in tasks,
             ProcessInit(t) \/ ProcessUpdate(t) \/ ProcessTransition(t) \/ ProcessRemove(t)
      PROVE  UNCHANGED <<areaTree, sweep>>
  BY <1>2 DEF ProcessInit, ProcessUpdate, ProcessTransition, ProcessRemove, workerFrame
<1>3. CASE PublisherNext /\ UNCHANGED <<engineVars, dispatcherVars>>
  BY <1>3 DEF engineVars
<1> QED
  BY <1>1, <1>2, <1>3 DEF Work

LEMMA AreasKept ==
  ASSUME LivesInv, AreasInv, [GeoTruthNext]_allVars
  PROVE  AreasInv'
<1>0. GeoTruthTypeOK /\ EngineTypeOK /\ StagedInv
  BY DEF LivesInv, GeoTruthTypeOK, TypeOK, AnsweredInv
<1>1. CASE StartBoot
  <2>1. /\ mode = "down" /\ UNCHANGED <<watched, bucket, sweep>>
        /\ areaTree' = [r \in Regions |-> {a \in Areas : bucket[a] = r}]
    BY <1>1 DEF StartBoot, memoryVars, durableVars
  <2>2. watched = <<>> /\ sweep.area = None
    BY <2>1 DEF LivesInv, Quiet, NoSweep
  <2>3. \A a : ~Mentions(watched, a)
    BY <2>2, EmptyMailbox DEF Mentions
  <2>4. \A a \in Areas : FollowsBucket(a)'
    BY <2>1, <2>2, <2>3, DataAssumption DEF FollowsBucket
  <2> QED
    BY <2>4 DEF AreasInv
<1>2. CASE \/ \E e \in repair : RepairProjection(e)
           \/ FinishBoot
           \/ UNCHANGED allVars
  <2>1. UNCHANGED <<watched, bucket, areaTree, sweep>> /\ (mode' # "down" => mode # "down")
    BY <1>2 DEF RepairProjection, FinishBoot, allVars, vars, geotruthVars, engineVars, memoryVars,
                durableVars
  <2> QED
    BY <2>1, FollowsStays DEF AreasInv
<1>3. CASE Crash \/ \E e \in repair : RepairFails(e)
  BY <1>3 DEF AreasInv, Crash, RepairFails
<1>4. ASSUME NEW a \in Areas, NEW r \in Regions \cup {Elsewhere, None}, WriteArea(a, r)
      PROVE  AreasInv'
  <2>1. /\ mode = "up" /\ UNCHANGED <<areaTree, sweep>>
        /\ bucket' = [bucket EXCEPT ![a] = r]
        /\ bucket \in [Areas -> Regions \cup {Elsewhere, None}]
    BY <1>0, <1>4 DEF WriteArea, vars, engineVars, GeoTruthTypeOK
  <2>2. ASSUME NEW b \in Areas, b # a
        PROVE  FollowsBucket(b)'
    <3>1. bucket'[b] = bucket[b] /\ FollowsBucket(b)
      BY <2>1, <2>2 DEF AreasInv
    <3> QED
      BY <1>0, <1>4, <2>1, <2>2, <3>1, WrittenFollows DEF FollowsBucket
  <2>3. FollowsBucket(a)'
    BY <1>0, <1>4, <2>1, WrittenFollows DEF FollowsBucket
  <2> QED
    BY <2>2, <2>3 DEF AreasInv
<1>5. CASE WatchEntry
  BY <1>0, <1>5, AppliesEntry
<1>6. CASE Work
  <2>1. mode = "up" /\ UNCHANGED <<watched, bucket>>
    BY <1>6 DEF Work, geotruthVars
  <2>2. \A a \in Areas : FollowsBucket(a)
    BY <2>1 DEF AreasInv
  <2>3. CASE UNCHANGED <<areaTree, sweep>>
    BY <2>1, <2>2, <2>3, FollowsStays DEF AreasInv
  <2>4. CASE \E r \in Regions : RemoveAreaFrom(r)
    BY <1>0, <2>1, <2>2, <2>4, SweepsRegion DEF AreasInv
  <2> QED
    BY <1>0, <1>6, <2>3, <2>4, WorkOnAreas
<1> QED
  BY <1>1, <1>2, <1>3, <1>4, <1>5, <1>6 DEF GeoTruthNext, Boot

(* When the watcher has caught up, no area of the bucket is missed and no  *)
(* removed one stays, whatever the order of writes, restarts and           *)
(* superseded entries.  It says nothing of a region an area was registered *)
(* for before: watchAreas leaves the area there as well.                   *)
THEOREM BucketAreasServed == GeoTruthSpec => []BucketAreasAreServed
<1>1. GeoTruthInit => AreasInv
  BY DEF GeoTruthInit, AreasInv
<1>2. LivesInv /\ AreasInv /\ [GeoTruthNext]_allVars => AreasInv'
  BY AreasKept
<1>3. AreasInv => BucketAreasAreServed
  <2>1. ASSUME AreasInv, mode = "up", watched = <<>>, sweep = NoSweep, NEW a \in Areas
        PROVE  /\ bucket[a] \in Regions => a \in areaTree[bucket[a]]
               /\ bucket[a] = None => \A r \in Regions : a \notin areaTree[r]
    <3>1. FollowsBucket(a) /\ sweep.area # a
      BY <2>1, DataAssumption DEF AreasInv, NoSweep
    <3>2. ~Mentions(watched, a)
      BY <2>1, EmptyMailbox DEF Mentions
    <3> QED
      BY <3>1, <3>2 DEF FollowsBucket
  <2> QED
    BY <2>1 DEF BucketAreasAreServed, CaughtUp
<1> QED
  BY <1>1, <1>2, <1>3, LivesInvariant, PTL DEF GeoTruthSpec
=============================================================================
