------------------------------ MODULE BootScan ------------------------------
(***************************************************************************)
(* The two scans of the stream that a boot makes (RecoverObjectCommits and *)
(* RepairLatestProjections, internal/gtevents/stream.go), message by       *)
(* message over the whole stream, where module GeoTruth reads the stream   *)
(* of each object at once.                                                 *)
(*                                                                         *)
(* A scan fetches batches from a pull consumer until a fetch counts no     *)
(* message.  A fetch can fail or break off; a message that was delivered   *)
(* and not acknowledged is delivered again later, when the scan is still   *)
(* going on.                                                               *)
(*                                                                         *)
(* The process between two boots is reduced to what it leaves in the       *)
(* stream: commits, each with its geofence events after it, the last ones  *)
(* missing when it ends.                                                   *)
(***************************************************************************)
EXTENDS Integers, Sequences, FiniteSets, SequencesExt

CONSTANTS
  Objects,
  Areas,
  None,
  CommitTypes,       \* the kinds of commit: one subject each
  Batch,             \* messages per fetch (256, 1024)
  MaxCommits,        \* bounds of the model: commits,
  MaxRecoveryFaults, \*   fetches that fail or break off in the first scan
  MaxRepairFaults,   \*   and in the second,
  MaxLostAcks,       \*   fetches of which acknowledgements are lost,
  MaxCrashes         \*   ends of the process

ScanAssumption ==
  /\ None \notin Areas
  /\ Batch \in Nat \ {0}
  /\ {MaxCommits, MaxRecoveryFaults, MaxRepairFaults, MaxLostAcks, MaxCrashes} \subseteq Nat

VARIABLES
  stream,   \* the messages in the order of their sequence
  number,   \* [Objects -> Nat]: the last commit of the running process
  owed,     \* [Objects -> SUBSET Areas]: geofence events it has to publish
  mode,     \* "up", "down", "recover", "recovered", "repair", "publish"
  todo,     \* what the scan's consumer has still to deliver
  unacked,  \* delivered, not acknowledged
  commits,  \* [Objects -> Nat]: the message recovered for the object, or 0
  missing,  \* geofence events that were not found
  faults, crashes

scanVars == <<todo, unacked, commits, missing>>
bootVars == <<stream, number, owed, mode, scanVars, faults, crashes>>

(* A commit says which geofence events follow it; an event says which      *)
(* commit it is of.  Nobody else writes to the stream.                     *)
Commit == [obj : Objects, type : CommitTypes, seq : Nat, areas : SUBSET Areas]
Projection == [obj : Objects, seq : Nat, area : Areas]

IsProjection(msg) == "area" \in DOMAIN msg

EventsOf(commit) == {[obj |-> commit.obj, seq |-> commit.seq, area |-> a] : a \in commit.areas}

BootInit ==
  /\ stream = <<>>
  /\ number = [o \in Objects |-> 0]
  /\ owed = [o \in Objects |-> {}]
  /\ mode = "up"
  /\ todo = <<>> /\ unacked = <<>>
  /\ commits = [o \in Objects |-> 0]
  /\ missing = {}
  /\ faults = [recover |-> 0, repair |-> 0, acks |-> 0]
  /\ crashes = 0

---------------------------------------------------------------------------
(* The running process.                                                    *)
Commits == {i \in DOMAIN stream : ~IsProjection(stream[i])}

WriteCommit(o, type, areas) ==
  /\ mode = "up"
  /\ owed[o] = {}
  /\ Cardinality(Commits) < MaxCommits
  /\ number' = [number EXCEPT ![o] = @ + 1]
  /\ owed' = [owed EXCEPT ![o] = areas]
  /\ stream' = Append(stream, [obj |-> o, type |-> type, seq |-> number[o] + 1, areas |-> areas])
  /\ UNCHANGED <<mode, scanVars, faults, crashes>>

WriteProjection(o, a) ==
  /\ mode = "up"
  /\ a \in owed[o]
  /\ owed' = [owed EXCEPT ![o] = @ \ {a}]
  /\ stream' = Append(stream, [obj |-> o, seq |-> number[o], area |-> a])
  /\ UNCHANGED <<number, mode, scanVars, faults, crashes>>

MemoryLost ==
  /\ number' = [o \in Objects |-> 0]
  /\ owed' = [o \in Objects |-> {}]
  /\ todo' = <<>> /\ unacked' = <<>>
  /\ commits' = [o \in Objects |-> 0]
  /\ missing' = {}

Crash ==
  /\ mode # "down"
  /\ crashes < MaxCrashes
  /\ crashes' = crashes + 1
  /\ mode' = "down"
  /\ MemoryLost
  /\ UNCHANGED <<stream, faults>>

---------------------------------------------------------------------------
(* Positions of the stream, in order.                                      *)
InOrder(positions) ==
  [k \in 1..Cardinality(positions) |->
     CHOOSE i \in positions : Cardinality({j \in positions : j <= i}) = k]

(* DeliverLastPerSubject.                                                  *)
LastPerSubject ==
  { i \in Commits : \A j \in Commits : j > i =>
      <<stream[j].obj, stream[j].type>> # <<stream[i].obj, stream[i].type>> }

StartRecovery ==
  /\ mode = "down"
  /\ mode' = "recover"
  /\ todo' = InOrder(LastPerSubject)
  /\ UNCHANGED <<stream, number, owed, unacked, commits, missing, faults, crashes>>

FirstOf(q, n) == SubSeq(q, 1, n)
After(q, n) == SubSeq(q, n + 1, Len(q))

BatchSize == IF Len(todo) < Batch THEN Len(todo) ELSE Batch

FaultLimit == [recover |-> MaxRecoveryFaults, repair |-> MaxRepairFaults, acks |-> MaxLostAcks]

(* A fetch delivers a batch, of which the scan receives n messages and the *)
(* server acks acknowledgements; without a fault, all of it.               *)
Fetched(n, acks) ==
  /\ acks <= n /\ n <= BatchSize
  /\ n = BatchSize \/ faults[mode] < FaultLimit[mode]
  /\ acks = n \/ faults.acks < FaultLimit.acks
  /\ faults' = [faults EXCEPT ![mode] = IF n = BatchSize THEN @ ELSE @ + 1,
                             !.acks = IF acks = n THEN @ ELSE @ + 1]
  /\ todo' = After(todo, BatchSize)
  /\ unacked' = unacked \o SubSeq(todo, acks + 1, BatchSize)

Redeliver ==
  /\ unacked # <<>>
  /\ todo' = todo \o unacked
  /\ unacked' = <<>>
  /\ UNCHANGED <<stream, number, owed, mode, commits, missing, faults, crashes>>

(* Faulty variant: what is delivered last is taken.                        *)
TakenLast(o, received) ==
  FoldLeft(LAMBDA held, i : IF stream[i].obj = o THEN i ELSE held,
           commits[o], received)

(* A message is taken unless one with a higher sequence is held.           *)
Taken(o, received) ==
  Max({commits[o]} \cup {i \in ToSet(received) : stream[i].obj = o})

(* What the events of the recovered commits are, and where the earliest of *)
(* those commits that have any is.                                         *)
Expected == UNION {EventsOf(stream[commits[o]]) : o \in {o \in Objects : commits[o] # 0}}

(* Faulty variant: the scan starts at the latest of them.                  *)
StartSeqLatest ==
  1 + Max({commits[o] : o \in {o \in Objects : commits[o] # 0 /\ stream[commits[o]].areas # {}}})

StartSeq ==
  1 + Min({commits[o] : o \in {o \in Objects : commits[o] # 0 /\ stream[commits[o]].areas # {}}})

(* A fetch that counts no message, or fails, ends the scan without an      *)
(* error.                                                                  *)
RecoverFetch ==
  /\ mode = "recover"
  /\ \E n \in 0..BatchSize, acks \in 0..BatchSize :
       LET received == FirstOf(todo, n)
       IN  /\ Fetched(n, acks)
           /\ commits' = [o \in Objects |-> Taken(o, received)]
           /\ mode' = IF n = 0 THEN "recovered" ELSE "recover"
  /\ UNCHANGED <<stream, number, owed, missing, crashes>>

FetchFails ==
  /\ mode \in {"recover", "repair"}
  /\ faults[mode] < FaultLimit[mode]
  /\ faults' = [faults EXCEPT ![mode] = @ + 1]
  /\ mode' = IF mode = "recover" THEN "recovered" ELSE "publish"
  /\ UNCHANGED <<stream, number, owed, scanVars, crashes>>

(* RepairLatestProjections looks for all of them until they are found.     *)
StartRepair ==
  /\ mode = "recovered"
  /\ missing' = Expected
  /\ unacked' = <<>>
  /\ IF Expected = {}
     THEN mode' = "publish" /\ todo' = <<>>
     ELSE /\ mode' = "repair"
          /\ todo' = InOrder({i \in DOMAIN stream : IsProjection(stream[i]) /\ i >= StartSeq})
  /\ UNCHANGED <<stream, number, owed, commits, faults, crashes>>

(* Faulty variant: events of earlier commits count as found.               *)
FoundAnySeq(e, received) ==
  \E i \in ToSet(received) : stream[i].obj = e.obj /\ stream[i].area = e.area

(* By event ID, which has the number of the commit.                        *)
Found(e, received) == \E i \in ToSet(received) : stream[i] = e

RepairFetch ==
  /\ mode = "repair"
  /\ \E n \in 0..BatchSize, acks \in 0..BatchSize :
       LET received == FirstOf(todo, n)
       IN  /\ Fetched(n, acks)
           /\ missing' = {e \in missing : ~Found(e, received)}
           /\ mode' = IF n = 0 THEN "publish" ELSE "repair"
  /\ UNCHANGED <<stream, number, owed, commits, crashes>>

(* One of the missing events, in any order.                                *)
RepairProjection(e) ==
  /\ mode = "publish"
  /\ e \in missing
  /\ stream' = Append(stream, e)
  /\ missing' = missing \ {e}
  /\ UNCHANGED <<number, owed, mode, todo, unacked, commits, faults, crashes>>

FinishBoot ==
  /\ mode = "publish"
  /\ missing = {}
  /\ mode' = "up"
  /\ number' = [o \in Objects |-> IF commits[o] = 0 THEN 0 ELSE stream[commits[o]].seq]
  /\ todo' = <<>> /\ unacked' = <<>>
  /\ UNCHANGED <<stream, owed, commits, missing, faults, crashes>>

BootNext ==
  \/ \E o \in Objects :
       \/ \E type \in CommitTypes, areas \in SUBSET Areas : WriteCommit(o, type, areas)
       \/ \E a \in Areas : WriteProjection(o, a)
  \/ Crash
  \/ StartRecovery \/ RecoverFetch \/ FetchFails
  \/ Redeliver
  \/ StartRepair \/ RepairFetch
  \/ \E e \in missing : RepairProjection(e)
  \/ FinishBoot

BootSpec == BootInit /\ [][BootNext]_bootVars

---------------------------------------------------------------------------
(* Types; what a scan has still to deliver or has delivered is in the      *)
(* stream, and a process owes events only while it runs (publisher.go,     *)
(* commitOne).                                                             *)
BootTypeOK ==
  /\ stream \in Seq(Commit \cup Projection)
  /\ number \in [Objects -> Nat]
  /\ owed \in [Objects -> SUBSET Areas]
  /\ mode \in {"up", "down", "recover", "recovered", "repair", "publish"}
  /\ todo \in Seq(DOMAIN stream) /\ unacked \in Seq(DOMAIN stream)
  /\ commits \in [Objects -> Commits \cup {0}]
  /\ missing \subseteq Projection
  /\ mode # "up" => \A o \in Objects : owed[o] = {}

(* The commits of an object that say where it was left.                    *)
CommitsOf(o) == {i \in Commits : stream[i].obj = o}

Latest(o) == IF CommitsOf(o) = {} THEN 0 ELSE Max(CommitsOf(o))

(* technical-manual.md: on boot GeoTruth "recovers the latest commit for   *)
(* each object": over all its subjects, whatever the order of deliveries   *)
(* and the size of the batches.                                            *)
RecoveredIsLatest ==
  mode \in {"recovered", "repair", "publish"} => \A o \in Objects : commits[o] = Latest(o)

(* A booted process leaves no geofence event of a latest commit out of the *)
(* stream, except those it is about to publish itself (technical-manual.md:*)
(* "repairs missing geofence projections"), also when the second scan      *)
(* breaks off.                                                             *)
ProjectionsAreRepaired ==
  mode = "up" =>
    \A o \in Objects : Latest(o) # 0 =>
      \A e \in EventsOf(stream[Latest(o)]) : e \in ToSet(stream) \/ e.area \in owed[o]

(* A boot does not publish again what the stream has (stream.go, found),   *)
(* whatever the batches and however often they are delivered, unless the   *)
(* second scan broke off.                                                  *)
NothingRepairedTwice ==
  faults.repair = 0 =>
    \A i, j \in DOMAIN stream :
      IsProjection(stream[i]) /\ stream[i] = stream[j] => i = j
=============================================================================
