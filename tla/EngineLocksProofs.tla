-------------------------- MODULE EngineLocksProofs --------------------------
(***************************************************************************)
(* The locks of internal/engine never tie the goroutines up and never let  *)
(* two of them race, for any number of objects, regions and queries.       *)
(*                                                                         *)
(* What a thread holds can be read off the steps it has still to make: a   *)
(* lock that is given back among them and not taken among them.  Every     *)
(* program is sound in that sense from each of its steps on, it climbs     *)
(* from pubMu to the regions in the order of their names, and touches      *)
(* nothing without the lock of it.                                         *)
(***************************************************************************)
EXTENDS EngineLocks, TLAPS, FiniteSetTheorems, WellFoundedInduction

(* The steps of s behind the i-th.                                         *)
After(s, i) == {s[j] : j \in (i + 1)..Len(s)}

Steps(s) == After(s, 0)

(* What is held for writing, and for reading, with the steps S to go.  A   *)
(* check or a look-up chooses the rest of its program, which gives back    *)
(* what it has.                                                            *)
Written(S) == {l \in Locks : Unlock(l) \in S /\ Lock(l) \notin S}

GivesBack(l, S) == RUnlock(l) \in S \/ Do("check", l) \in S \/ Do("locate", l) \in S

Read(S) == {l \in Locks : GivesBack(l, S) /\ RLock(l) \notin S}

HeldIn(S) == Written(S) \cup Read(S)

Level(l) == IF l[1] = "ctl" THEN 0 ELSE Position(l[2])

Climbs(l, S) == \A m \in HeldIn(S) : m = l \/ Level(m) < Level(l)

LockDo == {"lock", "rlock", "unlock", "runlock"}
WorkerDo == LockDo \cup {"check", "enter", "leave", "publish", "send"}
DispatcherDo == LockDo \cup {"snapshot", "confirm"}
WatcherDo == LockDo \cup {"addArea", "purge", "dropArea"}
QueryDo == LockDo \cup {"locate", "get", "scan", "look", "reply"}

RegionWrites == {"enter", "leave", "publish", "snapshot", "purge", "addArea", "dropArea"}

AnyDo == WorkerDo \cup DispatcherDo \cup WatcherDo \cup QueryDo

AnyStep == [do : AnyDo, on : Locks \cup Regions \cup {None} \cup SUBSET Regions]

(* Step x of job j, which is about the ObjCtl c, with the steps S behind.  *)
LockSound(x, S) ==
  /\ x.do \in LockDo => x.on \in Locks
  /\ x.do = "lock" =>
       Unlock(x.on) \in S /\ Lock(x.on) \notin S /\ ~GivesBack(x.on, S) /\ Climbs(x.on, S)
  /\ x.do = "rlock" =>
       GivesBack(x.on, S) /\ RLock(x.on) \notin S /\ Unlock(x.on) \notin S /\ Climbs(x.on, S)
  /\ x.do = "unlock" => Lock(x.on) \notin S /\ Unlock(x.on) \notin S
  /\ x.do = "runlock" => RLock(x.on) \notin S /\ ~GivesBack(x.on, S)

DataSound(j, c, x, S) ==
  /\ x.do \in {"check", "locate"} => S = {} /\ x.on \in Locks /\ x.on = c
  /\ x.do = "check" => j.kind = "update"
  /\ x.do \in RegionWrites => x.on \in Regions /\ Region(x.on) \in Written(S)
  /\ x.do = "publish" =>
       /\ c \in IF j.kind = "update" THEN Read(S) ELSE Written(S)
       /\ j.kind = "transition" => Region(j.old) \in Written(S)
  /\ x.do \in {"get", "look"} => x.on \in Regions /\ Region(x.on) \in Read(S)
  /\ x.do = "look" => HeldIn(S) = {Region(x.on)} /\ Written(S) = {}
  /\ x.do = "scan" => \A r \in x.on : r \in Regions /\ Region(r) \in Read(S)
  /\ x.do \in {"send", "confirm", "reply"} => S = {}

Sound(j, c, x, S) == LockSound(x, S) /\ DataSound(j, c, x, S)

Program(j, c, s) ==
  s \in Seq(AnyStep) /\ \A i \in 1..Len(s) : Sound(j, c, s[i], After(s, i))

---------------------------------------------------------------------------
(* Names.                                                                  *)
LEMMA LocksDiffer ==
  /\ \A o \in Objects, n \in 1..MaxLives : Ctl(o, n) \in Locks
  /\ \A r \in Regions : Region(r) \in Locks
  /\ \A o, n, r : Ctl(o, n) # Region(r)
  /\ \A r, q : Region(r) = Region(q) => r = q
<1>1. \A o, n, r : Ctl(o, n)[1] = "ctl" /\ Region(r)[1] = "region"
  BY DEF Ctl, Region
<1>2. \A r : Region(r)[2] = r
  BY DEF Region
<1> QED
  BY <1>1, <1>2 DEF Locks

LEMMA Levels ==
  /\ \A l \in Locks : Level(l) \in 0..Cardinality(Regions)
  /\ \A o, n : Level(Ctl(o, n)) = 0
  /\ \A r \in Regions : Level(Region(r)) = Position(r) /\ Level(Region(r)) > 0
  /\ \A r, q \in Regions : Position(r) = Position(q) => r = q
  /\ Cardinality(Regions) \in Nat
<1>1. Cardinality(Regions) \in Nat
  BY LocksAssumption, FS_CardinalityType
<1>2. \A r \in Regions : Position(r) \in 1..Cardinality(Regions) /\ Order[Position(r)] = r
  <2>1. TAKE r \in Regions
  <2>2. \E i \in DOMAIN Order : Order[i] = r
    BY LocksAssumption
  <2>3. Position(r) \in DOMAIN Order /\ Order[Position(r)] = r
    BY <2>2 DEF Position
  <2> QED
    BY <2>3, LocksAssumption
<1>3. \A r \in Regions : Level(Region(r)) = Position(r)
  BY DEF Level, Region
<1>4. \A o, n : Level(Ctl(o, n)) = 0
  BY DEF Level, Ctl
<1>5. \A l \in Locks : Level(l) \in 0..Cardinality(Regions)
  BY <1>1, <1>2, <1>3, <1>4 DEF Locks
<1> QED
  BY <1>1, <1>2, <1>3, <1>4, <1>5

LEMMA ThreadNames ==
  /\ None \notin Threads
  /\ "dispatcher" \in Threads /\ "watcher" \in Threads
  /\ "dispatcher" \notin Workers /\ "watcher" \notin Workers
  /\ "dispatcher" \notin Queries /\ "watcher" \notin Queries
  /\ Workers \cap Queries = {} /\ Workers \subseteq Threads /\ Queries \subseteq Threads
  /\ "transition" \in Workers /\ Regions \subseteq Workers
BY NamesAssumption DEF Threads, Workers

---------------------------------------------------------------------------
(* Programs and their tails.                                               *)
LEMMA TailSteps ==
  ASSUME NEW S, NEW s \in Seq(S), s # <<>>
  PROVE  /\ Head(s) = s[1] /\ Head(s) \in S /\ Tail(s) \in Seq(S)
         /\ Steps(s) = {Head(s)} \cup Steps(Tail(s))
         /\ Steps(Tail(s)) = After(s, 1)
         /\ \A i \in 1..Len(Tail(s)) : Tail(s)[i] = s[i + 1] /\ After(Tail(s), i) = After(s, i + 1)
<1>1. Len(s) \in Nat \ {0} /\ Head(s) = s[1] /\ Tail(s) \in Seq(S) /\ Len(Tail(s)) = Len(s) - 1
  OBVIOUS
<1>2. \A i \in 1..Len(Tail(s)) : Tail(s)[i] = s[i + 1]
  BY <1>1
<1>3. ASSUME NEW i \in 0..Len(Tail(s)) PROVE After(Tail(s), i) = After(s, i + 1)
  <2>1. \A j \in (i + 1)..Len(Tail(s)) : Tail(s)[j] = s[j + 1] /\ j + 1 \in (i + 2)..Len(s)
    BY <1>1, <1>2
  <2>2. \A j \in (i + 2)..Len(s) : j - 1 \in (i + 1)..Len(Tail(s)) /\ s[j] = Tail(s)[j - 1]
    BY <1>1, <1>2
  <2>3. After(Tail(s), i) \subseteq After(s, i + 1)
    BY <2>1 DEF After
  <2>4. After(s, i + 1) \subseteq After(Tail(s), i)
    BY <2>2 DEF After
  <2> QED
    BY <2>3, <2>4
<1>4. Steps(Tail(s)) = After(s, 1)
  BY <1>1, <1>3 DEF Steps
<1>5. Steps(s) = {s[1]} \cup After(s, 1)
  BY <1>1 DEF Steps, After
<1>6. \A i \in 1..Len(Tail(s)) : After(Tail(s), i) = After(s, i + 1)
  BY <1>1, <1>3
<1> QED
  BY <1>1, <1>2, <1>4, <1>5, <1>6

LEMMA NoSteps == Steps(<<>>) = {} /\ Written({}) = {} /\ Read({}) = {} /\ HeldIn({}) = {}
<1>1. Steps(<<>>) = {}
  BY DEF Steps, After
<1> QED
  BY <1>1 DEF Written, Read, HeldIn, GivesBack

(* The rest of a program is one, and its first step is sound.              *)
LEMMA ProgramTail ==
  ASSUME NEW j, NEW c, NEW s, Program(j, c, s), s # <<>>
  PROVE  /\ Program(j, c, Tail(s))
         /\ Sound(j, c, Head(s), Steps(Tail(s)))
         /\ Steps(s) = {Head(s)} \cup Steps(Tail(s))
         /\ Head(s) \in AnyStep
<1>1. s \in Seq(AnyStep) /\ \A i \in 1..Len(s) : Sound(j, c, s[i], After(s, i))
  BY DEF Program
<1>2. Len(s) \in Nat \ {0} /\ Len(Tail(s)) = Len(s) - 1
  BY <1>1
<1>3. /\ Head(s) = s[1] /\ Head(s) \in AnyStep /\ Tail(s) \in Seq(AnyStep)
      /\ Steps(s) = {Head(s)} \cup Steps(Tail(s)) /\ Steps(Tail(s)) = After(s, 1)
      /\ \A i \in 1..Len(Tail(s)) : Tail(s)[i] = s[i + 1] /\ After(Tail(s), i) = After(s, i + 1)
  BY <1>1, TailSteps
<1>4. Sound(j, c, Head(s), Steps(Tail(s)))
  BY <1>1, <1>2, <1>3
<1>5. \A i \in 1..Len(Tail(s)) : Sound(j, c, Tail(s)[i], After(Tail(s), i))
  BY <1>1, <1>2, <1>3
<1> QED
  BY <1>3, <1>4, <1>5 DEF Program

---------------------------------------------------------------------------
(* The invariant.                                                          *)

(* The ObjCtl a thread's job is about.                                     *)
Own(t) ==
  IF t \in Queries THEN Ctl(thread[t].job.call.of, thread[t].job.ctl)
  ELSE Ctl(thread[t].job.obj, life[thread[t].job.obj])

Running(t) == Steps(thread[t].run)

Shapes ==
  /\ lock = [l \in Locks |-> lock[l]]
  /\ thread = [t \in Threads |-> thread[t]]
  /\ \A l \in Locks :
       /\ lock[l] = [ writer |-> lock[l].writer, readers |-> lock[l].readers,
                      waiting |-> lock[l].waiting ]
       /\ lock[l].writer \in Threads \cup {None}
       /\ lock[l].readers \subseteq Threads /\ lock[l].waiting \subseteq Threads
       /\ lock[l].readers \cap lock[l].waiting = {}
       /\ lock[l].waiting # {} => lock[l].writer # None
       /\ lock[l].writer \notin lock[l].readers \cup lock[l].waiting
  /\ \A t \in Threads :
       thread[t] = [ job |-> thread[t].job, run |-> thread[t].run, got |-> thread[t].got,
                     before |-> thread[t].before ]

Programs == \A t \in Threads : Program(thread[t].job, Own(t), thread[t].run)

(* What a thread holds, or has asked for, is what it will give back.       *)
Linked ==
  \A t \in Threads, l \in Locks :
    /\ lock[l].writer = t <=> l \in Written(Running(t))
    /\ t \in lock[l].readers \cup lock[l].waiting <=> l \in Read(Running(t))

(* A thread that waits for a lock it has asked for holds only lower ones.  *)
Stuck(t, l) == t \in lock[l].waiting \/ (lock[l].writer = t /\ lock[l].readers # {})

Topmost == \A t \in Threads, l \in Locks : Stuck(t, l) => Climbs(l, Running(t))

LocksCore == Shapes /\ Programs /\ Linked /\ Topmost

(* Which steps a thread makes.                                             *)
Role(t) ==
  IF t \in Workers THEN WorkerDo
  ELSE IF t = "dispatcher" THEN DispatcherDo
  ELSE IF t = "watcher" THEN WatcherDo
  ELSE QueryDo

Does(t, D) == \A x \in Running(t) : x.do \in D

Roles == \A t \in Threads : Does(t, Role(t))

(* Where the one command of o is that its mailbox waits for.               *)
Busy(t) == thread[t].run # <<>>

Places(o) ==
  {<<"task", t>> : t \in {x \in tasks : x.obj = o}} \cup
  {<<"thread", t>> : t \in {x \in Workers \cup {"dispatcher"} : Busy(x) /\ thread[x].job.obj = o}} \cup
  {<<"result", res>> : res \in {x \in results : x.obj = o}}

Alone(o) ==
  /\ \A x, y \in Places(o) : x = y
  /\ Places(o) # {} => o \in registered /\ head[o] # None

TaskOK(t) ==
  /\ t \in WorkerTask
  /\ t.kind = "remove" <=> head[t.obj] = "remove"
  /\ t.kind = "transition" => t.old # t.region

ResultOK(res) ==
  /\ res.obj \in Objects
  /\ res.ready => (IF head[res.obj] = "remove" THEN res.old ELSE res.region) \in Regions

WorkerOK(w) ==
  LET j == thread[w].job
  IN  Busy(w) =>
        /\ TaskOK(j)
        /\ \E x \in Running(w) : x.do \in {"check", "send"}
        /\ \/ \E x \in Running(w) : x.do \in {"check", "publish"}
           \/ thread[w].got.obj = j.obj /\ ResultOK(thread[w].got)

DispatcherOK ==
  Busy("dispatcher") =>
    thread["dispatcher"].job.obj \in Objects /\ \E x \in Running("dispatcher") : x.do = "confirm"

Items ==
  /\ \A t \in tasks : TaskOK(t)
  /\ \A res \in results : ResultOK(res)
  /\ \A w \in Workers : WorkerOK(w)
  /\ DispatcherOK

Fields ==
  /\ registered \subseteq Objects
  /\ pubRegion \in [Objects -> RegionOrNone]
  /\ head \in [Objects -> {"register", "update", "remove", None}]
  /\ life \in [Objects -> 0..MaxLives]
  /\ \A o \in registered : life[o] > 0

LocksInv == LocksCore /\ Roles /\ (\A o \in Objects : Alone(o)) /\ Items /\ Fields

---------------------------------------------------------------------------
(* Every program is sound.                                                 *)
LEMMA DoFields ==
  /\ \A d, x : Do(d, x).do = d /\ Do(d, x).on = x
  /\ \A d, x, e, y : Do(d, x) = Do(e, y) <=> d = e /\ x = y
  /\ \A d \in AnyDo, x \in Locks \cup Regions \cup {None} \cup SUBSET Regions : Do(d, x) \in AnyStep
<1>1. \A d, x : Do(d, x).do = d /\ Do(d, x).on = x
  BY DEF Do
<1>2. \A d \in AnyDo, x \in Locks \cup Regions \cup {None} \cup SUBSET Regions : Do(d, x) \in AnyStep
  BY DEF Do, AnyStep
<1> QED
  BY <1>1, <1>2

LEMMA StepTypes ==
  /\ \A l \in Locks : /\ Lock(l) \in AnyStep /\ Unlock(l) \in AnyStep /\ RLock(l) \in AnyStep
                      /\ RUnlock(l) \in AnyStep /\ Do("check", l) \in AnyStep /\ Do("locate", l) \in AnyStep
  /\ \A d \in AnyDo, r \in Regions : Do(d, r) \in AnyStep /\ Do(d, {r}) \in AnyStep
  /\ \A d \in AnyDo : Do(d, Regions) \in AnyStep
  /\ Send \in AnyStep /\ Reply \in AnyStep /\ Do("confirm", None) \in AnyStep
<1> DEFINE On == Locks \cup Regions \cup {None} \cup SUBSET Regions
<1>1. \A d \in AnyDo, x \in On : Do(d, x) \in AnyStep
  BY DoFields
<1>2. /\ \A l \in Locks : l \in On
      /\ \A r \in Regions : r \in On /\ {r} \in On
      /\ Regions \in On /\ None \in On
  OBVIOUS
<1> HIDE DEF On
<1>3. \A l \in Locks : /\ Lock(l) \in AnyStep /\ Unlock(l) \in AnyStep /\ RLock(l) \in AnyStep
                     /\ RUnlock(l) \in AnyStep /\ Do("check", l) \in AnyStep /\ Do("locate", l) \in AnyStep
  <2>1. {"lock", "unlock", "rlock", "runlock", "check", "locate"} \subseteq AnyDo
    BY DEF AnyDo, LockDo, WorkerDo, QueryDo
  <2> QED
    BY <1>1, <1>2, <2>1 DEF Lock, Unlock, RLock, RUnlock
<1>4. \A d \in AnyDo, r \in Regions : Do(d, r) \in AnyStep /\ Do(d, {r}) \in AnyStep
  BY <1>1, <1>2
<1>5. \A d \in AnyDo : Do(d, Regions) \in AnyStep
  BY <1>1, <1>2
<1>6. Send \in AnyStep /\ Reply \in AnyStep /\ Do("confirm", None) \in AnyStep
  <2>1. {"send", "reply", "confirm"} \subseteq AnyDo
    BY DEF AnyDo, WorkerDo, DispatcherDo, QueryDo
  <2> QED
    BY <1>1, <1>2, <2>1 DEF Send, Reply
<1> QED
  BY <1>3, <1>4, <1>5, <1>6

(* The programs of the workers.                                            *)
LEMMA InitSound ==
  ASSUME NEW j, j.kind = "init", NEW o \in Objects, NEW n \in 1..MaxLives, NEW r \in Regions
  PROVE  LET s == InitProgram(Ctl(o, n), r)
         IN  /\ Program(j, Ctl(o, n), s) /\ Written(Steps(s)) = {} /\ Read(Steps(s)) = {}
             /\ \A x \in Steps(s) : x.do \in WorkerDo
             /\ \E x \in Steps(s) : x.do = "send"
             /\ \E x \in Steps(s) : x.do = "publish"
<1> DEFINE c == Ctl(o, n)
           m == Region(r)
           s == InitProgram(c, r)
<1>1. /\ Len(s) = 7 /\ s[1] = Lock(c) /\ s[2] = Lock(m) /\ s[3] = Do("enter", r)
      /\ s[4] = Do("publish", r) /\ s[5] = Unlock(m) /\ s[6] = Unlock(c) /\ s[7] = Send
  BY DEF InitProgram
<1>2. c \in Locks /\ m \in Locks /\ c # m /\ Level(c) = 0 /\ Level(m) > 0
  BY LocksDiffer, Levels
<1>3. s \in Seq(AnyStep)
  <2>1. {"enter", "publish"} \subseteq AnyDo
    BY DEF AnyDo, WorkerDo, DispatcherDo, WatcherDo, QueryDo
  <2>2. /\ Lock(c) \in AnyStep /\ Lock(m) \in AnyStep /\ Do("enter", r) \in AnyStep
        /\ Do("publish", r) \in AnyStep /\ Unlock(m) \in AnyStep /\ Unlock(c) \in AnyStep
        /\ Send \in AnyStep
    BY <1>2, <2>1, StepTypes
  <2> QED
    BY <2>2 DEF InitProgram
<1> HIDE DEF c, m, s
<1> DEFINE S7 == {}
           S6 == {Send} \cup S7
           S5 == {Unlock(c)} \cup S6
           S4 == {Unlock(m)} \cup S5
           S3 == {Do("publish", r)} \cup S4
           S2 == {Do("enter", r)} \cup S3
           S1 == {Lock(m)} \cup S2
           S0 == {Lock(c)} \cup S1
<1>4. /\ After(s, 7) = S7 /\ After(s, 6) = S6 /\ After(s, 5) = S5 /\ After(s, 4) = S4
      /\ After(s, 3) = S3 /\ After(s, 2) = S2 /\ After(s, 1) = S1 /\ Steps(s) = S0
  BY <1>1 DEF After, Steps
<1>5. Sound(j, c, Send, S7)
  BY <1>2 DEF Sound, LockSound, DataSound, LockDo, RegionWrites, Lock, Unlock, RLock, RUnlock, Do, Send, Reply
<1>6. Sound(j, c, Unlock(c), S6)
  BY <1>2 DEF Sound, LockSound, DataSound, LockDo, RegionWrites, Lock, Unlock, RLock, RUnlock, Do, Send, Reply
<1>7. Sound(j, c, Unlock(m), S5)
  BY <1>2 DEF Sound, LockSound, DataSound, LockDo, RegionWrites, Lock, Unlock, RLock, RUnlock, Do, Send, Reply
<1>8. Sound(j, c, Do("publish", r), S4)
  <2>1. {c, m} \subseteq Written(S4)
    BY <1>2 DEF Written, Read, GivesBack, Lock, Unlock, RLock, RUnlock, Do, Send, Reply
  <2> HIDE DEF S4
  <2> QED
    BY <2>1 DEF Sound, LockSound, DataSound, LockDo, RegionWrites, Do, m
<1>9. Sound(j, c, Do("enter", r), S3)
  <2>1. {c, m} \subseteq Written(S3)
    BY <1>2 DEF Written, Read, GivesBack, Lock, Unlock, RLock, RUnlock, Do, Send, Reply
  <2> HIDE DEF S3
  <2> QED
    BY <2>1 DEF Sound, LockSound, DataSound, LockDo, RegionWrites, Do, m
<1>10. Sound(j, c, Lock(m), S2)
  <2>1. HeldIn(S2) \subseteq {c, m}
    BY <1>2 DEF HeldIn, Written, Read, GivesBack, Lock, Unlock, RLock, RUnlock, Do, Send, Reply
  <2>2. Climbs(m, S2)
    BY <1>2, <2>1 DEF Climbs
  <2> QED
    BY <1>2, <2>2 DEF Sound, LockSound, DataSound, LockDo, RegionWrites, GivesBack, Lock, Unlock, RLock, RUnlock, Do, Send, Reply
<1>11. Sound(j, c, Lock(c), S1)
  <2>1. HeldIn(S1) \subseteq {c}
    BY <1>2 DEF HeldIn, Written, Read, GivesBack, Lock, Unlock, RLock, RUnlock, Do, Send, Reply
  <2>2. Climbs(c, S1)
    BY <1>2, <2>1 DEF Climbs
  <2> QED
    BY <1>2, <2>2 DEF Sound, LockSound, DataSound, LockDo, RegionWrites, GivesBack, Lock, Unlock, RLock, RUnlock, Do, Send, Reply
<1>12. Written(S0) = {} /\ Read(S0) = {}
  BY <1>2 DEF Written, Read, GivesBack, Lock, Unlock, RLock, RUnlock, Do, Send, Reply
<1>13. Program(j, c, s)
  <2> HIDE DEF S0, S1, S2, S3, S4, S5, S6, S7
  <2>1. 1..Len(s) = {1, 2, 3, 4, 5, 6, 7}
    BY <1>1
  <2>2. \A i \in {1, 2, 3, 4, 5, 6, 7} : Sound(j, c, s[i], After(s, i))
    BY <1>1, <1>4, <1>5, <1>6, <1>7, <1>8, <1>9, <1>10, <1>11
  <2> QED
    BY <1>3, <2>1, <2>2 DEF Program
<1>14. \A x \in S0 : x.do \in WorkerDo
  BY DEF Lock, Unlock, RLock, RUnlock, Do, Send, Reply, WorkerDo, LockDo
<1>15. (\E x \in S0 : x.do = "send") /\ (\E x \in S0 : x.do = "publish")
  BY DEF Lock, Unlock, RLock, RUnlock, Do, Send, Reply
<1> QED
  BY <1>4, <1>12, <1>13, <1>14, <1>15 DEF c, s

LEMMA RemoveSound ==
  ASSUME NEW j, j.kind = "remove", NEW o \in Objects, NEW n \in 1..MaxLives, NEW r \in Regions
  PROVE  LET s == RemoveProgram(Ctl(o, n), r)
         IN  /\ Program(j, Ctl(o, n), s) /\ Written(Steps(s)) = {} /\ Read(Steps(s)) = {}
             /\ \A x \in Steps(s) : x.do \in WorkerDo
             /\ \E x \in Steps(s) : x.do = "send"
             /\ \E x \in Steps(s) : x.do = "publish"
<1> DEFINE c == Ctl(o, n)
           m == Region(r)
           s == RemoveProgram(c, r)
<1>1. /\ Len(s) = 7 /\ s[1] = Lock(c) /\ s[2] = Lock(m) /\ s[3] = Do("leave", r)
      /\ s[4] = Do("publish", r) /\ s[5] = Unlock(m) /\ s[6] = Unlock(c) /\ s[7] = Send
  BY DEF RemoveProgram
<1>2. c \in Locks /\ m \in Locks /\ c # m /\ Level(c) = 0 /\ Level(m) > 0
  BY LocksDiffer, Levels
<1>3. s \in Seq(AnyStep)
  <2>1. {"leave", "publish"} \subseteq AnyDo
    BY DEF AnyDo, WorkerDo, DispatcherDo, WatcherDo, QueryDo
  <2>2. /\ Lock(c) \in AnyStep /\ Lock(m) \in AnyStep /\ Do("leave", r) \in AnyStep
        /\ Do("publish", r) \in AnyStep /\ Unlock(m) \in AnyStep /\ Unlock(c) \in AnyStep
        /\ Send \in AnyStep
    BY <1>2, <2>1, StepTypes
  <2> QED
    BY <2>2 DEF RemoveProgram
<1> HIDE DEF c, m, s
<1> DEFINE S7 == {}
           S6 == {Send} \cup S7
           S5 == {Unlock(c)} \cup S6
           S4 == {Unlock(m)} \cup S5
           S3 == {Do("publish", r)} \cup S4
           S2 == {Do("leave", r)} \cup S3
           S1 == {Lock(m)} \cup S2
           S0 == {Lock(c)} \cup S1
<1>4. /\ After(s, 7) = S7 /\ After(s, 6) = S6 /\ After(s, 5) = S5 /\ After(s, 4) = S4
      /\ After(s, 3) = S3 /\ After(s, 2) = S2 /\ After(s, 1) = S1 /\ Steps(s) = S0
  BY <1>1 DEF After, Steps
<1>5. Sound(j, c, Send, S7)
  BY <1>2 DEF Sound, LockSound, DataSound, LockDo, RegionWrites, Lock, Unlock, RLock, RUnlock, Do, Send, Reply
<1>6. Sound(j, c, Unlock(c), S6)
  BY <1>2 DEF Sound, LockSound, DataSound, LockDo, RegionWrites, Lock, Unlock, RLock, RUnlock, Do, Send, Reply
<1>7. Sound(j, c, Unlock(m), S5)
  BY <1>2 DEF Sound, LockSound, DataSound, LockDo, RegionWrites, Lock, Unlock, RLock, RUnlock, Do, Send, Reply
<1>8. Sound(j, c, Do("publish", r), S4)
  <2>1. {c, m} \subseteq Written(S4)
    BY <1>2 DEF Written, Read, GivesBack, Lock, Unlock, RLock, RUnlock, Do, Send, Reply
  <2> HIDE DEF S4
  <2> QED
    BY <2>1 DEF Sound, LockSound, DataSound, LockDo, RegionWrites, Do, m
<1>9. Sound(j, c, Do("leave", r), S3)
  <2>1. {c, m} \subseteq Written(S3)
    BY <1>2 DEF Written, Read, GivesBack, Lock, Unlock, RLock, RUnlock, Do, Send, Reply
  <2> HIDE DEF S3
  <2> QED
    BY <2>1 DEF Sound, LockSound, DataSound, LockDo, RegionWrites, Do, m
<1>10. Sound(j, c, Lock(m), S2)
  <2>1. HeldIn(S2) \subseteq {c, m}
    BY <1>2 DEF HeldIn, Written, Read, GivesBack, Lock, Unlock, RLock, RUnlock, Do, Send, Reply
  <2>2. Climbs(m, S2)
    BY <1>2, <2>1 DEF Climbs
  <2> QED
    BY <1>2, <2>2 DEF Sound, LockSound, DataSound, LockDo, RegionWrites, GivesBack, Lock, Unlock, RLock, RUnlock, Do, Send, Reply
<1>11. Sound(j, c, Lock(c), S1)
  <2>1. HeldIn(S1) \subseteq {c}
    BY <1>2 DEF HeldIn, Written, Read, GivesBack, Lock, Unlock, RLock, RUnlock, Do, Send, Reply
  <2>2. Climbs(c, S1)
    BY <1>2, <2>1 DEF Climbs
  <2> QED
    BY <1>2, <2>2 DEF Sound, LockSound, DataSound, LockDo, RegionWrites, GivesBack, Lock, Unlock, RLock, RUnlock, Do, Send, Reply
<1>12. Written(S0) = {} /\ Read(S0) = {}
  BY <1>2 DEF Written, Read, GivesBack, Lock, Unlock, RLock, RUnlock, Do, Send, Reply
<1>13. Program(j, c, s)
  <2> HIDE DEF S0, S1, S2, S3, S4, S5, S6, S7
  <2>1. 1..Len(s) = {1, 2, 3, 4, 5, 6, 7}
    BY <1>1
  <2>2. \A i \in {1, 2, 3, 4, 5, 6, 7} : Sound(j, c, s[i], After(s, i))
    BY <1>1, <1>4, <1>5, <1>6, <1>7, <1>8, <1>9, <1>10, <1>11
  <2> QED
    BY <1>3, <2>1, <2>2 DEF Program
<1>14. \A x \in S0 : x.do \in WorkerDo
  BY DEF Lock, Unlock, RLock, RUnlock, Do, Send, Reply, WorkerDo, LockDo
<1>15. (\E x \in S0 : x.do = "send") /\ (\E x \in S0 : x.do = "publish")
  BY DEF Lock, Unlock, RLock, RUnlock, Do, Send, Reply
<1> QED
  BY <1>4, <1>12, <1>13, <1>14, <1>15 DEF c, s

LEMMA UpdateSound ==
  ASSUME NEW j, j.kind = "update", NEW o \in Objects, NEW n \in 1..MaxLives, NEW r \in Regions
  PROVE  LET s == UpdateProgram(Ctl(o, n), r)
         IN  /\ Program(j, Ctl(o, n), s) /\ Written(Steps(s)) = {} /\ Read(Steps(s)) = {Ctl(o, n)}
             /\ \A x \in Steps(s) : x.do \in WorkerDo
             /\ \E x \in Steps(s) : x.do = "send"
             /\ \E x \in Steps(s) : x.do = "publish"
<1> DEFINE c == Ctl(o, n)
           m == Region(r)
           s == UpdateProgram(c, r)
<1>1. /\ Len(s) = 6 /\ s[1] = Lock(m) /\ s[2] = Do("enter", r) /\ s[3] = Do("publish", r)
      /\ s[4] = Unlock(m) /\ s[5] = RUnlock(c) /\ s[6] = Send
  BY DEF UpdateProgram
<1>2. c \in Locks /\ m \in Locks /\ c # m /\ Level(c) = 0 /\ Level(m) > 0
  BY LocksDiffer, Levels
<1>3. s \in Seq(AnyStep)
  <2>1. {"enter", "publish"} \subseteq AnyDo
    BY DEF AnyDo, WorkerDo, DispatcherDo, WatcherDo, QueryDo
  <2>2. /\ Lock(m) \in AnyStep /\ Do("enter", r) \in AnyStep /\ Do("publish", r) \in AnyStep
        /\ Unlock(m) \in AnyStep /\ RUnlock(c) \in AnyStep /\ Send \in AnyStep
    BY <1>2, <2>1, StepTypes
  <2> QED
    BY <2>2 DEF UpdateProgram
<1> HIDE DEF c, m, s
<1> DEFINE S6 == {}
           S5 == {Send} \cup S6
           S4 == {RUnlock(c)} \cup S5
           S3 == {Unlock(m)} \cup S4
           S2 == {Do("publish", r)} \cup S3
           S1 == {Do("enter", r)} \cup S2
           S0 == {Lock(m)} \cup S1
<1>4. /\ After(s, 6) = S6 /\ After(s, 5) = S5 /\ After(s, 4) = S4 /\ After(s, 3) = S3
      /\ After(s, 2) = S2 /\ After(s, 1) = S1 /\ Steps(s) = S0
  BY <1>1 DEF After, Steps
<1>5. Sound(j, c, Send, S6)
  BY <1>2 DEF Sound, LockSound, DataSound, LockDo, RegionWrites, Lock, Unlock, RLock, RUnlock, Do, Send, Reply
<1>6. Sound(j, c, RUnlock(c), S5)
  BY <1>2 DEF Sound, LockSound, DataSound, LockDo, RegionWrites, Lock, Unlock, RLock, RUnlock, Do, Send, Reply, GivesBack
<1>7. Sound(j, c, Unlock(m), S4)
  BY <1>2 DEF Sound, LockSound, DataSound, LockDo, RegionWrites, Lock, Unlock, RLock, RUnlock, Do, Send, Reply
<1>8. Sound(j, c, Do("publish", r), S3)
  <2>1. {m} \subseteq Written(S3) /\ {c} \subseteq Read(S3)
    BY <1>2 DEF Written, Read, GivesBack, Lock, Unlock, RLock, RUnlock, Do, Send, Reply
  <2> HIDE DEF S3
  <2> QED
    BY <2>1 DEF Sound, LockSound, DataSound, LockDo, RegionWrites, Do, m
<1>9. Sound(j, c, Do("enter", r), S2)
  <2>1. {m} \subseteq Written(S2) /\ {c} \subseteq Read(S2)
    BY <1>2 DEF Written, Read, GivesBack, Lock, Unlock, RLock, RUnlock, Do, Send, Reply
  <2> HIDE DEF S2
  <2> QED
    BY <2>1 DEF Sound, LockSound, DataSound, LockDo, RegionWrites, Do, m
<1>10. Sound(j, c, Lock(m), S1)
  <2>1. HeldIn(S1) \subseteq {c, m}
    BY <1>2 DEF HeldIn, Written, Read, GivesBack, Lock, Unlock, RLock, RUnlock, Do, Send, Reply
  <2>2. Climbs(m, S1)
    BY <1>2, <2>1 DEF Climbs
  <2> QED
    BY <1>2, <2>2 DEF Sound, LockSound, DataSound, LockDo, RegionWrites, GivesBack, Lock, Unlock, RLock, RUnlock, Do, Send, Reply
<1>11. Written(S0) = {} /\ Read(S0) = {c}
  BY <1>2 DEF Written, Read, GivesBack, Lock, Unlock, RLock, RUnlock, Do, Send, Reply
<1>12. Program(j, c, s)
  <2> HIDE DEF S0, S1, S2, S3, S4, S5, S6
  <2>1. 1..Len(s) = {1, 2, 3, 4, 5, 6}
    BY <1>1
  <2>2. \A i \in {1, 2, 3, 4, 5, 6} : Sound(j, c, s[i], After(s, i))
    BY <1>1, <1>4, <1>5, <1>6, <1>7, <1>8, <1>9, <1>10
  <2> QED
    BY <1>3, <2>1, <2>2 DEF Program
<1>13. \A x \in S0 : x.do \in WorkerDo
  BY DEF Lock, Unlock, RLock, RUnlock, Do, Send, Reply, WorkerDo, LockDo
<1>14. (\E x \in S0 : x.do = "send") /\ (\E x \in S0 : x.do = "publish")
  BY DEF Lock, Unlock, RLock, RUnlock, Do, Send, Reply
<1> QED
  BY <1>4, <1>11, <1>12, <1>13, <1>14 DEF c, s

LEMMA CheckSound ==
  ASSUME NEW j, j.kind = "update", NEW o \in Objects, NEW n \in 1..MaxLives
  PROVE  LET s == <<RLock(Ctl(o, n)), Do("check", Ctl(o, n))>>
         IN  /\ Program(j, Ctl(o, n), s) /\ Written(Steps(s)) = {} /\ Read(Steps(s)) = {}
             /\ \A x \in Steps(s) : x.do \in WorkerDo
             /\ \E x \in Steps(s) : x.do = "check"
<1> DEFINE c == Ctl(o, n)
           s == <<RLock(c), Do("check", c)>>
<1>1. /\ Len(s) = 2 /\ s[1] = RLock(c) /\ s[2] = Do("check", c)
  BY DEF RLock
<1>2. c \in Locks
  BY LocksDiffer, Levels
<1>3. s \in Seq(AnyStep)
  <2>1. {"check"} \subseteq AnyDo
    BY DEF AnyDo, WorkerDo, DispatcherDo, WatcherDo, QueryDo
  <2>2. /\ RLock(c) \in AnyStep /\ Do("check", c) \in AnyStep
    BY <1>2, <2>1, StepTypes
  <2> QED
    BY <2>2 DEF RLock
<1> HIDE DEF c, s
<1> DEFINE S2 == {}
           S1 == {Do("check", c)} \cup S2
           S0 == {RLock(c)} \cup S1
<1>4. /\ After(s, 2) = S2 /\ After(s, 1) = S1 /\ Steps(s) = S0
  BY <1>1 DEF After, Steps
<1>5. Sound(j, c, Do("check", c), S2)
  BY <1>2 DEF Sound, LockSound, DataSound, LockDo, RegionWrites, Lock, Unlock, RLock, RUnlock, Do, Send, Reply
<1>6. Sound(j, c, RLock(c), S1)
  <2>1. HeldIn(S1) \subseteq {c}
    BY <1>2 DEF HeldIn, Written, Read, GivesBack, Lock, Unlock, RLock, RUnlock, Do, Send, Reply
  <2>2. Climbs(c, S1)
    BY <1>2, <2>1 DEF Climbs
  <2> QED
    BY <1>2, <2>2 DEF Sound, LockSound, DataSound, LockDo, RegionWrites, GivesBack, Lock, Unlock, RLock, RUnlock, Do, Send, Reply
<1>7. Written(S0) = {} /\ Read(S0) = {}
  BY <1>2 DEF Written, Read, GivesBack, Lock, Unlock, RLock, RUnlock, Do, Send, Reply
<1>8. Program(j, c, s)
  <2> HIDE DEF S0, S1, S2
  <2>1. 1..Len(s) = {1, 2}
    BY <1>1
  <2>2. \A i \in {1, 2} : Sound(j, c, s[i], After(s, i))
    BY <1>1, <1>4, <1>5, <1>6
  <2> QED
    BY <1>3, <2>1, <2>2 DEF Program
<1>9. \A x \in S0 : x.do \in WorkerDo
  BY DEF Lock, Unlock, RLock, RUnlock, Do, Send, Reply, WorkerDo, LockDo
<1>10. (\E x \in S0 : x.do = "check")
  BY DEF Lock, Unlock, RLock, RUnlock, Do, Send, Reply
<1> QED
  BY <1>4, <1>7, <1>8, <1>9, <1>10 DEF c, s

LEMMA RejectSound ==
  ASSUME NEW j, NEW o \in Objects, NEW n \in 1..MaxLives
  PROVE  LET s == <<RUnlock(Ctl(o, n)), Send>>
         IN  /\ Program(j, Ctl(o, n), s) /\ Written(Steps(s)) = {} /\ Read(Steps(s)) = {Ctl(o, n)}
             /\ \A x \in Steps(s) : x.do \in WorkerDo
             /\ \E x \in Steps(s) : x.do = "send"
<1> DEFINE c == Ctl(o, n)
           s == <<RUnlock(c), Send>>
<1>1. /\ Len(s) = 2 /\ s[1] = RUnlock(c) /\ s[2] = Send
  BY DEF Send
<1>2. c \in Locks
  BY LocksDiffer, Levels
<1>3. s \in Seq(AnyStep)
  <2>2. /\ RUnlock(c) \in AnyStep /\ Send \in AnyStep
    BY <1>2, StepTypes
  <2> QED
    BY <2>2 DEF Send
<1> HIDE DEF c, s
<1> DEFINE S2 == {}
           S1 == {Send} \cup S2
           S0 == {RUnlock(c)} \cup S1
<1>4. /\ After(s, 2) = S2 /\ After(s, 1) = S1 /\ Steps(s) = S0
  BY <1>1 DEF After, Steps
<1>5. Sound(j, c, Send, S2)
  BY <1>2 DEF Sound, LockSound, DataSound, LockDo, RegionWrites, Lock, Unlock, RLock, RUnlock, Do, Send, Reply
<1>6. Sound(j, c, RUnlock(c), S1)
  BY <1>2 DEF Sound, LockSound, DataSound, LockDo, RegionWrites, Lock, Unlock, RLock, RUnlock, Do, Send, Reply, GivesBack
<1>7. Written(S0) = {} /\ Read(S0) = {c}
  BY <1>2 DEF Written, Read, GivesBack, Lock, Unlock, RLock, RUnlock, Do, Send, Reply
<1>8. Program(j, c, s)
  <2> HIDE DEF S0, S1, S2
  <2>1. 1..Len(s) = {1, 2}
    BY <1>1
  <2>2. \A i \in {1, 2} : Sound(j, c, s[i], After(s, i))
    BY <1>1, <1>4, <1>5, <1>6
  <2> QED
    BY <1>3, <2>1, <2>2 DEF Program
<1>9. \A x \in S0 : x.do \in WorkerDo
  BY DEF Lock, Unlock, RLock, RUnlock, Do, Send, Reply, WorkerDo, LockDo
<1>10. (\E x \in S0 : x.do = "send")
  BY DEF Lock, Unlock, RLock, RUnlock, Do, Send, Reply
<1> QED
  BY <1>4, <1>7, <1>8, <1>9, <1>10 DEF c, s

(* The region with the lower place is locked first.                        *)
LEMMA TransitionSound ==
  ASSUME NEW j, j.kind = "transition", NEW o \in Objects, NEW n \in 1..MaxLives, NEW r \in Regions, NEW q \in Regions, r # q,
         j.old = r
  PROVE  LET s == TransitionProgram(Ctl(o, n), r, q)
         IN  /\ Program(j, Ctl(o, n), s) /\ Written(Steps(s)) = {} /\ Read(Steps(s)) = {}
             /\ \A x \in Steps(s) : x.do \in WorkerDo
             /\ \E x \in Steps(s) : x.do = "send"
             /\ \E x \in Steps(s) : x.do = "publish"
<1> DEFINE c == Ctl(o, n)
           lo == Region(Lower(r, q))
           hi == Region(Higher(r, q))
           s == TransitionProgram(c, r, q)
<1>1. /\ Len(s) = 10 /\ s[1] = Lock(c) /\ s[2] = Lock(lo) /\ s[3] = Lock(hi)
      /\ s[4] = Do("leave", r) /\ s[5] = Do("enter", q) /\ s[6] = Do("publish", q)
      /\ s[7] = Unlock(hi) /\ s[8] = Unlock(lo) /\ s[9] = Unlock(c) /\ s[10] = Send
  BY DEF TransitionProgram
<1>2. /\ c \in Locks /\ lo \in Locks /\ hi \in Locks /\ c # lo /\ c # hi /\ lo # hi
      /\ Level(c) = 0 /\ Level(lo) > 0 /\ Level(hi) > Level(lo)
      /\ Level(hi) \in Nat /\ Level(lo) \in Nat
      /\ {lo, hi} = {Region(r), Region(q)}
  <2>1. /\ \A x \in {r, q} : Region(x) \in Locks /\ c # Region(x)
        /\ c \in Locks /\ Level(c) = 0
    BY LocksDiffer, Levels
  <2>2. /\ \A x \in {r, q} : Level(Region(x)) = Position(x) /\ Position(x) \in Nat /\ Position(x) > 0
        /\ Position(r) # Position(q)
    BY <2>1, Levels
  <2>3. /\ {Lower(r, q), Higher(r, q)} = {r, q}
        /\ Position(Lower(r, q)) < Position(Higher(r, q))
    BY <2>2 DEF Lower, Higher
  <2>4. {lo, hi} = {Region(r), Region(q)} /\ Level(lo) < Level(hi)
    BY <2>2, <2>3
  <2> QED
    BY <2>1, <2>2, <2>3, <2>4
<1>3. s \in Seq(AnyStep)
  <2>1. {"enter", "leave", "publish"} \subseteq AnyDo
    BY DEF AnyDo, WorkerDo, DispatcherDo, WatcherDo, QueryDo
  <2>2. /\ Lock(c) \in AnyStep /\ Lock(lo) \in AnyStep /\ Lock(hi) \in AnyStep
        /\ Do("leave", r) \in AnyStep /\ Do("enter", q) \in AnyStep
        /\ Do("publish", q) \in AnyStep /\ Unlock(hi) \in AnyStep /\ Unlock(lo) \in AnyStep
        /\ Unlock(c) \in AnyStep /\ Send \in AnyStep
    BY <1>2, <2>1, StepTypes
  <2> QED
    BY <2>2 DEF TransitionProgram
<1> HIDE DEF c, lo, hi, s
<1> DEFINE S10 == {}
           S9 == {Send} \cup S10
           S8 == {Unlock(c)} \cup S9
           S7 == {Unlock(lo)} \cup S8
           S6 == {Unlock(hi)} \cup S7
           S5 == {Do("publish", q)} \cup S6
           S4 == {Do("enter", q)} \cup S5
           S3 == {Do("leave", r)} \cup S4
           S2 == {Lock(hi)} \cup S3
           S1 == {Lock(lo)} \cup S2
           S0 == {Lock(c)} \cup S1
<1>4. /\ After(s, 10) = S10 /\ After(s, 9) = S9 /\ After(s, 8) = S8 /\ After(s, 7) = S7
      /\ After(s, 6) = S6 /\ After(s, 5) = S5 /\ After(s, 4) = S4 /\ After(s, 3) = S3
      /\ After(s, 2) = S2 /\ After(s, 1) = S1 /\ Steps(s) = S0
  BY <1>1 DEF After, Steps
<1>5. Sound(j, c, Send, S10)
  BY <1>2 DEF Sound, LockSound, DataSound, LockDo, RegionWrites, Lock, Unlock, RLock, RUnlock, Do, Send, Reply
<1>6. Sound(j, c, Unlock(c), S9)
  BY <1>2 DEF Sound, LockSound, DataSound, LockDo, RegionWrites, Lock, Unlock, RLock, RUnlock, Do, Send, Reply
<1>7. Sound(j, c, Unlock(lo), S8)
  BY <1>2 DEF Sound, LockSound, DataSound, LockDo, RegionWrites, Lock, Unlock, RLock, RUnlock, Do, Send, Reply
<1>8. Sound(j, c, Unlock(hi), S7)
  BY <1>2 DEF Sound, LockSound, DataSound, LockDo, RegionWrites, Lock, Unlock, RLock, RUnlock, Do, Send, Reply
<1>9. Sound(j, c, Do("publish", q), S6)
  <2>1. {c, lo, hi} \subseteq Written(S6)
    BY <1>2 DEF Written, Read, GivesBack, Lock, Unlock, RLock, RUnlock, Do, Send, Reply
  <2>2. {c, Region(r), Region(q)} \subseteq Written(S6)
    BY <1>2, <2>1
  <2> HIDE DEF S6
  <2> QED
    BY <2>1, <2>2 DEF Sound, LockSound, DataSound, LockDo, RegionWrites, Do
<1>10. Sound(j, c, Do("enter", q), S5)
  <2>1. {c, lo, hi} \subseteq Written(S5)
    BY <1>2 DEF Written, Read, GivesBack, Lock, Unlock, RLock, RUnlock, Do, Send, Reply
  <2>2. {c, Region(r), Region(q)} \subseteq Written(S5)
    BY <1>2, <2>1
  <2> HIDE DEF S5
  <2> QED
    BY <2>1, <2>2 DEF Sound, LockSound, DataSound, LockDo, RegionWrites, Do
<1>11. Sound(j, c, Do("leave", r), S4)
  <2>1. {c, lo, hi} \subseteq Written(S4)
    BY <1>2 DEF Written, Read, GivesBack, Lock, Unlock, RLock, RUnlock, Do, Send, Reply
  <2>2. {c, Region(r), Region(q)} \subseteq Written(S4)
    BY <1>2, <2>1
  <2> HIDE DEF S4
  <2> QED
    BY <2>1, <2>2 DEF Sound, LockSound, DataSound, LockDo, RegionWrites, Do
<1>12. Sound(j, c, Lock(hi), S3)
  <2>1. HeldIn(S3) \subseteq {c, lo, hi}
    BY <1>2 DEF HeldIn, Written, Read, GivesBack, Lock, Unlock, RLock, RUnlock, Do, Send, Reply
  <2>2. Climbs(hi, S3)
    BY <1>2, <2>1 DEF Climbs
  <2> QED
    BY <1>2, <2>2 DEF Sound, LockSound, DataSound, LockDo, RegionWrites, GivesBack, Lock, Unlock, RLock, RUnlock, Do, Send, Reply
<1>13. Sound(j, c, Lock(lo), S2)
  <2>1. HeldIn(S2) \subseteq {c, lo}
    BY <1>2 DEF HeldIn, Written, Read, GivesBack, Lock, Unlock, RLock, RUnlock, Do, Send, Reply
  <2>2. Climbs(lo, S2)
    BY <1>2, <2>1 DEF Climbs
  <2> QED
    BY <1>2, <2>2 DEF Sound, LockSound, DataSound, LockDo, RegionWrites, GivesBack, Lock, Unlock, RLock, RUnlock, Do, Send, Reply
<1>14. Sound(j, c, Lock(c), S1)
  <2>1. HeldIn(S1) \subseteq {c}
    BY <1>2 DEF HeldIn, Written, Read, GivesBack, Lock, Unlock, RLock, RUnlock, Do, Send, Reply
  <2>2. Climbs(c, S1)
    BY <1>2, <2>1 DEF Climbs
  <2> QED
    BY <1>2, <2>2 DEF Sound, LockSound, DataSound, LockDo, RegionWrites, GivesBack, Lock, Unlock, RLock, RUnlock, Do, Send, Reply
<1>15. Written(S0) = {} /\ Read(S0) = {}
  BY <1>2 DEF Written, Read, GivesBack, Lock, Unlock, RLock, RUnlock, Do, Send, Reply
<1>16. Program(j, c, s)
  <2> HIDE DEF S0, S1, S2, S3, S4, S5, S6, S7, S8, S9, S10
  <2>1. 1..Len(s) = {1, 2, 3, 4, 5, 6, 7, 8, 9, 10}
    BY <1>1
  <2>2. \A i \in {1, 2, 3, 4, 5, 6, 7, 8, 9, 10} : Sound(j, c, s[i], After(s, i))
    BY <1>1, <1>4, <1>5, <1>6, <1>7, <1>8, <1>9, <1>10, <1>11, <1>12, <1>13, <1>14
  <2> QED
    BY <1>3, <2>1, <2>2 DEF Program
<1>17. \A x \in S0 : x.do \in WorkerDo
  BY DEF Lock, Unlock, RLock, RUnlock, Do, Send, Reply, WorkerDo, LockDo
<1>18. (\E x \in S0 : x.do = "send") /\ (\E x \in S0 : x.do = "publish")
  BY DEF Lock, Unlock, RLock, RUnlock, Do, Send, Reply
<1> QED
  BY <1>4, <1>15, <1>16, <1>17, <1>18 DEF c, s

(* The programs of the dispatcher and the watcher.                         *)
LEMMA SnapshotSound ==
  ASSUME NEW j, NEW c, NEW r \in Regions
  PROVE  LET s == SnapshotProgram(r)
         IN  /\ Program(j, c, s) /\ Written(Steps(s)) = {} /\ Read(Steps(s)) = {}
             /\ \A x \in Steps(s) : x.do \in DispatcherDo
             /\ \E x \in Steps(s) : x.do = "confirm"
<1> DEFINE m == Region(r)
           s == SnapshotProgram(r)
<1>1. /\ Len(s) = 4 /\ s[1] = Lock(m) /\ s[2] = Do("snapshot", r) /\ s[3] = Unlock(m)
      /\ s[4] = Do("confirm", None)
  BY DEF SnapshotProgram
<1>2. m \in Locks /\ Level(m) > 0
  BY LocksDiffer, Levels
<1>3. s \in Seq(AnyStep)
  <2>1. {"confirm", "snapshot"} \subseteq AnyDo
    BY DEF AnyDo, WorkerDo, DispatcherDo, WatcherDo, QueryDo
  <2>2. /\ Lock(m) \in AnyStep /\ Do("snapshot", r) \in AnyStep /\ Unlock(m) \in AnyStep
        /\ Do("confirm", None) \in AnyStep
    BY <1>2, <2>1, StepTypes
  <2> QED
    BY <2>2 DEF SnapshotProgram
<1> HIDE DEF m, s
<1> DEFINE S4 == {}
           S3 == {Do("confirm", None)} \cup S4
           S2 == {Unlock(m)} \cup S3
           S1 == {Do("snapshot", r)} \cup S2
           S0 == {Lock(m)} \cup S1
<1>4. /\ After(s, 4) = S4 /\ After(s, 3) = S3 /\ After(s, 2) = S2 /\ After(s, 1) = S1
      /\ Steps(s) = S0
  BY <1>1 DEF After, Steps
<1>5. Sound(j, c, Do("confirm", None), S4)
  BY <1>2 DEF Sound, LockSound, DataSound, LockDo, RegionWrites, Lock, Unlock, RLock, RUnlock, Do, Send, Reply
<1>6. Sound(j, c, Unlock(m), S3)
  BY <1>2 DEF Sound, LockSound, DataSound, LockDo, RegionWrites, Lock, Unlock, RLock, RUnlock, Do, Send, Reply
<1>7. Sound(j, c, Do("snapshot", r), S2)
  <2>1. {m} \subseteq Written(S2)
    BY <1>2 DEF Written, Read, GivesBack, Lock, Unlock, RLock, RUnlock, Do, Send, Reply
  <2> HIDE DEF S2
  <2> QED
    BY <2>1 DEF Sound, LockSound, DataSound, LockDo, RegionWrites, Do, m
<1>8. Sound(j, c, Lock(m), S1)
  <2>1. HeldIn(S1) \subseteq {m}
    BY <1>2 DEF HeldIn, Written, Read, GivesBack, Lock, Unlock, RLock, RUnlock, Do, Send, Reply
  <2>2. Climbs(m, S1)
    BY <1>2, <2>1 DEF Climbs
  <2> QED
    BY <1>2, <2>2 DEF Sound, LockSound, DataSound, LockDo, RegionWrites, GivesBack, Lock, Unlock, RLock, RUnlock, Do, Send, Reply
<1>9. Written(S0) = {} /\ Read(S0) = {}
  BY <1>2 DEF Written, Read, GivesBack, Lock, Unlock, RLock, RUnlock, Do, Send, Reply
<1>10. Program(j, c, s)
  <2> HIDE DEF S0, S1, S2, S3, S4
  <2>1. 1..Len(s) = {1, 2, 3, 4}
    BY <1>1
  <2>2. \A i \in {1, 2, 3, 4} : Sound(j, c, s[i], After(s, i))
    BY <1>1, <1>4, <1>5, <1>6, <1>7, <1>8
  <2> QED
    BY <1>3, <2>1, <2>2 DEF Program
<1>11. \A x \in S0 : x.do \in DispatcherDo
  BY DEF Lock, Unlock, RLock, RUnlock, Do, Send, Reply, DispatcherDo, LockDo
<1>12. (\E x \in S0 : x.do = "confirm")
  BY DEF Lock, Unlock, RLock, RUnlock, Do, Send, Reply
<1> QED
  BY <1>4, <1>9, <1>10, <1>11, <1>12 DEF s

LEMMA RegisterAreaSound ==
  ASSUME NEW j, NEW c, NEW r \in Regions
  PROVE  LET s == RegisterAreaProgram(r)
         IN  /\ Program(j, c, s) /\ Written(Steps(s)) = {} /\ Read(Steps(s)) = {}
             /\ \A x \in Steps(s) : x.do \in WatcherDo
<1> DEFINE m == Region(r)
           s == RegisterAreaProgram(r)
<1>1. /\ Len(s) = 3 /\ s[1] = Lock(m) /\ s[2] = Do("addArea", r) /\ s[3] = Unlock(m)
  BY DEF RegisterAreaProgram
<1>2. m \in Locks /\ Level(m) > 0
  BY LocksDiffer, Levels
<1>3. s \in Seq(AnyStep)
  <2>1. {"addArea"} \subseteq AnyDo
    BY DEF AnyDo, WorkerDo, DispatcherDo, WatcherDo, QueryDo
  <2>2. /\ Lock(m) \in AnyStep /\ Do("addArea", r) \in AnyStep /\ Unlock(m) \in AnyStep
    BY <1>2, <2>1, StepTypes
  <2> QED
    BY <2>2 DEF RegisterAreaProgram
<1> HIDE DEF m, s
<1> DEFINE S3 == {}
           S2 == {Unlock(m)} \cup S3
           S1 == {Do("addArea", r)} \cup S2
           S0 == {Lock(m)} \cup S1
<1>4. /\ After(s, 3) = S3 /\ After(s, 2) = S2 /\ After(s, 1) = S1 /\ Steps(s) = S0
  BY <1>1 DEF After, Steps
<1>5. Sound(j, c, Unlock(m), S3)
  BY <1>2 DEF Sound, LockSound, DataSound, LockDo, RegionWrites, Lock, Unlock, RLock, RUnlock, Do, Send, Reply
<1>6. Sound(j, c, Do("addArea", r), S2)
  <2>1. {m} \subseteq Written(S2)
    BY <1>2 DEF Written, Read, GivesBack, Lock, Unlock, RLock, RUnlock, Do, Send, Reply
  <2> HIDE DEF S2
  <2> QED
    BY <2>1 DEF Sound, LockSound, DataSound, LockDo, RegionWrites, Do, m
<1>7. Sound(j, c, Lock(m), S1)
  <2>1. HeldIn(S1) \subseteq {m}
    BY <1>2 DEF HeldIn, Written, Read, GivesBack, Lock, Unlock, RLock, RUnlock, Do, Send, Reply
  <2>2. Climbs(m, S1)
    BY <1>2, <2>1 DEF Climbs
  <2> QED
    BY <1>2, <2>2 DEF Sound, LockSound, DataSound, LockDo, RegionWrites, GivesBack, Lock, Unlock, RLock, RUnlock, Do, Send, Reply
<1>8. Written(S0) = {} /\ Read(S0) = {}
  BY <1>2 DEF Written, Read, GivesBack, Lock, Unlock, RLock, RUnlock, Do, Send, Reply
<1>9. Program(j, c, s)
  <2> HIDE DEF S0, S1, S2, S3
  <2>1. 1..Len(s) = {1, 2, 3}
    BY <1>1
  <2>2. \A i \in {1, 2, 3} : Sound(j, c, s[i], After(s, i))
    BY <1>1, <1>4, <1>5, <1>6, <1>7
  <2> QED
    BY <1>3, <2>1, <2>2 DEF Program
<1>10. \A x \in S0 : x.do \in WatcherDo
  BY DEF Lock, Unlock, RLock, RUnlock, Do, Send, Reply, WatcherDo, LockDo
<1> QED
  BY <1>4, <1>8, <1>9, <1>10 DEF s

(* The programs of the queries.                                            *)
LEMMA LookupSound ==
  ASSUME NEW j, NEW o \in Objects, NEW n \in 1..MaxLives
  PROVE  LET s == <<RLock(Ctl(o, n)), Do("locate", Ctl(o, n))>>
         IN  /\ Program(j, Ctl(o, n), s) /\ Written(Steps(s)) = {} /\ Read(Steps(s)) = {}
             /\ \A x \in Steps(s) : x.do \in QueryDo
<1> DEFINE c == Ctl(o, n)
           s == <<RLock(c), Do("locate", c)>>
<1>1. /\ Len(s) = 2 /\ s[1] = RLock(c) /\ s[2] = Do("locate", c)
  BY DEF RLock
<1>2. c \in Locks
  BY LocksDiffer, Levels
<1>3. s \in Seq(AnyStep)
  <2>1. {"locate"} \subseteq AnyDo
    BY DEF AnyDo, WorkerDo, DispatcherDo, WatcherDo, QueryDo
  <2>2. /\ RLock(c) \in AnyStep /\ Do("locate", c) \in AnyStep
    BY <1>2, <2>1, StepTypes
  <2> QED
    BY <2>2 DEF RLock
<1> HIDE DEF c, s
<1> DEFINE S2 == {}
           S1 == {Do("locate", c)} \cup S2
           S0 == {RLock(c)} \cup S1
<1>4. /\ After(s, 2) = S2 /\ After(s, 1) = S1 /\ Steps(s) = S0
  BY <1>1 DEF After, Steps
<1>5. Sound(j, c, Do("locate", c), S2)
  BY <1>2 DEF Sound, LockSound, DataSound, LockDo, RegionWrites, Lock, Unlock, RLock, RUnlock, Do, Send, Reply
<1>6. Sound(j, c, RLock(c), S1)
  <2>1. HeldIn(S1) \subseteq {c}
    BY <1>2 DEF HeldIn, Written, Read, GivesBack, Lock, Unlock, RLock, RUnlock, Do, Send, Reply
  <2>2. Climbs(c, S1)
    BY <1>2, <2>1 DEF Climbs
  <2> QED
    BY <1>2, <2>2 DEF Sound, LockSound, DataSound, LockDo, RegionWrites, GivesBack, Lock, Unlock, RLock, RUnlock, Do, Send, Reply
<1>7. Written(S0) = {} /\ Read(S0) = {}
  BY <1>2 DEF Written, Read, GivesBack, Lock, Unlock, RLock, RUnlock, Do, Send, Reply
<1>8. Program(j, c, s)
  <2> HIDE DEF S0, S1, S2
  <2>1. 1..Len(s) = {1, 2}
    BY <1>1
  <2>2. \A i \in {1, 2} : Sound(j, c, s[i], After(s, i))
    BY <1>1, <1>4, <1>5, <1>6
  <2> QED
    BY <1>3, <2>1, <2>2 DEF Program
<1>9. \A x \in S0 : x.do \in QueryDo
  BY DEF Lock, Unlock, RLock, RUnlock, Do, Send, Reply, QueryDo, LockDo
<1> QED
  BY <1>4, <1>7, <1>8, <1>9 DEF c, s

LEMMA NotFoundSound ==
  ASSUME NEW j, NEW o \in Objects, NEW n \in 1..MaxLives
  PROVE  LET s == NotFoundProgram(Ctl(o, n))
         IN  /\ Program(j, Ctl(o, n), s) /\ Written(Steps(s)) = {} /\ Read(Steps(s)) = {Ctl(o, n)}
             /\ \A x \in Steps(s) : x.do \in QueryDo
<1> DEFINE c == Ctl(o, n)
           s == NotFoundProgram(c)
<1>1. /\ Len(s) = 2 /\ s[1] = RUnlock(c) /\ s[2] = Reply
  BY DEF NotFoundProgram
<1>2. c \in Locks
  BY LocksDiffer, Levels
<1>3. s \in Seq(AnyStep)
  <2>2. /\ RUnlock(c) \in AnyStep /\ Reply \in AnyStep
    BY <1>2, StepTypes
  <2> QED
    BY <2>2 DEF NotFoundProgram
<1> HIDE DEF c, s
<1> DEFINE S2 == {}
           S1 == {Reply} \cup S2
           S0 == {RUnlock(c)} \cup S1
<1>4. /\ After(s, 2) = S2 /\ After(s, 1) = S1 /\ Steps(s) = S0
  BY <1>1 DEF After, Steps
<1>5. Sound(j, c, Reply, S2)
  BY <1>2 DEF Sound, LockSound, DataSound, LockDo, RegionWrites, Lock, Unlock, RLock, RUnlock, Do, Send, Reply
<1>6. Sound(j, c, RUnlock(c), S1)
  BY <1>2 DEF Sound, LockSound, DataSound, LockDo, RegionWrites, Lock, Unlock, RLock, RUnlock, Do, Send, Reply, GivesBack
<1>7. Written(S0) = {} /\ Read(S0) = {c}
  BY <1>2 DEF Written, Read, GivesBack, Lock, Unlock, RLock, RUnlock, Do, Send, Reply
<1>8. Program(j, c, s)
  <2> HIDE DEF S0, S1, S2
  <2>1. 1..Len(s) = {1, 2}
    BY <1>1
  <2>2. \A i \in {1, 2} : Sound(j, c, s[i], After(s, i))
    BY <1>1, <1>4, <1>5, <1>6
  <2> QED
    BY <1>3, <2>1, <2>2 DEF Program
<1>9. \A x \in S0 : x.do \in QueryDo
  BY DEF Lock, Unlock, RLock, RUnlock, Do, Send, Reply, QueryDo, LockDo
<1> QED
  BY <1>4, <1>7, <1>8, <1>9 DEF c, s

LEMMA LocatedSound ==
  ASSUME NEW j, NEW o \in Objects, NEW n \in 1..MaxLives, NEW r \in Regions
  PROVE  LET s == LocatedProgram(Ctl(o, n), r)
         IN  /\ Program(j, Ctl(o, n), s) /\ Written(Steps(s)) = {} /\ Read(Steps(s)) = {Ctl(o, n)}
             /\ \A x \in Steps(s) : x.do \in QueryDo
<1> DEFINE c == Ctl(o, n)
           m == Region(r)
           s == LocatedProgram(c, r)
<1>1. /\ Len(s) = 5 /\ s[1] = RLock(m) /\ s[2] = RUnlock(c) /\ s[3] = Do("get", r)
      /\ s[4] = RUnlock(m) /\ s[5] = Reply
  BY DEF LocatedProgram
<1>2. c \in Locks /\ m \in Locks /\ c # m /\ Level(c) = 0 /\ Level(m) > 0
  BY LocksDiffer, Levels
<1>3. s \in Seq(AnyStep)
  <2>1. {"get"} \subseteq AnyDo
    BY DEF AnyDo, WorkerDo, DispatcherDo, WatcherDo, QueryDo
  <2>2. /\ RLock(m) \in AnyStep /\ RUnlock(c) \in AnyStep /\ Do("get", r) \in AnyStep
        /\ RUnlock(m) \in AnyStep /\ Reply \in AnyStep
    BY <1>2, <2>1, StepTypes
  <2> QED
    BY <2>2 DEF LocatedProgram
<1> HIDE DEF c, m, s
<1> DEFINE S5 == {}
           S4 == {Reply} \cup S5
           S3 == {RUnlock(m)} \cup S4
           S2 == {Do("get", r)} \cup S3
           S1 == {RUnlock(c)} \cup S2
           S0 == {RLock(m)} \cup S1
<1>4. /\ After(s, 5) = S5 /\ After(s, 4) = S4 /\ After(s, 3) = S3 /\ After(s, 2) = S2
      /\ After(s, 1) = S1 /\ Steps(s) = S0
  BY <1>1 DEF After, Steps
<1>5. Sound(j, c, Reply, S5)
  BY <1>2 DEF Sound, LockSound, DataSound, LockDo, RegionWrites, Lock, Unlock, RLock, RUnlock, Do, Send, Reply
<1>6. Sound(j, c, RUnlock(m), S4)
  BY <1>2 DEF Sound, LockSound, DataSound, LockDo, RegionWrites, Lock, Unlock, RLock, RUnlock, Do, Send, Reply, GivesBack
<1>7. Sound(j, c, Do("get", r), S3)
  <2>1. {m} \subseteq Read(S3)
    BY <1>2 DEF Written, Read, GivesBack, Lock, Unlock, RLock, RUnlock, Do, Send, Reply
  <2> HIDE DEF S3
  <2> QED
    BY <2>1 DEF Sound, LockSound, DataSound, LockDo, RegionWrites, Do, m
<1>8. Sound(j, c, RUnlock(c), S2)
  BY <1>2 DEF Sound, LockSound, DataSound, LockDo, RegionWrites, Lock, Unlock, RLock, RUnlock, Do, Send, Reply, GivesBack
<1>9. Sound(j, c, RLock(m), S1)
  <2>1. HeldIn(S1) \subseteq {c, m}
    BY <1>2 DEF HeldIn, Written, Read, GivesBack, Lock, Unlock, RLock, RUnlock, Do, Send, Reply
  <2>2. Climbs(m, S1)
    BY <1>2, <2>1 DEF Climbs
  <2> QED
    BY <1>2, <2>2 DEF Sound, LockSound, DataSound, LockDo, RegionWrites, GivesBack, Lock, Unlock, RLock, RUnlock, Do, Send, Reply
<1>10. Written(S0) = {} /\ Read(S0) = {c}
  BY <1>2 DEF Written, Read, GivesBack, Lock, Unlock, RLock, RUnlock, Do, Send, Reply
<1>11. Program(j, c, s)
  <2> HIDE DEF S0, S1, S2, S3, S4, S5
  <2>1. 1..Len(s) = {1, 2, 3, 4, 5}
    BY <1>1
  <2>2. \A i \in {1, 2, 3, 4, 5} : Sound(j, c, s[i], After(s, i))
    BY <1>1, <1>4, <1>5, <1>6, <1>7, <1>8, <1>9
  <2> QED
    BY <1>3, <2>1, <2>2 DEF Program
<1>12. \A x \in S0 : x.do \in QueryDo
  BY DEF Lock, Unlock, RLock, RUnlock, Do, Send, Reply, QueryDo, LockDo
<1> QED
  BY <1>4, <1>10, <1>11, <1>12 DEF c, s

LEMMA RegionSound ==
  ASSUME NEW j, NEW c, NEW r \in Regions
  PROVE  LET s == RegionProgram(r)
         IN  /\ Program(j, c, s) /\ Written(Steps(s)) = {} /\ Read(Steps(s)) = {}
             /\ \A x \in Steps(s) : x.do \in QueryDo
<1> DEFINE m == Region(r)
           s == RegionProgram(r)
<1>1. /\ Len(s) = 4 /\ s[1] = RLock(m) /\ s[2] = Do("scan", {r}) /\ s[3] = RUnlock(m)
      /\ s[4] = Reply
  BY DEF RegionProgram
<1>2. m \in Locks /\ Level(m) > 0
  BY LocksDiffer, Levels
<1>3. s \in Seq(AnyStep)
  <2>1. {"scan"} \subseteq AnyDo
    BY DEF AnyDo, WorkerDo, DispatcherDo, WatcherDo, QueryDo
  <2>2. /\ RLock(m) \in AnyStep /\ Do("scan", {r}) \in AnyStep /\ RUnlock(m) \in AnyStep
        /\ Reply \in AnyStep
    BY <1>2, <2>1, StepTypes
  <2> QED
    BY <2>2 DEF RegionProgram
<1> HIDE DEF m, s
<1> DEFINE S4 == {}
           S3 == {Reply} \cup S4
           S2 == {RUnlock(m)} \cup S3
           S1 == {Do("scan", {r})} \cup S2
           S0 == {RLock(m)} \cup S1
<1>4. /\ After(s, 4) = S4 /\ After(s, 3) = S3 /\ After(s, 2) = S2 /\ After(s, 1) = S1
      /\ Steps(s) = S0
  BY <1>1 DEF After, Steps
<1>5. Sound(j, c, Reply, S4)
  BY <1>2 DEF Sound, LockSound, DataSound, LockDo, RegionWrites, Lock, Unlock, RLock, RUnlock, Do, Send, Reply
<1>6. Sound(j, c, RUnlock(m), S3)
  BY <1>2 DEF Sound, LockSound, DataSound, LockDo, RegionWrites, Lock, Unlock, RLock, RUnlock, Do, Send, Reply, GivesBack
<1>7. Sound(j, c, Do("scan", {r}), S2)
  <2>1. {m} \subseteq Read(S2)
    BY <1>2 DEF Written, Read, GivesBack, Lock, Unlock, RLock, RUnlock, Do, Send, Reply
  <2> HIDE DEF S2
  <2> QED
    BY <2>1 DEF Sound, LockSound, DataSound, LockDo, RegionWrites, Do, m
<1>8. Sound(j, c, RLock(m), S1)
  <2>1. HeldIn(S1) \subseteq {m}
    BY <1>2 DEF HeldIn, Written, Read, GivesBack, Lock, Unlock, RLock, RUnlock, Do, Send, Reply
  <2>2. Climbs(m, S1)
    BY <1>2, <2>1 DEF Climbs
  <2> QED
    BY <1>2, <2>2 DEF Sound, LockSound, DataSound, LockDo, RegionWrites, GivesBack, Lock, Unlock, RLock, RUnlock, Do, Send, Reply
<1>9. Written(S0) = {} /\ Read(S0) = {}
  BY <1>2 DEF Written, Read, GivesBack, Lock, Unlock, RLock, RUnlock, Do, Send, Reply
<1>10. Program(j, c, s)
  <2> HIDE DEF S0, S1, S2, S3, S4
  <2>1. 1..Len(s) = {1, 2, 3, 4}
    BY <1>1
  <2>2. \A i \in {1, 2, 3, 4} : Sound(j, c, s[i], After(s, i))
    BY <1>1, <1>4, <1>5, <1>6, <1>7, <1>8
  <2> QED
    BY <1>3, <2>1, <2>2 DEF Program
<1>11. \A x \in S0 : x.do \in QueryDo
  BY DEF Lock, Unlock, RLock, RUnlock, Do, Send, Reply, QueryDo, LockDo
<1> QED
  BY <1>4, <1>9, <1>10, <1>11 DEF s

LEMMA FoundSound ==
  ASSUME NEW j, NEW c, NEW r \in Regions
  PROVE  LET s == <<RUnlock(Region(r)), Reply>>
         IN  /\ Program(j, c, s) /\ Written(Steps(s)) = {} /\ Read(Steps(s)) = {Region(r)}
             /\ \A x \in Steps(s) : x.do \in QueryDo
<1> DEFINE m == Region(r)
           s == <<RUnlock(Region(r)), Reply>>
<1>1. /\ Len(s) = 2 /\ s[1] = RUnlock(m) /\ s[2] = Reply
  BY DEF Reply
<1>2. m \in Locks /\ Level(m) > 0
  BY LocksDiffer, Levels
<1>3. s \in Seq(AnyStep)
  <2>2. /\ RUnlock(m) \in AnyStep /\ Reply \in AnyStep
    BY <1>2, StepTypes
  <2> QED
    BY <2>2 DEF Reply
<1> HIDE DEF m, s
<1> DEFINE S2 == {}
           S1 == {Reply} \cup S2
           S0 == {RUnlock(m)} \cup S1
<1>4. /\ After(s, 2) = S2 /\ After(s, 1) = S1 /\ Steps(s) = S0
  BY <1>1 DEF After, Steps
<1>5. Sound(j, c, Reply, S2)
  BY <1>2 DEF Sound, LockSound, DataSound, LockDo, RegionWrites, Lock, Unlock, RLock, RUnlock, Do, Send, Reply
<1>6. Sound(j, c, RUnlock(m), S1)
  BY <1>2 DEF Sound, LockSound, DataSound, LockDo, RegionWrites, Lock, Unlock, RLock, RUnlock, Do, Send, Reply, GivesBack
<1>7. Written(S0) = {} /\ Read(S0) = {m}
  BY <1>2 DEF Written, Read, GivesBack, Lock, Unlock, RLock, RUnlock, Do, Send, Reply
<1>8. Program(j, c, s)
  <2> HIDE DEF S0, S1, S2
  <2>1. 1..Len(s) = {1, 2}
    BY <1>1
  <2>2. \A i \in {1, 2} : Sound(j, c, s[i], After(s, i))
    BY <1>1, <1>4, <1>5, <1>6
  <2> QED
    BY <1>3, <2>1, <2>2 DEF Program
<1>9. \A x \in S0 : x.do \in QueryDo
  BY DEF Lock, Unlock, RLock, RUnlock, Do, Send, Reply, QueryDo, LockDo
<1> QED
  BY <1>4, <1>7, <1>8, <1>9 DEF m, s

(* The programs as long as there are regions.                              *)
LEMMA RegionsCount == Cardinality(Regions) \in Nat /\ Cardinality(Regions) >= 1
<1>1. Cardinality(Regions) \in Nat /\ Cardinality(Regions) # 0
  BY LocksAssumption, FS_CardinalityType, FS_EmptySet
<1> QED
  BY <1>1

LEMMA Joined ==
  ASSUME NEW S, NEW p \in Seq(S), NEW q \in Seq(S), NEW r, r = p \o q
  PROVE  /\ r \in Seq(S) /\ Len(r) = Len(p) + Len(q)
         /\ \A i \in 1..Len(p) : r[i] = p[i]
         /\ \A i \in 1..Len(q) : r[Len(p) + i] = q[i]
OBVIOUS

LEMMA AsSequence ==
  ASSUME NEW S, NEW n \in Nat, NEW f, \A i \in 1..n : f[i] \in S
  PROVE  [i \in 1..n |-> f[i]] \in Seq(S) /\ Len([i \in 1..n |-> f[i]]) = n
OBVIOUS

LEMMA ReplySound ==
  ASSUME NEW j, NEW c
  PROVE  LET s == <<Reply>>
         IN  /\ Program(j, c, s) /\ Written(Steps(s)) = {} /\ Read(Steps(s)) = {}
             /\ \A x \in Steps(s) : x.do \in QueryDo
<1> DEFINE s == <<Reply>>
<1>1. s \in Seq(AnyStep) /\ Len(s) = 1 /\ s[1] = Reply
  BY StepTypes
<1> HIDE DEF s
<1>2. After(s, 1) = {} /\ Steps(s) = {Reply}
  BY <1>1 DEF After, Steps
<1>3. Sound(j, c, Reply, {})
  BY DEF Sound, LockSound, DataSound, LockDo, RegionWrites, Reply, Do
<1>4. Program(j, c, s)
  <2>1. 1..Len(s) = {1}
    BY <1>1
  <2> QED
    BY <1>1, <1>2, <1>3, <2>1 DEF Program
<1>5. /\ Written({Reply}) = {} /\ Read({Reply}) = {}
      /\ \A x \in {Reply} : x.do \in QueryDo
  BY DEF Written, Read, GivesBack, Lock, Unlock, RLock, RUnlock, Do, Reply, QueryDo
<1> QED
  BY <1>2, <1>4, <1>5 DEF s

(* All regions: they are read-locked in order, so each lock climbs.        *)
LEMMA AllSound ==
  ASSUME NEW j, NEW c
  PROVE  LET s == AllProgram
         IN  /\ Program(j, c, s) /\ Written(Steps(s)) = {} /\ Read(Steps(s)) = {}
             /\ \A x \in Steps(s) : x.do \in QueryDo
<1> DEFINE N == Cardinality(Regions)
           m(k) == Region(Order[k])
           s == AllProgram
<1>1. /\ N \in Nat /\ DOMAIN Order = 1..N
      /\ \A k \in 1..N : Order[k] \in Regions /\ m(k) \in Locks /\ Level(m(k)) = k
      /\ \A k, i \in 1..N : m(k) = m(i) => k = i
      /\ \A r \in Regions : \E k \in 1..N : Order[k] = r
  <2>1. N \in Nat /\ DOMAIN Order = 1..N
    BY Levels, LocksAssumption
  <2>2. \A k \in 1..N : Order[k] \in Regions
    BY LocksAssumption
  <2>3. \A k \in 1..N : Position(Order[k]) = k
    BY <2>1, LocksAssumption DEF Position
  <2>4. \A k \in 1..N : m(k) \in Locks /\ Level(m(k)) = k
    BY <2>2, <2>3, LocksDiffer, Levels
  <2>5. \A r \in Regions : \E k \in 1..N : Order[k] = r
    BY <2>1, LocksAssumption
  <2> QED
    BY <2>1, <2>2, <2>4, <2>5
<1>2. /\ s \in Seq(AnyStep) /\ Len(s) = 2 * N + 2
      /\ \A k \in 1..N : s[k] = RLock(m(k)) /\ s[N + 1 + k] = RUnlock(m(k))
      /\ s[N + 1] = Do("scan", Regions) /\ s[2 * N + 2] = Reply
  <2> DEFINE A == [i \in DOMAIN Order |-> RLock(Region(Order[i]))]
             B == [i \in DOMAIN Order |-> RUnlock(Region(Order[i]))]
             C == <<Do("scan", Regions)>>
             D == <<Reply>>
  <2>1. \A k \in 1..N : RLock(m(k)) \in AnyStep /\ RUnlock(m(k)) \in AnyStep
    BY <1>1, StepTypes
  <2>2. A \in Seq(AnyStep) /\ Len(A) = N /\ \A k \in 1..N : A[k] = RLock(m(k))
    BY <1>1, <2>1
  <2>3. B \in Seq(AnyStep) /\ Len(B) = N /\ \A k \in 1..N : B[k] = RUnlock(m(k))
    BY <1>1, <2>1
  <2>4. /\ C \in Seq(AnyStep) /\ Len(C) = 1 /\ C[1] = Do("scan", Regions)
        /\ D \in Seq(AnyStep) /\ Len(D) = 1 /\ D[1] = Reply
    <3>1. "scan" \in AnyDo
      BY DEF AnyDo, QueryDo
    <3>2. Do("scan", Regions) \in AnyStep /\ Reply \in AnyStep
      BY <3>1, StepTypes
    <3> QED
      BY <3>2
  <2>5. s = A \o C \o B \o D
    BY DEF AllProgram
  <2> HIDE DEF A, B, C, D, s, m, N
  <2>6. PICK p : p = A \o C
    OBVIOUS
  <2>7. PICK q : q = p \o B
    OBVIOUS
  <2>8. s = q \o D
    BY <2>5, <2>6, <2>7
  <2>9. /\ p \in Seq(AnyStep) /\ Len(p) = N + 1
        /\ \A k \in 1..N : p[k] = RLock(m(k))
        /\ p[N + 1] = Do("scan", Regions)
    <3>1. /\ p \in Seq(AnyStep) /\ Len(p) = Len(A) + Len(C)
          /\ \A i \in 1..Len(A) : p[i] = A[i]
          /\ \A i \in 1..Len(C) : p[Len(A) + i] = C[i]
      <4>1. A \in Seq(AnyStep) /\ C \in Seq(AnyStep)
        BY <2>2, <2>4
      <4> QED
        BY <2>6, <4>1, Joined
    <3> QED
      BY <1>1, <2>2, <2>4, <3>1
  <2>10. /\ q \in Seq(AnyStep) /\ Len(q) = 2 * N + 1
         /\ \A k \in 1..N : q[k] = RLock(m(k)) /\ q[N + 1 + k] = RUnlock(m(k))
         /\ q[N + 1] = Do("scan", Regions)
    <3>1. /\ q \in Seq(AnyStep) /\ Len(q) = Len(p) + Len(B)
          /\ \A i \in 1..Len(p) : q[i] = p[i]
          /\ \A i \in 1..Len(B) : q[Len(p) + i] = B[i]
      <4>1. p \in Seq(AnyStep) /\ B \in Seq(AnyStep)
        BY <2>3, <2>9
      <4> QED
        BY <2>7, <4>1, Joined
    <3> QED
      BY <1>1, <2>3, <2>9, <3>1
  <2>11. /\ s \in Seq(AnyStep) /\ Len(s) = Len(q) + Len(D)
         /\ \A i \in 1..Len(q) : s[i] = q[i]
         /\ \A i \in 1..Len(D) : s[Len(q) + i] = D[i]
    <3>1. q \in Seq(AnyStep) /\ D \in Seq(AnyStep)
      BY <2>4, <2>10
    <3> QED
      BY <2>8, <3>1, Joined
  <2> QED
    BY <1>1, <2>4, <2>10, <2>11
<1> HIDE DEF s, m, N
<1>3. \A i \in 1..Len(s) : \/ \E k \in 1..N : i = k
                           \/ i = N + 1
                           \/ \E k \in 1..N : i = N + 1 + k
                           \/ i = 2 * N + 2
  <2>1. TAKE i \in 1..Len(s)
  <2>2. i \in N + 2..2 * N + 1 => i - N - 1 \in 1..N /\ i = N + 1 + (i - N - 1)
    BY <1>1
  <2> QED
    BY <1>1, <1>2, <2>2
<1>4. \A i \in 1..Len(s) : \/ \E k \in 1..N : i = k /\ s[i] = RLock(m(k))
                           \/ i = N + 1 /\ s[i] = Do("scan", Regions)
                           \/ \E k \in 1..N : i = N + 1 + k /\ s[i] = RUnlock(m(k))
                           \/ i = 2 * N + 2 /\ s[i] = Reply
  BY <1>2, <1>3
<1>5. ASSUME NEW i \in 0..Len(s)
      PROVE  /\ \A l : /\ Lock(l) \notin After(s, i) /\ Unlock(l) \notin After(s, i)
                       /\ Do("check", l) \notin After(s, i) /\ Do("locate", l) \notin After(s, i)
             /\ \A l : RLock(l) \in After(s, i) <=> \E k \in 1..N : l = m(k) /\ k > i
             /\ \A l : RUnlock(l) \in After(s, i) <=> \E k \in 1..N : l = m(k) /\ N + 1 + k > i
             /\ \A x \in After(s, i) : x.do \in QueryDo
  <2>1. \A x : x \in After(s, i) <=> \E n \in 1..Len(s) : n > i /\ x = s[n]
    BY <1>2 DEF After
  <2>2. \A x \in After(s, i) : \/ \E k \in 1..N : k > i /\ x = RLock(m(k))
                               \/ x = Do("scan", Regions)
                               \/ \E k \in 1..N : N + 1 + k > i /\ x = RUnlock(m(k))
                               \/ x = Reply
    BY <1>4, <2>1
  <2>3. \A k \in 1..N : k > i => RLock(m(k)) \in After(s, i)
    BY <1>1, <1>2, <2>1
  <2>4. \A k \in 1..N : N + 1 + k > i => RUnlock(m(k)) \in After(s, i)
    <3>1. \A k \in 1..N : N + 1 + k \in 1..Len(s)
      BY <1>1, <1>2
    <3> QED
      BY <1>2, <2>1, <3>1
  <2>5. \A l, x : /\ x = Lock(l) \/ x = Unlock(l) \/ x = Do("check", l) \/ x = Do("locate", l) => x \notin After(s, i)
                  /\ x = RLock(l) /\ x \in After(s, i) => \E k \in 1..N : l = m(k) /\ k > i
                  /\ x = RUnlock(l) /\ x \in After(s, i) => \E k \in 1..N : l = m(k) /\ N + 1 + k > i
    BY <2>2, DoFields DEF Lock, Unlock, RLock, RUnlock, Reply
  <2>6. \A x \in After(s, i) : x.do \in QueryDo
    BY <2>2, DoFields DEF RLock, RUnlock, Reply, QueryDo, LockDo
  <2> QED
    BY <2>3, <2>4, <2>5, <2>6
<1>6. ASSUME NEW i \in 0..Len(s)
      PROVE  /\ Written(After(s, i)) = {}
             /\ \A l : GivesBack(l, After(s, i)) <=> RUnlock(l) \in After(s, i)
             /\ \A l \in Locks : l \in Read(After(s, i)) <=>
                  \E k \in 1..N : l = m(k) /\ N + 1 + k > i /\ ~(k > i)
  <2>1. \A l : GivesBack(l, After(s, i)) <=> RUnlock(l) \in After(s, i)
    BY <1>5 DEF GivesBack
  <2>2. Written(After(s, i)) = {}
    BY <1>5 DEF Written
  <2>3. \A l \in Locks : l \in Read(After(s, i)) <=> GivesBack(l, After(s, i)) /\ RLock(l) \notin After(s, i)
    BY DEF Read
  <2> QED
    BY <1>1, <1>5, <2>1, <2>2, <2>3
<1>7. ASSUME NEW i \in 1..Len(s) PROVE Sound(j, c, s[i], After(s, i))
  <2>1. CASE \E k \in 1..N : i = k /\ s[i] = RLock(m(k))
    <3>1. PICK k \in 1..N : i = k /\ s[i] = RLock(m(k))
      BY <2>1
    <3>2. GivesBack(m(k), After(s, i)) /\ RLock(m(k)) \notin After(s, i) /\ Unlock(m(k)) \notin After(s, i)
      BY <1>1, <1>5, <1>6, <3>1
    <3>3. Climbs(m(k), After(s, i))
      BY <1>1, <1>6, <3>1 DEF Climbs, HeldIn, Read
    <3> QED
      BY <1>1, <3>1, <3>2, <3>3, DoFields DEF Sound, LockSound, DataSound, LockDo, RegionWrites, RLock
  <2>2. CASE i = N + 1 /\ s[i] = Do("scan", Regions)
    <3>1. \A r \in Regions : Region(r) \in Read(After(s, i))
      <4>1. TAKE r \in Regions
      <4>2. PICK k \in 1..N : Order[k] = r
        BY <1>1
      <4>3. Region(r) = m(k) /\ m(k) \in Locks
        BY <1>1, <4>2 DEF m
      <4> QED
        BY <1>1, <1>6, <2>2, <4>3
    <3> QED
      BY <2>2, <3>1, DoFields DEF Sound, LockSound, DataSound, LockDo, RegionWrites
  <2>3. CASE \E k \in 1..N : i = N + 1 + k /\ s[i] = RUnlock(m(k))
    <3>1. PICK k \in 1..N : i = N + 1 + k /\ s[i] = RUnlock(m(k))
      BY <2>3
    <3>2. RLock(m(k)) \notin After(s, i) /\ ~GivesBack(m(k), After(s, i))
      BY <1>1, <1>5, <1>6, <3>1
    <3> QED
      BY <1>1, <3>1, <3>2, DoFields DEF Sound, LockSound, DataSound, LockDo, RegionWrites, RUnlock
  <2>4. CASE i = 2 * N + 2 /\ s[i] = Reply
    <3>1. After(s, i) = {}
      BY <1>1, <1>2, <2>4 DEF After
    <3> QED
      BY <2>4, <3>1, DoFields DEF Sound, LockSound, DataSound, LockDo, RegionWrites, Reply
  <2> QED
    BY <1>4, <2>1, <2>2, <2>3, <2>4
<1>8. Program(j, c, s)
  BY <1>2, <1>7 DEF Program
<1>9. Written(Steps(s)) = {} /\ Read(Steps(s)) = {} /\ \A x \in Steps(s) : x.do \in QueryDo
  <2>1. 0 \in 0..Len(s) /\ \A k \in 1..N : k > 0
    BY <1>1, <1>2
  <2> QED
    BY <1>5, <1>6, <2>1 DEF Steps, Read
<1> QED
  BY <1>8, <1>9 DEF s

LEMMA Thirds ==
  \A i \in Nat \ {0} : \E k \in Nat, b \in 1..3 :
    i = 3 * k + b /\ (i + 3 - 1) \div 3 = k + 1 /\ 1 + ((i - 1) % 3) = b
OBVIOUS

LEMMA ThirdsOnce ==
  \A k, n \in Int, b, d \in 1..3 : 3 * (k - 1) + b = 3 * (n - 1) + d => k = n /\ b = d
OBVIOUS

(* Every step of programs in turn is a step of one of them.                *)
LEMMA InThrees ==
  ASSUME NEW S, NEW ps \in Seq(Seq(S)), Len(ps) >= 1, \A i \in 1..Len(ps) : Len(ps[i]) = 3
  PROVE  LET q == InTurn(ps)
         IN  /\ q \in Seq(S) /\ Len(q) = 3 * Len(ps)
             /\ \A k \in 1..Len(ps), b \in 1..3 : q[3 * (k - 1) + b] = ps[k][b]
             /\ \A i \in 1..(3 * Len(ps)) : \E k \in 1..Len(ps), b \in 1..3 : i = 3 * (k - 1) + b
<1> DEFINE M == Len(ps)
           q == InTurn(ps)
<1>1. M \in Nat /\ M >= 1 /\ Len(ps[1]) = 3
  OBVIOUS
<1>2. q = [i \in 1..(3 * M) |-> ps[(i + 3 - 1) \div 3][1 + ((i - 1) % 3)]]
  BY <1>1 DEF InTurn
<1> HIDE DEF M, q
<1>3. ASSUME NEW i \in 1..(3 * M)
      PROVE  \E k \in 1..M, b \in 1..3 : i = 3 * (k - 1) + b /\ q[i] = ps[k][b]
  <2>1. PICK k \in Nat, b \in 1..3 :
          i = 3 * k + b /\ (i + 3 - 1) \div 3 = k + 1 /\ 1 + ((i - 1) % 3) = b
    <3>1. i \in Nat \ {0}
      BY <1>1
    <3> QED
      BY <3>1, Thirds
  <2>2. q[i] = ps[k + 1][b]
    BY <1>2, <2>1
  <2>3. k + 1 \in 1..M /\ i = 3 * ((k + 1) - 1) + b
    BY <1>1, <2>1
  <2> QED
    BY <2>2, <2>3
<1>4. \A k \in 1..M, b \in 1..3 : 3 * (k - 1) + b \in 1..(3 * M) /\ q[3 * (k - 1) + b] = ps[k][b]
  <2>1. TAKE k \in 1..M, b \in 1..3
  <2>2. PICK i : i = 3 * (k - 1) + b
    OBVIOUS
  <2>3. i \in 1..(3 * M)
    BY <1>1, <2>2
  <2>4. PICK n \in 1..M, d \in 1..3 : i = 3 * (n - 1) + d /\ q[i] = ps[n][d]
    BY <1>3, <2>3
  <2>5. n = k /\ d = b
    <3>1. n \in Int /\ k \in Int
      BY <1>1
    <3> QED
      BY <2>2, <2>4, <3>1, ThirdsOnce
  <2> QED
    BY <2>2, <2>3, <2>4, <2>5
<1>5. \A i \in 1..(3 * M) : q[i] \in S
  <2>1. TAKE i \in 1..(3 * M)
  <2>2. PICK k \in 1..M, b \in 1..3 : i = 3 * (k - 1) + b /\ q[i] = ps[k][b]
    BY <1>3
  <2>3. ps[k] \in Seq(S) /\ Len(ps[k]) = 3
    BY <1>1 DEF M
  <2>4. ps[k][b] \in S
    BY <2>3
  <2> QED
    BY <2>2, <2>4
<1>6. q \in Seq(S) /\ Len(q) = 3 * M
  <2>1. PICK n \in Nat : n = 3 * M
    BY <1>1
  <2>2. q = [i \in 1..n |-> q[i]] /\ \A i \in 1..n : q[i] \in S
    BY <1>2, <1>5, <2>1
  <2>3. [i \in 1..n |-> q[i]] \in Seq(S) /\ Len([i \in 1..n |-> q[i]]) = n
    BY <2>2, AsSequence
  <2> QED
    BY <2>1, <2>2, <2>3
<1> QED
  BY <1>3, <1>4, <1>6 DEF M, q

LEMMA Fourths ==
  \A i \in Nat \ {0} : \E k \in Nat, b \in 1..4 :
    i = 4 * k + b /\ (i + 4 - 1) \div 4 = k + 1 /\ 1 + ((i - 1) % 4) = b
OBVIOUS

LEMMA FourthsOnce ==
  \A k, n \in Int, b, d \in 1..4 : 4 * (k - 1) + b = 4 * (n - 1) + d => k = n /\ b = d
OBVIOUS

LEMMA InFours ==
  ASSUME NEW S, NEW ps \in Seq(Seq(S)), Len(ps) >= 1, \A i \in 1..Len(ps) : Len(ps[i]) = 4
  PROVE  LET q == InTurn(ps)
         IN  /\ q \in Seq(S) /\ Len(q) = 4 * Len(ps)
             /\ \A k \in 1..Len(ps), b \in 1..4 : q[4 * (k - 1) + b] = ps[k][b]
             /\ \A i \in 1..(4 * Len(ps)) : \E k \in 1..Len(ps), b \in 1..4 : i = 4 * (k - 1) + b
<1> DEFINE M == Len(ps)
           q == InTurn(ps)
<1>1. M \in Nat /\ M >= 1 /\ Len(ps[1]) = 4
  OBVIOUS
<1>2. q = [i \in 1..(4 * M) |-> ps[(i + 4 - 1) \div 4][1 + ((i - 1) % 4)]]
  BY <1>1 DEF InTurn
<1> HIDE DEF M, q
<1>3. ASSUME NEW i \in 1..(4 * M)
      PROVE  \E k \in 1..M, b \in 1..4 : i = 4 * (k - 1) + b /\ q[i] = ps[k][b]
  <2>1. PICK k \in Nat, b \in 1..4 :
          i = 4 * k + b /\ (i + 4 - 1) \div 4 = k + 1 /\ 1 + ((i - 1) % 4) = b
    <3>1. i \in Nat \ {0}
      BY <1>1
    <3> QED
      BY <3>1, Fourths
  <2>2. q[i] = ps[k + 1][b]
    BY <1>2, <2>1
  <2>3. k + 1 \in 1..M /\ i = 4 * ((k + 1) - 1) + b
    BY <1>1, <2>1
  <2> QED
    BY <2>2, <2>3
<1>4. \A k \in 1..M, b \in 1..4 : 4 * (k - 1) + b \in 1..(4 * M) /\ q[4 * (k - 1) + b] = ps[k][b]
  <2>1. TAKE k \in 1..M, b \in 1..4
  <2>2. PICK i : i = 4 * (k - 1) + b
    OBVIOUS
  <2>3. i \in 1..(4 * M)
    BY <1>1, <2>2
  <2>4. PICK n \in 1..M, d \in 1..4 : i = 4 * (n - 1) + d /\ q[i] = ps[n][d]
    BY <1>3, <2>3
  <2>5. n = k /\ d = b
    <3>1. n \in Int /\ k \in Int
      BY <1>1
    <3> QED
      BY <2>2, <2>4, <3>1, FourthsOnce
  <2> QED
    BY <2>2, <2>3, <2>4, <2>5
<1>5. \A i \in 1..(4 * M) : q[i] \in S
  <2>1. TAKE i \in 1..(4 * M)
  <2>2. PICK k \in 1..M, b \in 1..4 : i = 4 * (k - 1) + b /\ q[i] = ps[k][b]
    BY <1>3
  <2>3. ps[k] \in Seq(S) /\ Len(ps[k]) = 4
    BY <1>1 DEF M
  <2>4. ps[k][b] \in S
    BY <2>3
  <2> QED
    BY <2>2, <2>4
<1>6. q \in Seq(S) /\ Len(q) = 4 * M
  <2>1. PICK n \in Nat : n = 4 * M
    BY <1>1
  <2>2. q = [i \in 1..n |-> q[i]] /\ \A i \in 1..n : q[i] \in S
    BY <1>2, <1>5, <2>1
  <2>3. [i \in 1..n |-> q[i]] \in Seq(S) /\ Len([i \in 1..n |-> q[i]]) = n
    BY <2>2, AsSequence
  <2> QED
    BY <2>1, <2>2, <2>3
<1> QED
  BY <1>3, <1>4, <1>6 DEF M, q
(* One region after the other, each let go before the next is locked.      *)
LEMMA AreaSound ==
  ASSUME NEW j, NEW c, NEW z \in SetToSeqs(Regions)
  PROVE  LET s == AreaProgram(z)
         IN  /\ Program(j, c, s) /\ Written(Steps(s)) = {} /\ Read(Steps(s)) = {}
             /\ \A x \in Steps(s) : x.do \in QueryDo
<1> DEFINE N == Cardinality(Regions)
           m(k) == Region(z[k])
           s == AreaProgram(z)
<1>1. /\ N \in Nat /\ N >= 1 /\ DOMAIN z = 1..N
      /\ \A k \in 1..N : z[k] \in Regions /\ m(k) \in Locks
      /\ \A k, i \in 1..N : m(k) = m(i) => k = i
  <2>1. /\ z \in [1..N -> Regions]
        /\ \A i, k \in 1..N : i # k => z[i] # z[k]
    BY DEF SetToSeqs
  <2>2. \A k \in 1..N : z[k] \in Regions /\ m(k) \in Locks
    BY <2>1, LocksDiffer
  <2>3. \A k, i \in 1..N : m(k) = m(i) => k = i
    BY <2>1, LocksDiffer
  <2> QED
    BY <2>1, <2>2, <2>3, RegionsCount
<1>2. /\ s \in Seq(AnyStep) /\ Len(s) = 3 * N + 1 /\ s[3 * N + 1] = Reply
      /\ \A k \in 1..N : /\ s[3 * (k - 1) + 1] = RLock(m(k))
                        /\ s[3 * (k - 1) + 2] = Do("look", z[k])
                        /\ s[3 * (k - 1) + 3] = RUnlock(m(k))
      /\ \A i \in 1..(3 * N) : \E k \in 1..N, b \in 1..3 : i = 3 * (k - 1) + b
  <2> DEFINE ps == [i \in DOMAIN z |-> LookProgram(z[i])]
             q == InTurn(ps)
             D == <<Reply>>
  <2>1. /\ D \in Seq(AnyStep) /\ Len(D) = 1 /\ D[1] = Reply
        /\ \A k \in 1..N : RLock(m(k)) \in AnyStep /\ RUnlock(m(k)) \in AnyStep
        /\ \A k \in 1..N : Do("look", z[k]) \in AnyStep
    <3>1. "look" \in AnyDo
      BY DEF AnyDo, QueryDo
    <3>2. Reply \in AnyStep
      BY StepTypes
    <3>3. \A k \in 1..N : /\ RLock(m(k)) \in AnyStep /\ RUnlock(m(k)) \in AnyStep
                          /\ Do("look", z[k]) \in AnyStep
      BY <1>1, <3>1, StepTypes
    <3> QED
      BY <3>2, <3>3
  <2>2. \A k \in 1..N : /\ LookProgram(z[k]) \in Seq(AnyStep) /\ Len(LookProgram(z[k])) = 3
                        /\ LookProgram(z[k])[1] = RLock(m(k)) /\ LookProgram(z[k])[2] = Do("look", z[k])
                        /\ LookProgram(z[k])[3] = RUnlock(m(k))
    BY <2>1 DEF LookProgram
  <2>3. /\ ps \in Seq(Seq(AnyStep)) /\ Len(ps) = N
        /\ \A k \in 1..N : /\ Len(ps[k]) = 3 /\ ps[k][1] = RLock(m(k)) /\ ps[k][2] = Do("look", z[k])
                          /\ ps[k][3] = RUnlock(m(k))
    <3>1. ps = [i \in 1..N |-> ps[i]] /\ \A k \in 1..N : ps[k] = LookProgram(z[k])
      BY <1>1
    <3> HIDE DEF ps
    <3>2. \A k \in 1..N : ps[k] \in Seq(AnyStep)
      BY <2>2, <3>1
    <3>3. ps \in Seq(Seq(AnyStep)) /\ Len(ps) = N
      <4>1. [i \in 1..N |-> ps[i]] \in Seq(Seq(AnyStep)) /\ Len([i \in 1..N |-> ps[i]]) = N
        BY <1>1, <3>2, AsSequence
      <4> QED
        BY <3>1, <4>1
    <3> QED
      BY <2>2, <3>1, <3>3
  <2>4. s = q \o D
    BY DEF AreaProgram
  <2> HIDE DEF ps, q, D, s, m, N
  <2>5. /\ InTurn(ps) \in Seq(AnyStep) /\ Len(InTurn(ps)) = 3 * Len(ps)
        /\ \A k \in 1..Len(ps), b \in 1..3 : InTurn(ps)[3 * (k - 1) + b] = ps[k][b]
        /\ \A i \in 1..(3 * Len(ps)) : \E k \in 1..Len(ps), b \in 1..3 : i = 3 * (k - 1) + b
    <3>1. Len(ps) >= 1 /\ \A i \in 1..Len(ps) : Len(ps[i]) = 3
      BY <1>1, <2>3
    <3>2. ps \in Seq(Seq(AnyStep))
      BY <2>3
    <3> QED
      BY <3>1, <3>2, InThrees
  <2>6. /\ q \in Seq(AnyStep) /\ Len(q) = 3 * N
        /\ \A k \in 1..N : /\ q[3 * (k - 1) + 1] = RLock(m(k))
                          /\ q[3 * (k - 1) + 2] = Do("look", z[k])
                          /\ q[3 * (k - 1) + 3] = RUnlock(m(k))
        /\ \A i \in 1..(3 * N) : \E k \in 1..N, b \in 1..3 : i = 3 * (k - 1) + b
    BY <2>3, <2>5 DEF q
  <2>7. /\ s \in Seq(AnyStep) /\ Len(s) = Len(q) + Len(D)
        /\ \A i \in 1..Len(q) : s[i] = q[i]
        /\ \A i \in 1..Len(D) : s[Len(q) + i] = D[i]
    <3>1. q \in Seq(AnyStep) /\ D \in Seq(AnyStep)
      BY <2>1, <2>6
    <3> QED
      BY <2>4, <3>1, Joined
  <2>8. \A k \in 1..N, b \in 1..3 : 3 * (k - 1) + b \in 1..Len(q)
    BY <1>1, <2>6
  <2> QED
    BY <1>1, <2>1, <2>6, <2>7, <2>8
<1> HIDE DEF s, m, N
<1>3. \A i \in 1..Len(s) :
        \/ \E k \in 1..N : i = 3 * (k - 1) + 1 /\ s[i] = RLock(m(k))
        \/ \E k \in 1..N : i = 3 * (k - 1) + 2 /\ s[i] = Do("look", z[k])
        \/ \E k \in 1..N : i = 3 * (k - 1) + 3 /\ s[i] = RUnlock(m(k))
        \/ i = 3 * N + 1 /\ s[i] = Reply
  <2>1. TAKE i \in 1..Len(s)
  <2>2. CASE i \in 1..(3 * N)
    <3>1. PICK k \in 1..N, b \in 1..3 : i = 3 * (k - 1) + b
      BY <1>2, <2>2
    <3>2. b = 1 \/ b = 2 \/ b = 3
      OBVIOUS
    <3> QED
      BY <1>2, <3>1, <3>2
  <2>3. CASE i = 3 * N + 1
    BY <1>2, <2>3
  <2>4. i \in 1..(3 * N) \/ i = 3 * N + 1
    BY <1>1, <1>2
  <2> QED
    BY <2>2, <2>3, <2>4
<1>4. ASSUME NEW i \in 0..Len(s)
      PROVE  /\ \A l : /\ Lock(l) \notin After(s, i) /\ Unlock(l) \notin After(s, i)
                       /\ Do("check", l) \notin After(s, i) /\ Do("locate", l) \notin After(s, i)
             /\ \A l : RLock(l) \in After(s, i) <=> \E k \in 1..N : l = m(k) /\ 3 * (k - 1) + 1 > i
             /\ \A l : RUnlock(l) \in After(s, i) <=> \E k \in 1..N : l = m(k) /\ 3 * (k - 1) + 3 > i
             /\ \A x \in After(s, i) : x.do \in QueryDo
  <2>1. \A x : x \in After(s, i) <=> \E n \in 1..Len(s) : n > i /\ x = s[n]
    BY <1>2 DEF After
  <2>2. \A x \in After(s, i) : \/ \E k \in 1..N : 3 * (k - 1) + 1 > i /\ x = RLock(m(k))
                               \/ \E k \in 1..N : x = Do("look", z[k])
                               \/ \E k \in 1..N : 3 * (k - 1) + 3 > i /\ x = RUnlock(m(k))
                               \/ x = Reply
    BY <1>3, <2>1
  <2>3. \A k \in 1..N : 3 * (k - 1) + 1 \in 1..Len(s) /\ 3 * (k - 1) + 3 \in 1..Len(s)
    BY <1>1, <1>2
  <2>4. \A k \in 1..N : 3 * (k - 1) + 1 > i => RLock(m(k)) \in After(s, i)
    BY <1>2, <2>1, <2>3
  <2>5. \A k \in 1..N : 3 * (k - 1) + 3 > i => RUnlock(m(k)) \in After(s, i)
    BY <1>2, <2>1, <2>3
  <2>6. \A l, x : /\ x = Lock(l) \/ x = Unlock(l) \/ x = Do("check", l) \/ x = Do("locate", l) => x \notin After(s, i)
                  /\ x = RLock(l) /\ x \in After(s, i) => \E k \in 1..N : l = m(k) /\ 3 * (k - 1) + 1 > i
                  /\ x = RUnlock(l) /\ x \in After(s, i) => \E k \in 1..N : l = m(k) /\ 3 * (k - 1) + 3 > i
    BY <2>2, DoFields DEF Lock, Unlock, RLock, RUnlock, Reply
  <2>7. \A x \in After(s, i) : x.do \in QueryDo
    BY <2>2, DoFields DEF RLock, RUnlock, Reply, QueryDo, LockDo
  <2> QED
    BY <2>4, <2>5, <2>6, <2>7
<1>5. ASSUME NEW i \in 0..Len(s)
      PROVE  /\ Written(After(s, i)) = {}
             /\ \A l : GivesBack(l, After(s, i)) <=> RUnlock(l) \in After(s, i)
             /\ \A l \in Locks : l \in Read(After(s, i)) <=>
                  \E k \in 1..N : l = m(k) /\ 3 * (k - 1) + 3 > i /\ ~(3 * (k - 1) + 1 > i)
  <2>1. \A l : GivesBack(l, After(s, i)) <=> RUnlock(l) \in After(s, i)
    BY <1>4 DEF GivesBack
  <2>2. Written(After(s, i)) = {}
    BY <1>4 DEF Written
  <2>3. \A l \in Locks : l \in Read(After(s, i)) <=> GivesBack(l, After(s, i)) /\ RLock(l) \notin After(s, i)
    BY DEF Read
  <2> QED
    BY <1>1, <1>4, <2>1, <2>2, <2>3
<1>6. ASSUME NEW i \in 1..Len(s) PROVE Sound(j, c, s[i], After(s, i))
  <2>1. CASE \E k \in 1..N : i = 3 * (k - 1) + 1 /\ s[i] = RLock(m(k))
    <3>1. PICK k \in 1..N : i = 3 * (k - 1) + 1 /\ s[i] = RLock(m(k))
      BY <2>1
    <3>2. GivesBack(m(k), After(s, i)) /\ RLock(m(k)) \notin After(s, i) /\ Unlock(m(k)) \notin After(s, i)
      BY <1>1, <1>4, <1>5, <3>1
    <3>3. \A l \in Locks : l \in Read(After(s, i)) => l = m(k)
      BY <1>1, <1>5, <3>1
    <3>4. Climbs(m(k), After(s, i))
      BY <1>5, <3>3 DEF Climbs, HeldIn, Read
    <3> QED
      <4>1. m(k) \in Locks
        BY <1>1
      <4> QED
        BY <3>1, <3>2, <3>4, <4>1, DoFields DEF Sound, LockSound, DataSound, LockDo, RegionWrites, RLock
  <2>2. CASE \E k \in 1..N : i = 3 * (k - 1) + 2 /\ s[i] = Do("look", z[k])
    <3>1. PICK k \in 1..N : i = 3 * (k - 1) + 2 /\ s[i] = Do("look", z[k])
      BY <2>2
    <3>2. \A l \in Locks : l \in Read(After(s, i)) <=> l = m(k)
      BY <1>1, <1>5, <3>1
    <3>3. HeldIn(After(s, i)) = {m(k)} /\ m(k) \in Read(After(s, i))
      BY <1>1, <1>5, <3>2 DEF HeldIn, Read
    <3> QED
      BY <1>1, <1>5, <3>1, <3>3, DoFields DEF Sound, LockSound, DataSound, LockDo, RegionWrites, m
  <2>3. CASE \E k \in 1..N : i = 3 * (k - 1) + 3 /\ s[i] = RUnlock(m(k))
    <3>1. PICK k \in 1..N : i = 3 * (k - 1) + 3 /\ s[i] = RUnlock(m(k))
      BY <2>3
    <3>2. RLock(m(k)) \notin After(s, i) /\ ~GivesBack(m(k), After(s, i))
      BY <1>1, <1>4, <1>5, <3>1
    <3> QED
      BY <1>1, <3>1, <3>2, DoFields DEF Sound, LockSound, DataSound, LockDo, RegionWrites, RUnlock
  <2>4. CASE i = 3 * N + 1 /\ s[i] = Reply
    <3>1. After(s, i) = {}
      BY <1>1, <1>2, <2>4 DEF After
    <3> QED
      BY <2>4, <3>1, DoFields DEF Sound, LockSound, DataSound, LockDo, RegionWrites, Reply
  <2> QED
    BY <1>3, <2>1, <2>2, <2>3, <2>4
<1>7. Program(j, c, s)
  BY <1>2, <1>6 DEF Program
<1>8. Written(Steps(s)) = {} /\ Read(Steps(s)) = {} /\ \A x \in Steps(s) : x.do \in QueryDo
  <2>1. 0 \in 0..Len(s) /\ \A k \in 1..N : 3 * (k - 1) + 1 > 0
    BY <1>1, <1>2
  <2> QED
    BY <1>4, <1>5, <2>1 DEF Steps, Read
<1> QED
  BY <1>7, <1>8 DEF s

(* The removal of an area holds one region at a time.                      *)
LEMMA RemoveAreaSound ==
  ASSUME NEW j, NEW c, NEW z \in SetToSeqs(Regions)
  PROVE  LET s == InTurn([i \in DOMAIN z |-> RemoveAreaProgram(z[i])])
         IN  /\ Program(j, c, s) /\ Written(Steps(s)) = {} /\ Read(Steps(s)) = {}
             /\ \A x \in Steps(s) : x.do \in WatcherDo
<1> DEFINE N == Cardinality(Regions)
           m(k) == Region(z[k])
           ps == [i \in DOMAIN z |-> RemoveAreaProgram(z[i])]
           s == InTurn(ps)
<1>1. /\ N \in Nat /\ N >= 1 /\ DOMAIN z = 1..N
      /\ \A k \in 1..N : z[k] \in Regions /\ m(k) \in Locks
      /\ \A k, i \in 1..N : m(k) = m(i) => k = i
  <2>1. /\ z \in [1..N -> Regions]
        /\ \A i, k \in 1..N : i # k => z[i] # z[k]
    BY DEF SetToSeqs
  <2>2. \A k \in 1..N : z[k] \in Regions /\ m(k) \in Locks
    BY <2>1, LocksDiffer
  <2>3. \A k, i \in 1..N : m(k) = m(i) => k = i
    BY <2>1, LocksDiffer
  <2> QED
    BY <2>1, <2>2, <2>3, RegionsCount
<1>2. /\ s \in Seq(AnyStep) /\ Len(s) = 4 * N
      /\ \A k \in 1..N : /\ s[4 * (k - 1) + 1] = Lock(m(k))
                        /\ s[4 * (k - 1) + 2] = Do("purge", z[k])
                        /\ s[4 * (k - 1) + 3] = Do("dropArea", z[k])
                        /\ s[4 * (k - 1) + 4] = Unlock(m(k))
      /\ \A i \in 1..(4 * N) : \E k \in 1..N, b \in 1..4 : i = 4 * (k - 1) + b
  <2>1. \A k \in 1..N : /\ Lock(m(k)) \in AnyStep /\ Unlock(m(k)) \in AnyStep
                       /\ Do("purge", z[k]) \in AnyStep /\ Do("dropArea", z[k]) \in AnyStep
    <3>1. {"purge", "dropArea"} \subseteq AnyDo
      BY DEF AnyDo, WatcherDo
    <3> QED
      BY <1>1, <3>1, StepTypes
  <2>2. \A k \in 1..N :
          /\ RemoveAreaProgram(z[k]) \in Seq(AnyStep) /\ Len(RemoveAreaProgram(z[k])) = 4
          /\ RemoveAreaProgram(z[k])[1] = Lock(m(k)) /\ RemoveAreaProgram(z[k])[2] = Do("purge", z[k])
          /\ RemoveAreaProgram(z[k])[3] = Do("dropArea", z[k]) /\ RemoveAreaProgram(z[k])[4] = Unlock(m(k))
    BY <2>1 DEF RemoveAreaProgram
  <2> HIDE DEF s, m, N
  <2>3. /\ ps \in Seq(Seq(AnyStep)) /\ Len(ps) = N
        /\ \A k \in 1..N : /\ Len(ps[k]) = 4 /\ ps[k][1] = Lock(m(k)) /\ ps[k][2] = Do("purge", z[k])
                          /\ ps[k][3] = Do("dropArea", z[k]) /\ ps[k][4] = Unlock(m(k))
    <3>1. ps = [i \in 1..N |-> ps[i]] /\ \A k \in 1..N : ps[k] = RemoveAreaProgram(z[k])
      BY <1>1
    <3> HIDE DEF ps
    <3>2. \A k \in 1..N : ps[k] \in Seq(AnyStep)
      BY <2>2, <3>1
    <3>3. ps \in Seq(Seq(AnyStep)) /\ Len(ps) = N
      <4>1. [i \in 1..N |-> ps[i]] \in Seq(Seq(AnyStep)) /\ Len([i \in 1..N |-> ps[i]]) = N
        BY <1>1, <3>2, AsSequence
      <4> QED
        BY <3>1, <4>1
    <3> QED
      BY <2>2, <3>1, <3>3
  <2> HIDE DEF ps
  <2>4. /\ InTurn(ps) \in Seq(AnyStep) /\ Len(InTurn(ps)) = 4 * Len(ps)
        /\ \A k \in 1..Len(ps), b \in 1..4 : InTurn(ps)[4 * (k - 1) + b] = ps[k][b]
        /\ \A i \in 1..(4 * Len(ps)) : \E k \in 1..Len(ps), b \in 1..4 : i = 4 * (k - 1) + b
    <3>1. Len(ps) >= 1 /\ \A i \in 1..Len(ps) : Len(ps[i]) = 4
      BY <1>1, <2>3
    <3>2. ps \in Seq(Seq(AnyStep))
      BY <2>3
    <3> QED
      BY <3>1, <3>2, InFours
  <2>5. /\ s \in Seq(AnyStep) /\ Len(s) = 4 * N
        /\ \A k \in 1..N, b \in 1..4 : s[4 * (k - 1) + b] = ps[k][b]
        /\ \A i \in 1..(4 * N) : \E k \in 1..N, b \in 1..4 : i = 4 * (k - 1) + b
    BY <2>3, <2>4 DEF s
  <2>6. \A k \in 1..N : /\ s[4 * (k - 1) + 1] = ps[k][1] /\ s[4 * (k - 1) + 2] = ps[k][2]
                       /\ s[4 * (k - 1) + 3] = ps[k][3] /\ s[4 * (k - 1) + 4] = ps[k][4]
    <3>1. 1 \in 1..4 /\ 2 \in 1..4 /\ 3 \in 1..4 /\ 4 \in 1..4
      OBVIOUS
    <3>2. \A k \in 1..N, b \in 1..4 : s[4 * (k - 1) + b] = ps[k][b]
      BY <2>5
    <3> QED
      BY <3>1, <3>2, Zenon
  <2> QED
    BY <2>3, <2>5, <2>6
<1> HIDE DEF s, ps, m, N
<1>3. \A i \in 1..Len(s) :
        \/ \E k \in 1..N : i = 4 * (k - 1) + 1 /\ s[i] = Lock(m(k))
        \/ \E k \in 1..N : i = 4 * (k - 1) + 2 /\ s[i] = Do("purge", z[k])
        \/ \E k \in 1..N : i = 4 * (k - 1) + 3 /\ s[i] = Do("dropArea", z[k])
        \/ \E k \in 1..N : i = 4 * (k - 1) + 4 /\ s[i] = Unlock(m(k))
  <2>1. TAKE i \in 1..Len(s)
  <2>2. PICK k \in 1..N, b \in 1..4 : i = 4 * (k - 1) + b
    BY <1>2
  <2>3. b = 1 \/ b = 2 \/ b = 3 \/ b = 4
    OBVIOUS
  <2> QED
    BY <1>2, <2>2, <2>3
<1>4. ASSUME NEW i \in 0..Len(s)
      PROVE  /\ \A l : ~GivesBack(l, After(s, i))
             /\ \A l : Lock(l) \in After(s, i) <=> \E k \in 1..N : l = m(k) /\ 4 * (k - 1) + 1 > i
             /\ \A l : Unlock(l) \in After(s, i) <=> \E k \in 1..N : l = m(k) /\ 4 * (k - 1) + 4 > i
             /\ \A x \in After(s, i) : x.do \in WatcherDo
  <2>1. \A x : x \in After(s, i) <=> \E n \in 1..Len(s) : n > i /\ x = s[n]
    BY <1>2 DEF After
  <2>2. \A x \in After(s, i) : \/ \E k \in 1..N : 4 * (k - 1) + 1 > i /\ x = Lock(m(k))
                               \/ \E k \in 1..N : x = Do("purge", z[k])
                               \/ \E k \in 1..N : x = Do("dropArea", z[k])
                               \/ \E k \in 1..N : 4 * (k - 1) + 4 > i /\ x = Unlock(m(k))
    BY <1>3, <2>1
  <2>3. \A k \in 1..N : 4 * (k - 1) + 1 \in 1..Len(s) /\ 4 * (k - 1) + 4 \in 1..Len(s)
    BY <1>1, <1>2
  <2>4. \A k \in 1..N : 4 * (k - 1) + 1 > i => Lock(m(k)) \in After(s, i)
    BY <1>2, <2>1, <2>3
  <2>5. \A k \in 1..N : 4 * (k - 1) + 4 > i => Unlock(m(k)) \in After(s, i)
    BY <1>2, <2>1, <2>3
  <2>6. \A l, x : /\ x = RUnlock(l) \/ x = Do("check", l) \/ x = Do("locate", l) => x \notin After(s, i)
                  /\ x = Lock(l) /\ x \in After(s, i) => \E k \in 1..N : l = m(k) /\ 4 * (k - 1) + 1 > i
                  /\ x = Unlock(l) /\ x \in After(s, i) => \E k \in 1..N : l = m(k) /\ 4 * (k - 1) + 4 > i
    BY <2>2, DoFields DEF Lock, Unlock, RUnlock
  <2>7. \A x \in After(s, i) : x.do \in WatcherDo
    BY <2>2, DoFields DEF Lock, Unlock, WatcherDo, LockDo
  <2>8. \A l : ~GivesBack(l, After(s, i))
    BY <2>6 DEF GivesBack
  <2> QED
    BY <2>4, <2>5, <2>6, <2>7, <2>8
<1>5. ASSUME NEW i \in 0..Len(s)
      PROVE  /\ Read(After(s, i)) = {}
             /\ \A l \in Locks : l \in Written(After(s, i)) <=>
                  \E k \in 1..N : l = m(k) /\ 4 * (k - 1) + 4 > i /\ ~(4 * (k - 1) + 1 > i)
  <2>1. Read(After(s, i)) = {}
    BY <1>4 DEF Read
  <2>2. \A l \in Locks : l \in Written(After(s, i)) <=> Unlock(l) \in After(s, i) /\ Lock(l) \notin After(s, i)
    BY DEF Written
  <2> QED
    BY <1>1, <1>4, <2>1, <2>2
<1>6. ASSUME NEW i \in 1..Len(s) PROVE Sound(j, c, s[i], After(s, i))
  <2>1. ASSUME NEW k \in 1..N, i = 4 * (k - 1) + 1, s[i] = Lock(m(k)) PROVE Sound(j, c, s[i], After(s, i))
    <3>1. Unlock(m(k)) \in After(s, i) /\ Lock(m(k)) \notin After(s, i) /\ ~GivesBack(m(k), After(s, i))
      BY <1>1, <1>4, <2>1
    <3>2. \A l \in Locks : l \in Written(After(s, i)) => l = m(k)
      BY <1>1, <1>5, <2>1
    <3>3. Climbs(m(k), After(s, i))
      BY <1>5, <3>2 DEF Climbs, HeldIn, Written
    <3>4. m(k) \in Locks
      BY <1>1
    <3> QED
      BY <2>1, <3>1, <3>3, <3>4, DoFields DEF Sound, LockSound, DataSound, LockDo, RegionWrites, Lock
  <2>2. ASSUME NEW k \in 1..N, i = 4 * (k - 1) + 2 \/ i = 4 * (k - 1) + 3
        PROVE  z[k] \in Regions /\ m(k) \in Written(After(s, i))
    BY <1>1, <1>5, <2>2
  <2>3. ASSUME NEW k \in 1..N, i = 4 * (k - 1) + 2, s[i] = Do("purge", z[k]) PROVE Sound(j, c, s[i], After(s, i))
    <3>1. z[k] \in Regions /\ m(k) \in Written(After(s, i))
      BY <2>2, <2>3
    <3> QED
      BY <2>3, <3>1, DoFields DEF Sound, LockSound, DataSound, LockDo, RegionWrites, m
  <2>4. ASSUME NEW k \in 1..N, i = 4 * (k - 1) + 3, s[i] = Do("dropArea", z[k]) PROVE Sound(j, c, s[i], After(s, i))
    <3>1. z[k] \in Regions /\ m(k) \in Written(After(s, i))
      BY <2>2, <2>4
    <3> QED
      BY <2>4, <3>1, DoFields DEF Sound, LockSound, DataSound, LockDo, RegionWrites, m
  <2>5. ASSUME NEW k \in 1..N, i = 4 * (k - 1) + 4, s[i] = Unlock(m(k)) PROVE Sound(j, c, s[i], After(s, i))
    <3>1. Lock(m(k)) \notin After(s, i) /\ Unlock(m(k)) \notin After(s, i)
      BY <1>1, <1>4, <2>5
    <3>2. m(k) \in Locks
      BY <1>1
    <3> QED
      BY <2>5, <3>1, <3>2, DoFields DEF Sound, LockSound, DataSound, LockDo, RegionWrites, Unlock
  <2> QED
    BY <1>3, <2>1, <2>3, <2>4, <2>5
<1>7. Program(j, c, s)
  BY <1>2, <1>6 DEF Program
<1>8. Written(Steps(s)) = {} /\ Read(Steps(s)) = {} /\ \A x \in Steps(s) : x.do \in WatcherDo
  <2>1. 0 \in 0..Len(s) /\ \A k \in 1..N : 4 * (k - 1) + 1 > 0
    BY <1>1, <1>2
  <2> QED
    BY <1>4, <1>5, <2>1 DEF Steps, Written
<1> QED
  BY <1>7, <1>8 DEF s, ps

---------------------------------------------------------------------------
(* What a step on a lock makes of what a thread will hold.                 *)
LEMMA HeldBefore ==
  ASSUME NEW x \in AnyStep, NEW S, NEW j, NEW c, Sound(j, c, x, S)
  PROVE  LET A == {x} \cup S
         IN  /\ x.do = "lock" => Written(A) = Written(S) \ {x.on} /\ Read(A) = Read(S)
             /\ x.do = "rlock" => Written(A) = Written(S) /\ Read(A) = Read(S) \ {x.on}
             /\ x.do = "unlock" => Written(A) = Written(S) \cup {x.on} /\ Read(A) = Read(S)
             /\ x.do = "runlock" => Written(A) = Written(S) /\ Read(A) = Read(S) \cup {x.on}
             /\ x.do \notin LockDo \cup {"check", "locate"} =>
                  Written(A) = Written(S) /\ Read(A) = Read(S)
<1> DEFINE A == {x} \cup S
<1>1. x = Do(x.do, x.on)
  BY DEF AnyStep, Do
<1>2. \A d, l : Do(d, l) \in A <=> (d = x.do /\ l = x.on) \/ Do(d, l) \in S
  BY <1>1, DoFields
<1> HIDE DEF A
<1>3. CASE x.do = "lock"
  <2>1. Written(A) = Written(S) \ {x.on}
    BY <1>2, <1>3 DEF Written, Lock, Unlock
  <2>2. Read(A) = Read(S)
    BY <1>2, <1>3 DEF Read, GivesBack, RLock, RUnlock
  <2> QED
    BY <1>3, <2>1, <2>2 DEF A, LockDo
<1>4. CASE x.do = "rlock"
  <2>1. Written(A) = Written(S)
    BY <1>2, <1>4 DEF Written, Lock, Unlock
  <2>2. Read(A) = Read(S) \ {x.on}
    BY <1>2, <1>4 DEF Read, GivesBack, RLock, RUnlock
  <2> QED
    BY <1>4, <2>1, <2>2 DEF A, LockDo
<1>5. CASE x.do = "unlock"
  <2>1. x.on \in Locks /\ Lock(x.on) \notin S
    BY <1>5 DEF Sound, LockSound, LockDo
  <2>2. Written(A) = Written(S) \cup {x.on}
    BY <1>2, <1>5, <2>1 DEF Written, Lock, Unlock
  <2>3. Read(A) = Read(S)
    BY <1>2, <1>5 DEF Read, GivesBack, RLock, RUnlock
  <2> QED
    BY <1>5, <2>2, <2>3 DEF A, LockDo
<1>6. CASE x.do = "runlock"
  <2>1. x.on \in Locks /\ RLock(x.on) \notin S
    BY <1>6 DEF Sound, LockSound, LockDo
  <2>2. Written(A) = Written(S)
    BY <1>2, <1>6 DEF Written, Lock, Unlock
  <2>3. Read(A) = Read(S) \cup {x.on}
    BY <1>2, <1>6, <2>1 DEF Read, GivesBack, RLock, RUnlock
  <2> QED
    BY <1>6, <2>2, <2>3 DEF A, LockDo
<1>7. CASE x.do \in {"check", "locate"}
  BY <1>7 DEF LockDo
<1>8. CASE x.do \notin LockDo \cup {"check", "locate"}
  <2>1. /\ x.do # "lock" /\ x.do # "unlock" /\ x.do # "rlock" /\ x.do # "runlock"
        /\ x.do # "check" /\ x.do # "locate"
    BY <1>8 DEF LockDo
  <2>2. Written(A) = Written(S) /\ Read(A) = Read(S)
    BY <1>2, <2>1 DEF Written, Read, GivesBack, Lock, Unlock, RLock, RUnlock
  <2> QED
    BY <2>1, <2>2 DEF A
<1> QED
  BY <1>3, <1>4, <1>5, <1>6, <1>7, <1>8 DEF A, LockDo

LEMMA ChoiceHolds ==
  ASSUME NEW x \in AnyStep, NEW S, NEW j, NEW c, Sound(j, c, x, S), x.do \in {"check", "locate"}
  PROVE  Written({x} \cup S) = {} /\ Read({x} \cup S) = {c}
<1>1. S = {} /\ x.on = c /\ c \in Locks
  BY DEF Sound, DataSound
<1>2. x = Do(x.do, c)
  BY <1>1 DEF AnyStep, Do
<1>3. \A d, l : Do(d, l) \in {x} \cup S <=> d = x.do /\ l = c
  BY <1>1, <1>2, DoFields
<1>4. Written({x} \cup S) = {}
  BY <1>3 DEF Written, Lock, Unlock
<1>5. Read({x} \cup S) = {c}
  BY <1>1, <1>3 DEF Read, GivesBack, RLock, RUnlock
<1> QED
  BY <1>4, <1>5

LEMMA NoProgram == \A j, c : Program(j, c, <<>>)
BY DEF Program

LEMMA LastStep ==
  ASSUME NEW S, NEW s \in Seq(S), Len(s) = 1
  PROVE  Tail(s) = <<>>
<1>1. \A u \in Seq(S) : Len(u) = 0 => u = <<>>
  OBVIOUS
<1>2. Tail(s) \in Seq(S) /\ Len(Tail(s)) = 0
  OBVIOUS
<1> QED
  BY <1>1, <1>2, Zenon

(* A thread that can step is not stuck.                                    *)
LEMMA StepsFree ==
  ASSUME Shapes, NEW t \in Threads, CanStep(t)
  PROVE  /\ \A l \in Locks : ~Stuck(t, l)
         /\ \A l : Upcoming(t) = Lock(l) => lock[l].writer = None
<1>1. Wants(t) = {} /\ \A l \in Locks : Blocks(t, l) = {}
  BY DEF CanStep, WaitsFor
<1>2. \A l \in Locks : ~Stuck(t, l)
  BY <1>1 DEF Stuck, Blocks
<1>3. \A l : Upcoming(t) = Lock(l) => lock[l].writer = None
  BY <1>1, DoFields DEF Wants, Upcoming, Lock, CanStep
<1> QED
  BY <1>2, <1>3

LEMMA LockStepThread ==
  ASSUME LocksCore, NEW t \in Threads, LockStep(t)
  PROVE  /\ thread' = [x \in Threads |-> thread'[x]]
         /\ \A u \in Threads \ {t} : thread'[u] = thread[u]
         /\ thread'[t].run = Tail(thread[t].run)
         /\ \/ thread'[t].job = thread[t].job /\ thread'[t].got = thread[t].got
            \/ thread'[t].run = <<>>
         /\ thread'[t] = [ job |-> thread'[t].job, run |-> thread'[t].run, got |-> thread'[t].got,
                           before |-> thread'[t].before ]
<1>1. Shapes /\ Program(thread[t].job, Own(t), thread[t].run)
  BY DEF LocksCore, Programs
<1>2. CASE Len(thread[t].run) = 1
  <2>1. thread' = [thread EXCEPT ![t] = Idle]
    BY <1>2 DEF LockStep, Ends
  <2>2. thread[t].run \in Seq(AnyStep)
    BY <1>1 DEF Program
  <2>3. Tail(thread[t].run) = <<>>
    BY <1>2, <2>2, LastStep
  <2> QED
    BY <1>1, <2>1, <2>3 DEF Shapes, Idle
<1>3. CASE Len(thread[t].run) # 1
  <2>1. thread' = [thread EXCEPT ![t].run = Tail(@)]
    BY <1>3 DEF LockStep, Goes
  <2>2. /\ thread = [x \in Threads |-> thread[x]]
        /\ thread[t] = [ job |-> thread[t].job, run |-> thread[t].run, got |-> thread[t].got,
                         before |-> thread[t].before ]
    BY <1>1 DEF Shapes
  <2>3. thread'[t] = [thread[t] EXCEPT !.run = Tail(thread[t].run)]
    BY <2>1, <2>2
  <2> QED
    BY <2>1, <2>2, <2>3
<1> QED
  BY <1>2, <1>3

(* A step on a lock keeps the locks what the programs say they are.        *)
LEMMA LockStepCore ==
  ASSUME LocksCore, NEW t \in Threads, LockStep(t)
  PROVE  LocksCore'
<1> DEFINE h == Upcoming(t)
           S == Steps(Tail(thread[t].run))
<1>1. Shapes /\ Programs /\ Linked /\ Topmost
  BY DEF LocksCore
<1>2. thread[t].run # <<>> /\ CanStep(t)
  BY DEF LockStep, CanStep
<1>3. Program(thread[t].job, Own(t), thread[t].run)
  BY <1>1 DEF Programs
<1>4. /\ Program(thread[t].job, Own(t), Tail(thread[t].run))
      /\ Sound(thread[t].job, Own(t), h, S) /\ Running(t) = {h} \cup S /\ h \in AnyStep
  BY <1>2, <1>3, ProgramTail DEF Upcoming, Running
<1>5. /\ thread' = [x \in Threads |-> thread'[x]]
      /\ \A u \in Threads \ {t} : thread'[u] = thread[u]
      /\ thread'[t].run = Tail(thread[t].run)
      /\ thread'[t].job = thread[t].job \/ thread'[t].run = <<>>
      /\ thread'[t] = [ job |-> thread'[t].job, run |-> thread'[t].run, got |-> thread'[t].got,
                        before |-> thread'[t].before ]
  BY LockStepThread
<1>6. /\ \A u \in Threads \ {t} : Running(u)' = Running(u) /\ Own(u)' = Own(u)
      /\ Running(t)' = S
  BY <1>5 DEF Running, Own, LockStep
<1>7. Programs'
  <2>1. ASSUME NEW u \in Threads PROVE Program(thread'[u].job, Own(u)', thread'[u].run)
    <3>1. CASE u # t
      BY <1>1, <1>5, <1>6, <3>1 DEF Programs
    <3>2. CASE u = t /\ thread'[t].run = <<>>
      BY <3>2, NoProgram
    <3>3. CASE u = t /\ thread'[t].job = thread[t].job
      <4>1. Own(t)' = Own(t)
        BY <3>3 DEF Own, LockStep
      <4> QED
        BY <1>4, <1>5, <3>3, <4>1
    <3> QED
      BY <1>5, <3>1, <3>2, <3>3
  <2> QED
    BY <2>1 DEF Programs
<1>8. PICK l \in Locks :
        \/ h = Lock(l) /\ lock' = [lock EXCEPT ![l] = Announced(@, t)]
        \/ h = RLock(l) /\ lock' = [lock EXCEPT ![l] = Entered(@, t)]
        \/ h = Unlock(l) /\ lock' = [lock EXCEPT ![l] = Freed(@)]
        \/ h = RUnlock(l) /\ lock' = [lock EXCEPT ![l] = Left(@, t)]
  BY DEF LockStep
<1>9. /\ lock' = [x \in Locks |-> lock'[x]] /\ \A m \in Locks \ {l} : lock'[m] = lock[m]
      /\ \A u : \A m \in Locks \ {l} : Stuck(u, m)' = Stuck(u, m)
  <2>1. lock' = [lock EXCEPT ![l] = lock'[l]]
    BY <1>1, <1>8 DEF Shapes
  <2> QED
    BY <1>1, <2>1 DEF Shapes, Stuck
<1>10. /\ \A m \in Locks : ~Stuck(t, m)
       /\ h = Lock(l) => lock[l].writer = None
  BY <1>1, <1>2, StepsFree
<1>11. /\ LockSound(h, S)
       /\ t \in Threads /\ None \notin Threads
  BY <1>4, ThreadNames DEF Sound
<1>12. /\ lock[l] = [ writer |-> lock[l].writer, readers |-> lock[l].readers,
                      waiting |-> lock[l].waiting ]
       /\ lock[l].writer \in Threads \cup {None}
       /\ lock[l].readers \subseteq Threads /\ lock[l].waiting \subseteq Threads
       /\ lock[l].readers \cap lock[l].waiting = {}
       /\ lock[l].waiting # {} => lock[l].writer # None
       /\ lock[l].writer \notin lock[l].readers \cup lock[l].waiting
  BY <1>1 DEF Shapes
<1>13. \A u \in Threads, m \in Locks :
         /\ lock[m].writer = u <=> m \in Written(Running(u))
         /\ u \in lock[m].readers \cup lock[m].waiting <=> m \in Read(Running(u))
  BY <1>1 DEF Linked
<1>14. \A u \in Threads, m \in Locks : Stuck(u, m) => Climbs(m, Running(u))
  BY <1>1 DEF Topmost
<1> DEFINE k == lock'[l]
(* What is to be shown of the lock that changed.                           *)
<1>15. ASSUME /\ k = [writer |-> k.writer, readers |-> k.readers, waiting |-> k.waiting]
              /\ k.writer \in Threads \cup {None}
              /\ k.readers \subseteq Threads /\ k.waiting \subseteq Threads
              /\ k.readers \cap k.waiting = {}
              /\ k.waiting # {} => k.writer # None
              /\ k.writer \notin k.readers \cup k.waiting,
              \A u \in Threads \ {t} :
                /\ k.writer = u <=> lock[l].writer = u
                /\ u \in k.readers \cup k.waiting <=> u \in lock[l].readers \cup lock[l].waiting
                /\ Stuck(u, l)' => Stuck(u, l),
              /\ k.writer = t <=> l \in Written(S)
              /\ t \in k.readers \cup k.waiting <=> l \in Read(S)
              /\ Stuck(t, l)' => Climbs(l, S),
              \A m \in Locks \ {l} :
                /\ m \in Written(Running(t)) <=> m \in Written(S)
                /\ m \in Read(Running(t)) <=> m \in Read(S)
       PROVE  LocksCore'
  <2>1. Shapes'
    <3>1. \A u \in Threads :
            thread'[u] = [ job |-> thread'[u].job, run |-> thread'[u].run, got |-> thread'[u].got,
                           before |-> thread'[u].before ]
      BY <1>1, <1>5 DEF Shapes
    <3>2. \A m \in Locks :
            /\ lock'[m] = [ writer |-> lock'[m].writer, readers |-> lock'[m].readers,
                            waiting |-> lock'[m].waiting ]
            /\ lock'[m].writer \in Threads \cup {None}
            /\ lock'[m].readers \subseteq Threads /\ lock'[m].waiting \subseteq Threads
            /\ lock'[m].readers \cap lock'[m].waiting = {}
            /\ lock'[m].waiting # {} => lock'[m].writer # None
            /\ lock'[m].writer \notin lock'[m].readers \cup lock'[m].waiting
      BY <1>1, <1>9, <1>15 DEF Shapes
    <3> QED
      BY <1>5, <1>9, <3>1, <3>2 DEF Shapes
  <2>2. Linked'
    BY <1>6, <1>9, <1>13, <1>15 DEF Linked
  <2>3. Topmost'
    <3>1. ASSUME NEW u \in Threads, NEW m \in Locks, Stuck(u, m)' PROVE Climbs(m, Running(u)')
      <4>1. CASE u # t
        <5>1. Stuck(u, m)
          BY <1>9, <1>15, <3>1, <4>1
        <5> QED
          BY <1>6, <1>14, <4>1, <5>1
      <4>2. CASE u = t
        <5>1. m = l
          BY <1>9, <1>10, <3>1, <4>2
        <5> QED
          BY <1>6, <1>15, <3>1, <4>2, <5>1
      <4> QED
        BY <4>1, <4>2
    <3>2. \A u \in Threads, m \in Locks : Stuck(u, m)' => Climbs(m, Running(u)')
      BY <3>1
    <3>3. \A u, m : Climbs(m, Running(u))' = Climbs(m, Running(u)')
      BY DEF Climbs, HeldIn, Written, Read, GivesBack, Level, Position
    <3> QED
      BY <3>2, <3>3 DEF Topmost
  <2> QED
    BY <1>7, <2>1, <2>2, <2>3 DEF LocksCore
<1>16. h.do \in LockDo /\ h.on = l /\ Running(t) = {h} \cup S
  BY <1>4, <1>8, DoFields DEF Lock, RLock, Unlock, RUnlock, LockDo
<1>17. /\ h.do = "lock" => Written(Running(t)) = Written(S) \ {l} /\ Read(Running(t)) = Read(S)
       /\ h.do = "rlock" => Written(Running(t)) = Written(S) /\ Read(Running(t)) = Read(S) \ {l}
       /\ h.do = "unlock" => Written(Running(t)) = Written(S) \cup {l} /\ Read(Running(t)) = Read(S)
       /\ h.do = "runlock" => Written(Running(t)) = Written(S) /\ Read(Running(t)) = Read(S) \cup {l}
  BY <1>4, <1>16, HeldBefore, ZenonT(40)
<1> HIDE DEF h, S, k
<1>18. CASE h = Lock(l) /\ lock' = [lock EXCEPT ![l] = Announced(@, t)]
  <2>1. h.do = "lock" /\ k = [lock[l] EXCEPT !.writer = t]
    BY <1>1, <1>18, DoFields DEF Lock, Announced, Shapes, k
  <2>2. lock[l].writer = None /\ lock[l].waiting = {}
    BY <1>10, <1>12, <1>18
  <2>3. k.writer = t /\ k.readers = lock[l].readers /\ k.waiting = {}
    BY <1>12, <2>1, <2>2
  <2>4. l \in Written(S) /\ l \notin Read(S) /\ Climbs(l, S)
    BY <1>11, <1>16, <2>1 DEF LockSound, Written, Read
  <2>5. t \notin lock[l].readers
    BY <1>13, <1>17, <2>1, <2>4
  <2>6. \A u \in Threads \ {t} : ~Stuck(u, l)'
    BY <1>11, <2>3 DEF Stuck, k
  <2>7. k = [writer |-> k.writer, readers |-> k.readers, waiting |-> k.waiting]
    BY <1>12, <2>1
  <2> QED
    BY <1>11, <1>12, <1>15, <1>17, <2>1, <2>2, <2>3, <2>4, <2>5, <2>6, <2>7
<1>19. CASE h = RLock(l) /\ lock' = [lock EXCEPT ![l] = Entered(@, t)]
  <2>1. h.do = "rlock" /\ k = Entered(lock[l], t)
    BY <1>1, <1>19, DoFields DEF RLock, Shapes, k
  <2>2. l \in Read(S) /\ l \notin Written(S) /\ Climbs(l, S)
    BY <1>11, <1>16, <2>1 DEF LockSound, Written, Read
  <2>3. t \notin lock[l].readers \cup lock[l].waiting /\ lock[l].writer # t
    BY <1>13, <1>17, <2>1, <2>2
  <2>4. /\ k.writer = lock[l].writer
        /\ k = [writer |-> k.writer, readers |-> k.readers, waiting |-> k.waiting]
        /\ IF lock[l].writer = None
           THEN k.readers = lock[l].readers \cup {t} /\ k.waiting = lock[l].waiting
           ELSE k.readers = lock[l].readers /\ k.waiting = lock[l].waiting \cup {t}
    BY <1>12, <2>1 DEF Entered
  <2>5. \A u \in Threads \ {t} : Stuck(u, l)' => Stuck(u, l)
    BY <1>11, <2>4 DEF Stuck, k
  <2> QED
    BY <1>11, <1>12, <1>15, <1>17, <2>1, <2>2, <2>3, <2>4, <2>5
<1>20. CASE h = Unlock(l) /\ lock' = [lock EXCEPT ![l] = Freed(@)]
  <2>1. h.do = "unlock" /\ k = Freed(lock[l])
    BY <1>1, <1>20, DoFields DEF Unlock, Shapes, k
  <2>2. l \notin Written(S) /\ l \in Written(Running(t))
    BY <1>11, <1>16, <1>17, <2>1 DEF LockSound, Written
  <2>3. lock[l].writer = t /\ lock[l].readers = {}
    BY <1>10, <1>13, <2>2 DEF Stuck
  <2>4. k.writer = None /\ k.readers = lock[l].waiting /\ k.waiting = {}
    BY <2>1 DEF Freed
  <2>5. k = [writer |-> k.writer, readers |-> k.readers, waiting |-> k.waiting]
    BY <2>1 DEF Freed
  <2>6. \A u \in Threads : ~Stuck(u, l)'
    BY <1>11, <2>4 DEF Stuck, k
  <2>7. t \notin lock[l].waiting /\ l \notin Read(S)
    BY <1>12, <1>13, <1>17, <2>1, <2>3
  <2> QED
    BY <1>11, <1>12, <1>15, <1>17, <2>1, <2>2, <2>3, <2>4, <2>5, <2>6, <2>7
<1>21. CASE h = RUnlock(l) /\ lock' = [lock EXCEPT ![l] = Left(@, t)]
  <2>1. h.do = "runlock" /\ k = Left(lock[l], t)
    BY <1>1, <1>21, DoFields DEF RUnlock, Shapes, k
  <2>2. l \notin Read(S) /\ l \in Read(Running(t))
    BY <1>11, <1>16, <1>17, <2>1 DEF LockSound, Read
  <2>3. t \in lock[l].readers /\ t \notin lock[l].waiting /\ lock[l].writer # t
    BY <1>10, <1>12, <1>13, <2>2 DEF Stuck
  <2>4. /\ k.writer = lock[l].writer /\ k.readers = lock[l].readers \ {t}
        /\ k.waiting = lock[l].waiting
        /\ k = [writer |-> k.writer, readers |-> k.readers, waiting |-> k.waiting]
    BY <1>12, <2>1 DEF Left
  <2>5. \A u \in Threads : Stuck(u, l)' => Stuck(u, l)
    BY <2>4 DEF Stuck, k
  <2>6. l \notin Written(S)
    BY <1>13, <1>17, <2>1, <2>3
  <2>7. /\ k.writer \in Threads \cup {None}
        /\ k.readers \subseteq Threads /\ k.waiting \subseteq Threads
        /\ k.readers \cap k.waiting = {}
        /\ k.waiting # {} => k.writer # None
        /\ k.writer \notin k.readers \cup k.waiting
    BY <1>12, <2>4
  <2>8. \A u \in Threads \ {t} :
          /\ k.writer = u <=> lock[l].writer = u
          /\ u \in k.readers \cup k.waiting <=> u \in lock[l].readers \cup lock[l].waiting
    BY <2>4
  <2>9. /\ ~(k.writer = t) /\ t \notin k.readers \cup k.waiting
        /\ ~Stuck(t, l)'
    BY <1>10, <2>3, <2>4, <2>5
  <2>10. \A m \in Locks \ {l} :
           /\ m \in Written(Running(t)) <=> m \in Written(S)
           /\ m \in Read(Running(t)) <=> m \in Read(S)
    BY <1>17, <2>1
  <2> QED
    BY <1>15, <2>2, <2>4, <2>5, <2>6, <2>7, <2>8, <2>9, <2>10
<1> QED
  BY <1>8, <1>18, <1>19, <1>20, <1>21

---------------------------------------------------------------------------
(* No goroutine waits in a circle.                                         *)

(* The locks a thread asks for, and how high each is: an announced writer  *)
(* is above the threads behind it.                                         *)
Asks(t, l) ==
  Stuck(t, l) \/ (thread[t].run # <<>> /\ Upcoming(t) = Lock(l) /\ lock[l].writer # None)

Height(t, l) == 2 * Level(l) + (IF lock[l].writer = t THEN 1 ELSE 0)

(* Whoever waits asks for something, and whoever it waits for asks only    *)
(* for what is higher.                                                     *)
LEMMA WaitsClimb ==
  ASSUME LocksCore, NEW t \in Threads, NEW u \in Threads, u \in WaitsFor(t)
  PROVE  \E l \in Locks : Asks(t, l) /\ \A n \in Locks : Asks(u, n) => Height(u, n) > Height(t, l)
<1>1. Shapes /\ Programs /\ Linked /\ Topmost
  BY DEF LocksCore
<1>2. \A v \in Threads, m \in Locks :
        /\ lock[m].writer = v <=> m \in Written(Running(v))
        /\ v \in lock[m].readers \cup lock[m].waiting <=> m \in Read(Running(v))
  BY <1>1 DEF Linked
<1>3. \A v \in Threads, m \in Locks : Stuck(v, m) => Climbs(m, Running(v))
  BY <1>1 DEF Topmost
<1>4. ASSUME NEW v \in Threads, NEW m \in Locks, thread[v].run # <<>>, Upcoming(v) = Lock(m)
      PROVE  /\ m \notin Written(Running(v))
             /\ \A l \in HeldIn(Running(v)) : l # m /\ Level(l) < Level(m)
  <2> DEFINE S == Steps(Tail(thread[v].run))
  <2>1. Program(thread[v].job, Own(v), thread[v].run)
    BY <1>1 DEF Programs
  <2>2. /\ Sound(thread[v].job, Own(v), Head(thread[v].run), S)
        /\ Steps(thread[v].run) = {Head(thread[v].run)} \cup S /\ Head(thread[v].run) \in AnyStep
    BY <1>4, <2>1, ProgramTail
  <2> HIDE DEF S
  <2>6. /\ Sound(thread[v].job, Own(v), Lock(m), S) /\ Running(v) = {Lock(m)} \cup S
        /\ Lock(m) \in AnyStep
    BY <1>4, <2>2 DEF Upcoming, Running
  <2>3. Lock(m).do = "lock" /\ Lock(m).on = m
    BY DoFields DEF Lock
  <2>4. Written(Running(v)) = Written(S) \ {m} /\ Read(Running(v)) = Read(S)
    BY <2>3, <2>6, HeldBefore
  <2>5. m \notin Read(S) /\ Climbs(m, S)
    BY <2>3, <2>6 DEF Sound, LockSound, Read
  <2> QED
    BY <2>4, <2>5 DEF HeldIn, Climbs
<1>5. \A m \in Locks : Level(m) \in Nat
  BY Levels
<1>6. t # None /\ u # None
  BY ThreadNames
(* Whoever has a lock for writing, or has announced it.                    *)
<1>7. ASSUME NEW l \in Locks, lock[l].writer = u, lock[l].writer # t,
             NEW n \in Locks, Asks(u, n)
      PROVE  Height(u, n) > Height(t, l)
  <2>1. l \in HeldIn(Running(u)) /\ l \in Written(Running(u))
    BY <1>2, <1>7 DEF HeldIn
  <2>2. Height(t, l) = 2 * Level(l)
    BY <1>5, <1>7 DEF Height
  <2>3. CASE Level(l) < Level(n)
    BY <1>5, <2>2, <2>3 DEF Height
  <2>4. CASE l = n
    BY <1>5, <1>7, <2>2, <2>4 DEF Height
  <2>5. CASE Stuck(u, n)
    <3>1. Climbs(n, Running(u))
      BY <1>3, <2>5
    <3> QED
      BY <2>1, <2>3, <2>4, <3>1 DEF Climbs
  <2>6. CASE thread[u].run # <<>> /\ Upcoming(u) = Lock(n)
    BY <1>4, <2>1, <2>3, <2>6
  <2> QED
    BY <1>7, <2>5, <2>6 DEF Asks
(* Whoever reads under a lock.                                             *)
<1>8. ASSUME NEW l \in Locks, lock[l].writer = t, u \in lock[l].readers,
             NEW n \in Locks, Asks(u, n)
      PROVE  Height(u, n) > Height(t, l)
  <2>1. l \in HeldIn(Running(u))
    BY <1>2, <1>8 DEF HeldIn
  <2>2. u # t /\ u \notin lock[l].waiting
    BY <1>1, <1>8 DEF Shapes
  <2>3. ~Stuck(u, l)
    BY <1>8, <2>2 DEF Stuck
  <2>4. Level(l) < Level(n)
    <3>1. CASE Stuck(u, n)
      <4>1. Climbs(n, Running(u))
        BY <1>3, <3>1
      <4> QED
        BY <2>1, <2>3, <3>1, <4>1 DEF Climbs
    <3>2. CASE thread[u].run # <<>> /\ Upcoming(u) = Lock(n)
      BY <1>4, <2>1, <3>2
    <3> QED
      BY <1>8, <3>1, <3>2 DEF Asks
  <2> QED
    BY <1>5, <1>8, <2>4 DEF Height
<1>9. CASE u \in Wants(t)
  <2>1. thread[t].run # <<>> /\ Head(thread[t].run).do = "lock" /\ lock[Upcoming(t).on].writer = u
    BY <1>9 DEF Wants, Upcoming
  <2>2. Upcoming(t) \in AnyStep /\ LockSound(Upcoming(t), Steps(Tail(thread[t].run)))
    BY <1>1, <2>1, ProgramTail DEF Programs, Upcoming, Sound
  <2>3. PICK l \in Locks : Upcoming(t) = Lock(l) /\ l = Upcoming(t).on
    BY <2>1, <2>2 DEF LockSound, LockDo, AnyStep, Lock, Do, Upcoming
  <2>4. lock[l].writer = u /\ lock[l].writer # t
    BY <1>2, <1>4, <2>1, <2>3
  <2>5. Asks(t, l)
    BY <1>6, <2>1, <2>3, <2>4 DEF Asks
  <2> QED
    BY <1>7, <2>4, <2>5
<1>10. CASE \E l \in Locks : u \in Blocks(t, l)
  <2>1. PICK l \in Locks : u \in Blocks(t, l)
    BY <1>10
  <2>2. CASE t \in lock[l].waiting
    <3>1. lock[l].writer = u /\ lock[l].writer # t
      BY <1>1, <2>1, <2>2 DEF Blocks, Shapes
    <3>2. Asks(t, l)
      BY <2>2 DEF Asks, Stuck
    <3> QED
      BY <1>7, <3>1, <3>2
  <2>3. CASE t \notin lock[l].waiting
    <3>1. lock[l].writer = t /\ u \in lock[l].readers
      BY <2>1, <2>3 DEF Blocks
    <3>2. Asks(t, l)
      BY <3>1 DEF Asks, Stuck
    <3> QED
      BY <1>8, <3>1, <3>2
  <2> QED
    BY <2>2, <2>3
<1> QED
  BY <1>9, <1>10 DEF WaitsFor

(* Of the threads of a circle one would be highest.                        *)
LEMMA NoCircle ==
  ASSUME LocksCore
  PROVE  NoCyclicWait
<1> SUFFICES ASSUME NEW W \in SUBSET Waiting, W # {}, \A t \in W : WaitsFor(t) \cap W # {}
             PROVE  FALSE
  BY DEF NoCyclicWait
<1> DEFINE B == 2 * Cardinality(Regions) + 2
           Above(t, k) == \A l \in Locks : Asks(t, l) => Height(t, l) >= k
           Gaps == {d \in Nat : \E t \in W : Above(t, B - d)}
<1>1. W \subseteq Threads
  BY DEF Waiting
<1>2. B \in Nat /\ \A t : \A l \in Locks : Height(t, l) \in Nat /\ Height(t, l) < B
  <2>1. \A l \in Locks : Level(l) \in 0..Cardinality(Regions) /\ Cardinality(Regions) \in Nat
    BY Levels
  <2>2. Cardinality(Regions) \in Nat
    BY Levels
  <2> QED
    BY <2>1, <2>2 DEF Height
<1> HIDE DEF B
<1>3. B \in Gaps
  BY <1>2
<1>4. PICK d \in Gaps : \A e \in Gaps : ~(<<e, d>> \in OpToRel(<, Nat))
  BY <1>3, NatLessThanWellFounded, WFMin
<1>5. PICK t \in W : Above(t, B - d)
  BY <1>4
<1>6. PICK u \in W : u \in WaitsFor(t)
  BY <1>5
<1>7. PICK l \in Locks : Asks(t, l) /\ \A n \in Locks : Asks(u, n) => Height(u, n) > Height(t, l)
  BY <1>1, <1>6, WaitsClimb
<1>8. Height(t, l) >= B - d /\ Height(t, l) < B
  BY <1>2, <1>5, <1>7
<1>12. d \in Nat /\ Height(t, l) \in Nat
  BY <1>2, <1>4
<1>9. d \in Nat /\ d > 0
  <2> HIDE DEF Gaps, Above
  <2> QED
    BY <1>2, <1>8, <1>12
<1>10. Above(u, B - (d - 1))
  BY <1>2, <1>7, <1>8, <1>9
<1>11. d - 1 \in Gaps /\ d - 1 < d
  BY <1>9, <1>10
<1> QED
  BY <1>4, <1>9, <1>11 DEF OpToRel

---------------------------------------------------------------------------
(* No two goroutines race under their locks.                               *)

(* The lock of field f of k.                                               *)
Guard(f, k) == IF f \in {"pub", "deleted"} THEN Ctl(k, life[k]) ELSE Region(k)

(* Whoever touches something has the lock of it.                           *)
LEMMA TouchesGuarded ==
  ASSUME LocksCore, Roles, NEW t \in Threads, CanStep(t),
         NEW f \in SharedFields, NEW k
  PROVE  /\ Writes(t, f, k) => Guard(f, k) \in Written(Running(t))
         /\ Reads(t, f, k) => Guard(f, k) \in HeldIn(Running(t))
<1> DEFINE h == Upcoming(t)
           x == h.on
           j == thread[t].job
           S == Steps(Tail(thread[t].run))
<1>2. Program(j, Own(t), thread[t].run) /\ thread[t].run # <<>>
  BY DEF LocksCore, Programs, CanStep
<1>3. /\ Sound(j, Own(t), Head(thread[t].run), S)
      /\ Steps(thread[t].run) = {Head(thread[t].run)} \cup S /\ Head(thread[t].run) \in AnyStep
  BY <1>2, ProgramTail
<1> HIDE DEF S, j
<1>4. Sound(j, Own(t), h, S) /\ Running(t) = {h} \cup S /\ h \in AnyStep /\ h \in Running(t)
  BY <1>3 DEF Upcoming, Running
<1> HIDE DEF h
<1>5. /\ h.do \in {"check", "locate"} => Own(t) \in Read(Running(t))
      /\ h.do \notin LockDo \cup {"check", "locate"} =>
           Written(Running(t)) = Written(S) /\ Read(Running(t)) = Read(S)
  <2>1. /\ h.do \in {"check", "locate"} => Read({h} \cup S) = {Own(t)}
        /\ h.do \notin LockDo \cup {"check", "locate"} =>
             Written({h} \cup S) = Written(S) /\ Read({h} \cup S) = Read(S)
    BY <1>4, HeldBefore, ChoiceHolds
  <2> QED
    BY <1>4, <2>1
<1>6. /\ h.do \in {"publish", "check"} => Own(t) = Ctl(j.obj, life[j.obj])
      /\ h.do = "locate" => Own(t) = Ctl(j.call.of, j.ctl)
  <2>1. h.do \in {"publish", "check"} => t \notin Queries
    BY <1>4, ThreadNames DEF Roles, Role, Does, QueryDo, LockDo
  <2>2. h.do = "locate" => t \in Queries
    BY <1>4 DEF Roles, Role, Does, Threads, WorkerDo, DispatcherDo, WatcherDo, LockDo
  <2> QED
    BY <2>1, <2>2 DEF Own, j
<1>7. DataSound(j, Own(t), h, S)
  BY <1>4 DEF Sound
<1>8. h.do \in RegionWrites => Region(x) \in Written(Running(t))
  <2>1. h.do \in RegionWrites => h.do \notin LockDo \cup {"check", "locate"}
    BY DEF RegionWrites, LockDo
  <2> QED
    BY <1>5, <1>7, <2>1 DEF DataSound
<1>9. h.do = "publish" =>
        /\ Own(t) \in IF j.kind = "update" THEN Read(Running(t)) ELSE Written(Running(t))
        /\ j.kind = "transition" => Region(j.old) \in Written(Running(t))
  <2>1. h.do = "publish" => h.do \notin LockDo \cup {"check", "locate"}
    BY DEF LockDo
  <2> QED
    BY <1>5, <1>7, <2>1 DEF DataSound
<1>10. /\ h.do \in {"get", "look"} => Region(x) \in Read(Running(t))
       /\ h.do = "scan" => \A r \in x : Region(r) \in Read(Running(t))
  <2>1. h.do \in {"get", "look", "scan"} => h.do \notin LockDo \cup {"check", "locate"}
    BY DEF LockDo
  <2> QED
    BY <1>5, <1>7, <2>1 DEF DataSound
<1>11. ASSUME Writes(t, f, k) PROVE Guard(f, k) \in Written(Running(t))
  <2>1. \/ f \notin {"pub", "deleted"} /\ h.do \in RegionWrites /\ x = k
        \/ f \in {"pub", "deleted"} /\ h.do = "publish" /\ j.kind # "update" /\ j.obj = k
    BY <1>11 DEF Writes, RegionWrites, h, j
  <2>2. CASE f \notin {"pub", "deleted"} /\ h.do \in RegionWrites /\ x = k
    BY <1>8, <2>2 DEF Guard
  <2>3. CASE f \in {"pub", "deleted"} /\ h.do = "publish" /\ j.kind # "update" /\ j.obj = k
    BY <1>6, <1>9, <2>3 DEF Guard
  <2> QED
    BY <2>1, <2>2, <2>3
<1>12. ASSUME Reads(t, f, k) PROVE Guard(f, k) \in HeldIn(Running(t))
  <2>1. \/ f \notin {"pub", "deleted"} /\ h.do \in {"get", "look"} /\ x = k
        \/ f \notin {"pub", "deleted"} /\ h.do = "scan" /\ k \in x
        \/ f \notin {"pub", "deleted"} /\ h.do \in {"publish", "purge"} /\ x = k
        \/ f \notin {"pub", "deleted"} /\ h.do = "publish" /\ j.kind = "transition" /\ j.old = k
        \/ f = "pub" /\ h.do \in {"check", "publish"} /\ j.obj = k
        \/ f \in {"pub", "deleted"} /\ h.do = "locate" /\ j.call.of = k /\ j.ctl = life[k]
    BY <1>12 DEF Reads, h, j
  <2>2. CASE f \notin {"pub", "deleted"} /\ h.do \in {"get", "look"} /\ x = k
    BY <1>10, <2>2 DEF Guard, HeldIn
  <2>3. CASE f \notin {"pub", "deleted"} /\ h.do = "scan" /\ k \in x
    BY <1>10, <2>3 DEF Guard, HeldIn
  <2>4. CASE f \notin {"pub", "deleted"} /\ h.do \in {"publish", "purge"} /\ x = k
    BY <1>8, <2>4 DEF Guard, HeldIn, RegionWrites
  <2>5. CASE f \notin {"pub", "deleted"} /\ h.do = "publish" /\ j.kind = "transition" /\ j.old = k
    BY <1>9, <2>5 DEF Guard, HeldIn
  <2>6. CASE f = "pub" /\ h.do = "check" /\ j.obj = k
    BY <1>5, <1>6, <2>6 DEF Guard, HeldIn
  <2>7. CASE f = "pub" /\ h.do = "publish" /\ j.obj = k
    BY <1>6, <1>9, <2>7 DEF Guard, HeldIn
  <2>8. CASE f \in {"pub", "deleted"} /\ h.do = "locate" /\ j.call.of = k /\ j.ctl = life[k]
    BY <1>5, <1>6, <2>8 DEF Guard, HeldIn
  <2> QED
    BY <2>1, <2>2, <2>3, <2>4, <2>5, <2>6, <2>7, <2>8
<1> QED
  BY <1>11, <1>12

(* What a thread that can step holds for writing nobody else holds.        *)
LEMMA WritesAlone ==
  ASSUME LocksCore, NEW t \in Threads, NEW u \in Threads, t # u, CanStep(t), CanStep(u),
         NEW l \in Written(Running(t))
  PROVE  l \notin HeldIn(Running(u))
<1>1. l \in Locks
  BY DEF Written
<1>2. ~Stuck(t, l) /\ ~Stuck(u, l)
  BY <1>1, StepsFree DEF LocksCore
<1>3. /\ lock[l].writer = t
      /\ lock[l].writer = u <=> l \in Written(Running(u))
      /\ u \in lock[l].readers \cup lock[l].waiting <=> l \in Read(Running(u))
  BY <1>1 DEF LocksCore, Linked
<1> QED
  BY <1>2, <1>3 DEF Stuck, HeldIn

(* Under the locks there is no race.                                       *)
LEMMA LockedApart ==
  ASSUME LocksCore, Roles, NEW t \in Threads, NEW u \in Threads, t # u, CanStep(t), CanStep(u),
         NEW f \in SharedFields, NEW k, Writes(t, f, k)
  PROVE  ~Writes(u, f, k) /\ ~Reads(u, f, k)
<1>1. Guard(f, k) \in Written(Running(t))
  BY TouchesGuarded
<1>2. Guard(f, k) \notin HeldIn(Running(u))
  BY <1>1, WritesAlone
<1>3. /\ Writes(u, f, k) => Guard(f, k) \in Written(Running(u))
      /\ Reads(u, f, k) => Guard(f, k) \in HeldIn(Running(u))
  BY TouchesGuarded
<1> QED
  BY <1>2, <1>3 DEF HeldIn

---------------------------------------------------------------------------
(* The steps that leave the locks alone.                                   *)
LEMMA StepFacts ==
  ASSUME LocksCore, NEW t \in Threads, Busy(t)
  PROVE  LET h == Upcoming(t)
             S == Steps(Tail(thread[t].run))
         IN  /\ Program(thread[t].job, Own(t), Tail(thread[t].run))
             /\ h \in AnyStep /\ h \in Running(t) /\ Running(t) = {h} \cup S
             /\ LockSound(h, S) /\ DataSound(thread[t].job, Own(t), h, S)
             /\ h.do \notin LockDo \cup {"check", "locate"} =>
                  Written(S) = Written(Running(t)) /\ Read(S) = Read(Running(t))
             /\ h.do \in {"check", "locate"} =>
                  Written(Running(t)) = {} /\ Read(Running(t)) = {Own(t)}
<1> DEFINE S == Steps(Tail(thread[t].run))
           x == Head(thread[t].run)
           j == thread[t].job
<1>1. Program(j, Own(t), thread[t].run) /\ thread[t].run # <<>>
  BY DEF LocksCore, Programs, Busy
<1>2. /\ Program(j, Own(t), Tail(thread[t].run))
      /\ Sound(j, Own(t), x, S) /\ Steps(thread[t].run) = {x} \cup S /\ x \in AnyStep
  BY <1>1, ProgramTail
<1> HIDE DEF S, x, j
<1>3. /\ x.do \notin LockDo \cup {"check", "locate"} =>
           Written({x} \cup S) = Written(S) /\ Read({x} \cup S) = Read(S)
      /\ x.do \in {"check", "locate"} => Written({x} \cup S) = {} /\ Read({x} \cup S) = {Own(t)}
  <2>1. x.do \notin LockDo \cup {"check", "locate"} =>
           Written({x} \cup S) = Written(S) /\ Read({x} \cup S) = Read(S)
    BY <1>2, HeldBefore, Zenon
  <2>2. x.do \in {"check", "locate"} => Written({x} \cup S) = {} /\ Read({x} \cup S) = {Own(t)}
    BY <1>2, ChoiceHolds
  <2> QED
    BY <2>1, <2>2
<1>4. x = Upcoming(t) /\ Running(t) = {x} \cup S
  BY <1>2 DEF Upcoming, Running, x
<1>5. LockSound(x, S) /\ DataSound(j, Own(t), x, S)
  BY <1>2 DEF Sound
<1> QED
  BY <1>2, <1>3, <1>4, <1>5 DEF S, j

(* A thread goes on with another program that holds the same.              *)
LEMMA QuietCore ==
  ASSUME LocksCore, lock' = lock, NEW t \in Threads,
         thread' = [thread EXCEPT ![t] = thread'[t]],
         thread'[t] = [ job |-> thread'[t].job, run |-> thread'[t].run, got |-> thread'[t].got,
                        before |-> thread'[t].before ],
         Written(Steps(thread'[t].run)) = Written(Running(t)),
         Read(Steps(thread'[t].run)) = Read(Running(t)),
         \A u \in Threads : Program(thread'[u].job, Own(u)', thread'[u].run)
  PROVE  LocksCore'
<1>1. Shapes /\ Linked /\ Topmost
  BY DEF LocksCore
<1>2. /\ thread' = [x \in Threads |-> thread'[x]]
      /\ \A u \in Threads \ {t} : thread'[u] = thread[u]
  BY <1>1 DEF Shapes
<1>3. Shapes'
  <2>1. \A u \in Threads :
          thread'[u] = [ job |-> thread'[u].job, run |-> thread'[u].run, got |-> thread'[u].got,
                         before |-> thread'[u].before ]
    BY <1>1, <1>2 DEF Shapes
  <2> QED
    BY <1>1, <1>2, <2>1 DEF Shapes
<1>4. \A u \in Threads :
        Written(Running(u)') = Written(Running(u)) /\ Read(Running(u)') = Read(Running(u))
  BY <1>2 DEF Running
<1>5. Linked'
  BY <1>1, <1>4 DEF Linked
<1>6. Topmost'
  <2>1. \A u \in Threads, l \in Locks : Stuck(u, l)' => Stuck(u, l)
    BY DEF Stuck
  <2>2. \A u \in Threads, l \in Locks : Stuck(u, l)' => Climbs(l, Running(u))
    BY <1>1, <2>1 DEF Topmost
  <2>3. \A u \in Threads, l \in Locks : Climbs(l, Running(u)) => Climbs(l, Running(u)')
    BY <1>4 DEF Climbs, HeldIn
  <2>4. \A u, l : Climbs(l, Running(u))' = Climbs(l, Running(u)')
    BY DEF Climbs, HeldIn, Written, Read, GivesBack, Level, Position
  <2> QED
    BY <2>2, <2>3, <2>4 DEF Topmost
<1>7. Programs'
  BY DEF Programs
<1> QED
  BY <1>3, <1>5, <1>6, <1>7 DEF LocksCore

(* The same when no ObjCtl enters the map.                                 *)
LEMMA QuietStep ==
  ASSUME LocksCore, lock' = lock, life' = life, NEW t \in Threads,
         thread' = [thread EXCEPT ![t] = thread'[t]],
         thread'[t] = [ job |-> thread'[t].job, run |-> thread'[t].run, got |-> thread'[t].got,
                        before |-> thread'[t].before ],
         Written(Steps(thread'[t].run)) = Written(Running(t)),
         Read(Steps(thread'[t].run)) = Read(Running(t)),
         Program(thread'[t].job, Own(t)', thread'[t].run)
  PROVE  LocksCore'
<1>1. ASSUME NEW u \in Threads, u # t PROVE Program(thread'[u].job, Own(u)', thread'[u].run)
  <2>1. thread'[u] = thread[u]
    BY <1>1 DEF LocksCore, Shapes
  <2>2. Own(u)' = Own(u)
    BY <2>1 DEF Own
  <2>3. Program(thread[u].job, Own(u), thread[u].run)
    BY DEF LocksCore, Programs
  <2> QED
    BY <2>1, <2>2, <2>3
<1>2. \A u \in Threads : Program(thread'[u].job, Own(u)', thread'[u].run)
  BY <1>1
<1> QED
  BY <1>2, QuietCore

(* The step of a thread that goes on.                                      *)
LEMMA GoesCore ==
  ASSUME LocksCore, lock' = lock, life' = life, NEW t \in Threads, Busy(t),
         Upcoming(t).do \notin LockDo \cup {"check", "locate"},
         thread' = [thread EXCEPT ![t] = thread'[t]],
         thread'[t] = [ job |-> thread'[t].job, run |-> thread'[t].run, got |-> thread'[t].got,
                        before |-> thread'[t].before ],
         thread'[t].job = thread[t].job, thread'[t].run = Tail(thread[t].run)
  PROVE  LocksCore' /\ Own(t)' = Own(t) /\ Running(t)' \subseteq Running(t)
<1> DEFINE S == Steps(Tail(thread[t].run))
<1>1. /\ Program(thread[t].job, Own(t), Tail(thread[t].run)) /\ Running(t) = {Upcoming(t)} \cup S
      /\ Written(S) = Written(Running(t)) /\ Read(S) = Read(Running(t))
  BY StepFacts
<1>2. Own(t)' = Own(t)
  BY DEF Own
<1>3. LocksCore'
  BY <1>1, <1>2, QuietStep
<1> QED
  BY <1>1, <1>2, <1>3 DEF Running

(* The last step of a program.                                             *)
LEMMA EndsCore ==
  ASSUME LocksCore, lock' = lock, life' = life, NEW t \in Threads, Busy(t),
         Upcoming(t).do \in {"send", "confirm", "reply"}, Ends(t)
  PROVE  /\ LocksCore' /\ Running(t) = {Upcoming(t)}
         /\ thread'[t].run = <<>> /\ \A u \in Threads \ {t} : thread'[u] = thread[u]
<1> DEFINE S == Steps(Tail(thread[t].run))
<1>1. /\ Running(t) = {Upcoming(t)} \cup S
      /\ DataSound(thread[t].job, Own(t), Upcoming(t), S)
      /\ Upcoming(t).do \notin LockDo \cup {"check", "locate"} =>
           Written(S) = Written(Running(t)) /\ Read(S) = Read(Running(t))
  BY StepFacts
<1>2. Upcoming(t).do \notin LockDo \cup {"check", "locate"}
  BY DEF LockDo
<1>3. S = {}
  BY <1>1 DEF DataSound
<1>4. Written(Running(t)) = {} /\ Read(Running(t)) = {}
  BY <1>1, <1>2, <1>3, NoSteps
<1>5. thread' = [thread EXCEPT ![t] = Idle] /\ thread = [x \in Threads |-> thread[x]]
  BY DEF Ends, LocksCore, Shapes
<1>6. thread'[t] = Idle /\ \A u \in Threads \ {t} : thread'[u] = thread[u]
  BY <1>5
<1>7. thread'[t].run = <<>> /\ Idle = [job |-> Idle.job, run |-> Idle.run, got |-> Idle.got, before |-> Idle.before]
  BY <1>6 DEF Idle
<1>8. thread' = [thread EXCEPT ![t] = thread'[t]]
  BY <1>5, <1>6
<1>9. LocksCore'
  <2>1. Written(Steps(thread'[t].run)) = {} /\ Read(Steps(thread'[t].run)) = {}
    BY <1>7, NoSteps
  <2>2. Program(thread'[t].job, Own(t)', thread'[t].run)
    BY <1>7, NoProgram
  <2>3. thread'[t] = [ job |-> thread'[t].job, run |-> thread'[t].run, got |-> thread'[t].got,
                       before |-> thread'[t].before ]
    BY <1>6, <1>7
  <2> QED
    BY <1>4, <1>8, <2>1, <2>2, <2>3, QuietStep
<1> QED
  BY <1>1, <1>3, <1>6, <1>7, <1>9

(* What the other threads do.                                              *)
LEMMA RolesKept ==
  ASSUME Roles, NEW t \in Threads, \A u \in Threads \ {t} : thread'[u] = thread[u],
         \A x \in Running(t)' : x.do \in Role(t)
  PROVE  Roles'
<1>1. ASSUME NEW u \in Threads PROVE \A x \in Running(u)' : x.do \in Role(u)
  <2>1. CASE u # t
    <3>1. Running(u)' = Running(u)
      BY <2>1 DEF Running
    <3> QED
      BY <3>1 DEF Roles, Does
  <2>2. CASE u = t
    BY <2>2
  <2> QED
    BY <2>1, <2>2
<1>2. \A u \in Threads : \A x \in Running(u)' : x.do \in Role(u)
  BY <1>1
<1> QED
  BY <1>2 DEF Roles, Does, Role

(* What the threads other than t are about, when the mailbox of no object  *)
(* changes but that of o, which is none of theirs.                         *)
LEMMA OthersKept ==
  ASSUME LocksInv, NEW t \in Threads, \A u \in Threads \ {t} : thread'[u] = thread[u], NEW o,
         \A x \in Objects \ {o} : head'[x] = head[x],
         head' = head \/ \A w \in Workers \ {t} : Busy(w) => thread[w].job.obj # o
  PROVE  /\ \A w \in Workers \ {t} : WorkerOK(w)'
         /\ "dispatcher" # t => DispatcherOK'
         /\ \A x : TaskOK(x) /\ (head' = head \/ x.obj # o) => TaskOK(x)'
         /\ \A x : ResultOK(x) /\ (head' = head \/ x.obj # o) => ResultOK(x)'
<1>1. \A x : TaskOK(x) /\ (head' = head \/ x.obj # o) => TaskOK(x)'
  BY DEF TaskOK, WorkerTask
<1>2. \A x : ResultOK(x) /\ (head' = head \/ x.obj # o) => ResultOK(x)'
  BY DEF ResultOK
<1>3. ASSUME NEW w \in Workers \ {t} PROVE WorkerOK(w)'
  <2>1. thread'[w] = thread[w] /\ WorkerOK(w)
    BY ThreadNames DEF LocksInv, Items
  <2>2. Busy(w) => TaskOK(thread[w].job) /\ (head' = head \/ thread[w].job.obj # o)
    BY <2>1 DEF WorkerOK
  <2>3. Busy(w) => TaskOK(thread[w].job)'
    BY <2>1, <2>2 DEF TaskOK, WorkerTask
  <2>4. Busy(w) /\ thread[w].got.obj = thread[w].job.obj /\ ResultOK(thread[w].got) => ResultOK(thread[w].got)'
    BY <2>1, <2>2 DEF ResultOK
  <2> QED
    BY <2>1, <2>3, <2>4 DEF WorkerOK, Busy, Running
<1>4. ASSUME "dispatcher" # t PROVE DispatcherOK'
  <2>1. thread'["dispatcher"] = thread["dispatcher"] /\ DispatcherOK
    BY <1>4, ThreadNames DEF LocksInv, Items
  <2> QED
    BY <2>1 DEF DispatcherOK, Busy, Running
<1> QED
  BY <1>1, <1>2, <1>3, <1>4

(* The one thing in a mailbox's way moves on.                              *)
LEMMA MovesOn ==
  ASSUME NEW o \in Objects, Alone(o), NEW a \in Places(o), NEW b,
         Places(o)' \subseteq (Places(o) \ {a}) \cup {b}, o \in registered', head'[o] # None
  PROVE  Alone(o)'
BY DEF Alone

(* A step of thread t that leaves mailboxes and inboxes alone.             *)
LEMMA ThreadStep ==
  ASSUME LocksInv, LocksCore', NEW t \in Threads,
         \A u \in Threads \ {t} : thread'[u] = thread[u],
         UNCHANGED <<tasks, results, registered, head, life>>,
         pubRegion' \in [Objects -> RegionOrNone],
         \A x \in Running(t)' : x.do \in Role(t),
         t \in Workers \cup {"dispatcher"} =>
           (Busy(t)' => Busy(t) /\ thread'[t].job.obj = thread[t].job.obj),
         t \in Workers => WorkerOK(t)',
         t = "dispatcher" => DispatcherOK'
  PROVE  LocksInv'
<1>1. Roles'
  BY RolesKept DEF LocksInv
<1>2. \A o \in Objects : Alone(o)'
  <2>1. TAKE o \in Objects
  <2>2. ASSUME NEW u \in Workers \cup {"dispatcher"}, Busy(u)', thread'[u].job.obj = o
        PROVE  Busy(u) /\ thread[u].job.obj = o
    <3>1. u \in Threads
      BY ThreadNames
    <3> QED
      BY <2>2, <3>1 DEF Busy
  <2>3. Places(o)' \subseteq Places(o)
    BY <2>2 DEF Places
  <2> QED
    BY <2>3 DEF LocksInv, Alone
<1>3. Items'
  <2>1. /\ \A w \in Workers \ {t} : WorkerOK(w)'
        /\ "dispatcher" # t => DispatcherOK'
        /\ \A x : TaskOK(x) => TaskOK(x)'
        /\ \A x : ResultOK(x) => ResultOK(x)'
    BY OthersKept
  <2>2. (\A x \in tasks : TaskOK(x)') /\ (\A res \in results : ResultOK(res)')
    BY <2>1 DEF LocksInv, Items
  <2> QED
    BY <2>1, <2>2 DEF Items
<1>4. Fields'
  BY DEF LocksInv, Fields
<1> QED
  BY <1>1, <1>2, <1>3, <1>4 DEF LocksInv

(* What a worker that has still to answer is about.                        *)
LEMMA WorkerFacts ==
  ASSUME LocksInv, NEW w \in Workers, Busy(w)
  PROVE  LET j == thread[w].job
         IN  /\ TaskOK(j) /\ j.obj \in Objects /\ j.region \in Regions
             /\ j.obj \in registered /\ life[j.obj] \in 1..MaxLives /\ head[j.obj] # None
             /\ <<"thread", w>> \in Places(j.obj)
             /\ Own(w) = Ctl(j.obj, life[j.obj])
<1> DEFINE j == thread[w].job
<1>1. WorkerOK(w)
  BY DEF LocksInv, Items
<1>2. TaskOK(j)
  BY <1>1 DEF WorkerOK
<1>3. j.obj \in Objects /\ j.region \in Regions
  BY <1>2 DEF TaskOK, WorkerTask
<1>4. <<"thread", w>> \in Places(j.obj)
  BY DEF Places
<1>5. j.obj \in registered /\ head[j.obj] # None
  BY <1>3, <1>4 DEF LocksInv, Alone
<1>6. life[j.obj] \in 1..MaxLives
  BY <1>3, <1>5, LocksAssumption DEF LocksInv, Fields
<1>7. Own(w) = Ctl(j.obj, life[j.obj])
  BY ThreadNames DEF Own
<1> QED
  BY <1>2, <1>3, <1>4, <1>5, <1>6, <1>7

(* A worker that goes on with the rest of its program.                     *)
LEMMA WorkerGoes ==
  ASSUME LocksInv, NEW w \in Workers, Busy(w), UNCHANGED <<tasks, results, registered, head, life, lock>>,
         pubRegion' \in [Objects -> RegionOrNone],
         Upcoming(w).do \in {"enter", "leave", "publish"},
         thread' = [thread EXCEPT ![w] = thread'[w]],
         thread'[w] = [ job |-> thread'[w].job, run |-> thread'[w].run, got |-> thread'[w].got,
                        before |-> thread'[w].before ],
         thread'[w].job = thread[w].job, thread'[w].run = Tail(thread[w].run),
         \/ thread'[w].got = thread[w].got /\ Upcoming(w).do # "publish"
         \/ thread'[w].got.obj = thread[w].job.obj /\ ResultOK(thread'[w].got)
  PROVE  LocksInv'
<1>1. w \in Threads /\ LocksCore
  BY ThreadNames DEF LocksInv
<1>2. Upcoming(w).do \notin LockDo \cup {"check", "locate"}
  BY DEF LockDo
<1>3. LocksCore' /\ Running(w)' \subseteq Running(w)
  BY <1>1, <1>2, GoesCore
<1>4. Running(w) = {Upcoming(w)} \cup Running(w)'
  <2>1. Running(w) = {Upcoming(w)} \cup Steps(Tail(thread[w].run))
    BY <1>1, StepFacts
  <2> QED
    BY <2>1 DEF Running
<1>5. \A x \in Running(w)' : x.do \in Role(w)
  BY <1>1, <1>3 DEF LocksInv, Roles, Does
<1>6. WorkerOK(w)'
  <2>1. WorkerOK(w) /\ TaskOK(thread[w].job)
    BY WorkerFacts DEF LocksInv, Items
  <2>2. TaskOK(thread[w].job)'
    BY <2>1 DEF TaskOK
  <2>3. \E x \in Running(w)' : x.do \in {"check", "send"}
    BY <1>4, <2>1 DEF WorkerOK
  <2>4. \/ \E x \in Running(w)' : x.do \in {"check", "publish"}
        \/ thread'[w].got.obj = thread'[w].job.obj /\ ResultOK(thread[w].got)'
    <3>1. CASE thread'[w].got.obj = thread[w].job.obj /\ ResultOK(thread'[w].got)
      BY <3>1 DEF ResultOK
    <3>2. CASE thread'[w].got = thread[w].got /\ Upcoming(w).do # "publish"
      <4>1. CASE \E x \in Running(w) : x.do \in {"check", "publish"}
        BY <1>4, <3>2, <4>1
      <4>2. CASE thread[w].got.obj = thread[w].job.obj /\ ResultOK(thread[w].got)
        BY <3>2, <4>2 DEF ResultOK
      <4> QED
        BY <2>1, <4>1, <4>2 DEF WorkerOK
    <3> QED
      BY <3>1, <3>2
  <2> QED
    BY <2>2, <2>3, <2>4 DEF WorkerOK
<1>7. \A u \in Threads \ {w} : thread'[u] = thread[u]
  BY <1>1 DEF LocksCore, Shapes
<1> QED
  BY <1>1, <1>3, <1>5, <1>6, <1>7, ThreadNames, ThreadStep

---------------------------------------------------------------------------
(* Each step keeps the invariant: the locks.                               *)
LEMMA LockStepKeeps ==
  ASSUME LocksInv, NEW t \in Threads, LockStep(t)
  PROVE  LocksInv'
<1> DEFINE h == Upcoming(t)
           S == Steps(Tail(thread[t].run))
<1>1. LocksCore /\ Busy(t)
  BY DEF LocksInv, LockStep, CanStep, Busy
<1>2. LocksCore'
  BY <1>1, LockStepCore
<1>3. /\ \A u \in Threads \ {t} : thread'[u] = thread[u]
      /\ thread'[t].run = Tail(thread[t].run)
      /\ \/ thread'[t].job = thread[t].job /\ thread'[t].got = thread[t].got
         \/ thread'[t].run = <<>>
  BY <1>1, LockStepThread
<1>4. Running(t) = {h} \cup S /\ Running(t)' = S
  <2>1. Running(t) = {h} \cup S
    BY <1>1, StepFacts
  <2> QED
    BY <1>3, <2>1 DEF Running
<1>5. h.do \in LockDo
  BY DoFields DEF LockStep, Lock, RLock, Unlock, RUnlock, LockDo
<1> HIDE DEF h, S
<1>6. \A x \in Running(t)' : x.do \in Role(t)
  BY <1>4 DEF LocksInv, Roles, Does
<1>7. UNCHANGED <<tasks, results, registered, head, life, pubRegion>>
  BY DEF LockStep, engineVars
<1>8. ASSUME t \in Workers PROVE WorkerOK(t)'
  <2>1. WorkerOK(t)
    BY <1>8 DEF LocksInv, Items
  <2>2. TaskOK(thread[t].job) /\ \E x \in Running(t) : x.do \in {"check", "send"}
    BY <1>1, <2>1 DEF WorkerOK
  <2>3. \A x \in Running(t) : x.do \in {"check", "send", "publish"} => x \in Running(t)'
    BY <1>4, <1>5 DEF LockDo
  <2>4. thread'[t].run # <<>>
    BY <2>2, <2>3, NoSteps DEF Running
  <2>5. thread'[t].job = thread[t].job /\ thread'[t].got = thread[t].got
    BY <1>3, <2>4
  <2>6. TaskOK(thread[t].job)'
    BY <1>7, <2>2, <2>5 DEF TaskOK
  <2>7. ResultOK(thread[t].got) => ResultOK(thread[t].got)'
    BY <1>7, <2>5 DEF ResultOK
  <2> QED
    BY <1>1, <2>1, <2>2, <2>3, <2>5, <2>6, <2>7 DEF WorkerOK
<1>9. ASSUME t = "dispatcher" PROVE DispatcherOK'
  <2>1. /\ thread[t].job.obj \in Objects
        /\ \E x \in Running(t) : x.do = "confirm"
    BY <1>1, <1>9 DEF LocksInv, Items, DispatcherOK
  <2>2. \E x \in Running(t)' : x.do = "confirm"
    BY <1>4, <1>5, <2>1 DEF LockDo
  <2>3. thread'[t].job = thread[t].job \/ thread'[t].run = <<>>
    BY <1>3
  <2> QED
    BY <1>9, <2>1, <2>2, <2>3 DEF DispatcherOK, Busy
<1>10. Busy(t)' => Busy(t) /\ thread'[t].job.obj = thread[t].job.obj
  BY <1>1, <1>3 DEF Busy
<1>11. pubRegion' \in [Objects -> RegionOrNone]
  BY <1>7 DEF LocksInv, Fields
<1> QED
  BY <1>2, <1>3, <1>6, <1>7, <1>8, <1>9, <1>10, <1>11, ThreadStep

---------------------------------------------------------------------------
(* The workers.                                                            *)
LEMMA CheckRegionKeeps ==
  ASSUME LocksInv, NEW w \in Workers, CheckRegion(w)
  PROVE  LocksInv'
<1> DEFINE t == thread[w].job
           c == Upcoming(w).on
<1>1. w \in Threads /\ LocksCore /\ Busy(w) /\ Upcoming(w).do = "check"
  BY ThreadNames DEF LocksInv, CheckRegion, CanStep, Busy
<1>2. /\ DataSound(t, Own(w), Upcoming(w), Steps(Tail(thread[w].run)))
      /\ Written(Running(w)) = {} /\ Read(Running(w)) = {Own(w)}
  BY <1>1, StepFacts
<1>3. c = Own(w) /\ t.kind = "update"
  BY <1>1, <1>2 DEF DataSound
<1>4. /\ TaskOK(t) /\ t.obj \in Objects /\ t.region \in Regions /\ life[t.obj] \in 1..MaxLives
      /\ Own(w) = Ctl(t.obj, life[t.obj])
  BY <1>1, WorkerFacts
<1>5. /\ thread = [x \in Threads |-> thread[x]]
      /\ thread[w] = [job |-> t, run |-> thread[w].run, got |-> thread[w].got, before |-> thread[w].before]
  BY <1>1 DEF LocksCore, Shapes
<1>6. UNCHANGED <<tasks, results, registered, head, life, lock, pubRegion>>
  BY DEF CheckRegion, engineVars
<1> DEFINE s == thread'[w].run
<1>7. /\ thread' = [thread EXCEPT ![w] = thread'[w]]
      /\ thread'[w] = [ job |-> thread'[w].job, run |-> thread'[w].run, got |-> thread'[w].got,
                        before |-> thread'[w].before ]
      /\ thread'[w].job = t
      /\ \/ s = UpdateProgram(c, t.region)
         \/ s = <<RUnlock(c), Send>> /\ thread'[w].got = Rejection(t)
  <2>1. CASE pubRegion[t.obj] = t.region
    <3>1. thread' = [thread EXCEPT ![w].run = UpdateProgram(c, t.region)]
      BY <2>1 DEF CheckRegion, GoesTo
    <3> QED
      BY <1>1, <1>5, <3>1
  <2>2. CASE pubRegion[t.obj] # t.region
    <3>1. thread' = [thread EXCEPT ![w].run = <<RUnlock(c), Send>>, ![w].got = Rejection(t)]
      BY <2>2 DEF CheckRegion
    <3> QED
      BY <1>1, <1>5, <3>1
  <2> QED
    BY <2>1, <2>2
<1> HIDE DEF t, c, s
<1>8. /\ Program(t, Own(w), s) /\ Written(Steps(s)) = {} /\ Read(Steps(s)) = {Own(w)}
      /\ \A x \in Steps(s) : x.do \in WorkerDo
      /\ \E x \in Steps(s) : x.do = "send"
      /\ (\E x \in Steps(s) : x.do = "publish") \/ thread'[w].got = Rejection(t)
  <2>1. CASE s = UpdateProgram(c, t.region)
    BY <1>3, <1>4, <2>1, UpdateSound
  <2>2. CASE s = <<RUnlock(c), Send>> /\ thread'[w].got = Rejection(t)
    BY <1>3, <1>4, <2>2, RejectSound
  <2> QED
    BY <1>7, <2>1, <2>2
<1>9. Own(w)' = Own(w)
  BY <1>6, <1>7 DEF Own, t
<1>10. LocksCore'
  BY <1>1, <1>2, <1>6, <1>7, <1>8, <1>9, QuietStep DEF s, t
<1>11. Running(w)' = Steps(s)
  BY DEF Running, s
<1>12. WorkerOK(w)'
  <2>1. TaskOK(thread[w].job)'
    BY <1>4, <1>6, <1>7 DEF TaskOK, t
  <2>2. thread'[w].got = Rejection(t) => thread'[w].got.obj = t.obj /\ ResultOK(thread[w].got)'
    BY <1>4 DEF Rejection, Result, ResultOK
  <2> QED
    BY <1>7, <1>8, <1>11, <2>1, <2>2 DEF WorkerOK
<1>13. \A x \in Running(w)' : x.do \in Role(w)
  BY <1>8, <1>11 DEF Role
<1>14. \A u \in Threads \ {w} : thread'[u] = thread[u]
  BY <1>5, <1>7
<1>15. w # "dispatcher" /\ pubRegion' \in [Objects -> RegionOrNone]
  BY <1>6, ThreadNames DEF LocksInv, Fields
<1> QED
  BY <1>1, <1>6, <1>7, <1>10, <1>12, <1>13, <1>14, <1>15, ThreadStep DEF t

LEMMA WriteTreeKeeps ==
  ASSUME LocksInv, NEW w \in Workers, WriteTree(w)
  PROVE  LocksInv'
<1>1. w \in Threads /\ Busy(w) /\ Upcoming(w).do \in {"enter", "leave"}
  BY ThreadNames DEF WriteTree, CanStep, Busy
<1>2. /\ thread = [x \in Threads |-> thread[x]]
      /\ thread[w] = [ job |-> thread[w].job, run |-> thread[w].run, got |-> thread[w].got,
                       before |-> thread[w].before ]
  BY <1>1, SMTT(30) DEF LocksInv, LocksCore, Shapes
<1>3. PICK b : thread' = [thread EXCEPT ![w].run = Tail(@), ![w].before = b]
  <2>1. thread' = [thread EXCEPT ![w].run = Tail(@),
            ![w].before = IF @ = None THEN [x \in Regions |-> tree[x][thread[w].job.obj]] ELSE @]
    BY DEF WriteTree
  <2> QED
    BY <1>1, <1>2, <2>1
<1>4. thread'[w] = [ job |-> thread[w].job, run |-> Tail(thread[w].run), got |-> thread[w].got,
                     before |-> b ]
  BY <1>1, <1>2, <1>3
<1>5. /\ thread' = [thread EXCEPT ![w] = thread'[w]]
      /\ thread'[w] = [ job |-> thread'[w].job, run |-> thread'[w].run, got |-> thread'[w].got,
                        before |-> thread'[w].before ]
      /\ thread'[w].job = thread[w].job /\ thread'[w].run = Tail(thread[w].run)
      /\ thread'[w].got = thread[w].got
  BY <1>1, <1>2, <1>3, <1>4
<1>6. UNCHANGED <<tasks, results, registered, head, life, lock, pubRegion>>
  BY DEF WriteTree
<1>7. pubRegion' \in [Objects -> RegionOrNone] /\ Upcoming(w).do # "publish"
  BY <1>1, <1>6 DEF LocksInv, Fields
<1> QED
  BY <1>1, <1>5, <1>6, <1>7, WorkerGoes

LEMMA PublishKeeps ==
  ASSUME LocksInv, NEW w \in Workers, Publish(w)
  PROVE  LocksInv'
<1> DEFINE t == thread[w].job
<1>1. w \in Threads /\ Busy(w) /\ Upcoming(w).do = "publish"
  BY ThreadNames DEF Publish, CanStep, Busy
<1>2. /\ thread = [x \in Threads |-> thread[x]]
      /\ thread[w] = [job |-> t, run |-> thread[w].run, got |-> thread[w].got, before |-> thread[w].before]
  BY <1>1 DEF LocksInv, LocksCore, Shapes
<1>3. TaskOK(t) /\ t.obj \in Objects /\ t.region \in Regions
  BY <1>1, WorkerFacts
<1>4. PICK old, p, inside, trans :
        /\ thread' = [thread EXCEPT ![w].run = Tail(@), ![w].got = Result(t, old, p, inside, trans),
                                    ![w].before = None]
        /\ t.kind = "remove" => old = t.region
  <2> DEFINE Got(res) ==
        thread' = [thread EXCEPT ![w].run = Tail(@), ![w].got = res, ![w].before = None]
  <2> HIDE DEF Got
  <2>1. \/ /\ t.kind \in {"init", "update"}
           /\ \E trans \in Changes(t.region, t.obj, t.pt) :
                Got(Result(t, None, t.pt, Inside(t.region, t.pt), trans))
        \/ /\ t.kind = "transition"
           /\ \E exits \in Exits(t.old, t.obj), trans \in Changes(t.region, t.obj, t.pt) :
                Got(Result(t, t.old, t.pt, Inside(t.region, t.pt), exits \o trans))
        \/ /\ t.kind = "remove"
           /\ \E exits \in Exits(t.region, t.obj) :
                Got(Result(t, t.region, thread[w].before[t.region], {}, exits))
    BY DEF Publish, Got
  <2>2. \E old, p, inside, trans :
          Got(Result(t, old, p, inside, trans)) /\ (t.kind = "remove" => old = t.region)
    BY <2>1
  <2> QED
    BY <2>2 DEF Got
<1> DEFINE res == Result(t, old, p, inside, trans)
<1>5. res.obj = t.obj /\ res.region = t.region /\ (t.kind = "remove" => res.old = t.region)
  BY <1>4 DEF Result
<1>6. ResultOK(res)
  BY <1>3, <1>5 DEF ResultOK, TaskOK
<1> HIDE DEF res
<1>7. thread'[w] = [job |-> t, run |-> Tail(thread[w].run), got |-> res, before |-> None]
  BY <1>1, <1>2, <1>4 DEF res
<1>8. /\ thread' = [thread EXCEPT ![w] = thread'[w]]
      /\ thread'[w] = [ job |-> thread'[w].job, run |-> thread'[w].run, got |-> thread'[w].got,
                        before |-> thread'[w].before ]
      /\ thread'[w].job = t /\ thread'[w].run = Tail(thread[w].run) /\ thread'[w].got = res
  BY <1>1, <1>2, <1>4, <1>7, ZenonT(40)
<1>9. UNCHANGED <<tasks, results, registered, head, life, lock>>
  BY DEF Publish
<1>10. pubRegion' \in [Objects -> RegionOrNone]
  <2>1. pubRegion' = [pubRegion EXCEPT ![t.obj] = IF t.kind = "remove" THEN None ELSE t.region]
    BY DEF Publish
  <2> QED
    BY <1>3, <2>1 DEF LocksInv, Fields, RegionOrNone
<1> QED
  BY <1>1, <1>5, <1>6, <1>8, <1>9, <1>10, WorkerGoes, SMTT(30)

LEMMA TaskSound ==
  ASSUME NEW t, TaskOK(t), life[t.obj] \in 1..MaxLives
  PROVE  LET s == TaskProgram(t)
         IN  /\ Program(t, Ctl(t.obj, life[t.obj]), s)
             /\ Written(Steps(s)) = {} /\ Read(Steps(s)) = {}
             /\ \A x \in Steps(s) : x.do \in WorkerDo
             /\ \E x \in Steps(s) : x.do \in {"check", "send"}
             /\ \E x \in Steps(s) : x.do \in {"check", "publish"}
<1> DEFINE c == Ctl(t.obj, life[t.obj])
<1>1. /\ t.obj \in Objects /\ t.region \in Regions
      /\ t.kind \in {"init", "update", "transition", "remove"}
      /\ t.kind = "transition" => t.old \in Regions /\ t.old # t.region
  BY DEF TaskOK, WorkerTask
<1>2. CASE t.kind = "init"
  <2>1. TaskProgram(t) = InitProgram(c, t.region)
    BY <1>2 DEF TaskProgram
  <2> QED
    BY <1>1, <1>2, <2>1, InitSound
<1>3. CASE t.kind = "update"
  <2>1. TaskProgram(t) = <<RLock(c), Do("check", c)>>
    BY <1>3 DEF TaskProgram
  <2> QED
    BY <1>1, <1>3, <2>1, CheckSound
<1>4. CASE t.kind = "transition"
  <2>1. TaskProgram(t) = TransitionProgram(c, t.old, t.region)
    BY <1>4 DEF TaskProgram
  <2> QED
    BY <1>1, <1>4, <2>1, TransitionSound
<1>5. CASE t.kind = "remove"
  <2>1. TaskProgram(t) = RemoveProgram(c, t.region)
    BY <1>5 DEF TaskProgram
  <2> QED
    BY <1>1, <1>5, <2>1, RemoveSound
<1> QED
  BY <1>1, <1>2, <1>3, <1>4, <1>5

LEMMA SendSound ==
  ASSUME NEW j, NEW c
  PROVE  LET s == <<Send>>
         IN  /\ Program(j, c, s) /\ Written(Steps(s)) = {} /\ Read(Steps(s)) = {}
             /\ \A x \in Steps(s) : x.do \in WorkerDo
             /\ \E x \in Steps(s) : x.do \in {"check", "send"}
<1> DEFINE s == <<Send>>
<1>1. Len(s) = 1 /\ s[1] = Send
  OBVIOUS
<1>2. s \in Seq(AnyStep)
  <2>1. Send \in AnyStep
    BY StepTypes
  <2> QED
    BY <2>1
<1> HIDE DEF s
<1>3. After(s, 1) = {} /\ Steps(s) = {Send}
  BY <1>1 DEF After, Steps
<1>4. Sound(j, c, Send, {})
  BY DEF Sound, LockSound, DataSound, LockDo, RegionWrites, Do, Send
<1>5. Program(j, c, s)
  <2>1. \A i \in 1..Len(s) : i = 1
    BY <1>1
  <2> QED
    BY <1>1, <1>2, <1>3, <1>4, <2>1 DEF Program
<1>6. Written({Send}) = {} /\ Read({Send}) = {}
  BY DEF Written, Read, GivesBack, Lock, Unlock, RLock, RUnlock, Do, Send
<1>7. Send.do = "send" /\ "send" \in WorkerDo
  BY DEF Send, Do, WorkerDo
<1> QED
  BY <1>3, <1>5, <1>6, <1>7 DEF s

LEMMA TakeTaskKeeps ==
  ASSUME LocksInv, NEW t \in tasks, TakeTask(t)
  PROVE  LocksInv'
<1> DEFINE w == ServedBy(t)
           s == thread'[w].run
<1>1. TaskOK(t) /\ t.obj \in Objects /\ t.region \in Regions
  BY DEF LocksInv, Items, TaskOK, WorkerTask
<1>2. <<"task", t>> \in Places(t.obj) /\ t.obj \in registered /\ head[t.obj] # None
  <2>1. <<"task", t>> \in Places(t.obj)
    BY DEF Places
  <2> QED
    BY <1>1, <2>1 DEF LocksInv, Alone
<1>3. life[t.obj] \in 1..MaxLives
  BY <1>1, <1>2, LocksAssumption DEF LocksInv, Fields
<1>4. w \in Workers /\ w \in Threads /\ w # "dispatcher"
  BY <1>1, ThreadNames DEF ServedBy, Workers
<1>5. thread[w] = Idle /\ thread[w].run = <<>> /\ ~Busy(w)
  BY DEF TakeTask, Idle, Busy
<1>6. /\ thread = [x \in Threads |-> thread[x]] /\ LocksCore
  BY DEF LocksInv, LocksCore, Shapes
<1>7. /\ tasks' = tasks \ {t}
      /\ UNCHANGED <<results, registered, head, life, lock, pubRegion>>
  BY DEF TakeTask
<1>8. /\ thread' = [thread EXCEPT ![w] = thread'[w]]
      /\ thread'[w] = [ job |-> thread'[w].job, run |-> thread'[w].run, got |-> thread'[w].got,
                        before |-> thread'[w].before ]
      /\ thread'[w].job = t
      /\ s = TaskProgram(t) \/ (s = <<Send>> /\ thread'[w].got = Rejection(t))
  <2>1. CASE t.kind = "update" /\ deleted[t.obj]
    <3>1. thread' = [thread EXCEPT ![w] = [Idle EXCEPT !.job = t, !.run = <<Send>>, !.got = Rejection(t)]]
      BY <2>1 DEF TakeTask
    <3>2. thread'[w] = [job |-> t, run |-> <<Send>>, got |-> Rejection(t), before |-> None]
      BY <1>4, <1>6, <3>1 DEF Idle
    <3> QED
      BY <1>4, <1>6, <3>1, <3>2
  <2>2. CASE ~(t.kind = "update" /\ deleted[t.obj])
    <3>1. thread' = [thread EXCEPT ![w] = [Idle EXCEPT !.job = t, !.run = TaskProgram(t)]]
      BY <1>2, <2>2 DEF TakeTask, Starts
    <3>2. thread'[w] = [job |-> t, run |-> TaskProgram(t), got |-> None, before |-> None]
      BY <1>4, <1>6, <3>1 DEF Idle
    <3> QED
      BY <1>4, <1>6, <3>1, <3>2
  <2> QED
    BY <2>1, <2>2
<1>9. \A u \in Threads \ {w} : thread'[u] = thread[u]
  BY <1>6, <1>8
<1> HIDE DEF w, s
<1>10. Own(w)' = Ctl(t.obj, life[t.obj])
  BY <1>4, <1>7, <1>8, ThreadNames DEF Own
<1>11. /\ Program(t, Ctl(t.obj, life[t.obj]), s) /\ Written(Steps(s)) = {} /\ Read(Steps(s)) = {}
       /\ \A x \in Steps(s) : x.do \in WorkerDo
       /\ \E x \in Steps(s) : x.do \in {"check", "send"}
       /\ (\E x \in Steps(s) : x.do \in {"check", "publish"}) \/ thread'[w].got = Rejection(t)
  <2>1. CASE s = TaskProgram(t)
    BY <1>1, <1>3, <2>1, TaskSound
  <2>2. CASE s = <<Send>> /\ thread'[w].got = Rejection(t)
    BY <2>2, SendSound
  <2> QED
    BY <1>8, <2>1, <2>2
<1>12. LocksCore'
  <2>1. Written(Running(w)) = {} /\ Read(Running(w)) = {}
    BY <1>5, NoSteps DEF Running
  <2> QED
    BY <1>4, <1>6, <1>7, <1>8, <1>10, <1>11, <2>1, QuietStep DEF s
<1>13. Running(w)' = Steps(s)
  BY DEF Running, s
<1>14. Roles'
  <2>1. \A x \in Running(w)' : x.do \in Role(w)
    BY <1>4, <1>11, <1>13 DEF Role
  <2> QED
    BY <1>4, <1>9, <2>1, RolesKept DEF LocksInv
<1>15. \A o \in Objects : Alone(o)'
  <2>1. TAKE o \in Objects
  <2>2. \A u \in (Workers \cup {"dispatcher"}) \ {w} : thread'[u] = thread[u]
    BY <1>9, ThreadNames
  <2>3. CASE o # t.obj
    <3>1. Places(o)' \subseteq Places(o)
      BY <1>7, <1>8, <2>2, <2>3 DEF Places, Busy
    <3> QED
      BY <1>7, <3>1 DEF LocksInv, Alone
  <2>4. CASE o = t.obj
    <3>1. Places(o)' \subseteq (Places(o) \ {<<"task", t>>}) \cup {<<"thread", w>>}
      BY <1>7, <1>8, <2>2, <2>4 DEF Places, Busy
    <3> QED
      BY <1>2, <1>7, <2>4, <3>1, MovesOn DEF LocksInv
  <2> QED
    BY <2>3, <2>4
<1>16. Items'
  <2>1. /\ \A u \in Workers \ {w} : WorkerOK(u)'
        /\ DispatcherOK'
        /\ \A x : TaskOK(x) => TaskOK(x)'
        /\ \A x : ResultOK(x) => ResultOK(x)'
    BY <1>4, <1>7, <1>9, OthersKept
  <2>2. WorkerOK(w)'
    <3>1. TaskOK(t)'
      BY <1>1, <2>1
    <3>2. TaskOK(thread[w].job)'
      BY <1>8, <3>1 DEF TaskOK
    <3>3. thread'[w].got = Rejection(t) => thread'[w].got.obj = t.obj /\ ResultOK(thread[w].got)'
      BY <1>1 DEF Rejection, Result, ResultOK
    <3> QED
      BY <1>8, <1>11, <1>13, <3>2, <3>3 DEF WorkerOK
  <2>3. (\A x \in tasks' : TaskOK(x)') /\ (\A res \in results' : ResultOK(res)')
    BY <1>7, <2>1 DEF LocksInv, Items
  <2> QED
    BY <2>1, <2>2, <2>3 DEF Items
<1>17. Fields'
  BY <1>7 DEF LocksInv, Fields
<1> QED
  BY <1>12, <1>14, <1>15, <1>16, <1>17 DEF LocksInv

LEMMA SendResultKeeps ==
  ASSUME LocksInv, NEW w \in Workers, SendResult(w)
  PROVE  LocksInv'
<1> DEFINE j == thread[w].job
           res == thread[w].got
<1>1. w \in Threads /\ Busy(w) /\ Upcoming(w).do = "send" /\ w # "dispatcher" /\ LocksCore
  BY ThreadNames DEF SendResult, CanStep, Busy, LocksInv
<1>2. /\ j.obj \in Objects /\ j.obj \in registered /\ head[j.obj] # None
      /\ <<"thread", w>> \in Places(j.obj)
  BY <1>1, WorkerFacts
<1>3. /\ results' = results \cup {res} /\ Ends(w)
      /\ UNCHANGED <<tasks, registered, head, life, lock, pubRegion>>
  BY DEF SendResult
<1>4. /\ LocksCore' /\ Running(w) = {Upcoming(w)}
      /\ thread'[w].run = <<>> /\ \A u \in Threads \ {w} : thread'[u] = thread[u]
  BY <1>1, <1>3, EndsCore
<1>5. res.obj = j.obj /\ ResultOK(res)
  <2>1. WorkerOK(w)
    BY DEF LocksInv, Items
  <2>2. ~ \E x \in Running(w) : x.do \in {"check", "publish"}
    BY <1>1, <1>4
  <2> QED
    BY <1>1, <2>1, <2>2 DEF WorkerOK
<1>6. Running(w)' = {} /\ ~Busy(w)'
  BY <1>4, NoSteps DEF Running, Busy
<1> HIDE DEF j, res
<1>7. Roles'
  BY <1>1, <1>4, <1>6, RolesKept DEF LocksInv
<1>8. \A o \in Objects : Alone(o)'
  <2>1. TAKE o \in Objects
  <2>2. \A u \in (Workers \cup {"dispatcher"}) \ {w} : thread'[u] = thread[u]
    BY <1>4, ThreadNames
  <2>3. CASE o # j.obj
    <3>1. Places(o)' \subseteq Places(o)
      BY <1>3, <1>5, <1>6, <2>2, <2>3 DEF Places, Busy
    <3> QED
      BY <1>3, <3>1 DEF LocksInv, Alone
  <2>4. CASE o = j.obj
    <3>1. Places(o)' \subseteq (Places(o) \ {<<"thread", w>>}) \cup {<<"result", res>>}
      BY <1>3, <1>6, <2>2, <2>4 DEF Places, Busy
    <3> QED
      BY <1>2, <1>3, <2>4, <3>1, MovesOn DEF LocksInv
  <2> QED
    BY <2>3, <2>4
<1>9. Items'
  <2>1. /\ \A u \in Workers \ {w} : WorkerOK(u)'
        /\ DispatcherOK'
        /\ \A x : TaskOK(x) => TaskOK(x)'
        /\ \A x : ResultOK(x) => ResultOK(x)'
    BY <1>1, <1>3, <1>4, OthersKept
  <2>2. WorkerOK(w)'
    BY <1>6 DEF WorkerOK
  <2>3. (\A x \in tasks' : TaskOK(x)') /\ (\A x \in results' : ResultOK(x)')
    BY <1>3, <1>5, <2>1 DEF LocksInv, Items
  <2> QED
    BY <2>1, <2>2, <2>3 DEF Items
<1>10. Fields'
  BY <1>3 DEF LocksInv, Fields
<1> QED
  BY <1>4, <1>7, <1>8, <1>9, <1>10 DEF LocksInv

---------------------------------------------------------------------------
(* The dispatcher.                                                         *)

(* Most programs are sound whichever ObjCtl they are about.                *)
LEMMA OfAnyObject ==
  ASSUME NEW j, NEW c, NEW s, Program(j, c, s), NEW d,
         \A x \in Steps(s) : x.do \notin {"check", "locate", "publish"}
  PROVE  Program(j, d, s)
<1>1. s \in Seq(AnyStep) /\ \A i \in 1..Len(s) : Sound(j, c, s[i], After(s, i))
  BY DEF Program
<1>2. \A i \in 1..Len(s) : s[i] \in Steps(s)
  BY <1>1 DEF Steps, After
<1>3. \A i \in 1..Len(s) : s[i].do \notin {"check", "locate", "publish"}
  BY <1>2
<1>4. \A i \in 1..Len(s) : Sound(j, d, s[i], After(s, i))
  BY <1>1, <1>3 DEF Sound, DataSound
<1> QED
  BY <1>1, <1>4 DEF Program

(* What the dispatcher works on.                                           *)
LEMMA DispatcherFacts ==
  ASSUME LocksInv, Busy("dispatcher")
  PROVE  LET o == thread["dispatcher"].job.obj
         IN  /\ o \in Objects /\ o \in registered /\ head[o] # None
             /\ <<"thread", "dispatcher">> \in Places(o)
<1> DEFINE o == thread["dispatcher"].job.obj
<1>1. o \in Objects
  BY DEF LocksInv, Items, DispatcherOK
<1>2. <<"thread", "dispatcher">> \in Places(o)
  BY DEF Places
<1> QED
  BY <1>1, <1>2 DEF LocksInv, Alone

LEMMA RegisterKeeps ==
  ASSUME LocksInv, NEW o \in Objects, Register(o)
  PROVE  LocksInv'
<1>1. /\ o \notin registered /\ life[o] < MaxLives
      /\ registered' = registered \cup {o} /\ life' = [life EXCEPT ![o] = @ + 1]
      /\ pubRegion' = [pubRegion EXCEPT ![o] = None]
      /\ UNCHANGED <<tasks, results, head, thread, lock>>
  BY DEF Register, dispatcherFrame
<1>2. LocksCore
  BY DEF LocksInv
<1>3. \A u \in Objects \ {o} : life'[u] = life[u]
  BY <1>1 DEF LocksInv, Fields
<1>4. ASSUME NEW u \in Threads PROVE Program(thread[u].job, Own(u)', thread[u].run)
  <2>1. Program(thread[u].job, Own(u), thread[u].run)
    BY <1>2 DEF LocksCore, Programs
  <2>2. CASE ~Busy(u)
    BY <2>2, NoProgram DEF Busy
  <2>3. CASE Busy(u) /\ u \in Workers
    <3>1. thread[u].job.obj \in Objects \ {o}
      BY <1>1, <2>3, WorkerFacts
    <3>2. Own(u)' = Own(u)
      BY <1>1, <1>3, <2>3, <3>1, ThreadNames DEF Own
    <3> QED
      BY <2>1, <3>2
  <2>4. CASE u \in Queries
    <3>1. Own(u)' = Own(u)
      BY <1>1, <2>4 DEF Own
    <3> QED
      BY <2>1, <3>1
  <2>5. CASE u \in {"dispatcher", "watcher"}
    <3>1. \A x \in Running(u) : x.do \in Role(u)
      BY DEF LocksInv, Roles, Does
    <3>2. \A x \in Steps(thread[u].run) : x.do \notin {"check", "locate", "publish"}
      BY <2>5, <3>1, ThreadNames DEF Role, Running, DispatcherDo, WatcherDo, LockDo
    <3> QED
      BY <2>1, <3>2, OfAnyObject
  <2> QED
    BY <2>2, <2>3, <2>4, <2>5 DEF Threads
<1>5. LocksCore'
  <2>1. "dispatcher" \in Threads
    BY ThreadNames
  <2>2. /\ thread' = [thread EXCEPT !["dispatcher"] = thread'["dispatcher"]]
        /\ thread'["dispatcher"] =
             [ job |-> thread'["dispatcher"].job, run |-> thread'["dispatcher"].run,
               got |-> thread'["dispatcher"].got, before |-> thread'["dispatcher"].before ]
    BY <1>1, <1>2, <2>1 DEF LocksCore, Shapes
  <2>3. Steps(thread'["dispatcher"].run) = Running("dispatcher")
    BY <1>1 DEF Running
  <2>4. \A u \in Threads : Program(thread'[u].job, Own(u)', thread'[u].run)
    BY <1>1, <1>4
  <2> QED
    BY <1>1, <1>2, <2>1, <2>2, <2>3, <2>4, QuietCore
<1>6. Roles'
  BY <1>1 DEF LocksInv, Roles, Does, Role, Running
<1>7. \A u \in Objects : Alone(u)'
  <2>1. \A u : Places(u)' = Places(u)
    BY <1>1 DEF Places, Busy
  <2> QED
    BY <1>1, <2>1 DEF LocksInv, Alone
<1>8. Items'
  BY <1>1 DEF LocksInv, Items, TaskOK, ResultOK, WorkerOK, DispatcherOK, Busy, Running
<1>9. Fields'
  BY <1>1, LocksAssumption DEF LocksInv, Fields, RegionOrNone
<1> QED
  BY <1>5, <1>6, <1>7, <1>8, <1>9 DEF LocksInv

(* A step of the dispatcher that no thread sees.                           *)
LEMMA UnseenCore ==
  ASSUME LocksCore, Roles, UNCHANGED <<thread, lock, life>>
  PROVE  LocksCore' /\ Roles'
<1>1. \A u : Running(u)' = Running(u) /\ Own(u)' = Own(u)
  BY DEF Running, Own
<1>2. Roles'
  BY <1>1 DEF Roles, Does, Role
<1>3. Shapes' /\ Programs' /\ Linked'
  BY <1>1 DEF LocksCore, Shapes, Programs, Linked
<1>4. Topmost'
  <2>1. \A u, l : Climbs(l, Running(u))' = Climbs(l, Running(u))
    BY DEF Climbs, HeldIn, Written, Read, GivesBack, Level, Position, Running
  <2> QED
    BY <2>1 DEF LocksCore, Topmost, Stuck
<1> QED
  BY <1>2, <1>3, <1>4 DEF LocksCore

LEMMA RemoveUnplacedKeeps ==
  ASSUME LocksInv, NEW o \in Objects, RemoveUnplaced(o)
  PROVE  LocksInv'
<1>1. /\ head[o] = None /\ registered' = registered \ {o}
      /\ UNCHANGED <<tasks, results, head, life, thread, lock, pubRegion>>
  BY DEF RemoveUnplaced, dispatcherFrame
<1>2. LocksCore' /\ Roles'
  BY <1>1, UnseenCore DEF LocksInv
<1>3. \A u \in Objects : Alone(u)'
  <2>1. \A u : Places(u)' = Places(u)
    BY <1>1 DEF Places, Busy
  <2> QED
    BY <1>1, <2>1 DEF LocksInv, Alone
<1>4. Items'
  BY <1>1 DEF LocksInv, Items, TaskOK, ResultOK, WorkerOK, DispatcherOK, Busy, Running
<1>5. Fields'
  BY <1>1 DEF LocksInv, Fields
<1> QED
  BY <1>2, <1>3, <1>4, <1>5 DEF LocksInv

LEMMA DispatchKeeps ==
  ASSUME LocksInv, NEW o \in Objects, Dispatch(o)
  PROVE  LocksInv'
<1>1. /\ o \in registered /\ head[o] = None
      /\ UNCHANGED <<results, registered, life, thread, lock, pubRegion>>
  BY DEF Dispatch, dispatcherFrame
<1>2. Places(o) = {}
  BY <1>1 DEF LocksInv, Alone
<1>3. PICK t : /\ tasks' = tasks \cup {t} /\ t.obj = o /\ t \in WorkerTask
               /\ t.kind = "transition" => t.old # t.region
               /\ \/ t.kind = "remove" /\ head' = [head EXCEPT ![o] = "remove"]
                  \/ t.kind # "remove" /\ head' = [head EXCEPT ![o] = "update"]
  <2>1. pubRegion[o] \in RegionOrNone
    BY DEF LocksInv, Fields
  <2>2. ASSUME NEW p \in Points, Resolve[<<p, pubRegion[o]>>] # None,
               head' = [head EXCEPT ![o] = "update"],
               NEW k, k = (IF pubRegion[o] = None THEN "init"
                           ELSE IF Resolve[<<p, pubRegion[o]>>] = pubRegion[o] THEN "update" ELSE "transition"),
               tasks' = tasks \cup {TaskFor(k, o, p, Resolve[<<p, pubRegion[o]>>])}
        PROVE  \E t : /\ tasks' = tasks \cup {t} /\ t.obj = o /\ t \in WorkerTask
                      /\ t.kind = "transition" => t.old # t.region
                      /\ \/ t.kind = "remove" /\ head' = [head EXCEPT ![o] = "remove"]
                         \/ t.kind # "remove" /\ head' = [head EXCEPT ![o] = "update"]
    <3> DEFINE r == Resolve[<<p, pubRegion[o]>>]
               t == TaskFor(k, o, p, r)
    <3>1. r \in Regions
      BY <2>1, <2>2, DataAssumption DEF RegionOrNone
    <3>2. k \in {"init", "update", "transition"} /\ (k = "transition" => pubRegion[o] # None /\ r # pubRegion[o])
      BY <2>2
    <3>3. t = [kind |-> k, obj |-> o, op |-> 0, pt |-> p, region |-> r, old |-> pubRegion[o]]
      BY <3>2 DEF TaskFor
    <3>4. t \in WorkerTask
      BY <2>1, <3>1, <3>2, <3>3 DEF WorkerTask, RegionOrNone, PointOrNone
    <3>5. t.obj = o /\ t.kind = k /\ t.old = pubRegion[o] /\ t.region = r
      BY <3>3
    <3> HIDE DEF r, t
    <3>6. tasks' = tasks \cup {t}
      BY <2>2 DEF r, t
    <3> QED
      BY <2>2, <3>2, <3>4, <3>5, <3>6
  <2>3. ASSUME pubRegion[o] # None, head' = [head EXCEPT ![o] = "remove"],
               tasks' = tasks \cup {TaskFor("remove", o, None, pubRegion[o])}
        PROVE  \E t : /\ tasks' = tasks \cup {t} /\ t.obj = o /\ t \in WorkerTask
                      /\ t.kind = "transition" => t.old # t.region
                      /\ \/ t.kind = "remove" /\ head' = [head EXCEPT ![o] = "remove"]
                         \/ t.kind # "remove" /\ head' = [head EXCEPT ![o] = "update"]
    <3> DEFINE t == TaskFor("remove", o, None, pubRegion[o])
    <3>1. t = [kind |-> "remove", obj |-> o, op |-> 0, pt |-> None, region |-> pubRegion[o], old |-> None]
      BY DEF TaskFor
    <3>2. t \in WorkerTask
      BY <2>1, <2>3, <3>1 DEF WorkerTask, RegionOrNone, PointOrNone
    <3>3. t.obj = o /\ t.kind = "remove"
      BY <3>1
    <3> HIDE DEF t
    <3>4. tasks' = tasks \cup {t}
      BY <2>3 DEF t
    <3> QED
      BY <2>3, <3>2, <3>3, <3>4
  <2> QED
    BY <2>2, <2>3 DEF Dispatch
<1>4. LocksCore' /\ Roles'
  BY <1>1, UnseenCore DEF LocksInv
<1>5. /\ \A u \in Objects \ {o} : head'[u] = head[u]
      /\ head'[o] \in {"update", "remove"} /\ head'[o] # None
      /\ t.kind = "remove" <=> head'[o] = "remove"
  <2>1. head \in [Objects -> {"register", "update", "remove", None}]
    BY DEF LocksInv, Fields
  <2>2. None \notin {"update", "remove"}
    BY NamesAssumption
  <2> QED
    BY <1>3, <2>1, <2>2
<1>6. \A u \in Objects : Alone(u)'
  <2>1. TAKE u \in Objects
  <2>2. CASE u # o
    <3>1. Places(u)' \subseteq Places(u)
      BY <1>1, <1>3, <2>2 DEF Places, Busy
    <3> QED
      BY <1>1, <1>5, <2>2, <3>1 DEF LocksInv, Alone
  <2>3. CASE u = o
    <3>1. Places(o)' \subseteq Places(o) \cup {<<"task", t>>}
      BY <1>1, <1>3 DEF Places, Busy
    <3> QED
      BY <1>1, <1>2, <1>5, <2>3, <3>1 DEF Alone
  <2> QED
    BY <2>2, <2>3
<1>7. Items'
  <2>1. /\ \A w \in Workers : Busy(w) => thread[w].job.obj # o
        /\ \A x \in tasks : x.obj # o
        /\ \A x \in results : x.obj # o
    BY <1>2 DEF Places
  <2>2. "watcher" \in Threads /\ "watcher" \notin Workers /\ "dispatcher" # "watcher"
    BY ThreadNames
  <2>3. /\ \A w \in Workers : WorkerOK(w)'
        /\ DispatcherOK'
        /\ \A x : TaskOK(x) /\ x.obj # o => TaskOK(x)'
        /\ \A x : ResultOK(x) /\ x.obj # o => ResultOK(x)'
    BY <1>1, <1>5, <2>1, <2>2, OthersKept
  <2>4. TaskOK(t)'
    BY <1>3, <1>5 DEF TaskOK
  <2>5. (\A x \in tasks' : TaskOK(x)') /\ (\A x \in results' : ResultOK(x)')
    BY <1>1, <1>3, <2>1, <2>3, <2>4 DEF LocksInv, Items
  <2> QED
    BY <2>3, <2>5 DEF Items
<1>8. Fields'
  BY <1>1, <1>3 DEF LocksInv, Fields
<1> QED
  BY <1>4, <1>6, <1>7, <1>8 DEF LocksInv

(* An object whose command is done with is free again.                     *)
LEMMA FreesMailbox ==
  ASSUME LocksInv, \A u \in Threads \ {"dispatcher"} : thread'[u] = thread[u], ~Busy("dispatcher")',
         NEW o \in Objects, NEW a \in Places(o), Places(o)' \subseteq Places(o) \ {a},
         \A u \in Objects \ {o} : Places(u)' \subseteq Places(u),
         head' = [head EXCEPT ![o] = None],
         tasks' \subseteq tasks, results' \subseteq results,
         \A u \in Objects \ {o} : u \in registered => u \in registered'
  PROVE  (\A u \in Objects : Alone(u)') /\ Items'
<1>1. Alone(o) /\ Places(o)' = {}
  BY DEF LocksInv, Alone
<1>2. \A u \in Objects \ {o} : head'[u] = head[u]
  BY DEF LocksInv, Fields
<1>3. \A u \in Objects : Alone(u)'
  BY <1>1, <1>2 DEF LocksInv, Alone
<1>4. /\ \A w \in Workers : Busy(w)' => thread'[w].job.obj # o
      /\ \A x \in tasks' \cup results' : x.obj # o
  <2>1. ASSUME NEW w \in Workers, Busy(w)', thread'[w].job.obj = o PROVE FALSE
    <3>1. <<"thread", w>> \in Places(o)'
      BY <2>1 DEF Places
    <3> QED
      BY <1>1, <3>1
  <2>2. ASSUME NEW x \in tasks', x.obj = o PROVE FALSE
    <3>1. <<"task", x>> \in Places(o)'
      BY <2>2 DEF Places
    <3> QED
      BY <1>1, <3>1
  <2>3. ASSUME NEW x \in results', x.obj = o PROVE FALSE
    <3>1. <<"result", x>> \in Places(o)'
      BY <2>3 DEF Places
    <3> QED
      BY <1>1, <3>1
  <2> QED
    BY <2>1, <2>2, <2>3
<1>5. \A w \in Workers \ {"dispatcher"} : Busy(w) => thread[w].job.obj # o
  BY <1>4, ThreadNames DEF Busy
<1>6. /\ \A w \in Workers \ {"dispatcher"} : WorkerOK(w)'
      /\ \A x : TaskOK(x) /\ x.obj # o => TaskOK(x)'
      /\ \A x : ResultOK(x) /\ x.obj # o => ResultOK(x)'
  BY <1>2, <1>5, ThreadNames, OthersKept
<1>7. DispatcherOK'
  BY DEF DispatcherOK
<1>8. (\A x \in tasks' : TaskOK(x)') /\ (\A x \in results' : ResultOK(x)')
  BY <1>4, <1>6 DEF LocksInv, Items
<1> QED
  BY <1>3, <1>6, <1>7, <1>8, ThreadNames DEF Items

LEMMA TakeResultKeeps ==
  ASSUME LocksInv, NEW res \in results, TakeResult(res)
  PROVE  LocksInv'
<1> DEFINE o == res.obj
           t == "dispatcher"
<1>1. ResultOK(res) /\ o \in Objects
  BY DEF LocksInv, Items, ResultOK
<1>2. <<"result", res>> \in Places(o)
  BY DEF Places
<1>3. o \in registered /\ head[o] # None
  BY <1>1, <1>2 DEF LocksInv, Alone
<1>4. /\ results' = results \ {res} /\ thread[t] = Idle
      /\ UNCHANGED <<tasks, registered, life, lock, pubRegion>>
  BY DEF TakeResult, dispatcherFrame
<1>5. t \in Threads /\ t \notin Workers /\ LocksCore /\ thread = [x \in Threads |-> thread[x]]
  BY ThreadNames DEF LocksInv, LocksCore, Shapes
<1>6. Fields'
  BY <1>4 DEF LocksInv, Fields, TakeResult
<1>7. CASE ~res.ready
  <2>1. head' = [head EXCEPT ![o] = None] /\ UNCHANGED thread
    BY <1>7 DEF TakeResult
  <2>2. LocksCore' /\ Roles'
    BY <1>4, <2>1, UnseenCore DEF LocksInv
  <2>3. /\ Places(o)' \subseteq Places(o) \ {<<"result", res>>}
        /\ \A u \in Objects \ {o} : Places(u)' \subseteq Places(u)
    BY <1>4, <2>1 DEF Places, Busy
  <2>4. ~Busy(t)'
    BY <1>4, <2>1 DEF Busy, Idle
  <2>5. (\A u \in Objects : Alone(u)') /\ Items'
    BY <1>1, <1>2, <1>4, <2>1, <2>3, <2>4, FreesMailbox
  <2> QED
    BY <1>6, <2>2, <2>5 DEF LocksInv
<1>8. CASE res.ready
  <2> DEFINE r == IF head[o] = "remove" THEN res.old ELSE res.region
             s == SnapshotProgram(r)
  <2>1. thread' = [thread EXCEPT ![t] = [Idle EXCEPT !.job = res, !.run = s]] /\ UNCHANGED head
    BY <1>8 DEF TakeResult, Starts
  <2>2. thread'[t] = [job |-> res, run |-> s, got |-> None, before |-> None]
    BY <1>5, <2>1 DEF Idle
  <2>3. /\ thread' = [thread EXCEPT ![t] = thread'[t]]
        /\ thread'[t] = [ job |-> thread'[t].job, run |-> thread'[t].run, got |-> thread'[t].got,
                          before |-> thread'[t].before ]
        /\ thread'[t].job = res /\ thread'[t].run = s
        /\ \A u \in Threads \ {t} : thread'[u] = thread[u]
    BY <1>5, <2>1, <2>2
  <2>4. r \in Regions
    BY <1>1, <1>8 DEF ResultOK
  <2> HIDE DEF r, s
  <2>5. /\ Program(res, Own(t)', s) /\ Written(Steps(s)) = {} /\ Read(Steps(s)) = {}
        /\ \A x \in Steps(s) : x.do \in DispatcherDo
        /\ \E x \in Steps(s) : x.do = "confirm"
    <3>1. PICK c : c = Own(t)'
      OBVIOUS
    <3> QED
      BY <2>4, <3>1, SnapshotSound DEF s
  <2>6. Written(Running(t)) = {} /\ Read(Running(t)) = {} /\ ~Busy(t)
    <3>1. thread[t].run = <<>>
      BY <1>4 DEF Idle
    <3>2. Running(t) = {}
      BY <3>1, NoSteps DEF Running
    <3> QED
      BY <3>1, <3>2, NoSteps DEF Busy
  <2>7. LocksCore'
    BY <1>4, <1>5, <2>3, <2>5, <2>6, QuietStep
  <2>8. Running(t)' = Steps(s)
    BY <2>3 DEF Running
  <2>9. Roles'
    <3>1. \A x \in Running(t)' : x.do \in Role(t)
      BY <1>5, <2>5, <2>8 DEF Role
    <3> QED
      BY <1>5, <2>3, <3>1, RolesKept DEF LocksInv
  <2>10. \A u \in Objects : Alone(u)'
    <3>1. TAKE u \in Objects
    <3>2. \A w \in Workers : thread'[w] = thread[w]
      BY <1>5, <2>3, ThreadNames
    <3>3. CASE u # o
      <4>1. Places(u)' \subseteq Places(u)
        BY <1>4, <2>3, <3>2, <3>3 DEF Places, Busy
      <4> QED
        BY <1>4, <2>1, <4>1 DEF LocksInv, Alone
    <3>4. CASE u = o
      <4>1. Places(o)' \subseteq (Places(o) \ {<<"result", res>>}) \cup {<<"thread", t>>}
        BY <1>4, <2>3, <3>2 DEF Places, Busy
      <4> QED
        BY <1>1, <1>2, <1>3, <1>4, <2>1, <3>4, <4>1, MovesOn DEF LocksInv
    <3> QED
      BY <3>3, <3>4
  <2>11. Items'
    <3>1. /\ \A w \in Workers \ {t} : WorkerOK(w)'
          /\ \A x : TaskOK(x) => TaskOK(x)'
          /\ \A x : ResultOK(x) => ResultOK(x)'
      BY <1>5, <2>1, <2>3, OthersKept
    <3>2. DispatcherOK'
      BY <1>1, <2>3, <2>5, <2>8 DEF DispatcherOK
    <3> QED
      BY <1>4, <1>5, <3>1, <3>2 DEF LocksInv, Items
  <2> QED
    BY <1>6, <2>7, <2>9, <2>10, <2>11 DEF LocksInv
<1> QED
  BY <1>7, <1>8

LEMMA WriteSnapshotKeeps ==
  ASSUME LocksInv, WriteSnapshot
  PROVE  LocksInv'
<1> DEFINE t == "dispatcher"
<1>1. t \in Threads /\ t \notin Workers /\ Busy(t) /\ Upcoming(t).do = "snapshot" /\ LocksCore
  BY ThreadNames DEF WriteSnapshot, CanStep, Busy, LocksInv
<1>2. /\ thread' = [thread EXCEPT ![t].run = Tail(@)]
      /\ UNCHANGED <<tasks, results, registered, head, life, lock, pubRegion>>
  BY DEF WriteSnapshot, Goes, dispatcherFrame
<1>3. /\ thread = [x \in Threads |-> thread[x]]
      /\ thread[t] = [ job |-> thread[t].job, run |-> thread[t].run, got |-> thread[t].got,
                       before |-> thread[t].before ]
  BY <1>1 DEF LocksCore, Shapes
<1>4. thread'[t] = [ job |-> thread[t].job, run |-> Tail(thread[t].run), got |-> thread[t].got,
                     before |-> thread[t].before ]
  BY <1>1, <1>2, <1>3
<1>5. /\ thread' = [thread EXCEPT ![t] = thread'[t]]
      /\ thread'[t] = [ job |-> thread'[t].job, run |-> thread'[t].run, got |-> thread'[t].got,
                        before |-> thread'[t].before ]
      /\ thread'[t].job = thread[t].job /\ thread'[t].run = Tail(thread[t].run)
      /\ \A u \in Threads \ {t} : thread'[u] = thread[u]
  BY <1>1, <1>2, <1>3, <1>4
<1>6. Upcoming(t).do \notin LockDo \cup {"check", "locate"}
  BY <1>1 DEF LockDo
<1>7. LocksCore' /\ Running(t)' \subseteq Running(t)
  BY <1>1, <1>2, <1>5, <1>6, GoesCore
<1>8. Running(t) = {Upcoming(t)} \cup Running(t)'
  <2>1. Running(t) = {Upcoming(t)} \cup Steps(Tail(thread[t].run))
    BY <1>1, StepFacts
  <2> QED
    BY <1>5, <2>1 DEF Running
<1>9. DispatcherOK'
  BY <1>1, <1>5, <1>8 DEF LocksInv, Items, DispatcherOK
<1>10. \A x \in Running(t)' : x.do \in Role(t)
  BY <1>1, <1>7 DEF LocksInv, Roles, Does
<1>11. pubRegion' \in [Objects -> RegionOrNone]
  BY <1>2 DEF LocksInv, Fields
<1> QED
  BY <1>1, <1>2, <1>5, <1>7, <1>9, <1>10, <1>11, ThreadStep

LEMMA ConfirmKeeps ==
  ASSUME LocksInv, Confirm
  PROVE  LocksInv'
<1> DEFINE t == "dispatcher"
           o == thread[t].job.obj
<1>1. t \in Threads /\ t \notin Workers /\ Busy(t) /\ Upcoming(t).do = "confirm" /\ LocksCore
  BY ThreadNames DEF Confirm, CanStep, Busy, LocksInv
<1>2. /\ registered' = (IF head[o] = "remove" THEN registered \ {o} ELSE registered)
      /\ head' = [head EXCEPT ![o] = None] /\ Ends(t)
      /\ UNCHANGED <<tasks, results, life, lock, pubRegion>>
  BY DEF Confirm, dispatcherFrame
<1>3. o \in Objects /\ <<"thread", t>> \in Places(o)
  BY <1>1, DispatcherFacts
<1>4. /\ LocksCore' /\ thread'[t].run = <<>>
      /\ \A u \in Threads \ {t} : thread'[u] = thread[u]
  BY <1>1, <1>2, EndsCore
<1>5. Running(t)' = {} /\ ~Busy(t)'
  BY <1>4, NoSteps DEF Running, Busy
<1>6. Roles'
  BY <1>1, <1>4, <1>5, RolesKept DEF LocksInv
<1>7. \A w \in Workers : thread'[w] = thread[w]
  BY <1>1, <1>4, ThreadNames
<1>8. PICK p : p = o
  OBVIOUS
<1>9. /\ Places(p)' \subseteq Places(p) \ {<<"thread", t>>}
      /\ \A u \in Objects \ {p} : Places(u)' \subseteq Places(u)
  <2>1. UNCHANGED <<tasks, results>> /\ \A w \in Workers : Busy(w)' <=> Busy(w)
    BY <1>2, <1>7 DEF Busy
  <2>2. \A u \in Objects : Places(u)' \subseteq Places(u) \ {<<"thread", t>>}
    BY <1>1, <1>5, <1>7, <2>1 DEF Places
  <2> QED
    BY <1>3, <1>8, <2>2
<1>10. (\A u \in Objects : Alone(u)') /\ Items'
  <2>1. /\ \A u \in Objects \ {p} : u \in registered => u \in registered'
        /\ head' = [head EXCEPT ![p] = None]
        /\ tasks' \subseteq tasks /\ results' \subseteq results
        /\ p \in Objects /\ <<"thread", t>> \in Places(p)
    BY <1>2, <1>3, <1>8
  <2> HIDE DEF o
  <2> QED
    BY <1>4, <1>5, <1>9, <2>1, FreesMailbox
<1>11. Fields'
  BY <1>2 DEF LocksInv, Fields
<1> QED
  BY <1>4, <1>6, <1>10, <1>11 DEF LocksInv

(* A step of the watcher or of a query that goes on with a program that    *)
(* holds the same.                                                         *)
LEMMA TurnsKeeps ==
  ASSUME LocksInv, NEW t \in Threads \ (Workers \cup {"dispatcher"}),
         UNCHANGED <<tasks, results, registered, head, life, lock, pubRegion>>,
         thread' = [thread EXCEPT ![t] = thread'[t]],
         thread'[t] = [ job |-> thread'[t].job, run |-> thread'[t].run, got |-> thread'[t].got,
                        before |-> thread'[t].before ],
         Written(Steps(thread'[t].run)) = Written(Running(t)),
         Read(Steps(thread'[t].run)) = Read(Running(t)),
         Program(thread'[t].job, Own(t)', thread'[t].run),
         \A x \in Steps(thread'[t].run) : x.do \in Role(t)
  PROVE  LocksInv'
<1>1. LocksCore /\ thread = [x \in Threads |-> thread[x]]
  BY DEF LocksInv, LocksCore, Shapes
<1>2. LocksCore'
  BY <1>1, QuietStep
<1>3. \A u \in Threads \ {t} : thread'[u] = thread[u]
  BY <1>1
<1>4. Running(t)' = Steps(thread'[t].run)
  BY DEF Running
<1>5. pubRegion' \in [Objects -> RegionOrNone]
  BY DEF LocksInv, Fields
<1>6. t \in Threads /\ t \notin Workers /\ t # "dispatcher"
  OBVIOUS
<1> QED
  BY <1>2, <1>3, <1>4, <1>5, <1>6, ThreadStep

(* An idle thread takes up a program.                                      *)
LEMMA StartsKeeps ==
  ASSUME LocksInv, NEW t \in Threads \ (Workers \cup {"dispatcher"}), thread[t] = Idle,
         UNCHANGED <<tasks, results, registered, head, life, lock, pubRegion>>,
         NEW j, NEW s, NEW g,
         thread' = [thread EXCEPT ![t] = [job |-> j, run |-> s, got |-> g, before |-> None]],
         Written(Steps(s)) = {}, Read(Steps(s)) = {}, Program(j, Own(t)', s),
         \A x \in Steps(s) : x.do \in Role(t)
  PROVE  LocksInv'
<1>1. thread = [x \in Threads |-> thread[x]]
  BY DEF LocksInv, LocksCore, Shapes
<1>2. PICK e : e = [job |-> j, run |-> s, got |-> g, before |-> None]
  OBVIOUS
<1>3. /\ thread' = [thread EXCEPT ![t] = thread'[t]]
      /\ thread'[t] = [ job |-> thread'[t].job, run |-> thread'[t].run, got |-> thread'[t].got,
                        before |-> thread'[t].before ]
      /\ thread'[t].job = j /\ thread'[t].run = s
  <2>1. thread' = [thread EXCEPT ![t] = e]
    BY <1>2
  <2>2. thread'[t] = e
    BY <1>1, <2>1
  <2>3. e = [job |-> e.job, run |-> e.run, got |-> e.got, before |-> e.before] /\ e.job = j /\ e.run = s
    BY <1>2
  <2> QED
    BY <2>1, <2>2, <2>3
<1>4. Written(Running(t)) = {} /\ Read(Running(t)) = {}
  <2>1. thread[t].run = <<>>
    BY DEF Idle
  <2>2. Running(t) = {}
    BY <2>1, NoSteps DEF Running
  <2> QED
    BY <2>2, NoSteps
<1> QED
  BY <1>3, <1>4, TurnsKeeps

(* A thread that goes on with the rest of its program.                     *)
LEMMA GoesKeeps ==
  ASSUME LocksInv, NEW t \in Threads \ (Workers \cup {"dispatcher"}), Busy(t),
         Upcoming(t).do \notin LockDo \cup {"check", "locate"},
         UNCHANGED <<tasks, results, registered, head, life, lock, pubRegion>>,
         thread' = [thread EXCEPT ![t] = thread'[t]],
         thread'[t] = [ job |-> thread'[t].job, run |-> thread'[t].run, got |-> thread'[t].got,
                        before |-> thread'[t].before ],
         thread'[t].job = thread[t].job, thread'[t].run = Tail(thread[t].run)
  PROVE  LocksInv'
<1>1. LocksCore /\ thread = [x \in Threads |-> thread[x]]
  BY DEF LocksInv, LocksCore, Shapes
<1>2. LocksCore' /\ Running(t)' \subseteq Running(t)
  BY <1>1, GoesCore
<1>3. \A u \in Threads \ {t} : thread'[u] = thread[u]
  BY <1>1
<1>4. \A x \in Running(t)' : x.do \in Role(t)
  BY <1>2 DEF LocksInv, Roles, Does
<1>5. pubRegion' \in [Objects -> RegionOrNone]
  BY DEF LocksInv, Fields
<1>6. t \in Threads /\ t \notin Workers /\ t # "dispatcher"
  OBVIOUS
<1> QED
  BY <1>2, <1>3, <1>4, <1>5, <1>6, ThreadStep

---------------------------------------------------------------------------
(* The goroutine that follows the areas bucket.                            *)
LEMMA ChangeAreaKeeps ==
  ASSUME LocksInv, NEW a \in Areas, ChangeArea(a)
  PROVE  LocksInv'
<1> DEFINE t == "watcher"
<1>1. /\ t \in Threads \ (Workers \cup {"dispatcher"}) /\ thread[t] = Idle
      /\ UNCHANGED <<tasks, results, registered, head, life, lock, pubRegion>>
  BY ThreadNames DEF ChangeArea, watcherFrame
<1>2. Role(t) = WatcherDo
  BY ThreadNames DEF Role
<1>3. ASSUME NEW j, NEW s, Starts(t, j, s), \A c : Program(j, c, s), Written(Steps(s)) = {},
             Read(Steps(s)) = {}, \A x \in Steps(s) : x.do \in WatcherDo
      PROVE  LocksInv'
  <2>1. thread' = [thread EXCEPT ![t] = [job |-> j, run |-> s, got |-> None, before |-> None]]
    <3>1. thread = [x \in Threads |-> thread[x]]
      BY DEF LocksInv, LocksCore, Shapes
    <3>2. thread'[t] = [job |-> j, run |-> s, got |-> None, before |-> None]
      BY <1>1, <1>3, <3>1 DEF Starts, Idle
    <3>3. thread' = [thread EXCEPT ![t] = thread'[t]]
      BY <1>1, <1>3, <3>1 DEF Starts
    <3> QED
      BY <3>2, <3>3
  <2>2. Program(j, Own(t)', s)
    BY <1>3
  <2> HIDE DEF t
  <2> QED
    BY <1>1, <1>2, <1>3, <2>1, <2>2, StartsKeeps
<1>4. CASE \E r \in Regions : Starts(t, [area |-> a, region |-> r], RegisterAreaProgram(r))
  <2>1. PICK r \in Regions : Starts(t, [area |-> a, region |-> r], RegisterAreaProgram(r))
    BY <1>4
  <2>2. PICK j : j = [area |-> a, region |-> r]
    OBVIOUS
  <2>3. PICK s : s = RegisterAreaProgram(r)
    OBVIOUS
  <2>4. /\ \A c : Program(j, c, s)
        /\ Written(Steps(s)) = {} /\ Read(Steps(s)) = {} /\ \A x \in Steps(s) : x.do \in WatcherDo
    BY <2>3, RegisterAreaSound
  <2>5. Starts(t, j, s)
    BY <2>1, <2>2, <2>3
  <2> QED
    BY <1>3, <2>4, <2>5
<1>5. CASE \E z \in SetToSeqs(Regions) :
             Starts(t, [area |-> a, region |-> None], InTurn([i \in DOMAIN z |-> RemoveAreaProgram(z[i])]))
  <2>1. PICK z \in SetToSeqs(Regions) :
          Starts(t, [area |-> a, region |-> None], InTurn([i \in DOMAIN z |-> RemoveAreaProgram(z[i])]))
    BY <1>5
  <2>2. PICK j : j = [area |-> a, region |-> None]
    OBVIOUS
  <2>3. PICK s : s = InTurn([i \in DOMAIN z |-> RemoveAreaProgram(z[i])])
    OBVIOUS
  <2>4. /\ \A c : Program(j, c, s)
        /\ Written(Steps(s)) = {} /\ Read(Steps(s)) = {} /\ \A x \in Steps(s) : x.do \in WatcherDo
    BY <2>3, RemoveAreaSound
  <2>5. Starts(t, j, s)
    BY <2>1, <2>2, <2>3
  <2> QED
    BY <1>3, <2>4, <2>5
<1> QED
  BY <1>4, <1>5 DEF ChangeArea

LEMMA WriteAreaKeeps ==
  ASSUME LocksInv, WriteArea
  PROVE  LocksInv'
<1> DEFINE t == "watcher"
<1>1. /\ t \in Threads \ (Workers \cup {"dispatcher"}) /\ Busy(t)
      /\ Upcoming(t).do \in {"addArea", "purge", "dropArea"}
      /\ UNCHANGED <<tasks, results, registered, head, life, lock, pubRegion>>
  BY ThreadNames DEF WriteArea, CanStep, Busy, watcherFrame
<1>2. /\ thread = [x \in Threads |-> thread[x]]
      /\ thread[t] = [ job |-> thread[t].job, run |-> thread[t].run, got |-> thread[t].got,
                       before |-> thread[t].before ]
  BY <1>1 DEF LocksInv, LocksCore, Shapes
<1>3. \/ thread' = [thread EXCEPT ![t].run = Tail(@)]
      \/ \E b : thread' = [thread EXCEPT ![t].run = Tail(@), ![t].before = b]
  BY DEF WriteArea, Goes
<1>4. \E b : thread'[t] = [ job |-> thread[t].job, run |-> Tail(thread[t].run), got |-> thread[t].got, before |-> b ]
  BY <1>1, <1>2, <1>3
<1>5. thread' = [thread EXCEPT ![t] = thread'[t]]
  BY <1>1, <1>2, <1>3, <1>4
<1>6. /\ thread'[t] = [ job |-> thread'[t].job, run |-> thread'[t].run, got |-> thread'[t].got,
                        before |-> thread'[t].before ]
      /\ thread'[t].job = thread[t].job /\ thread'[t].run = Tail(thread[t].run)
  BY <1>4
<1>7. Upcoming(t).do \notin LockDo \cup {"check", "locate"}
  BY <1>1 DEF LockDo
<1> HIDE DEF t
<1> QED
  BY <1>1, <1>5, <1>6, <1>7, GoesKeeps

---------------------------------------------------------------------------
(* The queries.                                                            *)
LEMMA QueryNames ==
  ASSUME NEW q \in Queries
  PROVE  q \in Threads \ (Workers \cup {"dispatcher"}) /\ Role(q) = QueryDo
<1>1. q \in Threads /\ q \notin Workers /\ q # "dispatcher" /\ q # "watcher"
  BY ThreadNames
<1> QED
  BY <1>1 DEF Role

LEMMA QueryCalledKeeps ==
  ASSUME LocksInv, NEW q \in Queries, QueryCalled(q)
  PROVE  LocksInv'
<1>1. /\ q \in Threads \ (Workers \cup {"dispatcher"}) /\ Role(q) = QueryDo /\ thread[q] = Idle
      /\ UNCHANGED <<tasks, results, registered, head, life, lock, pubRegion>>
  BY QueryNames DEF QueryCalled, engineVars
<1>2. PICK c \in Call : \E s \in ProgramOf(c) :
        \E n, g : /\ c.kind \in {"object", "regionOf"} => n = life[c.of]
                  /\ thread' = [thread EXCEPT ![q] = [job |-> [call |-> c, ctl |-> n],
                       run |-> s, got |-> g, before |-> None]]
  BY DEF QueryCalled
<1>3. PICK s, n, g : /\ s \in ProgramOf(c)
                     /\ c.kind \in {"object", "regionOf"} => n = life[c.of]
                     /\ thread' = [thread EXCEPT ![q] = [job |-> [call |-> c, ctl |-> n],
                          run |-> s, got |-> g, before |-> None]]
  BY <1>2
<1>4. PICK j : j = [call |-> c, ctl |-> n]
  OBVIOUS
<1>5. Own(q)' = Ctl(c.of, n)
  <2>1. thread = [x \in Threads |-> thread[x]]
    BY DEF LocksInv, LocksCore, Shapes
  <2>2. thread'[q] = [job |-> [call |-> c, ctl |-> n], run |-> s, got |-> g, before |-> None]
    BY <1>1, <1>3, <2>1
  <2> QED
    BY <2>2 DEF Own
<1>6. /\ Program(j, Ctl(c.of, n), s) /\ Written(Steps(s)) = {} /\ Read(Steps(s)) = {}
      /\ \A x \in Steps(s) : x.do \in QueryDo
  <2>1. CASE c.kind \in {"object", "regionOf"} /\ c.of \notin registered
    <3>1. s = <<Reply>>
      BY <1>3, <2>1 DEF ProgramOf
    <3> QED
      BY <3>1, ReplySound
  <2>2. CASE c.kind \in {"object", "regionOf"} /\ c.of \in registered
    <3>1. s = <<RLock(Ctl(c.of, life[c.of])), Do("locate", Ctl(c.of, life[c.of]))>>
      BY <1>3, <2>2 DEF ProgramOf
    <3>2. c.of \in Objects /\ n = life[c.of] /\ n \in 1..MaxLives
      BY <1>3, <2>2, LocksAssumption DEF LocksInv, Fields
    <3> QED
      BY <3>1, <3>2, LookupSound
  <2>3. CASE c.kind = "region"
    <3>1. s = RegionProgram(c.of) /\ c.of \in Regions
      BY <1>3, <2>3 DEF ProgramOf, Call
    <3> QED
      BY <3>1, RegionSound
  <2>4. CASE c.kind = "all"
    <3>1. s = AllProgram
      BY <1>3, <2>4 DEF ProgramOf
    <3> QED
      BY <3>1, AllSound
  <2>5. CASE c.kind = "area"
    <3>1. PICK z \in SetToSeqs(Regions) : s = AreaProgram(z)
      BY <1>3, <2>5 DEF ProgramOf
    <3> QED
      BY <3>1, AreaSound
  <2> QED
    BY <2>1, <2>2, <2>3, <2>4, <2>5 DEF Call
<1> QED
  BY <1>1, <1>3, <1>4, <1>5, <1>6, StartsKeeps

(* Once the ObjCtl is read-locked the answer is chosen.                    *)
LEMMA LocateKeeps ==
  ASSUME LocksInv, NEW q \in Queries, Locate(q)
  PROVE  LocksInv'
<1>1. /\ q \in Threads \ (Workers \cup {"dispatcher"}) /\ Role(q) = QueryDo /\ Busy(q)
      /\ Upcoming(q).do = "locate" /\ LocksCore
      /\ UNCHANGED <<tasks, results, registered, head, life, lock, pubRegion>>
  BY QueryNames DEF Locate, engineVars, CanStep, Busy, LocksInv
<1> DEFINE ctl == Upcoming(q).on
           r == pubRegion[thread[q].job.call.of]
<1>2. ctl \in Locks /\ ctl = Own(q) /\ Written(Running(q)) = {} /\ Read(Running(q)) = {ctl}
  <2>1. /\ DataSound(thread[q].job, Own(q), Upcoming(q), Steps(Tail(thread[q].run)))
        /\ Written(Running(q)) = {} /\ Read(Running(q)) = {Own(q)}
    BY <1>1, StepFacts
  <2> QED
    BY <1>1, <2>1 DEF DataSound
<1>3. PICK o \in Objects, n \in 1..MaxLives : ctl = Ctl(o, n)
  <2>1. ctl \in {Ctl(o, n) : o \in Objects, n \in 1..MaxLives} \/ ctl \in {Region(x) : x \in Regions}
    BY <1>2 DEF Locks
  <2>2. \A x \in Regions : ctl # Region(x)
    <3>1. PICK a, b : Own(q) = Ctl(a, b)
      BY <1>1, ThreadNames DEF Own
    <3> QED
      BY <1>2, <3>1, LocksDiffer
  <2> QED
    BY <2>1, <2>2
<1> HIDE DEF ctl
<1>4. ASSUME NEW s, NEW g, Program(thread[q].job, ctl, s), Written(Steps(s)) = {}, Read(Steps(s)) = {ctl},
             \A x \in Steps(s) : x.do \in QueryDo,
             \/ thread' = [thread EXCEPT ![q].run = s]
             \/ thread' = [thread EXCEPT ![q].run = s, ![q].got = g]
      PROVE  LocksInv'
  <2>1. /\ thread = [x \in Threads |-> thread[x]]
        /\ thread[q] = [ job |-> thread[q].job, run |-> thread[q].run, got |-> thread[q].got,
                         before |-> thread[q].before ]
    BY <1>1 DEF LocksCore, Shapes
  <2>2. \E h : thread'[q] = [job |-> thread[q].job, run |-> s, got |-> h, before |-> thread[q].before]
    BY <1>1, <1>4, <2>1
  <2>3. thread' = [thread EXCEPT ![q] = thread'[q]]
    BY <1>1, <1>4, <2>1, <2>2
  <2>4. /\ thread'[q] = [ job |-> thread'[q].job, run |-> thread'[q].run, got |-> thread'[q].got,
                          before |-> thread'[q].before ]
        /\ thread'[q].job = thread[q].job /\ thread'[q].run = s
    BY <2>2
  <2>5. Own(q)' = Own(q)
    BY <1>1, <2>4 DEF Own
  <2> QED
    BY <1>1, <1>2, <1>4, <2>3, <2>4, <2>5, TurnsKeeps
<1>5. \A j : /\ Program(j, ctl, NotFoundProgram(ctl))
             /\ Written(Steps(NotFoundProgram(ctl))) = {} /\ Read(Steps(NotFoundProgram(ctl))) = {ctl}
             /\ \A x \in Steps(NotFoundProgram(ctl)) : x.do \in QueryDo
  BY <1>3, NotFoundSound
<1>6. CASE GoesTo(q, NotFoundProgram(ctl))
  BY <1>4, <1>5, <1>6 DEF GoesTo
<1>7. CASE thread' = [thread EXCEPT ![q].run = NotFoundProgram(ctl), ![q].got = [NotFound EXCEPT !.at = r]]
  BY <1>4, <1>5, <1>7
<1>8. CASE GoesTo(q, LocatedProgram(ctl, r)) /\ r # None /\ thread[q].job.call.of \in Objects
  <2>1. r \in Regions
    BY <1>8 DEF LocksInv, Fields, RegionOrNone
  <2>2. /\ Program(thread[q].job, ctl, LocatedProgram(ctl, r))
        /\ Written(Steps(LocatedProgram(ctl, r))) = {} /\ Read(Steps(LocatedProgram(ctl, r))) = {ctl}
        /\ \A x \in Steps(LocatedProgram(ctl, r)) : x.do \in QueryDo
    BY <1>3, <2>1, LocatedSound
  <2> QED
    BY <1>4, <1>8, <2>2 DEF GoesTo
<1>9. thread[q].job.call.of \in Objects
  <2>1. Own(q) = Ctl(thread[q].job.call.of, thread[q].job.ctl)
    BY DEF Own
  <2>2. \A a, b, c, d : Ctl(a, b) = Ctl(c, d) => a = c
    BY DEF Ctl
  <2> QED
    BY <1>2, <1>3, <2>1, <2>2
<1> QED
  BY <1>6, <1>7, <1>8, <1>9 DEF Locate, ctl

LEMMA ReadRegionKeeps ==
  ASSUME LocksInv, NEW q \in Queries, ReadRegion(q)
  PROVE  LocksInv'
<1>1. /\ q \in Threads \ (Workers \cup {"dispatcher"}) /\ Role(q) = QueryDo /\ Busy(q)
      /\ Upcoming(q).do \in {"get", "scan", "look"} /\ LocksCore
      /\ UNCHANGED <<tasks, results, registered, head, life, lock, pubRegion>>
  BY QueryNames DEF ReadRegion, engineVars, CanStep, Busy, LocksInv
<1>2. /\ thread = [x \in Threads |-> thread[x]]
      /\ thread[q] = [ job |-> thread[q].job, run |-> thread[q].run, got |-> thread[q].got,
                       before |-> thread[q].before ]
  BY <1>1 DEF LocksCore, Shapes
<1>3. CASE \/ thread' = [thread EXCEPT ![q].run = Tail(@)]
           \/ \E g : thread' = [thread EXCEPT ![q].run = Tail(@), ![q].got = g]
  <2>1. \E g : thread'[q] = [ job |-> thread[q].job, run |-> Tail(thread[q].run), got |-> g,
                              before |-> thread[q].before ]
    BY <1>1, <1>2, <1>3
  <2>2. thread' = [thread EXCEPT ![q] = thread'[q]]
    BY <1>1, <1>2, <1>3, <2>1
  <2>3. /\ thread'[q] = [ job |-> thread'[q].job, run |-> thread'[q].run, got |-> thread'[q].got,
                          before |-> thread'[q].before ]
        /\ thread'[q].job = thread[q].job /\ thread'[q].run = Tail(thread[q].run)
    BY <2>1
  <2>4. Upcoming(q).do \notin LockDo \cup {"check", "locate"}
    BY <1>1 DEF LockDo
  <2> QED
    BY <1>1, <2>2, <2>3, <2>4, GoesKeeps
<1> DEFINE x == Upcoming(q).on
           s == <<RUnlock(Region(x)), Reply>>
<1>4. CASE Upcoming(q).do = "look" /\ thread' = [thread EXCEPT ![q].run = s, ![q].got = x]
  <2>1. /\ DataSound(thread[q].job, Own(q), Upcoming(q), Steps(Tail(thread[q].run)))
        /\ Written(Steps(Tail(thread[q].run))) = Written(Running(q))
        /\ Read(Steps(Tail(thread[q].run))) = Read(Running(q))
    <3>1. Upcoming(q).do \notin LockDo \cup {"check", "locate"}
      BY <1>1 DEF LockDo
    <3> QED
      BY <1>1, <3>1, StepFacts
  <2>2. x \in Regions /\ Written(Running(q)) = {} /\ Read(Running(q)) = {Region(x)}
    BY <1>4, <2>1 DEF DataSound, HeldIn
  <2>3. /\ \A j, c : Program(j, c, s)
        /\ Written(Steps(s)) = {} /\ Read(Steps(s)) = {Region(x)} /\ \A y \in Steps(s) : y.do \in QueryDo
    BY <2>2, FoundSound
  <2> HIDE DEF s, x
  <2>4. thread'[q] = [job |-> thread[q].job, run |-> s, got |-> x, before |-> thread[q].before]
    BY <1>1, <1>2, <1>4
  <2>5. thread' = [thread EXCEPT ![q] = thread'[q]]
    BY <1>1, <1>2, <1>4, <2>4
  <2>6. /\ thread'[q] = [ job |-> thread'[q].job, run |-> thread'[q].run, got |-> thread'[q].got,
                          before |-> thread'[q].before ]
        /\ thread'[q].run = s
    BY <2>4
  <2> QED
    BY <1>1, <2>2, <2>3, <2>5, <2>6, TurnsKeeps
<1> QED
  BY <1>3, <1>4 DEF ReadRegion, GoesWith, Goes

LEMMA QueryRepliedKeeps ==
  ASSUME LocksInv, NEW q \in Queries, QueryReplied(q)
  PROVE  LocksInv'
<1>1. /\ q \in Threads /\ q \notin Workers /\ q # "dispatcher" /\ Busy(q)
      /\ Upcoming(q).do = "reply" /\ Ends(q) /\ LocksCore
      /\ UNCHANGED <<tasks, results, registered, head, life, lock, pubRegion>>
  BY QueryNames DEF QueryReplied, engineVars, CanStep, Busy, LocksInv
<1>2. LocksCore' /\ thread'[q].run = <<>> /\ \A u \in Threads \ {q} : thread'[u] = thread[u]
  BY <1>1, EndsCore
<1>3. \A x \in Running(q)' : x.do \in Role(q)
  <2>1. Running(q)' = {}
    BY <1>2, NoSteps DEF Running
  <2> QED
    BY <2>1
<1>4. pubRegion' \in [Objects -> RegionOrNone]
  BY <1>1 DEF LocksInv, Fields
<1> QED
  BY <1>1, <1>2, <1>3, <1>4, ThreadStep

---------------------------------------------------------------------------
(* The invariant of the whole specification.                               *)
LEMMA InitLocksInv ==
  ASSUME LocksInit
  PROVE  LocksInv
<1>1. /\ lock = [l \in Locks |-> Unlocked] /\ thread = [t \in Threads |-> Idle]
      /\ tasks = {} /\ results = {} /\ registered = {}
      /\ pubRegion = [o \in Objects |-> None]
      /\ head = [o \in Objects |-> None] /\ life = [o \in Objects |-> 0]
  BY DEF LocksInit, EngineInit
<1>2. \A t \in Threads : /\ thread[t] = Idle /\ thread[t].run = <<>> /\ Running(t) = {} /\ ~Busy(t)
  BY <1>1, NoSteps DEF Idle, Running, Busy
<1>3. Shapes
  BY <1>1, <1>2, NamesAssumption DEF Shapes, Unlocked, Idle
<1>4. Programs
  BY <1>2, NoProgram DEF Programs
<1>5. Linked
  <2>1. \A t \in Threads, l \in Locks : lock[l].writer # t /\ t \notin lock[l].readers \cup lock[l].waiting
    BY <1>1, ThreadNames DEF Unlocked
  <2> QED
    BY <1>2, <2>1, NoSteps DEF Linked
<1>6. Topmost
  BY <1>1, ThreadNames DEF Topmost, Stuck, Unlocked
<1>7. Roles
  BY <1>2 DEF Roles, Does
<1>8. \A o \in Objects : Alone(o)
  <2>1. \A o \in Objects : Places(o) = {}
    BY <1>1, <1>2, ThreadNames DEF Places
  <2> QED
    BY <2>1 DEF Alone
<1>9. Items
  BY <1>1, <1>2, ThreadNames DEF Items, WorkerOK, DispatcherOK
<1>10. Fields
  BY <1>1, LocksAssumption DEF Fields, RegionOrNone
<1> QED
  BY <1>3, <1>4, <1>5, <1>6, <1>7, <1>8, <1>9, <1>10 DEF LocksInv, LocksCore

LEMMA NothingMoves ==
  ASSUME LocksInv, UNCHANGED lockVars
  PROVE  LocksInv'
<1>1. UNCHANGED <<thread, lock, life, tasks, results, registered, head, pubRegion>>
  BY DEF lockVars, engineVars
<1>2. LocksCore' /\ Roles'
  BY <1>1, UnseenCore DEF LocksInv
<1>3. \A o \in Objects : Alone(o)'
  BY <1>1 DEF LocksInv, Alone, Places, Busy
<1>4. Items'
  BY <1>1 DEF LocksInv, Items, TaskOK, ResultOK, WorkerOK, DispatcherOK, Busy, Running
<1>5. Fields'
  BY <1>1 DEF LocksInv, Fields
<1> QED
  BY <1>2, <1>3, <1>4, <1>5 DEF LocksInv

LEMMA StepKeepsLocksInv ==
  ASSUME LocksInv, [LocksNext]_lockVars
  PROVE  LocksInv'
<1>1. CASE \E t \in Threads : LockStep(t)
  BY <1>1, LockStepKeeps
<1>2. CASE \E o \in Objects : Register(o) \/ Dispatch(o) \/ RemoveUnplaced(o)
  BY <1>2, RegisterKeeps, DispatchKeeps, RemoveUnplacedKeeps
<1>3. CASE \E res \in results : TakeResult(res)
  BY <1>3, TakeResultKeeps
<1>4. CASE WriteSnapshot
  BY <1>4, WriteSnapshotKeeps
<1>5. CASE Confirm
  BY <1>5, ConfirmKeeps
<1>6. CASE \E t \in tasks : TakeTask(t)
  BY <1>6, TakeTaskKeeps
<1>7. CASE \E w \in Workers : CheckRegion(w) \/ WriteTree(w) \/ Publish(w) \/ SendResult(w)
  BY <1>7, CheckRegionKeeps, WriteTreeKeeps, PublishKeeps, SendResultKeeps
<1>8. CASE \E a \in Areas : ChangeArea(a)
  BY <1>8, ChangeAreaKeeps
<1>9. CASE WriteArea
  BY <1>9, WriteAreaKeeps
<1>10. CASE \E q \in Queries : QueryCalled(q) \/ Locate(q) \/ ReadRegion(q) \/ QueryReplied(q)
  BY <1>10, QueryCalledKeeps, LocateKeeps, ReadRegionKeeps, QueryRepliedKeeps
<1>11. CASE UNCHANGED lockVars
  BY <1>11, NothingMoves
<1> QED
  BY <1>1, <1>2, <1>3, <1>4, <1>5, <1>6, <1>7, <1>8, <1>9, <1>10, <1>11 DEF LocksNext

(* While a removal writes, no worker is about to take an update of its     *)
(* object: that would be a second command.                                 *)
LEMMA UpdateNotBeside ==
  ASSUME LocksInv, NEW t \in Threads, CanStep(t), NEW k, Writes(t, "deleted", k)
  PROVE  \A x \in tasks : x.obj # k
<1> SUFFICES ASSUME NEW x \in tasks, x.obj = k
             PROVE  FALSE
  OBVIOUS
<1>1. Upcoming(t).do = "publish" /\ thread[t].job.kind = "remove" /\ thread[t].job.obj = k
  BY DEF Writes
<1>2. Busy(t)
  BY DEF CanStep, Busy
<1>3. Upcoming(t) \in Running(t)
  BY <1>2, StepFacts DEF LocksInv
<1>4. t \in Workers
  BY <1>1, <1>3 DEF LocksInv, Roles, Does, Role, DispatcherDo, WatcherDo, QueryDo, LockDo
<1>5. k \in Objects
  BY <1>1, <1>2, <1>4 DEF LocksInv, Items, WorkerOK, TaskOK, WorkerTask
<1>6. <<"task", x>> \in Places(k) /\ <<"thread", t>> \in Places(k)
  BY <1>1, <1>2, <1>4 DEF Places
<1>7. <<"task", x>> = <<"thread", t>>
  BY <1>5, <1>6 DEF LocksInv, Alone
<1> QED
  BY <1>7

LEMMA NoOtherRace ==
  ASSUME LocksInv
  PROVE  OnlyTheFlagRaces
<1> SUFFICES ASSUME NEW t \in Threads, CanStep(t), NEW f \in SharedFields,
                    NEW k \in Regions \cup Objects, Writes(t, f, k), NEW u \in Threads \ {t}
             PROVE  /\ CanStep(u) => ~Writes(u, f, k) /\ ~Reads(u, f, k)
                    /\ ReadsUnlocked(u, f, k) => u = "dispatcher"
  BY DEF OnlyTheFlagRaces
<1>1. CanStep(u) => ~Writes(u, f, k) /\ ~Reads(u, f, k)
  BY LockedApart DEF LocksInv
<1>2. ASSUME ReadsUnlocked(u, f, k) PROVE u = "dispatcher"
  <2>1. f = "deleted"
    BY <1>2 DEF ReadsUnlocked
  <2>2. \A x \in tasks : x.obj # k
    BY <2>1, UpdateNotBeside
  <2> QED
    BY <1>2, <2>2 DEF ReadsUnlocked
<1> QED
  BY <1>1, <1>2

(* What each goroutine holds is what the rest of its program gives back.   *)
THEOREM LocksAreRight == LocksSpec => []LocksInv
<1>1. LocksInit => LocksInv
  BY InitLocksInv
<1>2. LocksInv /\ [LocksNext]_lockVars => LocksInv'
  BY StepKeepsLocksInv
<1> QED
  BY <1>1, <1>2, PTL DEF LocksSpec

(* However many objects, regions and queries there are, no goroutines wait *)
(* only for one another: pubMu before mu, the regions in order, and also   *)
(* when a writer that waits holds back the readers behind it.              *)
THEOREM NoTie == LocksSpec => []NoCyclicWait
<1>1. LocksInv => NoCyclicWait
  BY NoCircle DEF LocksInv
<1> QED
  BY <1>1, LocksAreRight, PTL

(* What a goroutine is about to write no other is about to write or read,  *)
(* but for one flag that the dispatcher reads without its lock: however    *)
(* many objects, regions and queries there are, ctl.deleted is the only    *)
(* data race of worker.go, transition.go, engine.go, dispatcher.go and     *)
(* queries.go.                                                             *)
THEOREM NoOtherRaces == LocksSpec => []OnlyTheFlagRaces
<1>1. LocksInv => OnlyTheFlagRaces
  BY NoOtherRace
<1> QED
  BY <1>1, LocksAreRight, PTL
=============================================================================
