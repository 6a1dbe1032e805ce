-------------------------- MODULE CompactionProofs --------------------------
(***************************************************************************)
(* Proofs about module Compaction: the types; what compaction keeps, so    *)
(* that a boot rebuilds what it would from the whole log; what the service *)
(* knows while it boots and runs; that nothing is published twice; and     *)
(* that an object continues where it stopped.                              *)
(***************************************************************************)
EXTENDS Compaction, FiniteSetTheorems, WellFoundedInduction, TLAPS

---------------------------------------------------------------------------
(* Sequences and sets of positions.                                        *)

(* A set of positions has a last one.                                      *)
LEMMA IntervalMax ==
  ASSUME NEW n \in Nat, NEW S \in SUBSET (1..n), S # {}
  PROVE  Max(S) \in S /\ \A x \in S : x <= Max(S)
<1> DEFINE R == OpToRel(<, Nat)
           T == {n - x : x \in S}
<1>1. \A x, y \in Nat : x < y => <<x, y>> \in R
  BY DEF OpToRel
<1>2. T \subseteq Nat /\ T # {}
  <2>1. PICK x \in S : TRUE
    OBVIOUS
  <2>2. n - x \in T
    BY <2>1
  <2>3. \A y \in S : n - y \in Nat
    OBVIOUS
  <2> QED
    BY <2>2, <2>3
<1>3. IsWellFoundedOn(R, Nat)
  BY NatLessThanWellFounded
<1> HIDE DEF R
<1>4. PICK t \in T : \A y \in T : ~(<<y, t>> \in R)
  BY <1>2, <1>3, WFMin
<1>5. PICK m \in S : t = n - m
  OBVIOUS
<1>6. \A x \in S : m >= x
  <2> SUFFICES ASSUME NEW x \in S PROVE m >= x
    OBVIOUS
  <2>1. n - x \in T
    OBVIOUS
  <2>2. ~(n - x < t)
    BY <1>1, <1>2, <1>4, <2>1
  <2> QED
    BY <1>5, <2>2
<1> QED
  BY <1>6 DEF Max

LEMMA AppendOf ==
  ASSUME NEW S, NEW s \in Seq(S), NEW x \in S
  PROVE  /\ Append(s, x) \in Seq(S)
         /\ Len(s) \in Nat /\ Len(Append(s, x)) = Len(s) + 1
         /\ DOMAIN s = 1..Len(s)
         /\ DOMAIN Append(s, x) = 1..(Len(s) + 1)
         /\ Append(s, x)[Len(s) + 1] = x
         /\ \A i \in DOMAIN s : Append(s, x)[i] = s[i]
OBVIOUS

LEMMA TailOf ==
  ASSUME NEW S, NEW s \in Seq(S), s # <<>>
  PROVE  /\ Tail(s) \in Seq(S)
         /\ 1 \in DOMAIN s /\ Head(s) = s[1] /\ Head(s) \in S
         /\ \A i \in DOMAIN Tail(s) : i \in Nat /\ i + 1 \in DOMAIN s /\ Tail(s)[i] = s[i + 1]
         /\ \A i \in DOMAIN s : i # 1 => i - 1 \in DOMAIN Tail(s) /\ Tail(s)[i - 1] = s[i]
OBVIOUS

LEMMA ConcatOf ==
  ASSUME NEW S, NEW s \in Seq(S), NEW t \in Seq(S)
  PROVE  /\ s \o t \in Seq(S)
         /\ Len(s) \in Nat
         /\ DOMAIN s \subseteq Nat /\ DOMAIN t \subseteq Nat
         /\ \A i \in DOMAIN s : i \in DOMAIN (s \o t) /\ (s \o t)[i] = s[i] /\ i <= Len(s)
         /\ \A i \in DOMAIN t : i + Len(s) \in DOMAIN (s \o t) /\ (s \o t)[i + Len(s)] = t[i]
         /\ \A i \in DOMAIN (s \o t) : i \in DOMAIN s \/ (i > Len(s) /\ i - Len(s) \in DOMAIN t)
OBVIOUS

(* A strict total order on S.                                              *)
TotallyOrders(before, S) ==
  /\ \A x \in S : <<x, x>> \notin before
  /\ \A x, y, z \in S : <<x, y>> \in before /\ <<y, z>> \in before => <<x, z>> \in before
  /\ \A x, y \in S : x # y => <<x, y>> \in before \/ <<y, x>> \in before

(* InOrder lists the elements of the set in that order: an element has a   *)
(* higher rank than those before it, so every rank is taken, once.         *)
LEMMA InOrderLists ==
  ASSUME NEW S, IsFiniteSet(S), NEW before, TotallyOrders(before, S)
  PROVE  /\ InOrder(S, before) \in Seq(S)
         /\ \A s \in S : \E k \in DOMAIN InOrder(S, before) : InOrder(S, before)[k] = s
         /\ \A i, j \in DOMAIN InOrder(S, before) :
              i < j <=> <<InOrder(S, before)[i], InOrder(S, before)[j]>> \in before
         /\ DOMAIN InOrder(S, before) = 1..Cardinality(S)
         /\ \A k \in DOMAIN InOrder(S, before), s \in S :
              InOrder(S, before)[k] = s <=> Cardinality({x \in S : <<x, s>> \in before}) = k - 1
<1> DEFINE rank(s) == Cardinality({x \in S : <<x, s>> \in before})
           n == Cardinality(S)
           q == InOrder(S, before)
<1>1. n \in Nat
  BY FS_CardinalityType
<1>2. \A s \in S : rank(s) \in 0..(n - 1)
  <2> SUFFICES ASSUME NEW s \in S PROVE rank(s) \in 0..(n - 1)
    OBVIOUS
  <2> DEFINE B == {x \in S : <<x, s>> \in before}
  <2>1. B \in SUBSET S /\ s \notin B
    BY DEF TotallyOrders
  <2> HIDE DEF B
  <2>2. IsFiniteSet(B) /\ Cardinality(B) <= n /\ Cardinality(B) # n
    BY <2>1, FS_Subset
  <2>3. Cardinality(B) \in Nat
    BY <2>2, FS_CardinalityType
  <2>4. Cardinality(B) \in 0..(n - 1)
    <3> HIDE DEF n
    <3> QED BY <1>1, <2>2, <2>3
  <2> QED BY <2>4 DEF B
<1>3. \A s, t \in S : <<s, t>> \in before => rank(s) < rank(t)
  <2> SUFFICES ASSUME NEW s \in S, NEW t \in S, <<s, t>> \in before PROVE rank(s) < rank(t)
    OBVIOUS
  <2> DEFINE A == {x \in S : <<x, s>> \in before}
             B == {x \in S : <<x, t>> \in before}
  <2>1. A \in SUBSET B /\ B \in SUBSET S /\ s \in B /\ s \notin A
    BY DEF TotallyOrders
  <2> HIDE DEF A, B
  <2>2. IsFiniteSet(B)
    BY <2>1, FS_Subset
  <2>3. IsFiniteSet(A) /\ Cardinality(A) <= Cardinality(B) /\ Cardinality(A) # Cardinality(B)
    BY <2>1, <2>2, FS_Subset
  <2>4. Cardinality(A) \in Nat /\ Cardinality(B) \in Nat
    BY <2>2, <2>3, FS_CardinalityType
  <2>5. Cardinality(A) < Cardinality(B)
    BY <2>3, <2>4
  <2> QED BY <2>5 DEF A, B
<1> HIDE DEF rank
<1>4. \A s, t \in S : rank(s) = rank(t) => s = t
  <2> SUFFICES ASSUME NEW s \in S, NEW t \in S, rank(s) = rank(t), s # t PROVE FALSE
    OBVIOUS
  <2>1. rank(s) < rank(t) \/ rank(t) < rank(s)
    BY <1>3 DEF TotallyOrders
  <2>2. rank(s) \in Int
    BY <1>1, <1>2
  <2> QED BY <2>1, <2>2
<1>5. \A k \in 1..n : \E s \in S : rank(s) = k - 1
  <2> SUFFICES ASSUME NEW k \in 1..n, \A s \in S : rank(s) # k - 1 PROVE FALSE
    OBVIOUS
  <2> DEFINE T == (1..n) \ {k}
             f == [s \in S |-> rank(s) + 1]
  <2>1. IsFiniteSet(1..n) /\ Cardinality(1..n) = n
    BY <1>1, FS_Interval
  <2>2. IsFiniteSet(T) /\ Cardinality(T) = n - 1
    <3> HIDE DEF n
    <3>1. Cardinality(T) = IF k \in 1..n THEN Cardinality(1..n) - 1 ELSE Cardinality(1..n)
      BY <2>1, FS_RemoveElement
    <3>2. IsFiniteSet(T)
      BY <2>1, FS_RemoveElement
    <3> QED BY <2>1, <3>1, <3>2
  <2>3. \A s \in S : rank(s) + 1 \in T
    <3> HIDE DEF n
    <3> QED BY <1>1, <1>2
  <2>4. f \in [S -> T]
    BY <2>3
  <2>5. Cardinality(T) < Cardinality(S)
    BY <1>1, <2>2
  <2> HIDE DEF T, f, n
  <2>6. PICK x, y \in S : x # y /\ f[x] = f[y]
    BY <2>2, <2>4, <2>5, FS_PigeonHole
  <2>7. rank(x) + 1 = rank(y) + 1 /\ rank(x) \in Int /\ rank(y) \in Int
    BY <1>1, <1>2, <2>6 DEF f
  <2> QED BY <1>4, <2>6, <2>7
<1>6. q = [k \in 1..n |-> CHOOSE s \in S : rank(s) = k - 1]
  BY DEF InOrder, rank
<1> HIDE DEF n, q
<1>7. \A k \in 1..n : LET s == CHOOSE s \in S : rank(s) = k - 1 IN s \in S /\ rank(s) = k - 1
  BY <1>5
<1>8. \A k \in 1..n : q[k] \in S /\ rank(q[k]) = k - 1
  BY <1>6, <1>7
<1>9. q \in Seq(S) /\ DOMAIN q = 1..n
  <2>1. \A k \in 1..n : (CHOOSE s \in S : rank(s) = k - 1) \in S
    BY <1>7
  <2> DEFINE at(k) == CHOOSE s \in S : rank(s) = k - 1
  <2>2. q = [k \in 1..n |-> at(k)] /\ \A k \in 1..n : at(k) \in S
    BY <1>6, <2>1
  <2> HIDE DEF at
  <2>3. q \in [1..n -> S]
    BY <2>2
  <2> QED BY <1>1, <2>3
<1>10. ASSUME NEW s \in S PROVE \E k \in DOMAIN q : q[k] = s
  <2>1. PICK k \in 1..n : k - 1 = rank(s)
    <3>1. rank(s) + 1 \in 1..n /\ (rank(s) + 1) - 1 = rank(s)
      BY <1>1, <1>2
    <3> QED BY <3>1
  <2>2. q[k] = s
    BY <1>4, <1>8, <2>1
  <2> QED BY <1>9, <2>1, <2>2
<1>11. ASSUME NEW i \in DOMAIN q, NEW j \in DOMAIN q
       PROVE  i < j <=> <<q[i], q[j]>> \in before
  <2>1. /\ i \in Int /\ j \in Int
        /\ q[i] \in S /\ q[j] \in S /\ rank(q[i]) = i - 1 /\ rank(q[j]) = j - 1
    BY <1>1, <1>8, <1>9
  <2>2. CASE <<q[i], q[j]>> \in before
    <3>1. rank(q[i]) < rank(q[j])
      BY <1>3, <2>1, <2>2
    <3> QED BY <2>1, <2>2, <3>1
  <2>3. CASE <<q[i], q[j]>> \notin before
    <3>1. q[i] = q[j] \/ rank(q[j]) < rank(q[i])
      BY <1>3, <2>1, <2>3 DEF TotallyOrders
    <3> QED BY <2>1, <2>3, <3>1
  <2> QED BY <2>2, <2>3
<1>12. \A k \in DOMAIN q, s \in S : q[k] = s <=> rank(s) = k - 1
  BY <1>4, <1>8, <1>9
<1>13. \A k \in DOMAIN q, s \in S : q[k] = s <=> Cardinality({x \in S : <<x, s>> \in before}) = k - 1
  BY <1>12 DEF rank
<1> QED BY <1>9, <1>10, <1>11, <1>13 DEF q, n

(* In ascending order.                                                     *)
LEMMA AscendingLists ==
  ASSUME NEW S \in SUBSET Nat, IsFiniteSet(S)
  PROVE  /\ Ascending(S) \in Seq(S)
         /\ \A s \in S : \E k \in DOMAIN Ascending(S) : Ascending(S)[k] = s
         /\ \A i, j \in DOMAIN Ascending(S) : i < j => Ascending(S)[i] < Ascending(S)[j]
<1> DEFINE before == {p \in S \X S : p[1] < p[2]}
           q == Ascending(S)
<1>1. \A x, y \in S : <<x, y>> \in before <=> x < y
  OBVIOUS
<1>2. q = InOrder(S, before)
  BY DEF Ascending
<1> HIDE DEF before, q
<1>3. TotallyOrders(before, S)
  BY <1>1 DEF TotallyOrders
<1>4. /\ q \in Seq(S)
      /\ \A s \in S : \E k \in DOMAIN q : q[k] = s
      /\ \A i, j \in DOMAIN q : i < j <=> <<q[i], q[j]>> \in before
  BY <1>2, <1>3, InOrderLists
<1>5. \A i \in DOMAIN q : q[i] \in S
  BY <1>4
<1> QED BY <1>1, <1>4, <1>5 DEF q

---------------------------------------------------------------------------
(* Messages.                                                               *)
Message == Event \cup {Booted}

LEMMA Messages ==
  /\ \A c \in CommitEvent :
       /\ c \in Message /\ c # None /\ c # Booted /\ IsCommit(c) /\ c.type \notin ProjectionTypes
       /\ c.obj \in Objects /\ c.inst \in InstanceID /\ c.seq \in Nat /\ c.op \in Nat
       /\ c.region \in RegionOrNone /\ c.inside \in SUBSET Areas /\ c.trans \in Seq(Transition)
  /\ \A e \in ProjectionEvent :
       /\ e \in Message /\ e # Booted /\ ~IsCommit(e) /\ e.type \in ProjectionTypes
       /\ e.obj \in Objects /\ e.inst \in InstanceID /\ e.seq \in Nat
  /\ Booted \in Message /\ ~IsCommit(Booted) /\ Booted.type \notin ProjectionTypes
<1>1. Booted \in Message /\ Booted.type = "booted"
  BY DEF Message, Booted
<1>2. ~IsCommit(Booted) /\ Booted.type \notin ProjectionTypes
  BY <1>1 DEF IsCommit, CommitTypes, ProjectionTypes
<1>3. ASSUME NEW c \in CommitEvent
      PROVE  /\ c \in Message /\ IsCommit(c) /\ c.type \notin ProjectionTypes
             /\ c.obj \in Objects /\ c.inst \in InstanceID /\ c.seq \in Nat /\ c.op \in Nat
             /\ c.region \in RegionOrNone /\ c.inside \in SUBSET Areas /\ c.trans \in Seq(Transition)
  BY DEF CommitEvent, Message, Event, IsCommit, CommitTypes, ProjectionTypes
<1>4. ASSUME NEW e \in ProjectionEvent
      PROVE  /\ e \in Message /\ ~IsCommit(e) /\ e.type \in ProjectionTypes
             /\ e.obj \in Objects /\ e.inst \in InstanceID /\ e.seq \in Nat
  BY DEF ProjectionEvent, Message, Event, IsCommit, CommitTypes, ProjectionTypes
<1>5. \A c \in CommitEvent : c # None /\ c # Booted
  BY <1>2, <1>3, CompactionAssumption
<1>6. \A e \in ProjectionEvent : e # Booted
  BY <1>2, <1>4
<1> QED BY <1>1, <1>2, <1>3, <1>4, <1>5, <1>6

LEMMA LogFacts ==
  ASSUME CompactionTypeOK
  PROVE  /\ Len(log) \in Nat /\ DOMAIN log = 1..Len(log) /\ log \in Seq(Message)
         /\ IsFiniteSet(DOMAIN log)
         /\ Retained \subseteq DOMAIN log /\ gone \subseteq DOMAIN log
         /\ \A s \in DOMAIN log : s \in Nat /\ log[s] \in Message
         /\ \A s \in DOMAIN log : IsCommit(log[s]) => log[s] \in CommitEvent
         /\ \A s \in DOMAIN log : log[s].type \in ProjectionTypes => log[s] \in ProjectionEvent
<1>1. log \in Seq(Message) /\ gone \subseteq DOMAIN log
  BY DEF CompactionTypeOK, Message
<1>2. Len(log) \in Nat /\ DOMAIN log = 1..Len(log) /\ \A s \in DOMAIN log : s \in Nat /\ log[s] \in Message
  <2> HIDE DEF Message
  <2> QED BY <1>1
<1>3. IsFiniteSet(DOMAIN log)
  BY <1>2, FS_Interval
<1>4. Message = CommitEvent \cup ProjectionEvent \cup {Booted}
  BY DEF Message, Event
<1>5. \A m \in Message : /\ IsCommit(m) => m \in CommitEvent
                         /\ m.type \in ProjectionTypes => m \in ProjectionEvent
  BY <1>4, Messages
<1> QED BY <1>1, <1>2, <1>3, <1>5 DEF Retained

(* Transitions are an enumeration of the areas.                            *)
LEMMA TransitionsOf ==
  ASSUME NEW S \in SUBSET Areas, NEW b \in BOOLEAN, NEW t \in Transitions(S, b)
  PROVE  /\ t \in Seq(Transition)
         /\ \A i \in DOMAIN t : t[i].entered = b
         /\ \A i, j \in DOMAIN t : i # j => t[i] # t[j]
<1>1. IsFiniteSet(S)
  BY DataAssumption, FS_Subset
<1>2. Cardinality(S) \in Nat
  BY <1>1, FS_CardinalityType
<1>3. PICK f \in SetToSeqs(S) : t = [i \in DOMAIN f |-> [area |-> f[i], entered |-> b]]
  BY DEF Transitions
<1>4. f \in [1..Cardinality(S) -> S] /\ \A i, j \in DOMAIN f : i # j => f[i] # f[j]
  BY DEF SetToSeqs
<1>5. t \in [1..Cardinality(S) -> Transition]
  BY <1>3, <1>4 DEF Transition
<1>6. \A i \in DOMAIN t : t[i].entered = b /\ t[i].area = f[i] /\ i \in DOMAIN f
  BY <1>3, <1>4
<1>7. \A i, j \in DOMAIN t : i # j => t[i] # t[j]
  BY <1>4, <1>6
<1> QED BY <1>2, <1>5, <1>6, <1>7

Differ(t) == \A i, j \in DOMAIN t : i # j => t[i] # t[j]

LEMMA BothDiffer ==
  ASSUME NEW S \in SUBSET Areas, NEW T \in SUBSET Areas,
         NEW t \in Transitions(S, TRUE), NEW u \in Transitions(T, FALSE)
  PROVE  t \o u \in Seq(Transition) /\ Differ(t \o u)
<1>1. /\ t \in Seq(Transition) /\ u \in Seq(Transition)
      /\ \A i \in DOMAIN t : t[i].entered = TRUE
      /\ \A i \in DOMAIN u : u[i].entered = FALSE
      /\ \A i, j \in DOMAIN t : i # j => t[i] # t[j]
      /\ \A i, j \in DOMAIN u : i # j => u[i] # u[j]
  BY TransitionsOf
<1> DEFINE v == t \o u
           n == Len(t)
<1>2. /\ v \in Seq(Transition) /\ n \in Nat /\ DOMAIN v \subseteq Nat
      /\ \A i \in DOMAIN v : \/ i \in DOMAIN t /\ v[i] = t[i]
                             \/ i - n \in DOMAIN u /\ v[i] = u[i - n]
  <2>1. v \in Seq(Transition) /\ n \in Nat
    BY <1>1
  <2>2. DOMAIN v \subseteq Nat
    BY <2>1
  <2>3. \A i \in DOMAIN v : \/ i \in DOMAIN t /\ v[i] = t[i]
                            \/ i - n \in DOMAIN u /\ v[i] = u[i - n]
    <3> HIDE DEF Transition
    <3> QED BY <1>1
  <2> QED BY <2>1, <2>2, <2>3
<1> HIDE DEF v, n
<1>3. ASSUME NEW i \in DOMAIN v, NEW j \in DOMAIN v, i # j
      PROVE  v[i] # v[j]
  <2>1. CASE i \in DOMAIN t /\ v[i] = t[i]
    <3>1. CASE j \in DOMAIN t /\ v[j] = t[j]
      BY <1>1, <1>3, <2>1, <3>1
    <3>2. CASE j - n \in DOMAIN u /\ v[j] = u[j - n]
      BY <1>1, <2>1, <3>2
    <3> QED BY <1>2, <3>1, <3>2
  <2>2. CASE i - n \in DOMAIN u /\ v[i] = u[i - n]
    <3>1. CASE j \in DOMAIN t /\ v[j] = t[j]
      BY <1>1, <2>2, <3>1
    <3>2. CASE j - n \in DOMAIN u /\ v[j] = u[j - n]
      <4>1. i - n # j - n
        BY <1>2, <1>3
      <4> QED BY <1>1, <2>2, <3>2, <4>1
    <3> QED BY <1>2, <3>1, <3>2
  <2> QED BY <1>2, <2>1, <2>2
<1> QED BY <1>2, <1>3 DEF Differ, v

(* The projections of a commit, and those derived from its checkpoint.     *)
LEMMA ProjectionsOf ==
  ASSUME NEW c \in CommitEvent
  PROVE  /\ Projections(c) \in Seq(ProjectionEvent)
         /\ \A i \in DOMAIN Projections(c) :
              LET e == Projections(c)[i] IN e.obj = c.obj /\ e.inst = c.inst /\ e.seq = c.seq
         /\ Differ(c.trans) =>
              \A i, j \in DOMAIN Projections(c) :
                i # j => EventID(Projections(c)[i]) # EventID(Projections(c)[j])
<1> DEFINE kind(i) == IF c.trans[i].entered THEN "entered" ELSE "exited"
           P(i) == [ type |-> kind(i),
                     obj |-> c.obj, inst |-> c.inst, seq |-> c.seq, op |-> c.op,
                     region |-> c.region, pt |-> c.pt, inside |-> c.inside,
                     area |-> c.trans[i].area ]
           n == Len(c.trans)
<1>1. n \in Nat /\ DOMAIN c.trans = 1..n /\ \A i \in 1..n : c.trans[i] \in Transition
  <2>1. c.trans \in Seq(Transition)
    BY Messages
  <2> HIDE DEF Transition
  <2> QED BY <2>1
<1>2. Projections(c) = [i \in 1..n |-> P(i)]
  BY DEF Projections
<1>3. \A i \in 1..n : kind(i) \in ProjectionTypes /\ c.trans[i].area \in Areas
  BY <1>1 DEF ProjectionTypes, Transition
<1> HIDE DEF kind
<1>4. \A i \in 1..n : P(i) \in ProjectionEvent
  BY <1>3 DEF ProjectionEvent, CommitEvent
<1>5. \A i \in 1..n : P(i).obj = c.obj /\ P(i).inst = c.inst /\ P(i).seq = c.seq
  OBVIOUS
<1>6. ASSUME Differ(c.trans), NEW i \in 1..n, NEW j \in 1..n, i # j, EventID(P(i)) = EventID(P(j))
      PROVE  FALSE
  <2>1. ~IsCommit(P(i)) /\ ~IsCommit(P(j))
    BY <1>4, Messages
  <2>2. kind(i) = kind(j) /\ c.trans[i].area = c.trans[j].area
    BY <1>6, <2>1 DEF EventID
  <2>3. c.trans[i].entered = c.trans[j].entered
    BY <1>1, <2>2 DEF kind, Transition
  <2>4. c.trans[i] = c.trans[j]
    BY <1>1, <2>2, <2>3 DEF Transition
  <2> QED BY <1>1, <1>6, <2>4 DEF Differ
<1> HIDE DEF P, n
<1>7. Projections(c) \in [1..n -> ProjectionEvent]
  BY <1>2, <1>4
<1>8. Projections(c) \in Seq(ProjectionEvent) /\ DOMAIN Projections(c) = 1..n
  BY <1>1, <1>7
<1> QED BY <1>2, <1>5, <1>6, <1>8

LEMMA ExpectedOf ==
  ASSUME NEW c \in CommitEvent
  PROVE  /\ ExpectedProjections(c) \in Seq(ProjectionEvent)
         /\ \A i \in DOMAIN ExpectedProjections(c) :
              LET e == ExpectedProjections(c)[i]
              IN  e.obj = c.obj /\ e.inst = c.inst /\ e.seq = c.seq
         /\ Differ(c.trans) =>
              \A i, j \in DOMAIN ExpectedProjections(c) :
                i # j => EventID(ExpectedProjections(c)[i]) # EventID(ExpectedProjections(c)[j])
         /\ DOMAIN ExpectedProjections(c) = DOMAIN Projections(c)
         /\ \A i \in DOMAIN Projections(c) :
              EventID(ExpectedProjections(c)[i]) = EventID(Projections(c)[i])
<1> DEFINE d == Checkpoint(c)
<1>1. /\ d \in CommitEvent
      /\ d.obj = c.obj /\ d.inst = c.inst /\ d.seq = c.seq /\ d.trans = c.trans
      /\ d.region = c.region /\ d.pt = c.pt /\ d.inside = c.inside
  BY DEF Checkpoint, CommitEvent
<1>2. ExpectedProjections(c) = Projections(d)
  BY DEF ExpectedProjections
<1> HIDE DEF d
<1>3. DOMAIN Projections(d) = DOMAIN Projections(c)
  BY <1>1 DEF Projections
<1>4. ASSUME NEW i \in DOMAIN Projections(c)
      PROVE  EventID(Projections(d)[i]) = EventID(Projections(c)[i])
  <2> DEFINE e == Projections(d)[i]
             f == Projections(c)[i]
  <2>1. e.type = f.type /\ e.obj = f.obj /\ e.inst = f.inst /\ e.seq = f.seq /\ e.area = f.area
    BY <1>1, <1>3 DEF Projections
  <2> HIDE DEF e, f
  <2>2. EventID(e) = EventID(f)
    BY <2>1 DEF EventID, IsCommit
  <2> QED BY <2>2 DEF e, f
<1> QED BY <1>1, <1>2, <1>3, <1>4, ProjectionsOf

(* An identifier tells the kind, the object, the incarnation, the number.  *)
LEMMA SameID ==
  ASSUME NEW d, NEW e, EventID(d) = EventID(e)
  PROVE  /\ d.type = e.type /\ d.obj = e.obj /\ d.inst = e.inst /\ d.seq = e.seq
         /\ IsCommit(d) <=> IsCommit(e)
BY DEF EventID, IsCommit

(* The commits of the service.                                             *)
LEMMA EpochOf ==
  ASSUME CompactionTypeOK
  PROVE  /\ BootEpoch \in Nat /\ BootEpoch <= Len(log)
         /\ \A s \in DOMAIN log : log[s] = Booted => s <= BootEpoch
<1> DEFINE S == {0} \cup {s \in DOMAIN log : log[s] = Booted}
<1>1. PICK m \in S : \A s \in S : s <= m
  <2> DEFINE T == {s + 1 : s \in S}
  <2>1. S \subseteq 0..Len(log) /\ Len(log) + 1 \in Nat /\ 0 \in S
    BY LogFacts
  <2> HIDE DEF S
  <2>2. T \in SUBSET (1..(Len(log) + 1)) /\ T # {}
    BY <2>1
  <2>3. Max(T) \in T /\ \A x \in T : x <= Max(T)
    <3> HIDE DEF T
    <3> QED BY <2>1, <2>2, IntervalMax
  <2>4. PICK m \in S : Max(T) = m + 1
    BY <2>3
  <2>5. ASSUME NEW s \in S PROVE s <= m
    <3>1. s + 1 \in T
      OBVIOUS
    <3>2. s + 1 <= m + 1
      BY <2>3, <2>4, <3>1
    <3>3. s \in Nat /\ m \in Nat
      BY <2>1
    <3> QED BY <3>2, <3>3
  <2> QED BY <2>5
<1>2. S \subseteq Nat
  BY LogFacts
<1> HIDE DEF S
<1>3. Max(S) \in S
  BY <1>1, <1>2 DEF Max
<1>4. S \subseteq 0..Len(log) /\ Len(log) \in Nat
  BY LogFacts DEF S
<1>5. \A s \in S : s <= Max(S)
  BY <1>1, <1>2 DEF Max
<1>6. \A s \in DOMAIN log : log[s] = Booted => s \in S
  BY DEF S
<1> QED BY <1>2, <1>3, <1>4, <1>5, <1>6 DEF BootEpoch, S

LEMMA RegistrationOf ==
  ASSUME CompactionTypeOK, NEW o \in Objects
  PROVE  LET c == Registration(o)
         IN  /\ c \in CommitEvent /\ Differ(c.trans) /\ c.type = "registered"
             /\ c.obj = o /\ c.op = Len(log) + 1
             /\ c.inst = <<BootEpoch, instances + 1>> /\ c.seq = 1
<1>1. BootEpoch \in Nat
  BY EpochOf
<1>2. instances \in Nat /\ Len(log) + 1 \in Nat
  BY LogFacts DEF CompactionTypeOK
<1>3. <<BootEpoch, instances + 1>> \in InstanceID
  BY <1>1, <1>2 DEF InstanceID
<1>4. Registration(o).trans = <<>> /\ <<>> \in Seq(Transition) /\ DOMAIN <<>> = {}
  BY DEF Registration
<1>5. Registration(o) \in CommitEvent
  BY <1>2, <1>3, <1>4 DEF Registration, CommitEvent, CommitTypes, RegionOrNone, PointOrNone
<1>6. Differ(Registration(o).trans)
  BY <1>4 DEF Differ
<1> QED BY <1>5, <1>6 DEF Registration

LEMMA ChangesDiffer ==
  ASSUME NEW S \in SUBSET Areas, NEW T \in SUBSET Areas, NEW t \in Changes(S, T)
  PROVE  t \in Seq(Transition) /\ Differ(t)
<1>1. PICK p \in Transitions(T \ S, TRUE) \X Transitions(S \ T, FALSE) : t = p[1] \o p[2]
  BY DEF Changes
<1>2. p[1] \in Transitions(T \ S, TRUE) /\ p[2] \in Transitions(S \ T, FALSE)
  BY <1>1
<1> QED BY <1>1, <1>2, BothDiffer

LEMMA ContinuationOf ==
  ASSUME CompactionTypeOK, NEW o \in Objects, live[o] # None, NEW c \in NextCommits(o)
  PROVE  /\ c \in CommitEvent /\ Differ(c.trans)
         /\ c.obj = o /\ c.op = Len(log) + 1
         /\ c.inst = live[o].inst /\ c.seq = live[o].seq + 1 /\ c.type \in {"position", "removed"}
<1> DEFINE b == live[o]
           made(type, r, p, inside, t) ==
             [ type |-> type, obj |-> o, inst |-> b.inst, seq |-> b.seq + 1, op |-> Len(log) + 1,
               region |-> r, pt |-> p, inside |-> inside, trans |-> t ]
<1>1. b \in CommitEvent
  BY DEF CompactionTypeOK
<1>2. b.inst \in InstanceID /\ b.seq + 1 \in Nat /\ b.inside \in SUBSET Areas /\ b.region \in RegionOrNone
  BY <1>1, Messages
<1>3. Len(log) + 1 \in Nat
  BY LogFacts
<1>4. \/ \E p \in Points : \E t \in Changes(b.inside, Cover[p]) :
           c = made("position", Resolve[<<p, b.region>>], p, Cover[p], t)
      \/ \E t \in Changes(b.inside, {}) : c = made("removed", None, None, {}, t)
  BY DEF NextCommits
<1>5. \A t \in Seq(Transition) : \A type \in CommitTypes :
        \A r \in RegionOrNone, p \in PointOrNone, inside \in SUBSET Areas :
          LET e == made(type, r, p, inside, t)
          IN  /\ e \in CommitEvent
              /\ e.obj = o /\ e.op = Len(log) + 1 /\ e.trans = t
              /\ e.inst = live[o].inst /\ e.seq = live[o].seq + 1 /\ e.type = type
  BY <1>2, <1>3 DEF CommitEvent
<1> HIDE DEF b, made
<1>6. CASE \E p \in Points : \E t \in Changes(b.inside, Cover[p]) :
             c = made("position", Resolve[<<p, b.region>>], p, Cover[p], t)
  <2>1. PICK p \in Points : \E t \in Changes(b.inside, Cover[p]) :
          c = made("position", Resolve[<<p, b.region>>], p, Cover[p], t)
    BY <1>6
  <2>2. PICK t \in Changes(b.inside, Cover[p]) :
          c = made("position", Resolve[<<p, b.region>>], p, Cover[p], t)
    BY <2>1
  <2>3. Cover[p] \in SUBSET Areas /\ Resolve[<<p, b.region>>] \in RegionOrNone
    BY <1>2, DataAssumption DEF RegionOrNone
  <2>4. t \in Seq(Transition) /\ Differ(t)
    BY <1>2, <2>3, ChangesDiffer
  <2>5. "position" \in CommitTypes /\ p \in PointOrNone
    BY DEF CommitTypes, PointOrNone
  <2> QED BY <1>5, <2>2, <2>3, <2>4, <2>5
<1>7. CASE \E t \in Changes(b.inside, {}) : c = made("removed", None, None, {}, t)
  <2>1. PICK t \in Changes(b.inside, {}) : c = made("removed", None, None, {}, t)
    BY <1>7
  <2>2. t \in Seq(Transition) /\ Differ(t) /\ {} \in SUBSET Areas
    BY <1>2, ChangesDiffer
  <2>3. "removed" \in CommitTypes /\ None \in PointOrNone /\ None \in RegionOrNone
    BY DEF CommitTypes, PointOrNone, RegionOrNone
  <2> QED BY <1>5, <2>1, <2>2, <2>3
<1> QED BY <1>4, <1>6, <1>7

(* What a commit stores.                                                   *)
Stores(o, c) ==
  /\ c \in CommitEvent /\ Differ(c.trans) /\ c.obj = o /\ c.op = Len(log) + 1
  /\ log' = Append(log, c)
  /\ live' = [live EXCEPT ![o] = IF Active(c) THEN c ELSE None]
  /\ owed' = [owed EXCEPT ![o] = Projections(c)]
  /\ \/ /\ live[o] = None /\ c.type = "registered" /\ c.seq = 1
        /\ c.inst = <<BootEpoch, instances + 1>> /\ instances' = instances + 1
     \/ /\ live[o] # None /\ c.type \in {"position", "removed"} /\ c.seq = live[o].seq + 1
        /\ c.inst = live[o].inst /\ instances' = instances

LEMMA CommitStores ==
  ASSUME CompactionTypeOK, NEW o \in Objects, Commit(o)
  PROVE  \E c : Stores(o, c)
<1>1. PICK c \in IF live[o] = None THEN {Registration(o)} ELSE NextCommits(o) :
        /\ log' = Append(log, c)
        /\ live' = [live EXCEPT ![o] = IF Active(c) THEN c ELSE None]
        /\ owed' = [owed EXCEPT ![o] = Projections(c)]
  BY DEF Commit
<1>2. instances' = IF live[o] = None THEN instances + 1 ELSE instances
  BY DEF Commit
<1>3. CASE live[o] = None
  <2>1. c = Registration(o)
    BY <1>1, <1>3
  <2> QED BY <1>1, <1>2, <1>3, <2>1, RegistrationOf DEF Stores
<1>4. CASE live[o] # None
  <2>1. c \in NextCommits(o)
    BY <1>1, <1>4
  <2> QED BY <1>1, <1>2, <1>4, <2>1, ContinuationOf DEF Stores
<1> QED BY <1>3, <1>4

(* The last of a set of sequences.                                         *)
LastOf(S, m) == m \in S /\ \A s \in S : s <= m

AllCommits(o) == CommitsIn(DOMAIN log, o)


LEMMA SeqOfMore ==
  ASSUME NEW S, NEW T, S \subseteq T, NEW q \in Seq(S)
  PROVE  q \in Seq(T)
OBVIOUS

---------------------------------------------------------------------------
(* Plans and what is lost.                                                 *)
LEMMA ByObjectLists ==
  ASSUME CompactionTypeOK, NEW S \in SUBSET DOMAIN log, \A s \in S : log[s].obj \in Objects,
         NEW order \in Injection(Objects, 1..Cardinality(Objects))
  PROVE  /\ AscendingByObject(S, order) \in Seq(S)
         /\ \A s \in S : \E k \in DOMAIN AscendingByObject(S, order) :
              AscendingByObject(S, order)[k] = s
         /\ \A i, j \in DOMAIN AscendingByObject(S, order) :
              LET s == AscendingByObject(S, order)[i]
                  t == AscendingByObject(S, order)[j]
              IN  log[s].obj = log[t].obj /\ s < t => i < j
<1> DEFINE before == {p \in S \X S : IF log[p[1]].obj = log[p[2]].obj THEN p[1] < p[2]
                                     ELSE order[log[p[1]].obj] < order[log[p[2]].obj]}
           q == AscendingByObject(S, order)
           place(s) == order[log[s].obj]
<1>1. IsFiniteSet(S)
  BY LogFacts, FS_Subset
<1>2. \A x, y \in S : <<x, y>> \in before <=>
        IF log[x].obj = log[y].obj THEN x < y ELSE place(x) < place(y)
  OBVIOUS
<1>3. \A x \in S : x \in Nat /\ place(x) \in Nat
  <2>1. Cardinality(Objects) \in Nat
    BY CompactionAssumption, FS_CardinalityType
  <2>2. order \in [Objects -> 1..Cardinality(Objects)]
    BY DEF Injection
  <2>3. \A x \in S : x \in Nat
    BY LogFacts
  <2>4. \A x \in S : place(x) \in 1..Cardinality(Objects)
    BY <2>2
  <2>5. \A x \in S : place(x) \in Nat
    <3> HIDE DEF place
    <3> QED BY <2>1, <2>4
  <2> QED BY <2>3, <2>5
<1>4. \A x, y \in S : log[x].obj # log[y].obj => place(x) # place(y)
  <2>1. DOMAIN order = Objects /\ \A a, b \in Objects : order[a] = order[b] => a = b
    BY DEF Injection, IsInjective
  <2> QED BY <2>1
<1>5. q = InOrder(S, before)
  BY DEF AscendingByObject
<1> HIDE DEF before, q, place
<1>6. TotallyOrders(before, S)
  <2>1. ASSUME NEW x \in S PROVE <<x, x>> \notin before
    BY <1>2, <1>3
  <2>2. ASSUME NEW x \in S, NEW y \in S, NEW z \in S,
               <<x, y>> \in before, <<y, z>> \in before
        PROVE  <<x, z>> \in before
    <3>1. CASE log[x].obj = log[y].obj /\ log[y].obj = log[z].obj
      BY <1>2, <1>3, <2>2, <3>1
    <3>2. CASE log[x].obj = log[y].obj /\ log[y].obj # log[z].obj
      <4>1. place(x) = place(y)
        BY <3>2 DEF place
      <4> QED BY <1>2, <2>2, <3>2, <4>1
    <3>3. CASE log[x].obj # log[y].obj /\ log[y].obj = log[z].obj
      <4>1. place(y) = place(z)
        BY <3>3 DEF place
      <4> QED BY <1>2, <2>2, <3>3, <4>1
    <3>4. CASE log[x].obj # log[y].obj /\ log[y].obj # log[z].obj
      <4>1. place(x) < place(y) /\ place(y) < place(z)
        BY <1>2, <2>2, <3>4
      <4>2. place(x) < place(z)
        BY <1>3, <4>1
      <4>3. log[x].obj # log[z].obj
        <5>1. SUFFICES ASSUME log[x].obj = log[z].obj PROVE FALSE
          OBVIOUS
        <5>2. place(x) = place(z)
          BY <5>1 DEF place
        <5> QED BY <1>3, <4>2, <5>2
      <4> QED BY <1>2, <4>2, <4>3
    <3> QED BY <3>1, <3>2, <3>3, <3>4
  <2>3. ASSUME NEW x \in S, NEW y \in S, x # y
        PROVE  <<x, y>> \in before \/ <<y, x>> \in before
    <3>1. x < y \/ y < x
      BY <1>3, <2>3
    <3>2. log[x].obj # log[y].obj => place(x) < place(y) \/ place(y) < place(x)
      BY <1>3, <1>4
    <3> QED BY <1>2, <3>1, <3>2
  <2> QED BY <2>1, <2>2, <2>3 DEF TotallyOrders
<1>7. /\ q \in Seq(S)
      /\ \A s \in S : \E k \in DOMAIN q : q[k] = s
      /\ \A i, j \in DOMAIN q : i < j <=> <<q[i], q[j]>> \in before
  BY <1>1, <1>5, <1>6, InOrderLists
<1>8. \A i \in DOMAIN q : q[i] \in S
  BY <1>7
<1>9. \A i, j \in DOMAIN q : log[q[i]].obj = log[q[j]].obj /\ q[i] < q[j] => i < j
  BY <1>2, <1>7, <1>8
<1> QED BY <1>7, <1>9 DEF q

LEMMA Deletables ==
  ASSUME CompactionTypeOK, NEW seqs \in SUBSET DOMAIN log, NEW o \in Objects,
         NEW tombstones \in BOOLEAN
  PROVE  /\ DeletableCommits(seqs, o, tombstones) \subseteq CommitsIn(seqs, o)
         /\ DeletableProjections(seqs, o) \subseteq ProjectionsIn(seqs, o)
         /\ CommitsIn(seqs, o) \subseteq seqs /\ ProjectionsIn(seqs, o) \subseteq seqs
         /\ \A s \in CommitsIn(seqs, o) :
              log[s] \in CommitEvent /\ log[s].obj = o /\ log[s].type \notin ProjectionTypes
         /\ \A s \in ProjectionsIn(seqs, o) :
              log[s] \in ProjectionEvent /\ log[s].obj = o /\ ~IsCommit(log[s])
BY LogFacts, Messages DEF DeletableCommits, DeletableProjections, CommitsIn, ProjectionsIn

(* The commits of a plan are deletable ones, the older ones of an object   *)
(* before it.                                                              *)
OldestFirst(q, seqs, tombstones) ==
  \A o \in Objects : \A k \in DOMAIN q : \A s \in DeletableCommits(seqs, o, tombstones) :
    q[k] \in AllCommits(o) /\ s < q[k] => \E j \in DOMAIN q : j < k /\ q[j] = s

LEMMA PlanLists ==
  ASSUME CompactionTypeOK, NEW seqs \in SUBSET DOMAIN log,
         NEW public \in BOOLEAN, NEW tombstones \in BOOLEAN,
         NEW q \in Plans(seqs, public, tombstones)
  PROVE  /\ q \in Seq(DOMAIN log)
         /\ \A o \in Objects : \A k \in DOMAIN q : q[k] \in AllCommits(o) =>
              q[k] \in DeletableCommits(seqs, o, tombstones)
         /\ OldestFirst(q, seqs, tombstones)
<1> DEFINE C == UNION {DeletableCommits(seqs, o, tombstones) : o \in Objects}
           P == UNION {DeletableProjections(seqs, o) : o \in Objects}
           Orders == Injection(Objects, 1..Cardinality(Objects))
<1>0. ASSUME NEW o \in Objects, NEW s \in DeletableCommits(seqs, o, tombstones)
      PROVE  log[s].obj = o
  BY Deletables
<1>1. PICK order \in Orders \X Orders :
        q = (IF public THEN AscendingByObject(C, order[1]) ELSE <<>>) \o
            AscendingByObject(P, order[2])
  BY DEF Plans
<1>2. order[1] \in Orders /\ order[2] \in Orders
  OBVIOUS
<1>3. /\ \A s \in C : \E o \in Objects : s \in DeletableCommits(seqs, o, tombstones)
      /\ \A o \in Objects : DeletableCommits(seqs, o, tombstones) \subseteq C
      /\ \A s \in P : \E o \in Objects : s \in DeletableProjections(seqs, o)
  OBVIOUS
<1> HIDE DEF C, P
<1>4. /\ C \in SUBSET DOMAIN log /\ P \in SUBSET DOMAIN log
      /\ \A s \in C : IsCommit(log[s]) /\ log[s].obj \in Objects
      /\ \A s \in P : ~IsCommit(log[s]) /\ log[s].obj \in Objects
  BY <1>3, Deletables, Messages
<1> DEFINE a == AscendingByObject(C, order[1])
           b == AscendingByObject(P, order[2])
           c == IF public THEN a ELSE <<>>
<1>5. /\ a \in Seq(C) /\ \A s \in C : \E k \in DOMAIN a : a[k] = s
      /\ \A i, j \in DOMAIN a : log[a[i]].obj = log[a[j]].obj /\ a[i] < a[j] => i < j
  BY <1>2, <1>4, ByObjectLists
<1>6. b \in Seq(P)
  BY <1>2, <1>4, ByObjectLists
<1>7. q = c \o b
  BY <1>1
<1> HIDE DEF a, b, Orders
<1>8. c \in Seq(DOMAIN log) /\ b \in Seq(DOMAIN log)
  <2>1. a \in Seq(DOMAIN log) /\ b \in Seq(DOMAIN log)
    BY <1>4, <1>5, <1>6, SeqOfMore
  <2>2. <<>> \in Seq(DOMAIN log)
    OBVIOUS
  <2>3. c = a \/ c = <<>>
    OBVIOUS
  <2> HIDE DEF c
  <2> QED BY <2>1, <2>2, <2>3
<1>9. c = a \/ c = <<>>
  OBVIOUS
<1> HIDE DEF c
<1>10. /\ q \in Seq(DOMAIN log)
       /\ \A i \in DOMAIN c : i \in DOMAIN q /\ q[i] = c[i]
       /\ \A i \in DOMAIN q : i \in DOMAIN c \/ (i - Len(c) \in DOMAIN b /\ q[i] = b[i - Len(c)])
  <2>1. q \in Seq(DOMAIN log)
    BY <1>7, <1>8, ConcatOf
  <2>2. \A i \in DOMAIN c : i \in DOMAIN q /\ q[i] = c[i]
    BY <1>7, <1>8, ConcatOf
  <2>3. ASSUME NEW i \in DOMAIN q, i \notin DOMAIN c
        PROVE  i - Len(c) \in DOMAIN b /\ q[i] = b[i - Len(c)]
    <3>1. i - Len(c) \in DOMAIN b
      BY <1>7, <1>8, <2>3, ConcatOf
    <3>2. (i - Len(c)) + Len(c) = i
      BY <1>8, <2>1
    <3> QED BY <1>7, <1>8, <3>1, <3>2, ConcatOf
  <2> QED BY <2>1, <2>2, <2>3
<1>11. ASSUME NEW o \in Objects, NEW k \in DOMAIN q, q[k] \in AllCommits(o)
       PROVE  k \in DOMAIN a /\ c = a /\ q[k] = a[k] /\ log[q[k]].obj = o
  <2>1. IsCommit(log[q[k]]) /\ log[q[k]].obj = o
    BY <1>11 DEF AllCommits, CommitsIn
  <2>2. \A i \in DOMAIN b : b[i] \in P
    BY <1>6
  <2>3. k \in DOMAIN c
    BY <1>4, <1>10, <2>1, <2>2
  <2>4. c # <<>>
    BY <2>3
  <2> QED BY <1>9, <1>10, <2>1, <2>3, <2>4
<1>12. ASSUME NEW o \in Objects, NEW k \in DOMAIN q, q[k] \in AllCommits(o)
       PROVE  q[k] \in DeletableCommits(seqs, o, tombstones)
  <2>1. q[k] \in C
    BY <1>5, <1>11, <1>12
  <2>2. PICK p \in Objects : q[k] \in DeletableCommits(seqs, p, tombstones)
    BY <1>3, <2>1
  <2>3. p = o
    BY <1>0, <1>11, <1>12, <2>2
  <2> QED BY <2>2, <2>3
<1>13. ASSUME NEW o \in Objects, NEW k \in DOMAIN q, NEW s \in DeletableCommits(seqs, o, tombstones),
              q[k] \in AllCommits(o), s < q[k]
       PROVE  \E j \in DOMAIN q : j < k /\ q[j] = s
  <2>1. k \in DOMAIN a /\ c = a /\ q[k] = a[k] /\ log[q[k]].obj = o
    BY <1>11, <1>13
  <2>2. s \in C /\ log[s].obj = o
    BY <1>0, <1>3
  <2>3. PICK j \in DOMAIN a : a[j] = s
    BY <1>5, <2>2
  <2>4. j < k
    BY <1>5, <1>13, <2>1, <2>2, <2>3
  <2> QED BY <1>10, <2>1, <2>3, <2>4
<1> QED BY <1>10, <1>12, <1>13 DEF OldestFirst

(* What the repair finds missing.                                          *)

LEMMA LostLists ==
  ASSUME CompactionTypeOK, NEW o \in Objects, live[o] # None
  PROVE  /\ Lost(o) \in Seq(ProjectionEvent)
         /\ \A k \in DOMAIN Lost(o) :
              /\ \E i \in DOMAIN ExpectedProjections(live[o]) : Lost(o)[k] = ExpectedProjections(live[o])[i]
              /\ \A s \in ProjectionsIn(Retained, o) : EventID(log[s]) # EventID(Lost(o)[k])
         /\ Differ(live[o].trans) =>
              \A j, k \in DOMAIN Lost(o) : j # k => EventID(Lost(o)[j]) # EventID(Lost(o)[k])
<1> DEFINE e == ExpectedProjections(live[o])
           S == {i \in DOMAIN e :
                   \A s \in ProjectionsIn(Retained, o) : EventID(log[s]) # EventID(e[i])}
           places == Ascending(S)
<1>1. live[o] \in CommitEvent
  BY DEF CompactionTypeOK
<1>2. /\ e \in Seq(ProjectionEvent)
      /\ Differ(live[o].trans) => \A i, j \in DOMAIN e : i # j => EventID(e[i]) # EventID(e[j])
  BY <1>1, ExpectedOf
<1>3. Lost(o) = [k \in DOMAIN places |-> e[places[k]]]
  BY DEF Lost
<1>4. \A i \in S : i \in DOMAIN e /\ \A s \in ProjectionsIn(Retained, o) : EventID(log[s]) # EventID(e[i])
  OBVIOUS
<1> HIDE DEF e, S, places
<1>5. S \in SUBSET Nat /\ IsFiniteSet(S)
  <2>1. Len(e) \in Nat /\ DOMAIN e = 1..Len(e)
    BY <1>2
  <2>2. IsFiniteSet(DOMAIN e)
    BY <2>1, FS_Interval
  <2>3. S \in SUBSET DOMAIN e
    BY <1>4
  <2>4. DOMAIN e \subseteq Nat
    BY <2>1
  <2> QED BY <2>2, <2>3, <2>4, FS_Subset
<1>6. /\ places \in Seq(S)
      /\ \A i, j \in DOMAIN places : i < j => places[i] < places[j]
  BY <1>5, AscendingLists DEF places
<1>7. /\ Len(places) \in Nat /\ DOMAIN places = 1..Len(places)
      /\ \A k \in DOMAIN places : places[k] \in S /\ places[k] \in Nat /\ k \in Nat
  <2>1. Len(places) \in Nat /\ DOMAIN places = 1..Len(places)
    BY <1>6
  <2>2. \A k \in DOMAIN places : places[k] \in S
    BY <1>6
  <2>3. \A k \in DOMAIN places : k \in Nat
    BY <2>1
  <2> QED BY <1>5, <2>1, <2>2, <2>3
<1>8. \A i, j \in DOMAIN places : i # j => places[i] # places[j]
  <2> SUFFICES ASSUME NEW i \in DOMAIN places, NEW j \in DOMAIN places, i # j
               PROVE  places[i] # places[j]
    OBVIOUS
  <2>1. i < j \/ j < i
    BY <1>7
  <2>2. places[i] < places[j] \/ places[j] < places[i]
    BY <1>6, <2>1
  <2> QED BY <1>7, <2>2
<1>9. \A k \in DOMAIN places : e[places[k]] \in ProjectionEvent /\ places[k] \in DOMAIN e
  BY <1>2, <1>4, <1>7
<1> DEFINE l == Lost(o)
<1>10. l \in [1..Len(places) -> ProjectionEvent]
  BY <1>3, <1>7, <1>9
<1> HIDE DEF l
<1>11. /\ l \in Seq(ProjectionEvent) /\ DOMAIN l = DOMAIN places
       /\ \A k \in DOMAIN l : l[k] = e[places[k]]
  BY <1>3, <1>7, <1>10 DEF l
<1>12. ASSUME NEW k \in DOMAIN l
       PROVE  /\ \E i \in DOMAIN e : l[k] = e[i]
              /\ \A s \in ProjectionsIn(Retained, o) : EventID(log[s]) # EventID(l[k])
  BY <1>4, <1>7, <1>9, <1>11
<1>13. ASSUME Differ(live[o].trans), NEW j \in DOMAIN l, NEW k \in DOMAIN l, j # k
       PROVE  EventID(l[j]) # EventID(l[k])
  BY <1>2, <1>8, <1>9, <1>11, <1>13
<1> QED BY <1>11, <1>12, <1>13 DEF e, l

---------------------------------------------------------------------------
(* Types.                                                                  *)
PendingAreCommits == \A k \in DOMAIN pending : IsCommit(log[pending[k]])

TypesInv == CompactionTypeOK /\ PendingAreCommits

LEMMA InitTypes == ASSUME Init PROVE TypesInv
<1>1. <<>> \in Seq(Event \cup {Booted}) /\ DOMAIN <<>> = {} /\ <<>> \in Seq({})
  OBVIOUS
<1>2. \A o \in Objects : <<>> \in Seq(ProjectionEvent)
  OBVIOUS
<1>3. CompactionTypeOK
  BY <1>1, <1>2 DEF Init, CompactionTypeOK
<1>4. PendingAreCommits
  BY <1>1 DEF Init, PendingAreCommits
<1> QED BY <1>3, <1>4 DEF TypesInv

(* One message more in the log.                                            *)
LEMMA LogGrows ==
  ASSUME CompactionTypeOK, NEW m \in Message, log' = Append(log, m)
  PROVE  /\ log' \in Seq(Event \cup {Booted})
         /\ Len(log') = Len(log) + 1 /\ Len(log) \in Nat
         /\ DOMAIN log = 1..Len(log) /\ DOMAIN log' = 1..(Len(log) + 1)
         /\ DOMAIN log' = DOMAIN log \cup {Len(log) + 1} /\ Len(log) + 1 \notin DOMAIN log
         /\ \A s \in DOMAIN log : log'[s] = log[s] /\ s < Len(log) + 1
         /\ log'[Len(log) + 1] = m
         /\ \A q \in Seq(DOMAIN log) : q \in Seq(DOMAIN log')
<1>1. log \in Seq(Message)
  BY LogFacts
<1>2. /\ log' \in Seq(Message)
      /\ Len(log) \in Nat /\ Len(log') = Len(log) + 1
      /\ DOMAIN log = 1..Len(log) /\ DOMAIN log' = 1..(Len(log) + 1)
      /\ log'[Len(log) + 1] = m
      /\ \A s \in DOMAIN log : log'[s] = log[s]
  BY <1>1, AppendOf
<1>3. DOMAIN log' = DOMAIN log \cup {Len(log) + 1} /\ Len(log) + 1 \notin DOMAIN log
  BY <1>2
<1>4. \A q \in Seq(DOMAIN log) : q \in Seq(DOMAIN log')
  BY <1>3, SeqOfMore
<1>5. \A s \in DOMAIN log : s < Len(log) + 1
  BY <1>2
<1> QED BY <1>2, <1>3, <1>4, <1>5 DEF Message

LEMMA ServiceTypes == ASSUME TypesInv, ServiceNext PROVE TypesInv'
<1>0. CompactionTypeOK /\ PendingAreCommits
  BY DEF TypesInv
<1> USE <1>0 DEF CompactionTypeOK
<1>9. ASSUME NEW m \in Message, log' = Append(log, m), pending' = pending PROVE PendingAreCommits'
  <2>1. \A k \in DOMAIN pending : pending[k] \in DOMAIN log
    OBVIOUS
  <2> QED BY <1>9, <2>1, LogGrows DEF PendingAreCommits
<1>1. ASSUME NEW o \in Objects, Commit(o) PROVE TypesInv'
  <2>1. PICK c : Stores(o, c)
    BY <1>1, CommitStores
  <2>2. /\ log' = Append(log, c) /\ c \in CommitEvent /\ c \in Message
        /\ live' = [live EXCEPT ![o] = IF Active(c) THEN c ELSE None]
        /\ owed' = [owed EXCEPT ![o] = Projections(c)]
        /\ instances' \in Nat
    BY <2>1, Messages DEF Stores
  <2>3. /\ service = "up" /\ UNCHANGED <<service, pending, stops, gone, plan, compactor, plans, misses>>
    BY <1>1 DEF Commit, compactionVars
  <2>4. live' \in [Objects -> CommitEvent \cup {None}] /\ owed' \in [Objects -> Seq(ProjectionEvent)]
    BY <2>2, ProjectionsOf
  <2>5. \A p \in Objects : live'[p] # None => live'[p].type # "removed"
    BY <2>2, <2>3 DEF Active
  <2>6. CompactionTypeOK'
    BY <2>2, <2>3, <2>4, <2>5, LogGrows
  <2> QED BY <1>9, <2>2, <2>3, <2>6 DEF TypesInv
<1>2. ASSUME NEW o \in Objects, Project(o) PROVE TypesInv'
  <2>1. /\ owed[o] # <<>> /\ log' = Append(log, Head(owed[o]))
        /\ owed' = [owed EXCEPT ![o] = Tail(owed[o])]
        /\ UNCHANGED <<service, live, pending, instances, stops, gone, plan, compactor, plans, misses>>
    BY <1>2 DEF Project, compactionVars
  <2>2. Head(owed[o]) \in ProjectionEvent /\ Tail(owed[o]) \in Seq(ProjectionEvent)
    BY <2>1, TailOf
  <2>3. Head(owed[o]) \in Message /\ owed' \in [Objects -> Seq(ProjectionEvent)]
    BY <2>1, <2>2, Messages
  <2>4. CompactionTypeOK'
    BY <2>1, <2>3, LogGrows
  <2> QED BY <1>9, <2>1, <2>3, <2>4 DEF TypesInv
<1>3. ASSUME Stop PROVE TypesInv'
  <2>1. /\ live' = [o \in Objects |-> None] /\ owed' = [o \in Objects |-> <<>>] /\ pending' = <<>>
        /\ service' = "down" /\ stops' = stops + 1 /\ instances' = 0
        /\ UNCHANGED <<log, gone, plan, compactor, plans, misses>>
    BY <1>3 DEF Stop, compactionVars
  <2>2. <<>> \in Seq(DOMAIN log) /\ <<>> \in Seq(ProjectionEvent) /\ DOMAIN <<>> = {}
    OBVIOUS
  <2> QED BY <2>1, <2>2 DEF TypesInv, PendingAreCommits
<1>4. ASSUME StartBoot PROVE TypesInv'
  <2>1. /\ service' = "recovering" /\ pending' = Ascending(LastPerSubject)
        /\ UNCHANGED <<log, live, owed, instances, stops, gone, plan, compactor, plans, misses>>
    BY <1>4 DEF StartBoot, compactionVars
  <2>2. LastPerSubject \in SUBSET DOMAIN log /\ LastPerSubject \in SUBSET Nat
    BY LogFacts DEF LastPerSubject
  <2>3. Ascending(LastPerSubject) \in Seq(LastPerSubject)
    BY <2>2, LogFacts, FS_Subset, AscendingLists
  <2>4. Ascending(LastPerSubject) \in Seq(DOMAIN log)
    BY <2>2, <2>3, SeqOfMore
  <2>5. \A k \in DOMAIN Ascending(LastPerSubject) : Ascending(LastPerSubject)[k] \in LastPerSubject
    BY <2>3
  <2>6. PendingAreCommits'
    BY <2>1, <2>5 DEF PendingAreCommits, LastPerSubject
  <2> QED BY <2>1, <2>4, <2>6 DEF TypesInv
<1>5. ASSUME Deliver PROVE TypesInv'
  <2>1. /\ service = "recovering" /\ pending # <<>>
        /\ pending' = Tail(pending) /\ live' = RecoveredWith(Head(pending))
        /\ UNCHANGED <<log, service, owed, instances, stops, gone, plan, compactor, plans, misses>>
    BY <1>5 DEF Deliver, compactionVars
  <2>2. /\ Tail(pending) \in Seq(DOMAIN log) /\ Head(pending) \in DOMAIN log
        /\ 1 \in DOMAIN pending /\ Head(pending) = pending[1]
        /\ \A i \in DOMAIN Tail(pending) : i + 1 \in DOMAIN pending /\ Tail(pending)[i] = pending[i + 1]
    BY <2>1, TailOf
  <2>3. log[Head(pending)] \in CommitEvent
    BY <2>2, LogFacts DEF PendingAreCommits
  <2>4. PendingAreCommits'
    BY <2>1, <2>2 DEF PendingAreCommits
  <2> QED BY <2>1, <2>2, <2>3, <2>4 DEF RecoveredWith, TypesInv
<1>6. ASSUME StartRepair PROVE TypesInv'
  <2>1. /\ service' = "repairing"
        /\ owed' = [o \in Objects |-> IF live[o] = None THEN <<>> ELSE Lost(o)]
        /\ UNCHANGED <<log, live, pending, instances, stops, gone, plan, compactor, plans, misses>>
    BY <1>6 DEF StartRepair, compactionVars
  <2>2. \A o \in Objects : live[o] # None => Lost(o) \in Seq(ProjectionEvent)
    BY LostLists
  <2>3. PendingAreCommits'
    BY <2>1 DEF PendingAreCommits
  <2> QED BY <2>1, <2>2, <2>3 DEF TypesInv
<1>7. ASSUME FinishBoot PROVE TypesInv'
  <2>1. /\ service' = "up" /\ live' = Rebuilt /\ log' = Append(log, Booted)
        /\ UNCHANGED <<owed, pending, instances, stops, gone, plan, compactor, plans, misses>>
    BY <1>7 DEF FinishBoot, compactionVars
  <2>2. live' \in [Objects -> CommitEvent \cup {None}]
    BY <2>1 DEF Rebuilt
  <2>3. \A o \in Objects : live'[o] # None => live'[o].type # "removed"
    BY <2>1 DEF Rebuilt, Active
  <2>4. Booted \in Message
    BY Messages
  <2>5. CompactionTypeOK'
    BY <2>1, <2>2, <2>3, <2>4, LogGrows
  <2> QED BY <1>9, <2>1, <2>4, <2>5 DEF TypesInv
<1> QED BY <1>1, <1>2, <1>3, <1>4, <1>5, <1>6, <1>7 DEF ServiceNext

LEMMA CompactionTypes == ASSUME TypesInv, CompactionNext PROVE TypesInv'
<1>0. CompactionTypeOK /\ PendingAreCommits
  BY DEF TypesInv
<1> USE <1>0 DEF CompactionTypeOK
<1>1. UNCHANGED serviceVars
  BY DEF CompactionNext, Plan, Validate, DeleteMsg, EndCompaction
<1>2. PendingAreCommits'
  BY <1>1 DEF serviceVars, PendingAreCommits
<1>3. \A seqs : Missed(seqs) => misses' \in Nat
  BY DEF Missed
<1>4. <<>> \in Seq(DOMAIN log)
  OBVIOUS
<1>5. CASE Plan
  <2>1. PICK seqs \in Scans : /\ Missed(seqs)
                             /\ \E public, tombstones \in BOOLEAN :
                                  plan' \in Plans(seqs, public, tombstones)
    BY <1>5 DEF Plan
  <2>2. PICK public \in BOOLEAN, tombstones \in BOOLEAN : plan' \in Plans(seqs, public, tombstones)
    BY <2>1
  <2>3. seqs \in SUBSET DOMAIN log
    BY LogFacts DEF Scans
  <2>4. plan' \in Seq(DOMAIN log)
    BY <2>2, <2>3, PlanLists
  <2>5. plans' \in Nat /\ misses' \in Nat /\ compactor' = "planned" /\ gone' = gone
    BY <1>3, <1>5, <2>1 DEF Plan
  <2> QED BY <1>1, <1>2, <2>4, <2>5 DEF serviceVars, TypesInv
<1>6. CASE Validate
  <2>1. PICK seqs \in Scans : /\ Missed(seqs)
                             /\ IF ToSet(plan) \subseteq Allowed(seqs)
                                THEN compactor' = "deleting" /\ UNCHANGED plan
                                ELSE compactor' = "idle" /\ plan' = <<>>
    BY <1>6 DEF Validate
  <2>2. plan' \in Seq(DOMAIN log) /\ compactor' \in {"idle", "planned", "deleting"} /\ misses' \in Nat
    BY <1>3, <1>4, <2>1
  <2> QED BY <1>1, <1>2, <1>6, <2>2 DEF Validate, serviceVars, TypesInv
<1>7. CASE DeleteMsg
  <2>1. /\ plan # <<>> /\ gone' = gone \cup {Head(plan)} /\ plan' = Tail(plan)
        /\ UNCHANGED <<compactor, plans, misses, serviceVars>>
    BY <1>7 DEF DeleteMsg
  <2>2. Head(plan) \in DOMAIN log /\ Tail(plan) \in Seq(DOMAIN log)
    BY <2>1, TailOf
  <2> QED BY <1>1, <1>2, <2>1, <2>2 DEF serviceVars, TypesInv
<1>8. CASE EndCompaction
  BY <1>1, <1>2, <1>4, <1>8 DEF EndCompaction, serviceVars, TypesInv
<1> QED BY <1>5, <1>6, <1>7, <1>8 DEF CompactionNext

LEMMA StepTypes == ASSUME TypesInv, [Next]_vars PROVE TypesInv'
<1>1. CASE UNCHANGED vars
  BY <1>1 DEF vars, serviceVars, compactionVars, TypesInv, CompactionTypeOK, PendingAreCommits
<1> QED BY <1>1, ServiceTypes, CompactionTypes DEF Next

LEMMA TypesHold == Spec => []TypesInv
BY InitTypes, StepTypes, PTL DEF Spec

(* Every variable has its type, and a process that is up holds no removed  *)
(* object (Boot rebuilds the active ones only).                            *)
THEOREM CompactionTypeCorrect == Spec => []CompactionTypeOK
<1>1. TypesInv => CompactionTypeOK
  BY DEF TypesInv
<1> QED BY <1>1, TypesHold, PTL

---------------------------------------------------------------------------
(* What compaction keeps.                                                  *)
OpIsPlace == \A s \in DOMAIN log : IsCommit(log[s]) => log[s].op = s

(* The last commit of an object goes only if it is a removal, and then all *)
(* the others have gone before it.                                         *)
NewestIsKept ==
  \A o \in Objects, m \in gone :
    LastOf(AllCommits(o), m) => log[m].type = "removed" /\ AllCommits(o) \subseteq gone

(* A plan that has a commit has all the older ones, before it.             *)
PlanInOrder ==
  \A o \in Objects : \A k \in DOMAIN plan : \A s \in CommitsIn(Retained, o) :
    plan[k] \in AllCommits(o) /\ s < plan[k] => \E j \in DOMAIN plan : j < k /\ plan[j] = s

(* A plan that is carried out has the last commit of removed objects only. *)
PlanIsSafe == compactor = "deleting" =>
  \A o \in Objects : \A k \in DOMAIN plan :
    LastOf(AllCommits(o), plan[k]) => log[plan[k]].type = "removed"

KeepInv == TypesInv /\ OpIsPlace /\ NewestIsKept /\ PlanInOrder /\ PlanIsSafe

LEMMA HasLast ==
  ASSUME CompactionTypeOK, NEW S \in SUBSET DOMAIN log, S # {}
  PROVE  LastOf(S, Max(S))
<1>1. Len(log) \in Nat /\ S \in SUBSET (1..Len(log))
  BY LogFacts
<1> QED BY <1>1, IntervalMax DEF LastOf

LEMMA LastIsMax ==
  ASSUME CompactionTypeOK, NEW S \in SUBSET DOMAIN log, NEW m, LastOf(S, m)
  PROVE  Max(S) = m
<1>1. LastOf(S, Max(S))
  BY HasLast DEF LastOf
<1>2. S \subseteq Nat
  BY LogFacts
<1> QED BY <1>1, <1>2 DEF LastOf

LEMMA LatestAt ==
  ASSUME CompactionTypeOK, NEW seqs \in SUBSET DOMAIN log, NEW o \in Objects,
         NEW m, LastOf(CommitsIn(seqs, o), m)
  PROVE  LatestIn(seqs, o) = log[m]
<1>1. CommitsIn(seqs, o) \in SUBSET DOMAIN log
  BY DEF CommitsIn
<1>2. Max(CommitsIn(seqs, o)) = m
  BY <1>1, LastIsMax
<1>3. CommitsIn(seqs, o) # {}
  BY DEF LastOf
<1> QED BY <1>2, <1>3 DEF LatestIn

LEMMA LatestIs ==
  ASSUME CompactionTypeOK, NEW seqs \in SUBSET DOMAIN log, NEW o \in Objects
  PROVE  /\ CommitsIn(seqs, o) \subseteq seqs
         /\ \A s \in CommitsIn(seqs, o) : log[s] \in CommitEvent /\ log[s].obj = o /\ log[s] # None
         /\ CommitsIn(seqs, o) = {} => LatestIn(seqs, o) = None
         /\ \A m \in seqs : LastOf(CommitsIn(seqs, o), m) => LatestIn(seqs, o) = log[m]
         /\ CommitsIn(seqs, o) # {} => \E m \in seqs : LastOf(CommitsIn(seqs, o), m)
<1>1. CommitsIn(seqs, o) \subseteq seqs /\ CommitsIn(seqs, o) \in SUBSET DOMAIN log
  BY DEF CommitsIn
<1>2. \A s \in CommitsIn(seqs, o) : log[s] \in CommitEvent /\ log[s].obj = o /\ log[s] # None
  BY LogFacts, Messages DEF CommitsIn
<1>3. ASSUME NEW m \in seqs, LastOf(CommitsIn(seqs, o), m) PROVE LatestIn(seqs, o) = log[m]
  BY <1>3, LatestAt
<1>4. ASSUME CommitsIn(seqs, o) # {} PROVE \E m \in seqs : LastOf(CommitsIn(seqs, o), m)
  <2>1. LastOf(CommitsIn(seqs, o), Max(CommitsIn(seqs, o)))
    BY <1>1, <1>4, HasLast
  <2> QED BY <1>1, <2>1 DEF LastOf
<1>5. CommitsIn(seqs, o) = {} => LatestIn(seqs, o) = None
  BY DEF LatestIn
<1> QED BY <1>1, <1>2, <1>3, <1>4, <1>5

(* The commits when one message more is in the log.                        *)
LEMMA CommitsGrow ==
  ASSUME CompactionTypeOK, NEW m \in Message, log' = Append(log, m), gone' = gone,
         NEW o \in Objects
  PROVE  /\ Retained' = Retained \cup {Len(log) + 1}
         /\ IsCommit(m) /\ m.obj = o =>
              /\ AllCommits(o)' = AllCommits(o) \cup {Len(log) + 1}
              /\ CommitsIn(Retained, o)' = CommitsIn(Retained, o) \cup {Len(log) + 1}
         /\ ~(IsCommit(m) /\ m.obj = o) =>
              /\ AllCommits(o)' = AllCommits(o)
              /\ CommitsIn(Retained, o)' = CommitsIn(Retained, o)
<1>1. /\ DOMAIN log' = DOMAIN log \cup {Len(log) + 1} /\ Len(log) + 1 \notin DOMAIN log
      /\ \A s \in DOMAIN log : log'[s] = log[s]
      /\ log'[Len(log) + 1] = m
  BY LogGrows
<1>2. Retained' = Retained \cup {Len(log) + 1}
  BY <1>1, LogFacts DEF Retained
<1>3. Retained \subseteq DOMAIN log
  BY LogFacts
<1>4. /\ \A s \in AllCommits(o)' : s \in AllCommits(o) \/ (s = Len(log) + 1 /\ IsCommit(m) /\ m.obj = o)
      /\ \A s \in AllCommits(o) : s \in AllCommits(o)'
      /\ IsCommit(m) /\ m.obj = o => Len(log) + 1 \in AllCommits(o)'
  BY <1>1 DEF AllCommits, CommitsIn
<1>5. /\ \A s \in CommitsIn(Retained, o)' :
           s \in CommitsIn(Retained, o) \/ (s = Len(log) + 1 /\ IsCommit(m) /\ m.obj = o)
      /\ \A s \in CommitsIn(Retained, o) : s \in CommitsIn(Retained, o)'
      /\ IsCommit(m) /\ m.obj = o => Len(log) + 1 \in CommitsIn(Retained, o)'
  BY <1>1, <1>2, <1>3 DEF CommitsIn
<1> QED BY <1>2, <1>4, <1>5

LEMMA KeepInit == ASSUME Init PROVE KeepInv
<1>1. TypesInv /\ log = <<>> /\ gone = {} /\ plan = <<>> /\ DOMAIN <<>> = {}
  BY InitTypes DEF Init
<1> QED BY <1>1 DEF KeepInv, OpIsPlace, NewestIsKept, PlanInOrder, PlanIsSafe

LEMMA KeepGrows ==
  ASSUME KeepInv, TypesInv', NEW m \in Message, log' = Append(log, m),
         IsCommit(m) => m.op = Len(log) + 1, UNCHANGED compactionVars
  PROVE  KeepInv'
<1>0. /\ CompactionTypeOK /\ UNCHANGED <<gone, plan, compactor>>
      /\ OpIsPlace /\ NewestIsKept /\ PlanInOrder /\ PlanIsSafe
  BY DEF KeepInv, TypesInv, compactionVars
<1>1. /\ DOMAIN log' = DOMAIN log \cup {Len(log) + 1} /\ Len(log) + 1 \notin DOMAIN log
      /\ \A s \in DOMAIN log : log'[s] = log[s] /\ s < Len(log) + 1 /\ s \in Nat
      /\ log'[Len(log) + 1] = m /\ Len(log) \in Nat
  BY <1>0, LogGrows, LogFacts
<1>2. OpIsPlace'
  BY <1>0, <1>1 DEF OpIsPlace
<1>3. /\ gone \subseteq DOMAIN log /\ \A k \in DOMAIN plan : plan[k] \in DOMAIN log
  BY <1>0 DEF CompactionTypeOK
<1>4. ASSUME NEW o \in Objects, NEW s \in DOMAIN log, LastOf(AllCommits(o)', s)
      PROVE  AllCommits(o)' = AllCommits(o) /\ LastOf(AllCommits(o), s)
  <2>1. AllCommits(o)' # AllCommits(o) \cup {Len(log) + 1}
    BY <1>1, <1>4 DEF LastOf
  <2> QED BY <1>0, <1>4, <2>1, CommitsGrow DEF LastOf
<1>5. NewestIsKept'
  BY <1>0, <1>1, <1>3, <1>4 DEF NewestIsKept, LastOf
<1>6. PlanIsSafe'
  BY <1>0, <1>1, <1>3, <1>4 DEF PlanIsSafe, LastOf
<1>7. PlanInOrder'
  <2> SUFFICES ASSUME NEW o \in Objects, NEW k \in DOMAIN plan, NEW s \in CommitsIn(Retained, o)',
                      plan[k] \in AllCommits(o)', s < plan[k]
               PROVE  \E j \in DOMAIN plan : j < k /\ plan[j] = s
    BY <1>0 DEF PlanInOrder
  <2>1. s # Len(log) + 1 /\ plan[k] # Len(log) + 1
    BY <1>1, <1>3
  <2>2. s \in CommitsIn(Retained, o) /\ plan[k] \in AllCommits(o)
    BY <1>0, <2>1, CommitsGrow
  <2> QED BY <1>0, <2>2 DEF PlanInOrder
<1> QED BY <1>2, <1>5, <1>6, <1>7 DEF KeepInv

LEMMA ServiceKeeps == ASSUME KeepInv, ServiceNext PROVE KeepInv'
<1>0. /\ CompactionTypeOK /\ TypesInv' /\ UNCHANGED compactionVars
  BY StepTypes DEF KeepInv, TypesInv, Next, ServiceNext, Commit, Project, Stop, StartBoot, Deliver,
       StartRepair, FinishBoot
<1>1. ASSUME log' = log PROVE KeepInv'
  BY <1>0, <1>1 DEF KeepInv, OpIsPlace, NewestIsKept, PlanInOrder, PlanIsSafe, AllCommits, CommitsIn,
       Retained, compactionVars, LastOf
<1>2. ASSUME NEW o \in Objects, Commit(o) PROVE KeepInv'
  <2>1. PICK c : Stores(o, c)
    BY <1>0, <1>2, CommitStores
  <2> QED BY <1>0, <2>1, KeepGrows, Messages DEF Stores
<1>3. ASSUME NEW o \in Objects, Project(o) PROVE KeepInv'
  <2>1. owed[o] # <<>> /\ log' = Append(log, Head(owed[o])) /\ owed[o] \in Seq(ProjectionEvent)
    BY <1>0, <1>3 DEF Project, CompactionTypeOK
  <2>2. Head(owed[o]) \in ProjectionEvent
    BY <2>1, TailOf
  <2> QED BY <1>0, <2>1, <2>2, KeepGrows, Messages
<1>4. ASSUME FinishBoot PROVE KeepInv'
  BY <1>0, <1>4, KeepGrows, Messages DEF FinishBoot
<1>5. Stop \/ StartBoot \/ Deliver \/ StartRepair => log' = log
  BY DEF Stop, StartBoot, Deliver, StartRepair
<1> QED BY <1>1, <1>2, <1>3, <1>4, <1>5 DEF ServiceNext

(* The hypothesis: no fetch of a scan fails.                               *)
NoMisses == MaxMisses = 0

LEMMA ScansAreWhole ==
  ASSUME CompactionTypeOK, NoMisses, NEW seqs \in Scans
  PROVE  seqs = Retained
BY DEF CompactionTypeOK, NoMisses, Scans

LEMMA PlanKeeps == ASSUME KeepInv, NoMisses, Plan PROVE KeepInv'
<1>0. /\ CompactionTypeOK /\ TypesInv' /\ UNCHANGED <<log, gone>> /\ compactor' = "planned"
      /\ OpIsPlace /\ NewestIsKept
  BY StepTypes DEF KeepInv, TypesInv, Next, CompactionNext, Plan, serviceVars
<1>1. PICK seqs \in Scans : \E public, tombstones \in BOOLEAN : plan' \in Plans(seqs, public, tombstones)
  BY DEF Plan
<1>2. PICK public \in BOOLEAN, tombstones \in BOOLEAN : plan' \in Plans(Retained, public, tombstones)
  BY <1>0, <1>1, ScansAreWhole
<1>3. Retained \in SUBSET DOMAIN log
  BY <1>0, LogFacts
<1>9. OldestFirst(plan', Retained, tombstones)
  BY <1>0, <1>2, <1>3, PlanLists
<1>4. ASSUME NEW o \in Objects, NEW k \in DOMAIN plan', NEW s \in CommitsIn(Retained, o),
             plan'[k] \in AllCommits(o), s < plan'[k]
      PROVE  \E j \in DOMAIN plan' : j < k /\ plan'[j] = s
  <2>1. plan'[k] \in CommitsIn(Retained, o)
    BY <1>0, <1>2, <1>3, <1>4, PlanLists, Deletables
  <2>2. PICK m \in Retained : LastOf(CommitsIn(Retained, o), m)
    BY <1>0, <1>3, <2>1, LatestIs
  <2>3. s # m /\ LatestIn(Retained, o) = log[m] /\ m \in CommitsIn(Retained, o)
    <3>1. plan'[k] <= m /\ s \in Nat /\ plan'[k] \in Nat /\ m \in Nat
      BY <1>0, <1>3, <2>1, <2>2, LatestIs, LogFacts DEF LastOf
    <3>2. s # m
      BY <1>4, <3>1
    <3>3. m \in CommitsIn(Retained, o)
      BY <2>2 DEF LastOf
    <3> QED BY <1>0, <1>3, <2>2, <3>2, <3>3, LatestAt
  <2>4. log[s].op = s /\ log[m].op = m
    BY <1>0, <1>3, <2>3, LogFacts DEF CommitsIn, OpIsPlace
  <2>5. log[s] # LatestIn(Retained, o)
    BY <2>3, <2>4
  <2>6. s \in DeletableCommits(Retained, o, tombstones)
    BY <2>5 DEF DeletableCommits
  <2> QED BY <1>4, <1>9, <2>6 DEF OldestFirst
<1>5. PlanInOrder'
  BY <1>0, <1>4 DEF PlanInOrder, AllCommits, CommitsIn, Retained
<1>6. OpIsPlace' /\ NewestIsKept' /\ PlanIsSafe'
  BY <1>0 DEF OpIsPlace, NewestIsKept, PlanIsSafe, AllCommits, CommitsIn, LastOf
<1> QED BY <1>0, <1>5, <1>6 DEF KeepInv

LEMMA ValidateKeeps == ASSUME KeepInv, NoMisses, Validate PROVE KeepInv'
<1>0. /\ CompactionTypeOK /\ TypesInv' /\ UNCHANGED <<log, gone>>
      /\ OpIsPlace /\ NewestIsKept /\ PlanInOrder
  BY StepTypes DEF KeepInv, TypesInv, Next, CompactionNext, Validate, serviceVars
<1>1. OpIsPlace' /\ NewestIsKept'
  BY <1>0 DEF OpIsPlace, NewestIsKept, AllCommits, CommitsIn, LastOf
<1>2. PICK seqs \in Scans : IF ToSet(plan) \subseteq Allowed(seqs)
                            THEN compactor' = "deleting" /\ UNCHANGED plan
                            ELSE compactor' = "idle" /\ plan' = <<>>
  BY DEF Validate
<1>3. seqs = Retained /\ Retained \in SUBSET DOMAIN log
  BY <1>0, ScansAreWhole, LogFacts
<1>4. CASE ToSet(plan) \subseteq Allowed(Retained)
  <2>1. compactor' = "deleting" /\ plan' = plan
    BY <1>2, <1>3, <1>4
  <2>2. PlanInOrder'
    BY <1>0, <2>1 DEF PlanInOrder, AllCommits, CommitsIn, Retained
  <2>3. ASSUME NEW o \in Objects, NEW k \in DOMAIN plan, LastOf(AllCommits(o), plan[k])
        PROVE  log[plan[k]].type = "removed"
    <3> DEFINE s == plan[k]
    <3>1. s \in Allowed(Retained) /\ s \in AllCommits(o)
      BY <1>4, <2>3 DEF ToSet, LastOf
    <3>2. IsCommit(log[s]) /\ log[s].obj = o /\ log[s] \in CommitEvent
      BY <1>0, <3>1, LogFacts DEF AllCommits, CommitsIn
    <3>3. PICK p \in Objects : s \in DeletableCommits(Retained, p, TRUE) \cup DeletableProjections(Retained, p)
      BY <3>1 DEF Allowed
    <3> HIDE DEF s
    <3>4. s \notin DeletableProjections(Retained, p)
      BY <1>0, <1>3, <3>2, Deletables
    <3>5. s \in DeletableCommits(Retained, p, TRUE) /\ s \in CommitsIn(Retained, p)
      BY <1>0, <1>3, <3>3, <3>4, Deletables
    <3>6. p = o
      BY <3>2, <3>5 DEF CommitsIn
    <3>7. LastOf(CommitsIn(Retained, o), s)
      <4>1. CommitsIn(Retained, o) \subseteq AllCommits(o)
        BY <1>3 DEF AllCommits, CommitsIn
      <4> QED BY <2>3, <3>5, <3>6, <4>1 DEF LastOf, s
    <3>8. LatestIn(Retained, o) = log[s]
      BY <1>0, <1>3, <3>7, LatestAt
    <3>9. ~Active(log[s])
      BY <3>5, <3>6, <3>8 DEF DeletableCommits
    <3> QED BY <3>2, <3>9, Messages DEF Active, s
  <2>4. PlanIsSafe'
    BY <1>0, <2>1, <2>3 DEF PlanIsSafe, AllCommits, CommitsIn, LastOf
  <2> QED BY <1>0, <1>1, <2>2, <2>4 DEF KeepInv
<1>5. CASE ~(ToSet(plan) \subseteq Allowed(Retained))
  <2>1. compactor' = "idle" /\ plan' = <<>> /\ DOMAIN <<>> = {}
    BY <1>2, <1>3, <1>5
  <2> QED BY <1>0, <1>1, <2>1 DEF KeepInv, PlanInOrder, PlanIsSafe
<1> QED BY <1>4, <1>5

LEMMA DeleteKeeps == ASSUME KeepInv, DeleteMsg PROVE KeepInv'
<1>0. /\ CompactionTypeOK /\ TypesInv' /\ UNCHANGED <<log, compactor>> /\ compactor = "deleting"
      /\ OpIsPlace /\ NewestIsKept /\ PlanInOrder /\ PlanIsSafe
      /\ plan # <<>> /\ gone' = gone \cup {Head(plan)} /\ plan' = Tail(plan)
  BY StepTypes DEF KeepInv, TypesInv, Next, CompactionNext, DeleteMsg, serviceVars
<1>1. /\ 1 \in DOMAIN plan /\ Head(plan) = plan[1] /\ DOMAIN plan \subseteq Nat \ {0}
      /\ \A i \in DOMAIN Tail(plan) : i \in Nat /\ i + 1 \in DOMAIN plan /\ Tail(plan)[i] = plan[i + 1]
      /\ \A i \in DOMAIN plan : i # 1 => i - 1 \in DOMAIN Tail(plan) /\ Tail(plan)[i - 1] = plan[i]
  <2>1. plan \in Seq(DOMAIN log)
    BY <1>0 DEF CompactionTypeOK
  <2>2. DOMAIN plan = 1..Len(plan) /\ Len(plan) \in Nat
    BY <2>1
  <2> QED BY <1>0, <2>1, <2>2, TailOf
<1>2. /\ OpIsPlace' /\ \A o \in Objects : AllCommits(o)' = AllCommits(o)
      /\ Retained' = Retained \ {plan[1]}
      /\ \A o \in Objects : CommitsIn(Retained, o)' = CommitsIn(Retained, o) \ {plan[1]}
  BY <1>0, <1>1 DEF OpIsPlace, AllCommits, CommitsIn, Retained
<1>3. NewestIsKept'
  <2> SUFFICES ASSUME NEW o \in Objects, NEW m \in gone \cup {plan[1]}, LastOf(AllCommits(o), m)
               PROVE  log[m].type = "removed" /\ AllCommits(o) \subseteq gone \cup {plan[1]}
    BY <1>0, <1>1, <1>2 DEF NewestIsKept, LastOf
  <2>1. CASE m \in gone
    BY <1>0, <2>1 DEF NewestIsKept
  <2>2. CASE m = plan[1]
    <3>1. log[m].type = "removed"
      BY <1>0, <1>1, <2>2 DEF PlanIsSafe
    <3>2. ASSUME NEW s \in AllCommits(o), s \notin gone, s # m PROVE FALSE
      <4>1. s \in DOMAIN log /\ m \in DOMAIN log
        BY DEF AllCommits, CommitsIn, LastOf
      <4>2. s < m
        BY <1>0, <3>2, <4>1, LogFacts DEF LastOf
      <4>3. s \in CommitsIn(Retained, o)
        BY <3>2, <4>1 DEF AllCommits, CommitsIn, Retained
      <4>4. plan[1] \in AllCommits(o)
        BY <2>2 DEF LastOf
      <4>5. \E j \in DOMAIN plan : j < 1 /\ plan[j] = s
        BY <1>0, <1>1, <2>2, <4>2, <4>3, <4>4 DEF PlanInOrder
      <4> QED BY <1>1, <4>5
    <3> QED BY <2>2, <3>1, <3>2
  <2> QED BY <2>1, <2>2
<1>4. PlanInOrder'
  <2> SUFFICES ASSUME NEW o \in Objects, NEW k \in DOMAIN Tail(plan),
                      NEW s \in CommitsIn(Retained, o) \ {plan[1]},
                      Tail(plan)[k] \in AllCommits(o), s < Tail(plan)[k]
               PROVE  \E j \in DOMAIN Tail(plan) : j < k /\ Tail(plan)[j] = s
    BY <1>0, <1>2 DEF PlanInOrder
  <2>1. k \in Nat /\ k + 1 \in DOMAIN plan /\ Tail(plan)[k] = plan[k + 1]
    BY <1>1
  <2>2. PICK j \in DOMAIN plan : j < k + 1 /\ plan[j] = s
    BY <1>0, <2>1 DEF PlanInOrder
  <2>3. j # 1 /\ j - 1 \in DOMAIN Tail(plan) /\ Tail(plan)[j - 1] = s
    BY <1>1, <2>2
  <2>4. j - 1 < k
    BY <1>1, <2>1, <2>2
  <2> QED BY <2>3, <2>4
<1>5. PlanIsSafe'
  BY <1>0, <1>1, <1>2 DEF PlanIsSafe, LastOf
<1> QED BY <1>0, <1>2, <1>3, <1>4, <1>5 DEF KeepInv

LEMMA EndKeeps == ASSUME KeepInv, EndCompaction PROVE KeepInv'
<1>0. /\ TypesInv' /\ UNCHANGED <<log, gone>> /\ compactor' = "idle" /\ plan' = <<>> /\ DOMAIN <<>> = {}
      /\ OpIsPlace /\ NewestIsKept
  BY StepTypes DEF KeepInv, TypesInv, Next, CompactionNext, EndCompaction, serviceVars
<1> QED BY <1>0 DEF KeepInv, OpIsPlace, NewestIsKept, PlanInOrder, PlanIsSafe, AllCommits, CommitsIn, LastOf

LEMMA StepKeeps == ASSUME KeepInv, NoMisses, [Next]_vars PROVE KeepInv'
<1>1. CASE UNCHANGED vars
  <2>1. TypesInv' /\ UNCHANGED <<log, gone, plan, compactor>>
    BY <1>1, StepTypes DEF KeepInv, vars, serviceVars, compactionVars
  <2> QED BY <2>1 DEF KeepInv, OpIsPlace, NewestIsKept, PlanInOrder, PlanIsSafe, AllCommits,
            CommitsIn, Retained, LastOf
<1> QED BY <1>1, ServiceKeeps, PlanKeeps, ValidateKeeps, DeleteKeeps, EndKeeps DEF Next, CompactionNext

(* What is left has the last commit of every object, or nothing of a       *)
(* removed one.                                                            *)
LEMMA KeptIsEnough ==
  ASSUME KeepInv, NEW o \in Objects
  PROVE  /\ Recovers(Retained, o) = Recovers(DOMAIN log, o)
         /\ Active(LatestIn(DOMAIN log, o)) => LatestIn(Retained, o) = LatestIn(DOMAIN log, o)
<1>0. CompactionTypeOK /\ NewestIsKept
  BY DEF KeepInv, TypesInv
<1>1. Retained \in SUBSET DOMAIN log /\ DOMAIN log \in SUBSET DOMAIN log
  BY <1>0, LogFacts
<1>2. CommitsIn(Retained, o) = AllCommits(o) \ gone
  BY DEF CommitsIn, AllCommits, Retained
<1>3. CASE AllCommits(o) = {}
  <2>1. LatestIn(Retained, o) = None /\ LatestIn(DOMAIN log, o) = None
    BY <1>0, <1>1, <1>2, <1>3, LatestIs DEF AllCommits
  <2> QED BY <2>1 DEF Recovers, Active
<1>4. CASE AllCommits(o) # {}
  <2>1. PICK m \in DOMAIN log : LastOf(AllCommits(o), m)
    BY <1>0, <1>1, <1>4, LatestIs DEF AllCommits
  <2>2. LatestIn(DOMAIN log, o) = log[m] /\ log[m] \in CommitEvent
    BY <1>0, <1>1, <2>1, LatestIs DEF AllCommits, LastOf
  <2>3. CASE m \notin gone
    <3>1. LastOf(CommitsIn(Retained, o), m)
      BY <1>2, <2>1, <2>3 DEF LastOf
    <3>2. LatestIn(Retained, o) = log[m]
      BY <1>0, <1>1, <3>1, LatestAt
    <3> QED BY <2>2, <3>2 DEF Recovers
  <2>4. CASE m \in gone
    <3>1. log[m].type = "removed" /\ CommitsIn(Retained, o) = {}
      BY <1>0, <1>2, <2>1, <2>4 DEF NewestIsKept
    <3>2. LatestIn(Retained, o) = None
      BY <1>0, <1>1, <3>1, LatestIs
    <3> QED BY <2>2, <3>1, <3>2 DEF Recovers, Active
  <2> QED BY <2>3, <2>4
<1> QED BY <1>3, <1>4

(* When no fetch of a scan fails: whatever a compaction has deleted when   *)
(* it ends or is interrupted, a boot rebuilds what it would from the whole *)
(* log (PlanCompaction, Compact and RecoverObjectCommits).                 *)
THEOREM CompactionKeepsRecovery ==
  ASSUME NoMisses PROVE Spec => []RecoveryUnaffected
<1>1. KeepInv => RecoveryUnaffected
  BY KeptIsEnough DEF RecoveryUnaffected
<1>2. KeepInv /\ [Next]_vars => KeepInv'
  BY StepKeeps
<1>3. Init => KeepInv
  BY KeepInit
<1> QED BY <1>1, <1>2, <1>3, PTL DEF Spec

---------------------------------------------------------------------------
(* What the service knows.                                                 *)
IsPending(s) == \E k \in DOMAIN pending : pending[k] = s

(* The last commit of an object is still to be delivered, or is held and   *)
(* no other one of the object is to come.                                  *)
LastToCome(o, m) ==
  \/ IsPending(m)
  \/ live[o] = log[m] /\ \A k \in DOMAIN pending : log[pending[k]].obj # o

WhileRecovering == service = "recovering" =>
  /\ \A i, j \in DOMAIN pending : i < j => pending[i] < pending[j]
  /\ \A k \in DOMAIN pending : pending[k] \in Retained
  /\ \A o \in Objects : CommitsIn(Retained, o) = {} => live[o] = None
  /\ \A o \in Objects, m \in Retained : LastOf(CommitsIn(Retained, o), m) => LastToCome(o, m)

ServiceKnows ==
  /\ service \in {"down", "recovering"} => \A o \in Objects : owed[o] = <<>>
  /\ service = "down" => \A o \in Objects : live[o] = None
  /\ service = "repairing" => \A o \in Objects : live[o] = LatestIn(Retained, o)
  /\ service = "up" => \A o \in Objects : live[o] = Recovers(DOMAIN log, o)
  /\ service \in {"recovering", "repairing"} => compactor # "deleting"

LiveInv == KeepInv /\ WhileRecovering /\ ServiceKnows

LEMMA MaxOfLast ==
  ASSUME NEW S \in SUBSET Nat, NEW m, LastOf(S, m)
  PROVE  Max(S) = m
<1>1. m \in S /\ \A s \in S : s <= m
  BY DEF LastOf
<1>2. Max(S) \in S /\ \A s \in S : s <= Max(S)
  BY <1>1 DEF Max
<1>3. Max(S) <= m /\ m <= Max(S) /\ Max(S) \in Nat /\ m \in Nat
  BY <1>1, <1>2
<1> QED BY <1>3

(* The latest commits when one message more is in the log.                 *)
LEMMA LatestGrows ==
  ASSUME CompactionTypeOK, NEW m \in Message, log' = Append(log, m), gone' = gone,
         NEW o \in Objects
  PROVE  /\ IsCommit(m) /\ m.obj = o =>
              LatestIn(DOMAIN log, o)' = m /\ LatestIn(Retained, o)' = m
         /\ ~(IsCommit(m) /\ m.obj = o) =>
              /\ LatestIn(DOMAIN log, o)' = LatestIn(DOMAIN log, o)
              /\ LatestIn(Retained, o)' = LatestIn(Retained, o)
<1>1. /\ DOMAIN log' = DOMAIN log \cup {Len(log) + 1}
      /\ \A s \in DOMAIN log : log'[s] = log[s] /\ s < Len(log) + 1 /\ s \in Nat
      /\ log'[Len(log) + 1] = m /\ Len(log) \in Nat
  BY LogGrows, LogFacts
<1>2. /\ AllCommits(o) \in SUBSET DOMAIN log /\ CommitsIn(Retained, o) \in SUBSET DOMAIN log
      /\ AllCommits(o)' = CommitsIn(DOMAIN log, o)'
  BY LogFacts DEF AllCommits, CommitsIn
<1>3. ASSUME NEW S \in SUBSET DOMAIN log
      PROVE  Max(S \cup {Len(log) + 1}) = Len(log) + 1 /\ S \cup {Len(log) + 1} # {}
  <2>1. S \cup {Len(log) + 1} \in SUBSET Nat /\ LastOf(S \cup {Len(log) + 1}, Len(log) + 1)
    BY <1>1 DEF LastOf
  <2> QED BY <2>1, MaxOfLast
<1>4. ASSUME NEW S \in SUBSET DOMAIN log, S # {} PROVE log'[Max(S)] = log[Max(S)]
  BY <1>1, <1>4, HasLast DEF LastOf
<1>5. CASE IsCommit(m) /\ m.obj = o
  <2>1. /\ CommitsIn(DOMAIN log, o)' = AllCommits(o) \cup {Len(log) + 1}
        /\ CommitsIn(Retained, o)' = CommitsIn(Retained, o) \cup {Len(log) + 1}
    BY <1>2, <1>5, CommitsGrow
  <2> QED BY <1>1, <1>2, <1>3, <1>5, <2>1 DEF LatestIn
<1>6. CASE ~(IsCommit(m) /\ m.obj = o)
  <2>1. /\ CommitsIn(DOMAIN log, o)' = CommitsIn(DOMAIN log, o)
        /\ CommitsIn(Retained, o)' = CommitsIn(Retained, o)
    BY <1>2, <1>6, CommitsGrow DEF AllCommits
  <2> QED BY <1>2, <1>4, <1>6, <2>1 DEF LatestIn, AllCommits
<1> QED BY <1>5, <1>6

(* One more hypothesis from here on is QuietBoot: no boot while messages   *)
(* are deleted.                                                            *)
LEMMA LiveInit == ASSUME Init PROVE LiveInv
<1>1. KeepInv
  BY KeepInit
<1> QED BY <1>1 DEF Init, LiveInv, WhileRecovering, ServiceKnows

LEMMA LiveCommits == ASSUME LiveInv, NEW o \in Objects, Commit(o) PROVE WhileRecovering' /\ ServiceKnows'
<1>0. /\ CompactionTypeOK /\ service = "up" /\ service' = "up" /\ gone' = gone
      /\ \A p \in Objects : live[p] = Recovers(DOMAIN log, p)
  BY DEF LiveInv, KeepInv, TypesInv, ServiceKnows, Commit, compactionVars
<1>1. PICK c : Stores(o, c)
  BY <1>0, CommitStores
<1>2. /\ c \in Message /\ IsCommit(c) /\ c.obj = o /\ log' = Append(log, c)
      /\ live' = [live EXCEPT ![o] = IF Active(c) THEN c ELSE None]
  BY <1>1, Messages DEF Stores
<1>3. ASSUME NEW p \in Objects PROVE live'[p] = Recovers(DOMAIN log, p)'
  <2>1. live \in [Objects -> CommitEvent \cup {None}]
    BY <1>0 DEF CompactionTypeOK
  <2>2. CASE p = o
    <3>1. LatestIn(DOMAIN log, o)' = c
      BY <1>0, <1>2, LatestGrows
    <3> QED BY <1>2, <2>1, <2>2, <3>1 DEF Recovers
  <2>3. CASE p # o
    <3>1. LatestIn(DOMAIN log, p)' = LatestIn(DOMAIN log, p)
      BY <1>0, <1>2, <2>3, LatestGrows
    <3> QED BY <1>0, <1>2, <2>1, <2>3, <3>1 DEF Recovers
  <2> QED BY <2>2, <2>3
<1> QED BY <1>0, <1>3 DEF WhileRecovering, ServiceKnows

LEMMA LiveProjects == ASSUME LiveInv, NEW o \in Objects, Project(o) PROVE WhileRecovering' /\ ServiceKnows'
<1>0. /\ CompactionTypeOK /\ service \in {"up", "repairing"} /\ UNCHANGED <<service, live, gone, compactor>>
      /\ owed[o] # <<>> /\ log' = Append(log, Head(owed[o])) /\ ServiceKnows
  BY DEF LiveInv, KeepInv, TypesInv, Project, compactionVars
<1>1. owed[o] \in Seq(ProjectionEvent)
  BY <1>0 DEF CompactionTypeOK
<1>2. Head(owed[o]) \in Message /\ ~IsCommit(Head(owed[o]))
  BY <1>0, <1>1, TailOf, Messages
<1>3. ASSUME NEW p \in Objects
      PROVE  /\ LatestIn(DOMAIN log, p)' = LatestIn(DOMAIN log, p)
             /\ LatestIn(Retained, p)' = LatestIn(Retained, p)
             /\ Recovers(DOMAIN log, p)' = Recovers(DOMAIN log, p)
  <2>1. /\ LatestIn(DOMAIN log, p)' = LatestIn(DOMAIN log, p)
        /\ LatestIn(Retained, p)' = LatestIn(Retained, p)
    BY <1>0, <1>2, LatestGrows
  <2> QED BY <2>1 DEF Recovers
<1> QED BY <1>0, <1>3 DEF WhileRecovering, ServiceKnows

LEMMA LiveStops == ASSUME LiveInv, Stop PROVE WhileRecovering' /\ ServiceKnows'
BY DEF Stop, WhileRecovering, ServiceKnows

LEMMA LiveStarts == ASSUME LiveInv, QuietBoot, StartBoot PROVE WhileRecovering' /\ ServiceKnows'
<1>0. /\ CompactionTypeOK /\ service' = "recovering" /\ UNCHANGED <<log, live, owed, gone, compactor>>
      /\ pending' = Ascending(LastPerSubject) /\ compactor # "deleting"
      /\ \A o \in Objects : owed[o] = <<>> /\ live[o] = None
  BY DEF LiveInv, KeepInv, TypesInv, ServiceKnows, StartBoot, compactionVars
<1>1. LastPerSubject \in SUBSET Retained /\ Retained \in SUBSET DOMAIN log /\ Retained \in SUBSET Nat
  BY <1>0, LogFacts DEF LastPerSubject
<1>2. /\ Ascending(LastPerSubject) \in Seq(LastPerSubject)
      /\ \A s \in LastPerSubject : \E k \in DOMAIN Ascending(LastPerSubject) :
           Ascending(LastPerSubject)[k] = s
      /\ \A i, j \in DOMAIN Ascending(LastPerSubject) :
           i < j => Ascending(LastPerSubject)[i] < Ascending(LastPerSubject)[j]
  BY <1>0, <1>1, LogFacts, FS_Subset, AscendingLists
<1>3. \A k \in DOMAIN Ascending(LastPerSubject) : Ascending(LastPerSubject)[k] \in Retained
  BY <1>1, <1>2
<1>4. ASSUME NEW o \in Objects, NEW m \in Retained, LastOf(CommitsIn(Retained, o), m)
      PROVE  m \in LastPerSubject
  <2>1. IsCommit(log[m]) /\ log[m].obj = o
    BY <1>4 DEF LastOf, CommitsIn
  <2>2. ASSUME NEW n \in Retained, n > m, IsCommit(log[n])
        PROVE  <<log[n].obj, Subject(log[n])>> # <<log[m].obj, Subject(log[m])>>
    <3>1. log[n].obj # o
      <4>1. n \in CommitsIn(Retained, o) => n <= m
        BY <1>4 DEF LastOf
      <4>2. n \in Nat /\ m \in Nat
        BY <1>1
      <4> QED BY <2>2, <4>1, <4>2 DEF CommitsIn
    <3> QED BY <2>1, <3>1
  <2> QED BY <2>1, <2>2 DEF LastPerSubject
<1>5. Retained' = Retained /\ \A o \in Objects : CommitsIn(Retained, o)' = CommitsIn(Retained, o)
  BY <1>0 DEF Retained, CommitsIn
<1>6. ASSUME NEW o \in Objects, NEW m \in Retained, LastOf(CommitsIn(Retained, o), m)
      PROVE  IsPending(m)'
  BY <1>0, <1>2, <1>4, <1>6 DEF IsPending
<1>7. WhileRecovering'
  BY <1>0, <1>2, <1>3, <1>5, <1>6 DEF WhileRecovering, LastToCome
<1> QED BY <1>0, <1>7 DEF ServiceKnows

LEMMA LiveDelivers == ASSUME LiveInv, Deliver PROVE WhileRecovering' /\ ServiceKnows'
<1>0. /\ CompactionTypeOK /\ PendingAreCommits /\ service = "recovering" /\ service' = "recovering"
      /\ UNCHANGED <<log, owed, gone, compactor>> /\ pending # <<>> /\ pending' = Tail(pending)
      /\ live' = RecoveredWith(Head(pending)) /\ WhileRecovering /\ ServiceKnows
  BY DEF LiveInv, KeepInv, TypesInv, Deliver, compactionVars
<1> DEFINE s == pending[1]
<1>1. /\ 1 \in DOMAIN pending /\ Head(pending) = s
      /\ \A i \in DOMAIN Tail(pending) :
           i \in Nat /\ i + 1 \in DOMAIN pending /\ Tail(pending)[i] = pending[i + 1] /\ 1 < i + 1
      /\ \A i \in DOMAIN pending : i # 1 => i - 1 \in DOMAIN Tail(pending) /\ Tail(pending)[i - 1] = pending[i]
  <2>1. pending \in Seq(DOMAIN log)
    BY <1>0 DEF CompactionTypeOK
  <2>2. \A i \in DOMAIN Tail(pending) : i \in Nat /\ 1 < i + 1
    BY <1>0, <2>1
  <2> QED BY <1>0, <2>1, <2>2, TailOf
<1>2. \A k \in DOMAIN pending : pending[k] \in Retained /\ pending[k] \in Nat /\ IsCommit(log[pending[k]])
  BY <1>0, LogFacts DEF WhileRecovering, PendingAreCommits
<1>3. s \in Retained /\ s \notin gone /\ IsCommit(log[s]) /\ log[s].obj \in Objects
  BY <1>0, <1>1, <1>2, LogFacts, Messages DEF Retained
<1>4. \A k \in DOMAIN pending : \A o \in Objects :
        log[pending[k]].obj = o => pending[k] \in CommitsIn(Retained, o)
  BY <1>2 DEF CommitsIn
<1>5. /\ \A o \in Objects : live'[o] = IF o = log[s].obj THEN log[s] ELSE live[o]
      /\ Retained' = Retained /\ \A o \in Objects : CommitsIn(Retained, o)' = CommitsIn(Retained, o)
  <2>1. live \in [Objects -> CommitEvent \cup {None}]
    BY <1>0 DEF CompactionTypeOK
  <2> QED BY <1>0, <1>1, <1>3, <2>1 DEF RecoveredWith, Retained, CommitsIn
<1>6. \A i, j \in DOMAIN pending : i < j => pending[i] < pending[j]
  BY <1>0 DEF WhileRecovering
<1>7. ASSUME NEW i \in DOMAIN Tail(pending), NEW j \in DOMAIN Tail(pending), i < j
      PROVE  Tail(pending)[i] < Tail(pending)[j]
  <2>1. i + 1 < j + 1
    BY <1>1, <1>7
  <2> QED BY <1>1, <1>6, <2>1
<1>8. \A k \in DOMAIN Tail(pending) : Tail(pending)[k] \in Retained
  BY <1>1, <1>2
<1>9. ASSUME NEW o \in Objects, CommitsIn(Retained, o) = {} PROVE live'[o] = None
  BY <1>0, <1>1, <1>4, <1>5, <1>9 DEF WhileRecovering
<1>10. ASSUME NEW o \in Objects, NEW m \in Retained, LastOf(CommitsIn(Retained, o), m)
       PROVE  LastToCome(o, m)'
  <2>1. LastToCome(o, m)
    BY <1>0, <1>10 DEF WhileRecovering
  <2>2. CASE m = s
    <3>1. log[s].obj = o /\ live'[o] = log'[m]
      BY <1>0, <1>5, <1>10, <2>2 DEF LastOf, CommitsIn
    <3>2. ASSUME NEW k \in DOMAIN Tail(pending), log[Tail(pending)[k]].obj = o PROVE FALSE
      <4>1. Tail(pending)[k] \in CommitsIn(Retained, o)
        BY <1>1, <1>4, <3>2
      <4>2. Tail(pending)[k] <= m
        BY <1>10, <4>1 DEF LastOf
      <4>3. s < Tail(pending)[k]
        BY <1>1, <1>6
      <4>4. s \in Nat /\ Tail(pending)[k] \in Nat
        BY <1>1, <1>2
      <4> QED BY <2>2, <4>2, <4>3, <4>4
    <3> QED BY <1>0, <3>1, <3>2 DEF LastToCome
  <2>3. CASE m # s /\ IsPending(m)
    <3>1. PICK k \in DOMAIN pending : pending[k] = m
      BY <2>3 DEF IsPending
    <3>2. k - 1 \in DOMAIN Tail(pending) /\ Tail(pending)[k - 1] = m
      BY <1>1, <2>3, <3>1
    <3>3. IsPending(m)'
      BY <1>0, <3>2 DEF IsPending
    <3> QED BY <3>3 DEF LastToCome
  <2>4. CASE live[o] = log[m] /\ \A k \in DOMAIN pending : log[pending[k]].obj # o
    <3>1. live'[o] = log'[m]
      BY <1>0, <1>1, <1>5, <2>4
    <3>2. \A k \in DOMAIN Tail(pending) : log[Tail(pending)[k]].obj # o
      BY <1>1, <2>4
    <3> QED BY <1>0, <3>1, <3>2 DEF LastToCome
  <2> QED BY <2>1, <2>2, <2>3, <2>4 DEF LastToCome
<1>11. WhileRecovering'
  BY <1>0, <1>5, <1>7, <1>8, <1>9, <1>10 DEF WhileRecovering
<1> QED BY <1>0, <1>11 DEF ServiceKnows

LEMMA LiveRepairs == ASSUME LiveInv, StartRepair PROVE WhileRecovering' /\ ServiceKnows'
<1>0. /\ CompactionTypeOK /\ service = "recovering" /\ service' = "repairing"
      /\ UNCHANGED <<log, live, gone, compactor>> /\ pending = <<>> /\ WhileRecovering /\ ServiceKnows
  BY DEF LiveInv, KeepInv, TypesInv, StartRepair, compactionVars
<1>1. Retained \in SUBSET DOMAIN log
  BY <1>0, LogFacts
<1>2. ASSUME NEW o \in Objects PROVE live[o] = LatestIn(Retained, o)
  <2>1. CASE CommitsIn(Retained, o) = {}
    BY <1>0, <1>1, <2>1, LatestIs DEF WhileRecovering
  <2>2. CASE CommitsIn(Retained, o) # {}
    <3>1. PICK m \in Retained : LastOf(CommitsIn(Retained, o), m)
      BY <1>0, <1>1, <2>2, LatestIs
    <3>2. LatestIn(Retained, o) = log[m]
      BY <1>0, <1>1, <3>1, LatestAt
    <3>3. LastToCome(o, m) /\ ~IsPending(m)
      BY <1>0, <3>1 DEF WhileRecovering, IsPending
    <3> QED BY <3>2, <3>3 DEF LastToCome
  <2> QED BY <2>1, <2>2
<1>3. \A o \in Objects : LatestIn(Retained, o)' = LatestIn(Retained, o)
  BY <1>0 DEF LatestIn, CommitsIn, Retained
<1> QED BY <1>0, <1>2, <1>3 DEF WhileRecovering, ServiceKnows

LEMMA LiveFinishes == ASSUME LiveInv, FinishBoot PROVE WhileRecovering' /\ ServiceKnows'
<1>0. /\ CompactionTypeOK /\ service' = "up" /\ gone' = gone
      /\ log' = Append(log, Booted) /\ live' = Rebuilt
      /\ \A o \in Objects : live[o] = LatestIn(Retained, o)
  BY DEF LiveInv, KeepInv, TypesInv, ServiceKnows, FinishBoot, compactionVars
<1>1. ASSUME NEW o \in Objects PROVE live'[o] = Recovers(DOMAIN log, o)'
  <2>1. Recovers(Retained, o) = Recovers(DOMAIN log, o)
    BY KeptIsEnough DEF LiveInv
  <2>2. LatestIn(DOMAIN log, o)' = LatestIn(DOMAIN log, o)
    BY <1>0, Messages, LatestGrows
  <2>3. live'[o] = Recovers(Retained, o)
    BY <1>0 DEF Rebuilt, Recovers
  <2> QED BY <2>1, <2>2, <2>3 DEF Recovers
<1> QED BY <1>0, <1>1 DEF WhileRecovering, ServiceKnows

LEMMA LiveCompacts ==
  ASSUME LiveInv, QuietBoot, CompactionNext PROVE WhileRecovering' /\ ServiceKnows'
<1>0. /\ CompactionTypeOK /\ WhileRecovering /\ ServiceKnows
      /\ UNCHANGED <<log, service, live, owed, pending>>
  BY DEF LiveInv, KeepInv, TypesInv, CompactionNext, Plan, Validate, DeleteMsg, EndCompaction, serviceVars
<1>1. service \in {"recovering", "repairing"} => compactor' # "deleting" /\ gone' = gone
  BY <1>0 DEF ServiceKnows, CompactionNext, Plan, Validate, DeleteMsg, EndCompaction
<1>2. \A o \in Objects : Recovers(DOMAIN log, o)' = Recovers(DOMAIN log, o)
  BY <1>0 DEF Recovers, LatestIn, CommitsIn
<1>3. service = "repairing" => \A o \in Objects : LatestIn(Retained, o)' = LatestIn(Retained, o)
  BY <1>0, <1>1 DEF LatestIn, CommitsIn, Retained
<1>4. WhileRecovering'
  BY <1>0, <1>1 DEF WhileRecovering, LastToCome, IsPending, CommitsIn, Retained, LastOf
<1>5. ServiceKnows'
  BY <1>0, <1>1, <1>2, <1>3 DEF ServiceKnows
<1> QED BY <1>4, <1>5

LEMMA StepLives == ASSUME LiveInv, NoMisses, QuietBoot, [Next]_vars PROVE LiveInv'
<1>1. KeepInv'
  BY StepKeeps DEF LiveInv
<1>2. CASE UNCHANGED vars
  <2>1. UNCHANGED <<log, gone, service, live, owed, pending, compactor>>
    BY <1>2 DEF vars, serviceVars, compactionVars
  <2>2. WhileRecovering /\ ServiceKnows
    BY DEF LiveInv
  <2>3. WhileRecovering'
    BY <2>1, <2>2 DEF WhileRecovering, LastToCome, IsPending, LastOf, CommitsIn, Retained
  <2>4. \A o \in Objects : /\ LatestIn(Retained, o)' = LatestIn(Retained, o)
                           /\ Recovers(DOMAIN log, o)' = Recovers(DOMAIN log, o)
    BY <2>1 DEF Recovers, LatestIn, CommitsIn, Retained
  <2>5. ServiceKnows'
    BY <2>1, <2>2, <2>4 DEF ServiceKnows
  <2> QED BY <1>1, <2>3, <2>5 DEF LiveInv
<1>3. CASE Next
  <2>1. WhileRecovering' /\ ServiceKnows'
    BY <1>3, LiveCommits, LiveProjects, LiveStops, LiveStarts, LiveDelivers, LiveRepairs, LiveFinishes,
       LiveCompacts DEF Next, ServiceNext
  <2> QED BY <1>1, <2>1 DEF LiveInv
<1> QED BY <1>2, <1>3

(* When no fetch of a scan fails and no boot overlaps the deletions: a     *)
(* process that is up holds for every object what the whole log says of    *)
(* it, after any number of compactions and boots.                          *)
THEOREM CompactionKeepsLive ==
  ASSUME NoMisses, QuietBoot PROVE Spec => []LiveIsLatest
<1>1. LiveInv => LiveIsLatest
  BY DEF LiveInv, ServiceKnows, LiveIsLatest
<1>2. LiveInv /\ [Next]_vars => LiveInv'
  BY StepLives
<1>3. Init => LiveInv
  BY LiveInit
<1> QED BY <1>1, <1>2, <1>3, PTL DEF Spec

---------------------------------------------------------------------------
(* What is published once.                                                 *)

(* Every incarnation was given out by this process or by an earlier one.   *)
InstancesAreOld == \A s \in DOMAIN log : log[s] # Booted =>
  /\ log[s].inst[1] <= BootEpoch
  /\ service = "up" /\ log[s].inst[1] = BootEpoch => log[s].inst[2] <= instances

SameLife(i, j) ==
  IsCommit(log[i]) /\ IsCommit(log[j]) /\ log[i].obj = log[j].obj /\ log[i].inst = log[j].inst

NumbersGrow == \A i, j \in DOMAIN log : SameLife(i, j) /\ i < j => log[i].seq < log[j].seq

(* There is a commit that the event may be derived from.                   *)
HasCommit(e) == \E s \in DOMAIN log :
  IsCommit(log[s]) /\ log[s].obj = e.obj /\ log[s].inst = e.inst /\ log[s].seq = e.seq

EventsHaveCommits ==
  /\ \A s \in DOMAIN log : log[s] # Booted => HasCommit(log[s])
  /\ \A o \in Objects : \A k \in DOMAIN owed[o] : owed[o][k].obj = o /\ HasCommit(owed[o][k])

TransitionsDiffer == \A s \in DOMAIN log : IsCommit(log[s]) => Differ(log[s].trans)

(* No event of an active object's last commit is owed and stored, or owed  *)
(* twice.                                                                  *)
OwedOnce == \A o \in Objects : Active(LatestIn(DOMAIN log, o)) => \A k \in DOMAIN owed[o] :
  /\ \A s \in DOMAIN log :
       log[s].type \in ProjectionTypes => EventID(log[s]) # EventID(owed[o][k])
  /\ \A j \in DOMAIN owed[o] : j # k => EventID(owed[o][j]) # EventID(owed[o][k])

(* No such event has gone or will go.                                      *)
Spared(s) == \A o \in Objects :
  s \in ProjectionsIn(DOMAIN log, o) => EventID(log[s]) \notin ProtectedIDs(DOMAIN log, o)

EventsAreSpared ==
  /\ \A s \in gone : Spared(s)
  /\ compactor = "deleting" => \A k \in DOMAIN plan : Spared(plan[k])

OnceInv ==
  /\ LiveInv
  /\ InstancesAreOld /\ NumbersGrow /\ EventsHaveCommits /\ TransitionsDiffer
  /\ OwedOnce /\ EventsAreSpared /\ PublishedOnce

LEMMA OnceInit == ASSUME Init PROVE OnceInv
<1>1. LiveInv /\ log = <<>> /\ gone = {} /\ compactor = "idle" /\ DOMAIN <<>> = {}
      /\ \A o \in Objects : owed[o] = <<>>
  BY LiveInit DEF Init
<1>2. InstancesAreOld /\ NumbersGrow /\ TransitionsDiffer /\ PublishedOnce
  BY <1>1 DEF InstancesAreOld, NumbersGrow, TransitionsDiffer, PublishedOnce
<1>3. EventsHaveCommits /\ OwedOnce /\ EventsAreSpared
  BY <1>1 DEF EventsHaveCommits, OwedOnce, EventsAreSpared
<1> QED BY <1>1, <1>2, <1>3 DEF OnceInv

(* One message more: what becomes of the epoch and of the readings.        *)
LEMMA EpochGrows ==
  ASSUME CompactionTypeOK, NEW m \in Message, log' = Append(log, m)
  PROVE  /\ m # Booted => BootEpoch' = BootEpoch
         /\ m = Booted => BootEpoch' = Len(log) + 1
<1> DEFINE S == {0} \cup {s \in DOMAIN log : log[s] = Booted}
<1>1. /\ DOMAIN log' = DOMAIN log \cup {Len(log) + 1} /\ Len(log) + 1 \notin DOMAIN log
      /\ \A s \in DOMAIN log : log'[s] = log[s] /\ s < Len(log) + 1 /\ s \in Nat
      /\ log'[Len(log) + 1] = m /\ Len(log) \in Nat
  BY LogGrows, LogFacts
<1>2. m # Booted => S' = S
  BY <1>1
<1>3. m = Booted => S' = S \cup {Len(log) + 1}
  BY <1>1
<1>4. S \cup {Len(log) + 1} \in SUBSET Nat /\ LastOf(S \cup {Len(log) + 1}, Len(log) + 1)
  BY <1>1 DEF LastOf
<1>5. Max(S \cup {Len(log) + 1}) = Len(log) + 1
  <2> HIDE DEF S
  <2> QED BY <1>4, MaxOfLast
<1> QED BY <1>2, <1>3, <1>5 DEF BootEpoch

LEMMA LatestBefore ==
  ASSUME CompactionTypeOK, NEW m \in Message, log' = Append(log, m),
         NEW n \in DOMAIN log', NEW o
  PROVE  /\ LatestIn(1..(n - 1), o)' = LatestIn(1..(n - 1), o)
         /\ 1..(n - 1) \in SUBSET DOMAIN log
         /\ n = Len(log) + 1 => 1..(n - 1) = DOMAIN log
<1>1. /\ DOMAIN log = 1..Len(log) /\ Len(log) \in Nat /\ DOMAIN log' = 1..(Len(log) + 1)
      /\ \A s \in DOMAIN log : log'[s] = log[s]
  BY LogGrows
<1>2. 1..(n - 1) \in SUBSET DOMAIN log /\ (n = Len(log) + 1 => 1..(n - 1) = DOMAIN log)
  BY <1>1
<1> DEFINE S == CommitsIn(1..(n - 1), o)
<1>3. CommitsIn(1..(n - 1), o)' = S /\ S \in SUBSET DOMAIN log
  BY <1>1, <1>2 DEF CommitsIn
<1>4. S # {} => Max(S) \in DOMAIN log
  <2> HIDE DEF S
  <2> QED BY <1>3, HasLast DEF LastOf
<1>5. S # {} => log'[Max(S)] = log[Max(S)]
  BY <1>1, <1>4
<1> QED BY <1>2, <1>3, <1>5 DEF LatestIn

(* A message is stored that repeats nothing, or only events of an object   *)
(* that is not active.                                                     *)
LEMMA PublishedGrows ==
  ASSUME CompactionTypeOK, PublishedOnce, NEW m \in Message, log' = Append(log, m),
         \A s \in DOMAIN log :
           m # Booted /\ log[s] # Booted /\ EventID(log[s]) = EventID(m) =>
             ~IsCommit(log[s]) /\ ~Active(LatestIn(DOMAIN log, log[s].obj))
  PROVE  PublishedOnce'
<1>1. /\ DOMAIN log = 1..Len(log) /\ Len(log) \in Nat /\ DOMAIN log' = 1..(Len(log) + 1)
      /\ \A s \in DOMAIN log : log'[s] = log[s]
      /\ log'[Len(log) + 1] = m
  BY LogGrows
<1> SUFFICES ASSUME NEW s \in DOMAIN log', NEW n \in DOMAIN log', s < n,
                    log'[s] # Booted, log'[n] # Booted, EventID(log'[s]) = EventID(log'[n])
             PROVE  ~IsCommit(log'[s]) /\ ~Active(LatestIn(1..(n - 1), log[s].obj)')
  BY DEF PublishedOnce, EventID, IsCommit, Active
<1>2. s \in DOMAIN log /\ log'[s] = log[s]
  BY <1>1
<1>3. PICK o : o = log[s].obj
  OBVIOUS
<1>4. LatestIn(1..(n - 1), log[s].obj)' = LatestIn(1..(n - 1), o)'
  BY <1>2, <1>3 DEF LatestIn, CommitsIn
<1>5. LatestIn(1..(n - 1), o)' = LatestIn(1..(n - 1), o)
  BY LatestBefore
<1>6. ~IsCommit(log[s]) /\ ~Active(LatestIn(1..(n - 1), o))
  <2>1. CASE n \in DOMAIN log
    BY <1>1, <1>2, <1>3, <2>1 DEF PublishedOnce
  <2>2. CASE n = Len(log) + 1
    <3>1. 1..(n - 1) = DOMAIN log
      BY <2>2, LatestBefore
    <3>2. m # Booted /\ log[s] # Booted /\ EventID(log[s]) = EventID(m)
      BY <1>1, <1>2, <2>2
    <3> QED BY <1>2, <1>3, <3>1, <3>2
  <2> QED BY <1>1, <2>1, <2>2
<1> QED BY <1>2, <1>4, <1>5, <1>6

LEMMA CommitsStay ==
  ASSUME CompactionTypeOK, NEW m \in Message, log' = Append(log, m), NEW e, HasCommit(e)
  PROVE  \E s \in DOMAIN log' :
           IsCommit(log'[s]) /\ log'[s].obj = e.obj /\ log'[s].inst = e.inst /\ log'[s].seq = e.seq
BY LogGrows DEF HasCommit

LEMMA SparedStay ==
  ASSUME CompactionTypeOK, NEW m \in Message, log' = Append(log, m), gone' = gone,
         NEW s \in DOMAIN log, Spared(s), NEW o \in Objects,
         IsCommit(m) /\ m.obj = o =>
           ~(\E i \in DOMAIN ExpectedProjections(m) : EventID(log[s]) = EventID(ExpectedProjections(m)[i])),
         s \in ProjectionsIn(DOMAIN log, o)'
  PROVE  EventID(log[s]) \notin ProtectedIDs(DOMAIN log, o)'
<1>1. s \in ProjectionsIn(DOMAIN log, o)
  BY LogGrows DEF ProjectionsIn
<1>2. CASE IsCommit(m) /\ m.obj = o
  <2>1. LatestIn(DOMAIN log, o)' = m
    BY <1>2, LatestGrows
  <2>2. m \in CommitEvent
    BY <1>2, Messages DEF Message, Event
  <2>3. \A e \in ToSet(ExpectedProjections(m)) :
          \E i \in DOMAIN ExpectedProjections(m) : e = ExpectedProjections(m)[i]
    BY DEF ToSet
  <2> QED BY <1>2, <2>1, <2>3 DEF ProtectedIDs
<1>3. CASE ~(IsCommit(m) /\ m.obj = o)
  <2>1. LatestIn(DOMAIN log, o)' = LatestIn(DOMAIN log, o)
    BY <1>3, LatestGrows
  <2> QED BY <1>1, <2>1 DEF ProtectedIDs, Spared
<1> QED BY <1>2, <1>3
(* A new commit has a number of its own in its incarnation.                *)
LEMMA FreshCommit ==
  ASSUME OnceInv, NEW o \in Objects, NEW c, Stores(o, c), service = "up"
  PROVE  /\ \A i \in DOMAIN log : IsCommit(log[i]) /\ log[i].obj = o /\ log[i].inst = c.inst =>
              log[i].seq < c.seq
         /\ c.inst[1] <= BootEpoch
         /\ c.inst[1] = BootEpoch => c.inst[2] <= instances'
         /\ instances' \in {instances, instances + 1} /\ instances \in Nat
<1>0. /\ CompactionTypeOK /\ live[o] = Recovers(DOMAIN log, o)
      /\ InstancesAreOld /\ NumbersGrow /\ instances \in Nat
      /\ DOMAIN log \in SUBSET DOMAIN log
  BY DEF OnceInv, LiveInv, KeepInv, TypesInv, ServiceKnows, CompactionTypeOK
<1>1. CASE live[o] = None
  <2>1. c.inst = <<BootEpoch, instances + 1>> /\ instances' = instances + 1
    BY <1>1 DEF Stores
  <2>2. ASSUME NEW i \in DOMAIN log, IsCommit(log[i]), log[i].inst = c.inst PROVE FALSE
    <3>1. log[i] # Booted
      BY <1>0, <2>2, Messages
    <3>2. log[i].inst[2] <= instances
      BY <1>0, <2>1, <2>2, <3>1 DEF InstancesAreOld
    <3>3. log[i].inst[2] = instances + 1
      BY <2>1, <2>2
    <3> QED BY <1>0, <3>2, <3>3
  <2>3. BootEpoch \in Nat
    BY <1>0, EpochOf
  <2>4. c.inst[1] = BootEpoch /\ c.inst[2] = instances + 1
    BY <2>1
  <2> QED BY <1>0, <2>1, <2>2, <2>3, <2>4
<1>2. CASE live[o] # None
  <2>1. c.inst = live[o].inst /\ c.seq = live[o].seq + 1 /\ instances' = instances
    BY <1>2 DEF Stores
  <2>2. CommitsIn(DOMAIN log, o) # {} /\ live[o] = LatestIn(DOMAIN log, o)
    BY <1>0, <1>2, LatestIs DEF Recovers, LatestIn
  <2>3. PICK m \in DOMAIN log : LastOf(CommitsIn(DOMAIN log, o), m)
    BY <1>0, <2>2, LatestIs
  <2>4. live[o] = log[m] /\ IsCommit(log[m]) /\ log[m].obj = o /\ log[m] \in CommitEvent
    <3>1. LatestIn(DOMAIN log, o) = log[m]
      BY <1>0, <2>3, LatestAt
    <3>2. m \in CommitsIn(DOMAIN log, o)
      BY <2>3 DEF LastOf
    <3> QED BY <1>0, <2>2, <3>1, <3>2, LogFacts DEF CommitsIn
  <2>5. ASSUME NEW i \in DOMAIN log, IsCommit(log[i]), log[i].obj = o, log[i].inst = c.inst
        PROVE  log[i].seq < c.seq
    <3>1. i <= m /\ i \in Nat /\ m \in Nat
      BY <1>0, <2>3, <2>5, LogFacts DEF LastOf, CommitsIn
    <3>2. SameLife(i, m)
      BY <2>1, <2>4, <2>5 DEF SameLife
    <3>3. i = m \/ log[i].seq < log[m].seq
      <4>1. i = m \/ i < m
        BY <3>1
      <4> QED BY <1>0, <3>2, <4>1 DEF NumbersGrow
    <3>4. log[i].seq \in Nat /\ log[m].seq \in Nat
      BY <1>0, <2>4, <2>5, LogFacts, Messages
    <3> QED BY <2>1, <2>4, <3>3, <3>4
  <2>6. c.inst[1] <= BootEpoch /\ (c.inst[1] = BootEpoch => c.inst[2] <= instances)
    <3>1. log[m] # Booted
      BY <2>4, Messages
    <3> QED BY <1>0, <2>1, <2>4, <3>1 DEF InstancesAreOld
  <2> QED BY <1>0, <2>1, <2>5, <2>6
<1> QED BY <1>1, <1>2

LEMMA OnceCommits ==
  ASSUME OnceInv, NEW o \in Objects, Commit(o)
  PROVE  /\ InstancesAreOld' /\ NumbersGrow' /\ EventsHaveCommits' /\ TransitionsDiffer'
         /\ OwedOnce' /\ EventsAreSpared' /\ PublishedOnce'
<1>0. /\ CompactionTypeOK /\ service = "up" /\ service' = "up" /\ UNCHANGED <<gone, plan, compactor>>
      /\ InstancesAreOld /\ NumbersGrow /\ EventsHaveCommits /\ TransitionsDiffer
      /\ OwedOnce /\ EventsAreSpared /\ PublishedOnce
  BY DEF OnceInv, LiveInv, KeepInv, TypesInv, Commit, compactionVars
<1>1. PICK c : Stores(o, c)
  BY <1>0, CommitStores
<1>2. /\ c \in CommitEvent /\ c \in Message /\ c # Booted /\ IsCommit(c) /\ c.obj = o
      /\ c.type \notin ProjectionTypes /\ Differ(c.trans)
      /\ log' = Append(log, c) /\ owed' = [owed EXCEPT ![o] = Projections(c)]
  BY <1>1, Messages DEF Stores
<1>3. /\ DOMAIN log' = DOMAIN log \cup {Len(log) + 1} /\ Len(log) + 1 \notin DOMAIN log
      /\ \A s \in DOMAIN log : log'[s] = log[s] /\ s < Len(log) + 1 /\ s \in Nat
      /\ log'[Len(log) + 1] = c /\ Len(log) \in Nat
  BY <1>0, <1>2, LogGrows, LogFacts
<1>4. /\ \A i \in DOMAIN log : IsCommit(log[i]) /\ log[i].obj = o /\ log[i].inst = c.inst =>
           log[i].seq < c.seq
      /\ c.inst[1] <= BootEpoch
      /\ c.inst[1] = BootEpoch => c.inst[2] <= instances'
      /\ instances' \in {instances, instances + 1} /\ instances \in Nat
  BY <1>0, <1>1, FreshCommit
<1>5. BootEpoch' = BootEpoch
  BY <1>0, <1>2, EpochGrows
<1>6. InstancesAreOld'
  <2> SUFFICES ASSUME NEW s \in DOMAIN log', log'[s] # Booted
               PROVE  /\ log'[s].inst[1] <= BootEpoch
                      /\ log'[s].inst[1] = BootEpoch => log'[s].inst[2] <= instances'
    BY <1>5 DEF InstancesAreOld
  <2>1. CASE s = Len(log) + 1
    BY <1>3, <1>4, <2>1
  <2>2. CASE s \in DOMAIN log
    <3>1. /\ log[s].inst[1] <= BootEpoch
          /\ log[s].inst[1] = BootEpoch => log[s].inst[2] <= instances
      BY <1>0, <1>3, <2>2 DEF InstancesAreOld
    <3>2. log[s].inst \in InstanceID
      BY <1>0, <1>3, <2>2, LogFacts, Messages DEF Message, Event
    <3>3. log[s].inst[2] \in Nat
      BY <3>2 DEF InstanceID
    <3>4. log[s].inst[2] <= instances => log[s].inst[2] <= instances'
      <4> DEFINE x == log[s].inst[2]
      <4> HIDE DEF x
      <4>1. x \in Nat => (x <= instances => x <= instances')
        BY <1>4
      <4> QED BY <3>3, <4>1 DEF x
    <3> QED BY <1>3, <2>2, <3>1, <3>4
  <2> QED BY <1>3, <2>1, <2>2
<1>7. NumbersGrow'
  <2> SUFFICES ASSUME NEW i \in DOMAIN log', NEW j \in DOMAIN log', i < j,
                      IsCommit(log'[i]), IsCommit(log'[j]),
                      log'[i].obj = log'[j].obj, log'[i].inst = log'[j].inst
               PROVE  log'[i].seq < log'[j].seq
    BY DEF NumbersGrow, SameLife, IsCommit
  <2>1. i \in DOMAIN log
    BY <1>3
  <2>2. CASE j \in DOMAIN log
    BY <1>0, <1>3, <2>1, <2>2 DEF NumbersGrow, SameLife
  <2>3. CASE j = Len(log) + 1
    BY <1>2, <1>3, <1>4, <2>1, <2>3
  <2> QED BY <1>3, <2>2, <2>3
<1>8. TransitionsDiffer'
  BY <1>0, <1>2, <1>3 DEF TransitionsDiffer, Differ, IsCommit
<1>9. owed' = [p \in Objects |-> IF p = o THEN Projections(c) ELSE owed[p]]
  BY <1>0, <1>2 DEF CompactionTypeOK
<1>10. EventsHaveCommits'
  <2>1. ASSUME NEW e, \/ HasCommit(e) \/ (e.obj = o /\ e.inst = c.inst /\ e.seq = c.seq)
        PROVE  \E s \in DOMAIN log' :
                 IsCommit(log'[s]) /\ log'[s].obj = e.obj /\ log'[s].inst = e.inst /\ log'[s].seq = e.seq
    BY <1>0, <1>2, <1>3, <2>1, CommitsStay
  <2>2. ASSUME NEW s \in DOMAIN log', log'[s] # Booted PROVE HasCommit(log[s])'
    <3>1. HasCommit(log'[s]) \/ (log'[s].obj = o /\ log'[s].inst = c.inst /\ log'[s].seq = c.seq)
      BY <1>0, <1>2, <1>3, <2>2 DEF EventsHaveCommits
    <3> QED BY <2>1, <3>1 DEF HasCommit, IsCommit
  <2>3. ASSUME NEW p \in Objects, NEW k \in DOMAIN owed'[p]
        PROVE  owed'[p][k].obj = p /\ HasCommit(owed[p][k])'
    <3>1. CASE p # o
      <4>1. owed'[p] = owed[p] /\ owed[p][k].obj = p /\ HasCommit(owed[p][k])
        BY <1>0, <1>9, <2>3, <3>1 DEF EventsHaveCommits
      <4> QED BY <2>1, <4>1 DEF HasCommit, IsCommit
    <3>2. CASE p = o
      <4>1. owed'[o] = Projections(c)
        BY <1>9
      <4>2. LET e == owed'[o][k] IN e.obj = o /\ e.inst = c.inst /\ e.seq = c.seq
        BY <1>2, <2>3, <3>2, <4>1, ProjectionsOf
      <4> QED BY <2>1, <3>2, <4>2 DEF HasCommit, IsCommit
    <3> QED BY <3>1, <3>2
  <2> QED BY <2>2, <2>3 DEF EventsHaveCommits
<1>11. ASSUME NEW s \in DOMAIN log, log[s] # Booted, log[s].obj = o, log[s].inst = c.inst
       PROVE  log[s].seq # c.seq
  <2>1. PICK i \in DOMAIN log : /\ IsCommit(log[i]) /\ log[i].obj = log[s].obj
                                /\ log[i].inst = log[s].inst /\ log[i].seq = log[s].seq
    BY <1>0, <1>11 DEF EventsHaveCommits, HasCommit
  <2>2. log[i].seq < c.seq /\ log[i].seq \in Nat /\ c.seq \in Nat
    BY <1>0, <1>2, <1>4, <1>11, <2>1, LogFacts, Messages
  <2> QED BY <2>1, <2>2
<1>12. PublishedOnce'
  <2>1. ASSUME NEW s \in DOMAIN log, log[s] # Booted PROVE EventID(log[s]) # EventID(c)
    <3>1. SUFFICES ASSUME EventID(log[s]) = EventID(c) PROVE FALSE
      OBVIOUS
    <3>2. log[s].obj = c.obj /\ log[s].inst = c.inst /\ log[s].seq = c.seq
      BY <3>1, SameID
    <3> QED BY <1>2, <1>11, <2>1, <3>2
  <2> QED BY <1>0, <1>2, <2>1, PublishedGrows
<1>13. ASSUME NEW s \in DOMAIN log, log[s].type \in ProjectionTypes, NEW e,
              e.obj = o, e.inst = c.inst, e.seq = c.seq
       PROVE  EventID(log[s]) # EventID(e)
  <2>1. SUFFICES ASSUME EventID(log[s]) = EventID(e) PROVE FALSE
    OBVIOUS
  <2>2. log[s].obj = e.obj /\ log[s].inst = e.inst /\ log[s].seq = e.seq
    BY <2>1, SameID
  <2>3. log[s] # Booted
    BY <1>13, Messages
  <2> QED BY <1>11, <1>13, <2>2, <2>3
<1>14. OwedOnce'
  <2> SUFFICES ASSUME NEW p \in Objects, Active(LatestIn(DOMAIN log, p)'), NEW k \in DOMAIN owed'[p]
               PROVE  /\ \A s \in DOMAIN log' : log'[s].type \in ProjectionTypes =>
                           EventID(log'[s]) # EventID(owed'[p][k])
                      /\ \A j \in DOMAIN owed'[p] : j # k => EventID(owed'[p][j]) # EventID(owed'[p][k])
    BY DEF OwedOnce, Active, EventID, IsCommit
  <2>1. CASE p # o
    <3>1. owed'[p] = owed[p] /\ LatestIn(DOMAIN log, p)' = LatestIn(DOMAIN log, p)
      BY <1>0, <1>2, <1>9, <2>1, LatestGrows
    <3> QED BY <1>0, <1>2, <1>3, <3>1 DEF OwedOnce
  <2>2. CASE p = o
    <3>1. owed'[p] = Projections(c)
      BY <1>9, <2>2
    <3>2. /\ \A j \in DOMAIN Projections(c) : j # k => EventID(Projections(c)[j]) # EventID(Projections(c)[k])
          /\ Projections(c)[k].obj = c.obj /\ Projections(c)[k].inst = c.inst
          /\ Projections(c)[k].seq = c.seq
      BY <1>2, <3>1, ProjectionsOf
    <3>3. ASSUME NEW s \in DOMAIN log', log'[s].type \in ProjectionTypes
          PROVE  EventID(log'[s]) # EventID(Projections(c)[k])
      BY <1>2, <1>3, <1>13, <3>2, <3>3
    <3> QED BY <3>1, <3>2, <3>3
  <2> QED BY <2>1, <2>2
<1>15. ASSUME NEW s \in DOMAIN log, Spared(s) PROVE Spared(s)'
  <2> SUFFICES ASSUME NEW p \in Objects, s \in ProjectionsIn(DOMAIN log, p)'
               PROVE  EventID(log[s]) \notin ProtectedIDs(DOMAIN log, p)'
    BY <1>3 DEF Spared, EventID, IsCommit
  <2>1. ASSUME p = o, NEW i \in DOMAIN ExpectedProjections(c)
        PROVE  EventID(log[s]) # EventID(ExpectedProjections(c)[i])
    <3>1. LET e == ExpectedProjections(c)[i] IN e.obj = o /\ e.inst = c.inst /\ e.seq = c.seq
      BY <1>2, ExpectedOf
    <3>2. log[s].type \in ProjectionTypes
      BY <1>3 DEF ProjectionsIn
    <3> QED BY <1>13, <3>1, <3>2
  <2> QED BY <1>0, <1>2, <1>15, <2>1, SparedStay
<1>16. EventsAreSpared'
  <2>1. gone \subseteq DOMAIN log /\ \A k \in DOMAIN plan : plan[k] \in DOMAIN log
    BY <1>0 DEF CompactionTypeOK
  <2>2. \A s \in gone : Spared(s)'
    BY <1>0, <1>15, <2>1 DEF EventsAreSpared
  <2>3. ASSUME compactor = "deleting", NEW k \in DOMAIN plan PROVE Spared(plan[k])'
    <3>1. PICK s \in DOMAIN log : s = plan[k]
      BY <2>1
    <3>2. Spared(s)'
      BY <1>0, <1>15, <2>3, <3>1 DEF EventsAreSpared
    <3> QED BY <1>0, <3>1, <3>2 DEF Spared
  <2> QED BY <1>0, <2>2, <2>3 DEF EventsAreSpared
<1> QED BY <1>6, <1>7, <1>8, <1>10, <1>12, <1>14, <1>16
(* A message that is not a commit is stored.                               *)
LEMMA OnceGrows ==
  ASSUME OnceInv, NEW m \in Message, ~IsCommit(m), log' = Append(log, m), UNCHANGED <<gone, plan, compactor>>
  PROVE  /\ NumbersGrow' /\ TransitionsDiffer' /\ EventsAreSpared'
         /\ \A s \in DOMAIN log : log[s] # Booted => HasCommit(log[s])
<1>0. /\ CompactionTypeOK /\ NumbersGrow /\ TransitionsDiffer /\ EventsAreSpared /\ EventsHaveCommits
  BY DEF OnceInv, LiveInv, KeepInv, TypesInv
<1>1. /\ DOMAIN log' = DOMAIN log \cup {Len(log) + 1}
      /\ \A s \in DOMAIN log : log'[s] = log[s]
      /\ log'[Len(log) + 1] = m
  BY <1>0, LogGrows
<1>2. ASSUME NEW i \in DOMAIN log', IsCommit(log'[i]) PROVE i \in DOMAIN log /\ log'[i] = log[i]
  BY <1>1, <1>2
<1>3. NumbersGrow'
  BY <1>0, <1>2 DEF NumbersGrow, SameLife, IsCommit
<1>4. TransitionsDiffer'
  BY <1>0, <1>2 DEF TransitionsDiffer, Differ, IsCommit
<1>5. ASSUME NEW s \in DOMAIN log, Spared(s) PROVE Spared(s)'
  <2> SUFFICES ASSUME NEW p \in Objects, s \in ProjectionsIn(DOMAIN log, p)'
               PROVE  EventID(log[s]) \notin ProtectedIDs(DOMAIN log, p)'
    BY <1>1 DEF Spared, EventID, IsCommit
  <2> QED BY <1>0, <1>5, SparedStay
<1>6. EventsAreSpared'
  <2>1. gone \subseteq DOMAIN log /\ \A k \in DOMAIN plan : plan[k] \in DOMAIN log
    BY <1>0 DEF CompactionTypeOK
  <2>2. \A s \in gone : Spared(s)'
    BY <1>0, <1>5, <2>1 DEF EventsAreSpared
  <2>3. ASSUME compactor = "deleting", NEW k \in DOMAIN plan PROVE Spared(plan[k])'
    <3>1. PICK s \in DOMAIN log : s = plan[k]
      BY <2>1
    <3>2. Spared(s)'
      BY <1>0, <1>5, <2>3, <3>1 DEF EventsAreSpared
    <3> QED BY <3>1, <3>2 DEF Spared
  <2> QED BY <2>2, <2>3 DEF EventsAreSpared
<1> QED BY <1>0, <1>3, <1>4, <1>6 DEF EventsHaveCommits

LEMMA OnceProjects ==
  ASSUME OnceInv, NEW o \in Objects, Project(o)
  PROVE  /\ InstancesAreOld' /\ NumbersGrow' /\ EventsHaveCommits' /\ TransitionsDiffer'
         /\ OwedOnce' /\ EventsAreSpared' /\ PublishedOnce'
<1>0. /\ CompactionTypeOK /\ UNCHANGED <<service, instances, gone, plan, compactor>>
      /\ InstancesAreOld /\ EventsHaveCommits /\ OwedOnce /\ PublishedOnce
      /\ owed[o] # <<>> /\ log' = Append(log, Head(owed[o]))
      /\ owed' = [owed EXCEPT ![o] = Tail(owed[o])]
      /\ owed \in [Objects -> Seq(ProjectionEvent)]
  BY DEF OnceInv, LiveInv, KeepInv, TypesInv, Project, compactionVars, CompactionTypeOK
<1>1. /\ 1 \in DOMAIN owed[o] /\ Head(owed[o]) = owed[o][1] /\ owed[o][1] \in ProjectionEvent
      /\ \A i \in DOMAIN Tail(owed[o]) :
           i \in Nat /\ i + 1 \in DOMAIN owed[o] /\ Tail(owed[o])[i] = owed[o][i + 1]
  BY <1>0, TailOf
<1>2. PICK m \in ProjectionEvent : m = owed[o][1]
  BY <1>1
<1>3. /\ m \in Message /\ m # Booted /\ ~IsCommit(m) /\ m.type \in ProjectionTypes /\ m.inst \in InstanceID
      /\ log' = Append(log, m) /\ m.obj = o /\ HasCommit(m)
  BY <1>0, <1>1, <1>2, Messages DEF EventsHaveCommits
<1>4. /\ DOMAIN log' = DOMAIN log \cup {Len(log) + 1}
      /\ \A s \in DOMAIN log : log'[s] = log[s]
      /\ log'[Len(log) + 1] = m
  BY <1>0, <1>3, LogGrows
<1>5. /\ NumbersGrow' /\ TransitionsDiffer' /\ EventsAreSpared'
      /\ \A s \in DOMAIN log : log[s] # Booted => HasCommit(log[s])
  BY <1>0, <1>3, OnceGrows
<1>6. BootEpoch' = BootEpoch
  BY <1>0, <1>3, EpochGrows
<1>7. InstancesAreOld'
  <2>1. PICK i \in DOMAIN log : IsCommit(log[i]) /\ log[i].inst = m.inst
    BY <1>3 DEF HasCommit
  <2>2. log[i] # Booted
    BY <2>1, Messages
  <2>3. /\ m.inst[1] <= BootEpoch
        /\ service = "up" /\ m.inst[1] = BootEpoch => m.inst[2] <= instances
    BY <1>0, <2>1, <2>2 DEF InstancesAreOld
  <2> QED BY <1>0, <1>4, <1>6, <2>3 DEF InstancesAreOld
<1>8. owed' = [p \in Objects |-> IF p = o THEN Tail(owed[o]) ELSE owed[p]]
  BY <1>0
<1>9. ASSUME NEW p \in Objects, NEW k \in DOMAIN owed'[p]
      PROVE  \E i \in DOMAIN owed[p] : /\ owed'[p][k] = owed[p][i]
                                       /\ i = (IF p = o THEN k + 1 ELSE k)
                                       /\ p = o => i # 1 /\ k \in Nat
  <2>1. CASE p = o
    <3>1. owed'[p] = Tail(owed[o])
      BY <1>8, <2>1
    <3>2. k \in Nat /\ k + 1 \in DOMAIN owed[o] /\ Tail(owed[o])[k] = owed[o][k + 1] /\ k \in 1..Len(Tail(owed[o]))
      <4>1. Tail(owed[o]) \in Seq(ProjectionEvent)
        BY <1>0, TailOf
      <4> QED BY <1>1, <1>9, <3>1, <4>1
    <3>3. k + 1 # 1
      BY <3>2
    <3> QED BY <2>1, <3>1, <3>2, <3>3
  <2>2. CASE p # o
    BY <1>8, <1>9, <2>2
  <2> QED BY <2>1, <2>2
<1>10. EventsHaveCommits'
  <2>1. ASSUME NEW e, HasCommit(e)
        PROVE  \E s \in DOMAIN log' :
                 IsCommit(log'[s]) /\ log'[s].obj = e.obj /\ log'[s].inst = e.inst /\ log'[s].seq = e.seq
    BY <1>0, <1>3, <2>1, CommitsStay
  <2>2. ASSUME NEW s \in DOMAIN log', log'[s] # Booted PROVE HasCommit(log[s])'
    <3>1. HasCommit(log'[s])
      BY <1>3, <1>4, <1>5, <2>2
    <3> QED BY <2>1, <3>1 DEF HasCommit, IsCommit
  <2>3. ASSUME NEW p \in Objects, NEW k \in DOMAIN owed'[p]
        PROVE  owed'[p][k].obj = p /\ HasCommit(owed[p][k])'
    <3>1. PICK i \in DOMAIN owed[p] : owed'[p][k] = owed[p][i]
      BY <1>9, <2>3
    <3>2. owed[p][i].obj = p /\ HasCommit(owed[p][i])
      BY <1>0 DEF EventsHaveCommits
    <3> QED BY <2>1, <3>1, <3>2 DEF HasCommit, IsCommit
  <2> QED BY <2>2, <2>3 DEF EventsHaveCommits
<1>11. \A p \in Objects : LatestIn(DOMAIN log, p)' = LatestIn(DOMAIN log, p)
  BY <1>0, <1>3, LatestGrows
<1>12. OwedOnce'
  <2> SUFFICES ASSUME NEW p \in Objects, Active(LatestIn(DOMAIN log, p)), NEW k \in DOMAIN owed'[p]
               PROVE  /\ \A s \in DOMAIN log' : log'[s].type \in ProjectionTypes =>
                           EventID(log'[s]) # EventID(owed'[p][k])
                      /\ \A j \in DOMAIN owed'[p] : j # k => EventID(owed'[p][j]) # EventID(owed'[p][k])
    BY <1>11 DEF OwedOnce, Active, EventID, IsCommit
  <2>1. PICK i \in DOMAIN owed[p] : /\ owed'[p][k] = owed[p][i]
                                    /\ i = (IF p = o THEN k + 1 ELSE k)
                                    /\ p = o => i # 1 /\ k \in Nat
    BY <1>9
  <2>2. /\ \A s \in DOMAIN log : log[s].type \in ProjectionTypes => EventID(log[s]) # EventID(owed[p][i])
        /\ \A j \in DOMAIN owed[p] : j # i => EventID(owed[p][j]) # EventID(owed[p][i])
    BY <1>0 DEF OwedOnce
  <2>3. EventID(m) # EventID(owed[p][i])
    <3>1. CASE p = o
      BY <1>1, <1>2, <2>1, <2>2, <3>1
    <3>2. CASE p # o
      <4>1. owed[p][i].obj = p
        BY <1>0 DEF EventsHaveCommits
      <4> QED BY <1>3, <3>2, <4>1, SameID
    <3> QED BY <3>1, <3>2
  <2>4. ASSUME NEW j \in DOMAIN owed'[p], j # k PROVE EventID(owed'[p][j]) # EventID(owed'[p][k])
    <3>1. PICK h \in DOMAIN owed[p] : /\ owed'[p][j] = owed[p][h]
                                      /\ h = (IF p = o THEN j + 1 ELSE j)
                                      /\ p = o => h # 1 /\ j \in Nat
      BY <1>9
    <3>2. h # i
      BY <2>1, <2>4, <3>1
    <3> QED BY <2>1, <2>2, <3>1, <3>2
  <2> QED BY <1>4, <2>1, <2>2, <2>3, <2>4
<1>13. PublishedOnce'
  <2>1. ASSUME NEW s \in DOMAIN log, log[s] # Booted, EventID(log[s]) = EventID(m)
        PROVE  ~IsCommit(log[s]) /\ ~Active(LatestIn(DOMAIN log, log[s].obj))
    <3>1. log[s].type = m.type /\ log[s].obj = m.obj /\ ~IsCommit(log[s])
      BY <1>3, <2>1, SameID
    <3>2. log[s].obj = o /\ log[s].type \in ProjectionTypes
      BY <1>3, <3>1
    <3>3. ~Active(LatestIn(DOMAIN log, o))
      BY <1>0, <1>1, <1>2, <2>1, <3>2 DEF OwedOnce
    <3> QED BY <3>1, <3>2, <3>3
  <2> QED BY <1>0, <1>3, <2>1, PublishedGrows
<1> QED BY <1>5, <1>7, <1>10, <1>12, <1>13

LEMMA OnceFinishes ==
  ASSUME OnceInv, FinishBoot
  PROVE  /\ InstancesAreOld' /\ NumbersGrow' /\ EventsHaveCommits' /\ TransitionsDiffer'
         /\ OwedOnce' /\ EventsAreSpared' /\ PublishedOnce'
<1>0. /\ CompactionTypeOK /\ UNCHANGED <<owed, instances, gone, plan, compactor>>
      /\ InstancesAreOld /\ EventsHaveCommits /\ PublishedOnce
      /\ log' = Append(log, Booted) /\ \A o \in Objects : owed[o] = <<>>
  BY DEF OnceInv, LiveInv, KeepInv, TypesInv, FinishBoot, compactionVars
<1>1. Booted \in Message /\ ~IsCommit(Booted)
  BY Messages
<1>2. /\ DOMAIN log' = DOMAIN log \cup {Len(log) + 1}
      /\ \A s \in DOMAIN log : log'[s] = log[s]
      /\ log'[Len(log) + 1] = Booted /\ Len(log) \in Nat
  BY <1>0, <1>1, LogGrows
<1>3. /\ NumbersGrow' /\ TransitionsDiffer' /\ EventsAreSpared'
      /\ \A s \in DOMAIN log : log[s] # Booted => HasCommit(log[s])
  BY <1>0, <1>1, OnceGrows
<1>4. InstancesAreOld'
  <2>1. BootEpoch' = Len(log) + 1 /\ BootEpoch <= Len(log) /\ BootEpoch \in Nat
    BY <1>0, <1>1, EpochGrows, EpochOf
  <2>2. ASSUME NEW s \in DOMAIN log, log[s] # Booted
        PROVE  log[s].inst[1] <= Len(log) + 1 /\ log[s].inst[1] # Len(log) + 1
    <3>1. log[s].inst[1] <= BootEpoch
      BY <1>0, <2>2 DEF InstancesAreOld
    <3>2. log[s].inst \in InstanceID
      BY <1>0, <2>2, LogFacts, Messages DEF Message, Event
    <3>3. log[s].inst[1] \in Nat
      BY <3>2 DEF InstanceID
    <3> HIDE DEF Message
    <3> QED BY <1>2, <2>1, <3>1, <3>3
  <2> QED BY <1>2, <2>1, <2>2 DEF InstancesAreOld
<1>5. EventsHaveCommits'
  <2>1. ASSUME NEW e, HasCommit(e)
        PROVE  \E s \in DOMAIN log' :
                 IsCommit(log'[s]) /\ log'[s].obj = e.obj /\ log'[s].inst = e.inst /\ log'[s].seq = e.seq
    BY <1>0, <1>1, <2>1, CommitsStay
  <2>2. ASSUME NEW s \in DOMAIN log', log'[s] # Booted PROVE HasCommit(log[s])'
    <3>1. HasCommit(log'[s])
      BY <1>2, <1>3, <2>2
    <3> QED BY <2>1, <3>1 DEF HasCommit, IsCommit
  <2>3. \A o \in Objects : DOMAIN owed'[o] = {}
    BY <1>0
  <2> QED BY <2>2, <2>3 DEF EventsHaveCommits
<1>6. OwedOnce'
  BY <1>0 DEF OwedOnce
<1>7. PublishedOnce'
  BY <1>0, <1>1, PublishedGrows
<1> QED BY <1>3, <1>4, <1>5, <1>6, <1>7
(* Nothing is stored.                                                      *)
LEMMA OnceRests ==
  ASSUME OnceInv, log' = log
  PROVE  /\ NumbersGrow' /\ TransitionsDiffer' /\ PublishedOnce'
         /\ \A o \in Objects : /\ LatestIn(DOMAIN log, o)' = LatestIn(DOMAIN log, o)
                               /\ ProtectedIDs(DOMAIN log, o)' = ProtectedIDs(DOMAIN log, o)
         /\ \A s : Spared(s) => Spared(s)'
         /\ \A e : HasCommit(e) => HasCommit(e)'
<1>0. NumbersGrow /\ TransitionsDiffer /\ PublishedOnce
  BY DEF OnceInv
<1>1. NumbersGrow' /\ TransitionsDiffer'
  BY <1>0 DEF NumbersGrow, SameLife, TransitionsDiffer
<1>2. PublishedOnce'
  BY <1>0 DEF PublishedOnce, LatestIn, CommitsIn
<1>4. \A o \in Objects : /\ LatestIn(DOMAIN log, o)' = LatestIn(DOMAIN log, o)
                         /\ ProtectedIDs(DOMAIN log, o)' = ProtectedIDs(DOMAIN log, o)
  BY DEF ProtectedIDs, LatestIn, CommitsIn
<1>5. \A s : Spared(s) => Spared(s)'
  BY <1>4 DEF Spared, ProjectionsIn
<1>6. \A e : HasCommit(e) => HasCommit(e)'
  BY DEF HasCommit
<1> QED BY <1>1, <1>2, <1>4, <1>5, <1>6

LEMMA OnceStops ==
  ASSUME OnceInv, Stop \/ StartBoot \/ Deliver
  PROVE  /\ InstancesAreOld' /\ NumbersGrow' /\ EventsHaveCommits' /\ TransitionsDiffer'
         /\ OwedOnce' /\ EventsAreSpared' /\ PublishedOnce'
<1>0. /\ log' = log /\ UNCHANGED <<gone, plan, compactor>> /\ service' # "up"
      /\ EventsHaveCommits /\ OwedOnce /\ EventsAreSpared
  BY DEF OnceInv, Stop, StartBoot, Deliver, compactionVars
<1>1. \A o \in Objects : owed'[o] = <<>> /\ DOMAIN owed'[o] = {}
  <2>1. \A o \in Objects : owed'[o] = <<>>
    BY DEF OnceInv, LiveInv, ServiceKnows, Stop, StartBoot, Deliver
  <2> QED BY <2>1
<1>2. InstancesAreOld'
  BY <1>0 DEF InstancesAreOld, OnceInv, BootEpoch
<1>3. EventsHaveCommits'
  BY <1>0, <1>1 DEF EventsHaveCommits, HasCommit
<1>4. OwedOnce'
  BY <1>1 DEF OwedOnce
<1>5. EventsAreSpared'
  <2>1. \A s : Spared(s) => Spared(s)'
    BY <1>0, OnceRests
  <2>2. \A k \in DOMAIN plan : Spared(plan[k])' <=> Spared(plan[k])
    BY <1>0 DEF Spared, ProjectionsIn, ProtectedIDs, LatestIn, CommitsIn
  <2> QED BY <1>0, <2>1, <2>2 DEF EventsAreSpared
<1> QED BY <1>0, <1>2, <1>3, <1>4, <1>5, OnceRests

LEMMA OnceRepairs ==
  ASSUME OnceInv, LiveInv', StartRepair
  PROVE  /\ InstancesAreOld' /\ NumbersGrow' /\ EventsHaveCommits' /\ TransitionsDiffer'
         /\ OwedOnce' /\ EventsAreSpared' /\ PublishedOnce'
<1>0. /\ CompactionTypeOK /\ KeepInv /\ log' = log /\ UNCHANGED <<live, gone, plan, compactor>>
      /\ service' = "repairing"
      /\ owed' = [o \in Objects |-> IF live[o] = None THEN <<>> ELSE Lost(o)]
      /\ EventsHaveCommits /\ TransitionsDiffer /\ EventsAreSpared
  BY DEF OnceInv, LiveInv, KeepInv, TypesInv, StartRepair, compactionVars
<1>1. Retained \in SUBSET DOMAIN log
  BY <1>0, LogFacts
<1>2. ASSUME NEW o \in Objects PROVE live[o] = LatestIn(Retained, o)
  <2>1. live'[o] = LatestIn(Retained, o)'
    BY <1>0 DEF LiveInv, ServiceKnows
  <2> QED BY <1>0, <2>1 DEF LatestIn, CommitsIn, Retained
<1>3. ASSUME NEW o \in Objects, live[o] # None
      PROVE  \E m \in DOMAIN log : log[m] = live[o] /\ IsCommit(log[m]) /\ log[m].obj = o
  <2>1. CommitsIn(Retained, o) # {}
    BY <1>2, <1>3 DEF LatestIn
  <2>2. PICK m \in Retained : LastOf(CommitsIn(Retained, o), m)
    BY <1>0, <1>1, <2>1, LatestIs
  <2>3. LatestIn(Retained, o) = log[m]
    BY <1>0, <1>1, <2>2, LatestAt
  <2> QED BY <1>1, <1>2, <2>2, <2>3 DEF LastOf, CommitsIn
<1>4. ASSUME NEW o \in Objects, NEW k \in DOMAIN owed'[o]
      PROVE  live[o] # None /\ owed'[o] = Lost(o)
  BY <1>0, <1>4
<1>5. EventsHaveCommits'
  <2>1. ASSUME NEW o \in Objects, NEW k \in DOMAIN owed'[o]
        PROVE  owed'[o][k].obj = o /\ HasCommit(owed'[o][k])
    <3>1. live[o] # None /\ owed'[o] = Lost(o) /\ live[o] \in CommitEvent
      BY <1>0, <1>4, <2>1 DEF CompactionTypeOK
    <3>2. PICK i \in DOMAIN ExpectedProjections(live[o]) : Lost(o)[k] = ExpectedProjections(live[o])[i]
      BY <1>0, <2>1, <3>1, LostLists
    <3>3. LET e == ExpectedProjections(live[o])[i]
          IN  e.obj = live[o].obj /\ e.inst = live[o].inst /\ e.seq = live[o].seq
      BY <3>1, ExpectedOf
    <3>4. PICK m \in DOMAIN log : log[m] = live[o] /\ IsCommit(log[m]) /\ log[m].obj = o
      BY <1>3, <3>1
    <3> QED BY <3>1, <3>2, <3>3, <3>4 DEF HasCommit
  <2> QED BY <1>0, <2>1 DEF EventsHaveCommits, HasCommit
<1>6. OwedOnce'
  <2> SUFFICES ASSUME NEW o \in Objects, Active(LatestIn(DOMAIN log, o)), NEW k \in DOMAIN owed'[o]
               PROVE  /\ \A s \in DOMAIN log : log[s].type \in ProjectionTypes =>
                           EventID(log[s]) # EventID(owed'[o][k])
                      /\ \A j \in DOMAIN owed'[o] : j # k => EventID(owed'[o][j]) # EventID(owed'[o][k])
    <3>1. \A o \in Objects : LatestIn(DOMAIN log, o)' = LatestIn(DOMAIN log, o)
      BY <1>0, OnceRests
    <3> QED BY <1>0, <3>1 DEF OwedOnce, Active, EventID, IsCommit
  <2>1. live[o] # None /\ owed'[o] = Lost(o) /\ live[o] \in CommitEvent
    BY <1>0, <1>4 DEF CompactionTypeOK
  <2>2. LatestIn(DOMAIN log, o) = live[o]
    BY <1>0, <1>2, KeptIsEnough
  <2>3. PICK i \in DOMAIN ExpectedProjections(live[o]) : Lost(o)[k] = ExpectedProjections(live[o])[i]
    BY <1>0, <2>1, LostLists
  <2>4. ASSUME NEW s \in DOMAIN log, log[s].type \in ProjectionTypes, EventID(log[s]) = EventID(Lost(o)[k])
        PROVE  FALSE
    <3>1. log[s].obj = Lost(o)[k].obj
      BY <2>4, SameID
    <3>2. owed'[o][k].obj = o
      BY <1>5 DEF EventsHaveCommits
    <3>3. log[s].obj = o /\ s \in ProjectionsIn(DOMAIN log, o)
      BY <2>1, <2>4, <3>1, <3>2 DEF ProjectionsIn
    <3>4. CASE s \notin gone
      <4>1. s \in ProjectionsIn(Retained, o)
        BY <3>3, <3>4 DEF ProjectionsIn, Retained
      <4>2. EventID(log[s]) # EventID(Lost(o)[k])
        BY <1>0, <2>1, <4>1, LostLists
      <4> QED BY <2>4, <4>2
    <3>5. CASE s \in gone
      <4>1. EventID(log[s]) \notin ProtectedIDs(DOMAIN log, o)
        BY <1>0, <3>3, <3>5 DEF EventsAreSpared, Spared
      <4>2. ExpectedProjections(live[o])[i] \in ToSet(ExpectedProjections(live[o]))
        BY DEF ToSet
      <4>3. EventID(Lost(o)[k]) \in ProtectedIDs(DOMAIN log, o)
        BY <2>2, <2>3, <4>2 DEF ProtectedIDs
      <4> QED BY <2>4, <4>1, <4>3
    <3> QED BY <3>4, <3>5
  <2>5. Differ(live[o].trans)
    BY <1>0, <1>3, <2>1 DEF TransitionsDiffer
  <2>6. \A j \in DOMAIN Lost(o) : j # k => EventID(Lost(o)[j]) # EventID(Lost(o)[k])
    BY <1>0, <2>1, <2>5, LostLists
  <2> QED BY <2>1, <2>4, <2>6
<1>7. EventsAreSpared'
  <2>1. \A s : Spared(s) => Spared(s)'
    BY <1>0, OnceRests
  <2>2. \A k \in DOMAIN plan : Spared(plan[k])' <=> Spared(plan[k])
    BY <1>0 DEF Spared, ProjectionsIn, ProtectedIDs, LatestIn, CommitsIn
  <2> QED BY <1>0, <2>1, <2>2 DEF EventsAreSpared
<1>8. InstancesAreOld'
  BY <1>0 DEF InstancesAreOld, OnceInv, BootEpoch
<1> QED BY <1>0, <1>5, <1>6, <1>7, <1>8, OnceRests

(* A plan that passes the validation spares the events.                    *)
LEMMA AllowedIsSpared ==
  ASSUME OnceInv, NEW s \in Allowed(Retained)
  PROVE  Spared(s)
<1>0. CompactionTypeOK /\ KeepInv /\ Retained \in SUBSET DOMAIN log
  BY LogFacts DEF OnceInv, LiveInv, KeepInv, TypesInv
<1> SUFFICES ASSUME NEW o \in Objects, s \in ProjectionsIn(DOMAIN log, o)
             PROVE  EventID(log[s]) \notin ProtectedIDs(DOMAIN log, o)
  BY DEF Spared
<1>1. PICK p \in Objects :
        s \in DeletableCommits(Retained, p, TRUE) \cup DeletableProjections(Retained, p)
  BY DEF Allowed
<1>2. s \notin DeletableCommits(Retained, p, TRUE)
  BY <1>0, Deletables DEF ProjectionsIn
<1>3. s \in DeletableProjections(Retained, p) /\ p = o
  BY <1>1, <1>2 DEF DeletableProjections, ProjectionsIn
<1>4. EventID(log[s]) \notin ProtectedIDs(Retained, o)
  BY <1>3 DEF DeletableProjections
<1>5. CASE Active(LatestIn(DOMAIN log, o))
  <2>1. LatestIn(Retained, o) = LatestIn(DOMAIN log, o)
    BY <1>0, <1>5, KeptIsEnough
  <2> QED BY <1>4, <2>1 DEF ProtectedIDs
<1>6. CASE ~Active(LatestIn(DOMAIN log, o))
  BY <1>6 DEF ProtectedIDs
<1> QED BY <1>5, <1>6

LEMMA OnceCompacts ==
  ASSUME OnceInv, NoMisses, CompactionNext
  PROVE  /\ InstancesAreOld' /\ NumbersGrow' /\ EventsHaveCommits' /\ TransitionsDiffer'
         /\ OwedOnce' /\ EventsAreSpared' /\ PublishedOnce'
<1>0. /\ CompactionTypeOK /\ log' = log /\ UNCHANGED <<service, owed, instances>>
      /\ InstancesAreOld /\ EventsHaveCommits /\ OwedOnce /\ EventsAreSpared
  BY DEF OnceInv, LiveInv, KeepInv, TypesInv, CompactionNext, Plan, Validate, DeleteMsg, EndCompaction,
       serviceVars
<1>1. InstancesAreOld' /\ EventsHaveCommits'
  BY <1>0 DEF InstancesAreOld, BootEpoch, EventsHaveCommits, HasCommit
<1>2. OwedOnce'
  <2>1. \A o \in Objects : LatestIn(DOMAIN log, o)' = LatestIn(DOMAIN log, o)
    BY <1>0, OnceRests
  <2> QED BY <1>0, <2>1 DEF OwedOnce, Active, EventID, IsCommit
<1>3. \A s : Spared(s) => Spared(s)'
  BY <1>0, OnceRests
<1>4. ASSUME Plan \/ EndCompaction PROVE EventsAreSpared'
  BY <1>0, <1>3, <1>4 DEF Plan, EndCompaction, EventsAreSpared
<1>5. ASSUME Validate PROVE EventsAreSpared'
  <2>1. PICK seqs \in Scans : IF ToSet(plan) \subseteq Allowed(seqs)
                              THEN compactor' = "deleting" /\ UNCHANGED plan
                              ELSE compactor' = "idle" /\ plan' = <<>>
    BY <1>5 DEF Validate
  <2>2. seqs = Retained /\ gone' = gone
    BY <1>0, <1>5, ScansAreWhole DEF Validate
  <2>3. ASSUME ToSet(plan) \subseteq Allowed(Retained), NEW k \in DOMAIN plan PROVE Spared(plan[k])'
    <3>1. PICK s \in Allowed(Retained) : s = plan[k]
      BY <2>3 DEF ToSet
    <3>2. Spared(s)'
      BY <1>3, AllowedIsSpared
    <3>3. plan' = plan
      BY <2>1, <2>2, <2>3
    <3> QED BY <3>1, <3>2, <3>3 DEF Spared
  <2>4. ASSUME compactor' = "deleting" PROVE plan' = plan /\ ToSet(plan) \subseteq Allowed(Retained)
    BY <2>1, <2>2, <2>4
  <2>5. \A s \in gone' : Spared(s)'
    BY <1>0, <1>3, <2>2 DEF EventsAreSpared
  <2> QED BY <2>3, <2>4, <2>5 DEF EventsAreSpared
<1>6. ASSUME DeleteMsg PROVE EventsAreSpared'
  <2>1. /\ plan # <<>> /\ gone' = gone \cup {Head(plan)} /\ plan' = Tail(plan) /\ compactor = "deleting"
        /\ plan \in Seq(DOMAIN log)
    BY <1>0, <1>6 DEF DeleteMsg, CompactionTypeOK
  <2>2. /\ 1 \in DOMAIN plan /\ Head(plan) = plan[1]
        /\ \A i \in DOMAIN Tail(plan) : i + 1 \in DOMAIN plan /\ Tail(plan)[i] = plan[i + 1]
    BY <2>1, TailOf
  <2>3. \A s \in gone' : Spared(s)'
    <3>1. Spared(Head(plan))
      BY <1>0, <2>1, <2>2 DEF EventsAreSpared
    <3>2. \A s \in gone' : Spared(s)
      BY <1>0, <2>1, <3>1 DEF EventsAreSpared
    <3> QED BY <1>3, <3>2
  <2>4. ASSUME NEW k \in DOMAIN plan' PROVE Spared(plan[k])'
    <3>1. PICK s : s = plan'[k]
      OBVIOUS
    <3>2. Spared(s)
      BY <1>0, <2>1, <2>2, <2>4, <3>1 DEF EventsAreSpared
    <3>3. Spared(s)'
      BY <1>3, <3>2
    <3> QED BY <3>1, <3>3 DEF Spared
  <2> QED BY <2>3, <2>4 DEF EventsAreSpared
<1> QED BY <1>0, <1>1, <1>2, <1>4, <1>5, <1>6, OnceRests DEF CompactionNext

LEMMA StepOnce == ASSUME OnceInv, NoMisses, QuietBoot, [Next]_vars PROVE OnceInv'
<1>1. LiveInv'
  BY StepLives DEF OnceInv
<1>2. CASE UNCHANGED vars
  <2>1. UNCHANGED <<log, gone, service, owed, instances, plan, compactor>>
    BY <1>2 DEF vars, serviceVars, compactionVars
  <2>2. InstancesAreOld /\ EventsHaveCommits /\ OwedOnce /\ EventsAreSpared
    BY DEF OnceInv
  <2>3. NumbersGrow' /\ TransitionsDiffer' /\ PublishedOnce'
    BY <2>1, OnceRests
  <2>4. InstancesAreOld' /\ EventsHaveCommits'
    BY <2>1, <2>2 DEF InstancesAreOld, BootEpoch, EventsHaveCommits, HasCommit
  <2>5. OwedOnce'
    <3>1. \A o \in Objects : LatestIn(DOMAIN log, o)' = LatestIn(DOMAIN log, o)
      BY <2>1, OnceRests
    <3> QED BY <2>1, <2>2, <3>1 DEF OwedOnce, Active, EventID, IsCommit
  <2>6. EventsAreSpared'
    <3>1. \A s : Spared(s) => Spared(s)'
      BY <2>1, OnceRests
    <3>2. \A k \in DOMAIN plan : Spared(plan[k])' <=> Spared(plan[k])
      BY <2>1 DEF Spared, ProjectionsIn, ProtectedIDs, LatestIn, CommitsIn
    <3> QED BY <2>1, <2>2, <3>1, <3>2 DEF EventsAreSpared
  <2> QED BY <1>1, <2>3, <2>4, <2>5, <2>6 DEF OnceInv
<1>3. CASE Next
  <2>1. /\ InstancesAreOld' /\ NumbersGrow' /\ EventsHaveCommits' /\ TransitionsDiffer'
        /\ OwedOnce' /\ EventsAreSpared' /\ PublishedOnce'
    BY <1>1, <1>3, OnceCommits, OnceProjects, OnceStops, OnceRepairs, OnceFinishes, OnceCompacts
       DEF Next, ServiceNext
  <2> QED BY <1>1, <2>1 DEF OnceInv
<1> QED BY <1>2, <1>3

(* When no fetch of a scan fails and no boot overlaps the deletions: what  *)
(* the repair of a boot publishes is never stored already, deleted or not, *)
(* except for the events of a removal (RepairLatestProjections against     *)
(* PlanCompaction).                                                        *)
THEOREM CompactionRepeatsNothing ==
  ASSUME NoMisses, QuietBoot PROVE Spec => []PublishedOnce
<1>1. OnceInv => PublishedOnce
  BY DEF OnceInv
<1>2. OnceInv /\ [Next]_vars => OnceInv'
  BY StepOnce
<1>3. Init => OnceInv
  BY OnceInit
<1> QED BY <1>1, <1>2, <1>3, PTL DEF Spec

---------------------------------------------------------------------------
(* The log as ObjectHistory sees it.                                       *)

LEMMA SameSeq ==
  ASSUME NEW S, NEW s \in Seq(S), NEW t \in Seq(S), Len(s) = Len(t),
         \A k \in 1..Len(s) : s[k] = t[k]
  PROVE  s = t
OBVIOUS

(* Elements of a set are listed by their rank in it.                       *)
LEMMA AscendingRanks ==
  ASSUME NEW S \in SUBSET Nat, IsFiniteSet(S)
  PROVE  /\ Ascending(S) \in Seq(S) /\ Cardinality(S) \in Nat
         /\ DOMAIN Ascending(S) = 1..Cardinality(S) /\ Len(Ascending(S)) = Cardinality(S)
         /\ \A k \in DOMAIN Ascending(S), s \in S :
              Ascending(S)[k] = s <=> Cardinality({x \in S : x < s}) = k - 1
<1> DEFINE before == {p \in S \X S : p[1] < p[2]}
           q == Ascending(S)
           n == Cardinality(S)
<1>1. \A x, y \in S : <<x, y>> \in before <=> x < y
  OBVIOUS
<1>2. q = InOrder(S, before)
  BY DEF Ascending
<1> HIDE DEF before, q
<1>3. TotallyOrders(before, S)
  BY <1>1 DEF TotallyOrders
<1>4. /\ q \in Seq(S) /\ DOMAIN q = 1..n
      /\ \A k \in DOMAIN q, s \in S :
           q[k] = s <=> Cardinality({x \in S : <<x, s>> \in before}) = k - 1
  BY <1>2, <1>3, InOrderLists
<1>5. \A s \in S : {x \in S : <<x, s>> \in before} = {x \in S : x < s}
  BY <1>1
<1>6. n \in Nat
  BY FS_CardinalityType
<1>7. Len(q) = n
  <2> HIDE DEF n
  <2> QED BY <1>4, <1>6
<1> QED BY <1>4, <1>5, <1>6, <1>7 DEF q

(* A greater element is listed last.                                       *)
LEMMA AscendingMore ==
  ASSUME NEW S \in SUBSET Nat, IsFiniteSet(S), NEW m \in Nat, \A s \in S : s < m
  PROVE  Ascending(S \cup {m}) = Append(Ascending(S), m)
<1> DEFINE T == S \cup {m}
           q == Ascending(S)
           r == Ascending(T)
           n == Cardinality(S)
<1>1. m \notin S
  OBVIOUS
<1>2. T \in SUBSET Nat /\ IsFiniteSet(T) /\ Cardinality(T) = n + 1
  BY <1>1, FS_AddElement
<1>3. /\ q \in Seq(S) /\ n \in Nat /\ DOMAIN q = 1..n /\ Len(q) = n
      /\ \A k \in DOMAIN q, s \in S : q[k] = s <=> Cardinality({x \in S : x < s}) = k - 1
  BY AscendingRanks
<1>4. /\ r \in Seq(T) /\ DOMAIN r = 1..(n + 1) /\ Len(r) = n + 1
      /\ \A k \in DOMAIN r, s \in T : r[k] = s <=> Cardinality({x \in T : x < s}) = k - 1
  BY <1>2, AscendingRanks
<1>5. \A s \in S : s \in T /\ {x \in T : x < s} = {x \in S : x < s}
  OBVIOUS
<1>6. m \in T /\ {x \in T : x < m} = S
  <2>1. \A x \in S : x < m /\ x \in T
    OBVIOUS
  <2>2. ~(m < m) /\ m \in T /\ \A x \in T : x \in S \/ x = m
    OBVIOUS
  <2> HIDE DEF T
  <2> QED BY <2>1, <2>2
<1> HIDE DEF T, q, r, n
<1>7. r[n + 1] = m
  <2>1. Cardinality({x \in T : x < m}) = n
    BY <1>6 DEF n
  <2>2. n \in Nat /\ n + 1 \in DOMAIN r
    BY <1>3, <1>4
  <2>3. n = (n + 1) - 1
    BY <2>2
  <2> QED BY <1>4, <1>6, <2>1, <2>2, <2>3
<1>8. ASSUME NEW k \in 1..n PROVE r[k] = q[k]
  <2>1. k \in DOMAIN q /\ k \in DOMAIN r /\ q[k] \in S
    BY <1>3, <1>4
  <2>2. Cardinality({x \in T : x < q[k]}) = k - 1
    BY <1>3, <1>5, <2>1
  <2> QED BY <1>4, <1>5, <2>1, <2>2
<1>9. q \in Seq(T) /\ r \in Seq(T)
  <2>1. S \subseteq T
    BY <1>5
  <2> QED BY <1>3, <1>4, <2>1, SeqOfMore
<1>10. /\ Append(q, m) \in Seq(T) /\ Len(Append(q, m)) = n + 1
       /\ Append(q, m)[n + 1] = m /\ \A k \in 1..n : Append(q, m)[k] = q[k]
  BY <1>3, <1>6, <1>9, AppendOf
<1>11. \A k \in 1..(n + 1) : r[k] = Append(q, m)[k]
  <2>1. \A k \in 1..(n + 1) : k = n + 1 \/ k \in 1..n
    BY <1>3
  <2> QED BY <1>7, <1>8, <1>10, <2>1
<1>12. r = Append(q, m)
  BY <1>4, <1>9, <1>10, <1>11, SameSeq
<1> QED BY <1>12 DEF q, r, T

(* The last element is listed last.                                        *)
LEMMA AscendingEnds ==
  ASSUME NEW S \in SUBSET Nat, IsFiniteSet(S), NEW m, LastOf(S, m)
  PROVE  Len(Ascending(S)) \in DOMAIN Ascending(S) /\ Ascending(S)[Len(Ascending(S))] = m
<1> DEFINE q == Ascending(S)
<1>1. m \in S /\ \A s \in S : s <= m
  BY DEF LastOf
<1>2. /\ q \in Seq(S) /\ \E k \in DOMAIN q : q[k] = m
      /\ \A i, j \in DOMAIN q : i < j => q[i] < q[j]
  BY <1>1, AscendingLists
<1> HIDE DEF q
<1>3. PICK k \in DOMAIN q : q[k] = m
  BY <1>2
<1>4. Len(q) \in DOMAIN q /\ q[Len(q)] \in S /\ k \in Nat /\ k <= Len(q) /\ Len(q) \in Nat
  BY <1>2, <1>3
<1>5. k = Len(q)
  <2>1. q[Len(q)] <= m /\ q[Len(q)] \in Nat /\ m \in Nat
    BY <1>1, <1>4
  <2>2. ~(m < q[Len(q)])
    BY <2>1
  <2>3. ~(k < Len(q))
    BY <1>2, <1>3, <1>4, <2>2
  <2> QED BY <1>4, <2>3
<1> QED BY <1>3, <1>4, <1>5 DEF q

LEMMA CommitsOfAre ==
  ASSUME CompactionTypeOK, NEW o \in Objects
  PROVE  /\ CommitsOf(o) \in Seq(Event)
         /\ AllCommits(o) \in SUBSET Nat /\ IsFiniteSet(AllCommits(o))
         /\ \A k \in DOMAIN CommitsOf(o) : \E s \in AllCommits(o) : CommitsOf(o)[k] = log[s]
         /\ AllCommits(o) = {} => CommitsOf(o) = <<>>
         /\ \A m : LastOf(AllCommits(o), m) =>
              CommitsOf(o) # <<>> /\ CommitsOf(o)[Len(CommitsOf(o))] = log[m]
<1> DEFINE S == AllCommits(o)
           q == Ascending(S)
           h == CommitsOf(o)
<1>1. S \in SUBSET Nat /\ IsFiniteSet(S) /\ \A s \in S : log[s] \in Event
  <2>1. S \in SUBSET DOMAIN log /\ \A s \in S : s \in Nat /\ log[s] \in CommitEvent
    BY LogFacts DEF AllCommits, CommitsIn
  <2>2. IsFiniteSet(S)
    BY <2>1, LogFacts, FS_Subset
  <2> HIDE DEF S
  <2> QED BY <2>1, <2>2 DEF Event
<1>2. q \in Seq(S) /\ Cardinality(S) \in Nat /\ DOMAIN q = 1..Cardinality(S) /\ Len(q) = Cardinality(S)
  BY <1>1, AscendingRanks
<1>3. h = [k \in DOMAIN q |-> log[q[k]]]
  BY DEF CommitsOf, AllCommits
<1>4. \A m : LastOf(S, m) => Len(q) \in DOMAIN q /\ q[Len(q)] = m
  BY <1>1, AscendingEnds
<1>5. S = {} => Cardinality(S) = 0
  BY FS_EmptySet
<1> HIDE DEF S, q, h
<1>6. \A k \in DOMAIN h : q[k] \in S /\ h[k] = log[q[k]]
  BY <1>2, <1>3
<1>7. h \in Seq(Event) /\ Len(h) = Len(q)
  <2>1. h \in [1..Cardinality(S) -> Event]
    BY <1>1, <1>2, <1>3, <1>6
  <2> QED BY <1>2, <2>1
<1>8. S = {} => h = <<>>
  BY <1>2, <1>5, <1>7
<1>9. \A m : LastOf(S, m) => h # <<>> /\ h[Len(h)] = log[m]
  BY <1>2, <1>3, <1>4, <1>7
<1> QED BY <1>1, <1>6, <1>7, <1>8, <1>9 DEF S, q, h

(* A message that is no commit of the object.                              *)
LEMMA HistoryRests ==
  ASSUME CompactionTypeOK, NEW o \in Objects,
         AllCommits(o)' = AllCommits(o), \A s \in DOMAIN log : log'[s] = log[s]
  PROVE  CommitsOf(o)' = CommitsOf(o)
<1> DEFINE S == AllCommits(o)
           q == Ascending(S)
<1>1. S \in SUBSET DOMAIN log /\ S \in SUBSET Nat /\ IsFiniteSet(S)
  BY CommitsOfAre DEF AllCommits, CommitsIn
<1>2. q \in Seq(S)
  BY <1>1, AscendingRanks
<1>3. CommitsOf(o) = [k \in DOMAIN q |-> log[q[k]]]
  BY DEF CommitsOf, AllCommits
<1>4. CommitsOf(o)' = [k \in DOMAIN q |-> log'[q[k]]]
  <2>1. CommitsOf(o)' = LET r == Ascending(AllCommits(o)') IN [k \in DOMAIN r |-> log'[r[k]]]
    BY DEF CommitsOf, AllCommits, Ascending, InOrder
  <2> QED BY <2>1
<1> HIDE DEF S, q
<1>5. \A k \in DOMAIN q : log'[q[k]] = log[q[k]]
  BY <1>1, <1>2
<1> QED BY <1>3, <1>4, <1>5

(* A commit of the object.                                                 *)
LEMMA HistoryMore ==
  ASSUME CompactionTypeOK, NEW o \in Objects, NEW c \in CommitEvent, c.obj = o,
         log' = Append(log, c), gone' = gone
  PROVE  CommitsOf(o)' = Append(CommitsOf(o), c)
<1> DEFINE S == AllCommits(o)
           q == Ascending(S)
           n == Len(log) + 1
           h == CommitsOf(o)
<1>1. /\ S \in SUBSET DOMAIN log /\ S \in SUBSET Nat /\ IsFiniteSet(S) /\ h \in Seq(Event)
  BY CommitsOfAre DEF AllCommits, CommitsIn
<1>2. /\ n \in Nat /\ log'[n] = c /\ \A s \in DOMAIN log : log'[s] = log[s] /\ s < n
  BY LogGrows, Messages, LogFacts
<1>3. AllCommits(o)' = S \cup {n}
  BY CommitsGrow, Messages
<1>4. Ascending(S \cup {n}) = Append(q, n)
  <2>1. \A s \in S : s < n
    BY <1>1, <1>2
  <2> HIDE DEF S, n
  <2> QED BY <1>1, <1>2, <2>1, AscendingMore
<1>5. q \in Seq(S)
  BY <1>1, AscendingRanks
<1>6. h = [k \in DOMAIN q |-> log[q[k]]]
  BY DEF CommitsOf, AllCommits
<1>7. CommitsOf(o)' = [k \in DOMAIN Append(q, n) |-> log'[Append(q, n)[k]]]
  <2>1. CommitsOf(o)' = LET r == Ascending(AllCommits(o)') IN [k \in DOMAIN r |-> log'[r[k]]]
    BY DEF CommitsOf, AllCommits, Ascending, InOrder
  <2>2. Ascending(AllCommits(o)') = Append(q, n)
    BY <1>3, <1>4
  <2> HIDE DEF q, n, S
  <2> QED BY <2>1, <2>2
<1>8. c \in Event
  BY DEF Event
<1> HIDE DEF S, q, n, h
<1>9. q \in Seq(Nat)
  BY <1>1, <1>5
<1>10. /\ Len(q) \in Nat /\ DOMAIN q = 1..Len(q) /\ DOMAIN Append(q, n) = 1..(Len(q) + 1)
       /\ Append(q, n)[Len(q) + 1] = n /\ \A k \in DOMAIN q : Append(q, n)[k] = q[k]
  BY <1>2, <1>9, AppendOf
<1>11. \A k \in DOMAIN q : q[k] \in DOMAIN log /\ log'[q[k]] = log[q[k]]
  BY <1>1, <1>2, <1>5
<1>12. Len(h) = Len(q) /\ DOMAIN h = 1..Len(q)
  BY <1>1, <1>6, <1>10
<1>13. /\ Append(h, c) \in Seq(Event) /\ DOMAIN Append(h, c) = 1..(Len(q) + 1)
       /\ Append(h, c)[Len(q) + 1] = c /\ \A k \in DOMAIN h : Append(h, c)[k] = h[k]
  BY <1>1, <1>8, <1>12, AppendOf
<1>14. \A k \in 1..(Len(q) + 1) : log'[Append(q, n)[k]] = Append(h, c)[k]
  <2> SUFFICES ASSUME NEW k \in 1..(Len(q) + 1) PROVE log'[Append(q, n)[k]] = Append(h, c)[k]
    OBVIOUS
  <2>1. CASE k = Len(q) + 1
    BY <1>2, <1>10, <1>13, <2>1
  <2>2. CASE k # Len(q) + 1
    <3>1. k \in DOMAIN q /\ k \in DOMAIN h
      BY <1>10, <1>12, <2>2
    <3> QED BY <1>6, <1>10, <1>11, <1>13, <3>1
  <2> QED BY <2>1, <2>2
<1>15. CommitsOf(o)' \in Seq(Event) /\ Len(CommitsOf(o)') = Len(q) + 1
  <2>1. CommitsOf(o)' \in [1..(Len(q) + 1) -> Event]
    <3>1. \A k \in 1..(Len(q) + 1) : Append(h, c)[k] \in Event
      BY <1>13
    <3> QED BY <1>7, <1>10, <1>14, <3>1
  <2> QED BY <1>10, <2>1
<1>16. \A k \in 1..(Len(q) + 1) : CommitsOf(o)'[k] = Append(h, c)[k]
  BY <1>7, <1>10, <1>14
<1>17. Len(Append(h, c)) = Len(q) + 1
  BY <1>10, <1>13
<1>18. CommitsOf(o)' = Append(h, c)
  BY <1>13, <1>15, <1>16, <1>17, SameSeq
<1> QED BY <1>18 DEF h

LEMMA HistoryGrows ==
  ASSUME OnceInv, NEW o \in Objects, Commit(o)
  PROVE  History!Commit(o)
<1> DEFINE history == [p \in Objects |-> CommitsOf(p)]
           h == CommitsOf(o)
<1>0. /\ CompactionTypeOK /\ service = "up" /\ live[o] = Recovers(DOMAIN log, o)
      /\ gone' = gone /\ OpIsPlace /\ InstancesAreOld /\ instances \in Nat
      /\ DOMAIN log \in SUBSET DOMAIN log
  BY DEF OnceInv, LiveInv, KeepInv, TypesInv, ServiceKnows, Commit, compactionVars, CompactionTypeOK
<1>1. PICK c : Stores(o, c)
  BY <1>0, CommitStores
<1>2. /\ c \in CommitEvent /\ c \in Event /\ c.obj = o /\ c.op = Len(log) + 1 /\ log' = Append(log, c)
  BY <1>1 DEF Stores, Event
<1>3. CommitsOf(o)' = Append(h, c)
  BY <1>0, <1>2, HistoryMore
<1>4. ASSUME NEW p \in Objects, p # o PROVE CommitsOf(p)' = CommitsOf(p)
  <2>1. c \in Message /\ AllCommits(p)' = AllCommits(p)
    BY <1>0, <1>2, <1>4, CommitsGrow, Messages
  <2>2. \A s \in DOMAIN log : log'[s] = log[s]
    BY <1>0, <1>2, <2>1, LogGrows
  <2> QED BY <1>0, <2>1, <2>2, HistoryRests
<1>5. /\ history' = [history EXCEPT ![o] = Append(@, c)]
      /\ history[o] = h /\ history'[o] = Append(h, c)
  BY <1>3, <1>4
<1>6. /\ h \in Seq(Event) /\ Len(h) \in Nat /\ Len(Append(h, c)) = Len(h) + 1
      /\ Append(h, c)[Len(h) + 1] = c
  BY <1>0, <1>2, CommitsOfAre, AppendOf
<1>7. \A p \in Objects : \A k \in DOMAIN CommitsOf(p) : \E s \in DOMAIN log :
        IsCommit(log[s]) /\ CommitsOf(p)[k] = log[s]
  BY <1>0, CommitsOfAre DEF AllCommits, CommitsIn
<1>8. \A k \in DOMAIN h : h[k].op < c.op
  <2> SUFFICES ASSUME NEW k \in DOMAIN h PROVE h[k].op < c.op
    OBVIOUS
  <2>1. PICK s \in DOMAIN log : IsCommit(log[s]) /\ h[k] = log[s]
    BY <1>7
  <2>2. s < Len(log) + 1 /\ log[s].op = s
    BY <1>0, <2>1, LogFacts DEF OpIsPlace
  <2> QED BY <1>2, <2>1, <2>2
<1>9. History!Last(Append(h, c)) = c
  BY <1>6 DEF History!Last
<1>10. /\ AllCommits(o) = {} => h = <<>> /\ LatestIn(DOMAIN log, o) = None
       /\ AllCommits(o) # {} =>
            h # <<>> /\ h[Len(h)] = LatestIn(DOMAIN log, o) /\ LatestIn(DOMAIN log, o) # None
  <2>1. CASE AllCommits(o) = {}
    BY <1>0, <2>1, CommitsOfAre DEF LatestIn, AllCommits
  <2>2. CASE AllCommits(o) # {}
    <3>1. PICK m \in DOMAIN log : LastOf(AllCommits(o), m)
      BY <1>0, <2>2, LatestIs DEF AllCommits
    <3>2. LatestIn(DOMAIN log, o) = log[m] /\ m \in AllCommits(o)
      BY <1>0, <3>1, LatestAt DEF AllCommits, LastOf
    <3>3. log[m] # None
      BY <1>0, <3>2, LatestIs DEF AllCommits
    <3> QED BY <1>0, <2>2, <3>1, <3>2, <3>3, CommitsOfAre
  <2> QED BY <2>1, <2>2
<1> HIDE DEF h
<1>11. CASE live[o] = None
  <2>1. /\ c.type = "registered" /\ c.seq = 1 /\ c.inst = <<BootEpoch, instances + 1>>
    BY <1>1, <1>11 DEF Stores
  <2>2. h = <<>> \/ h[Len(h)].type = "removed"
    BY <1>0, <1>10, <1>11 DEF Recovers, Active
  <2>3. ~History!Active(h)
    BY <2>2 DEF History!Active, History!Last
  <2>4. ASSUME NEW p \in Objects, NEW k \in DOMAIN CommitsOf(p), CommitsOf(p)[k].inst = c.inst
        PROVE  FALSE
    <3>1. PICK s \in DOMAIN log : IsCommit(log[s]) /\ CommitsOf(p)[k] = log[s]
      BY <1>7
    <3>2. log[s] # Booted
      BY <3>1, Messages
    <3>3. log[s].inst[1] = BootEpoch /\ log[s].inst[2] = instances + 1
      BY <2>1, <2>4, <3>1
    <3>4. log[s].inst[2] <= instances
      BY <1>0, <3>2, <3>3 DEF InstancesAreOld
    <3> QED BY <1>0, <3>3, <3>4
  <2>5. History!Fresh(c.inst)
    BY <2>4 DEF History!Fresh
  <2>6. History!Register(o, c)
    BY <1>5, <2>1, <2>3, <2>5 DEF History!Register
  <2> QED BY <1>2, <1>5, <1>6, <1>8, <1>9, <2>6 DEF History!Commit
<1>12. CASE live[o] # None
  <2>1. /\ c.type \in {"position", "removed"} /\ c.seq = live[o].seq + 1 /\ c.inst = live[o].inst
    BY <1>1, <1>12 DEF Stores
  <2>2. Active(LatestIn(DOMAIN log, o)) /\ live[o] = LatestIn(DOMAIN log, o)
    BY <1>0, <1>12 DEF Recovers
  <2>3. h # <<>> /\ h[Len(h)] = live[o] /\ live[o].type # "removed"
    BY <1>10, <2>2 DEF Active
  <2>4. History!Active(h) /\ History!Last(h) = live[o]
    BY <2>3 DEF History!Active, History!Last
  <2>5. History!Continue(o, c)
    BY <1>5, <2>1, <2>4 DEF History!Continue
  <2> QED BY <1>2, <1>5, <1>6, <1>8, <1>9, <2>5 DEF History!Commit
<1> QED BY <1>11, <1>12

LEMMA HistoryStep ==
  ASSUME OnceInv, [Next]_vars
  PROVE  [History!Next]_[o \in Objects |-> CommitsOf(o)]
<1>0. CompactionTypeOK
  BY DEF OnceInv, LiveInv, KeepInv, TypesInv
<1>1. ASSUME NEW o \in Objects, Commit(o) PROVE History!Next
  BY <1>1, HistoryGrows DEF History!Next
<1>2. ASSUME log' = log PROVE UNCHANGED [o \in Objects |-> CommitsOf(o)]
  <2>1. \A o \in Objects : AllCommits(o)' = AllCommits(o)
    BY <1>2 DEF AllCommits, CommitsIn
  <2>2. \A o \in Objects : CommitsOf(o)' = CommitsOf(o)
    BY <1>0, <1>2, <2>1, HistoryRests
  <2> QED BY <2>2
<1>3. ASSUME NEW m \in Message, ~IsCommit(m), log' = Append(log, m), gone' = gone
      PROVE  UNCHANGED [o \in Objects |-> CommitsOf(o)]
  <2>1. \A o \in Objects : AllCommits(o)' = AllCommits(o)
    BY <1>0, <1>3, CommitsGrow
  <2>2. \A s \in DOMAIN log : log'[s] = log[s]
    BY <1>0, <1>3, LogGrows
  <2>3. \A o \in Objects : CommitsOf(o)' = CommitsOf(o)
    BY <1>0, <2>1, <2>2, HistoryRests
  <2> QED BY <2>3
<1>4. ASSUME NEW o \in Objects, Project(o) PROVE UNCHANGED [p \in Objects |-> CommitsOf(p)]
  <2>1. owed[o] \in Seq(ProjectionEvent) /\ owed[o] # <<>>
    BY <1>0, <1>4 DEF CompactionTypeOK, Project
  <2>2. Head(owed[o]) \in ProjectionEvent
    BY <2>1, TailOf
  <2>3. log' = Append(log, Head(owed[o])) /\ gone' = gone
    BY <1>4 DEF Project, compactionVars
  <2> QED BY <1>3, <2>2, <2>3, Messages
<1>5. CASE FinishBoot
  <2>1. log' = Append(log, Booted) /\ gone' = gone
    BY <1>5 DEF FinishBoot, compactionVars
  <2> QED BY <1>3, <2>1, Messages
<1>6. CASE Stop \/ StartBoot \/ Deliver \/ StartRepair \/ CompactionNext \/ UNCHANGED vars
  <2>1. log' = log
    BY <1>6 DEF Stop, StartBoot, Deliver, StartRepair, CompactionNext, Plan, Validate, DeleteMsg,
         EndCompaction, vars, serviceVars
  <2> QED BY <1>2, <2>1
<1> QED BY <1>1, <1>4, <1>5, <1>6 DEF Next, ServiceNext

(* When no fetch of a scan fails and no boot overlaps the deletions: the   *)
(* commits of an object, deleted or not, are what ObjectHistory allows.    *)
(* After a compaction and a boot an object continues where it stopped, and *)
(* a forgotten one starts with a fresh instance (RecoverObjectCommits      *)
(* after Compact).                                                         *)
THEOREM CompactionKeepsHistory ==
  ASSUME NoMisses, QuietBoot PROVE Spec => ImplementsHistory
<1>1. Init => History!Init
  <2> SUFFICES ASSUME Init PROVE History!Init
    OBVIOUS
  <2>1. CompactionTypeOK
    BY InitTypes DEF TypesInv
  <2>2. \A o \in Objects : AllCommits(o) = {}
    BY DEF Init, AllCommits, CommitsIn
  <2>3. \A o \in Objects : CommitsOf(o) = <<>>
    BY <2>1, <2>2, CommitsOfAre
  <2> QED BY <2>3 DEF History!Init
<1>2. OnceInv /\ [Next]_vars => [History!Next]_[o \in Objects |-> CommitsOf(o)]
  BY HistoryStep
<1>3. OnceInv /\ [Next]_vars => OnceInv'
  BY StepOnce
<1>4. Init => OnceInv
  BY OnceInit
<1> QED BY <1>1, <1>2, <1>3, <1>4, PTL DEF Spec, ImplementsHistory, History!Spec
=============================================================================
