---------------------------- MODULE StreamProofs ----------------------------
(***************************************************************************)
(* Proofs about what module Dispatcher writes to the GT_EVENTS stream: the *)
(* shape an object's log keeps, how the mailbox and the job in flight      *)
(* stand to it, and that the geofence snapshot follows the commits.        *)
(*                                                                         *)
(* As in MailboxProofs, the invariants are stated for one object and       *)
(* proved for the steps of each part, for the proofs of module GeoTruth.   *)
(***************************************************************************)
EXTENDS MailboxProofs, WellFoundedInduction

---------------------------------------------------------------------------
(* Lemmas about the readings of a log.                                     *)

(* A set of positions has a last one.                                      *)
LEMMA IntervalMax ==
  ASSUME NEW n \in Nat, NEW S \in SUBSET (1..n), S # {}
  PROVE  Max(S) \in S /\ \A x \in S : x <= Max(S)
<1> DEFINE R == OpToRel(<, Nat)
           T == {n - x : x \in S}
<1>1. \A x, y \in Nat : x < y => <<x, y>> \in R
  BY DEF OpToRel
<1>2. T \subseteq Nat /\ T # {}
  <2>1. PICK x \in S : TRUE
    OBVIOUS
  <2>2. n - x \in T
    BY <2>1
  <2>3. \A y \in S : n - y \in Nat
    OBVIOUS
  <2> QED
    BY <2>2, <2>3
<1>3. IsWellFoundedOn(R, Nat)
  BY NatLessThanWellFounded
<1> HIDE DEF R
<1>4. PICK t \in T : \A y \in T : ~(<<y, t>> \in R)
  BY <1>2, <1>3, WFMin
<1>5. PICK m \in S : t = n - m
  OBVIOUS
<1>6. \A x \in S : m >= x
  <2> SUFFICES ASSUME NEW x \in S PROVE m >= x
    OBVIOUS
  <2>1. n - x \in T
    OBVIOUS
  <2>2. ~(n - x < t)
    BY <1>1, <1>2, <1>4, <2>1
  <2> QED
    BY <1>5, <2>2
<1> QED
  BY <1>6 DEF Max

(* An identifier tells the kind, the incarnation and the number.           *)
LEMMA SameID ==
  ASSUME NEW d, NEW e, EventID(d) = EventID(e)
  PROVE  d.type = e.type /\ d.inst = e.inst /\ d.seq = e.seq /\ (IsCommit(d) <=> IsCommit(e))
BY DEF EventID, IsCommit

(* What is appended to a log: the entries before it stay.                  *)
LEMMA AppendEntries ==
  ASSUME NEW log \in Seq(Event), NEW m \in Event
  PROVE  /\ Len(log) \in Nat /\ DOMAIN log = 1..Len(log)
         /\ Append(log, m) \in Seq(Event)
         /\ Len(Append(log, m)) = Len(log) + 1
         /\ DOMAIN Append(log, m) = 1..(Len(log) + 1)
         /\ \A i \in 1..Len(log) : Append(log, m)[i] = log[i]
         /\ Append(log, m)[Len(log) + 1] = m
BY AppendProperties, LenProperties

LEMMA AppendRepeats ==
  ASSUME NEW log \in Seq(Event), NEW m \in Event, NEW i \in 1..Len(log)
  PROVE  /\ Repeats(Append(log, m), i) <=> Repeats(log, i)
         /\ i \in FirstCommits(Append(log, m)) <=> i \in FirstCommits(log)
<1> DEFINE new == Append(log, m)
<1>1. /\ Len(log) \in Nat /\ DOMAIN log = 1..Len(log) /\ DOMAIN new = 1..(Len(log) + 1)
      /\ \A k \in 1..Len(log) : new[k] = log[k]
  BY AppendEntries
<1> HIDE DEF new
<1>2. /\ \A j \in 1..(i - 1) : j \in 1..Len(log) /\ new[j] = log[j]
      /\ \A j \in 1..(i - 1) : \A k \in (j + 1)..(i - 1) : k \in 1..Len(log) /\ new[k] = log[k]
      /\ new[i] = log[i] /\ i \in DOMAIN log /\ i \in DOMAIN new
  BY <1>1
<1>3. Repeats(new, i) <=> Repeats(log, i)
  BY <1>2 DEF Repeats
<1>4. i \in FirstCommits(new) <=> i \in FirstCommits(log)
  BY <1>2, <1>3 DEF FirstCommits
<1> QED
  BY <1>3, <1>4 DEF new

(* Projections that were found are found in a longer log, and further on.  *)
LEMMA AppendProjected ==
  ASSUME NEW log \in Seq(Event), NEW m \in Event, NEW i \in DOMAIN log,
         NEW n \in 1..(Len(log) + 1), NEW k \in n..(Len(log) + 2), ProjectedBefore(log, i, n)
  PROVE  ProjectedBefore(Append(log, m), i, k)
<1> DEFINE new == Append(log, m)
<1>1. /\ Len(log) \in Nat /\ DOMAIN log = 1..Len(log)
      /\ \A j \in 1..Len(log) : new[j] = log[j]
  BY AppendEntries
<1> HIDE DEF new
<1>2. new[i] = log[i]
  BY <1>1
<1>3. ASSUME NEW p \in 1..Len(log[i].trans)
      PROVE  \E j \in (i + 1)..(k - 1) : EventID(new[j]) = EventID(Projections(new[i])[p])
  <2>1. PICK j \in (i + 1)..(n - 1) : EventID(log[j]) = EventID(Projections(log[i])[p])
    BY <1>3 DEF ProjectedBefore
  <2>2. j \in (i + 1)..(k - 1) /\ j \in 1..Len(log)
    BY <1>1
  <2> QED
    BY <1>1, <1>2, <2>1, <2>2
<1> QED
  BY <1>2, <1>3 DEF ProjectedBefore, new

---------------------------------------------------------------------------
(* The shape of a log.                                                     *)

(* The latest commit is first stored at f: later entries are of its        *)
(* incarnation and number, and earlier ones of another incarnation or of   *)
(* smaller numbers.                                                        *)
LatestAt(log, f) ==
  /\ f \in FirstCommits(log)
  /\ \A n \in FirstCommits(log) : n <= f
  /\ \A j \in DOMAIN log :
       IF j < f THEN log[j].inst = log[f].inst => log[j].seq < log[f].seq
       ELSE /\ log[j].inst = log[f].inst /\ log[j].seq = log[f].seq
            /\ IsCommit(log[j]) => log[j] = log[f]

RankIn(S, i) == Cardinality({j \in S : j <= i})

At(S, n) == Max({i \in S : RankIn(S, i) = n})

(* Every commit has a place in the sequence of commits, the latest the last. *)
Indexed(log) ==
  LET S == FirstCommits(log)
  IN  /\ \A n \in 1..Cardinality(S) : At(S, n) \in S
      /\ \A f \in S : LatestAt(log, f) => Cardinality(S) > 0 /\ At(S, Cardinality(S)) = f

Projected(log, f) == ProjectedBefore(log, f, Len(log) + 1)

LogOK(log) ==
  /\ log \in Seq(Event)
  /\ log = <<>> \/ \E f \in DOMAIN log : LatestAt(log, f)
  /\ \A i, n \in FirstCommits(log) : i < n => ProjectedBefore(log, i, n)
  /\ Indexed(log)

LEMMA FirstCommitsFinite ==
  ASSUME NEW log \in Seq(Event)
  PROVE  /\ FirstCommits(log) \subseteq 1..Len(log) /\ FirstCommits(log) \subseteq DOMAIN log
         /\ IsFiniteSet(FirstCommits(log)) /\ Cardinality(FirstCommits(log)) \in Nat
<1>1. Len(log) \in Nat /\ DOMAIN log = 1..Len(log)
  BY LenProperties
<1>2. FirstCommits(log) \subseteq 1..Len(log)
  BY <1>1 DEF FirstCommits
<1>3. IsFiniteSet(FirstCommits(log))
  <2>1. IsFiniteSet(1..Len(log))
    BY <1>1, FS_Interval
  <2> QED
    BY <1>2, <2>1, FS_Subset
<1> QED
  BY <1>1, <1>2, <1>3, FS_CardinalityType

LEMMA LatestUnique ==
  ASSUME NEW log \in Seq(Event), NEW f, NEW g, LatestAt(log, f), LatestAt(log, g)
  PROVE  f = g
<1>1. f \in Nat /\ g \in Nat /\ f <= g /\ g <= f
  BY FirstCommitsFinite DEF LatestAt
<1> QED
  BY <1>1

LEMMA LatestIsMax ==
  ASSUME NEW log \in Seq(Event), NEW f, LatestAt(log, f)
  PROVE  f = Max(FirstCommits(log)) /\ FirstCommits(log) # {} /\ f \in DOMAIN log /\ log # <<>>
<1> DEFINE S == FirstCommits(log)
<1>1. f \in S /\ \A n \in S : n <= f
  BY DEF LatestAt
<1>2. Len(log) \in Nat /\ S \in SUBSET (1..Len(log)) /\ S \subseteq DOMAIN log /\ DOMAIN log = 1..Len(log)
  BY FirstCommitsFinite, LenProperties
<1> HIDE DEF S
<1>3. Max(S) \in S /\ \A x \in S : x <= Max(S)
  BY <1>1, <1>2, IntervalMax
<1>4. f = Max(S)
  BY <1>1, <1>2, <1>3
<1> QED
  BY <1>1, <1>2, <1>4 DEF S

(* The sequence of commits, and how it grows.                              *)
LEMMA CommitSeqIs ==
  ASSUME NEW log
  PROVE  CommitSeqOf(log) = [n \in 1..Cardinality(FirstCommits(log)) |-> log[At(FirstCommits(log), n)]]
BY DEF CommitSeqOf, EntriesAt, At, RankIn

LEMMA CommitSeqType ==
  ASSUME NEW log, LogOK(log)
  PROVE  /\ CommitSeqOf(log) \in Seq(Event)
         /\ Len(CommitSeqOf(log)) = Cardinality(FirstCommits(log))
         /\ \A n \in DOMAIN CommitSeqOf(log) :
              \E i \in FirstCommits(log) : CommitSeqOf(log)[n] = log[i]
         /\ \A f : LatestAt(log, f) =>
              /\ CommitSeqOf(log) # <<>>
              /\ CommitSeqOf(log)[Len(CommitSeqOf(log))] = log[f]
<1> DEFINE S == FirstCommits(log)
           h == CommitSeqOf(log)
           N == Cardinality(S)
<1>1. /\ log \in Seq(Event) /\ S \subseteq DOMAIN log /\ N \in Nat
      /\ \A i \in DOMAIN log : log[i] \in Event
  BY FirstCommitsFinite, LenProperties DEF LogOK
<1>2. /\ \A n \in 1..N : At(S, n) \in S
      /\ \A f \in S : LatestAt(log, f) => N > 0 /\ At(S, N) = f
  BY DEF LogOK, Indexed
<1>3. h = [n \in 1..N |-> log[At(S, n)]]
  BY CommitSeqIs
<1>4. \A f : LatestAt(log, f) => f \in S
  BY DEF LatestAt
<1> HIDE DEF S, h, N
<1>5. \A n \in 1..N : log[At(S, n)] \in Event
  BY <1>1, <1>2
<1>6. h \in Seq(Event) /\ Len(h) = N /\ DOMAIN h = 1..N
  BY <1>1, <1>3, <1>5
<1>7. \A n \in DOMAIN h : \E i \in S : h[n] = log[i]
  BY <1>2, <1>3, <1>6
<1>8. ASSUME NEW f, LatestAt(log, f)
      PROVE  h # <<>> /\ h[Len(h)] = log[f]
  <2>1. N > 0 /\ At(S, N) = f
    BY <1>2, <1>4, <1>8
  <2>2. N \in 1..N
    BY <1>1, <2>1
  <2> QED
    BY <1>1, <1>3, <1>6, <2>1, <2>2
<1> QED
  BY <1>6, <1>7, <1>8 DEF S, h, N

(* A commit of a new incarnation, or of a larger number than all of its    *)
(* incarnation, is the next of the sequence.                               *)
LEMMA AppendCommit ==
  ASSUME NEW log, LogOK(log), NEW c \in Event, IsCommit(c),
         \A j \in DOMAIN log : log[j].inst = c.inst => log[j].seq # c.seq /\ log[j].seq < c.seq,
         \A f \in DOMAIN log : LatestAt(log, f) => Projected(log, f)
  PROVE  /\ LogOK(Append(log, c))
         /\ LatestAt(Append(log, c), Len(log) + 1)
         /\ CommitSeqOf(Append(log, c)) = Append(CommitSeqOf(log), c)
<1> DEFINE new == Append(log, c)
           L == Len(log)
           S == FirstCommits(log)
           T == FirstCommits(new)
           N == Cardinality(S)
<1>1. /\ log \in Seq(Event) /\ new \in Seq(Event) /\ L \in Nat /\ DOMAIN log = 1..L
      /\ DOMAIN new = 1..(L + 1) /\ Len(new) = L + 1
      /\ \A i \in 1..L : new[i] = log[i]
      /\ new[L + 1] = c
  BY AppendEntries DEF LogOK
<1>2. S \subseteq 1..L /\ S \subseteq DOMAIN log /\ IsFiniteSet(S) /\ N \in Nat
  BY <1>1, FirstCommitsFinite
<1>3. \A i \in 1..L : i \in T <=> i \in S
  BY <1>1, AppendRepeats
<1>4. L + 1 \in T
  <2>1. \A j \in 1..L : EventID(new[j]) # EventID(c)
    <3> SUFFICES ASSUME NEW j \in 1..L, EventID(new[j]) = EventID(c) PROVE FALSE
      OBVIOUS
    <3>1. log[j].inst = c.inst /\ log[j].seq = c.seq
      BY <1>1, SameID
    <3> QED
      BY <1>1, <3>1
  <2>2. (L + 1) - 1 = L
    BY <1>1
  <2>3. ~Repeats(new, L + 1)
    BY <1>1, <2>1, <2>2 DEF Repeats
  <2>4. L + 1 \in DOMAIN new
    BY <1>1
  <2> QED
    BY <1>1, <2>3, <2>4 DEF FirstCommits
<1>5. T \subseteq 1..(L + 1)
  BY <1>1 DEF FirstCommits
<1> HIDE DEF new, L, S, T, N
<1>6. T = S \cup {L + 1} /\ L + 1 \notin S
  <2>1. \A i \in T : i \in 1..L \/ i = L + 1
    BY <1>1, <1>5
  <2>2. L + 1 \notin S
    BY <1>1, <1>2
  <2> QED
    BY <1>2, <1>3, <1>4, <2>1, <2>2
<1>7. LatestAt(new, L + 1)
  <2>1. \A n \in T : n <= L + 1
    BY <1>1, <1>5
  <2>2. ASSUME NEW j \in DOMAIN new
        PROVE  IF j < L + 1 THEN new[j].inst = new[L + 1].inst => new[j].seq < new[L + 1].seq
               ELSE /\ new[j].inst = new[L + 1].inst /\ new[j].seq = new[L + 1].seq
                    /\ IsCommit(new[j]) => new[j] = new[L + 1]
    <3>1. CASE j < L + 1
      <4>1. j \in 1..L
        BY <1>1, <2>2, <3>1
      <4> QED
        BY <1>1, <3>1, <4>1
    <3>2. CASE ~(j < L + 1)
      <4>1. j = L + 1
        BY <1>1, <2>2, <3>2
      <4> QED
        BY <3>2, <4>1
    <3> QED
      BY <3>1, <3>2
  <2> QED
    BY <1>6, <2>1, <2>2 DEF LatestAt, T
<1>8. ASSUME NEW i \in T, NEW n \in T, i < n
      PROVE  ProjectedBefore(new, i, n)
  <2>1. i \in S /\ i \in 1..L /\ i \in DOMAIN log
    BY <1>1, <1>2, <1>5, <1>6, <1>8
  <2>2. CASE n \in S
    <3>1. ProjectedBefore(log, i, n)
      BY <1>8, <2>1, <2>2 DEF LogOK, S
    <3>2. n \in 1..(Len(log) + 1) /\ n \in n..(Len(log) + 2)
      BY <1>1, <1>2, <2>2 DEF L
    <3> QED
      BY <1>1, <2>1, <3>1, <3>2, AppendProjected DEF new
  <2>3. CASE n = L + 1
    <3>1. PICK f \in DOMAIN log : LatestAt(log, f)
      BY <1>1, <2>1 DEF LogOK, L
    <3>2. f \in S /\ i <= f /\ f \in 1..L /\ ProjectedBefore(log, f, L + 1)
      BY <1>1, <2>1, <3>1 DEF LatestAt, Projected, S, L
    <3>3. CASE i = f
      <4>1. L + 1 \in 1..(Len(log) + 1) /\ n \in (L + 1)..(Len(log) + 2)
        BY <1>1, <2>3 DEF L
      <4> QED
        BY <1>1, <2>1, <3>2, <3>3, <4>1, AppendProjected DEF new
    <3>4. CASE i < f
      <4>1. ProjectedBefore(log, i, f)
        BY <2>1, <3>2, <3>4 DEF LogOK, S
      <4>2. f \in 1..(Len(log) + 1) /\ n \in f..(Len(log) + 2)
        BY <1>1, <2>3, <3>2 DEF L
      <4> QED
        BY <1>1, <2>1, <4>1, <4>2, AppendProjected DEF new
    <3> QED
      BY <1>1, <2>1, <3>2, <3>3, <3>4
  <2> QED
    BY <1>6, <2>2, <2>3
<1>9. /\ Cardinality(T) = N + 1
      /\ \A n \in 1..N : At(T, n) = At(S, n)
      /\ At(T, N + 1) = L + 1
  <2>1. Cardinality(T) = N + 1
    BY <1>2, <1>6, FS_AddElement DEF N
  <2>2. ASSUME NEW i \in S
        PROVE  RankIn(T, i) = RankIn(S, i) /\ RankIn(S, i) \in Nat /\ RankIn(S, i) <= N
    <3>1. ~(L + 1 <= i)
      BY <1>1, <1>2, <2>2
    <3>2. {j \in T : j <= i} = {j \in S : j <= i}
      BY <1>6, <3>1
    <3>3. {j \in S : j <= i} \subseteq S
      OBVIOUS
    <3> QED
      BY <1>2, <3>2, <3>3, FS_Subset, FS_CardinalityType DEF N, RankIn
  <2>3. RankIn(T, L + 1) = N + 1
    <3>1. \A j \in T : j <= L + 1
      BY <1>1, <1>5
    <3>2. {j \in T : j <= L + 1} = T
      BY <3>1
    <3> QED
      BY <2>1, <3>2 DEF RankIn
  <2>4. ASSUME NEW n \in 1..N
        PROVE  {i \in T : RankIn(T, i) = n} = {i \in S : RankIn(S, i) = n}
    <3>1. RankIn(T, L + 1) # n
      BY <1>2, <2>3, <2>4
    <3>2. \A i \in S : RankIn(T, i) = RankIn(S, i)
      BY <2>2
    <3> QED
      BY <1>6, <3>1, <3>2
  <2>5. {i \in T : RankIn(T, i) = N + 1} = {L + 1}
    <3>1. \A i \in S : RankIn(T, i) # N + 1
      <4> SUFFICES ASSUME NEW i \in S, RankIn(T, i) = N + 1 PROVE FALSE
        OBVIOUS
      <4>1. RankIn(S, i) <= N /\ RankIn(S, i) = N + 1
        BY <2>2
      <4> QED
        BY <1>2, <4>1
    <3> QED
      BY <1>6, <2>3, <3>1
  <2>6. Max({L + 1}) = L + 1
    BY <1>1 DEF Max
  <2>7. \A n \in 1..N : At(T, n) = At(S, n)
    BY <2>4 DEF At
  <2>8. At(T, N + 1) = L + 1
    BY <2>5, <2>6 DEF At
  <2> QED
    BY <2>1, <2>7, <2>8
<1>10. \A n \in 1..N : At(S, n) \in S
  BY DEF LogOK, Indexed, S, N
<1>11. Indexed(new)
  <2>1. \A n \in 1..(N + 1) : n \in 1..N \/ n = N + 1
    BY <1>2
  <2>2. \A n \in 1..(N + 1) : At(T, n) \in T
    BY <1>6, <1>9, <1>10, <2>1
  <2>3. \A f : LatestAt(new, f) => f = L + 1
    BY <1>1, <1>7, LatestUnique
  <2>4. N + 1 > 0
    BY <1>2
  <2> QED
    BY <1>9, <2>2, <2>3, <2>4 DEF Indexed, T
<1>12. LogOK(new)
  <2>1. L + 1 \in DOMAIN new
    BY <1>1
  <2> QED
    BY <1>1, <1>7, <1>8, <1>11, <2>1 DEF LogOK, T
<1>13. CommitSeqOf(new) = Append(CommitSeqOf(log), c)
  <2> DEFINE h == CommitSeqOf(log)
  <2>1. h \in Seq(Event) /\ Len(h) = N
    BY CommitSeqType DEF N, S
  <2>2. h = [n \in 1..N |-> log[At(S, n)]]
    BY CommitSeqIs DEF N, S
  <2>3. CommitSeqOf(new) = [n \in 1..(N + 1) |-> new[At(T, n)]]
    BY <1>9, CommitSeqIs DEF T
  <2> HIDE DEF h
  <2>4. /\ Append(h, c) = [n \in DOMAIN Append(h, c) |-> Append(h, c)[n]]
        /\ DOMAIN Append(h, c) = 1..(N + 1)
        /\ \A n \in 1..N : Append(h, c)[n] = h[n]
        /\ Append(h, c)[N + 1] = c
    <3>1. /\ Append(h, c) \in Seq(Event) /\ DOMAIN Append(h, c) = 1..(N + 1)
          /\ \A n \in 1..N : Append(h, c)[n] = h[n]
          /\ Append(h, c)[N + 1] = c
      BY <2>1, AppendEntries
    <3>2. ASSUME NEW a \in Seq(Event)
          PROVE  a = [n \in DOMAIN a |-> a[n]]
      BY <3>2
    <3> QED
      BY <3>1, <3>2
  <2>5. ASSUME NEW n \in 1..(N + 1)
        PROVE  new[At(T, n)] = Append(h, c)[n]
    <3>1. CASE n = N + 1
      BY <1>1, <1>9, <2>4, <3>1
    <3>2. CASE n # N + 1
      <4>1. n \in 1..N
        BY <1>2, <2>5, <3>2
      <4>2. At(T, n) = At(S, n) /\ At(S, n) \in 1..L
        BY <1>2, <1>9, <1>10, <4>1
      <4>3. h[n] = log[At(S, n)] /\ Append(h, c)[n] = h[n]
        BY <2>2, <2>4, <4>1
      <4> QED
        BY <1>1, <4>2, <4>3
    <3> QED
      BY <3>1, <3>2
  <2> QED
    BY <2>3, <2>4, <2>5 DEF h
<1> QED
  BY <1>7, <1>12, <1>13 DEF new, L

(* A repetition of the latest commit, or a projection of it, leaves the    *)
(* commits as they are.                                                    *)
LEMMA AppendRest ==
  ASSUME NEW log, LogOK(log), NEW f, LatestAt(log, f), NEW m \in Event,
         m.inst = log[f].inst, m.seq = log[f].seq, IsCommit(m) => m = log[f]
  PROVE  /\ LogOK(Append(log, m))
         /\ LatestAt(Append(log, m), f)
         /\ CommitSeqOf(Append(log, m)) = CommitSeqOf(log)
<1> DEFINE new == Append(log, m)
           L == Len(log)
           S == FirstCommits(log)
           N == Cardinality(S)
<1>1. /\ log \in Seq(Event) /\ new \in Seq(Event) /\ L \in Nat /\ DOMAIN log = 1..L
      /\ DOMAIN new = 1..(L + 1) /\ Len(new) = L + 1
      /\ \A i \in 1..L : new[i] = log[i]
      /\ new[L + 1] = m
  BY AppendEntries DEF LogOK
<1>2. S \subseteq 1..L /\ IsFiniteSet(S) /\ N \in Nat /\ f \in S /\ f \in 1..L /\ IsCommit(log[f])
  BY <1>1, FirstCommitsFinite DEF LatestAt, FirstCommits
<1>3. \A i \in 1..L : i \in FirstCommits(new) <=> i \in S
  BY <1>1, AppendRepeats
<1>4. \A j \in 1..L : IF j < f THEN log[j].inst = log[f].inst => log[j].seq < log[f].seq
                      ELSE /\ log[j].inst = log[f].inst /\ log[j].seq = log[f].seq
                           /\ IsCommit(log[j]) => log[j] = log[f]
  BY <1>1 DEF LatestAt
<1>5. L + 1 \notin FirstCommits(new)
  <2> SUFFICES ASSUME L + 1 \in FirstCommits(new) PROVE FALSE
    OBVIOUS
  <2>1. IsCommit(m) /\ ~Repeats(new, L + 1)
    BY <1>1 DEF FirstCommits
  <2>2. m = log[f] /\ (L + 1) - 1 = L
    BY <1>1, <2>1
  <2>3. \A k \in (f + 1)..L : IsCommit(new[k]) => new[k] = m
    <3> SUFFICES ASSUME NEW k \in (f + 1)..L, IsCommit(new[k]) PROVE new[k] = m
      OBVIOUS
    <3>1. k \in 1..L /\ ~(k < f)
      BY <1>1, <1>2
    <3> QED
      BY <1>1, <1>4, <2>2, <3>1
  <2>4. Repeats(new, L + 1)
    BY <1>1, <1>2, <2>2, <2>3 DEF Repeats
  <2> QED
    BY <2>1, <2>4
<1>6. FirstCommits(new) \subseteq 1..(L + 1)
  BY <1>1 DEF FirstCommits
<1> HIDE DEF new, L, S, N
<1>7. FirstCommits(new) = S
  <2>1. \A i \in FirstCommits(new) : i \in 1..L
    <3>1. \A i \in 1..(L + 1) : i \in 1..L \/ i = L + 1
      BY <1>1
    <3> QED
      BY <1>5, <1>6, <3>1
  <2> QED
    BY <1>2, <1>3, <2>1
<1>8. LatestAt(new, f)
  <2>1. ASSUME NEW j \in DOMAIN new
        PROVE  IF j < f THEN new[j].inst = new[f].inst => new[j].seq < new[f].seq
               ELSE /\ new[j].inst = new[f].inst /\ new[j].seq = new[f].seq
                    /\ IsCommit(new[j]) => new[j] = new[f]
    <3>1. new[f] = log[f]
      BY <1>1, <1>2
    <3>2. CASE j \in 1..L
      BY <1>1, <1>4, <3>1, <3>2
    <3>3. CASE j = L + 1
      <4>1. ~(j < f)
        BY <1>1, <1>2, <3>3
      <4> QED
        BY <1>1, <3>1, <3>3, <4>1
    <3>4. j \in 1..L \/ j = L + 1
      BY <1>1, <2>1
    <3> QED
      BY <3>2, <3>3, <3>4
  <2> QED
    BY <1>2, <1>7, <2>1 DEF LatestAt, S
<1>9. ASSUME NEW i \in S, NEW n \in S, i < n
      PROVE  ProjectedBefore(new, i, n)
  <2>1. ProjectedBefore(log, i, n)
    BY <1>9 DEF LogOK, S
  <2>2. i \in DOMAIN log /\ n \in 1..(Len(log) + 1) /\ n \in n..(Len(log) + 2)
    BY <1>1, <1>2 DEF L
  <2> QED
    BY <1>1, <2>1, <2>2, AppendProjected DEF new
<1>10. Indexed(new)
  <2>1. \A n \in 1..N : At(S, n) \in S
    BY DEF LogOK, Indexed, S, N
  <2>2. N > 0 /\ At(S, N) = f
    BY <1>2 DEF LogOK, Indexed, S, N
  <2>3. \A g : LatestAt(new, g) => g = f
    BY <1>1, <1>8, LatestUnique
  <2> QED
    BY <1>7, <2>1, <2>2, <2>3 DEF Indexed, N
<1>11. LogOK(new)
  <2>1. f \in DOMAIN new
    BY <1>1, <1>2
  <2> QED
    BY <1>1, <1>7, <1>8, <1>9, <1>10, <2>1 DEF LogOK
<1>12. CommitSeqOf(new) = CommitSeqOf(log)
  <2>1. \A n \in 1..N : new[At(S, n)] = log[At(S, n)]
    <3>1. \A n \in 1..N : At(S, n) \in 1..L
      BY <1>2 DEF LogOK, Indexed, S, N
    <3> QED
      BY <1>1, <3>1
  <2>2. CommitSeqOf(new) = [n \in 1..N |-> new[At(S, n)]]
    BY <1>7, CommitSeqIs DEF N
  <2>3. CommitSeqOf(log) = [n \in 1..N |-> log[At(S, n)]]
    BY CommitSeqIs DEF N, S
  <2> QED
    BY <2>1, <2>2, <2>3
<1> QED
  BY <1>8, <1>11, <1>12 DEF new

(* The first position of the latest commit and its projections, as the     *)
(* checkpoint of a restart reads them: from the last commit of the log.    *)
LEMMA LastCommit ==
  ASSUME NEW log, LogOK(log), NEW C, C = {i \in DOMAIN log : IsCommit(log[i])}
  PROVE  /\ C = {} => log = <<>>
         /\ log = <<>> => C = {}
         /\ \A f : LatestAt(log, f) => /\ C # {} /\ Max(C) \in C /\ f <= Max(C)
                                       /\ log[Max(C)] = log[f]
<1>1. log \in Seq(Event) /\ Len(log) \in Nat /\ DOMAIN log = 1..Len(log)
  BY LenProperties DEF LogOK
<1>2. ASSUME NEW f, LatestAt(log, f)
      PROVE  C # {} /\ Max(C) \in C /\ f <= Max(C) /\ log[Max(C)] = log[f]
  <2>1. f \in C /\ f \in DOMAIN log
    BY <1>2 DEF LatestAt, FirstCommits
  <2>2. Max(C) \in C /\ f <= Max(C)
    <3>1. C \in SUBSET (1..Len(log)) /\ C # {}
      BY <1>1, <2>1
    <3> QED
      BY <1>1, <2>1, <3>1, IntervalMax
  <2>3. Max(C) \in DOMAIN log /\ IsCommit(log[Max(C)])
    BY <2>2
  <2>4. ~(Max(C) < f)
    BY <1>1, <2>1, <2>2, <2>3
  <2> QED
    BY <1>2, <2>1, <2>2, <2>3, <2>4 DEF LatestAt
<1>3. C = {} => log = <<>>
  BY <1>2 DEF LogOK
<1>4. log = <<>> => C = {}
  OBVIOUS
<1> QED
  BY <1>2, <1>3, <1>4

---------------------------------------------------------------------------
(* How the log of an object stands to its mailbox.                         *)

(* The commits of a log belong to its object and come before every command *)
(* in its mailbox, but for the head when it is its commit that was stored. *)
Before(o, e) ==
  /\ e.obj = o /\ e.op < nextOp
  /\ \A n : InLine(o, n) =>
       e.op < n \/ (e.op = n /\ ctl[o].env # None /\ e = ctl[o].env.commit)

InOrder(o) == \A i \in DOMAIN stream[o] : IsCommit(stream[o][i]) => Before(o, stream[o][i])

(* Incarnations: those of the log and of the mailbox of an object were     *)
(* given out by this boot or before it, and belong to no other object.     *)
Known(inst) == inst[1] < bootEpoch \/ (inst[1] = bootEpoch /\ inst[2] <= instances)

Insts(o) == {stream[o][i].inst : i \in DOMAIN stream[o]}

Owns(o) == Insts(o) \cup (IF o \in registered THEN {ctl[o].inst} ELSE {})

Distinct ==
  /\ \A o \in Objects : \A inst \in Owns(o) : inst \in InstanceID /\ Known(inst)
  /\ \A o, p \in Objects : \A inst : inst \in Owns(o) /\ inst \in Owns(p) => o = p

Registering(o) == ctl[o].env # None /\ ctl[o].env.commit.type = "registered"

(* The commit of the head is not in the log: the latest commit is the last *)
(* one the mailbox has confirmed, with all of its projections.             *)
Unwritten(o) ==
  /\ \A f \in DOMAIN stream[o] : LatestAt(stream[o], f) => Projected(stream[o], f)
  /\ IF o \in registered /\ ~Registering(o)
     THEN \E f \in DOMAIN stream[o] :
            /\ LatestAt(stream[o], f) /\ stream[o][f].type # "removed"
            /\ stream[o][f].inst = ctl[o].inst /\ stream[o][f].seq = ctl[o].seq
     ELSE \A f \in DOMAIN stream[o] : LatestAt(stream[o], f) => stream[o][f].type = "removed"
  /\ Registering(o) => ctl[o].inst \notin Insts(o)

(* The commit of the head is the latest of the log, at f, and its first    *)
(* k - 1 projections follow it.                                            *)
WrittenAt(o, f, k) ==
  /\ LatestAt(stream[o], f)
  /\ ctl[o].env # None /\ stream[o][f] = ctl[o].env.commit
  /\ \A i \in 1..(k - 1) : \E j \in (f + 1)..Len(stream[o]) :
       EventID(stream[o][j]) = EventID(Projections(stream[o][f])[i])

JobPhase(o, job) ==
  /\ ~job.committed => job.next = 1
  /\ job.committed => \E f \in DOMAIN stream[o] : WrittenAt(o, f, job.next)
  /\ ~cancelled /\ ~job.committed =>
       Unwritten(o) \/ \E f \in DOMAIN stream[o] : WrittenAt(o, f, 1)

Phase(o) ==
  /\ ~cancelled /\ NoJob(o) /\ NoCommitResult(o) => Unwritten(o)
  /\ \A job \in publishing : JobObject(job) = o => JobPhase(o, job)
  /\ \A cr \in commitResults : cr.obj = o /\ ~cr.failed =>
       \E f \in DOMAIN stream[o] : WrittenAt(o, f, 1) /\ Projected(stream[o], f)

Logged(o) == LogOK(stream[o]) /\ InOrder(o) /\ Phase(o)

StreamInv == AnsweredInv /\ Distinct /\ \A o \in Objects : Logged(o)

---------------------------------------------------------------------------
(* Steps of the dispatcher.                                                *)

LEMMA UnwrittenStays ==
  ASSUME NEW o, Unwritten(o), stream'[o] = stream[o], o \in registered' <=> o \in registered,
         ctl'[o].inst = ctl[o].inst, ctl'[o].seq = ctl[o].seq, Registering(o)' <=> Registering(o)
  PROVE  Unwritten(o)'
BY DEF Unwritten, Insts

LEMMA WrittenStays ==
  ASSUME NEW o, NEW f, NEW k, WrittenAt(o, f, k), stream'[o] = stream[o],
         ctl'[o].env = ctl[o].env
  PROVE  WrittenAt(o, f, k)'
BY DEF WrittenAt

(* The phase of an object stays when its command stays in its stage.       *)
LEMMA PhaseStays ==
  ASSUME NEW o, Phase(o), stream'[o] = stream[o], o \in registered' <=> o \in registered,
         ctl'[o].inst = ctl[o].inst, ctl'[o].seq = ctl[o].seq, ctl'[o].env = ctl[o].env,
         \A job \in publishing' : JobObject(job) = o => job \in publishing,
         \A cr \in commitResults' : cr.obj = o => cr \in commitResults,
         NoJob(o)' => NoJob(o), NoCommitResult(o)' => NoCommitResult(o),
         cancelled => cancelled'
  PROVE  Phase(o)'
<1>1. Registering(o)' <=> Registering(o)
  BY DEF Registering
<1>2. Unwritten(o) => Unwritten(o)'
  BY <1>1, UnwrittenStays
<1>3. \A f, k : WrittenAt(o, f, k) => WrittenAt(o, f, k)'
  BY WrittenStays
<1>4. ~cancelled' /\ NoJob(o)' /\ NoCommitResult(o)' => Unwritten(o)'
  BY <1>2 DEF Phase
<1>5. ASSUME NEW job \in publishing', JobObject(job) = o
      PROVE  JobPhase(o, job)'
  <2>1. JobPhase(o, job)
    BY <1>5 DEF Phase
  <2> QED
    BY <1>2, <1>3, <2>1 DEF JobPhase
<1>6. ASSUME NEW cr \in commitResults', cr.obj = o, ~cr.failed
      PROVE  \E f \in DOMAIN stream'[o] : WrittenAt(o, f, 1)' /\ Projected(stream[o], f)'
  <2>1. PICK f \in DOMAIN stream[o] : WrittenAt(o, f, 1) /\ Projected(stream[o], f)
    BY <1>6 DEF Phase
  <2> QED
    BY <1>3, <2>1
<1> QED
  BY <1>4, <1>5, <1>6 DEF Phase

LEMMA StepKeepsRest ==
  ASSUME TypeOK, NEW o \in Objects, StepOf(o), UNCHANGED dispatcherFrame,
         NEW p \in Objects, p # o
  PROVE  /\ p \in registered' <=> p \in registered
         /\ NoJob(p)' => NoJob(p)
         /\ NoCommitResult(p)' => NoCommitResult(p)
<1>1. p \in registered' <=> p \in registered
  BY StepKeepsInbox
<1>2. \A cr \in commitResults : cr.obj = p => cr \in commitResults'
  BY DEF StepOf, Registers, Takes, Queues, Declines, Submits, Fails, Closes, Confirms,
         TakesResult, TakesCommitResult, receiptFrame
<1>3. UNCHANGED publishing
  BY DEF dispatcherFrame
<1> QED
  BY <1>1, <1>2, <1>3 DEF NoJob, NoCommitResult

(* A mailbox that was passed on is not registering.                        *)
LEMMA PassedOn ==
  ASSUME NEW o \in Objects, NEW c \in Ctl, c.env = None, NEW q, NEW k, Passes(o, c, q, k)
  PROVE  ~Registering(o)' /\ ctl'[o].inst = c.inst /\ ctl'[o].seq = c.seq
<1>1. CASE Waits(o, c)
  BY <1>1 DEF Waits, Passes, Registering, Ctl
<1>2. CASE SendsTask(o, c.route)
  BY <1>2 DEF SendsTask, Passes, Registering
<1>3. CASE CommitsRemoval(o, c.route)
  BY <1>3 DEF CommitsRemoval, Passes, Registering, Carries
<1> QED
  BY <1>1, <1>2, <1>3 DEF Passes

(* A mailbox with nothing at the publisher, and none of its commits there. *)
LEMMA UnwrittenPhase ==
  ASSUME NEW o, Unwritten(o)', NoJob(o)', NoCommitResult(o)'
  PROVE  Phase(o)'
BY DEF Phase, NoJob, NoCommitResult

LEMMA DispatcherKeepsPhase ==
  ASSUME StreamInv, DispatcherStep, NEW p \in Objects
  PROVE  Phase(p)'
<1>0. /\ UNCHANGED <<publishing, cancelled, stream>> /\ TypeOK /\ AtMostOneInFlight /\ MailboxOwned
      /\ Staged(p) /\ MailboxOK(p) /\ Phase(p) /\ Distinct /\ LogOK(stream[p])
      /\ ctl[p] \in Ctl /\ ctl[p].queue \in Seq(Command)
  BY DEF StreamInv, AnsweredInv, StagedInv, IInv, TypeOK, Ctl, Staged, Logged, DispatcherStep,
         dispatcherFrame
<1>1. ctl[p].head = None => NoJob(p) /\ NoCommitResult(p) /\ ctl[p].env = None
  BY <1>0, Alone DEF NoJob, NoCommitResult, MailboxOK
<1>2. CASE Refuses
  <2>1. UNCHANGED <<ctl, registered, commitResults>>
    BY <1>2 DEF Refuses, receiptFrame
  <2> QED
    BY <1>0, <2>1, PhaseStays DEF NoJob, NoCommitResult
<1>3. ASSUME NEW o \in Objects, StepOf(o), p # o
      PROVE  Phase(p)'
  <2>1. ctl'[p] = ctl[p] /\ NoNews(p)
    BY <1>0, <1>3, StepIsLocal DEF DispatcherStep
  <2>2. /\ p \in registered' <=> p \in registered
        /\ NoJob(p)' => NoJob(p)
        /\ NoCommitResult(p)' => NoCommitResult(p)
    BY <1>0, <1>3, StepKeepsRest DEF DispatcherStep
  <2> QED
    BY <1>0, <2>1, <2>2, PhaseStays DEF NoNews
<1>4. CASE Registers(p)
  <2>1. p \notin registered /\ NoJob(p) /\ NoCommitResult(p) /\ ctl[p].env = None
    BY <1>0, <1>1, <1>4 DEF Registers, MailboxOwned
  <2>2. NoJob(p)' /\ NoCommitResult(p)'
    BY <1>0, <1>4, <2>1 DEF Registers, receiptFrame, NoJob, NoCommitResult
  <2>3. CASE cancelled
    BY <1>0, <2>2, <2>3 DEF Phase, NoJob, NoCommitResult
  <2>4. CASE ~cancelled
    <3>1. Unwritten(p)
      BY <2>1, <2>4, <1>0 DEF Phase
    <3>2. Registering(p)'
      BY <1>4 DEF Registers, Registering, Carries
    <3>3. ctl'[p].inst \notin Insts(p)
      <4>1. ctl'[p].inst = <<bootEpoch, instances + 1>>
        BY <1>4 DEF Registers
      <4>2. ~Known(<<bootEpoch, instances + 1>>)
        BY <1>0 DEF Known, TypeOK
      <4> QED
        BY <1>0, <4>1, <4>2 DEF Distinct, Owns
    <3>4. Unwritten(p)'
      BY <1>0, <2>1, <3>1, <3>2, <3>3 DEF Unwritten, Insts
    <3> QED
      BY <2>2, <3>4, UnwrittenPhase
  <2> QED
    BY <2>3, <2>4
<1>5. CASE Takes(p)
  <2>1. ctl[p].head = None /\ UNCHANGED registered
    BY <1>5 DEF Takes
  <2>2. NoJob(p)' /\ NoCommitResult(p)'
    BY <1>0, <1>1, <1>5 DEF Takes, receiptFrame, NoJob, NoCommitResult
  <2>3. PICK cmd, k : Passes(p, ctl[p], <<cmd>>, k)
    BY <1>5 DEF Takes
  <2>4. ~Registering(p)' /\ ctl'[p].inst = ctl[p].inst /\ ctl'[p].seq = ctl[p].seq
    BY <1>0, <1>1, <2>1, <2>3, PassedOn
  <2>5. Unwritten(p) => Unwritten(p)'
    BY <1>0, <1>1, <2>1, <2>4, UnwrittenStays DEF Registering
  <2> QED
    BY <1>0, <1>1, <2>1, <2>2, <2>5 DEF Phase, NoJob, NoCommitResult
<1>6. CASE Queues(p)
  <2>1. PICK cmd \in Command : ctl' = [ctl EXCEPT ![p].queue = Append(@, cmd)]
    BY <1>6 DEF Queues
  <2>2. /\ ctl'[p].env = ctl[p].env /\ ctl'[p].inst = ctl[p].inst /\ ctl'[p].seq = ctl[p].seq
    BY <1>0, <2>1 DEF TypeOK, Ctl
  <2>3. UNCHANGED <<registered, commitResults>>
    BY <1>6 DEF Queues, receiptFrame
  <2> QED
    BY <1>0, <2>2, <2>3, PhaseStays DEF NoJob, NoCommitResult
<1>7. ASSUME NEW res \in results, Declines(p, res) \/ Submits(p, res)
      PROVE  Phase(p)'
  <2>1. /\ NoJob(p) /\ NoCommitResult(p) /\ ctl[p].env = None /\ ctl[p].head # None
        /\ UNCHANGED <<registered, commitResults>>
    BY <1>0, <1>7, Alone DEF Declines, Submits, TakesResult, Staged, ResultStaged
  <2>2. NoJob(p)' /\ NoCommitResult(p)'
    BY <1>0, <2>1 DEF NoJob, NoCommitResult
  <2>3. ~Registering(p)' /\ ctl'[p].inst = ctl[p].inst /\ ctl'[p].seq = ctl[p].seq
    <3>1. CASE Declines(p, res)
      <4>1. PICK k : Passes(p, Released(ctl[p]), ctl[p].queue, k)
        BY <3>1 DEF Declines
      <4>2. /\ Released(ctl[p]) \in Ctl /\ Released(ctl[p]).env = None
            /\ Released(ctl[p]).inst = ctl[p].inst /\ Released(ctl[p]).seq = ctl[p].seq
        BY <1>0, ReleasedFields
      <4> QED
        BY <4>1, <4>2, PassedOn
    <3>2. CASE Submits(p, res)
      <4>1. /\ ctl'[p].inst = ctl[p].inst /\ ctl'[p].seq = ctl[p].seq
            /\ ctl'[p].head = ctl[p].head
        BY <1>0, <3>2 DEF Submits, Ctl
      <4>2. ctl'[p].head.kind # "register"
        BY <1>0, <2>1, <4>1 DEF MailboxOK
      <4> QED
        BY <3>2, <4>1, <4>2 DEF Submits, Carries, Registering
    <3> QED
      BY <1>7, <3>1, <3>2
  <2>4. Unwritten(p) => Unwritten(p)'
    BY <1>0, <2>1, <2>3, UnwrittenStays DEF Registering
  <2> QED
    BY <1>0, <2>1, <2>2, <2>4 DEF Phase, NoJob, NoCommitResult
<1>8. ASSUME NEW cr \in commitResults, Fails(p, cr) \/ Closes(p, cr) \/ Confirms(p, cr)
      PROVE  Phase(p)'
  <2>1. /\ NoJob(p) /\ \A u \in commitResults : u.obj = p => u = cr
        /\ CommitResultStaged(p, cr) /\ Carries(p) /\ cr.obj = p /\ p \in registered
        /\ commitResults' = commitResults \ {cr}
    BY <1>0, <1>8, Alone
       DEF Fails, Closes, Confirms, TakesCommitResult, Staged, CommitResultStaged, MailboxOK
  <2>2. NoJob(p)' /\ NoCommitResult(p)'
    BY <1>0, <2>1 DEF NoJob, NoCommitResult
  <2>3. CASE cancelled
    BY <1>0, <2>2, <2>3 DEF Phase, NoJob, NoCommitResult
  <2>4. CASE ~cancelled
    <3>1. ~cr.failed
      BY <2>1, <2>4 DEF CommitResultStaged
    <3>2. PICK f \in DOMAIN stream[p] : WrittenAt(p, f, 1) /\ Projected(stream[p], f)
      BY <1>0, <2>1, <3>1 DEF Phase
    <3>3. \A g \in DOMAIN stream[p] : LatestAt(stream[p], g) => g = f
      BY <1>0, <3>2, LatestUnique DEF WrittenAt, LogOK
    <3>4. /\ LatestAt(stream[p], f) /\ stream[p][f] = ctl[p].env.commit
          /\ stream[p][f].inst = ctl[p].inst /\ stream[p][f].seq = ctl[p].seq + 1
          /\ stream[p][f].type = "removed" <=> ctl[p].head.kind = "remove"
      BY <2>1, <3>2 DEF WrittenAt, Carries
    <3>5. CASE Closes(p, cr)
      <4>1. ctl'[p] = NoCtl /\ p \notin registered' /\ stream[p][f].type = "removed"
        BY <1>0, <3>4, <3>5 DEF Closes, TypeOK
      <4>2. ~Registering(p)'
        BY <4>1 DEF Registering, NoCtl
      <4>3. Unwritten(p)'
        BY <1>0, <3>2, <3>3, <4>1, <4>2 DEF Unwritten
      <4> QED
        BY <2>2, <4>3, UnwrittenPhase
    <3>6. CASE Confirms(p, cr)
      <4> DEFINE d == [Released(ctl[p]) EXCEPT !.seq = cr.seq]
      <4>1. cr.seq \in Nat /\ cr.seq = ctl[p].seq + 1
        BY <1>0, <2>1 DEF TypeOK, PublisherTypeOK, CommitResult, CommitResultStaged, Carries
      <4>2. d \in Ctl /\ d.env = None /\ d.inst = ctl[p].inst /\ d.seq = cr.seq
        BY <1>0, <4>1, ReleasedFields
      <4>3. PICK k : Passes(p, d, ctl[p].queue, k)
        BY <3>6 DEF Confirms
      <4> HIDE DEF d
      <4>4. ~Registering(p)' /\ ctl'[p].inst = ctl[p].inst /\ ctl'[p].seq = ctl[p].seq + 1
        BY <4>1, <4>2, <4>3, PassedOn
      <4>5. p \in registered' /\ stream[p][f].type # "removed"
        BY <2>1, <3>4, <3>6 DEF Confirms
      <4>6. Unwritten(p)'
        BY <1>0, <3>2, <3>3, <3>4, <4>4, <4>5 DEF Unwritten
      <4> QED
        BY <2>2, <4>6, UnwrittenPhase
    <3> QED
      BY <1>8, <3>1, <3>5, <3>6 DEF Fails
  <2> QED
    BY <2>3, <2>4
<1>9. StepOf(p) => Phase(p)'
  BY <1>4, <1>5, <1>6, <1>7, <1>8 DEF StepOf
<1> QED
  BY <1>2, <1>3, <1>9 DEF DispatcherStep

(* No command that a log must come before joins a mailbox.                 *)
LEMMA DispatcherKeepsOrder ==
  ASSUME StreamInv, DispatcherStep, AnsweredInv', NEW p \in Objects
  PROVE  InOrder(p)'
<1>0. /\ stream' = stream /\ TypeOK /\ TypeOK' /\ MailboxOwned /\ AnsweredInv /\ Unanswered'
      /\ Staged(p) /\ MailboxOK(p) /\ InOrder(p) /\ nextOp \in Nat /\ Ops \subseteq Nat
      /\ ctl[p] \in Ctl /\ replies \in [Ops -> Seq({"ok", "err"})]
      /\ UNCHANGED dispatcherFrame
  <2>1. /\ TypeOK /\ TypeOK' /\ MailboxOwned /\ AnsweredInv /\ Unanswered'
        /\ Staged(p) /\ InOrder(p)
    BY DEF StreamInv, AnsweredInv, StagedInv, IInv, Logged
  <2>2. stream' = stream /\ UNCHANGED dispatcherFrame
    BY DEF DispatcherStep, dispatcherFrame
  <2>3. nextOp \in Nat /\ ctl[p] \in Ctl /\ replies \in [Ops -> Seq({"ok", "err"})]
    BY <2>1 DEF TypeOK
  <2> QED
    BY <2>1, <2>2, <2>3, DispatcherAssumption DEF Staged, Ops
<1>1. ASSUME NEW e \in Event, Before(p, e)
      PROVE  Before(p, e)'
  <2>0. e.obj = p /\ e.op < nextOp /\ e.op \in Nat
    BY <1>1 DEF Before, Event, CommitEvent, ProjectionEvent
  <2>1. CASE Refuses
    <3>1. UNCHANGED ctl /\ nextOp' = nextOp + 1
      BY <2>1 DEF Refuses, Receive
    <3>2. \A n : InLine(p, n)' <=> InLine(p, n)
      BY <3>1 DEF InLine
    <3>3. e.op < nextOp'
      BY <1>0, <2>0, <3>1
    <3> QED
      BY <1>1, <3>1, <3>2, <3>3 DEF Before
  <2>2. ASSUME NEW o \in Objects, StepOf(o)
        PROVE  Before(p, e)'
    <3>1. LineStep(o)
      BY <1>0, <2>2, LineSteps
    <3>2. e.op < nextOp'
      <4>1. nextOp' = nextOp \/ nextOp' = nextOp + 1
        BY <3>1 DEF LineStep, Receive
      <4> QED
        BY <1>0, <2>0, <4>1
    <3>3. CASE p # o
      <4>1. ctl'[p] = ctl[p]
        BY <1>0, <2>2, <3>3, StepIsLocal
      <4>2. \A n : InLine(p, n)' <=> InLine(p, n)
        BY <4>1 DEF InLine
      <4> QED
        BY <1>1, <3>2, <4>1, <4>2 DEF Before
    <3>4. CASE p = o
      <4> SUFFICES ASSUME NEW n, InLine(p, n)', ~(e.op < n)
                   PROVE  e.op = n /\ ctl'[p].env # None /\ e = ctl'[p].env.commit
        BY <2>0, <3>2 DEF Before
      <4>1. InLine(p, n) \/ n = nextOp
        BY <3>1, <3>4 DEF LineStep, Holds
      <4>2. InLine(p, n) /\ e.op = n /\ ctl[p].env # None /\ e = ctl[p].env.commit
        BY <1>1, <2>0, <4>1 DEF Before
      <4>3. Carries(p) /\ ctl[p].head # None /\ ctl[p].head.op = n
        BY <1>0, <4>2 DEF MailboxOK, Carries
      <4>4. ~Registers(p) /\ ~Takes(p)
        BY <1>0, <4>3 DEF Registers, Takes, MailboxOwned
      <4>5. CASE Queues(p)
        <5>1. ctl'[p].env = ctl[p].env
          BY <1>0, <4>5 DEF Queues, TypeOK, Ctl
        <5> QED
          BY <4>2, <5>1
      <4>6. ASSUME NEW res \in results, Declines(p, res) \/ Submits(p, res)
            PROVE  FALSE
        <5>1. ResultStaged(p, res)
          BY <1>0, <4>6 DEF Staged, Declines, Submits, TakesResult
        <5> QED
          BY <4>2, <5>1 DEF ResultStaged
      <4>7. ASSUME NEW cr \in commitResults, Fails(p, cr) \/ Closes(p, cr) \/ Confirms(p, cr)
            PROVE  FALSE
        <5>1. CommitResultStaged(p, cr)
          BY <1>0, <4>7 DEF Staged, Fails, Closes, Confirms, TakesCommitResult
        <5>2. cr.op = n /\ n \in Ops
          BY <1>0, <4>2, <4>3, <5>1 DEF CommitResultStaged, Carries, Ctl, Command
        <5>3. replies'[n] = Append(replies[n], "ok") \/ replies'[n] = Append(replies[n], "err")
          BY <4>3, <4>7, <5>2 DEF Fails, Closes, Confirms, Answer
        <5>4. replies[n] \in Seq({"ok", "err"})
          BY <1>0, <5>2
        <5>5. replies'[n] # <<>>
          BY <5>3, <5>4, AppendProperties
        <5>6. replies'[n] = <<>>
          BY <1>0, <5>2 DEF Unanswered
        <5> QED
          BY <5>5, <5>6
      <4> QED
        BY <2>2, <3>4, <4>4, <4>5, <4>6, <4>7 DEF StepOf
    <3> QED
      BY <3>3, <3>4
  <2> QED
    BY <2>1, <2>2 DEF DispatcherStep
<1> HIDE DEF Before
<1>2. ASSUME NEW i \in DOMAIN stream'[p], IsCommit(stream'[p][i])
      PROVE  Before(p, stream[p][i])'
  <2>1. PICK e : e = stream[p][i]
    OBVIOUS
  <2>2. e \in Event /\ Before(p, e)
    BY <1>0, <1>2, <2>1 DEF InOrder, TypeOK, PublisherTypeOK
  <2>3. Before(p, e)' /\ e = stream'[p][i]
    BY <1>0, <1>1, <2>1, <2>2
  <2> QED
    BY <2>3 DEF Before, InLine
<1> QED
  BY <1>2 DEF InOrder

LEMMA DispatcherKeepsDistinct ==
  ASSUME StreamInv, DispatcherStep
  PROVE  Distinct'
<1>0. /\ UNCHANGED <<stream, bootEpoch>> /\ TypeOK /\ Distinct /\ StagedInv
      /\ instances \in Nat /\ bootEpoch \in Nat /\ registered \subseteq Objects
      /\ \A o \in Objects : ctl[o] \in Ctl
  BY DEF StreamInv, AnsweredInv, StagedInv, IInv, TypeOK, EngineTypeOK, DispatcherStep, dispatcherFrame
<1>1. CASE \E o \in Objects : Registers(o)
  <2>1. PICK o \in Objects : Registers(o)
    BY <1>1
  <2>0. PICK new : new = <<bootEpoch, instances + 1>>
    OBVIOUS
  <2>2. /\ instances' = instances + 1 /\ registered' = registered \cup {o}
        /\ ctl'[o].inst = new /\ o \notin registered
        /\ \A p \in Objects : p # o => ctl'[p] = ctl[p]
    BY <2>0, <2>1 DEF Registers
  <2>3. new \in InstanceID /\ ~Known(new) /\ Known(new)'
    BY <1>0, <2>0, <2>2 DEF Known, InstanceID
  <2>4. \A inst \in InstanceID : Known(inst) => Known(inst)'
    BY <1>0, <2>2 DEF Known, InstanceID
  <2>5. \A p \in Objects : \A inst \in Owns(p)' : inst \in Owns(p) \/ (p = o /\ inst = new)
    <3> SUFFICES ASSUME NEW p \in Objects, NEW inst \in Owns(p)'
                 PROVE  inst \in Owns(p) \/ (p = o /\ inst = new)
      OBVIOUS
    <3>1. Insts(p)' = Insts(p)
      BY <1>0 DEF Insts
    <3>2. CASE p = o
      BY <2>2, <3>1, <3>2 DEF Owns
    <3>3. CASE p # o
      BY <2>2, <3>1, <3>3 DEF Owns
    <3> QED
      BY <3>2, <3>3
  <2>6. \A p \in Objects : new \notin Owns(p)
    BY <1>0, <2>3 DEF Distinct
  <2>7. \A p \in Objects : \A inst \in Owns(p)' : inst \in InstanceID /\ Known(inst)'
    BY <1>0, <2>3, <2>4, <2>5 DEF Distinct
  <2>8. \A p, q \in Objects : \A inst : inst \in Owns(p)' /\ inst \in Owns(q)' => p = q
    BY <1>0, <2>5, <2>6 DEF Distinct
  <2> QED
    BY <2>7, <2>8 DEF Distinct
<1>2. CASE ~\E o \in Objects : Registers(o)
  <2>1. /\ UNCHANGED instances
        /\ \A p \in registered' : p \in registered /\ ctl'[p].inst = ctl[p].inst
    <3>1. CASE Refuses
      BY <3>1 DEF Refuses
    <3>2. ASSUME NEW o \in Objects, StepOf(o)
          PROVE  /\ UNCHANGED instances
                 /\ \A p \in registered' : p \in registered /\ ctl'[p].inst = ctl[p].inst
      <4>1. UNCHANGED instances /\ registered' \subseteq registered
        BY <1>2, <3>2 DEF StepOf, Takes, Queues, Declines, Submits, Fails, Closes, Confirms,
           TakesResult, TakesCommitResult
      <4>2. \A p \in registered' : p # o => ctl'[p] = ctl[p]
        BY <1>0, <3>2, <4>1, StepIsLocal DEF DispatcherStep
      <4>3. ASSUME o \in registered'
            PROVE  ctl'[o].inst = ctl[o].inst
        <5>1. CASE Takes(o)
          BY <5>1 DEF Takes, Passes
        <5>2. CASE Queues(o)
          BY <1>0, <5>2 DEF Queues, TypeOK, Ctl
        <5>3. CASE \E res \in results : Submits(o, res)
          BY <1>0, <5>3 DEF Submits, Ctl
        <5>4. CASE \E res \in results : Declines(o, res)
          BY <1>0, <5>4, ReleasedFields DEF Declines, Passes
        <5>5. CASE \E cr \in commitResults : Fails(o, cr)
          BY <1>0, <5>5, ReleasedFields DEF Fails, Passes
        <5>6. ASSUME NEW cr \in commitResults, Confirms(o, cr)
              PROVE  ctl'[o].inst = ctl[o].inst
          <6>1. cr.seq \in Nat
            BY <1>0 DEF TypeOK, PublisherTypeOK, CommitResult
          <6> DEFINE d == [Released(ctl[o]) EXCEPT !.seq = cr.seq]
          <6>2. d.inst = ctl[o].inst
            BY <1>0, <6>1, ReleasedFields
          <6> HIDE DEF d
          <6> QED
            BY <5>6, <6>2 DEF Confirms, Passes, d
        <5>7. \A cr \in commitResults : ~Closes(o, cr)
          BY <4>3 DEF Closes
        <5> QED
          BY <1>2, <3>2, <5>1, <5>2, <5>3, <5>4, <5>5, <5>6, <5>7 DEF StepOf
      <4> QED
        BY <4>1, <4>2, <4>3
    <3> QED
      BY <3>1, <3>2 DEF DispatcherStep
  <2>2. \A p \in Objects : Owns(p)' \subseteq Owns(p)
    BY <1>0, <2>1 DEF Owns, Insts
  <2>3. \A inst : Known(inst)' <=> Known(inst)
    BY <1>0, <2>1 DEF Known
  <2>4. \A p \in Objects : \A inst \in Owns(p)' : inst \in InstanceID /\ Known(inst)'
    BY <1>0, <2>2, <2>3 DEF Distinct
  <2>5. \A p, q \in Objects : \A inst : inst \in Owns(p)' /\ inst \in Owns(q)' => p = q
    BY <1>0, <2>2 DEF Distinct
  <2> QED
    BY <2>4, <2>5 DEF Distinct
<1> QED
  BY <1>1, <1>2

LEMMA DispatcherKeepsStream ==
  ASSUME StreamInv, DispatcherStep, AnsweredInv'
  PROVE  StreamInv'
<1>1. UNCHANGED stream
  BY DEF DispatcherStep, dispatcherFrame
<1>2. \A p \in Objects : Logged(p)'
  BY <1>1, DispatcherKeepsPhase, DispatcherKeepsOrder DEF StreamInv, Logged
<1> QED
  BY <1>2, DispatcherKeepsDistinct DEF StreamInv

(* Nothing here depends on the engine.                                     *)
LEMMA EngineKeepsStream ==
  ASSUME StreamInv, UNCHANGED <<ctl, registered, bootEpoch, instances, nextOp, publisherVars>>,
         AnsweredInv'
  PROVE  StreamInv'
<1> USE DEF publisherVars
<1>1. Distinct'
  BY DEF StreamInv, Distinct, Owns, Insts, Known
<1>2. ASSUME NEW p \in Objects
      PROVE  Logged(p)'
  <2>1. LogOK(stream[p]) /\ InOrder(p) /\ Phase(p)
    BY DEF StreamInv, Logged
  <2>2. InOrder(p)'
    BY <2>1 DEF InOrder, Before, InLine
  <2>3. Phase(p)'
    BY <2>1, PhaseStays DEF NoJob, NoCommitResult
  <2> QED
    BY <2>1, <2>2, <2>3 DEF Logged
<1> QED
  BY <1>1, <1>2 DEF StreamInv

---------------------------------------------------------------------------
(* Steps of the publisher.                                                 *)

(* A projection is not a commit, and has the number of its commit.         *)
LEMMA ProjectionFields ==
  ASSUME NEW c, NEW k \in 1..Len(c.trans)
  PROVE  LET m == Projections(c)[k]
         IN  /\ ~IsCommit(m) /\ m.inst = c.inst /\ m.seq = c.seq /\ m.obj = c.obj
             /\ EventID(m) = <<m.type, c.obj, c.inst, c.seq, c.trans[k].area>>
             /\ m.type = IF c.trans[k].entered THEN "entered" ELSE "exited"
BY DEF Projections, IsCommit, CommitTypes, EventID

(* The commit of the head has a larger number than what its log has of its *)
(* incarnation.                                                            *)
LEMMA UnwrittenSeqs ==
  ASSUME NEW o \in registered, Unwritten(o), Carries(o), LogOK(stream[o]), ctl[o].seq \in Nat
  PROVE  \A j \in DOMAIN stream[o] : stream[o][j].inst = ctl[o].inst =>
           stream[o][j].seq # ctl[o].seq + 1 /\ stream[o][j].seq < ctl[o].seq + 1
<1>1. CASE Registering(o)
  BY <1>1 DEF Unwritten, Insts
<1>2. CASE ~Registering(o)
  <2>1. PICK f \in DOMAIN stream[o] :
          /\ LatestAt(stream[o], f)
          /\ stream[o][f].inst = ctl[o].inst /\ stream[o][f].seq = ctl[o].seq
    BY <1>2 DEF Unwritten
  <2>2. \A j \in DOMAIN stream[o] : stream[o][j].seq \in Nat
    <3>1. \A e \in Event : e.seq \in Nat
      BY DEF Event, CommitEvent, ProjectionEvent
    <3>2. \A j \in DOMAIN stream[o] : stream[o][j] \in Event
      BY DEF LogOK
    <3> QED
      BY <3>1, <3>2
  <2>3. \A j \in DOMAIN stream[o] : stream[o][j].inst = ctl[o].inst =>
          stream[o][j].seq < ctl[o].seq \/ stream[o][j].seq = ctl[o].seq
    BY <2>1 DEF LatestAt
  <2> QED
    BY <2>2, <2>3
<1> QED
  BY <1>1, <1>2

(* The next commit of o is stored at the end of its log, n.                *)
NextCommit(o, m, n) ==
  /\ Unwritten(o) /\ m = ctl[o].env.commit /\ n = Len(stream[o]) + 1
  /\ LatestAt(stream'[o], n)
  /\ CommitSeqOf(stream'[o]) = Append(CommitSeqOf(stream[o]), m)

(* The commit at f is stored again, or a projection of it.                 *)
SameCommit(o, f, k) ==
  /\ WrittenAt(o, f, k)
  /\ LatestAt(stream'[o], f)
  /\ CommitSeqOf(stream'[o]) = CommitSeqOf(stream[o])

LEMMA Stores ==
  ASSUME StreamInv, NEW job \in publishing, ~cancelled, ~JobFinished(job), Store(job),
         NEW o, o = JobObject(job), NEW m, m = MessageOf(job)
  PROVE  /\ o \in Objects /\ o \in registered /\ m \in Event
         /\ stream'[o] = Append(stream[o], m)
         /\ \A p \in Objects : p # o => stream'[p] = stream[p]
         /\ LogOK(stream'[o])
         /\ m.inst = ctl[o].inst
         /\ IsCommit(m) => m = ctl[o].env.commit
         /\ \/ ~job.committed /\ NextCommit(o, m, Len(stream[o]) + 1)
            \/ \E f \in DOMAIN stream[o] : SameCommit(o, f, IF job.committed THEN job.next ELSE 1)
<1> DEFINE c == job.env.commit
           log == stream[o]
<1>1. /\ o \in Objects /\ ctl[o].env = job.env /\ job.env # None /\ Carries(o) /\ m \in Event
      /\ c \in CommitEvent
      /\ ~job.committed => m = c
      /\ job.committed => job.next \in 1..Len(c.trans) /\ m = Projections(c)[job.next]
  BY Message DEF StreamInv, AnsweredInv
<1>2. /\ JobPhase(o, job) /\ LogOK(log) /\ o \in registered /\ ctl[o].seq \in Nat
      /\ stream \in [Objects -> Seq(Event)]
  BY <1>1 DEF StreamInv, Logged, Phase, AnsweredInv, StagedInv, IInv, MailboxOwned, Carries,
              TypeOK, PublisherTypeOK, Ctl
<1>3. stream'[o] = Append(log, m) /\ \A p \in Objects : p # o => stream'[p] = stream[p]
  BY <1>1, <1>2 DEF Store
<1>4. IsCommit(c) /\ c.inst = ctl[o].inst /\ c.seq = ctl[o].seq + 1
  BY <1>1 DEF Carries, CommitEvent, IsCommit
<1>5. /\ m.inst = c.inst /\ m.seq = c.seq
      /\ IsCommit(m) => m = c
  BY <1>1, ProjectionFields
<1> HIDE DEF c, log
<1>6. CASE ~job.committed /\ Unwritten(o)
  <2>1. m = c /\ IsCommit(m)
    BY <1>1, <1>4, <1>6
  <2>2. \A j \in DOMAIN log : log[j].inst = m.inst => log[j].seq # m.seq /\ log[j].seq < m.seq
    BY <1>1, <1>2, <1>4, <1>6, <2>1, UnwrittenSeqs DEF log
  <2>3. \A f \in DOMAIN log : LatestAt(log, f) => Projected(log, f)
    BY <1>6 DEF Unwritten, log
  <2>4. /\ LogOK(Append(log, m))
        /\ LatestAt(Append(log, m), Len(log) + 1)
        /\ CommitSeqOf(Append(log, m)) = Append(CommitSeqOf(log), m)
    BY <1>1, <1>2, <2>1, <2>2, <2>3, AppendCommit
  <2>5. NextCommit(o, m, Len(log) + 1)
    BY <1>1, <1>3, <1>6, <2>1, <2>4 DEF NextCommit, log, c
  <2> QED
    BY <1>1, <1>2, <1>3, <1>4, <1>5, <1>6, <2>4, <2>5 DEF log, c
<1>7. ASSUME NEW f \in DOMAIN log, NEW k, WrittenAt(o, f, k), k = IF job.committed THEN job.next ELSE 1
      PROVE  LogOK(stream'[o]) /\ SameCommit(o, f, k)
  <2>1. LatestAt(log, f) /\ log[f] = c
    BY <1>1, <1>7 DEF WrittenAt, log, c
  <2>2. /\ LogOK(Append(log, m))
        /\ LatestAt(Append(log, m), f)
        /\ CommitSeqOf(Append(log, m)) = CommitSeqOf(log)
    BY <1>1, <1>2, <1>5, <2>1, AppendRest
  <2> QED
    BY <1>3, <1>7, <2>2 DEF SameCommit, log
<1>8. \/ ~job.committed /\ Unwritten(o)
      \/ \E f \in DOMAIN log : WrittenAt(o, f, IF job.committed THEN job.next ELSE 1)
  BY <1>2 DEF JobPhase, log
<1>9. CASE \E f \in DOMAIN log : WrittenAt(o, f, IF job.committed THEN job.next ELSE 1)
  <2>1. LogOK(stream'[o]) /\ \E f \in DOMAIN log : SameCommit(o, f, IF job.committed THEN job.next ELSE 1)
    BY <1>7, <1>9
  <2> QED
    BY <1>1, <1>2, <1>3, <1>4, <1>5, <2>1 DEF log, c
<1> QED
  BY <1>6, <1>8, <1>9

LEMMA WrittenGrows ==
  ASSUME NEW o \in Objects, stream[o] \in Seq(Event), NEW f \in DOMAIN stream[o],
         NEW k \in Nat \ {0}, WrittenAt(o, f, k),
         NEW m \in Event, stream'[o] = Append(stream[o], m), LatestAt(stream'[o], f), UNCHANGED ctl
  PROVE  /\ f \in DOMAIN stream'[o] /\ WrittenAt(o, f, k)'
         /\ EventID(m) = EventID(Projections(stream[o][f])[k]) => WrittenAt(o, f, k + 1)'
<1> DEFINE log == stream[o]
           new == stream'[o]
           P(i) == EventID(Projections(log[f])[i])
<1>1. /\ Len(log) \in Nat /\ DOMAIN log = 1..Len(log) /\ f \in 1..Len(log)
      /\ Len(new) = Len(log) + 1 /\ DOMAIN new = 1..(Len(log) + 1)
      /\ \A i \in 1..Len(log) : new[i] = log[i]
      /\ new[Len(log) + 1] = m
  BY AppendEntries
<1>2. /\ ctl[o].env # None /\ log[f] = ctl[o].env.commit
      /\ \A i \in 1..(k - 1) : \E j \in (f + 1)..Len(log) : EventID(log[j]) = P(i)
  BY DEF WrittenAt
<1> HIDE DEF log, new
<1>3. new[f] = log[f] /\ f \in DOMAIN new
  BY <1>1
<1> HIDE DEF P
<1>4. \A i \in 1..(k - 1) : \E j \in (f + 1)..Len(new) : EventID(new[j]) = P(i)
  <2> SUFFICES ASSUME NEW i \in 1..(k - 1)
               PROVE  \E j \in (f + 1)..Len(new) : EventID(new[j]) = P(i)
    OBVIOUS
  <2>1. PICK j \in (f + 1)..Len(log) : EventID(log[j]) = P(i)
    BY <1>2
  <2>2. j \in (f + 1)..Len(new) /\ j \in 1..Len(log)
    BY <1>1
  <2> QED
    BY <1>1, <2>1, <2>2
<1>5. WrittenAt(o, f, k)'
  BY <1>2, <1>3, <1>4 DEF WrittenAt, log, new, P
<1>6. ASSUME EventID(m) = P(k)
      PROVE  WrittenAt(o, f, k + 1)'
  <2>1. \A i \in 1..((k + 1) - 1) : i \in 1..(k - 1) \/ i = k
    OBVIOUS
  <2>2. Len(log) + 1 \in (f + 1)..Len(new) /\ EventID(new[Len(log) + 1]) = P(k)
    BY <1>1, <1>6
  <2>3. \A i \in 1..((k + 1) - 1) : \E j \in (f + 1)..Len(new) : EventID(new[j]) = P(i)
    BY <1>4, <2>1, <2>2
  <2>4. \A n : n = k + 1 => WrittenAt(o, f, n)'
    BY <1>2, <1>3, <2>3 DEF WrittenAt, log, new, P
  <2> QED
    BY <2>4
<1> QED
  BY <1>3, <1>5, <1>6 DEF log, new, P

(* The job of o is now new, or none.                                       *)
LEMMA JobPhaseIs ==
  ASSUME NEW o, NEW new, JobObject(new) = o, new \in publishing',
         \A job \in publishing' : JobObject(job) = o => job = new,
         NoCommitResult(o)', JobPhase(o, new)'
  PROVE  Phase(o)'
<1>1. ~NoJob(o)'
  BY DEF NoJob
<1>2. \A job : job = new => JobPhase(o, job)'
  OBVIOUS
<1>3. \A job \in publishing' : JobObject(job) = o => JobPhase(o, job)'
  BY <1>2
<1> QED
  BY <1>1, <1>3 DEF Phase, NoCommitResult

(* A message found by reading its subject back is in the log.              *)
LEMMA FoundBefore ==
  ASSUME NEW job, NEW o, o = JobObject(job), stream[o] \in Seq(Event), StoredBefore(job)
  PROVE  \E j \in DOMAIN stream[o] : EventID(stream[o][j]) = EventID(MessageOf(job))
<1> DEFINE log == stream[o]
           sent == {i \in DOMAIN log : Subject(log[i]) = Subject(MessageOf(job))}
<1>1. sent # {} /\ EventID(log[Max(sent)]) = EventID(MessageOf(job))
  BY DEF StoredBefore
<1>2. Len(log) \in Nat /\ DOMAIN log = 1..Len(log)
  BY LenProperties
<1>3. sent \in SUBSET (1..Len(log)) /\ sent \subseteq DOMAIN log
  BY <1>2
<1> HIDE DEF sent
<1>4. Max(sent) \in DOMAIN log
  BY <1>1, <1>2, <1>3, IntervalMax
<1> QED
  BY <1>1, <1>4

(* What a job has found in the log it need not have stored just now.       *)
LEMMA Finds ==
  ASSUME StreamInv, NEW job \in publishing, ~cancelled, ~JobFinished(job), StoredBefore(job),
         NEW o, o = JobObject(job)
  PROVE  \E f \in DOMAIN stream[o] :
           /\ ~job.committed => WrittenAt(o, f, 1)
           /\ job.committed => WrittenAt(o, f, job.next + 1)
<1> DEFINE c == job.env.commit
           log == stream[o]
<1>1. /\ o \in Objects /\ ctl[o].env = job.env /\ Carries(o)
      /\ c \in CommitEvent
      /\ ~job.committed => MessageOf(job) = c
      /\ job.committed => job.next \in 1..Len(c.trans) /\ MessageOf(job) = Projections(c)[job.next]
  BY Message DEF StreamInv, AnsweredInv
<1>2. /\ JobPhase(o, job) /\ LogOK(log) /\ o \in registered /\ ctl[o].seq \in Nat
      /\ log \in Seq(Event) /\ Len(log) \in Nat /\ DOMAIN log = 1..Len(log)
  BY <1>1, LenProperties
     DEF StreamInv, Logged, Phase, AnsweredInv, StagedInv, IInv, MailboxOwned, Carries,
         TypeOK, PublisherTypeOK, Ctl
<1>3. PICK j \in DOMAIN log : EventID(log[j]) = EventID(MessageOf(job))
  BY <1>2, FoundBefore
<1>4. c.inst = ctl[o].inst /\ c.seq = ctl[o].seq + 1
  BY <1>1 DEF Carries
<1> HIDE DEF c, log
<1>5. CASE ~job.committed
  <2>1. log[j].inst = ctl[o].inst /\ log[j].seq = ctl[o].seq + 1
    BY <1>1, <1>3, <1>4, <1>5, SameID
  <2>2. ~Unwritten(o)
    BY <1>1, <1>2, <1>3, <2>1, UnwrittenSeqs DEF log
  <2> QED
    BY <1>2, <1>5, <2>2 DEF JobPhase, log
<1>6. CASE job.committed
  <2>1. PICK f \in DOMAIN log : WrittenAt(o, f, job.next)
    BY <1>2, <1>6 DEF JobPhase, log
  <2>2. LatestAt(log, f) /\ log[f] = c
    BY <1>1, <2>1 DEF WrittenAt, log, c
  <2> DEFINE m == Projections(c)[job.next]
  <2>3. /\ EventID(log[j]) = EventID(m) /\ ~IsCommit(m) /\ m.inst = c.inst /\ m.seq = c.seq
    BY <1>1, <1>3, <1>6, ProjectionFields
  <2>4. log[j].inst = c.inst /\ log[j].seq = c.seq /\ ~IsCommit(log[j])
    BY <2>3, SameID
  <2>5. ~(j < f)
    <3>1. c.seq \in Nat
      BY <1>2, <1>4
    <3>2. j < f => c.seq < c.seq
      BY <2>2, <2>4 DEF LatestAt
    <3> QED
      BY <3>1, <3>2
  <2>6. IsCommit(log[f])
    BY <2>2 DEF LatestAt, FirstCommits
  <2>7. j \in (f + 1)..Len(log)
    <3>1. j # f
      BY <2>4, <2>6
    <3> QED
      BY <1>2, <2>5, <3>1
  <2>8. job.next \in Nat /\ \A i \in 1..((job.next + 1) - 1) : i \in 1..(job.next - 1) \/ i = job.next
    BY <1>1, <1>6
  <2>9. \A i \in 1..((job.next + 1) - 1) : \E g \in (f + 1)..Len(log) :
          EventID(log[g]) = EventID(Projections(log[f])[i])
    <3>1. \A i \in 1..(job.next - 1) : \E g \in (f + 1)..Len(log) :
            EventID(log[g]) = EventID(Projections(log[f])[i])
      BY <2>1 DEF WrittenAt, log
    <3>2. EventID(log[j]) = EventID(Projections(log[f])[job.next])
      BY <2>2, <2>3
    <3> QED
      BY <2>7, <2>8, <3>1, <3>2
  <2>10. WrittenAt(o, f, job.next + 1)
    BY <2>1, <2>9 DEF WrittenAt, log
  <2> QED
    BY <1>6, <2>10 DEF log
<1> QED
  BY <1>5, <1>6

(* The job that goes on in place of job.                                   *)
LEMMA NextJob ==
  ASSUME StreamInv, NEW job \in publishing, ~cancelled, ~JobFinished(job),
         NEW o, o = JobObject(job), NEW new, UNCHANGED <<ctl, registered>>,
         \/ Store(job) /\ new = Confirmed(job)
         \/ UNCHANGED stream /\ StoredBefore(job) /\ new = Confirmed(job)
         \/ Store(job) /\ new = Retried(job)
         \/ UNCHANGED stream /\ new = Retried(job)
  PROVE  JobPhase(o, new)'
<1> DEFINE k == IF job.committed THEN job.next ELSE 1
           m == MessageOf(job)
<1>1. /\ o \in Objects /\ job \in Job /\ ctl[o].env = job.env /\ job.env # None
      /\ ~job.committed => m = job.env.commit
      /\ job.committed => m = Projections(job.env.commit)[job.next]
  BY Message DEF StreamInv, AnsweredInv
<1>2. /\ JobPhase(o, job) /\ stream[o] \in Seq(Event)
  BY <1>1 DEF StreamInv, Logged, Phase, AnsweredInv, StagedInv, IInv, TypeOK, PublisherTypeOK
<1>3. job.committed \in BOOLEAN /\ job.next \in Nat \ {0} /\ k \in Nat \ {0} /\ k - 1 \in Nat
  BY <1>1 DEF Job
<1>4. /\ Confirmed(job).committed
      /\ Confirmed(job).next = IF job.committed THEN job.next + 1 ELSE job.next
      /\ Retried(job).committed = job.committed
      /\ Retried(job).next = IF job.committed THEN 1 ELSE job.next
  BY <1>1 DEF Confirmed, Retried, Job
<1>5. \A f, i : WrittenAt(o, f, i) /\ UNCHANGED stream => WrittenAt(o, f, i)'
  BY DEF WrittenAt
<1>6. \A f : WrittenAt(o, f, k)' => WrittenAt(o, f, 1)'
  BY <1>3 DEF WrittenAt
<1> HIDE DEF k, m
<1>7. CASE Store(job)
  <2>1. /\ m \in Event /\ stream'[o] = Append(stream[o], m) /\ LogOK(stream'[o])
        /\ \/ ~job.committed /\ NextCommit(o, m, Len(stream[o]) + 1)
           \/ \E f \in DOMAIN stream[o] : SameCommit(o, f, k)
    BY <1>7, Stores DEF k, m
  <2>2. CASE ~job.committed /\ NextCommit(o, m, Len(stream[o]) + 1)
    <3> DEFINE f == Len(stream[o]) + 1
    <3>1. LatestAt(stream'[o], f) /\ f \in DOMAIN stream'[o] /\ stream'[o][f] = ctl[o].env.commit
      BY <1>1, <1>2, <2>1, <2>2, AppendEntries DEF NextCommit
    <3>2. PICK g : g = f
      OBVIOUS
    <3>3. g \in DOMAIN stream'[o] /\ WrittenAt(o, g, 1)'
      BY <1>1, <3>1, <3>2 DEF WrittenAt
    <3>4. job.next = 1 /\ new.next = 1
      BY <1>2, <1>4, <2>2 DEF JobPhase
    <3>5. \A n : n = 1 => WrittenAt(o, g, n)'
      BY <3>3
    <3> QED
      BY <1>4, <3>3, <3>4, <3>5 DEF JobPhase
  <2>3. ASSUME NEW f \in DOMAIN stream[o], SameCommit(o, f, k)
        PROVE  JobPhase(o, new)'
    <3>1. stream[o][f] = job.env.commit /\ WrittenAt(o, f, k) /\ LatestAt(stream'[o], f)
      BY <1>1, <2>3 DEF SameCommit, WrittenAt
    <3>2. /\ f \in DOMAIN stream'[o] /\ WrittenAt(o, f, k)'
          /\ EventID(m) = EventID(Projections(stream[o][f])[k]) => WrittenAt(o, f, k + 1)'
      BY <1>1, <1>2, <1>3, <2>1, <2>3, <3>1, WrittenGrows DEF SameCommit
    <3>3. job.committed => WrittenAt(o, f, job.next + 1)'
      <4>1. job.committed => EventID(m) = EventID(Projections(stream[o][f])[k]) /\ k = job.next
        BY <1>1, <3>1 DEF k
      <4>2. \A n : n = k + 1 => (WrittenAt(o, f, k + 1)' => WrittenAt(o, f, n)')
        BY DEF k
      <4>3. ASSUME job.committed PROVE WrittenAt(o, f, job.next + 1)'
        BY <3>2, <4>1, <4>3 DEF k
      <4> QED
        BY <4>3
    <3>4. WrittenAt(o, f, 1)'
      BY <1>6, <3>2
    <3>5. new = Confirmed(job) \/ new = Retried(job)
      OBVIOUS
    <3>6. ~job.committed => job.next = 1
      BY <1>2 DEF JobPhase
    <3>7. \A n : n = 1 \/ (job.committed /\ n = job.next + 1) => WrittenAt(o, f, n)'
      BY <3>3, <3>4
    <3>8. new.next = 1 \/ (job.committed /\ new.next = job.next + 1)
      BY <1>4, <3>5, <3>6
    <3>9. WrittenAt(o, f, new.next)'
      BY <3>7, <3>8
    <3>10. ~new.committed => new.next = 1
      BY <1>4, <3>5, <3>6
    <3> QED
      BY <3>2, <3>4, <3>9, <3>10 DEF JobPhase
  <2> QED
    BY <2>1, <2>2, <2>3
<1>8. CASE UNCHANGED stream /\ StoredBefore(job) /\ new = Confirmed(job)
  <2>1. PICK f \in DOMAIN stream[o] : /\ ~job.committed => WrittenAt(o, f, 1)
                                      /\ job.committed => WrittenAt(o, f, job.next + 1)
    BY <1>8, Finds
  <2>2. new.committed /\ new.next = IF job.committed THEN job.next + 1 ELSE 1
    BY <1>2, <1>4, <1>8 DEF JobPhase
  <2>3. WrittenAt(o, f, new.next)
    BY <2>1, <2>2
  <2>4. WrittenAt(o, f, new.next)'
    BY <1>8, <2>3 DEF WrittenAt
  <2> QED
    BY <1>8, <2>2, <2>4 DEF JobPhase
<1>9. CASE UNCHANGED stream /\ new = Retried(job)
  <2>1. CASE job.committed
    <3>1. PICK f \in DOMAIN stream[o] : WrittenAt(o, f, job.next)
      BY <1>2, <2>1 DEF JobPhase
    <3>2. WrittenAt(o, f, 1)'
      BY <1>5, <1>6, <1>9, <2>1, <3>1 DEF k
    <3>3. new.next = 1 /\ new.committed
      BY <1>4, <1>9, <2>1
    <3>4. \A n : n = 1 => WrittenAt(o, f, n)'
      BY <3>2
    <3> QED
      BY <1>9, <3>3, <3>4 DEF JobPhase
  <2>2. CASE ~job.committed
    <3>1. new.next = 1 /\ ~new.committed
      BY <1>2, <1>4, <1>9, <2>2 DEF JobPhase
    <3>2. Unwritten(o) => Unwritten(o)'
      BY <1>9, UnwrittenStays DEF Registering
    <3>3. Unwritten(o) \/ cancelled \/ \E f \in DOMAIN stream[o] : WrittenAt(o, f, 1)
      BY <1>2, <2>2 DEF JobPhase
    <3> QED
      BY <1>5, <1>9, <3>1, <3>2, <3>3 DEF JobPhase
  <2> QED
    BY <2>1, <2>2
<1> QED
  BY <1>7, <1>8, <1>9

LEMMA PublisherKeepsPhase ==
  ASSUME StreamInv, PublisherNext, UNCHANGED <<engineVars, dispatcherVars>>, NEW p \in Objects
  PROVE  Phase(p)'
<1>0. /\ UNCHANGED <<ctl, registered>> /\ AtMostOneInFlight /\ Phase(p) /\ TypeOK
      /\ publishing \subseteq Job /\ stream \in [Objects -> Seq(Event)]
  BY DEF StreamInv, AnsweredInv, StagedInv, IInv, TypeOK, PublisherTypeOK, Logged, engineVars,
         dispatcherVars
<1>1. ASSUME NEW env \in commitCh, TakeEnvelope(env)
      PROVE  Phase(p)'
  <2> DEFINE o == env.commit.obj
             new == NewJob(env)
  <2>1. /\ publishing' = publishing \cup {new}
        /\ UNCHANGED <<stream, commitResults, cancelled>>
        /\ JobObject(new) = o /\ ~new.committed /\ new.next = 1
    BY <1>1 DEF TakeEnvelope, NewJob, JobObject
  <2>2. NoJob(o) /\ NoCommitResult(o)
    BY <1>0, <1>1, Alone
  <2> HIDE DEF o, new
  <2>3. CASE p = o
    <3>1. Unwritten(p) => Unwritten(p)'
      BY <1>0, <2>1, UnwrittenStays DEF Registering
    <3>2. ~cancelled => Unwritten(p)
      BY <1>0, <2>2, <2>3 DEF Phase
    <3>3. JobPhase(p, new)'
      BY <2>1, <3>1, <3>2 DEF JobPhase
    <3>4. NoCommitResult(p)' /\ \A job \in publishing' : JobObject(job) = p => job = new
      BY <2>1, <2>2, <2>3 DEF NoJob, NoCommitResult
    <3> QED
      BY <2>1, <2>3, <3>3, <3>4, JobPhaseIs
  <2>4. CASE p # o
    <3>1. /\ \A job \in publishing' : JobObject(job) = p => job \in publishing
          /\ NoJob(p)' => NoJob(p)
          /\ NoCommitResult(p)' => NoCommitResult(p)
      BY <2>1, <2>4 DEF NoJob, NoCommitResult
    <3> QED
      BY <1>0, <2>1, <3>1, PhaseStays
  <2> QED
    BY <2>3, <2>4
<1>2. ASSUME NEW job \in publishing, NEW new, JobObject(new) = JobObject(job),
             ~cancelled, ~JobFinished(job),
             \/ Store(job) /\ new = Confirmed(job)
             \/ UNCHANGED stream /\ StoredBefore(job) /\ new = Confirmed(job)
             \/ Store(job) /\ new = Retried(job)
             \/ UNCHANGED stream /\ new = Retried(job),
             ReplaceJob(job, new), UNCHANGED <<commitResults, cancelled>>
      PROVE  Phase(p)'
  <2>1. PICK o : o = JobObject(job)
    OBVIOUS
  <2>2. publishing' = (publishing \ {job}) \cup {new} /\ new \in publishing'
    BY <1>2 DEF ReplaceJob
  <2>3. /\ \A u \in publishing : JobObject(u) = o => u = job
        /\ NoCommitResult(o)
    BY <1>0, <2>1, Alone
  <2>4. CASE p = o
    <3>1. JobPhase(o, new)'
      BY <1>0, <1>2, <2>1, NextJob
    <3>2. NoCommitResult(o)' /\ \A u \in publishing' : JobObject(u) = o => u = new
      BY <1>2, <2>2, <2>3 DEF NoCommitResult
    <3> QED
      BY <1>2, <2>1, <2>2, <2>4, <3>1, <3>2, JobPhaseIs
  <2>5. CASE p # o
    <3>1. stream'[p] = stream[p]
      BY <1>0, <1>2, <2>1, <2>5 DEF Store
    <3>2. /\ \A u \in publishing' : JobObject(u) = p => u \in publishing
          /\ NoJob(p)' => NoJob(p)
          /\ NoCommitResult(p)' => NoCommitResult(p)
      BY <1>2, <2>1, <2>2, <2>5 DEF NoJob, NoCommitResult
    <3> QED
      BY <1>0, <1>2, <3>1, <3>2, PhaseStays
  <2> QED
    BY <2>4, <2>5
<1>3. ASSUME NEW job \in publishing, ReturnResult(job) \/ DropResult(job)
      PROVE  Phase(p)'
  <2>1. PICK o : o = JobObject(job)
    OBVIOUS
  <2>2. /\ publishing' = publishing \ {job} /\ UNCHANGED <<stream, cancelled>>
        /\ commitResults' = commitResults \cup {ResultOf(job, ~JobFinished(job))} \/
           (cancelled /\ UNCHANGED commitResults)
        /\ JobFinished(job) \/ cancelled
    BY <1>3 DEF ReturnResult, DropResult
  <2>3. ResultOf(job, ~JobFinished(job)).obj = o /\ ResultOf(job, ~JobFinished(job)).failed = ~JobFinished(job)
    BY <2>1 DEF ResultOf
  <2>4. /\ \A u \in publishing : JobObject(u) = o => u = job
        /\ NoCommitResult(o)
    BY <1>0, <2>1, Alone
  <2>5. CASE p = o
    <3>1. NoJob(p)'
      BY <2>2, <2>4, <2>5 DEF NoJob
    <3>2. ~cancelled' => ~NoCommitResult(p)'
      BY <2>2, <2>3, <2>5 DEF NoCommitResult
    <3>3. ASSUME NEW cr \in commitResults', cr.obj = p, ~cr.failed
          PROVE  \E f \in DOMAIN stream'[p] : WrittenAt(p, f, 1)' /\ Projected(stream[p], f)'
      <4>1. cr = ResultOf(job, ~JobFinished(job)) /\ JobFinished(job)
        BY <2>2, <2>3, <2>4, <2>5, <3>3 DEF NoCommitResult
      <4>2. job.committed /\ job.next > Len(job.env.projections) /\ job \in Job
        BY <1>0, <4>1 DEF JobFinished
      <4>3. PICK f \in DOMAIN stream[p] : WrittenAt(p, f, job.next)
        BY <1>0, <2>1, <2>5, <4>2 DEF Phase, JobPhase
      <4> DEFINE c == job.env.commit
      <4>4. /\ ctl[p].env = job.env /\ Carries(p)
        BY <2>1, <2>5, <4>2, <4>3 DEF StreamInv, AnsweredInv, StagedInv, Staged, MailboxOK, WrittenAt
      <4>5. stream[p][f] = c /\ job.env.projections = Projections(c)
        BY <4>3, <4>4 DEF WrittenAt, Carries
      <4>6. Len(c.trans) \in Nat /\ Len(job.env.projections) = Len(c.trans)
        <5>1. c.trans \in Seq(Transition) /\ job.env.projections \in Seq(ProjectionEvent)
          BY <4>2 DEF Job, Envelope, CommitEvent
        <5>2. DOMAIN Projections(c) = 1..Len(c.trans)
          BY DEF Projections
        <5> QED
          BY <4>5, <5>1, <5>2, LenProperties
      <4>7. \A i \in 1..Len(c.trans) : i \in 1..(job.next - 1)
        <5>1. job.next \in Nat
          BY <4>2 DEF Job
        <5> QED
          BY <4>2, <4>6, <5>1
      <4>8. Projected(stream[p], f)
        <5>1. Len(stream[p]) \in Nat
          BY <1>0, LenProperties
        <5>2. (Len(stream[p]) + 1) - 1 = Len(stream[p])
          BY <5>1
        <5> QED
          BY <4>3, <4>5, <4>7, <5>2 DEF Projected, ProjectedBefore, WrittenAt
      <4>9. WrittenAt(p, f, 1)
        BY <4>3 DEF WrittenAt
      <4>10. WrittenAt(p, f, 1)'
        BY <1>0, <2>2, <4>9, WrittenStays
      <4> QED
        BY <2>2, <4>8, <4>10
    <3> QED
      BY <3>1, <3>2, <3>3 DEF Phase, NoJob
  <2>6. CASE p # o
    <3>1. /\ \A u \in publishing' : JobObject(u) = p => u \in publishing
          /\ \A cr \in commitResults' : cr.obj = p => cr \in commitResults
          /\ NoJob(p)' => NoJob(p)
          /\ NoCommitResult(p)' => NoCommitResult(p)
      BY <2>1, <2>2, <2>3, <2>6 DEF NoJob, NoCommitResult
    <3> QED
      BY <1>0, <2>2, <3>1, PhaseStays
  <2> QED
    BY <2>5, <2>6
<1>4. CASE Cancel
  <2>1. UNCHANGED <<stream, publishing, commitResults>> /\ cancelled'
    BY <1>4 DEF Cancel
  <2> QED
    BY <1>0, <2>1, PhaseStays DEF NoJob, NoCommitResult
<1>5. ASSUME NEW job \in publishing,
             PublishConfirmed(job) \/ PublishVerified(job) \/ PublishUnconfirmed(job) \/ PublishFailed(job)
      PROVE  Phase(p)'
  <2>1. JobObject(Confirmed(job)) = JobObject(job) /\ JobObject(Retried(job)) = JobObject(job)
    BY <1>0, JobKeepsEnvelope DEF JobObject
  <2>2. PublishConfirmed(job) \/ PublishVerified(job) => Phase(p)'
    BY <1>2, <2>1 DEF PublishConfirmed, PublishVerified
  <2>3. PublishUnconfirmed(job) \/ PublishFailed(job) => Phase(p)'
    BY <1>2, <2>1 DEF PublishUnconfirmed, PublishFailed
  <2> QED
    BY <1>5, <2>2, <2>3
<1> QED
  BY <1>1, <1>3, <1>4, <1>5 DEF PublisherNext

LEMMA PublisherKeepsStream ==
  ASSUME StreamInv, PublisherNext, UNCHANGED <<engineVars, dispatcherVars>>, AnsweredInv'
  PROVE  StreamInv'
<1>0. /\ UNCHANGED <<ctl, registered, nextOp, bootEpoch, instances>> /\ AnsweredInv /\ Distinct
      /\ stream \in [Objects -> Seq(Event)] /\ \A o \in Objects : Logged(o)
  BY DEF StreamInv, AnsweredInv, StagedInv, IInv, TypeOK, PublisherTypeOK, engineVars, dispatcherVars
<1>1. \A p \in Objects : Phase(p)'
  BY PublisherKeepsPhase
<1>2. \A p, n : InLine(p, n)' <=> InLine(p, n)
  BY <1>0 DEF InLine
<1>3. \A p, e : Before(p, e) => Before(p, e)'
  BY <1>0, <1>2 DEF Before
<1>4. CASE UNCHANGED stream
  <2>1. \A p \in Objects : LogOK(stream[p])' /\ InOrder(p)'
    BY <1>0, <1>3, <1>4 DEF Logged, InOrder
  <2>2. Distinct'
    BY <1>0, <1>4 DEF Distinct, Owns, Insts, Known
  <2> QED
    BY <1>1, <2>1, <2>2 DEF StreamInv, Logged
<1>5. ASSUME NEW job \in publishing, ~cancelled, ~JobFinished(job), Store(job)
      PROVE  StreamInv'
  <2>1. PICK o, m : o = JobObject(job) /\ m = MessageOf(job)
    OBVIOUS
  <2>2. /\ o \in Objects /\ o \in registered /\ m \in Event
        /\ stream'[o] = Append(stream[o], m)
        /\ \A p \in Objects : p # o => stream'[p] = stream[p]
        /\ LogOK(stream'[o])
        /\ m.inst = ctl[o].inst
        /\ IsCommit(m) => m = ctl[o].env.commit
    BY <1>5, <2>1, Stores
  <2>3. /\ DOMAIN stream[o] = 1..Len(stream[o]) /\ DOMAIN stream'[o] = 1..(Len(stream[o]) + 1)
        /\ Len(stream[o]) \in Nat
        /\ \A i \in DOMAIN stream'[o] : \/ i \in DOMAIN stream[o] /\ stream'[o][i] = stream[o][i]
                                        \/ stream'[o][i] = m
        /\ \A i \in DOMAIN stream[o] : i \in DOMAIN stream'[o] /\ stream'[o][i] = stream[o][i]
    BY <1>0, <2>2, AppendEntries
  <2>4. IsCommit(m) => Before(o, m)
    <3> SUFFICES ASSUME IsCommit(m) PROVE Before(o, m)
      OBVIOUS
    <3>1. /\ Carries(o) /\ Ordered(o) /\ ctl[o].env # None
      BY <1>0, <1>5, <2>1, Message DEF AnsweredInv
    <3>2. m.obj = o /\ m.op = ctl[o].head.op /\ ctl[o].head # None
      BY <2>2, <3>1 DEF Carries
    <3>3. m.op < nextOp
      BY <3>1, <3>2 DEF Ordered
    <3>4. \A n : InLine(o, n) => n = m.op \/ m.op < n
      BY <3>1, <3>2 DEF InLine, Ordered
    <3> QED
      BY <2>2, <3>1, <3>2, <3>3, <3>4 DEF Before
  <2>5. \A p \in Objects : InOrder(p)'
    <3> SUFFICES ASSUME NEW p \in Objects PROVE InOrder(p)'
      OBVIOUS
    <3>1. InOrder(p)
      BY <1>0 DEF Logged
    <3>2. \A i \in DOMAIN stream'[p] : IsCommit(stream'[p][i]) => Before(p, stream'[p][i])
      <4>1. CASE p # o
        BY <2>2, <3>1, <4>1 DEF InOrder
      <4>2. CASE p = o
        BY <2>3, <2>4, <3>1, <4>2 DEF InOrder
      <4> QED
        BY <4>1, <4>2
    <3>3. \A i, e : e = stream'[p][i] /\ Before(p, e) => Before(p, stream[p][i])'
      <4>1. \A i, e : e = stream'[p][i] /\ Before(p, e)' => Before(p, stream[p][i])'
        BY DEF Before, InLine
      <4> QED
        BY <1>3, <4>1
    <3> QED
      BY <3>2, <3>3 DEF InOrder
  <2>6. \A p \in Objects : Owns(p)' = Owns(p)
    <3>1. \A p \in Objects : p # o => Owns(p)' = Owns(p)
      BY <1>0, <2>2 DEF Owns, Insts
    <3>2. Owns(o)' = Owns(o)
      <4>1. \A x \in Insts(o)' : x \in Insts(o) \/ x = ctl[o].inst
        BY <2>2, <2>3 DEF Insts
      <4>2. \A x \in Insts(o) : x \in Insts(o)'
        BY <2>3 DEF Insts
      <4> QED
        BY <1>0, <2>2, <4>1, <4>2 DEF Owns
    <3> QED
      BY <3>1, <3>2
  <2>7. Distinct'
    <3>1. \A x : Known(x)' <=> Known(x)
      BY <1>0 DEF Known
    <3> QED
      BY <1>0, <2>6, <3>1 DEF Distinct
  <2>8. \A p \in Objects : LogOK(stream[p])'
    BY <1>0, <2>2 DEF Logged
  <2> QED
    BY <1>1, <2>5, <2>7, <2>8 DEF StreamInv, Logged
<1> QED
  BY <1>4, <1>5 DEF PublisherNext, TakeEnvelope, PublishConfirmed, PublishVerified,
         PublishUnconfirmed, PublishFailed, ReturnResult, DropResult, Cancel

---------------------------------------------------------------------------
(* The invariant of one process.                                           *)

LEMMA EmptyLog == LogOK(<<>>) /\ CommitSeqOf(<<>>) = <<>>
<1>1. FirstCommits(<<>>) = {}
  BY DEF FirstCommits
<1>2. Cardinality({}) = 0
  BY FS_EmptySet
<1>3. 1..Cardinality(FirstCommits(<<>>)) = {}
  <2>1. Cardinality(FirstCommits(<<>>)) = 0
    BY <1>1, <1>2
  <2>2. 1..0 = {}
    OBVIOUS
  <2> QED
    BY <2>1, <2>2
<1>4. Indexed(<<>>)
  BY <1>1, <1>3 DEF Indexed
<1>5. LogOK(<<>>)
  BY <1>1, <1>4 DEF LogOK
<1>6. Len(CommitSeqOf(<<>>)) = 0 /\ CommitSeqOf(<<>>) \in Seq(Event)
  BY <1>1, <1>2, <1>5, CommitSeqType
<1> QED
  BY <1>5, <1>6, EmptySeq

LEMMA InitStream ==
  ASSUME Init
  PROVE  StreamInv
<1>0. AnsweredInv
  BY InitAnswered
<1>1. /\ \A o \in Objects : stream[o] = <<>> /\ ctl[o] = NoCtl
      /\ NoCtl.env = None /\ NoCtl.head = None /\ NoCtl.queue = <<>>
      /\ registered = {} /\ publishing = {} /\ commitResults = {}
  BY DEF Init, EngineInit, PublisherInit, NoCtl
<1>2. \A o \in Objects : Owns(o) = {}
  BY <1>1 DEF Owns, Insts
<1>3. Distinct
  BY <1>2 DEF Distinct
<1>4. ASSUME NEW o \in Objects
      PROVE  Logged(o)
  <2>1. LogOK(stream[o]) /\ DOMAIN stream[o] = {} /\ ctl[o].env = None
    BY <1>1, EmptyLog
  <2>2. InOrder(o) /\ Unwritten(o)
    BY <1>1, <2>1 DEF InOrder, Unwritten, Registering
  <2> QED
    BY <1>1, <2>1, <2>2 DEF Logged, Phase
<1> QED
  BY <1>0, <1>3, <1>4 DEF StreamInv

LEMMA NextKeepsStream ==
  ASSUME StreamInv, [Next]_vars
  PROVE  StreamInv'
<1>0. AnsweredInv /\ StagedInv /\ AnsweredInv'
  BY NextKeepsAnswered DEF StreamInv, AnsweredInv
<1>1. CASE DispatcherNext
  BY <1>0, <1>1, DispatcherSteps, DispatcherKeepsStream
<1>2. CASE EngineNext /\ UNCHANGED <<publisherVars, dispatcherVars>>
  <2>1. UNCHANGED registered
    BY <1>2 DEF EngineNext, ProcessInit, ProcessUpdate, ProcessTransition, ProcessRemove, workerFrame,
       RegisterArea, RemoveAreaStart, RemoveAreaFrom
  <2> QED
    BY <1>0, <1>2, <2>1, EngineKeepsStream DEF dispatcherVars
<1>3. CASE PublisherNext /\ UNCHANGED <<engineVars, dispatcherVars>>
  BY <1>0, <1>3, PublisherKeepsStream
<1>4. CASE UNCHANGED vars
  BY <1>0, <1>4, EngineKeepsStream DEF vars, engineVars, dispatcherVars
<1> QED
  BY <1>1, <1>2, <1>3, <1>4 DEF Next

---------------------------------------------------------------------------
(* The geofence snapshot follows the commits.                              *)

Follows(r, o) ==
  LET log == stream[o]
      i == Max(FirstCommits(log))
  IN  /\ FirstCommits(log) # {}
      /\ ProjectedBefore(log, i, Len(log) + 1)
      /\ prevInside'[r][o] = log[i].inside

(* A confirmed commit writes what it says, for its object, in one region.  *)
LEMMA ConfirmedSnapshot ==
  ASSUME StreamInv, NEW o \in Objects, NEW cr \in commitResults, Closes(o, cr) \/ Confirms(o, cr),
         NEW p \in Objects, NEW r \in Regions, prevInside'[r][p] # prevInside[r][p]
  PROVE  Follows(r, p)
<1> DEFINE m == ctl[o].env.mutation
<1>1. /\ prevInside' = Snapshot(m, o) /\ ~cr.failed /\ cr.obj = o
  BY DEF Closes, Confirms, TakesCommitResult
<1>2. /\ TypeOK /\ Carries(o) /\ ctl[o].env # None /\ ctl[o].env \in Envelope /\ LogOK(stream[o])
      /\ Phase(o) /\ prevInside \in [Regions -> [Objects -> SUBSET Areas]]
  <2>1. Staged(o) /\ TypeOK /\ LogOK(stream[o]) /\ Phase(o)
    BY DEF StreamInv, AnsweredInv, StagedInv, IInv, Logged
  <2>2. ctl[o].env # None
    BY <1>1, <2>1 DEF Staged, CommitResultStaged
  <2> QED
    BY <2>1, <2>2 DEF Staged, MailboxOK, TypeOK, EngineTypeOK, Ctl
<1>3. PICK f \in DOMAIN stream[o] : WrittenAt(o, f, 1) /\ Projected(stream[o], f)
  BY <1>1, <1>2 DEF Phase
<1>4. /\ f = Max(FirstCommits(stream[o])) /\ FirstCommits(stream[o]) # {}
      /\ stream[o][f] = ctl[o].env.commit
  BY <1>2, <1>3, LatestIsMax DEF WrittenAt, LogOK
<1>5. /\ m.kind \in {"noop", "set", "delete"}
      /\ m.kind # "noop" => m.inside = stream[o][f].inside
      /\ m.kind = "delete" => m.inside = {}
      /\ m.new \in Regions \cup {None} /\ m.old \in Regions \cup {None}
  BY <1>2, <1>4 DEF Carries, Envelope, Mutation, RegionOrNone
<1> HIDE DEF m
<1>6. p = o /\ prevInside'[r][o] = stream[o][f].inside
  <2>1. CASE m.kind = "set" /\ m.new # None
    <3>1. prevInside' = [prevInside EXCEPT ![m.new][o] = m.inside]
      BY <1>1, <2>1 DEF Snapshot
    <3> QED
      BY <1>2, <1>5, <2>1, <3>1
  <2>2. CASE m.kind = "delete" /\ m.old # None
    <3>1. prevInside' = [prevInside EXCEPT ![m.old][o] = {}]
      BY <1>1, <2>2 DEF Snapshot
    <3> QED
      BY <1>2, <1>5, <2>2, <3>1
  <2>3. CASE ~(m.kind = "set" /\ m.new # None) /\ ~(m.kind = "delete" /\ m.old # None)
    BY <1>1, <1>5, <2>3 DEF Snapshot
  <2> QED
    BY <2>1, <2>2, <2>3
<1> QED
  BY <1>3, <1>4, <1>6 DEF Follows, Projected

LEMMA SnapshotStep ==
  ASSUME StreamInv, [Next]_vars,
         NEW p \in Objects, NEW r \in Regions, prevInside'[r][p] # prevInside[r][p]
  PROVE  r \in sweep.left \/ Follows(r, p)
<1>0. /\ prevInside \in [Regions -> [Objects -> SUBSET Areas]] /\ StagedInv
  BY DEF StreamInv, AnsweredInv, StagedInv, IInv, TypeOK, EngineTypeOK
<1>1. CASE DispatcherNext
  <2>1. Refuses \/ \E o \in Objects : StepOf(o)
    BY <1>0, <1>1, DispatcherSteps DEF DispatcherStep
  <2>2. ~UNCHANGED prevInside
    OBVIOUS
  <2>3. ~Refuses
    BY <2>2 DEF Refuses, receiptFrame
  <2>4. PICK o \in Objects : StepOf(o)
    BY <2>1, <2>3
  <2>5. PICK cr \in commitResults : Closes(o, cr) \/ Confirms(o, cr)
    BY <2>2, <2>4 DEF StepOf, Registers, Takes, Queues, Declines, Submits, Fails, TakesResult,
       receiptFrame
  <2> QED
    BY <2>5, ConfirmedSnapshot
<1>2. CASE EngineNext
  <2>1. PICK s \in Regions : RemoveAreaFrom(s)
    BY <1>2 DEF EngineNext, ProcessInit, ProcessUpdate, ProcessTransition, ProcessRemove, workerFrame,
       RegisterArea, RemoveAreaStart
  <2>2. s \in sweep.left /\ \A q \in Regions : q # s => prevInside'[q] = prevInside[q]
    BY <1>0, <2>1 DEF RemoveAreaFrom
  <2> QED
    BY <2>2
<1>3. CASE PublisherNext /\ UNCHANGED <<engineVars, dispatcherVars>>
  BY <1>3 DEF engineVars
<1>4. CASE UNCHANGED vars
  BY <1>4 DEF vars, engineVars
<1> QED
  BY <1>1, <1>2, <1>3, <1>4 DEF Next

(* In one life of the process, the committed geofence snapshot of an       *)
(* object changes only by a commit that is durable with all its            *)
(* projections, and to what that commit says, or by the removal of an area *)
(* (onCommitResult applies the mutation that waited for the commit).       *)
LEMMA SnapshotFollows ==
  ASSUME StreamInv, [Next]_vars
  PROVE  SnapshotChange
BY SnapshotStep DEF Follows, SnapshotChange
=============================================================================
