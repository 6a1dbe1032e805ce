---------------------------- MODULE ServiceProofs ----------------------------
(***************************************************************************)
(* Proofs about the parts of module Service, for every value of their      *)
(* constants.                                                              *)
(*                                                                         *)
(*   The write path (Pipeline): the buffers are respected, and the         *)
(*   goroutines do not all wait for each other as long as there are no     *)
(*   more objects than the buffers hold.                                   *)
(*   The epoch of a boot (BootEpoch): no two boots reserve the same one.   *)
(*   The life of the service (ServiceLife): it closes what it opened.      *)
(*   The publishes of one object (PublishPath): with one connection, what  *)
(*   was acknowledged is recovered and a number is of one command.         *)
(*   The scans of a boot (BootScan): the latest commits are recovered and  *)
(*   their events are in the stream, once.                                 *)
(***************************************************************************)
EXTENDS Service, TLAPS, FiniteSetTheorems, NaturalsInduction, WellFoundedInduction

---------------------------------------------------------------------------
(* The write path.                                                         *)

(* Counting the objects at a place.                                        *)

LEMMA CountType ==
  ASSUME NEW S \in SUBSET Objects
  PROVE  IsFiniteSet(S) /\ Cardinality(S) \in Nat
BY PipelineAssumption, FS_Subset, FS_CardinalityType

LEMMA NonEmpty ==
  ASSUME NEW S \in SUBSET Objects, Cardinality(S) > 0
  PROVE  \E o \in Objects : o \in S
<1>1. S # {}
  BY FS_EmptySet
<1> QED
  BY <1>1

LEMMA Larger ==
  ASSUME NEW S \in SUBSET Objects, NEW T \in SUBSET S
  PROVE  Cardinality(T) <= Cardinality(S)
BY CountType, FS_Subset

LEMMA Added ==
  ASSUME NEW S \in SUBSET Objects, NEW o \in Objects
  PROVE  Cardinality(S \cup {o}) <= Cardinality(S) + 1
BY CountType, FS_AddElement

LEMMA Disjoint ==
  ASSUME NEW S \in SUBSET Objects, NEW T \in SUBSET Objects, S \cap T = {}
  PROVE  Cardinality(S \cup T) = Cardinality(S) + Cardinality(T)
<1>1. Cardinality(S \cup T) = Cardinality(S) + Cardinality(T) - Cardinality(S \cap T)
  BY CountType, FS_Union
<1>2. Cardinality(S \cap T) = 0
  BY FS_EmptySet
<1> QED
  BY <1>1, <1>2, CountType

LEMMA CapacityType ==
  /\ Capacity(Results) = ResultCap /\ ResultCap \in Nat \ {0}
  /\ Capacity(CommitCh) = CommitCap /\ CommitCap \in Nat \ {0}
  /\ Capacity(CommitResults) = CommitResultCap /\ CommitResultCap \in Nat \ {0}
  /\ \A w \in Workers : Capacity(<<"inbox", w>>) = InboxCap[w] /\ InboxCap[w] \in Nat \ {0}
BY PipelineAssumption DEF Capacity, Results, CommitCh, CommitResults

LEMMA InSubset == \A place : In(place) \in SUBSET Objects
BY DEF In

LEMMA JobsSubset == \A p : Jobs(p) \in SUBSET Objects
BY DEF Jobs, In

(* What a move does to the places.                                         *)

LEMMA Moved ==
  ASSUME NEW o \in Objects, NEW place, at \in [Objects -> Place], MoveTo(o, place),
         NEW q
  PROVE  In(q)' = IF q = place THEN In(q) \cup {o} ELSE In(q) \ {o}
BY DEF In, MoveTo

(* A move to a place leaves the capacities of all other channels alone, so *)
(* it needs room at that place only.                                       *)
LEMMA MovedBounds ==
  ASSUME NEW o \in Objects, NEW place, at \in [Objects -> Place], MoveTo(o, place),
         NEW channel \in Channels,
         Cardinality(In(channel)) <= Capacity(channel),
         place = channel => Room(channel)
  PROVE  Cardinality(In(channel)') <= Capacity(channel)
<1>1. Capacity(channel) \in Nat
  BY CapacityType DEF Channels
<1>2. Cardinality(In(channel)) \in Nat
  BY CountType, InSubset
<1>3. CASE place = channel
  <2>1. In(channel)' = In(channel) \cup {o}
    BY <1>3, Moved
  <2>2. Cardinality(In(channel) \cup {o}) <= Cardinality(In(channel)) + 1
    BY Added, InSubset
  <2>3. In(channel) \cup {o} \in SUBSET Objects
    BY InSubset
  <2>4. Cardinality(In(channel) \cup {o}) \in Nat
    BY <2>3, CountType
  <2> QED
    BY <1>1, <1>2, <1>3, <2>1, <2>2, <2>4 DEF Room
<1>4. CASE place # channel
  <2>1. In(channel)' = In(channel) \ {o}
    BY <1>4, Moved
  <2>2. Cardinality(In(channel) \ {o}) <= Cardinality(In(channel))
    BY Larger, InSubset
  <2>3. Cardinality(In(channel) \ {o}) \in Nat
    BY CountType, InSubset
  <2> QED
    BY <1>1, <1>2, <2>1, <2>2, <2>3
<1> QED
  BY <1>3, <1>4

LEMMA MovedJobs ==
  ASSUME NEW o \in Objects, NEW place, at \in [Objects -> Place], MoveTo(o, place),
         NEW p \in Pool, Cardinality(Jobs(p)) <= MaxInFlight,
         place \in {<<"publishing", p>>, <<"published", p>>} =>
           o \in Jobs(p) \/ Cardinality(Jobs(p)) < MaxInFlight
  PROVE  Cardinality(Jobs(p)') <= MaxInFlight
<1>1. Cardinality(Jobs(p)) \in Nat /\ MaxInFlight \in Nat
  BY CountType, JobsSubset, PipelineAssumption
<1>2. Jobs(p)' = In(<<"publishing", p>>)' \cup In(<<"published", p>>)'
  BY DEF Jobs
<1>3. CASE Jobs(p)' \subseteq Jobs(p)
  <2>1. Cardinality(Jobs(p)') <= Cardinality(Jobs(p))
    BY <1>3, Larger, JobsSubset
  <2>2. Cardinality(Jobs(p)') \in Nat
    BY <1>3, CountType, JobsSubset
  <2> QED
    BY <1>1, <2>1, <2>2
<1>4. CASE ~(Jobs(p)' \subseteq Jobs(p))
  <2>1. Jobs(p)' \subseteq Jobs(p) \cup {o}
    BY <1>2, Moved DEF Jobs
  <2>2. place \in {<<"publishing", p>>, <<"published", p>>} /\ o \notin Jobs(p)
    BY <1>2, <1>4, Moved DEF Jobs
  <2>3. Cardinality(Jobs(p) \cup {o}) <= Cardinality(Jobs(p)) + 1
    BY Added, JobsSubset
  <2>4. Jobs(p) \cup {o} \in SUBSET Objects
    BY JobsSubset
  <2>5. Cardinality(Jobs(p)') <= Cardinality(Jobs(p) \cup {o})
    BY <2>1, <2>4, Larger
  <2>6. Cardinality(Jobs(p)') \in Nat /\ Cardinality(Jobs(p) \cup {o}) \in Nat
    BY <2>1, <2>4, CountType
  <2> QED
    BY <1>1, <2>2, <2>3, <2>5, <2>6
<1> QED
  BY <1>3, <1>4

(* Nobody comes to a place by a move elsewhere.                            *)
LEMMA MovedAtMostOne ==
  ASSUME NEW o \in Objects, NEW place, at \in [Objects -> Place], MoveTo(o, place),
         NEW q, AtMostOne(In(q)), place = q => In(q) = {}
  PROVE  AtMostOne(In(q)')
BY Moved DEF AtMostOne

Sending == {o \in Objects : \E w \in Workers \cup {None} : at[o] = <<"hand", w>>}

LEMMA MovedSending ==
  ASSUME NEW o \in Objects, NEW place, at \in [Objects -> Place], MoveTo(o, place),
         AtMostOne(Sending),
         (\E w \in Workers \cup {None} : place = <<"hand", w>>) => DispatcherFree
  PROVE  AtMostOne(Sending')
<1>1. \A x \in Sending' : x \in Sending \/ (x = o /\ DispatcherFree)
  BY DEF Sending, MoveTo
<1>2. DispatcherFree => Sending = {}
  BY DEF DispatcherFree, Sending, In
<1> QED
  BY <1>1, <1>2 DEF AtMostOne

(* A move keeps the type invariant when the place has room for the object. *)
LEMMA MovedTypeOK ==
  ASSUME PipelineTypeOK, NEW o \in Objects, NEW place \in Place, MoveTo(o, place),
         waiting' \in [Objects -> Nat], received' \in Nat,
         \A x \in Objects : x # o => waiting'[x] = waiting[x],
         place = Rest => waiting'[o] = 0,
         place \in Channels => Room(place),
         \A w \in Workers : place = <<"working", w>> => In(place) = {},
         \A p \in Pool : place = <<"taken", p>> => In(place) = {},
         \A p \in Pool : place \in {<<"publishing", p>>, <<"published", p>>} =>
                            o \in Jobs(p) \/ Cardinality(Jobs(p)) < MaxInFlight,
         (\E w \in Workers \cup {None} : place = <<"hand", w>>) => DispatcherFree
  PROVE  PipelineTypeOK'
<1>1. at \in [Objects -> Place]
  BY DEF PipelineTypeOK
<1>2. at' \in [Objects -> Place]
  BY <1>1 DEF MoveTo
<1>3. \A channel \in Channels : Cardinality(In(channel)') <= Capacity(channel)
  BY <1>1, MovedBounds DEF PipelineTypeOK
<1>4. \A w \in Workers : AtMostOne(In(<<"working", w>>)')
  BY <1>1, MovedAtMostOne DEF PipelineTypeOK
<1>5. \A p \in Pool : AtMostOne(In(<<"taken", p>>)')
  BY <1>1, MovedAtMostOne DEF PipelineTypeOK
<1>6. \A p \in Pool : Cardinality(Jobs(p)') <= MaxInFlight
  BY <1>1, MovedJobs DEF PipelineTypeOK
<1>7. AtMostOne(Sending')
  BY <1>1, MovedSending DEF PipelineTypeOK, Sending
<1>8. \A x \in Objects : at'[x] = Rest => waiting'[x] = 0
  BY <1>1 DEF MoveTo, PipelineTypeOK
<1>9. \A channel : Capacity(channel)' = Capacity(channel)
  BY DEF Capacity
<1> QED
  BY <1>2, <1>3, <1>4, <1>5, <1>6, <1>7, <1>8, <1>9
     DEF PipelineTypeOK, Sending, AtMostOne, Channels, Results, CommitCh, CommitResults, Capacity

LEMMA PlacesOf ==
  /\ {Rest, Results, CommitCh, CommitResults} \subseteq Place
  /\ \A w \in Workers \cup {None} : <<"hand", w>> \in Place /\ Dest(w) \in Place
  /\ \A w \in Workers : {<<"inbox", w>>, <<"working", w>>} \subseteq Place
  /\ \A p \in Pool : {<<"taken", p>>, <<"publishing", p>>, <<"published", p>>} \subseteq Place
BY DEF Place, Dest, CommitCh

(* The mailbox releases its command, and another one may take its place.   *)
LEMMA NextHeadTypeOK ==
  ASSUME PipelineTypeOK, NEW o \in Objects, NextHead(o), DispatcherFree,
         UNCHANGED received
  PROVE  PipelineTypeOK'
<1>1. received' \in Nat /\ waiting \in [Objects -> Nat]
  BY DEF PipelineTypeOK
<1>2. CASE waiting' = [waiting EXCEPT ![o] = 0] /\ MoveTo(o, Rest)
  BY <1>1, <1>2, MovedTypeOK, PlacesOf
     DEF Rest, Channels, Results, CommitCh, CommitResults
<1>3. ASSUME NEW refused \in 0..(waiting[o] - 1), NEW w \in Workers \cup {None},
             waiting' = [waiting EXCEPT ![o] = @ - refused - 1],
             MoveTo(o, <<"hand", w>>)
      PROVE  PipelineTypeOK'
  <2>1. waiting' \in [Objects -> Nat]
    BY <1>1, <1>3
  <2> QED
    BY <1>1, <1>3, <2>1, MovedTypeOK, PlacesOf, DispatcherFree
       DEF Rest, Channels, Results, CommitCh, CommitResults
<1> QED
  BY <1>2, <1>3 DEF NextHead

(* The buffers are respected, whatever the numbers and sizes.              *)
THEOREM PipelineTypeCorrect == PipelineSpec => []PipelineTypeOK
<1>1. PipelineInit => PipelineTypeOK
  <2> SUFFICES ASSUME PipelineInit PROVE PipelineTypeOK
    OBVIOUS
  <2>1. \A place : place # Rest => In(place) = {}
    BY DEF In, PipelineInit
  <2>2. \A channel \in Channels : Cardinality(In(channel)) <= Capacity(channel)
    <3> TAKE channel \in Channels
    <3>1. In(channel) = {}
      BY <2>1 DEF Channels, Rest, Results, CommitCh, CommitResults
    <3> QED
      BY <3>1, FS_EmptySet, CapacityType DEF Channels
  <2>3. \A p \in Pool : Jobs(p) = {}
    BY <2>1 DEF Jobs, Rest
  <2>4. \A p \in Pool : Cardinality(Jobs(p)) <= MaxInFlight
    BY <2>3, FS_EmptySet, PipelineAssumption
  <2> QED
    BY <2>1, <2>2, <2>4, PlacesOf DEF PipelineTypeOK, PipelineInit, AtMostOne, Rest
<1>2. PipelineTypeOK /\ [PipelineNext]_pipelineVars => PipelineTypeOK'
  <2> SUFFICES ASSUME PipelineTypeOK, [PipelineNext]_pipelineVars PROVE PipelineTypeOK'
    OBVIOUS
  <2> USE PlacesOf DEF Rest, Channels, Results, CommitCh, CommitResults
  <2>0. waiting \in [Objects -> Nat] /\ received \in Nat /\ at \in [Objects -> Place]
    BY DEF PipelineTypeOK
  <2>1. ASSUME NEW o \in Objects, Receive(o) PROVE PipelineTypeOK'
    <3>1. received' \in Nat
      BY <2>0, <2>1 DEF Receive
    <3>2. CASE UNCHANGED <<at, waiting>>
      BY <3>1, <3>2 DEF PipelineTypeOK, In, Jobs, Capacity
    <3>3. CASE at[o] # Rest /\ waiting' = [waiting EXCEPT ![o] = @ + 1] /\ UNCHANGED at
      <4>1. waiting' \in [Objects -> Nat]
        BY <2>0, <3>3
      <4>2. \A x \in Objects : at'[x] = Rest => waiting'[x] = 0
        BY <2>0, <3>3 DEF PipelineTypeOK
      <4> QED
        BY <3>1, <3>3, <4>1, <4>2 DEF PipelineTypeOK, In, Jobs, Capacity
    <3>4. ASSUME at[o] = Rest, NEW w \in Workers \cup {None}, MoveTo(o, <<"hand", w>>),
                 UNCHANGED waiting
          PROVE  PipelineTypeOK'
      BY <2>0, <2>1, <3>1, <3>4, MovedTypeOK DEF Receive
    <3> QED
      BY <2>1, <3>2, <3>3, <3>4 DEF Receive
  <2>2. ASSUME NEW o \in Objects, HandOver(o) PROVE PipelineTypeOK'
    <3>1. PICK w \in Workers \cup {None} :
            Room(Dest(w)) /\ MoveTo(o, Dest(w)) /\ UNCHANGED <<waiting, received>>
      BY <2>2 DEF HandOver
    <3>2. Dest(w) = CommitCh \/ (w \in Workers /\ Dest(w) = <<"inbox", w>>)
      BY DEF Dest
    <3> QED
      BY <2>0, <3>1, <3>2, MovedTypeOK
  <2>3. ASSUME NEW o \in Objects, OnResult(o) PROVE PipelineTypeOK'
    <3>1. CASE MoveTo(o, <<"hand", None>>) /\ UNCHANGED waiting
      BY <2>0, <2>3, <3>1, MovedTypeOK DEF OnResult
    <3>2. CASE NextHead(o)
      BY <2>3, <3>2, NextHeadTypeOK DEF OnResult
    <3> QED
      BY <2>3, <3>1, <3>2 DEF OnResult
  <2>4. ASSUME NEW o \in Objects, OnCommitResult(o) PROVE PipelineTypeOK'
    BY <2>4, NextHeadTypeOK DEF OnCommitResult
  <2>5. ASSUME NEW o \in Objects, NEW w \in Workers, TakeTask(w, o) PROVE PipelineTypeOK'
    BY <2>0, <2>5, MovedTypeOK DEF TakeTask
  <2>6. ASSUME NEW o \in Objects, NEW w \in Workers, SendResult(w, o) PROVE PipelineTypeOK'
    BY <2>0, <2>6, MovedTypeOK DEF SendResult
  <2>7. ASSUME NEW o \in Objects, NEW p \in Pool, TakeEnvelope(p, o) PROVE PipelineTypeOK'
    BY <2>0, <2>7, MovedTypeOK DEF TakeEnvelope
  <2>8. ASSUME NEW o \in Objects, NEW p \in Pool, StartJob(p, o) PROVE PipelineTypeOK'
    BY <2>0, <2>8, MovedTypeOK DEF StartJob
  <2>9. ASSUME NEW o \in Objects, NEW p \in Pool, Published(p, o) PROVE PipelineTypeOK'
    <3>1. o \in Jobs(p)
      BY <2>9 DEF Published, Jobs, In
    <3> QED
      BY <2>0, <2>9, <3>1, MovedTypeOK DEF Published
  <2>10. ASSUME NEW o \in Objects, NEW p \in Pool, SendCommitResult(p, o) PROVE PipelineTypeOK'
    BY <2>0, <2>10, MovedTypeOK DEF SendCommitResult
  <2>11. CASE UNCHANGED pipelineVars
    BY <2>11 DEF PipelineTypeOK, In, Jobs, Capacity, pipelineVars
  <2> QED
    BY <2>1, <2>2, <2>3, <2>4, <2>5, <2>6, <2>7, <2>8, <2>9, <2>10, <2>11
       DEF PipelineNext, Step, DispatcherStep, WorkerStep, PublisherStep
<1> QED
  BY <1>1, <1>2, PTL DEF PipelineSpec

(* No more objects than fit between the dispatcher and a worker that waits *)
(* for it, nor between the dispatcher and a publisher worker: one in the   *)
(* dispatcher's hand, those in the full channels both ways, and one more   *)
(* or a worker's jobs between the channels.                                *)
Fits ==
  /\ \A w \in Workers : Cardinality(Objects) <= InboxCap[w] + ResultCap + 1
  /\ Cardinality(Objects) <= CommitCap + CommitResultCap + MaxInFlight + 1

LEMMA FullIsNotEmpty ==
  ASSUME NEW channel \in Channels, ~Room(channel)
  PROVE  \E o \in Objects : at[o] = channel
<1>1. Capacity(channel) \in Nat \ {0}
  BY CapacityType DEF Channels
<1>2. Cardinality(In(channel)) > 0
  BY <1>1, CountType, InSubset DEF Room
<1> QED
  BY <1>2, NonEmpty, InSubset DEF In

(* Two full places, one object more and the one in the dispatcher's hand   *)
(* are more objects than fit.                                              *)
LEMMA TooMany ==
  ASSUME NEW x \in Objects, NEW A \in SUBSET Objects, NEW B \in SUBSET Objects,
         NEW C \in SUBSET Objects, NEW a \in Nat, NEW b \in Nat, NEW c \in Nat,
         Cardinality(A) >= a, Cardinality(B) >= b, Cardinality(C) >= c,
         x \notin A \cup B \cup C, A \cap B = {}, (A \cup B) \cap C = {}
  PROVE  Cardinality(Objects) >= a + b + c + 1
<1>1. Cardinality(A \cup B) = Cardinality(A) + Cardinality(B)
  BY Disjoint
<1>2. Cardinality((A \cup B) \cup C) = Cardinality(A \cup B) + Cardinality(C)
  BY Disjoint
<1>3. Cardinality({x}) = 1
  BY FS_Singleton
<1>4. Cardinality((A \cup B \cup C) \cup {x}) = Cardinality(A \cup B \cup C) + Cardinality({x})
  <2>1. (A \cup B \cup C) \cap {x} = {}
    OBVIOUS
  <2> QED
    BY <2>1, Disjoint
<1>5. Cardinality((A \cup B \cup C) \cup {x}) <= Cardinality(Objects)
  BY Larger
<1>6. /\ Cardinality(A) \in Nat /\ Cardinality(B) \in Nat /\ Cardinality(C) \in Nat
      /\ Cardinality(Objects) \in Nat
  BY CountType
<1> QED
  BY <1>1, <1>2, <1>3, <1>4, <1>5, <1>6

(* When nothing can move and the dispatcher is free, nothing is in flight. *)
LEMMA FreeDispatcherGoesOn ==
  ASSUME PipelineTypeOK, DispatcherFree, NEW o \in Objects, at[o] # Rest
  PROVE  \E x \in Objects : Ready(x)
<1> SUFFICES ASSUME \A x \in Objects : ~Ready(x) PROVE FALSE
  OBVIOUS
<1> USE DEF Results, CommitCh, CommitResults
<1>1. \A x \in Objects : at[x] # Results /\ at[x] # CommitResults
  BY DEF Ready
<1>2. Room(Results) /\ Room(CommitResults)
  BY <1>1, FullIsNotEmpty DEF Channels
<1>3. \A w \in Workers, x \in Objects : at[x] # <<"working", w>>
  BY <1>2 DEF Ready
<1>4. \A w \in Workers, x \in Objects : at[x] # <<"inbox", w>>
  BY <1>3 DEF Ready, In
<1>5. \A p \in Pool, x \in Objects : at[x] # <<"publishing", p>> /\ at[x] # <<"published", p>>
  BY <1>2 DEF Ready
<1>6. \A p \in Pool, x \in Objects : at[x] # <<"taken", p>>
  <2> SUFFICES ASSUME NEW p \in Pool, NEW x \in Objects, at[x] = <<"taken", p>> PROVE FALSE
    OBVIOUS
  <2>1. Jobs(p) = {}
    BY <1>5 DEF Jobs, In
  <2>2. Cardinality(Jobs(p)) < MaxInFlight
    BY <2>1, FS_EmptySet, PipelineAssumption
  <2> QED
    BY <2>2 DEF Ready
<1>7. \A x \in Objects : at[x] # CommitCh
  BY <1>6, PipelineAssumption DEF Ready, In
<1>8. \A w \in Workers \cup {None} : at[o] # <<"hand", w>>
  BY DEF DispatcherFree, In
<1>9. at[o] \in Place
  BY DEF PipelineTypeOK
<1> QED
  BY <1>1, <1>3, <1>4, <1>5, <1>6, <1>7, <1>8, <1>9 DEF Place

(* The dispatcher waits for a worker that does not wait for it.            *)
LEMMA WorkerGoesOn ==
  ASSUME Fits, NEW w \in Workers, NEW o \in Objects, at[o] = <<"hand", w>>
  PROVE  \E x \in Objects : Ready(x)
<1> SUFFICES ASSUME \A x \in Objects : ~Ready(x) PROVE FALSE
  OBVIOUS
<1>1. ~Room(<<"inbox", w>>)
  BY PipelineAssumption DEF Ready, Dest
<1>2. PICK x \in Objects : at[x] = <<"inbox", w>>
  BY <1>1, FullIsNotEmpty DEF Channels
<1>3. PICK y \in Objects : at[y] = <<"working", w>>
  BY <1>2 DEF Ready, In
<1>4. ~Room(Results)
  BY <1>3 DEF Ready
<1>5. /\ Cardinality(In(<<"inbox", w>>)) >= InboxCap[w] /\ InboxCap[w] \in Nat
      /\ Cardinality(In(Results)) >= ResultCap /\ ResultCap \in Nat
  BY <1>1, <1>4, CapacityType, CountType, InSubset DEF Room
<1>6. Cardinality({y}) = 1
  BY FS_Singleton
<1>7. /\ o \notin In(<<"inbox", w>>) \cup In(Results) \cup {y}
      /\ In(<<"inbox", w>>) \cap In(Results) = {}
      /\ (In(<<"inbox", w>>) \cup In(Results)) \cap {y} = {}
  BY <1>3 DEF In, Results
<1>8. Cardinality(Objects) >= InboxCap[w] + ResultCap + 1 + 1
  <2> DEFINE A == In(<<"inbox", w>>)
  <2> DEFINE B == In(Results)
  <2>1. /\ A \in SUBSET Objects /\ B \in SUBSET Objects /\ {y} \in SUBSET Objects
        /\ Cardinality({y}) >= 1 /\ 1 \in Nat
    BY <1>6, InSubset
  <2> HIDE DEF A, B
  <2> QED
    BY <1>5, <1>7, <2>1, TooMany DEF A, B
<1> QED
  BY <1>5, <1>8, CountType DEF Fits

(* The dispatcher waits for a publisher that does not wait for it.         *)
LEMMA PublisherGoesOn ==
  ASSUME Fits, NEW o \in Objects, at[o] = <<"hand", None>>
  PROVE  \E x \in Objects : Ready(x)
<1> SUFFICES ASSUME \A x \in Objects : ~Ready(x) PROVE FALSE
  OBVIOUS
<1>1. ~Room(CommitCh)
  BY DEF Ready, Dest
<1>2. PICK p \in Pool : TRUE
  BY PipelineAssumption
<1>3. PICK x \in Objects : at[x] = CommitCh
  BY <1>1, FullIsNotEmpty DEF Channels
<1>4. PICK y \in Objects : at[y] = <<"taken", p>>
  BY <1>3 DEF Ready, In
<1>5. Jobs(p) \in SUBSET Objects /\ Cardinality(Jobs(p)) \in Nat
  BY CountType, JobsSubset
<1>6. MaxInFlight \in Nat \ {0} /\ Cardinality(Jobs(p)) >= MaxInFlight
  <2>1. ~(Cardinality(Jobs(p)) < MaxInFlight)
    BY <1>4 DEF Ready
  <2> QED
    BY <1>5, <2>1, PipelineAssumption
<1>7. Cardinality(Jobs(p)) > 0
  BY <1>5, <1>6
<1>8. PICK z \in Objects : z \in Jobs(p)
  BY <1>5, <1>7, NonEmpty
<1>9. at[z] = <<"published", p>>
  BY <1>8 DEF Ready, Jobs, In
<1>10. ~Room(CommitResults)
  BY <1>9 DEF Ready
<1>11. /\ Cardinality(In(CommitCh)) >= CommitCap /\ CommitCap \in Nat
       /\ Cardinality(In(CommitResults)) >= CommitResultCap /\ CommitResultCap \in Nat
  BY <1>1, <1>10, CapacityType, CountType, InSubset DEF Room
<1>12. /\ o \notin In(CommitCh) \cup In(CommitResults) \cup (Jobs(p) \cup {y})
       /\ In(CommitCh) \cap In(CommitResults) = {}
       /\ (In(CommitCh) \cup In(CommitResults)) \cap (Jobs(p) \cup {y}) = {}
       /\ Jobs(p) \cap {y} = {}
  BY <1>4 DEF In, Jobs, CommitCh, CommitResults
<1>13. Cardinality(Jobs(p) \cup {y}) >= MaxInFlight + 1
  <2>1. Cardinality({y}) = 1
    BY FS_Singleton
  <2>2. Cardinality(Jobs(p) \cup {y}) = Cardinality(Jobs(p)) + Cardinality({y})
    BY <1>5, <1>12, Disjoint
  <2> QED
    BY <1>5, <1>6, <2>1, <2>2
<1>14. Cardinality(Objects) >= CommitCap + CommitResultCap + (MaxInFlight + 1) + 1
  <2>1. Jobs(p) \cup {y} \in SUBSET Objects /\ MaxInFlight + 1 \in Nat
    BY <1>5, <1>6
  <2> HIDE DEF Fits
  <2> QED
    BY <1>11, <1>12, <1>13, <2>1, TooMany, InSubset
<1> QED
  BY <1>6, <1>11, <1>14, CountType DEF Fits

(* With no more objects than fit, the write path never comes to a stop: as *)
(* long as a command is in flight some goroutine can go on.                *)
THEOREM BuffersSuffice ==
  ASSUME Fits
  PROVE  PipelineSpec => []NeverStuck
<1>1. PipelineTypeOK => NeverStuck
  <2> SUFFICES ASSUME PipelineTypeOK, NEW o \in Objects, at[o] # Rest
               PROVE  \E x \in Objects : Ready(x)
    BY DEF NeverStuck
  <2>1. CASE DispatcherFree
    BY <2>1, FreeDispatcherGoesOn
  <2>2. CASE ~DispatcherFree
    <3>1. PICK x \in Objects, w \in Workers \cup {None} : at[x] = <<"hand", w>>
      BY <2>2 DEF DispatcherFree, In
    <3>2. CASE w \in Workers
      BY <3>1, <3>2, WorkerGoesOn
    <3>3. CASE w = None
      BY <3>1, <3>3, PublisherGoesOn
    <3> QED
      BY <3>1, <3>2, <3>3
  <2> QED
    BY <2>1, <2>2
<1> QED
  BY <1>1, PipelineTypeCorrect, PTL

---------------------------------------------------------------------------
(* The epoch of a boot.                                                    *)

(* What a publish on its way and a boot that waits know of the stream: a   *)
(* marker names the sequence after the one it expects, and that one has    *)
(* existed.                                                                *)
Reserved ==
  /\ \A pub \in wire : pub.epoch = pub.expects + 1
  /\ \A p \in Procs : boot[p].last <= Len(stream)

EpochInv == EpochTypeOK /\ Reserved /\ MarkersNameThemselves

(* A marker that is stored where it expects names its own place, and what  *)
(* was stored before stays where it is.                                    *)
LEMMA StoredMarker ==
  ASSUME EpochInv, NEW pub \in Publish, pub.epoch = pub.expects + 1,
         Accepts(pub), Stored(pub)
  PROVE  /\ stream' \in Seq(Message)
         /\ Len(stream') = Len(stream) + 1
         /\ \A i \in DOMAIN stream : stream'[i] = stream[i]
         /\ stream'[Len(stream) + 1].by = pub.by
         /\ \A i \in DOMAIN stream' : stream'[i].by # Other => stream'[i].epoch = i
<1> DEFINE msg == [by |-> pub.by, epoch |-> pub.epoch]
<1>1. stream \in Seq(Message) /\ msg \in Message
  BY DEF EpochInv, EpochTypeOK, Publish, Message
<1>2. stream' = Append(stream, msg)
  BY DEF Stored
<1>3. /\ stream' \in Seq(Message)
      /\ Len(stream') = Len(stream) + 1
      /\ \A i \in DOMAIN stream : stream'[i] = stream[i]
      /\ stream'[Len(stream) + 1] = msg
      /\ DOMAIN stream' = 1..(Len(stream) + 1)
      /\ DOMAIN stream = 1..Len(stream)
      /\ Len(stream) \in Nat
  <2> HIDE DEF msg
  <2> QED BY <1>1, <1>2
<1>4. msg.by = pub.by /\ msg.epoch = Len(stream) + 1
  BY DEF Accepts
<1>5. \A i \in DOMAIN stream : stream[i].by # Other => stream[i].epoch = i
  BY DEF EpochInv, MarkersNameThemselves
<1> HIDE DEF msg
<1>6. ASSUME NEW i \in DOMAIN stream', stream'[i].by # Other
      PROVE  stream'[i].epoch = i
  <2>1. CASE i = Len(stream) + 1
    BY <1>3, <1>4, <2>1
  <2>2. CASE i # Len(stream) + 1
    <3>1. i \in DOMAIN stream
      BY <1>3, <1>6, <2>2
    <3> QED BY <1>3, <1>5, <1>6, <3>1
  <2> QED BY <2>1, <2>2
<1> QED BY <1>3, <1>4, <1>6

(* While the stream only grows and no boot is new, the boots that are done *)
(* keep their markers.                                                     *)
LEMMA DoneBootsStay ==
  ASSUME EpochInv, NEW p \in Procs, boot'[p] = boot[p], boot[p].at = "done",
         \A i \in DOMAIN stream : i \in DOMAIN stream' /\ stream'[i] = stream[i]
  PROVE  boot'[p].epoch \in DOMAIN stream' /\ stream'[boot'[p].epoch].by = p
BY DEF EpochInv, MarkersNameThemselves

LEMMA EpochInit_Inv == ASSUME EpochInit PROVE EpochInv
<1>1. EpochTypeOK
  BY EpochAssumption DEF EpochInit, EpochTypeOK, Boot
<1>2. Reserved
  BY DEF EpochInit, Reserved
<1>3. MarkersNameThemselves
  BY DEF EpochInit, MarkersNameThemselves
<1> QED BY <1>1, <1>2, <1>3 DEF EpochInv

LEMMA OtherMessage_Inv == ASSUME EpochInv, OtherMessage PROVE EpochInv'
<1> DEFINE msg == [by |-> Other, epoch |-> 0]
<1>1. stream \in Seq(Message) /\ msg \in Message
  BY DEF EpochInv, EpochTypeOK, Message
<1>2. stream' = Append(stream, msg) /\ wire' = wire /\ boot' = boot /\ faults' = faults
  BY DEF OtherMessage
<1>3. msg.by = Other
  OBVIOUS
<1> HIDE DEF msg
<1>4. /\ stream' \in Seq(Message)
      /\ Len(stream') = Len(stream) + 1
      /\ \A i \in DOMAIN stream : i \in DOMAIN stream' /\ stream'[i] = stream[i]
      /\ stream'[Len(stream) + 1] = msg
      /\ DOMAIN stream' = 1..(Len(stream) + 1)
      /\ DOMAIN stream = 1..Len(stream)
      /\ Len(stream) \in Nat
  BY <1>1, <1>2
<1>5. EpochTypeOK'
  <2>1. \A pub \in wire' : pub.expects \in Nat /\ pub.expects <= Len(stream')
    BY <1>2, <1>4 DEF EpochInv, EpochTypeOK, Publish
  <2>2. others' \in 0..MaxOthers
    BY EpochAssumption DEF OtherMessage, EpochInv, EpochTypeOK
  <2> QED BY <1>2, <1>4, <2>1, <2>2 DEF EpochInv, EpochTypeOK
<1>6. Reserved'
  <2>1. \A p \in Procs : boot[p].last \in Nat
    BY DEF EpochInv, EpochTypeOK, Boot
  <2> QED BY <1>2, <1>4, <2>1 DEF EpochInv, Reserved
<1>7. MarkersNameThemselves'
  <2>1. ASSUME NEW i \in DOMAIN stream', stream'[i].by # Other
        PROVE  stream'[i].epoch = i
    <3>1. i # Len(stream) + 1
      BY <1>3, <1>4, <2>1
    <3>2. i \in DOMAIN stream
      BY <1>4, <2>1, <3>1
    <3> QED BY <1>4, <2>1, <3>2 DEF EpochInv, MarkersNameThemselves
  <2>2. ASSUME NEW p \in Procs, boot'[p].at = "done"
        PROVE  boot'[p].epoch \in DOMAIN stream' /\ stream'[boot'[p].epoch].by = p
    BY <1>2, <1>4, <2>2, DoneBootsStay
  <2> QED BY <2>1, <2>2 DEF MarkersNameThemselves
<1> QED BY <1>5, <1>6, <1>7 DEF EpochInv

(* Steps that leave the stream alone and end no boot.                      *)
LEMMA QuietStep_Inv ==
  ASSUME EpochInv, UNCHANGED <<stream, others>>,
         faults' \in 0..MaxFaults,
         boot' \in [Procs -> Boot],
         \A p \in Procs : boot'[p].last <= Len(stream),
         \A p \in Procs : boot'[p].at = "done" => boot'[p] = boot[p],
         wire' \subseteq Publish,
         \A pub \in wire' : pub.expects <= Len(stream) /\ pub.epoch = pub.expects + 1
  PROVE  EpochInv'
<1>1. EpochTypeOK'
  BY DEF EpochInv, EpochTypeOK
<1>2. Reserved'
  BY DEF Reserved
<1>3. MarkersNameThemselves'
  BY DEF EpochInv, MarkersNameThemselves
<1> QED BY <1>1, <1>2, <1>3 DEF EpochInv

LEMMA ReadInfo_Inv ==
  ASSUME EpochInv, NEW p \in Procs, ReadInfo(p) PROVE EpochInv'
<1>1. Len(stream) \in Nat
  BY DEF EpochInv, EpochTypeOK
<1>2. boot' \in [Procs -> Boot]
  BY <1>1 DEF ReadInfo, EpochInv, EpochTypeOK, Boot
<1>3. \A q \in Procs : boot'[q].last <= Len(stream)
  BY <1>1 DEF ReadInfo, EpochInv, EpochTypeOK, Boot, Reserved
<1>4. \A q \in Procs : boot'[q].at = "done" => boot'[q] = boot[q]
  BY DEF ReadInfo, EpochInv, EpochTypeOK, Boot
<1> QED
  BY <1>2, <1>3, <1>4, QuietStep_Inv DEF ReadInfo, EpochInv, EpochTypeOK, Reserved

LEMMA PublishMarker_Inv ==
  ASSUME EpochInv, NEW p \in Procs, PublishMarker(p) PROVE EpochInv'
<1>1. boot' \in [Procs -> Boot]
  BY DEF PublishMarker, EpochInv, EpochTypeOK, Boot
<1>2. \A q \in Procs : boot'[q].last <= Len(stream)
  BY DEF PublishMarker, EpochInv, EpochTypeOK, Boot, Reserved
<1>3. \A q \in Procs : boot'[q].at = "done" => boot'[q] = boot[q]
  BY DEF PublishMarker, EpochInv, EpochTypeOK, Boot
<1>4. /\ Marker(p) \in Publish
      /\ Marker(p).expects <= Len(stream)
      /\ Marker(p).epoch = Marker(p).expects + 1
  BY DEF Marker, EpochInv, EpochTypeOK, Boot, Publish, Reserved
<1> QED
  BY <1>1, <1>2, <1>3, <1>4, QuietStep_Inv
  DEF PublishMarker, EpochInv, EpochTypeOK, Reserved

LEMMA Timeout_Inv ==
  ASSUME EpochInv, NEW p \in Procs, Timeout(p) PROVE EpochInv'
<1>1. boot' \in [Procs -> Boot]
  BY DEF Timeout, Unanswered, Again, EpochInv, EpochTypeOK, Boot
<1>2. \A q \in Procs : boot'[q].last <= Len(stream)
  BY DEF Timeout, Unanswered, Again, EpochInv, EpochTypeOK, Boot, Reserved
<1>3. \A q \in Procs : boot'[q].at = "done" => boot'[q] = boot[q]
  BY DEF Timeout, Unanswered, Again, EpochInv, EpochTypeOK, Boot
<1>4. faults' \in 0..MaxFaults
  BY EpochAssumption DEF Timeout, EpochInv, EpochTypeOK
<1> QED
  BY <1>1, <1>2, <1>3, <1>4, QuietStep_Inv
  DEF Timeout, EpochInv, EpochTypeOK, Reserved

(* A publish arrives and is stored; its boot learns of it or not.          *)
LEMMA StoreStep_Inv ==
  ASSUME EpochInv, NEW pub \in wire, Accepts(pub), Stored(pub),
         wire' = wire \ {pub}, UNCHANGED others, faults' \in 0..MaxFaults,
         \/ boot' = boot
         \/ boot' = [boot EXCEPT ![pub.by] = Done(pub.by, Len(stream) + 1)]
  PROVE  EpochInv'
<1>1. pub \in Publish /\ pub.epoch = pub.expects + 1 /\ pub.by \in Procs
  BY DEF EpochInv, EpochTypeOK, Reserved, Publish
<1>2. /\ stream' \in Seq(Message)
      /\ Len(stream') = Len(stream) + 1
      /\ \A i \in DOMAIN stream : stream'[i] = stream[i]
      /\ stream'[Len(stream) + 1].by = pub.by
      /\ \A i \in DOMAIN stream' : stream'[i].by # Other => stream'[i].epoch = i
  BY <1>1, StoredMarker
<1>3. /\ Len(stream) \in Nat
      /\ DOMAIN stream = 1..Len(stream)
      /\ DOMAIN stream' = 1..(Len(stream) + 1)
  BY <1>2 DEF EpochInv, EpochTypeOK
<1>4. boot \in [Procs -> Boot]
  BY DEF EpochInv, EpochTypeOK
<1> DEFINE done == Done(pub.by, Len(stream) + 1)
<1>11. done \in Boot /\ done.last = boot[pub.by].last /\ done.epoch = Len(stream) + 1
  <2> DEFINE old == boot[pub.by]
  <2>1. old \in Boot /\ Len(stream) + 1 \in Nat
    BY <1>1, <1>3, <1>4
  <2>2. done = [old EXCEPT !.at = "done", !.epoch = Len(stream) + 1]
    BY DEF Done
  <2> HIDE DEF old, done
  <2>3. done \in Boot /\ done.last = old.last /\ done.epoch = Len(stream) + 1
    BY <2>1, <2>2 DEF Boot
  <2> QED BY <2>3 DEF old
<1>12. \A q \in Procs : boot[q].last \in Nat
  BY <1>4 DEF Boot
<1>13. boot' = boot \/ boot' = [boot EXCEPT ![pub.by] = done]
  OBVIOUS
<1> HIDE DEF done
<1>5. boot' \in [Procs -> Boot]
  BY <1>1, <1>4, <1>11, <1>13
<1>6. \A q \in Procs : boot'[q].last = boot[q].last /\ boot[q].last \in Nat
  BY <1>1, <1>4, <1>11, <1>12, <1>13
<1>7. EpochTypeOK'
  <2>1. \A other \in wire' : other.expects \in Nat /\ other.expects <= Len(stream')
    BY <1>2, <1>3 DEF EpochInv, EpochTypeOK, Publish
  <2> QED BY <1>2, <1>5, <2>1 DEF EpochInv, EpochTypeOK
<1>8. Reserved'
  <2>1. \A q \in Procs : boot'[q].last <= Len(stream')
    BY <1>2, <1>3, <1>6 DEF EpochInv, Reserved
  <2> QED BY <2>1 DEF EpochInv, Reserved
<1>9. ASSUME NEW q \in Procs, boot'[q].at = "done"
      PROVE  boot'[q].epoch \in DOMAIN stream' /\ stream'[boot'[q].epoch].by = q
  <2>1. CASE boot'[q] = boot[q]
    BY <1>2, <1>3, <1>9, <2>1, DoneBootsStay
  <2>2. CASE boot'[q] # boot[q]
    <3>1. q = pub.by /\ boot'[q].epoch = Len(stream) + 1
      BY <1>1, <1>4, <1>11, <1>13, <2>2
    <3> QED BY <1>2, <1>3, <3>1
  <2> QED BY <2>1, <2>2
<1>10. MarkersNameThemselves'
  BY <1>2, <1>9 DEF MarkersNameThemselves
<1> QED BY <1>7, <1>8, <1>10 DEF EpochInv

LEMMA Answer_Inv ==
  ASSUME EpochInv, NEW p \in Procs, Answer(p) PROVE EpochInv'
<1>1. Marker(p) \in wire /\ Marker(p).by = p
  BY DEF Answer, Marker
<1>2. CASE Accepts(Marker(p))
  <2>1. Stored(Marker(p)) /\ boot' = [boot EXCEPT ![p] = Done(p, Len(stream) + 1)]
    BY <1>2 DEF Answer
  <2>2. faults' \in 0..MaxFaults
    BY DEF Answer, EpochInv, EpochTypeOK
  <2> QED BY <1>1, <1>2, <2>1, <2>2, StoreStep_Inv DEF Answer
<1>3. CASE ~Accepts(Marker(p))
  <2>1. UNCHANGED stream /\ boot' = [boot EXCEPT ![p] = Again(p)]
    BY <1>3 DEF Answer
  <2>2. boot' \in [Procs -> Boot]
    BY <2>1 DEF Again, EpochInv, EpochTypeOK, Boot
  <2>3. \A q \in Procs : boot'[q].last <= Len(stream)
    BY <2>1 DEF Again, EpochInv, EpochTypeOK, Boot, Reserved
  <2>4. \A q \in Procs : boot'[q].at = "done" => boot'[q] = boot[q]
    BY <2>1 DEF Again, EpochInv, EpochTypeOK, Boot
  <2> QED
    BY <2>1, <2>2, <2>3, <2>4, QuietStep_Inv
    DEF Answer, EpochInv, EpochTypeOK, Reserved
<1> QED BY <1>2, <1>3

(* A publish is lost or not stored.                                        *)
LEMMA DropStep_Inv ==
  ASSUME EpochInv, NEW pub \in wire, wire' = wire \ {pub},
         UNCHANGED <<stream, boot, others>>, faults' \in 0..MaxFaults
  PROVE  EpochInv'
BY QuietStep_Inv DEF EpochInv, EpochTypeOK, Reserved

LEMMA LateArrival_Inv ==
  ASSUME EpochInv, NEW pub \in wire, LateArrival(pub) PROVE EpochInv'
<1>1. /\ wire' = wire \ {pub}
      /\ boot' = boot
      /\ UNCHANGED others
      /\ faults' \in 0..MaxFaults
  BY DEF LateArrival, EpochInv, EpochTypeOK
<1>2. CASE Accepts(pub) /\ Stored(pub)
  BY <1>1, <1>2, StoreStep_Inv
<1>3. CASE UNCHANGED stream
  BY <1>1, <1>3, DropStep_Inv
<1> QED BY <1>2, <1>3 DEF LateArrival

LEMMA Lost_Inv ==
  ASSUME EpochInv, NEW p \in Procs, Lost(p) PROVE EpochInv'
<1>1. /\ Marker(p) \in wire
      /\ wire' = wire \ {Marker(p)}
      /\ boot' = boot
      /\ UNCHANGED others
  BY DEF Lost
<1>2. faults' \in 0..MaxFaults
  BY EpochAssumption DEF Lost, EpochInv, EpochTypeOK
<1>3. CASE Accepts(Marker(p)) /\ Stored(Marker(p))
  BY <1>1, <1>2, <1>3, StoreStep_Inv
<1>4. CASE UNCHANGED stream
  BY <1>1, <1>2, <1>4, DropStep_Inv
<1> QED BY <1>3, <1>4 DEF Lost

LEMMA EpochNext_Inv == ASSUME EpochInv, [EpochNext]_epochVars PROVE EpochInv'
<1>1. CASE UNCHANGED epochVars
  <2>1. EpochTypeOK' BY <1>1 DEF EpochInv, EpochTypeOK, epochVars
  <2>2. Reserved' BY <1>1 DEF EpochInv, Reserved, epochVars
  <2>3. MarkersNameThemselves' BY <1>1 DEF EpochInv, MarkersNameThemselves, epochVars
  <2> QED BY <2>1, <2>2, <2>3 DEF EpochInv
<1>2. CASE OtherMessage
  BY <1>2, OtherMessage_Inv
<1>3. ASSUME NEW p \in Procs, BootStep(p) PROVE EpochInv'
  BY <1>3, ReadInfo_Inv, PublishMarker_Inv, Answer_Inv, Timeout_Inv DEF BootStep
<1>4. ASSUME NEW p \in Procs, Lost(p) PROVE EpochInv'
  BY <1>4, Lost_Inv
<1>5. ASSUME NEW pub \in wire, LateArrival(pub) PROVE EpochInv'
  BY <1>5, LateArrival_Inv
<1> QED BY <1>1, <1>2, <1>3, <1>4, <1>5 DEF EpochNext

LEMMA EpochInvariance == EpochSpec => []EpochInv
<1>1. EpochInit => EpochInv
  BY EpochInit_Inv
<1>2. EpochInv /\ [EpochNext]_epochVars => EpochInv'
  BY EpochNext_Inv
<1> QED BY <1>1, <1>2, PTL DEF EpochSpec

(* The types of the boots, and no publish expects a sequence that has not  *)
(* been (stream.go, the LastSeq read before it).                           *)
THEOREM EpochTypeCorrect == EpochSpec => []EpochTypeOK
<1>1. EpochInv => EpochTypeOK
  BY DEF EpochInv
<1> QED BY <1>1, EpochInvariance, PTL

(* Every marker is at the sequence it names, and a boot that is done has a *)
(* marker of its own, whoever else writes or boots and whatever publishes  *)
(* are stored unnoticed (stream.go, PublishBooted).                        *)
THEOREM MarkersAreInPlace == EpochSpec => []MarkersNameThemselves
<1>1. EpochInv => MarkersNameThemselves
  BY DEF EpochInv
<1> QED BY <1>1, EpochInvariance, PTL

(* No two boots reserve the same epoch, so the instance IDs that are built *)
(* from it (ids.go, NewInstanceID) cannot meet.                            *)
THEOREM UniqueEpochs == EpochSpec => []EpochsAreUnique
<1>1. EpochInv => EpochsAreUnique
  BY DEF EpochInv, MarkersNameThemselves, EpochsAreUnique
<1> QED BY <1>1, EpochInvariance, PTL

---------------------------------------------------------------------------
(* The life of the service.                                                *)

(* What the service has open is what it remembers, and nothing before it   *)
(* has connected or once it has closed what it owns.                       *)
LifeInv ==
  /\ run = [at |-> run.at, opened |-> run.opened, failed |-> run.failed]
  /\ caller = [at |-> caller.at, service |-> caller.service, err |-> caller.err]
  /\ conns \subseteq publisherNCs \cup {0}
  /\ run.at \in {"none", "err", "done", "ended"} => conns = {}
  /\ caller.at = "new" => run.at = "none"
  /\ chDone => run.at = "ended"

LEMMA LifeInit_Inv == ASSUME Life!LifeInit PROVE LifeInv
BY DEF Life!LifeInit, LifeInv

LEMMA LifeStep == ASSUME LifeInv, [Life!LifeNext]_Life!lifeVars PROVE LifeInv'
<1> USE DEF LifeInv
<1>0. CASE UNCHANGED Life!lifeVars
  BY <1>0 DEF Life!lifeVars
<1>1. CASE Life!Cancel
  BY <1>1 DEF Life!Cancel
<1>2. CASE Life!RunNATSServer
  BY <1>2 DEF Life!RunNATSServer
<1>3. CASE Life!New
  BY <1>3 DEF Life!New
<1>4. CASE Life!Boot
  BY <1>4 DEF Life!Boot, Life!Fails, Life!callerVars
<1>5. CASE Life!OpenPublisherBackend
  BY <1>5 DEF Life!OpenPublisherBackend, Life!AfterOpenError, Life!Forgotten, Life!Fails, Life!callerVars
<1>6. CASE Life!Start
  BY <1>6 DEF Life!Start, Life!callerVars
<1>7. CASE Life!StartHandlers
  BY <1>7 DEF Life!StartHandlers, Life!Fails, Life!callerVars
<1>8. CASE Life!DispatcherRun
  BY <1>8 DEF Life!DispatcherRun, Life!callerVars
<1>9. CASE Life!closeOwnedConnections
  BY <1>9 DEF Life!closeOwnedConnections, Life!Owned, Life!callerVars
<1>10. CASE Life!finish
  BY <1>10 DEF Life!finish, Life!FinishStep, Life!FinishOrder, Life!Closed, Life!callerVars
<1>11. CASE Life!RunGeoTruth
  BY <1>11 DEF Life!RunGeoTruth, Life!Returns
<1>12. CASE Life!RunLocalStackFails
  BY <1>12 DEF Life!RunLocalStackFails, Life!StopStack
<1>13. CASE Life!Shutdown
  BY <1>13 DEF Life!Shutdown
<1> QED
  BY <1>0, <1>1, <1>2, <1>3, <1>4, <1>5, <1>6, <1>7, <1>8, <1>9, <1>10, <1>11, <1>12, <1>13
     DEF Life!LifeNext, Life!RunStep, Life!CallerStep

LEMMA LifeInvariant == ServiceSpec => [](part = "life" => LifeInv)
<1>1. ServiceInit => (part = "life" => LifeInv)
  BY LifeInit_Inv DEF ServiceInit
<1>2. (part = "life" => LifeInv) /\ [ServiceNext]_serviceVars => (part = "life" => LifeInv)'
  <2> SUFFICES ASSUME part = "life" => LifeInv, [ServiceNext]_serviceVars, part' = "life"
               PROVE  LifeInv'
    OBVIOUS
  <2>1. part = "life" /\ [Life!LifeNext]_Life!lifeVars
    BY DEF ServiceNext, serviceVars, lifeVars, Life!lifeVars
  <2> QED
    BY <2>1, LifeStep
<1> QED
  BY <1>1, <1>2, PTL DEF ServiceSpec

(* A service that is done has closed every connection it has opened,       *)
(* wherever it failed or was cancelled (geotruth.go, openPublisherBackends *)
(* and closeOwnedConnections).                                             *)
THEOREM ConnectionsAreClosed == ServiceSpec => []NoConnectionLeft
<1>1. (part = "life" => LifeInv) => NoConnectionLeft
  BY DEF NoConnectionLeft, LifeInv, Life!NoConnectionLeft
<1> QED
  BY <1>1, LifeInvariant, PTL

---------------------------------------------------------------------------
(* The publishes of one object.                                            *)

(* A message of a commit that is counted, or of the one in flight.         *)
Accounted(m) ==
  \/ m.seq <= number
  \/ job # None /\ m.seq = job.seq /\ m.cmd = job.cmd

(* What is still on its way may arrive at any time, but it is accounted    *)
(* for, and so is what a restart would recover.  A message stored earlier  *)
(* need not be: a restart may have lowered the number.                     *)
WrittenIsAccounted ==
  \A c \in Conns : \A i \in DOMAIN pathWire[c] :
    Accounted(pathWire[c][i]) /\ pathWire[c][i].attempt \in 1..attempts

LastIsAccounted == pathStream # <<>> => Accounted(Path!Last(pathStream))

JobIsNext == job # None => job.seq = number + 1 /\ job.seq <= commands

Holds(seq, cmd) ==
  \E i \in DOMAIN pathStream : pathStream[i].seq = seq /\ pathStream[i].cmd = cmd

(* The attempt that waits is the job's own, and acknowledged only when the *)
(* job is stored.                                                          *)
AttemptIsOfJob ==
  job # None /\ job.state = "wait" =>
    /\ job.attempt \in acks => Holds(job.seq, job.cmd)
    /\ \A c \in Conns : \A i \in DOMAIN pathWire[c] :
         pathWire[c][i].attempt = job.attempt =>
           pathWire[c][i].seq = job.seq /\ pathWire[c][i].cmd = job.cmd

PathInv ==
  /\ Path!PathTypeOK
  /\ WrittenIsAccounted /\ LastIsAccounted
  /\ JobIsNext /\ AttemptIsOfJob
  /\ Path!AckedIsStored

LEMMA TailOf ==
  ASSUME NEW S, NEW s \in Seq(S), s # <<>>
  PROVE  /\ Tail(s) \in Seq(S)
         /\ 1 \in DOMAIN s /\ Head(s) = s[1] /\ Head(s) \in S
         /\ \A i \in DOMAIN Tail(s) : i \in Nat /\ i + 1 \in DOMAIN s /\ Tail(s)[i] = s[i + 1]
OBVIOUS

LEMMA AppendOf ==
  ASSUME NEW S, NEW s \in Seq(S), NEW x \in S
  PROVE  /\ Append(s, x) \in Seq(S)
         /\ Append(s, x) # <<>>
         /\ Len(s) \in Nat
         /\ DOMAIN s = 1..Len(s)
         /\ DOMAIN Append(s, x) = 1..(Len(s) + 1)
         /\ Len(Append(s, x)) = Len(s) + 1
         /\ Append(s, x)[Len(s) + 1] = x
         /\ \A i \in DOMAIN s : Append(s, x)[i] = s[i]
OBVIOUS

LEMMA LastOf ==
  ASSUME NEW S, NEW s \in Seq(S), s # <<>>
  PROVE  Len(s) \in DOMAIN s /\ Path!Last(s) = s[Len(s)] /\ \A i \in DOMAIN s : i <= Len(s)
BY DEF Path!Last

(* What the records of the types have.                                     *)
LEMMA PathRecords ==
  /\ \A m \in Path!Message : m.seq \in Nat /\ m.cmd \in Nat /\ m.attempt \in Nat
  /\ \A j \in Path!Job : /\ j.seq \in Nat /\ j.cmd \in Nat /\ j.attempt \in Nat
                         /\ j.conn \in Conns /\ j.state \in {"publish", "wait", "verify"}
BY DEF Path!Message, Path!Job

(* What the types say of what is stored, written and in flight.            *)
LEMMA PathElements ==
  ASSUME Path!PathTypeOK
  PROVE  /\ \A i \in DOMAIN pathStream :
              /\ pathStream[i] \in Path!Message
              /\ pathStream[i].seq \in Nat /\ i \in Nat
         /\ \A c \in Conns : \A i \in DOMAIN pathWire[c] :
              /\ pathWire[c][i] \in Path!Message
              /\ pathWire[c][i].seq \in Nat /\ pathWire[c][i].attempt \in Nat /\ i \in Nat
         /\ job # None => job \in Path!Job /\ job.seq \in Nat /\ job.cmd \in Nat /\ job.conn \in Conns
         /\ number \in Nat /\ commands \in Nat /\ attempts \in Nat
BY PathRecords DEF Path!PathTypeOK

LEMMA JobChanges ==
  ASSUME Path!PathTypeOK, job # None
  PROVE  /\ [job EXCEPT !.state = "verify"] \in Path!Job
         /\ [job EXCEPT !.state = "publish"] \in Path!Job
         /\ \A n \in Nat : [job EXCEPT !.state = "wait", !.attempt = n] \in Path!Job
BY DEF Path!PathTypeOK, Path!Job

LEMMA PathInit_Inv == ASSUME Path!PathInit PROVE PathInv
<1>1. pathStream = <<>> /\ pathWire = [c \in Conns |-> <<>>] /\ job = None
  BY DEF Path!PathInit
<1>2. \A c \in Conns : DOMAIN pathWire[c] = {}
  BY <1>1
<1>3. Path!PathTypeOK
  BY DEF Path!PathInit, Path!PathTypeOK
<1>4. WrittenIsAccounted /\ LastIsAccounted /\ JobIsNext /\ AttemptIsOfJob
  BY <1>1, <1>2 DEF WrittenIsAccounted, LastIsAccounted, JobIsNext, AttemptIsOfJob
<1>5. Path!AckedIsStored
  BY DEF Path!PathInit, Path!AckedIsStored
<1> QED BY <1>3, <1>4, <1>5 DEF PathInv

LEMMA Submit_Inv ==
  ASSUME PathInv, NEW c \in Conns, Path!Submit(c) PROVE PathInv'
<1> USE DEF PathInv
<1>1. /\ job' = [seq |-> number + 1, cmd |-> commands + 1, conn |-> c, attempt |-> 0, state |-> "publish"]
      /\ commands' = commands + 1 /\ job = None
      /\ UNCHANGED <<pathStream, pathWire, number, acked, attempts, acks, timeouts, lost, crashes>>
  BY DEF Path!Submit
<1>2. number \in Nat /\ commands \in Nat /\ number \in 0..commands
  BY DEF Path!PathTypeOK
<1>3. Path!PathTypeOK'
  <2>1. job' \in Path!Job
    BY <1>1, <1>2 DEF Path!Job
  <2>2. commands' \in Nat /\ number \in 0..commands'
    BY <1>1, <1>2
  <2> QED BY <1>1, <2>1, <2>2 DEF Path!PathTypeOK
<1>4. job'.seq = number + 1 /\ job'.state = "publish"
  BY <1>1
<1>5. WrittenIsAccounted' /\ LastIsAccounted'
  BY <1>1 DEF WrittenIsAccounted, LastIsAccounted, Accounted
<1>6. JobIsNext' /\ AttemptIsOfJob'
  BY <1>1, <1>2, <1>4 DEF JobIsNext, AttemptIsOfJob
<1>7. Path!AckedIsStored'
  BY <1>1 DEF Path!AckedIsStored
<1> QED BY <1>3, <1>5, <1>6, <1>7

LEMMA Publish_Inv ==
  ASSUME PathInv, Path!Publish PROVE PathInv'
<1> USE DEF PathInv
<1> DEFINE msg == [seq |-> job.seq, cmd |-> job.cmd, attempt |-> attempts + 1]
<1>0. job # None /\ job \in Path!Job /\ job.conn \in Conns /\ attempts \in Nat
  BY PathElements DEF Path!Publish, Path!In
<1>1. /\ attempts' = attempts + 1
      /\ pathWire' = [pathWire EXCEPT ![job.conn] = Append(@, msg)]
      /\ job' = [job EXCEPT !.state = "wait", !.attempt = attempts + 1]
      /\ UNCHANGED <<pathStream, number, acked, commands, acks, timeouts, lost, crashes>>
  BY DEF Path!Publish
<1>2. /\ msg \in Path!Message /\ msg.seq = job.seq /\ msg.cmd = job.cmd
      /\ msg.attempt = attempts + 1
  BY <1>0, PathRecords DEF Path!Message
<1> HIDE DEF msg
<1>3. /\ job' \in Path!Job /\ job' # None
      /\ job'.seq = job.seq /\ job'.cmd = job.cmd /\ job'.attempt = attempts + 1
  <2>1. job' \in Path!Job
    <3>1. attempts + 1 \in Nat
      BY <1>0
    <3>2. Path!PathTypeOK /\ job # None
      BY <1>0
    <3>3. [job EXCEPT !.state = "wait", !.attempt = attempts + 1] \in Path!Job
      BY <3>1, <3>2, JobChanges
    <3> QED BY <1>1, <3>3
  <2>2. job'.seq = job.seq /\ job'.cmd = job.cmd /\ job'.attempt = attempts + 1
    BY <1>0, <1>1 DEF Path!Job
  <2> QED BY <2>1, <2>2, ServiceAssumption DEF Path!PathAssumption
<1>4. ASSUME NEW d \in Conns, NEW i \in DOMAIN pathWire'[d]
      PROVE  \/ i \in DOMAIN pathWire[d] /\ pathWire'[d][i] = pathWire[d][i]
             \/ pathWire'[d][i] = msg
  <2>1. pathWire \in [Conns -> Seq(Path!Message)]
    BY DEF Path!PathTypeOK
  <2>2. CASE d = job.conn
    <3>1. pathWire'[d] = Append(pathWire[d], msg)
      BY <1>1, <2>1, <2>2
    <3> QED BY <1>2, <1>4, <2>1, <3>1, AppendOf
  <2>3. CASE d # job.conn
    BY <1>1, <1>4, <2>1, <2>3
  <2> QED BY <2>2, <2>3
<1>5. Path!PathTypeOK'
  <2>1. pathWire' \in [Conns -> Seq(Path!Message)]
    <3>1. pathWire \in [Conns -> Seq(Path!Message)]
      BY DEF Path!PathTypeOK
    <3>2. Append(pathWire[job.conn], msg) \in Seq(Path!Message)
      BY <1>0, <1>2, <3>1, AppendOf
    <3> QED BY <1>1, <3>1, <3>2
  <2>2. attempts' \in Nat /\ acks \subseteq 1..attempts'
    BY <1>0, <1>1 DEF Path!PathTypeOK
  <2> QED BY <1>1, <1>3, <2>1, <2>2 DEF Path!PathTypeOK
<1>6. WrittenIsAccounted'
  <2> SUFFICES ASSUME NEW d \in Conns, NEW i \in DOMAIN pathWire'[d]
               PROVE  Accounted(pathWire[d][i])' /\ pathWire'[d][i].attempt \in 1..attempts'
    BY DEF WrittenIsAccounted
  <2>1. CASE i \in DOMAIN pathWire[d] /\ pathWire'[d][i] = pathWire[d][i]
    BY <1>0, <1>1, <1>3, <2>1 DEF WrittenIsAccounted, Accounted
  <2>2. CASE pathWire'[d][i] = msg
    BY <1>0, <1>1, <1>2, <1>3, <2>2 DEF Accounted
  <2> QED BY <1>4, <2>1, <2>2
<1>7. LastIsAccounted' /\ JobIsNext'
  BY <1>0, <1>1, <1>3 DEF LastIsAccounted, Accounted, JobIsNext
<1>8. AttemptIsOfJob'
  <2>1. job'.attempt \notin acks'
    BY <1>0, <1>1, <1>3 DEF Path!PathTypeOK
  <2>2. ASSUME NEW d \in Conns, NEW i \in DOMAIN pathWire'[d], pathWire'[d][i].attempt = job'.attempt
        PROVE  pathWire'[d][i].seq = job'.seq /\ pathWire'[d][i].cmd = job'.cmd
    <3>1. ~(i \in DOMAIN pathWire[d] /\ pathWire'[d][i] = pathWire[d][i])
      BY <1>0, <1>3, <2>2 DEF WrittenIsAccounted
    <3> QED BY <1>2, <1>3, <1>4, <3>1
  <2> QED BY <2>1, <2>2 DEF AttemptIsOfJob
<1>9. Path!AckedIsStored'
  BY <1>1 DEF Path!AckedIsStored
<1> QED BY <1>5, <1>6, <1>7, <1>8, <1>9

(* A connection that has passed on its first message, stored or lost.      *)
LEMMA WireShrinks ==
  ASSUME PathInv, NEW c \in Conns, pathWire[c] # <<>>,
         pathWire' = [pathWire EXCEPT ![c] = Tail(@)], UNCHANGED <<job, number, attempts>>
  PROVE  /\ pathWire' \in [Conns -> Seq(Path!Message)]
         /\ WrittenIsAccounted'
         /\ \A d \in Conns : \A i \in DOMAIN pathWire'[d] :
              \E j \in DOMAIN pathWire[d] : pathWire'[d][i] = pathWire[d][j]
         /\ Head(pathWire[c]) \in Path!Message
         /\ 1 \in DOMAIN pathWire[c] /\ Head(pathWire[c]) = pathWire[c][1]
<1>1. pathWire \in [Conns -> Seq(Path!Message)]
  BY DEF PathInv, Path!PathTypeOK
<1>2. /\ Tail(pathWire[c]) \in Seq(Path!Message) /\ Head(pathWire[c]) \in Path!Message
      /\ 1 \in DOMAIN pathWire[c] /\ Head(pathWire[c]) = pathWire[c][1]
      /\ \A i \in DOMAIN Tail(pathWire[c]) :
           i + 1 \in DOMAIN pathWire[c] /\ Tail(pathWire[c])[i] = pathWire[c][i + 1]
  BY <1>1, TailOf
<1>3. ASSUME NEW d \in Conns, NEW i \in DOMAIN pathWire'[d]
      PROVE  \E j \in DOMAIN pathWire[d] : pathWire'[d][i] = pathWire[d][j]
  <2>1. CASE d = c
    <3>1. pathWire'[d] = Tail(pathWire[c])
      BY <1>1, <2>1
    <3> QED BY <1>2, <1>3, <2>1, <3>1
  <2>2. CASE d # c
    BY <1>1, <1>3, <2>2
  <2> QED BY <2>1, <2>2
<1>4. pathWire' \in [Conns -> Seq(Path!Message)]
  BY <1>1, <1>2
<1>5. WrittenIsAccounted'
  BY <1>3 DEF PathInv, WrittenIsAccounted, Accounted
<1> QED BY <1>2, <1>3, <1>4, <1>5

LEMMA Deliver_Inv ==
  ASSUME PathInv, NEW c \in Conns, Path!Deliver(c) PROVE PathInv'
<1> USE DEF PathInv
<1> DEFINE m == Head(pathWire[c])
<1>1. /\ pathWire[c] # <<>> /\ pathWire' = [pathWire EXCEPT ![c] = Tail(@)]
      /\ pathStream' = Append(pathStream, m) /\ acks' = acks \cup {m.attempt}
      /\ UNCHANGED <<job, number, acked, commands, attempts, timeouts, lost, crashes>>
  BY DEF Path!Deliver
<1>2. /\ pathWire' \in [Conns -> Seq(Path!Message)] /\ WrittenIsAccounted'
      /\ \A d \in Conns : \A i \in DOMAIN pathWire'[d] :
           \E j \in DOMAIN pathWire[d] : pathWire'[d][i] = pathWire[d][j]
      /\ m \in Path!Message /\ 1 \in DOMAIN pathWire[c] /\ m = pathWire[c][1]
  BY <1>1, WireShrinks
<1> HIDE DEF m
<1>3. Accounted(m) /\ m.attempt \in 1..attempts
  BY <1>2 DEF WrittenIsAccounted
<1>4. pathStream \in Seq(Path!Message)
  BY DEF Path!PathTypeOK
<1>5. /\ pathStream' \in Seq(Path!Message) /\ pathStream' # <<>>
      /\ Len(pathStream) + 1 \in DOMAIN pathStream' /\ Len(pathStream') = Len(pathStream) + 1
      /\ pathStream'[Len(pathStream) + 1] = m
      /\ \A i \in DOMAIN pathStream : i \in DOMAIN pathStream' /\ pathStream'[i] = pathStream[i]
  BY <1>1, <1>2, <1>4, AppendOf
<1>6. Path!PathTypeOK'
  BY <1>1, <1>2, <1>3, <1>5 DEF Path!PathTypeOK
<1>7. LastIsAccounted'
  <2>1. Path!Last(pathStream') = m
    BY <1>5 DEF Path!Last
  <2> QED BY <1>1, <1>3, <2>1 DEF LastIsAccounted, Accounted
<1>8. \A seq, cmd : Holds(seq, cmd) \/ (m.seq = seq /\ m.cmd = cmd) => Holds(seq, cmd)'
  BY <1>5 DEF Holds
<1>9. AttemptIsOfJob'
  <2> SUFFICES ASSUME job # None, job.state = "wait"
               PROVE  /\ job.attempt \in acks' => Holds(job.seq, job.cmd)'
                      /\ \A d \in Conns : \A i \in DOMAIN pathWire'[d] :
                           pathWire'[d][i].attempt = job.attempt =>
                             pathWire'[d][i].seq = job.seq /\ pathWire'[d][i].cmd = job.cmd
    BY <1>1 DEF AttemptIsOfJob, Holds
  <2>1. ASSUME job.attempt \in acks'
        PROVE  Holds(job.seq, job.cmd)'
    <3>1. CASE job.attempt \in acks
      <4>1. Holds(job.seq, job.cmd)
        BY <3>1 DEF AttemptIsOfJob
      <4> QED BY <1>1, <1>8, <4>1
    <3>2. CASE job.attempt = m.attempt
      <4>1. m.seq = job.seq /\ m.cmd = job.cmd
        BY <1>2, <3>2 DEF AttemptIsOfJob
      <4> QED BY <1>1, <1>8, <4>1
    <3> QED BY <1>1, <2>1, <3>1, <3>2
  <2> QED BY <1>2, <2>1 DEF AttemptIsOfJob
<1>10. JobIsNext'
  BY <1>1 DEF JobIsNext
<1>11. Path!AckedIsStored'
  BY <1>1, <1>5 DEF Path!AckedIsStored
<1> QED BY <1>2, <1>6, <1>7, <1>9, <1>10, <1>11

LEMMA Lose_Inv ==
  ASSUME PathInv, NEW c \in Conns, Path!Lose(c) PROVE PathInv'
<1> USE DEF PathInv
<1>1. /\ pathWire[c] # <<>> /\ pathWire' = [pathWire EXCEPT ![c] = Tail(@)]
      /\ lost' = lost + 1
      /\ UNCHANGED <<pathStream, job, number, acked, commands, attempts, acks, timeouts, crashes>>
  BY DEF Path!Lose
<1>2. /\ pathWire' \in [Conns -> Seq(Path!Message)] /\ WrittenIsAccounted'
      /\ \A d \in Conns : \A i \in DOMAIN pathWire'[d] :
           \E j \in DOMAIN pathWire[d] : pathWire'[d][i] = pathWire[d][j]
  BY <1>1, WireShrinks
<1>3. Path!PathTypeOK'
  BY <1>1, <1>2 DEF Path!PathTypeOK
<1>4. LastIsAccounted' /\ JobIsNext' /\ Path!AckedIsStored'
  BY <1>1 DEF LastIsAccounted, Accounted, JobIsNext, Path!AckedIsStored
<1>5. AttemptIsOfJob'
  BY <1>1, <1>2 DEF AttemptIsOfJob, Holds
<1> QED BY <1>2, <1>3, <1>4, <1>5

(* commitOne returns for a commit that is stored.                          *)
LEMMA Committed_Inv ==
  ASSUME PathInv, job # None, Path!Committed, Holds(job.seq, job.cmd),
         UNCHANGED <<pathStream, pathWire, commands, attempts, acks, timeouts, lost, crashes>>
  PROVE  PathInv'
<1> USE DEF PathInv
<1>1. job' = None /\ number' = job.seq /\ acked' = [seq |-> job.seq, cmd |-> job.cmd]
  BY DEF Path!Committed
<1>2. job.seq \in Nat /\ job.cmd \in Nat /\ number \in Nat /\ job.seq = number + 1
  BY PathElements DEF JobIsNext
<1>3. Path!PathTypeOK'
  <2>1. job.seq \in 0..commands
    BY <1>2, PathElements DEF JobIsNext
  <2>2. acked' \in [seq : Nat, cmd : Nat]
    BY <1>1, <1>2
  <2> QED BY <1>1, <2>1, <2>2 DEF Path!PathTypeOK
<1>4. \A m : m.seq \in Nat /\ Accounted(m) => m.seq <= number'
  BY <1>1, <1>2 DEF Accounted
<1>5. WrittenIsAccounted'
  <2>1. \A c \in Conns : \A i \in DOMAIN pathWire[c] :
          pathWire[c][i].seq <= number' /\ pathWire[c][i].attempt \in 1..attempts
    BY <1>4, PathElements DEF WrittenIsAccounted
  <2> QED BY <2>1 DEF WrittenIsAccounted, Accounted
<1>6. LastIsAccounted'
  <2> SUFFICES ASSUME pathStream # <<>>
               PROVE  Path!Last(pathStream).seq <= number'
    BY DEF LastIsAccounted, Accounted
  <2>1. Len(pathStream) \in DOMAIN pathStream /\ Path!Last(pathStream) = pathStream[Len(pathStream)]
    BY LastOf DEF Path!PathTypeOK
  <2> QED BY <1>4, <2>1, PathElements DEF LastIsAccounted
<1>7. JobIsNext' /\ AttemptIsOfJob'
  BY <1>1 DEF JobIsNext, AttemptIsOfJob
<1>8. Path!AckedIsStored'
  BY <1>1 DEF Path!AckedIsStored, Holds
<1> QED BY <1>3, <1>5, <1>6, <1>7, <1>8

(* A job that publishes again or reads back is the job it was.             *)
LEMMA SameJob_Inv ==
  ASSUME PathInv, job # None, NEW s \in {"publish", "verify"}, job' = [job EXCEPT !.state = s],
         timeouts' \in Nat,
         UNCHANGED <<pathStream, pathWire, number, acked, commands, attempts, acks, lost, crashes>>
  PROVE  PathInv'
<1> USE DEF PathInv
<1>1. job \in Path!Job
  BY PathElements
<1>2. job' \in Path!Job /\ job'.seq = job.seq /\ job'.cmd = job.cmd /\ job'.state = s
  <2>1. job' \in Path!Job
    BY JobChanges
  <2>2. DOMAIN job = {"seq", "cmd", "conn", "attempt", "state"}
    BY <1>1 DEF Path!Job
  <2> QED BY <2>1, <2>2
<1>3. job' # None
  BY <1>2, ServiceAssumption DEF Path!PathAssumption
<1>4. Path!PathTypeOK'
  BY <1>2 DEF Path!PathTypeOK
<1>5. WrittenIsAccounted' /\ LastIsAccounted'
  BY <1>2, <1>3 DEF WrittenIsAccounted, LastIsAccounted, Accounted
<1>6. JobIsNext' /\ AttemptIsOfJob' /\ Path!AckedIsStored'
  BY <1>2, <1>3 DEF JobIsNext, AttemptIsOfJob, Path!AckedIsStored
<1> QED BY <1>4, <1>5, <1>6

(* What the read-back finds with the number of the job is the job's: any   *)
(* other message it could find has an earlier number.                      *)
LEMMA ReadBack_Inv ==
  ASSUME PathInv, Path!ReadBack PROVE PathInv'
<1>1. /\ job # None /\ UNCHANGED <<pathStream, pathWire, commands, attempts, acks, timeouts, lost, crashes>>
      /\ Path!PathTypeOK
  BY DEF Path!ReadBack, Path!In, PathInv
<1>2. CASE Path!Found
  <2>1. Path!Committed
    BY <1>2 DEF Path!ReadBack
  <2>2. pathStream \in Seq(Path!Message) /\ pathStream # <<>> /\ Path!Last(pathStream).seq = job.seq
    BY <1>1, <1>2 DEF Path!Found, Path!PathTypeOK
  <2>3. /\ Len(pathStream) \in DOMAIN pathStream
        /\ Path!Last(pathStream) = pathStream[Len(pathStream)]
    BY <2>2, LastOf
  <2>4. job.seq = number + 1 /\ number \in Nat /\ Accounted(Path!Last(pathStream))
    BY <1>1, <2>2, PathElements DEF PathInv, JobIsNext, LastIsAccounted
  <2>5. Path!Last(pathStream).cmd = job.cmd
    BY <2>2, <2>4 DEF Accounted
  <2>6. Holds(job.seq, job.cmd)
    BY <2>2, <2>3, <2>5 DEF Holds
  <2> QED BY <1>1, <2>1, <2>6, Committed_Inv
<1>3. CASE ~Path!Found
  <2>1. job' = [job EXCEPT !.state = "publish"] /\ UNCHANGED <<number, acked>> /\ timeouts' \in Nat
    BY <1>1, <1>3 DEF Path!ReadBack, Path!AfterReadBack, Path!PathTypeOK
  <2> QED BY <1>1, <2>1, SameJob_Inv
<1> QED BY <1>2, <1>3

LEMMA Restart_Inv ==
  ASSUME PathInv, ~Outlives, Path!Restart PROVE PathInv'
<1> USE DEF PathInv
<1>1. /\ job' = None /\ number' = Path!Recovered
      /\ pathWire' = [c \in Conns |-> <<>>]
      /\ crashes' = crashes + 1
      /\ UNCHANGED <<pathStream, acked, commands, attempts, acks, timeouts, lost>>
  BY DEF Path!Restart
<1>2. \A c \in Conns : DOMAIN pathWire'[c] = {}
  BY <1>1
<1>3. pathStream \in Seq(Path!Message) /\ commands \in Nat /\ number \in 0..commands
  BY DEF Path!PathTypeOK
<1>4. number' \in 0..commands /\ (pathStream # <<>> => Path!Last(pathStream).seq <= number')
  <2>1. CASE pathStream = <<>>
    BY <1>1, <1>3, <2>1 DEF Path!Recovered
  <2>2. CASE pathStream # <<>>
    <3>1. number' = Path!Last(pathStream).seq
      BY <1>1, <2>2 DEF Path!Recovered
    <3>2. Path!Last(pathStream).seq \in Nat
      BY <1>3, <2>2, LastOf, PathElements
    <3>3. Path!Last(pathStream).seq <= commands
      BY <1>3, <2>2, <3>2 DEF LastIsAccounted, Accounted, JobIsNext
    <3> QED BY <1>3, <3>1, <3>2, <3>3
  <2> QED BY <2>1, <2>2
<1>5. Path!PathTypeOK'
  BY <1>1, <1>4 DEF Path!PathTypeOK
<1>6. WrittenIsAccounted' /\ LastIsAccounted'
  BY <1>1, <1>2, <1>4 DEF WrittenIsAccounted, LastIsAccounted, Accounted
<1>7. JobIsNext' /\ AttemptIsOfJob' /\ Path!AckedIsStored'
  BY <1>1 DEF JobIsNext, AttemptIsOfJob, Path!AckedIsStored
<1> QED BY <1>5, <1>6, <1>7

LEMMA PathStep ==
  ASSUME PathInv, ~Outlives, [Path!PathNext]_Path!pathVars PROVE PathInv'
<1>0. CASE UNCHANGED Path!pathVars
  BY <1>0 DEF Path!pathVars, PathInv, Path!PathTypeOK, WrittenIsAccounted, LastIsAccounted,
       Accounted, JobIsNext, AttemptIsOfJob, Holds, Path!AckedIsStored
<1>1. ASSUME NEW c \in Conns, Path!Submit(c) \/ Path!Deliver(c) \/ Path!Lose(c) PROVE PathInv'
  BY <1>1, Submit_Inv, Deliver_Inv, Lose_Inv
<1>2. CASE Path!Publish
  BY <1>2, Publish_Inv
<1>3. CASE Path!Acked
  <2>1. /\ job # None /\ job.state = "wait" /\ job.attempt \in acks /\ Path!Committed
        /\ UNCHANGED <<pathStream, pathWire, commands, attempts, acks, timeouts, lost, crashes>>
    BY <1>3 DEF Path!Acked, Path!In
  <2>2. Holds(job.seq, job.cmd)
    BY <2>1 DEF PathInv, AttemptIsOfJob
  <2> QED BY <2>1, <2>2, Committed_Inv
<1>4. CASE Path!Timeout
  <2>1. /\ job # None /\ job' = [job EXCEPT !.state = "verify"] /\ timeouts' \in Nat
        /\ UNCHANGED <<pathStream, pathWire, number, acked, commands, attempts, acks, lost, crashes>>
    BY <1>4 DEF Path!Timeout, Path!In, PathInv, Path!PathTypeOK
  <2> QED BY <2>1, SameJob_Inv
<1>5. CASE Path!ReadBack
  BY <1>5, ReadBack_Inv
<1>6. CASE Path!ReadBackFails
  <2>1. /\ job # None /\ job' = [job EXCEPT !.state = "publish"] /\ timeouts' \in Nat
        /\ UNCHANGED <<pathStream, pathWire, number, acked, commands, attempts, acks, lost, crashes>>
    BY <1>6 DEF Path!ReadBackFails, Path!AfterReadBack, Path!In, PathInv, Path!PathTypeOK
  <2> QED BY <2>1, SameJob_Inv
<1>7. CASE Path!Restart
  BY <1>7, Restart_Inv
<1> QED
  BY <1>0, <1>1, <1>2, <1>3, <1>4, <1>5, <1>6, <1>7 DEF Path!PathNext

LEMMA PathInvariant ==
  ASSUME ~Outlives PROVE ServiceSpec => [](part = "path" => PathInv)
<1>1. ServiceInit => (part = "path" => PathInv)
  BY PathInit_Inv DEF ServiceInit
<1>2. (part = "path" => PathInv) /\ [ServiceNext]_serviceVars => (part = "path" => PathInv)'
  <2> SUFFICES ASSUME part = "path" => PathInv, [ServiceNext]_serviceVars, part' = "path"
               PROVE  PathInv'
    OBVIOUS
  <2>1. part = "path" /\ [Path!PathNext]_Path!pathVars
    BY DEF ServiceNext, serviceVars, pathVars, Path!pathVars
  <2> QED BY <2>1, PathStep
<1> QED
  BY <1>1, <1>2, PTL DEF ServiceSpec

(* The last command that was told OK is stored, as its own commit, for any *)
(* number of publisher connections, commands, late or lost attempts,       *)
(* failed read-backs and restarts, if a connection loses what it holds     *)
(* when the process ends (publisher.go, publishOrVerify).                  *)
THEOREM AnsweredIsStored == ASSUME ~Outlives PROVE ServiceSpec => []AckedIsStored
<1>1. (part = "path" => PathInv) => AckedIsStored
  BY DEF AckedIsStored, PathInv
<1> QED BY <1>1, PathInvariant, PTL

---------------------------------------------------------------------------
(* The scans of a boot.                                                    *)

(* A commit of the object at a place of the stream, the last of them, and  *)
(* what the stream has of an event.                                        *)
CommitAt(s, o, i) == i \in DOMAIN s /\ ~Scan!IsProjection(s[i]) /\ s[i].obj = o

LastCommit(s, o, i) == CommitAt(s, o, i) /\ \A j \in DOMAIN s : CommitAt(s, o, j) => j <= i

NoCommit(s, o) == \A i \in DOMAIN s : ~CommitAt(s, o, i)

InStream(s, e) == \E i \in DOMAIN s : s[i] = e

(* The commits of an object are numbered upwards, and every event comes    *)
(* after its commit.                                                       *)
Numbered(s) ==
  \A o \in ScanObjects : \A i, j \in DOMAIN s :
    CommitAt(s, o, i) /\ CommitAt(s, o, j) /\ i < j => s[i].seq < s[j].seq

EventsFollow(s) ==
  \A i \in DOMAIN s : Scan!IsProjection(s[i]) =>
    \E c \in DOMAIN s : c < i /\ ~Scan!IsProjection(s[c]) /\ s[i] \in Scan!EventsOf(s[c])

EventsUnique(s) ==
  \A i, j \in DOMAIN s : Scan!IsProjection(s[i]) /\ s[i] = s[j] => i = j

(* A running process has counted to the last commit of the object, and     *)
(* owes what the stream does not have of its events.                       *)
Counted(s, o, n, due) ==
  \/ NoCommit(s, o) /\ n = 0 /\ due = {}
  \/ \E c \in DOMAIN s :
       /\ LastCommit(s, o, c) /\ n = s[c].seq /\ due \subseteq s[c].areas
       /\ \A a \in s[c].areas : InStream(s, [obj |-> o, seq |-> n, area |-> a]) <=> a \notin due

Recovered(s, o, c) == (c = 0 /\ NoCommit(s, o)) \/ LastCommit(s, o, c)

(* The events of the last commits that the boot takes for missing.         *)
AreMissing(s, events) ==
  /\ \A e \in events : \E o \in ScanObjects, c \in DOMAIN s :
       LastCommit(s, o, c) /\ e \in Scan!EventsOf(s[c])
  /\ \A o \in ScanObjects, c \in DOMAIN s :
       LastCommit(s, o, c) => \A e \in Scan!EventsOf(s[c]) : e \in events \/ InStream(s, e)

ToCome(q, i) == \E k \in DOMAIN q : q[k] = i

ScanTypes ==
  /\ scanned \in Seq(Scan!Commit \cup Scan!Projection)
  /\ scanNumber \in [ScanObjects -> Nat]
  /\ owed \in [ScanObjects -> SUBSET Areas]
  /\ todo \in Seq(Nat) /\ unacked \in Seq(Nat)
  /\ \A k \in DOMAIN todo : todo[k] \in DOMAIN scanned
  /\ \A k \in DOMAIN unacked : unacked[k] \in DOMAIN scanned
  /\ commits \in [ScanObjects -> Nat]
  /\ missing \subseteq Scan!Projection
  /\ scanFaults \in [{"recover", "repair", "acks"} -> Nat]

RunningScan == mode = "up" =>
  \A o \in ScanObjects : Counted(scanned, o, scanNumber[o], owed[o])

StoppedScan ==
  /\ mode # "up" => \A o \in ScanObjects : owed[o] = {}
  /\ mode = "down" => todo = <<>> /\ unacked = <<>> /\ \A o \in ScanObjects : commits[o] = 0

(* The first scan: what it has still to deliver are commits, and the last  *)
(* one of an object is among them or is held.                              *)
FirstScan == mode = "recover" =>
  /\ \A k \in DOMAIN todo : ~Scan!IsProjection(scanned[todo[k]])
  /\ \A k \in DOMAIN unacked : ~Scan!IsProjection(scanned[unacked[k]])
  /\ \A o \in ScanObjects :
       /\ commits[o] = 0 \/ CommitAt(scanned, o, commits[o])
       /\ \A c \in DOMAIN scanned : LastCommit(scanned, o, c) => c <= commits[o] \/ ToCome(todo, c)

AfterFirstScan == mode \in {"recovered", "repair", "publish"} =>
  \A o \in ScanObjects : Recovered(scanned, o, commits[o])

(* The second scan: unless it broke off, a missing event that the stream   *)
(* has is still to come.                                                   *)
SecondScan ==
  /\ mode \in {"repair", "publish"} => AreMissing(scanned, missing)
  /\ scanFaults["repair"] = 0 =>
       /\ EventsUnique(scanned)
       /\ mode = "repair" => \A i \in DOMAIN scanned : scanned[i] \in missing => ToCome(todo, i)
       /\ mode = "publish" => \A i \in DOMAIN scanned : scanned[i] \notin missing

ScanInv ==
  /\ ScanTypes
  /\ Numbered(scanned) /\ EventsFollow(scanned)
  /\ RunningScan /\ StoppedScan /\ FirstScan /\ AfterFirstScan /\ SecondScan

(* Sets of positions.                                                      *)
LEMMA HasFirst ==
  ASSUME NEW S \in SUBSET Nat, S # {}
  PROVE  \E m \in S : \A x \in S : m <= x
<1> DEFINE R == OpToRel(<, Nat)
<1>1. \A x, y \in Nat : x < y => <<x, y>> \in R
  BY DEF OpToRel
<1>2. IsWellFoundedOn(R, Nat)
  BY NatLessThanWellFounded
<1> HIDE DEF R
<1>3. PICK m \in S : \A y \in S : ~(<<y, m>> \in R)
  BY <1>2, WFMin
<1>4. ASSUME NEW x \in S PROVE m <= x
  <2>1. ~(x < m)
    BY <1>1, <1>3
  <2> QED BY <2>1
<1> QED BY <1>4

LEMMA HasLast ==
  ASSUME NEW n \in Nat, NEW S \in SUBSET (0..n), S # {}
  PROVE  \E m \in S : \A x \in S : x <= m
<1> DEFINE T == {n - x : x \in S}
<1>1. T \in SUBSET Nat /\ T # {}
  <2>1. PICK x \in S : TRUE
    OBVIOUS
  <2>2. n - x \in T
    BY <2>1
  <2>3. \A y \in S : n - y \in Nat
    OBVIOUS
  <2> QED BY <2>2, <2>3
<1>2. PICK t \in T : \A y \in T : t <= y
  <2> HIDE DEF T
  <2> QED BY <1>1, HasFirst
<1>3. PICK m \in S : t = n - m
  BY <1>2
<1>4. ASSUME NEW x \in S PROVE x <= m
  <2>1. n - x \in T
    OBVIOUS
  <2>2. t <= n - x
    BY <1>2, <2>1
  <2> QED BY <1>3, <2>2
<1> QED BY <1>4

(* The cardinality of the instance is that of the library.                 *)
LEMMA SameCardinality == ASSUME NEW S PROVE Scan!Cardinality(S) = Cardinality(S)
BY DEF Scan!Cardinality, Cardinality

(* The positions in order are a sequence of exactly these positions: the   *)
(* rank of a position is another one for each of them, so that every rank  *)
(* is taken.                                                               *)
LEMMA InOrderIsAll ==
  ASSUME NEW P \in SUBSET Nat, IsFiniteSet(P)
  PROVE  /\ Scan!InOrder(P) \in Seq(Nat)
         /\ \A k \in DOMAIN Scan!InOrder(P) : Scan!InOrder(P)[k] \in P
         /\ \A i \in P : ToCome(Scan!InOrder(P), i)
<1> DEFINE rank(i) == Scan!Cardinality({j \in P : j <= i})
           n == Scan!Cardinality(P)
<1>1. n \in Nat /\ n = Cardinality(P)
  BY FS_CardinalityType, SameCardinality
<1>2. \A i \in P : rank(i) \in 1..n
  <2> SUFFICES ASSUME NEW i \in P PROVE rank(i) \in 1..n
    OBVIOUS
  <2> DEFINE B == {j \in P : j <= i}
  <2>1. B \in SUBSET P /\ i \in B
    OBVIOUS
  <2> HIDE DEF B
  <2>2. IsFiniteSet(B) /\ Cardinality(B) <= Cardinality(P)
    BY <2>1, FS_Subset
  <2>3. Cardinality(B) \in Nat /\ Cardinality(B) # 0
    BY <2>1, <2>2, FS_CardinalityType, FS_EmptySet
  <2>4. Scan!Cardinality(B) \in 1..n
    BY <1>1, <2>2, <2>3, SameCardinality
  <2> QED BY <2>4 DEF B
<1>3. \A i, j \in P : rank(i) = rank(j) => i = j
  <2>1. ASSUME NEW i \in P, NEW j \in P, i < j PROVE rank(i) # rank(j)
    <3> DEFINE A == {x \in P : x <= i}
               B == {x \in P : x <= j}
    <3>0. j \in B /\ j \notin A
      BY <2>1
    <3>1. A \in SUBSET B /\ B \in SUBSET P
      <4>1. \A x \in P : x <= i => x <= j
        BY <2>1
      <4> QED BY <4>1
    <3> HIDE DEF A, B
    <3>2. IsFiniteSet(B)
      BY <3>1, FS_Subset
    <3>3. Cardinality(B) # Cardinality(A)
      BY <3>0, <3>1, <3>2, FS_Subset
    <3>4. Scan!Cardinality(B) # Scan!Cardinality(A)
      BY <3>3, SameCardinality
    <3> QED BY <3>4 DEF A, B
  <2> QED
    <3> SUFFICES ASSUME NEW i \in P, NEW j \in P, rank(i) = rank(j), i # j PROVE FALSE
      OBVIOUS
    <3> HIDE DEF rank
    <3>1. i < j \/ j < i
      OBVIOUS
    <3> QED BY <2>1, <3>1
<1> HIDE DEF rank
<1>4. \A k \in 1..n : \E i \in P : rank(i) = k
  <2> SUFFICES ASSUME NEW k \in 1..n, \A i \in P : rank(i) # k PROVE FALSE
    OBVIOUS
  <2> DEFINE T == (1..n) \ {k}
             f == [i \in P |-> rank(i)]
  <2>1. IsFiniteSet(1..n) /\ Cardinality(1..n) = n
    BY <1>1, FS_Interval
  <2>2. IsFiniteSet(T) /\ Cardinality(T) = n - 1
    <3> HIDE DEF n
    <3>1. Cardinality(T) = IF k \in 1..n THEN Cardinality(1..n) - 1 ELSE Cardinality(1..n)
      BY <2>1, FS_RemoveElement
    <3>2. IsFiniteSet(T)
      BY <2>1, FS_RemoveElement
    <3> QED BY <2>1, <3>1, <3>2
  <2>3. f \in [P -> T]
    BY <1>2
  <2>4. Cardinality(T) < Cardinality(P)
    BY <1>1, <2>2
  <2> HIDE DEF T, f, n
  <2>5. \E x, y \in P : x # y /\ f[x] = f[y]
    BY <2>2, <2>3, <2>4, FS_PigeonHole
  <2> QED BY <1>3, <2>5 DEF f
<1>5. Scan!InOrder(P) = [k \in 1..n |-> CHOOSE i \in P : rank(i) = k]
  BY DEF Scan!InOrder, rank
<1> HIDE DEF n
<1>6. \A k \in 1..n : LET i == CHOOSE i \in P : rank(i) = k IN i \in P /\ rank(i) = k
  BY <1>4
<1>7. \A k \in 1..n : Scan!InOrder(P)[k] \in P /\ rank(Scan!InOrder(P)[k]) = k
  BY <1>5, <1>6
<1>8. Scan!InOrder(P) \in [1..n -> Nat]
  <2>1. \A k \in 1..n : (CHOOSE i \in P : rank(i) = k) \in Nat
    BY <1>6
  <2> QED BY <1>5, <2>1
<1>9. Scan!InOrder(P) \in Seq(Nat) /\ DOMAIN Scan!InOrder(P) = 1..n
  BY <1>1, <1>8
<1>10. ASSUME NEW i \in P PROVE ToCome(Scan!InOrder(P), i)
  <2>1. rank(i) \in 1..n
    BY <1>2
  <2>2. Scan!InOrder(P)[rank(i)] = i
    BY <1>3, <1>7, <2>1
  <2> QED BY <1>9, <2>1, <2>2 DEF ToCome
<1> QED BY <1>7, <1>9, <1>10

(* The stream.                                                             *)
Msg == Scan!Commit \cup Scan!Projection

LEMMA Messages ==
  /\ \A m \in Scan!Commit : /\ ~Scan!IsProjection(m) /\ m.obj \in ScanObjects
                            /\ m.seq \in Nat /\ m.areas \in SUBSET Areas
  /\ \A e \in Scan!Projection : /\ Scan!IsProjection(e) /\ e.obj \in ScanObjects
                                /\ e.seq \in Nat /\ e.area \in Areas
BY DEF Scan!Commit, Scan!Projection, Scan!IsProjection

LEMMA EventsOfCommit ==
  ASSUME NEW m \in Scan!Commit
  PROVE  /\ Scan!EventsOf(m) \subseteq Scan!Projection
         /\ \A e \in Scan!EventsOf(m) : e.obj = m.obj /\ e.seq = m.seq /\ e.area \in m.areas
         /\ \A e \in Scan!EventsOf(m) : e = [obj |-> m.obj, seq |-> m.seq, area |-> e.area]
         /\ \A a \in m.areas : [obj |-> m.obj, seq |-> m.seq, area |-> a] \in Scan!EventsOf(m)
<1>1. m.obj \in ScanObjects /\ m.seq \in Nat /\ m.areas \in SUBSET Areas
  BY Messages
<1> QED BY <1>1 DEF Scan!EventsOf, Scan!Projection

LEMMA Entries ==
  ASSUME NEW s \in Seq(Msg)
  PROVE  /\ Len(s) \in Nat /\ DOMAIN s = 1..Len(s)
         /\ \A i \in DOMAIN s : i \in Nat /\ s[i] \in Msg
         /\ \A i \in DOMAIN s : ~Scan!IsProjection(s[i]) => s[i] \in Scan!Commit
         /\ \A i \in DOMAIN s : Scan!IsProjection(s[i]) => s[i] \in Scan!Projection
<1>1. /\ Len(s) \in Nat /\ DOMAIN s = 1..Len(s)
      /\ \A i \in DOMAIN s : i \in Nat /\ s[i] \in Msg
  <2> HIDE DEF Msg
  <2> QED OBVIOUS
<1> QED BY <1>1, Messages DEF Msg

LEMMA Appended ==
  ASSUME NEW s \in Seq(Msg), NEW m \in Msg
  PROVE  /\ Append(s, m) \in Seq(Msg)
         /\ DOMAIN Append(s, m) = 1..(Len(s) + 1)
         /\ Append(s, m)[Len(s) + 1] = m
         /\ \A i \in DOMAIN s : i \in DOMAIN Append(s, m) /\ Append(s, m)[i] = s[i]
         /\ \A i \in DOMAIN Append(s, m) : i \in DOMAIN s \/ i = Len(s) + 1
<1> HIDE DEF Msg
<1> QED BY AppendOf, Entries

(* A stream has one last commit of an object, if it has any.               *)
LEMMA LastCommitExists ==
  ASSUME NEW s \in Seq(Msg), NEW o, ~NoCommit(s, o)
  PROVE  \E c \in DOMAIN s : LastCommit(s, o, c)
<1> DEFINE P == {i \in DOMAIN s : CommitAt(s, o, i)}
<1>1. P \in SUBSET (0..Len(s)) /\ P # {} /\ Len(s) \in Nat
  BY Entries DEF NoCommit
<1> HIDE DEF P
<1>2. PICK c \in P : \A i \in P : i <= c
  BY <1>1, HasLast
<1> QED BY <1>2 DEF P, LastCommit

LEMMA LastCommitIsOne ==
  ASSUME NEW s \in Seq(Msg), NEW o, NEW c, NEW d, LastCommit(s, o, c), LastCommit(s, o, d)
  PROVE  c = d
<1>1. c \in DOMAIN s /\ d \in DOMAIN s /\ c <= d /\ d <= c
  BY DEF LastCommit, CommitAt
<1>2. c \in Nat /\ d \in Nat
  BY <1>1, Entries
<1> QED BY <1>1, <1>2

(* A commit that is numbered higher than those of its object becomes the   *)
(* last of it.                                                             *)
LEMMA AppendedCommit ==
  ASSUME NEW s \in Seq(Msg), Numbered(s), EventsFollow(s), NEW m \in Scan!Commit,
         \A i \in DOMAIN s : CommitAt(s, m.obj, i) => s[i].seq < m.seq
  PROVE  LET t == Append(s, m) IN
           /\ t \in Seq(Msg) /\ Numbered(t) /\ EventsFollow(t)
           /\ EventsUnique(s) => EventsUnique(t)
           /\ Len(s) + 1 \in DOMAIN t /\ t[Len(s) + 1] = m
           /\ LastCommit(t, m.obj, Len(s) + 1)
           /\ \A o : o # m.obj => /\ NoCommit(s, o) => NoCommit(t, o)
                                  /\ \A c : LastCommit(s, o, c) => LastCommit(t, o, c) /\ t[c] = s[c]
           /\ \A e \in Scan!Projection : InStream(t, e) <=> InStream(s, e)
<1> DEFINE t == Append(s, m)
<1>0. m \in Msg /\ ~Scan!IsProjection(m) /\ m.obj \in ScanObjects
  BY Messages DEF Msg
<1>1. /\ t \in Seq(Msg) /\ DOMAIN t = 1..(Len(s) + 1) /\ t[Len(s) + 1] = m
      /\ \A i \in DOMAIN s : i \in DOMAIN t /\ t[i] = s[i]
      /\ \A i \in DOMAIN t : i \in DOMAIN s \/ i = Len(s) + 1
  BY <1>0, Appended
<1>2. /\ Len(s) \in Nat /\ \A i \in DOMAIN s : i \in Nat /\ i < Len(s) + 1 /\ i # Len(s) + 1
      /\ Len(s) + 1 \in DOMAIN t /\ Len(s) + 1 \notin DOMAIN s
  BY <1>1, Entries
<1> HIDE DEF t
<1>3. \A o, i : CommitAt(t, o, i) <=> CommitAt(s, o, i) \/ (i = Len(s) + 1 /\ o = m.obj)
  BY <1>0, <1>1, <1>2 DEF CommitAt
<1>4. Numbered(t)
  <2> SUFFICES ASSUME NEW o \in ScanObjects, NEW i \in DOMAIN t, NEW j \in DOMAIN t,
                      CommitAt(t, o, i), CommitAt(t, o, j), i < j
               PROVE  t[i].seq < t[j].seq
    BY DEF Numbered
  <2>1. i \in DOMAIN s
    BY <1>1, <1>2
  <2>2. CASE j \in DOMAIN s
    BY <1>1, <1>2, <1>3, <2>1, <2>2 DEF Numbered
  <2>3. CASE j = Len(s) + 1
    <3>1. o = m.obj /\ CommitAt(s, o, i)
      BY <1>0, <1>1, <1>2, <1>3, <2>1, <2>3 DEF CommitAt
    <3> QED BY <1>1, <2>1, <2>3, <3>1
  <2> QED BY <1>1, <2>2, <2>3
<1>5. EventsFollow(t)
  <2> SUFFICES ASSUME NEW i \in DOMAIN t, Scan!IsProjection(t[i])
               PROVE  \E c \in DOMAIN t : c < i /\ ~Scan!IsProjection(t[c]) /\ t[i] \in Scan!EventsOf(t[c])
    BY DEF EventsFollow
  <2>1. i \in DOMAIN s /\ t[i] = s[i]
    BY <1>0, <1>1
  <2>2. PICK c \in DOMAIN s : c < i /\ ~Scan!IsProjection(s[c]) /\ s[i] \in Scan!EventsOf(s[c])
    BY <2>1 DEF EventsFollow
  <2> QED BY <1>1, <2>1, <2>2
<1>6. EventsUnique(s) => EventsUnique(t)
  BY <1>0, <1>1 DEF EventsUnique
<1>7. LastCommit(t, m.obj, Len(s) + 1)
  BY <1>1, <1>2, <1>3 DEF LastCommit
<1>8. \A o : o # m.obj => /\ NoCommit(s, o) => NoCommit(t, o)
                          /\ \A c : LastCommit(s, o, c) => LastCommit(t, o, c) /\ t[c] = s[c]
  <2>1. ASSUME NEW o, o # m.obj, NoCommit(s, o) PROVE NoCommit(t, o)
    BY <1>1, <1>2, <1>3, <2>1 DEF NoCommit, CommitAt
  <2>2. ASSUME NEW o, o # m.obj, NEW c, LastCommit(s, o, c) PROVE LastCommit(t, o, c) /\ t[c] = s[c]
    <3>1. c \in DOMAIN s
      BY <2>2 DEF LastCommit, CommitAt
    <3>2. \A j \in DOMAIN t : CommitAt(t, o, j) => CommitAt(s, o, j) /\ j \in DOMAIN s
      BY <1>3, <2>2 DEF CommitAt
    <3> QED BY <1>1, <1>3, <2>2, <3>1, <3>2 DEF LastCommit
  <2> QED BY <2>1, <2>2
<1>9. \A e \in Scan!Projection : InStream(t, e) <=> InStream(s, e)
  BY <1>0, <1>1, Messages DEF InStream
<1> QED BY <1>1, <1>2, <1>4, <1>5, <1>6, <1>7, <1>8, <1>9 DEF t

LEMMA AppendedEvent ==
  ASSUME NEW s \in Seq(Msg), Numbered(s), EventsFollow(s), NEW e \in Scan!Projection,
         NEW b \in DOMAIN s, ~Scan!IsProjection(s[b]), e \in Scan!EventsOf(s[b])
  PROVE  LET t == Append(s, e) IN
           /\ t \in Seq(Msg) /\ Numbered(t) /\ EventsFollow(t)
           /\ EventsUnique(s) /\ ~InStream(s, e) => EventsUnique(t)
           /\ DOMAIN s \subseteq DOMAIN t
           /\ \A i \in DOMAIN s : t[i] = s[i]
           /\ \A o : NoCommit(t, o) <=> NoCommit(s, o)
           /\ \A o, c : LastCommit(t, o, c) <=> LastCommit(s, o, c)
           /\ \A f : InStream(t, f) <=> (InStream(s, f) \/ f = e)
<1> DEFINE t == Append(s, e)
<1>0. e \in Msg /\ Scan!IsProjection(e)
  BY Messages DEF Msg
<1>1. /\ t \in Seq(Msg) /\ DOMAIN t = 1..(Len(s) + 1) /\ t[Len(s) + 1] = e
      /\ \A i \in DOMAIN s : i \in DOMAIN t /\ t[i] = s[i]
      /\ \A i \in DOMAIN t : i \in DOMAIN s \/ i = Len(s) + 1
  BY <1>0, Appended
<1>2. /\ Len(s) \in Nat /\ \A i \in DOMAIN s : i \in Nat /\ i < Len(s) + 1 /\ i # Len(s) + 1
      /\ Len(s) + 1 \in DOMAIN t /\ Len(s) + 1 \notin DOMAIN s
  BY <1>1, Entries
<1> HIDE DEF t
<1>3. \A o, i : CommitAt(t, o, i) <=> CommitAt(s, o, i)
  BY <1>0, <1>1, <1>2 DEF CommitAt
<1>3a. \A o, i : CommitAt(s, o, i) => i \in DOMAIN s
  BY DEF CommitAt
<1>4. Numbered(t)
  BY <1>1, <1>3, <1>3a DEF Numbered
<1>5. EventsFollow(t)
  <2> SUFFICES ASSUME NEW i \in DOMAIN t, Scan!IsProjection(t[i])
               PROVE  \E c \in DOMAIN t : c < i /\ ~Scan!IsProjection(t[c]) /\ t[i] \in Scan!EventsOf(t[c])
    BY DEF EventsFollow
  <2>1. CASE i \in DOMAIN s
    <3>1. PICK c \in DOMAIN s : c < i /\ ~Scan!IsProjection(s[c]) /\ s[i] \in Scan!EventsOf(s[c])
      BY <1>1, <2>1 DEF EventsFollow
    <3> QED BY <1>1, <2>1, <3>1
  <2>2. CASE i = Len(s) + 1
    BY <1>1, <1>2, <2>2
  <2> QED BY <1>1, <2>1, <2>2
<1>6. EventsUnique(s) /\ ~InStream(s, e) => EventsUnique(t)
  <2> SUFFICES ASSUME EventsUnique(s), ~InStream(s, e),
                      NEW i \in DOMAIN t, NEW j \in DOMAIN t, Scan!IsProjection(t[i]), t[i] = t[j]
               PROVE  i = j
    BY DEF EventsUnique
  <2>1. CASE i \in DOMAIN s /\ j \in DOMAIN s
    BY <1>1, <2>1 DEF EventsUnique
  <2>2. CASE i \notin DOMAIN s \/ j \notin DOMAIN s
    BY <1>1, <2>2 DEF InStream
  <2> QED BY <2>1, <2>2
<1>7. \A o : NoCommit(t, o) <=> NoCommit(s, o)
  BY <1>1, <1>3, <1>3a DEF NoCommit
<1>8. \A o, c : LastCommit(t, o, c) <=> LastCommit(s, o, c)
  BY <1>1, <1>3, <1>3a DEF LastCommit
<1>9. \A f : InStream(t, f) <=> (InStream(s, f) \/ f = e)
  BY <1>1, <1>2 DEF InStream
<1> QED BY <1>1, <1>4, <1>5, <1>6, <1>7, <1>8, <1>9 DEF t

(* A fetch.                                                                *)
LEMMA SubSeqOf ==
  ASSUME NEW S, NEW q \in Seq(S), NEW a \in Nat \ {0}, NEW b \in Nat, a <= b + 1, b <= Len(q)
  PROVE  /\ SubSeq(q, a, b) \in Seq(S)
         /\ DOMAIN SubSeq(q, a, b) = 1..(b + 1 - a)
         /\ \A k \in 1..(b + 1 - a) : /\ k + a - 1 \in DOMAIN q
                                      /\ SubSeq(q, a, b)[k] = q[k + a - 1]
OBVIOUS

LEMMA ConcatOf ==
  ASSUME NEW S, NEW p \in Seq(S), NEW q \in Seq(S)
  PROVE  /\ p \o q \in Seq(S)
         /\ \A k \in DOMAIN (p \o q) : ToCome(p, (p \o q)[k]) \/ ToCome(q, (p \o q)[k])
         /\ \A i : ToCome(p, i) => ToCome(p \o q, i)
<1>1. /\ p \o q \in Seq(S) /\ Len(p) \in Nat /\ Len(q) \in Nat
      /\ DOMAIN p = 1..Len(p) /\ DOMAIN q = 1..Len(q)
      /\ DOMAIN (p \o q) = 1..(Len(p) + Len(q))
      /\ \A k \in DOMAIN p : (p \o q)[k] = p[k]
      /\ \A k \in 1..(Len(p) + Len(q)) : k > Len(p) => (p \o q)[k] = q[k - Len(p)]
  OBVIOUS
<1>2. ASSUME NEW k \in DOMAIN (p \o q)
      PROVE  ToCome(p, (p \o q)[k]) \/ ToCome(q, (p \o q)[k])
  <2>1. CASE k <= Len(p)
    BY <1>1, <2>1 DEF ToCome
  <2>2. CASE k > Len(p)
    <3>1. k - Len(p) \in DOMAIN q /\ (p \o q)[k] = q[k - Len(p)]
      BY <1>1, <2>2
    <3> QED BY <3>1 DEF ToCome
  <2> QED BY <1>1, <2>1, <2>2
<1>3. \A i : ToCome(p, i) => ToCome(p \o q, i)
  <2>1. \A k \in DOMAIN p : k \in DOMAIN (p \o q)
    BY <1>1
  <2> QED BY <1>1, <2>1 DEF ToCome
<1> QED BY <1>1, <1>2, <1>3

LEMMA BatchFacts ==
  ASSUME todo \in Seq(Nat)
  PROVE  /\ Len(todo) \in Nat /\ Scan!BatchSize \in Nat /\ Scan!BatchSize <= Len(todo)
         /\ Scan!BatchSize = 0 => \A i : ~ToCome(todo, i)
<1>1. Batch \in Nat \ {0} /\ Len(todo) \in Nat /\ DOMAIN todo = 1..Len(todo)
  BY ServiceAssumption DEF Scan!ScanAssumption
<1> QED BY <1>1 DEF Scan!BatchSize, ToCome

LEMMA FetchedQueues ==
  ASSUME todo \in Seq(Nat), unacked \in Seq(Nat),
         NEW n \in 0..Scan!BatchSize, NEW a \in 0..Scan!BatchSize, Scan!Fetched(n, a)
  PROVE  /\ todo' \in Seq(Nat) /\ unacked' \in Seq(Nat)
         /\ \A k \in DOMAIN todo' : ToCome(todo, todo'[k])
         /\ \A k \in DOMAIN unacked' : ToCome(todo, unacked'[k]) \/ ToCome(unacked, unacked'[k])
         /\ \A i \in Scan!ToSet(Scan!FirstOf(todo, n)) : ToCome(todo, i)
         /\ n = Scan!BatchSize =>
              \A i : ToCome(todo, i) => i \in Scan!ToSet(Scan!FirstOf(todo, n)) \/ ToCome(todo', i)
<1> DEFINE B == Scan!BatchSize
           first == SubSeq(todo, 1, n)
           rest == SubSeq(todo, B + 1, Len(todo))
           late == SubSeq(todo, a + 1, B)
<1>1. /\ Len(todo) \in Nat /\ B \in Nat /\ B <= Len(todo) /\ n \in Nat /\ a \in Nat
      /\ n <= B /\ a <= B /\ DOMAIN todo = 1..Len(todo)
  BY BatchFacts
<1>2. todo' = rest /\ unacked' = unacked \o late /\ Scan!FirstOf(todo, n) = first
  BY DEF Scan!Fetched, Scan!After, Scan!FirstOf
<1> HIDE DEF B
<1>3. /\ first \in Seq(Nat) /\ DOMAIN first = 1..n
      /\ \A k \in 1..n : k \in DOMAIN todo /\ first[k] = todo[k]
  <2>1. 1 \in Nat \ {0} /\ 1 <= n + 1 /\ n <= Len(todo) /\ n + 1 - 1 = n /\ \A k \in 1..n : k + 1 - 1 = k
    BY <1>1
  <2>2. /\ first \in Seq(Nat) /\ DOMAIN first = 1..(n + 1 - 1)
        /\ \A k \in 1..(n + 1 - 1) : k + 1 - 1 \in DOMAIN todo /\ first[k] = todo[k + 1 - 1]
    BY <1>1, <2>1, SubSeqOf
  <2> QED BY <2>1, <2>2
<1>4. /\ rest \in Seq(Nat) /\ DOMAIN rest = 1..(Len(todo) - B)
      /\ \A k \in DOMAIN rest : k + B \in DOMAIN todo /\ rest[k] = todo[k + B]
  <2> DEFINE L == Len(todo)
  <2>0. L \in Nat /\ B \in Nat /\ B <= L
    BY <1>1
  <2> HIDE DEF L
  <2>1. B + 1 \in Nat \ {0} /\ B + 1 <= L + 1 /\ L + 1 - (B + 1) = L - B /\ L <= L
    BY <2>0
  <2>2. /\ rest \in Seq(Nat) /\ DOMAIN rest = 1..(L + 1 - (B + 1))
        /\ \A k \in 1..(L + 1 - (B + 1)) :
             k + (B + 1) - 1 \in DOMAIN todo /\ rest[k] = todo[k + (B + 1) - 1]
    BY <2>0, <2>1, SubSeqOf DEF L
  <2>3. \A k \in 1..(L - B) : k + (B + 1) - 1 = k + B
    BY <2>0
  <2> QED BY <2>1, <2>2, <2>3 DEF L
<1>5. /\ late \in Seq(Nat)
      /\ \A k \in DOMAIN late : k + a \in DOMAIN todo /\ late[k] = todo[k + a]
  <2>1. a + 1 \in Nat \ {0} /\ a + 1 <= B + 1
    BY <1>1
  <2>2. /\ late \in Seq(Nat) /\ DOMAIN late = 1..(B + 1 - (a + 1))
        /\ \A k \in 1..(B + 1 - (a + 1)) :
             k + (a + 1) - 1 \in DOMAIN todo /\ late[k] = todo[k + (a + 1) - 1]
    BY <1>1, <2>1, SubSeqOf
  <2>3. \A k \in DOMAIN late : k + (a + 1) - 1 = k + a
    BY <1>1, <2>2
  <2> QED BY <2>2, <2>3
<1> HIDE DEF first, rest, late
<1>6. \A k \in DOMAIN todo' : ToCome(todo, todo'[k])
  BY <1>2, <1>4 DEF ToCome
<1>7. /\ unacked' \in Seq(Nat)
      /\ \A k \in DOMAIN unacked' : ToCome(todo, unacked'[k]) \/ ToCome(unacked, unacked'[k])
  <2>1. \A i : ToCome(late, i) => ToCome(todo, i)
    BY <1>5 DEF ToCome
  <2> QED BY <1>2, <1>5, <2>1, ConcatOf
<1>8. \A i \in Scan!ToSet(first) : ToCome(todo, i)
  BY <1>3 DEF ToCome, Scan!ToSet
<1>9. ASSUME n = B, NEW i, ToCome(todo, i) PROVE i \in Scan!ToSet(first) \/ ToCome(rest, i)
  <2>1. PICK k \in DOMAIN todo : todo[k] = i
    BY <1>9 DEF ToCome
  <2>2. CASE k <= n
    BY <1>1, <1>3, <2>1, <2>2 DEF Scan!ToSet
  <2>3. CASE k > n
    <3>1. k - B \in DOMAIN rest /\ k - B + B = k
      BY <1>1, <1>4, <1>9, <2>3
    <3> QED BY <1>4, <2>1, <3>1 DEF ToCome
  <2> QED BY <1>1, <2>1, <2>2, <2>3
<1> QED BY <1>2, <1>4, <1>6, <1>7, <1>8, <1>9 DEF B

NoRecoveryFaults == MaxRecoveryFaults = 0

LEMMA FetchedFaults ==
  ASSUME NoRecoveryFaults, scanFaults \in [{"recover", "repair", "acks"} -> Nat],
         NEW n \in 0..Scan!BatchSize, NEW a \in 0..Scan!BatchSize, Scan!Fetched(n, a)
  PROVE  /\ mode = "recover" => n = Scan!BatchSize /\ scanFaults'["repair"] = scanFaults["repair"]
         /\ mode = "repair" /\ scanFaults'["repair"] = 0 =>
              n = Scan!BatchSize /\ scanFaults["repair"] = 0
         /\ mode \in {"recover", "repair"} => scanFaults' \in [{"recover", "repair", "acks"} -> Nat]
<1> DEFINE B == Scan!BatchSize
<1>1. /\ n = B \/ scanFaults[mode] < Scan!FaultLimit[mode]
      /\ scanFaults' = [scanFaults EXCEPT
           ![mode] = IF n = B THEN scanFaults[mode] ELSE scanFaults[mode] + 1,
           !["acks"] = IF a = n THEN scanFaults["acks"] ELSE scanFaults["acks"] + 1]
  BY DEF Scan!Fetched
<1>2. Scan!FaultLimit["recover"] = 0 /\ scanFaults["recover"] \in Nat /\ scanFaults["repair"] \in Nat /\ scanFaults["acks"] \in Nat
  BY DEF Scan!FaultLimit, NoRecoveryFaults
<1> HIDE DEF B
<1>3. ASSUME mode = "recover"
      PROVE  n = B /\ scanFaults'["repair"] = scanFaults["repair"]
  <2>1. ~(scanFaults["recover"] < 0)
    BY <1>2
  <2> QED BY <1>1, <1>2, <1>3, <2>1
<1>4. ASSUME mode = "repair"
      PROVE  scanFaults'["repair"] = IF n = B THEN scanFaults["repair"] ELSE scanFaults["repair"] + 1
  BY <1>1, <1>4
<1>5. ASSUME mode = "repair", scanFaults'["repair"] = 0
      PROVE  n = B /\ scanFaults["repair"] = 0
  <2>1. scanFaults["repair"] + 1 # 0
    BY <1>2
  <2> QED BY <1>4, <1>5, <2>1
<1>6. ASSUME mode \in {"recover", "repair"}
      PROVE  scanFaults' \in [{"recover", "repair", "acks"} -> Nat]
  <2>1. scanFaults[mode] + 1 \in Nat /\ scanFaults[mode] \in Nat /\ scanFaults["acks"] + 1 \in Nat
    BY <1>2, <1>6
  <2>2. /\ (IF n = B THEN scanFaults[mode] ELSE scanFaults[mode] + 1) \in Nat
        /\ (IF a = n THEN scanFaults["acks"] ELSE scanFaults["acks"] + 1) \in Nat
    BY <1>2, <2>1
  <2> QED BY <1>1, <2>2
<1> QED BY <1>3, <1>5, <1>6 DEF B

(* The initial state, and the steps of the running process.                *)
LEMMA ScanInit_Inv == ASSUME Scan!BootInit PROVE ScanInv
<1>1. /\ scanned = <<>> /\ scanNumber = [o \in ScanObjects |-> 0]
      /\ owed = [o \in ScanObjects |-> {}] /\ mode = "up" /\ todo = <<>> /\ unacked = <<>>
      /\ commits = [o \in ScanObjects |-> 0] /\ missing = {}
      /\ scanFaults = [recover |-> 0, repair |-> 0, acks |-> 0]
  BY DEF Scan!BootInit
<1>2. DOMAIN scanned = {} /\ DOMAIN todo = {} /\ DOMAIN unacked = {}
  BY <1>1
<1>3. ScanTypes
  <2>1. scanFaults \in [{"recover", "repair", "acks"} -> Nat]
    BY <1>1
  <2> QED BY <1>1, <1>2, <2>1 DEF ScanTypes
<1>4. Numbered(scanned) /\ EventsFollow(scanned) /\ EventsUnique(scanned)
  BY <1>2 DEF Numbered, EventsFollow, EventsUnique
<1>5. RunningScan
  BY <1>1, <1>2 DEF RunningScan, Counted, NoCommit
<1>6. StoppedScan /\ FirstScan /\ AfterFirstScan
  BY <1>1 DEF StoppedScan, FirstScan, AfterFirstScan
<1>7. SecondScan
  BY <1>1, <1>4 DEF SecondScan
<1> QED BY <1>3, <1>4, <1>5, <1>6, <1>7 DEF ScanInv

(* A commit that is counted is the highest of its object.                  *)
LEMMA CountedIsHighest ==
  ASSUME NEW s \in Seq(Msg), Numbered(s), NEW o \in ScanObjects, NEW n, NEW due, Counted(s, o, n, due)
  PROVE  \A i \in DOMAIN s : CommitAt(s, o, i) => s[i].seq <= n
<1> SUFFICES ASSUME NEW i \in DOMAIN s, CommitAt(s, o, i) PROVE s[i].seq <= n
  OBVIOUS
<1>1. PICK c \in DOMAIN s : LastCommit(s, o, c) /\ n = s[c].seq
  BY DEF Counted, NoCommit
<1>2. i <= c /\ CommitAt(s, o, c)
  BY <1>1 DEF LastCommit
<1>3. s[i] \in Scan!Commit /\ s[i].seq \in Nat /\ i \in Nat /\ c \in Nat
  BY Entries, Messages DEF CommitAt
<1>4. CASE i = c
  BY <1>1, <1>3, <1>4
<1>5. CASE i # c
  <2>1. i < c
    BY <1>2, <1>3, <1>5
  <2>2. s[i].seq < s[c].seq
    BY <1>1, <1>2, <2>1 DEF Numbered
  <2>3. s[c].seq \in Nat
    BY <1>2, Entries, Messages DEF CommitAt
  <2> QED BY <1>1, <1>3, <2>2, <2>3
<1> QED BY <1>4, <1>5

(* What an object of another name has of its events does not change.       *)
LEMMA CountedStays ==
  ASSUME NEW s \in Seq(Msg), NEW t, NEW o \in ScanObjects, NEW n, NEW due, Counted(s, o, n, due),
         NoCommit(s, o) => NoCommit(t, o),
         \A c : LastCommit(s, o, c) => LastCommit(t, o, c) /\ t[c] = s[c],
         \A e \in Scan!Projection : e.obj = o => (InStream(t, e) <=> InStream(s, e))
  PROVE  Counted(t, o, n, due)
<1>1. CASE NoCommit(s, o) /\ n = 0 /\ due = {}
  BY <1>1 DEF Counted
<1>2. ASSUME NEW c \in DOMAIN s,
             LastCommit(s, o, c), n = s[c].seq, due \subseteq s[c].areas,
             \A a \in s[c].areas : InStream(s, [obj |-> o, seq |-> n, area |-> a]) <=> a \notin due
      PROVE  Counted(t, o, n, due)
  <2>1. LastCommit(t, o, c) /\ t[c] = s[c] /\ c \in DOMAIN t
    BY <1>2 DEF LastCommit, CommitAt
  <2>2. s[c] \in Scan!Commit /\ s[c].obj = o
    BY <1>2, Entries DEF LastCommit, CommitAt
  <2>3. \A a \in s[c].areas : LET e == [obj |-> o, seq |-> n, area |-> a] IN e \in Scan!Projection /\ e.obj = o
    BY <1>2, <2>2, Messages DEF Scan!Projection
  <2>4. \A a \in t[c].areas : InStream(t, [obj |-> o, seq |-> n, area |-> a]) <=> a \notin due
    BY <1>2, <2>1, <2>3
  <2> QED BY <1>2, <2>1, <2>4 DEF Counted
<1> QED BY <1>1, <1>2 DEF Counted

LEMMA WriteCommit_Inv ==
  ASSUME ScanInv, NEW o \in ScanObjects, NEW type \in CommitTypes, NEW areas \in SUBSET Areas,
         Scan!WriteCommit(o, type, areas)
  PROVE  ScanInv'
<1> DEFINE m == [obj |-> o, type |-> type, seq |-> scanNumber[o] + 1, areas |-> areas]
           n == Len(scanned) + 1
<1>0. ScanTypes /\ Numbered(scanned) /\ EventsFollow(scanned) /\ RunningScan /\ SecondScan
  BY DEF ScanInv
<1>1. /\ mode = "up" /\ owed[o] = {}
      /\ scanNumber' = [scanNumber EXCEPT ![o] = scanNumber[o] + 1]
      /\ owed' = [owed EXCEPT ![o] = areas]
      /\ scanned' = Append(scanned, m)
      /\ UNCHANGED <<mode, todo, unacked, commits, missing, scanFaults>>
  BY DEF Scan!WriteCommit, Scan!scanVars
<1>2. scanned \in Seq(Msg) /\ scanNumber \in [ScanObjects -> Nat] /\ owed \in [ScanObjects -> SUBSET Areas]
  BY <1>0 DEF ScanTypes, Msg
<1>3. scanNumber[o] \in Nat
  BY <1>2
<1>4. /\ m \in Scan!Commit /\ m.obj = o /\ m.seq = scanNumber[o] + 1 /\ m.areas = areas
  BY <1>3 DEF Scan!Commit
<1> HIDE DEF m
<1>5. Counted(scanned, o, scanNumber[o], {})
  BY <1>0, <1>1 DEF RunningScan
<1>6. \A i \in DOMAIN scanned : CommitAt(scanned, o, i) => scanned[i].seq < m.seq
  <2>1. \A i \in DOMAIN scanned : CommitAt(scanned, o, i) => scanned[i].seq <= scanNumber[o]
    BY <1>0, <1>2, <1>5, CountedIsHighest
  <2>2. \A i \in DOMAIN scanned : CommitAt(scanned, o, i) => scanned[i].seq \in Nat
    BY <1>2, Entries, Messages DEF CommitAt
  <2> QED BY <1>3, <1>4, <2>1, <2>2
<1>7. /\ scanned' \in Seq(Msg) /\ Numbered(scanned') /\ EventsFollow(scanned')
      /\ EventsUnique(scanned) => EventsUnique(scanned')
      /\ n \in DOMAIN scanned' /\ scanned'[n] = m
      /\ LastCommit(scanned', o, n)
      /\ \A p : p # o => /\ NoCommit(scanned, p) => NoCommit(scanned', p)
                         /\ \A c : LastCommit(scanned, p, c) => LastCommit(scanned', p, c) /\ scanned'[c] = scanned[c]
      /\ \A e \in Scan!Projection : InStream(scanned', e) <=> InStream(scanned, e)
  <2> HIDE DEF Msg, n
  <2>1. LET t == Append(scanned, m) IN
          /\ t \in Seq(Msg) /\ Numbered(t) /\ EventsFollow(t)
          /\ EventsUnique(scanned) => EventsUnique(t)
          /\ Len(scanned) + 1 \in DOMAIN t /\ t[Len(scanned) + 1] = m
          /\ LastCommit(t, m.obj, Len(scanned) + 1)
          /\ \A p : p # m.obj => /\ NoCommit(scanned, p) => NoCommit(t, p)
                                 /\ \A c : LastCommit(scanned, p, c) => LastCommit(t, p, c) /\ t[c] = scanned[c]
          /\ \A e \in Scan!Projection : InStream(t, e) <=> InStream(scanned, e)
    <3>1. \A i \in DOMAIN scanned : CommitAt(scanned, m.obj, i) => scanned[i].seq < m.seq
      BY <1>4, <1>6
    <3> QED BY <1>0, <1>2, <1>4, <3>1, AppendedCommit
  <2> QED BY <1>1, <1>4, <2>1 DEF n
<1> HIDE DEF n
<1>8. DOMAIN scanned \subseteq DOMAIN scanned'
  BY <1>1, <1>2, <1>4, Appended DEF Msg
<1>9. ScanTypes'
  <2>1. scanNumber' \in [ScanObjects -> Nat] /\ owed' \in [ScanObjects -> SUBSET Areas]
    BY <1>1, <1>2, <1>3
  <2> QED BY <1>0, <1>1, <1>7, <1>8, <2>1 DEF ScanTypes, Msg
<1>10. \A a \in areas : ~InStream(scanned, [obj |-> o, seq |-> m.seq, area |-> a])
  <2> SUFFICES ASSUME NEW a \in areas, NEW i \in DOMAIN scanned,
                      scanned[i] = [obj |-> o, seq |-> m.seq, area |-> a]
               PROVE  FALSE
    BY DEF InStream
  <2>1. scanned[i] \in Scan!Projection /\ scanned[i].obj = o /\ scanned[i].seq = m.seq
    BY <1>3, <1>4 DEF Scan!Projection
  <2>2. PICK b \in DOMAIN scanned : ~Scan!IsProjection(scanned[b]) /\ scanned[i] \in Scan!EventsOf(scanned[b])
    BY <1>0, <2>1, Messages DEF EventsFollow
  <2>3. scanned[b] \in Scan!Commit
    BY <1>2, <2>2, Entries
  <2>4. scanned[b].obj = o /\ scanned[b].seq = m.seq
    BY <2>1, <2>2, <2>3, EventsOfCommit
  <2>5. scanned[b].seq < m.seq /\ m.seq \in Nat
    BY <1>3, <1>4, <1>6, <2>2, <2>4 DEF CommitAt
  <2> QED BY <2>4, <2>5
<1>11. RunningScan'
  <2> SUFFICES ASSUME NEW p \in ScanObjects PROVE Counted(scanned', p, scanNumber'[p], owed'[p])
    BY DEF RunningScan
  <2>1. CASE p = o
    <3>1. scanNumber'[o] = m.seq /\ owed'[o] = areas
      BY <1>1, <1>2, <1>4
    <3>2. \A a \in areas : [obj |-> o, seq |-> m.seq, area |-> a] \in Scan!Projection
      BY <1>3, <1>4 DEF Scan!Projection
    <3>3. \A a \in areas : ~InStream(scanned', [obj |-> o, seq |-> m.seq, area |-> a])
      BY <1>7, <1>10, <3>2
    <3> QED BY <1>4, <1>7, <2>1, <3>1, <3>3 DEF Counted
  <2>2. CASE p # o
    <3>1. scanNumber'[p] = scanNumber[p] /\ owed'[p] = owed[p]
      BY <1>1, <1>2, <2>2
    <3>2. Counted(scanned, p, scanNumber[p], owed[p])
      BY <1>0, <1>1 DEF RunningScan
    <3> HIDE DEF Msg
    <3> QED BY <1>2, <1>7, <2>2, <3>1, <3>2, CountedStays
  <2> QED BY <2>1, <2>2
<1>12. StoppedScan' /\ FirstScan' /\ AfterFirstScan' /\ SecondScan'
  BY <1>0, <1>1, <1>7 DEF StoppedScan, FirstScan, AfterFirstScan, SecondScan
<1> QED BY <1>7, <1>9, <1>11, <1>12 DEF ScanInv

LEMMA WriteProjection_Inv ==
  ASSUME ScanInv, NEW o \in ScanObjects, NEW a \in Areas, Scan!WriteProjection(o, a)
  PROVE  ScanInv'
<1> DEFINE e == [obj |-> o, seq |-> scanNumber[o], area |-> a]
<1>0. ScanTypes /\ Numbered(scanned) /\ EventsFollow(scanned) /\ RunningScan /\ SecondScan
  BY DEF ScanInv
<1>1. /\ mode = "up" /\ a \in owed[o]
      /\ owed' = [owed EXCEPT ![o] = owed[o] \ {a}]
      /\ scanned' = Append(scanned, e)
      /\ UNCHANGED <<scanNumber, mode, todo, unacked, commits, missing, scanFaults>>
  BY DEF Scan!WriteProjection, Scan!scanVars
<1>2. scanned \in Seq(Msg) /\ scanNumber \in [ScanObjects -> Nat] /\ owed \in [ScanObjects -> SUBSET Areas]
  BY <1>0 DEF ScanTypes, Msg
<1>3. e \in Scan!Projection /\ e.obj = o /\ e.area = a
  BY <1>2 DEF Scan!Projection
<1>4. PICK c \in DOMAIN scanned :
        /\ LastCommit(scanned, o, c) /\ scanNumber[o] = scanned[c].seq
        /\ owed[o] \subseteq scanned[c].areas
        /\ \A x \in scanned[c].areas :
             InStream(scanned, [obj |-> o, seq |-> scanNumber[o], area |-> x]) <=> x \notin owed[o]
  BY <1>0, <1>1 DEF RunningScan, Counted
<1>5. scanned[c] \in Scan!Commit /\ scanned[c].obj = o /\ ~Scan!IsProjection(scanned[c])
  BY <1>2, <1>4, Entries DEF LastCommit, CommitAt
<1>6. e \in Scan!EventsOf(scanned[c]) /\ ~InStream(scanned, e)
  BY <1>1, <1>4, <1>5, EventsOfCommit
<1> HIDE DEF e
<1>7. /\ scanned' \in Seq(Msg) /\ Numbered(scanned') /\ EventsFollow(scanned')
      /\ EventsUnique(scanned) => EventsUnique(scanned')
      /\ DOMAIN scanned \subseteq DOMAIN scanned'
      /\ \A i \in DOMAIN scanned : scanned'[i] = scanned[i]
      /\ \A p : NoCommit(scanned', p) <=> NoCommit(scanned, p)
      /\ \A p, d : LastCommit(scanned', p, d) <=> LastCommit(scanned, p, d)
      /\ \A f : InStream(scanned', f) <=> (InStream(scanned, f) \/ f = e)
  BY <1>0, <1>1, <1>2, <1>3, <1>5, <1>6, AppendedEvent
<1>8. ScanTypes'
  <2>1. owed' \in [ScanObjects -> SUBSET Areas]
    BY <1>1, <1>2
  <2> QED BY <1>0, <1>1, <1>7, <2>1 DEF ScanTypes, Msg
<1>9. RunningScan'
  <2> SUFFICES ASSUME NEW p \in ScanObjects PROVE Counted(scanned', p, scanNumber[p], owed'[p])
    BY <1>1 DEF RunningScan
  <2>1. CASE p = o
    <3>1. owed'[o] = owed[o] \ {a}
      BY <1>1, <1>2
    <3>2. \A x : [obj |-> o, seq |-> scanNumber[o], area |-> x] = e <=> x = a
      BY DEF e
    <3>3. \A x \in scanned[c].areas :
            InStream(scanned', [obj |-> o, seq |-> scanNumber[o], area |-> x]) <=> x \notin owed'[o]
      BY <1>4, <1>7, <3>1, <3>2
    <3> QED BY <1>4, <1>7, <2>1, <3>1, <3>3 DEF Counted
  <2>2. CASE p # o
    <3>1. owed'[p] = owed[p]
      BY <1>1, <1>2, <2>2
    <3>2. Counted(scanned, p, scanNumber[p], owed[p])
      BY <1>0, <1>1 DEF RunningScan
    <3>3. \A f \in Scan!Projection : f.obj = p => (InStream(scanned', f) <=> InStream(scanned, f))
      BY <1>3, <1>7, <2>2
    <3>4. \A d : LastCommit(scanned, p, d) => LastCommit(scanned', p, d) /\ scanned'[d] = scanned[d]
      BY <1>7 DEF LastCommit, CommitAt
    <3> HIDE DEF Msg
    <3> QED BY <1>2, <1>7, <2>2, <3>1, <3>2, <3>3, <3>4, CountedStays
  <2> QED BY <2>1, <2>2
<1>10. StoppedScan' /\ FirstScan' /\ AfterFirstScan' /\ SecondScan'
  BY <1>0, <1>1, <1>7 DEF StoppedScan, FirstScan, AfterFirstScan, SecondScan
<1> QED BY <1>7, <1>8, <1>9, <1>10 DEF ScanInv

(* The steps of a boot.                                                    *)
LEMMA Crash_Inv == ASSUME ScanInv, Scan!Crash PROVE ScanInv'
<1>1. /\ mode' = "down" /\ UNCHANGED <<scanned, scanFaults>>
      /\ scanNumber' = [o \in ScanObjects |-> 0] /\ owed' = [o \in ScanObjects |-> {}]
      /\ todo' = <<>> /\ unacked' = <<>>
      /\ commits' = [o \in ScanObjects |-> 0] /\ missing' = {}
  BY DEF Scan!Crash, Scan!MemoryLost
<1>2. ScanTypes /\ Numbered(scanned) /\ EventsFollow(scanned) /\ SecondScan
  BY DEF ScanInv
<1>3. ScanTypes'
  BY <1>1, <1>2 DEF ScanTypes
<1>4. RunningScan' /\ StoppedScan' /\ FirstScan' /\ AfterFirstScan'
  BY <1>1 DEF RunningScan, StoppedScan, FirstScan, AfterFirstScan
<1>5. SecondScan'
  BY <1>1, <1>2 DEF SecondScan
<1> QED BY <1>1, <1>2, <1>3, <1>4, <1>5 DEF ScanInv

LEMMA Positions ==
  ASSUME NEW s \in Seq(Msg), NEW P \in SUBSET (DOMAIN s)
  PROVE  P \in SUBSET Nat /\ IsFiniteSet(P)
<1>1. DOMAIN s = 1..Len(s) /\ Len(s) \in Nat
  BY Entries
<1>2. IsFiniteSet(1..Len(s))
  BY <1>1, FS_Interval
<1>3. IsFiniteSet(P)
  BY <1>1, <1>2, FS_Subset
<1> QED BY <1>1, <1>3

LEMMA StartRecovery_Inv == ASSUME ScanInv, Scan!StartRecovery PROVE ScanInv'
<1> DEFINE P == Scan!LastPerSubject
<1>0. ScanTypes /\ Numbered(scanned) /\ EventsFollow(scanned) /\ StoppedScan /\ SecondScan
  BY DEF ScanInv
<1>1. /\ mode = "down" /\ mode' = "recover" /\ todo' = Scan!InOrder(P)
      /\ UNCHANGED <<scanned, scanNumber, owed, unacked, commits, missing, scanFaults>>
  BY DEF Scan!StartRecovery
<1>2. scanned \in Seq(Msg)
  BY <1>0 DEF ScanTypes, Msg
<1>3. P \in SUBSET (DOMAIN scanned) /\ \A i \in P : ~Scan!IsProjection(scanned[i])
  BY DEF Scan!LastPerSubject, Scan!Commits
<1>4. ASSUME NEW o \in ScanObjects, NEW c \in DOMAIN scanned, LastCommit(scanned, o, c) PROVE c \in P
  <2>1. c \in Scan!Commits /\ scanned[c].obj = o
    BY <1>4 DEF LastCommit, CommitAt, Scan!Commits
  <2>2. ASSUME NEW j \in Scan!Commits, j > c PROVE scanned[j].obj # scanned[c].obj
    <3> SUFFICES ASSUME scanned[j].obj = o PROVE FALSE
      BY <2>1
    <3>1. j <= c
      BY <1>4 DEF LastCommit, CommitAt, Scan!Commits
    <3>2. j \in Nat /\ c \in Nat
      BY <1>2, Entries DEF Scan!Commits
    <3> QED BY <2>2, <3>1, <3>2
  <2> QED BY <2>1, <2>2 DEF Scan!LastPerSubject
<1> HIDE DEF P
<1>5. P \in SUBSET Nat /\ IsFiniteSet(P)
  BY <1>2, <1>3, Positions
<1>6. /\ todo' \in Seq(Nat) /\ \A k \in DOMAIN todo' : todo'[k] \in P
      /\ \A i \in P : ToCome(todo', i)
  BY <1>1, <1>5, InOrderIsAll
<1>7. unacked = <<>> /\ DOMAIN unacked = {} /\ \A o \in ScanObjects : commits[o] = 0
  BY <1>0, <1>1 DEF StoppedScan
<1>8. ScanTypes'
  BY <1>0, <1>1, <1>3, <1>6 DEF ScanTypes
<1>9. FirstScan'
  BY <1>1, <1>3, <1>4, <1>6, <1>7 DEF FirstScan
<1>10. RunningScan' /\ StoppedScan' /\ AfterFirstScan' /\ SecondScan'
  BY <1>0, <1>1 DEF RunningScan, StoppedScan, AfterFirstScan, SecondScan
<1> QED BY <1>0, <1>1, <1>8, <1>9, <1>10 DEF ScanInv

LEMMA RecoverFetch_Inv == ASSUME NoRecoveryFaults, ScanInv, Scan!RecoverFetch PROVE ScanInv'
<1>0. ScanTypes /\ Numbered(scanned) /\ EventsFollow(scanned) /\ StoppedScan /\ FirstScan /\ SecondScan
  BY DEF ScanInv
<1>1. PICK n \in 0..Scan!BatchSize, a \in 0..Scan!BatchSize :
        /\ Scan!Fetched(n, a)
        /\ commits' = [o \in ScanObjects |-> Scan!Taken(o, Scan!FirstOf(todo, n))]
        /\ mode' = IF n = 0 THEN "recovered" ELSE "recover"
  BY DEF Scan!RecoverFetch
<1>2. mode = "recover" /\ UNCHANGED <<scanned, scanNumber, owed, missing>>
  BY DEF Scan!RecoverFetch
<1> DEFINE got == Scan!ToSet(Scan!FirstOf(todo, n))
<1>3. /\ todo \in Seq(Nat) /\ unacked \in Seq(Nat) /\ scanned \in Seq(Msg)
      /\ scanFaults \in [{"recover", "repair", "acks"} -> Nat]
      /\ commits \in [ScanObjects -> Nat]
  BY <1>0 DEF ScanTypes, Msg
<1>4. /\ todo' \in Seq(Nat) /\ unacked' \in Seq(Nat)
      /\ \A k \in DOMAIN todo' : ToCome(todo, todo'[k])
      /\ \A k \in DOMAIN unacked' : ToCome(todo, unacked'[k]) \/ ToCome(unacked, unacked'[k])
      /\ \A i \in got : ToCome(todo, i)
      /\ n = Scan!BatchSize => \A i : ToCome(todo, i) => i \in got \/ ToCome(todo', i)
  BY <1>1, <1>3, FetchedQueues
<1>5. /\ n = Scan!BatchSize /\ scanFaults'["repair"] = scanFaults["repair"]
      /\ scanFaults' \in [{"recover", "repair", "acks"} -> Nat]
  BY <1>1, <1>2, <1>3, FetchedFaults
<1>6. /\ \A i : ToCome(todo, i) => i \in DOMAIN scanned /\ ~Scan!IsProjection(scanned[i])
      /\ \A i : ToCome(unacked, i) => i \in DOMAIN scanned /\ ~Scan!IsProjection(scanned[i])
  BY <1>0, <1>2 DEF ScanTypes, FirstScan, ToCome
<1> HIDE DEF got
<1>7. ASSUME NEW o \in ScanObjects
      PROVE  /\ commits'[o] \in Nat /\ commits[o] <= commits'[o]
             /\ commits'[o] = 0 \/ CommitAt(scanned, o, commits'[o])
             /\ \A i \in got : CommitAt(scanned, o, i) => i <= commits'[o]
  <2> DEFINE H == {commits[o]} \cup {i \in got : scanned[i].obj = o}
  <2>1. commits'[o] = Scan!Max(H)
    BY <1>1 DEF Scan!Taken, got
  <2>2. commits[o] = 0 \/ CommitAt(scanned, o, commits[o])
    BY <1>0, <1>2 DEF FirstScan
  <2>3. H \in SUBSET (0..Len(scanned)) /\ H # {} /\ Len(scanned) \in Nat
    <3>1. DOMAIN scanned = 1..Len(scanned) /\ Len(scanned) \in Nat
      BY <1>3, Entries
    <3>2. \A i \in got : i \in DOMAIN scanned
      BY <1>4, <1>6
    <3> QED BY <2>2, <3>1, <3>2 DEF CommitAt
  <2>4. \A x \in H : x = 0 \/ CommitAt(scanned, o, x)
    BY <1>4, <1>6, <2>2 DEF CommitAt
  <2>5. commits[o] \in H /\ \A i \in got : CommitAt(scanned, o, i) => i \in H
    BY DEF CommitAt
  <2> HIDE DEF H
  <2>6. \E x \in H : \A y \in H : y <= x
    BY <2>3, HasLast
  <2>7. \E x \in H : \A y \in H : x >= y
    BY <2>3, <2>6
  <2>8. commits'[o] \in H /\ \A y \in H : commits'[o] >= y
    BY <2>1, <2>7 DEF Scan!Max
  <2>9. \A y \in H : y <= commits'[o]
    BY <2>3, <2>8
  <2>10. commits'[o] \in Nat
    <3>1. \A x \in H : x \in 0..Len(scanned)
      BY <2>3
    <3>2. commits'[o] \in 0..Len(scanned)
      BY <2>8, <3>1
    <3> QED BY <3>2
  <2>11. commits'[o] = 0 \/ CommitAt(scanned, o, commits'[o])
    BY <2>4, <2>8
  <2>12. commits[o] <= commits'[o] /\ \A i \in got : CommitAt(scanned, o, i) => i <= commits'[o]
    BY <2>5, <2>9
  <2> QED BY <2>10, <2>11, <2>12
<1>8. ScanTypes'
  <2>1. commits' \in [ScanObjects -> Nat]
    BY <1>1, <1>7
  <2>2. /\ \A k \in DOMAIN todo' : todo'[k] \in DOMAIN scanned
        /\ \A k \in DOMAIN unacked' : unacked'[k] \in DOMAIN scanned
    BY <1>4, <1>6
  <2> QED BY <1>0, <1>2, <1>4, <1>5, <2>1, <2>2 DEF ScanTypes
<1>9. \A o \in ScanObjects, c \in DOMAIN scanned :
        LastCommit(scanned, o, c) => c <= commits'[o] \/ ToCome(todo', c)
  <2> SUFFICES ASSUME NEW o \in ScanObjects, NEW c \in DOMAIN scanned, LastCommit(scanned, o, c),
                      ~ToCome(todo', c)
               PROVE  c <= commits'[o]
    OBVIOUS
  <2>1. CASE c <= commits[o]
    <3>1. c \in Nat /\ commits[o] \in Nat
      BY <1>3, Entries
    <3> QED BY <1>7, <2>1, <3>1
  <2>2. CASE ToCome(todo, c)
    <3>1. c \in got
      BY <1>4, <1>5, <2>2
    <3> QED BY <1>7, <3>1 DEF LastCommit
  <2> QED BY <1>0, <1>2, <2>1, <2>2 DEF FirstScan
<1>10. FirstScan'
  <2>1. /\ \A k \in DOMAIN todo' : ~Scan!IsProjection(scanned[todo'[k]])
        /\ \A k \in DOMAIN unacked' : ~Scan!IsProjection(scanned[unacked'[k]])
    BY <1>4, <1>6
  <2> QED BY <1>2, <1>7, <1>9, <2>1 DEF FirstScan
<1>11. AfterFirstScan'
  <2> SUFFICES ASSUME n = 0, NEW o \in ScanObjects PROVE Recovered(scanned, o, commits'[o])
    BY <1>1, <1>2 DEF AfterFirstScan
  <2>1. \A i : ~ToCome(todo, i)
    BY <1>3, <1>5, BatchFacts
  <2>2. \A c \in DOMAIN scanned : LastCommit(scanned, o, c) => c <= commits'[o]
    BY <1>4, <1>9, <2>1 DEF ToCome
  <2>3. CASE NoCommit(scanned, o)
    BY <1>7, <2>3 DEF NoCommit, CommitAt, Recovered
  <2>4. CASE ~NoCommit(scanned, o)
    <3>1. PICK c \in DOMAIN scanned : LastCommit(scanned, o, c)
      BY <1>3, <2>4, LastCommitExists
    <3>2. c \in Nat /\ c # 0 /\ commits'[o] \in Nat /\ c <= commits'[o]
      BY <1>3, <1>7, <2>2, <3>1, Entries
    <3>3. CommitAt(scanned, o, commits'[o]) /\ commits'[o] <= c
      BY <1>7, <3>1, <3>2 DEF LastCommit, CommitAt
    <3>4. commits'[o] = c
      BY <3>2, <3>3
    <3> QED BY <3>1, <3>4 DEF Recovered
  <2> QED BY <2>3, <2>4
<1>12. RunningScan' /\ StoppedScan'
  BY <1>0, <1>1, <1>2 DEF RunningScan, StoppedScan
<1>13. SecondScan'
  BY <1>0, <1>1, <1>2, <1>5 DEF SecondScan
<1> QED BY <1>0, <1>2, <1>8, <1>10, <1>11, <1>12, <1>13 DEF ScanInv

LEMMA FetchFails_Inv == ASSUME NoRecoveryFaults, ScanInv, Scan!FetchFails PROVE ScanInv'
<1>0. ScanTypes /\ Numbered(scanned) /\ EventsFollow(scanned) /\ StoppedScan /\ AfterFirstScan /\ SecondScan
  BY DEF ScanInv
<1>1. /\ mode \in {"recover", "repair"} /\ scanFaults[mode] < Scan!FaultLimit[mode]
      /\ scanFaults' = [scanFaults EXCEPT ![mode] = scanFaults[mode] + 1]
      /\ mode' = IF mode = "recover" THEN "recovered" ELSE "publish"
      /\ UNCHANGED <<scanned, scanNumber, owed, todo, unacked, commits, missing>>
  BY DEF Scan!FetchFails, Scan!scanVars
<1>2. scanFaults \in [{"recover", "repair", "acks"} -> Nat]
  BY <1>0 DEF ScanTypes
<1>3. scanFaults["recover"] \in Nat /\ Scan!FaultLimit["recover"] = 0 /\ scanFaults["repair"] \in Nat
  BY <1>2 DEF NoRecoveryFaults, Scan!FaultLimit
<1>4. ~(scanFaults["recover"] < 0)
  BY <1>3
<1>5. mode = "repair" /\ mode' = "publish"
  BY <1>1, <1>3, <1>4
<1>6. /\ scanFaults' \in [{"recover", "repair", "acks"} -> Nat]
      /\ scanFaults'["repair"] = scanFaults["repair"] + 1
  <2>1. scanFaults' = [scanFaults EXCEPT !["repair"] = scanFaults["repair"] + 1]
    BY <1>1, <1>5
  <2>2. scanFaults["repair"] + 1 \in Nat
    BY <1>3
  <2> QED BY <1>2, <2>1, <2>2
<1>7. scanFaults'["repair"] # 0
  BY <1>3, <1>6
<1>8. ScanTypes'
  BY <1>0, <1>1, <1>6 DEF ScanTypes
<1>9. RunningScan' /\ StoppedScan' /\ FirstScan' /\ AfterFirstScan' /\ SecondScan'
  BY <1>0, <1>1, <1>5, <1>7 DEF RunningScan, StoppedScan, FirstScan, AfterFirstScan, SecondScan
<1> QED BY <1>0, <1>1, <1>8, <1>9 DEF ScanInv

LEMMA Redeliver_Inv == ASSUME ScanInv, Scan!Redeliver PROVE ScanInv'
<1>0. /\ ScanTypes /\ Numbered(scanned) /\ EventsFollow(scanned)
      /\ RunningScan /\ StoppedScan /\ FirstScan /\ AfterFirstScan /\ SecondScan
  BY DEF ScanInv
<1>1. /\ unacked # <<>> /\ todo' = todo \o unacked /\ unacked' = <<>>
      /\ UNCHANGED <<scanned, scanNumber, owed, mode, commits, missing, scanFaults>>
  BY DEF Scan!Redeliver
<1>2. todo \in Seq(Nat) /\ unacked \in Seq(Nat) /\ DOMAIN unacked' = {}
  BY <1>0, <1>1 DEF ScanTypes
<1>3. /\ todo' \in Seq(Nat)
      /\ \A k \in DOMAIN todo' : ToCome(todo, todo'[k]) \/ ToCome(unacked, todo'[k])
      /\ \A i : ToCome(todo, i) => ToCome(todo', i)
  BY <1>1, <1>2, ConcatOf
<1>4. ScanTypes'
  BY <1>0, <1>1, <1>2, <1>3 DEF ScanTypes, ToCome
<1>5. FirstScan'
  <2>1. mode = "recover" => \A k \in DOMAIN todo' : ~Scan!IsProjection(scanned[todo'[k]])
    BY <1>0, <1>3 DEF FirstScan, ToCome
  <2> QED BY <1>0, <1>1, <1>2, <1>3, <2>1 DEF FirstScan
<1>6. SecondScan'
  BY <1>0, <1>1, <1>3 DEF SecondScan
<1>7. RunningScan' /\ AfterFirstScan' /\ StoppedScan'
  BY <1>0, <1>1 DEF RunningScan, StoppedScan, AfterFirstScan
<1> QED BY <1>0, <1>1, <1>4, <1>5, <1>6, <1>7 DEF ScanInv

LEMMA StartRepair_Inv == ASSUME ScanInv, Scan!StartRepair PROVE ScanInv'
<1> DEFINE E == Scan!Expected
           P == {i \in DOMAIN scanned : Scan!IsProjection(scanned[i]) /\ i >= Scan!StartSeq}
<1>0. ScanTypes /\ Numbered(scanned) /\ EventsFollow(scanned) /\ StoppedScan /\ AfterFirstScan /\ SecondScan
  BY DEF ScanInv
<1>1. /\ mode = "recovered" /\ missing' = E /\ unacked' = <<>>
      /\ \/ E = {} /\ mode' = "publish" /\ todo' = <<>>
         \/ mode' = "repair" /\ todo' = Scan!InOrder(P)
      /\ UNCHANGED <<scanned, scanNumber, owed, commits, scanFaults>>
  BY DEF Scan!StartRepair
<1>2. scanned \in Seq(Msg) /\ commits \in [ScanObjects -> Nat]
  BY <1>0 DEF ScanTypes, Msg
<1>3. \A o \in ScanObjects : Recovered(scanned, o, commits[o])
  BY <1>0, <1>1 DEF AfterFirstScan
<1>4. ASSUME NEW e \in E
      PROVE  \E o \in ScanObjects : /\ LastCommit(scanned, o, commits[o]) /\ commits[o] \in DOMAIN scanned
                                    /\ commits[o] # 0 /\ scanned[commits[o]] \in Scan!Commit
                                    /\ e \in Scan!EventsOf(scanned[commits[o]])
  <2>1. PICK o \in ScanObjects : commits[o] # 0 /\ e \in Scan!EventsOf(scanned[commits[o]])
    BY <1>4 DEF Scan!Expected
  <2>2. LastCommit(scanned, o, commits[o])
    BY <1>3, <2>1 DEF Recovered
  <2>3. commits[o] \in DOMAIN scanned /\ scanned[commits[o]] \in Scan!Commit
    BY <1>2, <2>2, Entries DEF LastCommit, CommitAt
  <2> QED BY <2>1, <2>2, <2>3
<1>5. E \subseteq Scan!Projection
  <2> HIDE DEF E
  <2> QED BY <1>4, EventsOfCommit
<1>6. AreMissing(scanned, E)
  <2>1. ASSUME NEW o \in ScanObjects, NEW c \in DOMAIN scanned, LastCommit(scanned, o, c),
               NEW e \in Scan!EventsOf(scanned[c])
        PROVE  e \in E
    <3>1. ~NoCommit(scanned, o)
      BY <2>1 DEF NoCommit, LastCommit
    <3>2. commits[o] = c
      BY <1>2, <1>3, <2>1, <3>1, LastCommitIsOne DEF Recovered
    <3>3. c # 0
      BY <1>2, Entries
    <3> QED BY <3>2, <3>3 DEF Scan!Expected
  <2> HIDE DEF E
  <2> QED BY <1>4, <2>1 DEF AreMissing
<1>7. P \in SUBSET (DOMAIN scanned)
  OBVIOUS
<1>8. \A i \in DOMAIN scanned : scanned[i] \in E => i \in P
  <2> SUFFICES ASSUME NEW i \in DOMAIN scanned, scanned[i] \in E PROVE i \in P
    OBVIOUS
  <2>1. PICK o \in ScanObjects : /\ LastCommit(scanned, o, commits[o]) /\ commits[o] \in DOMAIN scanned
                                 /\ commits[o] # 0 /\ scanned[commits[o]] \in Scan!Commit
                                 /\ scanned[i] \in Scan!EventsOf(scanned[commits[o]])
    BY <1>4
  <2> DEFINE C == {commits[p] : p \in {p \in ScanObjects : commits[p] # 0 /\ scanned[commits[p]].areas # {}}}
             c == commits[o]
  <2>2. scanned[i] \in Scan!Projection /\ Scan!IsProjection(scanned[i])
    BY <2>1, EventsOfCommit, Messages
  <2>3. scanned[c].areas # {}
    BY <2>1, EventsOfCommit
  <2>4. c \in C /\ C \in SUBSET Nat
    BY <1>2, <2>1, <2>3
  <2>5. Scan!StartSeq = 1 + Scan!Min(C)
    BY DEF Scan!StartSeq
  <2> HIDE DEF C
  <2>6. Scan!Min(C) \in Nat /\ Scan!Min(C) <= c
    <3>1. \E m \in C : \A x \in C : m <= x
      BY <2>4, HasFirst
    <3>2. Scan!Min(C) \in C /\ \A x \in C : Scan!Min(C) <= x
      BY <3>1 DEF Scan!Min
    <3> QED BY <2>4, <3>2
  <2>7. PICK b \in DOMAIN scanned : b < i /\ ~Scan!IsProjection(scanned[b]) /\ scanned[i] \in Scan!EventsOf(scanned[b])
    BY <1>0, <2>2 DEF EventsFollow
  <2>8. b = c
    <3>1. scanned[b] \in Scan!Commit
      BY <1>2, <2>7, Entries
    <3>2. scanned[b].obj = scanned[c].obj /\ scanned[b].seq = scanned[c].seq
      BY <2>1, <2>7, <3>1, EventsOfCommit
    <3>3. CommitAt(scanned, o, b) /\ CommitAt(scanned, o, c)
      BY <2>1, <2>7, <3>2 DEF LastCommit, CommitAt
    <3>4. b <= c
      BY <2>1, <3>3 DEF LastCommit
    <3>5. ~(b < c)
      <4>1. scanned[b].seq \in Nat
        BY <3>1, Messages
      <4>2. ~(scanned[b].seq < scanned[c].seq)
        BY <3>2, <4>1
      <4> QED BY <1>0, <2>1, <3>3, <4>2 DEF Numbered
    <3>6. b \in Nat /\ c \in Nat
      BY <1>2, <2>1, Entries
    <3> QED BY <3>4, <3>5, <3>6
  <2>9. i \in Nat /\ c \in Nat /\ c < i
    BY <1>2, <2>1, <2>7, <2>8, Entries
  <2> HIDE DEF c
  <2>10. i >= 1 + Scan!Min(C)
    BY <2>6, <2>9
  <2> QED BY <2>2, <2>5, <2>10
<1> HIDE DEF P, E
<1>9. /\ Scan!InOrder(P) \in Seq(Nat)
      /\ \A k \in DOMAIN Scan!InOrder(P) : Scan!InOrder(P)[k] \in P
      /\ \A i \in P : ToCome(Scan!InOrder(P), i)
  BY <1>2, <1>7, Positions, InOrderIsAll
<1>10. /\ todo' \in Seq(Nat) /\ \A k \in DOMAIN todo' : todo'[k] \in DOMAIN scanned
       /\ unacked' \in Seq(Nat) /\ DOMAIN unacked' = {}
  <2>1. unacked' \in Seq(Nat) /\ DOMAIN unacked' = {}
    BY <1>1
  <2>2. CASE todo' = <<>>
    <3>1. DOMAIN todo' = {} /\ todo' \in Seq(Nat)
      BY <2>2
    <3> QED BY <2>1, <3>1
  <2>3. CASE todo' = Scan!InOrder(P)
    <3>1. \A k \in DOMAIN todo' : todo'[k] \in P
      BY <1>9, <2>3
    <3> QED BY <1>7, <1>9, <2>1, <2>3, <3>1
  <2> QED BY <1>1, <2>2, <2>3
<1>11. ScanTypes'
  BY <1>0, <1>1, <1>5, <1>10 DEF ScanTypes
<1>12. AfterFirstScan'
  BY <1>1, <1>3 DEF AfterFirstScan
<1>13. SecondScan'
  BY <1>0, <1>1, <1>6, <1>8, <1>9 DEF SecondScan
<1>14. RunningScan' /\ StoppedScan' /\ FirstScan'
  BY <1>0, <1>1 DEF RunningScan, StoppedScan, FirstScan
<1> QED BY <1>0, <1>1, <1>11, <1>12, <1>13, <1>14 DEF ScanInv

LEMMA RepairFetch_Inv == ASSUME NoRecoveryFaults, ScanInv, Scan!RepairFetch PROVE ScanInv'
<1>0. ScanTypes /\ Numbered(scanned) /\ EventsFollow(scanned) /\ StoppedScan /\ AfterFirstScan /\ SecondScan
  BY DEF ScanInv
<1>1. PICK n \in 0..Scan!BatchSize, a \in 0..Scan!BatchSize :
        /\ Scan!Fetched(n, a)
        /\ missing' = {e \in missing : ~Scan!Found(e, Scan!FirstOf(todo, n))}
        /\ mode' = IF n = 0 THEN "publish" ELSE "repair"
  BY DEF Scan!RepairFetch
<1>2. mode = "repair" /\ UNCHANGED <<scanned, scanNumber, owed, commits>>
  BY DEF Scan!RepairFetch
<1> DEFINE got == Scan!ToSet(Scan!FirstOf(todo, n))
<1>3. /\ todo \in Seq(Nat) /\ unacked \in Seq(Nat)
      /\ scanFaults \in [{"recover", "repair", "acks"} -> Nat]
  BY <1>0 DEF ScanTypes
<1>4. /\ todo' \in Seq(Nat) /\ unacked' \in Seq(Nat)
      /\ \A k \in DOMAIN todo' : ToCome(todo, todo'[k])
      /\ \A k \in DOMAIN unacked' : ToCome(todo, unacked'[k]) \/ ToCome(unacked, unacked'[k])
      /\ \A i \in got : ToCome(todo, i)
      /\ n = Scan!BatchSize => \A i : ToCome(todo, i) => i \in got \/ ToCome(todo', i)
  BY <1>1, <1>3, FetchedQueues
<1>5. /\ scanFaults'["repair"] = 0 => n = Scan!BatchSize /\ scanFaults["repair"] = 0
      /\ scanFaults' \in [{"recover", "repair", "acks"} -> Nat]
  BY <1>1, <1>2, <1>3, FetchedFaults
<1>6. missing' = {e \in missing : ~\E i \in got : scanned[i] = e}
  BY <1>1 DEF Scan!Found
<1> HIDE DEF got
<1>7. /\ \A i : ToCome(todo, i) => i \in DOMAIN scanned
      /\ \A i : ToCome(unacked, i) => i \in DOMAIN scanned
  BY <1>0 DEF ScanTypes, ToCome
<1>8. ScanTypes'
  <2>1. missing' \subseteq Scan!Projection
    BY <1>0, <1>6 DEF ScanTypes
  <2>2. /\ \A k \in DOMAIN todo' : todo'[k] \in DOMAIN scanned
        /\ \A k \in DOMAIN unacked' : unacked'[k] \in DOMAIN scanned
    BY <1>4, <1>7
  <2> QED BY <1>0, <1>2, <1>4, <1>5, <2>1, <2>2 DEF ScanTypes
<1>9. AreMissing(scanned, missing')
  <2>1. AreMissing(scanned, missing)
    BY <1>0, <1>2 DEF SecondScan
  <2>2. \A e \in missing : e \notin missing' => InStream(scanned, e)
    BY <1>4, <1>6, <1>7 DEF InStream
  <2>3. missing' \subseteq missing
    BY <1>6
  <2> QED BY <2>1, <2>2, <2>3 DEF AreMissing
<1>10. ASSUME scanFaults'["repair"] = 0
       PROVE  /\ EventsUnique(scanned)
              /\ \A i \in DOMAIN scanned : scanned[i] \in missing' => ToCome(todo', i)
              /\ n = 0 => \A i : ~ToCome(todo, i)
  <2>1. /\ EventsUnique(scanned) /\ n = Scan!BatchSize
        /\ \A i \in DOMAIN scanned : scanned[i] \in missing => ToCome(todo, i)
    BY <1>0, <1>2, <1>5, <1>10 DEF SecondScan
  <2>2. \A i \in DOMAIN scanned : scanned[i] \in missing' => ToCome(todo', i)
    BY <1>4, <1>6, <2>1
  <2>3. n = 0 => \A i : ~ToCome(todo, i)
    BY <1>3, <2>1, BatchFacts
  <2> QED BY <2>1, <2>2, <2>3
<1>11. SecondScan'
  <2>1. ASSUME scanFaults'["repair"] = 0, n = 0 PROVE \A i \in DOMAIN scanned : scanned[i] \notin missing'
    BY <1>4, <1>10, <2>1 DEF ToCome
  <2>2. mode' = "publish" => n = 0
    BY <1>1
  <2> QED BY <1>2, <1>9, <1>10, <2>1, <2>2 DEF SecondScan
<1>12. mode' # "up" /\ mode' # "down" /\ mode' # "recover"
  BY <1>1
<1>13. RunningScan' /\ StoppedScan' /\ FirstScan' /\ AfterFirstScan'
  BY <1>0, <1>2, <1>12 DEF RunningScan, StoppedScan, FirstScan, AfterFirstScan
<1> QED BY <1>0, <1>2, <1>8, <1>11, <1>13 DEF ScanInv

LEMMA RepairProjection_Inv ==
  ASSUME ScanInv, NEW e \in missing, Scan!RepairProjection(e) PROVE ScanInv'
<1>0. ScanTypes /\ Numbered(scanned) /\ EventsFollow(scanned) /\ StoppedScan /\ AfterFirstScan /\ SecondScan
  BY DEF ScanInv
<1>1. /\ mode = "publish" /\ scanned' = Append(scanned, e) /\ missing' = missing \ {e}
      /\ UNCHANGED <<scanNumber, owed, mode, todo, unacked, commits, scanFaults>>
  BY DEF Scan!RepairProjection
<1>2. scanned \in Seq(Msg) /\ e \in Scan!Projection
  BY <1>0 DEF ScanTypes, Msg
<1>3. AreMissing(scanned, missing)
  BY <1>0, <1>1 DEF SecondScan
<1>4. PICK o \in ScanObjects, c \in DOMAIN scanned :
        LastCommit(scanned, o, c) /\ e \in Scan!EventsOf(scanned[c])
  BY <1>3 DEF AreMissing
<1>5. ~Scan!IsProjection(scanned[c])
  BY <1>4 DEF LastCommit, CommitAt
<1>6. /\ scanned' \in Seq(Msg) /\ Numbered(scanned') /\ EventsFollow(scanned')
      /\ EventsUnique(scanned) /\ ~InStream(scanned, e) => EventsUnique(scanned')
      /\ DOMAIN scanned \subseteq DOMAIN scanned'
      /\ \A i \in DOMAIN scanned : scanned'[i] = scanned[i]
      /\ \A p : NoCommit(scanned', p) <=> NoCommit(scanned, p)
      /\ \A p, d : LastCommit(scanned', p, d) <=> LastCommit(scanned, p, d)
      /\ \A f : InStream(scanned', f) <=> (InStream(scanned, f) \/ f = e)
  BY <1>0, <1>1, <1>2, <1>4, <1>5, AppendedEvent
<1>7. \A p, d : LastCommit(scanned, p, d) => d \in DOMAIN scanned
  BY DEF LastCommit, CommitAt
<1>8. ScanTypes'
  BY <1>0, <1>1, <1>6 DEF ScanTypes, Msg
<1>9. AfterFirstScan'
  BY <1>0, <1>1, <1>6 DEF AfterFirstScan, Recovered
<1>10. AreMissing(scanned', missing')
  <2>1. \A f \in missing' : \E p \in ScanObjects, d \in DOMAIN scanned' :
          LastCommit(scanned', p, d) /\ f \in Scan!EventsOf(scanned'[d])
    BY <1>1, <1>3, <1>6 DEF AreMissing
  <2>2. ASSUME NEW p \in ScanObjects, NEW d \in DOMAIN scanned', LastCommit(scanned', p, d),
               NEW f \in Scan!EventsOf(scanned'[d])
        PROVE  f \in missing' \/ InStream(scanned', f)
    <3>1. d \in DOMAIN scanned /\ LastCommit(scanned, p, d) /\ scanned'[d] = scanned[d]
      BY <1>6, <1>7, <2>2
    <3>2. f \in missing \/ InStream(scanned, f)
      BY <1>3, <2>2, <3>1 DEF AreMissing
    <3> QED BY <1>1, <1>6, <3>2
  <2> QED BY <2>1, <2>2 DEF AreMissing
<1>11. ASSUME scanFaults["repair"] = 0
       PROVE  EventsUnique(scanned') /\ \A i \in DOMAIN scanned' : scanned'[i] \notin missing'
  <2>1. EventsUnique(scanned) /\ \A i \in DOMAIN scanned : scanned[i] \notin missing
    BY <1>0, <1>1, <1>11 DEF SecondScan
  <2>2. ~InStream(scanned, e)
    BY <2>1 DEF InStream
  <2>3. \A f \in missing' : ~InStream(scanned', f)
    BY <1>1, <1>6, <2>1 DEF InStream
  <2> QED BY <1>6, <2>1, <2>2, <2>3 DEF InStream
<1>12. SecondScan'
  BY <1>1, <1>10, <1>11 DEF SecondScan
<1>13. RunningScan' /\ StoppedScan' /\ FirstScan'
  BY <1>0, <1>1 DEF RunningScan, StoppedScan, FirstScan
<1> QED BY <1>6, <1>8, <1>9, <1>12, <1>13 DEF ScanInv

LEMMA FinishBoot_Inv == ASSUME ScanInv, Scan!FinishBoot PROVE ScanInv'
<1>0. ScanTypes /\ Numbered(scanned) /\ EventsFollow(scanned) /\ StoppedScan /\ AfterFirstScan /\ SecondScan
  BY DEF ScanInv
<1>1. /\ mode = "publish" /\ missing = {} /\ mode' = "up"
      /\ scanNumber' = [o \in ScanObjects |-> IF commits[o] = 0 THEN 0 ELSE scanned[commits[o]].seq]
      /\ todo' = <<>> /\ unacked' = <<>>
      /\ UNCHANGED <<scanned, owed, commits, missing, scanFaults>>
  BY DEF Scan!FinishBoot
<1>2. scanned \in Seq(Msg) /\ AreMissing(scanned, {})
  BY <1>0, <1>1 DEF ScanTypes, SecondScan, Msg
<1>3. \A o \in ScanObjects : owed[o] = {}
  BY <1>0, <1>1 DEF StoppedScan
<1>4. ASSUME NEW o \in ScanObjects
      PROVE  Counted(scanned, o, scanNumber'[o], {}) /\ scanNumber'[o] \in Nat
  <2>1. CASE commits[o] = 0 /\ NoCommit(scanned, o)
    BY <1>1, <2>1 DEF Counted
  <2>2. CASE LastCommit(scanned, o, commits[o])
    <3>1. /\ commits[o] \in DOMAIN scanned /\ commits[o] # 0
          /\ scanned[commits[o]] \in Scan!Commit /\ scanned[commits[o]].obj = o
      BY <1>2, <2>2, Entries DEF LastCommit, CommitAt
    <3>2. scanNumber'[o] = scanned[commits[o]].seq /\ scanNumber'[o] \in Nat
      BY <1>1, <3>1, Messages
    <3>3. \A a \in scanned[commits[o]].areas : InStream(scanned, [obj |-> o, seq |-> scanNumber'[o], area |-> a])
      BY <1>2, <2>2, <3>1, <3>2, EventsOfCommit DEF AreMissing
    <3> QED BY <2>2, <3>1, <3>2, <3>3 DEF Counted
  <2> QED BY <1>0, <1>1, <2>1, <2>2 DEF AfterFirstScan, Recovered
<1>5. ScanTypes'
  <2>1. scanNumber' \in [ScanObjects -> Nat]
    BY <1>1, <1>4
  <2>2. todo' \in Seq(Nat) /\ unacked' \in Seq(Nat) /\ DOMAIN todo' = {} /\ DOMAIN unacked' = {}
    BY <1>1
  <2> QED BY <1>0, <1>1, <2>1, <2>2 DEF ScanTypes
<1>6. RunningScan'
  BY <1>1, <1>3, <1>4 DEF RunningScan
<1>7. StoppedScan' /\ FirstScan' /\ AfterFirstScan' /\ SecondScan'
  BY <1>0, <1>1 DEF StoppedScan, FirstScan, AfterFirstScan, SecondScan
<1> QED BY <1>0, <1>1, <1>5, <1>6, <1>7 DEF ScanInv

LEMMA ScanStep == ASSUME NoRecoveryFaults, ScanInv, [Scan!BootNext]_Scan!bootVars PROVE ScanInv'
<1>0. CASE UNCHANGED Scan!bootVars
  <2>1. UNCHANGED <<scanned, scanNumber, owed, mode, todo, unacked, commits, missing, scanFaults>>
    BY <1>0 DEF Scan!bootVars, Scan!scanVars
  <2> QED BY <2>1 DEF ScanInv, ScanTypes, RunningScan, StoppedScan, FirstScan, AfterFirstScan, SecondScan
<1>1. ASSUME NEW o \in ScanObjects, NEW type \in CommitTypes, NEW areas \in SUBSET Areas,
             Scan!WriteCommit(o, type, areas)
      PROVE  ScanInv'
  BY <1>1, WriteCommit_Inv
<1>2. ASSUME NEW o \in ScanObjects, NEW a \in Areas, Scan!WriteProjection(o, a) PROVE ScanInv'
  BY <1>2, WriteProjection_Inv
<1>3. CASE Scan!Crash
  BY <1>3, Crash_Inv
<1>4. CASE Scan!StartRecovery
  BY <1>4, StartRecovery_Inv
<1>5. CASE Scan!RecoverFetch
  BY <1>5, RecoverFetch_Inv
<1>6. CASE Scan!FetchFails
  BY <1>6, FetchFails_Inv
<1>7. CASE Scan!Redeliver
  BY <1>7, Redeliver_Inv
<1>8. CASE Scan!StartRepair
  BY <1>8, StartRepair_Inv
<1>9. CASE Scan!RepairFetch
  BY <1>9, RepairFetch_Inv
<1>10. ASSUME NEW e \in missing, Scan!RepairProjection(e) PROVE ScanInv'
  BY <1>10, RepairProjection_Inv
<1>11. CASE Scan!FinishBoot
  BY <1>11, FinishBoot_Inv
<1> QED
  BY <1>0, <1>1, <1>2, <1>3, <1>4, <1>5, <1>6, <1>7, <1>8, <1>9, <1>10, <1>11 DEF Scan!BootNext

LEMMA ScanInvariant ==
  ASSUME NoRecoveryFaults PROVE ServiceSpec => [](part = "scan" => ScanInv)
<1>1. ServiceInit => (part = "scan" => ScanInv)
  BY ScanInit_Inv DEF ServiceInit
<1>2. (part = "scan" => ScanInv) /\ [ServiceNext]_serviceVars => (part = "scan" => ScanInv)'
  <2> SUFFICES ASSUME part = "scan" => ScanInv, [ServiceNext]_serviceVars, part' = "scan"
               PROVE  ScanInv'
    OBVIOUS
  <2>1. part = "scan" /\ [Scan!BootNext]_Scan!bootVars
    BY DEF ServiceNext, serviceVars, scanVars, Scan!bootVars, Scan!scanVars
  <2> QED BY <2>1, ScanStep
<1> QED BY <1>1, <1>2, PTL DEF ServiceSpec

(* The last commit is the latest.                                          *)
LEMMA LatestIs ==
  ASSUME scanned \in Seq(Msg), NEW o \in ScanObjects, NEW c, Recovered(scanned, o, c)
  PROVE  c = Scan!Latest(o)
<1>1. \A i : i \in Scan!CommitsOf(o) <=> CommitAt(scanned, o, i)
  BY DEF Scan!CommitsOf, Scan!Commits, CommitAt
<1>2. CASE c = 0 /\ NoCommit(scanned, o)
  <2>1. Scan!CommitsOf(o) = {}
    BY <1>1, <1>2 DEF NoCommit, CommitAt
  <2> QED BY <1>2, <2>1 DEF Scan!Latest
<1>3. CASE LastCommit(scanned, o, c)
  <2> DEFINE C == Scan!CommitsOf(o)
  <2>1. c \in C /\ \A i \in C : i \in Nat /\ i <= c
    BY <1>1, <1>3, Entries DEF LastCommit, CommitAt
  <2>2. Scan!Latest(o) = Scan!Max(C)
    BY <2>1 DEF Scan!Latest
  <2> HIDE DEF C
  <2>3. \A i \in C : c >= i
    BY <2>1
  <2>4. Scan!Max(C) \in C /\ \A i \in C : Scan!Max(C) >= i
    BY <2>1, <2>3 DEF Scan!Max
  <2>5. Scan!Max(C) \in Nat /\ Scan!Max(C) <= c /\ Scan!Max(C) >= c /\ c \in Nat
    BY <2>1, <2>4
  <2> QED BY <2>2, <2>5
<1> QED BY <1>2, <1>3 DEF Recovered

(* If no fetch of the first scan fails or breaks off, a boot recovers the  *)
(* latest commit of every object, for any batch, stream, number of         *)
(* redeliveries and crashes (stream.go, RecoverObjectCommits).             *)
THEOREM LatestIsRecovered == ASSUME NoRecoveryFaults PROVE ServiceSpec => []RecoveredIsLatest
<1>1. (part = "scan" => ScanInv) => RecoveredIsLatest
  BY LatestIs DEF RecoveredIsLatest, Scan!RecoveredIsLatest, ScanInv, AfterFirstScan, ScanTypes, Msg
<1> QED BY <1>1, ScanInvariant, PTL

(* Then a process that runs has, or owes, every geofence event of the last *)
(* commits, also when the second scan broke off (stream.go,                *)
(* RepairLatestProjections).                                               *)
THEOREM EventsAreRepaired == ASSUME NoRecoveryFaults PROVE ServiceSpec => []ProjectionsAreRepaired
<1>1. (part = "scan" => ScanInv) => ProjectionsAreRepaired
  <2> SUFFICES ASSUME ScanInv, mode = "up", NEW o \in ScanObjects, Scan!Latest(o) # 0,
                      NEW e \in Scan!EventsOf(scanned[Scan!Latest(o)])
               PROVE  e \in Scan!ToSet(scanned) \/ e.area \in owed[o]
    BY DEF ProjectionsAreRepaired, Scan!ProjectionsAreRepaired
  <2>1. scanned \in Seq(Msg) /\ Counted(scanned, o, scanNumber[o], owed[o])
    BY DEF ScanInv, ScanTypes, RunningScan, Msg
  <2>2. CASE NoCommit(scanned, o)
    BY <2>1, <2>2, LatestIs DEF Recovered
  <2>3. ASSUME NEW c \in DOMAIN scanned, LastCommit(scanned, o, c), scanNumber[o] = scanned[c].seq,
               \A a \in scanned[c].areas :
                 InStream(scanned, [obj |-> o, seq |-> scanNumber[o], area |-> a]) <=> a \notin owed[o]
        PROVE  e \in Scan!ToSet(scanned) \/ e.area \in owed[o]
    <3>1. c = Scan!Latest(o)
      BY <2>1, <2>3, LatestIs DEF Recovered
    <3>2. scanned[c] \in Scan!Commit /\ scanned[c].obj = o
      BY <2>1, <2>3, Entries DEF LastCommit, CommitAt
    <3>3. e.area \in scanned[c].areas /\ e = [obj |-> o, seq |-> scanNumber[o], area |-> e.area]
      BY <2>3, <3>1, <3>2, EventsOfCommit
    <3>4. e.area \notin owed[o] => InStream(scanned, e)
      BY <2>3, <3>3
    <3> QED BY <3>4 DEF InStream, Scan!ToSet
  <2> QED BY <2>1, <2>2, <2>3 DEF Counted
<1> QED BY <1>1, ScanInvariant, PTL

(* And as long as no second scan broke off, no geofence event is in the    *)
(* stream twice (stream.go, the events found).                             *)
THEOREM RepairsAreMissing == ASSUME NoRecoveryFaults PROVE ServiceSpec => []NothingRepairedTwice
<1>1. (part = "scan" => ScanInv) => NothingRepairedTwice
  BY DEF NothingRepairedTwice, Scan!NothingRepairedTwice, ScanInv, SecondScan, EventsUnique
<1> QED BY <1>1, ScanInvariant, PTL
==============================================================================
