------------------------------ MODULE NatsProofs ------------------------------
(***************************************************************************)
(* The NATS packages.  What filterSubjectsLocked relies on when it leaves  *)
(* out a subject that another one contains, for patterns of any length;    *)
(* that the trie holds the subscriptions, whatever was inserted, removed   *)
(* and pruned; that the consumer wrapper is left with nothing when it is   *)
(* closed, and asks the server for all that is counted, under failing and  *)
(* overlapping calls; and that the dispatch goroutine of a watch never     *)
(* sends on a closed channel.  For any number of subscriptions, watches,   *)
(* messages and faults.                                                    *)
(***************************************************************************)
EXTENDS NatsClient, TLAPS, FiniteSetTheorems, SequenceTheorems, WellFoundedInduction

Subjects == INSTANCE NatsSubjects

(* Position by position: what agrees with the contained pattern agrees     *)
(* with the containing one.                                                *)
LEMMA WithinThenAgree ==
  ASSUME NEW c, NEW d, NEW s, NEW n \in Nat, NEW k \in Nat, n <= k,
         Subjects!WithinUpTo(c, d, n), Subjects!AgreeUpTo(d, s, k)
  PROVE  Subjects!AgreeUpTo(c, s, n)
<1>1. SUFFICES ASSUME NEW i \in 1..n PROVE c[i] \in {Subjects!Star, s[i]}
  BY DEF Subjects!AgreeUpTo
<1>2. i \in 1..k
  OBVIOUS
<1>3. d[i] \in {Subjects!Star, s[i]}
  BY <1>2 DEF Subjects!AgreeUpTo
<1>4. c[i] = Subjects!Star \/ (d[i] # Subjects!Star /\ c[i] = d[i])
  BY DEF Subjects!WithinUpTo
<1>5. QED
  BY <1>3, <1>4

(* patternContains is sound: every subject that the contained pattern      *)
(* matches, the container matches too.                                     *)
THEOREM ContainsIsSound ==
  ASSUME NEW T, NEW c \in Seq(T), NEW d \in Seq(T), NEW s \in Seq(T),
         Subjects!PatternContains(c, d), Subjects!SubjectMatches(d, s)
  PROVE  Subjects!SubjectMatches(c, s)
<1>1. Len(c) \in Nat /\ Len(d) \in Nat /\ Len(s) \in Nat
  OBVIOUS
<1>2. CASE c # <<>> /\ c[Len(c)] = Subjects!Gt
  <2>1. Len(c) >= 1
    BY <1>2
  <2>2. Len(d) >= Len(c) /\ Subjects!WithinUpTo(c, d, Len(c) - 1)
    BY <1>2 DEF Subjects!PatternContains
  <2>3. Len(s) >= Len(d) /\ Subjects!AgreeUpTo(d, s, Len(d) - 1)
    <3>1. CASE d # <<>> /\ d[Len(d)] = Subjects!Gt
      BY <3>1 DEF Subjects!SubjectMatches
    <3>2. CASE ~(d # <<>> /\ d[Len(d)] = Subjects!Gt)
      <4>1. Len(s) = Len(d) /\ Subjects!AgreeUpTo(d, s, Len(d))
        BY <3>2 DEF Subjects!SubjectMatches
      <4>2. QED
        BY <1>1, <4>1 DEF Subjects!AgreeUpTo
    <3>3. QED
      BY <3>1, <3>2
  <2>4. Subjects!AgreeUpTo(c, s, Len(c) - 1)
    <3>1. Len(c) - 1 \in Nat /\ Len(d) - 1 \in Nat /\ Len(c) - 1 <= Len(d) - 1
      BY <1>1, <2>1, <2>2
    <3>2. QED
      BY <2>2, <2>3, <3>1, WithinThenAgree
  <2>5. Len(s) >= Len(c)
    BY <1>1, <2>2, <2>3
  <2>6. QED
    BY <1>2, <2>4, <2>5 DEF Subjects!SubjectMatches
<1>3. CASE ~(c # <<>> /\ c[Len(c)] = Subjects!Gt)
  <2>1. Len(d) = Len(c) /\ Subjects!WithinUpTo(c, d, Len(c))
    BY <1>3 DEF Subjects!PatternContains
  <2>2. ~(d # <<>> /\ d[Len(d)] = Subjects!Gt)
    <3>1. SUFFICES ASSUME d # <<>> PROVE d[Len(d)] # Subjects!Gt
      OBVIOUS
    <3>2. Len(d) \in 1..Len(c)
      BY <1>1, <2>1, <3>1
    <3>3. QED
      BY <2>1, <3>2 DEF Subjects!WithinUpTo
  <2>3. Len(s) = Len(d) /\ Subjects!AgreeUpTo(d, s, Len(d))
    BY <2>2 DEF Subjects!SubjectMatches
  <2>4. Subjects!AgreeUpTo(c, s, Len(c))
    BY <1>1, <2>1, <2>3, WithinThenAgree
  <2>5. QED
    BY <1>3, <2>1, <2>3, <2>4 DEF Subjects!SubjectMatches
<1>4. QED
  BY <1>2, <1>3

(* Containment orders the patterns.                                        *)
LEMMA ContainsIsTransitive ==
  ASSUME NEW T, NEW c \in Seq(T), NEW d \in Seq(T), NEW e \in Seq(T),
         Subjects!PatternContains(c, d), Subjects!PatternContains(d, e)
  PROVE  Subjects!PatternContains(c, e)
<1>1. Len(c) \in Nat /\ Len(d) \in Nat /\ Len(e) \in Nat
  OBVIOUS
<1>2. ASSUME NEW n \in Nat, NEW k \in Nat, n <= k,
             Subjects!WithinUpTo(c, d, n), Subjects!WithinUpTo(d, e, k)
      PROVE  Subjects!WithinUpTo(c, e, n)
  <2>1. SUFFICES ASSUME NEW i \in 1..n
                 PROVE  e[i] # Subjects!Gt /\ (c[i] = Subjects!Star \/ (e[i] # Subjects!Star /\ c[i] = e[i]))
    BY DEF Subjects!WithinUpTo
  <2>2. i \in 1..k
    BY <1>2
  <2>3. c[i] = Subjects!Star \/ (d[i] # Subjects!Star /\ c[i] = d[i])
    BY <1>2 DEF Subjects!WithinUpTo
  <2>4. e[i] # Subjects!Gt /\ (d[i] = Subjects!Star \/ (e[i] # Subjects!Star /\ d[i] = e[i]))
    BY <1>2, <2>2 DEF Subjects!WithinUpTo
  <2> QED
    BY <2>3, <2>4
<1>3. CASE c # <<>> /\ c[Len(c)] = Subjects!Gt
  <2>1. Len(c) >= 1 /\ Len(d) >= Len(c) /\ Subjects!WithinUpTo(c, d, Len(c) - 1)
    BY <1>3 DEF Subjects!PatternContains
  <2>2. Len(e) >= Len(d) /\ \E k \in Nat : k >= Len(d) - 1 /\ Subjects!WithinUpTo(d, e, k)
    BY <1>1, <2>1 DEF Subjects!PatternContains
  <2>3. Subjects!WithinUpTo(c, e, Len(c) - 1)
    BY <1>1, <1>2, <2>1, <2>2
  <2>4. Len(e) >= Len(c)
    BY <1>1, <2>1, <2>2
  <2> QED
    BY <1>3, <2>3, <2>4 DEF Subjects!PatternContains
<1>4. CASE ~(c # <<>> /\ c[Len(c)] = Subjects!Gt)
  <2>1. Len(d) = Len(c) /\ Subjects!WithinUpTo(c, d, Len(c))
    BY <1>4 DEF Subjects!PatternContains
  <2>2. ~(d # <<>> /\ d[Len(d)] = Subjects!Gt)
    BY <2>1 DEF Subjects!WithinUpTo
  <2>3. Len(e) = Len(d) /\ Subjects!WithinUpTo(d, e, Len(d))
    BY <2>2 DEF Subjects!PatternContains
  <2>4. Subjects!WithinUpTo(c, e, Len(c))
    BY <1>1, <1>2, <2>1, <2>3
  <2> QED
    BY <1>4, <2>1, <2>3, <2>4 DEF Subjects!PatternContains
<1> QED
  BY <1>3, <1>4

LEMMA ContainsIsStrict ==
  ASSUME NEW T, NEW c \in Seq(T), NEW d \in Seq(T),
         Subjects!PatternContains(c, d), Subjects!PatternContains(d, c)
  PROVE  c = d
<1>1. Len(c) \in Nat /\ Len(d) \in Nat
  OBVIOUS
<1> DEFINE CGt == c # <<>> /\ c[Len(c)] = Subjects!Gt
           DGt == d # <<>> /\ d[Len(d)] = Subjects!Gt
<1>2. Len(c) = Len(d)
  BY <1>1 DEF Subjects!PatternContains
<1>3. /\ \A i \in 1..(Len(c) - 1) : c[i] = d[i]
      /\ ~CGt /\ ~DGt => \A i \in 1..Len(c) : c[i] = d[i]
  BY <1>1, <1>2 DEF Subjects!PatternContains, Subjects!WithinUpTo
<1>4. CGt <=> DGt
  BY <1>1, <1>2 DEF Subjects!PatternContains, Subjects!WithinUpTo
<1>5. \A i \in 1..Len(c) : c[i] = d[i]
  BY <1>1, <1>2, <1>3, <1>4
<1> QED
  BY <1>2, <1>5

(* The minimal filter asks for all that the patterns ask for: whichever    *)
(* pattern is left out, one that contains it is not.                       *)
THEOREM MinimalFilterSuffices ==
  ASSUME NEW T, NEW S \in SUBSET Seq(T), IsFiniteSet(S), NEW x \in S
  PROVE  \E y \in Subjects!MinimalFilter(S) : y = x \/ Subjects!PatternContains(y, x)
<1> DEFINE Over(y) == {z \in S : z # y /\ Subjects!PatternContains(z, y)}
           Reach == {y \in S : y = x \/ Subjects!PatternContains(y, x)}
           Overs == {Over(y) : y \in Reach}
<1>1. Overs \subseteq FiniteSubsetsOf(S) /\ Overs # {}
  <2>1. \A y : Over(y) \in SUBSET S /\ IsFiniteSet(Over(y))
    BY FS_Subset
  <2> QED
    BY <2>1 DEF FiniteSubsetsOf
<1>2. PICK V \in Overs : \A U \in Overs : ~(<<U, V>> \in StrictSubsetOrdering(S))
  BY <1>1, FS_StrictSubsetOrderingWellFounded, WFMin
<1>3. PICK y \in Reach : V = Over(y)
  OBVIOUS
<1>4. ASSUME NEW z \in S, z # y, Subjects!PatternContains(z, y)
      PROVE  FALSE
  <2>1. z \in Reach
    BY <1>3, <1>4, ContainsIsTransitive
  <2>2. Over(z) \subseteq Over(y)
    BY <1>3, <1>4, ContainsIsTransitive, ContainsIsStrict
  <2>3. z \in Over(y) /\ z \notin Over(z)
    BY <1>4
  <2>4. <<Over(z), Over(y)>> \in StrictSubsetOrdering(S)
    BY <2>2, <2>3 DEF StrictSubsetOrdering
  <2> QED
    BY <1>2, <1>3, <2>1, <2>4
<1>5. y \in Subjects!MinimalFilter(S)
  BY <1>3, <1>4 DEF Subjects!MinimalFilter
<1> QED
  BY <1>3, <1>5

(* What a pattern of S matches a pattern of its minimal filter matches.    *)
LEMMA FilterMatches ==
  ASSUME NEW T, NEW S \in SUBSET Seq(T), IsFiniteSet(S), NEW m \in Seq(T), NEW x \in S,
         Subjects!SubjectMatches(x, m)
  PROVE  \E y \in Subjects!MinimalFilter(S) : Subjects!SubjectMatches(y, m)
<1>1. PICK y \in Subjects!MinimalFilter(S) : y = x \/ Subjects!PatternContains(y, x)
  BY MinimalFilterSuffices
<1>2. y \in Seq(T)
  BY DEF Subjects!MinimalFilter
<1> QED
  BY <1>1, <1>2, ContainsIsSound

---------------------------------------------------------------------------
(* The trie.                                                               *)
LEMMA TrieSubjects ==
  /\ \A p, s : Trie!SubjectMatches(p, s) <=> Subjects!SubjectMatches(p, s)
  /\ \A S : Trie!MinimalFilter(S) = Subjects!MinimalFilter(S)
<1>1. \A p, s : Trie!SubjectMatches(p, s) <=> Subjects!SubjectMatches(p, s)
  BY DEF Trie!SubjectMatches, Subjects!SubjectMatches, Trie!AgreeUpTo, Subjects!AgreeUpTo,
         Trie!Gt, Subjects!Gt, Trie!Star, Subjects!Star
<1>2. \A p, s : Trie!PatternContains(p, s) <=> Subjects!PatternContains(p, s)
  BY DEF Trie!PatternContains, Subjects!PatternContains, Trie!WithinUpTo, Subjects!WithinUpTo,
         Trie!Gt, Subjects!Gt, Trie!Star, Subjects!Star
<1> QED
  BY <1>1, <1>2 DEF Trie!MinimalFilter, Subjects!MinimalFilter

(* What subjects and patterns are made of.                                 *)
Alphabet == Tokens \cup {"*", ">"}

LEMMA PatternTypes ==
  /\ Trie!Patterns \subseteq Seq(Alphabet) /\ Trie!Messages \subseteq Seq(Alphabet)
  /\ Trie!NoPattern \notin Trie!Patterns
<1>0. MaxTokens \in Nat
  BY ClientAssumption DEF Trie!TrieAssumption
<1>1. Tokens \cap {"*", ">", "not subscribed"} = {}
  BY ClientAssumption DEF Trie!TrieAssumption, Trie!Star, Trie!Gt
<1>2. ASSUME NEW S, NEW n \in Nat, NEW x \in Trie!SeqUpTo(S, n)
      PROVE  x \in Seq(S)
  <2>1. PICK k \in 0..n : x \in [1..k -> S]
    BY DEF Trie!SeqUpTo
  <2> QED
    BY <2>1
<1>3. Trie!Patterns \subseteq Seq(Alphabet)
  BY <1>0, <1>2 DEF Trie!Patterns, Trie!Star, Trie!Gt, Alphabet
<1>4. Trie!Messages \subseteq Seq(Alphabet)
  <2>1. MaxTokens + 1 \in Nat
    BY <1>0
  <2>2. Trie!Messages \subseteq Seq(Tokens)
    BY <1>2, <2>1 DEF Trie!Messages
  <2>3. Tokens \subseteq Alphabet
    BY DEF Alphabet
  <2> QED
    BY <2>2, <2>3, SeqMonotonic
<1>5. Trie!NoPattern \notin Seq(Alphabet)
  <2>0. \A S : \A y \in Seq(S) : Len(y) = 1 => y[1] \in S
    OBVIOUS
  <2> SUFFICES ASSUME NEW x \in Seq(Alphabet), x = <<"not subscribed">>
               PROVE  FALSE
    BY DEF Trie!NoPattern
  <2>1. Len(x) = 1
    OBVIOUS
  <2>2. x[1] = "not subscribed"
    OBVIOUS
  <2>3. x[1] \in Alphabet
    BY <2>0, <2>1, Zenon
  <2> QED
    BY <1>1, <2>2, <2>3 DEF Alphabet
<1> QED
  BY <1>3, <1>4, <1>5

(* The trie holds every live subscription at the node of its pattern, and  *)
(* nothing else, and the nodes that hold something exist.                  *)
Plain(id) == ~Trie!EndsInGt(patterns[id])

Held(P) == {<<Trie!NodeOf(patterns[id]), id>> : id \in P}

TrieInv ==
  /\ patterns \in [Ids -> Trie!Patterns \cup {Trie!NoPattern}]
  /\ trie = [nodes |-> trie.nodes, entries |-> trie.entries, wcGt |-> trie.wcGt]
  /\ trie.entries = Held({id \in Trie!Live : Plain(id)})
  /\ trie.wcGt = Held({id \in Trie!Live : ~Plain(id)})
  /\ Trie!Holding(trie) \subseteq trie.nodes

LEMMA EmptyTrie ==
  ASSUME trie' = [nodes |-> {<<>>}, entries |-> {}, wcGt |-> {}],
         patterns' = [id \in Ids |-> Trie!NoPattern]
  PROVE  TrieInv'
<1>1. Trie!Live' = {}
  BY DEF Trie!Live
<1> QED
  BY <1>1 DEF TrieInv, Held, Trie!Holding

(* Pruning takes no node that holds a subscription.                        *)
LEMMA PruningKeeps ==
  ASSUME NEW t, NEW path, t = [nodes |-> t.nodes, entries |-> t.entries, wcGt |-> t.wcGt],
         Trie!Holding(t) \subseteq t.nodes, \A q \in Trie!Holding(t) : Trie!IsPrefix(q, q)
  PROVE  /\ Trie!Pruned(t, path).entries = t.entries /\ Trie!Pruned(t, path).wcGt = t.wcGt
         /\ Trie!Pruned(t, path) = [ nodes |-> Trie!Pruned(t, path).nodes,
                                     entries |-> t.entries, wcGt |-> t.wcGt ]
         /\ Trie!Holding(t) \subseteq Trie!Pruned(t, path).nodes
<1> DEFINE Unneeded(q) == \A r \in t.nodes : Trie!IsPrefix(q, r) =>
                        Trie!IsPrefix(r, path) /\ r \notin Trie!Holding(t)
           kept == {q \in t.nodes : q = <<>> \/ ~Trie!IsPrefix(q, path) \/ ~Unneeded(q)}
<1>1. Trie!Pruned(t, path) = [nodes |-> kept, entries |-> t.entries, wcGt |-> t.wcGt]
  <2>1. Trie!Pruned(t, path) = [t EXCEPT !.nodes = kept]
    BY DEF Trie!Pruned
  <2> QED
    BY <2>1
<1>2. Trie!Holding(t) \subseteq kept
  OBVIOUS
<1> HIDE DEF kept
<1> QED
  BY <1>1, <1>2

LEMMA NodeTypes ==
  ASSUME NEW p \in Seq(Alphabet)
  PROVE  /\ Trie!NodeOf(p) \in Seq(Alphabet)
         /\ Trie!NodeOf(p) \in Trie!Prefixes(Trie!NodeOf(p))
         /\ Trie!IsPrefix(Trie!NodeOf(p), Trie!NodeOf(p))
<1>1. Trie!NodeOf(p) \in Seq(Alphabet)
  <2>1. CASE Trie!EndsInGt(p)
    <3>1. Len(p) - 1 \in 0..Len(p)
      BY <2>1 DEF Trie!EndsInGt
    <3>2. SubSeq(p, 1, Len(p) - 1) \in Seq(Alphabet)
      BY <3>1
    <3> QED
      BY <2>1, <3>2 DEF Trie!NodeOf, Trie!Front
  <2>2. CASE ~Trie!EndsInGt(p)
    BY <2>2 DEF Trie!NodeOf
  <2> QED
    BY <2>1, <2>2
<1> DEFINE q == Trie!NodeOf(p)
<1> HIDE DEF q
<1>2. SubSeq(q, 1, Len(q)) = q /\ Len(q) \in 0..Len(q)
  BY <1>1 DEF q
<1>3. q \in {SubSeq(q, 1, l) : l \in 0..Len(q)}
  BY <1>2
<1>4. q \in Trie!Prefixes(q)
  BY <1>3 DEF Trie!Prefixes
<1>5. Trie!IsPrefix(q, q)
  BY <1>2 DEF Trie!IsPrefix
<1> QED
  BY <1>1, <1>4, <1>5 DEF q

LEMMA SubscribeKeepsTrie ==
  ASSUME TrieInv, NEW id \in Ids, NEW p \in Trie!Patterns, Trie!Subscribe(id, p)
  PROVE  TrieInv'
<1>1. /\ patterns[id] = Trie!NoPattern /\ patterns' = [patterns EXCEPT ![id] = p]
      /\ trie' = Trie!InsertEntry(trie, p, id)
  BY DEF Trie!Subscribe
<1>2. p # Trie!NoPattern /\ p \in Seq(Alphabet)
  BY PatternTypes
<1>3. /\ patterns' \in [Ids -> Trie!Patterns \cup {Trie!NoPattern}]
      /\ patterns'[id] = p /\ \A d \in Ids \ {id} : patterns'[d] = patterns[d]
  BY <1>1 DEF TrieInv
<1>4. id \notin Trie!Live /\ Trie!Live' = Trie!Live \cup {id} /\ Trie!Live \subseteq Ids \ {id}
  BY <1>1, <1>2, <1>3 DEF Trie!Live
<1>5. /\ trie'.entries = trie.entries \cup (IF Plain(id)' THEN {<<Trie!NodeOf(p), id>>} ELSE {})
      /\ trie'.wcGt = trie.wcGt \cup (IF Plain(id)' THEN {} ELSE {<<Trie!NodeOf(p), id>>})
      /\ trie'.nodes = trie.nodes \cup Trie!Prefixes(Trie!NodeOf(p))
      /\ trie' = [nodes |-> trie'.nodes, entries |-> trie'.entries, wcGt |-> trie'.wcGt]
  BY <1>1, <1>3 DEF Trie!InsertEntry, Plain
<1>6. \A d \in Trie!Live : Plain(d)' = Plain(d) /\ patterns'[d] = patterns[d]
  BY <1>3, <1>4 DEF Plain
<1>7. trie'.entries = Held({d \in Trie!Live : Plain(d)})'
  BY <1>3, <1>4, <1>5, <1>6 DEF TrieInv, Held
<1>8. trie'.wcGt = Held({d \in Trie!Live : ~Plain(d)})'
  BY <1>3, <1>4, <1>5, <1>6 DEF TrieInv, Held
<1>9. Trie!Holding(trie)' \subseteq trie'.nodes
  BY <1>2, <1>5, NodeTypes DEF TrieInv, Trie!Holding
<1> QED
  BY <1>3, <1>5, <1>7, <1>8, <1>9 DEF TrieInv

(* What the nodes that hold something are.                                 *)
LEMMA HoldingNodes ==
  ASSUME TrieInv, NEW q \in Trie!Holding(trie)
  PROVE  \E id \in Trie!Live : q = Trie!NodeOf(patterns[id]) /\ Trie!IsPrefix(q, q)
<1>1. PICK id \in Trie!Live : q = Trie!NodeOf(patterns[id])
  BY DEF TrieInv, Held, Trie!Holding
<1>2. patterns[id] \in Seq(Alphabet)
  BY PatternTypes DEF Trie!Live, TrieInv
<1> QED
  BY <1>1, <1>2, NodeTypes

(* Taking out the entry of id, whose pattern is or was p.                  *)
LEMMA RemovalKeeps ==
  ASSUME TrieInv, NEW id \in Ids, NEW p,
         id \in Trie!Live => p = patterns[id]
  PROVE  LET t == Trie!RemoveEntry(trie, p, id)
         IN  /\ t = [nodes |-> t.nodes, entries |-> t.entries, wcGt |-> t.wcGt]
             /\ t.entries = Held({d \in Trie!Live \ {id} : Plain(d)})
             /\ t.wcGt = Held({d \in Trie!Live \ {id} : ~Plain(d)})
             /\ Trie!Holding(t) \subseteq t.nodes
<1> DEFINE node == Trie!NodeOf(p)
           es == IF Trie!EndsInGt(p) THEN trie.entries ELSE trie.entries \ {<<node, id>>}
           gs == IF Trie!EndsInGt(p) THEN trie.wcGt \ {<<node, id>>} ELSE trie.wcGt
           u == [nodes |-> trie.nodes, entries |-> es, wcGt |-> gs]
<1>1. /\ trie = [nodes |-> trie.nodes, entries |-> trie.entries, wcGt |-> trie.wcGt]
      /\ trie.entries = Held({d \in Trie!Live : Plain(d)})
      /\ trie.wcGt = Held({d \in Trie!Live : ~Plain(d)})
      /\ Trie!Holding(trie) \subseteq trie.nodes
  BY DEF TrieInv
<1>2. id \in Trie!Live => (Plain(id) <=> ~Trie!EndsInGt(p)) /\ node = Trie!NodeOf(patterns[id])
  BY DEF Plain
<1>3. es = Held({d \in Trie!Live \ {id} : Plain(d)})
  BY <1>1, <1>2 DEF Held
<1>4. gs = Held({d \in Trie!Live \ {id} : ~Plain(d)})
  BY <1>1, <1>2 DEF Held
<1>5. CASE node \notin trie.nodes
  <2>1. Trie!RemoveEntry(trie, p, id) = trie
    BY <1>5 DEF Trie!RemoveEntry
  <2>2. id \notin Trie!Live
    <3> SUFFICES ASSUME id \in Trie!Live PROVE FALSE
      OBVIOUS
    <3>1. <<node, id>> \in trie.entries \cup trie.wcGt
      BY <1>1, <1>2 DEF Held
    <3>2. <<node, id>>[1] \in Trie!Holding(trie)
      BY <3>1 DEF Trie!Holding
    <3> QED
      BY <1>1, <1>5, <3>2
  <2>3. Trie!Live \ {id} = Trie!Live
    BY <2>2
  <2> QED
    BY <1>1, <2>1, <2>3
<1>6. CASE node \in trie.nodes
  <2>1. Trie!RemoveEntry(trie, p, id) = Trie!Pruned(u, node)
    <3>1. (IF Trie!EndsInGt(p) THEN [trie EXCEPT !.wcGt = @ \ {<<node, id>>}]
           ELSE [trie EXCEPT !.entries = @ \ {<<node, id>>}]) = u
      BY <1>1
    <3> QED
      BY <1>6, <3>1 DEF Trie!RemoveEntry
  <2>2. Trie!Holding(u) \subseteq Trie!Holding(trie)
    BY DEF Trie!Holding
  <2>3. \A q \in Trie!Holding(u) : Trie!IsPrefix(q, q)
    BY <2>2, HoldingNodes
  <2>4. u.nodes = trie.nodes /\ u.entries = es /\ u.wcGt = gs
    OBVIOUS
  <2>5. u = [nodes |-> u.nodes, entries |-> u.entries, wcGt |-> u.wcGt]
    OBVIOUS
  <2> HIDE DEF u, es, gs
  <2>6. /\ Trie!Pruned(u, node).entries = es /\ Trie!Pruned(u, node).wcGt = gs
        /\ Trie!Pruned(u, node) = [nodes |-> Trie!Pruned(u, node).nodes, entries |-> es, wcGt |-> gs]
        /\ Trie!Holding(u) \subseteq Trie!Pruned(u, node).nodes
    BY <1>1, <2>2, <2>3, <2>4, <2>5, PruningKeeps
  <2>7. Trie!Holding(Trie!Pruned(u, node)) = Trie!Holding(u)
    BY <2>4, <2>6 DEF Trie!Holding
  <2> QED
    BY <1>3, <1>4, <2>1, <2>6, <2>7
<1> QED
  BY <1>5, <1>6

LEMMA TrieStep ==
  ASSUME TrieInv, [Trie!Next]_Trie!vars
  PROVE  TrieInv'
<1>1. ASSUME NEW id \in Ids, Trie!Unsubscribe(id)
      PROVE  TrieInv'
  <2>1. /\ patterns' = [patterns EXCEPT ![id] = Trie!NoPattern]
        /\ trie' = Trie!RemoveEntry(trie, patterns[id], id)
    BY <1>1 DEF Trie!Unsubscribe
  <2>2. /\ patterns' \in [Ids -> Trie!Patterns \cup {Trie!NoPattern}]
        /\ patterns'[id] = Trie!NoPattern /\ \A d \in Ids \ {id} : patterns'[d] = patterns[d]
    BY <2>1 DEF TrieInv
  <2>3. Trie!Live' = Trie!Live \ {id} /\ Trie!Live \subseteq Ids
    BY <2>2 DEF Trie!Live
  <2>4. \A d \in Trie!Live \ {id} : Plain(d)' = Plain(d) /\ patterns'[d] = patterns[d]
    BY <2>2, <2>3 DEF Plain
  <2>5. /\ Held({d \in Trie!Live : Plain(d)})' = Held({d \in Trie!Live \ {id} : Plain(d)})
        /\ Held({d \in Trie!Live : ~Plain(d)})' = Held({d \in Trie!Live \ {id} : ~Plain(d)})
    BY <2>3, <2>4 DEF Held
  <2>6. /\ trie' = [nodes |-> trie'.nodes, entries |-> trie'.entries, wcGt |-> trie'.wcGt]
        /\ trie'.entries = Held({d \in Trie!Live \ {id} : Plain(d)})
        /\ trie'.wcGt = Held({d \in Trie!Live \ {id} : ~Plain(d)})
        /\ Trie!Holding(trie') \subseteq trie'.nodes
    BY <2>1, RemovalKeeps
  <2>7. Trie!Holding(trie)' = Trie!Holding(trie')
    BY DEF Trie!Holding
  <2> QED
    BY <2>2, <2>5, <2>6, <2>7 DEF TrieInv
<1>2. ASSUME NEW id \in Ids, NEW p \in Trie!Patterns, Trie!RemoveAgain(id, p)
      PROVE  TrieInv'
  <2>1. patterns' = patterns /\ trie' = Trie!RemoveEntry(trie, p, id) /\ id \notin Trie!Live
    BY <1>2 DEF Trie!RemoveAgain, Trie!Live
  <2>2. /\ trie' = [nodes |-> trie'.nodes, entries |-> trie'.entries, wcGt |-> trie'.wcGt]
        /\ trie'.entries = Held({d \in Trie!Live \ {id} : Plain(d)})
        /\ trie'.wcGt = Held({d \in Trie!Live \ {id} : ~Plain(d)})
        /\ Trie!Holding(trie') \subseteq trie'.nodes
    BY <2>1, RemovalKeeps
  <2>3. Trie!Live \ {id} = Trie!Live /\ Trie!Holding(trie)' = Trie!Holding(trie')
    BY <2>1 DEF Trie!Holding
  <2>4. /\ Held({d \in Trie!Live : Plain(d)})' = Held({d \in Trie!Live : Plain(d)})
        /\ Held({d \in Trie!Live : ~Plain(d)})' = Held({d \in Trie!Live : ~Plain(d)})
    BY <2>1 DEF Held, Plain, Trie!Live
  <2> QED
    BY <2>1, <2>2, <2>3, <2>4 DEF TrieInv
<1>3. CASE Trie!Reset
  BY <1>3, EmptyTrie DEF Trie!Reset
<1>4. CASE UNCHANGED Trie!vars
  BY <1>4 DEF Trie!vars, TrieInv, Held, Plain, Trie!Live, Trie!Holding
<1> QED
  BY <1>1, <1>2, <1>3, <1>4, SubscribeKeepsTrie DEF Trie!Next

(* The walk finds a subscription at its node if its pattern matches.       *)
LEMMA WalkFinds ==
  ASSUME TrieInv, NEW s \in Trie!Messages, NEW id \in Trie!Live
  PROVE  id \in Trie!Match(trie, s) <=> Trie!SubjectMatches(patterns[id], s)
<1> DEFINE p == patterns[id]
           q == Trie!NodeOf(p)
           Agrees == Len(q) <= Len(s) /\ \A i \in DOMAIN q : q[i] \in {Trie!Star, s[i]}
<1>1. p \in Seq(Alphabet) /\ s \in Seq(Alphabet) /\ q \in Seq(Alphabet)
  BY PatternTypes, NodeTypes DEF Trie!Live, TrieInv
<1>2. q \in trie.nodes
  <2>1. <<q, id>> \in trie.entries \cup trie.wcGt
    BY DEF TrieInv, Held
  <2>2. <<q, id>>[1] \in Trie!Holding(trie)
    BY <2>1 DEF Trie!Holding
  <2> QED
    BY <2>2 DEF TrieInv
<1>3. q \in Trie!Reached(trie, s) <=> Agrees
  BY <1>2 DEF Trie!Reached
<1>4. id \in Trie!Match(trie, s) <=>
        /\ Agrees
        /\ IF Plain(id) THEN Len(q) = Len(s) ELSE Len(q) < Len(s)
  <2>1. \A y \in trie.entries \cup trie.wcGt : y[2] = id => y = <<q, id>>
    BY DEF TrieInv, Held
  <2>2. /\ <<q, id>> \in trie.entries <=> Plain(id)
        /\ <<q, id>> \in trie.wcGt <=> ~Plain(id)
    BY DEF TrieInv, Held
  <2>3. <<q, id>>[1] = q /\ <<q, id>>[2] = id
    OBVIOUS
  <2> HIDE DEF q, Agrees
  <2>4. id \in Trie!Match(trie, s) <=>
          \/ <<q, id>> \in trie.entries /\ q \in Trie!Reached(trie, s) /\ Len(q) = Len(s)
          \/ <<q, id>> \in trie.wcGt /\ q \in Trie!Reached(trie, s) /\ Len(q) < Len(s)
    BY <2>1, <2>3 DEF Trie!Match
  <2> QED
    BY <1>3, <2>2, <2>4
<1>5. CASE Plain(id)
  <2>1. q = p /\ ~(p # <<>> /\ p[Len(p)] = Trie!Gt)
    BY <1>5 DEF Trie!NodeOf, Plain, Trie!EndsInGt, Trie!Last
  <2> QED
    BY <1>1, <1>4, <1>5, <2>1 DEF Trie!SubjectMatches, Trie!AgreeUpTo
<1>6. CASE ~Plain(id)
  <2>1. q = SubSeq(p, 1, Len(p) - 1) /\ p # <<>> /\ p[Len(p)] = Trie!Gt
    BY <1>6 DEF Trie!NodeOf, Plain, Trie!EndsInGt, Trie!Last, Trie!Front
  <2>2. Len(q) = Len(p) - 1 /\ Len(p) \in Nat /\ Len(s) \in Nat /\ \A i \in 1..(Len(p) - 1) : q[i] = p[i]
    BY <1>1, <2>1
  <2>3. DOMAIN q = 1..(Len(p) - 1)
    BY <1>1, <2>2
  <2> HIDE DEF p, q
  <2>4. Agrees <=> Len(p) - 1 <= Len(s) /\ Trie!AgreeUpTo(p, s, Len(p) - 1)
    BY <2>2, <2>3 DEF Trie!AgreeUpTo
  <2>5. Trie!SubjectMatches(p, s) <=> Len(s) >= Len(p) /\ Trie!AgreeUpTo(p, s, Len(p) - 1)
    BY <2>1 DEF Trie!SubjectMatches
  <2> HIDE DEF Agrees
  <2>6. id \in Trie!Match(trie, s) <=> Trie!SubjectMatches(p, s)
    BY <1>4, <1>6, <2>2, <2>4, <2>5
  <2> QED
    BY <2>6 DEF p
<1> QED
  BY <1>5, <1>6

LEMMA TrieMatches ==
  ASSUME TrieInv
  PROVE  Trie!MatchFindsSubscriptions
<1> SUFFICES ASSUME NEW s \in Trie!Messages
             PROVE  Trie!Match(trie, s) = {id \in Trie!Live : Trie!SubjectMatches(patterns[id], s)}
  BY DEF Trie!MatchFindsSubscriptions
<1>1. Trie!Match(trie, s) \subseteq Trie!Live
  BY DEF TrieInv, Held, Trie!Match
<1> QED
  BY <1>1, WalkFinds

LEMMA TrieFilters ==
  ASSUME TrieInv
  PROVE  Trie!FilterMeansTheSame
<1> DEFINE inUse == {patterns[id] : id \in Trie!Live}
<1>1. inUse \in SUBSET Seq(Alphabet) /\ Trie!Messages \subseteq Seq(Alphabet)
  BY PatternTypes DEF TrieInv, Trie!Live
<1>2. IsFiniteSet(inUse)
  <2>1. IsFiniteSet(Trie!Live)
    <3>1. IsFiniteSet(Ids)
      BY ClientAssumption DEF Trie!TrieAssumption, Trie!IsFiniteSet, IsFiniteSet
    <3>2. Trie!Live \in SUBSET Ids
      BY DEF Trie!Live
    <3> QED
      BY <3>1, <3>2, FS_Subset
  <2>2. [id \in Trie!Live |-> patterns[id]] \in Surjection(Trie!Live, inUse)
    BY DEF Surjection
  <2> QED
    BY <2>1, <2>2, FS_Surjection
<1>3. ASSUME NEW s \in Trie!Messages
      PROVE  (\E p \in inUse : Trie!SubjectMatches(p, s)) <=>
             (\E p \in Trie!MinimalFilter(inUse) : Trie!SubjectMatches(p, s))
  <2>1. Trie!MinimalFilter(inUse) = Subjects!MinimalFilter(inUse)
    BY TrieSubjects
  <2>2. \A p : Trie!SubjectMatches(p, s) <=> Subjects!SubjectMatches(p, s)
    BY TrieSubjects
  <2>3. Subjects!MinimalFilter(inUse) \subseteq inUse
    BY DEF Subjects!MinimalFilter
  <2> HIDE DEF inUse
  <2>4. \A p \in inUse : Subjects!SubjectMatches(p, s) =>
          \E y \in Subjects!MinimalFilter(inUse) : Subjects!SubjectMatches(y, s)
    BY <1>1, <1>2, FilterMatches
  <2> QED
    BY <2>1, <2>2, <2>3, <2>4
<1> QED
  BY <1>3 DEF Trie!FilterMeansTheSame

(* What the trie keeps in its part, it keeps in the client.                *)
LEMMA TrieInvariant == ClientSpec => [](part = "trie" => TrieInv)
<1>1. ClientInit => (part = "trie" => TrieInv)
  <2> SUFFICES ASSUME ClientInit PROVE TrieInv
    OBVIOUS
  <2>1. /\ trie = [nodes |-> {<<>>}, entries |-> {}, wcGt |-> {}]
        /\ patterns = [id \in Ids |-> Trie!NoPattern]
    BY DEF ClientInit, Trie!Init
  <2>2. Trie!Live = {}
    BY <2>1 DEF Trie!Live
  <2> QED
    BY <2>1, <2>2 DEF TrieInv, Held, Trie!Holding
<1>2. (part = "trie" => TrieInv) /\ [ClientNext]_clientVars => (part = "trie" => TrieInv)'
  <2> SUFFICES ASSUME part = "trie" => TrieInv, [ClientNext]_clientVars, part' = "trie"
               PROVE  TrieInv'
    OBVIOUS
  <2>1. part = "trie" /\ [Trie!Next]_Trie!vars
    BY DEF ClientNext, clientVars, trieVars, Trie!vars
  <2> QED
    BY <2>1, TrieStep
<1> QED
  BY <1>1, <1>2, PTL DEF ClientSpec

(* The walk through the trie finds the subscriptions that match a subject, *)
(* and only those (subject.go, match), after any sequence of inserts,      *)
(* removals, with their pruning, and resets.                               *)
THEOREM WalkIsMatching == ClientSpec => []MatchFindsSubscriptions
<1>1. (part = "trie" => TrieInv) => MatchFindsSubscriptions
  BY TrieMatches DEF MatchFindsSubscriptions
<1> QED
  BY <1>1, TrieInvariant, PTL

(* The filter sent to the server lets through what the subscriptions match *)
(* (filterSubjectsLocked).                                                 *)
THEOREM FilterIsEnough == ClientSpec => []FilterMeansTheSame
<1>1. (part = "trie" => TrieInv) => FilterMeansTheSame
  BY TrieFilters DEF FilterMeansTheSame
<1> QED
  BY <1>1, TrieInvariant, PTL

---------------------------------------------------------------------------
(* The consumer wrapper.                                                   *)
LEMMA WrapperSubjects ==
  /\ \A p, s : Wrapper!SubjectMatches(p, s) <=> Subjects!SubjectMatches(p, s)
  /\ \A S : Wrapper!MinimalFilter(S) = Subjects!MinimalFilter(S)
<1>1. \A p, s : Wrapper!SubjectMatches(p, s) <=> Subjects!SubjectMatches(p, s)
  BY DEF Wrapper!SubjectMatches, Subjects!SubjectMatches, Wrapper!AgreeUpTo, Subjects!AgreeUpTo,
         Wrapper!Gt, Subjects!Gt, Wrapper!Star, Subjects!Star
<1>2. \A p, s : Wrapper!PatternContains(p, s) <=> Subjects!PatternContains(p, s)
  BY DEF Wrapper!PatternContains, Subjects!PatternContains, Wrapper!WithinUpTo, Subjects!WithinUpTo,
         Wrapper!Gt, Subjects!Gt, Wrapper!Star, Subjects!Star
<1> QED
  BY <1>1, <1>2 DEF Wrapper!MinimalFilter, Subjects!MinimalFilter

(* A message of a counted subject passes a filter that was asked for.      *)
Passes(m, F) == \E y \in F : Wrapper!SubjectMatches(y, m)

Covers(S, F) ==
  \A m \in MessageSubjects : \A x \in S : Wrapper!SubjectMatches(x, m) => Passes(m, F)

LEMMA AskedCovers ==
  ASSUME NEW v
  PROVE  Covers(Wrapper!Counted(v), Wrapper!MinimalFilter(Wrapper!Counted(v)))
<1> DEFINE S == Wrapper!Counted(v)
<1>1. /\ IsFiniteSet(WrapperSubs) /\ SubPatterns \in [WrapperSubs -> Seq(STRING)]
      /\ MessageSubjects \subseteq Seq(STRING)
  BY ClientAssumption DEF Wrapper!ConsumerAssumption, Wrapper!IsFiniteSet, IsFiniteSet
<1>2. S \in SUBSET Seq(STRING)
  BY <1>1 DEF Wrapper!Counted, Wrapper!Subjects
<1>3. IsFiniteSet(S)
  <2>1. SubPatterns \in Surjection(WrapperSubs, Wrapper!Subjects)
    BY <1>1 DEF Surjection, Wrapper!Subjects
  <2>2. IsFiniteSet(Wrapper!Subjects)
    BY <1>1, <2>1, FS_Surjection
  <2>3. S \in SUBSET Wrapper!Subjects
    BY DEF Wrapper!Counted
  <2> QED
    BY <2>2, <2>3, FS_Subset
<1> HIDE DEF S
<1>4. \A m \in MessageSubjects : \A x \in S :
        Subjects!SubjectMatches(x, m) =>
          \E y \in Subjects!MinimalFilter(S) : Subjects!SubjectMatches(y, m)
  BY <1>1, <1>2, <1>3, FilterMatches
<1>5. Covers(S, Wrapper!MinimalFilter(S))
  BY <1>4, WrapperSubjects DEF Covers, Passes
<1> QED
  BY <1>5 DEF S

(* What the argument needs of the types.                                   *)
WrapperTypes ==
  /\ w \in Wrapper!Wrapper
  /\ waiting \subseteq [by : Wrapper!Caller, on : Wrapper!Dispatches]
  /\ alive \subseteq Wrapper!Servers
  /\ filter \in [Wrapper!Servers -> SUBSET Wrapper!Subjects]

(* Holding nothing, as after a reset.                                      *)
Clean(v) ==
  v.entries = {} /\ Wrapper!Counted(v) = {} /\ v.cons = Wrapper!Nobody /\ ~v.running

WrapperInv ==
  /\ WrapperTypes
  /\ w.closed => Clean(w)
  /\ w.cons \in alive => Covers(Wrapper!Counted(w), filter[w.cons])

(* What an operation does to the wrapper and its consumer: it leaves       *)
(* nothing; or no more than there was, of the subscriptions and on the     *)
(* server; or it has asked the server for what is counted now.             *)
Fewer ==
  /\ w'.closed = w.closed /\ w'.cons \in {w.cons, Wrapper!Nobody}
  /\ w'.entries \subseteq w.entries /\ (w'.running => w.running)
  /\ Wrapper!Counted(w') \subseteq Wrapper!Counted(w)
  /\ alive' \subseteq alive /\ \A n \in alive' : filter'[n] = filter[n]

Asked ==
  ~w'.closed /\ filter'[w'.cons] = Wrapper!MinimalFilter(Wrapper!Counted(w'))

LEMMA EffectKeeps ==
  ASSUME WrapperInv, WrapperTypes', Clean(w') \/ Fewer \/ Asked
  PROVE  WrapperInv'
<1>1. Wrapper!Nobody \notin alive' /\ Clean(w)' = Clean(w') /\ Wrapper!Counted(w)' = Wrapper!Counted(w')
  BY DEF WrapperTypes, Wrapper!Servers, Wrapper!Nobody, Clean, Wrapper!Counted
<1>2. CASE Clean(w')
  BY <1>1, <1>2 DEF WrapperInv, Clean
<1>3. CASE Fewer
  <2>1. w'.closed => Clean(w')
    BY <1>3 DEF Fewer, WrapperInv, Clean
  <2>2. ASSUME w'.cons \in alive'
        PROVE  Covers(Wrapper!Counted(w'), filter'[w'.cons])
    <3>1. w'.cons = w.cons /\ w.cons \in alive /\ filter'[w.cons] = filter[w.cons]
      BY <1>1, <1>3, <2>2 DEF Fewer
    <3> QED
      BY <1>3, <3>1 DEF WrapperInv, Fewer, Covers
  <2>3. Covers(Wrapper!Counted(w), filter[w.cons])' <=> Covers(Wrapper!Counted(w'), filter'[w'.cons])
    BY <1>1 DEF Covers, Passes, Wrapper!SubjectMatches
  <2> QED
    BY <1>1, <2>1, <2>2, <2>3 DEF WrapperInv
<1>4. CASE Asked
  <2>1. Covers(Wrapper!Counted(w'), filter'[w'.cons])
    BY <1>4, AskedCovers DEF Asked
  <2>2. Covers(Wrapper!Counted(w), filter[w.cons])' <=> Covers(Wrapper!Counted(w'), filter'[w'.cons])
    BY <1>1 DEF Covers, Passes, Wrapper!SubjectMatches
  <2> QED
    BY <1>4, <2>1, <2>2 DEF WrapperInv, Asked
<1> QED
  BY <1>2, <1>3, <1>4

(* What the helpers of the operations return.                              *)
LEMMA InsertedIs ==
  ASSUME WrapperTypes, NEW s \in WrapperSubs
  PROVE  /\ Wrapper!Inserted(s) \in Wrapper!Wrapper
         /\ Wrapper!Inserted(s).closed = w.closed /\ Wrapper!Inserted(s).cons = w.cons
         /\ Wrapper!Inserted(s).running = w.running
<1> DEFINE x == SubPatterns[s]
<1>1. w \in Wrapper!Wrapper /\ x \in Wrapper!Subjects
  BY DEF WrapperTypes, Wrapper!Subjects
<1>2. Wrapper!Inserted(s) = [w EXCEPT !.entries = @ \cup {s}, !.refs[x] = @ + 1]
  BY DEF Wrapper!Inserted
<1> DEFINE refs == [w.refs EXCEPT ![x] = @ + 1]
<1> HIDE DEF x
<1>3. w.refs \in [Wrapper!Subjects -> Nat]
  BY <1>1 DEF Wrapper!Wrapper
<1>4. refs \in [Wrapper!Subjects -> Nat]
  BY <1>1, <1>3
<1> DEFINE entries == w.entries \cup {s}
<1>5. entries \in SUBSET WrapperSubs
  BY <1>1 DEF Wrapper!Wrapper
<1>6. Wrapper!Inserted(s) = [w EXCEPT !.entries = entries, !.refs = refs]
  BY <1>1, <1>2 DEF Wrapper!Wrapper
<1> HIDE DEF refs, entries
<1> QED
  BY <1>1, <1>4, <1>5, <1>6 DEF Wrapper!Wrapper

LEMMA RemovedIs ==
  ASSUME NEW v \in Wrapper!Wrapper, NEW s
  PROVE  /\ Wrapper!Removed(v, s) \in Wrapper!Wrapper
         /\ Wrapper!Removed(v, s).closed = v.closed /\ Wrapper!Removed(v, s).cons = v.cons
         /\ Wrapper!Removed(v, s).running = v.running
         /\ Wrapper!Removed(v, s).entries \subseteq v.entries
         /\ Wrapper!Counted(Wrapper!Removed(v, s)) \subseteq Wrapper!Counted(v)
<1> DEFINE x == SubPatterns[s]
           refs == [v.refs EXCEPT ![x] = IF @ > 0 THEN @ - 1 ELSE 0]
<1>1. v.refs \in [Wrapper!Subjects -> Nat]
  BY DEF Wrapper!Wrapper
<1> HIDE DEF x
<1>2. refs \in [Wrapper!Subjects -> Nat] /\ \A y \in Wrapper!Subjects : refs[y] > 0 => v.refs[y] > 0
  <2>1. CASE x \in Wrapper!Subjects
    BY <1>1, <2>1
  <2>2. CASE x \notin Wrapper!Subjects
    <3>1. refs = v.refs
      BY <1>1, <2>2
    <3> QED
      BY <1>1, <3>1
  <2> QED
    BY <2>1, <2>2
<1>3. Wrapper!Removed(v, s) = [v EXCEPT !.entries = @ \ {s}, !.refs = refs]
  BY DEF Wrapper!Removed, Wrapper!Wrapper, x
<1> HIDE DEF refs
<1>4. Wrapper!Removed(v, s) \in Wrapper!Wrapper /\ Wrapper!Removed(v, s).refs = refs
  BY <1>2, <1>3 DEF Wrapper!Wrapper
<1> QED
  BY <1>2, <1>3, <1>4 DEF Wrapper!Wrapper, Wrapper!Counted

(* An insertion that is taken back changes no count.                       *)
LEMMA InsertedRemovedIs ==
  ASSUME WrapperTypes, NEW s \in WrapperSubs
  PROVE  /\ Wrapper!Removed(Wrapper!Inserted(s), s) \in Wrapper!Wrapper
         /\ Wrapper!Removed(Wrapper!Inserted(s), s).closed = w.closed
         /\ Wrapper!Removed(Wrapper!Inserted(s), s).cons = w.cons
         /\ Wrapper!Removed(Wrapper!Inserted(s), s).running = w.running
         /\ Wrapper!Removed(Wrapper!Inserted(s), s).entries \subseteq w.entries
         /\ Wrapper!Counted(Wrapper!Removed(Wrapper!Inserted(s), s)) = Wrapper!Counted(w)
<1> DEFINE x == SubPatterns[s]
           more == [w.refs EXCEPT ![x] = @ + 1]
           same == [more EXCEPT ![x] = IF @ > 0 THEN @ - 1 ELSE 0]
           v == Wrapper!Inserted(s)
           u == Wrapper!Removed(v, s)
<1>1. w.refs \in [Wrapper!Subjects -> Nat] /\ x \in Wrapper!Subjects
  BY DEF WrapperTypes, Wrapper!Wrapper, Wrapper!Subjects
<1> HIDE DEF x
<1>2. more \in [Wrapper!Subjects -> Nat] /\ same = w.refs
  BY <1>1
<1>3. v \in Wrapper!Wrapper /\ v.refs = more /\ v.entries = w.entries \cup {s}
  BY InsertedIs DEF WrapperTypes, Wrapper!Inserted, Wrapper!Wrapper, x
<1> HIDE DEF more, v
<1>4. u.refs = same /\ u.entries = v.entries \ {s}
  BY <1>3 DEF Wrapper!Removed, Wrapper!Wrapper, x
<1>5. u.refs = w.refs /\ u.entries \subseteq w.entries
  BY <1>2, <1>3, <1>4
<1> HIDE DEF u
<1>6. Wrapper!Counted(u) = Wrapper!Counted(w)
  BY <1>5 DEF Wrapper!Counted
<1> QED
  BY <1>3, <1>5, <1>6, InsertedIs, RemovedIs DEF u, v

LEMMA ResetIs ==
  ASSUME NEW v \in Wrapper!Wrapper
  PROVE  /\ Wrapper!Reset(v) \in Wrapper!Wrapper /\ Clean(Wrapper!Reset(v))
         /\ Wrapper!ClosedForGood(v) \in Wrapper!Wrapper /\ Clean(Wrapper!ClosedForGood(v))
<1> DEFINE u == Wrapper!Reset(v)
<1>1. Wrapper!Cancelling(v) \subseteq Wrapper!Dispatches
  BY DEF Wrapper!Cancelling, Wrapper!Wrapper
<1>2. /\ u \in Wrapper!Wrapper /\ u.entries = {} /\ u.refs = [x \in Wrapper!Subjects |-> 0]
      /\ u.cons = Wrapper!Nobody /\ u.running = FALSE
  BY <1>1 DEF Wrapper!Reset, Wrapper!Wrapper
<1>3. Wrapper!Counted(u) = {}
  BY <1>2 DEF Wrapper!Counted
<1> HIDE DEF u
<1>4. Clean(u)
  BY <1>2, <1>3 DEF Clean
<1> DEFINE c == [u EXCEPT !.closed = TRUE]
<1>5. c \in Wrapper!Wrapper /\ c.entries = {} /\ c.refs = u.refs /\ c.cons = u.cons /\ c.running = u.running
  BY <1>2 DEF Wrapper!Wrapper
<1>6. Clean(c)
  BY <1>4, <1>5 DEF Clean, Wrapper!Counted
<1>7. Wrapper!ClosedForGood(v) = c
  BY DEF Wrapper!ClosedForGood, u
<1> QED
  BY <1>2, <1>4, <1>5, <1>6, <1>7 DEF u

LEMMA DetachedIs ==
  ASSUME NEW v \in Wrapper!Wrapper, NEW cancel \in BOOLEAN
  PROVE  /\ Wrapper!Detached(v, cancel) \in Wrapper!Wrapper
         /\ Wrapper!Detached(v, cancel).closed = v.closed
         /\ Wrapper!Detached(v, cancel).entries = v.entries
         /\ Wrapper!Detached(v, cancel).cons = Wrapper!Nobody
         /\ ~Wrapper!Detached(v, cancel).running
         /\ Wrapper!Counted(Wrapper!Detached(v, cancel)) = Wrapper!Counted(v)
<1>1. Wrapper!Cancelling(v) \subseteq Wrapper!Dispatches
  BY DEF Wrapper!Cancelling, Wrapper!Wrapper
<1>2. /\ Wrapper!Detached(v, cancel) \in Wrapper!Wrapper
      /\ Wrapper!Detached(v, cancel).closed = v.closed
      /\ Wrapper!Detached(v, cancel).entries = v.entries
      /\ Wrapper!Detached(v, cancel).refs = v.refs
      /\ Wrapper!Detached(v, cancel).cons = Wrapper!Nobody
      /\ Wrapper!Detached(v, cancel).running = FALSE
  BY <1>1 DEF Wrapper!Detached, Wrapper!Wrapper
<1> QED
  BY <1>2 DEF Wrapper!Counted

LEMMA StartFailedIs ==
  ASSUME WrapperTypes, NEW d \in Wrapper!Dispatches
  PROVE  /\ Wrapper!StartFailed(d) \in Wrapper!Wrapper
         /\ Wrapper!StartFailed(d).closed = w.closed /\ Wrapper!StartFailed(d).cons = w.cons
         /\ Wrapper!StartFailed(d).entries = w.entries
         /\ Wrapper!StartFailed(d).running => w.running
         /\ Wrapper!Counted(Wrapper!StartFailed(d)) = Wrapper!Counted(w)
<1> DEFINE v == Wrapper!StartFailed(d)
<1>1. /\ v \in Wrapper!Wrapper /\ v.closed = w.closed /\ v.cons = w.cons
      /\ v.entries = w.entries /\ v.refs = w.refs /\ (v.running => w.running)
  BY DEF WrapperTypes, Wrapper!StartFailed, Wrapper!Wrapper
<1> HIDE DEF v
<1>2. Wrapper!Counted(v) = Wrapper!Counted(w)
  BY <1>1 DEF Wrapper!Counted
<1> QED
  BY <1>1, <1>2 DEF v

Waiting == SUBSET [by : Wrapper!Caller, on : Wrapper!Dispatches]

LEMMA StartDispatchIs ==
  ASSUME NEW v \in Wrapper!Wrapper, NEW by \in Wrapper!Caller, NEW others \in Waiting,
         Wrapper!StartDispatch(v, by, others)
  PROVE  /\ w' \in Wrapper!Wrapper /\ waiting' \in Waiting
         /\ w'.closed = v.closed /\ w'.cons = v.cons
         /\ w'.entries = v.entries
         /\ Wrapper!Counted(w') = Wrapper!Counted(v)
<1> DEFINE d == v.dispatchID + 1
<1>1. /\ d \in Wrapper!Dispatches
      /\ w' = [v EXCEPT !.running = TRUE, !.dispatchID = d, !.dispatchCancel = d]
      /\ waiting' = others \cup {[by |-> by, on |-> d]}
  BY DEF Wrapper!StartDispatch
<1> HIDE DEF d
<1>2. /\ w' \in Wrapper!Wrapper /\ w'.closed = v.closed /\ w'.cons = v.cons
      /\ w'.refs = v.refs /\ w'.entries = v.entries
  BY <1>1 DEF Wrapper!Wrapper
<1>3. waiting' \in Waiting
  BY <1>1 DEF Waiting
<1> QED
  BY <1>2, <1>3 DEF Wrapper!Counted

(* What the calls to the server leave there.                               *)
ServerTypes ==
  alive \subseteq Wrapper!Servers /\ filter \in [Wrapper!Servers -> SUBSET Wrapper!Subjects]

LEMMA AskingIs ==
  ASSUME WrapperTypes, NEW v, NEW n \in Wrapper!Servers,
         Wrapper!Create(v, n) \/ (n = v.cons /\ Wrapper!Update(v))
  PROVE  /\ ServerTypes'
         /\ filter'[n] = Wrapper!MinimalFilter(Wrapper!Counted(v))
<1> DEFINE F == Wrapper!MinimalFilter(Wrapper!Counted(v))
<1>1. F \subseteq Wrapper!Subjects
  BY DEF Wrapper!MinimalFilter, Wrapper!Counted
<1>2. filter' = [filter EXCEPT ![n] = F] /\ alive' \subseteq alive \cup {n}
  BY DEF Wrapper!Create, Wrapper!Update
<1> HIDE DEF F
<1>3. ServerTypes' /\ filter'[n] = F
  BY <1>1, <1>2 DEF WrapperTypes, ServerTypes
<1> QED
  BY <1>3 DEF F

(* A server consumer goes at most, and the others keep their filter.       *)
Spared ==
  ServerTypes' /\ alive' \subseteq alive /\ \A n \in alive' : filter'[n] = filter[n]

LEMMA SparedIs ==
  ASSUME WrapperTypes
  PROVE  /\ UNCHANGED Wrapper!serverVars => Spared
         /\ \A n \in Wrapper!Servers : Wrapper!Delete(n) => Spared
<1>1. ASSUME UNCHANGED Wrapper!serverVars PROVE Spared
  BY <1>1 DEF Wrapper!serverVars, WrapperTypes, Spared, ServerTypes
<1>2. ASSUME NEW n \in Wrapper!Servers, Wrapper!Delete(n) PROVE Spared
  BY <1>2 DEF Wrapper!Delete, WrapperTypes, Spared, ServerTypes
<1> QED
  BY <1>1, <1>2

(* The three effects, with what the operations do to their variables.      *)
LEMMA ResetKeeps ==
  ASSUME WrapperInv, NEW v \in Wrapper!Wrapper,
         w' \in {Wrapper!Reset(v), Wrapper!ClosedForGood(v)}, waiting' \in Waiting, Spared
  PROVE  WrapperInv'
<1>1. w' \in Wrapper!Wrapper /\ Clean(w')
  BY ResetIs
<1>2. WrapperTypes'
  BY <1>1 DEF WrapperTypes, Waiting, Spared, ServerTypes
<1> QED
  BY <1>1, <1>2, EffectKeeps

(* v has no more than the wrapper.                                         *)
NoMore(v) ==
  /\ v \in Wrapper!Wrapper
  /\ v.closed = w.closed /\ v.cons \in {w.cons, Wrapper!Nobody}
  /\ v.entries \subseteq w.entries /\ (v.running => w.running)
  /\ Wrapper!Counted(v) \subseteq Wrapper!Counted(w)

LEMMA NoMoreKeeps ==
  ASSUME WrapperInv, NoMore(w'), waiting' \in Waiting, Spared
  PROVE  WrapperInv'
<1>1. WrapperTypes' /\ Fewer
  BY DEF WrapperTypes, Waiting, Spared, ServerTypes, NoMore, Fewer
<1> QED
  BY <1>1, EffectKeeps

LEMMA AskedKeeps ==
  ASSUME WrapperInv, NEW n \in Wrapper!Servers, NEW v,
         Wrapper!Create(v, n) \/ (n = v.cons /\ Wrapper!Update(v)),
         w' \in Wrapper!Wrapper, ~w'.closed, w'.cons = n,
         Wrapper!Counted(w') = Wrapper!Counted(v), waiting' \in Waiting
  PROVE  WrapperInv'
<1>1. ServerTypes' /\ filter'[n] = Wrapper!MinimalFilter(Wrapper!Counted(v))
  BY AskingIs DEF WrapperInv
<1>2. WrapperTypes' /\ Asked
  BY <1>1 DEF WrapperTypes, Waiting, ServerTypes, Asked
<1> QED
  BY <1>2, EffectKeeps

LEMMA RecoverKeeps ==
  ASSUME WrapperInv, NEW v \in Wrapper!Wrapper, ~v.closed, NEW by \in Wrapper!Caller,
         Wrapper!Recover(v, by)
  PROVE  WrapperInv'
<1>1. PICK n \in Wrapper!Servers :
        Wrapper!Create(v, n) /\ Wrapper!StartDispatch([v EXCEPT !.cons = n], by, waiting)
  BY DEF Wrapper!Recover
<1> DEFINE u == [v EXCEPT !.cons = n]
<1>2. u \in Wrapper!Wrapper /\ u.closed = v.closed /\ u.cons = n /\ u.refs = v.refs
  BY DEF Wrapper!Wrapper
<1> HIDE DEF u
<1>3. Wrapper!Counted(u) = Wrapper!Counted(v)
  BY <1>2 DEF Wrapper!Counted
<1>4. waiting \in Waiting
  BY DEF WrapperInv, WrapperTypes, Waiting
<1>5. /\ w' \in Wrapper!Wrapper /\ waiting' \in Waiting /\ w'.closed = v.closed /\ w'.cons = n
      /\ Wrapper!Counted(w') = Wrapper!Counted(v)
  <2>1. Wrapper!StartDispatch(u, by, waiting)
    BY <1>1 DEF u
  <2> QED
    BY <1>2, <1>3, <1>4, <2>1, StartDispatchIs
<1> QED
  BY <1>1, <1>5, AskedKeeps

LEMMA RecoverFailsKeeps ==
  ASSUME WrapperInv, NEW v \in Wrapper!Wrapper, Wrapper!RecoverFails(v)
  PROVE  WrapperInv'
<1>1. w' = Wrapper!Reset(v) /\ UNCHANGED Wrapper!serverVars /\ waiting' = waiting
  BY DEF Wrapper!RecoverFails
<1>2. waiting' \in Waiting /\ Spared
  BY <1>1, SparedIs DEF WrapperInv, WrapperTypes, Waiting
<1> QED
  BY <1>1, <1>2, ResetKeeps

LEMMA RemovedNoMore ==
  ASSUME NEW v, NoMore(v), NEW s
  PROVE  NoMore(Wrapper!Removed(v, s))
<1>1. v \in Wrapper!Wrapper
  BY DEF NoMore
<1> QED
  BY <1>1, RemovedIs DEF NoMore

LEMMA CallerFailsKeeps ==
  ASSUME WrapperInv, NEW v, NoMore(v), NEW by \in Wrapper!Caller, Wrapper!CallerFails(by, v),
         waiting' \in Waiting, UNCHANGED Wrapper!serverVars
  PROVE  WrapperInv'
<1>1. v \in Wrapper!Wrapper /\ Spared
  BY SparedIs DEF NoMore, WrapperInv
<1>2. by.kind \in {"subscribe", "resubscribe", "unsubscribe", "dispatch"}
  BY DEF Wrapper!Caller
<1>3. \/ w' = Wrapper!Removed(v, by.sub)
      \/ w' = Wrapper!Reset(v)
  BY <1>2 DEF Wrapper!CallerFails
<1>4. CASE w' = Wrapper!Removed(v, by.sub)
  BY <1>1, <1>4, RemovedNoMore, NoMoreKeeps
<1>5. CASE w' = Wrapper!Reset(v)
  BY <1>1, <1>5, ResetKeeps
<1> QED
  BY <1>3, <1>4, <1>5

LEMMA CallersAre ==
  /\ \A s \in WrapperSubs : \A k \in {"subscribe", "resubscribe", "unsubscribe"} :
       [kind |-> k, sub |-> s] \in Wrapper!Caller
  /\ \A d \in Wrapper!Dispatches : [kind |-> "dispatch", id |-> d] \in Wrapper!Caller
BY DEF Wrapper!Caller

(* The wrapper as it is.                                                   *)
LEMMA SameNoMore == ASSUME WrapperInv PROVE NoMore(w) /\ waiting \in Waiting /\ w \in Wrapper!Wrapper
BY DEF WrapperInv, WrapperTypes, NoMore, Waiting

LEMMA SameKeeps ==
  ASSUME WrapperInv, w' = w, waiting' = waiting, Spared
  PROVE  WrapperInv'
BY SameNoMore, NoMoreKeeps

LEMMA SubscribeKeeps ==
  ASSUME WrapperInv, NEW s \in WrapperSubs,
         \/ Wrapper!SubscribeRefused(s) \/ Wrapper!SubscribeFails(s)
         \/ Wrapper!SubscribeOnServer(s) \/ Wrapper!SubscribeMissing(s)
  PROVE  WrapperInv'
<1> DEFINE v == Wrapper!Inserted(s)
<1>0. /\ v \in Wrapper!Wrapper /\ v.closed = w.closed /\ v.cons = w.cons /\ v.running = w.running
      /\ waiting \in Waiting
  BY InsertedIs, SameNoMore DEF WrapperInv
<1>1. CASE Wrapper!SubscribeRefused(s)
  <2>1. w' = w /\ waiting' = waiting /\ Spared
    BY <1>1, SparedIs DEF Wrapper!SubscribeRefused, WrapperInv
  <2> QED
    BY <2>1, SameKeeps
<1>2. CASE Wrapper!SubscribeFails(s)
  <2>1. w' = Wrapper!Removed(v, s) /\ waiting' = waiting /\ Spared
    BY <1>2, SparedIs DEF Wrapper!SubscribeFails, WrapperInv
  <2>2. NoMore(w')
    BY <2>1, InsertedRemovedIs DEF NoMore, WrapperInv
  <2> QED
    BY <1>0, <2>1, <2>2, NoMoreKeeps
<1>3. CASE Wrapper!SubscribeOnServer(s)
  <2> DEFINE u(n) == [v EXCEPT !.cons = n]
  <2>1. PICK n \in Wrapper!Servers :
          /\ Wrapper!Create(v, n) \/ (n = v.cons /\ Wrapper!Update(v))
          /\ \/ w' = u(n) /\ waiting' = waiting
             \/ Wrapper!StartDispatch(u(n), [kind |-> "subscribe", sub |-> s], waiting)
    BY <1>0, <1>3 DEF Wrapper!SubscribeOnServer
  <2>2. ~w.closed
    BY <1>3 DEF Wrapper!SubscribeOnServer
  <2> HIDE DEF v
  <2>3. u(n) \in Wrapper!Wrapper /\ u(n).closed = w.closed /\ u(n).cons = n /\ u(n).refs = v.refs
    BY <1>0 DEF Wrapper!Wrapper
  <2> HIDE DEF u
  <2>4. Wrapper!Counted(u(n)) = Wrapper!Counted(v)
    BY <2>3 DEF Wrapper!Counted
  <2>5. /\ w' \in Wrapper!Wrapper /\ waiting' \in Waiting /\ w'.closed = w.closed /\ w'.cons = n
        /\ Wrapper!Counted(w') = Wrapper!Counted(v)
    BY <1>0, <2>1, <2>3, <2>4, CallersAre, StartDispatchIs
  <2> QED
    BY <2>1, <2>2, <2>5, AskedKeeps
<1>4. CASE Wrapper!SubscribeMissing(s)
  <2> DEFINE u == Wrapper!Detached(v, TRUE)
  <2>1. ~w.closed
    BY <1>4 DEF Wrapper!SubscribeMissing
  <2>2. u \in Wrapper!Wrapper /\ ~u.closed
    BY <1>0, <2>1, DetachedIs
  <2>3. \/ w' = Wrapper!ClosedForGood(v) /\ waiting' = waiting /\ UNCHANGED Wrapper!serverVars
        \/ Wrapper!Recover(u, [kind |-> "resubscribe", sub |-> s])
        \/ Wrapper!RecoverFails(u)
    BY <1>4 DEF Wrapper!SubscribeMissing
  <2> HIDE DEF u, v
  <2>4. CASE w' = Wrapper!ClosedForGood(v) /\ waiting' = waiting /\ UNCHANGED Wrapper!serverVars
    BY <1>0, <2>4, SparedIs, ResetKeeps DEF WrapperInv
  <2> QED
    BY <2>2, <2>3, <2>4, CallersAre, RecoverKeeps, RecoverFailsKeeps
<1> QED
  BY <1>1, <1>2, <1>3, <1>4

LEMMA UnsubscribeKeeps ==
  ASSUME WrapperInv, NEW s \in WrapperSubs,
         \/ Wrapper!UnsubscribeLast(s) \/ Wrapper!UnsubscribeUpdate(s)
         \/ Wrapper!UnsubscribeMissing(s)
  PROVE  WrapperInv'
<1> DEFINE v == Wrapper!Removed(w, s)
<1>0. /\ NoMore(v) /\ v \in Wrapper!Wrapper /\ v.closed = w.closed /\ v.cons = w.cons
      /\ waiting \in Waiting /\ w \in Wrapper!Wrapper
  BY SameNoMore, RemovedNoMore, RemovedIs
<1>1. ~w.closed
  <2>1. s \in w.entries
    BY DEF Wrapper!UnsubscribeLast, Wrapper!UnsubscribeUpdate, Wrapper!UnsubscribeMissing,
           Wrapper!Unsubscribable
  <2> QED
    BY <2>1 DEF WrapperInv, Clean
<1>2. CASE Wrapper!UnsubscribeLast(s)
  <2>1. /\ w.cons # Wrapper!Nobody /\ waiting' = waiting
        /\ w' = [v EXCEPT !.cancelled = Wrapper!Cancelling(v), !.dispatchCancel = Wrapper!Nobody,
                          !.running = FALSE, !.cons = Wrapper!Nobody]
        /\ Wrapper!Delete(w.cons) \/ UNCHANGED Wrapper!serverVars
    BY <1>2 DEF Wrapper!UnsubscribeLast
  <2>2. w.cons \in Wrapper!Servers
    BY <1>0, <2>1 DEF Wrapper!Wrapper
  <2>3. Spared
    BY <2>1, <2>2, SparedIs DEF WrapperInv
  <2> HIDE DEF v
  <2>4. Wrapper!Cancelling(v) \subseteq Wrapper!Dispatches
    BY <1>0 DEF Wrapper!Cancelling, Wrapper!Wrapper
  <2>5. /\ w' \in Wrapper!Wrapper /\ w'.closed = w.closed /\ w'.cons = Wrapper!Nobody
        /\ w'.entries = v.entries /\ w'.running = FALSE /\ w'.refs = v.refs
    BY <1>0, <2>1, <2>4 DEF Wrapper!Wrapper
  <2>6. NoMore(w')
    BY <1>0, <2>5 DEF NoMore, Wrapper!Counted
  <2> QED
    BY <1>0, <2>1, <2>3, <2>6, NoMoreKeeps
<1>3. CASE Wrapper!UnsubscribeUpdate(s)
  <2>1. w' = v /\ waiting' = waiting
    BY <1>3 DEF Wrapper!UnsubscribeUpdate
  <2>2. UNCHANGED Wrapper!serverVars \/ (w.cons # Wrapper!Nobody /\ Wrapper!Update(v))
    BY <1>3 DEF Wrapper!UnsubscribeUpdate
  <2> HIDE DEF v
  <2>3. CASE UNCHANGED Wrapper!serverVars
    BY <1>0, <2>1, <2>3, SparedIs, NoMoreKeeps DEF WrapperInv
  <2>4. CASE w.cons # Wrapper!Nobody /\ Wrapper!Update(v)
    <3>1. w.cons \in Wrapper!Servers
      BY <1>0, <2>4 DEF Wrapper!Wrapper
    <3> QED
      BY <1>0, <1>1, <2>1, <2>4, <3>1, AskedKeeps
  <2> QED
    BY <2>2, <2>3, <2>4
<1>4. CASE Wrapper!UnsubscribeMissing(s)
  <2> DEFINE u == Wrapper!Detached(v, TRUE)
  <2>1. u \in Wrapper!Wrapper /\ ~u.closed
    BY <1>0, <1>1, DetachedIs
  <2>2. \/ w' = Wrapper!ClosedForGood(v) /\ waiting' = waiting /\ UNCHANGED Wrapper!serverVars
        \/ Wrapper!Recover(u, [kind |-> "unsubscribe", sub |-> s])
        \/ Wrapper!RecoverFails(u)
    BY <1>4 DEF Wrapper!UnsubscribeMissing
  <2> HIDE DEF u, v
  <2>3. CASE w' = Wrapper!ClosedForGood(v) /\ waiting' = waiting /\ UNCHANGED Wrapper!serverVars
    BY <1>0, <2>3, SparedIs, ResetKeeps DEF WrapperInv
  <2> QED
    BY <2>1, <2>2, <2>3, CallersAre, RecoverKeeps, RecoverFailsKeeps
<1> QED
  BY <1>2, <1>3, <1>4

LEMMA ResumeKeeps ==
  ASSUME WrapperInv, NEW x \in waiting, Wrapper!Resume(x)
  PROVE  WrapperInv'
<1>1. x.by \in Wrapper!Caller /\ x.on \in Wrapper!Dispatches /\ waiting \ {x} \in Waiting
  BY DEF WrapperInv, WrapperTypes, Waiting
<1>2. CASE Wrapper!ResumeError(x)
  <2> DEFINE u == [w EXCEPT !.cancelled = @ \cup {x.on}]
  <2>1. /\ waiting' = waiting \ {x} /\ UNCHANGED Wrapper!serverVars
        /\ Wrapper!CallerFails(x.by, Wrapper!StartFailed(x.on)) \/ Wrapper!CallerFails(x.by, u)
    BY <1>2 DEF Wrapper!ResumeError
  <2>2. NoMore(Wrapper!StartFailed(x.on))
    BY <1>1, StartFailedIs DEF WrapperInv, NoMore
  <2>3. NoMore(u)
    <3>1. /\ u \in Wrapper!Wrapper /\ u.closed = w.closed /\ u.cons = w.cons
          /\ u.entries = w.entries /\ u.running = w.running /\ u.refs = w.refs
      BY <1>1 DEF WrapperInv, WrapperTypes, Wrapper!Wrapper
    <3> HIDE DEF u
    <3> QED
      BY <3>1 DEF NoMore, Wrapper!Counted
  <2> HIDE DEF u
  <2> QED
    BY <1>1, <2>1, <2>2, <2>3, CallerFailsKeeps
<1>3. CASE Wrapper!ResumeReady(x)
  <2>1. w' = w /\ waiting' = waiting \ {x} /\ Spared
    BY <1>3, SparedIs DEF Wrapper!ResumeReady, WrapperInv
  <2> QED
    BY <1>1, <2>1, SameNoMore, NoMoreKeeps
<1>4. CASE Wrapper!ResumeStopped(x)
  <2> DEFINE by == [kind |-> "subscribe", sub |-> x.by.sub]
  <2>1. x.by.kind = "resubscribe" /\ UNCHANGED Wrapper!serverVars
    BY <1>4 DEF Wrapper!ResumeStopped
  <2>2. by \in Wrapper!Caller
    BY <1>1, <2>1 DEF Wrapper!Caller
  <2>3. \/ Wrapper!StartDispatch(w, by, waiting \ {x})
        \/ waiting' = waiting \ {x} /\ Wrapper!CallerFails(by, w)
    BY <1>4 DEF Wrapper!ResumeStopped
  <2> HIDE DEF by
  <2>4. CASE Wrapper!StartDispatch(w, by, waiting \ {x})
    <3>1. ~w.closed
      BY <1>4 DEF Wrapper!ResumeStopped
    <3>2. /\ w' \in Wrapper!Wrapper /\ waiting' \in Waiting /\ w'.closed = w.closed /\ w'.cons = w.cons
          /\ Wrapper!Counted(w') = Wrapper!Counted(w)
      BY <1>1, <2>2, <2>4, SameNoMore, StartDispatchIs
    <3>3. Spared
      BY <2>1, SparedIs DEF WrapperInv
    <3>4. WrapperTypes'
      BY <3>2, <3>3 DEF WrapperTypes, Waiting, Spared, ServerTypes
    <3>5. w'.cons \in alive' => Covers(Wrapper!Counted(w'), filter'[w'.cons])
      BY <3>2, <3>3 DEF Spared, WrapperInv
    <3>6. Covers(Wrapper!Counted(w), filter[w.cons])' <=> Covers(Wrapper!Counted(w'), filter'[w'.cons])
      BY DEF Covers, Passes, Wrapper!SubjectMatches, Wrapper!Counted
    <3> QED
      BY <3>1, <3>2, <3>4, <3>5, <3>6 DEF WrapperInv
  <2>5. CASE waiting' = waiting \ {x} /\ Wrapper!CallerFails(by, w)
    BY <1>1, <2>1, <2>2, <2>5, SameNoMore, CallerFailsKeeps
  <2> QED
    BY <2>3, <2>4, <2>5
<1> QED
  BY <1>2, <1>3, <1>4 DEF Wrapper!Resume

LEMMA CloseKeeps ==
  ASSUME WrapperInv,
         Wrapper!Close \/ \E n \in Wrapper!Servers : Wrapper!DeleteOnClose(n) \/ Wrapper!Drop(n)
  PROVE  WrapperInv'
<1>1. CASE Wrapper!Close
  <2>1. w' = Wrapper!ClosedForGood(w) /\ waiting' = waiting /\ Spared
    BY <1>1, SparedIs DEF Wrapper!Close, WrapperInv
  <2> QED
    BY <2>1, SameNoMore, ResetKeeps
<1>2. ASSUME NEW n \in Wrapper!Servers, Wrapper!DeleteOnClose(n) \/ Wrapper!Drop(n)
      PROVE  WrapperInv'
  <2>1. w' = w /\ waiting' = waiting
    BY <1>2 DEF Wrapper!DeleteOnClose, Wrapper!Drop
  <2>2. Wrapper!Delete(n) \/ UNCHANGED Wrapper!serverVars
    BY <1>2 DEF Wrapper!DeleteOnClose, Wrapper!Drop
  <2> QED
    BY <2>1, <2>2, SparedIs, SameKeeps DEF WrapperInv
<1> QED
  BY <1>1, <1>2

(* What the goroutine does to the wrapper is to be told that it could not  *)
(* open its iterator, or to handle an error of it.                         *)
LEMMA GoroutineKeeps ==
  ASSUME WrapperInv, NEW d \in Wrapper!Dispatches,
         \/ Wrapper!Initialises(d) \/ Wrapper!OpenFails(d) \/ Wrapper!OpenFailed(d)
         \/ \E m \in MessageSubjects : Wrapper!Receive(d, m)
         \/ \E s \in started[d].matches : Wrapper!Send(d, s)
         \/ Wrapper!GiveUp(d)
         \/ Wrapper!IteratorMissing(d) \/ Wrapper!IteratorBroken(d)
         \/ Wrapper!HandleBroken(d) \/ Wrapper!HandleMissing(d) \/ Wrapper!HandleMissingRecovers(d)
  PROVE  WrapperInv'
<1>0. waiting \in Waiting /\ w \in Wrapper!Wrapper /\ NoMore(w)
  BY SameNoMore
<1>1. ASSUME UNCHANGED <<w, waiting>>, UNCHANGED Wrapper!serverVars PROVE WrapperInv'
  BY <1>1, SparedIs, SameKeeps DEF WrapperInv
<1>2. CASE Wrapper!Initialises(d)
  BY <1>1, <1>2 DEF Wrapper!Initialises, Wrapper!ReadConsumer, Wrapper!OpenIterator
<1>3. CASE Wrapper!OpenFails(d)
  BY <1>1, <1>3 DEF Wrapper!OpenFails
<1>4. CASE Wrapper!OpenFailed(d)
  <2>1. /\ w' = [w EXCEPT !.running = FALSE, !.dispatchCancel = Wrapper!Nobody]
        /\ waiting' = waiting /\ Spared
    BY <1>4, SparedIs DEF Wrapper!OpenFailed, WrapperInv
  <2>2. /\ w' \in Wrapper!Wrapper /\ w'.closed = w.closed /\ w'.cons = w.cons
        /\ w'.entries = w.entries /\ w'.running = FALSE /\ w'.refs = w.refs
    BY <1>0, <2>1 DEF Wrapper!Wrapper
  <2>3. NoMore(w')
    BY <2>2 DEF NoMore, Wrapper!Counted
  <2> QED
    BY <1>0, <2>1, <2>3, NoMoreKeeps
<1>5. ASSUME NEW m \in MessageSubjects, Wrapper!Receive(d, m) PROVE WrapperInv'
  BY <1>1, <1>5 DEF Wrapper!Receive
<1>6. ASSUME NEW s, Wrapper!Send(d, s) PROVE WrapperInv'
  BY <1>1, <1>6 DEF Wrapper!Send
<1>7. CASE Wrapper!GiveUp(d)
  BY <1>1, <1>7 DEF Wrapper!GiveUp
<1>8. CASE Wrapper!IteratorMissing(d) \/ Wrapper!IteratorBroken(d)
  BY <1>1, <1>8 DEF Wrapper!IteratorMissing, Wrapper!IteratorBroken
<1>9. CASE Wrapper!HandleBroken(d)
  <2>1. w' = Wrapper!Reset(w) /\ waiting' = waiting /\ Spared
    BY <1>9, SparedIs DEF Wrapper!HandleBroken, WrapperInv
  <2> QED
    BY <1>0, <2>1, ResetKeeps
<1>10. CASE Wrapper!HandleMissing(d)
  <2> DEFINE u == Wrapper!Detached(w, FALSE)
  <2>1. u \in Wrapper!Wrapper /\ NoMore(u)
    BY <1>0, DetachedIs DEF NoMore
  <2>2. \/ /\ w' \in {Wrapper!Reset(w), Wrapper!ClosedForGood(w), u}
           /\ waiting' = waiting /\ UNCHANGED Wrapper!serverVars
        \/ Wrapper!RecoverFails(u)
    BY <1>10 DEF Wrapper!HandleMissing
  <2> HIDE DEF u
  <2>3. CASE /\ w' \in {Wrapper!Reset(w), Wrapper!ClosedForGood(w), u}
             /\ waiting' = waiting /\ UNCHANGED Wrapper!serverVars
    <3>1. Spared
      BY <2>3, SparedIs DEF WrapperInv
    <3>2. CASE w' \in {Wrapper!Reset(w), Wrapper!ClosedForGood(w)}
      BY <1>0, <2>3, <3>1, <3>2, ResetKeeps
    <3>3. CASE w' = u
      BY <1>0, <2>1, <2>3, <3>1, <3>3, NoMoreKeeps
    <3> QED
      BY <2>3, <3>2, <3>3
  <2> QED
    BY <2>1, <2>2, <2>3, RecoverFailsKeeps
<1>11. CASE Wrapper!HandleMissingRecovers(d)
  <2> DEFINE u == Wrapper!Detached(w, FALSE)
  <2>1. ~w.closed /\ Wrapper!Recover(u, [kind |-> "dispatch", id |-> d])
    BY <1>11 DEF Wrapper!HandleMissingRecovers
  <2>2. u \in Wrapper!Wrapper /\ ~u.closed
    BY <1>0, <2>1, DetachedIs
  <2> HIDE DEF u
  <2> QED
    BY <2>1, <2>2, CallersAre, RecoverKeeps
<1> QED
  BY <1>2, <1>3, <1>4, <1>5, <1>6, <1>7, <1>8, <1>9, <1>10, <1>11

LEMMA WrapperStep ==
  ASSUME WrapperInv, [Wrapper!Next]_Wrapper!vars
  PROVE  WrapperInv'
<1>1. CASE UNCHANGED Wrapper!vars
  <2>1. w' = w /\ waiting' = waiting /\ UNCHANGED Wrapper!serverVars
    BY <1>1 DEF Wrapper!vars, Wrapper!serverVars
  <2> QED
    BY <2>1, SparedIs, SameKeeps DEF WrapperInv
<1>2. CASE Wrapper!Next
  BY <1>2, SubscribeKeeps, UnsubscribeKeeps, ResumeKeeps, CloseKeeps, GoroutineKeeps
     DEF Wrapper!Next
<1> QED
  BY <1>1, <1>2

LEMMA WrapperInvariant == ClientSpec => [](part = "wrapper" => WrapperInv)
<1>1. ClientInit => (part = "wrapper" => WrapperInv)
  <2> SUFFICES ASSUME ClientInit PROVE WrapperInv
    OBVIOUS
  <2>1. PICK durable \in BOOLEAN :
          w = [ durable |-> durable, closed |-> FALSE, running |-> FALSE,
                cons |-> Wrapper!Nobody,
                entries |-> {}, refs |-> [x \in Wrapper!Subjects |-> 0],
                dispatchID |-> Wrapper!Nobody,
                dispatchCancel |-> Wrapper!Nobody, cancelled |-> {} ]
    BY DEF ClientInit, Wrapper!Init
  <2>2. waiting = {} /\ alive = {} /\ filter = [n \in Wrapper!Servers |-> {}]
    BY DEF ClientInit, Wrapper!Init
  <2>3. w \in Wrapper!Wrapper /\ ~w.closed
    BY <2>1 DEF Wrapper!Wrapper
  <2> QED
    BY <2>2, <2>3 DEF WrapperInv, WrapperTypes
<1>2. (part = "wrapper" => WrapperInv) /\ [ClientNext]_clientVars => (part = "wrapper" => WrapperInv)'
  <2> SUFFICES ASSUME part = "wrapper" => WrapperInv, [ClientNext]_clientVars, part' = "wrapper"
               PROVE  WrapperInv'
    OBVIOUS
  <2>1. part = "wrapper" /\ [Wrapper!Next]_Wrapper!vars
    BY DEF ClientNext, clientVars, wrapperVars, Wrapper!vars
  <2> QED
    BY <2>1, WrapperStep
<1> QED
  BY <1>1, <1>2, PTL DEF ClientSpec

(* A closed wrapper holds no subscription, no subject, no consumer and no  *)
(* running dispatch, whichever calls, recoveries and failures were under   *)
(* way when it was closed (consumer.go, Close and resetLocked).            *)
THEOREM ClosedForGoodStays == ClientSpec => []ClosedIsFinal
<1>1. (part = "wrapper" => WrapperInv) => ClosedIsFinal
  BY DEF ClosedIsFinal, WrapperInv, Clean, Wrapper!ClosedIsFinal
<1> QED
  BY <1>1, WrapperInvariant, PTL

(* The server sends what the counted subjects ask for, also when the calls *)
(* that would reduce the filter fail and when a consumer is made anew      *)
(* (createConsumerLocked, updateFilterSubjectsLocked).                     *)
THEOREM NothingIsFilteredAway == ClientSpec => []FilterCoversRefs
<1>1. (part = "wrapper" => WrapperInv) => FilterCoversRefs
  BY DEF FilterCoversRefs, WrapperInv, Covers, Passes, Wrapper!FilterCoversRefs
<1> QED
  BY <1>1, WrapperInvariant, PTL

---------------------------------------------------------------------------
(* The dispatch goroutine of the watches.  What the argument needs of the  *)
(* types.                                                                  *)
DispatchTypes == dispatch \in Dispatch /\ sub \in [Subs -> Entry]

(* While the goroutine sends it holds sendMu, and whoever closes a channel *)
(* needs sendMu: the closed flag is read when the lock is taken, and is    *)
(* still true of the channel when the message is sent.                     *)
SenderHoldsLock ==
  dispatch.at = "send" =>
    /\ dispatch.to \in Subs
    /\ sub[dispatch.to].holder = "dispatch"
    /\ ~sub[dispatch.to].closed

SendInv == DispatchTypes /\ SenderHoldsLock

LEMMA WatchInit_SendInv == ASSUME WatchInit PROVE SendInv
<1>1. DispatchTypes
  BY DEF WatchInit, DispatchTypes, Dispatch, Idle, Opened, Entry
<1>2. SenderHoldsLock
  BY DEF WatchInit, SenderHoldsLock, Idle
<1> QED BY <1>1, <1>2 DEF SendInv

LEMMA SameSend_SendInv == ASSUME SendInv, UNCHANGED <<dispatch, sub>> PROVE SendInv'
BY DEF SendInv, DispatchTypes, SenderHoldsLock

LEMMA NextEntry_SendInv ==
  ASSUME SendInv, NEW s \in Subs, NextEntry(s) PROVE SendInv'
<1>1. CASE Skipped(s)
  <2>1. dispatch' = [dispatch EXCEPT !.todo = @ \ {s}] /\ sub' = sub
    BY <1>1 DEF NextEntry
  <2>2. DispatchTypes'
    BY <2>1 DEF SendInv, DispatchTypes, Dispatch
  <2>3. SenderHoldsLock'
    BY <2>1 DEF NextEntry, SendInv, DispatchTypes, Dispatch, SenderHoldsLock
  <2> QED BY <2>2, <2>3 DEF SendInv
<1>2. CASE ~Skipped(s)
  <2>1. /\ dispatch' = [dispatch EXCEPT !.at = "send", !.todo = @ \ {s}, !.to = s]
        /\ sub' = [sub EXCEPT ![s].holder = "dispatch"]
    BY <1>2 DEF NextEntry
  <2>2. ~sub[s].closed
    BY <1>2 DEF Skipped
  <2>3. DispatchTypes'
    BY <2>1 DEF SendInv, DispatchTypes, Dispatch, Entry
  <2>4. SenderHoldsLock'
    BY <2>1, <2>2 DEF SendInv, DispatchTypes, Dispatch, Entry, SenderHoldsLock
  <2> QED BY <2>3, <2>4 DEF SendInv
<1> QED BY <1>1, <1>2

(* The steps of the goroutine that end, or are not, a send.                *)
LEMMA Send_SendInv == ASSUME SendInv, NEW s \in Subs, Send(s) PROVE SendInv'
<1>0. /\ dispatch' = [dispatch EXCEPT !.at = "entries", !.to = None]
      /\ sub' = [sub EXCEPT ![s].holder = "nobody"]
  BY DEF Send
<1>1. DispatchTypes'
  BY <1>0 DEF SendInv, DispatchTypes, Dispatch, Entry
<1>2. SenderHoldsLock'
  BY <1>0 DEF SendInv, DispatchTypes, Dispatch, SenderHoldsLock
<1> QED BY <1>1, <1>2 DEF SendInv

LEMMA OtherDispatch_SendInv ==
  ASSUME SendInv,
         (\E m \in Message : IterNext(m)) \/ Match \/ Ack \/ DispatchEnds
  PROVE  SendInv'
<1>1. sub' = sub
  BY DEF IterNext, Match, Ack, DispatchEnds
<1>2. dispatch' \in Dispatch /\ dispatch'.at # "send"
  <2>1. CASE \E m \in Message : IterNext(m)
    BY <2>1 DEF IterNext, SendInv, DispatchTypes, Dispatch
  <2>2. CASE Match
    <3> DEFINE found == {s \in Subs : sub[s].open /\ SubjectMatches(s, stream[dispatch.msg])}
    <3>1. dispatch' = [dispatch EXCEPT !.at = "entries", !.todo = found] /\ found \in SUBSET Subs
      BY <2>2 DEF Match
    <3> HIDE DEF found
    <3> QED BY <3>1 DEF SendInv, DispatchTypes, Dispatch
  <2>3. CASE Ack
    BY <2>3 DEF Ack, Idle, Dispatch
  <2>4. CASE DispatchEnds
    BY <2>4 DEF DispatchEnds, Idle, Dispatch
  <2> QED BY <2>1, <2>2, <2>3, <2>4
<1> QED BY <1>1, <1>2 DEF SendInv, DispatchTypes, SenderHoldsLock

LEMMA Unsubscribe_SendInv ==
  ASSUME SendInv, NEW s \in Subs, Unsubscribe(s) PROVE SendInv'
<1>1. DispatchTypes'
  BY DEF Unsubscribe, Withdrawn, SendInv, DispatchTypes, Entry
<1>2. SenderHoldsLock'
  BY DEF Unsubscribe, Withdrawn, SendInv, DispatchTypes, Entry, SenderHoldsLock
<1> QED BY <1>1, <1>2 DEF SendInv

(* The channel that is closed is not the one that is being sent on: that   *)
(* one is locked by the goroutine.                                         *)
LEMMA CloseChannel_SendInv ==
  ASSUME SendInv, NEW s \in Subs, CloseChannel(s) PROVE SendInv'
<1>1. DispatchTypes'
  BY DEF CloseChannel, SendInv, DispatchTypes, Entry
<1>2. ASSUME dispatch.at = "send" PROVE dispatch.to # s
  BY <1>2 DEF CloseChannel, Closable, SendInv, SenderHoldsLock
<1>3. SenderHoldsLock'
  BY <1>2 DEF CloseChannel, SendInv, DispatchTypes, Entry, SenderHoldsLock
<1> QED BY <1>1, <1>3 DEF SendInv

LEMMA Crash_SendInv == ASSUME SendInv, Crash PROVE SendInv'
<1>1. dispatch' = Idle /\ sub' = [s \in Subs |-> Opened]
  BY DEF Crash
<1>2. DispatchTypes'
  BY <1>1 DEF DispatchTypes, Dispatch, Idle, Opened, Entry
<1>3. SenderHoldsLock'
  BY <1>1 DEF SenderHoldsLock, Idle
<1> QED BY <1>2, <1>3 DEF SendInv

LEMMA WatchNext_SendInv == ASSUME SendInv, [WatchNext]_watchVars PROVE SendInv'
<1>1. CASE UNCHANGED watchVars
  BY <1>1, SameSend_SendInv DEF watchVars
<1>2. CASE DispatchStep
  BY <1>2, NextEntry_SendInv, Send_SendInv, OtherDispatch_SendInv DEF DispatchStep
<1>3. ASSUME NEW s \in Subs, Unsubscribe(s) \/ CloseChannel(s) PROVE SendInv'
  BY <1>3, Unsubscribe_SendInv, CloseChannel_SendInv
<1>4. ASSUME NEW s \in Subs, WatchStep(s) \/ Consume(s) \/ CancelContext(s) PROVE SendInv'
  <2>1. UNCHANGED <<dispatch, sub>>
    BY <1>4 DEF WatchStep, Read, Forward, WatchEnds, Consume, CancelContext, dispatchVars
  <2> QED BY <2>1, SameSend_SendInv
<1>5. CASE Crash
  BY <1>5, Crash_SendInv
<1> QED BY <1>1, <1>2, <1>3, <1>4, <1>5 DEF WatchNext

(* No unsubscribe, wherever it comes between the snapshot of the trie and  *)
(* the send, makes the goroutine send on a closed channel (consumer.go,    *)
(* subState).                                                              *)
THEOREM NoPanic == WatchSpec => []NoSendOnClosed
<1>1. WatchInit => SendInv
  BY WatchInit_SendInv
<1>2. SendInv /\ [WatchNext]_watchVars => SendInv'
  BY WatchNext_SendInv
<1>3. SendInv => NoSendOnClosed
  BY DEF SendInv, SenderHoldsLock, NoSendOnClosed
<1> QED BY <1>1, <1>2, <1>3, PTL DEF WatchSpec
=============================================================================
