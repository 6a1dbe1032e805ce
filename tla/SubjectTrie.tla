---------------------------- MODULE SubjectTrie -----------------------------
(***************************************************************************)
(* The trie that routes messages to subscriptions (subject.go).  A node is *)
(* the path of tokens that leads to it; its wcStar child is the path with  *)
(* "*" appended.  Subscriptions with a pattern that ends in ">" are held   *)
(* at the node before it, in wcGt; the others at their last node.          *)
(***************************************************************************)
EXTENDS NatsSubjects, FiniteSets, SequencesExt

CONSTANTS
  Ids,       \* subscription numbers; one that was removed may be used again
  Tokens,    \* tokens other than the wildcards
  MaxTokens  \* bound of the model: tokens of a pattern

TrieAssumption ==
  /\ IsFiniteSet(Ids) /\ MaxTokens \in Nat
  /\ Tokens \cap {Star, Gt, "not subscribed"} = {}

VARIABLES
  trie,     \* [nodes, entries, wcGt]
  patterns  \* [Ids -> the pattern, or NoPattern]: the subscriptions

vars == <<trie, patterns>>

SeqUpTo(S, n) == UNION {[1..k -> S] : k \in 0..n}

Patterns == {p \in SeqUpTo(Tokens \cup {Star, Gt}, MaxTokens) : ValidPattern(p)}

(* One token more: what ">" stands for may be longer than the pattern.     *)
Messages == SeqUpTo(Tokens, MaxTokens + 1)

NoPattern == <<"not subscribed">>

Live == {id \in Ids : patterns[id] # NoPattern}

Init ==
  /\ trie = [nodes |-> {<<>>}, entries |-> {}, wcGt |-> {}]
  /\ patterns = [id \in Ids |-> NoPattern]
---------------------------------------------------------------------------
EndsInGt(p) == p # <<>> /\ Last(p) = Gt

NodeOf(p) == IF EndsInGt(p) THEN Front(p) ELSE p

InsertEntry(t, p, id) ==
  [ nodes   |-> t.nodes \cup Prefixes(NodeOf(p)),
    entries |-> t.entries \cup (IF EndsInGt(p) THEN {} ELSE {<<NodeOf(p), id>>}),
    wcGt    |-> t.wcGt \cup (IF EndsInGt(p) THEN {<<NodeOf(p), id>>} ELSE {}) ]

Holding(t) == {x[1] : x \in t.entries \cup t.wcGt}

(* Faulty variant: a node that holds subscriptions itself is pruned.       *)
PrunedHolding(t, path) ==
  LET idle(q) == \A r \in t.nodes : IsPrefix(q, r) => IsPrefix(r, path)
  IN  [t EXCEPT !.nodes = {q \in @ : q = <<>> \/ ~IsPrefix(q, path) \/ ~idle(q)}]

(* removeWalk, on its way back: a node of the path goes when it holds      *)
(* nothing and its child on the path was the last.                         *)
Pruned(t, path) ==
  LET idle(q) == \A r \in t.nodes : IsPrefix(q, r) =>
                   IsPrefix(r, path) /\ r \notin Holding(t)
  IN  [t EXCEPT !.nodes = {q \in @ : q = <<>> \/ ~IsPrefix(q, path) \/ ~idle(q)}]

RemoveEntry(t, p, id) ==
  IF NodeOf(p) \notin t.nodes THEN t
  ELSE Pruned(IF EndsInGt(p) THEN [t EXCEPT !.wcGt = @ \ {<<NodeOf(p), id>>}]
              ELSE [t EXCEPT !.entries = @ \ {<<NodeOf(p), id>>}],
              NodeOf(p))

(* match: the nodes that the walk reaches, and what it takes at each.      *)
Reached(t, s) ==
  {q \in t.nodes : Len(q) <= Len(s) /\ \A i \in DOMAIN q : q[i] \in {Star, s[i]}}

Match(t, s) ==
  {x[2] : x \in {y \in t.entries : y[1] \in Reached(t, s) /\ Len(y[1]) = Len(s)}
           \cup {y \in t.wcGt : y[1] \in Reached(t, s) /\ Len(y[1]) < Len(s)}}
---------------------------------------------------------------------------
Subscribe(id, p) ==
  /\ patterns[id] = NoPattern
  /\ trie' = InsertEntry(trie, p, id)
  /\ patterns' = [patterns EXCEPT ![id] = p]

Unsubscribe(id) ==
  /\ patterns[id] # NoPattern
  /\ trie' = RemoveEntry(trie, patterns[id], id)
  /\ patterns' = [patterns EXCEPT ![id] = NoPattern]

(* removeEntryLocked after a reset: the pattern is not in the new trie, or *)
(* only for others.                                                        *)
RemoveAgain(id, p) ==
  /\ patterns[id] = NoPattern
  /\ trie' = RemoveEntry(trie, p, id)
  /\ UNCHANGED patterns

Reset ==
  /\ trie' = [nodes |-> {<<>>}, entries |-> {}, wcGt |-> {}]
  /\ patterns' = [id \in Ids |-> NoPattern]

Next ==
  \/ \E id \in Ids : Unsubscribe(id) \/ \E p \in Patterns : Subscribe(id, p) \/ RemoveAgain(id, p)
  \/ Reset

Spec == Init /\ [][Next]_vars
---------------------------------------------------------------------------
(* The walk through the trie finds the subscriptions whose pattern matches *)
(* the subject, and only those, after any sequence of subscriptions.       *)
MatchFindsSubscriptions ==
  \A s \in Messages :
    Match(trie, s) = {id \in Live : SubjectMatches(patterns[id], s)}

(* The minimal filter asks the server for the same messages.               *)
FilterMeansTheSame ==
  LET inUse == {patterns[id] : id \in Live}
  IN  \A s \in Messages :
        (\E p \in inUse : SubjectMatches(p, s)) <=>
        (\E p \in MinimalFilter(inUse) : SubjectMatches(p, s))
=============================================================================
