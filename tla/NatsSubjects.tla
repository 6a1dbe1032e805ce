---------------------------- MODULE NatsSubjects ----------------------------
(***************************************************************************)
(* NATS subjects and patterns, as the consumer wrapper matches them        *)
(* (pkg/natsconsumer/subject.go): sequences of tokens, of which "*" stands *)
(* for one token and ">", which ends a pattern, for one or more.           *)
(***************************************************************************)
EXTENDS Integers, Sequences

Star == "*"
Gt == ">"

(* validateSubject.                                                        *)
ValidPattern(p) == \A i \in DOMAIN p : p[i] = Gt => i = Len(p)

(* Pattern p and subject s agree on the first n tokens.                    *)
AgreeUpTo(p, s, n) == \A i \in 1..n : p[i] \in {Star, s[i]}

SubjectMatches(p, s) ==
  IF p # <<>> /\ p[Len(p)] = Gt
  THEN Len(s) >= Len(p) /\ AgreeUpTo(p, s, Len(p) - 1)
  ELSE Len(s) = Len(p) /\ AgreeUpTo(p, s, Len(p))

(* The first n tokens of pattern d are within those of pattern c.          *)
WithinUpTo(c, d, n) ==
  \A i \in 1..n : d[i] # Gt /\ (c[i] = Star \/ (d[i] # Star /\ c[i] = d[i]))

PatternContains(c, d) ==
  IF c # <<>> /\ c[Len(c)] = Gt
  THEN Len(d) >= Len(c) /\ WithinUpTo(c, d, Len(c) - 1)
  ELSE Len(d) = Len(c) /\ WithinUpTo(c, d, Len(c))

(* Faulty variant: a subject covers itself.                                *)
MinimalFilterSelf(subjects) ==
  {x \in subjects : ~\E y \in subjects : PatternContains(y, x)}

(* filterSubjectsLocked: the subjects that no other one contains.          *)
MinimalFilter(subjects) ==
  {x \in subjects : ~\E y \in subjects : y # x /\ PatternContains(y, x)}
=============================================================================
