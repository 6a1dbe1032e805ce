--------------------------- MODULE MCNatsConsumer ---------------------------
(* Values of the constants of NatsConsumer for TLC.                        *)
EXTENDS NatsConsumer

CONSTANTS s1, s2, s3

(* Two subscriptions of one subject, one of a pattern that contains it.    *)
SubPatterns == [s \in Subs |-> IF s = s3 THEN <<"a", Star>> ELSE <<"a", "b">>]

(* Matched by all of them, and by the pattern only.                        *)
MessageSubjects == {<<"a", "b">>, <<"a", "c">>}
=============================================================================
