---------------------------- MODULE MCNatsClient ----------------------------
(* Values of the constants of NatsClient for TLC.                          *)
EXTENDS NatsClient

CONSTANTS s1, s2, o1, a1, c1, c2, c3

(* A watch of an area shares its events with one of all areas, which       *)
(* passes position updates over.                                           *)
Updated == [type |-> "position.updated", object |-> o1, area |-> None]
GeofenceEntered == [type |-> "geofence.entered", object |-> o1, area |-> a1]
TwoEvents == {Updated, GeofenceEntered}

AreaAndAll ==
  s1 :> [fn |-> "AreaGeofenceTransitions", id |-> a1] @@
  s2 :> [fn |-> "AllGeofenceTransitions", id |-> None]

(* Two subscriptions of one subject, which count it twice, or one of them  *)
(* with a subscription of a pattern that contains it.                      *)
Star == "*"
PatternAndSubject == [s \in WrapperSubs |-> IF s = c3 THEN <<"a", Star>> ELSE <<"a", "b">>]

SubjectTwiceOrPattern == {{c1, c2}, {c1, c3}}

(* Matched by all of them, and by the pattern only.                        *)
TwoSubjects == {<<"a", "b">>, <<"a", "c">>}
=============================================================================
