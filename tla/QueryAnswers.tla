---------------------------- MODULE QueryAnswers ----------------------------
(***************************************************************************)
(* The answers of the queries of internal/engine/queries.go, against what  *)
(* was true while they were computed.  Nothing is added to EngineLocks but *)
(* a variable that observes it: the answers that would have been right at  *)
(* some moment since the query was called.                                 *)
(***************************************************************************)
EXTENDS EngineLocks

VARIABLE seen  \* [Queries -> answers that were right since the call]

queryVars == <<lockVars, seen>>

(* The answers that would be right now.  While an area is being removed it *)
(* may be found or not.                                                    *)
RightAnswers(c) ==
  CASE c.kind = "object" ->
         {IF c.of \in registered /\ pubRegion[c.of] # None
          THEN Shown(pubRegion[c.of], ViewTree) ELSE NotFound}
    [] c.kind = "regionOf" ->
         {[NotFound EXCEPT !.at = IF c.of \in registered THEN pubRegion[c.of] ELSE None]}
    [] c.kind = "region" -> {[r \in {c.of} |-> Shown(r, ViewTree)]}
    [] c.kind = "all" -> {[r \in Regions |-> Shown(r, ViewTree)]}
    [] c.kind = "area" ->
         LET homes == {r \in Regions : c.of \in areaTree[r]}
         IN homes \cup (IF homes = {} \/ sweep.area = c.of THEN {None} ELSE {})

QueriesInit == LocksInit /\ seen = [q \in Queries |-> {}]

Remembered ==
  seen' = [q \in Queries |->
    IF thread'[q].job = None THEN {}
    ELSE (IF thread[q].job = None THEN {} ELSE seen[q]) \cup RightAnswers(thread[q].job.call)']

QueriesNext == LocksNext /\ Remembered

QueriesSpec == QueriesInit /\ [][QueriesNext]_queryVars

---------------------------------------------------------------------------
(* A query that is about to answer says what was true at some moment since *)
(* it was called (queries.go): an object that changes region is never      *)
(* missing, never in two regions, never with areas of another region.      *)
AnswersWereTrue ==
  \A q \in Queries : thread[q].run = <<Reply>> => thread[q].got \in seen[q]
=============================================================================
