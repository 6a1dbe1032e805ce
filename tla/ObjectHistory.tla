--------------------------- MODULE ObjectHistory ---------------------------
(***************************************************************************)
(* What the GT_EVENTS stream promises about one object ID, whatever        *)
(* happens to the process that writes it: the commits of an object form a  *)
(* sequence of incarnations; an incarnation has a fresh instance ID,       *)
(* starts with a registration numbered 1, goes on with positions numbered  *)
(* without a gap, and ends with a removal.  Each command is committed once *)
(* and the commits follow the order in which commands were received.       *)
(***************************************************************************)
EXTENDS GtEvents

VARIABLE history  \* [Objects -> Seq(CommitEvent)]

Active(h) == h # <<>> /\ Last(h).type # "removed"

Fresh(inst) ==
  \A o \in Objects : \A i \in DOMAIN history[o] : history[o][i].inst # inst

(* Register(o): allowed only when no incarnation is open. *)
Register(o, c) ==
  /\ ~Active(history[o])
  /\ c.type = "registered" /\ c.seq = 1 /\ Fresh(c.inst)

(* The next command of the open incarnation. *)
Continue(o, c) ==
  /\ Active(history[o])
  /\ c.type \in {"position", "removed"}
  /\ c.inst = Last(history[o]).inst
  /\ c.seq = Last(history[o]).seq + 1

Commit(o) ==
  /\ Len(history'[o]) = Len(history[o]) + 1
  /\ LET c == Last(history'[o])
     IN  /\ history' = [history EXCEPT ![o] = Append(@, c)]
         /\ c.obj = o
         /\ \A i \in DOMAIN history[o] : history[o][i].op < c.op
         /\ Register(o, c) \/ Continue(o, c)

Init == history = [o \in Objects |-> <<>>]

Next == \E o \in Objects : Commit(o)

Spec == Init /\ [][Next]_history
=============================================================================
