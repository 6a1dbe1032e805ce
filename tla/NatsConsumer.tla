----------------------------- MODULE NatsConsumer -----------------------------
(***************************************************************************)
(* The consumer wrapper (pkg/natsconsumer/consumer.go): subscriptions that *)
(* share one server-side JetStream consumer and one dispatch goroutine.    *)
(*                                                                         *)
(* Every operation holds the mutex mu from beginning to end, its calls to  *)
(* the server included, and is one action here, but for one place:         *)
(* startDispatchLocked releases mu while it waits for the goroutine it has *)
(* started.  An operation that reaches it continues in Resume.             *)
(*                                                                         *)
(* Each subscription is subscribed once.  The subject trie holds the       *)
(* subscriptions of entries, and what it matches is SubjectMatches (module *)
(* SubjectTrie).  A channel is open while its subscription is in entries:  *)
(* context, channel and entry end together.  The server consumer is        *)
(* durable, or ephemeral with a generated name.                            *)
(***************************************************************************)
EXTENDS NatsSubjects, FiniteSets

CONSTANTS
  Subs,        \* subscriptions: one call of Subscribe each
  SubjectOf,   \* [Subs -> patterns]: what they subscribe to
  Messages,    \* subjects that messages have
  MaxDispatch, \* bound of the model: dispatch goroutines started
  MaxServers,  \* bound of the model: server consumers created
  MaxDrops,    \* bound of the model: server consumers that disappear
  MaxFaults    \* bound of the model: calls that fail, contexts that expire

Subjects == {SubjectOf[s] : s \in Subs}

ConsumerAssumption ==
  /\ IsFiniteSet(Subs) /\ SubjectOf \in [Subs -> Seq(STRING)]
  /\ \A x \in Subjects : ValidPattern(x)
  /\ Messages \subseteq Seq(STRING)
  /\ \A n \in {MaxDispatch, MaxServers, MaxDrops, MaxFaults} : n \in Nat

VARIABLES
  w,          \* the fields of Consumer, its Durable, the dispatch contexts cancelled
  sub,        \* [Subs -> {"new", "waiting", "ok", "failed"}]: what Subscribe returned
  waiting,    \* operations in startDispatchLocked: for whom, for which goroutine
  dispatch,   \* the dispatch goroutines, by dispatchID
  made,       \* server consumers created
  alive,      \* those that exist
  filter,     \* [Servers -> SUBSET Subjects]: their FilterSubjects
  doomed,     \* consumers that Close has still to delete
  drops, faults

vars == <<w, sub, waiting, dispatch, made, alive, filter, doomed, drops, faults>>

Dispatches == 1..MaxDispatch
Servers == 1..MaxServers
Nobody == 0  \* no server consumer, no dispatch goroutine

Wrapper ==
  [ durable : BOOLEAN, closed : BOOLEAN, running : BOOLEAN,
    cons : Servers \cup {Nobody},
    entries : SUBSET Subs, refs : [Subjects -> Nat],
    dispatchID : Dispatches \cup {Nobody}, dispatchCancel : Dispatches \cup {Nobody},
    cancelled : SUBSET Dispatches ]

(* "starting", "opening": before the iterator; "failed": its creation has  *)
(* failed; "next": in iter.Next; "sending": a message; "missing", "broken": *)
(* an error of the iterator; "recovering": waits in startDispatchLocked.   *)
Goroutine ==
  [ state : {"none", "starting", "opening", "failed", "next", "sending", "missing", "broken",
             "recovering", "done"},
    iter : Servers \cup {Nobody}, ready : {"no", "ok", "err"}, matches : SUBSET Subs ]

Caller == [kind : {"subscribe", "resubscribe", "unsubscribe"}, sub : Subs] \cup
          [kind : {"dispatch"}, id : Dispatches]

ConsumerTypeOK ==
  /\ w \in Wrapper
  /\ sub \in [Subs -> {"new", "waiting", "ok", "failed"}]
  /\ waiting \subseteq [by : Caller, on : Dispatches]
  /\ dispatch \in [Dispatches -> Goroutine]
  /\ made \in Nat /\ alive \subseteq Servers /\ doomed \subseteq Servers
  /\ filter \in [Servers -> SUBSET Subjects]
  /\ drops \in Nat /\ faults \in Nat

Init ==
  /\ \E durable \in BOOLEAN :
       w = [ durable |-> durable, closed |-> FALSE, running |-> FALSE, cons |-> Nobody,
             entries |-> {}, refs |-> [x \in Subjects |-> 0], dispatchID |-> Nobody,
             dispatchCancel |-> Nobody, cancelled |-> {} ]
  /\ sub = [s \in Subs |-> "new"]
  /\ waiting = {}
  /\ dispatch = [d \in Dispatches |->
                   [state |-> "none", iter |-> Nobody, ready |-> "no", matches |-> {}]]
  /\ made = 0 /\ alive = {} /\ doomed = {}
  /\ filter = [n \in Servers |-> {}]
  /\ drops = 0 /\ faults = 0

---------------------------------------------------------------------------
(* The fields of the wrapper after the helpers that run under mu.          *)
Inserted(s) ==
  [w EXCEPT !.entries = @ \cup {s}, !.refs[SubjectOf[s]] = @ + 1]

(* Faulty variant: the count of the subject is left as it is.              *)
RemovedKeepsRef(v, s) == [v EXCEPT !.entries = @ \ {s}]

Removed(v, s) ==
  [v EXCEPT !.entries = @ \ {s},
            !.refs[SubjectOf[s]] = IF @ > 0 THEN @ - 1 ELSE 0]

Cancelling(v) == v.cancelled \cup ({v.dispatchCancel} \ {Nobody})

(* Faulty variant: the subscriptions stay.                                 *)
ResetKeepsEntries(v) ==
  [v EXCEPT !.cancelled = Cancelling(v), !.cons = Nobody, !.dispatchCancel = Nobody,
            !.running = FALSE]

Reset(v) ==
  [v EXCEPT !.cancelled = Cancelling(v), !.entries = {}, !.refs = [x \in Subjects |-> 0],
            !.cons = Nobody, !.dispatchCancel = Nobody, !.running = FALSE]

ClosedForGood(v) == [Reset(v) EXCEPT !.closed = TRUE]

(* recoverDeletedConsumerLocked, up to the new consumer.                   *)
Detached(v, cancelCurrent) ==
  [v EXCEPT !.cancelled = IF cancelCurrent THEN Cancelling(v) ELSE @,
            !.dispatchCancel = Nobody, !.running = FALSE, !.cons = Nobody]

(* startDispatchLocked after an error, with the goroutine d it started.    *)
StartFailed(d) ==
  [w EXCEPT !.cancelled = @ \cup {d},
            !.running = @ /\ w.dispatchID # d,
            !.dispatchCancel = IF w.dispatchID = d THEN Nobody ELSE @]

Counted(v) == {x \in Subjects : v.refs[x] > 0}

---------------------------------------------------------------------------
(* Calls to the server, from the state v of the wrapper.                   *)
Fault == faults < MaxFaults /\ faults' = faults + 1

NoFault == UNCHANGED faults

serverVars == <<made, alive, filter>>

(* createConsumerLocked makes consumer n: a new one, or the durable one    *)
(* that exists, whose filter it updates.                                   *)
Create(v, n) ==
  /\ IF v.durable /\ alive # {} THEN n \in alive ELSE n = made + 1 /\ n \in Servers
  /\ made' = IF n = made + 1 THEN n ELSE made
  /\ alive' = alive \cup {n}
  /\ filter' = [filter EXCEPT ![n] = MinimalFilter(Counted(v))]

(* updateFilterSubjectsLocked.                                             *)
Update(v) ==
  /\ v.cons \in alive
  /\ filter' = [filter EXCEPT ![v.cons] = MinimalFilter(Counted(v))]
  /\ UNCHANGED <<made, alive>>

Delete(n) ==
  /\ alive' = alive \ {n}
  /\ filter' = [filter EXCEPT ![n] = {}]
  /\ UNCHANGED made

Missing == w.cons # Nobody /\ w.cons \notin alive

(* A dispatch goroutine is started from state v; by waits for it, with the *)
(* others.                                                                 *)
StartDispatch(v, by, others) ==
  LET d == v.dispatchID + 1
  IN  /\ d \in Dispatches
      /\ w' = [v EXCEPT !.running = TRUE, !.dispatchID = d, !.dispatchCancel = d]
      /\ waiting' = others \cup {[by |-> by, on |-> d]}
      /\ dispatch' = [dispatch EXCEPT ![d].state = "starting"]

(* The rest of recoverDeletedConsumerLocked from state v, which is not     *)
(* closed: it creates a consumer and a goroutine; or creates none; or      *)
(* there is no subscription left.                                          *)
Recover(v, by) ==
  /\ Counted(v) # {}
  /\ \E n \in Servers : Create(v, n) /\ StartDispatch([v EXCEPT !.cons = n], by, waiting)
  /\ NoFault

RecoverFails(v) ==
  /\ Counted(v) # {}
  /\ Fault
  /\ w' = Reset(v)
  /\ UNCHANGED <<serverVars, waiting>>

(* Goroutine g in another state; one that has ended keeps its report only. *)
At(g, state) ==
  IF state = "done" THEN [g EXCEPT !.state = "done", !.iter = Nobody, !.matches = {}]
  ELSE [g EXCEPT !.state = state]

Becomes(d, state) == dispatch' = [dispatch EXCEPT ![d] = At(@, state)]

Cancelled(d) == d \in w.cancelled

(* The loop looks at its context before the next message.                  *)
NextState(d) == IF Cancelled(d) THEN "done" ELSE "next"

---------------------------------------------------------------------------
(* Subscribe(s).                                                           *)
New(s) == sub[s] = "new"

SubscribeRefused(s) ==
  /\ New(s) /\ w.closed
  /\ sub' = [sub EXCEPT ![s] = "failed"]
  /\ UNCHANGED <<w, waiting, dispatch, serverVars, doomed, drops, faults>>

(* The server consumer cannot be created or updated, missing or not.       *)
SubscribeFails(s) ==
  /\ New(s) /\ ~w.closed
  /\ Fault
  /\ w' = Removed(Inserted(s), s)
  /\ sub' = [sub EXCEPT ![s] = "failed"]
  /\ UNCHANGED <<waiting, dispatch, serverVars, doomed, drops>>

(* It is created or updated; a dispatch is running, or has to be started.  *)
SubscribeOnServer(s) ==
  /\ New(s) /\ ~w.closed
  /\ \E n \in Servers :
       /\ IF w.cons = Nobody THEN Create(Inserted(s), n) ELSE n = w.cons /\ Update(Inserted(s))
       /\ LET v == [Inserted(s) EXCEPT !.cons = n]
          IN  IF w.running
              THEN /\ w' = v
                   /\ sub' = [sub EXCEPT ![s] = "ok"]
                   /\ UNCHANGED <<waiting, dispatch>>
              ELSE /\ StartDispatch(v, [kind |-> "subscribe", sub |-> s], waiting)
                   /\ sub' = [sub EXCEPT ![s] = "waiting"]
  /\ UNCHANGED <<doomed, drops, faults>>

(* The server consumer has disappeared: for good if it was durable.        *)
SubscribeMissing(s) ==
  /\ New(s) /\ ~w.closed /\ Missing
  /\ LET v == Detached(Inserted(s), TRUE)
     IN  \/ /\ w.durable
            /\ w' = ClosedForGood(Inserted(s))
            /\ sub' = [sub EXCEPT ![s] = "failed"]
            /\ UNCHANGED <<waiting, dispatch, serverVars, faults>>
         \/ /\ ~w.durable
            /\ Recover(v, [kind |-> "resubscribe", sub |-> s])
            /\ sub' = [sub EXCEPT ![s] = "waiting"]
         \/ /\ ~w.durable
            /\ RecoverFails(v)
            /\ sub' = [sub EXCEPT ![s] = "failed"]
            /\ UNCHANGED dispatch
  /\ UNCHANGED <<doomed, drops>>

---------------------------------------------------------------------------
(* The function returned by Subscribe; only its first call does anything.  *)
Unsubscribable(s) == sub[s] = "ok" /\ s \in w.entries

Empty(v) == Counted(v) = {}

(* No subject is left: the goroutine is cancelled, the server consumer     *)
(* deleted, or not, if that call fails.                                    *)
UnsubscribeLast(s) ==
  /\ Unsubscribable(s)
  /\ LET v == Removed(w, s)
     IN  /\ w.cons # Nobody /\ Empty(v)
         /\ w' = [v EXCEPT !.cancelled = Cancelling(v), !.dispatchCancel = Nobody,
                           !.running = FALSE, !.cons = Nobody]
  /\ \/ Delete(w.cons) /\ NoFault
     \/ Fault /\ UNCHANGED serverVars
  /\ UNCHANGED <<sub, waiting, dispatch, doomed, drops>>

(* The filter is reduced; a failure is logged.                             *)
UnsubscribeUpdate(s) ==
  /\ Unsubscribable(s)
  /\ LET v == Removed(w, s)
     IN  /\ w' = v
         /\ w.cons # Nobody => ~Empty(v)
         /\ \/ /\ IF w.cons = Nobody THEN UNCHANGED serverVars ELSE Update(v)
               /\ NoFault
            \/ w.cons # Nobody /\ Fault /\ UNCHANGED serverVars
  /\ UNCHANGED <<sub, waiting, dispatch, doomed, drops>>

UnsubscribeMissing(s) ==
  /\ Unsubscribable(s) /\ Missing /\ ~Empty(Removed(w, s))
  /\ LET v == Detached(Removed(w, s), TRUE)
     IN  \/ /\ w.durable
            /\ w' = ClosedForGood(Removed(w, s))
            /\ UNCHANGED <<waiting, dispatch, serverVars, faults>>
         \/ ~w.durable /\ Recover(v, [kind |-> "unsubscribe", sub |-> s])
         \/ ~w.durable /\ RecoverFails(v) /\ UNCHANGED dispatch
  /\ UNCHANGED <<sub, doomed, drops>>

---------------------------------------------------------------------------
(* startDispatchLocked, when it has mu again.                              *)
CallerFails(by, v) ==
  CASE by.kind = "subscribe" ->
         /\ w' = Removed(v, by.sub)
         /\ sub' = [sub EXCEPT ![by.sub] = "failed"]
         /\ UNCHANGED dispatch
    [] by.kind = "resubscribe" ->
         /\ w' = Reset(v)
         /\ sub' = [sub EXCEPT ![by.sub] = "failed"]
         /\ UNCHANGED dispatch
    [] by.kind = "unsubscribe" -> w' = Reset(v) /\ UNCHANGED <<sub, dispatch>>
    [] by.kind = "dispatch" ->
         /\ w' = Reset(v)
         /\ Becomes(by.id, "done")
         /\ UNCHANGED sub

(* The goroutine reports an error, or the caller's context expires; or the *)
(* wrapper was closed, or another goroutine started, while mu was free.    *)
ResumeError(x) ==
  /\ x \in waiting
  /\ waiting' = waiting \ {x}
  /\ \/ /\ dispatch[x.on].ready = "err"
        /\ CallerFails(x.by, StartFailed(x.on))
        /\ NoFault
     \/ /\ x.by.kind # "dispatch"
        /\ Fault
        /\ CallerFails(x.by, StartFailed(x.on))
     \/ /\ dispatch[x.on].ready = "ok"
        /\ w.closed
        /\ CallerFails(x.by, StartFailed(x.on))
        /\ NoFault
     \/ /\ dispatch[x.on].ready = "ok"
        /\ ~w.closed /\ w.dispatchID # x.on
        /\ CallerFails(x.by, [w EXCEPT !.cancelled = @ \cup {x.on}])
        /\ NoFault
  /\ UNCHANGED <<serverVars, doomed, drops>>

(* The goroutine is ready.  Subscribe looks at running again after a       *)
(* recovery, and starts another one if it has stopped.                     *)
ResumeReady(x) ==
  /\ x \in waiting
  /\ dispatch[x.on].ready = "ok"
  /\ ~w.closed /\ w.dispatchID = x.on
  /\ waiting' = waiting \ {x}
  /\ CASE x.by.kind = "dispatch" ->
            Becomes(x.by.id, "done") /\ UNCHANGED sub
       [] x.by.kind = "unsubscribe" -> UNCHANGED <<dispatch, sub>>
       [] OTHER -> sub' = [sub EXCEPT ![x.by.sub] = "ok"] /\ UNCHANGED dispatch
  /\ x.by.kind = "resubscribe" => w.running
  /\ UNCHANGED <<w, serverVars, doomed, drops, faults>>

ResumeStopped(x) ==
  /\ x \in waiting
  /\ dispatch[x.on].ready = "ok"
  /\ ~w.closed /\ w.dispatchID = x.on
  /\ x.by.kind = "resubscribe" /\ ~w.running
  /\ \/ /\ w.cons # Nobody
        /\ StartDispatch(w, [kind |-> "subscribe", sub |-> x.by.sub], waiting \ {x})
        /\ UNCHANGED sub
     \/ /\ w.cons = Nobody
        /\ waiting' = waiting \ {x}
        /\ CallerFails([kind |-> "subscribe", sub |-> x.by.sub], w)
  /\ UNCHANGED <<serverVars, doomed, drops, faults>>

---------------------------------------------------------------------------
(* Close, and then its call to the server, without mu.                     *)
Close ==
  /\ ~w.closed
  /\ w' = ClosedForGood(w)
  /\ doomed' = doomed \cup ({w.cons} \ {Nobody})
  /\ UNCHANGED <<sub, waiting, dispatch, serverVars, drops, faults>>

DeleteOnClose(n) ==
  /\ n \in doomed
  /\ doomed' = doomed \ {n}
  /\ \/ Delete(n) /\ NoFault
     \/ Fault /\ UNCHANGED serverVars
  /\ UNCHANGED <<w, sub, waiting, dispatch, drops>>

(* A server consumer disappears: deleted by someone, or inactive too long. *)
Drop(n) ==
  /\ n \in alive
  /\ drops < MaxDrops
  /\ drops' = drops + 1
  /\ Delete(n)
  /\ UNCHANGED <<w, sub, waiting, dispatch, doomed, faults>>

---------------------------------------------------------------------------
(* The dispatch goroutine d.                                               *)
(* Faulty variant: nobody is told that there is no consumer.               *)
NoConsumerReadyUntold == "no"

NoConsumerReady == "err"

ReadConsumer(d) ==
  /\ dispatch[d].state = "starting"
  /\ dispatch' = [dispatch EXCEPT ![d] =
        IF w.cons = Nobody THEN [@ EXCEPT !.state = "done", !.ready = NoConsumerReady]
        ELSE [@ EXCEPT !.state = "opening", !.iter = w.cons]]
  /\ UNCHANGED <<w, sub, waiting, serverVars, doomed, drops, faults>>

OpenIterator(d) ==
  /\ dispatch[d].state = "opening"
  /\ dispatch' = [dispatch EXCEPT ![d] =
        [At(@, NextState(d)) EXCEPT !.ready = "ok"]]
  /\ UNCHANGED <<w, sub, waiting, serverVars, doomed, drops, faults>>

OpenFails(d) ==
  /\ dispatch[d].state = "opening"
  /\ Fault
  /\ dispatch' = [dispatch EXCEPT ![d] = [@ EXCEPT !.state = "failed", !.ready = "err"]]
  /\ UNCHANGED <<w, sub, waiting, serverVars, doomed, drops>>

(* Whatever the current goroutine is.                                      *)
OpenFailed(d) ==
  /\ dispatch[d].state = "failed"
  /\ w' = [w EXCEPT !.running = FALSE, !.dispatchCancel = Nobody]
  /\ Becomes(d, "done")
  /\ UNCHANGED <<sub, waiting, serverVars, doomed, drops, faults>>

(* A message arrives and is matched, under mu; one that no subscription    *)
(* matches is only acknowledged.  The cancellation of the goroutine does   *)
(* not end iter.Next.                                                      *)
Matching(m) == {s \in w.entries : SubjectMatches(SubjectOf[s], m)}

Receive(d, m) ==
  /\ dispatch[d].state = "next"
  /\ dispatch[d].iter \in alive
  /\ \E x \in filter[dispatch[d].iter] : SubjectMatches(x, m)
  /\ Matching(m) # {}
  /\ dispatch' = [dispatch EXCEPT ![d] = [@ EXCEPT !.state = "sending", !.matches = Matching(m)]]
  /\ UNCHANGED <<w, sub, waiting, serverVars, doomed, drops, faults>>

(* Delivered to s, or skipped because s has ended; or given up because the *)
(* goroutine is cancelled, with the message acknowledged.  A full channel  *)
(* blocks the goroutine: no step.                                          *)
Send(d, s) ==
  /\ dispatch[d].state = "sending"
  /\ s \in dispatch[d].matches
  /\ LET left == dispatch[d].matches \ {s}
     IN  dispatch' = [dispatch EXCEPT ![d] =
           [At(@, IF left = {} THEN NextState(d) ELSE "sending") EXCEPT !.matches = left]]
  /\ UNCHANGED <<w, sub, waiting, serverVars, doomed, drops, faults>>

GiveUp(d) ==
  /\ dispatch[d].state = "sending"
  /\ Cancelled(d)
  /\ Becomes(d, "done")
  /\ UNCHANGED <<w, sub, waiting, serverVars, doomed, drops, faults>>

(* iter.Next returns an error that is not to be retried.                   *)
IteratorMissing(d) ==
  /\ dispatch[d].state = "next"
  /\ dispatch[d].iter \notin alive
  /\ Becomes(d, IF Cancelled(d) THEN "done" ELSE "missing")
  /\ UNCHANGED <<w, sub, waiting, serverVars, doomed, drops, faults>>

IteratorBroken(d) ==
  /\ dispatch[d].state = "next"
  /\ Fault
  /\ Becomes(d, IF Cancelled(d) THEN "done" ELSE "broken")
  /\ UNCHANGED <<w, sub, waiting, serverVars, doomed, drops>>

(* The error is handled when the goroutine has mu: it does not look at its *)
(* context again.                                                          *)
HandleBroken(d) ==
  /\ dispatch[d].state = "broken"
  /\ w' = Reset(w)
  /\ Becomes(d, "done")
  /\ UNCHANGED <<sub, waiting, serverVars, doomed, drops, faults>>

HandleMissing(d) ==
  /\ dispatch[d].state = "missing"
  /\ \/ /\ w.durable
        /\ w' = ClosedForGood(w)
        /\ Becomes(d, "done")
        /\ UNCHANGED <<waiting, serverVars, faults>>
     \/ /\ ~w.durable /\ w.closed
        /\ w' = Reset(w)
        /\ Becomes(d, "done")
        /\ UNCHANGED <<waiting, serverVars, faults>>
     \/ /\ ~w.durable /\ ~w.closed
        /\ Counted(w) = {}
        /\ w' = Detached(w, FALSE)
        /\ Becomes(d, "done")
        /\ UNCHANGED <<waiting, serverVars, faults>>
     \/ /\ ~w.durable /\ ~w.closed
        /\ RecoverFails(Detached(w, FALSE))
        /\ Becomes(d, "done")
  /\ UNCHANGED <<sub, doomed, drops>>

HandleMissingRecovers(d) ==
  /\ dispatch[d].state = "missing"
  /\ ~w.durable /\ ~w.closed
  /\ Recover(Detached(w, FALSE), [kind |-> "dispatch", id |-> d])
  /\ UNCHANGED <<sub, doomed, drops>>

Initialises(d) == ReadConsumer(d) \/ OpenIterator(d)

Resume(x) == ResumeError(x) \/ ResumeReady(x) \/ ResumeStopped(x)

Next ==
  \/ \E s \in Subs :
       \/ SubscribeRefused(s)
       \/ SubscribeFails(s)
       \/ SubscribeOnServer(s)
       \/ SubscribeMissing(s)
       \/ UnsubscribeLast(s)
       \/ UnsubscribeUpdate(s)
       \/ UnsubscribeMissing(s)
  \/ \E x \in waiting : Resume(x)
  \/ Close
  \/ \E n \in Servers : DeleteOnClose(n) \/ Drop(n)
  \/ \E d \in Dispatches :
       \/ Initialises(d) \/ OpenFails(d) \/ OpenFailed(d)
       \/ \E m \in Messages : Receive(d, m)
       \/ \E s \in dispatch[d].matches : Send(d, s)
       \/ GiveUp(d)
       \/ IteratorMissing(d) \/ IteratorBroken(d)
       \/ HandleBroken(d) \/ HandleMissing(d) \/ HandleMissingRecovers(d)

Spec == Init /\ [][Next]_vars

(* A goroutine that was started runs, and the one that waits for it gets   *)
(* mu.                                                                     *)
Fairness ==
  \A d \in Dispatches :
    /\ WF_vars(Initialises(d))
    /\ WF_vars(\E x \in waiting : x.on = d /\ Resume(x))

---------------------------------------------------------------------------
(* A closed wrapper holds nothing, whatever was waiting for mu when it was *)
(* closed: no open channel, no subject, no server consumer, no dispatch     *)
(* that counts as running.                                                 *)
ClosedIsFinal ==
  w.closed => w.entries = {} /\ Counted(w) = {} /\ w.cons = Nobody /\ ~w.running

(* The FilterSubjects of the current server consumer let through every     *)
(* message that a counted subject matches, also when updates fail and      *)
(* calls overlap.                                                          *)
FilterCoversRefs ==
  w.cons \in alive =>
    \A m \in Messages : \A x \in Counted(w) :
      SubjectMatches(x, m) => \E y \in filter[w.cons] : SubjectMatches(y, m)

(* Subscribe answers: the goroutine that it waits for reports in every     *)
(* case, also when another call has taken the server consumer from it.     *)
SubscribeReturns == \A s \in Subs : sub[s] = "waiting" ~> sub[s] # "waiting"

(* Nothing is under way but receiving and sending.                         *)
Quiet ==
  /\ waiting = {}
  /\ \A d \in Dispatches : dispatch[d].state \in {"none", "next", "sending", "done"}

Iterating(d) == dispatch[d].state \in {"next", "sending"} /\ ~Cancelled(d)

(* consumer.go: "Multiple subscribers share a single Messages() iterator". *)
(* While nothing is under way, one goroutine at most iterates and has not  *)
(* been cancelled.                                                         *)
OneDispatcher ==
  Quiet => \A d, e \in Dispatches : Iterating(d) /\ Iterating(e) => d = e
=============================================================================
