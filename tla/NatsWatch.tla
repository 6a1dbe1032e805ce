----------------------------- MODULE NatsWatch -----------------------------
(***************************************************************************)
(* How events reach an application that watches (pkg/natswatch, and the    *)
(* dispatch loop of pkg/natsconsumer/consumer.go): the server consumer     *)
(* delivers one message at a time; the dispatch goroutine puts it into the *)
(* channel of every subscription that matches and acknowledges it; a       *)
(* goroutine of each watch takes it from there, selects the type of event, *)
(* and hands it to the application through a second channel.               *)
(*                                                                         *)
(* Here are the locks between sending and unsubscribing, the capacities of *)
(* the channels (256 and 256), contexts that are cancelled, and crashes.   *)
(* How subscriptions and the server consumer come and go is module         *)
(* NatsConsumer: here all are subscribed at the start, of a durable        *)
(* consumer.                                                               *)
(***************************************************************************)
EXTENDS Naturals, Sequences, FiniteSets, SequencesExt

CONSTANTS
  Subs,     \* watches
  WatchOf,  \* [Subs -> [fn, id]]: the function of natswatch and its argument
  None,     \* no watch; no object, no area
  Events,   \* what the stream may hold: records [type, object, area]
  InboxCap, OutCap,   \* capacities of the two channels
  MaxEvents,          \* messages in the stream; bounds of the model:
  MaxLostAcks,        \*   acknowledgements that do not reach the server,
  MaxCrashes          \*   crashes of the application

ASSUME WatchAssumption ==
  /\ None \notin Subs
  /\ InboxCap \in Nat \ {0} /\ OutCap \in Nat \ {0}
  /\ MaxEvents \in Nat /\ MaxLostAcks \in Nat /\ MaxCrashes \in Nat

VARIABLES
  stream,   \* the messages, in order; when one is there is when it is delivered
  server,   \* the server consumer: delivered up to, not acknowledged
  mu,       \* the unsubscribe that holds Consumer.mu, or None
  dispatch, \* the dispatch goroutine
  sub,      \* [Subs -> the subEntry]
  inbox,    \* [Subs -> subEntry.out]
  watch,    \* [Subs -> the goroutine of natswatch]
  out,      \* [Subs -> the channel it returns]
  ctxDone,  \* [Subs -> BOOLEAN]: the context of the watch
  got,      \* [Subs -> what the application has received]
  lostAcks, crashes

watchVars ==
  <<stream, server, mu, dispatch, sub, inbox, watch, out, ctxDone, got, lostAcks, crashes>>

Message == 1..MaxEvents
Nothing == 0

Dispatch ==
  [ at : {"next", "match", "entries", "send", "ack", "ended"},
    msg : Message \cup {Nothing}, todo : SUBSET Subs, to : Subs \cup {None} ]

(* open: in the trie; holder: who has sendMu.                              *)
Entry == [ open : BOOLEAN, cancelled : BOOLEAN, closed : BOOLEAN,
           holder : {"nobody", "dispatch"} ]

Watch == [at : {"reading", "sending", "ended"}, msg : Message \cup {Nothing}]

(* Types; the channels are within their capacities.                        *)
WatchTypeOK ==
  /\ stream \in [Message -> Events]
  /\ server \in [delivered : 0..MaxEvents, pending : SUBSET Message]
  /\ mu \in Subs \cup {None}
  /\ dispatch \in Dispatch
  /\ sub \in [Subs -> Entry]
  /\ inbox \in [Subs -> Seq(Message)]
  /\ \A s \in Subs : Len(inbox[s]) <= InboxCap
  /\ watch \in [Subs -> Watch]
  /\ out \in [Subs -> Seq(Message)]
  /\ \A s \in Subs : Len(out[s]) <= OutCap
  /\ ctxDone \in [Subs -> BOOLEAN]
  /\ got \in [Subs -> Seq(Message)]
  /\ lostAcks \in 0..MaxLostAcks /\ crashes \in 0..MaxCrashes

(* What a process starts with.                                             *)
Idle == [at |-> "next", msg |-> Nothing, todo |-> {}, to |-> None]
Opened == [open |-> TRUE, cancelled |-> FALSE, closed |-> FALSE, holder |-> "nobody"]
Reading == [at |-> "reading", msg |-> Nothing]

WatchInit ==
  /\ stream \in [Message -> Events]
  /\ server = [delivered |-> 0, pending |-> {}]
  /\ mu = None
  /\ dispatch = Idle
  /\ sub = [s \in Subs |-> Opened]
  /\ inbox = [s \in Subs |-> <<>>]
  /\ watch = [s \in Subs |-> Reading]
  /\ out = [s \in Subs |-> <<>>]
  /\ ctxDone = [s \in Subs |-> FALSE]
  /\ got = [s \in Subs |-> <<>>]
  /\ lostAcks = 0 /\ crashes = 0

---------------------------------------------------------------------------
(* What the watches subscribe to and what they select.                     *)
IsGeofence(ev) == ev.type \in {"geofence.entered", "geofence.exited"}

(* The subjects (natskeys.go) match ...                                    *)
SubjectMatches(s, ev) ==
  LET id == WatchOf[s].id
  IN  CASE WatchOf[s].fn \in {"AllPositionUpdates", "AllGeofenceTransitions",
                              "AllObjectRegistered", "AllObjectRemoved"} -> TRUE
        [] WatchOf[s].fn = "GeoTruthBooted" -> ev.type = "geotruth.booted"
        [] WatchOf[s].fn = "AreaGeofenceTransitions" -> IsGeofence(ev) /\ ev.area = id
        [] WatchOf[s].fn = "WatchObject" -> ev.object = id
        [] WatchOf[s].fn = "PositionUpdates" -> ev.object = id /\ ev.type = "position.updated"
        [] WatchOf[s].fn = "GeofenceTransitions" -> ev.object = id /\ IsGeofence(ev)
        [] WatchOf[s].fn = "ObjectRegistered" -> ev.object = id /\ ev.type = "object.registered"
        [] WatchOf[s].fn = "ObjectRemoved" -> ev.object = id /\ ev.type = "object.removed"

(* ... and eventTypeName selects.                                          *)
Selects(s, ev) ==
  CASE WatchOf[s].fn \in {"AllPositionUpdates", "PositionUpdates"} ->
         ev.type = "position.updated"
    [] WatchOf[s].fn = "AllGeofenceTransitions" -> IsGeofence(ev)
    [] WatchOf[s].fn \in {"AllObjectRegistered", "ObjectRegistered"} ->
         ev.type = "object.registered"
    [] WatchOf[s].fn \in {"AllObjectRemoved", "ObjectRemoved"} -> ev.type = "object.removed"
    [] WatchOf[s].fn = "WatchObject" -> ev.type # "geotruth.booted"
    [] OTHER -> TRUE

---------------------------------------------------------------------------
(* The server.                                                             *)
(* FilterSubjects are those of the open subscriptions.                     *)
Filtered == {m \in Message : \E s \in Subs : sub[s].open /\ SubjectMatches(s, stream[m])}

(* The next message, the first time; or one again that has not been        *)
(* acknowledged for AckWait.                                               *)
Delivered(m) ==
  \/ /\ m \in Filtered /\ m > server.delivered
     /\ \A n \in Filtered : n > server.delivered => m <= n
     /\ server' = [delivered |-> m, pending |-> server.pending \cup {m}]
  \/ m \in server.pending /\ UNCHANGED server

---------------------------------------------------------------------------
(* dispatch.                                                               *)
appVars == <<watch, out, ctxDone, got, crashes>>

IterNext(m) ==
  /\ dispatch.at = "next"
  /\ Delivered(m)
  /\ dispatch' = [dispatch EXCEPT !.at = "match", !.msg = m]
  /\ UNCHANGED <<stream, mu, sub, inbox, lostAcks, appVars>>

(* trie.match, under mu.                                                   *)
Match ==
  /\ dispatch.at = "match"
  /\ mu = None
  /\ dispatch' = [dispatch EXCEPT !.at = "entries",
       !.todo = {s \in Subs : sub[s].open /\ SubjectMatches(s, stream[dispatch.msg])}]
  /\ UNCHANGED <<stream, server, mu, sub, inbox, lostAcks, appVars>>

(* Faulty variant: the entry of the snapshot is taken as it was.           *)
SkippedNever(s) == FALSE

(* subCtx and closed, once sendMu is held.                                 *)
Skipped(s) == sub[s].cancelled \/ sub[s].closed

(* An entry of the snapshot, in the order of the trie.                     *)
NextEntry(s) ==
  /\ dispatch.at = "entries"
  /\ s \in dispatch.todo
  /\ sub[s].holder = "nobody"
  /\ IF Skipped(s)
     THEN /\ dispatch' = [dispatch EXCEPT !.todo = @ \ {s}]
          /\ UNCHANGED sub
     ELSE /\ dispatch' = [dispatch EXCEPT !.at = "send", !.todo = @ \ {s}, !.to = s]
          /\ sub' = [sub EXCEPT ![s].holder = "dispatch"]
  /\ UNCHANGED <<stream, server, mu, inbox, lostAcks, appVars>>

(* e.out <- msg                                                            *)
Sendable(s) == Len(inbox[s]) < InboxCap

(* The select: the message is sent, or the subscription is cancelled; Go   *)
(* takes either when both can be.                                          *)
Send(s) ==
  /\ dispatch.at = "send" /\ dispatch.to = s
  /\ \/ /\ Sendable(s)
        /\ inbox' = [inbox EXCEPT ![s] = Append(@, dispatch.msg)]
     \/ sub[s].cancelled /\ UNCHANGED inbox
  /\ sub' = [sub EXCEPT ![s].holder = "nobody"]
  /\ dispatch' = [dispatch EXCEPT !.at = "entries", !.to = None]
  /\ UNCHANGED <<stream, server, mu, lostAcks, appVars>>

Ack ==
  /\ dispatch.at = "entries" /\ dispatch.todo = {}
  /\ dispatch' = Idle
  /\ \/ /\ server' = [server EXCEPT !.pending = @ \ {dispatch.msg}]
        /\ UNCHANGED lostAcks
     \/ lostAcks < MaxLostAcks /\ lostAcks' = lostAcks + 1 /\ UNCHANGED server
  /\ UNCHANGED <<stream, mu, sub, inbox, appVars>>

(* The last unsubscribe has cancelled dCtx.                                *)
DispatchEnds ==
  /\ dispatch.at = "next"
  /\ mu = None
  /\ \A s \in Subs : ~sub[s].open
  /\ dispatch' = [Idle EXCEPT !.at = "ended"]
  /\ UNCHANGED <<stream, server, mu, sub, inbox, lostAcks, appVars>>

---------------------------------------------------------------------------
(* Faulty variant: the context of the subscription is left alone.          *)
WithdrawnOnly(e) == [e EXCEPT !.open = FALSE]

(* Removed from the trie, and cancelled.                                   *)
Withdrawn(e) == [e EXCEPT !.open = FALSE, !.cancelled = TRUE]

(* unsubscribe: mu is held from here to CloseChannel.                      *)
Unsubscribe(s) ==
  /\ sub[s].open
  /\ mu = None
  /\ mu' = s
  /\ sub' = [sub EXCEPT ![s] = Withdrawn(@)]
  /\ UNCHANGED <<stream, server, dispatch, inbox, lostAcks, appVars>>

Closable(s) == sub[s].holder = "nobody"

CloseChannel(s) ==
  /\ mu = s
  /\ Closable(s)
  /\ sub' = [sub EXCEPT ![s].closed = TRUE]
  /\ mu' = None
  /\ UNCHANGED <<stream, server, dispatch, inbox, lostAcks, appVars>>

---------------------------------------------------------------------------
(* The goroutine of a watch.                                               *)
dispatchVars == <<stream, server, mu, dispatch, sub, lostAcks, crashes>>

(* The outer select: an event of another type is passed over.              *)
Read(s) ==
  /\ watch[s].at = "reading"
  /\ inbox[s] # <<>>
  /\ inbox' = [inbox EXCEPT ![s] = Tail(@)]
  /\ IF Selects(s, stream[Head(inbox[s])])
     THEN watch' = [watch EXCEPT ![s] = [at |-> "sending", msg |-> Head(inbox[s])]]
     ELSE UNCHANGED watch
  /\ UNCHANGED <<out, ctxDone, got, dispatchVars>>

(* ch <- event                                                             *)
Forward(s) ==
  /\ watch[s].at = "sending"
  /\ Len(out[s]) < OutCap
  /\ out' = [out EXCEPT ![s] = Append(@, watch[s].msg)]
  /\ watch' = [watch EXCEPT ![s] = Reading]
  /\ UNCHANGED <<inbox, ctxDone, got, dispatchVars>>

(* ctx.Done(), or msgCh is closed and empty.  The subscription is not      *)
(* cancelled: that is the caller's to do.                                  *)
WatchEnds(s) ==
  /\ watch[s].at # "ended"
  /\ ctxDone[s] \/ (watch[s].at = "reading" /\ inbox[s] = <<>> /\ sub[s].closed)
  /\ watch' = [watch EXCEPT ![s] = [at |-> "ended", msg |-> Nothing]]
  /\ UNCHANGED <<inbox, out, ctxDone, got, dispatchVars>>

(* The application.                                                        *)
Consume(s) ==
  /\ out[s] # <<>>
  /\ got' = [got EXCEPT ![s] = Append(@, Head(out[s]))]
  /\ out' = [out EXCEPT ![s] = Tail(@)]
  /\ UNCHANGED <<inbox, watch, ctxDone, dispatchVars>>

CancelContext(s) ==
  /\ ~ctxDone[s]
  /\ ctxDone' = [ctxDone EXCEPT ![s] = TRUE]
  /\ UNCHANGED <<inbox, watch, out, got, dispatchVars>>

(* The process ends and starts again, with the same watches.  The server   *)
(* keeps the durable consumer.                                             *)
Crash ==
  /\ crashes < MaxCrashes
  /\ \A s \in Subs : sub[s].open
  /\ crashes' = crashes + 1
  /\ mu' = None
  /\ dispatch' = Idle
  /\ sub' = [s \in Subs |-> Opened]
  /\ inbox' = [s \in Subs |-> <<>>]
  /\ watch' = [s \in Subs |-> Reading]
  /\ out' = [s \in Subs |-> <<>>]
  /\ ctxDone' = [s \in Subs |-> FALSE]
  /\ UNCHANGED <<stream, server, got, lostAcks>>

DispatchStep ==
  \/ \E m \in Message : IterNext(m)
  \/ Match
  \/ \E s \in Subs : NextEntry(s) \/ Send(s)
  \/ Ack
  \/ DispatchEnds

WatchStep(s) == Read(s) \/ Forward(s) \/ WatchEnds(s)

WatchNext ==
  \/ DispatchStep
  \/ \E s \in Subs :
       Unsubscribe(s) \/ CloseChannel(s) \/ WatchStep(s) \/ Consume(s) \/ CancelContext(s)
  \/ Crash

WatchSpec == WatchInit /\ [][WatchNext]_watchVars

(* Go schedules the goroutines; applications read the channel of a watch   *)
(* (for ev := range events) and call unsubscribe when they have cancelled  *)
(* the context (defer unsubscribe()).                                      *)
WatchesFair ==
  \A s \in Subs :
    /\ WF_watchVars(WatchStep(s)) /\ WF_watchVars(Consume(s)) /\ WF_watchVars(CloseChannel(s))
    /\ WF_watchVars(ctxDone[s] /\ Unsubscribe(s))

WatchFairSpec == WatchSpec /\ WF_watchVars(DispatchStep) /\ WatchesFair

---------------------------------------------------------------------------
(* The dispatch goroutine never sends on a channel that is closed, which   *)
(* would end the process (consumer.go:117, "dispatch can snapshot a        *)
(* subEntry's out channel, then unsubscribe closes that channel before     *)
(* dispatch sends on it - panicking").                                     *)
NoSendOnClosed == dispatch.at = "send" => ~sub[dispatch.to].closed

(* The messages that a watch is for: its subject and its type of event.    *)
Wanted(s) == {m \in Message : SubjectMatches(s, stream[m]) /\ Selects(s, stream[m])}

(* An event reaches every watch that is for it, unless the application     *)
(* gives the watch up: one that stops reading and unsubscribes, as         *)
(* WatchesFair asks, does not hold up the others (consumer.go:54, "the     *)
(* dispatch loop blocks until space is available or the subscription is    *)
(* cancelled").                                                            *)
OthersAreServed ==
  \A s \in Subs : \A m \in Message :
    [](m \in Wanted(s) => <>(m \in Range(got[s]) \/ ctxDone[s] \/ sub[s].cancelled))
=============================================================================
