----------------------------- MODULE Publisher -----------------------------
(***************************************************************************)
(* The GT_EVENTS publisher pool (internal/gtevents/publisher.go) and the   *)
(* stream it writes to.                                                    *)
(*                                                                         *)
(* Submit puts an envelope on commitCh; a worker takes it and a goroutine  *)
(* (a job) publishes the commit event, then the projections in order, and  *)
(* sends a result.  Every publish is confirmed by its acknowledgement or   *)
(* by reading the last message of the subject back; otherwise it is tried  *)
(* again, with no limit, until the context is cancelled.                   *)
(*                                                                         *)
(* commitCh and commitResults are sets: entries of different objects leave *)
(* a channel in an order that no object can observe, and an object has at  *)
(* most one entry (AtMostOneInFlight of module Dispatcher).  The stream is *)
(* kept as one log per object: recovery and consumers read it by object.   *)
(***************************************************************************)
EXTENDS GtEvents

CONSTANTS
  MaxInFlight, \* Workers * MaxInFlightPerWorker
  MaxFaults    \* bound of the model: publishes that are not confirmed

ASSUME PublisherAssumption == MaxInFlight \in Nat \ {0} /\ MaxFaults \in Nat

VARIABLES
  stream,        \* [Objects -> Seq(Event)]: GT_EVENTS, by object
  commitCh,      \* envelopes submitted and not taken
  publishing,    \* jobs: commitOne calls that are running
  commitResults, \* results not yet read by the dispatcher
  cancelled,     \* the context of Run is done
  faults         \* publishes that failed or were not confirmed

publisherVars == <<stream, commitCh, publishing, commitResults, cancelled, faults>>

Job == [env : Envelope, committed : BOOLEAN, next : Nat \ {0}]

PublisherTypeOK ==
  /\ stream \in [Objects -> Seq(Event)]
  /\ commitCh \subseteq Envelope
  /\ publishing \subseteq Job
  /\ commitResults \subseteq CommitResult
  /\ cancelled \in BOOLEAN
  /\ faults \in Nat

PublisherInit ==
  /\ stream = [o \in Objects |-> <<>>]
  /\ commitCh = {}
  /\ publishing = {}
  /\ commitResults = {}
  /\ cancelled = FALSE
  /\ faults = 0

---------------------------------------------------------------------------
JobObject(job) == job.env.commit.obj

NewJob(env) == [env |-> env, committed |-> FALSE, next |-> 1]

(* Faulty variant: the geofence events are not waited for.                 *)
JobFinishedAtCommit(job) == job.committed

(* The commit is published first; then projections 1, 2, ...               *)
JobFinished(job) == job.committed /\ job.next > Len(job.env.projections)

MessageOf(job) == IF job.committed THEN job.env.projections[job.next] ELSE job.env.commit

(* Faulty variant: the projections are counted while the commit is open.   *)
ConfirmedUncommitted(job) == [job EXCEPT !.committed = TRUE, !.next = @ + 1]

Confirmed(job) ==
  IF job.committed THEN [job EXCEPT !.next = @ + 1] ELSE [job EXCEPT !.committed = TRUE]

(* An unconfirmed projection breaks the loop, which starts over at the     *)
(* first projection; a confirmed commit is never published again.          *)
Retried(job) == IF job.committed THEN [job EXCEPT !.next = 1] ELSE job

Store(job) ==
  stream' = [stream EXCEPT ![JobObject(job)] = Append(@, MessageOf(job))]

ReplaceJob(job, new) == publishing' = (publishing \ {job}) \cup {new}

(* Faulty variant: the error is lost.                                      *)
ResultNoError(job, failed) ==
  [ obj |-> JobObject(job), inst |-> job.env.commit.inst, seq |-> job.env.commit.seq,
    op |-> job.env.commit.op, failed |-> FALSE ]

ResultOf(job, failed) ==
  [ obj |-> JobObject(job), inst |-> job.env.commit.inst, seq |-> job.env.commit.seq,
    op |-> job.env.commit.op, failed |-> failed ]

---------------------------------------------------------------------------
(* worker: takes an envelope when the in-flight semaphore has room.        *)
TakeEnvelope(env) ==
  /\ env \in commitCh
  /\ Cardinality(publishing) < MaxInFlight
  /\ commitCh' = commitCh \ {env}
  /\ publishing' = publishing \cup {NewJob(env)}
  /\ UNCHANGED <<stream, commitResults, cancelled, faults>>

(* publishOrVerify returns no error for a message it has stored: it is     *)
(* acknowledged, or found by reading the subject back.                     *)
PublishConfirmed(job) ==
  /\ job \in publishing
  /\ ~cancelled
  /\ ~JobFinished(job)
  /\ Store(job)
  /\ ReplaceJob(job, Confirmed(job))
  /\ UNCHANGED <<commitCh, commitResults, cancelled, faults>>

(* The last message of the subject is this event, from an earlier attempt. *)
StoredBefore(job) ==
  LET log == stream[JobObject(job)]
      sent == {i \in DOMAIN log : Subject(log[i]) = Subject(MessageOf(job))}
  IN  sent # {} /\ EventID(log[Max(sent)]) = EventID(MessageOf(job))

(* publishOrVerify stores nothing, and the read-back finds the message.    *)
PublishVerified(job) ==
  /\ job \in publishing
  /\ ~cancelled
  /\ ~JobFinished(job)
  /\ StoredBefore(job)
  /\ ReplaceJob(job, Confirmed(job))
  /\ UNCHANGED <<stream, commitCh, commitResults, cancelled, faults>>

(* The message is stored, the acknowledgement is lost and the read-back    *)
(* fails too: the job retries what is already in the stream.               *)
PublishUnconfirmed(job) ==
  /\ job \in publishing
  /\ ~cancelled
  /\ ~JobFinished(job)
  /\ faults < MaxFaults
  /\ faults' = faults + 1
  /\ Store(job)
  /\ ReplaceJob(job, Retried(job))
  /\ UNCHANGED <<commitCh, commitResults, cancelled>>

(* The message is not stored.                                              *)
PublishFailed(job) ==
  /\ job \in publishing
  /\ ~cancelled
  /\ ~JobFinished(job)
  /\ faults < MaxFaults
  /\ faults' = faults + 1
  /\ ReplaceJob(job, Retried(job))
  /\ UNCHANGED <<stream, commitCh, commitResults, cancelled>>

(* Faulty variant: a job may give up.                                      *)
ReturnResultGivesUp(job) ==
  /\ job \in publishing
  /\ publishing' = publishing \ {job}
  /\ commitResults' = commitResults \cup {ResultOf(job, ~JobFinished(job))}
  /\ UNCHANGED <<stream, commitCh, cancelled, faults>>

(* commitOne returns: without error when everything is published, with the *)
(* context's error when it is cancelled before that.                       *)
ReturnResult(job) ==
  /\ job \in publishing
  /\ JobFinished(job) \/ cancelled
  /\ publishing' = publishing \ {job}
  /\ commitResults' = commitResults \cup {ResultOf(job, ~JobFinished(job))}
  /\ UNCHANGED <<stream, commitCh, cancelled, faults>>

(* The send of the result loses against ctx.Done.                          *)
DropResult(job) ==
  /\ job \in publishing
  /\ cancelled
  /\ publishing' = publishing \ {job}
  /\ UNCHANGED <<stream, commitCh, commitResults, cancelled, faults>>

(* Shutdown: the context of Run is cancelled.                              *)
Cancel ==
  /\ ~cancelled
  /\ cancelled' = TRUE
  /\ UNCHANGED <<stream, commitCh, publishing, commitResults, faults>>

PublisherNext ==
  \/ \E env \in commitCh : TakeEnvelope(env)
  \/ \E job \in publishing :
       \/ PublishConfirmed(job)
       \/ PublishVerified(job)
       \/ PublishUnconfirmed(job)
       \/ PublishFailed(job)
       \/ ReturnResult(job)
       \/ DropResult(job)
  \/ Cancel
=============================================================================
