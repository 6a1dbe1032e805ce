----------------------------- MODULE PublishPath -----------------------------
(***************************************************************************)
(* The way of the commits of one object from the publisher pool to the     *)
(* stream (internal/gtevents/publisher.go), where Publisher has a publish  *)
(* and its storing in one step.                                            *)
(*                                                                         *)
(* Every worker of the pool has a connection of its own                    *)
(* (openPublisherBackends), which keeps the order of what is written to    *)
(* it.  A publish that is not acknowledged in time is not withdrawn: the   *)
(* message may be in the connection still and be stored later.  The        *)
(* read-back goes over the service's main connection and sees the stream   *)
(* as it is.  The dispatcher has one commit of the object in flight, and   *)
(* any worker may take it.                                                 *)
(*                                                                         *)
(* The subject of the messages is the same, as for a sequence of           *)
(* positions; geofence events are left out.                                *)
(***************************************************************************)
EXTENDS Naturals, Sequences, FiniteSets, SequencesExt

CONSTANTS
  Conns,       \* the publisher connections, one for each worker
  None,
  Outlives,    \* messages in a connection survive the end of the process
  MaxCommands, \* bounds of the model: commands,
  MaxTimeouts, \*   publishes that are not acknowledged in time,
  MaxLost,     \*   messages that a connection loses,
  MaxCrashes   \*   and ends of the process

(* A message has the number of its commit, which makes its event ID, and   *)
(* the command it comes from, which makes its contents.                    *)
Message == [seq : Nat, cmd : Nat, attempt : Nat]

Job == [seq : Nat, cmd : Nat, conn : Conns, attempt : Nat, state : {"publish", "wait", "verify"}]

PathAssumption ==
  /\ Conns # {} /\ None \notin Job
  /\ Outlives \in BOOLEAN
  /\ {MaxCommands, MaxTimeouts, MaxLost, MaxCrashes} \subseteq Nat

VARIABLES
  stream,    \* the messages stored, in order
  wire,      \* [Conns -> Seq(Message)]: written and not yet stored
  job,       \* the commit in flight, or None
  number,    \* lastCommitSeq of the object
  acked,     \* the last commit the dispatcher was told of (observed only)
  commands,  \* commands submitted
  attempts,  \* publishes made
  acks,      \* acknowledgements on their way, by attempt
  timeouts, lost, crashes

pathVars == <<stream, wire, job, number, acked, commands, attempts, acks, timeouts, lost, crashes>>

(* Types; the commits counted are commands that were submitted             *)
(* (dispatcher.go, lastCommitSeq).                                         *)
PathTypeOK ==
  /\ stream \in Seq(Message)
  /\ wire \in [Conns -> Seq(Message)]
  /\ job \in Job \cup {None}
  /\ acked \in [seq : Nat, cmd : Nat]
  /\ {commands, attempts, timeouts, lost, crashes} \subseteq Nat
  /\ number \in 0..commands
  /\ acks \subseteq 1..attempts

PathInit ==
  /\ stream = <<>>
  /\ wire = [c \in Conns |-> <<>>]
  /\ job = None
  /\ number = 0
  /\ acked = [seq |-> 0, cmd |-> 0]
  /\ commands = 0
  /\ attempts = 0
  /\ acks = {}
  /\ timeouts = 0
  /\ lost = 0
  /\ crashes = 0

---------------------------------------------------------------------------
(* Submit, and a worker takes the envelope.                                *)
Submit(c) ==
  /\ job = None
  /\ commands < MaxCommands
  /\ commands' = commands + 1
  /\ job' = [seq |-> number + 1, cmd |-> commands + 1, conn |-> c, attempt |-> 0, state |-> "publish"]
  /\ UNCHANGED <<stream, wire, number, acked, attempts, acks, timeouts, lost, crashes>>

In(state) == job # None /\ job.state = state

(* PublishMsg writes to the connection and waits.                          *)
Publish ==
  /\ In("publish")
  /\ attempts' = attempts + 1
  /\ wire' = [wire EXCEPT ![job.conn] =
       Append(@, [seq |-> job.seq, cmd |-> job.cmd, attempt |-> attempts + 1])]
  /\ job' = [job EXCEPT !.state = "wait", !.attempt = attempts + 1]
  /\ UNCHANGED <<stream, number, acked, commands, acks, timeouts, lost, crashes>>

(* The server stores the next message of a connection and acknowledges it. *)
Deliver(c) ==
  /\ wire[c] # <<>>
  /\ stream' = Append(stream, Head(wire[c]))
  /\ wire' = [wire EXCEPT ![c] = Tail(@)]
  /\ acks' = acks \cup {Head(wire[c]).attempt}
  /\ UNCHANGED <<job, number, acked, commands, attempts, timeouts, lost, crashes>>

Lose(c) ==
  /\ wire[c] # <<>>
  /\ lost < MaxLost
  /\ lost' = lost + 1
  /\ wire' = [wire EXCEPT ![c] = Tail(@)]
  /\ UNCHANGED <<stream, job, number, acked, commands, attempts, acks, timeouts, crashes>>

(* commitOne returns, and onCommitResult counts the commit.                *)
Committed ==
  /\ job' = None
  /\ number' = job.seq
  /\ acked' = [seq |-> job.seq, cmd |-> job.cmd]

(* Only the attempt that waits is acknowledged: earlier ones have had      *)
(* another reply subject.                                                  *)
Acked ==
  /\ In("wait")
  /\ job.attempt \in acks
  /\ Committed
  /\ UNCHANGED <<stream, wire, commands, attempts, acks, timeouts, lost, crashes>>

(* The attempt may still be acknowledged.                                  *)
Pending(attempt) ==
  \/ attempt \in acks
  \/ \E c \in Conns : \E i \in DOMAIN wire[c] : wire[c][i].attempt = attempt

(* Only a timeout that comes too early counts for the bound.               *)
Timeout ==
  /\ In("wait")
  /\ IF Pending(job.attempt)
     THEN timeouts < MaxTimeouts /\ timeouts' = timeouts + 1
     ELSE UNCHANGED timeouts
  /\ job' = [job EXCEPT !.state = "verify"]
  /\ UNCHANGED <<stream, wire, number, acked, commands, attempts, acks, lost, crashes>>

(* Faulty variant: any message of the subject will do.                     *)
FoundAny == stream # <<>>

Found == stream # <<>> /\ Last(stream).seq = job.seq

AfterReadBack == [job EXCEPT !.state = "publish"]

(* GetLastMsgForSubject and the comparison of the event IDs.               *)
ReadBack ==
  /\ In("verify")
  /\ IF Found THEN Committed
     ELSE job' = AfterReadBack /\ UNCHANGED <<number, acked>>
  /\ UNCHANGED <<stream, wire, commands, attempts, acks, timeouts, lost, crashes>>

(* The read-back fails too.                                                *)
ReadBackFails ==
  /\ In("verify")
  /\ timeouts < MaxTimeouts
  /\ timeouts' = timeouts + 1
  /\ job' = AfterReadBack
  /\ UNCHANGED <<stream, wire, number, acked, commands, attempts, acks, lost, crashes>>

(* RecoverObjectCommits takes the message with the highest stream sequence. *)
Recovered == IF stream = <<>> THEN 0 ELSE Last(stream).seq

(* The process ends and another one recovers.                              *)
Restart ==
  /\ crashes < MaxCrashes
  /\ crashes' = crashes + 1
  /\ job' = None
  /\ number' = Recovered
  /\ IF Outlives THEN UNCHANGED wire ELSE wire' = [c \in Conns |-> <<>>]
  /\ UNCHANGED <<stream, acked, commands, attempts, acks, timeouts, lost>>

PathNext ==
  \/ \E c \in Conns : Submit(c) \/ Deliver(c) \/ Lose(c)
  \/ Publish \/ Acked \/ Timeout \/ ReadBack \/ ReadBackFails
  \/ Restart

PathSpec == PathInit /\ [][PathNext]_pathVars

---------------------------------------------------------------------------
(* The last command that was told OK is stored, as its own commit, however *)
(* late its attempts and those of older commits arrive, over whatever      *)
(* connections: an acknowledgement counts only for the attempt that waits, *)
(* and the read-back takes no other commit for it.                         *)
AckedIsStored ==
  acked.seq > 0 =>
    \E i \in DOMAIN stream : stream[i].seq = acked.seq /\ stream[i].cmd = acked.cmd

(* publisher.go: "Per-object ordering is preserved by the dispatcher (only *)
(* one envelope per object is in-flight at a time), so multiple pool       *)
(* workers can safely process envelopes".  Then a restart, which recovers  *)
(* the last message, gives back at least what the clients were told is     *)
(* committed.  With two connections it does not: a late attempt of an      *)
(* older commit can be stored last.                                        *)
NewestIsLast ==
  acked.seq > 0 => stream # <<>> /\ Last(stream).seq >= acked.seq
=============================================================================
