----------------------------- MODULE BootEpoch -----------------------------
(***************************************************************************)
(* How a boot reserves its epoch (PublishBooted,                           *)
(* internal/gtevents/stream.go): it reads the last sequence of the stream, *)
(* publishes a marker that names the next one, on condition that the       *)
(* stream has not grown, and starts over after any error.  The epoch is    *)
(* half of the instance ID of every object that the process registers      *)
(* (NewInstanceID), so no two boots may have the same.                     *)
(*                                                                         *)
(* Several processes may boot at once, and one that runs already, or has   *)
(* just ended, may have messages on their way.  A publish whose answer is  *)
(* lost may have been stored, be refused, or be stored later.              *)
(***************************************************************************)
EXTENDS Naturals, Sequences, FiniteSets, SequencesExt

CONSTANTS
  Procs,     \* boots of the service
  Other,     \* the writer of a message that is no marker
  MaxOthers, \* bounds of the model: messages of others,
  MaxFaults  \*   publishes that are not answered

ASSUME EpochAssumption ==
  /\ Other \notin Procs
  /\ MaxOthers \in Nat /\ MaxFaults \in Nat

VARIABLES
  stream,  \* the messages stored, in order
  wire,    \* publishes on their way to the server
  boot,    \* [Procs -> Boot]
  others, faults

epochVars == <<stream, wire, boot, others, faults>>

(* A marker carries its boot_epoch; expects is the condition on LastSeq.   *)
Publish == [by : Procs, epoch : Nat, expects : Nat]
Message == [by : Procs \cup {Other}, epoch : Nat]

(* last is the sequence that a boot read.                                  *)
Boot == [at : {"info", "publish", "wait", "done"}, last : Nat, epoch : Nat]

(* The types; a publish expects a sequence that the stream has had.        *)
EpochTypeOK ==
  /\ stream \in Seq(Message)
  /\ wire \subseteq Publish
  /\ \A pub \in wire : pub.expects <= Len(stream)
  /\ boot \in [Procs -> Boot]
  /\ others \in 0..MaxOthers
  /\ faults \in 0..MaxFaults

EpochInit ==
  /\ stream = <<>>
  /\ wire = {}
  /\ boot = [p \in Procs |-> [at |-> "info", last |-> 0, epoch |-> 0]]
  /\ others = 0
  /\ faults = 0

---------------------------------------------------------------------------
(* Another message is stored: a commit, a geofence event.                  *)
OtherMessage ==
  /\ others < MaxOthers
  /\ others' = others + 1
  /\ stream' = Append(stream, [by |-> Other, epoch |-> 0])
  /\ UNCHANGED <<wire, boot, faults>>

ReadInfo(p) ==
  /\ boot[p].at = "info"
  /\ boot' = [boot EXCEPT ![p] = [@ EXCEPT !.at = "publish", !.last = Len(stream)]]
  /\ UNCHANGED <<stream, wire, others, faults>>

Marker(p) == [by |-> p, epoch |-> boot[p].last + 1, expects |-> boot[p].last]

PublishMarker(p) ==
  /\ boot[p].at = "publish"
  /\ wire' = wire \cup {Marker(p)}
  /\ boot' = [boot EXCEPT ![p].at = "wait"]
  /\ UNCHANGED <<stream, others, faults>>

(* WithExpectLastSequence.                                                 *)
Accepts(pub) == Len(stream) = pub.expects

Stored(pub) == stream' = Append(stream, [by |-> pub.by, epoch |-> pub.epoch])

(* Any error: once more from the start.                                    *)
Again(p) == [boot[p] EXCEPT !.at = "info"]

Done(p, sequence) == [boot[p] EXCEPT !.at = "done", !.epoch = sequence]

(* Faulty variant: a publish that was not answered is taken for stored.    *)
UnansweredDone(p) == Done(p, boot[p].last + 1)

Unanswered(p) == Again(p)

(* The server handles a publish that is waited for and the answer arrives: *)
(* the acknowledgement has the sequence that was reserved.                 *)
Answer(p) ==
  /\ boot[p].at = "wait"
  /\ Marker(p) \in wire
  /\ wire' = wire \ {Marker(p)}
  /\ IF Accepts(Marker(p))
     THEN Stored(Marker(p)) /\ boot' = [boot EXCEPT ![p] = Done(p, Len(stream) + 1)]
     ELSE UNCHANGED stream /\ boot' = [boot EXCEPT ![p] = Again(p)]
  /\ UNCHANGED <<others, faults>>

(* No answer in time; the publish is still on its way.                     *)
Timeout(p) ==
  /\ boot[p].at = "wait"
  /\ Marker(p) \notin wire \/ faults < MaxFaults
  /\ faults' = IF Marker(p) \in wire THEN faults + 1 ELSE faults
  /\ boot' = [boot EXCEPT ![p] = Unanswered(p)]
  /\ UNCHANGED <<stream, wire, others>>

(* A publish that is no longer waited for arrives, or is lost.             *)
LateArrival(pub) ==
  /\ pub \in wire
  /\ boot[pub.by].at # "wait" \/ pub # Marker(pub.by)
  /\ wire' = wire \ {pub}
  /\ \/ Accepts(pub) /\ Stored(pub)
     \/ UNCHANGED stream
  /\ UNCHANGED <<boot, others, faults>>

(* The connection loses the publish.                                       *)
Lost(p) ==
  /\ boot[p].at = "wait"
  /\ Marker(p) \in wire
  /\ faults < MaxFaults
  /\ faults' = faults + 1
  /\ wire' = wire \ {Marker(p)}
  /\ \/ UNCHANGED stream
     \/ Accepts(Marker(p)) /\ Stored(Marker(p))
  /\ UNCHANGED <<boot, others>>

BootStep(p) == ReadInfo(p) \/ PublishMarker(p) \/ Answer(p) \/ Timeout(p)

EpochNext ==
  \/ OtherMessage
  \/ \E p \in Procs : BootStep(p) \/ Lost(p)
  \/ \E pub \in wire : LateArrival(pub)

EpochSpec == EpochInit /\ [][EpochNext]_epochVars

---------------------------------------------------------------------------
(* No two boots have the same epoch, so no two registrations have the same *)
(* instance ID (ids.go, NewInstanceID), also when publishes are stored     *)
(* unnoticed and other processes write or boot meanwhile.                  *)
EpochsAreUnique ==
  \A p, q \in Procs :
    boot[p].at = "done" /\ boot[q].at = "done" /\ boot[p].epoch = boot[q].epoch => p = q

(* Every marker is where it says, and the epoch of a boot is a marker of   *)
(* its own (stream.go:230, "boot epoch reservation mismatch").             *)
MarkersNameThemselves ==
  /\ \A i \in DOMAIN stream : stream[i].by # Other => stream[i].epoch = i
  /\ \A p \in Procs : boot[p].at = "done" =>
       boot[p].epoch \in DOMAIN stream /\ stream[boot[p].epoch].by = p
=============================================================================
