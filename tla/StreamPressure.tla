--------------------------- MODULE StreamPressure ---------------------------
(***************************************************************************)
(* The monitor of the stream's size (internal/streampressure/monitor.go):  *)
(* the publisher's workers report what they publish and what fails; now    *)
(* and then a goroutine reads the state of the stream, updates the level   *)
(* and publishes an advisory.  The mutex covers the counters, but neither  *)
(* the read before the update nor the advisory after it.                   *)
(*                                                                         *)
(* The stream refuses messages when it is full (EnsureStream, DiscardNew)  *)
(* and the workers publish again (commitOne); compaction makes room.  A    *)
(* message has size 1.                                                     *)
(***************************************************************************)
EXTENDS Integers, FiniteSets, FiniteSetsExt

CONSTANTS
  Writers,       \* workers of the publisher
  Refreshes,     \* goroutines that refresh, at most so many at a time
  MaxBytes,      \* the stream's limit; 0: none
  WarnBytes, CriticalBytes,  \* where the ratios are reached
  MinBytesDelta, \* what is published before a refresh is due
  MaxFreed,      \* bounds of the model: messages that compaction deletes,
  MaxFaults      \*   calls to the server and advisories that fail

PressureAssumption ==
  /\ IsFiniteSet(Refreshes)
  /\ \A n \in {MaxBytes, WarnBytes, CriticalBytes, MinBytesDelta, MaxFreed, MaxFaults} :
       n \in Nat
  /\ WarnBytes <= CriticalBytes

VARIABLES
  bytes, lastSeq,  \* the stream
  writer,   \* [Writers -> what the worker does, and the sequence of its message]
  mon,      \* the monitor's fields under mu
  refresh,  \* [Refreshes -> a goroutine's phase and what it has read]
  advised,  \* the level in the last pressure advisory
  freed, faults

pressureVars == <<bytes, lastSeq, writer, mon, refresh, advised, freed, faults>>

Levels == {"unbounded", "ok", "warning", "critical"}
MaxSeq == MaxBytes + MaxFreed

(* "idle": no message to publish; "error" and "schedule" are the steps of  *)
(* ObservePublishError; seq: what the worker knows to be stored, or 0.     *)
Writer == [at : {"idle", "publish", "observe", "error", "schedule"}, seq : 0..MaxSeq]

(* refreshed: lastRefreshAt is set; due: minRefreshInterval has passed.    *)
Monitor == [ bytesSinceRefresh : 0..MaxSeq, refreshRunning : BOOLEAN, lastLevel : Levels,
             latestObservedSeq : 0..MaxSeq, refreshed : BOOLEAN, due : BOOLEAN ]

Refresh == [at : {"none", "info", "update", "failed", "advise"}, level : Levels]

(* Types; what was observed has been stored.                               *)
PressureTypeOK ==
  /\ bytes \in 0..MaxBytes
  /\ lastSeq \in 0..MaxSeq
  /\ writer \in [Writers -> Writer]
  /\ mon \in Monitor
  /\ mon.latestObservedSeq <= lastSeq
  /\ refresh \in [Refreshes -> Refresh]
  /\ advised \in Levels
  /\ freed \in 0..MaxFreed
  /\ faults \in 0..MaxFaults

PressureInit ==
  /\ bytes = 0 /\ lastSeq = 0
  /\ writer = [w \in Writers |-> [at |-> "idle", seq |-> 0]]
  /\ mon = [ bytesSinceRefresh |-> 0, refreshRunning |-> FALSE, lastLevel |-> "ok",
             latestObservedSeq |-> 0, refreshed |-> FALSE, due |-> FALSE ]
  /\ refresh = [r \in Refreshes |-> [at |-> "none", level |-> "ok"]]
  /\ advised = "ok"
  /\ freed = 0 /\ faults = 0

---------------------------------------------------------------------------
(* The stream and its writers.                                             *)
Full == bytes = MaxBytes

Fault == faults < MaxFaults /\ faults' = faults + 1

Store == bytes' = bytes + 1 /\ lastSeq' = lastSeq + 1

(* A command of a client gives a worker something to publish.              *)
TakeMsg(w) ==
  /\ writer[w].at = "idle"
  /\ writer' = [writer EXCEPT ![w].at = "publish"]
  /\ UNCHANGED <<bytes, lastSeq, mon, refresh, advised, freed, faults>>

(* publishOrVerify: a publish is stored, or fails; one that is stored but  *)
(* not answered fails too, and the read-back finds it or fails as well.    *)
PublishMsg(w) ==
  /\ writer[w].at = "publish"
  /\ \/ /\ ~Full /\ Store
        /\ writer' = [writer EXCEPT ![w] = [at |-> "observe", seq |-> lastSeq + 1]]
        /\ UNCHANGED faults
     \/ /\ ~Full /\ Store /\ Fault
        /\ \E seq \in {0, lastSeq + 1} :
             writer' = [writer EXCEPT ![w] = [at |-> "error", seq |-> seq]]
     \/ /\ IF Full THEN UNCHANGED faults ELSE Fault
        /\ writer' = [writer EXCEPT ![w] = [at |-> "error", seq |-> 0]]
        /\ UNCHANGED <<bytes, lastSeq>>
  /\ UNCHANGED <<mon, refresh, advised, freed>>

Compact ==
  /\ bytes > 0 /\ freed < MaxFreed
  /\ bytes' = bytes - 1 /\ freed' = freed + 1
  /\ UNCHANGED <<lastSeq, writer, mon, refresh, advised, faults>>

---------------------------------------------------------------------------
(* The monitor.                                                            *)
(* `go m.refresh()`                                                        *)
GoRefresh ==
  \E r \in Refreshes :
    /\ refresh[r].at = "none"
    /\ refresh' = [refresh EXCEPT ![r].at = "info"]

Counted(seq) ==
  [mon EXCEPT !.bytesSinceRefresh = @ + 1,
              !.latestObservedSeq = IF seq > @ THEN seq ELSE @]

(* One refresh at a time.                                                  *)
MayStart(m) == ~m.refreshRunning

ShouldRefresh(m) ==
  \/ m.bytesSinceRefresh >= MinBytesDelta
  \/ m.refreshed /\ m.due
  \/ ~m.refreshed /\ m.bytesSinceRefresh > 0

ObservePublish(w) ==
  /\ writer[w].at = "observe"
  /\ writer' = [writer EXCEPT ![w] = [at |-> "idle", seq |-> 0]]
  /\ LET m == Counted(writer[w].seq)
     IN  IF ShouldRefresh(m) /\ MayStart(m)
         THEN mon' = [m EXCEPT !.refreshRunning = TRUE] /\ GoRefresh
         ELSE mon' = m /\ UNCHANGED refresh
  /\ UNCHANGED <<bytes, lastSeq, advised, freed, faults>>

(* The publish_failed advisory.                                            *)
ObservePublishError(w) ==
  /\ writer[w].at = "error"
  /\ writer' = [writer EXCEPT ![w].at = "schedule"]
  /\ UNCHANGED <<bytes, lastSeq, mon, refresh, advised, freed, faults>>

scheduleRefresh(w) ==
  /\ writer[w].at = "schedule"
  /\ writer' = [writer EXCEPT ![w].at = IF writer[w].seq = 0 THEN "publish" ELSE "observe"]
  /\ IF MayStart(mon)
     THEN mon' = [mon EXCEPT !.refreshRunning = TRUE] /\ GoRefresh
     ELSE UNCHANGED <<mon, refresh>>
  /\ UNCHANGED <<bytes, lastSeq, advised, freed, faults>>

pressureLevel(max, used) ==
  CASE max = 0 -> "unbounded"
    [] max > 0 /\ used >= CriticalBytes -> "critical"
    [] max > 0 /\ used >= WarnBytes /\ used < CriticalBytes -> "warning"
    [] OTHER -> "ok"

(* refresh reads the state of the stream, or cannot within refreshTimeout. *)
ReadInfo(r) ==
  /\ refresh[r].at = "info"
  /\ \/ /\ refresh' = [refresh EXCEPT ![r] =
                         [at |-> "update", level |-> pressureLevel(MaxBytes, bytes)]]
        /\ UNCHANGED faults
     \/ Fault /\ refresh' = [refresh EXCEPT ![r].at = "failed"]
  /\ UNCHANGED <<bytes, lastSeq, writer, mon, advised, freed>>

(* Faulty variant: a refresh that fails is not over.                       *)
FinishedNever(m) == m

Finished(m) == [m EXCEPT !.refreshRunning = FALSE]

finishRefresh(r) ==
  /\ refresh[r].at = "failed"
  /\ refresh' = [refresh EXCEPT ![r].at = "none"]
  /\ mon' = Finished(mon)
  /\ UNCHANGED <<bytes, lastSeq, writer, advised, freed, faults>>

(* The second locked section of refresh: publishes that were observed      *)
(* since the read are forgotten.                                           *)
Update(r) ==
  /\ refresh[r].at = "update"
  /\ mon' = Finished([mon EXCEPT !.lastLevel = refresh[r].level, !.refreshed = TRUE,
                                 !.due = FALSE, !.bytesSinceRefresh = 0])
  /\ refresh' =
       [refresh EXCEPT ![r].at =
          IF refresh[r].level = mon.lastLevel /\ refresh[r].level \in {"ok", "unbounded"}
          THEN "none" ELSE "advise"]
  /\ UNCHANGED <<bytes, lastSeq, writer, advised, freed, faults>>

(* publishJSON: an advisory that fails is logged.                          *)
Advise(r) ==
  /\ refresh[r].at = "advise"
  /\ refresh' = [refresh EXCEPT ![r].at = "none"]
  /\ \/ advised' = refresh[r].level /\ UNCHANGED faults
     \/ Fault /\ UNCHANGED advised
  /\ UNCHANGED <<bytes, lastSeq, writer, mon, freed>>

(* minRefreshInterval passes.                                              *)
Tick ==
  /\ mon.refreshed /\ ~mon.due
  /\ mon' = [mon EXCEPT !.due = TRUE]
  /\ UNCHANGED <<bytes, lastSeq, writer, refresh, advised, freed, faults>>

WriterStep(w) ==
  PublishMsg(w) \/ ObservePublish(w) \/ ObservePublishError(w) \/ scheduleRefresh(w)

RefreshStep(r) == ReadInfo(r) \/ finishRefresh(r) \/ Update(r) \/ Advise(r)

PressureNext ==
  \/ \E w \in Writers : TakeMsg(w) \/ WriterStep(w)
  \/ \E r \in Refreshes : RefreshStep(r)
  \/ Compact
  \/ Tick

PressureSpec == PressureInit /\ [][PressureNext]_pressureVars

(* Go schedules the goroutines; calls to the server end (refreshTimeout);  *)
(* a worker publishes again what it could not publish (commitOne).  No     *)
(* client need send another command, so TakeMsg is not fair.               *)
PressureFairness ==
  /\ \A w \in Writers : WF_pressureVars(WriterStep(w))
  /\ \A r \in Refreshes : WF_pressureVars(RefreshStep(r))

---------------------------------------------------------------------------
(* A stream that stays full while it refuses a message is advised as       *)
(* critical in the end, for good: the worker that cannot publish keeps the *)
(* refreshes going (ObservePublishError), whatever refreshes and           *)
(* advisories have failed or overtake each other.  When the last publish   *)
(* fills the stream and nobody publishes after it, no refresh need come.   *)
RefusedIsAdvised ==
  <>[](Full /\ \E w \in Writers : writer[w].at # "idle") => <>[](advised = "critical")
=============================================================================
