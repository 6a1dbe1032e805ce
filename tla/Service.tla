------------------------------ MODULE Service ------------------------------
(***************************************************************************)
(* The parts of the service around the dispatcher: the two scans of a boot *)
(* (BootScan), its epoch (BootEpoch), the channels of the write path       *)
(* (Pipeline), the publishes of one object (PublishPath), the monitor of   *)
(* the stream (StreamPressure), and the service from its start to its end  *)
(* (ServiceLife).  They do not share state.  A behaviour is one of one     *)
(* part, and leaves the others as they are at the start.                   *)
(***************************************************************************)
EXTENDS BootEpoch, Pipeline

CONSTANTS
  ScanObjects, Areas, CommitTypes, Batch, MaxCommits,  \* BootScan
  MaxRecoveryFaults, MaxRepairFaults, MaxLostAcks, MaxScanCrashes,
  Conns, Outlives, MaxPathCommands, MaxTimeouts, MaxLost, MaxCrashes,  \* PublishPath
  Writers, Refreshes, MaxBytes, WarnBytes, CriticalBytes,  \* StreamPressure
  MinBytesDelta, MaxFreed, MaxCallFaults,
  Publishers                                               \* ServiceLife

VARIABLES
  part,
  scanned, scanNumber, owed, mode, todo, unacked, commits, missing, scanFaults, scanCrashes,
  pathStream, pathWire, job, number, acked, commands, attempts, acks, timeouts, lost, crashes,
  bytes, lastSeq, writer, mon, refresh, advised, freed, callFaults,
  local, server, ctx, run, conns, publisherNCs, chReady, chDone, gtErr, caller

Scan == INSTANCE BootScan WITH
          Objects <- ScanObjects, MaxCrashes <- MaxScanCrashes,
          stream <- scanned, number <- scanNumber, faults <- scanFaults, crashes <- scanCrashes

Path == INSTANCE PublishPath WITH
          MaxCommands <- MaxPathCommands, stream <- pathStream, wire <- pathWire

Pressure == INSTANCE StreamPressure WITH MaxFaults <- MaxCallFaults, faults <- callFaults

Life == INSTANCE ServiceLife WITH Workers <- Publishers

ASSUME ServiceAssumption ==
  /\ Scan!ScanAssumption /\ Path!PathAssumption
  /\ Pressure!PressureAssumption /\ Life!LifeAssumption

---------------------------------------------------------------------------
scanVars ==
  <<scanned, scanNumber, owed, mode, todo, unacked, commits, missing, scanFaults, scanCrashes>>
pathVars ==
  <<pathStream, pathWire, job, number, acked, commands, attempts, acks, timeouts, lost, crashes>>
pressureVars == <<bytes, lastSeq, writer, mon, refresh, advised, freed, callFaults>>
lifeVars == <<local, server, ctx, run, conns, publisherNCs, chReady, chDone, gtErr, caller>>

ServiceInit ==
  /\ part \in {"scan", "epoch", "pipeline", "path", "pressure", "life"}
  /\ Scan!BootInit /\ EpochInit /\ PipelineInit /\ Path!PathInit /\ Pressure!PressureInit
  /\ Life!LifeInit /\ (part = "life" \/ local)

ServiceNext ==
  /\ UNCHANGED part
  /\ \/ /\ part = "scan" /\ Scan!BootNext
        /\ UNCHANGED <<epochVars, pipelineVars, pathVars, pressureVars, lifeVars>>
     \/ /\ part = "epoch" /\ EpochNext
        /\ UNCHANGED <<scanVars, pipelineVars, pathVars, pressureVars, lifeVars>>
     \/ /\ part = "pipeline" /\ PipelineNext
        /\ UNCHANGED <<scanVars, epochVars, pathVars, pressureVars, lifeVars>>
     \/ /\ part = "path" /\ Path!PathNext
        /\ UNCHANGED <<scanVars, epochVars, pipelineVars, pressureVars, lifeVars>>
     \/ /\ part = "pressure" /\ Pressure!PressureNext
        /\ UNCHANGED <<scanVars, epochVars, pipelineVars, pathVars, lifeVars>>
     \/ /\ part = "life" /\ Life!LifeNext
        /\ UNCHANGED <<scanVars, epochVars, pipelineVars, pathVars, pressureVars>>

serviceVars == <<part, scanVars, epochVars, pipelineVars, pathVars, pressureVars, lifeVars>>

(* The other parts have no liveness property.                              *)
ServiceSpec ==
  /\ ServiceInit /\ [][ServiceNext]_serviceVars
  /\ part = "pressure" => Pressure!PressureFairness

---------------------------------------------------------------------------
(* A boot recovers the latest commit of every object, over all its         *)
(* subjects, whatever the batches and redeliveries (stream.go,             *)
(* RecoverObjectCommits).                                                  *)
RecoveredIsLatest == part = "scan" => Scan!RecoveredIsLatest

(* A booted process leaves no geofence event of a latest commit out of the *)
(* stream (stream.go, RepairLatestProjections).                            *)
ProjectionsAreRepaired == part = "scan" => Scan!ProjectionsAreRepaired

(* The repair does not publish what the stream has, unless its scan broke  *)
(* off (stream.go, found).                                                 *)
NothingRepairedTwice == part = "scan" => Scan!NothingRepairedTwice

(* The last command that was told OK is stored, as its own commit          *)
(* (publisher.go, publishOrVerify).                                        *)
AckedIsStored == part = "path" => Path!AckedIsStored

(* A stream that stays full while it refuses a message is advised in the   *)
(* end (streampressure/monitor.go, ObservePublishError, finishRefresh).    *)
RefusedIsAdvised == part = "pressure" => Pressure!RefusedIsAdvised

(* A service that is done has closed every connection it opened            *)
(* (geotruth.go, closeOwnedConnections).                                   *)
NoConnectionLeft == part = "life" => Life!NoConnectionLeft
=============================================================================
