---------------------------- MODULE ServiceLife ----------------------------
(***************************************************************************)
(* How the service starts and ends (Run, run, openPublisherBackends and    *)
(* finish of internal/app/geotruth/geotruth.go; RunGeoTruth, RunLocalStack *)
(* and Shutdown of embedded/embedded.go): the goroutine of run, the caller *)
(* that waits until it is ready or done, the context that may be cancelled *)
(* at any time, the connections that the service opens and owns, and the   *)
(* NATS server of the local stack.                                         *)
(*                                                                         *)
(* What Boot does is module GeoTruth, what the dispatcher does module      *)
(* Dispatcher: here they end, well or with an error.                       *)
(***************************************************************************)
EXTENDS Naturals, FiniteSets

CONSTANTS
  Workers  \* of the publisher: a connection each

LifeAssumption == Workers \in Nat \ {0}

VARIABLES
  local,   \* the caller is RunLocalStack, not RunGeoTruth
  server,  \* the NATS server of the local stack
  ctx,     \* the context: cancelled or not
  run,     \* the goroutine of Run: where it is, the backends opened
  conns,   \* connections that are open
  publisherNCs,  \* those of the backends that the service remembers
  chReady, chDone,   \* closed or not
  gtErr,   \* GeoTruth.err
  caller   \* the caller, and what is returned to it

lifeVars == <<local, server, ctx, run, conns, publisherNCs, chReady, chDone, gtErr, caller>>

(* 0 is the main connection.                                               *)
Roles == 0..Workers

Errors == {"nil", "error"}

(* failed is the error that run returns.                                   *)
RunState ==
  [ at : {"none", "boot", "open", "handlers", "dispatch", "close", "err", "done", "ended"},
    opened : 0..Workers, failed : Errors ]

Caller ==
  [at : {"new", "waiting", "failing", "returned"}, service : BOOLEAN, err : Errors]

(* Types; the service remembers connections that are open.                 *)
LifeTypeOK ==
  /\ local \in BOOLEAN
  /\ server \in {"none", "up", "down"}
  /\ ctx \in {"live", "cancelled"}
  /\ run \in RunState
  /\ conns \subseteq Roles
  /\ publisherNCs \subseteq conns \ {0}
  /\ chReady \in BOOLEAN /\ chDone \in BOOLEAN
  /\ gtErr \in Errors
  /\ caller \in Caller

LifeInit ==
  /\ local \in BOOLEAN
  /\ server = "none"
  /\ ctx = "live"
  /\ run = [at |-> "none", opened |-> 0, failed |-> "nil"]
  /\ conns = {} /\ publisherNCs = {}
  /\ chReady = FALSE /\ chDone = FALSE
  /\ gtErr = "nil"
  /\ caller = [at |-> "new", service |-> FALSE, err |-> "nil"]

---------------------------------------------------------------------------
(* The context of the caller is cancelled; in RunLocalStack also by        *)
(* Services.Shutdown.                                                      *)
Cancel ==
  /\ ctx = "live"
  /\ ctx' = "cancelled"
  /\ UNCHANGED <<local, server, run, conns, publisherNCs, chReady, chDone, gtErr, caller>>

(* RunNATSServer.                                                          *)
RunNATSServer ==
  /\ local /\ server = "none"
  /\ caller.at = "new"
  /\ \/ server' = "up" /\ UNCHANGED <<ctx, caller>>
     \/ /\ server' = "down" /\ ctx' = "cancelled"
        /\ caller' = [at |-> "returned", service |-> FALSE, err |-> "error"]
  /\ UNCHANGED <<local, run, conns, publisherNCs, chReady, chDone, gtErr>>

(* newGeoTruth connects and sets up the bucket and the stream; a failure   *)
(* after the connection closes it.                                         *)
New ==
  /\ caller.at = "new"
  /\ local => server # "none"
  /\ \/ /\ conns' = {0}
        /\ run' = [run EXCEPT !.at = "boot"]
        /\ caller' = [caller EXCEPT !.at = "waiting"]
     \/ /\ caller' = [at |-> IF local THEN "failing" ELSE "returned",
                      service |-> FALSE, err |-> "error"]
        /\ UNCHANGED <<conns, run>>
  /\ UNCHANGED <<local, server, ctx, publisherNCs, chReady, chDone, gtErr>>

---------------------------------------------------------------------------
(* The goroutine.  A step fails by itself or because its context is gone.  *)
Fails == run' = [run EXCEPT !.at = "close", !.failed = "error"]

callerVars == <<local, server, ctx, caller>>

Boot ==
  /\ run.at = "boot"
  /\ run' = [run EXCEPT !.at = "open"] \/ Fails
  /\ UNCHANGED <<callerVars, conns, publisherNCs, chReady, chDone, gtErr>>

(* Faulty variant: the connections are forgotten, not closed.              *)
AfterOpenErrorForgotten == conns

(* The error path of openPublisherBackends closes what it has opened.      *)
AfterOpenError == conns \ publisherNCs

Forgotten == {}

OpenPublisherBackend ==
  /\ run.at = "open" /\ run.opened < Workers
  /\ LET i == run.opened + 1
     IN  \/ /\ conns' = conns \cup {i}
            /\ publisherNCs' = publisherNCs \cup {i}
            /\ run' = [run EXCEPT !.opened = i]
         \/ /\ conns' = AfterOpenError
            /\ publisherNCs' = Forgotten
            /\ Fails
  /\ UNCHANGED <<callerVars, chReady, chDone, gtErr>>

(* The publisher and the dispatcher are started.                           *)
Start ==
  /\ run.at = "open" /\ run.opened = Workers
  /\ run' = [run EXCEPT !.at = "handlers"]
  /\ UNCHANGED <<callerVars, conns, publisherNCs, chReady, chDone, gtErr>>

(* startWriteHandlers, startQueryHandlers and Flush; then it is ready.     *)
StartHandlers ==
  /\ run.at = "handlers"
  /\ \/ run' = [run EXCEPT !.at = "dispatch"] /\ chReady' = TRUE
     \/ Fails /\ UNCHANGED chReady
  /\ UNCHANGED <<callerVars, conns, publisherNCs, chDone, gtErr>>

(* Dispatcher.Run returns when the context is cancelled: no error.         *)
DispatcherRun ==
  /\ run.at = "dispatch"
  /\ ctx = "cancelled"
  /\ run' = [run EXCEPT !.at = "close"]
  /\ UNCHANGED <<callerVars, conns, publisherNCs, chReady, chDone, gtErr>>

Owned == publisherNCs \cup {0}

(* The deferred call of run.                                               *)
closeOwnedConnections ==
  /\ run.at = "close"
  /\ run' = [run EXCEPT !.at = "err"]
  /\ conns' = conns \ Owned
  /\ publisherNCs' = {}
  /\ UNCHANGED <<callerVars, chReady, chDone, gtErr>>

(* finish: the error under errMu, and then the channel.                    *)
FinishOrder == <<"err", "done">>
Closed == chDone' = TRUE

FinishStep(what) ==
  \/ what = "err" /\ gtErr' = run.failed /\ UNCHANGED chDone
  \/ what = "done" /\ Closed /\ UNCHANGED gtErr

finish ==
  /\ \/ run.at = "err" /\ run' = [run EXCEPT !.at = "done"] /\ FinishStep(FinishOrder[1])
     \/ run.at = "done" /\ run' = [run EXCEPT !.at = "ended"] /\ FinishStep(FinishOrder[2])
  /\ UNCHANGED <<callerVars, conns, publisherNCs, chReady>>

---------------------------------------------------------------------------
(* The select of RunGeoTruth: any case that is ready.                      *)
Returns(service, err) ==
  caller' = [at |-> IF local /\ err = "error" THEN "failing" ELSE "returned",
             service |-> service, err |-> err]

RunGeoTruth ==
  /\ caller.at = "waiting"
  /\ \/ chReady /\ Returns(TRUE, "nil")
     \/ chDone /\ Returns(FALSE, gtErr)
     \/ ctx = "cancelled" /\ Returns(FALSE, "error")
  /\ UNCHANGED <<local, server, ctx, run, conns, publisherNCs, chReady, chDone, gtErr>>

(* cancel and Shutdown of the server.                                      *)
StopStack == ctx' = "cancelled" /\ server' = "down"

(* RunLocalStack after an error of RunGeoTruth: the context of the stack   *)
(* is cancelled and the server shut down.                                  *)
RunLocalStackFails ==
  /\ caller.at = "failing"
  /\ caller' = [caller EXCEPT !.at = "returned"]
  /\ StopStack
  /\ UNCHANGED <<local, run, conns, publisherNCs, chReady, chDone, gtErr>>

(* The goroutine of RunNATSServer, or Services.Shutdown: once.             *)
Shutdown ==
  /\ server = "up"
  /\ ctx = "cancelled"
  /\ server' = "down"
  /\ UNCHANGED <<local, ctx, run, conns, publisherNCs, chReady, chDone, gtErr, caller>>

RunStep ==
  \/ Boot \/ OpenPublisherBackend \/ Start \/ StartHandlers \/ DispatcherRun
  \/ closeOwnedConnections \/ finish

CallerStep == RunNATSServer \/ New \/ RunGeoTruth \/ RunLocalStackFails

LifeNext == Cancel \/ RunStep \/ CallerStep \/ Shutdown

LifeSpec == LifeInit /\ [][LifeNext]_lifeVars

---------------------------------------------------------------------------
(* When the service is done it has no connection left, wherever it failed  *)
(* or was cancelled: also when the third of the publisher's connections    *)
(* could not be opened.                                                    *)
NoConnectionLeft == chDone => conns = {}
=============================================================================
