------------------------------ MODULE Pipeline ------------------------------
(***************************************************************************)
(* The goroutines of the write path and the buffered channels between      *)
(* them: the inbox of every region worker and of the transition goroutine, *)
(* the workers' results, the publisher's envelopes and its results.  A     *)
(* send to a full channel blocks its goroutine; the dispatcher reads the   *)
(* results of both and sends to the others, so it can wait for a channel   *)
(* that is only emptied by goroutines that wait for the dispatcher.        *)
(*                                                                         *)
(* What the commands do is left out (module Dispatcher, whose channels are *)
(* unbounded): an object is at one place of the pipeline at a time, as     *)
(* AtMostOneInFlight there says, and its further commands wait in its      *)
(* mailbox, a slice without a limit.  Where a command goes, and whether it *)
(* is refused, is any choice.                                              *)
(***************************************************************************)
EXTENDS Naturals, FiniteSets

CONSTANTS
  Objects,
  Workers,         \* region workers and the transition goroutine
  Pool,            \* publisher workers
  None,
  InboxCap,        \* [Workers -> Nat]: 256, and 64 for transitions
  ResultCap,       \* 4096
  CommitCap,       \* CommitBuffer
  CommitResultCap, \* ResultBuffer
  MaxInFlight,     \* MaxInFlightPerWorker
  MaxCommands      \* bound of the model: commands received

ASSUME PipelineAssumption ==
  /\ IsFiniteSet(Objects)
  /\ Pool # {}
  /\ None \notin Workers \cup Pool
  /\ InboxCap \in [Workers -> Nat \ {0}]
  /\ {ResultCap, CommitCap, CommitResultCap, MaxInFlight} \subseteq Nat \ {0}
  /\ MaxCommands \in Nat

VARIABLES
  at,       \* [Objects -> Place]: where the command being processed is
  waiting,  \* [Objects -> Nat]: commands queued in the mailbox
  received  \* commands received

pipelineVars == <<at, waiting, received>>

(* <<"hand", w>> is what the dispatcher is sending to w's inbox, and       *)
(* <<"hand", None>> to the publisher; a worker or a publisher goroutine    *)
(* that has finished holds its result until it is sent.                    *)
Rest == <<"rest", None>>
Results == <<"results", None>>
CommitCh == <<"commitCh", None>>
CommitResults == <<"commitResults", None>>

Place ==
  {Rest, Results, CommitCh, CommitResults} \cup
  ({"hand"} \X (Workers \cup {None})) \cup
  ({"inbox", "working"} \X Workers) \cup
  ({"taken", "publishing", "published"} \X Pool)

Channels == {Results, CommitCh, CommitResults} \cup ({"inbox"} \X Workers)

PipelineInit ==
  /\ at = [o \in Objects |-> Rest]
  /\ waiting = [o \in Objects |-> 0]
  /\ received = 0

---------------------------------------------------------------------------
In(place) == {o \in Objects : at[o] = place}

Jobs(p) == In(<<"publishing", p>>) \cup In(<<"published", p>>)

(* Faulty variant: the results are given a smaller buffer; with a capacity *)
(* of 1 that leaves no room at all, not even Go's rendezvous.              *)
CapacityLessResults(place) ==
  CASE place = Results -> ResultCap - 1
    [] place = CommitCh -> CommitCap
    [] place = CommitResults -> CommitResultCap
    [] OTHER -> InboxCap[place[2]]

Capacity(place) ==
  CASE place = Results -> ResultCap
    [] place = CommitCh -> CommitCap
    [] place = CommitResults -> CommitResultCap
    [] OTHER -> InboxCap[place[2]]

Room(channel) == Cardinality(In(channel)) < Capacity(channel)

Dest(w) == IF w = None THEN CommitCh ELSE <<"inbox", w>>

DispatcherFree == \A w \in Workers \cup {None} : In(<<"hand", w>>) = {}

MoveTo(o, place) == at' = [at EXCEPT ![o] = place]

(* dispatchNext: queued commands are refused (position without a region,   *)
(* object removed) until one is dispatched or the queue is empty.          *)
NextHead(o) ==
  \/ /\ waiting' = [waiting EXCEPT ![o] = 0]
     /\ MoveTo(o, Rest)
  \/ \E refused \in 0..(waiting[o] - 1), w \in Workers \cup {None} :
       /\ waiting' = [waiting EXCEPT ![o] = @ - refused - 1]
       /\ MoveTo(o, <<"hand", w>>)

---------------------------------------------------------------------------
(* onEnvelope: refused, queued, or dispatched to a worker or, for a        *)
(* registration, to the publisher.                                         *)
Receive(o) ==
  /\ DispatcherFree
  /\ received < MaxCommands
  /\ received' = received + 1
  /\ \/ UNCHANGED <<at, waiting>>
     \/ /\ at[o] # Rest
        /\ waiting' = [waiting EXCEPT ![o] = @ + 1]
        /\ UNCHANGED at
     \/ /\ at[o] = Rest
        /\ \E w \in Workers \cup {None} : MoveTo(o, <<"hand", w>>)
        /\ UNCHANGED waiting

(* The dispatcher's send to an inbox or to commitCh goes through.          *)
HandOver(o) ==
  \E w \in Workers \cup {None} :
    /\ at[o] = <<"hand", w>>
    /\ Room(Dest(w))
    /\ MoveTo(o, Dest(w))
    /\ UNCHANGED <<waiting, received>>

(* onResult: a commit for the publisher, or a refusal.                     *)
OnResult(o) ==
  /\ DispatcherFree
  /\ at[o] = Results
  /\ \/ MoveTo(o, <<"hand", None>>) /\ UNCHANGED waiting
     \/ NextHead(o)
  /\ UNCHANGED received

OnCommitResult(o) ==
  /\ DispatcherFree
  /\ at[o] = CommitResults
  /\ NextHead(o)
  /\ UNCHANGED received

(* A worker takes a task when it has sent the result of the one before.    *)
TakeTask(w, o) ==
  /\ at[o] = <<"inbox", w>>
  /\ In(<<"working", w>>) = {}
  /\ MoveTo(o, <<"working", w>>)
  /\ UNCHANGED <<waiting, received>>

SendResult(w, o) ==
  /\ at[o] = <<"working", w>>
  /\ Room(Results)
  /\ MoveTo(o, Results)
  /\ UNCHANGED <<waiting, received>>

(* A publisher worker takes one envelope and then waits for its semaphore. *)
TakeEnvelope(p, o) ==
  /\ at[o] = CommitCh
  /\ In(<<"taken", p>>) = {}
  /\ MoveTo(o, <<"taken", p>>)
  /\ UNCHANGED <<waiting, received>>

StartJob(p, o) ==
  /\ at[o] = <<"taken", p>>
  /\ Cardinality(Jobs(p)) < MaxInFlight
  /\ MoveTo(o, <<"publishing", p>>)
  /\ UNCHANGED <<waiting, received>>

(* commitOne returns.                                                      *)
Published(p, o) ==
  /\ at[o] = <<"publishing", p>>
  /\ MoveTo(o, <<"published", p>>)
  /\ UNCHANGED <<waiting, received>>

SendCommitResult(p, o) ==
  /\ at[o] = <<"published", p>>
  /\ Room(CommitResults)
  /\ MoveTo(o, CommitResults)
  /\ UNCHANGED <<waiting, received>>

DispatcherStep(o) == HandOver(o) \/ OnResult(o) \/ OnCommitResult(o)
WorkerStep(w, o) == TakeTask(w, o) \/ SendResult(w, o)
PublisherStep(p, o) ==
  TakeEnvelope(p, o) \/ StartJob(p, o) \/ Published(p, o) \/ SendCommitResult(p, o)

Step(o) ==
  \/ DispatcherStep(o)
  \/ \E w \in Workers : WorkerStep(w, o)
  \/ \E p \in Pool : PublisherStep(p, o)

PipelineNext == \E o \in Objects : Receive(o) \/ Step(o)

PipelineSpec == PipelineInit /\ [][PipelineNext]_pipelineVars

---------------------------------------------------------------------------
AtMostOne(objects) == \A o1, o2 \in objects : o1 = o2

(* The buffers are never overrun, a worker has one task, a publisher       *)
(* worker one envelope besides its jobs, and the dispatcher sends one      *)
(* thing at a time; nothing waits in a mailbox that no command of the      *)
(* object will open (dispatcher.go, dispatchNext).                         *)
PipelineTypeOK ==
  /\ at \in [Objects -> Place]
  /\ waiting \in [Objects -> Nat]
  /\ received \in Nat
  /\ \A channel \in Channels : Cardinality(In(channel)) <= Capacity(channel)
  /\ \A w \in Workers : AtMostOne(In(<<"working", w>>))
  /\ \A p \in Pool : AtMostOne(In(<<"taken", p>>)) /\ Cardinality(Jobs(p)) <= MaxInFlight
  /\ AtMostOne({o \in Objects : \E w \in Workers \cup {None} : at[o] = <<"hand", w>>})
  /\ \A o \in Objects : at[o] = Rest => waiting[o] = 0

(* Step(o) can be taken: its guards.                                       *)
Ready(o) ==
  \/ \E w \in Workers \cup {None} : at[o] = <<"hand", w>> /\ Room(Dest(w))
  \/ at[o] \in {Results, CommitResults} /\ DispatcherFree
  \/ \E w \in Workers :
       \/ at[o] = <<"inbox", w>> /\ In(<<"working", w>>) = {}
       \/ at[o] = <<"working", w>> /\ Room(Results)
  \/ \E p \in Pool :
       \/ at[o] = CommitCh /\ In(<<"taken", p>>) = {}
       \/ at[o] = <<"taken", p>> /\ Cardinality(Jobs(p)) < MaxInFlight
       \/ at[o] = <<"publishing", p>>
       \/ at[o] = <<"published", p>> /\ Room(CommitResults)

(* While a command is in flight some goroutine can go on: the dispatcher,  *)
(* the workers and the publisher never all wait for each other's channels  *)
(* (dispatcher.go:196-200, worker.go, publisher.go:203), provided there    *)
(* are no more objects than the buffers hold.                              *)
NeverStuck == (\E o \in Objects : at[o] # Rest) => \E o \in Objects : Ready(o)
=============================================================================
