----------------------------- MODULE NatsClient -----------------------------
(* The parts of pkg/natsconsumer and pkg/natswatch: the delivery to        *)
(* watches (NatsWatch), the wrapper's subscriptions and server consumer    *)
(* (NatsConsumer), and the trie (SubjectTrie).  The three do not share     *)
(* state.  A behaviour is one of the first, without faults or of one event *)
(* with them, or of the second, or of the third, and leaves the rest as it *)
(* is at the start.                                                        *)
EXTENDS NatsWatch

CONSTANTS
  FaultyEvent,                                          \* NatsWatch with faults
  WrapperSubs, SubPatterns, MessageSubjects,            \* NatsConsumer
  Together,        \* bound of the model: sets of WrapperSubs that are used together
  MaxDispatch, MaxServers, MaxDrops, MaxFaults,
  Ids, Tokens, MaxTokens                                \* SubjectTrie

VARIABLES
  part,
  w, wrapped, waiting, started, made, alive, filter, doomed, drops, faults,
  trie, patterns

Wrapper == INSTANCE NatsConsumer WITH
             Subs <- WrapperSubs, SubjectOf <- SubPatterns, Messages <- MessageSubjects,
             sub <- wrapped, dispatch <- started

Trie == INSTANCE SubjectTrie

ASSUME ClientAssumption == Wrapper!ConsumerAssumption /\ Trie!TrieAssumption

---------------------------------------------------------------------------
ClientInit ==
  /\ part \in {"watch", "faults", "wrapper", "trie"}
  /\ WatchInit /\ (part = "watch" \/ stream = [m \in Message |-> FaultyEvent])
  /\ Wrapper!Init /\ (part = "wrapper" \/ w.durable)
  /\ Trie!Init

wrapperVars == <<w, wrapped, waiting, started, made, alive, filter, doomed, drops, faults>>
trieVars == <<trie, patterns>>

ClientNext ==
  /\ UNCHANGED part
  /\ \/ /\ part \in {"watch", "faults"}
        /\ WatchNext
        /\ IF part = "watch" THEN lostAcks' + crashes' = 0
           ELSE server'.delivered <= 1 /\ lostAcks' + crashes' <= 1
        /\ UNCHANGED <<wrapperVars, trieVars>>
     \/ /\ part = "wrapper"
        /\ Wrapper!Next
        /\ \E group \in Together : \A s \in WrapperSubs \ group : wrapped'[s] = "new"
        /\ UNCHANGED <<watchVars, trieVars>>
     \/ part = "trie" /\ Trie!Next /\ UNCHANGED <<watchVars, wrapperVars>>

clientVars == <<part, watchVars, wrapperVars, trieVars>>

(* A wrapper at its start has nothing to do that fairness would ask for.   *)
ClientSpec ==
  /\ ClientInit /\ [][ClientNext]_clientVars
  /\ WF_watchVars(part = "watch" /\ DispatchStep) /\ WatchesFair
  /\ Wrapper!Fairness

---------------------------------------------------------------------------
(* The properties of the parts, where they are at work.                    *)

(* A closed wrapper holds no subscription, subject or consumer, and no     *)
(* dispatch runs (consumer.go, Close).                                     *)
ClosedIsFinal == part = "wrapper" => Wrapper!ClosedIsFinal

(* The filter on the server lets through what the counted subjects match   *)
(* (consumer.go, updateFilterSubjectsLocked).                              *)
FilterCoversRefs == part = "wrapper" => Wrapper!FilterCoversRefs

(* Subscribe returns (consumer.go, startDispatchLocked).                   *)
SubscribeReturns == part = "wrapper" => Wrapper!SubscribeReturns

(* The walk finds the subscriptions that match, and only those             *)
(* (subject.go, match).                                                    *)
MatchFindsSubscriptions == part = "trie" => Trie!MatchFindsSubscriptions

(* The minimal filter asks for the same messages as the subscriptions      *)
(* (consumer.go, filterSubjectsLocked).                                    *)
FilterMeansTheSame == part = "trie" => Trie!FilterMeansTheSame

(* A watch is served when the others, if they stop reading, unsubscribe,   *)
(* without faults (consumer.go, dispatch).                                 *)
WatchesAreServed == part = "watch" => OthersAreServed
=============================================================================
