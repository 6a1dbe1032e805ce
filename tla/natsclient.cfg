\* Two watches; subscriptions in pairs under failing calls; three subscriptions in the trie.
CONSTANTS
  s1 = s1
  s2 = s2
  o1 = o1
  a1 = a1
  Subs = {s1, s2}
  WatchOf <- AreaAndAll
  None = None
  Events <- TwoEvents
  FaultyEvent <- GeofenceEntered
  InboxCap = 1
  OutCap = 1
  MaxEvents = 2
  MaxLostAcks = 1
  MaxCrashes = 1
  c1 = c1
  c2 = c2
  c3 = c3
  WrapperSubs = {c1, c2, c3}
  Together <- SubjectTwiceOrPattern
  SubPatterns <- PatternAndSubject
  MessageSubjects <- TwoSubjects
  MaxDispatch = 3
  MaxServers = 2
  MaxDrops = 1
  MaxFaults = 1
  Ids = {i1, i2, i3}
  Tokens = {"a", "b"}
  MaxTokens = 2
SPECIFICATION ClientSpec
\* Behaviours end when everything is unsubscribed or closed.
CHECK_DEADLOCK FALSE
INVARIANTS
  NoSendOnClosed
  ClosedIsFinal
  FilterCoversRefs
  MatchFindsSubscriptions
  FilterMeansTheSame
PROPERTIES
  WatchesAreServed
  SubscribeReturns
