SPECIFICATION BusesSpec
CONSTANTS
  Runs = {r1, r2}
  InboxItems = {i1}
  Mail = {m1}
  Relayed = {i1}
  RedisSubscribers = {"adapter"}
  Broken = Broken
  MaxWithRedis = 1
  MaxWithout = 2
  MaxKills = 1
  Patterns = {"all", "some"}
  Events = {"ours", "theirs"}
  Matching <- Overlapping
  Ours = {"ours"}
  HistoryLimit = 1
  MaxListeners = 2
  MaxSubscriptions = 2
  MaxTroubles = 2
INVARIANTS RelayIsSound DispatchIsSound
PROPERTY EventsReachCallbacks
SYMMETRY RelaySymmetry
\* Bounded: messages, events and listeners run out.
CHECK_DEADLOCK FALSE
