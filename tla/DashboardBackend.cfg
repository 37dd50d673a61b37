SPECIFICATION BackendSpec

CONSTANTS
  l1 = l1
  l2 = l2
  l3 = l3
  Links = {l1, l2, l3}
  DemoLinks <- TwoLinks
  Coverage <- SomeCoverage
  Handlers = {t1, t2}
  EventLimit = 3
  MaxRequests = 4
  Callers = {t1, t2}
  Requests <- Asking
  Services <- Weathers
  RecentLimit = 2
  AutoLimit = 2
  BridgeLimit = 3
  MaxCalls = 4
  MaxCycles = 3

SYMMETRY ThreadSymmetry


\* Bounded: requests run out.
CHECK_DEADLOCK FALSE
INVARIANTS RegistryIsConsistent ReportsAreConsistent
PROPERTIES ChangesOfOthersSurvive AnswersAreTrue StatusFollowsService
