SPECIFICATION Spec

CONSTANTS
  a1 = a1
  a2 = a2
  restart = restart
  noop = noop
  Apps <- TwoApps
  Decisions = Decisions
  DecisionKinds <- TwoKinds
  MaxDecisions = 3
  MaxStatesPerApp = 1
  Lookbacks = {0, 2, 3}
  StatusLookback = 2
  StatusWindow = 3
  Nothing = Nothing
  Absent = Absent
  Torn = Torn
  MaxEvents = 4
  MaxRestarts = 1

\* Bounded: records and restarts run out.
CHECK_DEADLOCK FALSE
INVARIANTS MemoryIsAWindow FileIsAnEarlierMemory RecollectionsAreRight
