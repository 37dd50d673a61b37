\* Three requests, the loop thread, a signal and one restart that may resume.
SPECIFICATION Spec
CONSTANTS
  r1 = r1
  r2 = r2
  r3 = r3
  Requests = {r1, r2, r3}
  Loop = Loop
  Nobody = Nobody
  PerceptionOutcomes = {"nothing", "observation", "error"}
  ReusesAgentId = TRUE
  MaxRestarts = 1
SYMMETRY RequestSymmetry
INVARIANTS TypeOK AtomicCycle FailureExecutesNothing HistoryMatchesExecution
PROPERTY SerialService
