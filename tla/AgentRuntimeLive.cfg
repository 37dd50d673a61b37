\* Liveness under the fairness of FairSpec, no symmetry.
SPECIFICATION FairSpec
CONSTANTS
  r1 = r1
  r2 = r2
  Requests = {r1, r2}
  Loop = Loop
  Nobody = Nobody
  PerceptionOutcomes = {"nothing", "observation"}
  ReusesAgentId = FALSE
  MaxRestarts = 0
PROPERTIES EveryRequestReturns ShutdownSavesState
