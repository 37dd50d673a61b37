\* SHUTTING_DOWN is left again.
SPECIFICATION FairSpec
CONSTANTS
  r1 = r1
  Requests = {r1}
  Loop = Loop
  Nobody = Nobody
  PerceptionOutcomes = {"nothing"}
  ReusesAgentId = FALSE
  MaxRestarts = 0
PROPERTY ShuttingDownIsTerminal
