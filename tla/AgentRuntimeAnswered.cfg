\* A decision of the service ends the cycle with an error.
SPECIFICATION FairSpec
CONSTANTS
  r1 = r1
  Requests = {r1}
  Loop = Loop
  Nobody = Nobody
  PerceptionOutcomes = {"nothing"}
  ReusesAgentId = FALSE
  MaxRestarts = 0
INVARIANT AnsweredDecisionsAreActedOn
