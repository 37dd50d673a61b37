SPECIFICATION ControlSpec
CONSTANTS
  Callers = {c1, c2}
  Curious = {c1}
  Settings <- SomeSettings
  Nothing = Nothing
  MaxFailures = 2
  MaxCount = 4
  Cooldown = 1
  Answers = {"restart", "rollback", "1", "flagged", "nested", "missing", "list", "garbled"}
  Confidences = {40, 50}
  Scores = {0, 50, 80}
  Counts = {5, 6}
  Services = {"web1"}
  Controllers = {"k1", "k2"}
  Threads = {"t1", "t2"}
  Nobody = "nobody"
  CooldownTime = 3
  ClientTimeout = 1
  StartTimes = {2}
  MaxStale = 1
  MaxStall = 1
  StopTime = 3
  MaxFaults = 2
CHECK_DEADLOCK FALSE
INVARIANT DecisionsAreSound
PROPERTIES BreakersHold RecoversWithTheService RestraintIsSound
PROPERTIES CooldownProtects CrashedServicesRecover RestartsDieOut
