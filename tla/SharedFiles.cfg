SPECIFICATION FilesSpec
CONSTANTS
  Apps = {a1, a2}
  Onboarders = {o1, o2}
  Registrars = {g1}
  Orchestrators = {d1}
  Recorders = {r1, r2, r3}
  Casts <- AllCasts
  ShippedFiles <- OneRuns
  Nothing = Nothing
  Absent = Absent
  Empty = Empty
  Garbled = Garbled
  MaxWorkers = 2
  MaxCommands = 1
  MaxKills = 1
  MaxLines = 3
  MaxAlerts = 1
  OldTimelines <- Timelines
  MaxRows = 3
  MaxStarts = 2
  Sims = {s1, s2}
  Nobodys = Nobodys
  Emptied = Emptied
  Muddled = Muddled
  LowBatches = 1
  Places <- ThreePlaces
  MaxSimKills = 1
  MaxRaises = 1
  Publishers = {p1, p2}
  Home = p1
  Topics = {t1, t2}
  Callbacks = {k1, k2}
  NoTopic = NoTopic
  BrokenLog = BrokenLog
  LogLimit = 2
  MaxMessages = 3
  MaxCutOff = 1
  MaxFailed = 1
  MaxRaised = 1
SYMMETRY FilesSymmetry
\* Bounded: processes, lines and restarts run out.
CHECK_DEADLOCK FALSE
INVARIANTS NamesAreGivenOnce FilesAreSound OverviewAgreesWithHistory PerceptionIsSound HealingIsSound SovereignBusIsSound
PROPERTY OnlyStaleStateIsLost
