SPECIFICATION PoolSpec
CONSTANTS
  Deploys = {"deploy_a"}
  Scalings = {}
  Restarts = {"restart_c"}
  Nothing = "nothing"
  Workers = 2
  Envs = {"dev", "prod"}
  Destinations <- TwoDestinations
  MaxStarts = 2
  MaxStops = 2
  MaxFaults = 1
  MinWorkers = 1
  MaxWorkers = 3
  UpCooldown = 2
  DownCooldown = 4
  MaxScalings = 3
\* Bounded: starts, jobs and faults run out.
CHECK_DEADLOCK FALSE
INVARIANTS DeploymentsAreAccountedFor ScalerIsSound
PROPERTIES JobQueueService WorkersEnd WaitingWorkersTakeJobs
