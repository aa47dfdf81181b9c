SPECIFICATION MCSpec
CONSTANTS
  Devices <- MCDevices
  Tasks <- MCTasks
  Parent <- MCParent
  Async <- MCAsync
  Phases <- MCPhases
  Generations = 2
  Prepares = 2
  MaxFaults = 1
  Retries = 3
  MaxSwitches = 2
INVARIANTS CensusIsCurrent PairedOmitsNothing PairedIsReal CleanIsPaired
PROPERTY CycleEnds
CHECK_DEADLOCK FALSE
