SPECIFICATION FairSpec
CONSTANTS
  InitTrees <- AnyTree
  MayDrift = TRUE
  MayCrash = TRUE
  FailOps <- AllFailures
  MaxFaults = 4
INVARIANTS TreeSurvives ScanExplainsScene
PROPERTY Converges
