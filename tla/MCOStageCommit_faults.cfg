SPECIFICATION FairSpec
CONSTANTS
  N = 5
  Gens = {g1, g2}
  NoFile = NoFile
  Torn = Torn
  FailOps <- AllFailures
  MayCrash = TRUE
  MaxFaults = 3
INVARIANTS SettledIsWhole HarmlessKeepsOldSet
PROPERTIES KeepsGeneration SceneIsPreserved Converges
