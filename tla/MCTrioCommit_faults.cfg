SPECIFICATION FairSpec
CONSTANTS
  Gens = {g1, g2}
  NoFile = NoFile
  FailOps <- AllFailures
  MayCrash = TRUE
  MaxFaults = 4
INVARIANTS SettledIsWhole RecoveryExplains
PROPERTIES KeepsGeneration Converges
