SPECIFICATION Spec
CONSTANTS
  N = 5
  Gens = {g1, g2}
  NoFile = NoFile
  Torn = Torn
  FailOps <- NoFailures
  MayCrash = TRUE
  MaxFaults = 1
INVARIANT OldSetKept
