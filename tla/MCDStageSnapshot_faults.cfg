SPECIFICATION FairSpec
CONSTANTS
  Gens = {g1, g2}
  NoFile = NoFile
  Odd = Odd
  Mounts <- BothMounts
  MaxFaults = 4
INVARIANTS Explained ReportIsDurable KeepsAPair
PROPERTIES UnknownIsKept Converges
