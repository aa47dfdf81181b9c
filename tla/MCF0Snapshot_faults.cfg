SPECIFICATION FairSpec
CONSTANTS
  Gens = {g1, g2}
  NoFile = NoFile
  Odd = Odd
  Blank = Blank
  MaxFaults <- ThreeFaults
INVARIANT EvidenceKept
PROPERTY Converges
