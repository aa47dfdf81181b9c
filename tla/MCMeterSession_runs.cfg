SPECIFICATION FairSpec
CONSTANTS
  Slots = 2
  Batch = 2
  Burst = 2
  QueueBlocks = 1
  EndMark = 2
  Cap = 4
  MaxEvents = 2
  MaxSessions = 2
INVARIANTS ReplayedIsComplete VerdictIsDurable
PROPERTY Terminates
CHECK_DEADLOCK FALSE
