SPECIFICATION MCSpec
CONSTANTS
  NCpus = 2
  Slots = 1
  Burst = 2
  CpuBurst = 1
  Sessions = 2
  MaxEvents = 2
  MaxTicks = 1
  MaxToggles = 2
  Posts = 2
  Budget = 20
  BlockPackets = 6
  MaxFaults = 1
INVARIANTS CompleteMeansAll CleanIsComplete AnnouncedIsDurable UploadIsKept
PROPERTY ExitEnds
CHECK_DEADLOCK FALSE
