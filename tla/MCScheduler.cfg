SPECIFICATION FairSpec
CONSTANTS
  Jobs = {j1, j2}
  Forms <- EveryKind
  Leads = {0, 1}
  Period = 2
  Interval = 2
  Grace = 1
  MaxTime = 4
  FaultSets <- SomeFaults
INVARIANTS DeletedStays AcceptedDurable MemoryIsFile
PROPERTIES OccurrenceOnce DueFires
CHECK_DEADLOCK FALSE
