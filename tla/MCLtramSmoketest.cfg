SPECIFICATION Spec
CONSTANTS
  LtFrames = {l1, l2}
  DramFrames = {d1, d2}
  NULL = NULL
  AllDefects = {"falls_back", "no_fence", "loses_freed", "bad_cells", "unmapped", "no_slab"}
  Machines <- EveryMachine
  BulkCounts <- BulkRange
  MaxOthers = 1
CHECK_DEADLOCK FALSE
INVARIANTS
  OneOwner
  LeakBoundedByFails
  VerdictSound
  NoFalseAlarm
