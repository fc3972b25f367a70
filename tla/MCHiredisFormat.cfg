SPECIFICATION Spec
CONSTANTS
  Formats <- AllFormats
  ArgLens = {0, 9, 1000, 10000}
  MaxArgc = 3
  FormatRoom = 9
CHECK_DEADLOCK FALSE
INVARIANTS
  CommandRight
  NothingLeaked
