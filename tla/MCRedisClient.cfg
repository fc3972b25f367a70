SPECIFICATION FairSpec
CONSTANTS
  Threads = {t1, t2}
  MaxCalls = 3
CHECK_DEADLOCK FALSE
INVARIANTS
  OwnReply
  UpdatesAnswered
PROPERTIES
  CallsReturn
