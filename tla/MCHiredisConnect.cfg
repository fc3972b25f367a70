SPECIFICATION FairSpec
CONSTANTS
  MaxFd = 3
  MaxAddrs = 2
  Retries = 3
  MaxConnects = 2
CHECK_DEADLOCK FALSE
INVARIANTS
  OutcomeTrue
  DescriptorsAccounted
PROPERTIES
  ConnectReturns
