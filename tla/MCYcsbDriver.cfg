SPECIFICATION FairSpec
CONSTANTS
  Threads = {t1, t2}
  RecordCount = 4
  OperationCount = 4
  InsertStart = 0
  NewKeys = 2
  Distributions = {"uniform", "zipfian", "latest"}
  Operations = {"INSERT", "READ", "UPDATE", "SCAN", "READMODIFYWRITE"}
  FieldCount = 2
  ReadAllFields = TRUE
  WriteAllFields = FALSE
  Hash <- Scattered
  NoKey = NoKey
CHECK_DEADLOCK FALSE
INVARIANTS
  SequenceKeysUnique
  TransactionKeysInserted
  FiguresTrue
PROPERTIES
  Terminates
