SPECIFICATION Spec
CONSTANTS
  t1 = t1
  t2 = t2
  k1 = k1
  k2 = k2
  f1 = f1
  f2 = f2
  NULL = NULL
  Threads = {t1, t2}
  Keys = {k1, k2}
  Fields = {f1, f2}
  Tabs = {n1, n2}
  Strs = {s1, s2, s3, s4, s5, s6}
  AllFields <- BothFields
  FieldLists <- Lists
  Workloads <- SafeWorkloads
  ScanLen = 2
SYMMETRY Symmetry
INVARIANTS
  MemorySafe
  NothingLeaked
PROPERTIES
  ImplementsRecordStore
