SPECIFICATION FairSpec
CONSTANTS
  None = None
  Zero = Zero
  Procs = {p1, p2}
  Pages = {v1}
  LtFrames = {l1}
  DramFrames = {d1}
  CounterMod = 2
PROPERTIES
  StoresComplete
