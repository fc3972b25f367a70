SPECIFICATION Spec
CONSTANTS
  None = None
  Zero = Zero
  Procs = {p1, p2}
  Pages = {v1, v2}
  LtFrames = {l1}
  DramFrames = {d1, d2}
  CounterMod = 3
SYMMETRY Symmetry
INVARIANTS
  LastStoreVisible
  OneMigrationPerFolio
  CountersAgree
PROPERTIES
  LtramNeverWritten
  DramPagesStay
