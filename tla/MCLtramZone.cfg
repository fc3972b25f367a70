SPECIFICATION Spec
CONSTANTS
  None = None
  Zero = Zero
  Procs = {p1, p2}
  Pages = {v1}
  LtFrames = {l1, l2, l3}
  DramFrames = {d1}
  CounterMod = 2
SYMMETRY Symmetry
INVARIANTS
  WrongZoneMeansBadVma
