SPECIFICATION Spec
CONSTANTS
  Procs = {p1, p2, p3}
  Calls = {c1, c2}
  None = None
  MaxRestarts = 0
CHECK_DEADLOCK FALSE
INVARIANTS OneCore
SYMMETRY Symmetry
