SPECIFICATION Spec
CONSTANTS
  Readers = {r1}
  Writers = {w1, w2}
  Lookups = {n1}
  Controls = {c1}
  Silent = {n1}
  MayPanic = {r1, w1, w2, n1}
  MaxBad = 1
  Loop = Loop
  None = None
  Shutdown = Shutdown
  Null = Null
SYMMETRY Symmetry
INVARIANTS WritesAlone WellFramed OneAnswer NothingLost
