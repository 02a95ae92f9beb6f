SPECIFICATION Spec
CONSTANTS
  short = short
  long = long
  Texts = {short, long}
  Width <- MCWidth
  None = None
  Handlers = {h1, h2}
  Keys = {k1, k2}
  NewKeys = {n1}
  Draw = Draw
  Patient = FALSE
  Moves = TRUE
  LostReads = FALSE
  MaxPresses = 3
  MaxEdits = 0
  MaxTimeouts = 0
SYMMETRY Symmetry
CHECK_DEADLOCK FALSE
INVARIANTS Exclusive KeptUntilTold
