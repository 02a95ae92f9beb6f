SPECIFICATION Spec
CONSTANTS
  short = short
  long = long
  Texts = {short, long}
  Width <- MCWidth
  None = None
  Handlers = {h1}
  Keys = {k1, k2}
  NewKeys = {n1}
  Draw = Draw
  Patient = TRUE
  Moves = TRUE
  LostReads = FALSE
  MaxPresses = 3
  MaxEdits = 1
  MaxTimeouts = 1
SYMMETRY Symmetry
CHECK_DEADLOCK FALSE
INVARIANTS KeptUntilTold StagesAreShown
PROPERTIES StripIsWhatLands
