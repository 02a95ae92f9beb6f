SPECIFICATION Spec
CONSTANTS
  short = short
  long = long
  Texts = {short, long}
  Width <- MCWidth
  None = None
  Handlers = {h1, h2}
  Keys = {k1}
  NewKeys = {}
  Draw = Draw
  Patient = FALSE
  Moves = TRUE
  LostReads = FALSE
  MaxPresses = 3
  MaxEdits = 1
  MaxTimeouts = 1
SYMMETRY Symmetry
CHECK_DEADLOCK FALSE
PROPERTIES LandsAsRecorded
