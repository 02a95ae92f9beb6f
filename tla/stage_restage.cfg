SPECIFICATION Spec
CONSTANTS
  short = short
  long = long
  Texts = {short, long}
  Width <- MCWidth
  None = None
  Handlers = {h1}
  Keys = {k1, k2}
  NewKeys = {n1}
  Draw = Draw
  Patient = TRUE
  Moves = FALSE
  LostReads = FALSE
  MaxPresses = 3
  MaxEdits = 0
  MaxTimeouts = 0
CHECK_DEADLOCK FALSE
PROPERTIES AttemptKeepsSet
