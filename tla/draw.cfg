SPECIFICATION Spec
CONSTANTS
  Files = {f1, f2}
  Profiles = {debug}
  web = web
  Stack = Stack
  Nodes <- MCNodes
  Follow <- MCFollow
  Inspectors = {i1, i2}
  Drawn = Drawn
  None = None
  MaxActs = 2
  MaxSwitches = 1
  MaxChanges = 1
  MaxFails = 1
INVARIANTS ViewKept ScreenAgrees
CHECK_DEADLOCK FALSE
