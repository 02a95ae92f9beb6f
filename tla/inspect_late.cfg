SPECIFICATION Spec
CONSTANTS
  Files = {f1, f2}
  Profiles = {debug}
  web = web
  Stack = Stack
  Nodes <- MCNodes
  Follow <- MCFollow
  Inspectors = {i1, i2}
  Drawn = Drawn
  None = None
  MaxActs = 2
  MaxSwitches = 0
  MaxChanges = 0
  MaxFails = 0
INVARIANT PaneShowsSelection
CHECK_DEADLOCK FALSE
