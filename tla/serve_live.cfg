SPECIFICATION LiveSpec
CONSTANTS
  Readers = {r1}
  Writers = {w1}
  Lookups = {n1}
  Controls = {}
  Silent = {}
  MayPanic = {w1}
  MaxBad = 0
  Loop = Loop
  None = None
  Shutdown = Shutdown
  Null = Null
PROPERTIES LookupsDelayNobody EndsByItself
