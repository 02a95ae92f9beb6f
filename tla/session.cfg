SPECIFICATION LiveSpec
CONSTANTS
  Procs = {p1, p2, p3}
  Calls = {c1, c2}
  None = None
  MaxRestarts = 2
CHECK_DEADLOCK FALSE
INVARIANTS RetryGetsFresh OneStart NoneWaitsOnTheDead
PROPERTIES OrphanedByALateExit SupersededGoes CallsEnd
