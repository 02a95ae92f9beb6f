SPECIFICATION Spec
CONSTANTS
  Askers = {a, b}
  Questions <- AskMariadb
  Releases <- SixDigits
  Off = FALSE
  Failures = {"offline", "rate-limited"}
  Page = 3
  TTL = 2
  Timeout = 1
  MaxEntries = 2
  MaxTime = 4
  MaxAsks = 2
INVARIANT CurrentIsNewest
CHECK_DEADLOCK FALSE
