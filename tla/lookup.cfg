SPECIFICATION Spec
CONSTANTS
  Askers = {a, b}
  Questions <- MCQuestions
  Releases <- MCReleases
  Off = FALSE
  Failures = {"rate-limited"}
  Page = 3
  TTL = 2
  Timeout = 1
  MaxEntries = 2
  MaxTime = 4
  MaxAsks = 2
SYMMETRY Symmetric
INVARIANTS
  CacheBounded
  AnswersHold
CHECK_DEADLOCK FALSE
