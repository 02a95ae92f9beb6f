SPECIFICATION Spec
CONSTANTS
  plain = plain
  doubled = doubled
  single = single
  elsewhere = elsewhere
  n1 = n1
  n2 = n2
  Movers = {m1, m2}
  Sites = {s1, s2}
  Names = {n1, n2}
  Literals = {plain, doubled}
  Unwritable = {}
  Fallbacks <- NoDefaults
  Reads <- Escaped
  Host <- HostIsBare
  Unset = Unset
  None = None
  Serialised = TRUE
  EditsRace = FALSE
  Dangling = FALSE
  MaxCrashes = 1
  MaxFaults = 1
  MaxEdits = 0
SYMMETRY Symmetry
INVARIANTS TypeOK NoBlankPassword NoTempLeft
PROPERTIES AllOrNothing AtomicMoveSpec
