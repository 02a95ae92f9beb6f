SPECIFICATION RerunSpec
CONSTANTS
  plain = plain
  doubled = doubled
  single = single
  elsewhere = elsewhere
  n1 = n1
  n2 = n2
  Movers = {m1}
  Sites = {s1, s2}
  Names = {n1, n2}
  Literals = {plain, doubled, multi}
  Unwritable = {multi}
  Fallbacks <- DefaultN1
  Reads <- Escaped
  Host <- HostSetsN2
  Unset = Unset
  None = None
  Serialised = TRUE
  EditsRace = FALSE
  Dangling = FALSE
  MaxCrashes = 1
  MaxFaults = 1
  MaxEdits = 1
PROPERTIES WritesWhatWasShown RestKeepsMeaning Converges
