SPECIFICATION Spec
CONSTANTS
  Projects <- MCProjects
  Size = 4
  MaxFixes = 1
  SecretNames <- MCSecretNames
  SecretValues <- MCSecretValues
  HostPaths <- MCHostPaths
  PortsOf <- MCPortsOf
  Misread <- MCMisread
  Explicit <- MCExplicit
  Host <- MCHost
CHECK_DEADLOCK FALSE
INVARIANTS LastWordWins OriginsSpeakTrue ExtendsSettles ProfilesOnlyHide LayersOrder FixOwnsWhatItNames FixAnswersIt TypedIsSeen DeclaredStands
PROPERTIES Condenses
