SPECIFICATION Spec
CONSTANTS
  Vocabulary <- MCVocabulary
  FlagNames <- MCFlagNames
  NotNames <- MCNotNames
  NotBare <- MCNotBare
  VersionName <- MCVersionName
  Sources <- MCSources
  Images <- MCImages
  Bodies <- MCBodies
  Texts <- MCTexts
  StageNames <- MCStageNames
  ArgNames <- MCArgNames
  MaxEdits = 2
INVARIANTS EditIsLocal BuildsTheSame
CHECK_DEADLOCK FALSE
