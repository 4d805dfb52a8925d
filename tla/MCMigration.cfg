SPECIFICATION Spec
CONSTANTS
  None = None
  a = a  n = n  d = d  da = da  env = env
  Paths <- MCPaths
  Dirs <- MCDirs
  Parent <- MCParent
  Initial <- MCInitial
  EnvPaths <- MCEnv
  Programs <- MCPrograms
  MaxSteps = 2
  MaxConflicts = 1
  MaxCrashes = 1
  MaxUserActions = 2
INVARIANTS NoByteLost EndsAsPromised StrandedOnlyByStage
PROPERTIES ComesToAnEnd
CHECK_DEADLOCK FALSE
