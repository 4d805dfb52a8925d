SPECIFICATION FairSpec
CONSTANTS
  textA = textA  textB = textB  textC = textC  None = None  Torn = Torn
  Paths = {1, 2, 3}
  Contents = {textA, textB, textC}
  Shared = {1, 2}
  ChangeSets = {1}
  Procs = {1, 2}
  AgentContents = {textB}
  UserContents = {textC}
  InitialFiles = {1}
  InitialContent = textA
  MaxAgentChanges = 2
  MaxEdits = 1
  MaxCaptures = 2
  MaxCrashes = 1
CHECK_DEADLOCK FALSE
INVARIANTS MergeIsUnion ProjectionsFollowHead
PROPERTIES EditsSurviveApply ApplyResolves
