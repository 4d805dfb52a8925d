SPECIFICATION FairLifecycleSpec
CONSTANTS
  None = None
  u1 = u1
  u2 = u2
  s1 = s1
  o1 = o1
  i1 = i1
  i2 = i2
  e1 = e1
  e2 = e2
  Agents = {u1, u2, s1, o1, i1, i2, e1, e2}
  Upgraders = {u1, u2}
  Sealers = {s1}
  Observers = {o1}
  Starters = {i1, i2}
  Expanders = {e1, e2}
  Folders = {p, q}
  MaxManifestEdits = 2
  MaxHeads = 1
  MaxInstances = 2
  MaxWorkspaceEdits = 1
  MaxJournalEvents = 2
  MaxClock = 2
  PathOrder <- MCPathOrder
  PeoplePaths <- MCPeoplePaths
  ReservedKeys <- MCReservedKeys
  AdapterPaths <- MCAdapterPaths
  StartTemplates <- MCStartTemplates
  StartAnswers <- MCAnswers
  Offers <- MCOffers
  Answers <- MCAnswers
  Origins <- MCOrigins
  Teams <- MCTeams
INVARIANTS PeoplesWorkSurvives ProofsFollowFolders HistoryHolds
PROPERTIES UpgradeExcludesOthers UpgradeResolves
CHECK_DEADLOCK FALSE
