SPECIFICATION DeliverySpec
CHECK_DEADLOCK FALSE
CONSTANTS
  Version <- TheVersion
  MaxReferences = 4
  Callers = {"p1", "p2", "p3"}
  Operations = {"o1", "o2"}
  OperationOf <- TheOperationOf
  Packages <- ThePackages
  Indexes <- TheIndexes
  MinimumChunk = 2
  AverageChunk = 2
  MaximumChunk = 3
  Bits = 3
  Multiplier = 5
  MaxDescriptors = 4
  MaxObject = 8
  Receivers = {"r1", "r2"}
  Objects <- TheObjects
  Scenes <- TheScenes
INVARIANTS
  RootIsWhole
  DeliveredWhole
PROPERTIES
  DestinationsAreLeftAlone
  DeliveryCompletes
