SPECIFICATION Spec
CONSTANTS
  None = None
  Paths = {a, b}
  Contents = {c1, c2}
  Inodes = {i1, i2, i3}
  Procs = {s1, s2}
  RestorePaths = {}
  UserOps = {"create", "edit", "replace", "move"}
  CrashPoints = {"build", "cas", "identities", "cleanup"}
  MaxEdits = 2
  MaxTxns = 6
  MaxCrashes = 1
  MaxAuthorities = 1
SYMMETRY Alike
INVARIANT
  JournalAnchored
PROPERTY
  SealedAsObserved
CHECK_DEADLOCK FALSE
