SPECIFICATION Spec
CONSTANTS
  None = None
  Paths = {a, b}
  Contents = {c1, c2}
  Inodes = {i1, i2, i3}
  Procs = {s1}
  RestorePaths = {}
  UserOps = {"recycle", "create", "mkdir", "edit", "replace", "delete", "move", "ignore"}
  CrashPoints = {"build", "cas", "identities", "cleanup", "assign", "recover_cleanup"}
  MaxEdits = 3
  MaxTxns = 6
  MaxCrashes = 1
  MaxAuthorities = 1
SYMMETRY AlikeWithInodes
INVARIANTS
  TypeOK
  HeadComplete
  NothingVanishes
  PathContinuity
  HiddenIsNotDeleted
CHECK_DEADLOCK FALSE
