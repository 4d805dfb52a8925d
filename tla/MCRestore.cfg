SPECIFICATION Spec
CONSTANTS
  None = None
  Paths = {a, b}
  Contents = {c1, c2}
  Inodes = {i1, i2, i3}
  Procs = {s1}
  RestorePaths = {a}
  UserOps = {"create", "edit", "delete", "move", "link"}
  CrashPoints = {"stage", "stage_copy", "publish", "r_install", "r_cas", "verify", "project", "receipt", "rollback", "failed", "retain", "modified", "authority", "retire_intent", "retire_receipt"}
  MaxEdits = 4
  MaxTxns = 6
  MaxCrashes = 1
  MaxAuthorities = 2
SYMMETRY Alike
INVARIANTS
  RestoreAnchored
  RestoresSealedBytes
PROPERTIES
  NoClobber
  ImplementsHistory
CHECK_DEADLOCK FALSE
