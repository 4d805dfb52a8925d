SPECIFICATION FairSpec
CONSTANTS
  None = None
  Paths = {a}
  Contents = {c1, c2}
  Inodes = {i1, i2, i3}
  Procs = {s1}
  RestorePaths = {a}
  UserOps = {"create", "edit", "replace", "delete", "ignore"}
  CrashPoints = {"build", "cas", "identities", "cleanup", "recover_cleanup", "publish", "r_install", "r_cas", "verify", "project", "receipt", "rollback", "failed", "retain", "modified", "authority", "retire_intent", "retire_receipt"}
  MaxEdits = 3
  MaxTxns = 6
  MaxCrashes = 1
  MaxAuthorities = 2
PROPERTIES
  EventuallySealed
  RestoreResolves
CHECK_DEADLOCK FALSE
