--------------------------- MODULE MCFolderbaseSeal ---------------------------
(* Small instances of FolderbaseSeal for TLC. *)
EXTENDS FolderbaseSeal, TLC

\* What a run may exchange for one another: processes and contents always,
\* inodes where the filesystem may hand out any unlinked one.  Paths are never
\* exchanged, since an assignment chooses among them.
Alike == Permutations(Procs) \cup Permutations(Contents)
AlikeWithInodes == Alike \cup Permutations(Inodes)
===============================================================================
