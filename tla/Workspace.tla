------------------------------ MODULE Workspace ------------------------------
(***************************************************************************)
(* The attested root's ordinary files and the people, editors and agents   *)
(* that change them at any moment.  A path names an inode; an inode has a  *)
(* kind, bytes and a modification stamp, and may carry several hard links, *)
(* one of which may be a private restore stage under .folderbase.          *)
(*                                                                         *)
(* None of this is Core's code: it is the environment that Core's reads,   *)
(* rechecks and no-clobber publications are written against.               *)
(***************************************************************************)
EXTENDS FolderbaseVersion

CONSTANTS
  Inodes,       \* physical identities the filesystem can hand out
  UserOps,      \* what this environment does: kinds of change, recycled inodes
  MaxEdits      \* bound: changes made to the workspace

ASSUME WorkspaceAssumption ==
  /\ None \notin Inodes
  /\ MaxEdits \in Nat

VARIABLES
  dir,          \* path -> inode, or None when the path is absent
  node,         \* inode -> kind, bytes and modification stamp
  ignored,      \* paths the effective ignore policy matches
  edits,        \* changes made so far; the next modification stamp
  slot          \* restore transaction -> its target version and private stage

workspaceVars == <<dir, node, ignored, edits>>

File == [kind: Kinds, data: Contents \cup {None}, stamp: Nat]

WorkspaceTypeOK ==
  /\ dir \in [Paths -> Inodes \cup {None}]
  /\ node \in [Inodes -> File]
  /\ ignored \subseteq Paths
  /\ edits \in 0..MaxEdits

Links(i) ==
  Cardinality({p \in Paths : dir[p] = i}) + Cardinality({k \in DOMAIN slot : slot[k].ino = i})

Unlinked(i) ==
  /\ \A p \in Paths : dir[p] # i
  /\ \A k \in DOMAIN slot : slot[k].ino # i

NeverUsed(i) == Unlinked(i) /\ node[i].stamp = 0

\* The inodes a new file may get.  A filesystem may hand out a deleted file's
\* inode again; where it does not, which unused inode it takes is immaterial.
Allocatable ==
  IF "recycle" \in UserOps THEN {i \in Inodes : Unlinked(i)}
  ELSE {i \in Inodes : NeverUsed(i) /\ i = CHOOSE j \in Inodes : NeverUsed(j)}

Live(p) == dir[p] # None
IsRegular(p) == Live(p) /\ node[dir[p]].kind = "regular_file"

Change(op) ==
  /\ op \in UserOps
  /\ edits < MaxEdits
  /\ edits' = edits + 1

New(p, kind, c) ==
  \E i \in Allocatable :
    /\ dir' = [dir EXCEPT ![p] = i]
    /\ node' = [node EXCEPT ![i] = [kind |-> kind, data |-> c, stamp |-> edits + 1]]
    /\ UNCHANGED ignored

UserCreate(p) ==
  /\ Change("create")
  /\ ~ Live(p)
  /\ \E c \in Contents : New(p, "regular_file", c)

UserMkdir(p) ==
  /\ Change("mkdir")
  /\ ~ Live(p)
  /\ New(p, "directory", None)

\* A write through the existing inode.
UserEdit(p) ==
  /\ Change("edit")
  /\ IsRegular(p)
  /\ \E c \in Contents :
       node' = [node EXCEPT ![dir[p]] =
                  [kind |-> "regular_file", data |-> c, stamp |-> edits + 1]]
  /\ UNCHANGED <<dir, ignored>>

\* An editor's atomic save: a new inode renamed over the path.
UserReplace(p) ==
  /\ Change("replace")
  /\ IsRegular(p)
  /\ \E c \in Contents : New(p, "regular_file", c)

UserDelete(p) ==
  /\ Change("delete")
  /\ Live(p)
  /\ dir' = [dir EXCEPT ![p] = None]
  /\ UNCHANGED <<node, ignored>>

\* A rename, which keeps the inode and its stamp and may replace a file.
UserMove(p, q) ==
  /\ Change("move")
  /\ p # q /\ Live(p)
  /\ ~ Live(q) \/ (IsRegular(p) /\ IsRegular(q) /\ dir[p] # dir[q])
  /\ dir' = [dir EXCEPT ![p] = None, ![q] = dir[p]]
  /\ UNCHANGED <<node, ignored>>

\* A second hard link to a regular file.
UserLink(p, q) ==
  /\ Change("link")
  /\ IsRegular(p) /\ ~ Live(q)
  /\ dir' = [dir EXCEPT ![q] = dir[p]]
  /\ UNCHANGED <<node, ignored>>

\* An edit of the ignore policy that starts or stops matching one path.
UserIgnore(p) ==
  /\ Change("ignore")
  /\ ignored' = IF p \in ignored THEN ignored \ {p} ELSE ignored \cup {p}
  /\ UNCHANGED <<dir, node>>

UserStep ==
  \/ \E p \in Paths : UserCreate(p)
  \/ \E p \in Paths : UserMkdir(p)
  \/ \E p \in Paths : UserEdit(p)
  \/ \E p \in Paths : UserReplace(p)
  \/ \E p \in Paths : UserDelete(p)
  \/ \E p, q \in Paths : UserMove(p, q)
  \/ \E p, q \in Paths : UserLink(p, q)
  \/ \E p \in Paths : UserIgnore(p)

WorkspaceInit ==
  /\ dir \in [Paths -> {None}]
  /\ node = [i \in Inodes |-> [kind |-> "regular_file", data |-> None, stamp |-> 0]]
  /\ ignored = {}
  /\ edits = 0
=============================================================================
