------------------------------ MODULE LocalState ------------------------------
(***************************************************************************)
(* The durable private state under .folderbase that capture and restore    *)
(* share, the exclusive transaction lock that orders their writers, and    *)
(* the read-only planning observation that both start from.                *)
(*                                                                         *)
(* Everything but plan, built, wanted, holder and pc survives a crash.     *)
(***************************************************************************)
EXTENDS Workspace

CONSTANTS
  Procs,            \* processes that hold a FolderbaseVersionStore
  RestorePaths,     \* paths somebody asks to restore
  CrashPoints,      \* steps before which a process may die
  MaxTxns,          \* bound: transactions assigned
  MaxCrashes,       \* bound: process deaths
  MaxAuthorities    \* MAX_RESTORE_AUTHORITIES, 4096 in the code

ASSUME LocalStateAssumption ==
  /\ None \notin Procs
  /\ None \notin Paths
  /\ None \notin Nat
  /\ RestorePaths \subseteq Paths
  /\ MaxTxns \in Nat /\ MaxCrashes \in Nat /\ MaxAuthorities \in Nat

VARIABLES
  head,         \* Local Head: the version it names and the authority it binds
  versions,     \* installed Folderbase Versions, append-only
  objvers,      \* installed Object Versions and the bytes they seal, append-only
  identity,     \* Object -> inode, the capture identity records
  issued,       \* transactions assigned so far; the next fresh identifier
  journal,      \* the active capture transaction
  active,       \* the active restore transaction
  recovery,     \* the restore cleanup recovery receipt
  authority,    \* restore transactions that retained a restore authority record
  plan,         \* process -> the CapturePlan it holds
  built,        \* path -> the binding the lock holder built from the bytes it read
  wanted,       \* the path the lock holder was asked to restore
  holder,       \* who holds the transaction lock
  pc,           \* the lock holder's next step
  crashes       \* process deaths so far

store == <<head, versions, objvers, identity, issued>>
restoreState == <<active, recovery, authority, slot>>
volatile == <<plan, built, wanted>>
lock == <<holder, pc>>

localVars == <<store, journal, restoreState, volatile, lock, crashes>>

HeadAuthorities == {"capture_transaction_v1", "version_derived_v1"}
Head == [version: Nat, authority: HeadAuthorities]
HeadVersion(h) == IF h = None THEN None ELSE h.version

\* A restore transaction identifier is derived from its parent version and path.
RestoreKeys == Nat \X Paths

Dispositions == {"committed", "modified", "committed_modified"}

-----------------------------------------------------------------------------
(* Planning: what one metadata-only scan of the workspace observes.        *)

\* Authority records that prove a private link of inode i at path p.
Authorities(p, i) == {k \in authority : k[2] = p /\ slot[k].ino = i}

\* A regular file is planned when it has one visible link and exactly the
\* private links its path's authorities prove; any other is a hard-link exclusion.
LinksProved(p) == Links(dir[p]) = Cardinality(Authorities(p, dir[p])) + 1
Excluded(p) == IsRegular(p) /\ p \notin ignored /\ ~ LinksProved(p)

Observation(p) ==
  [ino |-> dir[p], stamp |-> node[dir[p]].stamp, kind |-> node[dir[p]].kind,
   links |-> IF IsRegular(p) THEN Authorities(p, dir[p]) ELSE {}]

CurrentPlan ==
  [head     |-> head,
   entries  |-> [p \in {q \in Paths : Live(q) /\ q \notin ignored /\ ~ Excluded(q)} |->
                   Observation(p)],
   policy   |-> ignored,
   ignored  |-> {p \in ignored : Live(p)},
   excluded |-> {p \in Paths : Excluded(p)}]

\* A regular entry still names the planned inode, bytes and exact link set.
Fresh(p, entry) ==
  /\ dir[p] = entry.ino
  /\ node[entry.ino].stamp = entry.stamp
  /\ LinksProved(p)
  /\ entry.links = Authorities(p, entry.ino)

-----------------------------------------------------------------------------
(* The transaction lock.  The operating system drops it with its process.  *)

Acquire(p, step) ==
  /\ holder = None
  /\ holder' = p
  /\ pc' = step

Step(from, to) ==
  /\ pc = from
  /\ pc' = to
  /\ UNCHANGED holder

\* Mutant: the next holder starts where this one stopped.
ReturnKeepingStep ==
  /\ holder' = None
  /\ UNCHANGED pc
  /\ plan' = [q \in Procs |-> IF q = holder THEN None ELSE plan[q]]
  /\ built' = EmptyFunction
  /\ wanted' = None

\* Return to the caller: the lock is dropped and nothing computed survives.
Return ==
  /\ holder' = None
  /\ pc' = "idle"
  /\ plan' = [q \in Procs |-> IF q = holder THEN None ELSE plan[q]]
  /\ built' = EmptyFunction
  /\ wanted' = None

\* The process dies holding the lock: durable state stays as it is.
Crash ==
  /\ holder # None
  /\ pc \in CrashPoints
  /\ crashes < MaxCrashes
  /\ crashes' = crashes + 1
  /\ Return
  /\ UNCHANGED <<workspaceVars, store, journal, restoreState>>
=============================================================================
