------------------------- MODULE FolderbaseSealProofs -------------------------
(***************************************************************************)
(* Safety of capture and restore, for every set of paths, contents, inodes *)
(* and processes and for every bound: types are kept, the two transactions *)
(* exclude each other, each can always tell whether it committed, Core     *)
(* never writes over what a path names, and both implement VersionHistory. *)
(* Each invariant is strengthened by what the lock holder's step says, and *)
(* rests on the type invariant.                                            *)
(***************************************************************************)
EXTENDS FolderbaseSeal, TLAPS

-----------------------------------------------------------------------------
(* Types.  The type invariant is not inductive alone: a step may read the  *)
(* version a Head names, the plan the lock holder captured or the journal  *)
(* it wrote, so it adds which of them are there at which step.             *)

\* TypeOK with every record a member of its set, in the groups of variables that
\* a step changes or keeps together.
StoreTypeOK ==
  /\ head \in OptionalHead
  /\ DOMAIN versions \subseteq Nat /\ versions \in [DOMAIN versions -> Version]
  /\ objvers \in PartialFunctions(Ids, Contents \cup {None})
  /\ identity \in PartialFunctions(Ids, Inodes)
  /\ issued \in 0..MaxTxns

JournalTypeOK == journal \in CaptureTransaction \cup {None}

RestoreTypeOK ==
  /\ slot \in PartialFunctions(RestoreKeys, Slot)
  /\ active \in RestoreTransaction \cup {None}
  /\ recovery \in CleanupReceipt \cup {None}
  /\ authority \subseteq RestoreKeys

VolatileTypeOK ==
  /\ plan \in [Procs -> CapturePlan \cup {None}]
  /\ built \in PartialFunctions(Paths, Binding)
  /\ wanted \in Paths \cup {None}

LockTypeOK ==
  /\ holder \in Procs \cup {None}
  /\ pc \in CaptureSteps \cup RestoreSteps \cup {"idle"}
  /\ pc = "idle" <=> holder = None
  /\ crashes \in 0..MaxCrashes

Typed ==
  /\ WorkspaceTypeOK /\ StoreTypeOK /\ JournalTypeOK
  /\ RestoreTypeOK /\ VolatileTypeOK /\ LockTypeOK

-----------------------------------------------------------------------------
(* Versions.                                                               *)

\* A partial function from S to T is a function from a subset of S to T.
LEMMA PartialFunctionsAre ==
  \A S, T, f : f \in PartialFunctions(S, T) <=> DOMAIN f \subseteq S /\ f \in [DOMAIN f -> T]
BY DEF PartialFunctions

\* Binding one more key of S to a member of T keeps a partial function one.
LEMMA PutPartial ==
  ASSUME NEW S, NEW T, NEW f, f \in PartialFunctions(S, T), NEW k \in S, NEW v \in T
  PROVE  Put(f, k, v) \in PartialFunctions(S, T)
BY PartialFunctionsAre DEF Put

\* The parent of a first capture is a version.
LEMMA EmptyIsVersion == EmptyVersion \in Version
BY PartialFunctionsAre DEF Version, EmptyVersion, EmptyFunction

\* The version a restore derives is a version when its parent is one.
LEMMA RestoredIsVersion ==
  ASSUME NEW v, v \in Version, NEW id \in Nat, NEW p \in Paths, NEW b \in Binding
  PROVE  RestoredVersion(id, v, p, b) \in Version
<1> DEFINE w == RestoredVersion(id, v, p, b)
<1>1. w.bindings \in PartialFunctions(Paths, Binding)
  BY PutPartial DEF Version, RestoredVersion
<1>2. w.tombstones \in PartialFunctions(Paths, TombstoneRecord)
  BY PartialFunctionsAre DEF Version, RestoredVersion
<1>3. QED
  BY <1>1, <1>2 DEF Version, RestoredVersion

\* The installed versions stay versions when one more is installed.
LEMMA InstallKeepsVersions ==
  ASSUME DOMAIN versions \subseteq Nat, versions \in [DOMAIN versions -> Version],
         NEW n \in Nat, NEW v, v \in Version
  PROVE  /\ DOMAIN Put(versions, n, v) = DOMAIN versions \cup {n}
         /\ DOMAIN Put(versions, n, v) \subseteq Nat
         /\ Put(versions, n, v) \in [DOMAIN Put(versions, n, v) -> Version]
BY DEF Put

-----------------------------------------------------------------------------
(* Plans and capture transactions.                                         *)

\* What one scan of the workspace observes is a plan.
LEMMA CurrentPlanIsPlan ==
  ASSUME WorkspaceTypeOK, head \in OptionalHead, authority \subseteq RestoreKeys
  PROVE  CurrentPlan \in CapturePlan
<1>1. ASSUME NEW p \in Paths, Live(p)
      PROVE  Observation(p) \in PlanEntry
  <2>1. dir[p] \in Inodes /\ node[dir[p]] \in File
    BY <1>1 DEF WorkspaceTypeOK, Live
  <2>2. Authorities(p, dir[p]) \subseteq RestoreKeys
    BY DEF Authorities
  <2>3. QED
    BY <2>1, <2>2 DEF Observation, PlanEntry, File
<1>2. CurrentPlan.entries \in PartialFunctions(Paths, PlanEntry)
  BY <1>1, PartialFunctionsAre DEF CurrentPlan
<1>3. QED
  BY <1>2 DEF CapturePlan, CurrentPlan, WorkspaceTypeOK

\* What a parent recorded is a version, at genesis too.
LEMMA PriorIsVersion ==
  ASSUME StoreTypeOK, NEW h \in OptionalHead, h # None => h.version \in DOMAIN versions
  PROVE  PriorOf(h) \in Version
BY EmptyIsVersion DEF PriorOf, StoreTypeOK

\* An assignment takes its Object from the one prior binding it continues, or
\* mints one.
LEMMA AssignmentTyped ==
  ASSUME NEW prior, prior \in Version, NEW n \in Nat, NEW p \in Paths, NEW entry \in PlanEntry
  PROVE  Assignment(n, prior, p, entry) \in CaptureAssignment
<1> DEFINE found == PriorBindings(prior, p, entry)
           parent == prior.bindings[CHOOSE q \in found : TRUE]
<1>1. found \subseteq DOMAIN prior.bindings
  BY DEF PriorBindings
<1>2. found # {} => parent \in Binding
  BY <1>1, PartialFunctionsAre DEF Version
<1>3. <<n, p>> \in Ids
  BY DEF Ids
<1>4. entry.kind \in Kinds
  BY DEF PlanEntry
<1>5. found # {} => parent.object \in Ids /\ parent.over \in Ids \cup {None}
  BY <1>2 DEF Binding
<1> HIDE DEF found, parent
<1>6. QED
  BY <1>3, <1>4, <1>5 DEF Assignment, CaptureAssignment, found, parent

\* Projected Tombstones are Tombstones.
LEMMA TombstonesTyped ==
  ASSUME NEW prior, prior \in Version, NEW assign
  PROVE  TargetTombstones(prior, assign) \in PartialFunctions(Paths, TombstoneRecord)
<1>1. Discontinued(prior, assign) \subseteq DOMAIN prior.bindings
  BY DEF Discontinued
<1>a. \A p \in DOMAIN prior.bindings : prior.bindings[p] \in Binding
  BY PartialFunctionsAre DEF Version
<1>2. \A p \in DOMAIN prior.bindings : Tombstone(prior.bindings[p]) \in TombstoneRecord
  BY <1>a DEF Tombstone, Binding, TombstoneRecord
<1> DEFINE f == TargetTombstones(prior, assign)
<1>3. DOMAIN f \subseteq Paths /\ f \in [DOMAIN f -> TombstoneRecord]
  BY <1>1, <1>2, PartialFunctionsAre DEF TargetTombstones, Version
<1>4. QED
  BY <1>3, PartialFunctionsAre

\* What a capture journals is a transaction.
LEMMA NewTransactionTyped ==
  ASSUME StoreTypeOK, NEW n \in Nat, NEW pl, pl \in CapturePlan,
         NEW h \in OptionalHead, h # None => h.version \in DOMAIN versions
  PROVE  /\ NewTransaction(n, h, pl) \in CaptureTransaction
         /\ DOMAIN NewTransaction(n, h, pl).assign = DOMAIN NewTransaction(n, h, pl).plan.entries
         /\ NewTransaction(n, h, pl).expected = h
         /\ NewTransaction(n, h, pl).target = n
<1> DEFINE t == NewTransaction(n, h, pl)
<1>1. PriorOf(h) \in Version
  BY PriorIsVersion
<1>2. t.assign \in PartialFunctions(Paths, CaptureAssignment)
  BY <1>1, AssignmentTyped, PartialFunctionsAre DEF NewTransaction, Assignments, CapturePlan
<1>3. t.tombs \in PartialFunctions(Paths, TombstoneRecord)
  BY <1>1, TombstonesTyped DEF NewTransaction
<1>4. QED
  BY <1>2, <1>3 DEF NewTransaction, CaptureTransaction, Assignments

\* What reading an entry yields is a binding.
LEMMA BoundTyped ==
  ASSUME WorkspaceTypeOK, NEW t, t \in CaptureTransaction,
         DOMAIN t.assign = DOMAIN t.plan.entries, NEW p \in DOMAIN t.assign
  PROVE  Bound(t, p) \in Binding /\ p \in Paths
<1> DEFINE data == IF t.assign[p].kind = "regular_file" THEN node[t.plan.entries[p].ino].data
                   ELSE None
<1>1. t.assign[p] \in CaptureAssignment /\ t.plan.entries[p] \in PlanEntry /\ p \in Paths
  BY PartialFunctionsAre DEF CaptureTransaction, CapturePlan
<1>2. data \in Contents \cup {None}
  BY <1>1 DEF PlanEntry, WorkspaceTypeOK, File
<1>3. QED
  BY <1>1, <1>2 DEF Bound, BoundAs, CaptureAssignment, Binding

\* What a journal and the bindings read for it make is a version.
LEMMA VersionOfTyped ==
  ASSUME NEW t, t \in CaptureTransaction, NEW b, b \in PartialFunctions(Paths, Binding)
  PROVE  VersionOf(t, b) \in Version
<1>1. ParentsOf(t.expected) \subseteq Nat
  BY DEF ParentsOf, CaptureTransaction, OptionalHead, Head
<1>2. QED
  BY <1>1 DEF VersionOf, Version, CaptureTransaction, CapturePlan

\* The Object Version that an entry's binding installs seals typed bytes.
LEMMA InstalledObjectVersionTyped ==
  ASSUME StoreTypeOK, NEW b, b \in Binding
  PROVE  InstallObjectVersion(b) \in PartialFunctions(Ids, Contents \cup {None})
<1>1. b.data \in Contents \cup {None} /\ b.over \in Ids \cup {None}
  BY DEF Binding
<1>2. CASE b.over = None \/ b.over \in DOMAIN objvers
  BY <1>2 DEF InstallObjectVersion, StoreTypeOK
<1>3. CASE ~ (b.over = None \/ b.over \in DOMAIN objvers)
  <2>1. Put(objvers, b.over, b.data) \in PartialFunctions(Ids, Contents \cup {None})
    BY <1>1, <1>3, PutPartial DEF StoreTypeOK
  <2>2. QED
    BY <1>3, <2>1 DEF InstallObjectVersion
<1>4. QED
  BY <1>2, <1>3

\* The identity records that a capture writes name inodes.
LEMMA SealedIdentitiesTyped ==
  ASSUME StoreTypeOK, NEW t, t \in CaptureTransaction, DOMAIN t.assign = DOMAIN t.plan.entries
  PROVE  SealedIdentities(t) \in PartialFunctions(Ids, Inodes)
<1>a. \A p \in DOMAIN t.assign : t.assign[p] \in CaptureAssignment /\ t.plan.entries[p] \in PlanEntry
  BY PartialFunctionsAre DEF CaptureTransaction, CapturePlan
<1>1. \A p \in DOMAIN t.assign : t.assign[p].object \in Ids /\ t.plan.entries[p].ino \in Inodes
  BY <1>a DEF CaptureAssignment, PlanEntry
<1> DEFINE f == SealedIdentities(t)
<1>2. DOMAIN f \subseteq Ids /\ f \in [DOMAIN f -> Inodes]
  BY <1>1, PartialFunctionsAre DEF SealedIdentities, StoreTypeOK
<1>3. QED
  BY <1>2, PartialFunctionsAre

-----------------------------------------------------------------------------
(* The inductive invariant.                                                *)

JournalSteps == {"recover_identities", "recover_cleanup", "build", "check", "cas",
                 "identities", "cleanup"}
ActiveSteps == {"stage", "stage_copy", "publish", "r_install", "r_cas", "verify", "project",
                "reverify", "receipt", "rollback", "failed"}
ReceiptSteps == {"retain", "modified", "authority", "retire_intent", "retire_receipt"}

\* Local Head names an installed version: the half of HeadComplete about Head.
HeadInstalled == head # None => head.version \in DOMAIN versions

\* What a capture's steps rely on: the holder's plan, the journal and, from its
\* installation on, the target.
CaptureKnown ==
  /\ pc \in CaptureSteps => plan[holder] # None
  /\ pc \in JournalSteps => journal # None
  /\ pc \in {"check", "cas"} => journal.target \in DOMAIN versions
  /\ journal # None => DOMAIN journal.assign = DOMAIN journal.plan.entries

\* What a restore's steps rely on: the Tombstone asked for, the journal or the
\* receipt, its slot and parent and, before the Head moves, the installed target.
RestoreKnown ==
  /\ pc \in {"rebind", "journal"} => /\ head # None /\ wanted # None
                                     /\ Restorable(head.version, wanted)
  /\ pc \in ActiveSteps => active # None
  /\ pc \in ReceiptSteps => recovery # None
  /\ pc = "r_cas" => active.target \in DOMAIN versions
  /\ active # None => /\ active.key \in DOMAIN slot
                      /\ active.expected.version \in DOMAIN versions
  /\ recovery # None => recovery.txn.key \in DOMAIN slot

TypeInv == Typed /\ HeadInstalled /\ CaptureKnown /\ RestoreKnown

\* Each group of variables keeps its type while nothing in it changes.
LEMMA KeptGroups ==
  ASSUME Typed
  PROVE  /\ UNCHANGED workspaceVars => WorkspaceTypeOK'
         /\ UNCHANGED store => StoreTypeOK'
         /\ UNCHANGED journal => JournalTypeOK'
         /\ UNCHANGED restoreState => RestoreTypeOK'
         /\ UNCHANGED volatile => VolatileTypeOK'
<1>1. UNCHANGED workspaceVars => WorkspaceTypeOK'
  BY DEF Typed, WorkspaceTypeOK, workspaceVars
<1>2. UNCHANGED store => StoreTypeOK'
  BY DEF Typed, StoreTypeOK, store
<1>3. UNCHANGED journal => JournalTypeOK'
  BY DEF Typed, JournalTypeOK
<1>4. UNCHANGED restoreState => RestoreTypeOK'
  BY DEF Typed, RestoreTypeOK, restoreState
<1>5. UNCHANGED volatile => VolatileTypeOK'
  BY DEF Typed, VolatileTypeOK, volatile
<1>6. QED
  BY <1>1, <1>2, <1>3, <1>4, <1>5

\* Nothing is known about a step that nobody is at.
LEMMA ReturnTyped ==
  ASSUME Typed, Return
  PROVE  /\ VolatileTypeOK'
         /\ crashes' \in 0..MaxCrashes => LockTypeOK'
         /\ pc' = "idle"
<1>1. VolatileTypeOK'
  <2>1. EmptyFunction \in PartialFunctions(Paths, Binding)
    BY PartialFunctionsAre DEF EmptyFunction
  <2>2. QED
    BY <2>1 DEF Typed, VolatileTypeOK, Return
<1>2. crashes' \in 0..MaxCrashes => LockTypeOK'
  BY DEF LockTypeOK, Return
<1>3. QED
  BY <1>1, <1>2 DEF Return

\* The empty store of a fresh root satisfies the invariant.
LEMMA InitTyped == Init => TypeInv
<1> SUFFICES ASSUME Init PROVE TypeInv
  OBVIOUS
<1>1. WorkspaceTypeOK
  BY WorkspaceAssumption DEF Init, WorkspaceInit, WorkspaceTypeOK, File, Kinds
<1>n. \A S, T : NoEntries \in PartialFunctions(S, T)
  <2>1. \A S, T : DOMAIN NoEntries \subseteq S /\ NoEntries \in [DOMAIN NoEntries -> T]
    BY DEF NoEntries
  <2>2. QED
    BY <2>1, PartialFunctionsAre
<1>2. StoreTypeOK
  BY <1>n, LocalStateAssumption DEF Init, StoreTypeOK, OptionalHead, NoEntries
<1>3. RestoreTypeOK /\ JournalTypeOK
  BY <1>n DEF Init, RestoreTypeOK, JournalTypeOK
<1>4. VolatileTypeOK /\ LockTypeOK
  BY <1>n, LocalStateAssumption DEF Init, VolatileTypeOK, LockTypeOK
<1>5. QED
  BY <1>1, <1>2, <1>3, <1>4
  DEF Init, TypeInv, Typed, HeadInstalled, CaptureKnown, RestoreKnown, CaptureSteps,
      JournalSteps, ActiveSteps, ReceiptSteps

-----------------------------------------------------------------------------
(* The workspace and the deaths of processes.                              *)

\* A new file gets one inode and one stamp.
LEMMA NewTyped ==
  ASSUME WorkspaceTypeOK, NEW p \in Paths, NEW kind \in Kinds, NEW c \in Contents \cup {None},
         edits < MaxEdits, New(p, kind, c), edits' = edits + 1
  PROVE  WorkspaceTypeOK'
<1> PICK i \in Allocatable :
      /\ dir' = [dir EXCEPT ![p] = i]
      /\ node' = [node EXCEPT ![i] = [kind |-> kind, data |-> c, stamp |-> edits + 1]]
  BY DEF New
<1>1. i \in Inodes
  BY DEF Allocatable
<1>2. QED
  BY <1>1, WorkspaceAssumption DEF WorkspaceTypeOK, File, New

\* A change by a user touches only the files, and leaves them well typed.
LEMMA UserTyped == TypeInv /\ User => TypeInv'
<1> SUFFICES ASSUME TypeInv, User PROVE TypeInv'
  OBVIOUS
<1>a. WorkspaceTypeOK /\ UserStep /\ UNCHANGED localVars
  BY DEF TypeInv, Typed, User
<1>1. WorkspaceTypeOK'
  <2>1. ASSUME NEW p \in Paths, UserCreate(p) \/ UserReplace(p) PROVE WorkspaceTypeOK'
    BY <1>a, <2>1, NewTyped DEF UserCreate, UserReplace, Change, Kinds
  <2>2. ASSUME NEW p \in Paths, UserMkdir(p) PROVE WorkspaceTypeOK'
    BY <1>a, <2>2, NewTyped DEF UserMkdir, Change, Kinds
  <2>3. ASSUME NEW p \in Paths, UserEdit(p) PROVE WorkspaceTypeOK'
    <3> PICK c \in Contents :
          node' = [node EXCEPT ![dir[p]] =
                     [kind |-> "regular_file", data |-> c, stamp |-> edits + 1]]
      BY <2>3 DEF UserEdit
    <3>1. dir[p] \in Inodes
      BY <1>a, <2>3 DEF UserEdit, IsRegular, Live, WorkspaceTypeOK
    <3>2. QED
      BY <1>a, <2>3, <3>1, WorkspaceAssumption DEF UserEdit, Change, WorkspaceTypeOK, File, Kinds
  <2>4. ASSUME NEW p \in Paths, UserDelete(p) \/ UserIgnore(p) PROVE WorkspaceTypeOK'
    BY <1>a, <2>4, WorkspaceAssumption DEF UserDelete, UserIgnore, Change, WorkspaceTypeOK
  <2>5. ASSUME NEW p \in Paths, NEW q \in Paths, UserMove(p, q) \/ UserLink(p, q)
        PROVE WorkspaceTypeOK'
    BY <1>a, <2>5, WorkspaceAssumption DEF UserMove, UserLink, Change, WorkspaceTypeOK
  <2>6. QED
    BY <1>a, <2>1, <2>2, <2>3, <2>4, <2>5 DEF UserStep
<1>2. Typed'
  BY <1>a, <1>1, KeptGroups
  DEF TypeInv, Typed, LockTypeOK, localVars, lock
<1>3. HeadInstalled' /\ CaptureKnown' /\ RestoreKnown'
  BY <1>a DEF TypeInv, localVars, store, restoreState, volatile, lock, HeadInstalled,
      CaptureKnown, RestoreKnown, Restorable
<1>4. QED
  BY <1>2, <1>3 DEF TypeInv

\* A process death forgets what was computed and keeps every durable record.
LEMMA CrashTyped == TypeInv /\ Crash => TypeInv'
<1> SUFFICES ASSUME TypeInv, Crash PROVE TypeInv'
  OBVIOUS
<1>1. Typed'
  <2>1. crashes' \in 0..MaxCrashes
    BY LocalStateAssumption DEF Crash, TypeInv, Typed, LockTypeOK
  <2>2. QED
    BY <2>1, KeptGroups, ReturnTyped DEF Crash, TypeInv, Typed
<1>2. HeadInstalled' /\ CaptureKnown' /\ RestoreKnown'
  BY ReturnTyped DEF Crash, TypeInv, HeadInstalled, CaptureKnown, RestoreKnown, CaptureSteps,
     JournalSteps, ActiveSteps, ReceiptSteps, store, restoreState
<1>3. QED
  BY <1>1, <1>2 DEF TypeInv

-----------------------------------------------------------------------------
(* The capture's steps.                                                    *)

\* The plan a process comes to hold is a well-typed observation.
LEMMA PlanCaptureTyped == ASSUME NEW p \in Procs, TypeInv, PlanCapture(p) PROVE TypeInv'
<1>1. VolatileTypeOK'
  BY CurrentPlanIsPlan
  DEF TypeInv, Typed, VolatileTypeOK, StoreTypeOK, RestoreTypeOK, PlanCapture
<1>2. Typed'
  BY <1>1, KeptGroups DEF TypeInv, Typed, LockTypeOK, PlanCapture, lock
<1>3. HeadInstalled' /\ CaptureKnown' /\ RestoreKnown'
  BY DEF PlanCapture, TypeInv, Typed, VolatileTypeOK, LockTypeOK, store, restoreState, lock,
     HeadInstalled, CaptureKnown, RestoreKnown, Restorable
<1>4. QED
  BY <1>2, <1>3 DEF TypeInv

\* A refused seal only forgets its plan.
LEMMA SealRefusedTyped == ASSUME NEW p \in Procs, TypeInv, SealRefused(p) PROVE TypeInv'
<1>1. VolatileTypeOK'
  BY DEF TypeInv, Typed, VolatileTypeOK, SealRefused
<1>2. Typed'
  BY <1>1, KeptGroups DEF TypeInv, Typed, LockTypeOK, SealRefused, lock
<1>3. HeadInstalled' /\ CaptureKnown' /\ RestoreKnown'
  BY DEF SealRefused, TypeInv, Typed, LockTypeOK, store, restoreState, lock,
     HeadInstalled, CaptureKnown, RestoreKnown, Restorable, CaptureSteps
<1>4. QED
  BY <1>2, <1>3 DEF TypeInv

\* Abandoning a stale journal leaves no journal and a plan to assign from.
LEMMA SealDropStaleTyped == ASSUME NEW p \in Procs, TypeInv, SealDropStale(p) PROVE TypeInv'
<1>1. JournalTypeOK' /\ LockTypeOK'
  BY LocalStateAssumption
  DEF TypeInv, Typed, JournalTypeOK, LockTypeOK, SealDropStale, Acquire, CaptureSteps
<1>2. Typed'
  BY <1>1, KeptGroups DEF TypeInv, Typed, SealDropStale
<1>3. HeadInstalled' /\ CaptureKnown' /\ RestoreKnown'
  BY DEF SealDropStale, Acquire, Admitted, TypeInv, store, restoreState, volatile,
     HeadInstalled, CaptureKnown, RestoreKnown, CaptureSteps, JournalSteps, ActiveSteps,
     ReceiptSteps
<1>4. QED
  BY <1>2, <1>3 DEF TypeInv

\* A seal that starts past assignment has the journal its first step reads.
LEMMA SealStartTyped == ASSUME NEW p \in Procs, TypeInv, SealStart(p) PROVE TypeInv'
<1>1. LockTypeOK'
  BY LocalStateAssumption DEF TypeInv, Typed, LockTypeOK, SealStart, Acquire, CaptureSteps
<1>2. Typed'
  BY <1>1, KeptGroups DEF TypeInv, Typed, SealStart
<1>3. pc' # "assign" => journal # None
  BY DEF SealStart, SealEntry, Acquire
<1>4. HeadInstalled' /\ CaptureKnown' /\ RestoreKnown'
  BY <1>3 DEF SealStart, Acquire, Admitted, TypeInv, store, restoreState, volatile,
     HeadInstalled, CaptureKnown, RestoreKnown, CaptureSteps, JournalSteps, ActiveSteps,
     ReceiptSteps
<1>5. QED
  BY <1>2, <1>4 DEF TypeInv

\* Identity records map the journal's Objects to the inodes its plan observed.
LEMMA WriteCaptureIdentitiesTyped == TypeInv /\ WriteCaptureIdentities => TypeInv'
<1> SUFFICES ASSUME TypeInv, WriteCaptureIdentities PROVE TypeInv'
  OBVIOUS
<1>1. journal \in CaptureTransaction /\ DOMAIN journal.assign = DOMAIN journal.plan.entries
  BY DEF TypeInv, Typed, JournalTypeOK, CaptureKnown, JournalSteps, WriteCaptureIdentities, Step
<1>2. StoreTypeOK'
  BY <1>1, SealedIdentitiesTyped DEF TypeInv, Typed, StoreTypeOK, WriteCaptureIdentities
<1>3. LockTypeOK'
  BY DEF TypeInv, Typed, LockTypeOK, WriteCaptureIdentities, Step, CaptureSteps
<1>4. Typed'
  BY <1>2, <1>3, KeptGroups DEF TypeInv, Typed, WriteCaptureIdentities
<1>5. HeadInstalled' /\ CaptureKnown' /\ RestoreKnown'
  BY DEF WriteCaptureIdentities, Step, TypeInv, restoreState, volatile,
     HeadInstalled, CaptureKnown, RestoreKnown, CaptureSteps, JournalSteps, ActiveSteps,
     ReceiptSteps
<1>6. QED
  BY <1>4, <1>5 DEF TypeInv

\* Recovery goes on to assignment without the journal it finished.
LEMMA RecoverCleanupTyped == TypeInv /\ RecoverCleanup => TypeInv'
<1> SUFFICES ASSUME TypeInv, RecoverCleanup PROVE TypeInv'
  OBVIOUS
<1>1. JournalTypeOK' /\ LockTypeOK'
  BY DEF TypeInv, Typed, JournalTypeOK, LockTypeOK, RecoverCleanup, Step, CaptureSteps
<1>2. Typed'
  BY <1>1, KeptGroups DEF TypeInv, Typed, RecoverCleanup
<1>3. HeadInstalled' /\ CaptureKnown' /\ RestoreKnown'
  BY DEF RecoverCleanup, Step, TypeInv, store, restoreState, volatile,
     HeadInstalled, CaptureKnown, RestoreKnown, CaptureSteps, JournalSteps, ActiveSteps,
     ReceiptSteps
<1>4. QED
  BY <1>2, <1>3 DEF TypeInv

\* The plan a capture step works on.
LEMMA HeldIsPlan == TypeInv /\ pc \in CaptureSteps => held \in CapturePlan
BY LocalStateAssumption
DEF TypeInv, Typed, VolatileTypeOK, LockTypeOK, CaptureKnown, CaptureSteps, held

\* Assignment makes a well-typed journal from the plan and the Head's version.
LEMMA SealAssignTyped == TypeInv /\ SealAssign => TypeInv'
<1> SUFFICES ASSUME TypeInv, SealAssign PROVE TypeInv'
  OBVIOUS
<1> DEFINE t == NewTransaction(issued + 1, head, held)
<1>1. pc = "assign" /\ pc' = "build" /\ holder' = holder /\ issued < MaxTxns
      /\ issued' = issued + 1 /\ journal' = t
      /\ UNCHANGED <<workspaceVars, head, versions, objvers, identity, restoreState, volatile,
                     crashes>>
  BY DEF SealAssign, Step
<1>2. StoreTypeOK /\ issued \in Nat /\ head \in OptionalHead
      /\ (head # None => head.version \in DOMAIN versions)
  BY DEF TypeInv, Typed, StoreTypeOK, HeadInstalled
<1>3. held \in CapturePlan
  BY <1>1, HeldIsPlan DEF CaptureSteps
<1>4. t \in CaptureTransaction /\ DOMAIN t.assign = DOMAIN t.plan.entries
  BY <1>2, <1>3, NewTransactionTyped
<1> HIDE DEF t
<1>5. StoreTypeOK'
  BY <1>1, <1>2, LocalStateAssumption DEF StoreTypeOK
<1>6. JournalTypeOK'
  BY <1>1, <1>4, PartialFunctionsAre DEF JournalTypeOK, CaptureTransaction, CapturePlan,
     OptionalHead
<1>7. LockTypeOK'
  BY <1>1 DEF TypeInv, Typed, LockTypeOK, CaptureSteps
<1>8. Typed'
  BY <1>1, <1>5, <1>6, <1>7, KeptGroups DEF TypeInv, Typed
<1>9. t # None
  BY <1>4, NoneIsNoRecord
<1>10. HeadInstalled' /\ CaptureKnown' /\ RestoreKnown'
  BY <1>1, <1>4, <1>9 DEF TypeInv, restoreState, volatile,
     HeadInstalled, CaptureKnown, RestoreKnown, CaptureSteps, JournalSteps, ActiveSteps,
     ReceiptSteps
<1>11. QED
  BY <1>8, <1>10 DEF TypeInv

\* A step that returns to the caller may retire the journal, nothing else.
LEMMA ReturningTyped ==
  ASSUME TypeInv, Return, journal' \in {journal, None},
         UNCHANGED <<workspaceVars, store, restoreState, crashes>>
  PROVE  TypeInv'
<1>1. JournalTypeOK'
  BY DEF TypeInv, Typed, JournalTypeOK
<1>2. Typed'
  BY <1>1, KeptGroups, ReturnTyped DEF TypeInv, Typed, LockTypeOK
<1>3. HeadInstalled' /\ CaptureKnown' /\ RestoreKnown'
  BY ReturnTyped DEF TypeInv, HeadInstalled, CaptureKnown, RestoreKnown, CaptureSteps,
     JournalSteps, ActiveSteps, ReceiptSteps, store, restoreState
<1>4. QED
  BY <1>2, <1>3 DEF TypeInv

\* The binding an entry yields and the Object Version it installs are well typed.
LEMMA ReadEntryTyped == TypeInv /\ ReadEntry => TypeInv'
<1> SUFFICES ASSUME TypeInv, ReadEntry PROVE TypeInv'
  OBVIOUS
<1> DEFINE b == Bound(journal, NextEntry)
<1>1. journal \in CaptureTransaction /\ DOMAIN journal.assign = DOMAIN journal.plan.entries
  BY DEF TypeInv, Typed, JournalTypeOK, CaptureKnown, JournalSteps, ReadEntry, Step
<1>2. NextEntry \in DOMAIN journal.assign
  BY DEF ReadEntry, Unread, NextEntry
<1>3. b \in Binding /\ NextEntry \in Paths
  BY <1>1, <1>2, BoundTyped DEF TypeInv, Typed
<1>4. built' = Put(built, NextEntry, b) /\ objvers' = InstallObjectVersion(b)
  BY DEF ReadEntry
<1>5. StoreTypeOK'
  <2>1. objvers' \in PartialFunctions(Ids, Contents \cup {None})
    BY <1>3, <1>4, InstalledObjectVersionTyped DEF TypeInv, Typed
  <2>2. QED
    BY <2>1 DEF TypeInv, Typed, StoreTypeOK, ReadEntry
<1>6. VolatileTypeOK'
  <2>1. built' \in PartialFunctions(Paths, Binding)
    BY <1>3, <1>4, PutPartial DEF TypeInv, Typed, VolatileTypeOK
  <2>2. QED
    BY <2>1 DEF TypeInv, Typed, VolatileTypeOK, ReadEntry
<1>7. LockTypeOK'
  BY DEF TypeInv, Typed, LockTypeOK, ReadEntry, Step, CaptureSteps
<1>8. Typed'
  BY <1>5, <1>6, <1>7, KeptGroups DEF TypeInv, Typed, ReadEntry
<1>9. HeadInstalled' /\ CaptureKnown' /\ RestoreKnown'
  BY DEF ReadEntry, Step, TypeInv, restoreState, HeadInstalled, CaptureKnown,
     RestoreKnown, CaptureSteps, JournalSteps, ActiveSteps, ReceiptSteps
<1>10. QED
  BY <1>8, <1>9 DEF TypeInv

\* Installing the built version adds the one version the Head may move to.
LEMMA InstallVersionTyped == TypeInv /\ InstallVersion => TypeInv'
<1> SUFFICES ASSUME TypeInv, InstallVersion PROVE TypeInv'
  OBVIOUS
<1>1. journal.target \in Nat /\ VersionOf(journal, built) \in Version
  BY VersionOfTyped DEF TypeInv, Typed, JournalTypeOK, VolatileTypeOK, CaptureTransaction,
     CaptureKnown, JournalSteps, InstallVersion, Step
<1>2. /\ DOMAIN versions' = DOMAIN versions \cup {journal.target}
      /\ DOMAIN versions' \subseteq Nat
      /\ versions' \in [DOMAIN versions' -> Version]
  BY <1>1, InstallKeepsVersions DEF TypeInv, Typed, StoreTypeOK, InstallVersion
<1>3. StoreTypeOK'
  BY <1>2 DEF TypeInv, Typed, StoreTypeOK, InstallVersion
<1>4. LockTypeOK'
  BY DEF TypeInv, Typed, LockTypeOK, InstallVersion, Step, CaptureSteps
<1>5. Typed'
  BY <1>3, <1>4, KeptGroups DEF TypeInv, Typed, InstallVersion
<1>6. HeadInstalled' /\ CaptureKnown' /\ RestoreKnown'
  BY <1>2 DEF InstallVersion, Step, TypeInv, restoreState, volatile, HeadInstalled, CaptureKnown,
     RestoreKnown, CaptureSteps, JournalSteps, ActiveSteps, ReceiptSteps
<1>7. QED
  BY <1>5, <1>6 DEF TypeInv

\* The final observation writes nothing but the step.
LEMMA FinalPlanCheckTyped == TypeInv /\ FinalPlanCheck => TypeInv'
<1> SUFFICES ASSUME TypeInv, FinalPlanCheck PROVE TypeInv'
  OBVIOUS
<1>1. LockTypeOK'
  BY DEF TypeInv, Typed, LockTypeOK, FinalPlanCheck, Step, CaptureSteps
<1>2. Typed'
  BY <1>1, KeptGroups DEF TypeInv, Typed, FinalPlanCheck
<1>3. HeadInstalled' /\ CaptureKnown' /\ RestoreKnown'
  BY DEF FinalPlanCheck, Step, TypeInv, store, restoreState, volatile, HeadInstalled,
     CaptureKnown, RestoreKnown, CaptureSteps, JournalSteps, ActiveSteps, ReceiptSteps
<1>4. QED
  BY <1>2, <1>3 DEF TypeInv

\* The Head moves to a version that is installed.
LEMMA MoveHeadTyped == TypeInv /\ MoveHead => TypeInv'
<1> SUFFICES ASSUME TypeInv, MoveHead PROVE TypeInv'
  OBVIOUS
<1>1. journal.target \in Nat /\ journal.target \in DOMAIN versions
  BY DEF TypeInv, Typed, StoreTypeOK, CaptureKnown, MoveHead, Step
<1>2. StoreTypeOK'
  BY <1>1 DEF TypeInv, Typed, StoreTypeOK, MoveHead, OptionalHead, Head, HeadAuthorities
<1>3. LockTypeOK'
  BY DEF TypeInv, Typed, LockTypeOK, MoveHead, Step, CaptureSteps
<1>4. Typed'
  BY <1>2, <1>3, KeptGroups DEF TypeInv, Typed, MoveHead
<1>5. HeadInstalled' /\ CaptureKnown' /\ RestoreKnown'
  BY <1>1 DEF MoveHead, Step, TypeInv, restoreState, volatile, HeadInstalled, CaptureKnown,
     RestoreKnown, CaptureSteps, JournalSteps, ActiveSteps, ReceiptSteps
<1>6. QED
  BY <1>4, <1>5 DEF TypeInv

\* Every step a capture takes under the lock keeps the invariant.
LEMMA SealStepTyped == TypeInv /\ SealStep => TypeInv'
<1>1. TypeInv /\ (SealNothing \/ RemoveJournal \/ SealFails) => TypeInv'
  BY ReturningTyped DEF SealNothing, RemoveJournal, SealFails
<1>2. QED
  BY <1>1, WriteCaptureIdentitiesTyped, RecoverCleanupTyped, SealAssignTyped,
     ReadEntryTyped, InstallVersionTyped, FinalPlanCheckTyped, MoveHeadTyped
  DEF SealStep

\* So does every step that a capture takes to plan or to get the lock.
LEMMA CaptureStepTyped == ASSUME NEW p \in Procs, TypeInv, CaptureStep(p) PROVE TypeInv'
BY PlanCaptureTyped, SealRefusedTyped, SealDropStaleTyped, SealStartTyped DEF CaptureStep

-----------------------------------------------------------------------------
(* The restore's steps.                                                    *)

\* A call that starts or takes up a restore only takes the lock.
LEMMA RestoreCallTyped == ASSUME NEW p \in Procs, TypeInv, RestoreCall(p) PROVE TypeInv'
<1>1. CASE RestoreResume(p) \/ RestoreRecover(p)
  <2>1. LockTypeOK'
    BY <1>1, LocalStateAssumption DEF TypeInv, Typed, LockTypeOK, RestoreResume,
       RestoreRecover, Acquire, RestoreSteps
  <2>2. Typed'
    BY <1>1, <2>1, KeptGroups DEF TypeInv, Typed, RestoreResume, RestoreRecover
  <2>3. HeadInstalled' /\ CaptureKnown' /\ RestoreKnown'
    BY <1>1 DEF RestoreResume, RestoreRecover, Acquire, TypeInv, store, restoreState, volatile,
       HeadInstalled, CaptureKnown, RestoreKnown, CaptureSteps, JournalSteps, ActiveSteps,
       ReceiptSteps
  <2>4. QED
    BY <2>2, <2>3 DEF TypeInv
<1>2. ASSUME NEW path \in RestorePaths, RestoreAdmit(p, path) PROVE TypeInv'
  <2>1. LockTypeOK'
    BY <1>2, LocalStateAssumption DEF TypeInv, Typed, LockTypeOK, RestoreAdmit, Acquire,
       RestoreSteps
  <2>2. VolatileTypeOK'
    BY <1>2, LocalStateAssumption DEF TypeInv, Typed, VolatileTypeOK, RestoreAdmit
  <2>3. Typed'
    BY <1>2, <2>1, <2>2, KeptGroups DEF TypeInv, Typed, RestoreAdmit
  <2>4. wanted' # None /\ Restorable(head.version, path)' 
    BY <1>2, LocalStateAssumption DEF RestoreAdmit, store, Restorable
  <2>5. HeadInstalled' /\ CaptureKnown' /\ RestoreKnown'
    BY <1>2, <2>4 DEF RestoreAdmit, Acquire, TypeInv, store, restoreState,
       HeadInstalled, CaptureKnown, RestoreKnown, CaptureSteps, JournalSteps, ActiveSteps,
       ReceiptSteps
  <2>6. QED
    BY <2>3, <2>5 DEF TypeInv
<1>3. QED
  BY <1>1, <1>2 DEF RestoreCall

\* Rebinding the Head changes its authority and not its version.
LEMMA RebindHeadTyped == TypeInv /\ RebindHead => TypeInv'
<1> SUFFICES ASSUME TypeInv, RebindHead PROVE TypeInv'
  OBVIOUS
<1>1. head \in Head /\ head' \in Head /\ head'.version = head.version
  BY DEF TypeInv, Typed, StoreTypeOK, OptionalHead, Head, HeadAuthorities, RestoreKnown,
     RebindHead, Step
<1>2. StoreTypeOK'
  BY <1>1 DEF TypeInv, Typed, StoreTypeOK, RebindHead, OptionalHead
<1>3. LockTypeOK'
  BY DEF TypeInv, Typed, LockTypeOK, RebindHead, Step, RestoreSteps
<1>4. Typed'
  BY <1>2, <1>3, KeptGroups DEF TypeInv, Typed, RebindHead
<1>5. head' # None
  BY <1>1, NoneIsNoRecord
<1>6. HeadInstalled' /\ CaptureKnown' /\ RestoreKnown'
  BY <1>1, <1>5 DEF RebindHead, Step, TypeInv, restoreState, volatile, HeadInstalled,
     CaptureKnown, RestoreKnown, CaptureSteps, JournalSteps, ActiveSteps, ReceiptSteps, Restorable
<1>7. QED
  BY <1>4, <1>6 DEF TypeInv

\* A Tombstone that can be restored names the binding to restore.
LEMMA RestoreBindingTyped ==
  ASSUME StoreTypeOK, NEW v \in DOMAIN versions, NEW path \in Paths, Restorable(v, path)
  PROVE  /\ versions[v].tombstones[path] \in TombstoneRecord
         /\ RestoreBinding(versions, v, path, versions[v].tombstones[path]) \in Binding
<1> DEFINE tomb == versions[v].tombstones[path]
           source == RestoreSource(versions, v, path, tomb)
<1>1. path \in DOMAIN versions[v].tombstones /\ source # {}
  BY DEF Restorable
<1>2. \A a \in source : a \in DOMAIN versions /\ path \in DOMAIN versions[a].bindings
  BY DEF RestoreSource, RestoreCandidates
<1>3. \A a \in DOMAIN versions : /\ versions[a].bindings \in PartialFunctions(Paths, Binding)
                                 /\ versions[a].tombstones \in PartialFunctions(Paths, TombstoneRecord)
  BY DEF StoreTypeOK, Version
<1>4. tomb \in TombstoneRecord
  BY <1>1, <1>3, PartialFunctionsAre
<1>5. \A a \in source : versions[a].bindings[path] \in Binding
  BY <1>2, <1>3, PartialFunctionsAre
<1>6. QED
  BY <1>1, <1>4, <1>5 DEF RestoreBinding

\* What a restore journals is a transaction.
LEMMA NewRestoreTyped ==
  ASSUME TypeInv, pc = "journal", NEW target \in Nat
  PROVE  /\ NewRestore(target) \in RestoreTransaction
         /\ NewRestore(target).key = restoreKey
         /\ NewRestore(target).expected = head
         /\ NewRestore(target).target = target
         /\ restoreKey \in RestoreKeys
<1>1. head \in Head /\ head.version \in DOMAIN versions /\ wanted \in Paths
      /\ Restorable(head.version, wanted) /\ StoreTypeOK
  BY DEF TypeInv, Typed, StoreTypeOK, VolatileTypeOK, HeadInstalled, RestoreKnown, OptionalHead
<1>2. head.version \in Nat /\ restoreKey \in RestoreKeys
  BY <1>1 DEF Head, RestoreKeys, restoreKey
<1>3. QED
  BY <1>1, <1>2, RestoreBindingTyped DEF NewRestore, RestoreTransaction

\* The restore journal names a Tombstone and an ancestor's binding, both well typed.
LEMMA WriteRestoreJournalTyped == TypeInv /\ WriteRestoreJournal => TypeInv'
<1> SUFFICES ASSUME TypeInv, WriteRestoreJournal PROVE TypeInv'
  OBVIOUS
<1> DEFINE known == restoreKey \in DOMAIN slot
           target == IF known THEN slot[restoreKey].target ELSE issued + 1
           t == NewRestore(target)
<1>1. /\ Step("journal", "stage")
      /\ known \/ issued < MaxTxns
      /\ active' = t
      /\ issued' = IF known THEN issued ELSE issued + 1
      /\ slot' = IF known THEN slot
                 ELSE Put(slot, restoreKey, [target |-> t.target, ino |-> None])
      /\ UNCHANGED <<workspaceVars, head, versions, objvers, identity, journal, recovery,
                     authority, volatile, crashes>>
  BY DEF WriteRestoreJournal
<1>2. issued \in Nat /\ slot \in PartialFunctions(RestoreKeys, Slot)
  BY DEF TypeInv, Typed, StoreTypeOK, RestoreTypeOK
<1>3. target \in Nat
  <2>1. known => slot[restoreKey] \in Slot
    BY <1>2, PartialFunctionsAre
  <2>2. QED
    BY <1>2, <2>1 DEF Slot
<1>4. /\ t \in RestoreTransaction /\ t.key = restoreKey /\ t.expected = head
      /\ t.target \in Nat /\ restoreKey \in RestoreKeys
  BY <1>1, <1>3, NewRestoreTyped DEF Step
<1> HIDE DEF t, target
<1>5. slot' \in PartialFunctions(RestoreKeys, Slot) /\ restoreKey \in DOMAIN slot'
      /\ DOMAIN slot \subseteq DOMAIN slot'
  <2>1. [target |-> t.target, ino |-> None] \in Slot
    BY <1>4 DEF Slot
  <2>2. QED
    BY <1>1, <1>2, <1>4, <2>1, PutPartial DEF Put
<1>6. RestoreTypeOK'
  BY <1>1, <1>4, <1>5 DEF TypeInv, Typed, RestoreTypeOK
<1>7. StoreTypeOK'
  BY <1>1, <1>2, LocalStateAssumption DEF TypeInv, Typed, StoreTypeOK
<1>8. LockTypeOK'
  BY <1>1 DEF TypeInv, Typed, LockTypeOK, Step, RestoreSteps
<1>9. Typed'
  BY <1>1, <1>6, <1>7, <1>8, KeptGroups DEF TypeInv, Typed
<1>10. active' # None /\ active'.expected.version \in DOMAIN versions
  BY <1>1, <1>4, NoneIsNoRecord DEF TypeInv, HeadInstalled, RestoreKnown, Step
<1>11. HeadInstalled' /\ CaptureKnown' /\ RestoreKnown'
  BY <1>1, <1>4, <1>5, <1>10 DEF Step, TypeInv, volatile, HeadInstalled, CaptureKnown,
     RestoreKnown, CaptureSteps, JournalSteps, ActiveSteps, ReceiptSteps
<1>12. QED
  BY <1>9, <1>11 DEF TypeInv

\* The slot and the stage of the active restore.
LEMMA ActiveTyped ==
  ASSUME TypeInv, active # None
  PROVE  /\ active \in RestoreTransaction
         /\ active.key \in DOMAIN slot
         /\ slot[active.key] \in Slot
         /\ Stage(active) \in Inodes \cup {None}
<1>1. active \in RestoreTransaction /\ active.key \in DOMAIN slot
  BY DEF TypeInv, Typed, RestoreTypeOK, RestoreKnown
<1>2. slot[active.key] \in Slot
  BY <1>1, PartialFunctionsAre DEF TypeInv, Typed, RestoreTypeOK
<1>3. QED
  BY <1>1, <1>2 DEF Slot, Stage

\* A new stage is an empty regular file that its slot names.
LEMMA CreateStageTyped == TypeInv /\ CreateStage => TypeInv'
<1> SUFFICES ASSUME TypeInv, CreateStage PROVE TypeInv'
  OBVIOUS
<1>1. active # None
  BY DEF TypeInv, RestoreKnown, ActiveSteps, CreateStage, Step
<1> PICK i \in Allocatable :
      /\ slot' = [slot EXCEPT ![active.key].ino = i]
      /\ node' = [node EXCEPT ![i] = [kind |-> "regular_file", data |-> None, stamp |-> edits]]
  BY DEF CreateStage
<1>2. i \in Inodes
  BY DEF Allocatable
<1>3. WorkspaceTypeOK'
  <2>1. [kind |-> "regular_file", data |-> None, stamp |-> edits] \in File
    BY WorkspaceAssumption DEF TypeInv, Typed, WorkspaceTypeOK, File, Kinds
  <2>2. node' \in [Inodes -> File]
    BY <1>2, <2>1 DEF TypeInv, Typed, WorkspaceTypeOK
  <2>3. QED
    BY <2>2 DEF TypeInv, Typed, WorkspaceTypeOK, CreateStage, unchangedButFiles
<1>4. slot' \in PartialFunctions(RestoreKeys, Slot) /\ DOMAIN slot' = DOMAIN slot
  <2>1. DOMAIN slot \subseteq RestoreKeys /\ slot \in [DOMAIN slot -> Slot]
    BY PartialFunctionsAre DEF TypeInv, Typed, RestoreTypeOK
  <2>2. DOMAIN slot' = DOMAIN slot /\ slot' \in [DOMAIN slot' -> Slot]
    BY <1>2, <2>1 DEF Slot
  <2>3. QED
    BY <2>1, <2>2, PartialFunctionsAre
<1>5. RestoreTypeOK'
  BY <1>4 DEF TypeInv, Typed, RestoreTypeOK, CreateStage, unchangedButFiles
<1>6. LockTypeOK'
  BY DEF TypeInv, Typed, LockTypeOK, CreateStage, Step, RestoreSteps, unchangedButFiles
<1>7. Typed'
  BY <1>3, <1>5, <1>6, KeptGroups DEF TypeInv, Typed, CreateStage, unchangedButFiles
<1>8. HeadInstalled' /\ CaptureKnown' /\ RestoreKnown'
  BY <1>4 DEF CreateStage, Step, unchangedButFiles, TypeInv, store, volatile, HeadInstalled,
     CaptureKnown, RestoreKnown, CaptureSteps, JournalSteps, ActiveSteps, ReceiptSteps
<1>9. QED
  BY <1>7, <1>8 DEF TypeInv

\* Filling the stage gives it the bytes of the journaled binding.
LEMMA CopyStageTyped == TypeInv /\ CopyStage => TypeInv'
<1> SUFFICES ASSUME TypeInv, CopyStage PROVE TypeInv'
  OBVIOUS
<1>1. active \in RestoreTransaction
  BY ActiveTyped DEF TypeInv, RestoreKnown, ActiveSteps, CopyStage, Step
<1>2. active.binding.data \in Contents \cup {None}
  BY <1>1 DEF RestoreTransaction, Binding
<1>3. WorkspaceTypeOK'
  BY <1>2 DEF TypeInv, Typed, WorkspaceTypeOK, File, CopyStage, unchangedButFiles
<1>4. LockTypeOK'
  BY DEF TypeInv, Typed, LockTypeOK, CopyStage, Step, RestoreSteps, unchangedButFiles
<1>5. RestoreTypeOK'
  BY DEF TypeInv, Typed, RestoreTypeOK, CopyStage, unchangedButFiles
<1>6. Typed'
  BY <1>3, <1>4, <1>5, KeptGroups DEF TypeInv, Typed, CopyStage, unchangedButFiles
<1>7. HeadInstalled' /\ CaptureKnown' /\ RestoreKnown'
  BY DEF CopyStage, Step, unchangedButFiles, TypeInv, store, volatile, HeadInstalled,
     CaptureKnown, RestoreKnown, CaptureSteps, JournalSteps, ActiveSteps, ReceiptSteps
<1>8. QED
  BY <1>6, <1>7 DEF TypeInv

\* Publication makes the path name the stage's inode.
LEMMA PublishTyped == TypeInv /\ Publish => TypeInv'
<1> SUFFICES ASSUME TypeInv, Publish PROVE TypeInv'
  OBVIOUS
<1>1. active # None
  BY DEF TypeInv, RestoreKnown, ActiveSteps, Publish, Step
<1>2. Stage(active) \in Inodes \cup {None}
  BY <1>1, ActiveTyped
<1>3. WorkspaceTypeOK'
  BY <1>2 DEF TypeInv, Typed, WorkspaceTypeOK, Publish, unchangedButFiles
<1>4. LockTypeOK'
  BY DEF TypeInv, Typed, LockTypeOK, Publish, Step, RestoreSteps, unchangedButFiles
<1>5. RestoreTypeOK'
  BY DEF TypeInv, Typed, RestoreTypeOK, Publish, unchangedButFiles
<1>6. Typed'
  BY <1>3, <1>4, <1>5, KeptGroups DEF TypeInv, Typed, Publish, unchangedButFiles
<1>7. HeadInstalled' /\ CaptureKnown' /\ RestoreKnown'
  BY DEF Publish, Step, unchangedButFiles, TypeInv, store, volatile, HeadInstalled,
     CaptureKnown, RestoreKnown, CaptureSteps, JournalSteps, ActiveSteps, ReceiptSteps
<1>8. QED
  BY <1>6, <1>7 DEF TypeInv

\* The restored child of the expected version is installed before the Head moves.
LEMMA InstallTargetTyped == TypeInv /\ InstallTarget => TypeInv'
<1> SUFFICES ASSUME TypeInv, InstallTarget PROVE TypeInv'
  OBVIOUS
<1>1. active # None
  BY DEF TypeInv, RestoreKnown, ActiveSteps, InstallTarget, Step
<1>2. /\ active.target \in Nat /\ active.path \in Paths /\ active.binding \in Binding
      /\ active.expected.version \in DOMAIN versions
  BY <1>1, ActiveTyped DEF TypeInv, RestoreKnown, RestoreTransaction
<1>3. TargetVersion(active) \in Version
  BY <1>2, RestoredIsVersion DEF TypeInv, Typed, StoreTypeOK, TargetVersion
<1>4. /\ DOMAIN versions' = DOMAIN versions \cup {active.target}
      /\ DOMAIN versions' \subseteq Nat
      /\ versions' \in [DOMAIN versions' -> Version]
  BY <1>2, <1>3, InstallKeepsVersions DEF TypeInv, Typed, StoreTypeOK, InstallTarget
<1>5. StoreTypeOK'
  BY <1>4 DEF TypeInv, Typed, StoreTypeOK, InstallTarget
<1>6. LockTypeOK'
  BY DEF TypeInv, Typed, LockTypeOK, InstallTarget, Step, RestoreSteps
<1>7. Typed'
  BY <1>5, <1>6, KeptGroups DEF TypeInv, Typed, InstallTarget
<1>8. HeadInstalled' /\ CaptureKnown' /\ RestoreKnown'
  BY <1>4 DEF InstallTarget, Step, TypeInv, restoreState, volatile, HeadInstalled, CaptureKnown,
     RestoreKnown, CaptureSteps, JournalSteps, ActiveSteps, ReceiptSteps
<1>9. QED
  BY <1>7, <1>8 DEF TypeInv

\* Head moves to the installed target, or back to the parent it came from.
LEMMA RestoreHeadTyped == TypeInv /\ (CommitHead \/ RollbackHead) => TypeInv'
<1> SUFFICES ASSUME TypeInv, CommitHead \/ RollbackHead PROVE TypeInv'
  OBVIOUS
<1>1. active # None
  BY DEF TypeInv, RestoreKnown, ActiveSteps, CommitHead, RollbackHead, Step
<1>2. active.expected \in Head /\ TargetHead(active) \in Head
  BY <1>1, ActiveTyped DEF RestoreTransaction, TargetHead, Head, HeadAuthorities
<1>3. head' \in Head /\ head'.version \in DOMAIN versions
  BY <1>1, <1>2 DEF TypeInv, RestoreKnown, CommitHead, RollbackHead, Step, TargetHead
<1>4. StoreTypeOK'
  BY <1>3 DEF TypeInv, Typed, StoreTypeOK, OptionalHead, CommitHead, RollbackHead
<1>5. LockTypeOK'
  BY DEF TypeInv, Typed, LockTypeOK, CommitHead, RollbackHead, Step, RestoreSteps
<1>6. Typed'
  BY <1>4, <1>5, KeptGroups DEF TypeInv, Typed, CommitHead, RollbackHead
<1>7. HeadInstalled' /\ CaptureKnown' /\ RestoreKnown'
  BY <1>3 DEF CommitHead, RollbackHead, Step, TypeInv, restoreState, volatile, HeadInstalled,
     CaptureKnown, RestoreKnown, CaptureSteps, JournalSteps, ActiveSteps, ReceiptSteps
<1>8. QED
  BY <1>6, <1>7 DEF TypeInv

\* Projection records the inode that the restored path names.
LEMMA ProjectTyped == TypeInv /\ Project => TypeInv'
<1> SUFFICES ASSUME TypeInv, Project PROVE TypeInv'
  OBVIOUS
<1>1. active \in RestoreTransaction
  BY ActiveTyped DEF TypeInv, RestoreKnown, ActiveSteps, Project, Step
<1>2. active.binding.object \in Ids /\ dir[active.path] \in Inodes
  BY <1>1 DEF RestoreTransaction, Binding, Project, IsRegular, Live, TypeInv, Typed,
     WorkspaceTypeOK
<1>3. StoreTypeOK'
  BY <1>2, PutPartial DEF TypeInv, Typed, StoreTypeOK, Project
<1>4. LockTypeOK'
  BY DEF TypeInv, Typed, LockTypeOK, Project, Step, RestoreSteps
<1>5. Typed'
  BY <1>3, <1>4, KeptGroups DEF TypeInv, Typed, Project
<1>6. HeadInstalled' /\ CaptureKnown' /\ RestoreKnown'
  BY DEF Project, Step, TypeInv, restoreState, volatile, HeadInstalled, CaptureKnown,
     RestoreKnown, CaptureSteps, JournalSteps, ActiveSteps, ReceiptSteps
<1>7. QED
  BY <1>5, <1>6 DEF TypeInv

\* Steps that only decide where the lock holder goes next.
LEMMA RestoreMovesTyped ==
  TypeInv /\ (ReuseStage \/ VerifyPublication \/ RestoreFails \/ RetainAuthority) => TypeInv'
<1> SUFFICES ASSUME TypeInv, ReuseStage \/ VerifyPublication \/ RestoreFails \/ RetainAuthority
             PROVE  TypeInv'
  OBVIOUS
<1>1. UNCHANGED <<workspaceVars, store, journal, restoreState, volatile, holder, crashes>>
  BY DEF ReuseStage, VerifyPublication, RestoreFails, RetainAuthority, Step, workspaceAndStages,
     restoreState
<1>2. \/ pc \in ActiveSteps /\ pc' \in ActiveSteps \ {"r_cas"}
      \/ pc \in ReceiptSteps /\ pc' \in ReceiptSteps
  BY DEF ReuseStage, VerifyPublication, RestoreFails, RetainAuthority, Step, ActiveSteps,
     ReceiptSteps
<1>3. LockTypeOK'
  BY <1>1, <1>2 DEF TypeInv, Typed, LockTypeOK, RestoreSteps, ActiveSteps, ReceiptSteps
<1>4. Typed'
  BY <1>1, <1>3, KeptGroups DEF TypeInv, Typed
<1>5. HeadInstalled' /\ CaptureKnown' /\ RestoreKnown'
  BY <1>1, <1>2 DEF TypeInv, store, restoreState, volatile, HeadInstalled,
     CaptureKnown, RestoreKnown, CaptureSteps, JournalSteps, ActiveSteps, ReceiptSteps
<1>6. QED
  BY <1>4, <1>5 DEF TypeInv

\* A receipt names the pending transaction and the inode of its stage.
LEMMA ReceiptsTyped ==
  TypeInv /\ (WriteCommittedReceipt \/ RetireModified \/ RetainFindsEdit) => TypeInv'
<1> SUFFICES ASSUME TypeInv, WriteCommittedReceipt \/ RetireModified \/ RetainFindsEdit
             PROVE  TypeInv'
  OBVIOUS
<1>1. PICK d \in Dispositions : WriteReceipt(d)
  BY DEF WriteCommittedReceipt, RetireModified, RetainFindsEdit, Dispositions
<1>2. txn \in RestoreTransaction /\ txn.key \in DOMAIN slot
  <2>1. active # None \/ recovery # None
    BY DEF TypeInv, RestoreKnown, ActiveSteps, ReceiptSteps, WriteCommittedReceipt,
       RetireModified, RetainFindsEdit, Step
  <2>2. recovery # None => recovery.txn \in RestoreTransaction /\ recovery.txn.key \in DOMAIN slot
    BY DEF TypeInv, Typed, RestoreTypeOK, RestoreKnown, CleanupReceipt
  <2>3. QED
    BY <2>1, <2>2, ActiveTyped DEF txn
<1>3. slot[txn.key] \in Slot
  BY <1>2, PartialFunctionsAre DEF TypeInv, Typed, RestoreTypeOK
<1>4. Receipt(d, txn) \in CleanupReceipt
  BY <1>2, <1>3 DEF Receipt, Stage, Slot, CleanupReceipt
<1>5. recovery' # None /\ recovery'.txn = txn
  BY <1>1, <1>4, NoneIsNoRecord DEF WriteReceipt, Receipt
<1>6. /\ UNCHANGED <<workspaceVars, slot, store, journal, active, authority, volatile, holder,
                     crashes>>
      /\ pc' \in ReceiptSteps
  BY <1>1 DEF WriteReceipt, WriteCommittedReceipt, RetireModified, RetainFindsEdit, Step,
     workspaceAndStages, ReceiptSteps
<1>7. RestoreTypeOK'
  BY <1>1, <1>4, <1>6 DEF TypeInv, Typed, RestoreTypeOK, WriteReceipt
<1>8. LockTypeOK'
  <2>1. pc # "idle"
    BY DEF WriteCommittedReceipt, RetireModified, RetainFindsEdit, Step
  <2>2. QED
    BY <1>6, <2>1 DEF TypeInv, Typed, LockTypeOK, RestoreSteps, ReceiptSteps
<1>9. Typed'
  BY <1>6, <1>7, <1>8, KeptGroups DEF TypeInv, Typed
<1>10. HeadInstalled' /\ CaptureKnown' /\ RestoreKnown'
  BY <1>2, <1>5, <1>6 DEF TypeInv, store, volatile, HeadInstalled,
     CaptureKnown, RestoreKnown, CaptureSteps, JournalSteps, ActiveSteps, ReceiptSteps
<1>11. QED
  BY <1>9, <1>10 DEF TypeInv

\* The link is recorded as retained, then the journal and the receipt go.
LEMMA CleanupTyped == TypeInv /\ (WriteAuthority \/ RetireIntent) => TypeInv'
<1> SUFFICES ASSUME TypeInv, WriteAuthority \/ RetireIntent PROVE TypeInv'
  OBVIOUS
<1>1. recovery # None
  BY DEF TypeInv, RestoreKnown, ReceiptSteps, WriteAuthority, RetireIntent, Step
<1>2. txn.key \in RestoreKeys
  BY <1>1 DEF txn, TypeInv, Typed, RestoreTypeOK, CleanupReceipt, RestoreTransaction
<1>3. RestoreTypeOK'
  BY <1>2 DEF TypeInv, Typed, RestoreTypeOK, WriteAuthority, RetireIntent, workspaceAndStages
<1>4. LockTypeOK'
  BY DEF TypeInv, Typed, LockTypeOK, WriteAuthority, RetireIntent, Step, RestoreSteps
<1>5. Typed'
  BY <1>3, <1>4, KeptGroups DEF TypeInv, Typed, WriteAuthority, RetireIntent, workspaceAndStages
<1>6. HeadInstalled' /\ CaptureKnown' /\ RestoreKnown'
  BY DEF WriteAuthority, RetireIntent, Step, TypeInv, workspaceAndStages, store, volatile,
     HeadInstalled, CaptureKnown, RestoreKnown, CaptureSteps, JournalSteps, ActiveSteps,
     ReceiptSteps
<1>7. QED
  BY <1>5, <1>6 DEF TypeInv

\* Retiring the receipt ends the call.
LEMMA RetireReceiptTyped == TypeInv /\ RetireReceipt => TypeInv'
<1> SUFFICES ASSUME TypeInv, RetireReceipt PROVE TypeInv'
  OBVIOUS
<1>1. RestoreTypeOK'
  BY DEF TypeInv, Typed, RestoreTypeOK, RetireReceipt, workspaceAndStages
<1>2. Typed'
  BY <1>1, KeptGroups, ReturnTyped
  DEF TypeInv, Typed, LockTypeOK, RetireReceipt, workspaceAndStages
<1>3. HeadInstalled' /\ CaptureKnown' /\ RestoreKnown'
  BY ReturnTyped DEF RetireReceipt, TypeInv, workspaceAndStages, store, HeadInstalled,
     CaptureKnown, RestoreKnown, CaptureSteps, JournalSteps, ActiveSteps, ReceiptSteps
<1>4. QED
  BY <1>2, <1>3 DEF TypeInv

\* Every step a restore takes under the lock keeps the invariant.
LEMMA RestoreStepTyped == TypeInv /\ RestoreStep => TypeInv'
<1>1. TypeInv /\ (RestoreRefused \/ RestoreStaysPending) => TypeInv'
  BY ReturningTyped DEF RestoreRefused, RestoreStaysPending
<1>2. QED
  BY <1>1, RebindHeadTyped, WriteRestoreJournalTyped, CreateStageTyped, CopyStageTyped,
     PublishTyped, InstallTargetTyped, RestoreHeadTyped, ProjectTyped, RestoreMovesTyped,
     ReceiptsTyped, CleanupTyped, RetireReceiptTyped
  DEF RestoreStep

-----------------------------------------------------------------------------
(* The theorem.                                                            *)

\* The invariant is inductive.
LEMMA NextTyped == TypeInv /\ [Next]_vars => TypeInv'
<1>1. TypeInv /\ UNCHANGED vars => TypeInv'
  <2> SUFFICES ASSUME TypeInv, UNCHANGED vars PROVE TypeInv'
    OBVIOUS
  <2>1. Typed'
    BY KeptGroups DEF TypeInv, Typed, LockTypeOK, vars, localVars, lock
  <2>2. HeadInstalled' /\ CaptureKnown' /\ RestoreKnown'
    BY DEF TypeInv, vars, localVars, store, restoreState, volatile, lock, HeadInstalled,
       CaptureKnown, RestoreKnown, Restorable
  <2>3. QED
    BY <2>1, <2>2 DEF TypeInv
<1>2. QED
  BY <1>1, UserTyped, CrashTyped, SealStepTyped, RestoreStepTyped, CaptureStepTyped,
     RestoreCallTyped
  DEF Next, Core

\* Members of the record sets have the parts TypeOK asks of them.
LEMMA RecordsAre ==
  /\ \A v \in Version : IsVersion(v)
  /\ \A pl \in CapturePlan : IsCapturePlan(pl)
  /\ \A t \in CaptureTransaction : IsCaptureTransaction(t)
<1>1. \A v \in Version : IsVersion(v)
  BY PartialFunctionsAre DEF Version, IsVersion, IsPartial
<1>2. \A pl \in CapturePlan : IsCapturePlan(pl)
  BY PartialFunctionsAre DEF CapturePlan, IsCapturePlan, IsPartial
<1>3. \A t \in CaptureTransaction : IsCaptureTransaction(t)
  BY <1>2, PartialFunctionsAre DEF CaptureTransaction, IsCaptureTransaction, IsPartial
<1>4. QED
  BY <1>1, <1>2, <1>3

\* The two forms of the type invariant.
LEMMA TypedAre == Typed => TypeOK
<1> SUFFICES ASSUME Typed PROVE TypeOK
  OBVIOUS
<1>1. /\ IsPartial(objvers, Ids, Contents \cup {None})
      /\ IsPartial(identity, Ids, Inodes)
      /\ IsPartial(slot, RestoreKeys, Slot)
  BY PartialFunctionsAre DEF Typed, StoreTypeOK, RestoreTypeOK, IsPartial
<1>2. \A id \in DOMAIN versions : IsVersion(versions[id])
  BY RecordsAre DEF Typed, StoreTypeOK
<1>3. journal # None => IsCaptureTransaction(journal)
  BY RecordsAre DEF Typed, JournalTypeOK
<1>4. DOMAIN plan = Procs /\ \A p \in Procs : plan[p] # None => IsCapturePlan(plan[p])
  BY RecordsAre DEF Typed, VolatileTypeOK
<1>5. IsPartial(built, Paths, Binding)
  BY PartialFunctionsAre DEF Typed, VolatileTypeOK, IsPartial
<1>6. QED
  BY <1>1, <1>2, <1>3, <1>4, <1>5
  DEF Typed, TypeOK, StoreTypeOK, RestoreTypeOK, VolatileTypeOK, LockTypeOK

\* The type invariant, with what each step relies on, is an invariant.
THEOREM TypeInvariance == Spec => []TypeInv
BY InitTyped, NextTyped, PTL DEF Spec

\* Every variable keeps the type its serialised record has in the code, in
\* every state capture, restore, users and crashes can reach.
THEOREM TypeCorrect == Spec => []TypeOK
<1>1. TypeInv => TypeOK
  BY TypedAre DEF TypeInv
<1>2. QED
  BY <1>1, TypeInvariance, PTL

\* Local Head never names a version that is not installed.
THEOREM HeadAlwaysInstalled == Spec => []HeadInstalled
<1>1. TypeInv => HeadInstalled
  BY DEF TypeInv
<1>2. QED
  BY <1>1, TypeInvariance, PTL

-----------------------------------------------------------------------------
(* Mutual exclusion of the durable transactions.                           *)

IntentSteps == {"rebind", "journal"}

\* Whoever holds the lock keeps the other transaction away: a capture while no
\* restore is pending, a restore while no capture is, and a restore reaches its
\* receipt only from its own journal.
LockDiscipline ==
  /\ pc \in CaptureSteps => ~ RestorePending
  /\ pc \in RestoreSteps => journal = None
  /\ pc \in IntentSteps => ~ RestorePending
  /\ pc \in ActiveSteps => recovery = None
  /\ Exclusive

\* Nothing is pending and nobody holds the lock at first.
LEMMA InitDisciplined == Init => LockDiscipline
BY DEF Init, LockDiscipline, CaptureSteps, RestoreSteps, IntentSteps, ActiveSteps, Exclusive,
   RestorePending

\* Nobody at a step: only mutual exclusion is left to keep.
LEMMA ReturnDisciplined ==
  ASSUME LockDiscipline, Return, journal' \in {journal, None}, active' = active,
         recovery' \in {recovery, None}
  PROVE  LockDiscipline'
BY DEF LockDiscipline, Return, CaptureSteps, RestoreSteps, IntentSteps, ActiveSteps, Exclusive,
   RestorePending

\* A capture gets the lock only when no restore is pending.
LEMMA CaptureStepDisciplined ==
  ASSUME NEW p \in Procs, LockDiscipline, CaptureStep(p)
  PROVE  LockDiscipline'
<1>1. CASE PlanCapture(p) \/ SealRefused(p)
  BY <1>1 DEF PlanCapture, SealRefused, restoreState, lock, LockDiscipline, Exclusive,
     RestorePending
<1>2. CASE SealDropStale(p)
  BY <1>2 DEF SealDropStale, Admitted, Acquire, restoreState, LockDiscipline, Exclusive,
     RestorePending, RestoreSteps, IntentSteps, ActiveSteps
<1>3. CASE SealStart(p)
  <2>1. pc' \in {"assign", "build", "recover_identities"} /\ ~ RestorePending
        /\ UNCHANGED <<journal, restoreState>>
    BY <1>3 DEF SealStart, Admitted, Acquire
  <2>2. QED
    BY <2>1 DEF restoreState, LockDiscipline, Exclusive, RestorePending, RestoreSteps,
       IntentSteps, ActiveSteps
<1>4. QED
  BY <1>1, <1>2, <1>3 DEF CaptureStep

\* The holder's steps leave no journal behind beside a restore.
LEMMA SealStepDisciplined == LockDiscipline /\ SealStep => LockDiscipline'
<1> SUFFICES ASSUME LockDiscipline, SealStep PROVE LockDiscipline'
  OBVIOUS
<1>1. CASE SealNothing \/ RemoveJournal \/ SealFails
  BY <1>1, ReturnDisciplined DEF SealNothing, RemoveJournal, SealFails, restoreState
<1>2. CASE WriteCaptureIdentities \/ RecoverCleanup \/ SealAssign \/ ReadEntry
           \/ InstallVersion \/ FinalPlanCheck \/ MoveHead
  <2>1. pc \in CaptureSteps /\ pc' \in CaptureSteps /\ UNCHANGED restoreState
    BY <1>2 DEF WriteCaptureIdentities, RecoverCleanup, SealAssign, ReadEntry,
       InstallVersion, FinalPlanCheck, MoveHead, Step, CaptureSteps
  <2>2. QED
    BY <2>1 DEF restoreState, LockDiscipline, Exclusive, RestorePending, CaptureSteps,
       RestoreSteps, IntentSteps, ActiveSteps
<1>3. QED
  BY <1>1, <1>2 DEF SealStep

\* A restore gets the lock only when no capture is pending.
LEMMA RestoreCallDisciplined ==
  ASSUME NEW p \in Procs, LockDiscipline, RestoreCall(p)
  PROVE  LockDiscipline'
<1>1. PICK step \in {"rebind", "stage", "retain", "modified"} :
        /\ Acquire(p, step)
        /\ journal = None
        /\ step = "rebind" => ~ RestorePending
        /\ step = "stage" => recovery = None
        /\ UNCHANGED <<journal, restoreState>>
  BY DEF RestoreCall, RestoreAdmit, RestoreResume, RestoreRecover, RestorePending
<1>2. QED
  BY <1>1 DEF Acquire, restoreState, LockDiscipline, Exclusive, RestorePending, CaptureSteps,
     RestoreSteps, IntentSteps, ActiveSteps

\* The restore's steps never write a capture journal.
LEMMA RestoreStepDisciplined == LockDiscipline /\ RestoreStep => LockDiscipline'
<1> SUFFICES ASSUME LockDiscipline, RestoreStep PROVE LockDiscipline'
  OBVIOUS
<1>1. CASE RestoreRefused \/ RetireReceipt \/ RestoreStaysPending
  BY <1>1, ReturnDisciplined DEF RestoreRefused, RetireReceipt, RestoreStaysPending, restoreState
<1>2. CASE RebindHead \/ WriteRestoreJournal
  BY <1>2 DEF RebindHead, WriteRestoreJournal, Step, restoreState, LockDiscipline, Exclusive,
     RestorePending, CaptureSteps, RestoreSteps, IntentSteps, ActiveSteps
<1>3. CASE CreateStage \/ CopyStage \/ ReuseStage \/ Publish \/ InstallTarget \/ CommitHead
           \/ VerifyPublication \/ Project \/ RestoreFails \/ RollbackHead
  <2>1. pc \in ActiveSteps /\ pc' \in ActiveSteps /\ UNCHANGED <<journal, active, recovery>>
    BY <1>3 DEF CreateStage, CopyStage, ReuseStage, Publish, InstallTarget, CommitHead,
       VerifyPublication, Project, RestoreFails, RollbackHead, Step, ActiveSteps, restoreState,
       unchangedButFiles
  <2>2. QED
    BY <2>1 DEF LockDiscipline, Exclusive, RestorePending, CaptureSteps, RestoreSteps,
       IntentSteps, ActiveSteps
<1>4. CASE WriteCommittedReceipt \/ RetireModified \/ RetainFindsEdit \/ RetainAuthority
           \/ WriteAuthority \/ RetireIntent
  <2>1. pc \in RestoreSteps /\ pc' \in ReceiptSteps /\ UNCHANGED journal
    BY <1>4 DEF WriteCommittedReceipt, RetireModified, RetainFindsEdit, RetainAuthority,
       WriteAuthority, RetireIntent, WriteReceipt, Step, RestoreSteps, ReceiptSteps
  <2>2. QED
    BY <2>1 DEF LockDiscipline, Exclusive, CaptureSteps, RestoreSteps, IntentSteps, ActiveSteps,
       ReceiptSteps
<1>5. QED
  BY <1>1, <1>2, <1>3, <1>4 DEF RestoreStep

\* The discipline is inductive.
LEMMA NextDisciplined == LockDiscipline /\ [Next]_vars => LockDiscipline'
<1> SUFFICES ASSUME LockDiscipline, [Next]_vars PROVE LockDiscipline'
  OBVIOUS
<1>1. CASE User \/ UNCHANGED vars
  BY <1>1 DEF User, vars, localVars, restoreState, lock, LockDiscipline, Exclusive,
     RestorePending
<1>2. CASE Crash
  BY <1>2, ReturnDisciplined DEF Crash, restoreState
<1>3. QED
  BY <1>1, <1>2, CaptureStepDisciplined, SealStepDisciplined, RestoreCallDisciplined,
     RestoreStepDisciplined
  DEF Next, Core

\* The lock, and the refusals before it is taken, are enough to keep a pending
\* capture and a pending restore from existing at once, whoever dies when.
THEOREM Discipline == Spec => []LockDiscipline
BY InitDisciplined, NextDisciplined, PTL DEF Spec

\* Capture and restore never have an intent pending at the same time, at whatever
\* step a process dies.
THEOREM ExclusiveAlways == Spec => []Exclusive
<1>1. LockDiscipline => Exclusive
  BY DEF LockDiscipline
<1>2. QED
  BY <1>1, Discipline, PTL

-----------------------------------------------------------------------------
(* Fresh identifiers.                                                      *)

\* Every identifier a durable record names has been issued, so that the next
\* one is none of them.
Numbered ==
  /\ head # None => head.version <= issued
  /\ journal # None => journal.target <= issued
  /\ active # None => active.target <= issued /\ active.expected.version <= issued
  /\ \A k \in DOMAIN slot : slot[k].target <= issued

\* No identifier has been issued at first.
LEMMA InitNumbered == Init => Numbered
BY DEF Init, Numbered, NoEntries

\* Identifiers in the records are numbers.
LEMMA Numbers ==
  ASSUME TypeInv
  PROVE  /\ issued \in Nat
         /\ head # None => head.version \in Nat
         /\ journal # None => journal.target \in Nat
         /\ active # None => active.target \in Nat /\ active.expected.version \in Nat
         /\ \A k \in DOMAIN slot : slot[k].target \in Nat
<1>1. \A k \in DOMAIN slot : slot[k] \in Slot
  BY PartialFunctionsAre DEF TypeInv, Typed, RestoreTypeOK
<1>2. QED
  BY <1>1 DEF TypeInv, Typed, StoreTypeOK, JournalTypeOK, RestoreTypeOK, OptionalHead, Head,
     CaptureTransaction, RestoreTransaction, Slot

\* A journal's target is an identifier nobody has used.
LEMMA SealAssignNumbered == TypeInv /\ Numbered /\ SealAssign => Numbered'
<1> SUFFICES ASSUME TypeInv, Numbered, SealAssign PROVE Numbered'
  OBVIOUS
<1>1. issued' = issued + 1 /\ journal'.target = issued + 1
      /\ UNCHANGED <<head, active, slot>>
  BY DEF SealAssign, NewTransaction, restoreState
<1>2. QED
  BY <1>1, Numbers DEF Numbered

\* A restore's target is fresh, or the one its own slot was given before.
LEMMA WriteRestoreJournalNumbered == TypeInv /\ Numbered /\ WriteRestoreJournal => Numbered'
<1> SUFFICES ASSUME TypeInv, Numbered, WriteRestoreJournal PROVE Numbered'
  OBVIOUS
<1>1. head # None
  BY DEF TypeInv, RestoreKnown, WriteRestoreJournal, Step
<1>2. UNCHANGED <<head, journal>> /\ active'.expected = head
  BY DEF WriteRestoreJournal, NewRestore
<1>3. CASE restoreKey \in DOMAIN slot
  <2>1. active'.target = slot[restoreKey].target /\ issued' = issued /\ slot' = slot
    BY <1>3 DEF WriteRestoreJournal, NewRestore
  <2>2. QED
    BY <1>1, <1>2, <1>3, <2>1 DEF Numbered
<1>4. CASE restoreKey \notin DOMAIN slot
  <2>1. active'.target = issued + 1 /\ issued' = issued + 1
        /\ slot' = Put(slot, restoreKey, [target |-> issued + 1, ino |-> None])
    BY <1>4 DEF WriteRestoreJournal, NewRestore
  <2>2. \A k \in DOMAIN slot' : slot'[k].target <= issued + 1
    BY <2>1, Numbers DEF Put, Numbered
  <2>3. QED
    BY <1>1, <1>2, <2>1, <2>2, Numbers DEF Numbered
<1>5. QED
  BY <1>3, <1>4

\* A stage changes no identifier.
LEMMA CreateStageNumbered == TypeInv /\ Numbered /\ CreateStage => Numbered'
<1> SUFFICES ASSUME TypeInv, Numbered, CreateStage PROVE Numbered'
  OBVIOUS
<1>1. UNCHANGED <<head, issued, journal, active>>
  BY DEF CreateStage, unchangedButFiles, store
<1>2. PICK i \in Allocatable : slot' = [slot EXCEPT ![active.key].ino = i]
  BY DEF CreateStage
<1>3. \A k \in DOMAIN slot : slot[k] \in Slot
  BY PartialFunctionsAre DEF TypeInv, Typed, RestoreTypeOK
<1>4. \A k \in DOMAIN slot' : k \in DOMAIN slot /\ slot'[k].target = slot[k].target
  BY <1>2, <1>3 DEF Slot
<1>5. QED
  BY <1>1, <1>4 DEF Numbered

\* The Head only moves to an identifier that was issued.
LEMMA MovesNumbered ==
  TypeInv /\ Numbered /\ (MoveHead \/ RebindHead \/ CommitHead \/ RollbackHead) => Numbered'
<1> SUFFICES ASSUME TypeInv, Numbered, MoveHead \/ RebindHead \/ CommitHead \/ RollbackHead
             PROVE  Numbered'
  OBVIOUS
<1>1. UNCHANGED <<issued, journal, active, slot>>
  BY DEF MoveHead, RebindHead, CommitHead, RollbackHead, restoreState
<1>2. head' # None => head'.version <= issued
  <2>1. CASE MoveHead
    BY <2>1 DEF MoveHead, Step, Numbered, TypeInv, CaptureKnown, JournalSteps
  <2>2. CASE RebindHead
    <3>1. head \in Head
      BY <2>2 DEF RebindHead, Step, TypeInv, Typed, StoreTypeOK, OptionalHead, RestoreKnown
    <3>2. QED
      BY <2>2, <3>1, NoneIsNoRecord DEF RebindHead, Numbered, Head
  <2>3. CASE CommitHead \/ RollbackHead
    BY <2>3 DEF CommitHead, RollbackHead, Step, TargetHead, Numbered, TypeInv, RestoreKnown,
       ActiveSteps
  <2>4. QED
    BY <2>1, <2>2, <2>3
<1>3. QED
  BY <1>1, <1>2 DEF Numbered

\* Every other step issues nothing and moves no Head.
LEMMA OthersNumbered ==
  ASSUME Numbered, UNCHANGED <<head, issued, slot>>, journal' \in {journal, None},
         active' \in {active, None}
  PROVE  Numbered'
BY DEF Numbered

\* The numbering is inductive, given the types.
LEMMA NextNumbered == TypeInv /\ Numbered /\ [Next]_vars => Numbered'
<1> SUFFICES ASSUME TypeInv, Numbered, [Next]_vars PROVE Numbered'
  OBVIOUS
<1>1. CASE User \/ Crash \/ UNCHANGED vars
  BY <1>1, OthersNumbered DEF User, Crash, vars, localVars, store, restoreState
<1>2. ASSUME NEW p \in Procs, CaptureStep(p) \/ RestoreCall(p) PROVE Numbered'
  BY <1>2, OthersNumbered DEF CaptureStep, PlanCapture, SealRefused, SealDropStale, SealStart,
     RestoreCall, RestoreAdmit, RestoreResume, RestoreRecover, store, restoreState
<1>3. CASE SealStep
  <2>1. CASE WriteCaptureIdentities \/ RecoverCleanup \/ SealNothing \/ ReadEntry
             \/ InstallVersion \/ FinalPlanCheck \/ RemoveJournal \/ SealFails
    BY <2>1, OthersNumbered DEF WriteCaptureIdentities, RecoverCleanup, SealNothing,
       ReadEntry, InstallVersion, FinalPlanCheck, RemoveJournal, SealFails, store,
       restoreState
  <2>2. QED
    BY <1>3, <2>1, SealAssignNumbered, MovesNumbered DEF SealStep
<1>4. CASE RestoreStep
  <2>1. CASE RestoreRefused \/ CopyStage \/ ReuseStage \/ Publish \/ InstallTarget
             \/ VerifyPublication \/ Project \/ RestoreFails
    BY <2>1, OthersNumbered DEF RestoreRefused, CopyStage, ReuseStage, Publish, InstallTarget,
       VerifyPublication, Project, RestoreFails, store, restoreState, unchangedButFiles,
       workspaceAndStages
  <2>2. CASE WriteCommittedReceipt \/ RetireModified \/ RetainFindsEdit \/ RetainAuthority
             \/ WriteAuthority \/ RetireIntent \/ RetireReceipt \/ RestoreStaysPending
    BY <2>2, OthersNumbered DEF WriteCommittedReceipt, RetireModified, RetainFindsEdit,
       RetainAuthority, WriteAuthority, RetireIntent, RetireReceipt, RestoreStaysPending,
       WriteReceipt, store, restoreState, workspaceAndStages
  <2>3. QED
    BY <1>4, <2>1, <2>2, WriteRestoreJournalNumbered, CreateStageNumbered, MovesNumbered
    DEF RestoreStep
<1>5. QED
  BY <1>1, <1>2, <1>3, <1>4 DEF Next, Core

-----------------------------------------------------------------------------
(* Anchors: each pending transaction can tell where Local Head stands.     *)

\* A restore past its commit is at its target, and the link of an unedited
\* restore is retained under a committed receipt.
RestoreProgress ==
  /\ pc \in {"verify", "project", "reverify", "receipt"} => HeadCommitted(active)
  /\ pc = "retain" => recovery.disposition = "committed"

Anchored == JournalAnchored /\ RestoreAnchored /\ RestoreProgress

\* What the anchors' preservation may use of the other invariants.
Known == TypeInv /\ LockDiscipline /\ Numbered

\* Nothing is pending, so nothing needs an anchor, at first.
LEMMA InitAnchored == Init => Anchored
BY DEF Init, Anchored, JournalAnchored, RestoreAnchored, RestoreProgress

\* A step that leaves Head and the transactions alone may add a version, or
\* return; either transaction may also be retired.
LEMMA QuietAnchored ==
  ASSUME Anchored, UNCHANGED head, journal' \in {journal, None}, active' \in {active, None},
         recovery' \in {recovery, None}, DOMAIN versions \subseteq DOMAIN versions',
         RestoreProgress'
  PROVE  Anchored'
BY DEF Anchored, JournalAnchored, RestoreAnchored, HeadIsTarget, TargetHead

\* Users and process deaths move neither the Head nor an intent.
LEMMA UserOrCrashAnchored ==
  Anchored /\ (User \/ Crash \/ UNCHANGED vars) => Anchored'
<1> SUFFICES ASSUME Anchored, User \/ Crash \/ UNCHANGED vars PROVE Anchored'
  OBVIOUS
<1>1. UNCHANGED <<head, versions, journal, active, recovery>> /\ pc' \in {pc, "idle"}
  BY DEF User, Crash, Return, vars, localVars, store, restoreState, lock
<1>2. RestoreProgress'
  BY <1>1 DEF Anchored, RestoreProgress, HeadCommitted, TargetHead
<1>3. QED
  BY <1>1, <1>2, QuietAnchored

\* Taking the lock moves neither, and starts at a step whose anchor is known.
LEMMA CallAnchored ==
  ASSUME Anchored, NEW p \in Procs, CaptureStep(p) \/ RestoreCall(p)
  PROVE  Anchored'
<1>1. /\ UNCHANGED <<head, versions, active, recovery>> /\ journal' \in {journal, None}
      /\ \/ pc' = pc
         \/ pc' \in {"assign", "build", "recover_identities", "rebind", "stage", "modified"}
         \/ pc' = "retain" /\ recovery.disposition = "committed"
  BY DEF CaptureStep, PlanCapture, SealRefused, SealDropStale, SealStart, RestoreCall,
     RestoreAdmit, RestoreResume, RestoreRecover, Acquire, store, restoreState, lock
<1>2. RestoreProgress'
  BY <1>1 DEF Anchored, RestoreProgress, HeadCommitted, TargetHead
<1>3. QED
  BY <1>1, <1>2, QuietAnchored

\* A journal is born with the Head it expects.
LEMMA SealAssignAnchored == Known /\ Anchored /\ SealAssign => Anchored'
<1> SUFFICES ASSUME Known, Anchored, SealAssign PROVE Anchored'
  OBVIOUS
<1>1. /\ UNCHANGED <<head, versions, active, recovery>> /\ pc' = "build"
      /\ journal'.target = issued + 1 /\ journal'.expected = head
  BY DEF SealAssign, NewTransaction, Step, restoreState
<1>2. head # None => head.version # issued + 1
  BY Numbers DEF Known, Numbered
<1>3. QED
  BY <1>1, <1>2 DEF Anchored, JournalAnchored, RestoreAnchored, RestoreProgress, HeadIsTarget,
     TargetHead

\* The Head leaves the expected one only for the installed target.
LEMMA MoveHeadAnchored == Known /\ Anchored /\ MoveHead => Anchored'
<1> SUFFICES ASSUME Known, Anchored, MoveHead PROVE Anchored'
  OBVIOUS
<1>1. /\ UNCHANGED <<versions, journal, active, recovery>> /\ pc' = "identities"
      /\ head' = [version |-> journal.target, authority |-> "capture_transaction_v1"]
      /\ journal.target \in DOMAIN versions
      /\ active = None /\ recovery = None
  BY DEF MoveHead, Step, restoreState, Known, TypeInv, CaptureKnown, LockDiscipline,
     CaptureSteps, RestorePending
<1>2. head' # None
  BY <1>1, NoneIsNoRecord DEF MoveHead, Step, Known, TypeInv, Typed, StoreTypeOK, Head,
     HeadAuthorities
<1>3. QED
  BY <1>1, <1>2 DEF JournalAnchored, RestoreAnchored, RestoreProgress, Anchored, HeadIsTarget

\* Every step of a capture keeps both intents anchored.
LEMMA SealStepAnchored == Known /\ Anchored /\ SealStep => Anchored'
<1> SUFFICES ASSUME Known, Anchored, SealStep PROVE Anchored'
  OBVIOUS
<1>1. CASE WriteCaptureIdentities \/ RecoverCleanup \/ SealNothing \/ ReadEntry
           \/ InstallVersion \/ FinalPlanCheck \/ RemoveJournal \/ SealFails
  <2>1. /\ UNCHANGED <<head, active, recovery>> /\ journal' \in {journal, None}
        /\ pc' \in CaptureSteps \cup {"idle"}
    BY <1>1 DEF WriteCaptureIdentities, RecoverCleanup, SealNothing, ReadEntry,
       InstallVersion, FinalPlanCheck, RemoveJournal, SealFails, Return, Step, store,
       restoreState, CaptureSteps
  <2>2. DOMAIN versions \subseteq DOMAIN versions'
    BY <1>1 DEF WriteCaptureIdentities, RecoverCleanup, SealNothing, ReadEntry,
       InstallVersion, FinalPlanCheck, RemoveJournal, SealFails, store, Put
  <2>3. RestoreProgress'
    BY <2>1 DEF RestoreProgress, CaptureSteps
  <2>4. QED
    BY <2>1, <2>2, <2>3, QuietAnchored
<1>2. QED
  BY <1>1, SealAssignAnchored, MoveHeadAnchored DEF SealStep

\* The steps of a restore that move Head or write its journal.
LEMMA RestoreHeadAnchored ==
  Known /\ Anchored /\ (RebindHead \/ WriteRestoreJournal \/ CommitHead \/ RollbackHead)
    => Anchored'
<1> SUFFICES ASSUME Known, Anchored,
                    RebindHead \/ WriteRestoreJournal \/ CommitHead \/ RollbackHead
             PROVE  Anchored'
  OBVIOUS
<1>1. journal' = None /\ recovery' = None
  BY DEF RebindHead, WriteRestoreJournal, CommitHead, RollbackHead, Step, restoreState, Known,
     LockDiscipline, RestoreSteps, IntentSteps, ActiveSteps, RestorePending
<1>2. CASE RebindHead
  <2>1. active' = None /\ pc' = "journal"
    BY <1>2 DEF RebindHead, Step, restoreState, Known, LockDiscipline, IntentSteps, RestorePending
  <2>2. QED
    BY <1>1, <2>1 DEF Anchored, JournalAnchored, RestoreAnchored, RestoreProgress
<1>3. CASE WriteRestoreJournal
  <2>1. active'.expected = head' /\ pc' = "stage"
    BY <1>3 DEF WriteRestoreJournal, NewRestore, Step
  <2>2. QED
    BY <1>1, <2>1 DEF Anchored, JournalAnchored, RestoreAnchored, RestoreProgress
<1>4. CASE CommitHead \/ RollbackHead
  <2>1. /\ active' = active
        /\ \/ head' = TargetHead(active) /\ pc' = "verify"
           \/ head' = active.expected /\ pc' = "failed"
    BY <1>4 DEF CommitHead, RollbackHead, Step, restoreState
  <2>2. QED
    BY <1>1, <2>1 DEF Anchored, JournalAnchored, RestoreAnchored, RestoreProgress, TargetHead,
       HeadCommitted
<1>5. QED
  BY <1>2, <1>3, <1>4

\* The steps that write a receipt.
LEMMA ReceiptAnchored ==
  Known /\ Anchored /\ (WriteCommittedReceipt \/ RetireModified \/ RetainFindsEdit) => Anchored'
<1> SUFFICES ASSUME Known, Anchored, WriteCommittedReceipt \/ RetireModified \/ RetainFindsEdit
             PROVE  Anchored'
  OBVIOUS
<1>1. UNCHANGED <<head, versions, journal, active>> /\ journal = None /\ txn = recovery'.txn
  BY DEF WriteCommittedReceipt, RetireModified, RetainFindsEdit, WriteReceipt, Receipt, Step,
     store, Known, LockDiscipline, RestoreSteps
<1>2. active \in {None, txn}
  <2>1. recovery # None => active \in {None, recovery.txn}
    BY DEF Anchored, RestoreAnchored
  <2>2. QED
    BY <2>1 DEF txn
<1>3. CASE WriteCommittedReceipt
  <2>1. txn = active /\ head = TargetHead(active)
    BY <1>3 DEF WriteCommittedReceipt, Step, txn, Known, LockDiscipline, ActiveSteps, Anchored,
       RestoreProgress, HeadCommitted
  <2>2. recovery'.disposition = "committed" /\ pc' = "retain"
    BY <1>3 DEF WriteCommittedReceipt, WriteReceipt, Receipt, Step
  <2>3. QED
    BY <1>1, <1>2, <2>1, <2>2 DEF Anchored, JournalAnchored, RestoreAnchored, RestoreProgress,
       TargetHead
<1>4. CASE RetireModified
  <2>1. txn = active /\ head = active.expected
    BY <1>4 DEF RetireModified, Step, txn, Known, LockDiscipline, ActiveSteps
  <2>2. recovery'.disposition = "modified" /\ pc' = "modified"
    BY <1>4 DEF RetireModified, WriteReceipt, Receipt, Step
  <2>3. QED
    BY <1>1, <1>2, <2>1, <2>2 DEF Anchored, JournalAnchored, RestoreAnchored, RestoreProgress
<1>5. CASE RetainFindsEdit
  <2>1. txn = recovery.txn /\ head = TargetHead(recovery.txn)
    BY <1>5 DEF RetainFindsEdit, Step, txn, Known, TypeInv, RestoreKnown, ReceiptSteps, Anchored,
       RestoreAnchored, RestoreProgress
  <2>2. recovery'.disposition = "committed_modified" /\ pc' = "modified"
    BY <1>5 DEF RetainFindsEdit, WriteReceipt, Receipt, Step
  <2>3. active # None => head = TargetHead(active)
    BY <1>2, <2>1
  <2>4. QED
    BY <1>1, <1>2, <2>1, <2>2, <2>3 DEF Anchored, JournalAnchored, RestoreAnchored,
       RestoreProgress, TargetHead
<1>6. QED
  BY <1>3, <1>4, <1>5

\* Every step of a restore keeps both intents anchored.
LEMMA RestoreStepAnchored == Known /\ Anchored /\ RestoreStep => Anchored'
<1> SUFFICES ASSUME Known, Anchored, RestoreStep PROVE Anchored'
  OBVIOUS
<1>1. CASE RestoreRefused \/ RetireReceipt \/ RestoreStaysPending
  <2>1. /\ UNCHANGED <<head, versions, journal, active>> /\ recovery' \in {recovery, None}
        /\ pc' = "idle"
    BY <1>1 DEF RestoreRefused, RetireReceipt, RestoreStaysPending, Return, store, restoreState,
       workspaceAndStages
  <2>2. QED
    BY <2>1, QuietAnchored DEF RestoreProgress
<1>2. CASE CreateStage \/ CopyStage \/ ReuseStage \/ InstallTarget \/ RestoreFails \/ RetainAuthority
           \/ WriteAuthority \/ RetireIntent
  <2>1. /\ UNCHANGED <<head, journal, recovery>> /\ active' \in {active, None}
        /\ pc' \in {"stage_copy", "publish", "r_cas", "rollback", "failed", "authority",
                    "retire_intent", "retire_receipt"}
    BY <1>2 DEF CreateStage, CopyStage, ReuseStage, InstallTarget, RestoreFails, RetainAuthority,
       WriteAuthority, RetireIntent, Step, store, restoreState, unchangedButFiles,
       workspaceAndStages
  <2>2. DOMAIN versions \subseteq DOMAIN versions'
    BY <1>2 DEF CreateStage, CopyStage, ReuseStage, InstallTarget, RestoreFails, RetainAuthority,
       WriteAuthority, RetireIntent, store, unchangedButFiles, workspaceAndStages, Put
  <2>3. QED
    BY <2>1, <2>2, QuietAnchored DEF RestoreProgress
<1>3. CASE Publish \/ VerifyPublication \/ Project
  <2>1. /\ UNCHANGED <<head, versions, journal, active, recovery>>
        /\ pc' = "r_install" \/ HeadCommitted(active)
        /\ pc' # "retain"
    BY <1>3 DEF Publish, VerifyPublication, Project, Step, store, restoreState,
       unchangedButFiles, Anchored, RestoreProgress
  <2>2. RestoreProgress'
    BY <2>1 DEF RestoreProgress, HeadCommitted, TargetHead
  <2>3. QED
    BY <2>1, <2>2, QuietAnchored
<1>4. QED
  BY <1>1, <1>2, <1>3, RestoreHeadAnchored, ReceiptAnchored DEF RestoreStep

\* The anchoring is inductive, given the types, the discipline and the numbering.
LEMMA NextAnchored == Known /\ Anchored /\ [Next]_vars => Anchored'
BY UserOrCrashAnchored, CallAnchored, SealStepAnchored, RestoreStepAnchored DEF Next, Core

\* The whole protocol invariant holds in every reachable state.
THEOREM ProtocolInvariance == Spec => [](Known /\ Anchored)
<1>1. Init => Known /\ Anchored
  BY InitTyped, InitDisciplined, InitNumbered, InitAnchored DEF Known
<1>2. Known /\ Anchored /\ [Next]_vars => (Known /\ Anchored)'
  BY NextTyped, NextDisciplined, NextNumbered, NextAnchored DEF Known
<1>3. QED
  BY <1>1, <1>2, PTL DEF Spec

\* A process that finds a capture journal can always tell whether it committed.
THEOREM JournalAlwaysAnchored == Spec => []JournalAnchored
<1>1. Known /\ Anchored => JournalAnchored
  BY DEF Anchored
<1>2. QED
  BY <1>1, ProtocolInvariance, PTL

\* A process that finds a restore journal or a receipt can too.
THEOREM RestoreAlwaysAnchored == Spec => []RestoreAnchored
<1>1. Known /\ Anchored => RestoreAnchored
  BY DEF Anchored
<1>2. QED
  BY <1>1, ProtocolInvariance, PTL

-----------------------------------------------------------------------------
(* Core never writes over what a path names.                               *)

\* While the stage is being filled, no path names it: whatever users create,
\* move or link meanwhile is another file.
StagePrivate ==
  pc = "stage_copy" =>
    /\ Stage(active) \in Inodes
    /\ \A p \in Paths : dir[p] # Stage(active)

\* A new file never gets an inode that a path or a stage names.
LEMMA AllocatableUnlinked ==
  \A i \in Allocatable : /\ i \in Inodes
                         /\ \A p \in Paths : dir[p] # i
                         /\ \A k \in DOMAIN slot : slot[k].ino # i
BY DEF Allocatable, NeverUsed, Unlinked

\* No user can make a path name a stage that is still being filled.
LEMMA UserStagePrivate ==
  ASSUME TypeInv, StagePrivate, User
  PROVE  StagePrivate'
<1> SUFFICES ASSUME pc' = "stage_copy"
             PROVE  Stage(active)' \in Inodes /\ \A p \in Paths : dir'[p] # Stage(active)'
  BY DEF StagePrivate
<1>1. pc = "stage_copy" /\ Stage(active)' = Stage(active)
  BY DEF User, localVars, restoreState, lock, Stage
<1>2. Stage(active) \in Inodes /\ (\A p \in Paths : dir[p] # Stage(active))
  BY <1>1 DEF StagePrivate
<1>3. active.key \in DOMAIN slot /\ Stage(active) # None
  BY <1>1, <1>2, WorkspaceAssumption DEF TypeInv, RestoreKnown, ActiveSteps
<1>4. dir \in [Paths -> Inodes \cup {None}]
  BY DEF TypeInv, Typed, WorkspaceTypeOK
<1>5. ASSUME NEW p \in Paths, NEW kind, NEW c, New(p, kind, c)
      PROVE  \A q \in Paths : dir'[q] # Stage(active)
  BY <1>2, <1>3, <1>4, <1>5, AllocatableUnlinked DEF New, Stage
<1>6. ASSUME NEW p \in Paths, UserCreate(p) \/ UserMkdir(p) \/ UserReplace(p)
      PROVE  \A q \in Paths : dir'[q] # Stage(active)
  BY <1>5, <1>6 DEF UserCreate, UserMkdir, UserReplace
<1>7. ASSUME NEW p \in Paths, UserEdit(p) \/ UserDelete(p) \/ UserIgnore(p)
      PROVE  \A q \in Paths : dir'[q] # Stage(active)
  BY <1>2, <1>3, <1>4, <1>7 DEF UserEdit, UserDelete, UserIgnore
<1>8. ASSUME NEW p \in Paths, NEW q \in Paths, UserMove(p, q) \/ UserLink(p, q)
      PROVE  \A r \in Paths : dir'[r] # Stage(active)
  BY <1>2, <1>3, <1>4, <1>8 DEF UserMove, UserLink
<1>9. QED
  BY <1>1, <1>2, <1>6, <1>7, <1>8 DEF User, UserStep

\* A stage stays private until it is published.
LEMMA NextStagePrivate == TypeInv /\ StagePrivate /\ [Next]_vars => StagePrivate'
<1> SUFFICES ASSUME TypeInv, StagePrivate, [Next]_vars, pc' = "stage_copy" PROVE StagePrivate'
  BY DEF StagePrivate
<1>1. CASE User
  BY <1>1, UserStagePrivate
<1>2. CASE CreateStage
  <2>1. active.key \in DOMAIN slot
    BY <1>2 DEF TypeInv, RestoreKnown, ActiveSteps, CreateStage, Step
  <2>2. slot[active.key] \in Slot
    BY <2>1, PartialFunctionsAre DEF TypeInv, Typed, RestoreTypeOK
  <2>3. PICK i \in Allocatable : slot' = [slot EXCEPT ![active.key].ino = i]
    BY <1>2 DEF CreateStage
  <2>4. Stage(active)' = i /\ dir' = dir
    BY <1>2, <2>1, <2>2, <2>3 DEF CreateStage, unchangedButFiles, Stage, Slot
  <2>5. QED
    BY <2>4, AllocatableUnlinked DEF StagePrivate
<1>3. CASE (\E p \in Procs : PlanCapture(p)) \/ UNCHANGED vars
  BY <1>3 DEF PlanCapture, vars, localVars, workspaceVars, restoreState, lock, StagePrivate, Stage
<1>4. ASSUME NEW p \in Procs, SealRefused(p) PROVE FALSE
  BY <1>4 DEF SealRefused, lock, TypeInv, Typed, LockTypeOK
<1>5. ASSUME NEW p \in Procs, SealDropStale(p) \/ SealStart(p) \/ RestoreCall(p) PROVE FALSE
  BY <1>5 DEF SealDropStale, SealStart, RestoreCall, RestoreAdmit, RestoreResume, RestoreRecover,
     Acquire
<1>6. CASE SealStep
  BY <1>6 DEF SealStep, WriteCaptureIdentities, RecoverCleanup, SealAssign, SealNothing,
     ReadEntry, InstallVersion, FinalPlanCheck, MoveHead, RemoveJournal, SealFails, Step,
     Return
<1>7. CASE RestoreStep /\ ~ CreateStage
  BY <1>7 DEF RestoreStep, RebindHead, WriteRestoreJournal, RestoreRefused, CopyStage,
     ReuseStage, Publish, InstallTarget, CommitHead, VerifyPublication, Project, RestoreFails,
     RollbackHead, WriteCommittedReceipt, RetireModified, RetainFindsEdit, RetainAuthority,
     WriteAuthority, RetireIntent, RetireReceipt, RestoreStaysPending, Step, Return
<1>8. CASE Crash
  BY <1>8 DEF Crash, Return
<1>9. QED
  BY <1>1, <1>2, <1>3, <1>4, <1>5, <1>6, <1>7, <1>8 DEF Next, Core, CaptureStep

\* The step that NoClobber forbids.
KeepsLivePaths ==
  \A p \in Paths : Live(p) => dir'[p] = dir[p] /\ node'[dir[p]] = node[dir[p]]

\* A user's change counts as one, so a step that counts none is Core's.
LEMMA UserChanges == TypeInv /\ User => edits' # edits
<1>1. TypeInv => edits \in Nat
  BY WorkspaceAssumption DEF TypeInv, Typed, WorkspaceTypeOK
<1>2. User => edits' = edits + 1
  BY DEF User, UserStep, UserCreate, UserMkdir, UserEdit, UserReplace, UserDelete, UserMove,
     UserLink, UserIgnore, Change
<1>3. QED
  BY <1>1, <1>2

\* Every step of Core but the three that touch files leaves all files alone.
LEMMA CoreLeavesFiles ==
  ASSUME \/ \E p \in Procs : CaptureStep(p) \/ RestoreCall(p)
         \/ Crash \/ SealStep
         \/ RestoreStep /\ ~ (CreateStage \/ CopyStage \/ Publish)
  PROVE  UNCHANGED <<dir, node>>
<1>1. CASE (\E p \in Procs : CaptureStep(p) \/ RestoreCall(p)) \/ Crash
  BY <1>1 DEF CaptureStep, PlanCapture, SealRefused, SealDropStale, SealStart, RestoreCall,
     RestoreAdmit, RestoreResume, RestoreRecover, Crash, workspaceVars
<1>2. CASE SealStep
  BY <1>2 DEF SealStep, WriteCaptureIdentities, RecoverCleanup, SealAssign, SealNothing,
     ReadEntry, InstallVersion, FinalPlanCheck, MoveHead, RemoveJournal, SealFails,
     workspaceVars
<1>3. CASE RestoreStep /\ ~ (CreateStage \/ CopyStage \/ Publish)
  BY <1>3 DEF RestoreStep, RebindHead, WriteRestoreJournal, RestoreRefused, ReuseStage,
     InstallTarget, CommitHead, VerifyPublication, Project, RestoreFails, RollbackHead,
     WriteCommittedReceipt, RetireModified, RetainFindsEdit, RetainAuthority, WriteReceipt,
     WriteAuthority, RetireIntent, RetireReceipt, RestoreStaysPending, workspaceVars,
     workspaceAndStages
<1>4. QED
  BY <1>1, <1>2, <1>3

\* The three steps that touch files leave every live path as it was.
LEMMA FileStepsKeepLivePaths ==
  ASSUME TypeInv, StagePrivate, CreateStage \/ CopyStage \/ Publish
  PROVE  KeepsLivePaths
<1>1. /\ dir \in [Paths -> Inodes \cup {None}]
      /\ node \in [Inodes -> File]
      /\ \A p \in Paths : Live(p) => dir[p] \in Inodes
  BY DEF TypeInv, Typed, WorkspaceTypeOK, Live
<1>2. CASE CreateStage
  BY <1>1, <1>2, AllocatableUnlinked DEF CreateStage, KeepsLivePaths
<1>3. CASE CopyStage
  BY <1>1, <1>3 DEF CopyStage, Step, StagePrivate, KeepsLivePaths
<1>4. CASE Publish
  BY <1>1, <1>4 DEF Publish, CanPublish, Published, KeepsLivePaths, Live, unchangedButFiles
<1>5. QED
  BY <1>2, <1>3, <1>4

\* So does every step that is not a user's.
LEMMA NextKeepsLivePaths ==
  TypeInv /\ StagePrivate /\ [Next]_vars => [edits' = edits => KeepsLivePaths]_vars
<1> SUFFICES ASSUME TypeInv, StagePrivate, Next, edits' = edits PROVE KeepsLivePaths
  OBVIOUS
<1>1. ~ User
  BY UserChanges
<1>2. ASSUME UNCHANGED <<dir, node>> PROVE KeepsLivePaths
  BY <1>2 DEF KeepsLivePaths
<1>3. QED
  BY <1>1, <1>2, CoreLeavesFiles, FileStepsKeepLivePaths DEF Next, Core

\* Whatever a user puts at a path, before or after Core looked, no step of
\* capture or restore replaces it, removes it or writes through it.
THEOREM NeverClobbers == Spec => NoClobber
<1>1. Init => StagePrivate
  BY DEF Init, StagePrivate
<1>2. Spec => []StagePrivate
  BY <1>1, NextStagePrivate, TypeInvariance, PTL DEF Spec
<1>3. Spec => [][edits' = edits => KeepsLivePaths]_vars
  BY <1>2, NextKeepsLivePaths, TypeInvariance, PTL DEF Spec
<1>4. QED
  BY <1>3, PTL DEF NoClobber, KeepsLivePaths

-----------------------------------------------------------------------------
(* Capture and restore implement VersionHistory: every step installs one   *)
(* complete version over installed parents, or moves Local Head along one  *)
(* parent edge, or changes nothing the abstract history can see.           *)

\* What ties a version to the transaction that derived it.
Parented ==
  /\ journal # None /\ journal.expected # None => journal.expected.version \in DOMAIN versions
  /\ pc \in {"check", "cas"} => versions[journal.target].parents = ParentsOf(journal.expected)
  /\ pc = "r_cas" => versions[active.target].parents = {active.expected.version}
  /\ pc = "rollback" => HeadCommitted(active)
  /\ active # None /\ HeadCommitted(active) =>
       versions[active.target].parents = {active.expected.version}
  /\ \A k \in DOMAIN slot : k[1] < slot[k].target

\* The invariant the refinement rests on.
HistoryInv == Known /\ Anchored /\ Parented

\* Installing leaves every installed version as it was.
LEMMA InstallAppends ==
  ASSUME versions \in [DOMAIN versions -> Version], NEW n, NEW v, Installable(versions, n, v)
  PROVE  /\ DOMAIN Put(versions, n, v) = DOMAIN versions \cup {n}
         /\ \A id \in DOMAIN versions : Put(versions, n, v)[id] = versions[id]
         /\ Put(versions, n, v)[n] = v
         /\ n \in DOMAIN versions => Put(versions, n, v) = versions
<1>1. /\ DOMAIN Put(versions, n, v) = DOMAIN versions \cup {n}
      /\ \A id \in DOMAIN versions : Put(versions, n, v)[id] = versions[id]
      /\ Put(versions, n, v)[n] = v
  BY DEF Put, Installable
<1>2. ASSUME n \in DOMAIN versions PROVE Put(versions, n, v) = versions
  BY <1>2 DEF Put, Installable
<1>3. QED
  BY <1>1, <1>2

\* Steps that move neither Head nor a version.
LEMMA QuietParented ==
  ASSUME Parented, UNCHANGED <<head, versions>>, journal' \in {journal, None},
         active' \in {active, None},
         \A k \in DOMAIN slot' : k \in DOMAIN slot /\ slot'[k].target = slot[k].target,
         pc' \in {"check", "cas", "r_cas", "rollback"} =>
           pc' = pc /\ journal' = journal /\ active' = active
  PROVE  Parented'
BY DEF Parented, ParentsOf, HeadCommitted, TargetHead

\* There are no versions, hence no dangling parents, at first.
LEMMA InitParented == Init => Parented
BY DEF Init, Parented, NoEntries

\* Users, calls and process deaths install nothing.
LEMMA UserOrCallParented ==
  ASSUME Parented,
         \/ User \/ Crash \/ UNCHANGED vars
         \/ \E p \in Procs : CaptureStep(p) \/ RestoreCall(p)
  PROVE  Parented'
<1>1. CASE User \/ UNCHANGED vars
  BY <1>1, QuietParented DEF User, vars, localVars, store, restoreState, volatile, lock
<1>2. CASE Crash
  BY <1>2, QuietParented DEF Crash, Return, store, restoreState
<1>3. ASSUME NEW p \in Procs, CaptureStep(p) PROVE Parented'
  <2>1. /\ UNCHANGED <<head, versions, active, slot>> /\ journal' \in {journal, None}
        /\ \/ UNCHANGED <<pc, journal>>
           \/ pc' \in {"assign", "build", "recover_identities"}
    BY <1>3 DEF CaptureStep, PlanCapture, SealRefused, SealDropStale, SealStart, Acquire,
       store, restoreState, lock
  <2>2. QED
    BY <2>1, QuietParented
<1>4. ASSUME NEW p \in Procs, RestoreCall(p) PROVE Parented'
  <2>1. /\ UNCHANGED <<head, versions, journal, active, slot>>
        /\ pc' \in {"rebind", "stage", "retain", "modified"}
    BY <1>4 DEF RestoreCall, RestoreAdmit, RestoreResume, RestoreRecover, Acquire, store,
       restoreState
  <2>2. QED
    BY <2>1, QuietParented
<1>5. QED
  BY <1>1, <1>2, <1>3, <1>4

\* What a capture builds stands on the version its journal expects.
LEMMA SealStepParented == HistoryInv /\ SealStep => Parented'
<1> SUFFICES ASSUME HistoryInv, SealStep PROVE Parented'
  OBVIOUS
<1>0. Parented /\ TypeInv /\ LockDiscipline
  BY DEF HistoryInv, Known
<1>1. CASE WriteCaptureIdentities \/ RecoverCleanup \/ SealNothing \/ ReadEntry
           \/ RemoveJournal \/ SealFails
  <2>1. /\ UNCHANGED <<head, versions, active, slot>> /\ journal' \in {journal, None}
        /\ pc' \in {"cleanup", "recover_cleanup", "assign", "build", "idle"}
    BY <1>1 DEF WriteCaptureIdentities, RecoverCleanup, SealNothing, ReadEntry, RemoveJournal,
       SealFails, Step, Return, store, restoreState
  <2>2. QED
    BY <1>0, <2>1, QuietParented
<1>2. CASE SealAssign
  <2>1. /\ UNCHANGED <<head, versions, active, slot>> /\ pc' = "build"
        /\ journal'.expected = head
    BY <1>2 DEF SealAssign, Step, NewTransaction, restoreState
  <2>2. QED
    BY <1>0, <2>1 DEF Parented, TypeInv, HeadInstalled, HeadCommitted, TargetHead
<1>3. CASE InstallVersion
  <2>1. /\ UNCHANGED <<head, journal, active, slot>> /\ pc' = "check"
        /\ active = None
    BY <1>0, <1>3 DEF InstallVersion, Step, restoreState, LockDiscipline, CaptureSteps,
       RestorePending
  <2>2. /\ \A id \in DOMAIN versions : id \in DOMAIN versions'
        /\ versions'[journal.target] = VersionOf(journal, built)
    <3>1. versions \in [DOMAIN versions -> Version]
      BY <1>0 DEF TypeInv, Typed, StoreTypeOK
    <3>2. /\ Installable(versions, journal.target, VersionOf(journal, built))
          /\ versions' = Put(versions, journal.target, VersionOf(journal, built))
      BY <1>3 DEF InstallVersion
    <3>3. /\ DOMAIN versions' = DOMAIN versions \cup {journal.target}
          /\ versions'[journal.target] = VersionOf(journal, built)
      BY <3>1, <3>2, InstallAppends
    <3>4. QED
      BY <3>3
  <2>3. VersionOf(journal, built).parents = ParentsOf(journal.expected)
    BY DEF VersionOf
  <2>4. QED
    BY <1>0, <2>1, <2>2, <2>3 DEF Parented, ParentsOf
<1>4. CASE FinalPlanCheck
  BY <1>0, <1>4 DEF FinalPlanCheck, Step, store, restoreState, Parented, ParentsOf,
     HeadCommitted, TargetHead
<1>5. CASE MoveHead
  BY <1>0, <1>5 DEF MoveHead, Step, restoreState, Parented, LockDiscipline, CaptureSteps,
     RestorePending, ParentsOf
<1>6. QED
  BY <1>1, <1>2, <1>3, <1>4, <1>5 DEF SealStep

\* A restore slot's target stands on the Head it was derived from.
LEMMA WriteRestoreJournalParented == HistoryInv /\ WriteRestoreJournal => Parented'
<1> SUFFICES ASSUME HistoryInv, WriteRestoreJournal PROVE Parented'
  OBVIOUS
<1>0. Parented /\ TypeInv /\ Numbered /\ LockDiscipline
  BY DEF HistoryInv, Known
<1>1. /\ UNCHANGED <<head, versions, journal>> /\ pc' = "stage" /\ active'.expected = head
      /\ journal = None /\ head # None
  BY <1>0 DEF WriteRestoreJournal, NewRestore, Step, LockDiscipline, RestoreSteps, TypeInv,
     RestoreKnown
<1>2. head.version \in Nat /\ head.version <= issued /\ issued \in Nat
  BY <1>0, <1>1, Numbers DEF Numbered
<1>3. active'.target # head.version /\ (\A k \in DOMAIN slot' : k[1] < slot'[k].target)
  <2>1. CASE restoreKey \in DOMAIN slot
    <3>1. active'.target = slot[restoreKey].target /\ slot' = slot
      BY <2>1 DEF WriteRestoreJournal, NewRestore
    <3>2. restoreKey[1] = head.version /\ slot[restoreKey].target \in Nat
      BY <1>0, <2>1, Numbers DEF restoreKey
    <3>3. QED
      BY <1>0, <1>2, <2>1, <3>1, <3>2 DEF Parented
  <2>2. CASE restoreKey \notin DOMAIN slot
    <3>1. active'.target = issued + 1
          /\ slot' = Put(slot, restoreKey, [target |-> issued + 1, ino |-> None])
      BY <2>2 DEF WriteRestoreJournal, NewRestore
    <3>2. restoreKey[1] = head.version
      BY DEF restoreKey
    <3>3. QED
      BY <1>0, <1>2, <2>2, <3>1, <3>2 DEF Put, Parented
  <2>3. QED
    BY <2>1, <2>2
<1>4. ~ HeadCommitted(active)'
  BY <1>1, <1>3 DEF HeadCommitted, TargetHead
<1>5. QED
  BY <1>1, <1>3, <1>4 DEF Parented

\* What a restore installs stands on the version its journal expects.
LEMMA RestoreStepParented == HistoryInv /\ RestoreStep => Parented'
<1> SUFFICES ASSUME HistoryInv, RestoreStep PROVE Parented'
  OBVIOUS
<1>0. Parented /\ TypeInv /\ LockDiscipline
  BY DEF HistoryInv, Known
<1>1. CASE RestoreRefused \/ RetireReceipt \/ RestoreStaysPending \/ CopyStage \/ ReuseStage
           \/ Publish \/ VerifyPublication \/ Project
  <2>1. /\ UNCHANGED <<head, versions, journal, active>>
        /\ pc' \in {"idle", "publish", "verify", "r_install", "project", "receipt", "reverify"}
        /\ slot' = slot
    BY <1>1 DEF RestoreRefused, RetireReceipt, RestoreStaysPending, CopyStage, ReuseStage,
       Publish, VerifyPublication, Project, Step, Return, store, restoreState,
       unchangedButFiles, workspaceAndStages
  <2>2. QED
    BY <1>0, <2>1, QuietParented
<1>2. CASE WriteCommittedReceipt \/ RetireModified \/ RetainFindsEdit \/ RetainAuthority
           \/ WriteAuthority \/ RetireIntent
  <2>1. /\ UNCHANGED <<head, versions, journal, slot>> /\ active' \in {active, None}
        /\ pc' \in ReceiptSteps
    BY <1>2 DEF WriteCommittedReceipt, RetireModified, RetainFindsEdit, RetainAuthority,
       WriteAuthority, RetireIntent, WriteReceipt, Step, store, restoreState, workspaceAndStages,
       ReceiptSteps
  <2>2. QED
    BY <1>0, <2>1, QuietParented DEF ReceiptSteps
<1>3. CASE CreateStage
  <2>1. UNCHANGED <<head, versions, journal, active>> /\ pc' = "stage_copy"
    BY <1>3 DEF CreateStage, Step, store, unchangedButFiles
  <2>2. PICK i \in Allocatable : slot' = [slot EXCEPT ![active.key].ino = i]
    BY <1>3 DEF CreateStage
  <2>3. \A k \in DOMAIN slot : slot[k] \in Slot
    BY <1>0, PartialFunctionsAre DEF TypeInv, Typed, RestoreTypeOK
  <2>4. \A k \in DOMAIN slot' : k \in DOMAIN slot /\ slot'[k].target = slot[k].target
    BY <2>2, <2>3 DEF Slot
  <2>5. QED
    BY <1>0, <2>1, <2>4, QuietParented
<1>4. CASE RestoreFails
  BY <1>0, <1>4 DEF RestoreFails, store, restoreState, volatile, Parented, HeadCommitted,
     TargetHead, ParentsOf
<1>5. CASE InstallTarget
  <2>1. /\ UNCHANGED <<head, journal, active, slot>> /\ pc' = "r_cas"
        /\ active # None
    BY <1>0, <1>5 DEF InstallTarget, Step, restoreState, TypeInv, RestoreKnown, ActiveSteps
  <2>2. TargetVersion(active).parents = {active.expected.version}
    BY DEF TargetVersion, RestoredVersion
  <2>3. /\ \A id \in DOMAIN versions : id \in DOMAIN versions'
        /\ versions'[active.target].parents = {active.expected.version}
    <3>1. versions \in [DOMAIN versions -> Version]
      BY <1>0 DEF TypeInv, Typed, StoreTypeOK
    <3>2. /\ Installable(versions, active.target, TargetVersion(active))
          /\ versions' = Put(versions, active.target, TargetVersion(active))
      BY <1>5 DEF InstallTarget
    <3>3. /\ DOMAIN versions' = DOMAIN versions \cup {active.target}
          /\ versions'[active.target] = TargetVersion(active)
      BY <3>1, <3>2, InstallAppends
    <3>4. QED
      BY <2>2, <3>3
  <2>4. QED
    BY <1>0, <2>1, <2>3 DEF Parented
<1>6. CASE RebindHead \/ CommitHead \/ RollbackHead
  <2>1. /\ UNCHANGED <<versions, journal, active, slot>> /\ journal = None
        /\ pc' \in {"journal", "verify", "failed"}
        /\ RebindHead => active = None
    BY <1>0, <1>6 DEF RebindHead, CommitHead, RollbackHead, Step, restoreState, LockDiscipline,
       RestoreSteps, IntentSteps, RestorePending
  <2>2. CASE RebindHead
    BY <1>0, <2>1, <2>2 DEF Parented
  <2>3. CASE CommitHead
    BY <1>0, <2>1, <2>3 DEF CommitHead, Step, Parented
  <2>4. CASE RollbackHead
    BY <1>0, <2>1, <2>4 DEF RollbackHead, Step, Parented
  <2>5. QED
    BY <1>6, <2>2, <2>3, <2>4
<1>7. QED
  BY <1>1, <1>2, <1>3, <1>4, <1>5, <1>6, WriteRestoreJournalParented DEF RestoreStep

\* The parentage is inductive.
LEMMA NextParented == HistoryInv /\ [Next]_vars => Parented'
BY UserOrCallParented, SealStepParented, RestoreStepParented DEF Next, Core, HistoryInv

\* All that the refinement reads of a state holds in every reachable one.
LEMMA HistoryInvariance == Spec => []HistoryInv
<1>1. Init => HistoryInv
  BY InitTyped, InitDisciplined, InitNumbered, InitAnchored, InitParented DEF Known, HistoryInv
<1>2. HistoryInv /\ [Next]_vars => HistoryInv'
  BY NextTyped, NextDisciplined, NextNumbered, NextAnchored, NextParented DEF Known, HistoryInv
<1>3. QED
  BY <1>1, <1>2, PTL DEF Spec

-----------------------------------------------------------------------------
(* The refinement.                                                         *)

\* The fresh root is the empty history.
LEMMA InitRefines == Init => History!Init
BY DEF Init, NoEntries, HeadVersion, History!Init

\* Publishing a version over installed parents is an abstract installation, or
\* changes nothing when the identical record was there.
LEMMA InstallRefines ==
  ASSUME HistoryInv, NEW n, NEW v, v.parents \subseteq DOMAIN versions,
         Installable(versions, n, v), versions' = Put(versions, n, v), head' = head
  PROVE  [History!Next]_(History!history)
<1>1. versions \in [DOMAIN versions -> Version]
  BY DEF HistoryInv, Known, TypeInv, Typed, StoreTypeOK
<1>2. CASE n \in DOMAIN versions
  BY <1>1, <1>2, InstallAppends DEF History!history
<1>3. CASE n \notin DOMAIN versions
  <2>1. versions' = [x \in DOMAIN versions \cup {n} |-> IF x = n THEN versions'[n] ELSE versions[x]]
    BY <1>1, InstallAppends DEF Put
  <2>2. n \in DOMAIN versions' \ DOMAIN versions /\ versions'[n] = v
    BY <1>3 DEF Put
  <2>3. History!Install
    BY <2>1, <2>2 DEF History!Install
  <2>4. QED
    BY <2>3 DEF History!Next
<1>4. QED
  BY <1>2, <1>3

\* Installing a version publishes one record over published parents, or repeats one.
LEMMA InstallStepsRefine ==
  HistoryInv /\ (InstallVersion \/ InstallTarget) => [History!Next]_(History!history)
<1> SUFFICES ASSUME HistoryInv, InstallVersion \/ InstallTarget
             PROVE  [History!Next]_(History!history)
  OBVIOUS
<1>0. Parented /\ TypeInv
  BY DEF HistoryInv, Known
<1>1. CASE InstallVersion
  <2>1. journal # None
    BY <1>0, <1>1 DEF InstallVersion, Step, TypeInv, CaptureKnown, JournalSteps
  <2>2. VersionOf(journal, built).parents \subseteq DOMAIN versions
    BY <1>0, <2>1 DEF Parented, ParentsOf, VersionOf
  <2>3. QED
    BY <1>1, <2>2, InstallRefines DEF InstallVersion
<1>2. CASE InstallTarget
  <2>1. active.expected.version \in DOMAIN versions
    BY <1>0, <1>2 DEF InstallTarget, Step, TypeInv, RestoreKnown, ActiveSteps
  <2>2. TargetVersion(active).parents \subseteq DOMAIN versions
    BY <2>1 DEF TargetVersion, RestoredVersion
  <2>3. QED
    BY <1>2, <2>2, InstallRefines DEF InstallTarget, store
<1>3. QED
  BY <1>1, <1>2

\* The Head moves along a parent edge: to a child, or back from it.
LEMMA HeadStepsRefine ==
  HistoryInv /\ (MoveHead \/ CommitHead \/ RollbackHead \/ RebindHead)
    => [History!Next]_(History!history)
<1> SUFFICES ASSUME HistoryInv, MoveHead \/ CommitHead \/ RollbackHead \/ RebindHead
             PROVE  [History!Next]_(History!history)
  OBVIOUS
<1>0. /\ Parented /\ TypeInv /\ versions' = versions
      /\ \A h \in Head : h # None /\ h.version # None
      /\ head \in Head \cup {None}
  BY NoneIsNoRecord, LocalStateAssumption
  DEF HistoryInv, Known, TypeInv, Typed, StoreTypeOK, OptionalHead, Head, MoveHead, CommitHead,
      RollbackHead, RebindHead
<1>1. CASE MoveHead
  <2>1. /\ journal.target \in DOMAIN versions
        /\ versions[journal.target].parents = ParentsOf(head)
        /\ HeadVersion(head)' = journal.target
    <3>1. head' = [version |-> journal.target, authority |-> "capture_transaction_v1"]
          /\ journal.target \in DOMAIN versions
          /\ versions[journal.target].parents = ParentsOf(head)
      BY <1>0, <1>1 DEF MoveHead, Step, TypeInv, CaptureKnown, Parented
    <3>2. head' \in Head
      BY <1>0, <3>1 DEF TypeInv, Typed, StoreTypeOK, Head, HeadAuthorities
    <3>3. QED
      BY <1>0, <3>1, <3>2 DEF HeadVersion
  <2>2. History!ParentsOfChild = ParentsOf(head)
    BY <1>0 DEF History!ParentsOfChild, HeadVersion, ParentsOf
  <2>3. History!Advance(journal.target)
    BY <1>0, <2>1, <2>2 DEF History!Advance
  <2>4. QED
    BY <2>1, <2>3 DEF History!Next
<1>2. CASE CommitHead \/ RollbackHead
  <2>1. /\ active \in RestoreTransaction
        /\ active.expected.version \in DOMAIN versions
    BY <1>0, <1>2, ActiveTyped DEF CommitHead, RollbackHead, Step, TypeInv, RestoreKnown,
       ActiveSteps
  <2>2. active.expected \in Head /\ TargetHead(active) \in Head
        /\ TargetHead(active).version = active.target
    BY <2>1 DEF RestoreTransaction, TargetHead, Head, HeadAuthorities
  <2>3. CASE CommitHead
    <3>1. /\ head = active.expected /\ head' = TargetHead(active)
          /\ active.target \in DOMAIN versions
          /\ versions[active.target].parents = {active.expected.version}
      BY <1>0, <2>3 DEF CommitHead, Step, TypeInv, RestoreKnown, Parented
    <3>2. HeadVersion(head) = active.expected.version /\ HeadVersion(head)' = active.target
          /\ HeadVersion(head) # None
      BY <1>0, <2>2, <3>1 DEF HeadVersion
    <3>3. History!Advance(active.target)
      BY <1>0, <3>1, <3>2 DEF History!Advance, History!ParentsOfChild
    <3>4. QED
      BY <3>1, <3>3 DEF History!Next
  <2>4. CASE RollbackHead
    <3>1. /\ head = TargetHead(active) /\ head' = active.expected
          /\ versions[active.target].parents = {active.expected.version}
      BY <1>0, <2>1, <2>4 DEF RollbackHead, Step, TypeInv, RestoreKnown, ActiveSteps, Parented,
         HeadCommitted
    <3>2. HeadVersion(head) = active.target /\ HeadVersion(head)' = active.expected.version
          /\ HeadVersion(head) # None
      BY <1>0, <2>2, <3>1 DEF HeadVersion
    <3>3. History!Retract(active.expected.version)
      BY <1>0, <3>1, <3>2 DEF History!Retract
    <3>4. QED
      BY <2>1, <3>3 DEF History!Next
  <2>5. QED
    BY <1>2, <2>3, <2>4
<1>3. CASE RebindHead
  <2>1. head \in Head /\ head' \in Head /\ head'.version = head.version
    BY <1>0, <1>3 DEF RebindHead, Step, TypeInv, RestoreKnown, Head, HeadAuthorities
  <2>2. QED
    BY <1>0, <2>1 DEF HeadVersion, History!history
<1>4. QED
  BY <1>1, <1>2, <1>3

\* No other step can be seen in the history.
LEMMA QuietRefines ==
  UNCHANGED <<head, versions>> => [History!Next]_(History!history)
BY DEF HeadVersion, History!history

\* Every step of the protocol is a step of the history or none.
LEMMA NextRefines == HistoryInv /\ [Next]_vars => [History!Next]_(History!history)
<1> SUFFICES ASSUME HistoryInv, [Next]_vars PROVE [History!Next]_(History!history)
  OBVIOUS
<1>1. CASE User \/ Crash \/ UNCHANGED vars
  BY <1>1, QuietRefines DEF User, Crash, vars, localVars, store
<1>2. ASSUME NEW p \in Procs, CaptureStep(p) \/ RestoreCall(p)
      PROVE  [History!Next]_(History!history)
  BY <1>2, QuietRefines DEF CaptureStep, PlanCapture, SealRefused, SealDropStale, SealStart,
     RestoreCall, RestoreAdmit, RestoreResume, RestoreRecover, store
<1>3. CASE SealStep
  <2>1. CASE WriteCaptureIdentities \/ RecoverCleanup \/ SealAssign \/ SealNothing
             \/ ReadEntry \/ FinalPlanCheck \/ RemoveJournal \/ SealFails
    BY <2>1, QuietRefines DEF WriteCaptureIdentities, RecoverCleanup, SealAssign, SealNothing,
       ReadEntry, FinalPlanCheck, RemoveJournal, SealFails, store
  <2>2. QED
    BY <1>3, <2>1, InstallStepsRefine, HeadStepsRefine DEF SealStep
<1>4. CASE RestoreStep
  <2>1. CASE WriteRestoreJournal \/ RestoreRefused \/ CreateStage \/ CopyStage \/ ReuseStage
             \/ Publish \/ VerifyPublication \/ Project \/ RestoreFails
    BY <2>1, QuietRefines DEF WriteRestoreJournal, RestoreRefused, CreateStage, CopyStage,
       ReuseStage, Publish, VerifyPublication, Project, RestoreFails, store, unchangedButFiles
  <2>2. CASE WriteCommittedReceipt \/ RetireModified \/ RetainFindsEdit \/ RetainAuthority
             \/ WriteAuthority \/ RetireIntent \/ RetireReceipt \/ RestoreStaysPending
    BY <2>2, QuietRefines DEF WriteCommittedReceipt, RetireModified, RetainFindsEdit,
       RetainAuthority, WriteAuthority, RetireIntent, RetireReceipt, RestoreStaysPending,
       WriteReceipt, store
  <2>3. QED
    BY <1>4, <2>1, <2>2, InstallStepsRefine, HeadStepsRefine DEF RestoreStep
<1>5. QED
  BY <1>1, <1>2, <1>3, <1>4 DEF Next, Core

\* However captures and restores interleave, fail, crash and are recovered, the
\* store is an append-only history whose Head moves one parent edge at a time.
THEOREM RefinesHistory == Spec => ImplementsHistory
<1>1. Spec => [][History!Next]_(History!history)
  BY HistoryInvariance, NextRefines, PTL DEF Spec
<1>2. QED
  BY <1>1, InitRefines, PTL DEF Spec, ImplementsHistory, History!Spec
=============================================================================
