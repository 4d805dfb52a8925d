# Folderbase: models, checks and proofs

Folderbase keeps ordinary folders under a local, versioned record. Core
(`crates/folderbase-core`) plans a capture of a folder, seals it as an immutable
Folderbase Version, moves one Local Head, restores deleted files, keeps the history
of single files, applies an agent's proposals, expands templates, upgrades and
migrates folders, and carries content to other places and devices. This directory
holds TLA+ models of its state machines, the TLC instances that check them and the
TLAPS proofs of what holds for every instance.

    tlc -config MCRestore.cfg MCFolderbaseSeal     # one of the runs of section 3
    tlapm SyncReplicasProofs.tla                   # one of the proof modules

## 1. Inventory

Rust sizes are lines of source, unit tests included. "Modelled in" names the module
that a reader should open first.

| Component | Source | State it keeps | Hard behaviour | Modelled in |
|---|---|---|---|---|
| Capture and seal | `folderbase_seal.rs` (11261), `folderbase_capture.rs` (2348), `physical_identity.rs` | Local Head, versions, Object Versions, identity records, `captures/active.json` | users edit between every two reads; a crash at each durable boundary; two processes with plans of one Head | `CaptureSeal` |
| Tombstone restore | `folderbase_seal.rs`, `folderbase_state.rs` (3557), `folderbase_restore_authority.rs` | restore journal, private stage hard-linked to the published file, receipt, authorities | no-clobber publication, edits through a shared inode, rollback, resumption | `TombstoneRestore` |
| Folderbase Version record | `folderbase_version.rs` (2009) | none | Objects over long histories; one path vacated by one Object and taken by another | `FolderbaseVersion`, `VersionDiff` |
| Local version store | `local_versions.rs` (4224) | Objects, their versions, blobs, journal, pending transaction | intents replayed by whoever opens the store next; a history handed to a nested Folderbase under two locks | `LocalVersionStore`, `HistoryTransfer` |
| Change Sets | `change_set.rs` (3380), `folderbase_seal.rs` | checkouts, envelopes, two-phase journal, prepared work, receipts | three lock periods with captures and edits in between; the Head gains a merge with three parents | `ChangeSet`, `ChangeSetApply` |
| Migration | `migration.rs` (14722), `migration_filesystem.rs` (5890), `migration/transaction_v1.rs` (3727) | append-only journal, claims, staged publications, receipts | a long program interrupted anywhere, rolled back from anywhere, while people work in the folder | `Migration` |
| Protocol upgrade | `protocol_upgrade.rs` (1855) | intent, staged manifest, receipt | exchange against a concurrent edit; excludes every other writer | `ProtocolUpgrade` |
| Folder scope evidence | `folder_scope_evidence.rs` (1670) | device-local journal, authority, head | three durable steps per observation; renamed and replaced folders | `FolderScopeEvidence` |
| Initialization, templates | `initialization.rs`, `template.rs`, `template_expansion.rs` | manifest, application records | approved plans against a changed folder, no lock for initialization | `Initialization`, `TemplateExpansion` |
| Root reconstruction | `root_reconstruction.rs` (5594) | stage directory, owner, proof, published root | no lock at all: calls, people and deaths interleave | `RootReconstruction` |
| Transfer | `chunk_transfer.rs`, `transfer_manifest.rs`, `transfer_source.rs`, `transfer_receiver.rs` | checkpoint directory, chunk files, target | lost, repeated, cut and garbled chunks; receivers that share a checkpoint | `ChunkTransfer` |
| Sync planner | `sync.rs` (367) | entries and bases, applied events; canonical versions, conflicts | late, repeated, lost notifications; concurrent edits | `SyncReplicas` |
| Availability | `availability.rs` (578) | none | duplicate records, saturating sums, precedence of blockers | `Availability` |
| Reorganization plans | `reorganization.rs` | none | operations that undo what later ones rest on | `Reorganization` |
| Query sessions | `query.rs` (2382) | private index over a pinned root | cursors over a root that moves | – |
| Sharing | `sharing.rs` | an in-memory registry | – | – |
| Reading and validation | `validation.rs`, `inspection.rs`, `model.rs` and others | none | bounds on untidy input | – |
| CLI and stdio daemon | `folderbase-cli/src` | one request loop | one session's ordering | – |
| SDK, npm installer, site | `packages`, `apps/docs` | a child process | process supervision | – |

**How they interact.** All writers of one root share one exclusive lock file
(`acquire_transaction_lock_in`), which the operating system releases when a process
dies; two exceptions take no lock: initialization, before there is anything to lock,
and root reconstruction, which works beside its destination. State that must survive
is under `.folderbase`; each record is published or replaced atomically and
synchronised. Taking the lock for state refuses while a protocol upgrade is pending.
Planning takes no lock and may run beside a writer. Capture and restore refuse each
other's active intent; capture skips exactly those private links that a retained
restore authority proves. A Change Set publishes files, seals them with an ordinary
capture and then replaces the captured Head by a proposal and a merge. Transfer,
reconstruction and evidence read installed versions. People and editors change the
workspace with no lock at all. The sync planner is separate: it is fed completed
local writes and knows nothing of the filesystem.

**What makes each correct.**

* *Capture*: what is sealed is what was there; history is complete at every boundary,
  keeps Objects continuous and never turns "not observed" into "deleted"; an
  interrupted capture can always tell whether it committed.
* *Restore*: never overwrites a user's file, restores exactly the sealed bytes under
  the same Object, ends committed or with the prior Head.
* *Local versions*: a projection never lists a version that is not there, the journal
  tells each change once, a save keeps what it replaces, one history has one owner.
* *Change Sets*: an apply replaces only bytes its deltas account for, the merge is the
  exact union of its sides, the current Object Versions follow the Head.
* *Migration*: no byte of a person is ever without a name; the program is done
  entirely or its effects are gone; it can be opened again whatever interrupted it.
* *Root lifecycle*: a pending upgrade excludes other writers and is resolved; what
  people wrote as manifest or file survives; records are written last; evidence goes
  with the physical folder.
* *Delivery*: what appears at a destination is whole and verified, what was there is
  left alone, repeated calls finish.
* *Sync*: no unpublished edit lost, no step backwards, agreement or a recorded
  conflict.
* *Pure parts*: a diff tells every change once, a removal is recoverable, a sealed
  plan runs.

## 2. The modules

Modules are read from top to bottom; each extends the ones it is built on.

| Modules | Model |
|---|---|
| `FolderbaseVersion` | the version record and computations over it: validity, Tombstone projection, restored child, ancestor search |
| `VersionDiff` | `FolderbaseVersion::diff` |
| `VersionHistory` | abstract specification: append-only complete versions and one Head that moves along parent edges |
| `Workspace`, `LocalState`, `CaptureSeal`, `TombstoneRestore`, `FolderbaseSeal` | files and people (external); durable state, lock and crashes; the two handlers; their composition with fairness and properties |
| `LocalVersionStore`, `HistoryTransfer` | the store of single-file histories; its composition with the transfer of a history to a nested Folderbase |
| `ChangeSet`, `ChangeSetApply` | files and the Versions made of them, checkouts, envelopes and the judgement of a workspace; apply step by step |
| `MigrationJournal`, `MigrationFiles`, `MigrationApply`, `MigrationRollback`, `Migration` | the generations and their legality; the tree and the private directory; forward steps; the way back; admission on reopening and the whole transaction |
| `RootAuthority` | what each operation on a root reads first: manifest, policy, Head, the lock and what closes it |
| `ProtocolUpgrade`, `FolderScopeEvidence`, `FolderSetup`, `Initialization`, `TemplateExpansion`, `RootLifecycle` | the operations on a root's own records and their composition on one lock |
| `ReconstructionPackage`, `ReconstructionStage`, `RootReconstruction` | packages and their closure; work in the stage; publication, retirement, replay |
| `ChunkTransfer`, `Delivery` | rolling-hash manifests, source and receivers; the two ways of delivery side by side |
| `SyncReplicas` | the sync planner, replicas, cloud and notifications |
| `Availability`, `Reorganization` | pure decisions, as operators |
| `FolderbaseSealProofs`, `FolderbaseSealContents` | proofs about capture and restore: protocol and refinement; what the history says |
| `MigrationProofs`, `ChangeSetProofs` | proofs about migrations; about Change Sets and diffs |
| `HistoryTransferProofs`, `RootLifecycleProofs`, `DeliveryProofs`, `SyncReplicasProofs` | proofs about stores, a root's records, delivery and availability, and sync |
| `MCFolderbaseSeal`, `MCMigration`, `MCHistoryTransfer`, `MCRootLifecycle`, `MCChangeSet`, `MCDelivery` | the instances for TLC |

Common to all: an identifier is a fresh number, model value or a tuple of what minted
it, so new identifiers never collide; a digest is the value it is the digest of; bytes
are a member of a small set. An I/O error that the code returns is a failed check or a
death at the same boundary. A step that computes, checks and writes one durable thing
under the lock is one action; people may act between any two. In the map of
`PROJECT.json` a helper whose lines lie inside those of the definition that uses it has
no entry of its own.

### Capture and restore

`head`, `versions`, `objvers`, `identity`, `journal`, `active`, `recovery`,
`authority` and `slot` are files under `.folderbase` and survive a crash; `plan`,
`built`, `wanted`, `holder` and `pc` belong to a running process and do not. `pc`
names the next durable step of the process that holds the lock; the steps are those
of the enums `CaptureCheckpoint` and `RestoreCheckpoint`, split where two durable
writes lie between checkpoints.

* `CurrentPlan` is `plan_capture`: it decides which paths are entries, ignored or
  excluded as hard links. An authority proves the private link of one inode at one
  path (`Authorities`, `LinksProved`).
* `SealRefused`, `SealDropStale`, `SealStart` are the admission: the plan held must
  equal a plan made under the lock, then the journal found decides (`SealEntry`)
  between a fresh assignment, a retry, abandonment, committed-Head recovery, refusal.
* `SealAssign` is assignment, preflight and the durable journal; `ReadEntry` reads
  one entry and installs its Object Version; `InstallVersion`, `FinalPlanCheck`,
  `MoveHead`, `WriteCaptureIdentities`, `RemoveJournal` follow the code's order.
  `SealNothing` and `SealFails` are its early returns.
* `RestoreAdmit`, `RestoreResume`, `RestoreRecover` are the three ways into
  `restore_tombstone`; `RebindHead` .. `WriteRestoreJournal` the intent;
  `CreateStage`, `CopyStage`, `ReuseStage`, `Publish` the staging under the final
  name and the hard link into the absent path; `InstallTarget`, `CommitHead`,
  `VerifyPublication` (twice), `Project` the commit and its proof; `RestoreFails`,
  `RollbackHead` the error path; the rest is the cleanup.

A modification stamp is the number of the change that set it, so the model's clock
never ties. Paths are all at the top level. Symbolic links, the executable bit, the
root manifest, the journal encodings of released v1 and the legacy-root rebind are
left out. Entries are read one per step; each metadata scan (`CurrentPlan`) and the
byte comparison of a capture with nothing to seal (`LiveStateMatches`) is one step.

### Local versions and history transfer

`objects`, `installed`, `blobs`, `identity`, `pending` and `journal` are the files of a
store, once for the outer and once for the nested Folderbase; `call` is the running
call and where it is. A call takes the lock, replays what is `pending`, observes the
file twice, writes its intent and replays it: install the version and its blob,
replace or move the file, write the projection and the identity, append to the
journal, clear the intent. `torn` is a journal line cut short, which the next open
drops. A save checks the file it is about to replace once more
(`replace_verified`); people may still write between that check and the rename.
`HistoryTransfer` adds proposal, approval and the apply under both locks, with the
state its plan was stored in (`approved` .. `cleanup`), the receipts `outgoing` and
`incoming`, and the `staged` copy.

### Change Sets

`ws` is the root's files; `checkouts`, `envelopes`, `receipts`, `journal`, `work` and
`marked` are files under `.folderbase`. Capture is one step here (`CaptureSeal` has
its inside), with its identity rules kept. A call of `apply_change_set` begins fresh
or resumes (`BeginFresh`, `ResumePrepared`, `ResumePublished`, `ResumeCompleted`),
prepares, publishes every file (`Move`, `Remove`, `Publish`, `Rewrite` for a file
marked to be rewritten in place), journals `published`, releases the lock, seals,
replaces the sealed Head by proposal and merge (`StartHistory`, `InstallProposal`,
`MoveHead`) and in a third lock period writes the receipt and cleans up. `StartHistory`
checks all it will install against one capture, gives the Objects whose Object Version the
capture renewed (`Renewed`) the Change Set's, and installs its current side;
`InstallProposal` installs the proposal; `MoveHead` installs the merge and moves Head.
A published file may be `Torn`.

### Migration

`journal` is the last generation; every append is one `Next...` constructor, and
`Legal`, the check the code makes on append, is written independently of them.
`tree`, `claims`, `staged`, `owned`, `receipt` are the visible tree and the private
directory; names hold inodes, a published file has two links until its claim is
dropped, a taken file is renamed into a claim. A command (`proc`) opens the
transaction (`ReopenOK` is the whole admission), then goes forward (`ApplyNext`) or
back (`RollbackNext`): the intent is journaled, the leaf staged and bound, the path
seen absent, published, receipted and the receipt journaled. `aim` remembers the
inode a rename was decided on: people may change the name before the rename falls.
`Absent` stands for a journal not yet written. No two steps of a program name one path:
the compiler collects every source and target in `visible_case_keys`
(`transaction_v1.rs:2006-2107`) and refuses a second insertion.
The eleven transitions, every kind of step (create a directory or a file, move,
replace, on the policy file too), conflicts and the abort of an apply in flight are
there. Planning and
compilation of a program and the released `result.json` format are not.

### A root's own records

`RootAuthority` has the manifest, policy, Local Head, lock and pending intents.
`ProtocolUpgrade` is plan, intent, exchange of manifest and staged successor (which
brings back whatever a person put in its place), verification, acknowledgement,
withdrawal and recovery. `FolderScopeEvidence` appends an observation in three
durable steps and completes what a dead process left. `FolderSetup` has template
packages, rendering and the two no-clobber additions that `Initialization` (no lock,
manifest last) and `TemplateExpansion` (lock, record last, lineage from origin and
history) share. `RootLifecycle` composes all of it with people who edit the manifest,
files, folders and nested boundaries. A name is its case-folded key and a spelling,
so that aliases exist. Private staging files, inventory budgets, provider-controlled
folders and the refusal to nest inside a Folderbase are left out.

### Delivery

`ReconstructionPackage` decides as the planner does whether an index is closed over
its Version (roles, Objects, fidelity, manifests). A reconstruction call first sees that
the package is apart from the destination, then works in a stage directory with an
owner file and a stage proof, materializes files and history, verifies the tree and
publishes by a rename that replaces nothing; then it retires its records. The planner
does not compare the modes of an Object Version that is both live and deleted;
`CheckFidelity` is where materialization does, and a package that disagrees is refused
by then. People may write a root manifest that attests: the Version's own is not the
only one. The Folderbase and the protocol of the manifest are checked before the history
is installed (`root_reconstruction.rs:836-840`) and on replay; after that (856) whatever
manifest attests is named by the completion, and confirmation compares with that name
(888-894), so the root is whole as its completion says. Directories are numbered, so
a call that still holds a directory after it was
published or replaced is seen to write there. `ChunkTransfer` is a source that binds
one Object Version, receivers with a shared checkpoint directory, chunk files
published by link, and the assembled target. Its rolling hash is the
code's, with small constants. The CLI adapters and destination probes are left
out.

### Synchronisation

`Write`, `Sync` and `SkipEvent` / `ApplyEvent` are `SyncReplica::write`, `sync` and
`apply_event`. One `Sync` visits every path either side knows; `Uploads`,
`Downloads`, `Unchanged` and `Conflicting` are the four branches. Branches at
different paths touch nothing in common but the sequence counter, so the loop is one
step and `Ticket` gives the number each captured version gets in path order. `events`
is a set from which any event may reach any replica at any time, once, often or never.
`MemorySyncCloud` is owned by one `&mut` caller, which is why a sync is atomic. Since
the code compares digests alone, equal bytes of different kinds are never reconciled
(a remark, not a property).

### Pure parts

`VersionDiff` translates both passes of `diff`, by Object and by path, and its result
as a set; `SortKey` is the order of the list. `Availability` has each readiness
state, blocker and archive decision, ids counted once and sums that saturate.
`Reorganization` has drafts, the operation closure and sealing. A path's key is its NFC
form, lower-cased too where the folder ignores case; the names Core reserves are
recognised by ASCII case alone, as the code compares them. Core has no executor
for these plans, so what an operation does to a tree is marked external and taken from
the facts the closure demands.

## 3. Runs

| Run | Module, cfg | Checks |
|---|---|---|
| capture | `MCFolderbaseSeal`, `MCCapture` | `TypeOK`, `HeadComplete`, `NothingVanishes`, `PathContinuity`, `HiddenIsNotDeleted` |
| race | `MCFolderbaseSeal`, `MCRace` | `JournalAnchored`, `SealedAsObserved` |
| restore | `MCFolderbaseSeal`, `MCRestore` | `RestoreAnchored`, `RestoresSealedBytes`, `NoClobber`, `ImplementsHistory` |
| progress | `MCFolderbaseSeal`, `MCProgress` | `EventuallySealed`, `RestoreResolves` |
| sync | `SyncReplicas`, `MCSync` | `BaseIsApplied`, `Materializable`, `EditsSurvive`, `NeverBackwards`, `EventuallyConverged` |
| migration | `MCMigration`, `MCMigration` | `NoByteLost`, `EndsAsPromised`, `StrandedOnlyByStage`, `ComesToAnEnd`; `Reorganization` in assumptions |
| store | `MCHistoryTransfer`, `MCStore` | `HistoryComplete`, `JournalTellsOnce`, `SavesKeepPrior`, `OneOwner`, `InterruptedWorkResolves` |
| lifecycle | `MCRootLifecycle`, `MCLifecycle` | `PeoplesWorkSurvives`, `ProofsFollowFolders`, `HistoryHolds`, `UpgradeExcludesOthers`, `UpgradeResolves` |
| changeset | `MCChangeSet`, `MCChangeSet` | `EditsSurviveApply`, `MergeIsUnion`, `ProjectionsFollowHead`, `ApplyResolves`; `VersionDiff` in assumptions |
| delivery | `MCDelivery`, `MCDelivery` | `RootIsWhole`, `DeliveredWhole`, `DestinationsAreLeftAlone`, `DeliveryCompletes`; `Availability` in assumptions |
| apply_converges | `MCChangeSet`, `VConverge` | `ApplyConverges`, which the code violates |
| poisoned_save | `MCHistoryTransfer`, `VPoison` | `PendingReplays`, which the code violates |

**What they show beyond their names.** `ImplementsHistory` is the refinement of
`VersionHistory` by captures and restores together. `SealedAsObserved` shows that the
final plan catches whatever changed after a file was read. `StrandedOnlyByStage`
bounds the one crash after which a migration cannot be reopened; `EndsAsPromised` says
that everything else ends done or undone. `MergeIsUnion` relates four Versions that
three lock periods wrote. `OneOwner` holds in between two locks of two stores.
`DeliveryCompletes` has one condition for callers and one for receivers.

The pure modules are checked by named assumptions, which TLC evaluates on every start
of the run: `SealedPlansHold` and `CaseSensitivePlansHold` (every list of up to three,
and two, of 17 operations on each tree of four paths), `SomePlansAreSealed` (that this
is not empty under either profile), `OnlyAsciiCaseIsReserved`, `DiffsOfBindings` and
`DiffsOfRecords` (every two small Versions),
`ReportsExplained` and `ArchivesExplained` (every set of facts about up to two objects,
with a byte counter that saturates at three).

**Bounds.**

* *Capture and restore.* `MaxEdits` bounds the user's changes, `MaxTxns` the
  transactions, `MaxCrashes` the deaths, `MaxAuthorities` the retained authorities
  (4096 in the code). `MaxTxns` is above what the edits can use up, so no run stops
  for want of it. Two paths are the least that shows moves, swaps and two Objects; two
  contents the least that shows an edit; three inodes allow a replaced file, a
  recycled inode and a private stage to be different. One crash reaches each boundary,
  since every action in `CrashPoints` is a boundary of its own and a later call starts
  from the durable state alone. `UserOps` picks the changes that matter to a run's
  question. `CrashPoints` does not list a step before which a death leaves the same
  durable state as the step before. `SYMMETRY` exchanges processes and contents, and
  inodes only where any unlinked inode may be handed out; it is not used with
  liveness.
* *Sync.* Three writes by two devices at two paths reach every branch: two first
  uploads of one path conflict, a third write makes the base stale. `MaxIdle` leaves
  out only syncs that would capture an already recorded conflict again. The bound on
  writes is the assumption that users stop.
* *Migration.* Four programs of two steps have every kind of step, a step that rests
  on an earlier one and a step on the policy itself. One crash, one conflict and two
  acts of people.
* *Store.* One path in the folder that becomes nested and one outside it, one edit,
  two calls, one crash; `MaxIds` is above what these can mint.
* *Lifecycle.* `MCTeams` picks who is at work, with the changes and crashes of each
  team: two upgraders, an upgrader with a capture, an observer or an expander, an
  observer with a capture, two initializations, one with people, one with an expander,
  one or two expanders. Three templates of one lineage (two of them rivals, one with
  an aliasing name) and one of another.
* *Change Sets.* Three paths of which two are shared, one Change Set with up to two
  changes, two processes, one edit, two captures, one crash.
* *Delivery.* `TheScenes`: one caller with two deaths or two faults, two callers of one
  operation, two of different operations, one or two receivers; Objects of no, one and
  two chunks; one closed package index, five that no planner may accept, one that says
  two modes of an Object Version both live and deleted, and a package that is not apart
  from the destination.

`CHECK_DEADLOCK FALSE` in all: a system whose users, calls and crashes are used up
stops.

**Fairness.** A process that holds a lock runs, or dies and frees it. The code has no
retry loop of its own, so everything else is the caller's: somebody keeps planning,
sealing and resuming a pending restore (`SF`, since another process may hold the lock
or a user may change the workspace each time), keeps recovering a migration, opening a
store, resuming an approved transfer of history, planning and applying an upgrade
(`SF`), applying the active Change Set (`SF`), and calling reconstruction and
receivers; every device keeps calling `sync`. Notifications, people and crashes owe
nothing. Each liveness property names its exceptions as operators (`Hiding`,
`Obstructed`, `Stranded`, `PolicyInDoubt`, `Poisoned`, `Foreign`, `Refused`, `Rivals`,
`CutShort`, `Orphaned`): states that the code refuses until a person acts. They are
met in the runs; the other behaviours end as promised. Reconstruction also excuses a
package that is not `Sound`: not plannable, not apart, of two modes for one Object
Version, or with a manifest of its own that does not fit.

## 4. Where the code and the documents disagree

Two are runs with a counterexample.

1. **A Change Set that creates a file is never finished** (`apply_converges`). Its
   proposal mints an Object identifier, the capture after publication mints another,
   and the history is refused for lack of the first; the journal stays in `published`
   and blocks every other Change Set. ADR-0012:258-259 promises convergence.
2. **A save that poisons the store** (`poisoned_save`). New text equal to what an
   untracked file holds commits an intent whose replay reads a version
   (`local_versions.rs:1714-1720`) before installing it (1735-1740). Every later open
   replays it first and fails; `local_versions.rs:421-422` promises repair.

The rest was met while modelling; exceptions in the properties name most of it.

*Capture and restore.* Recovery looks the parent's binding up at the same path only
(`folderbase_seal.rs:4672`), so a crash between the Head's move and cleanup of a moved
file leaves a journal that is rejected for ever. A restored file that is renamed loses
the proof of its private link and is recorded as deleted (3171). A stage spoiled by a
cut copy or through its published inode never finishes (`folderbase_state.rs:546`). A
restored file deleted between receipt and retention leaves a receipt nothing retires
(1002). ADR-0005 and `docs/protocol-spec.md:1241` put cross-path moves out of scope,
yet Objects follow inodes; a file renamed and recreated between captures makes two
live bindings of one Object and is refused; a recycled inode may pass for a move.

*Change Sets.* The "current" Version has a derived identifier
(`folderbase_seal.rs:965`, 1000), so a death after it was installed and then any edit
is refused for ever. A capture by anyone between removal and reinstallation of an
edited file makes it a new Object. Current and proposal get the projection base as
their only parent (1229, 1339): Versions sealed since leave Head's ancestry, and
Tombstones in them cannot be restored. A torn file marked for rewriting is overwritten
on resumption even if a person has edited it meanwhile. Two calls applying one Change
Set may move Head back, and the second, refused after it installed its proposal again,
leaves current Object Versions that Head does not have (`Reinstalled` in
`ProjectionsFollowHead`; no death is needed).

*Local versions.* A capture whose file is edited between blob and rehash leaves an
intent that blocks the store until those bytes are back. A transfer at
`SourceReleased` may conflict with no owner left that reads the history.

*Migration* (ADR-0007:169-171). A crash after staging and before the generation that
binds the stage leaves a transaction every reopening refuses. Four more orders leave a
`.preparing` leaf, a receipt set ahead of its journal, a claim removed before its
abort receipt or an aborted directory neither removed nor admitted. The rollback of an
unreceipted replacement of the policy always fails (`migration.rs:4337-4341`).

*A root's records.* An edit of the manifest between revalidation and activation leaves
the upgrade's intent; a crash between exchange and swap back leaves an artifact that
recovery refuses. Scope journals are re-digested with today's attestation
(`folder_scope_evidence.rs:890-900`), so an upgrade rejects all older ones; a crash
after an event's publication and then an edit refuses every later observation
(ADR-0018:143). A clock that steps back between two applications makes every later
plan refuse (`template_expansion.rs:793-798`). A crash between hard link and unlink of
an addition leaves a second link, and capture excludes the file.

*Delivery.* Reconstruction takes no lock: a second call of one operation may go on
writing into the root the first has published, over a person's edit
(`root_reconstruction.rs:2539-2548`, 2599-2616). The rename goes by name
(`root_reconstruction.rs:867`, `migration_filesystem.rs:4233-4243`): if people have moved
the published root away and another call has begun the stage anew, a call that is late
with its own rename publishes that half-made stage; it notices when it confirms and
answers conflict, but the root stays. The properties except both as rivals. A valid
manifest of another Folderbase that somebody writes into the stage between the check at
836 and the attestation at 856 is attested, named by the completion and published, and
every replay then answers that the destination is occupied. A torn owner or
proof is refused for ever. A person's edit between publication and retirement leaves owner and proof, and
replay answers that the destination is occupied. Two calls of one operation may delete
each other's unfinished files without end.

*Sync, availability.* After a conflict a replica keeps its old base, so merged bytes
conflict again until it has taken the remote ones. `evaluate_archive` does not look at
the pins of sessions (`availability.rs:48` against 298-380).

## 5. Proofs

For every set of paths, contents, inodes, processes, devices, agents and templates and
every bound. The assumptions on constants are named where the constants are declared,
and TLC evaluates each on its run:

* the absent value is none of the values it stands beside (`NoneAssumption`,
  `WorkspaceAssumption`, `LocalStateAssumption`, each `NoneIsNoRecord`);
* bounds are naturals (`StoreAssumption`, `SyncAssumption`, `MaxHeadsAssumption`,
  `MaxManifestEditsAssumption`, `BoundsAssumption`, `ChangeSetAssumption`,
  `MigrationAssumption`);
* `ScopeAssumption`, `ChangeSetAssumption`: finitely many numbered paths, and what agents
  and people write, and what is there first, is content; a torn file is none of it;
* `MigrationAssumption`: finitely many paths, what is there at first has its directories,
  and the manifest and policy are files that are there. `TreeAssumption`: the paths are
  in a tree, whatever holds a path being at a lesser depth (that what is beneath a
  directory is beneath whatever holds it, `BeneathGoesUp`, is proved by induction on the
  depth). `ProgramsAssumption`: a
  directory is made only where the path is one, a move has a file as its source, and no
  two steps name one path (see section 2);
* `SyncAssumption` also has finitely many paths, ordered by number; `StoreAssumption`
  an outer and a nested part of the tree without a path in common;
* `RolesAssumption`: an agent that upgrades, captures, observes or expands does only
  that. A process of several roles is several agents, which the lock keeps apart;
* `PathOrderAssumption`: the paths looked at are listed once each, parents included,
  and people's paths are not the manifest (its edits are actions of their own);
* `VersionAssumption`: a package's Version lists its bindings, none at the manifest or at
  the path where people put a file of their own;
* `OperationsAssumption`, `ScenesAssumption`: a caller asks for one of the operations, and
  who is at work in a scene is one of the callers and receivers;
* `PackagesAssumption`: a template package has a numbered version and artifacts that
  are files or directories at paths looked at, which its reader validates.

| Theorem | Module | States |
|---|---|---|
| `TypeCorrect`, `HeadAlwaysInstalled` | `FolderbaseSealProofs` | `TypeOK`; Local Head names an installed version |
| `ExclusiveAlways` | `FolderbaseSealProofs` | `Exclusive`: a capture and a restore never both have an active intent |
| `JournalAlwaysAnchored`, `RestoreAlwaysAnchored` | `FolderbaseSealProofs` | `JournalAnchored`, `RestoreAnchored` |
| `NeverClobbers` | `FolderbaseSealProofs` | `NoClobber` |
| `RefinesHistory` | `FolderbaseSealProofs` | `ImplementsHistory` |
| `ContentsInvariance` | `FolderbaseSealContents` | the invariant of what is installed, planned and read |
| `HeadAlwaysComplete`, `NothingEverVanishes`, `PathsContinue` | `FolderbaseSealContents` | `HeadComplete`, `NothingVanishes`, `PathContinuity` |
| `HiddenIsNeverDeleted` | `FolderbaseSealContents` | `HiddenIsNotDeleted` |
| `SealedBytesAreRestored`, `SealsAsObserved` | `FolderbaseSealContents` | `RestoresSealedBytes`, `SealedAsObserved` |
| `AncestryIsALine`, `TombstonesRestorable` | `FolderbaseSealContents` | the versions are one line without a cycle; every Tombstone of a regular file has the live ancestor it records |
| `TransferInvariance` | `HistoryTransferProofs` | the invariant of two stores, the transfer and the running call |
| `HistoryIsComplete`, `OneOwnerAlways`, `SavesAlwaysKeepPrior` | `HistoryTransferProofs` | `HistoryComplete`, `OneOwner`, `SavesKeepPrior` |
| `EveryChangeToldOnce` | `HistoryTransferProofs` | `JournalTellsOnce` |
| `HistoriesOnlyEverGrow` | `HistoryTransferProofs` | no step takes a Version, byte or line from a store; a record's list only gets longer, and is frozen once handed on |
| `LifecycleInvariance` | `RootLifecycleProofs` | the invariant of everything that works on a root's own records |
| `UpgradeAlwaysExcludes` | `RootLifecycleProofs` | `UpgradeExcludesOthers` |
| `PeoplesWorkAlwaysSurvives` | `RootLifecycleProofs` | `PeoplesWorkSurvives` |
| `HistoryAlwaysHolds`, `ProofsAlwaysFollow` | `RootLifecycleProofs` | `HistoryHolds`, `ProofsFollowFolders` |
| `DeliveryInvariance` | `DeliveryProofs` | the invariant of calls, people and receivers |
| `RootIsAlwaysWhole`, `DeliveredAlwaysWhole` | `DeliveryProofs` | `RootIsWhole`, `DeliveredWhole` |
| `DestinationsStayAlone` | `DeliveryProofs` | `DestinationsAreLeftAlone` |
| `ChangeSetInvariance` | `ChangeSetProofs` | the invariant of calls, Versions, envelopes, publication, history and projections |
| `EditsAlwaysSurvive` | `ChangeSetProofs` | `EditsSurviveApply` |
| `MergesAreUnions`, `ProjectionsAlwaysFollow` | `ChangeSetProofs` | `MergeIsUnion`, `ProjectionsFollowHead` |
| `MigrationInvariance` | `MigrationProofs` | the invariant of names, claims, unpublished copies and checked leaves |
| `NamesAlwaysStay`, `NoByteIsLost` | `MigrationProofs` | a step drops the last name of nothing but an unedited copy of its own; `NoByteLost` |
| `EndsAlwaysAsPromised` | `MigrationProofs` | `EndsAsPromised` |
| `StrandsOnlyByStage` | `MigrationProofs` | `StrandedOnlyByStage` |
| `PlansAlwaysRun`, `BoundariesAlwaysClosed` | `MigrationProofs` | `PlansRun` and `BoundariesStayClosed` of `Reorganization`, for every valid plan and tree |
| `SyncInvariance`, `BaseIsAlwaysApplied`, `AlwaysMaterializable` | `SyncReplicasProofs` | the invariant of sync and two of its parts |
| `NeverGoesBackwards`, `EditsAlwaysSurvive` | `SyncReplicasProofs` | `NeverBackwards`, `EditsSurvive` |
| `DiffIsComplete`, `DiffTellsEdits` | `ChangeSetProofs` | replaying a diff on one Version's paths gives the other's; an Object that stays is told as updated exactly when its binding differs, wherever it moved |
| `DiffOrderIsTotal`, `EmptyDiffMeansEqual` | `ChangeSetProofs` | `OrderIsTotal`, `EmptyMeansEqual` of `VersionDiff` |
| `StatesAreExplained`, `CostsAreTold` | `DeliveryProofs` | `StateIsExplained`, `CostIsTold` of `Availability`: each readiness state holds exactly when none of its blockers is listed, and for the session state also only when a session is asked for |
| `DecisionsAreExplained`, `RemovalsAreRecoverable` | `DeliveryProofs` | an archive decision follows from its blockers; what it lets go is verified remotely |

Each inductive invariant was first an invariant of a TLC run. The runs that check
liveness use a specification with fairness, which implies the one of the theorems.

**Capture and restore: the protocol.** The argument goes in layers, each inductive over
the ones before. `TypeInv` adds to `TypeOK` what each step finds: which of `journal`,
`active`, `recovery` and `wanted` exists at which `pc`. TLC evaluates types as
predicates (`TypeOK`); the proofs use the sets of records (`Typed`), and `TypedAre`
shows that these imply the predicates. `LockDiscipline` says whose intent exists at
whose step: neither admission begins while the other's intent is pending, which is
`Exclusive`. `Known` is these two with `Numbered`, which says that no identifier in use
is above `issued`; `Anchored` ties the Head to each intent. By `Numbered` a fresh target
names no version the Head could have, so "the Head is my target" is true only of a
committed transaction; this is what makes recovery sound. `StagePrivate` says that a
stage not yet filled is linked from no path, without which writing the stage could write
a user's file; `NoClobber` follows from it and from the guard of `Publish`. `Parented`
says that a target's record stands on the expected parent, so a move of the Head is
`Advance` or `Retract` of `VersionHistory`, an install is `Install` and every other
step stutters.

**Capture and restore: the contents.** `ContentsInv` follows a version from its plan to
its installation.

* `HistorySound` is about what is installed: each version is valid, binds what is sealed,
  and stands on installed parents of smaller numbers that it `Continues`. The smaller
  numbers make the parent edges acyclic; `MintedBy`, that no version names an Object of a
  later transaction, is why an Object minted by a capture is new to the whole history.
* `JournalSound` is about the intent of a capture. Each assignment continues a binding of
  the parent or mints an Object (`AssignedFrom`), and `WillBeValid` says that whatever
  bytes are read, the version will be valid: the code validates before it journals, and
  people edit afterwards, so validity may rest only on what the intent froze.
* `BuiltSound` ties what was read to the file while its stamp is the planned one
  (`AsRead`); with `FilesSound` (no stamp is ahead of the changes made) the last look at
  the workspace compares stamps and thereby bytes, which is `SealedAsObserved`.
* `RestoreSound` keeps the Tombstone, its Object Version and the parent of a pending
  restore together, so a retry after a crash restores what the first attempt found.
* `PlansSound` says that a plan's entries are none of the ignored paths; without it a
  hidden path could be an entry too.

Making `HiddenIsNotDeleted` inductive showed that it had been stated too strongly: when
the recorded file of an Object is seen at another path the capture does assign the
Object there, or deletes it although its old path is hidden
(`folderbase_seal.rs:3173-3211`). That needs five changes by the user and capture has a
bound of three, so the run had not met it; the property now names the exception, and its
theorem holds for any number of changes.

*Ancestry.* The restore of a Tombstone walks the ancestors for the live binding it records.
The code prepares to refuse: for a cycle (`folderbase_seal.rs:1644-1687`), for nearest
ancestors that disagree (1689-1704), for no ancestor at all (1638-1641). `LineageIs` finds
that the recursive `Lineage` is the version and the lineages of its parents, by showing that
the least set closed under parents solves the recursion; the rest is induction on version
numbers, said of sets (`SmallerFirst`). `Traceable` is the invariant: each version has one
parent at most and takes its Tombstones from it. So the three refusals never occur in a
history that captures and restores built, and the youngest candidate, which the model takes,
is the nearest one, which the code takes. (A reconstructed root has Tombstones whose
versions are elsewhere, for which the code has a record of its own: not modelled here.)

**Stores and transfer.** `TransferSafety` has five parts. `StoreInv`: a projection lists
only versions that are installed with their bytes, a durable intent brings along what
replaying it needs (so that replaying it from any step is safe), and identifiers are
minted once over both stores. `PlanInv`: what a transfer hands over is still installed at
the parent, and once the parent is denied it (`outgoing`) the history is staged whole or
installed at the other end. `OwnerInv`: an Object both stores know, intents included, is
the one handed over. `CallInv` says for each step of the running call what it may rely
on, in particular what a save saw at its last check. `FilesTyped` types the files.
`OneOwner` is `OwnerInv` with `PlanInv`: denial comes before delivery and delivery
before activation, in states on disk that a crash does not undo.

`JournalInv` is on top of these: every version that a record or an intent lists is
accounted for, by a line of the journal, by an event of the intent, or by the plan that
handed it over. An intent tells of every version its Object did not list (`Intended`), all
its events are different, and it is retired only once `AllTold` holds. A death in an
append leaves any number of its lines; `MissingLines` says that the next append adds
exactly the others, which is `JournalTellsOnce`. For this proof `Missing` picks the lines
by their place, since what `SelectSeq`, a recursive definition, computes for every
sequence could not be used.

`HistoriesOnlyGrow` is an action property stated beside its proof: installed Versions, blobs, journal lines and receipts stay,
every record keeps its list of versions as a prefix of the next one, and a record the
parent handed on is not written again. The replay of an intent replaces a whole record by
what was computed when the intent was written, maybe by a process that is dead, so this
needs `GrowthInv`: an intent still extends the record it will replace (`IntentsExtend`),
ids are unique in a store, what a call found at its path still holds when it commits
(`CommitFinds`), and a transfer starts only where nothing is pending and stays alone
(`TransfersAlone`); without the last, replay of an older intent would add to a history
already given away. TLC agreed with it on the states of `store` before the proof.

**A root's own records.** `LifecycleInv` has one part for each thing that goes on.

* `LockInv`: a step after the lock is taken belongs to its holder, and while an upgrade's
  intent is pending only upgraders have the lock. `UpgradeExcludesOthers` follows with
  the recheck of the intent under the lock.
* `ExchangeInv` in `UpgradeInv`: as long as nobody has edited the manifest since the
  plan, manifest and artifact are the source and target of the intent and nothing else
  (`Intact`). So what recovery throws away is never the last edit, which is
  `ManifestsSurvive`; `NoManifestYet` and `OriginWasThere` are its beginnings.
* `TreeInv` and `StartInv`: what is in the tree has been `seen`, and what people wrote is
  still theirs, since an addition goes only where nothing is. The items of an
  initialization can be ordered (`Ordered`), so some step is always next and the
  manifest comes when everything else is there.
* `ExpandInv`: an approved plan still `Continues` the history when it is executed. It
  holds since the lock is kept from the check to the record; it makes each record the
  only successor of its predecessor (`RecordsInv`), and numbers are 1..n, so the chain
  never forks.
* `ScopeInv`: the journal is at most one event ahead of its head, and nonces are 1..k
  without a gap. `Decided` says that an event about to be written is consistent with
  what is committed, though maybe not with the one a crash left behind, which it equals
  or replaces.

The first form of `RecordedFirst` failed on the way: an application may list the manifest
among the files it kept, and no addition ever put it there. `PathOrderAssumption` had to
say that the ancestors of paths are looked at too: they are among the items of an
initialization.

**Delivery.** `ReconstructInv` rests on who may write where. A call writes files and
Objects in its directory only while it is `Early`, before Local Head is installed there.
`RivalsMarked`: two calls at work in one directory are marked in `edited`; so what a call
that works alone has read stays true until it publishes, unless people edit it, which is
marked as well. `ProofsHold` says what that is at each later step: Local Head and every
Object its plan names, then every file and the manifest, then the completion. `Publish`
turns it into `RootIsWhole`: that the plan names all the Version needs (`PlanCloses`) was
decided when the package was planned. `ManifestInv` says which manifest that is: Core
writes none of those that people write, so one of theirs is marked where it stands, and
where nothing is marked the Version's own was found to fit before Local Head was
installed. `ProofsHold` carries the attested one, which the call has `seen`, to the
completion that names it. `RootIsClosed`: a call still at work in an unmarked
root is past its last write, so no step of Core changes the files of a published root,
and by `NamesTyped` a directory has one name, so no stage is the root. A step of a call
is one of seven kinds (`StepKinds`), and all but three need only what it did to its own
directory (`WorkKeeps`). For transfers `TransferInv` says that a receiver about to
install holds the Object: it planned what it assembled and compared the whole manifest.

A larger instance (two callers of one operation and a fault by people) had `RootIsWhole`
violated by the late rename of section 4, which the run's scenes do not reach in the time
a run has. `Publish` now marks it and the theorem covers it.

**Change Sets.** `ChangeSetInv` follows a Change Set through its three lock periods.

* `LockInv` and `VersionsSound` say who holds the lock at which step and that whatever is
  installed is valid. `EnvelopesSound` has `DerivedFrom`: a delta names the Object its base
  has at its paths, a new Object is none of the base, and no two deltas have a path in
  common. Every exchange of files that publication does rests on the last.
* `PublishInv` is the argument for `EditsSurviveApply`: what is at a path of the Change Set
  was recognised by one of its deltas when the call judged the workspace, and stays so
  while the call moves, removes and writes, unless it came later (`late`). The bytes to be
  written are prepared (`Written`), so a resumption writes what the first call would have.
* `FinalSound`: between `StartHistory` and `MoveHead` the lock keeps Head and the capture
  that proposal, current and merge were computed from, so the validity checked at the
  start still holds when they are installed. `HistorySound` keeps of it what a later
  attempt needs: a merge that is installed was computed from one installed capture, which
  bears the deltas out. `MergeIsUnion` follows without regard to who installed which part.
* `CurrentInv`: the current Object Version of everything Head binds is the bound one or
  the one a begun Change Set gave it (`Excused`).

Making it inductive corrected the model twice: the rewriting of current Object Versions
takes in only what the capture renewed (`folderbase_seal.rs:1114-1116`), and
`ProjectionsFollowHead` had excused a second installation only after a death, while a
call that is refused half way has the same effect.

**Migration: no byte is lost.** `MigrationInv` is about names. `PlaceInv`: an inode is
named by the paths and claims of one step only, apart from its own path, so a step that
sees an inode knows all the places it may be. `OwnInv`: a publication slot holds the
step's own copy. `UnseenInv`: a copy not yet published has no name people could edit it
by, so what the program drops without looking is unedited. `AimInv`: the claim a checked
leaf is renamed into is free; whatever people have put there meanwhile lands in it.
`NamesStay` is the action property: only an unedited copy of the transaction's own loses
its last name. The one removal that rests on counting is the abort of a move with three
links; `ThirdName` shows that the third is the rollback claim.

**Migration: it ends as promised.** `EndsInv` ties the files to the journal at paths that
people left alone (`Untouched`).

* `Tally` fits the cursor, the receipts, the step in flight and the aborted step together;
  `RecordInv` says that private receipts are those of the generation or one step ahead,
  which a crash between receipt and generation leaves.
* `SettledInv` is what a step's place means for its paths: ahead or aborted `AsBefore`,
  done `AsPublished`, undone `AsRestored`. A step in flight is none of these; `FlightInv`
  says what it may have published so far and what it then still holds, `WorkInv` what
  the running command knows from its last call. A command that finds a crashed step knows
  only the former, which is why the abort looks again and clears one thing at a time.
* `FitsInv`: the program fits the folder it was prepared for. `Apart`: a moved inode is not
  at its target when the step is ahead or aborted. `RestorePlace`: a restored copy is only
  where it was taken.
* `KeptIsTouched`: the rollback leaves a directory in place only for something people did
  below it. This is why the property speaks of paths with nothing touched beneath them.

At the end every step is done, or every one is ahead, aborted or undone, and the program
names each path once.

**Migration: it can be opened again.** `StrandedOnlyByStage` says that the one way to be
stranded is a crash that leaves a stage behind. `OpenInv` has a part for each clause of
`ReopenOK`: the stage, the ownership record and the binding of a step come and go in one
order (`BindingOpen`); a receipt is there whenever the journal relies on it
(`ReceiptsOpen`); a directory has left its claim before the journal takes up its receipt
(`ClaimsOpen`); and `CallOpen` is what the running command has found of all that. The parts
hold while the direction is forward and nobody has touched the paths; this is enough
because the direction turns only once (`TurnsOnce`).

**Sync.** `BaseIsApplied` and the two other properties are inductive only with
`Ordered`: the canonical version of a path is published and the newest, and no replica
is ahead of it. A sync's new tickets are above the counter (`TicketIsNew`).
`EditsSurvive` follows from `BaseIsApplied`: only clean bytes are replaced, and a base
is published.

**Pure parts.** A diff is complete because each Object has one path in a valid Version
(`OnePathEach`): no change of one Object can be taken for another's, so what moved,
went or was recreated leaves exactly the paths that the moved, added and recreated
take (`KindsOfDiff` finds the changes of each kind in the whole). The order of changes is
total because two changes of a diff that agree on all that is compared are one; an empty
diff leaves nothing that could differ (`NothingDropped`), the maps of both states being
functions (`MapsOf`). The theorems about `Availability` unfold the decision over any finite
sequence of objects; for the cost, `Bytes` is shown to be one function of the sizes,
however the sum is taken.

A plan of reorganization is run operation by operation. The library's induction theorems
take an operator as a parameter, which the provers cannot instantiate, so `NaturalSets`
states induction about sets: a set of naturals with 0 and each successor is all of them. By it
the tree after n operations exists (`TreeByTree`) and differs from an earlier one only at
the paths the operations between are about (`OthersFactsStay`). Each operation of a valid
plan has paths of its own (`KeysAreApart`) and a directory it requires is no operation's
path, so it finds what validation found. `IsDraft` has what the parser of a plan gives:
operations, paths and facts of their types.

**Only model-checked.** Liveness everywhere: `EventuallySealed`, `RestoreResolves`,
`EventuallyConverged`, `ComesToAnEnd`, `InterruptedWorkResolves`, `UpgradeResolves`,
`ApplyResolves` and `DeliveryCompletes`, which rest on fairness and ENABLED. Every other
property of the runs that hold is the statement of a theorem above.

## 6. Not modelled

* Query sessions: one scan pinned to a root, then parsing, indexing and ranking; no
  effect on any other component.
* Sharing: an in-memory registry of grants that nothing in Core calls.
* Reading and validation, CLI, daemon, SDK, installer and site: parsing, reporting,
  process supervision and packaging, without durable state of their own.
* Inside the modelled components: symbolic links, the executable bit, nested
  directories in captures, encodings of records and their released forms, platform
  probes, budgets on input, authorization of Change Sets, planning of migrations.

## 7. Plan

Proofs that could come next: abstract specifications for the store (one history per
Object) and for delivery (nothing or the whole), with the refinements.

Models that could still be deepened: the metadata scan of a capture split per path,
two Change Sets, directories in captures.
