--------------------------- MODULE TombstoneRestore ---------------------------
(***************************************************************************)
(* FolderbaseVersionStore::restore_tombstone: a regular file the Head      *)
(* records as deleted comes back at its own path, under its own Object,    *)
(* without ever replacing what somebody put there meanwhile.  A private    *)
(* stage of the sealed bytes is hard-linked into the absent path, the Head *)
(* moves to a child version, the publication is proved again, and a        *)
(* cleanup receipt survives the journal so that a crash at any boundary is *)
(* taken up by the next restore of the same path.                          *)
(***************************************************************************)
EXTENDS LocalState

\* The transaction a step works on: the journal, or the receipt that outlives it.
txn == IF recovery # None THEN recovery.txn ELSE active

Stage(t) == slot[t.key].ino
Staged(t) == Stage(t) # None
StageSealed(t) == node[Stage(t)].data = t.binding.data

\* The path names the exact staged inode, with and without its sealed bytes.
Published(t) == Staged(t) /\ dir[t.path] = Stage(t)
PublicationVerified(t) == Published(t) /\ StageSealed(t)
ModifiedInPlace(t) == Published(t) /\ ~ StageSealed(t)

TargetHead(t) == [version |-> t.target, authority |-> "version_derived_v1"]

workspaceAndStages == <<workspaceVars, slot>>

-----------------------------------------------------------------------------
(* Admission.  A pending restore is only ever taken up for its own path.   *)

Restorable(v, path) ==
  /\ path \in DOMAIN versions[v].tombstones
  /\ versions[v].tombstones[path].kind = "regular_file"
  /\ RestoreSource(versions, v, path, versions[v].tombstones[path]) # {}

RestoreAdmit(p, path) ==
  /\ plan[p] = None
  /\ journal = None /\ active = None /\ recovery = None
  /\ ~ Live(path)
  /\ Cardinality(authority) < MaxAuthorities
  /\ head # None
  /\ Restorable(head.version, path)
  /\ Acquire(p, "rebind")
  /\ wanted' = path
  /\ UNCHANGED <<workspaceVars, store, journal, restoreState, plan, built, crashes>>

RestoreResume(p) ==
  /\ plan[p] = None
  /\ journal = None /\ active # None /\ recovery = None
  /\ head \in {TargetHead(active), active.expected}
  /\ Acquire(p, "stage")
  /\ UNCHANGED <<workspaceVars, store, journal, restoreState, volatile, crashes>>

\* Mutant: every receipt is taken to be of a committed restore.
RestoreRecoverCommitted(p) ==
  /\ plan[p] = None
  /\ journal = None /\ recovery # None
  /\ head = TargetHead(recovery.txn)
  /\ Acquire(p, IF recovery.disposition = "committed" THEN "retain" ELSE "modified")
  /\ UNCHANGED <<workspaceVars, store, journal, restoreState, volatile, crashes>>

\* The receipt decides what is left: prove and retain a committed restore, or
\* only retain the link of one its user has edited.
RestoreRecover(p) ==
  /\ plan[p] = None
  /\ journal = None /\ recovery # None
  /\ head = IF recovery.disposition = "modified" THEN recovery.txn.expected
            ELSE TargetHead(recovery.txn)
  /\ Acquire(p, IF recovery.disposition = "committed" THEN "retain" ELSE "modified")
  /\ UNCHANGED <<workspaceVars, store, journal, restoreState, volatile, crashes>>

-----------------------------------------------------------------------------
(* Intent.                                                                 *)

\* The parent Head first takes an authority that can be derived again from it.
RebindHead ==
  /\ Step("rebind", "journal")
  /\ head' = [head EXCEPT !.authority = "version_derived_v1"]
  /\ UNCHANGED <<workspaceVars, versions, objvers, identity, issued, journal, restoreState,
                 volatile, crashes>>

restoreKey == <<head.version, wanted>>

NewRestore(target) ==
  LET v == head.version
      tomb == versions[v].tombstones[wanted]
  IN [key |-> restoreKey, target |-> target, expected |-> head, path |-> wanted,
      tomb |-> tomb, binding |-> RestoreBinding(versions, v, wanted, tomb)]

TargetVersion(t) == RestoredVersion(t.expected.version, versions[t.expected.version], t.path, t.binding)

\* A kind replacement can leave a live binding at the Tombstone's path.
Restores(t) ==
  /\ t.path \notin DOMAIN versions[t.expected.version].bindings
  /\ Valid(TargetVersion(t))

\* Transaction and target identifiers are derived from the parent and the
\* Tombstone, so asking again from the same Head names the same transaction.
WriteRestoreJournal ==
  LET known == restoreKey \in DOMAIN slot
      t == NewRestore(IF known THEN slot[restoreKey].target ELSE issued + 1)
  IN /\ Step("journal", "stage")
     /\ known \/ issued < MaxTxns
     /\ Restores(t)
     /\ active' = t
     /\ issued' = IF known THEN issued ELSE issued + 1
     /\ slot' = IF known THEN slot ELSE Put(slot, restoreKey, [target |-> t.target, ino |-> None])
     /\ UNCHANGED <<workspaceVars, head, versions, objvers, identity, journal, recovery,
                    authority, volatile, crashes>>

RestoreRefused ==
  /\ pc = "journal"
  /\ ~ Restores(NewRestore(issued + 1))
  /\ Return
  /\ UNCHANGED <<workspaceVars, store, journal, restoreState, crashes>>

-----------------------------------------------------------------------------
(* Staging and publication.                                                *)

unchangedButFiles == <<ignored, edits, store, journal, active, recovery, authority, volatile, crashes>>

\* The stage is created under its final name, then filled and synchronised.
CreateStage ==
  /\ Step("stage", "stage_copy")
  /\ ~ Staged(active)
  /\ \E i \in Allocatable :
       /\ slot' = [slot EXCEPT ![active.key].ino = i]
       /\ node' = [node EXCEPT ![i] = [kind |-> "regular_file", data |-> None, stamp |-> edits]]
  /\ UNCHANGED <<dir, unchangedButFiles>>

CopyStage ==
  /\ Step("stage_copy", "publish")
  /\ node' = [node EXCEPT ![Stage(active)].data = active.binding.data]
  /\ UNCHANGED <<dir, slot, unchangedButFiles>>

ReuseStage ==
  /\ Step("stage", "publish")
  /\ Staged(active) /\ StageSealed(active)
  /\ UNCHANGED <<workspaceAndStages, store, journal, active, recovery, authority, volatile, crashes>>

\* Mutant: the publication replaces whatever the path names.
CanPublishOver(t) == StageSealed(t) /\ Links(Stage(t)) \in {1, 2}

\* Publish into an absent path, or recognise the exact earlier publication.
CanPublish(t) ==
  /\ StageSealed(t)
  /\ \/ ~ Live(t.path) /\ Links(Stage(t)) = 1
     \/ Published(t) /\ Links(Stage(t)) = 2

HeadCommitted(t) == head = TargetHead(t)

\* Mutant: the Head moves before its target version is installed.
PublishBeforeInstall ==
  /\ Step("publish", IF HeadCommitted(active) THEN "verify" ELSE "r_cas")
  /\ CanPublish(active)
  /\ dir' = [dir EXCEPT ![active.path] = Stage(active)]
  /\ UNCHANGED <<node, slot, unchangedButFiles>>

Publish ==
  /\ Step("publish", IF HeadCommitted(active) THEN "verify" ELSE "r_install")
  /\ CanPublish(active)
  /\ dir' = [dir EXCEPT ![active.path] = Stage(active)]
  /\ UNCHANGED <<node, slot, unchangedButFiles>>

-----------------------------------------------------------------------------
(* The Head, and the proof after it.                                       *)

InstallTarget ==
  /\ Step("r_install", "r_cas")
  /\ Installable(versions, active.target, TargetVersion(active))
  /\ versions' = Put(versions, active.target, TargetVersion(active))
  /\ UNCHANGED <<workspaceVars, head, objvers, identity, issued, journal, restoreState, volatile,
                 crashes>>

CommitHead ==
  /\ Step("r_cas", "verify")
  /\ PublicationVerified(active)
  /\ head = active.expected
  /\ head' = TargetHead(active)
  /\ UNCHANGED <<workspaceVars, versions, objvers, identity, issued, journal, restoreState,
                 volatile, crashes>>

VerifyPublication ==
  /\ Step("verify", "project") \/ Step("reverify", "receipt")
  /\ PublicationVerified(active)
  /\ UNCHANGED <<workspaceVars, store, journal, restoreState, volatile, crashes>>

\* The identity record takes whatever regular file the path names now.
Project ==
  /\ Step("project", "reverify")
  /\ IsRegular(active.path)
  /\ identity' = Put(identity, active.binding.object, dir[active.path])
  /\ UNCHANGED <<workspaceVars, head, versions, objvers, issued, journal, restoreState, volatile,
                 crashes>>

\* A failed step puts the prior Head back when it had already moved.
RestoreFails ==
  /\ \/ pc = "stage" /\ Staged(active) /\ ~ StageSealed(active)
     \/ pc = "publish" /\ ~ CanPublish(active)
     \/ pc = "r_install" /\ ~ Installable(versions, active.target, TargetVersion(active))
     \/ pc = "r_cas" /\ ~ (PublicationVerified(active) /\ head = active.expected)
     \/ pc \in {"verify", "reverify"} /\ ~ PublicationVerified(active)
     \/ pc = "project" /\ ~ IsRegular(active.path)
     \/ pc = "receipt" /\ ~ Published(active)
  /\ pc' = IF HeadCommitted(active) /\ pc # "receipt" THEN "rollback" ELSE "failed"
  /\ UNCHANGED <<workspaceVars, store, journal, restoreState, volatile, holder, crashes>>

RollbackHead ==
  /\ Step("rollback", "failed")
  /\ head' = active.expected
  /\ UNCHANGED <<workspaceVars, versions, objvers, identity, issued, journal, restoreState,
                 volatile, crashes>>

-----------------------------------------------------------------------------
(* Cleanup: a durable receipt, the retained link, then the intents go.     *)

Receipt(disposition, t) == [disposition |-> disposition, txn |-> t, ino |-> Stage(t)]

WriteReceipt(disposition) ==
  /\ recovery' = Receipt(disposition, txn)
  /\ UNCHANGED <<workspaceAndStages, store, journal, active, authority, volatile, crashes>>

WriteCommittedReceipt ==
  /\ Step("receipt", "retain")
  /\ Published(active)
  /\ WriteReceipt("committed")

\* The restored file was edited through the published inode before it committed.
RetireModified ==
  /\ Step("failed", "modified")
  /\ Staged(active) /\ ModifiedInPlace(active) /\ head = active.expected
  /\ WriteReceipt("modified")

\* Mutant: an edit found after the commit is retired like one found before it.
RetainFindsEarlierEdit ==
  /\ Step("retain", "modified")
  /\ ModifiedInPlace(txn)
  /\ WriteReceipt("modified")

\* The restored file was edited after it committed.
RetainFindsEdit ==
  /\ Step("retain", "modified")
  /\ ModifiedInPlace(txn)
  /\ WriteReceipt("committed_modified")

LinkRetained(t) == dir[t.path] = recovery.ino /\ Stage(t) = recovery.ino /\ Links(recovery.ino) = 2

RetainAuthority ==
  /\ \/ Step("retain", "authority") /\ StageSealed(txn)
     \/ Step("modified", "authority")
  /\ LinkRetained(txn)
  /\ UNCHANGED <<workspaceVars, store, journal, restoreState, volatile, crashes>>

WriteAuthority ==
  /\ Step("authority", "retire_intent")
  /\ authority' = authority \cup {txn.key}
  /\ UNCHANGED <<workspaceAndStages, store, journal, active, recovery, volatile, crashes>>

RetireIntent ==
  /\ Step("retire_intent", "retire_receipt")
  /\ active' = None
  /\ UNCHANGED <<workspaceAndStages, store, journal, recovery, authority, volatile, crashes>>

RetireReceipt ==
  /\ pc = "retire_receipt"
  /\ recovery' = None
  /\ Return
  /\ UNCHANGED <<workspaceAndStages, store, journal, active, authority, crashes>>

\* The call fails and leaves the restore pending.
RestoreStaysPending ==
  /\ \/ pc = "failed" /\ ~ (Staged(active) /\ ModifiedInPlace(active) /\ head = active.expected)
     \/ pc = "retain" /\ ~ ModifiedInPlace(txn) /\ ~ (LinkRetained(txn) /\ StageSealed(txn))
     \/ pc = "modified" /\ ~ LinkRetained(txn)
  /\ Return
  /\ UNCHANGED <<workspaceVars, store, journal, restoreState, crashes>>

RestoreStep ==
  \/ RebindHead \/ WriteRestoreJournal \/ RestoreRefused
  \/ CreateStage \/ CopyStage \/ ReuseStage \/ Publish
  \/ InstallTarget \/ CommitHead \/ VerifyPublication \/ Project
  \/ RestoreFails \/ RollbackHead
  \/ WriteCommittedReceipt \/ RetireModified \/ RetainFindsEdit \/ RetainAuthority
  \/ WriteAuthority \/ RetireIntent \/ RetireReceipt \/ RestoreStaysPending

RestoreCall(p) ==
  \/ \E path \in RestorePaths : RestoreAdmit(p, path)
  \/ RestoreResume(p)
  \/ RestoreRecover(p)
=============================================================================
