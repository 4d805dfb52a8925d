----------------------------- MODULE CaptureSeal -----------------------------
(***************************************************************************)
(* FolderbaseVersionStore::seal_capture: a plan of the workspace becomes an *)
(* immutable Folderbase Version and moves the Local Head, across a durable *)
(* journal whose every persistence boundary is a step of its own.  People  *)
(* edit the workspace, other processes contend for the lock and a process  *)
(* may die between any two steps.                                          *)
(***************************************************************************)
EXTENDS LocalState

\* What the parent recorded: the version a Head names, or nothing at genesis.
PriorOf(h) == IF h = None THEN EmptyVersion ELSE versions[h.version]
ParentsOf(h) == IF h = None THEN {} ELSE {h.version}

-----------------------------------------------------------------------------
(* Assigning identity.                                                     *)

\* The recorded physical identity of this Object is the entry's.
IdentityAllowsReuse(object, entry) ==
  object \in DOMAIN identity /\ identity[object] = entry.ino

\* Mutant: an Object follows its inode only, never its path.
PriorBindingsByIdentity(prior, p, entry) ==
  {q \in DOMAIN prior.bindings :
     prior.bindings[q].kind = entry.kind /\ IdentityAllowsReuse(prior.bindings[q].object, entry)}

\* Prior bindings an entry may continue: the one at its own path when the kind
\* is the same, else every one whose identity record names the entry's inode.
PriorBindings(prior, p, entry) ==
  IF p \in DOMAIN prior.bindings /\ prior.bindings[p].kind = entry.kind
  THEN {p}
  ELSE {q \in DOMAIN prior.bindings :
          prior.bindings[q].kind = entry.kind /\ IdentityAllowsReuse(prior.bindings[q].object, entry)}

Ambiguous(prior, pl) ==
  \E p \in DOMAIN pl.entries : Cardinality(PriorBindings(prior, p, pl.entries[p])) > 1

Assignment(n, prior, p, entry) ==
  LET found  == PriorBindings(prior, p, entry)
      parent == prior.bindings[CHOOSE q \in found : TRUE]
      reused == found # {}
  IN [kind      |-> entry.kind,
      reused    |-> reused,
      object    |-> IF reused THEN parent.object ELSE <<n, p>>,
      candidate |-> IF entry.kind = "directory" THEN None ELSE <<n, p>>,
      prior     |-> IF reused THEN parent.over ELSE None]

Assignments(n, prior, pl) ==
  [p \in DOMAIN pl.entries |-> Assignment(n, prior, p, pl.entries[p])]

\* Mutant: a newly ignored path counts as deleted.
PriorBindingExcluded(prior, pl) ==
  \E p \in DOMAIN prior.bindings \ DOMAIN pl.entries :
    /\ p \in pl.excluded
    /\ ~ \E q \in DOMAIN pl.entries :
           /\ pl.entries[q].kind = prior.bindings[p].kind
           /\ IdentityAllowsReuse(prior.bindings[p].object, pl.entries[q])

\* A prior live path that this plan hides rather than shows as absent.
PriorBindingHidden(prior, pl) ==
  \E p \in DOMAIN prior.bindings \ DOMAIN pl.entries :
    /\ p \in pl.ignored \cup pl.excluded
    /\ ~ \E q \in DOMAIN pl.entries :
           /\ pl.entries[q].kind = prior.bindings[p].kind
           /\ IdentityAllowsReuse(prior.bindings[p].object, pl.entries[q])

-----------------------------------------------------------------------------
(* Building the version.                                                   *)

\* The binding an assignment yields for the bytes its entry names now: the
\* prior Object Version while its content is unchanged, else the candidate.
BoundAs(prior, a, data) ==
  LET same == \E q \in DOMAIN prior.bindings :
                prior.bindings[q].object = a.object /\ prior.bindings[q].data = data
  IN [object |-> a.object, kind |-> a.kind, data |-> data,
      over   |-> IF a.kind = "regular_file" /\ same THEN a.prior ELSE a.candidate]

\* The binding of the entry at p; a directory has no bytes.
Bound(t, p) ==
  BoundAs(PriorOf(t.expected), t.assign[p],
          IF t.assign[p].kind = "regular_file" THEN node[t.plan.entries[p].ino].data ELSE None)

VersionOf(t, bindings) ==
  [parents    |-> ParentsOf(t.expected),
   bindings   |-> bindings,
   tombstones |-> t.tombs,
   exclusions |-> t.plan.excluded]

\* The version t would install if every entry were read now; whether it is
\* valid rests on its Objects and paths, not on the bytes.
PlannedVersion(t) == VersionOf(t, [p \in DOMAIN t.assign |-> Bound(t, p)])

\* The live entries, their identity records and their bytes are the parent's.
LiveStateMatches(prior, pl) ==
  /\ DOMAIN prior.bindings = DOMAIN pl.entries
  /\ prior.exclusions = pl.excluded
  /\ \A p \in DOMAIN pl.entries :
       /\ prior.bindings[p].kind = pl.entries[p].kind
       /\ IdentityAllowsReuse(prior.bindings[p].object, pl.entries[p])
       /\ prior.bindings[p].data = node[pl.entries[p].ino].data

\* Every regular file still is what was planned while its bytes are read.
AllFresh(pl) ==
  \A p \in DOMAIN pl.entries :
    pl.entries[p].kind = "regular_file" => Fresh(p, pl.entries[p])

NewTransaction(n, h, pl) ==
  LET prior  == PriorOf(h)
      assign == Assignments(n, prior, pl)
  IN [target |-> n, expected |-> h, plan |-> pl, assign |-> assign,
      tombs  |-> TargetTombstones(prior, assign)]

\* What recovery accepts as the lineage of the binding at p.  It looks the
\* parent's binding up at the same path only.
CommittedLineage(prior, a, b, p) ==
  IF p \notin DOMAIN prior.bindings
  THEN ~ a.reused /\ a.prior = None /\ b.over = a.candidate
  ELSE LET parent == prior.bindings[p] IN
       IF a.reused
       THEN /\ parent.kind = b.kind /\ parent.object = a.object /\ parent.over = a.prior
            /\ b.over \in {a.prior, a.candidate}
       ELSE /\ parent.kind # b.kind /\ parent.object # a.object /\ a.prior = None
            /\ b.over = a.candidate

\* Recovery's check that an installed version is what its journal assigned.
ValidateCommitted(t, v) ==
  /\ v.parents = ParentsOf(t.expected)
  /\ v.tombstones = t.tombs
  /\ DOMAIN v.bindings = DOMAIN t.assign
  /\ \A p \in DOMAIN t.assign :
       /\ v.bindings[p].kind = t.assign[p].kind
       /\ v.bindings[p].object = t.assign[p].object
       /\ CommittedLineage(PriorOf(t.expected), t.assign[p], v.bindings[p], p)

-----------------------------------------------------------------------------
(* Admission, under the lock.                                              *)

PlanCapture(p) ==
  /\ plan[p] = None
  /\ holder # p
  /\ plan' = [plan EXCEPT ![p] = CurrentPlan]
  /\ UNCHANGED <<workspaceVars, store, journal, restoreState, built, wanted, lock, crashes>>

RestorePending == active # None \/ recovery # None
HeadIsTarget(t) == head # None /\ head.version = t.target

\* The plan p holds may be sealed: no restore is pending and nothing it
\* observed has changed since.
Admitted(p) ==
  /\ plan[p] # None
  /\ ~ RestorePending
  /\ plan[p] = CurrentPlan

Recoverable(t) ==
  /\ head.authority = "capture_transaction_v1"
  /\ ValidateCommitted(t, versions[t.target])

\* Mutant: a journal left by another plan is never abandoned.
SealEntryKeepingStale(pl) ==
  IF journal = None THEN "assign"
  ELSE IF HeadIsTarget(journal)
       THEN IF Recoverable(journal) THEN "recover_identities" ELSE "refused"
  ELSE IF journal.expected # head \/ PriorBindingHidden(PriorOf(head), pl) THEN "refused"
  ELSE IF journal.plan # pl THEN "refused" ELSE "build"

\* Where an admitted seal starts, or "refused".
SealEntry(pl) ==
  IF journal = None THEN "assign"
  ELSE IF HeadIsTarget(journal)
       THEN IF Recoverable(journal) THEN "recover_identities" ELSE "refused"
  ELSE IF journal.expected # head \/ PriorBindingHidden(PriorOf(head), pl) THEN "refused"
  ELSE IF journal.plan # pl THEN "drop" ELSE "build"

SealRefused(p) ==
  /\ holder = None
  /\ plan[p] # None
  /\ Admitted(p) => SealEntry(plan[p]) = "refused"
  /\ plan' = [plan EXCEPT ![p] = None]
  /\ UNCHANGED <<workspaceVars, store, journal, restoreState, built, wanted, lock, crashes>>

\* A pending journal for another plan is abandoned; what it installed stays.
SealDropStale(p) ==
  /\ Admitted(p)
  /\ SealEntry(plan[p]) = "drop"
  /\ Acquire(p, "assign")
  /\ journal' = None
  /\ UNCHANGED <<workspaceVars, store, restoreState, volatile, crashes>>

SealStart(p) ==
  /\ Admitted(p)
  /\ SealEntry(plan[p]) \in {"assign", "build", "recover_identities"}
  /\ Acquire(p, SealEntry(plan[p]))
  /\ UNCHANGED <<workspaceVars, store, journal, restoreState, volatile, crashes>>

-----------------------------------------------------------------------------
(* Committed-Head recovery, then the journal's own steps.                  *)

held == plan[holder]

\* The identity of the bytes that Head sealed, not of what occupies the path now.
SealedIdentities(t) ==
  [o \in DOMAIN identity \cup {t.assign[p].object : p \in DOMAIN t.assign} |->
     IF \E p \in DOMAIN t.assign : t.assign[p].object = o
     THEN t.plan.entries[CHOOSE p \in DOMAIN t.assign : t.assign[p].object = o].ino
     ELSE identity[o]]

WriteCaptureIdentities ==
  /\ \/ Step("identities", "cleanup")
     \/ Step("recover_identities", "recover_cleanup")
  /\ identity' = SealedIdentities(journal)
  /\ UNCHANGED <<workspaceVars, head, versions, objvers, issued, journal, restoreState,
                 volatile, crashes>>

RecoverCleanup ==
  /\ Step("recover_cleanup", "assign")
  /\ journal' = None
  /\ UNCHANGED <<workspaceVars, store, restoreState, volatile, crashes>>

\* Assignment, the version-envelope preflight, then the durable journal.
SealAssign ==
  LET n == issued + 1
      t == NewTransaction(n, head, held)
      prior == PriorOf(head)
  IN /\ Step("assign", "build")
     /\ issued < MaxTxns
     /\ ~ PriorBindingHidden(prior, held) /\ ~ Ambiguous(prior, held)
     /\ head = None \/ ~ LiveStateMatches(prior, held)
     /\ Valid(PlannedVersion(t))
     /\ issued' = n
     /\ journal' = t
     /\ UNCHANGED <<workspaceVars, head, versions, objvers, identity, restoreState, volatile,
                    crashes>>

\* Nothing to seal, or one of the checks before the journal refuses.
SealNothing ==
  LET prior == PriorOf(head)
  IN /\ pc = "assign"
     /\ \/ PriorBindingHidden(prior, held)
        \/ head # None /\ LiveStateMatches(prior, held)
        \/ head # None /\ DOMAIN prior.bindings = DOMAIN held.entries /\ ~ AllFresh(held)
        \/ Ambiguous(prior, held)
        \/ ~ Valid(PlannedVersion(NewTransaction(issued + 1, head, held)))
     /\ Return
     /\ UNCHANGED <<workspaceVars, store, journal, restoreState, crashes>>

\* Mutant: bytes that some Object Version seals already need no record of their own.
InstallObjectVersionByContent(b) ==
  IF b.over = None \/ \E o \in DOMAIN objvers : objvers[o] = b.data
  THEN objvers ELSE Put(objvers, b.over, b.data)

InstallObjectVersion(b) ==
  IF b.over = None \/ b.over \in DOMAIN objvers THEN objvers ELSE Put(objvers, b.over, b.data)

Unread == DOMAIN journal.assign \ DOMAIN built
NextEntry == CHOOSE p \in Unread : TRUE

\* The entry still is what was planned, and an Object Version that an earlier
\* attempt installed for it seals the same bytes.
Readable(p) ==
  journal.assign[p].kind = "regular_file" =>
    /\ Fresh(p, journal.plan.entries[p])
    /\ LET b == Bound(journal, p) IN b.over \in DOMAIN objvers => objvers[b.over] = b.data

\* Entries are read, and their Object Versions installed, one after another;
\* users may change what was read and what was not in between.
ReadEntry ==
  LET b == Bound(journal, NextEntry)
  IN /\ Step("build", "build")
     /\ Unread # {} /\ Readable(NextEntry)
     /\ built' = Put(built, NextEntry, b)
     /\ objvers' = InstallObjectVersion(b)
     /\ UNCHANGED <<workspaceVars, head, versions, identity, issued, journal, restoreState, plan,
                    wanted, crashes>>

InstallVersion ==
  /\ Step("build", "check")
  /\ Unread = {}
  /\ Installable(versions, journal.target, VersionOf(journal, built))
  /\ versions' = Put(versions, journal.target, VersionOf(journal, built))
  /\ UNCHANGED <<workspaceVars, head, objvers, identity, issued, journal, restoreState, volatile,
                 crashes>>

\* Mutant: the Head may move over a workspace that has changed.
FinalPlanUnchecked ==
  /\ Step("check", "cas")
  /\ UNCHANGED <<workspaceVars, store, journal, restoreState, volatile, crashes>>

\* The whole plan is observed again immediately before the Head moves.
FinalPlanCheck ==
  /\ Step("check", "cas")
  /\ held = CurrentPlan
  /\ UNCHANGED <<workspaceVars, store, journal, restoreState, volatile, crashes>>

\* Mutant: the Head does not say that a capture moved it.
MoveHeadDerived ==
  /\ Step("cas", "identities")
  /\ head = journal.expected
  /\ head' = [version |-> journal.target, authority |-> "version_derived_v1"]
  /\ UNCHANGED <<workspaceVars, versions, objvers, identity, issued, journal, restoreState,
                 volatile, crashes>>

MoveHead ==
  /\ Step("cas", "identities")
  /\ head = journal.expected
  /\ head' = [version |-> journal.target, authority |-> "capture_transaction_v1"]
  /\ UNCHANGED <<workspaceVars, versions, objvers, identity, issued, journal, restoreState,
                 volatile, crashes>>

RemoveJournal ==
  /\ pc = "cleanup"
  /\ journal' = None
  /\ Return
  /\ UNCHANGED <<workspaceVars, store, restoreState, crashes>>

\* A check failed after the journal became durable: the intent stays.
SealFails ==
  /\ \/ pc = "build" /\ Unread # {} /\ ~ Readable(NextEntry)
     \/ pc = "build" /\ Unread = {}
          /\ ~ Installable(versions, journal.target, VersionOf(journal, built))
     \/ pc = "check" /\ held # CurrentPlan
     \/ pc = "cas" /\ head # journal.expected
  /\ Return
  /\ UNCHANGED <<workspaceVars, store, journal, restoreState, crashes>>

SealStep ==
  \/ WriteCaptureIdentities \/ RecoverCleanup \/ SealAssign \/ SealNothing
  \/ ReadEntry \/ InstallVersion \/ FinalPlanCheck \/ MoveHead \/ RemoveJournal
  \/ SealFails

CaptureStep(p) == PlanCapture(p) \/ SealRefused(p) \/ SealDropStale(p) \/ SealStart(p)
=============================================================================
