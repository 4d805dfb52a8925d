---------------------------- MODULE FolderbaseSeal ----------------------------
(***************************************************************************)
(* Capture and restore over one workspace and one .folderbase, with the    *)
(* people who edit the workspace and the deaths of the processes that run  *)
(* Core.  Every property of the composition is stated here.                *)
(***************************************************************************)
EXTENDS CaptureSeal, TombstoneRestore

vars == <<workspaceVars, localVars>>

NoEntries == [x \in {} |-> None]

Init ==
  /\ WorkspaceInit
  /\ head = None
  /\ versions = NoEntries /\ objvers = NoEntries /\ identity = NoEntries
  /\ slot = NoEntries
  /\ issued = 0
  /\ journal = None /\ active = None /\ recovery = None
  /\ authority = {}
  /\ plan = [p \in Procs |-> None]
  /\ built = NoEntries /\ wanted = None
  /\ holder = None /\ pc = "idle"
  /\ crashes = 0

User == UserStep /\ UNCHANGED localVars

Core == SealStep \/ RestoreStep

Next ==
  \/ User
  \/ \E p \in Procs : CaptureStep(p)
  \/ \E p \in Procs : RestoreCall(p)
  \/ Core
  \/ Crash

Spec == Init /\ [][Next]_vars

\* A process that holds the lock is scheduled, and somebody keeps asking for
\* a capture and for the pending restore.  Users and crashes owe nothing.
Fairness ==
  /\ WF_vars(Core)
  /\ \A p \in Procs : WF_vars(PlanCapture(p))
  /\ \A p \in Procs : SF_vars(SealRefused(p) \/ SealDropStale(p) \/ SealStart(p))
  /\ \A p \in Procs : SF_vars(RestoreResume(p) \/ RestoreRecover(p))

FairSpec == Spec /\ Fairness

-----------------------------------------------------------------------------
(* Types.                                                                  *)

OptionalHead == Head \cup {None}

PlanEntry == [ino: Inodes, stamp: Nat, kind: Kinds, links: SUBSET RestoreKeys]

CapturePlan ==
  [head: OptionalHead, entries: PartialFunctions(Paths, PlanEntry),
   policy: SUBSET Paths, ignored: SUBSET Paths, excluded: SUBSET Paths]

CaptureAssignment ==
  [kind: Kinds, reused: BOOLEAN, object: Ids, candidate: Ids \cup {None}, prior: Ids \cup {None}]

CaptureTransaction ==
  [target: Nat, expected: OptionalHead, plan: CapturePlan,
   assign: PartialFunctions(Paths, CaptureAssignment),
   tombs: PartialFunctions(Paths, TombstoneRecord)]

RestoreTransaction ==
  [key: RestoreKeys, target: Nat, expected: Head, path: Paths, tomb: TombstoneRecord,
   binding: Binding]

Slot == [target: Nat, ino: Inodes \cup {None}]
CleanupReceipt == [disposition: Dispositions, txn: RestoreTransaction, ino: Inodes \cup {None}]

\* The absent value of an optional record is none of the records.
ASSUME NoneIsNoRecord ==
  None \notin Ids \cup Head \cup Version \cup CapturePlan \cup CaptureTransaction
                \cup RestoreTransaction \cup CleanupReceipt

CaptureSteps == {"recover_identities", "recover_cleanup", "assign", "build", "check",
                 "cas", "identities", "cleanup"}
RestoreSteps == {"rebind", "journal", "stage", "stage_copy", "publish", "r_install", "r_cas",
                 "verify", "project", "reverify", "receipt", "rollback", "failed", "retain",
                 "modified", "authority", "retire_intent", "retire_receipt"}

IsCapturePlan(pl) ==
  /\ pl = [head |-> pl.head, entries |-> pl.entries, policy |-> pl.policy,
           ignored |-> pl.ignored, excluded |-> pl.excluded]
  /\ pl.head \in OptionalHead
  /\ IsPartial(pl.entries, Paths, PlanEntry)
  /\ pl.policy \cup pl.ignored \cup pl.excluded \subseteq Paths

IsCaptureTransaction(t) ==
  /\ t = [target |-> t.target, expected |-> t.expected, plan |-> t.plan, assign |-> t.assign,
          tombs |-> t.tombs]
  /\ t.target \in Nat /\ t.expected \in OptionalHead
  /\ IsCapturePlan(t.plan)
  /\ IsPartial(t.assign, Paths, CaptureAssignment)
  /\ IsPartial(t.tombs, Paths, TombstoneRecord)

\* Every variable holds what the serialised records of the code can hold, and
\* the lock holder's step is idle exactly when nobody holds the lock.
TypeOK ==
  /\ WorkspaceTypeOK
  /\ head \in OptionalHead
  /\ DOMAIN versions \subseteq Nat /\ \A id \in DOMAIN versions : IsVersion(versions[id])
  /\ IsPartial(objvers, Ids, Contents \cup {None})
  /\ IsPartial(identity, Ids, Inodes)
  /\ issued \in 0..MaxTxns
  /\ journal # None => IsCaptureTransaction(journal)
  /\ IsPartial(slot, RestoreKeys, Slot)
  /\ active \in RestoreTransaction \cup {None}
  /\ recovery \in CleanupReceipt \cup {None}
  /\ authority \subseteq RestoreKeys
  /\ DOMAIN plan = Procs /\ \A p \in Procs : plan[p] # None => IsCapturePlan(plan[p])
  /\ IsPartial(built, Paths, Binding)
  /\ wanted \in Paths \cup {None}
  /\ holder \in Procs \cup {None}
  /\ pc \in CaptureSteps \cup RestoreSteps \cup {"idle"}
  /\ pc = "idle" <=> holder = None
  /\ crashes \in 0..MaxCrashes

-----------------------------------------------------------------------------
(* Safety of the shared durable state.                                     *)

\* Capture and restore refuse each other's active intent: at no boundary of
\* either, crashes included, are both transactions pending.
Exclusive == journal = None \/ ~ RestorePending

\* A pending capture can always tell whether it committed: Local Head is
\* either exactly the parent it expected, or its own installed target under
\* the authority only a capture writes.  Never a third version.
JournalAnchored ==
  journal # None =>
    \/ head = journal.expected /\ ~ HeadIsTarget(journal)
    \/ /\ HeadIsTarget(journal)
       /\ head.authority = "capture_transaction_v1"
       /\ journal.target \in DOMAIN versions

\* The same for a pending restore, and its receipt agrees with its journal
\* and with where the Head is.
RestoreAnchored ==
  /\ active # None => head \in {active.expected, TargetHead(active)}
  /\ recovery # None =>
       /\ active \in {None, recovery.txn}
       /\ head = IF recovery.disposition = "modified" THEN recovery.txn.expected
                 ELSE TargetHead(recovery.txn)

\* Every installed version, at whatever step a process died, is valid, stands
\* on installed parents and references only installed Object Versions that
\* seal exactly the bytes it binds; Local Head names one of them.
HeadComplete ==
  /\ head # None => head.version \in DOMAIN versions
  /\ \A id \in DOMAIN versions :
       /\ Valid(versions[id])
       /\ versions[id].parents \subseteq DOMAIN versions \ {id}
       /\ \A p \in DOMAIN versions[id].bindings :
            LET b == versions[id].bindings[p] IN
            b.kind = "regular_file" => b.over \in DOMAIN objvers /\ objvers[b.over] = b.data

\* Parent and child along every edge of the history.
Edges == {e \in (DOMAIN versions) \X (DOMAIN versions) : e[1] \in versions[e[2]].parents}

\* An Object live in the parent is live in the child, or its Tombstone says
\* which Object Version was its last.  Nothing leaves history silently.
NothingVanishes ==
  \A e \in Edges :
    LET v == versions[e[1]]  w == versions[e[2]] IN
    \A p \in DOMAIN v.bindings :
      \/ v.bindings[p].object \in LiveObjects(w)
      \/ p \in DOMAIN w.tombstones /\ w.tombstones[p] = Tombstone(v.bindings[p])

\* A path that keeps its kind keeps its Object, and one that keeps its bytes
\* too keeps its Object Version, through edits, editor saves and crashes.
PathContinuity ==
  \A e \in Edges :
    LET v == versions[e[1]].bindings  w == versions[e[2]].bindings IN
    \A p \in DOMAIN v \cap DOMAIN w :
      v[p].kind = w[p].kind =>
        /\ v[p].object = w[p].object
        /\ v[p].data = w[p].data => v[p].over = w[p].over

\* When a capture last observes the workspace before it moves the Head, the
\* version it installed binds exactly the live, observable paths to the bytes they
\* hold at that moment, however they changed since the plan was made.
SealedAsObserved ==
  [][(pc = "check" /\ pc' = "cas") =>
       /\ DOMAIN built = {p \in Paths : Live(p) /\ p \notin ignored /\ ~ Excluded(p)}
       /\ \A p \in DOMAIN built :
            /\ built[p].kind = node[dir[p]].kind
            /\ built[p].data = node[dir[p]].data]_vars

\* A pending capture deletes what the parent bound at a path its plan hides only
\* when the Object's recorded file was observed somewhere else.
HiddenIsNotDeleted ==
  journal # None =>
    LET bound == PriorOf(journal.expected).bindings
        entries == journal.plan.entries
    IN \A p \in DOMAIN bound \cap DOMAIN journal.tombs :
         /\ journal.tombs[p] = Tombstone(bound[p])
         /\ p \in journal.plan.ignored \cup journal.plan.excluded
         => \E q \in DOMAIN entries :
              entries[q].kind = bound[p].kind /\ IdentityAllowsReuse(bound[p].object, entries[q])

\* A pending restore will write the bytes its Tombstone's last Object Version
\* sealed, under the Object the Tombstone names.
RestoresSealedBytes ==
  active # None =>
    /\ Tombstone(active.binding) = active.tomb
    /\ active.tomb.over \in DOMAIN objvers
    /\ objvers[active.tomb.over] = active.binding.data

\* Core never replaces, removes or writes through a path that names anything:
\* only a user's change does.
NoClobber ==
  [][edits' = edits =>
       \A p \in Paths : Live(p) => dir'[p] = dir[p] /\ node'[dir[p]] = node[dir[p]]]_vars

History == INSTANCE VersionHistory
  WITH published <- versions, current <- HeadVersion(head), Absent <- None

\* Core implements the abstract append-only history.
ImplementsHistory == History!Spec

-----------------------------------------------------------------------------
(* Liveness.                                                               *)

\* Head is a complete record of what the workspace now shows.
Sealed ==
  /\ head # None /\ journal = None
  /\ LiveStateMatches(versions[head.version], CurrentPlan)

Hiding == PriorBindingHidden(PriorOf(head), CurrentPlan)

\* However captures are raced, refused, interrupted and retried, once the
\* users and the crashes leave off the workspace ends up sealed, unless it
\* hides a path the Head still binds or a restore stays pending.
EventuallySealed == <>[](Sealed \/ Hiding \/ RestorePending)

\* What only a person can clear: a file of their own at the path, a private
\* stage whose bytes are not the sealed ones any more, a receipt whose
\* published file is gone.
Obstructed(t) ==
  /\ ~ Published(t)
  /\ Live(t.path) \/ (Staged(t) /\ ~ StageSealed(t)) \/ recovery # None

\* A restore that was admitted is completed or retired by later calls, whatever
\* step it was interrupted at and however its published file was edited.
RestoreResolves == []<>(~ RestorePending \/ Obstructed(txn))

==============================================================================
