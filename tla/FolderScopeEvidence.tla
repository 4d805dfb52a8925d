-------------------------- MODULE FolderScopeEvidence --------------------------
(* Evidence that a shared folder still is the folder it was: observations of   *)
(* one folder, appended to a device-local journal under the transaction lock   *)
(* in three durable steps (event, authority, head).                            *)
EXTENDS RootAuthority, Sequences

CONSTANTS
  Folders,           \* relative paths a scope may select
  MaxInstances,      \* bound on the folders ever created
  MaxWorkspaceEdits, \* bound on the edits of ordinary entries
  MaxJournalEvents   \* the most events a journal may hold

VARIABLES
  place,             \* path -> physical folder, or None
  boundaries,        \* physical folder -> the nested Folderbases beneath it
  edits,             \* stamp of the ordinary entries a capture plan lists
  events,            \* events/<sequence>.json
  scopeHead,         \* head.json: the sequence it names, 0 when absent
  scopeAuthority,    \* the genesis event the sibling authority record binds
  observing          \* agent -> its observation in progress, or None

scopeVars == <<place, boundaries, edits, events, scopeHead, scopeAuthority,
               observing>>
workspaceVars == <<place, boundaries, edits>>
journalVars == <<events, scopeHead, scopeAuthority>>

Instances == 1..MaxInstances

\* A folder is opened component by component, never through a link; it must be
\* one the capture plan lists.
Opens(p) == place[p] # None
Instance(p) == place[p]
BoundariesUnder(p) == boundaries[Instance(p)]

-------------------------------------------------------------------------------
(* What one observation binds.                                                 *)
Inventory == <<place, boundaries, edits, ignorePolicy>>

\* The second half is read through capabilities, after the plan.
Planned(p) ==
  [path |-> p, head |-> localHead, inventory |-> Inventory,
   manifest |-> manifest]
Bound(plan) ==
  [plan |-> plan, folder |-> Instance(plan.path),
   nested |-> BoundariesUnder(plan.path)]

Busy(a) == observing[a] # None
Step(a, step) == Busy(a) /\ observing[a].step = step
Advance(a, r) == observing' = [observing EXCEPT ![a] = r]
Answer(a) == observing' = [observing EXCEPT ![a] = None]

ObservePlan(a, p) ==
  /\ ~Busy(a)
  /\ Attests
  /\ Opens(p)
  /\ Advance(a, [step |-> "bind", plan |-> Planned(p)])
  /\ UNCHANGED <<rootVars, workspaceVars, journalVars>>

ObserveBind(a) ==
  /\ Step(a, "bind")
  /\ IF Opens(observing[a].plan.path)
     THEN Advance(a, [step |-> "lock", seen |-> Bound(observing[a].plan)])
     ELSE Answer(a)
  /\ UNCHANGED <<rootVars, workspaceVars, journalVars>>

\* Under the lock everything is read again, and nothing may have changed.
SeenAgain(seen) ==
  /\ Attests
  /\ Opens(seen.plan.path)
  /\ Bound(Planned(seen.plan.path)) = seen

ObserveLock(a) ==
  /\ Step(a, "lock")
  /\ TakeLock(a)
  /\ Advance(a, [observing[a] EXCEPT !.step = "verify"])
  /\ UNCHANGED <<manifest, upgradeIntent, restOfRoot, workspaceVars,
                 journalVars>>

\* A pending upgrade: the lock is given back and the call fails.
ObserveRefused(a) ==
  /\ Step(a, "lock")
  /\ lock = None /\ ~LockAdmits
  /\ Answer(a)
  /\ UNCHANGED <<rootVars, workspaceVars, journalVars>>

Release(a) ==
  /\ lock' = None
  /\ Answer(a)

ObserveChanged(a) ==
  /\ Step(a, "verify")
  /\ ~SeenAgain(observing[a].seen)
  /\ Release(a)
  /\ UNCHANGED <<manifest, upgradeIntent, restOfRoot, workspaceVars,
                 journalVars>>

-------------------------------------------------------------------------------
(* The journal, read as a whole.                                               *)
History == SubSeq(events, 1, scopeHead)
Orphan == IF Len(events) > scopeHead THEN events[scopeHead + 1] ELSE None
Committed == {events[i] : i \in 1..scopeHead}
Recoverable == Committed \cup ({Orphan} \ {None})

\* An event validates against the attestation of today: its observation is
\* digested again with the manifest the root has now.
ValidEvent(event) == event.seen.plan.manifest = manifest

\* Nothing lies in the journal beyond the one event a crash may leave.
ClosedNamespace == Len(events) <= scopeHead + 1

\* The authority beside the journal names its first event, committed or not.
AuthorityBinds ==
  IF scopeHead > 0 THEN scopeAuthority = events[1]
                   ELSE scopeAuthority \in {None, Orphan}

ValidJournal ==
  /\ ClosedNamespace
  /\ AuthorityBinds
  /\ \A event \in Recoverable : ValidEvent(event)

SamePath(seen) == {e \in Committed : e.seen.plan.path = seen.plan.path}
SameFolder(seen) == {e \in Recoverable : e.seen.folder = seen.folder}

\* The nonce of a folder is made once, and found again in the event a crash
\* left behind.
Nonces == {e.nonce : e \in Recoverable}
\* (mutant) every observation makes its own.
NonceAnew(seen) == Cardinality(Nonces) + 1

NonceFor(seen) ==
  IF SameFolder(seen) # {}
  THEN (CHOOSE e \in SameFolder(seen) : TRUE).nonce
  ELSE Cardinality(Nonces) + 1

Replaced(seen) == \E e \in SamePath(seen) : e.seen.folder # seen.folder
Replayed(seen) == \E e \in Committed : e.seen = seen
BoundariesMoved(seen) ==
  \E e \in Committed : /\ e.nonce = NonceFor(seen)
                       /\ e.seen.nested # seen.nested

ObserveAnswer(a) ==
  /\ Step(a, "verify")
  /\ LET seen == observing[a].seen
     IN /\ SeenAgain(seen)
        /\ \/ ~ValidJournal
           \/ Replaced(seen)
           \/ Replayed(seen)
           \/ BoundariesMoved(seen)
           \/ scopeHead >= MaxJournalEvents
  /\ Release(a)
  /\ UNCHANGED <<manifest, upgradeIntent, restOfRoot, workspaceVars,
                 journalVars>>

ObserveDecide(a) ==
  /\ Step(a, "verify")
  /\ LET seen == observing[a].seen
     IN /\ SeenAgain(seen)
        /\ ValidJournal
        /\ ~Replaced(seen) /\ ~Replayed(seen) /\ ~BoundariesMoved(seen)
        /\ scopeHead < MaxJournalEvents
        /\ Advance(a, [step |-> "event",
                       event |-> [seen |-> seen, nonce |-> NonceFor(seen)]])
  /\ UNCHANGED <<rootVars, workspaceVars, journalVars>>

\* The next sequence is free, or holds these very bytes already.
Occupied(event) == Orphan \notin {None, event}

PublishEvent(a) ==
  /\ Step(a, "event")
  /\ ~Occupied(observing[a].event)
  /\ events' = IF Orphan = None THEN Append(events, observing[a].event)
                                ELSE events
  /\ Advance(a, [observing[a] EXCEPT
                   !.step = IF scopeHead = 0 THEN "authority" ELSE "head"])
  /\ UNCHANGED <<rootVars, workspaceVars, scopeHead, scopeAuthority>>

EventOccupied(a) ==
  /\ Step(a, "event")
  /\ Occupied(observing[a].event)
  /\ Release(a)
  /\ UNCHANGED <<manifest, upgradeIntent, restOfRoot, workspaceVars,
                 journalVars>>

\* Present already only when an earlier call died after it.
PublishAuthority(a) ==
  /\ Step(a, "authority")
  /\ scopeAuthority \in {None, observing[a].event}
  /\ scopeAuthority' = observing[a].event
  /\ Advance(a, [observing[a] EXCEPT !.step = "head"])
  /\ UNCHANGED <<rootVars, workspaceVars, events, scopeHead>>

PublishHead(a) ==
  /\ Step(a, "head")
  /\ scopeHead' = scopeHead + 1
  /\ Release(a)
  /\ UNCHANGED <<manifest, upgradeIntent, restOfRoot, workspaceVars, events,
                 scopeAuthority>>

ObserveCrash(a) ==
  /\ Busy(a) /\ lock = a
  /\ Release(a)
  /\ UNCHANGED <<manifest, upgradeIntent, restOfRoot, workspaceVars,
                 journalVars>>

-------------------------------------------------------------------------------
(* People in the workspace.                                                    *)
Used == {i \in Instances : boundaries[i] # None}
Fresh == {i \in Instances \ Used : \A j \in Instances \ Used : i <= j}

\* A new folder where none was, or in the place of another.
PutFolder(p) ==
  /\ \E i \in Fresh : /\ place' = [place EXCEPT ![p] = i]
                      /\ boundaries' = [boundaries EXCEPT ![i] = {}]
  /\ UNCHANGED <<rootVars, edits, journalVars, observing>>

RenameFolder(p, q) ==
  /\ place[p] # None /\ place[q] = None
  /\ place' = [place EXCEPT ![p] = None, ![q] = place[p]]
  /\ UNCHANGED <<rootVars, boundaries, edits, journalVars, observing>>

\* A nested Folderbase appears under a folder, or goes.
ToggleBoundary(p) ==
  /\ place[p] # None
  /\ boundaries' = [boundaries EXCEPT
                      ![place[p]] = IF @ = {} THEN {"nested"} ELSE {}]
  /\ UNCHANGED <<rootVars, place, edits, journalVars, observing>>

EditWorkspace ==
  /\ edits < MaxWorkspaceEdits
  /\ edits' = edits + 1
  /\ UNCHANGED <<rootVars, place, boundaries, journalVars, observing>>

ObserveStep(a) ==
  \/ ObserveBind(a) \/ ObserveLock(a) \/ ObserveRefused(a)
  \/ ObserveChanged(a) \/ ObserveAnswer(a) \/ ObserveDecide(a)
  \/ PublishEvent(a) \/ EventOccupied(a) \/ PublishAuthority(a)
  \/ PublishHead(a)

ScopeInit ==
  /\ LET first == CHOOSE p \in Folders : TRUE
     IN place = [p \in Folders |-> IF p = first THEN 1 ELSE None]
  /\ boundaries = [i \in Instances |-> IF i = 1 THEN {} ELSE None]
  /\ edits = 0
  /\ events = <<>>
  /\ scopeHead = 0
  /\ scopeAuthority = None
  /\ observing = [a \in Agents |-> None]
===============================================================================
