------------------------- MODULE FolderbaseSealContents -------------------------
(***************************************************************************)
(* What the installed history says, for every set of paths, contents,      *)
(* inodes and processes and for every bound: each version is complete,     *)
(* each parent edge keeps Objects or records their deletion, a capture     *)
(* seals what it observed and a restore brings back the sealed bytes.      *)
(* The versions are one line, along which every Tombstone can be traced to *)
(* the binding it records.                                                 *)
(***************************************************************************)
EXTENDS FolderbaseSealProofs, WellFoundedInduction

-----------------------------------------------------------------------------
(* The invariant.                                                          *)

\* The installed Object Versions seal exactly the bytes binding b binds; a
\* directory has none.
Seals(sealed, b) ==
  IF b.kind = "regular_file" THEN b.over \in DOMAIN sealed /\ sealed[b.over] = b.data
  ELSE b.over = None

\* Nothing that v binds leaves history silently in its child w, and a path that
\* keeps its kind keeps its identity.
Continues(v, w) ==
  /\ \A p \in DOMAIN v.bindings :
       \/ v.bindings[p].object \in LiveObjects(w)
       \/ p \in DOMAIN w.tombstones /\ w.tombstones[p] = Tombstone(v.bindings[p])
  /\ \A p \in DOMAIN v.bindings \cap DOMAIN w.bindings :
       v.bindings[p].kind = w.bindings[p].kind =>
         /\ v.bindings[p].object = w.bindings[p].object
         /\ v.bindings[p].data = w.bindings[p].data => v.bindings[p].over = w.bindings[p].over

\* Every Object that v names was minted by transaction `limit` or an earlier one.
MintedBy(v, limit) ==
  /\ \A p \in DOMAIN v.bindings : v.bindings[p].object[1] <= limit
  /\ \A p \in DOMAIN v.tombstones : v.tombstones[p].object[1] <= limit

\* Version v may stand in `history` under number id.
Sound(history, sealed, id, v) ==
  /\ Valid(v) /\ MintedBy(v, id)
  /\ \A p \in DOMAIN v.bindings : Seals(sealed, v.bindings[p])
  /\ \A m \in v.parents : m \in DOMAIN history /\ m < id /\ Continues(history[m], v)

HistorySound == \A id \in DOMAIN versions : Sound(versions, objvers, id, versions[id])

\* The assignment at p continues a binding of the parent or mints an Object.
AssignedFrom(prior, t, p) ==
  LET a == t.assign[p] IN
  /\ a.kind = t.plan.entries[p].kind
  /\ a.candidate = IF a.kind = "directory" THEN None ELSE <<t.target, p>>
  /\ IF a.reused
     THEN \E q \in DOMAIN prior.bindings :
            /\ prior.bindings[q].object = a.object /\ prior.bindings[q].kind = a.kind
            /\ prior.bindings[q].over = a.prior
            /\ p \in DOMAIN prior.bindings /\ prior.bindings[p].kind = a.kind => q = p
     ELSE /\ a.object = <<t.target, p>>
          /\ ~ (p \in DOMAIN prior.bindings /\ prior.bindings[p].kind = a.kind)

\* Whatever bytes are read for t, its version will be valid.
WillBeValid(t) ==
  /\ \A p, q \in DOMAIN t.assign : t.assign[p].object = t.assign[q].object => p = q
  /\ \A p \in DOMAIN t.tombs \cap DOMAIN t.assign : t.tombs[p].object # t.assign[p].object
  /\ t.plan.excluded \cap (DOMAIN t.tombs \cup DOMAIN t.assign) = {}

JournalSound ==
  journal # None =>
    LET prior == PriorOf(journal.expected) IN
    /\ journal.expected # None => journal.expected.version < journal.target
    /\ journal.tombs = TargetTombstones(prior, journal.assign)
    /\ \A p \in DOMAIN journal.assign : AssignedFrom(prior, journal, p)
    /\ WillBeValid(journal)
    /\ HiddenIsNotDeleted

\* What was read for p is still there while its entry's stamp is.
AsRead(p) ==
  LET entry == journal.plan.entries[p] IN
  IF journal.assign[p].kind = "regular_file"
  THEN /\ entry.stamp <= edits
       /\ node[entry.ino].stamp = entry.stamp => node[entry.ino].data = built[p].data
  ELSE built[p].data = None

BuildSteps == {"build", "check"}

BuiltSound ==
  /\ pc \in {"idle", "assign", "recover_identities", "recover_cleanup"} => DOMAIN built = {}
  /\ pc \in BuildSteps =>
       /\ journal.plan = plan[holder]
       /\ DOMAIN built \subseteq DOMAIN journal.assign
       /\ \A p \in DOMAIN built :
            /\ built[p] = BoundAs(PriorOf(journal.expected), journal.assign[p], built[p].data)
            /\ Seals(objvers, built[p])
            /\ AsRead(p)
  /\ pc = "check" => DOMAIN built = DOMAIN journal.assign

RestoreSound ==
  active # None =>
    /\ Tombstone(active.binding) = active.tomb
    /\ active.binding.kind = "regular_file" /\ Seals(objvers, active.binding)
    /\ active.path \in DOMAIN versions[active.expected.version].tombstones
    /\ versions[active.expected.version].tombstones[active.path] = active.tomb
    /\ active.expected.version < active.target
    /\ Restores(active)

\* A stamp is a change already made, a directory has no bytes and a private
\* stage is a regular file.
FilesSound ==
  /\ \A i \in Inodes : /\ node[i].stamp <= edits
                       /\ node[i].kind = "directory" => node[i].data = None
  /\ \A k \in DOMAIN slot : slot[k].ino # None => node[slot[k].ino].kind = "regular_file"

\* A plan's entries are none of the paths it ignored.
PlansSound ==
  \A p \in Procs : plan[p] # None => DOMAIN plan[p].entries \cap plan[p].ignored = {}

ContentsInv ==
  /\ HistorySound /\ JournalSound /\ RestoreSound
  /\ FilesSound /\ PlansSound /\ BuiltSound

-----------------------------------------------------------------------------
(* Who writes what.                                                        *)

\* Installed records are never replaced or removed.
Grows ==
  /\ DOMAIN versions \subseteq DOMAIN versions'
  /\ \A id \in DOMAIN versions : versions'[id] = versions[id]
  /\ DOMAIN objvers \subseteq DOMAIN objvers'
  /\ \A o \in DOMAIN objvers : objvers'[o] = objvers[o]

\* The one or two steps that write each part of the durable state.
LEMMA Writers ==
  ASSUME [Next]_vars
  PROVE  /\ versions' = versions \/ InstallVersion \/ InstallTarget
         /\ objvers' = objvers \/ ReadEntry
         /\ journal' \in {journal, None} \/ SealAssign
         /\ active' \in {active, None} \/ WriteRestoreJournal
         /\ identity' = identity \/ WriteCaptureIdentities \/ Project
<1>1. CASE User \/ Crash \/ UNCHANGED vars
  BY <1>1 DEF User, Crash, vars, localVars, store, restoreState
<1>2. ASSUME NEW p \in Procs, CaptureStep(p)
      PROVE  UNCHANGED store /\ UNCHANGED restoreState /\ journal' \in {journal, None}
  BY <1>2 DEF CaptureStep, PlanCapture, SealRefused, SealDropStale, SealStart
<1>3. ASSUME NEW p \in Procs, RestoreCall(p)
      PROVE  UNCHANGED store /\ UNCHANGED restoreState /\ UNCHANGED journal
  BY <1>3 DEF RestoreCall, RestoreAdmit, RestoreResume, RestoreRecover
<1>4. CASE SealStep
  BY <1>4 DEF SealStep, WriteCaptureIdentities, RecoverCleanup, SealNothing, InstallVersion,
     ReadEntry, FinalPlanCheck, MoveHead, RemoveJournal, SealFails, SealAssign, store, restoreState
<1>5. CASE RestoreStep
  <2>1. CASE RebindHead \/ RestoreRefused \/ CreateStage \/ CopyStage \/ ReuseStage
             \/ Publish \/ VerifyPublication \/ RestoreFails \/ WriteRestoreJournal
             \/ InstallTarget \/ CommitHead \/ RollbackHead \/ Project
    BY <2>1 DEF RebindHead, RestoreRefused, CreateStage, CopyStage, ReuseStage, Publish,
       VerifyPublication, RestoreFails, WriteRestoreJournal, InstallTarget, CommitHead,
       RollbackHead, Project, store, restoreState, unchangedButFiles
  <2>2. CASE WriteCommittedReceipt \/ RetireModified \/ RetainFindsEdit \/ RetainAuthority
             \/ WriteAuthority \/ RetireIntent \/ RetireReceipt \/ RestoreStaysPending
    BY <2>2 DEF WriteCommittedReceipt, RetireModified, RetainFindsEdit, RetainAuthority,
       WriteAuthority, RetireIntent, RetireReceipt, RestoreStaysPending, WriteReceipt, store,
       restoreState
  <2>3. QED
    BY <1>5, <2>1, <2>2 DEF RestoreStep
<1>6. QED
  BY <1>1, <1>2, <1>3, <1>4, <1>5 DEF Next, Core, store, restoreState

\* No step replaces or removes an installed record.
LEMMA NextGrows == TypeInv /\ [Next]_vars => Grows
<1> SUFFICES ASSUME TypeInv, [Next]_vars PROVE Grows
  OBVIOUS
<1>1. versions \in [DOMAIN versions -> Version]
  BY DEF TypeInv, Typed, StoreTypeOK
<1>2. DOMAIN versions \subseteq DOMAIN versions'
      /\ \A id \in DOMAIN versions : versions'[id] = versions[id]
  <2>1. ASSUME NEW n, NEW v, Installable(versions, n, v), versions' = Put(versions, n, v)
        PROVE  DOMAIN versions \subseteq DOMAIN versions'
               /\ \A id \in DOMAIN versions : versions'[id] = versions[id]
    <3>1. DOMAIN Put(versions, n, v) = DOMAIN versions \cup {n}
          /\ \A id \in DOMAIN versions : Put(versions, n, v)[id] = versions[id]
      BY <1>1, <2>1, InstallAppends
    <3>2. QED
      BY <2>1, <3>1
  <2>2. CASE InstallVersion
    BY <2>1, <2>2 DEF InstallVersion
  <2>3. CASE InstallTarget
    BY <2>1, <2>3 DEF InstallTarget
  <2>4. QED
    BY <2>2, <2>3, Writers
<1>3. DOMAIN objvers \subseteq DOMAIN objvers' /\ \A o \in DOMAIN objvers : objvers'[o] = objvers[o]
  <2>1. CASE ReadEntry
    BY <2>1 DEF ReadEntry, InstallObjectVersion, Put
  <2>2. QED
    BY <2>1, Writers
<1>4. QED
  BY <1>2, <1>3 DEF Grows

\* What a sound version rests on stays installed.
LEMMA SoundKept ==
  ASSUME NEW h1, NEW s1, NEW h2, NEW s2, NEW id, NEW v, Sound(h1, s1, id, v),
         DOMAIN h1 \subseteq DOMAIN h2, \A m \in DOMAIN h1 : h2[m] = h1[m],
         DOMAIN s1 \subseteq DOMAIN s2, \A o \in DOMAIN s1 : s2[o] = s1[o]
  PROVE  Sound(h2, s2, id, v)
BY DEF Sound, Seals

-----------------------------------------------------------------------------
(* Versions.                                                               *)

\* An installed version is typed and sound.
LEMMA InstalledIs ==
  ASSUME TypeInv, HistorySound, NEW id \in DOMAIN versions
  PROVE  /\ id \in Nat /\ versions[id] \in Version
         /\ Sound(versions, objvers, id, versions[id])
         /\ \A p \in DOMAIN versions[id].bindings :
              versions[id].bindings[p] \in Binding /\ versions[id].bindings[p].object \in Ids
         /\ \A p \in DOMAIN versions[id].tombstones :
              versions[id].tombstones[p] \in TombstoneRecord
              /\ versions[id].tombstones[p].object \in Ids
<1>1. id \in Nat /\ versions[id] \in Version /\ Sound(versions, objvers, id, versions[id])
  BY DEF TypeInv, Typed, StoreTypeOK, HistorySound
<1>2. /\ \A p \in DOMAIN versions[id].bindings : versions[id].bindings[p] \in Binding
      /\ \A p \in DOMAIN versions[id].tombstones : versions[id].tombstones[p] \in TombstoneRecord
  BY <1>1, PartialFunctionsAre DEF Version
<1>3. QED
  BY <1>1, <1>2 DEF Binding, TombstoneRecord

\* What the parent of a transaction with number n recorded.
PriorIs(prior, n) ==
  /\ prior \in Version /\ Valid(prior)
  /\ \A p \in DOMAIN prior.bindings :
       /\ prior.bindings[p] \in Binding /\ prior.bindings[p].object \in Ids
       /\ prior.bindings[p].kind \in Kinds
       /\ Seals(objvers, prior.bindings[p])
       /\ prior.bindings[p].object[1] \in Nat /\ prior.bindings[p].object[1] < n
  /\ \A p \in DOMAIN prior.tombstones :
       /\ prior.tombstones[p].object \in Ids
       /\ prior.tombstones[p].object[1] \in Nat /\ prior.tombstones[p].object[1] < n

\* Whatever a capture's parent is, it is sound and names older Objects only.
LEMMA PriorSound ==
  ASSUME TypeInv, HistorySound, NEW h, NEW n \in Nat,
         h # None => h.version \in DOMAIN versions /\ h.version < n
  PROVE  PriorIs(PriorOf(h), n)
<1>1. CASE h = None
  <2>1. DOMAIN EmptyVersion.bindings = {} /\ DOMAIN EmptyVersion.tombstones = {}
        /\ EmptyVersion.exclusions = {}
    BY DEF EmptyVersion, EmptyFunction
  <2>2. Valid(EmptyVersion)
    BY <2>1 DEF Valid
  <2>3. QED
    BY <1>1, <2>1, <2>2, EmptyIsVersion DEF PriorOf, PriorIs
<1>2. CASE h # None
  <2> DEFINE v == versions[h.version]
  <2>1. /\ h.version \in Nat /\ v \in Version /\ Sound(versions, objvers, h.version, v)
        /\ \A p \in DOMAIN v.bindings : v.bindings[p] \in Binding /\ v.bindings[p].object \in Ids
        /\ \A p \in DOMAIN v.tombstones :
             v.tombstones[p] \in TombstoneRecord /\ v.tombstones[p].object \in Ids
    BY <1>2, InstalledIs
  <2>2. \A x \in Ids : x[1] \in Nat
    BY DEF Ids
  <2>3. PriorOf(h) = v
    BY <1>2 DEF PriorOf
  <2> HIDE DEF v
  <2>4. /\ \A p \in DOMAIN v.bindings : v.bindings[p].object[1] \in Nat
                                        /\ v.bindings[p].object[1] < n
        /\ \A p \in DOMAIN v.tombstones : v.tombstones[p].object[1] \in Nat
                                        /\ v.tombstones[p].object[1] < n
    BY <1>2, <2>1, <2>2 DEF Sound, MintedBy
  <2>5. \A p \in DOMAIN v.bindings : v.bindings[p].kind \in Kinds /\ Seals(objvers, v.bindings[p])
    BY <2>1 DEF Binding, Sound
  <2>6. QED
    BY <2>1, <2>3, <2>4, <2>5 DEF PriorIs, Sound
<1>3. QED
  BY <1>1, <1>2

\* What BoundAs yields, field by field.
LEMMA BoundFields ==
  ASSUME NEW prior, NEW a, NEW data
  PROVE  LET b == BoundAs(prior, a, data)
             same == \E q \in DOMAIN prior.bindings :
                       prior.bindings[q].object = a.object /\ prior.bindings[q].data = data
         IN  /\ b.object = a.object /\ b.kind = a.kind /\ b.data = data
             /\ a.kind = "regular_file" /\ same => b.over = a.prior
             /\ ~ (a.kind = "regular_file" /\ same) => b.over = a.candidate
BY DEF BoundAs

\* The binding that an assignment yields is sealed when its candidate, if it is
\* the one taken, is.
LEMMA BoundSealed ==
  ASSUME NEW prior, NEW t, NEW p, NEW data, t.target \in Nat, PriorIs(prior, t.target),
         t.assign[p] \in CaptureAssignment, AssignedFrom(prior, t, p),
         NEW b, b = BoundAs(prior, t.assign[p], data),
         b.kind = "regular_file" /\ b.over = <<t.target, p>>
           => b.over \in DOMAIN objvers /\ objvers[b.over] = data
  PROVE  Seals(objvers, b) /\ b.over \in {t.assign[p].prior, t.assign[p].candidate}
<1> DEFINE a == t.assign[p]
<1>0. /\ b.kind = a.kind /\ b.data = data /\ a.kind \in Kinds
      /\ a.candidate = IF a.kind = "directory" THEN None ELSE <<t.target, p>>
  BY DEF BoundAs, AssignedFrom, CaptureAssignment
<1>1. CASE a.kind = "directory"
  BY <1>0, <1>1 DEF BoundAs, Seals
<1>2. CASE a.kind = "regular_file" /\ b.over = a.candidate
  BY <1>0, <1>2 DEF Seals
<1>3. CASE a.kind = "regular_file" /\ b.over # a.candidate
  <2>1. /\ b.over = a.prior
        /\ \E q \in DOMAIN prior.bindings :
             prior.bindings[q].object = a.object /\ prior.bindings[q].data = data
    BY <1>3 DEF BoundAs
  <2>2. PICK q \in DOMAIN prior.bindings :
          prior.bindings[q].object = a.object /\ prior.bindings[q].data = data
    BY <2>1
  <2>3. a.reused
    <3>1. <<t.target, p>>[1] = t.target /\ prior.bindings[q].object[1] < t.target
          /\ prior.bindings[q].object[1] \in Nat
      BY DEF PriorIs
    <3>2. SUFFICES ASSUME ~ a.reused PROVE FALSE
      OBVIOUS
    <3>3. a.object = <<t.target, p>>
      BY <3>2 DEF AssignedFrom
    <3>4. QED
      BY <2>2, <3>1, <3>3
  <2>4. PICK r \in DOMAIN prior.bindings :
          /\ prior.bindings[r].object = a.object /\ prior.bindings[r].kind = a.kind
          /\ prior.bindings[r].over = a.prior
    BY <2>3 DEF AssignedFrom
  <2>5. r = q
    BY <2>2, <2>4 DEF PriorIs, Valid
  <2>6. Seals(objvers, prior.bindings[q])
    BY DEF PriorIs
  <2>7. QED
    BY <1>0, <1>3, <2>1, <2>2, <2>4, <2>5, <2>6 DEF Seals
<1>4. QED
  BY <1>0, <1>1, <1>2, <1>3 DEF Kinds, BoundAs

\* What the lock holder knows of its journal: its parent, and that every
\* assignment continues a binding of it or mints an Object.
LEMMA JournalIs ==
  ASSUME HistoryInv, ContentsInv, journal # None
  PROVE  /\ journal \in CaptureTransaction /\ journal.target \in Nat
         /\ journal.expected # None => /\ journal.expected.version \in DOMAIN versions
                                       /\ journal.expected.version < journal.target
         /\ PriorIs(PriorOf(journal.expected), journal.target)
         /\ \A p \in DOMAIN journal.assign :
              /\ journal.assign[p] \in CaptureAssignment /\ p \in Paths
              /\ AssignedFrom(PriorOf(journal.expected), journal, p)
<1>1. journal \in CaptureTransaction /\ journal.target \in Nat
  BY DEF HistoryInv, Known, TypeInv, Typed, JournalTypeOK, CaptureTransaction
<1>2. journal.expected # None => /\ journal.expected.version \in DOMAIN versions
                                 /\ journal.expected.version < journal.target
  BY DEF HistoryInv, Parented, ContentsInv, JournalSound
<1>3. PriorIs(PriorOf(journal.expected), journal.target)
  BY <1>1, <1>2, PriorSound DEF HistoryInv, Known, ContentsInv
<1>4. \A p \in DOMAIN journal.assign : journal.assign[p] \in CaptureAssignment /\ p \in Paths
  BY <1>1, PartialFunctionsAre DEF CaptureTransaction
<1>5. \A p \in DOMAIN journal.assign : AssignedFrom(PriorOf(journal.expected), journal, p)
  BY DEF ContentsInv, JournalSound
<1>6. QED
  BY <1>1, <1>2, <1>3, <1>4, <1>5

\* A capture's version keeps its parent's Objects or records their deletion.
LEMMA CapturedContinues ==
  ASSUME NEW prior, NEW t, NEW bound, t.target \in Nat, PriorIs(prior, t.target),
         DOMAIN bound = DOMAIN t.assign, t.tombs = TargetTombstones(prior, t.assign),
         \A p \in DOMAIN bound : /\ t.assign[p] \in CaptureAssignment
                                 /\ AssignedFrom(prior, t, p)
                                 /\ bound[p] = BoundAs(prior, t.assign[p], bound[p].data)
  PROVE  Continues(prior, VersionOf(t, bound))
<1> DEFINE w == VersionOf(t, bound)
<1>0. w.bindings = bound /\ w.tombstones = t.tombs
  BY DEF VersionOf
<1>a. \A p \in DOMAIN bound : /\ bound[p].object = t.assign[p].object
                              /\ bound[p].kind = t.assign[p].kind
  BY BoundFields
<1>1. ASSUME NEW p \in DOMAIN prior.bindings
      PROVE  \/ prior.bindings[p].object \in LiveObjects(w)
             \/ p \in DOMAIN w.tombstones /\ w.tombstones[p] = Tombstone(prior.bindings[p])
  <2>1. CASE p \in Discontinued(prior, t.assign)
    BY <1>0, <2>1 DEF TargetTombstones
  <2>2. CASE p \notin Discontinued(prior, t.assign)
    <3>1. PICK q \in DOMAIN t.assign : t.assign[q].object = prior.bindings[p].object
      BY <2>2 DEF Discontinued
    <3>2. bound[q].object = prior.bindings[p].object
      BY <1>a, <3>1
    <3>3. QED
      BY <1>0, <3>1, <3>2 DEF LiveObjects
  <2>3. QED
    BY <2>1, <2>2
<1>2. ASSUME NEW p \in DOMAIN prior.bindings \cap DOMAIN bound,
             prior.bindings[p].kind = bound[p].kind
      PROVE  /\ prior.bindings[p].object = bound[p].object
             /\ prior.bindings[p].data = bound[p].data => prior.bindings[p].over = bound[p].over
  <2> DEFINE a == t.assign[p]
  <2>1. /\ prior.bindings[p].object = a.object /\ prior.bindings[p].over = a.prior
        /\ prior.bindings[p].kind = a.kind
        /\ a.candidate = IF a.kind = "directory" THEN None ELSE <<t.target, p>>
    BY <1>a, <1>2 DEF AssignedFrom
  <2>2. CASE a.kind = "regular_file"
    BY <1>a, <2>1, <2>2, BoundFields
  <2>3. CASE a.kind = "directory"
    <3>1. bound[p].over = None
      BY <2>1, <2>3, BoundFields
    <3>2. prior.bindings[p].over = None
      BY <1>a, <1>2, <2>3 DEF PriorIs, Seals
    <3>3. QED
      BY <1>a, <2>1, <3>1, <3>2
  <2>4. a.kind \in Kinds
    BY DEF CaptureAssignment
  <2>5. QED
    BY <2>2, <2>3, <2>4 DEF Kinds
<1>3. QED
  BY <1>0, <1>1, <1>2 DEF Continues

\* Every Object a capture's version names is its parent's or its own.
LEMMA CapturedMinted ==
  ASSUME NEW prior, NEW t, NEW bound, t.target \in Nat, PriorIs(prior, t.target),
         DOMAIN bound = DOMAIN t.assign, t.tombs = TargetTombstones(prior, t.assign),
         \A p \in DOMAIN bound : /\ AssignedFrom(prior, t, p)
                                 /\ bound[p] = BoundAs(prior, t.assign[p], bound[p].data)
  PROVE  MintedBy(VersionOf(t, bound), t.target)
<1> DEFINE w == VersionOf(t, bound)
<1>0. w.bindings = bound /\ w.tombstones = t.tombs
  BY DEF VersionOf
<1>1. ASSUME NEW p \in DOMAIN bound PROVE bound[p].object[1] <= t.target
  <2>1. bound[p].object = t.assign[p].object
    BY BoundFields
  <2>2. CASE t.assign[p].reused
    <3>1. PICK q \in DOMAIN prior.bindings : prior.bindings[q].object = t.assign[p].object
      BY <2>2 DEF AssignedFrom
    <3>2. prior.bindings[q].object[1] \in Nat /\ prior.bindings[q].object[1] < t.target
      BY DEF PriorIs
    <3>3. QED
      BY <2>1, <3>1, <3>2
  <2>3. CASE ~ t.assign[p].reused
    <3>1. t.assign[p].object = <<t.target, p>>
      BY <2>3 DEF AssignedFrom
    <3>2. <<t.target, p>>[1] <= t.target
      OBVIOUS
    <3>3. QED
      BY <2>1, <3>1, <3>2
  <2>4. QED
    BY <2>2, <2>3
<1>2. ASSUME NEW p \in DOMAIN t.tombs PROVE t.tombs[p].object[1] <= t.target
  <2> DEFINE dropped == Discontinued(prior, t.assign)
  <2>1. dropped \subseteq DOMAIN prior.bindings
    BY DEF Discontinued
  <2>2. /\ p \in DOMAIN prior.tombstones \cup dropped
        /\ t.tombs[p] = IF p \in dropped THEN Tombstone(prior.bindings[p])
                        ELSE prior.tombstones[p]
    BY DEF TargetTombstones
  <2> HIDE DEF dropped
  <2>3. CASE p \in dropped
    <3>1. t.tombs[p].object = prior.bindings[p].object /\ p \in DOMAIN prior.bindings
      BY <2>1, <2>2, <2>3 DEF Tombstone
    <3>2. prior.bindings[p].object[1] \in Nat /\ prior.bindings[p].object[1] < t.target
      BY <3>1 DEF PriorIs
    <3>3. QED
      BY <3>1, <3>2
  <2>4. CASE p \notin dropped
    <3>1. t.tombs[p].object = prior.tombstones[p].object /\ p \in DOMAIN prior.tombstones
      BY <2>2, <2>4
    <3>2. prior.tombstones[p].object[1] \in Nat /\ prior.tombstones[p].object[1] < t.target
      BY <3>1 DEF PriorIs
    <3>3. QED
      BY <3>1, <3>2
  <2>5. QED
    BY <2>3, <2>4
<1>3. QED
  BY <1>0, <1>1, <1>2 DEF MintedBy

\* When every entry has been read, what the capture installs is sound.
LEMMA CapturedSound ==
  ASSUME HistoryInv, ContentsInv, pc = "build", Unread = {}
  PROVE  Sound(versions, objvers, journal.target, VersionOf(journal, built))
<1> DEFINE prior == PriorOf(journal.expected)
           w == VersionOf(journal, built)
<1>1. journal # None
  BY DEF HistoryInv, Known, TypeInv, CaptureKnown, JournalSteps
<1>2. /\ journal.target \in Nat /\ PriorIs(prior, journal.target)
      /\ \A p \in DOMAIN journal.assign : /\ journal.assign[p] \in CaptureAssignment
                                          /\ AssignedFrom(prior, journal, p)
  BY <1>1, JournalIs
<1>3. /\ DOMAIN built = DOMAIN journal.assign
      /\ \A p \in DOMAIN built :
           /\ built[p] = BoundAs(prior, journal.assign[p], built[p].data)
           /\ Seals(objvers, built[p])
  BY DEF ContentsInv, BuiltSound, BuildSteps, Unread
<1>4. journal.tombs = TargetTombstones(prior, journal.assign) /\ WillBeValid(journal)
  BY <1>1 DEF ContentsInv, JournalSound
<1>5. /\ w.bindings = built /\ w.tombstones = journal.tombs
      /\ w.exclusions = journal.plan.excluded /\ w.parents = ParentsOf(journal.expected)
  BY DEF VersionOf
<1>6. Continues(prior, w)
  BY <1>2, <1>3, <1>4, CapturedContinues
<1>7. MintedBy(w, journal.target)
  BY <1>2, <1>3, <1>4, CapturedMinted
<1>8. Valid(w)
  <2>1. \A p \in DOMAIN built : built[p].object = journal.assign[p].object
    BY <1>3, BoundFields
  <2>2. QED
    BY <1>3, <1>4, <1>5, <2>1 DEF Valid, WillBeValid
<1>9. \A m \in w.parents : m \in DOMAIN versions /\ m < journal.target /\ Continues(versions[m], w)
  <2>1. journal.expected # None => /\ journal.expected.version \in DOMAIN versions
                                   /\ journal.expected.version < journal.target
    BY <1>1, JournalIs
  <2>2. QED
    BY <1>5, <1>6, <2>1 DEF ParentsOf, PriorOf
<1>10. QED
  BY <1>3, <1>5, <1>7, <1>8, <1>9 DEF Sound

\* What a pending restore installs is sound.
LEMMA RestoredSound ==
  ASSUME HistoryInv, ContentsInv, active # None
  PROVE  Sound(versions, objvers, active.target, TargetVersion(active))
<1> DEFINE id == active.expected.version
           v == versions[id]
           w == TargetVersion(active)
           b == active.binding
           path == active.path
<1>1. /\ id \in DOMAIN versions /\ id < active.target /\ active.target \in Nat
      /\ path \notin DOMAIN v.bindings /\ Valid(w)
      /\ path \in DOMAIN v.tombstones /\ v.tombstones[path] = active.tomb
      /\ Tombstone(b) = active.tomb /\ b.kind = "regular_file" /\ Seals(objvers, b)
  BY Numbers DEF HistoryInv, Known, TypeInv, RestoreKnown, ContentsInv, RestoreSound, Restores
<1>2. /\ id \in Nat /\ v \in Version /\ Sound(versions, objvers, id, v)
      /\ \A p \in DOMAIN v.bindings : v.bindings[p].object \in Ids
      /\ \A p \in DOMAIN v.tombstones : v.tombstones[p].object \in Ids
  BY <1>1, InstalledIs DEF HistoryInv, Known, ContentsInv
<1>3. /\ w.parents = {id} /\ w.bindings = Put(v.bindings, path, b)
      /\ DOMAIN w.tombstones = DOMAIN v.tombstones \ {path}
      /\ \A p \in DOMAIN w.tombstones : w.tombstones[p] = v.tombstones[p]
  BY DEF TargetVersion, RestoredVersion
<1> HIDE DEF v, w, id, path, b
<1>4. /\ DOMAIN w.bindings = DOMAIN v.bindings \cup {path} /\ w.bindings[path] = b
      /\ \A p \in DOMAIN v.bindings : w.bindings[p] = v.bindings[p]
  BY <1>1, <1>3 DEF Put
<1>5. Continues(v, w)
  BY <1>1, <1>4 DEF Continues, LiveObjects
<1>6. MintedBy(w, active.target)
  <2>1. \A x \in Ids : x[1] \in Nat
    BY DEF Ids
  <2>2. b.object = v.tombstones[path].object
    BY <1>1 DEF Tombstone
  <2>3. \A p \in DOMAIN w.bindings :
          \/ p \in DOMAIN v.bindings /\ w.bindings[p].object = v.bindings[p].object
          \/ w.bindings[p].object = v.tombstones[path].object
    BY <1>4, <2>2
  <2>4. /\ \A p \in DOMAIN v.bindings : v.bindings[p].object[1] \in Nat
                                        /\ v.bindings[p].object[1] < active.target
        /\ \A p \in DOMAIN v.tombstones : v.tombstones[p].object[1] \in Nat
                                          /\ v.tombstones[p].object[1] < active.target
    BY <1>1, <1>2, <2>1 DEF Sound, MintedBy
  <2>5. /\ \A p \in DOMAIN w.bindings : w.bindings[p].object[1] <= active.target
        /\ \A p \in DOMAIN w.tombstones : w.tombstones[p].object[1] <= active.target
    BY <1>1, <1>3, <2>3, <2>4
  <2>6. QED
    BY <2>5 DEF MintedBy
<1>7. \A p \in DOMAIN w.bindings : Seals(objvers, w.bindings[p])
  BY <1>1, <1>2, <1>4 DEF Sound
<1>8. \A m \in w.parents : m \in DOMAIN versions /\ m < active.target /\ Continues(versions[m], w)
  BY <1>1, <1>3, <1>5 DEF v
<1>9. QED
  BY <1>1, <1>6, <1>7, <1>8 DEF Sound, w

\* The binding a restore finds is sealed and is the one the Tombstone records.
LEMMA RestoreBindingSealed ==
  ASSUME TypeInv, HistorySound, NEW v \in DOMAIN versions, NEW path, Restorable(v, path)
  PROVE  LET tomb == versions[v].tombstones[path]
             b == RestoreBinding(versions, v, path, tomb)
         IN  Tombstone(b) = tomb /\ b.kind = "regular_file" /\ Seals(objvers, b)
<1> DEFINE tomb == versions[v].tombstones[path]
           source == RestoreSource(versions, v, path, tomb)
           a == CHOOSE x \in source : TRUE
<1>1. source # {} /\ tomb.kind = "regular_file"
  BY DEF Restorable
<1>2. \A x \in source : /\ x \in DOMAIN versions /\ path \in DOMAIN versions[x].bindings
                        /\ Tombstone(versions[x].bindings[path]) = tomb
  BY DEF RestoreSource, RestoreCandidates
<1>3. a \in source
  BY <1>1
<1>4. RestoreBinding(versions, v, path, tomb) = versions[a].bindings[path]
  BY DEF RestoreBinding
<1> HIDE DEF a, source
<1>5. Tombstone(versions[a].bindings[path]) = tomb /\ Seals(objvers, versions[a].bindings[path])
  BY <1>2, <1>3, InstalledIs DEF Sound
<1>6. versions[a].bindings[path].kind = tomb.kind
  BY <1>5 DEF Tombstone
<1>7. QED
  BY <1>1, <1>4, <1>5, <1>6

\* The journal of a restore is sound when it is written.
LEMMA WriteRestoreJournalSound == HistoryInv /\ ContentsInv /\ WriteRestoreJournal => RestoreSound'
<1> SUFFICES ASSUME HistoryInv, ContentsInv, WriteRestoreJournal PROVE RestoreSound'
  OBVIOUS
<1> DEFINE target == IF restoreKey \in DOMAIN slot THEN slot[restoreKey].target ELSE issued + 1
           t == NewRestore(target)
<1>1. /\ pc = "journal" /\ active' = t /\ Restores(t) /\ UNCHANGED <<head, versions, objvers>>
  BY DEF WriteRestoreJournal, Step
<1>2. /\ TypeInv /\ HistorySound /\ head # None /\ Restorable(head.version, wanted)
      /\ head.version \in DOMAIN versions
  BY <1>1 DEF HistoryInv, Known, TypeInv, ContentsInv, RestoreKnown, HeadInstalled
<1>3. /\ t.expected = head /\ t.path = wanted /\ t.target = target
      /\ t.tomb = versions[head.version].tombstones[wanted]
      /\ t.binding = RestoreBinding(versions, head.version, wanted, t.tomb)
  BY DEF NewRestore
<1>4. head.version < target
  <2>1. head.version \in Nat /\ head.version <= issued /\ issued \in Nat
    BY <1>2, Numbers DEF HistoryInv, Known, Numbered
  <2>2. restoreKey[1] = head.version
    BY DEF restoreKey
  <2>3. CASE restoreKey \in DOMAIN slot
    BY <2>2, <2>3 DEF HistoryInv, Parented
  <2>4. CASE restoreKey \notin DOMAIN slot
    BY <2>1, <2>4
  <2>5. QED
    BY <2>3, <2>4
<1>5. Tombstone(t.binding) = t.tomb /\ t.binding.kind = "regular_file" /\ Seals(objvers, t.binding)
  BY <1>2, <1>3, RestoreBindingSealed
<1>6. wanted \in DOMAIN versions[head.version].tombstones
  BY <1>2 DEF Restorable
<1> HIDE DEF t, target
<1>7. Restores(active)'
  BY <1>1 DEF Restores, TargetVersion
<1>8. QED
  BY <1>1, <1>3, <1>4, <1>5, <1>6, <1>7 DEF RestoreSound

\* A pending restore stays sound while versions are added.
LEMMA NextRestoreSound == HistoryInv /\ ContentsInv /\ [Next]_vars => RestoreSound'
<1> SUFFICES ASSUME HistoryInv, ContentsInv, [Next]_vars PROVE RestoreSound'
  OBVIOUS
<1>1. CASE WriteRestoreJournal
  BY <1>1, WriteRestoreJournalSound
<1>2. CASE active' = active
  <2>1. Grows /\ (active # None => active.expected.version \in DOMAIN versions)
    BY NextGrows DEF HistoryInv, Known, TypeInv, RestoreKnown
  <2>2. active # None => versions'[active.expected.version] = versions[active.expected.version]
    BY <2>1 DEF Grows
  <2>3. active # None => (Restores(active) => Restores(active)')
    BY <1>2, <2>2 DEF Restores, TargetVersion
  <2>4. active # None => (Seals(objvers, active.binding) => Seals(objvers', active.binding))
    BY <2>1 DEF Grows, Seals
  <2>5. QED
    BY <1>2, <2>2, <2>3, <2>4 DEF ContentsInv, RestoreSound
<1>3. CASE active' = None
  BY <1>3 DEF RestoreSound
<1>4. QED
  BY <1>1, <1>2, <1>3, Writers

\* The installed history stays sound when a capture or a restore adds to it.
LEMMA NextHistorySound == HistoryInv /\ ContentsInv /\ [Next]_vars => HistorySound'
<1> SUFFICES ASSUME HistoryInv, ContentsInv, [Next]_vars, NEW id \in DOMAIN versions'
             PROVE  Sound(versions', objvers', id, versions'[id])
  BY DEF HistorySound
<1>1. Grows /\ HistorySound /\ versions \in [DOMAIN versions -> Version]
  BY NextGrows DEF HistoryInv, Known, TypeInv, Typed, StoreTypeOK, ContentsInv
<1>2. \A n, v : Sound(versions, objvers, n, v) => Sound(versions', objvers', n, v)
  BY <1>1, SoundKept DEF Grows
<1>3. CASE id \in DOMAIN versions
  BY <1>1, <1>2, <1>3 DEF HistorySound, Grows
<1>4. CASE id \notin DOMAIN versions
  <2>1. CASE InstallVersion
    <3>1. pc = "build" /\ Unread = {} /\ versions' = Put(versions, journal.target, VersionOf(journal, built))
      BY <2>1 DEF InstallVersion, Step
    <3>2. id = journal.target /\ versions'[id] = VersionOf(journal, built)
      BY <1>4, <3>1 DEF Put
    <3>3. QED
      BY <1>2, <3>1, <3>2, CapturedSound
  <2>2. CASE InstallTarget
    <3>1. pc = "r_install" /\ versions' = Put(versions, active.target, TargetVersion(active))
      BY <2>2 DEF InstallTarget, Step
    <3>2. active # None
      BY <3>1 DEF HistoryInv, Known, TypeInv, RestoreKnown, ActiveSteps
    <3>3. id = active.target /\ versions'[id] = TargetVersion(active)
      BY <1>4, <3>1 DEF Put
    <3>4. QED
      BY <1>2, <3>2, <3>3, RestoredSound
  <2>3. QED
    BY <1>4, <2>1, <2>2, Writers
<1>5. QED
  BY <1>3, <1>4

-----------------------------------------------------------------------------
(* Files and plans.                                                        *)

\* The steps that touch a file, its stamp or a private stage.
LEMMA FileWriters ==
  ASSUME [Next]_vars
  PROVE  \/ UNCHANGED <<node, edits, slot>> \/ User \/ CreateStage \/ CopyStage
         \/ WriteRestoreJournal /\ UNCHANGED <<node, edits>>
<1>1. CASE (\E p \in Procs : CaptureStep(p) \/ RestoreCall(p)) \/ Crash \/ UNCHANGED vars
  BY <1>1 DEF CaptureStep, PlanCapture, SealRefused, SealDropStale, SealStart, RestoreCall,
     RestoreAdmit, RestoreResume, RestoreRecover, Crash, workspaceVars, restoreState, vars, localVars
<1>2. CASE SealStep
  BY <1>2 DEF SealStep, WriteCaptureIdentities, RecoverCleanup, SealAssign, SealNothing,
     ReadEntry, InstallVersion, FinalPlanCheck, MoveHead, RemoveJournal, SealFails,
     workspaceVars, restoreState
<1>3. CASE RestoreStep
  BY <1>3 DEF RestoreStep, RebindHead, WriteRestoreJournal, RestoreRefused, ReuseStage, Publish,
     InstallTarget, CommitHead, VerifyPublication, Project, RestoreFails, RollbackHead,
     WriteCommittedReceipt, RetireModified, RetainFindsEdit, RetainAuthority, WriteReceipt,
     WriteAuthority, RetireIntent, RetireReceipt, RestoreStaysPending, workspaceVars,
     workspaceAndStages, restoreState, unchangedButFiles
<1>4. QED
  BY <1>1, <1>2, <1>3 DEF Next, Core

\* A user's change is stamped with its own number, gives no directory bytes and
\* makes no directory of a private stage.
LEMMA UserFiles ==
  ASSUME TypeInv, FilesSound, User
  PROVE  /\ edits' = edits + 1 /\ slot' = slot
         /\ \A i \in Inodes :
              \/ node'[i] = node[i]
              \/ /\ node'[i].stamp = edits + 1
                 /\ node'[i].kind = "directory" =>
                      node'[i].data = None /\ \A k \in DOMAIN slot : slot[k].ino # i
<1>0. node \in [Inodes -> File] /\ slot' = slot
  BY DEF TypeInv, Typed, WorkspaceTypeOK, User, localVars, restoreState
<1> DEFINE Stamped ==
      \A i \in Inodes :
        \/ node'[i] = node[i]
        \/ /\ node'[i].stamp = edits + 1
           /\ node'[i].kind = "directory" =>
                node'[i].data = None /\ \A k \in DOMAIN slot : slot[k].ino # i
<1>1. ASSUME NEW p \in Paths, NEW kind, NEW c, New(p, kind, c), kind = "directory" => c = None
      PROVE  Stamped
  <2>1. PICK i \in Allocatable :
          node' = [node EXCEPT ![i] = [kind |-> kind, data |-> c, stamp |-> edits + 1]]
    BY <1>1 DEF New
  <2>2. \A k \in DOMAIN slot : slot[k].ino # i
    BY AllocatableUnlinked
  <2>3. QED
    BY <1>0, <1>1, <2>1, <2>2
<1>2. ASSUME NEW p \in Paths, UserCreate(p) \/ UserReplace(p) \/ UserMkdir(p)
      PROVE  Stamped /\ edits' = edits + 1
  <2>1. CASE UserMkdir(p)
    BY <1>1, <2>1 DEF UserMkdir, Change
  <2>2. CASE UserCreate(p) \/ UserReplace(p)
    <3>1. PICK c \in Contents : New(p, "regular_file", c)
      BY <2>2 DEF UserCreate, UserReplace
    <3>2. Stamped
      BY <1>1, <3>1
    <3>3. QED
      BY <2>2, <3>2 DEF UserCreate, UserReplace, Change
  <2>3. QED
    BY <1>2, <2>1, <2>2
<1>3. ASSUME NEW p \in Paths, UserEdit(p) PROVE Stamped /\ edits' = edits + 1
  <2>1. PICK c \in Contents :
          node' = [node EXCEPT ![dir[p]] =
                     [kind |-> "regular_file", data |-> c, stamp |-> edits + 1]]
    BY <1>3 DEF UserEdit
  <2>2. QED
    BY <1>0, <1>3, <2>1 DEF UserEdit, Change
<1>4. ASSUME NEW p \in Paths, UserDelete(p) \/ UserIgnore(p) PROVE Stamped /\ edits' = edits + 1
  BY <1>4 DEF UserDelete, UserIgnore, Change
<1>5. ASSUME NEW p \in Paths, NEW q \in Paths, UserMove(p, q) \/ UserLink(p, q)
      PROVE  Stamped /\ edits' = edits + 1
  BY <1>5 DEF UserMove, UserLink, Change
<1> HIDE DEF Stamped
<1>6. Stamped /\ edits' = edits + 1
  BY <1>2, <1>3, <1>4, <1>5 DEF User, UserStep
<1>7. QED
  BY <1>0, <1>6 DEF Stamped

\* Stamps, directories and private stages stay what they are.
LEMMA NextFilesSound == TypeInv /\ FilesSound /\ [Next]_vars => FilesSound'
<1> SUFFICES ASSUME TypeInv, FilesSound, [Next]_vars PROVE FilesSound'
  OBVIOUS
<1>0. /\ edits \in Nat /\ node \in [Inodes -> File]
      /\ \A k \in DOMAIN slot : slot[k] \in Slot
  BY WorkspaceAssumption, PartialFunctionsAre DEF TypeInv, Typed, WorkspaceTypeOK, RestoreTypeOK
<1>1. CASE UNCHANGED <<node, edits, slot>>
  BY <1>1 DEF FilesSound
<1>2. CASE User
  <2>1. /\ edits' = edits + 1 /\ slot' = slot
        /\ \A i \in Inodes :
             \/ node'[i] = node[i]
             \/ /\ node'[i].stamp = edits + 1
                /\ node'[i].kind = "directory" =>
                     node'[i].data = None /\ \A k \in DOMAIN slot : slot[k].ino # i
    BY <1>2, UserFiles
  <2>2. \A i \in Inodes : node[i].stamp \in Nat
    BY <1>0 DEF File
  <2>3. \A i \in Inodes : /\ node'[i].stamp <= edits'
                          /\ node'[i].kind = "directory" => node'[i].data = None
    BY <1>0, <2>1, <2>2 DEF FilesSound
  <2>4. node' \in [Inodes -> File]
    BY <1>2, UserTyped DEF TypeInv, Typed, WorkspaceTypeOK
  <2>5. ASSUME NEW k \in DOMAIN slot, slot[k].ino # None
        PROVE  node'[slot[k].ino].kind = "regular_file"
    <3>1. slot[k].ino \in Inodes
      BY <1>0, <2>5 DEF Slot
    <3>2. node'[slot[k].ino].kind \in Kinds
      BY <2>4, <3>1 DEF File
    <3>3. CASE node'[slot[k].ino] = node[slot[k].ino]
      BY <2>5, <3>3 DEF FilesSound
    <3>4. CASE node'[slot[k].ino] # node[slot[k].ino]
      BY <2>1, <3>1, <3>2, <3>4 DEF Kinds
    <3>5. QED
      BY <3>3, <3>4
  <2>6. QED
    BY <2>1, <2>3, <2>5 DEF FilesSound
<1>3. CASE CreateStage
  <2>1. PICK i \in Allocatable :
          /\ slot' = [slot EXCEPT ![active.key].ino = i]
          /\ node' = [node EXCEPT ![i] = [kind |-> "regular_file", data |-> None, stamp |-> edits]]
    BY <1>3 DEF CreateStage
  <2>2. i \in Inodes /\ edits' = edits
    BY <1>3, AllocatableUnlinked DEF CreateStage, unchangedButFiles
  <2>3. \A k \in DOMAIN slot' : k \in DOMAIN slot /\ slot'[k].ino \in {i, slot[k].ino}
    BY <1>0, <2>1 DEF Slot
  <2>4. \A j \in Inodes : node'[j] = IF j = i THEN [kind |-> "regular_file", data |-> None, stamp |-> edits]
                                     ELSE node[j]
    BY <1>0, <2>1, <2>2
  <2>5. QED
    BY <1>0, <2>2, <2>3, <2>4 DEF FilesSound, Slot
<1>4. CASE CopyStage
  <2>1. /\ edits' = edits /\ slot' = slot /\ active # None /\ active.key \in DOMAIN slot
        /\ node' = [node EXCEPT ![Stage(active)].data = active.binding.data]
    BY <1>4 DEF CopyStage, Step, unchangedButFiles, TypeInv, RestoreKnown, ActiveSteps
  <2>2. CASE Stage(active) = None
    <3>1. node' = node
      BY <1>0, <2>1, <2>2, WorkspaceAssumption
    <3>2. QED
      BY <2>1, <3>1 DEF FilesSound
  <2>3. CASE Stage(active) # None
    <3>1. Stage(active) \in Inodes /\ node[Stage(active)].kind = "regular_file"
      BY <1>0, <2>1, <2>3 DEF Stage, Slot, FilesSound
    <3>2. \A i \in Inodes : /\ node'[i].stamp = node[i].stamp /\ node'[i].kind = node[i].kind
                            /\ node[i].kind # "regular_file" => node'[i].data = node[i].data
      BY <1>0, <2>1, <3>1 DEF File
    <3>3. QED
      BY <1>0, <2>1, <3>2 DEF FilesSound, Slot
  <2>4. QED
    BY <2>2, <2>3
<1>5. CASE WriteRestoreJournal /\ UNCHANGED <<node, edits>>
  <2>1. \A k \in DOMAIN slot' : slot'[k].ino # None => k \in DOMAIN slot /\ slot'[k].ino = slot[k].ino
    BY <1>5 DEF WriteRestoreJournal, Put
  <2>2. QED
    BY <1>5, <2>1 DEF FilesSound
<1>6. QED
  BY <1>1, <1>2, <1>3, <1>4, <1>5, FileWriters

\* A plan is a scan of the workspace or is forgotten.
LEMMA NextPlansSound == TypeInv /\ PlansSound /\ [Next]_vars => PlansSound'
<1> SUFFICES ASSUME TypeInv, PlansSound, [Next]_vars PROVE PlansSound'
  OBVIOUS
<1>0. plan \in [Procs -> CapturePlan \cup {None}]
  BY DEF TypeInv, Typed, VolatileTypeOK
<1>1. CASE UNCHANGED plan
  BY <1>1 DEF PlansSound
<1>2. ASSUME NEW p \in Procs, PlanCapture(p) PROVE PlansSound'
  <2>1. DOMAIN CurrentPlan.entries \cap CurrentPlan.ignored = {}
    BY DEF CurrentPlan
  <2>2. plan' = [plan EXCEPT ![p] = CurrentPlan]
    BY <1>2 DEF PlanCapture
  <2>3. QED
    BY <1>0, <2>1, <2>2 DEF PlansSound
<1>3. ASSUME NEW p \in Procs, SealRefused(p) PROVE PlansSound'
  BY <1>0, <1>3 DEF SealRefused, PlansSound
<1>4. CASE Return
  BY <1>4 DEF Return, PlansSound
<1>5. CASE User \/ UNCHANGED vars
  BY <1>1, <1>5 DEF User, vars, localVars, volatile
<1>6. ASSUME NEW p \in Procs, SealDropStale(p) \/ SealStart(p) \/ RestoreCall(p)
      PROVE  UNCHANGED plan
  BY <1>6 DEF SealDropStale, SealStart, RestoreCall, RestoreAdmit, RestoreResume,
     RestoreRecover, volatile
<1>7. CASE Core
  BY <1>1, <1>4, <1>7 DEF Core, SealStep, WriteCaptureIdentities, RecoverCleanup, SealAssign,
     SealNothing, ReadEntry, InstallVersion, FinalPlanCheck, MoveHead, RemoveJournal, SealFails,
     RestoreStep, RebindHead, WriteRestoreJournal, RestoreRefused, CreateStage, CopyStage,
     ReuseStage, Publish, InstallTarget, CommitHead, VerifyPublication, Project, RestoreFails,
     RollbackHead, WriteCommittedReceipt, RetireModified, RetainFindsEdit, RetainAuthority,
     WriteAuthority, RetireIntent, RetireReceipt, RestoreStaysPending, WriteReceipt, volatile,
     unchangedButFiles
<1>8. QED
  BY <1>1, <1>2, <1>3, <1>4, <1>5, <1>6, <1>7 DEF Next, CaptureStep, Crash

-----------------------------------------------------------------------------
(* The journal of a capture.                                               *)

\* An assignment continues the one prior binding it finds, its own path's before
\* any other, or mints an Object.
LEMMA AssignmentFrom ==
  ASSUME NEW n, NEW h, NEW pl, NEW p \in DOMAIN pl.entries,
         PriorOf(h) \in Version, pl.entries[p] \in PlanEntry
  PROVE  AssignedFrom(PriorOf(h), NewTransaction(n, h, pl), p)
<1> DEFINE prior == PriorOf(h)
           t == NewTransaction(n, h, pl)
           entry == pl.entries[p]
           found == PriorBindings(prior, p, entry)
           q == CHOOSE x \in found : TRUE
           a == t.assign[p]
<1>1. /\ t.target = n /\ t.plan = pl
      /\ a = Assignment(n, prior, p, entry)
  BY DEF NewTransaction, Assignments
<1>2. /\ a.kind = entry.kind /\ a.reused = (found # {})
      /\ a.object = IF found # {} THEN prior.bindings[q].object ELSE <<n, p>>
      /\ a.candidate = IF entry.kind = "directory" THEN None ELSE <<n, p>>
      /\ a.prior = IF found # {} THEN prior.bindings[q].over ELSE None
  BY <1>1 DEF Assignment
<1>3. \A x \in found : x \in DOMAIN prior.bindings /\ prior.bindings[x].kind = entry.kind
  BY DEF PriorBindings
<1>4. p \in DOMAIN prior.bindings /\ prior.bindings[p].kind = entry.kind => found = {p}
  BY DEF PriorBindings
<1>5. found # {} => q \in found
  OBVIOUS
<1> HIDE DEF found, q, a, t, entry
<1>6. CASE found # {}
  BY <1>1, <1>2, <1>3, <1>4, <1>5, <1>6 DEF AssignedFrom, entry, a, t
<1>7. CASE found = {}
  BY <1>1, <1>2, <1>4, <1>7 DEF AssignedFrom, entry, a, t
<1>8. QED
  BY <1>6, <1>7

\* The preflight's verdict does not depend on the bytes it saw.
LEMMA PlannedWillBeValid ==
  ASSUME NEW t, Valid(PlannedVersion(t))
  PROVE  WillBeValid(t)
<1> DEFINE w == PlannedVersion(t)
<1>1. /\ DOMAIN w.bindings = DOMAIN t.assign
      /\ \A p \in DOMAIN t.assign : w.bindings[p] = Bound(t, p)
      /\ w.tombstones = t.tombs /\ w.exclusions = t.plan.excluded
  BY DEF PlannedVersion, VersionOf
<1>2. \A p \in DOMAIN t.assign : Bound(t, p).object = t.assign[p].object
  BY BoundFields DEF Bound
<1> HIDE DEF w
<1>3. \A p \in DOMAIN t.assign : w.bindings[p].object = t.assign[p].object
  BY <1>1, <1>2
<1>4. QED
  BY <1>1, <1>3 DEF Valid, WillBeValid, w

\* A journal is sound when it is written.
LEMMA SealAssignSound == HistoryInv /\ ContentsInv /\ SealAssign => JournalSound'
<1> SUFFICES ASSUME HistoryInv, ContentsInv, SealAssign PROVE JournalSound'
  OBVIOUS
<1> DEFINE n == issued + 1
           t == NewTransaction(n, head, held)
           prior == PriorOf(head)
<1>1. /\ pc = "assign" /\ journal' = t
      /\ ~ PriorBindingHidden(prior, held) /\ Valid(PlannedVersion(t))
      /\ UNCHANGED <<head, versions, objvers, identity>>
  BY DEF SealAssign, Step
<1>2. /\ TypeInv /\ held \in CapturePlan /\ issued \in Nat /\ head \in OptionalHead
      /\ head # None => /\ head.version \in DOMAIN versions /\ head.version < n
                        /\ head.version \in Nat
      /\ DOMAIN held.entries \cap held.ignored = {}
  <2>1. TypeInv /\ PlansSound /\ Numbered
    BY DEF HistoryInv, Known, ContentsInv
  <2>2. held \in CapturePlan
    BY <1>1, <2>1, HeldIsPlan DEF CaptureSteps
  <2>3. holder \in Procs /\ held # None
    BY <1>1, <2>1 DEF TypeInv, Typed, LockTypeOK, CaptureKnown, CaptureSteps, held
  <2>4. DOMAIN held.entries \cap held.ignored = {}
    BY <2>1, <2>3 DEF PlansSound, held
  <2>5. head # None => head.version \in Nat /\ head.version <= issued /\ issued \in Nat
    BY <2>1, Numbers DEF Numbered
  <2>6. QED
    BY <2>1, <2>2, <2>4, <2>5 DEF TypeInv, Typed, StoreTypeOK, HeadInstalled
<1>3. /\ t.target = n /\ t.expected = head /\ t.plan = held
      /\ DOMAIN t.assign = DOMAIN held.entries
      /\ t.tombs = TargetTombstones(prior, t.assign)
  BY DEF NewTransaction, Assignments
<1>4. PriorIs(prior, n)
  BY <1>2, PriorSound DEF ContentsInv
<1>5. \A p \in DOMAIN held.entries : held.entries[p] \in PlanEntry
  BY <1>2, PartialFunctionsAre DEF CapturePlan
<1>6. \A p \in DOMAIN t.assign : AssignedFrom(prior, t, p)
  BY <1>3, <1>4, <1>5, AssignmentFrom DEF PriorIs
<1>7. WillBeValid(t)
  BY <1>1, PlannedWillBeValid
<1> HIDE DEF t
<1>8. PriorOf(journal.expected)' = prior
  BY <1>1, <1>3 DEF PriorOf
<1>9. HiddenIsNotDeleted'
  <2> SUFFICES ASSUME NEW p \in DOMAIN prior.bindings \cap DOMAIN t.tombs,
                      p \in t.plan.ignored \cup t.plan.excluded
               PROVE  \E q \in DOMAIN t.plan.entries :
                        /\ t.plan.entries[q].kind = prior.bindings[p].kind
                        /\ prior.bindings[p].object \in DOMAIN identity
                        /\ identity[prior.bindings[p].object] = t.plan.entries[q].ino
    BY <1>1, <1>8 DEF HiddenIsNotDeleted, IdentityAllowsReuse
  <2>1. p \notin DOMAIN held.entries
    BY <1>2, <1>3, <1>7 DEF WillBeValid
  <2>2. \E q \in DOMAIN held.entries :
          /\ held.entries[q].kind = prior.bindings[p].kind
          /\ IdentityAllowsReuse(prior.bindings[p].object, held.entries[q])
    BY <1>1, <1>3, <2>1 DEF PriorBindingHidden
  <2>3. QED
    BY <1>1, <1>3, <2>2 DEF IdentityAllowsReuse
<1>10. QED
  BY <1>1, <1>2, <1>3, <1>6, <1>7, <1>8, <1>9 DEF JournalSound

\* The Objects a pending capture deletes are none of those it assigns.
LEMMA DeletedUnassigned ==
  ASSUME HistoryInv, ContentsInv, journal # None,
         NEW p \in DOMAIN PriorOf(journal.expected).bindings \cap DOMAIN journal.tombs,
         journal.tombs[p] = Tombstone(PriorOf(journal.expected).bindings[p]),
         NEW r \in DOMAIN journal.assign
  PROVE  journal.assign[r].object # PriorOf(journal.expected).bindings[p].object
<1> DEFINE prior == PriorOf(journal.expected)
           a == journal.assign[r]
<1> SUFFICES ASSUME a.object = prior.bindings[p].object PROVE FALSE
  OBVIOUS
<1>1. PriorIs(prior, journal.target) /\ AssignedFrom(prior, journal, r) /\ journal.target \in Nat
  BY JournalIs
<1>2. a.reused
  <2>1. prior.bindings[p].object[1] < journal.target /\ prior.bindings[p].object[1] \in Nat
    BY <1>1 DEF PriorIs
  <2>2. <<journal.target, r>>[1] = journal.target
    OBVIOUS
  <2>3. SUFFICES ASSUME ~ a.reused PROVE FALSE
    OBVIOUS
  <2>4. a.object = <<journal.target, r>>
    BY <1>1, <2>3 DEF AssignedFrom
  <2>5. QED
    BY <1>1, <2>1, <2>2, <2>4
<1>3. p \notin Discontinued(prior, journal.assign)
  BY <1>2 DEF Discontinued
<1>4. p \in DOMAIN prior.tombstones /\ journal.tombs[p] = prior.tombstones[p]
  BY <1>3 DEF ContentsInv, JournalSound, TargetTombstones
<1>5. prior.tombstones[p].object # prior.bindings[p].object
  BY <1>1, <1>4 DEF PriorIs, Valid
<1>6. QED
  BY <1>4, <1>5 DEF Tombstone

\* A pending journal stays sound while records are added around it.
LEMMA NextJournalSound == HistoryInv /\ ContentsInv /\ [Next]_vars => JournalSound'
<1> SUFFICES ASSUME HistoryInv, ContentsInv, [Next]_vars PROVE JournalSound'
  OBVIOUS
<1>1. CASE SealAssign
  BY <1>1, SealAssignSound
<1>2. CASE journal' = None
  BY <1>2 DEF JournalSound
<1>3. CASE journal' = journal /\ journal # None
  <2> DEFINE prior == PriorOf(journal.expected)
  <2>1. PriorOf(journal.expected)' = prior
    <3>1. Grows
      BY NextGrows DEF HistoryInv, Known
    <3>2. journal.expected # None => journal.expected.version \in DOMAIN versions
      BY <1>3 DEF HistoryInv, Parented
    <3>3. QED
      BY <1>3, <3>1, <3>2 DEF Grows, PriorOf
  <2>2. JournalSound
    BY DEF ContentsInv
  <2>3. HiddenIsNotDeleted'
    <3> DEFINE entries == journal.plan.entries
    <3>1. SUFFICES ASSUME NEW p \in DOMAIN prior.bindings \cap DOMAIN journal.tombs,
                        journal.tombs[p] = Tombstone(prior.bindings[p]),
                        p \in journal.plan.ignored \cup journal.plan.excluded
                 PROVE  \E q \in DOMAIN entries :
                          /\ entries[q].kind = prior.bindings[p].kind
                          /\ prior.bindings[p].object \in DOMAIN identity'
                          /\ identity'[prior.bindings[p].object] = entries[q].ino
      BY <1>3, <2>1 DEF HiddenIsNotDeleted, IdentityAllowsReuse
    <3>2. PICK q \in DOMAIN entries :
            /\ entries[q].kind = prior.bindings[p].kind
            /\ IdentityAllowsReuse(prior.bindings[p].object, entries[q])
      BY <1>3, <2>2, <3>1 DEF JournalSound, HiddenIsNotDeleted
    <3>3. CASE identity' = identity
      BY <3>2, <3>3 DEF IdentityAllowsReuse
    <3>4. CASE WriteCaptureIdentities
      <4>1. \A r \in DOMAIN journal.assign :
              journal.assign[r].object # prior.bindings[p].object
        BY <1>3, <3>1, DeletedUnassigned
      <4>2. identity' = SealedIdentities(journal)
        BY <3>4 DEF WriteCaptureIdentities
      <4>3. QED
        BY <3>2, <4>1, <4>2 DEF SealedIdentities, IdentityAllowsReuse
    <3>5. CASE Project
      BY <1>3, <3>5 DEF Project, Step, HistoryInv, Known, LockDiscipline, RestoreSteps
    <3>6. QED
      BY <3>3, <3>4, <3>5, Writers
  <2>4. QED
    BY <1>3, <2>1, <2>2, <2>3 DEF JournalSound
<1>4. QED
  BY <1>1, <1>2, <1>3, Writers

-----------------------------------------------------------------------------
(* The bindings a capture reads.                                           *)

\* A file the user changes after it was read gets a later stamp.
LEMMA UserKeepsAsRead ==
  ASSUME HistoryInv, ContentsInv, pc \in BuildSteps, User, NEW p \in DOMAIN built
  PROVE  AsRead(p)'
<1> DEFINE entry == journal.plan.entries[p]
<1>1. /\ journal \in CaptureTransaction /\ p \in DOMAIN journal.plan.entries /\ AsRead(p)
  <2>1. journal # None /\ DOMAIN journal.assign = DOMAIN journal.plan.entries
    BY DEF BuildSteps, HistoryInv, Known, TypeInv, CaptureKnown, JournalSteps
  <2>2. QED
    BY <2>1, JournalIs DEF ContentsInv, BuiltSound
<1>2. entry \in PlanEntry
  BY <1>1, PartialFunctionsAre DEF CaptureTransaction, CapturePlan
<1>3. entry.ino \in Inodes /\ entry.stamp \in Nat
  BY <1>2 DEF PlanEntry
<1>4. edits \in Nat /\ edits' = edits + 1
      /\ (node'[entry.ino] = node[entry.ino] \/ node'[entry.ino].stamp = edits + 1)
  BY <1>3, UserFiles DEF HistoryInv, Known, TypeInv, Typed, WorkspaceTypeOK, ContentsInv
<1>5. UNCHANGED <<journal, built>>
  BY DEF User, localVars, volatile
<1>6. QED
  BY <1>1, <1>3, <1>4, <1>5 DEF AsRead

\* What was built stays what it is while its journal and its plan are kept.
LEMMA KeptBuilt ==
  ASSUME HistoryInv, ContentsInv, Grows, pc \in BuildSteps, pc' \in BuildSteps,
         UNCHANGED <<journal, built>>, plan'[holder'] = plan[holder],
         \A p \in DOMAIN built : AsRead(p)',
         pc' = "check" => pc = "check" \/ Unread = {}
  PROVE  BuiltSound'
<1>1. journal # None
  BY DEF BuildSteps, HistoryInv, Known, TypeInv, CaptureKnown, JournalSteps
<1>2. PriorOf(journal.expected)' = PriorOf(journal.expected)
  <2>1. journal.expected # None => journal.expected.version \in DOMAIN versions
    BY <1>1, JournalIs
  <2>2. QED
    BY <2>1 DEF Grows, PriorOf
<1>3. /\ journal.plan = plan[holder] /\ DOMAIN built \subseteq DOMAIN journal.assign
      /\ pc = "check" => DOMAIN built = DOMAIN journal.assign
      /\ \A p \in DOMAIN built :
           /\ built[p] = BoundAs(PriorOf(journal.expected), journal.assign[p], built[p].data)
           /\ Seals(objvers, built[p])
  BY DEF ContentsInv, BuiltSound
<1>4. \A p \in DOMAIN built : Seals(objvers', built[p])
  BY <1>3 DEF Grows, Seals
<1>5. pc' = "check" => DOMAIN built = DOMAIN journal.assign
  BY <1>3 DEF Unread
<1>6. \A p \in DOMAIN built :
        built'[p] = BoundAs(PriorOf(journal.expected)', journal'.assign[p], built'[p].data)
  BY <1>2, <1>3
<1>7. QED
  BY <1>3, <1>4, <1>5, <1>6 DEF BuiltSound, BuildSteps

\* Before it has read anything, and after it has returned, a holder has built
\* nothing.
LEMMA NothingBuilt ==
  ASSUME DOMAIN built' = {}, pc' # "check",
         pc' = "build" => journal'.plan = plan'[holder']
  PROVE  BuiltSound'
BY DEF BuiltSound, BuildSteps

\* An entry that is read is bound as assigned, to sealed bytes.
LEMMA ReadEntrySound == HistoryInv /\ ContentsInv /\ ReadEntry => BuiltSound'
<1> SUFFICES ASSUME HistoryInv, ContentsInv, ReadEntry PROVE BuiltSound'
  OBVIOUS
<1>p. PICK p : p = NextEntry
  OBVIOUS
<1> DEFINE b == Bound(journal, p)
           a == journal.assign[p]
           prior == PriorOf(journal.expected)
           entry == journal.plan.entries[p]
           data == IF a.kind = "regular_file" THEN node[entry.ino].data ELSE None
<1>1. /\ pc = "build" /\ pc' = "build" /\ p \in Unread /\ Readable(p)
      /\ built' = Put(built, p, b) /\ objvers' = InstallObjectVersion(b)
      /\ UNCHANGED <<node, edits, versions, journal, plan, holder>>
  <2>1. Unread # {} => NextEntry \in Unread
    BY DEF NextEntry
  <2>2. QED
    BY <1>p, <2>1 DEF ReadEntry, Step, workspaceVars
<1>2. journal # None /\ DOMAIN journal.assign = DOMAIN journal.plan.entries
  BY <1>1 DEF HistoryInv, Known, TypeInv, CaptureKnown, JournalSteps
<1>3. /\ journal \in CaptureTransaction /\ journal.target \in Nat
      /\ PriorIs(prior, journal.target)
      /\ p \in DOMAIN journal.assign /\ p \in Paths
      /\ a \in CaptureAssignment /\ AssignedFrom(prior, journal, p)
  BY <1>1, <1>2, JournalIs DEF Unread
<1>4. b = BoundAs(prior, a, data) /\ b.data = data /\ b.kind = a.kind
  BY BoundFields DEF Bound
<1>5. Grows
  <2>1. [Next]_vars
    BY DEF Next, Core, SealStep
  <2>2. QED
    BY <2>1, NextGrows DEF HistoryInv, Known
<1> HIDE DEF b, a, data, entry, prior
<1>6. Seals(objvers', b)
  <2>1. CASE b.kind = "regular_file" /\ b.over = <<journal.target, p>>
    <3>1. b.over # None
      BY <1>3, <2>1, NoneIsNoRecord DEF Ids
    <3>2. b.over \in DOMAIN objvers => objvers[b.over] = b.data
      BY <1>1, <1>4, <2>1 DEF Readable, a, b
    <3>3. b.over \in DOMAIN objvers' /\ objvers'[b.over] = b.data
      BY <1>1, <3>1, <3>2 DEF InstallObjectVersion, Put
    <3>4. QED
      BY <2>1, <3>3 DEF Seals
  <2>2. CASE ~ (b.kind = "regular_file" /\ b.over = <<journal.target, p>>)
    <3>1. Seals(objvers, b)
      BY <1>3, <1>4, <2>2, BoundSealed DEF a
    <3>2. QED
      BY <1>5, <3>1 DEF Seals, Grows
  <2>3. QED
    BY <2>1, <2>2
<1>7. AsRead(p)'
  <2>1. built'[p].data = data
    BY <1>1, <1>4 DEF Put
  <2>2. CASE a.kind = "regular_file"
    <3>1. Fresh(p, entry)
      BY <1>1, <2>2 DEF Readable, a, entry
    <3>2. entry.ino \in Inodes
      <4>1. entry \in PlanEntry
        BY <1>2, <1>3, PartialFunctionsAre DEF CaptureTransaction, CapturePlan, entry
      <4>2. QED
        BY <4>1 DEF PlanEntry
    <3>3. entry.stamp <= edits /\ data = node[entry.ino].data
      BY <2>2, <3>1, <3>2 DEF Fresh, ContentsInv, FilesSound, data
    <3>4. QED
      BY <1>1, <2>1, <2>2, <3>3 DEF AsRead, a, entry
  <2>3. CASE a.kind # "regular_file"
    BY <1>1, <2>1, <2>3 DEF AsRead, a, data
  <2>4. QED
    BY <2>2, <2>3
<1>8. /\ journal.plan = plan[holder] /\ DOMAIN built \subseteq DOMAIN journal.assign
      /\ \A q \in DOMAIN built :
           /\ built[q] = BoundAs(prior, journal.assign[q], built[q].data)
           /\ Seals(objvers, built[q]) /\ AsRead(q)
  BY <1>1 DEF ContentsInv, BuiltSound, BuildSteps, prior
<1>9. p \notin DOMAIN built /\ DOMAIN built' = DOMAIN built \cup {p} /\ built'[p] = b
      /\ \A q \in DOMAIN built : built'[q] = built[q]
  BY <1>1 DEF Put, Unread
<1>10. \A q \in DOMAIN built' : Seals(objvers', built'[q])
  BY <1>5, <1>6, <1>8, <1>9 DEF Grows, Seals
<1>11. \A q \in DOMAIN built' : AsRead(q)'
  BY <1>1, <1>7, <1>8, <1>9 DEF AsRead
<1>12. \A q \in DOMAIN built' : built'[q] = BoundAs(prior, journal.assign[q], built'[q].data)
  BY <1>4, <1>8, <1>9 DEF a
<1>13. PriorOf(journal.expected)' = prior
  BY <1>1 DEF PriorOf, prior
<1>14. QED
  BY <1>1, <1>3, <1>8, <1>9, <1>10, <1>11, <1>12, <1>13 DEF BuiltSound, BuildSteps

\* A seal starts with nothing built, on the plan its journal was written for.
LEMMA CaptureStepBuilt ==
  ASSUME HistoryInv, ContentsInv, NEW p \in Procs, CaptureStep(p)
  PROVE  BuiltSound'
<1>0. TypeInv /\ BuiltSound /\ Grows
  <2>1. [Next]_vars
    BY DEF Next
  <2>2. QED
    BY <2>1, NextGrows DEF HistoryInv, Known, ContentsInv
<1>1. CASE PlanCapture(p)
  <2>1. /\ holder # p /\ plan' = [plan EXCEPT ![p] = CurrentPlan]
        /\ UNCHANGED <<journal, built, pc, holder, node, edits, versions, objvers>>
    BY <1>1 DEF PlanCapture, lock, workspaceVars, store
  <2>2. plan'[holder] = plan[holder]
    BY <1>0, <2>1 DEF TypeInv, Typed, VolatileTypeOK
  <2>3. CASE pc \in BuildSteps
    <3>1. \A q \in DOMAIN built : AsRead(q)'
      BY <1>0, <2>1, <2>3 DEF BuiltSound, AsRead
    <3>2. QED
      BY <1>0, <2>1, <2>2, <2>3, <3>1, KeptBuilt
  <2>4. CASE pc \notin BuildSteps
    BY <1>0, <2>1, <2>4 DEF BuiltSound, BuildSteps
  <2>5. QED
    BY <2>3, <2>4
<1>2. CASE SealRefused(p)
  <2>1. pc = "idle" /\ UNCHANGED <<built, pc>>
    BY <1>0, <1>2 DEF SealRefused, lock, TypeInv, Typed, LockTypeOK
  <2>2. QED
    BY <1>0, <2>1, NothingBuilt DEF BuiltSound
<1>3. CASE SealDropStale(p) \/ SealStart(p)
  <2>1. /\ pc = "idle" /\ UNCHANGED <<built, plan>> /\ holder' = p
        /\ pc' \in {"assign", "build", "recover_identities"}
        /\ pc' = "build" => journal' = journal /\ SealEntry(plan[p]) = "build"
    BY <1>0, <1>3 DEF SealDropStale, SealStart, Acquire, volatile, TypeInv, Typed, LockTypeOK
  <2>2. SealEntry(plan[p]) = "build" => journal.plan = plan[p]
    BY DEF SealEntry
  <2>3. QED
    BY <1>0, <2>1, <2>2, NothingBuilt DEF BuiltSound
<1>4. QED
  BY <1>1, <1>2, <1>3 DEF CaptureStep

\* The holder's steps build for the journal they write and read.
LEMMA SealStepBuilt == HistoryInv /\ ContentsInv /\ SealStep => BuiltSound'
<1> SUFFICES ASSUME HistoryInv, ContentsInv, SealStep PROVE BuiltSound'
  OBVIOUS
<1>0. BuiltSound /\ Grows
  <2>1. [Next]_vars
    BY DEF Next, Core
  <2>2. QED
    BY <2>1, NextGrows DEF HistoryInv, Known, ContentsInv
<1>1. CASE WriteCaptureIdentities \/ RecoverCleanup
  BY <1>0, <1>1 DEF WriteCaptureIdentities, RecoverCleanup, Step, volatile, BuiltSound, BuildSteps
<1>2. CASE SealAssign
  <2>1. /\ pc = "assign" /\ pc' = "build" /\ UNCHANGED <<built, plan, holder>>
        /\ journal'.plan = plan[holder]
    BY <1>2 DEF SealAssign, Step, volatile, NewTransaction, held
  <2>2. QED
    BY <1>0, <2>1, NothingBuilt DEF BuiltSound
<1>3. CASE SealNothing \/ RemoveJournal \/ SealFails
  <2>1. DOMAIN built' = {} /\ pc' = "idle"
    BY <1>3 DEF SealNothing, RemoveJournal, SealFails, Return, EmptyFunction
  <2>2. QED
    BY <2>1, NothingBuilt
<1>4. CASE InstallVersion
  <2>1. /\ pc = "build" /\ pc' = "check" /\ Unread = {}
        /\ UNCHANGED <<journal, built, plan, holder, node, edits>>
    BY <1>4 DEF InstallVersion, Step, volatile, workspaceVars
  <2>2. \A q \in DOMAIN built : AsRead(q)'
    BY <1>0, <2>1 DEF BuiltSound, BuildSteps, AsRead
  <2>3. QED
    BY <1>0, <2>1, <2>2, KeptBuilt DEF BuildSteps
<1>5. CASE FinalPlanCheck \/ MoveHead
  BY <1>5 DEF FinalPlanCheck, MoveHead, Step, BuiltSound, BuildSteps
<1>6. QED
  BY <1>1, <1>2, <1>3, <1>4, <1>5, ReadEntrySound DEF SealStep

\* A restore builds nothing for a capture.
LEMMA RestoreStepBuilt ==
  RestoreStep \/ (\E p \in Procs : RestoreCall(p)) => BuiltSound'
<1>1. ASSUME pc' \in RestoreSteps PROVE BuiltSound'
  BY <1>1 DEF RestoreSteps, BuiltSound, BuildSteps
<1>2. CASE \E p \in Procs : RestoreCall(p)
  BY <1>1, <1>2 DEF RestoreCall, RestoreAdmit, RestoreResume, RestoreRecover, Acquire, RestoreSteps
<1>3. CASE RestoreRefused \/ RetireReceipt \/ RestoreStaysPending
  <2>1. DOMAIN built' = {} /\ pc' = "idle"
    BY <1>3 DEF RestoreRefused, RetireReceipt, RestoreStaysPending, Return, EmptyFunction
  <2>2. QED
    BY <2>1, NothingBuilt
<1>4. CASE RestoreStep /\ ~ (RestoreRefused \/ RetireReceipt \/ RestoreStaysPending)
  BY <1>1, <1>4 DEF RestoreStep, RebindHead, WriteRestoreJournal, CreateStage, CopyStage,
     ReuseStage, Publish, InstallTarget, CommitHead, VerifyPublication, Project, RestoreFails,
     RollbackHead, WriteCommittedReceipt, RetireModified, RetainFindsEdit, RetainAuthority,
     WriteAuthority, RetireIntent, Step, RestoreSteps
<1>5. QED
  BY <1>2, <1>3, <1>4

\* What is built is sound, whoever changes the files it was read from.
LEMMA NextBuiltSound == HistoryInv /\ ContentsInv /\ [Next]_vars => BuiltSound'
<1> SUFFICES ASSUME HistoryInv, ContentsInv, [Next]_vars PROVE BuiltSound'
  OBVIOUS
<1>0. BuiltSound /\ Grows
  BY NextGrows DEF HistoryInv, Known, ContentsInv
<1>1. CASE User \/ UNCHANGED vars
  <2>1. UNCHANGED <<journal, built, plan, holder, pc, versions>>
    BY <1>1 DEF User, vars, localVars, volatile, lock, store
  <2>2. CASE pc \in BuildSteps
    <3>1. \A p \in DOMAIN built : AsRead(p)'
      <4>1. CASE User
        BY <2>2, <4>1, UserKeepsAsRead
      <4>2. CASE UNCHANGED vars
        BY <1>0, <2>2, <4>2 DEF vars, workspaceVars, localVars, volatile, BuiltSound, AsRead
      <4>3. QED
        BY <1>1, <4>1, <4>2
    <3>2. QED
      BY <1>0, <2>1, <2>2, <3>1, KeptBuilt
  <2>3. CASE pc \notin BuildSteps
    BY <1>0, <2>1, <2>3 DEF BuiltSound, BuildSteps
  <2>4. QED
    BY <2>2, <2>3
<1>2. CASE Crash
  <2>1. DOMAIN built' = {} /\ pc' = "idle"
    BY <1>2 DEF Crash, Return, EmptyFunction
  <2>2. QED
    BY <2>1, NothingBuilt
<1>3. QED
  BY <1>1, <1>2, CaptureStepBuilt, SealStepBuilt, RestoreStepBuilt DEF Next, Core

-----------------------------------------------------------------------------
(* The theorems.                                                           *)

\* An empty store is sound.
LEMMA InitSound == Init => ContentsInv
<1> SUFFICES ASSUME Init PROVE ContentsInv
  OBVIOUS
<1>1. HistorySound /\ JournalSound /\ RestoreSound /\ BuiltSound
  BY DEF Init, NoEntries, HistorySound, JournalSound, RestoreSound, BuiltSound, BuildSteps
<1>2. FilesSound /\ PlansSound
  BY WorkspaceAssumption DEF Init, NoEntries, WorkspaceInit, FilesSound, PlansSound
<1>3. QED
  BY <1>1, <1>2 DEF ContentsInv

\* Every reachable state's history, journals and readings are sound.
THEOREM ContentsInvariance == Spec => [](HistoryInv /\ ContentsInv)
<1>1. HistoryInv /\ ContentsInv /\ [Next]_vars => ContentsInv'
  BY NextHistorySound, NextJournalSound, NextRestoreSound, NextFilesSound, NextPlansSound,
     NextBuiltSound DEF HistoryInv, Known, ContentsInv
<1>2. QED
  BY <1>1, InitSound, HistoryInvariance, PTL DEF Spec

\* Whatever step a capture or a restore died at, the Head names an installed
\* version and every installed version is valid, stands on installed parents and
\* binds only bytes that an installed Object Version seals.
THEOREM HeadAlwaysComplete == Spec => []HeadComplete
<1>1. HistoryInv /\ ContentsInv => HeadComplete
  <2> SUFFICES ASSUME HistoryInv, ContentsInv PROVE HeadComplete
    OBVIOUS
  <2>1. head # None => head.version \in DOMAIN versions
    BY DEF HistoryInv, Known, TypeInv, HeadInstalled
  <2>2. ASSUME NEW id \in DOMAIN versions
        PROVE  /\ Valid(versions[id])
               /\ versions[id].parents \subseteq DOMAIN versions \ {id}
               /\ \A p \in DOMAIN versions[id].bindings : Seals(objvers, versions[id].bindings[p])
    <3>1. id \in Nat /\ Sound(versions, objvers, id, versions[id])
      BY InstalledIs DEF HistoryInv, Known, ContentsInv
    <3>2. QED
      BY <3>1 DEF Sound
  <2>3. QED
    BY <2>1, <2>2 DEF HeadComplete, Seals
<1>2. QED
  BY <1>1, ContentsInvariance, PTL

\* Parent and child of an edge continue each other.
LEMMA EdgesContinue ==
  ASSUME ContentsInv, NEW e \in Edges
  PROVE  Continues(versions[e[1]], versions[e[2]])
BY DEF Edges, ContentsInv, HistorySound, Sound

\* Nothing that a version binds is missing from a child without a Tombstone that
\* names its last Object Version: no capture or restore drops an Object silently.
THEOREM NothingEverVanishes == Spec => []NothingVanishes
<1>1. ContentsInv => NothingVanishes
  BY EdgesContinue DEF NothingVanishes, Continues
<1>2. QED
  BY <1>1, ContentsInvariance, PTL

\* A path that keeps its kind keeps its Object from parent to child, and its
\* Object Version while its bytes are the same.
THEOREM PathsContinue == Spec => []PathContinuity
<1>1. ContentsInv => PathContinuity
  BY EdgesContinue DEF PathContinuity, Continues
<1>2. QED
  BY <1>1, ContentsInvariance, PTL

\* A capture whose plan hides a path never deletes the Object bound there, unless
\* its recorded file showed at another path.
THEOREM HiddenIsNeverDeleted == Spec => []HiddenIsNotDeleted
<1>1. ContentsInv => HiddenIsNotDeleted
  BY DEF ContentsInv, JournalSound, HiddenIsNotDeleted
<1>2. QED
  BY <1>1, ContentsInvariance, PTL

\* What a pending restore will publish are the bytes that the Tombstone's last
\* Object Version sealed.
THEOREM SealedBytesAreRestored == Spec => []RestoresSealedBytes
<1>1. ContentsInv => RestoresSealedBytes
  <2> SUFFICES ASSUME ContentsInv, active # None
               PROVE  /\ Tombstone(active.binding) = active.tomb
                      /\ active.tomb.over \in DOMAIN objvers
                      /\ objvers[active.tomb.over] = active.binding.data
    BY DEF RestoresSealedBytes
  <2>1. /\ Tombstone(active.binding) = active.tomb
        /\ active.binding.kind = "regular_file" /\ Seals(objvers, active.binding)
    BY DEF ContentsInv, RestoreSound
  <2>2. active.tomb.over = active.binding.over
    BY <2>1 DEF Tombstone
  <2>3. QED
    BY <2>1, <2>2 DEF Seals
<1>2. QED
  BY <1>1, ContentsInvariance, PTL

\* The step that SealedAsObserved allows.
SealsWhatIsThere ==
  pc = "check" /\ pc' = "cas" =>
    /\ DOMAIN built = {p \in Paths : Live(p) /\ p \notin ignored /\ ~ Excluded(p)}
    /\ \A p \in DOMAIN built :
         /\ built[p].kind = node[dir[p]].kind
         /\ built[p].data = node[dir[p]].data

\* The last look at the workspace leaves exactly what was read.
LEMMA NextSealsWhatIsThere == HistoryInv /\ ContentsInv /\ [Next]_vars => SealsWhatIsThere
<1> SUFFICES ASSUME HistoryInv, ContentsInv, [Next]_vars, pc = "check", pc' = "cas"
             PROVE  /\ DOMAIN built = {p \in Paths : Live(p) /\ p \notin ignored /\ ~ Excluded(p)}
                    /\ \A p \in DOMAIN built : /\ built[p].kind = node[dir[p]].kind
                                               /\ built[p].data = node[dir[p]].data
  BY DEF SealsWhatIsThere
<1>1. FinalPlanCheck
  <2>1. ~ (User \/ Crash \/ UNCHANGED vars)
    BY DEF User, Crash, Return, vars, localVars, lock
  <2>2. ~ \E p \in Procs : CaptureStep(p) \/ RestoreCall(p)
    BY DEF CaptureStep, PlanCapture, SealRefused, SealDropStale, SealStart, RestoreCall,
       RestoreAdmit, RestoreResume, RestoreRecover, Acquire, lock, HistoryInv, Known, TypeInv,
       Typed, LockTypeOK
  <2>3. ~ RestoreStep
    BY DEF RestoreStep, RebindHead, WriteRestoreJournal, RestoreRefused, CreateStage, CopyStage,
       ReuseStage, Publish, InstallTarget, CommitHead, VerifyPublication, Project, RestoreFails,
       RollbackHead, WriteCommittedReceipt, RetireModified, RetainFindsEdit, RetainAuthority,
       WriteAuthority, RetireIntent, RetireReceipt, RestoreStaysPending, Step, Return
  <2>4. SealStep
    BY <2>1, <2>2, <2>3 DEF Next, Core
  <2>5. QED
    BY <2>4 DEF SealStep, WriteCaptureIdentities, RecoverCleanup, SealAssign, SealNothing,
       ReadEntry, InstallVersion, MoveHead, RemoveJournal, SealFails, Step, Return
<1>2. /\ journal # None /\ DOMAIN journal.assign = DOMAIN journal.plan.entries
      /\ journal.plan = CurrentPlan
      /\ DOMAIN built = DOMAIN journal.assign
      /\ \A p \in DOMAIN built :
           /\ built[p] = BoundAs(PriorOf(journal.expected), journal.assign[p], built[p].data)
           /\ AsRead(p)
  BY <1>1 DEF FinalPlanCheck, held, HistoryInv, Known, TypeInv, CaptureKnown, JournalSteps,
     ContentsInv, BuiltSound, BuildSteps
<1>3. /\ DOMAIN journal.plan.entries = {p \in Paths : Live(p) /\ p \notin ignored /\ ~ Excluded(p)}
      /\ \A p \in DOMAIN journal.plan.entries :
           /\ Live(p) /\ p \in Paths
           /\ journal.plan.entries[p].ino = dir[p]
           /\ journal.plan.entries[p].stamp = node[dir[p]].stamp
           /\ journal.plan.entries[p].kind = node[dir[p]].kind
  BY <1>2 DEF CurrentPlan, Observation
<1>4. ASSUME NEW p \in DOMAIN built
      PROVE  built[p].kind = node[dir[p]].kind /\ built[p].data = node[dir[p]].data
  <2>1. dir[p] \in Inodes /\ node[dir[p]].kind \in Kinds
    BY <1>2, <1>3 DEF HistoryInv, Known, TypeInv, Typed, WorkspaceTypeOK, Live, File
  <2>2. journal.assign[p].kind = journal.plan.entries[p].kind
    BY <1>2, JournalIs DEF AssignedFrom
  <2>3. built[p].kind = node[dir[p]].kind
    BY <1>2, <1>3, <2>2, BoundFields
  <2>4. /\ AsRead(p) /\ journal.assign[p].kind = node[dir[p]].kind
        /\ journal.plan.entries[p].ino = dir[p]
        /\ journal.plan.entries[p].stamp = node[dir[p]].stamp
    BY <1>2, <1>3, <2>2
  <2>5. CASE node[dir[p]].kind = "regular_file"
    BY <2>3, <2>4, <2>5 DEF AsRead
  <2>6. CASE node[dir[p]].kind = "directory"
    <3>1. node[dir[p]].data = None
      BY <2>1, <2>6 DEF ContentsInv, FilesSound
    <3>2. QED
      BY <2>3, <2>4, <2>6, <3>1 DEF AsRead
  <2>7. QED
    BY <2>1, <2>5, <2>6 DEF Kinds
<1>5. QED
  BY <1>2, <1>3, <1>4

\* The version a capture puts under the Head binds exactly what the workspace
\* shows when it is last observed, to the bytes it holds then, whatever changed
\* while its entries were read.
THEOREM SealsAsObserved == Spec => SealedAsObserved
<1>1. Spec => [][SealsWhatIsThere]_vars
  BY ContentsInvariance, NextSealsWhatIsThere, PTL DEF Spec
<1>2. QED
  BY <1>1, PTL DEF SealedAsObserved, SealsWhatIsThere

-----------------------------------------------------------------------------
(* Ancestry.                                                               *)

\* Induction on the naturals, said of a set.
LEMMA SmallerFirst ==
  ASSUME NEW T, T \subseteq Nat,
         \A n \in Nat : (\A m \in Nat : m < n => m \in T) => n \in T
  PROVE  T = Nat
<1> DEFINE R == OpToRel(<, Nat)
<1>1. IsWellFoundedOn(R, Nat)
  BY NatLessThanWellFounded, Zenon
<1>2. \A m, n \in Nat : <<m, n>> \in R <=> m < n
  BY DEF OpToRel
<1> HIDE DEF R
<1>3. SUFFICES ASSUME Nat \ T # {} PROVE FALSE
  OBVIOUS
<1>4. PICK n \in Nat \ T : \A m \in Nat \ T : ~ (<<m, n>> \in R)
  BY <1>1, <1>3, WFMin
<1>5. \A m \in Nat : m < n => m \in T
  BY <1>2, <1>4
<1> QED
  BY <1>4, <1>5

\* Parents are installed and have smaller numbers.
ParentsFirst(history) ==
  /\ DOMAIN history \subseteq Nat
  /\ \A n \in DOMAIN history : \A m \in history[n].parents : m \in DOMAIN history /\ m < n

\* The lineage of a version is the version itself and the lineages of its parents.
LEMMA LineageIs ==
  ASSUME NEW h, ParentsFirst(h), NEW n \in DOMAIN h
  PROVE  Lineage(h, n) = {n} \cup UNION {Lineage(h, m) : m \in h[n].parents}
<1> DEFINE D == DOMAIN h
           Closed(S) == \A x \in S : h[x].parents \subseteq S
           From(k) == {a \in D : \A S \in SUBSET D : k \in S /\ Closed(S) => a \in S}
           Up(f, k) == IF k \in DOMAIN h
                       THEN {k} \cup UNION {f[m] : m \in {j \in h[k].parents : j < k}}
                       ELSE {}
           w == [k \in Nat |-> IF k \in D THEN From(k) ELSE {}]
           Solves(f) == f = [k \in Nat |-> Up(f, k)]
           reach == CHOOSE f : Solves(f)
<1>1. ASSUME NEW k \in D
      PROVE  From(k) = {k} \cup UNION {From(m) : m \in h[k].parents}
  <2>0. \A x \in D : h[x].parents \subseteq D
    BY DEF ParentsFirst
  <2>1. \A x \in D : From(x) \subseteq D /\ x \in From(x)
    OBVIOUS
  <2>2. ASSUME NEW x \in D, NEW y \in h[x].parents PROVE From(y) \subseteq From(x)
    <3>1. SUFFICES ASSUME NEW a \in From(y), NEW S \in SUBSET D, x \in S, Closed(S) PROVE a \in S
      OBVIOUS
    <3>2. y \in S
      BY <3>1, <2>2
    <3> QED BY <3>1, <3>2
  <2>3. {k} \cup UNION {From(m) : m \in h[k].parents} \subseteq From(k)
    <3> HIDE DEF From
    <3> QED BY <2>1, <2>2
  <2> DEFINE S == {k} \cup UNION {From(m) : m \in h[k].parents}
  <2>4. ASSUME NEW m \in D PROVE Closed(From(m))
    <3>1. SUFFICES ASSUME NEW x \in From(m), NEW y \in h[x].parents PROVE y \in From(m)
      OBVIOUS
    <3>2. y \in D
      BY <2>0, <3>1
    <3>3. SUFFICES ASSUME NEW Z \in SUBSET D, m \in Z, Closed(Z) PROVE y \in Z
      BY <3>2
    <3>4. x \in Z
      BY <3>1, <3>3
    <3> QED BY <3>1, <3>3, <3>4
  <2>5. S \subseteq D /\ k \in S
    <3> HIDE DEF From
    <3> QED BY <2>0, <2>1
  <2>6. Closed(S)
    <3>1. SUFFICES ASSUME NEW x \in S, NEW y \in h[x].parents PROVE y \in S
      OBVIOUS
    <3>2. CASE x = k
      <4>1. y \in D /\ y \in h[k].parents
        BY <2>0, <3>1, <3>2
      <4> HIDE DEF From
      <4> QED BY <4>1, <2>1
    <3>3. CASE x # k
      <4> HIDE DEF From
      <4>1. PICK m \in h[k].parents : x \in From(m)
        BY <3>1, <3>3
      <4>2. m \in D
        BY <2>0
      <4>3. Closed(From(m))
        BY <2>4, <4>2
      <4>4. y \in From(m)
        BY <4>1, <4>3
      <4> QED BY <4>1, <4>4
    <3> QED BY <3>2, <3>3
  <2>7. From(k) \subseteq S
    <3>1. SUFFICES ASSUME NEW a \in From(k) PROVE a \in S
      OBVIOUS
    <3> HIDE DEF S
    <3> QED BY <2>5, <2>6
  <2> QED
    <3> HIDE DEF From
    <3> QED BY <2>3, <2>7
<1>2. Solves(w)
  <2>1. ASSUME NEW k \in Nat PROVE w[k] = Up(w, k)
    <3>1. CASE k \in D
      <4>1. {j \in h[k].parents : j < k} = h[k].parents
        BY <3>1 DEF ParentsFirst
      <4>2. \A m \in h[k].parents : w[m] = From(m)
        <5> HIDE DEF From
        <5> QED BY <3>1 DEF ParentsFirst
      <4>3. w[k] = From(k)
        <5> HIDE DEF From
        <5> QED BY <3>1
      <4> HIDE DEF w, From
      <4> QED BY <1>1, <3>1, <4>1, <4>2, <4>3
    <3>2. CASE k \notin D
      BY <3>2
    <3> QED BY <3>1, <3>2
  <2>2. w = [k \in Nat |-> w[k]]
    OBVIOUS
  <2> HIDE DEF w, Up
  <2> QED BY <2>1, <2>2
<1>3. \E f : Solves(f)
  <2> HIDE DEF Solves, w
  <2> QED BY <1>2
<1>4. Solves(reach)
  <2> HIDE DEF Solves
  <2> QED BY <1>3, Zenon
<1>5. \A k : Lineage(h, k) = reach[k]
  BY DEF Lineage
<1>6. n \in Nat
  BY DEF ParentsFirst
<1> HIDE DEF reach
<1>7. reach[n] = {n} \cup UNION {reach[m] : m \in {j \in h[n].parents : j < n}}
  BY <1>4, <1>6
<1>8. {j \in h[n].parents : j < n} = h[n].parents
  BY DEF ParentsFirst
<1> QED BY <1>5, <1>7, <1>8

\* It holds installed versions only, the version and older ones.
LEMMA LineageIsOlder ==
  ASSUME NEW h, ParentsFirst(h)
  PROVE  \A n \in DOMAIN h : /\ n \in Lineage(h, n) /\ Lineage(h, n) \subseteq DOMAIN h
                             /\ \A a \in Lineage(h, n) : a <= n
<1> DEFINE Older(n) == /\ n \in Lineage(h, n) /\ Lineage(h, n) \subseteq DOMAIN h
                       /\ \A a \in Lineage(h, n) : a <= n
           T == {n \in Nat : n \in DOMAIN h => Older(n)}
<1>1. DOMAIN h \subseteq Nat
  BY DEF ParentsFirst
<1>2. ASSUME NEW n \in Nat, \A m \in Nat : m < n => m \in T PROVE n \in T
  <2> SUFFICES ASSUME n \in DOMAIN h PROVE Older(n)
    OBVIOUS
  <2>1. Lineage(h, n) = {n} \cup UNION {Lineage(h, m) : m \in h[n].parents}
    BY LineageIs
  <2>2. \A m \in h[n].parents : m \in DOMAIN h /\ m \in Nat /\ m < n
    BY <1>1 DEF ParentsFirst
  <2>3. \A m \in h[n].parents : \A a \in Lineage(h, m) : a \in DOMAIN h /\ a \in Nat /\ a <= n
    BY <1>1, <1>2, <2>2
  <2> QED BY <2>1, <2>3
<1>3. T = Nat
  <2>1. T \subseteq Nat
    OBVIOUS
  <2> HIDE DEF T
  <2> QED BY <1>2, <2>1, SmallerFirst
<1> QED BY <1>1, <1>3

OneParentEach(history) ==
  \A n \in DOMAIN history : \A a, b \in history[n].parents : a = b

\* Of two ancestors on one line the older is an ancestor of the younger.
LEMMA LineageIsALine ==
  ASSUME NEW h, ParentsFirst(h), OneParentEach(h)
  PROVE  \A n \in DOMAIN h : \A a, b \in Lineage(h, n) : a <= b => a \in Lineage(h, b)
<1> DEFINE Line(n) == \A a, b \in Lineage(h, n) : a <= b => a \in Lineage(h, b)
           T == {n \in Nat : n \in DOMAIN h => Line(n)}
<1>1. DOMAIN h \subseteq Nat
  BY DEF ParentsFirst
<1>2. ASSUME NEW n \in Nat, \A m \in Nat : m < n => m \in T PROVE n \in T
  <2> SUFFICES ASSUME n \in DOMAIN h, NEW a \in Lineage(h, n), NEW b \in Lineage(h, n), a <= b
               PROVE  a \in Lineage(h, b)
    OBVIOUS
  <2>1. Lineage(h, n) = {n} \cup UNION {Lineage(h, m) : m \in h[n].parents}
    BY LineageIs
  <2>2. CASE b = n
    BY <2>2
  <2>3. CASE b # n
    <3>1. PICK m \in h[n].parents : b \in Lineage(h, m)
      BY <2>1, <2>3
    <3>2. m \in DOMAIN h /\ m \in Nat /\ m < n
      BY <1>1 DEF ParentsFirst
    <3>3. b <= m /\ b \in Nat /\ a \in Nat
      BY <1>1, <3>1, <3>2, LineageIsOlder
    <3>4. a # n
      BY <3>2, <3>3
    <3>5. PICK k \in h[n].parents : a \in Lineage(h, k)
      BY <2>1, <3>4
    <3>6. k = m
      BY DEF OneParentEach
    <3> QED BY <1>2, <3>1, <3>2, <3>5, <3>6
  <2> QED BY <2>2, <2>3
<1>3. T = Nat
  <2>1. T \subseteq Nat
    OBVIOUS
  <2> HIDE DEF T
  <2> QED BY <1>2, <2>1, SmallerFirst
<1> QED BY <1>1, <1>3

\* A history that grows keeps the lineages of what it has.
LEMMA LineageKept ==
  ASSUME NEW h, NEW g, ParentsFirst(h), ParentsFirst(g),
         DOMAIN h \subseteq DOMAIN g, \A n \in DOMAIN h : g[n] = h[n]
  PROVE  \A n \in DOMAIN h : Lineage(g, n) = Lineage(h, n)
<1> DEFINE T == {n \in Nat : n \in DOMAIN h => Lineage(g, n) = Lineage(h, n)}
<1>1. DOMAIN h \subseteq Nat
  BY DEF ParentsFirst
<1>2. ASSUME NEW n \in Nat, \A m \in Nat : m < n => m \in T PROVE n \in T
  <2> SUFFICES ASSUME n \in DOMAIN h PROVE Lineage(g, n) = Lineage(h, n)
    OBVIOUS
  <2>1. Lineage(h, n) = {n} \cup UNION {Lineage(h, m) : m \in h[n].parents}
    BY LineageIs
  <2>2. Lineage(g, n) = {n} \cup UNION {Lineage(g, m) : m \in h[n].parents}
    BY LineageIs
  <2>3. \A m \in h[n].parents : Lineage(g, m) = Lineage(h, m)
    BY <1>1, <1>2 DEF ParentsFirst
  <2> QED BY <2>1, <2>2, <2>3
<1>3. T = Nat
  <2>1. T \subseteq Nat
    OBVIOUS
  <2> HIDE DEF T
  <2> QED BY <1>2, <2>1, SmallerFirst
<1> QED BY <1>1, <1>3

\* If there are candidates, one of them is the youngest.
LEMMA SomeIsNearest ==
  ASSUME NEW h, ParentsFirst(h), NEW id \in DOMAIN h, NEW p, NEW t,
         RestoreCandidates(h, id, p, t) # {}
  PROVE  RestoreSource(h, id, p, t) # {}
<1> DEFINE C == RestoreCandidates(h, id, p, t)
           Far(n) == \E a \in C : a + n = id
           T == {n \in Nat : ~ Far(n)}
<1>1. C # {} /\ \A a \in C : a \in Nat /\ a <= id
  BY LineageIsOlder DEF RestoreCandidates, ParentsFirst
<1>2. id \in Nat
  BY DEF ParentsFirst
<1>3. RestoreSource(h, id, p, t) = {a \in C : \A b \in C : b <= a}
  BY DEF RestoreSource
<1> HIDE DEF C
<1>4. PICK n \in Nat : Far(n) /\ \A m \in Nat : m < n => ~ Far(m)
  <2>1. PICK a \in C : TRUE
    BY <1>1
  <2>2. id - a \in Nat /\ a + (id - a) = id
    BY <1>1, <1>2
  <2>3. T # Nat /\ T \subseteq Nat
    BY <2>2
  <2>4. \A n : n \in T <=> n \in Nat /\ ~ Far(n)
    OBVIOUS
  <2> HIDE DEF T, Far
  <2>5. ~ \A n \in Nat : (\A m \in Nat : m < n => m \in T) => n \in T
    BY <2>3, SmallerFirst
  <2> QED BY <2>4, <2>5
<1>5. PICK a \in C : a + n = id
  BY <1>4
<1>6. ASSUME NEW b \in C PROVE b <= a
  <2>1. b \in Nat /\ b <= id /\ a \in Nat
    BY <1>1
  <2>2. CASE a < b
    <3>1. id - b \in Nat /\ id - b < n /\ b + (id - b) = id
      BY <1>2, <1>5, <2>1, <2>2
    <3> QED BY <1>4, <3>1
  <2> QED BY <2>1, <2>2
<1> QED BY <1>3, <1>5, <1>6

-----------------------------------------------------------------------------
(* The line.                                                               *)

\* Along one line of parents, every Tombstone records a binding of an ancestor.
Traceable(history) ==
  /\ OneParentEach(history)
  /\ \A id \in DOMAIN history : \A p \in DOMAIN history[id].tombstones :
       RestoreCandidates(history, id, p, history[id].tombstones[p]) # {}

\* The Tombstones of version v are its parent's or record what the parent binds.
TakesFrom(history, v) ==
  /\ \A a, b \in v.parents : a = b
  /\ \A p \in DOMAIN v.tombstones : \E m \in v.parents :
       \/ p \in DOMAIN history[m].bindings /\ Tombstone(history[m].bindings[p]) = v.tombstones[p]
       \/ p \in DOMAIN history[m].tombstones /\ history[m].tombstones[p] = v.tombstones[p]

LEMMA GrowsTraceable ==
  ASSUME NEW h, NEW g, ParentsFirst(h), ParentsFirst(g), Traceable(h),
         NEW n, NEW v, n \notin DOMAIN h, DOMAIN g = DOMAIN h \cup {n}, g[n] = v,
         \A m \in DOMAIN h : g[m] = h[m], v.parents \subseteq DOMAIN h, TakesFrom(h, v)
  PROVE  Traceable(g)
<1>1. OneParentEach(g)
  BY DEF Traceable, OneParentEach, TakesFrom
<1>2. \A m \in DOMAIN h : Lineage(g, m) = Lineage(h, m)
  BY LineageKept
<1>3. ASSUME NEW m \in DOMAIN h, NEW p, NEW t
      PROVE  RestoreCandidates(h, m, p, t) \subseteq RestoreCandidates(g, m, p, t)
  BY <1>2 DEF RestoreCandidates
<1>4. ASSUME NEW p \in DOMAIN v.tombstones
      PROVE  RestoreCandidates(g, n, p, v.tombstones[p]) # {}
  <2> DEFINE t == v.tombstones[p]
  <2>1. PICK m \in v.parents :
          \/ p \in DOMAIN h[m].bindings /\ Tombstone(h[m].bindings[p]) = t
          \/ p \in DOMAIN h[m].tombstones /\ h[m].tombstones[p] = t
    BY DEF TakesFrom
  <2>2. m \in DOMAIN h /\ g[m] = h[m] /\ m # n
    OBVIOUS
  <2>3. Lineage(g, m) \subseteq Lineage(g, n)
    <3>1. Lineage(g, n) = {n} \cup UNION {Lineage(g, k) : k \in v.parents}
      BY LineageIs
    <3> QED BY <3>1
  <2>4. m \in Lineage(g, n)
    BY <2>2, <2>3, LineageIsOlder
  <2>5. CASE p \in DOMAIN h[m].bindings /\ Tombstone(h[m].bindings[p]) = t
    BY <2>2, <2>4, <2>5 DEF RestoreCandidates
  <2>6. CASE p \in DOMAIN h[m].tombstones /\ h[m].tombstones[p] = t
    <3>1. PICK a : a \in RestoreCandidates(h, m, p, t)
      BY <2>2, <2>6 DEF Traceable
    <3>2. a \in RestoreCandidates(g, m, p, t) /\ a \in DOMAIN h
      BY <1>3, <2>2, <3>1 DEF RestoreCandidates
    <3> QED BY <2>3, <3>2 DEF RestoreCandidates
  <2> QED BY <2>1, <2>5, <2>6
<1>5. ASSUME NEW id \in DOMAIN g, NEW p \in DOMAIN g[id].tombstones
      PROVE  RestoreCandidates(g, id, p, g[id].tombstones[p]) # {}
  <2>1. CASE id = n
    BY <1>4, <2>1
  <2>2. CASE id \in DOMAIN h
    BY <1>3, <2>2 DEF Traceable
  <2> QED BY <2>1, <2>2
<1> QED BY <1>1, <1>5 DEF Traceable

\* What a capture or a restore installs has one parent at most, and takes its
\* Tombstones from it.
LEMMA CapturedTakes ==
  ASSUME HistoryInv, ContentsInv, journal # None
  PROVE  TakesFrom(versions, VersionOf(journal, built))
<1> DEFINE prior == PriorOf(journal.expected)
           w == VersionOf(journal, built)
<1>1. w.parents = ParentsOf(journal.expected) /\ w.tombstones = TargetTombstones(prior, journal.assign)
  BY DEF VersionOf, ContentsInv, JournalSound
<1>2. \A a, b \in w.parents : a = b
  BY <1>1 DEF ParentsOf
<1>3. ASSUME NEW p \in DOMAIN w.tombstones
      PROVE  \E m \in w.parents :
               \/ p \in DOMAIN versions[m].bindings
                  /\ Tombstone(versions[m].bindings[p]) = w.tombstones[p]
               \/ p \in DOMAIN versions[m].tombstones /\ versions[m].tombstones[p] = w.tombstones[p]
  <2>1. \/ p \in DOMAIN prior.bindings /\ w.tombstones[p] = Tombstone(prior.bindings[p])
        \/ p \in DOMAIN prior.tombstones /\ w.tombstones[p] = prior.tombstones[p]
    BY <1>1 DEF TargetTombstones, Discontinued
  <2>2. journal.expected # None
    BY <2>1 DEF PriorOf, EmptyVersion, EmptyFunction
  <2> QED BY <1>1, <2>1, <2>2 DEF ParentsOf, PriorOf
<1> HIDE DEF w
<1> QED BY <1>2, <1>3 DEF TakesFrom, w

LEMMA RestoredTakes == TakesFrom(versions, TargetVersion(active))
BY DEF TakesFrom, TargetVersion, RestoredVersion

LEMMA HistoryHasParentsFirst == TypeInv /\ HistorySound => ParentsFirst(versions)
BY DEF TypeInv, Typed, StoreTypeOK, HistorySound, Sound, ParentsFirst

LEMMA NextTraceable ==
  ASSUME HistoryInv, ContentsInv, Traceable(versions), [Next]_vars, HistoryInv', ContentsInv'
  PROVE  Traceable(versions')
<1>1. ParentsFirst(versions) /\ ParentsFirst(versions')
  BY DEF HistoryInv, Known, ContentsInv, TypeInv, Typed, StoreTypeOK, HistorySound, Sound,
     ParentsFirst
<1>2. versions \in [DOMAIN versions -> Version]
  BY DEF HistoryInv, Known, TypeInv, Typed, StoreTypeOK
<1>3. ASSUME NEW n, NEW v, Installable(versions, n, v), versions' = Put(versions, n, v),
             v.parents \subseteq DOMAIN versions, TakesFrom(versions, v)
      PROVE  Traceable(versions')
  <2>1. /\ DOMAIN versions' = DOMAIN versions \cup {n} /\ versions'[n] = v
        /\ \A m \in DOMAIN versions : versions'[m] = versions[m]
        /\ n \in DOMAIN versions => versions' = versions
    <3>1. /\ DOMAIN Put(versions, n, v) = DOMAIN versions \cup {n}
          /\ \A m \in DOMAIN versions : Put(versions, n, v)[m] = versions[m]
          /\ Put(versions, n, v)[n] = v
          /\ n \in DOMAIN versions => Put(versions, n, v) = versions
      BY <1>2, <1>3, InstallAppends
    <3> QED BY <1>3, <3>1
  <2>2. CASE n \in DOMAIN versions
    BY <2>1, <2>2
  <2>3. CASE n \notin DOMAIN versions
    BY <1>1, <1>3, <2>1, <2>3, GrowsTraceable
  <2> QED BY <2>2, <2>3
<1>4. CASE InstallVersion
  <2>1. /\ pc = "build" /\ Unread = {}
        /\ Installable(versions, journal.target, VersionOf(journal, built))
        /\ versions' = Put(versions, journal.target, VersionOf(journal, built))
    BY <1>4 DEF InstallVersion, Step
  <2>2. journal # None
    BY <2>1 DEF HistoryInv, Known, TypeInv, CaptureKnown, JournalSteps
  <2>3. VersionOf(journal, built).parents \subseteq DOMAIN versions
    BY <2>1, CapturedSound DEF Sound
  <2> QED BY <1>3, <2>1, <2>2, <2>3, CapturedTakes
<1>5. CASE InstallTarget
  <2>1. /\ pc = "r_install" /\ Installable(versions, active.target, TargetVersion(active))
        /\ versions' = Put(versions, active.target, TargetVersion(active))
    BY <1>5 DEF InstallTarget, Step
  <2>2. active # None
    BY <2>1 DEF HistoryInv, Known, TypeInv, RestoreKnown, ActiveSteps
  <2>3. TargetVersion(active).parents \subseteq DOMAIN versions
    BY <2>2, RestoredSound DEF Sound
  <2> QED BY <1>3, <2>1, <2>3, RestoredTakes
<1> QED BY <1>4, <1>5, Writers

LEMMA TraceableAlways == Spec => [](HistoryInv /\ ContentsInv /\ Traceable(versions))
<1>1. Init => Traceable(versions)
  BY DEF Init, NoEntries, Traceable, OneParentEach
<1>2. /\ HistoryInv /\ ContentsInv /\ Traceable(versions) /\ [Next]_vars
      /\ HistoryInv' /\ ContentsInv'
      => Traceable(versions)'
  BY NextTraceable
<1> QED
  BY <1>1, <1>2, ContentsInvariance, PTL DEF Spec

\* The ancestors of a version are one line, the older an ancestor of the younger, so
\* that the nearest one that fits is one (unique_restore_candidate never finds two that
\* disagree, ensure_restore_ancestry_acyclic never finds a cycle).
AncestorsInLine ==
  \A id \in DOMAIN versions :
    /\ Lineage(versions, id) = {id} \cup UNION {Lineage(versions, m) : m \in versions[id].parents}
    /\ \A m \in versions[id].parents : id \notin Lineage(versions, m)
    /\ \A a, b \in Lineage(versions, id) : a <= b => a \in Lineage(versions, b)

\* Whatever was captured and restored before, every Tombstone of a regular file in any
\* version can be restored from there (find_restore_binding finds a live ancestor).
TombstonesAreRestorable ==
  \A id \in DOMAIN versions : \A p \in DOMAIN versions[id].tombstones :
    versions[id].tombstones[p].kind = "regular_file" => Restorable(id, p)

\* Captures and restores build one line of versions, without a cycle or a fork.
THEOREM AncestryIsALine == Spec => []AncestorsInLine
<1>1. HistoryInv /\ ContentsInv /\ Traceable(versions) => AncestorsInLine
  <2> SUFFICES ASSUME HistoryInv, ContentsInv, Traceable(versions), NEW id \in DOMAIN versions
               PROVE  /\ Lineage(versions, id) =
                           {id} \cup UNION {Lineage(versions, m) : m \in versions[id].parents}
                      /\ \A m \in versions[id].parents : id \notin Lineage(versions, m)
                      /\ \A a, b \in Lineage(versions, id) : a <= b => a \in Lineage(versions, b)
    BY DEF AncestorsInLine
  <2>1. ParentsFirst(versions) /\ OneParentEach(versions)
    BY HistoryHasParentsFirst DEF HistoryInv, Known, ContentsInv, Traceable
  <2>2. ASSUME NEW m \in versions[id].parents PROVE id \notin Lineage(versions, m)
    <3>1. m \in DOMAIN versions /\ m \in Nat /\ id \in Nat /\ m < id
      BY <2>1 DEF ParentsFirst
    <3> QED BY <2>1, <3>1, LineageIsOlder
  <2> QED BY <2>1, <2>2, LineageIs, LineageIsALine
<1> QED
  BY <1>1, TraceableAlways, PTL

\* A Tombstone is carried from parent to child until its path is restored or dropped
\* anew, so the line holds the binding it records.
THEOREM TombstonesRestorable == Spec => []TombstonesAreRestorable
<1>1. HistoryInv /\ ContentsInv /\ Traceable(versions) => TombstonesAreRestorable
  <2> SUFFICES ASSUME HistoryInv, ContentsInv, Traceable(versions), NEW id \in DOMAIN versions,
                      NEW p \in DOMAIN versions[id].tombstones,
                      versions[id].tombstones[p].kind = "regular_file"
               PROVE  Restorable(id, p)
    BY DEF TombstonesAreRestorable
  <2>1. ParentsFirst(versions)
    BY HistoryHasParentsFirst DEF HistoryInv, Known, ContentsInv
  <2>2. RestoreCandidates(versions, id, p, versions[id].tombstones[p]) # {}
    BY DEF Traceable
  <2> QED BY <2>1, <2>2, SomeIsNearest DEF Restorable
<1> QED
  BY <1>1, TraceableAlways, PTL
=============================================================================
