----------------------------- MODULE ChangeSetProofs -----------------------------
(***************************************************************************)
(* Safety of Change Sets, for every set of paths, contents, processes and   *)
(* Change Sets and every bound: publication replaces only bytes the deltas  *)
(* account for, a merge is the union of the sides it names, and the current *)
(* Object Versions follow Local Head.  And the theorems of VersionDiff.     *)
(***************************************************************************)
EXTENDS ChangeSetApply, VersionDiff, FiniteSetTheorems, TLAPS

-----------------------------------------------------------------------------
(* The invariant of the lock and of the calls.                             *)

\* The steps of a call that hold the lock.
LockedSteps == {"prepare", "proposal", "head", "cleanup"} \cup PublishSteps
JudgedSteps == {"prepare"} \cup PublishSteps

Proposed(c) == c \in ChangeSets /\ envelopes[c] # None /\ WellFormed(Deltas(c))

IsJob(j) ==
  /\ j = [set |-> j.set, final |-> j.final, result |-> j.result, todo |-> j.todo, at |-> j.at]
  /\ Proposed(j.set)

LockInv ==
  /\ pc \in [Procs -> Steps]
  /\ \A p \in Procs : pc[p] \in LockedSteps <=> holder = p
  /\ DOMAIN job = Procs /\ \A p \in Procs : pc[p] # "idle" => IsJob(job[p])
  /\ journal # None => journal \in [set: ChangeSets, phase: Phases] /\ Proposed(journal.set)
  /\ \A c \in ChangeSets : receipts[c] # None => Proposed(c)
  /\ edits \in Nat

-----------------------------------------------------------------------------
(* The invariant of Versions and envelopes.                                *)

FileBinding == [object: Ids, kind: Kinds, over: Ids, data: Contents \cup {Torn}]

BindingsSound(b, n) ==
  IsPartial(b, Paths, FileBinding) /\ \A p \in DOMAIN b : b[p].object[1] <= n

VersionsSound ==
  /\ issued \in Nat
  /\ ws \in [Paths -> File \cup {None}]
  /\ DOMAIN versions \subseteq VersionIds
  /\ \A id \in DOMAIN versions :
       /\ id[1] = "capture" => id[2] <= issued
       /\ BindingsSound(versions[id].bindings, issued)
       /\ Valid(versions[id])
  /\ head # None => head \in DOMAIN versions

\* A delta names the Object that its base binds at its paths, a new Object is
\* none of the base, and no two deltas have a path in common.
DerivedFrom(ds, base) ==
  /\ \A d \in ds :
       /\ d.before # None => /\ d.before.path \in DOMAIN base.bindings
                             /\ base.bindings[d.before.path].object = d.object
       /\ d.after # None /\ d.after.path \in DOMAIN base.bindings =>
            base.bindings[d.after.path].object = d.object
       /\ d.before = None => d.object \notin LiveObjects(base)
  /\ \A d, e \in ds : PathsOf({d}) \cap PathsOf({e}) # {} => d = e

EnvelopesSound ==
  /\ DOMAIN envelopes = ChangeSets /\ DOMAIN checkouts = ChangeSets /\ DOMAIN receipts = ChangeSets
  /\ \A c \in ChangeSets : checkouts[c] # None => checkouts[c] \in DOMAIN versions
  /\ \A c \in ChangeSets : envelopes[c] # None =>
       /\ checkouts[c] # None
       /\ Deltas(c) \subseteq Delta
       /\ \A d \in Deltas(c) : d.object[1] <= issued
       /\ DerivedFrom(Deltas(c), BaseOf(c))

-----------------------------------------------------------------------------
(* The invariant of publication.                                           *)

\* What is at q is accounted for by the deltas of c, or came too late to be seen.
RecognizedBy(c, q) ==
  \E d \in Deltas(c) :
    \/ d.before # None /\ d.before.path = q /\ Holds(q, d.before)
    \/ d.after # None /\ d.after.path = q /\
         \/ Holds(q, d.after) \/ DataAt(q) = Torn
         \/ d.before # None /\ Holds(q, d.before)
Spoken(c, q) == ws[q] # None => ws[q].late \/ RecognizedBy(c, q)

\* The deltas whose bytes are prepared.
Written(ds) == {d \in ds : d.after # None /\ ~ (d \in Moves(ds) /\ ~ d.staged)}

TodoSound(p, c) ==
  /\ pc[p] = "move" => job[p].todo \subseteq Moves(Deltas(c))
  /\ pc[p] = "remove" => job[p].todo \subseteq Removals(Deltas(c))
  /\ pc[p] \in {"install", "rewrite"} => job[p].todo \subseteq {d \in Deltas(c) : d.after # None}
  /\ pc[p] = "rewrite" => job[p].at \in Moves(Deltas(c)) /\ job[p].at.staged

PublishInv ==
  /\ \A p \in Procs, c \in ChangeSets : pc[p] \in JudgedSteps /\ job[p].set = c =>
       /\ \A q \in PathsOf(Deltas(c)) : Spoken(c, q)
       /\ pc[p] \in PublishSteps => Active(c)
       /\ TodoSound(p, c)
  /\ \A c \in ChangeSets : Active(c) =>
       /\ \A d \in Written(Deltas(c)) : work[d.object] = d.after.data
       /\ \A o \in marked : \E d \in Moves(Deltas(c)) : d.object = o /\ Spoken(c, d.after.path)

-----------------------------------------------------------------------------
(* The invariant of the history.                                           *)

\* The capture f bears the Change Set out.
BorneOut(c, f) ==
  ObjectsKept(f, Deltas(c)) /\ InPlace(f, Deltas(c)) = Deltas(c)
CurrentStands(c, f) ==
  CurrentId(c) \in DOMAIN versions /\ versions[CurrentId(c)] = Current(c, f)
  /\ Disjoint(BaseOf(c), f, Deltas(c))

\* A merge and its sides were computed from one capture.
HistorySound ==
  \A c \in ChangeSets :
    /\ ProposalId(c) \in DOMAIN versions => Proposed(c) /\ versions[ProposalId(c)] = Proposal(c)
    /\ MergeId(c) \in DOMAIN versions =>
         /\ ProposalId(c) \in DOMAIN versions
         /\ \E i \in DOMAIN versions :
              /\ versions[MergeId(c)] = Merge(c, versions[i])
              /\ BorneOut(c, versions[i]) /\ CurrentStands(c, versions[i])

FinalSteps == {"history", "proposal", "head", "receipt"}
FinalSound ==
  /\ \A p \in Procs : pc[p] \in FinalSteps => job[p].final \in DOMAIN versions
  /\ \A p \in Procs, c \in ChangeSets, i \in DOMAIN versions :
       pc[p] \in {"proposal", "head"} /\ job[p].set = c /\ job[p].final = i =>
         /\ head = i /\ BorneOut(c, versions[i])
         /\ Valid(Proposal(c)) /\ Installable(versions, ProposalId(c), Proposal(c))
         /\ Diverged(c, versions[i]) =>
              /\ CurrentStands(c, versions[i])
              /\ Valid(Merge(c, versions[i])) /\ Installable(versions, MergeId(c), Merge(c, versions[i]))
         /\ pc[p] = "head" => ProposalId(c) \in DOMAIN versions

-----------------------------------------------------------------------------
(* The invariant of the projections.                                       *)

Begun(c) == Active(c) \/ receipts[c] # None

\* A Change Set that was published gave o the Object Version it has.
Excused(o) ==
  \E c \in ChangeSets : Begun(c) /\
    \E d \in Deltas(c) : d.object = o /\ d.after # None /\ current[o] = d.after.over

FollowsHead ==
  head # None =>
    \A p \in DOMAIN Prior.bindings :
      LET b == Prior.bindings[p]
      IN  b.object \in DOMAIN current /\ (current[b.object] = b.over \/ Excused(b.object))

BegunSteps == {"journal", "seal", "history", "proposal", "head", "receipt", "cleanup"}
CurrentInv ==
  /\ FollowsHead
  /\ \A p \in Procs, c \in ChangeSets : job[p].set = c =>
       /\ pc[p] \in BegunSteps => Begun(c)
       /\ pc[p] = "cleanup" => receipts[c] # None
       /\ pc[p] = "prepare" => journal = None
       /\ pc[p] \in {"proposal", "head"} => \A d \in Deltas(c) : d.after # None =>
            d.object \in DOMAIN current /\ (current[d.object] = d.after.over \/ Excused(d.object))

ChangeSetInv ==
  LockInv /\ VersionsSound /\ EnvelopesSound /\ PublishInv /\ HistorySound /\ FinalSound /\ CurrentInv

-----------------------------------------------------------------------------
(* Records, functions and the absent value.                                *)

LEMMA ConstantFacts ==
  /\ Paths \subseteq Nat /\ IsFiniteSet(Paths) /\ Shared \subseteq Paths
  /\ None \notin Contents \cup {Torn} /\ None \notin Procs
  /\ ChangeSets \subseteq Nat /\ Procs \subseteq Nat
  /\ AgentContents \subseteq Contents /\ UserContents \subseteq Contents
  /\ None \notin File /\ None \notin State /\ None \notin VersionIds
  /\ None \notin [set: ChangeSets, phase: Phases] /\ None \notin Inventories
BY NoneAssumption, ScopeAssumption, ChangeSetAssumption, NoneIsNoRecord

\* What a delta is made of.
LEMMA DeltaParts ==
  ASSUME NEW d \in Delta
  PROVE  /\ d.object \in Ids
         /\ d.before # None => /\ d.before \in State /\ d.before.path \in Shared
                               /\ d.before.data \in Contents \cup {Torn}
                               /\ d.before.over \in Ids
         /\ d.after # None => /\ d.after \in State /\ d.after.path \in Shared
                              /\ d.after.data \in Contents \cup {Torn}
                              /\ d.after.over \in Ids
BY ConstantFacts DEF Delta, State

LEMMA PutFacts ==
  ASSUME NEW f, NEW k, NEW v
  PROVE  /\ DOMAIN Put(f, k, v) = DOMAIN f \cup {k}
         /\ Put(f, k, v)[k] = v
         /\ \A x \in DOMAIN f : x # k => Put(f, k, v)[x] = f[x]
BY DEF Put

LEMMA IdsDiffer ==
  ASSUME NEW c, NEW e, NEW n
  PROVE  /\ CurrentId(c) # ProposalId(e) /\ CurrentId(c) # MergeId(e) /\ ProposalId(c) # MergeId(e)
         /\ <<"capture", n>> \notin {CurrentId(c), ProposalId(c), MergeId(c)}
         /\ (CurrentId(c) = CurrentId(e) \/ ProposalId(c) = ProposalId(e)
             \/ MergeId(c) = MergeId(e)) => c = e
BY DEF CurrentId, ProposalId, MergeId

LEMMA IdsTyped ==
  ASSUME NEW c \in ChangeSets
  PROVE  {CurrentId(c), ProposalId(c), MergeId(c)} \subseteq VersionIds
BY ConstantFacts DEF CurrentId, ProposalId, MergeId, VersionIds, Roles

-----------------------------------------------------------------------------
(* Versions are only ever added, and what a Change Set names stays as it is.*)

\* The capture's identifier is fresh.
LEMMA SealGrows ==
  ASSUME VersionsSound, Seal
  PROVE  /\ \A id \in DOMAIN versions : id \in DOMAIN versions' /\ versions'[id] = versions[id]
         /\ issued' \in Nat /\ issued <= issued' /\ issued' <= issued + 1
         /\ head' \in DOMAIN versions'
<1>1. CASE UNCHANGED <<historyVars, issued>> /\ NothingNew(Captured)
  BY <1>1 DEF VersionsSound, historyVars, NothingNew
<1>2. CASE InstallCapture(Captured)
  <2> DEFINE id == <<"capture", issued + 1>>
  <2>1. versions' = Put(versions, id, Captured) /\ head' = id /\ issued' = issued + 1
    BY <1>2 DEF InstallCapture
  <2>2. id \notin DOMAIN versions
    <3>1. id[1] = "capture" /\ id[2] = issued + 1
      OBVIOUS
    <3>2. ~ (issued + 1 <= issued) /\ issued \in Nat
      BY DEF VersionsSound
    <3> HIDE DEF id
    <3> QED BY <3>1, <3>2 DEF VersionsSound
  <2>3. issued \in Nat
    BY DEF VersionsSound
  <2>4. DOMAIN versions' = DOMAIN versions \cup {id} /\ \A x \in DOMAIN versions : x # id => versions'[x] = versions[x]
    BY <2>1, SMT DEF Put
  <2> QED BY <2>1, <2>2, <2>3, <2>4
<1> QED BY <1>1, <1>2 DEF Seal

\* The Version that WithCurrent may add is added once.
LEMMA WithCurrentGrows ==
  ASSUME NEW c, NEW f, CanBuildCurrent(c, f)
  PROVE  /\ \A id \in DOMAIN versions :
              id \in DOMAIN WithCurrent(c, f) /\ WithCurrent(c, f)[id] = versions[id]
         /\ \A id \in DOMAIN WithCurrent(c, f) : 
              \/ id \in DOMAIN versions
              \/ id = CurrentId(c) /\ Diverged(c, f) /\ WithCurrent(c, f)[id] = Current(c, f)
         /\ Diverged(c, f) => /\ CurrentId(c) \in DOMAIN WithCurrent(c, f)
                              /\ WithCurrent(c, f)[CurrentId(c)] = Current(c, f)
<1>1. CASE ~ Diverged(c, f)
  BY <1>1 DEF WithCurrent
<1>2. CASE Diverged(c, f)
  <2>1. WithCurrent(c, f) = Put(versions, CurrentId(c), Current(c, f))
    BY <1>2 DEF WithCurrent
  <2>2. CurrentId(c) \in DOMAIN versions => versions[CurrentId(c)] = Current(c, f)
    BY <1>2 DEF CanBuildCurrent, Installable
  <2> QED BY <1>2, <2>1, <2>2, SMT DEF Put
<1> QED BY <1>1, <1>2

\* What a call that holds the lock over its history has established.
LEMMA FinalFacts ==
  ASSUME LockInv, FinalSound, NEW p \in Procs, pc[p] \in {"proposal", "head"}
  PROVE  LET c == job[p].set  i == job[p].final IN
         /\ Proposed(c) /\ i \in DOMAIN versions /\ head = i /\ BorneOut(c, versions[i])
         /\ Valid(Proposal(c)) /\ Installable(versions, ProposalId(c), Proposal(c))
         /\ Diverged(c, versions[i]) =>
              /\ CurrentStands(c, versions[i])
              /\ Valid(Merge(c, versions[i])) /\ Installable(versions, MergeId(c), Merge(c, versions[i]))
         /\ pc[p] = "head" => ProposalId(c) \in DOMAIN versions
<1>1. Proposed(job[p].set) /\ job[p].set \in ChangeSets
  BY DEF LockInv, IsJob, Proposed
<1>2. job[p].final \in DOMAIN versions
  BY DEF FinalSound, FinalSteps
<1> QED BY <1>1, <1>2 DEF FinalSound

\* An installed Version is never replaced.
LEMMA VersionsGrow ==
  ASSUME ChangeSetInv, [Next]_allVars
  PROVE  /\ \A id \in DOMAIN versions : id \in DOMAIN versions' /\ versions'[id] = versions[id]
         /\ issued \in Nat /\ issued' \in Nat /\ issued <= issued'
<1> DEFINE Goal == /\ \A id \in DOMAIN versions : id \in DOMAIN versions' /\ versions'[id] = versions[id]
                   /\ issued' \in Nat /\ issued <= issued'
<1>0. issued \in Nat /\ VersionsSound /\ LockInv /\ FinalSound
  BY DEF ChangeSetInv, VersionsSound
<1>1. ASSUME versions' = versions, issued' = issued \/ issued' = issued + 1
      PROVE  Goal
  BY <1>0, <1>1
<1>2. ASSUME Seal
      PROVE  Goal
  BY <1>0, <1>2, SealGrows
<1> HIDE DEF Goal
<1>3. ASSUME UNCHANGED allVars PROVE Goal
  BY <1>1, <1>3 DEF allVars, vars, historyVars
<1>4. ASSUME NEW q \in Paths, Edit(q) PROVE Goal
  BY <1>1, <1>4 DEF Edit, historyVars
<1>5. ASSUME NEW c \in ChangeSets, Checkout(c) \/ ProposeChangeSet(c) PROVE Goal
  BY <1>1, <1>2, <1>5 DEF Checkout, ProposeChangeSet, historyVars
<1>6. ASSUME NEW p \in Procs, NEW c \in ChangeSets, Begin(p, c) PROVE Goal
  BY <1>1, <1>6 DEF Begin, BeginFresh, ResumePrepared, ResumePublished, ResumeCompleted, historyVars
<1>7. ASSUME NEW p \in Procs, Progress(p) PROVE Goal
  <2>1. CASE Prepare(p) \/ Move(p) \/ Remove(p) \/ NextStage(p) \/ Rewrite(p) \/ JournalPublished(p)
    BY <1>1, <2>1 DEF Prepare, Move, Remove, NextStage, Rewrite, JournalPublished, historyVars
  <2>2. CASE Publish(p)
    BY <1>1, <2>2 DEF Publish, VerifyMoved, Truncate, Install, historyVars
  <2>3. CASE SealFinal(p)
    BY <1>2, <2>3 DEF SealFinal
  <2>4. CASE ReuseHistory(p) \/ PublishReceipt(p) \/ Cleanup(p)
    BY <1>1, <2>4 DEF ReuseHistory, PublishReceipt, Cleanup, historyVars
  <2>5. CASE StartHistory(p)
    BY <1>0, <2>5, WithCurrentGrows DEF StartHistory, CanFinalize, Goal
  <2>6. CASE RefuseHistory(p)
    BY <1>0, <2>6, WithCurrentGrows DEF RefuseHistory, Goal
  <2>7. CASE InstallProposal(p)
    <3> DEFINE c == job[p].set
    <3>0. Installable(versions, ProposalId(c), Proposal(c))
      BY <1>0, <2>7, FinalFacts DEF InstallProposal
    <3>1. ProposalId(c) \in DOMAIN versions => versions[ProposalId(c)] = Proposal(c)
      BY <3>0 DEF Installable
    <3>2. versions' = Put(versions, ProposalId(c), Proposal(c)) /\ issued' = issued
      BY <2>7 DEF InstallProposal
    <3> HIDE DEF c
    <3> QED BY <1>0, <3>1, <3>2, SMT DEF Put, Goal
  <2>8. CASE MoveHead(p)
    <3> DEFINE c == job[p].set  f == versions[job[p].final]
    <3>1. issued' = issued /\ pc[p] = "head"
          /\ versions' = IF Diverged(c, f) THEN Put(versions, MergeId(c), Merge(c, f)) ELSE versions
      BY <2>8 DEF MoveHead
    <3>0. Diverged(c, f) => Installable(versions, MergeId(c), Merge(c, f))
      BY <1>0, <3>1, FinalFacts
    <3>2. Diverged(c, f) /\ MergeId(c) \in DOMAIN versions => versions[MergeId(c)] = Merge(c, f)
      BY <3>0 DEF Installable
    <3> HIDE DEF c, f
    <3> QED BY <1>0, <3>1, <3>2, SMT DEF Put, Goal
  <2> QED BY <1>7, <2>1, <2>2, <2>3, <2>4, <2>5, <2>6, <2>7, <2>8 DEF Progress
<1>8. ASSUME NEW p \in Procs, Crash(p) PROVE Goal
  BY <1>1, <1>8 DEF Crash, historyVars
<1>9. ASSUME Capture PROVE Goal
  BY <1>2, <1>9 DEF Capture
<1>10. Goal
  BY <1>3, <1>4, <1>5, <1>6, <1>7, <1>8, <1>9 DEF Next
<1> QED BY <1>0, <1>10 DEF Goal

\* Which steps change what.
LEMMA Frames ==
  ASSUME [Next]_allVars
  PROVE  /\ UNCHANGED <<checkouts, envelopes>>
            \/ \E c \in ChangeSets : Checkout(c) \/ ProposeChangeSet(c)
         /\ UNCHANGED receipts \/ \E p \in Procs : PublishReceipt(p)
         /\ UNCHANGED <<journal, work, marked>>
            \/ \E p \in Procs : pc[p] # "idle" /\ \/ Prepare(p) \/ Publish(p) \/ Rewrite(p)
                                                  \/ JournalPublished(p) \/ Cleanup(p)
         /\ UNCHANGED ws
            \/ (\E q \in Paths : Edit(q))
            \/ \E p \in Procs : Move(p) \/ Remove(p) \/ Publish(p) \/ Rewrite(p)
         /\ UNCHANGED <<head, versions, current>>
            \/ Seal
            \/ \E p \in Procs : StartHistory(p) \/ RefuseHistory(p) \/ InstallProposal(p) \/ MoveHead(p)
<1>1. ASSUME UNCHANGED allVars
      PROVE  UNCHANGED <<ws, head, versions, current, checkouts, envelopes, receipts, journal, work, marked>>
  BY <1>1 DEF allVars, vars, historyVars, durable
<1>2. ASSUME NEW q \in Paths, Edit(q)
      PROVE  UNCHANGED <<head, versions, current, checkouts, envelopes, receipts, journal, work, marked>>
  BY <1>2 DEF Edit, historyVars, durable
<1>3. ASSUME NEW c \in ChangeSets, Checkout(c)
      PROVE  UNCHANGED <<ws, receipts, journal, work, marked>> /\ Seal
  BY <1>3 DEF Checkout, Seal
<1>4. ASSUME NEW c \in ChangeSets, ProposeChangeSet(c)
      PROVE  UNCHANGED <<ws, head, versions, current, receipts, journal, work, marked>>
  BY <1>4 DEF ProposeChangeSet, historyVars
<1>5. ASSUME NEW p \in Procs, NEW c \in ChangeSets, Begin(p, c)
      PROVE  UNCHANGED <<ws, head, versions, current, checkouts, envelopes, receipts, journal, work, marked>>
  BY <1>5 DEF Begin, BeginFresh, ResumePrepared, ResumePublished, ResumeCompleted, historyVars, durable
<1>6. ASSUME NEW p \in Procs, Crash(p)
      PROVE  UNCHANGED <<ws, head, versions, current, checkouts, envelopes, receipts, journal, work, marked>>
  BY <1>6 DEF Crash, historyVars, durable
<1>7. ASSUME Capture
      PROVE  UNCHANGED <<ws, checkouts, envelopes, receipts, journal, work, marked>> /\ Seal
  BY <1>7 DEF Capture, Seal, durable
<1>8. ASSUME NEW p \in Procs, Prepare(p) \/ JournalPublished(p) \/ Cleanup(p)
      PROVE  UNCHANGED <<ws, head, versions, current, checkouts, envelopes, receipts>>
  BY <1>8 DEF Prepare, JournalPublished, Cleanup, historyVars
<1>9. ASSUME NEW p \in Procs, Move(p) \/ Remove(p)
      PROVE  UNCHANGED <<head, versions, current, checkouts, envelopes, receipts, journal, work, marked>>
  BY <1>9 DEF Move, Remove, historyVars, durable
<1>10. ASSUME NEW p \in Procs, Publish(p) \/ Rewrite(p)
       PROVE  UNCHANGED <<head, versions, current, checkouts, envelopes, receipts>>
  BY <1>10 DEF Publish, VerifyMoved, Truncate, Install, Rewrite, historyVars, durable
<1>11. ASSUME NEW p \in Procs, NextStage(p) \/ ReuseHistory(p)
       PROVE  UNCHANGED <<ws, head, versions, current, checkouts, envelopes, receipts, journal, work, marked>>
  BY <1>11 DEF NextStage, ReuseHistory, historyVars, durable
<1>12. ASSUME NEW p \in Procs, SealFinal(p)
       PROVE  UNCHANGED <<ws, checkouts, envelopes, receipts, journal, work, marked>> /\ Seal
  BY <1>12 DEF SealFinal, Seal, durable
<1>13. ASSUME NEW p \in Procs, StartHistory(p) \/ RefuseHistory(p) \/ InstallProposal(p) \/ MoveHead(p)
       PROVE  UNCHANGED <<ws, checkouts, envelopes, receipts, journal, work, marked>>
  BY <1>13 DEF StartHistory, RefuseHistory, InstallProposal, MoveHead, durable
<1>14. ASSUME NEW p \in Procs, PublishReceipt(p)
       PROVE  UNCHANGED <<ws, head, versions, current, checkouts, envelopes, journal, work, marked>>
  BY <1>14 DEF PublishReceipt, historyVars
<1>15. ASSUME NEW p \in Procs, Progress(p)
       PROVE  /\ pc[p] # "idle"
              /\ \/ Prepare(p) \/ JournalPublished(p) \/ Cleanup(p) \/ Move(p) \/ Remove(p)
                 \/ Publish(p) \/ Rewrite(p) \/ NextStage(p) \/ ReuseHistory(p) \/ SealFinal(p)
                 \/ StartHistory(p) \/ RefuseHistory(p) \/ InstallProposal(p) \/ MoveHead(p)
                 \/ PublishReceipt(p)
  BY <1>15 DEF Progress
<1> QED BY <1>1, <1>2, <1>3, <1>4, <1>5, <1>6, <1>7, <1>8, <1>9, <1>10, <1>11, <1>12, <1>13,
           <1>14, <1>15 DEF Next

\* What a Change Set was proposed with never changes.
LEMMA EnvelopesKept ==
  ASSUME ChangeSetInv, [Next]_allVars
  PROVE  /\ DOMAIN envelopes' = ChangeSets /\ DOMAIN checkouts' = ChangeSets
         /\ \A c \in ChangeSets : checkouts[c] # None => checkouts'[c] = checkouts[c]
         /\ \A c \in ChangeSets : envelopes[c] # None => envelopes'[c] = envelopes[c]
<1>0. DOMAIN envelopes = ChangeSets /\ DOMAIN checkouts = ChangeSets
  BY DEF ChangeSetInv, EnvelopesSound
<1>1. CASE UNCHANGED <<checkouts, envelopes>>
  BY <1>0, <1>1
<1>2. ASSUME NEW c \in ChangeSets, Checkout(c) \/ ProposeChangeSet(c)
      PROVE  /\ \/ envelopes' = envelopes
                \/ envelopes[c] = None /\ \E x : envelopes' = [envelopes EXCEPT ![c] = x]
             /\ \/ checkouts' = checkouts
                \/ checkouts[c] = None /\ \E x : checkouts' = [checkouts EXCEPT ![c] = x]
  BY <1>2 DEF Checkout, ProposeChangeSet
<1>3. CASE \E c \in ChangeSets : Checkout(c) \/ ProposeChangeSet(c)
  BY <1>0, <1>2, <1>3
<1> QED BY <1>1, <1>3, Frames

\* And so neither do the Versions computed from it.
LEMMA ProposedStays ==
  ASSUME ChangeSetInv, [Next]_allVars, NEW c, Proposed(c)
  PROVE  /\ Proposed(c)'
         /\ Deltas(c)' = Deltas(c) /\ BaseOf(c)' = BaseOf(c) /\ checkouts'[c] = checkouts[c]
         /\ Proposal(c)' = Proposal(c)
         /\ \A f : Current(c, f)' = Current(c, f) /\ Merge(c, f)' = Merge(c, f)
                   /\ (Diverged(c, f)' <=> Diverged(c, f))
<1>1. c \in ChangeSets /\ checkouts[c] \in DOMAIN versions /\ envelopes[c] # None /\ checkouts[c] # None
  BY DEF Proposed, ChangeSetInv, EnvelopesSound
<1>2. checkouts'[c] = checkouts[c] /\ envelopes'[c] = envelopes[c]
  BY <1>1, EnvelopesKept
<1>3. versions'[checkouts[c]] = versions[checkouts[c]]
  BY <1>1, VersionsGrow
<1>4. Deltas(c)' = Deltas(c) /\ BaseOf(c)' = BaseOf(c)
  BY <1>2, <1>3 DEF Deltas, BaseOf
<1>5. Proposed(c)'
  BY <1>2, <1>4 DEF Proposed
<1>6. Proposal(c)' = Proposal(c)
  BY <1>2, <1>4 DEF Proposal
<1>7. \A f : Current(c, f)' = Current(c, f)
  BY <1>2, <1>4 DEF Current
<1>8. \A f : Merge(c, f)' = Merge(c, f)
  BY <1>4, <1>6 DEF Merge, CurrentId, ProposalId
<1>9. \A f : Diverged(c, f)' <=> Diverged(c, f)
  BY <1>4, <1>7 DEF Diverged
<1> QED BY <1>2, <1>4, <1>5, <1>6, <1>7, <1>8, <1>9

-----------------------------------------------------------------------------
(* What Versions bind.                                                     *)

LEMMA BindingParts ==
  ASSUME NEW b, NEW n \in Nat, BindingsSound(b, n), NEW p \in DOMAIN b
  PROVE  /\ p \in Paths /\ b[p] \in FileBinding
         /\ b[p].object \in Ids /\ b[p].over \in Ids /\ b[p].kind \in Kinds
         /\ b[p].data \in Contents \cup {Torn}
         /\ b[p].object[1] \in Nat /\ b[p].object[1] <= n
<1>1. p \in Paths /\ b[p] \in FileBinding /\ b[p].object[1] <= n
  BY DEF BindingsSound, IsPartial
<1>2. b[p].object \in Ids
  BY <1>1 DEF FileBinding
<1> QED BY <1>1, <1>2 DEF FileBinding, Ids

LEMMA SoundLater ==
  ASSUME NEW b, NEW n \in Nat, NEW m \in Nat, n <= m, BindingsSound(b, n)
  PROVE  BindingsSound(b, m)
<1>1. \A p \in DOMAIN b : b[p].object[1] \in Nat /\ b[p].object[1] <= n
  BY BindingParts
<1>2. \A p \in DOMAIN b : b[p].object[1] <= m
  BY <1>1
<1> QED BY <1>2 DEF BindingsSound

LEMMA SoundIfParts ==
  ASSUME NEW b, NEW n \in Nat, DOMAIN b \subseteq Paths, b = [p \in DOMAIN b |-> b[p]],
         \A p \in DOMAIN b : b[p] \in FileBinding /\ b[p].object[1] <= n
  PROVE  BindingsSound(b, n)
<1>1. b \in [DOMAIN b -> FileBinding]
  BY SMT
<1> QED BY <1>1 DEF BindingsSound, IsPartial

LEMMA JoinSound ==
  ASSUME NEW v, NEW w, NEW ps, NEW qs, NEW n \in Nat,
         BindingsSound(v.bindings, n), BindingsSound(w.bindings, n),
         ps \subseteq DOMAIN v.bindings, qs \subseteq DOMAIN w.bindings
  PROVE  BindingsSound(Join(v, ps, w, qs), n)
<1> DEFINE b == Join(v, ps, w, qs)
<1>1. DOMAIN b = ps \cup qs /\ b = [p \in DOMAIN b |-> b[p]]
      /\ \A p \in DOMAIN b : b[p] = IF p \in qs THEN w.bindings[p] ELSE v.bindings[p]
  BY DEF Join
<1> HIDE DEF b
<1>2. ASSUME NEW p \in DOMAIN b
      PROVE  p \in Paths /\ b[p] \in FileBinding /\ b[p].object[1] <= n
  <2>1. CASE p \in qs
    BY <1>1, <2>1, BindingParts
  <2>2. CASE p \notin qs
    BY <1>1, <2>2, BindingParts
  <2> QED BY <2>1, <2>2
<1> QED BY <1>1, <1>2, SoundIfParts DEF b

LEMMA CurrentSound ==
  ASSUME NEW base, NEW id, NEW final, NEW ds, NEW n \in Nat,
         BindingsSound(base.bindings, n), BindingsSound(final.bindings, n)
  PROVE  BindingsSound(CurrentVersion(base, id, final, ds).bindings, n)
<1> DEFINE before == {d.object : d \in {x \in ds : x.before # None}}
           after == {d.object : d \in {x \in ds : x.after # None}}
           ps == Kept(final, after \cup before)
           qs == DOMAIN base.bindings \ Kept(base, before)
<1>1. CurrentVersion(base, id, final, ds).bindings = Join(final, ps, base, qs)
  BY DEF CurrentVersion
<1>2. ps \subseteq DOMAIN final.bindings /\ qs \subseteq DOMAIN base.bindings
  BY DEF Kept
<1> HIDE DEF ps, qs
<1> QED BY <1>1, <1>2, JoinSound

LEMMA MergeSound ==
  ASSUME NEW parents, NEW proposal, NEW final, NEW ds, NEW n \in Nat,
         BindingsSound(proposal.bindings, n), BindingsSound(final.bindings, n)
  PROVE  BindingsSound(MergeVersion(parents, proposal, final, ds).bindings, n)
<1> DEFINE ps == Kept(final, Touched(ds))
           qs == DOMAIN proposal.bindings \ Kept(proposal, Touched(ds))
<1>1. MergeVersion(parents, proposal, final, ds).bindings = Join(final, ps, proposal, qs)
  BY DEF MergeVersion
<1>2. ps \subseteq DOMAIN final.bindings /\ qs \subseteq DOMAIN proposal.bindings
  BY DEF Kept
<1> HIDE DEF ps, qs
<1> QED BY <1>1, <1>2, JoinSound

\* The delta that publishes at a path is the one whose path it is.
LEMMA DeltaAt ==
  ASSUME NEW ds, NEW d \in ds, d.after # None,
         \A x, y \in {z \in ds : z.after # None} : x.after.path = y.after.path => x = y
  PROVE  DeltaOf(ds, d.after.path) = d
BY DEF DeltaOf

LEMMA ProposalBindings ==
  ASSUME NEW base, NEW id, NEW ds, NEW p,
         p \in DOMAIN ProposalVersion(base, id, ds).bindings
  PROVE  \/ /\ p \in DOMAIN base.bindings /\ base.bindings[p].object \notin Touched(ds)
            /\ \A d \in ds : d.after # None => d.after.path # p
            /\ ProposalVersion(base, id, ds).bindings[p] = base.bindings[p]
         \/ /\ \E d \in ds : d.after # None /\ d.after.path = p
            /\ ProposalVersion(base, id, ds).bindings[p] = AfterBinding(DeltaOf(ds, p))
<1> DEFINE kept == Kept(base, Touched(ds))
           after == {d.after.path : d \in {x \in ds : x.after # None}}
           b == [q \in kept \cup after |->
                   IF q \in after THEN AfterBinding(DeltaOf(ds, q)) ELSE base.bindings[q]]
<1>1. ProposalVersion(base, id, ds).bindings = b
  BY DEF ProposalVersion
<1>2. p \in kept \cup after
  BY <1>1
<1>3. CASE p \in after
  BY <1>1, <1>3
<1>4. CASE p \notin after
  <2>1. b[p] = base.bindings[p] /\ p \in kept
    BY <1>2, <1>4
  <2>2. \A d \in ds : d.after # None => d.after.path # p
    BY <1>4
  <2> QED BY <1>1, <2>1, <2>2 DEF Kept
<1> QED BY <1>3, <1>4

LEMMA ProposalDomain ==
  ASSUME NEW base, NEW id, NEW ds
  PROVE  /\ ProposalVersion(base, id, ds).bindings =
              [p \in DOMAIN ProposalVersion(base, id, ds).bindings |->
                 ProposalVersion(base, id, ds).bindings[p]]
         /\ \A p \in DOMAIN base.bindings : base.bindings[p].object \notin Touched(ds)
              => p \in DOMAIN ProposalVersion(base, id, ds).bindings
         /\ \A d \in ds : d.after # None
              => d.after.path \in DOMAIN ProposalVersion(base, id, ds).bindings
<1> DEFINE kept == Kept(base, Touched(ds))
           after == {d.after.path : d \in {x \in ds : x.after # None}}
           b == [q \in kept \cup after |->
                   IF q \in after THEN AfterBinding(DeltaOf(ds, q)) ELSE base.bindings[q]]
<1>1. ProposalVersion(base, id, ds).bindings = b
  BY DEF ProposalVersion
<1>2. DOMAIN b = kept \cup after /\ b = [q \in DOMAIN b |-> b[q]]
  OBVIOUS
<1>3. \A p \in DOMAIN base.bindings : base.bindings[p].object \notin Touched(ds) => p \in kept
  BY DEF Kept
<1>4. \A d \in ds : d.after # None => d.after.path \in after
  OBVIOUS
<1> HIDE DEF b, kept, after
<1> QED BY <1>1, <1>2, <1>3, <1>4

LEMMA ProposalSound ==
  ASSUME NEW base, NEW id, NEW ds, NEW n \in Nat, BindingsSound(base.bindings, n),
         ds \subseteq Delta, \A d \in ds : d.object[1] <= n, WellFormed(ds)
  PROVE  BindingsSound(ProposalVersion(base, id, ds).bindings, n)
<1> DEFINE b == ProposalVersion(base, id, ds).bindings
<1>1. ASSUME NEW p \in DOMAIN b
      PROVE  p \in Paths /\ b[p] \in FileBinding /\ b[p].object[1] <= n
  <2>1. CASE p \in DOMAIN base.bindings /\ b[p] = base.bindings[p]
    BY <2>1, BindingParts
  <2>2. ASSUME NEW d \in ds, d.after # None, d.after.path = p, b[p] = AfterBinding(DeltaOf(ds, p))
        PROVE  p \in Paths /\ b[p] \in FileBinding /\ b[p].object[1] <= n
    <3>1. DeltaOf(ds, p) = d
      BY <2>2, DeltaAt DEF WellFormed
    <3>2. d.object \in Ids /\ d.after.path \in Paths /\ d.after.over \in Ids /\ d.object[1] <= n
          /\ d.after.data \in Contents \cup {Torn}
      BY <2>2, DeltaParts, ConstantFacts
    <3>3. b[p] = [object |-> d.object, kind |-> "regular_file", over |-> d.after.over,
                  data |-> d.after.data]
      BY <2>2, <3>1 DEF AfterBinding
    <3> QED BY <2>2, <3>2, <3>3 DEF FileBinding, Kinds
  <2> HIDE DEF b
  <2> QED BY <2>1, <2>2, ProposalBindings DEF b
<1>2. b = [p \in DOMAIN b |-> b[p]]
  BY ProposalDomain
<1>3. DOMAIN b \subseteq Paths
  BY <1>1
<1> HIDE DEF b
<1>4. BindingsSound(b, n)
  BY <1>1, <1>2, <1>3, SoundIfParts
<1> QED BY <1>4 DEF b

LEMMA PriorSound ==
  ASSUME VersionsSound
  PROVE  BindingsSound(Prior.bindings, issued)
<1>1. CASE head = None
  <2>1. Prior.bindings = EmptyFunction
    BY <1>1 DEF Prior, EmptyVersion
  <2>2. DOMAIN EmptyFunction = {} /\ EmptyFunction = [p \in DOMAIN EmptyFunction |-> EmptyFunction[p]]
    BY DEF EmptyFunction
  <2>3. BindingsSound(EmptyFunction, issued)
    BY <2>2, SoundIfParts DEF VersionsSound
  <2> QED BY <2>1, <2>3
<1>2. CASE head # None
  BY <1>2 DEF VersionsSound, Prior
<1> QED BY <1>1, <1>2

LEMMA AssignedSound ==
  ASSUME VersionsSound, NEW p \in Present
  PROVE  /\ Assigned(p).object \in Ids /\ Assigned(p).over \in Ids
         /\ Assigned(p).object[1] <= issued + 1
<1> DEFINE fresh == <<issued + 1, p>>
           q == CHOOSE x \in Continues(p) : TRUE
<1>1. issued \in Nat /\ p \in Paths
  BY DEF VersionsSound, Present
<1>2. fresh \in Ids /\ fresh[1] = issued + 1
  BY <1>1 DEF Ids
<1>3. CASE Continues(p) = {}
  BY <1>1, <1>2, <1>3 DEF Assigned
<1>4. CASE Continues(p) # {}
  <2>1. q \in Continues(p)
    BY <1>4
  <2>2. q \in DOMAIN Prior.bindings
    BY <2>1 DEF Continues
  <2> DEFINE b == Prior.bindings[q]
  <2>3. b.object \in Ids /\ b.over \in Ids /\ b.object[1] \in Nat /\ b.object[1] <= issued
    BY <1>1, <2>2, PriorSound, BindingParts
  <2>4. Assigned(p).object = b.object /\ Assigned(p).over \in {b.over, fresh}
    BY <1>4 DEF Assigned
  <2> HIDE DEF b, fresh
  <2> QED BY <1>1, <1>2, <2>3, <2>4
<1> QED BY <1>3, <1>4

LEMMA CapturedSound ==
  ASSUME VersionsSound
  PROVE  BindingsSound(Captured.bindings, issued + 1)
<1> DEFINE b == Captured.bindings
<1>1. b = [p \in Present |-> [object |-> Assigned(p).object, kind |-> "regular_file",
                              over |-> Assigned(p).over, data |-> ws[p].data]]
  BY DEF Captured
<1>2. issued + 1 \in Nat
  BY DEF VersionsSound
<1>3. ASSUME NEW p \in Present
      PROVE  p \in Paths /\ b[p] \in FileBinding /\ b[p].object[1] <= issued + 1
  <2>1. p \in Paths /\ ws[p] \in File
    BY DEF Present, VersionsSound
  <2>2. ws[p].data \in Contents \cup {Torn}
    BY <2>1 DEF File
  <2>3. b[p] = [object |-> Assigned(p).object, kind |-> "regular_file",
                over |-> Assigned(p).over, data |-> ws[p].data]
    BY <1>1
  <2>4. /\ Assigned(p).object \in Ids /\ Assigned(p).over \in Ids
        /\ Assigned(p).object[1] <= issued + 1
    BY AssignedSound
  <2> HIDE DEF b
  <2> QED BY <2>1, <2>2, <2>3, <2>4 DEF FileBinding, Kinds
<1>4. DOMAIN b = Present /\ b = [p \in DOMAIN b |-> b[p]]
  BY <1>1
<1> HIDE DEF b
<1>5. BindingsSound(b, issued + 1)
  BY <1>2, <1>3, <1>4, SoundIfParts
<1> QED BY <1>5 DEF b

-----------------------------------------------------------------------------
(* The invariant of Versions is inductive.                                 *)

\* A Version is added under a new name.
LEMMA AddedSound ==
  ASSUME VersionsSound, NEW id \in VersionIds, NEW v, NEW n \in Nat, issued <= n,
         id[1] = "capture" => id[2] <= n, BindingsSound(v.bindings, n), Valid(v),
         versions' = Put(versions, id, v) \/ versions' = versions, issued' = n
  PROVE  /\ DOMAIN versions' \subseteq VersionIds
         /\ \A x \in DOMAIN versions' : /\ x[1] = "capture" => x[2] <= issued'
                                        /\ BindingsSound(versions'[x].bindings, issued')
                                        /\ Valid(versions'[x])
<1>1. /\ issued \in Nat /\ DOMAIN versions \subseteq VersionIds
      /\ \A x \in DOMAIN versions : /\ x[1] = "capture" => x[2] <= issued
                                    /\ BindingsSound(versions[x].bindings, issued)
                                    /\ Valid(versions[x])
  BY DEF VersionsSound
<1>2. \A x \in VersionIds : x[2] \in Nat
  BY DEF VersionIds
<1>3. \A x \in DOMAIN versions : x[1] = "capture" => x[2] <= n
  BY <1>1, <1>2
<1>4. \A x \in DOMAIN versions : BindingsSound(versions[x].bindings, n)
  BY <1>1, SoundLater
<1>5. CASE versions' = versions
  BY <1>1, <1>3, <1>4, <1>5
<1>6. CASE versions' = Put(versions, id, v)
  <2>1. DOMAIN versions' = DOMAIN versions \cup {id} /\ versions'[id] = v
        /\ \A x \in DOMAIN versions : x # id => versions'[x] = versions[x]
    BY <1>6, SMT DEF Put
  <2> QED BY <1>1, <1>3, <1>4, <2>1
<1> QED BY <1>5, <1>6

\* The deltas that a call works on.
LEMMA CallDeltas ==
  ASSUME LockInv, EnvelopesSound, NEW p \in Procs, pc[p] # "idle"
  PROVE  /\ Proposed(job[p].set) /\ WellFormed(Of(p)) /\ Of(p) \subseteq Delta
         /\ DerivedFrom(Of(p), BaseOf(job[p].set))
         /\ \A d \in Of(p) : PathsOf({d}) \subseteq Shared /\ PathsOf({d}) \subseteq PathsOf(Of(p))
<1>1. Proposed(job[p].set)
  BY DEF LockInv, IsJob
<1>2. WellFormed(Of(p)) /\ Of(p) \subseteq Delta /\ DerivedFrom(Of(p), BaseOf(job[p].set))
  BY <1>1 DEF Proposed, EnvelopesSound, Of
<1>3. ASSUME NEW d \in Of(p)
      PROVE  PathsOf({d}) \subseteq Shared /\ PathsOf({d}) \subseteq PathsOf(Of(p))
  <2>1. d \in Delta
    BY <1>2, <1>3
  <2> QED BY <2>1, <1>3, DeltaParts DEF PathsOf
<1> QED BY <1>1, <1>2, <1>3

LEMMA PathsOfDelta ==
  ASSUME NEW d
  PROVE  /\ d.before # None => d.before.path \in PathsOf({d})
         /\ d.after # None => d.after.path \in PathsOf({d})
         /\ \A q \in PathsOf({d}) : \/ d.before # None /\ q = d.before.path
                                    \/ d.after # None /\ q = d.after.path
BY DEF PathsOf

\* What a call knows while it publishes.
LEMMA PublishFacts ==
  ASSUME LockInv, PublishInv, NEW p \in Procs, pc[p] \in PublishSteps
  PROVE  /\ Proposed(job[p].set) /\ Active(job[p].set)
         /\ pc[p] = "move" => job[p].todo \subseteq Moves(Of(p))
         /\ pc[p] = "remove" => job[p].todo \subseteq Removals(Of(p))
         /\ pc[p] \in {"install", "rewrite"} => job[p].todo \subseteq {d \in Of(p) : d.after # None}
         /\ pc[p] = "rewrite" => job[p].at \in Moves(Of(p)) /\ job[p].at.staged
<1>1. Proposed(job[p].set) /\ job[p].set \in ChangeSets /\ pc[p] \in JudgedSteps
  BY DEF LockInv, IsJob, Proposed, JudgedSteps, PublishSteps
<1>2. Active(job[p].set) /\ TodoSound(p, job[p].set)
  BY <1>1 DEF PublishInv
<1> QED BY <1>1, <1>2 DEF TodoSound, Of

LEMMA FileUpdates ==
  ASSUME NEW f \in File, NEW x \in Contents \cup {Torn}, NEW l \in BOOLEAN
  PROVE  /\ [f EXCEPT !.data = x] \in File
         /\ [f EXCEPT !.late = l] \in File
         /\ [f EXCEPT !.data = x, !.late = l] \in File
         /\ [f EXCEPT !.data = x].data = x
         /\ [f EXCEPT !.late = l].late = l
         /\ [f EXCEPT !.data = x, !.late = l].data = x
BY DEF File

\* Files stay files.
LEMMA FilesStep ==
  ASSUME ChangeSetInv, [Next]_allVars
  PROVE  ws' \in [Paths -> File \cup {None}]
<1> DEFINE Files == ws' \in [Paths -> File \cup {None}]
<1>0. /\ ws \in [Paths -> File \cup {None}] /\ issued \in Nat
      /\ LockInv /\ EnvelopesSound /\ PublishInv /\ Shared \subseteq Paths
  BY ConstantFacts DEF ChangeSetInv, VersionsSound
<1>1. ASSUME UNCHANGED ws PROVE Files
  BY <1>0, <1>1
<1>2. ASSUME NEW q \in Paths, NEW x \in File \cup {None}, ws' = [ws EXCEPT ![q] = x]
      PROVE  Files
  BY <1>0, <1>2
<1>3. ASSUME NEW q \in Paths, NEW r \in Paths, NEW x \in File \cup {None},
             ws' = [ws EXCEPT ![q] = x, ![r] = None] \/ ws' = [ws EXCEPT ![r] = None, ![q] = x]
      PROVE  Files
  BY <1>0, <1>3
<1>4. ASSUME NEW i \in Nat, NEW x \in Contents \cup {Torn}, NEW l \in BOOLEAN
      PROVE  [ino |-> i, data |-> x, late |-> l] \in File
  BY DEF File
<1>5. ASSUME NEW q \in Paths, ws[q] # None
      PROVE  ws[q] \in File /\ ws[q].ino \in Nat
  <2>1. ws[q] \in File
    BY <1>0, <1>5
  <2> QED BY <2>1 DEF File
<1>6. ASSUME NEW p \in Procs, NEW d \in Of(p), pc[p] # "idle"
      PROVE  /\ d.before # None => d.before.path \in Paths
             /\ d.after # None => d.after.path \in Paths /\ d.after.data \in Contents
                                                                \cup {Torn}
  <2>1. d \in Delta
    BY <1>0, <1>6, CallDeltas
  <2> QED BY <1>0, <2>1, DeltaParts
<1>7. ASSUME NEW p \in Procs, NEW d \in Written(Of(p)), pc[p] \in PublishSteps
      PROVE  work[d.object] = d.after.data
  <2>1. job[p].set \in ChangeSets /\ Active(job[p].set)
    BY <1>0, <1>7, PublishFacts DEF Proposed
  <2> QED BY <1>0, <1>7, <2>1 DEF PublishInv, Of
<1> HIDE DEF Files
<1>8. ASSUME UNCHANGED allVars \/ Capture PROVE Files
  BY <1>1, <1>8 DEF allVars, vars, Capture, Seal
<1>9. ASSUME NEW q \in Paths, Edit(q) PROVE Files
  <2>1. \A r : Late(r) \in BOOLEAN
    BY DEF Late
  <2>2. ASSUME NEW x \in UserContents,
               ws' = [ws EXCEPT ![q] = [ino |-> IF ws[q] = None THEN issued + 1 ELSE ws[q].ino,
                                        data |-> x, late |-> Late(q)]]
        PROVE  Files
    <3> DEFINE i == IF ws[q] = None THEN issued + 1 ELSE ws[q].ino
    <3>1. x \in Contents \cup {Torn}
      BY ConstantFacts
    <3>2. i \in Nat
      BY <1>0, <1>5
    <3>3. [ino |-> i, data |-> x, late |-> Late(q)] \in File
      BY <1>4, <2>1, <3>1, <3>2
    <3> QED BY <1>2, <2>2, <3>3
  <2>3. CASE ws' = [ws EXCEPT ![q] = None]
    BY <1>2, <2>3
  <2>4. ASSUME NEW r \in Paths, ws[q] # None,
               ws' = [ws EXCEPT ![q] = None, ![r] = [ws[q] EXCEPT !.late = Late(r)]]
        PROVE  Files
    <3>1. [ws[q] EXCEPT !.late = Late(r)] \in File
      BY <1>5, <2>1, <2>4, FileUpdates
    <3> QED BY <1>3, <2>4, <3>1
  <2> QED BY <1>9, <2>2, <2>3, <2>4 DEF Edit
<1>10. ASSUME \E c \in ChangeSets : Checkout(c) \/ ProposeChangeSet(c) PROVE Files
  BY <1>1, <1>10 DEF Checkout, ProposeChangeSet, Seal
<1>11. ASSUME \E p \in Procs, c \in ChangeSets : Begin(p, c) PROVE Files
  BY <1>1, <1>11 DEF Begin, BeginFresh, ResumePrepared, ResumePublished, ResumeCompleted
<1>12. ASSUME \E p \in Procs : Crash(p) PROVE Files
  BY <1>1, <1>12 DEF Crash
<1>13. ASSUME NEW p \in Procs, Progress(p) PROVE Files
  <2>1. CASE Prepare(p) \/ NextStage(p) \/ JournalPublished(p) \/ SealFinal(p)
    BY <1>1, <2>1 DEF Prepare, NextStage, JournalPublished, SealFinal, Seal
  <2>2. CASE \/ StartHistory(p) \/ ReuseHistory(p) \/ RefuseHistory(p)
             \/ InstallProposal(p) \/ MoveHead(p) \/ PublishReceipt(p) \/ Cleanup(p)
    BY <1>1, <2>2 DEF StartHistory, ReuseHistory, RefuseHistory, InstallProposal, MoveHead,
                      PublishReceipt, Cleanup
  <2>3. CASE Move(p)
    <3>1. PICK d \in job[p].todo :
            \/ UNCHANGED ws
            \/ ws' = [ws EXCEPT ![d.after.path] = ws[d.before.path], ![d.before.path] = None]
      BY <2>3 DEF Move, Job
    <3>2. d \in Of(p) /\ d.before # None /\ d.after # None /\ pc[p] # "idle"
      BY <1>0, <2>3, <3>1, PublishFacts DEF Move, Moves, PublishSteps
    <3>3. d.before.path \in Paths /\ d.after.path \in Paths /\ ws[d.before.path] \in File \cup {None}
      BY <1>0, <1>6, <3>2
    <3> QED BY <1>1, <1>3, <3>1, <3>3
  <2>4. CASE Remove(p)
    <3>1. PICK d \in job[p].todo : ws' = [ws EXCEPT ![d.before.path] = None]
      BY <2>4 DEF Remove, Job
    <3>2. d \in Of(p) /\ d.before # None /\ pc[p] # "idle"
      BY <1>0, <2>4, <3>1, PublishFacts DEF Remove, Removals, PublishSteps
    <3> QED BY <1>2, <1>6, <3>1, <3>2
  <2>5. CASE Rewrite(p)
    <3> DEFINE d == job[p].at  q == d.after.path
    <3>1. d \in Moves(Of(p)) /\ d.staged /\ pc[p] = "rewrite"
      BY <1>0, <2>5, PublishFacts DEF Rewrite, PublishSteps
    <3>2. d \in Written(Of(p)) /\ d \in Of(p) /\ d.after # None
      BY <3>1 DEF Written, Moves
    <3>3. q \in Paths /\ work[d.object] \in Contents \cup {Torn}
      BY <1>6, <1>7, <3>1, <3>2 DEF PublishSteps
    <3>4. \/ UNCHANGED ws
          \/ /\ ws[q] # None
             /\ ws' = [ws EXCEPT ![q] = [ws[q] EXCEPT !.data = work[d.object], !.late = FALSE]]
      BY <2>5 DEF Rewrite, Job
    <3> HIDE DEF d, q
    <3>5. ASSUME ws[q] # None
          PROVE  [ws[q] EXCEPT !.data = work[d.object], !.late = FALSE] \in File
      BY <1>5, <3>3, <3>5, FileUpdates
    <3> QED BY <1>1, <1>2, <3>3, <3>4, <3>5
  <2>6. ASSUME NEW d \in job[p].todo, VerifyMoved(p, d) \/ Truncate(p, d) \/ Install(p, d)
        PROVE  Files
    <3>1. d \in Of(p) /\ d.after # None /\ pc[p] = "install"
      BY <1>0, <2>6, PublishFacts DEF VerifyMoved, Truncate, Install, Ready, Job, PublishSteps
    <3> DEFINE q == d.after.path
    <3>2. q \in Paths
      BY <1>6, <3>1
    <3>3. CASE VerifyMoved(p, d)
      BY <1>1, <3>3 DEF VerifyMoved
    <3>4. CASE Truncate(p, d)
      <4>1. \/ UNCHANGED ws
            \/ ws[q] # None /\ ws' = [ws EXCEPT ![q] = [ws[q] EXCEPT !.data = Torn]]
        BY <3>4 DEF Truncate
      <4>2. ASSUME ws[q] # None
            PROVE  [ws[q] EXCEPT !.data = Torn] \in File
        BY <1>5, <3>2, <4>2, FileUpdates
      <4> QED BY <1>1, <1>2, <3>2, <4>1, <4>2
    <3>5. CASE Install(p, d)
      <4>1. \/ UNCHANGED ws
            \/ ws' = [ws EXCEPT ![q] = None]
            \/ ws' = [ws EXCEPT ![q] = [ino |-> issued + 1, data |-> work[d.object], late |-> FALSE]]
        BY <3>5 DEF Install
      <4>2. d \in Written(Of(p))
        BY <3>1, <3>5 DEF Install, Written
      <4>3. work[d.object] \in Contents \cup {Torn} /\ issued + 1 \in Nat
        BY <1>0, <1>6, <1>7, <3>1, <4>2 DEF PublishSteps
      <4> QED BY <1>1, <1>2, <1>4, <3>2, <4>1, <4>3
    <3> QED BY <2>6, <3>3, <3>4, <3>5
  <2> QED BY <1>13, <2>1, <2>2, <2>3, <2>4, <2>5, <2>6 DEF Progress, Publish, Job
<1> QED BY <1>8, <1>9, <1>10, <1>11, <1>12, <1>13 DEF Next, Files

LEMMA VersionsStep ==
  ASSUME ChangeSetInv, [Next]_allVars
  PROVE  VersionsSound'
<1> DEFINE Goal == /\ DOMAIN versions' \subseteq VersionIds
                   /\ \A x \in DOMAIN versions' : /\ x[1] = "capture" => x[2] <= issued'
                                                  /\ BindingsSound(versions'[x].bindings, issued')
                                                  /\ Valid(versions'[x])
           Headed == head' # None => head' \in DOMAIN versions'
           Some == <<"proposal", 0>>
<1>0. VersionsSound /\ LockInv /\ issued \in Nat /\ issued' \in Nat /\ issued <= issued'
  BY VersionsGrow DEF ChangeSetInv
<1>1. ASSUME versions' = versions
      PROVE  Goal
  <2>1. \A x \in DOMAIN versions : x \in VersionIds /\ x[2] \in Nat
    BY <1>0 DEF VersionsSound, VersionIds
  <2>2. \A x \in DOMAIN versions : BindingsSound(versions[x].bindings, issued')
    BY <1>0, SoundLater DEF VersionsSound
  <2>3. \A x \in DOMAIN versions : x[1] = "capture" => x[2] <= issued'
    BY <1>0, <2>1 DEF VersionsSound
  <2> QED BY <1>0, <1>1, <2>1, <2>2, <2>3 DEF VersionsSound
<1>2. ASSUME Seal
      PROVE  Goal
  <2>1. CASE versions' = versions
    BY <1>1, <2>1
  <2>2. CASE InstallCapture(Captured)
    <3> DEFINE id == <<"capture", issued + 1>>
    <3>1. versions' = Put(versions, id, Captured) /\ issued' = issued + 1 /\ Valid(Captured)
      BY <1>2, <2>2 DEF InstallCapture, Seal
    <3>2. id \in VersionIds /\ id[2] = issued + 1 /\ issued + 1 \in Nat /\ issued <= issued + 1
      BY <1>0 DEF VersionIds, Roles
    <3> HIDE DEF id
    <3> QED BY <1>0, <3>1, <3>2, CapturedSound, AddedSound
  <2> QED BY <1>2, <2>1, <2>2 DEF Seal, historyVars
<1>4. ASSUME UNCHANGED head PROVE Headed
  BY <1>0, <1>4, VersionsGrow DEF VersionsSound
<1>6. ASSUME NEW c, Proposed(c)
      PROVE  /\ BindingsSound(BaseOf(c).bindings, issued) /\ WellFormed(Deltas(c))
             /\ Deltas(c) \subseteq Delta /\ \A d \in Deltas(c) : d.object[1] <= issued
             /\ BindingsSound(Proposal(c).bindings, issued)
             /\ \A i \in DOMAIN versions : /\ BindingsSound(Current(c, versions[i]).bindings, issued)
                                           /\ BindingsSound(Merge(c, versions[i]).bindings, issued)
  <2>1. BindingsSound(BaseOf(c).bindings, issued) /\ WellFormed(Deltas(c))
        /\ Deltas(c) \subseteq Delta /\ \A d \in Deltas(c) : d.object[1] <= issued
    BY <1>6 DEF ChangeSetInv, EnvelopesSound, VersionsSound, BaseOf, Proposed
  <2>2. BindingsSound(Proposal(c).bindings, issued)
    BY <1>0, <2>1, ProposalSound DEF Proposal
  <2>3. \A i \in DOMAIN versions : BindingsSound(Current(c, versions[i]).bindings, issued)
    BY <1>0, <2>1, CurrentSound DEF Current, VersionsSound
  <2>4. \A i \in DOMAIN versions : BindingsSound(Merge(c, versions[i]).bindings, issued)
    BY <1>0, <2>2, MergeSound DEF Merge, VersionsSound
  <2> QED BY <2>1, <2>2, <2>3, <2>4
<1>7. ASSUME NEW c, NEW i \in DOMAIN versions, Proposed(c), issued' = issued,
             CanBuildCurrent(c, versions[i]), versions' = WithCurrent(c, versions[i])
      PROVE  Goal
  <2> DEFINE f == versions[i]
  <2>1. CASE ~ Diverged(c, f)
    BY <1>1, <1>7, <2>1 DEF WithCurrent
  <2>2. CASE Diverged(c, f)
    <3>1. versions' = Put(versions, CurrentId(c), Current(c, f)) /\ Valid(Current(c, f))
      BY <1>7, <2>2 DEF WithCurrent, CanBuildCurrent
    <3>2. CurrentId(c) \in VersionIds /\ CurrentId(c)[1] # "capture"
      BY <1>7, IdsTyped DEF Proposed, CurrentId
    <3> QED BY <1>0, <1>6, <1>7, <3>1, <3>2, AddedSound
  <2> QED BY <2>1, <2>2
<1> HIDE DEF Goal, Headed
<1>8. ASSUME UNCHANGED allVars PROVE Goal /\ Headed
  BY <1>1, <1>4, <1>8 DEF allVars, vars, historyVars
<1>9. ASSUME \E q \in Paths : Edit(q) PROVE Goal /\ Headed
  BY <1>1, <1>4, <1>9 DEF Edit, historyVars
<1>10. ASSUME Capture \/ \E c \in ChangeSets : Checkout(c) PROVE Goal /\ Headed
  BY <1>0, <1>2, <1>10, SealGrows DEF Capture, Checkout, Headed
<1>11. ASSUME \E c \in ChangeSets : ProposeChangeSet(c) PROVE Goal /\ Headed
  BY <1>1, <1>4, <1>11 DEF ProposeChangeSet, historyVars
<1>12. ASSUME \E p \in Procs, c \in ChangeSets : Begin(p, c) PROVE Goal /\ Headed
  BY <1>1, <1>4, <1>12 DEF Begin, BeginFresh, ResumePrepared, ResumePublished, ResumeCompleted, historyVars
<1>13. ASSUME \E p \in Procs : Crash(p) PROVE Goal /\ Headed
  BY <1>1, <1>4, <1>13 DEF Crash, historyVars
<1>14. ASSUME NEW p \in Procs, Progress(p) PROVE Goal /\ Headed
  <2>1. CASE Prepare(p) \/ Move(p) \/ Remove(p) \/ NextStage(p) \/ Rewrite(p) \/ JournalPublished(p)
    BY <1>1, <1>4, <2>1 DEF Prepare, Move, Remove, NextStage, Rewrite, JournalPublished, historyVars
  <2>2. CASE Publish(p)
    BY <1>1, <1>4, <2>2 DEF Publish, VerifyMoved, Truncate, Install, historyVars
  <2>3. CASE SealFinal(p)
    BY <1>0, <1>2, <2>3, SealGrows DEF SealFinal, Headed
  <2>4. CASE ReuseHistory(p) \/ PublishReceipt(p) \/ Cleanup(p)
    BY <1>1, <1>4, <2>4 DEF ReuseHistory, PublishReceipt, Cleanup, historyVars
  <2>5. CASE StartHistory(p) \/ RefuseHistory(p) \/ InstallProposal(p) \/ MoveHead(p)
    <3> DEFINE c == job[p].set  i == job[p].final
    <3>1. pc[p] \in {"history", "proposal", "head"} /\ UNCHANGED issued
      BY <2>5 DEF StartHistory, RefuseHistory, InstallProposal, MoveHead
    <3>2. Proposed(c) /\ i \in DOMAIN versions /\ FinalSound
      BY <3>1, <1>0 DEF LockInv, IsJob, ChangeSetInv, FinalSound, FinalSteps
    <3>3. ProposalId(c) \in VersionIds /\ ProposalId(c)[1] # "capture"
          /\ MergeId(c) \in VersionIds /\ MergeId(c)[1] # "capture"
      BY <3>2, IdsTyped DEF Proposed, ProposalId, MergeId
    <3>4. ASSUME StartHistory(p) PROVE Goal /\ Headed
      <4>1. versions' = WithCurrent(c, versions[i]) /\ CanBuildCurrent(c, versions[i]) /\ UNCHANGED head
        BY <3>4 DEF StartHistory, CanFinalize
      <4> QED BY <1>4, <1>7, <3>1, <3>2, <4>1
    <3>5. ASSUME RefuseHistory(p) PROVE Goal /\ Headed
      <4>1. \/ versions' = versions
            \/ versions' = WithCurrent(c, versions[i]) /\ CanBuildCurrent(c, versions[i])
        BY <3>5 DEF RefuseHistory
      <4>2. UNCHANGED head
        BY <3>5 DEF RefuseHistory
      <4> QED BY <1>1, <1>4, <1>7, <3>1, <3>2, <4>1, <4>2
    <3>6. ASSUME InstallProposal(p) PROVE Goal /\ Headed
      <4>1. versions' = Put(versions, ProposalId(c), Proposal(c)) /\ UNCHANGED head /\ pc[p] = "proposal"
        BY <3>6 DEF InstallProposal
      <4>2. Valid(Proposal(c))
        BY <1>0, <3>2, <4>1, FinalFacts
      <4> QED BY <1>0, <1>4, <1>6, <3>1, <3>2, <3>3, <4>1, <4>2, AddedSound DEF Goal
    <3>7. ASSUME MoveHead(p) PROVE Goal /\ Headed
      <4>1. /\ pc[p] = "head" /\ ProposalId(c) \in DOMAIN versions
            /\ versions' = IF Diverged(c, versions[i])
                           THEN Put(versions, MergeId(c), Merge(c, versions[i])) ELSE versions
            /\ head' = IF Diverged(c, versions[i]) THEN MergeId(c) ELSE ProposalId(c)
        BY <1>0, <3>2, <3>7, FinalFacts DEF MoveHead
      <4>2. CASE ~ Diverged(c, versions[i])
        BY <1>1, <4>1, <4>2 DEF Headed
      <4>3. CASE Diverged(c, versions[i])
        <5>1. Valid(Merge(c, versions[i]))
          BY <1>0, <3>2, <4>1, <4>3, FinalFacts
        <5>2. versions' = Put(versions, MergeId(c), Merge(c, versions[i]))
          BY <4>1, <4>3
        <5>3. Goal
          BY <1>0, <1>6, <3>1, <3>2, <3>3, <5>1, <5>2, AddedSound DEF Goal
        <5>4. head' \in DOMAIN versions'
          BY <4>1, <4>3, <5>2 DEF Put
        <5> QED BY <5>3, <5>4 DEF Headed
      <4> QED BY <4>2, <4>3
    <3> QED BY <2>5, <3>4, <3>5, <3>6, <3>7
  <2> QED BY <1>14, <2>1, <2>2, <2>3, <2>4, <2>5 DEF Progress
<1>15. Goal /\ Headed
  <2> QED BY <1>8, <1>9, <1>10, <1>11, <1>12, <1>13, <1>14 DEF Next
<1>16. ws' \in [Paths -> File \cup {None}]
  BY FilesStep
<1> QED BY <1>0, <1>15, <1>16 DEF VersionsSound, Goal, Headed

-----------------------------------------------------------------------------
(* The invariant of the lock and of the calls is inductive.                *)

\* What is known of the calls: the part of LockInv about the processes.
CallsInv ==
  /\ pc \in [Procs -> Steps]
  /\ \A p \in Procs : pc[p] \in LockedSteps <=> holder = p
  /\ DOMAIN job = Procs /\ \A p \in Procs : pc[p] # "idle" => IsJob(job[p])

LEMMA JobUpdates ==
  ASSUME NEW j, IsJob(j), NEW x
  PROVE  /\ IsJob([j EXCEPT !.todo = x]) /\ [j EXCEPT !.todo = x].set = j.set
         /\ [j EXCEPT !.todo = x].todo = x /\ [j EXCEPT !.todo = x].at = j.at
         /\ [j EXCEPT !.todo = x].final = j.final
         /\ IsJob([j EXCEPT !.final = x]) /\ [j EXCEPT !.final = x].set = j.set
         /\ [j EXCEPT !.final = x].final = x
         /\ IsJob([j EXCEPT !.at = x]) /\ [j EXCEPT !.at = x].set = j.set
         /\ [j EXCEPT !.at = x].at = x /\ [j EXCEPT !.at = x].todo = j.todo
         /\ IsJob([j EXCEPT !.result = x]) /\ [j EXCEPT !.result = x].set = j.set
<1> DEFINE k == [set |-> j.set, final |-> j.final, result |-> j.result, todo |-> j.todo, at |-> j.at]
<1>1. j = k /\ Proposed(k.set)
  BY DEF IsJob
<1>2. /\ [k EXCEPT !.todo = x] = [set |-> j.set, final |-> j.final, result |-> j.result, todo |-> x, at |-> j.at]
      /\ [k EXCEPT !.final = x] = [set |-> j.set, final |-> x, result |-> j.result, todo |-> j.todo, at |-> j.at]
      /\ [k EXCEPT !.at = x] = [set |-> j.set, final |-> j.final, result |-> j.result, todo |-> j.todo, at |-> x]
      /\ [k EXCEPT !.result = x] = [set |-> j.set, final |-> j.final, result |-> x, todo |-> j.todo, at |-> j.at]
  OBVIOUS
<1> QED BY <1>1, <1>2 DEF IsJob

LEMMA ApplyingIsJob ==
  ASSUME NEW c, Proposed(c), NEW todo, NEW x
  PROVE  /\ IsJob(Applying(c, todo)) /\ Applying(c, todo).set = c /\ Applying(c, todo).todo = todo
         /\ IsJob([Applying(c, todo) EXCEPT !.result = x])
         /\ [Applying(c, todo) EXCEPT !.result = x].set = c
<1>1. IsJob(Applying(c, todo)) /\ Applying(c, todo).set = c /\ Applying(c, todo).todo = todo
  BY DEF IsJob, Applying
<1> QED BY <1>1, JobUpdates

\* A step that ends with the lock held, and one that ends without it.
LEMMA HoldStep ==
  ASSUME CallsInv, NEW p \in Procs, NEW s \in LockedSteps, NEW j, Holding(p, s, j),
         holder \in {None, p}, IsJob(j), \A c : Proposed(c) => Proposed(c)'
  PROVE  CallsInv'
<1>1. holder' = p /\ pc' = [pc EXCEPT ![p] = s] /\ job' = [job EXCEPT ![p] = j]
  BY DEF Holding
<1>2. pc' \in [Procs -> Steps] /\ pc'[p] = s /\ job'[p] = j /\ DOMAIN job' = Procs
      /\ \A q \in Procs : q # p => pc'[q] = pc[q] /\ job'[q] = job[q]
  BY <1>1 DEF CallsInv, LockedSteps, PublishSteps, Steps
<1>3. \A q \in Procs : q # p => holder # q
  BY ConstantFacts
<1>4. \A q \in Procs : pc'[q] \in LockedSteps <=> holder' = q
  BY <1>1, <1>2, <1>3 DEF CallsInv
<1>5. \A q \in Procs : pc'[q] # "idle" => IsJob(job'[q])
  BY <1>2 DEF CallsInv
<1> QED BY <1>2, <1>4, <1>5 DEF CallsInv, IsJob

LEMMA FreeStep ==
  ASSUME CallsInv, NEW p \in Procs, NEW s \in Steps \ LockedSteps, NEW j,
         pc' = [pc EXCEPT ![p] = s], job' = [job EXCEPT ![p] = j],
         holder' = IF holder = p THEN None ELSE holder,
         s # "idle" => IsJob(j), \A c : Proposed(c) => Proposed(c)'
  PROVE  CallsInv'
<1>2. pc' \in [Procs -> Steps] /\ pc'[p] = s /\ job'[p] = j /\ DOMAIN job' = Procs
      /\ \A q \in Procs : q # p => pc'[q] = pc[q] /\ job'[q] = job[q]
  BY DEF CallsInv
<1>3. \A q \in Procs : q # None
  BY ConstantFacts
<1>4. \A q \in Procs : pc'[q] \in LockedSteps <=> holder' = q
  BY <1>2, <1>3 DEF CallsInv
<1>5. \A q \in Procs : pc'[q] # "idle" => IsJob(job'[q])
  BY <1>2 DEF CallsInv
<1> QED BY <1>2, <1>4, <1>5 DEF CallsInv, IsJob

LEMMA ReleaseStep ==
  ASSUME CallsInv, NEW p \in Procs, NEW s \in Steps \ LockedSteps, NEW j, Released(p, s, j),
         holder \in {None, p}, s # "idle" => IsJob(j), \A c : Proposed(c) => Proposed(c)'
  PROVE  CallsInv'
<1>1. holder' = IF holder = p THEN None ELSE holder
  BY DEF Released
<1>2. pc' = [pc EXCEPT ![p] = s] /\ job' = [job EXCEPT ![p] = j]
  BY DEF Released
<1> QED BY <1>1, <1>2, FreeStep

LEMMA CallsStep ==
  ASSUME ChangeSetInv, [Next]_allVars
  PROVE  CallsInv'
<1>0. /\ CallsInv /\ LockInv /\ \A c : Proposed(c) => Proposed(c)'
      /\ \A p \in Procs : pc[p] \in LockedSteps => holder \in {None, p}
  BY ProposedStays DEF ChangeSetInv, LockInv, CallsInv
<1>1. ASSUME UNCHANGED volatile PROVE CallsInv'
  BY <1>0, <1>1 DEF CallsInv, IsJob, volatile
<1>2. ASSUME NEW p \in Procs, pc[p] # "idle" PROVE IsJob(job[p])
  BY <1>0, <1>2 DEF CallsInv
<1>3. ASSUME NEW p \in Procs, GiveUp(p), holder \in {None, p} PROVE CallsInv'
  BY <1>0, <1>3, ReleaseStep DEF GiveUp, Steps, LockedSteps, PublishSteps
<1>4. ASSUME UNCHANGED allVars PROVE CallsInv'
  BY <1>1, <1>4 DEF allVars, vars
<1>5. ASSUME NEW q \in Paths, Edit(q) PROVE CallsInv'
  BY <1>1, <1>5 DEF Edit
<1>6. ASSUME NEW c \in ChangeSets, Checkout(c) \/ ProposeChangeSet(c) PROVE CallsInv'
  BY <1>1, <1>6 DEF Checkout, ProposeChangeSet
<1>7. ASSUME Capture PROVE CallsInv'
  BY <1>1, <1>7 DEF Capture
<1>8. ASSUME NEW p \in Procs, NEW c \in ChangeSets, Begin(p, c) PROVE CallsInv'
  <2>1. holder = None /\ Proposed(c)
    BY <1>8 DEF Begin, BeginFresh, ResumePrepared, ResumePublished, ResumeCompleted, Callable, Proposed
  <2>2. IsJob(Applying(c, {})) /\ IsJob(Applying(c, Moves(Deltas(c))))
        /\ IsJob([Applying(c, {}) EXCEPT !.result = Inventory])
    BY <2>1, ApplyingIsJob
  <2>3. CASE ResumePublished(p, c)
    BY <1>0, <2>1, <2>2, <2>3, ReleaseStep
       DEF ResumePublished, Steps, LockedSteps, PublishSteps
  <2>4. CASE BeginFresh(p, c) \/ ResumeCompleted(p, c)
    <3>1. Holding(p, "prepare", Applying(c, {})) \/ Holding(p, "cleanup", Applying(c, {}))
      BY <2>4 DEF BeginFresh, ResumeCompleted
    <3> QED BY <1>0, <2>1, <2>2, <3>1, HoldStep DEF LockedSteps
  <2>5. CASE ResumePrepared(p, c)
    <3>1. Holding(p, "move", Applying(c, Moves(Deltas(c))))
      BY <2>5 DEF ResumePrepared
    <3> QED BY <1>0, <2>1, <2>2, <3>1, HoldStep DEF LockedSteps, PublishSteps
  <2> QED BY <1>8, <2>3, <2>4, <2>5 DEF Begin
<1>9. ASSUME NEW p \in Procs, Progress(p) PROVE CallsInv'
  <2> DEFINE j == job[p]
  <2>0. pc[p] # "idle" /\ IsJob(j)
    BY <1>2, <1>9 DEF Progress
  <2>1. ASSUME NEW s \in LockedSteps, NEW k, IsJob(k), Holding(p, s, k), holder \in {None, p}
        PROVE  CallsInv'
    BY <1>0, <2>1, HoldStep
  <2>2. ASSUME NEW x
        PROVE  IsJob([j EXCEPT !.todo = x]) /\ IsJob([j EXCEPT !.final = x])
               /\ IsJob([j EXCEPT !.at = x]) /\ IsJob([[j EXCEPT !.todo = x] EXCEPT !.at = None])
    BY <2>0, JobUpdates
  <2>3. pc[p] \in LockedSteps => holder \in {None, p}
    BY <1>0
  <2> HIDE DEF j
  <2>4. CASE Prepare(p)
    <3>1. Holding(p, "move", [j EXCEPT !.todo = Moves(Of(p))]) /\ pc[p] = "prepare"
      BY <2>4 DEF Prepare, Job, j
    <3> QED BY <2>1, <2>2, <2>3, <3>1 DEF LockedSteps, PublishSteps
  <2>5. CASE Move(p) \/ Remove(p)
    <3>1. PICK d : \/ Holding(p, "move", [j EXCEPT !.todo = @ \ {d}])
                   \/ Holding(p, "remove", [j EXCEPT !.todo = @ \ {d}]) \/ GiveUp(p)
      BY <2>5 DEF Move, Remove, Done, Job, j
    <3>2. pc[p] \in LockedSteps
      BY <2>5 DEF Move, Remove, LockedSteps, PublishSteps
    <3> QED BY <1>3, <2>1, <2>2, <2>3, <3>1, <3>2 DEF LockedSteps, PublishSteps
  <2>6. CASE NextStage(p)
    <3>1. /\ pc[p] \in LockedSteps
          /\ \/ \E x : Holding(p, "remove", [j EXCEPT !.todo = x])
             \/ \E x : Holding(p, "install", [j EXCEPT !.todo = x])
             \/ Holding(p, "journal", j)
      BY <2>6 DEF NextStage, Job, j, LockedSteps, PublishSteps
    <3> QED BY <2>0, <2>1, <2>2, <2>3, <3>1 DEF LockedSteps, PublishSteps
  <2>7. CASE Rewrite(p)
    <3>1. PICK d : \/ Holding(p, "install", [[j EXCEPT !.todo = @ \ {d}] EXCEPT !.at = None]) \/ GiveUp(p)
      BY <2>7 DEF Rewrite, Done, Job, j
    <3>2. pc[p] \in LockedSteps
      BY <2>7 DEF Rewrite, LockedSteps, PublishSteps
    <3> QED BY <1>3, <2>1, <2>2, <2>3, <3>1, <3>2 DEF LockedSteps, PublishSteps
  <2>8. CASE Publish(p)
    <3>1. PICK d \in j.todo : VerifyMoved(p, d) \/ Truncate(p, d) \/ Install(p, d)
      BY <2>8 DEF Publish, Job, j
    <3>2. pc[p] \in LockedSteps
      BY <2>8 DEF Publish, LockedSteps, PublishSteps
    <3>3. \/ Holding(p, "install", [j EXCEPT !.todo = @ \ {d}]) \/ GiveUp(p)
          \/ Holding(p, "rewrite", [j EXCEPT !.at = d]) \/ UNCHANGED volatile
      BY <3>1 DEF VerifyMoved, Truncate, Install, Done, Job, j
    <3> QED BY <1>1, <1>3, <2>1, <2>2, <2>3, <3>2, <3>3 DEF LockedSteps, PublishSteps
  <2>9. CASE JournalPublished(p)
    <3>1. Released(p, "seal", j) /\ pc[p] \in LockedSteps
      BY <2>9 DEF JournalPublished, Job, j, LockedSteps, PublishSteps
    <3> QED BY <1>0, <2>0, <2>3, <3>1, ReleaseStep DEF Steps, LockedSteps, PublishSteps
  <2>10. CASE SealFinal(p)
    <3>1. /\ pc' = [pc EXCEPT ![p] = "history"] /\ job' = [job EXCEPT ![p] = [j EXCEPT !.final = head']]
          /\ holder' = IF holder = p THEN None ELSE holder
      BY <2>10, ConstantFacts DEF SealFinal, j
    <3> QED BY <1>0, <2>2, <3>1, FreeStep DEF Steps, LockedSteps, PublishSteps
  <2>11. CASE StartHistory(p) \/ InstallProposal(p)
    <3>1. /\ Holding(p, "proposal", j) \/ Holding(p, "head", j)
          /\ holder = None \/ pc[p] \in LockedSteps
      BY <2>11 DEF StartHistory, InstallProposal, Job, j, LockedSteps
    <3> QED BY <2>0, <2>1, <2>3, <3>1 DEF LockedSteps
  <2>12. CASE ReuseHistory(p) \/ MoveHead(p)
    <3>1. /\ Released(p, "receipt", [j EXCEPT !.final = head'])
          /\ holder = None \/ pc[p] \in LockedSteps
      BY <2>12 DEF ReuseHistory, MoveHead, Job, j, LockedSteps, historyVars
    <3> QED BY <1>0, <2>2, <2>3, <3>1, ReleaseStep DEF Steps, LockedSteps, PublishSteps
  <2>13. CASE RefuseHistory(p)
    BY <1>3, <2>13 DEF RefuseHistory
  <2>14. CASE PublishReceipt(p)
    <3>1. (Holding(p, "cleanup", j) \/ GiveUp(p)) /\ holder = None
      BY <2>14 DEF PublishReceipt, Job, j
    <3> QED BY <1>3, <2>0, <2>1, <3>1 DEF LockedSteps
  <2>15. CASE Cleanup(p)
    BY <1>3, <2>3, <2>15 DEF Cleanup, LockedSteps
  <2> QED BY <1>9, <2>4, <2>5, <2>6, <2>7, <2>8, <2>9, <2>10, <2>11, <2>12, <2>13, <2>14, <2>15 DEF Progress
<1>10. ASSUME NEW p \in Procs, Crash(p) PROVE CallsInv'
  BY <1>0, <1>10, FreeStep DEF Crash, Steps, LockedSteps, PublishSteps
<1> QED BY <1>4, <1>5, <1>6, <1>7, <1>8, <1>9, <1>10 DEF Next

\* A completion receipt is an inventory, and so it is something.
LEMMA InventoryIsSomething ==
  ASSUME VersionsSound, NEW id \in DOMAIN versions
  PROVE  InventoryOf(versions[id]) # None
<1> DEFINE v == versions[id]  D == Shared \cap DOMAIN v.bindings
<1>1. \A p \in D : v.bindings[p].data \in Contents \cup {Torn}
  BY BindingParts DEF VersionsSound
<1>2. InventoryOf(v) \in [D -> Contents \cup {Torn}]
  BY <1>1 DEF InventoryOf
<1>3. InventoryOf(v) \in Inventories
  BY <1>2 DEF Inventories, PartialFunctions
<1> QED BY <1>3, ConstantFacts

LEMMA LockStep ==
  ASSUME ChangeSetInv, [Next]_allVars
  PROVE  LockInv'
<1> DEFINE Journal == journal # None => journal \in [set: ChangeSets, phase: Phases] /\ Proposed(journal.set)
           Receipts == \A c \in ChangeSets : receipts[c] # None => Proposed(c)
           Goal == Journal' /\ Receipts' /\ edits' \in Nat
<1>0. /\ Journal /\ Receipts /\ edits \in Nat /\ \A c : Proposed(c) => Proposed(c)'
      /\ CallsInv /\ DOMAIN receipts = ChangeSets
  BY ProposedStays DEF ChangeSetInv, LockInv, CallsInv, EnvelopesSound
<1>1. ASSUME UNCHANGED journal PROVE Journal'
  BY <1>0, <1>1
<1>2. ASSUME UNCHANGED receipts PROVE Receipts'
  BY <1>0, <1>2
<1>3. ASSUME NEW p \in Procs, pc[p] # "idle"
      PROVE  /\ job[p].set \in ChangeSets /\ Proposed(job[p].set)
             /\ \A s \in Phases : journal' = [set |-> job[p].set, phase |-> s] => Journal'
  BY <1>0, <1>3 DEF CallsInv, IsJob, Proposed
<1>4. ASSUME UNCHANGED <<journal, receipts>>, edits' \in {edits, edits + 1} PROVE Goal
  BY <1>0, <1>1, <1>2, <1>4
<1> HIDE DEF Journal, Receipts
<1>5. ASSUME UNCHANGED allVars \/ Capture \/ \E q \in Paths : Edit(q) PROVE Goal
  BY <1>4, <1>5 DEF allVars, vars, durable, counters, Capture, Edit
<1>6. ASSUME \E c \in ChangeSets : Checkout(c) \/ ProposeChangeSet(c) PROVE Goal
  BY <1>4, <1>6 DEF Checkout, ProposeChangeSet, counters
<1>7. ASSUME \E p \in Procs, c \in ChangeSets : Begin(p, c) PROVE Goal
  BY <1>4, <1>7 DEF Begin, BeginFresh, ResumePrepared, ResumePublished, ResumeCompleted, durable, counters
<1>8. ASSUME \E p \in Procs : Crash(p) PROVE Goal
  BY <1>4, <1>8 DEF Crash, durable
<1>9. ASSUME NEW p \in Procs, Progress(p) PROVE Goal
  <2>1. CASE Move(p) \/ Remove(p) \/ NextStage(p) \/ Rewrite(p)
    BY <1>4, <2>1 DEF Move, Remove, NextStage, Rewrite, durable, counters
  <2>2. CASE Publish(p)
    BY <1>4, <2>2 DEF Publish, VerifyMoved, Truncate, Install, durable, counters
  <2>3. CASE SealFinal(p) \/ StartHistory(p) \/ ReuseHistory(p) \/ RefuseHistory(p)
             \/ InstallProposal(p) \/ MoveHead(p)
    BY <1>4, <2>3 DEF SealFinal, StartHistory, ReuseHistory, RefuseHistory, InstallProposal, MoveHead,
                      durable, counters
  <2>4. CASE Prepare(p) \/ JournalPublished(p)
    <3>1. /\ pc[p] # "idle" /\ UNCHANGED <<receipts, edits>>
          /\ \E s \in Phases : journal' = [set |-> job[p].set, phase |-> s]
      BY <2>4 DEF Prepare, JournalPublished, counters, Phases
    <3> QED BY <1>0, <1>2, <1>3, <3>1
  <2>5. CASE PublishReceipt(p)
    <3>1. /\ pc[p] # "idle" /\ UNCHANGED <<journal, edits>>
          /\ \/ UNCHANGED receipts
             \/ \E r : receipts' = [receipts EXCEPT ![job[p].set] = r]
      BY <2>5 DEF PublishReceipt, counters
    <3>2. Receipts'
      BY <1>0, <1>2, <1>3, <3>1 DEF Receipts
    <3> QED BY <1>0, <1>1, <3>1, <3>2
  <2>6. CASE Cleanup(p)
    <3>1. journal' \in {None, journal} /\ UNCHANGED <<receipts, edits>>
      BY <2>6 DEF Cleanup, counters
    <3>2. Journal'
      BY <1>1, <3>1 DEF Journal
    <3> QED BY <1>0, <1>2, <3>1, <3>2
  <2> QED BY <1>9, <2>1, <2>2, <2>3, <2>4, <2>5, <2>6 DEF Progress
<1>10. Goal
  BY <1>5, <1>6, <1>7, <1>8, <1>9 DEF Next
<1>11. CallsInv'
  BY CallsStep
<1> QED BY <1>10, <1>11 DEF LockInv, CallsInv, Journal, Receipts

-----------------------------------------------------------------------------
(* What an agent's tree is proposed as.                                    *)

\* The pairs are one to one: an entry continues one entry of the base, and no
\* two entries continue the same.
LEMMA MatchedOnce ==
  ASSUME NEW base, NEW t, DOMAIN base = Shared, DOMAIN t = Shared,
         NEW m \in MatchInventory(base, t), NEW k \in MatchInventory(base, t)
  PROVE  /\ m = <<m[1], m[2]>> /\ m[1] \in InTree(base) /\ m[2] \in InTree(t)
         /\ m[1] \in InTree(t) \/ m[2] \in InTree(base) => m[1] = m[2]
         /\ m[1] = k[1] \/ m[2] = k[2] => m = k
<1> DEFINE Same == {<<p, p>> : p \in InTree(base) \cap InTree(t)}
           pairs == ByBytes(base, t)
           olds == Unmatched(base, t) \ {x[1] : x \in pairs}
           news == Unmatched(t, base) \ {x[2] : x \in pairs}
<1>1. MatchInventory(base, t) = Same \cup pairs \cup Leftover(base, t)
  BY DEF MatchInventory
<1>2. ASSUME NEW x \in Same
      PROVE  x = <<x[1], x[2]>> /\ x[1] = x[2] /\ x[1] \in InTree(base) /\ x[1] \in InTree(t)
  OBVIOUS
<1>3. ASSUME NEW x \in pairs
      PROVE  /\ x = <<x[1], x[2]>> /\ x[1] \in Unmatched(base, t) /\ x[2] \in Unmatched(t, base)
             /\ SameBytes(base, t, x[2]) = {x[1]}
             /\ \A r \in Unmatched(t, base) : r < x[2] => SameBytes(base, t, r) # {x[1]}
  BY DEF ByBytes
<1>4. Unmatched(base, t) \subseteq Nat /\ Unmatched(t, base) \subseteq Nat
      /\ IsFiniteSet(Unmatched(base, t)) /\ IsFiniteSet(Unmatched(t, base))
  <2>1. Unmatched(base, t) \subseteq Paths /\ Unmatched(t, base) \subseteq Paths
    BY ConstantFacts DEF Unmatched, InTree
  <2> QED BY <2>1, ConstantFacts, FS_Subset
<1>5. ASSUME NEW x \in pairs, NEW y \in pairs, x[1] = y[1] \/ x[2] = y[2]
      PROVE  x = y
  <2>1. CASE x[2] = y[2]
    BY <1>3, <2>1
  <2>2. CASE x[1] = y[1]
    <3>1. x[2] \in Nat /\ y[2] \in Nat /\ ~ (x[2] < y[2]) /\ ~ (y[2] < x[2])
      BY <1>3, <1>4, <2>2
    <3>2. x[2] = y[2]
      BY <3>1
    <3> QED BY <1>3, <2>2, <3>2
  <2> QED BY <1>5, <2>1, <2>2
<1>6. ASSUME NEW x \in Leftover(base, t), NEW y \in Leftover(base, t)
      PROVE  x = <<x[1], x[2]>> /\ x[1] \in olds /\ x[2] \in news /\ x = y
  <2>1. Leftover(base, t) = olds \X news /\ Cardinality(olds) = 1 /\ Cardinality(news) = 1
    BY <1>6 DEF Leftover
  <2>2. IsFiniteSet(olds) /\ IsFiniteSet(news)
    BY <1>4, FS_Subset
  <2> HIDE DEF olds, news
  <2>3. PICK a : olds = {a}
    BY <2>1, <2>2, FS_Singleton
  <2>4. PICK b : news = {b}
    BY <2>1, <2>2, FS_Singleton
  <2>5. Leftover(base, t) = {<<a, b>>}
    BY <2>1, <2>3, <2>4
  <2> QED BY <2>3, <2>4, <2>5
<1>7. \A q \in olds : q \in Unmatched(base, t) /\ \A x \in pairs : x[1] # q
  OBVIOUS
<1>8. \A q \in news : q \in Unmatched(t, base) /\ \A x \in pairs : x[2] # q
  OBVIOUS
<1>9. /\ \A q \in Unmatched(base, t) : q \in InTree(base) /\ q \notin InTree(t)
      /\ \A q \in Unmatched(t, base) : q \in InTree(t) /\ q \notin InTree(base)
  BY DEF Unmatched
<1> HIDE DEF Same, pairs, olds, news
<1>10. ASSUME NEW x \in MatchInventory(base, t)
       PROVE  /\ x = <<x[1], x[2]>> /\ x[1] \in InTree(base) /\ x[2] \in InTree(t)
              /\ x[1] \in InTree(t) \/ x[2] \in InTree(base) => x \in Same /\ x[1] = x[2]
  <2>1. CASE x \in Same
    BY <1>2, <2>1
  <2>2. CASE x \in pairs
    BY <1>3, <1>9, <2>2
  <2>3. CASE x \in Leftover(base, t)
    BY <1>6, <1>7, <1>8, <1>9, <2>3
  <2> QED BY <1>1, <1>10, <2>1, <2>2, <2>3
<1>11. ASSUME m[1] = k[1] \/ m[2] = k[2]
       PROVE  m = k
  <2>1. CASE m \in Same \/ k \in Same
    <3>1. m[1] = m[2] /\ k[1] = k[2]
      BY <1>2, <1>10, <1>11, <2>1
    <3> QED BY <1>10, <1>11, <3>1
  <2>2. CASE m \in pairs /\ k \in pairs
    BY <1>5, <1>11, <2>2
  <2>3. CASE m \in Leftover(base, t) /\ k \in Leftover(base, t)
    BY <1>6, <2>3
  <2>4. CASE (m \in pairs /\ k \in Leftover(base, t)) \/ (k \in pairs /\ m \in Leftover(base, t))
    BY <1>6, <1>7, <1>8, <1>11, <2>4
  <2> QED BY <1>1, <2>1, <2>2, <2>3, <2>4
<1> QED BY <1>10, <1>11

LEMMA TreeFacts ==
  ASSUME NEW v, NEW n \in Nat, BindingsSound(v.bindings, n), NEW t \in AgentTrees(v)
  PROVE  /\ DOMAIN BaseTree(v) = Shared /\ DOMAIN t = Shared
         /\ \A p : p \in InTree(BaseTree(v)) <=> p \in Shared /\ p \in DOMAIN v.bindings
         /\ \A p \in InTree(BaseTree(v)) : BaseTree(v)[p] = v.bindings[p].data
         /\ \A p \in InTree(t) : p \in Shared /\ t[p] \in Contents \cup {Torn}
<1>1. DOMAIN BaseTree(v) = Shared /\ DOMAIN t = Shared
  BY DEF BaseTree, AgentTrees
<1>2. ASSUME NEW p \in DOMAIN v.bindings
      PROVE  v.bindings[p].data \in Contents \cup {Torn} /\ v.bindings[p].data # None
  BY BindingParts, ConstantFacts
<1>3. \A p \in Shared : BaseTree(v)[p] = IF p \in DOMAIN v.bindings THEN v.bindings[p].data ELSE None
  BY DEF BaseTree
<1>4. \A p : p \in InTree(BaseTree(v)) <=> p \in Shared /\ p \in DOMAIN v.bindings
  BY <1>2, <1>3 DEF InTree
<1>5. \A p \in Shared : t[p] \in AgentContents \cup {None} \cup {BaseTree(v)[q] : q \in Shared}
  BY DEF AgentTrees
<1>6. ASSUME NEW p \in InTree(t)
      PROVE  p \in Shared /\ t[p] \in Contents \cup {Torn}
  <2>1. p \in Shared /\ t[p] # None
    BY <1>1 DEF InTree
  <2>2. CASE t[p] \in AgentContents
    BY <2>1, <2>2, ConstantFacts
  <2>3. CASE t[p] \in {BaseTree(v)[q] : q \in Shared}
    <3>1. PICK q \in Shared : t[p] = BaseTree(v)[q]
      BY <2>3
    <3> QED BY <1>2, <1>3, <2>1, <3>1
  <2> QED BY <1>5, <2>1, <2>2, <2>3
<1> QED BY <1>1, <1>3, <1>4, <1>6

\* A proposal is made of deltas of the Objects of its base and of new ones, and
\* no path is in two of them (match_inventory, propose_change_set).
LEMMA ProposeSound ==
  ASSUME NEW v, NEW n \in Nat, BindingsSound(v.bindings, n), NEW t \in AgentTrees(v)
  PROVE  /\ Propose(v, t, n + 1) \subseteq Delta
         /\ \A d \in Propose(v, t, n + 1) : d.object[1] <= n + 1
         /\ DerivedFrom(Propose(v, t, n + 1), v)
<1> DEFINE base == BaseTree(v)
           matched == MatchInventory(base, t)
           olds == InTree(base) \ {m[1] : m \in matched}
           news == InTree(t) \ {m[2] : m \in matched}
           same(m) == base[m[1]] = t[m[2]]
           fresh(p) == <<n + 1, p>>
           after(m) == [path |-> m[2], data |-> t[m[2]],
                        over |-> IF same(m) THEN v.bindings[m[1]].over ELSE fresh(m[2])]
           change(m) == [object |-> v.bindings[m[1]].object, before |-> Before(v, m[1]),
                         after |-> after(m), staged |-> ~ same(m)]
           removal(q) == [object |-> v.bindings[q].object, before |-> Before(v, q), after |-> None,
                          staged |-> FALSE]
           made(p) == [path |-> p, over |-> fresh(p), data |-> t[p]]
           creation(p) == [object |-> fresh(p), before |-> None, staged |-> TRUE, after |-> made(p)]
           changes == {change(m) : m \in {x \in matched : x[1] # x[2] \/ ~ same(x)}}
<1>1. Propose(v, t, n + 1)
        = changes \cup {removal(q) : q \in olds} \cup {creation(p) : p \in news}
  BY DEF Propose
<1>2. ASSUME NEW d \in Propose(v, t, n + 1)
      PROVE  \/ \E m \in matched : d = change(m)
             \/ \E q \in olds : d = removal(q)
             \/ \E p \in news : d = creation(p)
  BY <1>1
<1>3. /\ DOMAIN base = Shared /\ DOMAIN t = Shared
      /\ \A p : p \in InTree(base) <=> p \in Shared /\ p \in DOMAIN v.bindings
      /\ \A p \in InTree(base) : base[p] = v.bindings[p].data
      /\ \A p \in InTree(t) : p \in Shared /\ t[p] \in Contents \cup {Torn}
  BY TreeFacts
<1>4. ASSUME NEW m \in matched
      PROVE  /\ m[1] \in InTree(base) /\ m[2] \in InTree(t)
             /\ m[2] \in InTree(base) => m[1] = m[2]
             /\ m[1] \in InTree(t) => m[1] = m[2]
  BY <1>3, MatchedOnce
<1>5. ASSUME NEW m \in matched, NEW k \in matched, m[1] = k[1] \/ m[2] = k[2]
      PROVE  m = k
  BY <1>3, <1>5, MatchedOnce
<1>6. ASSUME NEW q \in olds
      PROVE  q \in InTree(base) /\ q \notin InTree(t) /\ \A m \in matched : m[1] # q /\ m[2] # q
  <2>1. q \in InTree(base) /\ \A m \in matched : m[1] # q
    OBVIOUS
  <2>2. q \notin InTree(t)
    <3>1. q \in InTree(t) => <<q, q>> \in matched
      BY <2>1 DEF MatchInventory
    <3> QED BY <2>1, <3>1
  <2> QED BY <1>4, <2>1, <2>2
<1>7. ASSUME NEW p \in news
      PROVE  p \in InTree(t) /\ p \notin InTree(base) /\ \A m \in matched : m[1] # p /\ m[2] # p
  <2>1. p \in InTree(t) /\ \A m \in matched : m[2] # p
    OBVIOUS
  <2>2. p \notin InTree(base)
    <3>1. p \in InTree(base) => <<p, p>> \in matched
      BY <2>1 DEF MatchInventory
    <3> QED BY <2>1, <3>1
  <2> QED BY <1>4, <2>1, <2>2
<1>8. ASSUME NEW p \in InTree(base)
      PROVE  /\ v.bindings[p].object \in Ids /\ v.bindings[p].object[1] <= n + 1
             /\ v.bindings[p].object[1] <= n /\ v.bindings[p].object[1] \in Nat
             /\ v.bindings[p].over \in Ids /\ Before(v, p) \in State
             /\ Before(v, p).path = p
  <2>1. p \in Shared /\ p \in DOMAIN v.bindings
    BY <1>3
  <2>2. /\ v.bindings[p].object \in Ids /\ v.bindings[p].object[1] <= n
        /\ v.bindings[p].object[1] \in Nat
        /\ v.bindings[p].over \in Ids /\ v.bindings[p].data \in Contents \cup {Torn}
    BY <2>1, BindingParts
  <2>3. Before(v, p) \in State /\ Before(v, p).path = p
    BY <2>1, <2>2 DEF Before, State
  <2>4. v.bindings[p].object[1] <= n + 1
    BY <2>2
  <2> QED BY <2>2, <2>3, <2>4
<1>9. ASSUME NEW p \in InTree(t)
      PROVE  /\ fresh(p) \in Ids /\ fresh(p)[1] = n + 1 /\ p \in Shared
             /\ t[p] \in Contents \cup {Torn}
  <2>1. p \in Shared /\ t[p] \in Contents \cup {Torn}
    BY <1>3
  <2>2. p \in Paths
    BY <2>1, ConstantFacts
  <2>3. n + 1 \in Nat
    OBVIOUS
  <2> QED BY <2>1, <2>2, <2>3 DEF Ids
<1>10. ASSUME NEW m \in matched
       PROVE  /\ change(m) \in Delta /\ change(m).object[1] <= n + 1
              /\ after(m) # None /\ Before(v, m[1]) # None
  <2>1. after(m) \in State
    BY <1>4, <1>8, <1>9 DEF State
  <2>2. Before(v, m[1]) \in State /\ v.bindings[m[1]].object \in Ids
    BY <1>4, <1>8
  <2>3. (~ same(m)) \in BOOLEAN
    OBVIOUS
  <2>4. change(m) \in Delta
    BY <2>1, <2>2, <2>3 DEF Delta
  <2>5. after(m) # None /\ Before(v, m[1]) # None
    BY <2>1, <2>2, ConstantFacts
  <2> QED BY <1>4, <1>8, <2>4, <2>5
<1>11. ASSUME NEW q \in olds
       PROVE  removal(q) \in Delta /\ removal(q).object[1] <= n + 1 /\ Before(v, q) # None
  BY <1>6, <1>8, ConstantFacts DEF Delta
<1>12. ASSUME NEW p \in news
       PROVE  creation(p) \in Delta /\ creation(p).object[1] <= n + 1 /\ made(p) # None
  <2>1. made(p) \in State /\ fresh(p) \in Ids /\ fresh(p)[1] = n + 1
    BY <1>7, <1>9 DEF State
  <2>2. n + 1 <= n + 1
    OBVIOUS
  <2> QED BY <2>1, <2>2, ConstantFacts DEF Delta
<1> HIDE DEF matched, olds, news, base
<1>13. Propose(v, t, n + 1) \subseteq Delta /\ \A d \in Propose(v, t, n + 1) : d.object[1] <= n + 1
  BY <1>2, <1>10, <1>11, <1>12
<1>14. ASSUME NEW d \in Propose(v, t, n + 1)
       PROVE  /\ d.before # None => /\ d.before.path \in DOMAIN v.bindings
                                    /\ v.bindings[d.before.path].object = d.object
              /\ d.after # None /\ d.after.path \in DOMAIN v.bindings =>
                   v.bindings[d.after.path].object = d.object
              /\ d.before = None => d.object \notin LiveObjects(v)
  <2>1. ASSUME NEW m \in matched, d = change(m)
        PROVE  /\ m[1] \in DOMAIN v.bindings /\ d.before.path = m[1] /\ d.before # None
               /\ v.bindings[m[1]].object = d.object /\ d.after.path = m[2]
               /\ m[2] \in DOMAIN v.bindings => v.bindings[m[2]].object = d.object
    <3>1. m[1] \in DOMAIN v.bindings /\ m[2] \in Shared
      BY <1>3, <1>4
    <3>2. m[2] \in DOMAIN v.bindings => m[1] = m[2]
      BY <1>3, <1>4, <3>1
    <3> QED BY <1>4, <1>8, <1>10, <2>1, <3>1, <3>2
  <2>2. ASSUME NEW q \in olds, d = removal(q)
        PROVE  /\ q \in DOMAIN v.bindings /\ d.before.path = q /\ d.before # None
               /\ v.bindings[q].object = d.object /\ d.after = None
    BY <1>3, <1>6, <1>8, <1>11, <2>2
  <2>3. ASSUME NEW p \in news, d = creation(p)
        PROVE  /\ d.before = None /\ d.after.path = p /\ p \notin DOMAIN v.bindings
               /\ d.object \notin LiveObjects(v)
    <3>1. p \notin DOMAIN v.bindings /\ d.object[1] = n + 1
      BY <1>3, <1>7, <1>9, <2>3
    <3>2. \A q \in DOMAIN v.bindings : v.bindings[q].object[1] \in Nat /\ v.bindings[q].object[1] <= n
      BY BindingParts
    <3>3. \A q \in DOMAIN v.bindings : v.bindings[q].object # d.object
      BY <3>1, <3>2
    <3> QED BY <2>3, <3>1, <3>3 DEF LiveObjects
  <2> HIDE DEF change, removal, creation
  <2>4. CASE \E m \in matched : d = change(m)
    BY <2>1, <2>4
  <2>5. CASE \E q \in olds : d = removal(q)
    BY <2>2, <2>5
  <2>6. CASE \E p \in news : d = creation(p)
    BY <2>3, <2>6
  <2> QED BY <1>2, <2>4, <2>5, <2>6
<1>15. ASSUME NEW d \in Propose(v, t, n + 1), NEW e \in Propose(v, t, n + 1),
              NEW x \in PathsOf({d}), x \in PathsOf({e})
       PROVE  d = e
  <2> DEFINE Own(y) == \/ \E m \in matched : y = change(m) /\ x \in {m[1], m[2]}
                       \/ x \in olds /\ y = removal(x)
                       \/ x \in news /\ y = creation(x)
  <2>1. ASSUME NEW y \in Propose(v, t, n + 1), x \in PathsOf({y})
        PROVE  Own(y)
    <3>1. \/ y.before # None /\ x = y.before.path
          \/ y.after # None /\ x = y.after.path
      BY <2>1, PathsOfDelta
    <3>2. ASSUME NEW m \in matched, y = change(m) PROVE Own(y)
      <4>1. y.before.path = m[1] /\ y.after.path = m[2]
        BY <1>4, <1>8, <3>2
      <4> QED BY <3>1, <3>2, <4>1
    <3>3. ASSUME NEW q \in olds, y = removal(q) PROVE Own(y)
      <4>1. y.before.path = q /\ y.after = None
        BY <1>6, <1>8, <3>3
      <4> QED BY <3>1, <3>3, <4>1
    <3>4. ASSUME NEW p \in news, y = creation(p) PROVE Own(y)
      <4>1. y.after.path = p /\ y.before = None
        BY <3>4
      <4> QED BY <3>1, <3>4, <4>1
    <3> HIDE DEF Own, change, removal, creation
    <3> QED BY <1>2, <2>1, <3>2, <3>3, <3>4
  <2>2. Own(d) /\ Own(e)
    BY <1>15, <2>1
  <2>3. ASSUME NEW m \in matched, NEW k \in matched, x \in {m[1], m[2]}, x \in {k[1], k[2]}
        PROVE  m = k
    <3>1. CASE (x = m[1] /\ x = k[1]) \/ (x = m[2] /\ x = k[2])
      BY <1>5, <3>1
    <3>2. CASE x = m[1] /\ x = k[2]
      <4>1. m[1] = m[2] /\ k[1] = k[2]
        BY <1>4, <3>2
      <4> QED BY <1>5, <3>2, <4>1
    <3>3. CASE x = m[2] /\ x = k[1]
      <4>1. m[1] = m[2] /\ k[1] = k[2]
        BY <1>4, <3>3
      <4> QED BY <1>5, <3>3, <4>1
    <3> QED BY <2>3, <3>1, <3>2, <3>3
  <2>4. x \in olds => x \notin news /\ \A m \in matched : x \notin {m[1], m[2]}
    BY <1>6, <1>7
  <2>5. x \in news => \A m \in matched : x \notin {m[1], m[2]}
    BY <1>7
  <2> HIDE DEF change, removal, creation
  <2> QED BY <2>2, <2>3, <2>4, <2>5
<1>16. DerivedFrom(Propose(v, t, n + 1), v)
  BY <1>14, <1>15 DEF DerivedFrom
<1> QED BY <1>13, <1>16

LEMMA EnvelopesStep ==
  ASSUME ChangeSetInv, [Next]_allVars
  PROVE  EnvelopesSound'
<1>0. /\ EnvelopesSound /\ VersionsSound /\ issued \in Nat
      /\ issued' \in Nat /\ issued <= issued'
      /\ \A id \in DOMAIN versions : id \in DOMAIN versions' /\ versions'[id] = versions[id]
  BY VersionsGrow DEF ChangeSetInv
<1>1. /\ DOMAIN envelopes' = ChangeSets /\ DOMAIN checkouts' = ChangeSets
      /\ \A c \in ChangeSets : checkouts[c] # None => checkouts'[c] = checkouts[c]
      /\ \A c \in ChangeSets : envelopes[c] # None => envelopes'[c] = envelopes[c]
  BY EnvelopesKept
<1>2. DOMAIN receipts' = ChangeSets
  <2>1. DOMAIN receipts = ChangeSets
    BY <1>0 DEF EnvelopesSound
  <2>2. ASSUME NEW p \in Procs, PublishReceipt(p) PROVE DOMAIN receipts' = DOMAIN receipts
    BY <2>2 DEF PublishReceipt
  <2> QED BY <2>1, <2>2, Frames
<1>3. ASSUME NEW c \in ChangeSets, checkouts'[c] # None
      PROVE  checkouts'[c] \in DOMAIN versions'
  <2>1. CASE checkouts[c] # None
    BY <1>0, <1>1, <2>1 DEF EnvelopesSound
  <2>2. CASE checkouts[c] = None
    <3>1. checkouts' # checkouts
      BY <1>3, <2>2
    <3>2. PICK e \in ChangeSets : Checkout(e)
      BY <3>1, Frames DEF ProposeChangeSet
    <3>3. checkouts' = [checkouts EXCEPT ![e] = head'] /\ Seal
      BY <3>2 DEF Checkout
    <3>4. checkouts'[c] = head'
      BY <1>0, <1>3, <2>2, <3>3 DEF EnvelopesSound
    <3> QED BY <1>0, <3>3, <3>4, SealGrows
  <2> QED BY <2>1, <2>2
<1>4. ASSUME NEW c \in ChangeSets, envelopes'[c] # None
      PROVE  /\ checkouts'[c] # None
             /\ Deltas(c)' \subseteq Delta
             /\ \A d \in Deltas(c)' : d.object[1] <= issued'
             /\ DerivedFrom(Deltas(c)', BaseOf(c)')
  <2>1. ASSUME checkouts[c] # None
        PROVE  checkouts'[c] = checkouts[c] /\ BaseOf(c)' = BaseOf(c)
    BY <1>0, <1>1, <2>1 DEF EnvelopesSound, BaseOf
  <2>2. CASE envelopes[c] # None
    <3>1. /\ checkouts[c] # None /\ Deltas(c)' = Deltas(c) /\ Deltas(c) \subseteq Delta
          /\ \A d \in Deltas(c) : d.object[1] <= issued
          /\ DerivedFrom(Deltas(c), BaseOf(c))
      BY <1>0, <1>1, <2>2 DEF EnvelopesSound, Deltas
    <3>2. ASSUME NEW d \in Deltas(c) PROVE d.object[1] <= issued'
      <4>1. d.object[1] \in Nat /\ d.object[1] <= issued
        BY <3>1, DeltaParts DEF Ids
      <4> QED BY <1>0, <4>1
    <3> QED BY <2>1, <3>1, <3>2
  <2>3. CASE envelopes[c] = None
    <3>1. envelopes' # envelopes
      BY <1>4, <2>3
    <3>2. PICK e \in ChangeSets : ProposeChangeSet(e)
      BY <3>1, Frames DEF Checkout
    <3>3. e = c
      BY <1>0, <1>4, <2>3, <3>2 DEF ProposeChangeSet, EnvelopesSound
    <3>4. checkouts[c] # None /\ issued' = issued + 1
      BY <3>2, <3>3 DEF ProposeChangeSet
    <3>5. BaseOf(c) = versions[checkouts[c]] /\ BindingsSound(BaseOf(c).bindings, issued)
      BY <1>0, <3>4 DEF EnvelopesSound, VersionsSound, BaseOf
    <3>6. PICK t \in AgentTrees(BaseOf(c)) : envelopes'[c] = Propose(BaseOf(c), t, issued + 1)
      BY <1>0, <3>2, <3>3, <3>5 DEF ProposeChangeSet, EnvelopesSound
    <3> QED BY <1>0, <2>1, <3>4, <3>5, <3>6, ProposeSound DEF Deltas
  <2> QED BY <2>2, <2>3
<1> QED BY <1>1, <1>2, <1>3, <1>4 DEF EnvelopesSound

-----------------------------------------------------------------------------
(* The invariant of publication is inductive.                              *)

\* What a path holds is judged by the deltas alone.
LEMMA SpokenKept ==
  ASSUME NEW c, NEW q, Deltas(c)' = Deltas(c), ws'[q] = ws[q], Spoken(c, q)
  PROVE  Spoken(c, q)'
<1>1. DataAt(q)' = DataAt(q)
  BY DEF DataAt
<1>2. \A s : Holds(q, s)' <=> Holds(q, s)
  BY <1>1 DEF Holds
<1>3. RecognizedBy(c, q)' <=> RecognizedBy(c, q)
  BY <1>1, <1>2 DEF RecognizedBy
<1> QED BY <1>3 DEF Spoken

\* The paths of a proposed Change Set: each is of one delta, and each exists.
LEMMA ProposedPaths ==
  ASSUME EnvelopesSound, NEW c, Proposed(c)
  PROVE  /\ Deltas(c) \subseteq Delta /\ WellFormed(Deltas(c)) /\ PathsOf(Deltas(c)) \subseteq Shared
         /\ \A q \in PathsOf(Deltas(c)) : \E d \in Deltas(c) : q \in PathsOf({d})
         /\ \A d \in Deltas(c) : PathsOf({d}) \subseteq PathsOf(Deltas(c))
         /\ \A d, e \in Deltas(c) : PathsOf({d}) \cap PathsOf({e}) # {} => d = e
         /\ \A d, e \in Deltas(c) : d.object = e.object => d = e
<1>1. /\ Deltas(c) \subseteq Delta /\ WellFormed(Deltas(c))
      /\ \A d, e \in Deltas(c) : PathsOf({d}) \cap PathsOf({e}) # {} => d = e
  BY DEF EnvelopesSound, DerivedFrom, Proposed
<1>2. \A q \in PathsOf(Deltas(c)) : \E d \in Deltas(c) : q \in PathsOf({d})
  BY DEF PathsOf
<1>3. \A d \in Deltas(c) : PathsOf({d}) \subseteq PathsOf(Deltas(c))
  BY DEF PathsOf
<1>4. ASSUME NEW d \in Deltas(c) PROVE PathsOf({d}) \subseteq Shared
  <2>1. d \in Delta
    BY <1>1, <1>4
  <2> QED BY <2>1, DeltaParts, PathsOfDelta
<1>5. PathsOf(Deltas(c)) \subseteq Shared
  BY <1>2, <1>4
<1> QED BY <1>1, <1>2, <1>3, <1>5 DEF WellFormed

\* Steps that neither publish nor touch a file, the journal or the markers.
LEMMA QuietPublish ==
  ASSUME ChangeSetInv, [Next]_allVars, UNCHANGED <<ws, journal, work, marked>>,
         \A p \in Procs : pc'[p] \in JudgedSteps => pc'[p] = pc[p] /\ job'[p] = job[p]
  PROVE  PublishInv'
<1>0. PublishInv /\ LockInv /\ EnvelopesSound
  BY DEF ChangeSetInv
<1>1. ASSUME NEW c, Proposed(c), NEW q, Spoken(c, q) PROVE Spoken(c, q)'
  BY <1>1, ProposedStays, SpokenKept
<1>2. ASSUME NEW c \in ChangeSets, Active(c)'
      PROVE  Active(c) /\ Proposed(c) /\ Deltas(c)' = Deltas(c)
  <2>1. Active(c) /\ Proposed(c)
    BY <1>0, <1>2 DEF Active, LockInv
  <2> QED BY <2>1, ProposedStays
<1>3. ASSUME NEW p \in Procs, NEW c \in ChangeSets, pc'[p] \in JudgedSteps, job'[p].set = c
      PROVE  /\ \A q \in PathsOf(Deltas(c)') : Spoken(c, q)'
             /\ pc'[p] \in PublishSteps => Active(c)'
             /\ TodoSound(p, c)'
  <2>1. pc'[p] = pc[p] /\ job'[p] = job[p]
    BY <1>3
  <2>2. Proposed(c)
    BY <1>0, <1>3, <2>1 DEF LockInv, IsJob, JudgedSteps, PublishSteps
  <2>3. Deltas(c)' = Deltas(c)
    BY <2>2, ProposedStays
  <2>4. TodoSound(p, c)'
    BY <1>0, <1>3, <2>1, <2>3 DEF PublishInv, TodoSound
  <2>5. pc[p] \in PublishSteps => Active(c)'
    BY <1>0, <1>3, <2>1 DEF PublishInv, Active
  <2> QED BY <1>0, <1>1, <1>3, <2>1, <2>2, <2>3, <2>4, <2>5 DEF PublishInv
<1>4. ASSUME NEW c \in ChangeSets, Active(c)'
      PROVE  /\ \A d \in Written(Deltas(c)') : work'[d.object] = d.after.data
             /\ \A o \in marked' : \E d \in Moves(Deltas(c)') : d.object = o /\ Spoken(c, d.after.path)'
  BY <1>0, <1>1, <1>2, <1>4 DEF PublishInv
<1> QED BY <1>3, <1>4 DEF PublishInv

\* A step of the call that holds the lock, after which every path of its Change
\* Set is accounted for again.
LEMMA BusyPublish ==
  ASSUME ChangeSetInv, [Next]_allVars, NEW p \in Procs, NEW c \in ChangeSets, Proposed(c),
         holder' \in {p, None},
         holder' = p => job'[p].set = c /\ TodoSound(p, c)',
         pc'[p] \in PublishSteps => Active(c)',
         \A e \in ChangeSets : Active(e)' => e = c,
         \A q \in PathsOf(Deltas(c)) : Spoken(c, q)',
         Active(c)' => /\ \A d \in Written(Deltas(c)) : work'[d.object] = d.after.data
                       /\ \A o \in marked' : \E d \in Moves(Deltas(c)) : d.object = o
  PROVE  PublishInv'
<1>1. Deltas(c)' = Deltas(c)
  BY ProposedStays
<1>2. ASSUME NEW r \in Procs, pc'[r] \in JudgedSteps PROVE r = p /\ holder' = p
  <2>1. CallsInv' /\ r # None
    BY CallsStep, ConstantFacts
  <2> QED BY <1>2, <2>1 DEF CallsInv, JudgedSteps, LockedSteps
<1>3. \A r \in Procs, e \in ChangeSets : pc'[r] \in JudgedSteps /\ job'[r].set = e =>
        /\ \A q \in PathsOf(Deltas(e)') : Spoken(e, q)'
        /\ pc'[r] \in PublishSteps => Active(e)'
        /\ TodoSound(r, e)'
  BY <1>1, <1>2
<1>4. ASSUME NEW d \in Moves(Deltas(c)) PROVE d.after.path \in PathsOf(Deltas(c))
  BY <1>4 DEF Moves, PathsOf
<1>5. \A e \in ChangeSets : Active(e)' =>
        /\ \A d \in Written(Deltas(e)') : work'[d.object] = d.after.data
        /\ \A o \in marked' : \E d \in Moves(Deltas(e)') : d.object = o /\ Spoken(e, d.after.path)'
  BY <1>1, <1>4
<1> QED BY <1>3, <1>5 DEF PublishInv

LEMMA HoldingFacts ==
  ASSUME LockInv, NEW p \in Procs, NEW s, NEW j, Holding(p, s, j)
  PROVE  /\ pc'[p] = s /\ job'[p] = j /\ holder' = p
         /\ \A q \in Procs : q # p => pc'[q] = pc[q] /\ job'[q] = job[q]
BY DEF LockInv, Holding

LEMMA ReleasedFacts ==
  ASSUME LockInv, NEW p \in Procs, NEW s, NEW j, Released(p, s, j)
  PROVE  /\ pc'[p] = s /\ job'[p] = j /\ holder' = None
         /\ \A q \in Procs : q # p => pc'[q] = pc[q] /\ job'[q] = job[q]
BY DEF LockInv, Released

\* Bytes a delta puts at its path are accounted for, and so is nothing at all.
LEMMA SpokenAfter ==
  ASSUME NEW c, NEW d \in Deltas(c), Deltas(c)' = Deltas(c), d.after # None,
         ws'[d.after.path] # None =>
           \/ ws'[d.after.path].late
           \/ ws'[d.after.path].data \in {d.after.data, Torn}
           \/ d.before # None /\ ws'[d.after.path].data = d.before.data
  PROVE  Spoken(c, d.after.path)'
<1> DEFINE q == d.after.path
<1>1. CASE ws'[q] = None
  BY <1>1 DEF Spoken
<1>2. CASE ws'[q] # None /\ ws'[q].late
  BY <1>2 DEF Spoken
<1>3. CASE ws'[q] # None /\ ~ ws'[q].late
  <2>1. DataAt(q)' = ws'[q].data
    BY <1>3 DEF DataAt
  <2>2. \/ DataAt(q)' = d.after.data \/ DataAt(q)' = Torn
        \/ d.before # None /\ DataAt(q)' = d.before.data
    BY <1>3, <2>1
  <2>3. RecognizedBy(c, q)'
    BY <2>2 DEF RecognizedBy, Holds
  <2> QED BY <2>3 DEF Spoken
<1> QED BY <1>1, <1>2, <1>3

LEMMA SpokenNothing ==
  ASSUME NEW c, NEW q, ws'[q] = None
  PROVE  Spoken(c, q)'
BY DEF Spoken

\* Whoever edits a file that is being published, or is marked, is too late.
LEMMA EditFacts ==
  ASSUME VersionsSound, NEW q \in Paths, Edit(q)
  PROVE  \A x \in Paths : ws'[x] = ws[x] \/ ws'[x] = None \/ (Late(x) => ws'[x].late)
<1>0. ws \in [Paths -> File \cup {None}]
  BY DEF VersionsSound
<1>1. ASSUME NEW y, ws' = [ws EXCEPT ![q] = [ino |-> IF ws[q] = None THEN issued + 1 ELSE ws[q].ino,
                                             data |-> y, late |-> Late(q)]]
      PROVE  \A x \in Paths : ws'[x] = ws[x] \/ ws'[x] = None \/ (Late(x) => ws'[x].late)
  <2> DEFINE f == [ino |-> IF ws[q] = None THEN issued + 1 ELSE ws[q].ino, data |-> y, late |-> Late(q)]
  <2>1. f.late = Late(q)
    OBVIOUS
  <2>2. ws' = [ws EXCEPT ![q] = f]
    BY <1>1
  <2> HIDE DEF f
  <2>3. \A x \in Paths : ws'[x] = ws[x] \/ (x = q /\ ws'[x] = f)
    BY <1>0, <2>2
  <2> QED BY <2>1, <2>3
<1>2. ASSUME ws' = [ws EXCEPT ![q] = None]
      PROVE  \A x \in Paths : ws'[x] = ws[x] \/ ws'[x] = None \/ (Late(x) => ws'[x].late)
  BY <1>0, <1>2
<1>3. ASSUME NEW r \in Paths, ws[q] # None,
             ws' = [ws EXCEPT ![q] = None, ![r] = [ws[q] EXCEPT !.late = Late(r)]]
      PROVE  \A x \in Paths : ws'[x] = ws[x] \/ ws'[x] = None \/ (Late(x) => ws'[x].late)
  <2> DEFINE f == [ws[q] EXCEPT !.late = Late(r)]
  <2>0. Late(r) \in BOOLEAN
    BY DEF Late
  <2>1. f.late = Late(r)
    BY <1>0, <1>3, <2>0, FileUpdates
  <2>2. ws' = [ws EXCEPT ![q] = None, ![r] = f]
    BY <1>3
  <2> HIDE DEF f
  <2>3. \A x \in Paths : ws'[x] = ws[x] \/ ws'[x] = None \/ (x = r /\ ws'[x] = f)
    BY <1>0, <2>2
  <2> QED BY <2>1, <2>3
<1> QED BY <1>1, <1>2, <1>3 DEF Edit

LEMMA EditPublish ==
  ASSUME ChangeSetInv, [Next]_allVars, NEW q \in Paths, Edit(q)
  PROVE  PublishInv'
<1>0. PublishInv /\ LockInv /\ EnvelopesSound /\ VersionsSound /\ UNCHANGED <<volatile, durable>>
  BY DEF ChangeSetInv, Edit
<1>1. \A x \in Paths : ws'[x] = ws[x] \/ ws'[x] = None \/ (Late(x) => ws'[x].late)
  BY <1>0, EditFacts
<1>2. ASSUME NEW c, Deltas(c)' = Deltas(c), NEW x \in Paths, Late(x), Spoken(c, x)
      PROVE  Spoken(c, x)'
  <2>1. CASE ws'[x] = ws[x]
    BY <1>2, <2>1, SpokenKept
  <2>2. CASE ws'[x] = None \/ ws'[x].late
    BY <2>2 DEF Spoken
  <2> QED BY <1>1, <1>2, <2>1, <2>2
<1>3. ASSUME NEW c PROVE Deltas(c)' = Deltas(c) /\ (Active(c)' <=> Active(c))
  BY <1>0 DEF durable, Deltas, Active
<1>4. ASSUME NEW p \in Procs, NEW c \in ChangeSets, pc[p] \in JudgedSteps, job[p].set = c
      PROVE  \A x \in PathsOf(Deltas(c)) : Spoken(c, x)'
  <2>1. Proposed(c)
    BY <1>0, <1>4 DEF LockInv, IsJob, JudgedSteps, PublishSteps
  <2>2. PathsOf(Deltas(c)) \subseteq Paths
    BY <1>0, <2>1, ProposedPaths, ConstantFacts
  <2>3. \A x : Late(x)
    BY <1>4 DEF Late, JudgedSteps
  <2>4. \A x \in PathsOf(Deltas(c)) : Spoken(c, x)
    BY <1>0, <1>4 DEF PublishInv
  <2> QED BY <1>2, <1>3, <2>2, <2>3, <2>4
<1>5. ASSUME NEW c \in ChangeSets, Active(c), NEW o \in marked
      PROVE  \E d \in Moves(Deltas(c)) : d.object = o /\ Spoken(c, d.after.path)'
  <2>1. PICK d \in Moves(Deltas(c)) : d.object = o /\ Spoken(c, d.after.path)
    BY <1>0, <1>5 DEF PublishInv
  <2>2. Proposed(c) /\ journal # None /\ journal.set = c
    BY <1>0, <1>5 DEF Active, LockInv
  <2>3. d.after.path \in Paths /\ d \in Deltas(c)
    <3>1. d \in Delta /\ d.after # None /\ d \in Deltas(c)
      BY <1>0, <2>2, ProposedPaths DEF Moves
    <3> QED BY <3>1, DeltaParts, ConstantFacts
  <2>4. Late(d.after.path)
    BY <1>5, <2>1, <2>2, <2>3 DEF Late
  <2> QED BY <1>2, <1>3, <2>1, <2>3, <2>4
<1>6. /\ UNCHANGED <<pc, job, work, marked>>
      /\ \A p, c : TodoSound(p, c)' <=> TodoSound(p, c)
  BY <1>0, <1>3 DEF volatile, durable, TodoSound
<1>7. \A p \in Procs, c \in ChangeSets : pc'[p] \in JudgedSteps /\ job'[p].set = c =>
        /\ \A x \in PathsOf(Deltas(c)') : Spoken(c, x)'
        /\ pc'[p] \in PublishSteps => Active(c)'
        /\ TodoSound(p, c)'
  BY <1>0, <1>3, <1>4, <1>6 DEF PublishInv
<1>8. \A c \in ChangeSets : Active(c)' =>
        /\ \A d \in Written(Deltas(c)') : work'[d.object] = d.after.data
        /\ \A o \in marked' : \E d \in Moves(Deltas(c)') : d.object = o /\ Spoken(c, d.after.path)'
  BY <1>0, <1>3, <1>5, <1>6 DEF PublishInv
<1> QED BY <1>7, <1>8 DEF PublishInv

\* A workspace that apply judges clean, or left by an interrupted publication,
\* holds nothing the deltas do not account for.
LEMMA CleanSpoken ==
  ASSUME EnvelopesSound, NEW c, Proposed(c), Clean(c), NEW q \in PathsOf(Deltas(c))
  PROVE  Spoken(c, q)
<1>1. PICK d \in Deltas(c) : \/ d.before # None /\ q = d.before.path
                             \/ d.after # None /\ q = d.after.path
  BY DEF PathsOf
<1>2. /\ d.before = None => ws[d.after.path] = None
      /\ d.before # None => Holds(d.before.path, d.before) \/ (d.after = None /\ ws[d.before.path] = None)
      /\ d \in Moves(Deltas(c)) => ws[d.after.path] = None
  BY DEF Clean
<1>3. CASE d.before # None /\ q = d.before.path
  BY <1>2, <1>3 DEF Spoken, RecognizedBy
<1>4. CASE d.after # None /\ q = d.after.path /\ d.before = None
  BY <1>2, <1>4 DEF Spoken
<1>5. CASE d.after # None /\ q = d.after.path /\ d.before # None /\ q # d.before.path
  BY <1>2, <1>5 DEF Spoken, Moves
<1> QED BY <1>1, <1>3, <1>4, <1>5

LEMMA RecoverableSpoken ==
  ASSUME EnvelopesSound, PublishInv, NEW c \in ChangeSets, Proposed(c), Active(c), Recoverable(c),
         NEW q \in PathsOf(Deltas(c))
  PROVE  Spoken(c, q)
<1>1. PICK d \in Deltas(c) : \/ d.before # None /\ q = d.before.path
                             \/ d.after # None /\ q = d.after.path
  BY DEF PathsOf
<1>2. Intermediate(d)
  BY DEF Recoverable
<1>3. CASE d \in Moves({d})
  <2>1. /\ d.before # None /\ d.after # None
        /\ \/ Holds(d.before.path, d.before) /\ ws[d.after.path] = None
           \/ /\ ws[d.before.path] = None
              /\ \/ Holds(d.after.path, d.before)
                 \/ Holds(d.after.path, d.after)
                 \/ ws[d.after.path] # None /\ d.object \in marked
    BY <1>2, <1>3 DEF Intermediate, Moves
  <2>2. CASE ws[d.before.path] = None /\ d.object \in marked /\ q = d.after.path
    <3>1. PICK e \in Moves(Deltas(c)) : e.object = d.object /\ Spoken(c, e.after.path)
      BY <2>2 DEF PublishInv
    <3>2. e = d
      BY <3>1, ProposedPaths DEF Moves
    <3> QED BY <2>2, <3>1, <3>2
  <2>3. CASE ~ (ws[d.before.path] = None /\ d.object \in marked /\ q = d.after.path)
    BY <1>1, <2>1, <2>3 DEF Spoken, RecognizedBy
  <2> QED BY <2>2, <2>3
<1>4. CASE d \notin Moves({d}) /\ d.before # None /\ d.after # None
  <2>1. d.before.path = d.after.path
    BY <1>4 DEF Moves
  <2>2. ws[d.before.path] = None \/ Holds(d.before.path, d.before) \/ Holds(d.before.path, d.after)
    BY <1>2, <1>4, <2>1 DEF Intermediate
  <2> QED BY <1>1, <1>4, <2>1, <2>2 DEF Spoken, RecognizedBy
<1>5. CASE d.after = None
  <2>1. ws[d.before.path] = None \/ Holds(d.before.path, d.before)
    BY <1>2, <1>5 DEF Intermediate, Moves
  <2> QED BY <1>1, <1>5, <2>1 DEF Spoken, RecognizedBy
<1>6. CASE d.after # None /\ d.before = None
  <2>1. ws[d.after.path] = None \/ Holds(d.after.path, d.after)
    BY <1>2, <1>6 DEF Intermediate, Moves
  <2> QED BY <1>1, <1>6, <2>1 DEF Spoken, RecognizedBy
<1> QED BY <1>3, <1>4, <1>5, <1>6

LEMMA BeginPublish ==
  ASSUME ChangeSetInv, [Next]_allVars, NEW p \in Procs, NEW c \in ChangeSets, Begin(p, c)
  PROVE  PublishInv'
<1>0. PublishInv /\ LockInv /\ EnvelopesSound
  BY DEF ChangeSetInv
<1>1. /\ UNCHANGED <<ws, journal, work, marked>> /\ Proposed(c)
      /\ IsJob(Applying(c, {})) /\ Applying(c, {}).set = c
      /\ IsJob(Applying(c, Moves(Deltas(c)))) /\ Applying(c, Moves(Deltas(c))).set = c
      /\ Applying(c, Moves(Deltas(c))).todo = Moves(Deltas(c))
  <2>1. UNCHANGED <<ws, journal, work, marked>> /\ Proposed(c)
    BY <1>0 DEF Begin, BeginFresh, ResumePrepared, ResumePublished, ResumeCompleted, Callable,
                Proposed, durable
  <2> QED BY <2>1, ApplyingIsJob
<1>2. Deltas(c)' = Deltas(c) /\ \A e : Active(e)' <=> Active(e)
  BY <1>1, ProposedStays DEF Active
<1>3. ASSUME \A q \in PathsOf(Deltas(c)) : Spoken(c, q)
      PROVE  \A q \in PathsOf(Deltas(c)) : Spoken(c, q)'
  BY <1>1, <1>2, <1>3, SpokenKept
<1>4. CASE BeginFresh(p, c)
  <2>1. holder' = p /\ pc'[p] = "prepare" /\ job'[p].set = c /\ journal = None /\ Clean(c)
    BY <1>0, <1>1, <1>4, HoldingFacts DEF BeginFresh
  <2>2. TodoSound(p, c)' /\ pc'[p] \notin PublishSteps
    BY <2>1 DEF TodoSound, PublishSteps
  <2>3. \A e \in ChangeSets : ~ Active(e)'
    BY <1>2, <2>1 DEF Active
  <2>4. \A q \in PathsOf(Deltas(c)) : Spoken(c, q)
    BY <1>0, <1>1, <2>1, CleanSpoken
  <2> QED BY <1>1, <1>3, <2>1, <2>2, <2>3, <2>4, BusyPublish
<1>5. CASE ResumePrepared(p, c)
  <2>1. holder' = p /\ pc'[p] = "move" /\ job'[p].set = c /\ job'[p].todo = Moves(Deltas(c))
        /\ Active(c) /\ Recoverable(c)
    BY <1>0, <1>1, <1>5, HoldingFacts DEF ResumePrepared
  <2>2. TodoSound(p, c)'
    BY <1>2, <2>1 DEF TodoSound
  <2>3. Active(c)' /\ \A e \in ChangeSets : Active(e)' => e = c
    BY <1>2, <2>1 DEF Active
  <2>4. \A q \in PathsOf(Deltas(c)) : Spoken(c, q)
    BY <1>0, <1>1, <2>1, RecoverableSpoken
  <2>5. /\ \A d \in Written(Deltas(c)) : work'[d.object] = d.after.data
        /\ \A o \in marked' : \E d \in Moves(Deltas(c)) : d.object = o
    BY <1>0, <1>1, <2>1 DEF PublishInv
  <2> QED BY <1>1, <1>3, <2>1, <2>2, <2>3, <2>4, <2>5, BusyPublish
<1>6. CASE ResumePublished(p, c) \/ ResumeCompleted(p, c)
  <2>1. /\ pc'[p] \in {"seal", "cleanup"}
        /\ \A q \in Procs : q # p => pc'[q] = pc[q] /\ job'[q] = job[q]
    BY <1>0, <1>6, HoldingFacts, ReleasedFacts DEF ResumePublished, ResumeCompleted
  <2>2. \A q \in Procs : pc'[q] \in JudgedSteps => pc'[q] = pc[q] /\ job'[q] = job[q]
    BY <2>1 DEF JudgedSteps, PublishSteps
  <2> QED BY <1>1, <2>2, QuietPublish
<1> QED BY <1>4, <1>5, <1>6 DEF Begin

\* The steps of publication that change files: everything at the Change Set's
\* paths is accounted for afterwards.
LEMMA FilesPublish ==
  ASSUME ChangeSetInv, [Next]_allVars, NEW p \in Procs, NEW c \in ChangeSets, job[p].set = c,
         Move(p) \/ Remove(p) \/ Rewrite(p) \/ Publish(p)
  PROVE  \A q \in PathsOf(Deltas(c)) : Spoken(c, q)'
<1>0. /\ PublishInv /\ LockInv /\ EnvelopesSound
      /\ ws \in [Paths -> File \cup {None}]
  BY DEF ChangeSetInv, VersionsSound
<1>1. pc[p] \in PublishSteps /\ pc[p] \in JudgedSteps
  BY DEF Move, Remove, Rewrite, Publish, VerifyMoved, Truncate, Install, Ready, PublishSteps, JudgedSteps
<1>2. Proposed(c) /\ Active(c) /\ Of(p) = Deltas(c)
  BY <1>0, <1>1, PublishFacts DEF Of
<1>3. /\ Deltas(c) \subseteq Delta /\ WellFormed(Deltas(c)) /\ PathsOf(Deltas(c)) \subseteq Paths
      /\ \A q \in PathsOf(Deltas(c)) : \E d \in Deltas(c) : q \in PathsOf({d})
      /\ \A d \in Deltas(c) : PathsOf({d}) \subseteq PathsOf(Deltas(c))
      /\ \A d, e \in Deltas(c) : PathsOf({d}) \cap PathsOf({e}) # {} => d = e
  BY <1>0, <1>2, ProposedPaths, ConstantFacts
<1>4. \A q \in PathsOf(Deltas(c)) : Spoken(c, q)
  BY <1>0, <1>1 DEF PublishInv
<1>5. Deltas(c)' = Deltas(c)
  BY <1>2, ProposedStays
<1>6. ASSUME NEW q \in PathsOf(Deltas(c)), ws'[q] = ws[q] \/ ws'[q] = None
      PROVE  Spoken(c, q)'
  BY <1>4, <1>5, <1>6, SpokenKept, SpokenNothing
<1>7. \A d \in Written(Deltas(c)) : work[d.object] = d.after.data
  BY <1>0, <1>2 DEF PublishInv
<1>8. ASSUME NEW d \in Deltas(c)
      PROVE  /\ d.before # None => d.before.path \in PathsOf(Deltas(c)) /\ d.before.path \in Paths
             /\ d.after # None => d.after.path \in PathsOf(Deltas(c)) /\ d.after.path \in Paths
  <2>1. /\ d.before # None => d.before.path \in PathsOf({d})
        /\ d.after # None => d.after.path \in PathsOf({d})
    BY PathsOfDelta
  <2>2. PathsOf({d}) \subseteq PathsOf(Deltas(c)) /\ PathsOf(Deltas(c)) \subseteq Paths
    BY <1>3
  <2> QED BY <2>1, <2>2
<1>9. CASE Move(p)
  <2>1. PICK d \in job[p].todo :
          \/ UNCHANGED ws
          \/ /\ ws[d.before.path] # None
             /\ ws' = [ws EXCEPT ![d.after.path] = ws[d.before.path], ![d.before.path] = None]
    BY <1>9 DEF Move, Job
  <2>2. d \in Deltas(c) /\ d.before # None /\ d.after # None /\ d.before.path # d.after.path
    BY <1>0, <1>1, <1>2, <1>9, <2>1, PublishFacts DEF Move, Moves
  <2> DEFINE from == d.before.path  to == d.after.path
  <2>3. CASE UNCHANGED ws
    BY <1>6, <2>3
  <2>4. CASE ws[from] # None /\ ws' = [ws EXCEPT ![to] = ws[from], ![from] = None]
    <3>1. from \in Paths /\ to \in Paths /\ from \in PathsOf(Deltas(c))
      BY <1>8, <2>2
    <3>2. ws'[to] = ws[from] /\ ws'[from] = None /\ \A q \in Paths : q \notin {from, to} => ws'[q] = ws[q]
      BY <1>0, <2>2, <2>4, <3>1
    <3>3. ws[from].late \/ ws[from].data = d.before.data
      <4>1. CASE ~ ws[from].late
        <5>1. RecognizedBy(c, from)
          BY <1>4, <2>4, <3>1, <4>1 DEF Spoken
        <5>2. PICK e \in Deltas(c) :
                \/ e.before # None /\ e.before.path = from /\ Holds(from, e.before)
                \/ e.after # None /\ e.after.path = from
          BY <5>1 DEF RecognizedBy
        <5>3. from \in PathsOf({d}) /\ from \in PathsOf({e})
          BY <2>2, <5>2, PathsOfDelta
        <5>4. e = d
          BY <1>3, <2>2, <5>2, <5>3
        <5> QED BY <2>2, <2>4, <5>2, <5>4 DEF Holds, DataAt
      <4> QED BY <4>1
    <3>4. Spoken(c, to)'
      BY <1>5, <2>2, <3>2, <3>3, SpokenAfter
    <3> QED BY <1>3, <1>6, <3>2, <3>4
  <2> QED BY <2>1, <2>3, <2>4
<1>10. CASE Remove(p)
  <2>1. PICK d \in job[p].todo : ws' = [ws EXCEPT ![d.before.path] = None]
    BY <1>10 DEF Remove, Job
  <2>2. \A q \in Paths : ws'[q] = ws[q] \/ ws'[q] = None
    BY <1>0, <2>1
  <2> QED BY <1>3, <1>6, <2>2
<1>11. CASE Rewrite(p)
  <2>0. PICK d : d = job[p].at
    OBVIOUS
  <2> DEFINE q == d.after.path
  <2>1. d \in Moves(Deltas(c)) /\ d.staged
    BY <1>0, <1>1, <1>2, <1>11, <2>0, PublishFacts DEF Rewrite
  <2>2. d \in Deltas(c) /\ d.after # None /\ d \in Written(Deltas(c))
    BY <2>1 DEF Moves, Written
  <2>3. \/ UNCHANGED ws
        \/ /\ ws[q] # None
           /\ ws' = [ws EXCEPT ![q] = [ws[q] EXCEPT !.data = work[d.object], !.late = FALSE]]
    BY <1>11, <2>0 DEF Rewrite, Job
  <2>4. q \in Paths /\ work[d.object] = d.after.data /\ d.after.data \in Contents \cup {Torn}
    BY <1>3, <1>7, <1>8, <2>2, DeltaParts
  <2>5. CASE UNCHANGED ws
    BY <1>6, <2>5
  <2>6. CASE ws[q] # None /\ ~ UNCHANGED ws
    <3> DEFINE f == [ws[q] EXCEPT !.data = work[d.object], !.late = FALSE]
    <3>0. ws' = [ws EXCEPT ![q] = f] /\ ws[q] \in File
      BY <1>0, <2>3, <2>4, <2>6
    <3>1. f.data = d.after.data
      BY <2>4, <3>0, FileUpdates
    <3> HIDE DEF f
    <3>2. ws'[q] = f /\ \A x \in Paths : x # q => ws'[x] = ws[x]
      BY <1>0, <2>4, <3>0
    <3>3. Spoken(c, q)'
      BY <1>5, <2>2, <3>1, <3>2, SpokenAfter
    <3> QED BY <1>3, <1>6, <3>2, <3>3
  <2> QED BY <2>3, <2>5, <2>6
<1>12. CASE Publish(p)
  <2>1. PICK d \in job[p].todo : VerifyMoved(p, d) \/ Truncate(p, d) \/ Install(p, d)
    BY <1>12 DEF Publish, Job
  <2> DEFINE q == d.after.path
  <2>2. d \in Deltas(c) /\ d.after # None /\ q \in Paths
    <3>1. pc[p] = "install"
      BY <2>1 DEF VerifyMoved, Truncate, Install, Ready
    <3> QED BY <1>0, <1>1, <1>2, <1>8, <2>1, <3>1, PublishFacts
  <2>3. CASE UNCHANGED ws
    BY <1>6, <2>3
  <2>4. ASSUME NEW f \in File, ws' = [ws EXCEPT ![q] = f], f.data \in {d.after.data, Torn}
        PROVE  \A x \in PathsOf(Deltas(c)) : Spoken(c, x)'
    <3>1. ws'[q] = f /\ \A x \in Paths : x # q => ws'[x] = ws[x]
      BY <1>0, <2>2, <2>4
    <3>2. Spoken(c, q)'
      BY <1>5, <2>2, <2>4, <3>1, SpokenAfter
    <3> QED BY <1>3, <1>6, <3>1, <3>2
  <2>5. CASE Truncate(p, d) /\ ~ UNCHANGED ws
    <3> DEFINE f == [ws[q] EXCEPT !.data = Torn]
    <3>1. ws[q] # None /\ ws' = [ws EXCEPT ![q] = f]
      BY <2>5 DEF Truncate
    <3>2. f \in File /\ f.data = Torn
      <4>1. ws[q] \in File
        BY <1>0, <2>2, <3>1
      <4> QED BY <4>1, FileUpdates
    <3> HIDE DEF f
    <3> QED BY <2>4, <3>1, <3>2
  <2>6. CASE Install(p, d) /\ ~ UNCHANGED ws
    <3> DEFINE f == [ino |-> issued + 1, data |-> work[d.object], late |-> FALSE]
    <3>1. ws' = [ws EXCEPT ![q] = None] \/ ws' = [ws EXCEPT ![q] = f]
      BY <2>6 DEF Install
    <3>2. d \in Written(Deltas(c))
      BY <1>2, <2>2, <2>6 DEF Install, Written
    <3>3. f \in File /\ f.data = d.after.data
      <4>1. issued \in Nat /\ work[d.object] = d.after.data /\ d.after.data \in Contents \cup {Torn}
        BY <1>3, <1>7, <2>2, <3>2, DeltaParts DEF ChangeSetInv, VersionsSound
      <4> QED BY <4>1 DEF File
    <3> HIDE DEF f
    <3>4. CASE ws' = [ws EXCEPT ![q] = None]
      <4>1. \A x \in Paths : ws'[x] = ws[x] \/ ws'[x] = None
        BY <1>0, <3>4
      <4> QED BY <1>3, <1>6, <4>1
    <3> QED BY <2>4, <3>1, <3>3, <3>4
  <2>7. VerifyMoved(p, d) => UNCHANGED ws
    BY DEF VerifyMoved
  <2> QED BY <2>1, <2>3, <2>5, <2>6, <2>7
<1> QED BY <1>9, <1>10, <1>11, <1>12

\* One step of publication by the call that holds the lock for it.
LEMMA PublishingStep ==
  ASSUME ChangeSetInv, [Next]_allVars, NEW p \in Procs, NEW c \in ChangeSets, job[p].set = c,
         Progress(p), pc[p] \in JudgedSteps
  PROVE  PublishInv'
<1>0. PublishInv /\ LockInv /\ EnvelopesSound /\ IsJob(job[p]) /\ Proposed(c)
  <2>1. LockInv /\ pc[p] # "idle"
    BY DEF ChangeSetInv, Progress
  <2> QED BY <2>1 DEF ChangeSetInv, LockInv, IsJob
<1>1. /\ Deltas(c)' = Deltas(c) /\ Of(p) = Deltas(c)
      /\ \A q \in PathsOf(Deltas(c)) : Spoken(c, q)
      /\ pc[p] \in PublishSteps => Active(c) /\ TodoSound(p, c)
  BY <1>0, ProposedStays DEF PublishInv, Of
<1>2. /\ \A d, e \in Deltas(c) : d.object = e.object => d = e
      /\ \A e \in ChangeSets : Active(e) /\ Active(c) => e = c
  BY <1>0, ProposedPaths DEF Active
<1>3. ASSUME pc[p] \in PublishSteps
      PROVE  /\ \A d \in Written(Deltas(c)) : work[d.object] = d.after.data
             /\ \A o \in marked : \E d \in Moves(Deltas(c)) : d.object = o
             /\ \A e \in ChangeSets : Active(e) => e = c
             /\ Active(c)
  BY <1>0, <1>1, <1>2, <1>3 DEF PublishInv
<1> DEFINE Todo(x) == [job[p] EXCEPT !.todo = x]
           TodoOnly(x) == [Todo(x) EXCEPT !.at = None]
           At(x) == [job[p] EXCEPT !.at = x]
<1>4. ASSUME NEW x
      PROVE  /\ Todo(x).set = c /\ Todo(x).todo = x
             /\ TodoOnly(x).set = c /\ TodoOnly(x).todo = x
             /\ At(x).set = c /\ At(x).at = x /\ At(x).todo = job[p].todo
  <2>1. IsJob(Todo(x)) /\ Todo(x).set = c /\ Todo(x).todo = x
    BY <1>0, JobUpdates
  <2>2. At(x).set = c /\ At(x).at = x /\ At(x).todo = job[p].todo
    BY <1>0, JobUpdates
  <2> HIDE DEF Todo
  <2>3. TodoOnly(x).set = c /\ TodoOnly(x).todo = x
    BY <2>1, JobUpdates
  <2> QED BY <2>1, <2>2, <2>3
<1> HIDE DEF Todo, TodoOnly, At
<1>5. ASSUME UNCHANGED ws PROVE \A q \in PathsOf(Deltas(c)) : Spoken(c, q)'
  BY <1>1, <1>5, SpokenKept
<1>6. ASSUME UNCHANGED <<journal, work>>, pc[p] \in PublishSteps,
             \A o \in marked' : \E d \in Moves(Deltas(c)) : d.object = o,
             \A q \in PathsOf(Deltas(c)) : Spoken(c, q)',
             \/ holder' = None
             \/ holder' = p /\ job'[p].set = c /\ TodoSound(p, c)'
      PROVE  PublishInv'
  <2>1. \A e : Active(e)' <=> Active(e)
    BY <1>6 DEF Active
  <2>2. p # None
    BY ConstantFacts
  <2> QED BY <1>0, <1>3, <1>6, <2>1, <2>2, BusyPublish
<1>7. CASE Prepare(p)
  <2> DEFINE ds == {d \in Of(p) : d.after # None /\ ~ (d \in Moves(Of(p)) /\ ~ d.staged)}
  <2>1. /\ work' = [o \in {d.object : d \in ds} |-> (CHOOSE d \in ds : d.object = o).after.data]
        /\ marked' = {} /\ journal' = [set |-> c, phase |-> "prepared"] /\ UNCHANGED ws
        /\ Holding(p, "move", Todo(Moves(Of(p))))
    BY <1>7 DEF Prepare, Job, Todo
  <2>2. ds = Written(Deltas(c))
    BY <1>1 DEF Written
  <2>3. ASSUME NEW d \in Written(Deltas(c)) PROVE work'[d.object] = d.after.data
    <3>1. \A e \in ds : e.object = d.object => e = d
      BY <1>2, <2>2, <2>3 DEF Written
    <3>2. (CHOOSE e \in ds : e.object = d.object) = d
      BY <2>2, <2>3, <3>1
    <3> QED BY <2>1, <2>2, <2>3, <3>2
  <2>4. pc'[p] = "move" /\ job'[p].set = c /\ job'[p].todo = Moves(Deltas(c)) /\ holder' = p
    BY <1>0, <1>1, <1>4, <2>1, HoldingFacts
  <2>5. TodoSound(p, c)'
    BY <1>1, <2>4 DEF TodoSound
  <2>6. Active(c)' /\ \A e \in ChangeSets : Active(e)' => e = c
    <3>1. journal' # None /\ journal'.set = c
      BY <2>1, ConstantFacts DEF Phases
    <3> QED BY <3>1 DEF Active
  <2> QED BY <1>0, <1>5, <2>1, <2>3, <2>4, <2>5, <2>6, BusyPublish
<1>8. CASE Move(p) \/ Remove(p)
  <2>1. PICK d \in job[p].todo :
          \/ Holding(p, pc[p], Todo(job[p].todo \ {d}))
          \/ GiveUp(p)
    BY <1>8 DEF Move, Remove, Done, Job, Todo
  <2>2. /\ UNCHANGED <<journal, work, marked>> /\ pc[p] \in {"move", "remove"}
    BY <1>8 DEF Move, Remove, durable
  <2>3. \A q \in PathsOf(Deltas(c)) : Spoken(c, q)'
    BY <1>8, FilesPublish
  <2>4. CASE GiveUp(p)
    BY <1>0, <1>3, <1>6, <2>2, <2>3, <2>4, ReleasedFacts DEF GiveUp, PublishSteps
  <2>5. CASE Holding(p, pc[p], Todo(job[p].todo \ {d}))
    <3>1. /\ pc'[p] = pc[p] /\ job'[p].set = c /\ job'[p].todo = job[p].todo \ {d} /\ holder' = p
      BY <1>0, <1>4, <2>5, HoldingFacts
    <3>2. TodoSound(p, c)'
      BY <1>1, <2>2, <3>1 DEF TodoSound, PublishSteps
    <3> QED BY <1>3, <1>6, <2>2, <2>3, <3>1, <3>2 DEF PublishSteps
  <2> QED BY <2>1, <2>4, <2>5
<1>9. CASE NextStage(p)
  <2>1. /\ UNCHANGED <<ws, journal, work, marked>> /\ pc[p] \in PublishSteps
        /\ \/ Holding(p, "remove", Todo(Removals(Deltas(c))))
           \/ Holding(p, "install", Todo({d \in Deltas(c) : d.after # None}))
           \/ Holding(p, "journal", job[p])
    BY <1>1, <1>9 DEF NextStage, Job, durable, PublishSteps, Todo
  <2>2. /\ job'[p].set = c /\ holder' = p
        /\ \/ pc'[p] = "remove" /\ job'[p].todo = Removals(Deltas(c))
           \/ pc'[p] = "install" /\ job'[p].todo = {d \in Deltas(c) : d.after # None}
           \/ pc'[p] = "journal"
    BY <1>0, <1>4, <2>1, HoldingFacts
  <2>3. TodoSound(p, c)'
    BY <1>1, <2>2 DEF TodoSound
  <2> QED BY <1>3, <1>5, <1>6, <2>1, <2>2, <2>3
<1>10. CASE Rewrite(p)
  <2>0. PICK d : d = job[p].at
    OBVIOUS
  <2>1. /\ UNCHANGED <<journal, work>> /\ pc[p] = "rewrite" /\ marked' \subseteq marked
        /\ \/ GiveUp(p)
           \/ Holding(p, "install", TodoOnly(job[p].todo \ {d}))
    BY <1>10, <2>0 DEF Rewrite, Done, Job, Todo, TodoOnly
  <2>2. \A q \in PathsOf(Deltas(c)) : Spoken(c, q)'
    BY <1>10, FilesPublish
  <2>3. \A o \in marked' : \E e \in Moves(Deltas(c)) : e.object = o
    BY <1>3, <2>1 DEF PublishSteps
  <2>4. CASE GiveUp(p)
    BY <1>0, <1>6, <2>1, <2>2, <2>3, <2>4, ReleasedFacts DEF GiveUp, PublishSteps
  <2>5. CASE Holding(p, "install", TodoOnly(job[p].todo \ {d}))
    <3>1. /\ pc'[p] = "install" /\ job'[p].set = c /\ job'[p].todo = job[p].todo \ {d} /\ holder' = p
      BY <1>0, <1>4, <2>5, HoldingFacts
    <3>2. TodoSound(p, c)'
      BY <1>1, <2>1, <3>1 DEF TodoSound, PublishSteps
    <3> QED BY <1>6, <2>1, <2>2, <2>3, <3>1, <3>2 DEF PublishSteps
  <2> QED BY <2>1, <2>4, <2>5
<1>11. CASE Publish(p)
  <2>1. PICK d \in job[p].todo : VerifyMoved(p, d) \/ Truncate(p, d) \/ Install(p, d)
    BY <1>11 DEF Publish, Job
  <2>2. /\ UNCHANGED <<journal, work>> /\ pc[p] = "install" /\ marked' \subseteq marked \cup {d.object}
        /\ marked' # marked => d \in Moves(Of(p))
        /\ \/ GiveUp(p) \/ UNCHANGED volatile
           \/ Holding(p, "install", Todo(job[p].todo \ {d}))
           \/ Holding(p, "rewrite", At(d)) /\ d \in Moves(Of(p)) /\ d.staged
    BY <2>1 DEF VerifyMoved, Truncate, Install, Ready, Done, Job, durable, Todo, At
  <2>3. \A q \in PathsOf(Deltas(c)) : Spoken(c, q)'
    BY <1>11, FilesPublish
  <2>4. \A o \in marked' : \E e \in Moves(Deltas(c)) : e.object = o
    BY <1>1, <1>3, <2>2 DEF PublishSteps
  <2>5. CASE GiveUp(p)
    BY <1>0, <1>6, <2>2, <2>3, <2>4, <2>5, ReleasedFacts DEF GiveUp, PublishSteps
  <2>6. CASE UNCHANGED volatile
    <3>1. UNCHANGED <<pc, job, holder>> /\ holder = p
      BY <1>0, <2>2, <2>6 DEF volatile, LockInv, LockedSteps, PublishSteps
    <3>2. TodoSound(p, c)'
      BY <1>1, <2>2, <3>1 DEF TodoSound, PublishSteps
    <3> QED BY <1>6, <2>2, <2>3, <2>4, <3>1, <3>2 DEF PublishSteps
  <2>7. CASE Holding(p, "install", Todo(job[p].todo \ {d}))
    <3>1. /\ pc'[p] = "install" /\ job'[p].set = c /\ job'[p].todo = job[p].todo \ {d} /\ holder' = p
      BY <1>0, <1>4, <2>7, HoldingFacts
    <3>2. TodoSound(p, c)'
      BY <1>1, <2>2, <3>1 DEF TodoSound, PublishSteps
    <3> QED BY <1>6, <2>2, <2>3, <2>4, <3>1, <3>2 DEF PublishSteps
  <2>8. CASE Holding(p, "rewrite", At(d)) /\ d \in Moves(Of(p)) /\ d.staged
    <3>1. /\ pc'[p] = "rewrite" /\ job'[p].set = c /\ job'[p].at = d /\ holder' = p
          /\ job'[p].todo = job[p].todo
      BY <1>0, <1>4, <2>8, HoldingFacts
    <3>2. TodoSound(p, c)'
      BY <1>1, <2>2, <2>8, <3>1 DEF TodoSound, PublishSteps
    <3> QED BY <1>6, <2>2, <2>3, <2>4, <3>1, <3>2 DEF PublishSteps
  <2> QED BY <2>2, <2>5, <2>6, <2>7, <2>8
<1>12. CASE JournalPublished(p)
  <2>1. /\ journal' = [set |-> c, phase |-> "published"] /\ UNCHANGED <<ws, work, marked>>
        /\ Released(p, "seal", job[p]) /\ pc[p] \in PublishSteps
    BY <1>12 DEF JournalPublished, Job, PublishSteps
  <2>2. Active(c)' /\ \A e \in ChangeSets : Active(e)' => e = c
    <3>1. journal' # None /\ journal'.set = c
      BY <2>1, ConstantFacts DEF Phases
    <3> QED BY <3>1 DEF Active
  <2>3. holder' = None /\ p # None
    BY <1>0, <2>1, ReleasedFacts, ConstantFacts
  <2> QED BY <1>0, <1>3, <1>5, <2>1, <2>2, <2>3, BusyPublish
<1>13. \/ Prepare(p) \/ Move(p) \/ Remove(p) \/ NextStage(p) \/ Rewrite(p) \/ Publish(p)
       \/ JournalPublished(p)
  BY DEF Progress, SealFinal, StartHistory, ReuseHistory, RefuseHistory, InstallProposal, MoveHead,
         PublishReceipt, Cleanup, JudgedSteps, PublishSteps
<1> QED BY <1>7, <1>8, <1>9, <1>10, <1>11, <1>12, <1>13

LEMMA PublishStep ==
  ASSUME ChangeSetInv, [Next]_allVars
  PROVE  PublishInv'
<1>0. LockInv /\ PublishInv
  BY DEF ChangeSetInv
<1>1. ASSUME UNCHANGED <<ws, journal, work, marked, pc, job>> PROVE PublishInv'
  BY <1>1, QuietPublish
<1>2. CASE UNCHANGED allVars
  BY <1>1, <1>2 DEF allVars, vars, durable, volatile
<1>3. ASSUME NEW q \in Paths, Edit(q) PROVE PublishInv'
  BY <1>3, EditPublish
<1>4. CASE Capture
  BY <1>1, <1>4 DEF Capture, Seal, durable, volatile
<1>5. CASE \E c \in ChangeSets : Checkout(c) \/ ProposeChangeSet(c)
  BY <1>1, <1>5 DEF Checkout, ProposeChangeSet, Seal, volatile
<1>6. ASSUME NEW p \in Procs, NEW c \in ChangeSets, Begin(p, c) PROVE PublishInv'
  BY <1>6, BeginPublish
<1>7. ASSUME NEW p \in Procs, pc'[p] \notin JudgedSteps, UNCHANGED <<ws, journal, work, marked>>,
             \A q \in Procs : q # p => pc'[q] = pc[q] /\ job'[q] = job[q]
      PROVE  PublishInv'
  BY <1>7, QuietPublish
<1>8. ASSUME NEW p \in Procs, Crash(p) PROVE PublishInv'
  <2>1. pc'[p] = "idle" /\ \A q \in Procs : q # p => pc'[q] = pc[q] /\ job'[q] = job[q]
    BY <1>0, <1>8 DEF Crash, LockInv
  <2> QED BY <1>7, <1>8, <2>1 DEF Crash, durable, JudgedSteps, PublishSteps
<1>9. ASSUME NEW p \in Procs, Progress(p) PROVE PublishInv'
  <2>0. job[p].set \in ChangeSets
    BY <1>0, <1>9 DEF LockInv, IsJob, Proposed, Progress
  <2>1. CASE pc[p] \in JudgedSteps
    BY <1>9, <2>0, <2>1, PublishingStep
  <2>2. CASE SealFinal(p)
    <3>1. pc'[p] = "history" /\ \A q \in Procs : q # p => pc'[q] = pc[q] /\ job'[q] = job[q]
      BY <1>0, <2>2 DEF SealFinal, LockInv
    <3> QED BY <1>7, <2>2, <3>1 DEF SealFinal, Seal, durable, JudgedSteps, PublishSteps
  <2>3. CASE StartHistory(p) \/ ReuseHistory(p) \/ RefuseHistory(p) \/ InstallProposal(p)
             \/ MoveHead(p) \/ PublishReceipt(p)
    <3>1. /\ \E s \in {"proposal", "receipt", "idle", "head", "cleanup"} : \E j :
               Holding(p, s, j) \/ Released(p, s, j)
          /\ UNCHANGED <<ws, journal, work, marked>>
      BY <2>3 DEF StartHistory, ReuseHistory, RefuseHistory, InstallProposal, MoveHead,
                  PublishReceipt, GiveUp, durable
    <3>2. /\ pc'[p] \in {"proposal", "receipt", "idle", "head", "cleanup"}
          /\ \A q \in Procs : q # p => pc'[q] = pc[q] /\ job'[q] = job[q]
      BY <1>0, <3>1, HoldingFacts, ReleasedFacts
    <3> QED BY <1>7, <3>1, <3>2 DEF JudgedSteps, PublishSteps
  <2>4. CASE Cleanup(p)
    <3>1. /\ pc'[p] = "idle" /\ holder' = None
          /\ \A q \in Procs : q # p => pc'[q] = pc[q] /\ job'[q] = job[q]
      BY <1>0, <2>4, ReleasedFacts DEF Cleanup, GiveUp
    <3>2. CASE UNCHANGED <<journal, work, marked>>
      BY <1>7, <2>4, <3>1, <3>2 DEF Cleanup, JudgedSteps, PublishSteps
    <3>3. CASE journal' = None
      <4>1. \A q \in Procs : pc'[q] \notin JudgedSteps
        BY <3>1, CallsStep, ConstantFacts DEF CallsInv, JudgedSteps, LockedSteps
      <4>2. \A c : ~ Active(c)'
        BY <3>3 DEF Active
      <4> QED BY <4>1, <4>2 DEF PublishInv
    <3> QED BY <2>4, <3>2, <3>3 DEF Cleanup
  <2> QED BY <1>9, <2>1, <2>2, <2>3, <2>4
          DEF Progress, Prepare, Move, Remove, NextStage, Publish, VerifyMoved, Truncate, Install,
              Ready, Rewrite, JournalPublished, JudgedSteps, PublishSteps
<1> QED BY <1>2, <1>3, <1>4, <1>5, <1>6, <1>8, <1>9 DEF Next

-----------------------------------------------------------------------------
(* The invariant of the history is inductive.                              *)

\* Which steps take a call where.
LEMMA CallMoves ==
  ASSUME ChangeSetInv, [Next]_allVars, NEW q \in Procs
  PROVE  \/ pc'[q] = pc[q] /\ job'[q] = job[q]
         \/ pc'[q] \in {"idle", "move", "remove", "install", "rewrite"}
         \/ pc'[q] = "journal" /\ pc[q] = "install" /\ job'[q].set = job[q].set
         \/ JournalPublished(q) \/ SealFinal(q) \/ StartHistory(q) \/ ReuseHistory(q)
         \/ InstallProposal(q) \/ MoveHead(q)
         \/ PublishReceipt(q) /\ pc'[q] = "cleanup" /\ job'[q] = job[q]
         \/ \E c \in ChangeSets : BeginFresh(q, c) \/ ResumePublished(q, c) \/ ResumeCompleted(q, c)
<1> DEFINE Same(r) == pc'[r] = pc[r] /\ job'[r] = job[r]
           Quiet(r) == pc'[r] \in {"idle", "move", "remove", "install", "rewrite"}
<1>0. LockInv /\ pc \in [Procs -> Steps] /\ DOMAIN job = Procs
  BY DEF ChangeSetInv, LockInv
<1>1. ASSUME UNCHANGED volatile PROVE Same(q)
  BY <1>1 DEF volatile
<1>2. CASE UNCHANGED allVars \/ Capture \/ \E r \in Paths : Edit(r)
  BY <1>1, <1>2 DEF allVars, vars, Capture, Edit
<1>3. CASE \E c \in ChangeSets : Checkout(c) \/ ProposeChangeSet(c)
  BY <1>1, <1>3 DEF Checkout, ProposeChangeSet
<1>4. ASSUME NEW p \in Procs, \E s, j : Holding(p, s, j) \/ Released(p, s, j)
      PROVE  p # q => Same(q)
  BY <1>0, <1>4, HoldingFacts, ReleasedFacts
<1>5. ASSUME NEW p \in Procs, NEW c \in ChangeSets, Begin(p, c)
      PROVE  \/ Same(q) \/ Quiet(q)
             \/ BeginFresh(q, c) \/ ResumePublished(q, c) \/ ResumeCompleted(q, c)
  <2>1. \E s, j : Holding(p, s, j) \/ Released(p, s, j)
    BY <1>5 DEF Begin, BeginFresh, ResumePrepared, ResumePublished, ResumeCompleted
  <2>2. ResumePrepared(p, c) => Quiet(p)
    BY <1>0, HoldingFacts DEF ResumePrepared
  <2> QED BY <1>4, <1>5, <2>1, <2>2 DEF Begin
<1>6. ASSUME NEW p \in Procs, Crash(p) PROVE Same(q) \/ Quiet(q)
  BY <1>0, <1>6 DEF Crash
<1>7. ASSUME NEW p \in Procs, Progress(p)
      PROVE  \/ Same(q) \/ Quiet(q)
             \/ pc'[q] = "journal" /\ pc[q] = "install" /\ job'[q].set = job[q].set
             \/ JournalPublished(q) \/ SealFinal(q) \/ StartHistory(q) \/ ReuseHistory(q)
             \/ InstallProposal(q) \/ MoveHead(q)
             \/ PublishReceipt(q) /\ pc'[q] = "cleanup" /\ job'[q] = job[q]
  <2>1. CASE SealFinal(p)
    BY <1>0, <2>1 DEF SealFinal
  <2>2. CASE StartHistory(p) \/ ReuseHistory(p) \/ InstallProposal(p) \/ MoveHead(p) \/ JournalPublished(p)
    <3>1. \E s, j : Holding(p, s, j) \/ Released(p, s, j)
      BY <2>2 DEF StartHistory, ReuseHistory, InstallProposal, MoveHead, JournalPublished
    <3> QED BY <1>4, <2>2, <3>1
  <2>3. CASE RefuseHistory(p) \/ Cleanup(p)
    BY <1>0, <1>4, <2>3, ReleasedFacts DEF RefuseHistory, Cleanup, GiveUp
  <2>4. CASE PublishReceipt(p)
    <3>1. Holding(p, "cleanup", job[p]) \/ GiveUp(p)
      BY <2>4 DEF PublishReceipt, Job
    <3>2. (pc'[p] = "cleanup" /\ job'[p] = job[p]) \/ pc'[p] = "idle"
      BY <1>0, <3>1, HoldingFacts, ReleasedFacts DEF GiveUp
    <3> QED BY <1>4, <2>4, <3>1, <3>2 DEF GiveUp
  <2>5. CASE Prepare(p) \/ Move(p) \/ Remove(p) \/ Rewrite(p)
    <3>1. PICK s, j : /\ s \in {"move", "remove", "install", "idle"}
                      /\ Holding(p, s, j) \/ Released(p, s, j)
      BY <2>5 DEF Prepare, Move, Remove, Rewrite, GiveUp
    <3> QED BY <1>0, <1>4, <3>1, HoldingFacts, ReleasedFacts
  <2>6. CASE Publish(p)
    <3>1. UNCHANGED volatile \/ \E s, j : /\ s \in {"install", "rewrite", "idle"}
                                          /\ Holding(p, s, j) \/ Released(p, s, j)
      BY <2>6 DEF Publish, VerifyMoved, Truncate, Install, GiveUp
    <3> QED BY <1>0, <1>1, <1>4, <3>1, HoldingFacts, ReleasedFacts
  <2>7. CASE NextStage(p)
    <3>1. \/ \E s, j : s \in {"remove", "install"} /\ Holding(p, s, j)
          \/ pc[p] = "install" /\ Holding(p, "journal", job[p])
      BY <2>7 DEF NextStage, Job
    <3> QED BY <1>0, <1>4, <3>1, HoldingFacts
  <2> QED BY <1>7, <2>1, <2>2, <2>3, <2>4, <2>5, <2>6, <2>7 DEF Progress
<1> QED BY <1>2, <1>3, <1>5, <1>6, <1>7 DEF Next

\* Whose step adds the Versions named after a Change Set.
LEMMA NamesAdded ==
  ASSUME ChangeSetInv, [Next]_allVars, NEW c \in ChangeSets
  PROVE  /\ ProposalId(c) \in DOMAIN versions' =>
              \/ ProposalId(c) \in DOMAIN versions
              \/ \E p \in Procs : InstallProposal(p) /\ job[p].set = c
         /\ MergeId(c) \in DOMAIN versions' =>
              \/ MergeId(c) \in DOMAIN versions
              \/ \E p \in Procs : MoveHead(p) /\ job[p].set = c /\ Diverged(c, versions[job[p].final])
<1>1. CASE versions' = versions
  BY <1>1
<1>2. CASE Seal
  <2>1. versions' = versions \/ DOMAIN versions' = DOMAIN versions \cup {<<"capture", issued + 1>>}
    BY <1>2, SMT DEF Seal, InstallCapture, historyVars, Put
  <2> QED BY <2>1, IdsDiffer
<1>3. ASSUME NEW p \in Procs, StartHistory(p) \/ RefuseHistory(p)
      PROVE  ProposalId(c) \in DOMAIN versions' => ProposalId(c) \in DOMAIN versions
  <2>1. \E e, f : versions' = versions \/ versions' = WithCurrent(e, f)
    BY <1>3 DEF StartHistory, RefuseHistory
  <2>2. \E e : DOMAIN versions' \subseteq DOMAIN versions \cup {CurrentId(e)}
    BY <2>1, SMT DEF WithCurrent, Put
  <2> QED BY <2>2, IdsDiffer
<1>4. ASSUME NEW p \in Procs, StartHistory(p) \/ RefuseHistory(p)
      PROVE  MergeId(c) \in DOMAIN versions' => MergeId(c) \in DOMAIN versions
  <2>1. \E e, f : versions' = versions \/ versions' = WithCurrent(e, f)
    BY <1>4 DEF StartHistory, RefuseHistory
  <2>2. \E e : DOMAIN versions' \subseteq DOMAIN versions \cup {CurrentId(e)}
    BY <2>1, SMT DEF WithCurrent, Put
  <2> QED BY <2>2, IdsDiffer
<1>5. ASSUME NEW p \in Procs, InstallProposal(p)
      PROVE  /\ MergeId(c) \in DOMAIN versions' => MergeId(c) \in DOMAIN versions
             /\ ProposalId(c) \in DOMAIN versions' => ProposalId(c) \in DOMAIN versions \/ job[p].set = c
  <2>1. DOMAIN versions' = DOMAIN versions \cup {ProposalId(job[p].set)}
    BY <1>5, PutFacts DEF InstallProposal
  <2> QED BY <2>1, IdsDiffer
<1>6. ASSUME NEW p \in Procs, MoveHead(p)
      PROVE  /\ ProposalId(c) \in DOMAIN versions' => ProposalId(c) \in DOMAIN versions
             /\ MergeId(c) \in DOMAIN versions' =>
                  \/ MergeId(c) \in DOMAIN versions
                  \/ job[p].set = c /\ Diverged(c, versions[job[p].final])
  <2>1. \/ versions' = versions
        \/ /\ DOMAIN versions' = DOMAIN versions \cup {MergeId(job[p].set)}
           /\ Diverged(job[p].set, versions[job[p].final])
    BY <1>6, PutFacts DEF MoveHead
  <2> QED BY <2>1, IdsDiffer
<1> QED BY <1>1, <1>2, <1>3, <1>4, <1>5, <1>6, Frames

\* What was judged of an installed capture is judged so ever after.
LEMMA JudgedStays ==
  ASSUME ChangeSetInv, [Next]_allVars, NEW c, Proposed(c), NEW i \in DOMAIN versions
  PROVE  /\ i \in DOMAIN versions' /\ versions'[i] = versions[i]
         /\ BorneOut(c, versions[i]) => BorneOut(c, versions[i])'
         /\ CurrentStands(c, versions[i]) => CurrentStands(c, versions[i])'
         /\ Merge(c, versions[i])' = Merge(c, versions[i])
         /\ Diverged(c, versions[i])' <=> Diverged(c, versions[i])
<1>1. /\ Deltas(c)' = Deltas(c) /\ BaseOf(c)' = BaseOf(c)
      /\ \A f : Current(c, f)' = Current(c, f) /\ Merge(c, f)' = Merge(c, f)
                /\ (Diverged(c, f)' <=> Diverged(c, f))
  BY ProposedStays
<1>2. i \in DOMAIN versions' /\ versions'[i] = versions[i]
  BY VersionsGrow
<1>3. PICK f : f = versions[i]
  OBVIOUS
<1>4. versions'[i] = f
  BY <1>2, <1>3
<1>5. Merge(c, versions[i])' = Merge(c, f) /\ (Diverged(c, versions[i])' <=> Diverged(c, f))
      /\ Current(c, versions[i])' = Current(c, f)
  BY <1>1, <1>4 DEF Merge, Diverged, Current
<1>6. BorneOut(c, versions[i]) => BorneOut(c, versions[i])'
  BY <1>1, <1>2 DEF BorneOut
<1>7. CurrentStands(c, versions[i]) => CurrentStands(c, versions[i])'
  <2>1. CurrentId(c)' = CurrentId(c)
    BY DEF CurrentId
  <2>2. CurrentId(c) \in DOMAIN versions =>
          CurrentId(c) \in DOMAIN versions' /\ versions'[CurrentId(c)] = versions[CurrentId(c)]
    BY VersionsGrow
  <2> QED BY <1>1, <1>2, <1>3, <1>5, <2>1, <2>2 DEF CurrentStands
<1> QED BY <1>2, <1>3, <1>5, <1>6, <1>7

LEMMA HistoryStep ==
  ASSUME ChangeSetInv, [Next]_allVars
  PROVE  HistorySound'
<1>0. HistorySound /\ LockInv /\ FinalSound
  BY DEF ChangeSetInv
<1>1. ASSUME NEW c \in ChangeSets, ProposalId(c) \in DOMAIN versions'
      PROVE  Proposed(c)' /\ versions'[ProposalId(c)] = Proposal(c)'
  <2>1. CASE ProposalId(c) \in DOMAIN versions
    BY <1>0, <2>1, VersionsGrow, ProposedStays DEF HistorySound
  <2>2. ASSUME NEW p \in Procs, InstallProposal(p), job[p].set = c
        PROVE  Proposed(c)' /\ versions'[ProposalId(c)] = Proposal(c)'
    <3>1. Proposed(c)
      BY <1>0, <2>2, FinalFacts DEF InstallProposal
    <3>2. versions' = Put(versions, ProposalId(c), Proposal(c))
      BY <2>2 DEF InstallProposal
    <3>3. versions'[ProposalId(c)] = Proposal(c)
      BY <3>2, SMT DEF Put
    <3> QED BY <3>1, <3>3, ProposedStays
  <2> QED BY <1>1, <2>1, <2>2, NamesAdded
<1>2. ASSUME NEW c \in ChangeSets, MergeId(c) \in DOMAIN versions'
      PROVE  /\ ProposalId(c) \in DOMAIN versions'
             /\ \E i \in DOMAIN versions' :
                  /\ versions'[MergeId(c)] = Merge(c, versions[i])'
                  /\ BorneOut(c, versions[i])' /\ CurrentStands(c, versions[i])'
  <2>1. CASE MergeId(c) \in DOMAIN versions
    <3>1. ProposalId(c) \in DOMAIN versions /\ Proposed(c)
      BY <1>0, <2>1 DEF HistorySound
    <3>2. PICK i \in DOMAIN versions :
            /\ versions[MergeId(c)] = Merge(c, versions[i])
            /\ BorneOut(c, versions[i]) /\ CurrentStands(c, versions[i])
      BY <1>0, <2>1 DEF HistorySound
    <3>3. versions'[MergeId(c)] = versions[MergeId(c)] /\ ProposalId(c) \in DOMAIN versions'
      BY <2>1, <3>1, VersionsGrow
    <3>4. /\ i \in DOMAIN versions' /\ Merge(c, versions[i])' = Merge(c, versions[i])
          /\ BorneOut(c, versions[i])' /\ CurrentStands(c, versions[i])'
      BY <3>1, <3>2, JudgedStays
    <3> QED BY <3>2, <3>3, <3>4
  <2>2. ASSUME NEW p \in Procs, MoveHead(p), job[p].set = c, Diverged(c, versions[job[p].final])
        PROVE  /\ ProposalId(c) \in DOMAIN versions'
               /\ \E i \in DOMAIN versions' :
                    /\ versions'[MergeId(c)] = Merge(c, versions[i])'
                    /\ BorneOut(c, versions[i])' /\ CurrentStands(c, versions[i])'
    <3>1. PICK i : i = job[p].final
      OBVIOUS
    <3>2. /\ Proposed(c) /\ i \in DOMAIN versions /\ BorneOut(c, versions[i])
          /\ CurrentStands(c, versions[i]) /\ ProposalId(c) \in DOMAIN versions
      BY <1>0, <2>2, <3>1, FinalFacts DEF MoveHead
    <3>3. versions'[MergeId(c)] = Merge(c, versions[i])
      <4>1. versions' = Put(versions, MergeId(c), Merge(c, versions[i]))
        BY <2>2, <3>1 DEF MoveHead
      <4> QED BY <4>1, SMT DEF Put
    <3>4. /\ i \in DOMAIN versions' /\ Merge(c, versions[i])' = Merge(c, versions[i])
          /\ BorneOut(c, versions[i])' /\ CurrentStands(c, versions[i])'
      BY <3>2, JudgedStays
    <3>5. ProposalId(c) \in DOMAIN versions'
      BY <3>2, VersionsGrow
    <3> QED BY <3>3, <3>4, <3>5
  <2> QED BY <1>2, <2>1, <2>2, NamesAdded
<1> QED BY <1>1, <1>2 DEF HistorySound, ProposalId, MergeId

\* While a call holds the lock nobody else moves Head or adds a Version.
LEMMA HistoryHeld ==
  ASSUME ChangeSetInv, [Next]_allVars, NEW p \in Procs, pc[p] \in LockedSteps,
         pc'[p] = pc[p]
  PROVE  UNCHANGED <<head, versions, current>>
<1>0. holder = p /\ p # None /\ LockInv
  BY ConstantFacts DEF ChangeSetInv, LockInv
<1>1. ASSUME NEW q \in Procs, StartHistory(q) \/ RefuseHistory(q) PROVE FALSE
  BY <1>0, <1>1 DEF StartHistory, RefuseHistory
<1>2. ASSUME NEW q \in Procs, InstallProposal(q) \/ MoveHead(q) PROVE FALSE
  <2>1. q = p /\ pc[p] \in {"proposal", "head"}
    BY <1>0, <1>2 DEF InstallProposal, MoveHead, LockInv, LockedSteps
  <2>2. (pc[p] = "proposal" /\ pc'[p] = "head") \/ (pc[p] = "head" /\ pc'[p] = "receipt")
    BY <1>0, <1>2, <2>1, HoldingFacts, ReleasedFacts DEF InstallProposal, MoveHead
  <2> QED BY <2>2
<1>3. ASSUME Seal, ~ UNCHANGED <<head, versions, current>> PROVE FALSE
  <2>1. ASSUME NEW q \in Procs, NEW c \in ChangeSets, Begin(q, c)
        PROVE  FALSE
    BY <1>3, <2>1 DEF Begin, BeginFresh, ResumePrepared, ResumePublished, ResumeCompleted, historyVars
  <2>2. ASSUME NEW q \in Procs, Progress(q)
        PROVE  FALSE
    <3>1. CASE SealFinal(q)
      BY <1>0, <3>1 DEF SealFinal
    <3>2. CASE Prepare(q) \/ Move(q) \/ Remove(q) \/ NextStage(q) \/ Rewrite(q) \/ JournalPublished(q)
      BY <1>3, <3>2 DEF Prepare, Move, Remove, NextStage, Rewrite, JournalPublished, historyVars
    <3>3. CASE Publish(q)
      BY <1>3, <3>3 DEF Publish, VerifyMoved, Truncate, Install, historyVars
    <3>4. CASE ReuseHistory(q) \/ PublishReceipt(q) \/ Cleanup(q)
      BY <1>3, <3>4 DEF ReuseHistory, PublishReceipt, Cleanup, historyVars
    <3> QED BY <1>1, <1>2, <2>2, <3>1, <3>2, <3>3, <3>4 DEF Progress
  <2>3. CASE UNCHANGED allVars
    BY <1>3, <2>3 DEF allVars, vars, historyVars
  <2>4. CASE Capture \/ \E c \in ChangeSets : Checkout(c)
    BY <1>0, <2>4 DEF Capture, Checkout
  <2>5. CASE \E c \in ChangeSets : ProposeChangeSet(c)
    BY <1>3, <2>5 DEF ProposeChangeSet, historyVars
  <2>6. CASE (\E q \in Paths : Edit(q)) \/ (\E q \in Procs : Crash(q))
    BY <1>3, <2>6 DEF Edit, Crash, historyVars
  <2> QED BY <2>1, <2>2, <2>3, <2>4, <2>5, <2>6 DEF Next
<1> QED BY <1>1, <1>2, <1>3, Frames

\* The capture a call works on, and what it has judged of it.
LEMMA FinalStep ==
  ASSUME ChangeSetInv, [Next]_allVars
  PROVE  FinalSound'
<1> DEFINE Known(c, i, at) ==
             /\ head = i /\ BorneOut(c, versions[i])
             /\ Valid(Proposal(c)) /\ Installable(versions, ProposalId(c), Proposal(c))
             /\ Diverged(c, versions[i]) =>
                  /\ CurrentStands(c, versions[i])
                  /\ Valid(Merge(c, versions[i])) /\ Installable(versions, MergeId(c), Merge(c, versions[i]))
             /\ at = "head" => ProposalId(c) \in DOMAIN versions
<1>0. LockInv /\ FinalSound /\ VersionsSound /\ VersionsSound'
  BY VersionsStep DEF ChangeSetInv
<1>1. ASSUME NEW p \in Procs, pc'[p] \in FinalSteps
      PROVE  job'[p].final \in DOMAIN versions'
  <2>1. CASE pc'[p] = pc[p] /\ job'[p] = job[p]
    BY <1>0, <1>1, <2>1, VersionsGrow DEF FinalSound
  <2>2. CASE SealFinal(p)
    <3>1. IsJob(job[p]) /\ job' = [job EXCEPT ![p] = [job[p] EXCEPT !.final = head']] /\ Seal
      BY <1>0, <2>2 DEF SealFinal, LockInv
    <3>2. job'[p] = [job[p] EXCEPT !.final = head']
      BY <1>0, <3>1 DEF LockInv
    <3>3. job'[p].final = head'
      <4>1. PICK j : j = job[p]
        OBVIOUS
      <4>2. PICK x : x = head'
        OBVIOUS
      <4>3. [j EXCEPT !.final = x].final = x
        BY <3>1, <4>1, JobUpdates
      <4> QED BY <3>2, <4>1, <4>2, <4>3
    <3> QED BY <1>0, <3>1, <3>3, SealGrows
  <2>3. CASE StartHistory(p) \/ InstallProposal(p)
    <3>1. pc[p] \in FinalSteps /\ job'[p] = job[p]
      BY <1>0, <2>3, HoldingFacts DEF StartHistory, InstallProposal, FinalSteps, Job
    <3> QED BY <1>0, <3>1, VersionsGrow DEF FinalSound
  <2>4. CASE ReuseHistory(p) \/ MoveHead(p)
    <3>1. /\ pc[p] # "idle" /\ Released(p, "receipt", [job[p] EXCEPT !.final = head'])
          /\ head' \in {ProposalId(job[p].set), MergeId(job[p].set)}
      BY <2>4 DEF ReuseHistory, MoveHead, Job, historyVars, Finalized
    <3>2. Proposed(job[p].set) /\ IsJob(job[p])
      BY <1>0, <3>1 DEF LockInv, IsJob
    <3>3. job'[p].final = head'
      <4>1. PICK j : j = job[p]
        OBVIOUS
      <4>2. PICK x : x = head'
        OBVIOUS
      <4>3. [j EXCEPT !.final = x].final = x
        BY <3>2, <4>1, JobUpdates
      <4>4. job'[p] = [j EXCEPT !.final = x]
        BY <1>0, <3>1, <4>1, <4>2, ReleasedFacts
      <4> QED BY <4>2, <4>3, <4>4
    <3>4. head' # None
      BY <3>1, <3>2, IdsTyped, ConstantFacts DEF Proposed
    <3> QED BY <1>0, <3>3, <3>4 DEF VersionsSound
  <2>5. CASE pc'[p] \in {"idle", "move", "remove", "install", "rewrite", "journal", "cleanup"}
    BY <1>1, <2>5 DEF FinalSteps
  <2>6. CASE JournalPublished(p)
    BY <1>0, <1>1, <2>6, ReleasedFacts DEF JournalPublished, FinalSteps
  <2>7. ASSUME NEW c \in ChangeSets, BeginFresh(p, c) \/ ResumePublished(p, c) \/ ResumeCompleted(p, c)
        PROVE  FALSE
    <3>1. pc'[p] \in {"prepare", "seal", "cleanup"}
      BY <1>0, <2>7, HoldingFacts, ReleasedFacts DEF BeginFresh, ResumePublished, ResumeCompleted
    <3> QED BY <1>1, <3>1 DEF FinalSteps
  <2> QED BY <2>1, <2>2, <2>3, <2>4, <2>5, <2>6, <2>7, CallMoves
<1>2. ASSUME NEW p \in Procs, NEW c \in ChangeSets, NEW i \in DOMAIN versions',
             pc'[p] \in {"proposal", "head"}, job'[p].set = c, job'[p].final = i
      PROVE  Known(c, i, pc[p])'
  <2>1. CASE pc'[p] = pc[p] /\ job'[p] = job[p]
    <3>1. UNCHANGED <<head, versions>>
      BY <1>2, <2>1, HistoryHeld DEF LockedSteps
    <3>2. Proposed(c) /\ i \in DOMAIN versions /\ Known(c, i, pc[p])
      BY <1>0, <1>2, <2>1, FinalFacts
    <3>3. /\ BorneOut(c, versions[i])' /\ Merge(c, versions[i])' = Merge(c, versions[i])
          /\ Diverged(c, versions[i])' => Diverged(c, versions[i])
          /\ CurrentStands(c, versions[i]) => CurrentStands(c, versions[i])'
          /\ Proposal(c)' = Proposal(c)
      BY <3>2, JudgedStays, ProposedStays
    <3> QED BY <2>1, <3>1, <3>2, <3>3 DEF ProposalId, MergeId, Installable
  <2>2. CASE StartHistory(p)
    <3>1. pc'[p] = "proposal" /\ job'[p] = job[p] /\ pc[p] = "history"
      BY <1>0, <2>2, HoldingFacts DEF StartHistory, Job
    <3>2. Proposed(c) /\ i \in DOMAIN versions
      BY <1>0, <1>2, <3>1 DEF LockInv, IsJob, FinalSound, FinalSteps
    <3> DEFINE f == versions[i]
    <3>3. /\ head = i /\ UNCHANGED head /\ CanFinalize(c, f) /\ versions' = WithCurrent(c, f)
      BY <1>2, <2>2, <3>1 DEF StartHistory
    <3>4. BorneOut(c, f)
      BY <3>3 DEF CanFinalize, CanBuildCurrent, BorneOut
    <3>5. /\ Valid(Proposal(c)) /\ Installable(versions, ProposalId(c), Proposal(c))
          /\ Diverged(c, f) => /\ Disjoint(BaseOf(c), f, Deltas(c))
                               /\ Valid(Merge(c, f)) /\ Installable(versions, MergeId(c), Merge(c, f))
      BY <3>3 DEF CanFinalize, CanBuildCurrent
    <3>6. Diverged(c, f) => CurrentId(c) \in DOMAIN versions' /\ versions'[CurrentId(c)] = Current(c, f)
      BY <3>3, WithCurrentGrows DEF CanFinalize
    <3>7. \A id \in DOMAIN versions' : id \in DOMAIN versions \/ id = CurrentId(c)
      BY <3>3, WithCurrentGrows DEF CanFinalize
    <3>8. /\ ProposalId(c) \in DOMAIN versions' => versions'[ProposalId(c)] = Proposal(c)
          /\ Diverged(c, f) => (MergeId(c) \in DOMAIN versions' => versions'[MergeId(c)] = Merge(c, f))
      BY <3>5, <3>7, IdsDiffer, VersionsGrow DEF Installable
    <3>9. /\ BorneOut(c, versions[i])' /\ Merge(c, versions[i])' = Merge(c, f)
          /\ Diverged(c, versions[i])' => Diverged(c, f)
          /\ Proposal(c)' = Proposal(c) /\ versions'[i] = f
          /\ Deltas(c)' = Deltas(c) /\ BaseOf(c)' = BaseOf(c) /\ Current(c, f)' = Current(c, f)
      BY <3>2, <3>4, JudgedStays, ProposedStays
    <3>10. Current(c, versions[i])' = Current(c, f)
      BY <3>9 DEF Current
    <3>11. Diverged(c, f) => CurrentStands(c, versions[i])'
      BY <3>5, <3>6, <3>9, <3>10 DEF CurrentStands, CurrentId
    <3> HIDE DEF f
    <3> QED BY <3>1, <3>3, <3>5, <3>8, <3>9, <3>11 DEF ProposalId, MergeId, Installable
  <2>3. CASE InstallProposal(p)
    <3>1. pc'[p] = "head" /\ job'[p] = job[p] /\ pc[p] = "proposal"
      BY <1>0, <2>3, HoldingFacts DEF InstallProposal, Job
    <3>2. Proposed(c) /\ i \in DOMAIN versions /\ Known(c, i, pc[p])
      BY <1>0, <1>2, <3>1, FinalFacts
    <3> DEFINE f == versions[i]
    <3>3. UNCHANGED head /\ versions' = Put(versions, ProposalId(c), Proposal(c))
      BY <1>2, <2>3, <3>1 DEF InstallProposal
    <3>4. /\ DOMAIN versions' = DOMAIN versions \cup {ProposalId(c)}
          /\ versions'[ProposalId(c)] = Proposal(c)
      BY <3>3, SMT DEF Put
    <3>5. Diverged(c, f) => (MergeId(c) \in DOMAIN versions' => versions'[MergeId(c)] = Merge(c, f))
      BY <3>2, <3>4, IdsDiffer, VersionsGrow DEF Installable
    <3>6. /\ BorneOut(c, versions[i])' /\ Merge(c, versions[i])' = Merge(c, f)
          /\ Diverged(c, versions[i])' => Diverged(c, f)
          /\ CurrentStands(c, f) => CurrentStands(c, versions[i])'
          /\ Proposal(c)' = Proposal(c)
      BY <3>2, JudgedStays, ProposedStays
    <3> QED BY <3>2, <3>3, <3>4, <3>5, <3>6 DEF ProposalId, MergeId, Installable
  <2>4. CASE pc'[p] \in {"idle", "move", "remove", "install", "rewrite", "journal", "cleanup"}
    BY <1>2, <2>4
  <2>5. CASE JournalPublished(p) \/ ReuseHistory(p) \/ MoveHead(p)
    BY <1>0, <1>2, <2>5, ReleasedFacts DEF JournalPublished, ReuseHistory, MoveHead
  <2>6. CASE SealFinal(p)
    BY <1>0, <1>2, <2>6 DEF SealFinal, LockInv
  <2>7. ASSUME NEW e \in ChangeSets, BeginFresh(p, e) \/ ResumePublished(p, e) \/ ResumeCompleted(p, e)
        PROVE  FALSE
    BY <1>0, <1>2, <2>7, HoldingFacts, ReleasedFacts DEF BeginFresh, ResumePublished, ResumeCompleted
  <2> QED BY <2>1, <2>2, <2>3, <2>4, <2>5, <2>6, <2>7, CallMoves
<1> QED BY <1>1, <1>2 DEF FinalSound

-----------------------------------------------------------------------------
(* The invariant of the projections is inductive.                          *)

LEMMA BegunProposed ==
  ASSUME LockInv, NEW c \in ChangeSets, Begun(c)
  PROVE  Proposed(c)
BY DEF LockInv, Begun, Active

\* A completion receipt is never withdrawn, and the journal of a Change Set is
\* only removed when there is one.
LEMMA BegunStays ==
  ASSUME ChangeSetInv, [Next]_allVars, NEW c \in ChangeSets
  PROVE  /\ receipts[c] # None => receipts'[c] # None
         /\ Begun(c) => Begun(c)'
<1>0. LockInv /\ FinalSound /\ PublishInv /\ CurrentInv /\ VersionsSound /\ DOMAIN receipts = ChangeSets
  BY DEF ChangeSetInv, EnvelopesSound
<1>1. receipts[c] # None => receipts'[c] # None
  <2>1. CASE UNCHANGED receipts
    BY <2>1
  <2>2. ASSUME NEW p \in Procs, PublishReceipt(p)
        PROVE  receipts[c] # None => receipts'[c] # None
    <3>1. job[p].final \in DOMAIN versions
      BY <1>0, <2>2 DEF PublishReceipt, FinalSound, FinalSteps
    <3>2. InventoryOf(versions[job[p].final]) # None
      BY <1>0, <3>1, InventoryIsSomething
    <3>3. \/ UNCHANGED receipts
          \/ receipts' = [receipts EXCEPT ![job[p].set] = InventoryOf(versions[job[p].final])]
      BY <2>2 DEF PublishReceipt
    <3> QED BY <1>0, <3>2, <3>3
  <2> QED BY <2>1, <2>2, Frames
<1>2. ASSUME Active(c)
      PROVE  Begun(c)'
  <2>1. CASE UNCHANGED journal
    BY <1>2, <2>1 DEF Begun, Active
  <2>2. ASSUME NEW p \in Procs, pc[p] # "idle",
               Prepare(p) \/ Publish(p) \/ Rewrite(p) \/ JournalPublished(p) \/ Cleanup(p)
        PROVE  Begun(c)'
    <3>0. job[p].set \in ChangeSets
      BY <1>0, <2>2 DEF LockInv, IsJob, Proposed
    <3>1. CASE Prepare(p)
      BY <1>0, <1>2, <3>0, <3>1 DEF Prepare, CurrentInv, Active
    <3>2. CASE Publish(p) \/ Rewrite(p)
      <4>1. UNCHANGED journal
        BY <3>2 DEF Publish, VerifyMoved, Truncate, Install, Rewrite, durable
      <4> QED BY <2>1, <4>1
    <3>3. CASE JournalPublished(p)
      <4>1. Active(job[p].set)
        BY <1>0, <3>3, PublishFacts DEF JournalPublished, PublishSteps
      <4>2. journal' = [set |-> c, phase |-> "published"]
        BY <1>2, <3>3, <4>1 DEF JournalPublished, Active
      <4>3. journal' \in [set: ChangeSets, phase: Phases] /\ journal'.set = c
        BY <4>2 DEF Phases
      <4> QED BY <4>3, ConstantFacts DEF Begun, Active
    <3>4. CASE Cleanup(p)
      <4>1. receipts[job[p].set] # None /\ UNCHANGED receipts
        BY <1>0, <3>0, <3>4 DEF Cleanup, CurrentInv
      <4>2. CASE Active(job[p].set)
        BY <1>2, <4>1, <4>2 DEF Active, Begun
      <4>3. CASE UNCHANGED journal
        BY <2>1, <4>3
      <4> QED BY <3>4, <4>2, <4>3 DEF Cleanup
    <3> QED BY <2>2, <3>1, <3>2, <3>3, <3>4
  <2> QED BY <2>1, <2>2, Frames
<1> QED BY <1>1, <1>2 DEF Begun

LEMMA ExcusedStays ==
  ASSUME ChangeSetInv, [Next]_allVars, NEW o, Excused(o), current'[o] = current[o]
  PROVE  Excused(o)'
<1>1. PICK c \in ChangeSets : /\ Begun(c)
                              /\ \E d \in Deltas(c) : /\ d.object = o /\ d.after # None
                                                      /\ current[o] = d.after.over
  BY DEF Excused
<1>2. Proposed(c)
  BY <1>1, BegunProposed DEF ChangeSetInv
<1>3. Deltas(c)' = Deltas(c) /\ Begun(c)'
  BY <1>1, <1>2, ProposedStays, BegunStays
<1> QED BY <1>1, <1>3 DEF Excused

\* What the projections become: of each Object its delta's or what it was.
LEMMA RenewedFacts ==
  ASSUME NEW ds, NEW f, \A d, e \in ds : d.object = e.object => d = e
  PROVE  /\ DOMAIN CurrentWith(ds, f) = DOMAIN current
         /\ \A o \in DOMAIN current :
              \/ \E d \in Renewed(ds, f) : d.object = o /\ CurrentWith(ds, f)[o] = d.after.over
              \/ (\A d \in Renewed(ds, f) : d.object # o) /\ CurrentWith(ds, f)[o] = current[o]
<1> DEFINE R == Renewed(ds, f)
           g == [o \in DOMAIN current |->
                   IF \E d \in R : d.object = o
                   THEN (CHOOSE d \in ds : d.object = o).after.over ELSE current[o]]
<1>1. R \subseteq ds /\ CurrentWith(ds, f) = g
  BY DEF Renewed, CurrentWith
<1>2. ASSUME NEW o \in DOMAIN current, NEW d \in R, d.object = o
      PROVE  g[o] = d.after.over
  <2>1. (CHOOSE e \in ds : e.object = o) = d
    BY <1>1, <1>2
  <2> QED BY <1>2, <2>1
<1>3. ASSUME NEW o \in DOMAIN current, \A d \in R : d.object # o
      PROVE  g[o] = current[o]
  BY <1>3
<1>4. DOMAIN g = DOMAIN current
  OBVIOUS
<1> HIDE DEF g, R
<1> QED BY <1>1, <1>2, <1>3, <1>4 DEF R

\* What Head binds once it is moved: an untouched Object as the final capture
\* has it, and each Object of the Change Set as its delta.
LEMMA HeadBinds ==
  ASSUME ChangeSetInv, [Next]_allVars, NEW p \in Procs, MoveHead(p),
         NEW q \in DOMAIN Prior'.bindings
  PROVE  \/ q \in DOMAIN Prior.bindings /\ Prior'.bindings[q] = Prior.bindings[q]
         \/ \E d \in Deltas(job[p].set) : /\ d.after # None
                                          /\ Prior'.bindings[q].object = d.object
                                          /\ Prior'.bindings[q].over = d.after.over
<1> DEFINE c == job[p].set  i == job[p].final
<1>0. LockInv /\ FinalSound /\ HistorySound /\ pc[p] = "head"
  BY DEF ChangeSetInv, MoveHead
<1>1. /\ Proposed(c) /\ i \in DOMAIN versions /\ head = i /\ ProposalId(c) \in DOMAIN versions
      /\ c \in ChangeSets /\ WellFormed(Deltas(c))
  BY <1>0, FinalFacts DEF Proposed
<1> DEFINE f == versions[i]
           ds == Deltas(c)
<1>2. Prior = f
  <2>1. i # None
    BY <1>1, ConstantFacts DEF ChangeSetInv, VersionsSound
  <2> QED BY <1>1, <2>1 DEF Prior
<1>3. versions[ProposalId(c)] = Proposal(c)
  BY <1>0, <1>1 DEF HistorySound
<1>4. Proposal(c) = ProposalVersion(BaseOf(c), checkouts[c], ds)
  BY DEF Proposal
<1>5. ASSUME NEW r \in DOMAIN Proposal(c).bindings
      PROVE  \/ /\ r \in DOMAIN BaseOf(c).bindings /\ BaseOf(c).bindings[r].object \notin Touched(ds)
                /\ Proposal(c).bindings[r] = BaseOf(c).bindings[r]
             \/ \E d \in ds : /\ d.after # None /\ Proposal(c).bindings[r].object = d.object
                              /\ Proposal(c).bindings[r].over = d.after.over
  <2>1. CASE \E d \in ds : d.after # None /\ d.after.path = r
    <3>1. PICK d \in ds : d.after # None /\ d.after.path = r
      BY <2>1
    <3>2. DeltaOf(ds, r) = d
      BY <1>1, <3>1, DeltaAt DEF WellFormed
    <3>3. Proposal(c).bindings[r] = AfterBinding(d)
      BY <1>4, <1>5, <3>1, <3>2, ProposalBindings
    <3> QED BY <3>1, <3>3 DEF AfterBinding
  <2>2. CASE ~ \E d \in ds : d.after # None /\ d.after.path = r
    BY <1>4, <1>5, <2>2, ProposalBindings
  <2> QED BY <2>1, <2>2
<1>6. \A id : id # None /\ head' = id => Prior' = versions'[id]
  BY DEF Prior
<1>7. {ProposalId(c), MergeId(c)} \subseteq VersionIds /\ None \notin VersionIds
  BY <1>1, IdsTyped, ConstantFacts
<1>8. CASE Diverged(c, f)
  <2>1. versions' = Put(versions, MergeId(c), Merge(c, f)) /\ head' = MergeId(c)
    BY <1>8 DEF MoveHead
  <2>2. versions'[MergeId(c)] = Merge(c, f)
    BY <2>1, SMT DEF Put
  <2>3. Prior' = Merge(c, f)
    BY <1>6, <1>7, <2>1, <2>2
  <2> DEFINE kept == Kept(f, Touched(ds))
             put == DOMAIN Proposal(c).bindings \ Kept(Proposal(c), Touched(ds))
  <2>4. Merge(c, f).bindings = Join(f, kept, Proposal(c), put)
    BY DEF Merge, MergeVersion
  <2>5. /\ q \in kept \cup put
        /\ q \in put => Prior'.bindings[q] = Proposal(c).bindings[q]
        /\ q \notin put => Prior'.bindings[q] = f.bindings[q]
    BY <2>3, <2>4 DEF Join
  <2>6. CASE q \in put
    <3>1. q \in DOMAIN Proposal(c).bindings /\ Proposal(c).bindings[q].object \in Touched(ds)
      BY <2>6 DEF Kept
    <3> QED BY <1>5, <2>5, <2>6, <3>1
  <2>7. CASE q \notin put
    <3>1. q \in DOMAIN f.bindings
      BY <2>5, <2>7 DEF Kept
    <3> QED BY <1>2, <2>5, <2>7, <3>1
  <2> QED BY <2>6, <2>7
<1>9. CASE ~ Diverged(c, f)
  <2>1. versions' = versions /\ head' = ProposalId(c)
    BY <1>9 DEF MoveHead
  <2>2. Prior' = Proposal(c)
    BY <1>3, <1>6, <1>7, <2>1
  <2>3. CASE \E d \in ds : /\ d.after # None /\ Proposal(c).bindings[q].object = d.object
                           /\ Proposal(c).bindings[q].over = d.after.over
    BY <2>2, <2>3
  <2>4. CASE /\ q \in DOMAIN BaseOf(c).bindings /\ BaseOf(c).bindings[q].object \notin Touched(ds)
             /\ Proposal(c).bindings[q] = BaseOf(c).bindings[q]
    <3> DEFINE before == {d.object : d \in {x \in ds : x.before # None}}
               after == {d.object : d \in {x \in ds : x.after # None}}
               kept == Kept(f, after \cup before)
               put == DOMAIN BaseOf(c).bindings \ Kept(BaseOf(c), before)
    <3>1. Current(c, f).bindings = BaseOf(c).bindings
      BY <1>9 DEF Diverged, SameAsBase
    <3>2. Current(c, f).bindings = Join(f, kept, BaseOf(c), put)
      BY DEF Current, CurrentVersion
    <3>3. before \subseteq Touched(ds)
      BY DEF Touched
    <3>4. q \notin put
      BY <2>4, <3>3 DEF Kept
    <3>5. q \in kept /\ BaseOf(c).bindings[q] = f.bindings[q]
      BY <2>4, <3>1, <3>2, <3>4 DEF Join
    <3>6. q \in DOMAIN f.bindings
      BY <3>5 DEF Kept
    <3> QED BY <1>2, <2>2, <2>4, <3>5, <3>6
  <2> QED BY <1>5, <2>2, <2>3, <2>4
<1> QED BY <1>8, <1>9

\* A call that is past the publication of its files has begun its Change Set.
LEMMA CallsBegun ==
  ASSUME ChangeSetInv, [Next]_allVars, NEW p \in Procs, NEW c \in ChangeSets, job'[p].set = c
  PROVE  /\ pc'[p] \in BegunSteps => Begun(c)'
         /\ pc'[p] = "cleanup" => receipts'[c] # None
         /\ pc'[p] = "prepare" => journal' = None
<1>0. LockInv /\ PublishInv /\ CurrentInv /\ VersionsSound /\ FinalSound /\ DOMAIN receipts = ChangeSets
  BY DEF ChangeSetInv, EnvelopesSound
<1>1. CASE pc'[p] = pc[p] /\ job'[p] = job[p]
  <2>1. pc[p] \in BegunSteps => Begun(c)'
    BY <1>0, <1>1, BegunStays DEF CurrentInv
  <2>2. pc[p] = "cleanup" => receipts'[c] # None
    BY <1>0, <1>1, BegunStays DEF CurrentInv
  <2>3. ASSUME pc[p] = "prepare" PROVE journal' = None
    <3>1. journal = None /\ holder = p
      BY <1>0, <1>1, <2>3 DEF CurrentInv, LockInv, LockedSteps
    <3>2. ASSUME NEW r \in Procs,
                 Prepare(r) \/ Publish(r) \/ Rewrite(r) \/ JournalPublished(r) \/ Cleanup(r)
          PROVE  FALSE
      <4>1. pc[r] \in LockedSteps
        BY <3>2 DEF Prepare, Publish, VerifyMoved, Truncate, Install, Ready, Rewrite, JournalPublished,
                    Cleanup, LockedSteps, PublishSteps
      <4>2. r = p
        BY <1>0, <3>1, <4>1 DEF LockInv
      <4>3. Prepare(p)
        BY <2>3, <3>2, <4>2 DEF Publish, VerifyMoved, Truncate, Install, Ready, Rewrite,
                                JournalPublished, Cleanup
      <4>4. pc'[p] = "move"
        BY <1>0, <4>3, HoldingFacts DEF Prepare
      <4> QED BY <1>1, <2>3, <4>4
    <3> QED BY <3>1, <3>2, Frames
  <2> QED BY <1>1, <2>1, <2>2, <2>3
<1>2. CASE pc'[p] \in {"idle", "move", "remove", "install", "rewrite"}
  BY <1>2 DEF BegunSteps
<1>3. CASE pc'[p] = "journal" /\ pc[p] = "install" /\ job'[p].set = job[p].set
  BY <1>0, <1>3, PublishFacts, BegunStays DEF Begun, PublishSteps
<1>4. CASE JournalPublished(p)
  <2>1. Active(job[p].set) /\ pc'[p] = "seal" /\ job'[p] = job[p]
    BY <1>0, <1>4, PublishFacts, ReleasedFacts DEF JournalPublished, PublishSteps, Job
  <2> QED BY <2>1, BegunStays DEF Begun
<1>5. CASE SealFinal(p)
  <2>1. pc[p] = "seal" /\ pc'[p] = "history" /\ IsJob(job[p])
        /\ job' = [job EXCEPT ![p] = [job[p] EXCEPT !.final = head']]
    BY <1>0, <1>5 DEF SealFinal, LockInv
  <2>2. PICK j : j = job[p]
    OBVIOUS
  <2>3. PICK x : x = head'
    OBVIOUS
  <2>4. [j EXCEPT !.final = x].set = j.set
    BY <2>1, <2>2, JobUpdates
  <2>5. job'[p] = [j EXCEPT !.final = x]
    BY <1>0, <2>1, <2>2, <2>3 DEF LockInv
  <2>6. job[p].set = c
    BY <2>2, <2>4, <2>5
  <2> QED BY <1>0, <2>1, <2>6, BegunStays DEF CurrentInv, BegunSteps
<1>6. CASE StartHistory(p) \/ InstallProposal(p)
  <2>1. pc[p] \in BegunSteps /\ pc'[p] \in {"proposal", "head"} /\ job'[p] = job[p]
    BY <1>0, <1>6, HoldingFacts DEF StartHistory, InstallProposal, Job, BegunSteps
  <2> QED BY <1>0, <2>1, BegunStays DEF CurrentInv, BegunSteps
<1>7. CASE ReuseHistory(p) \/ MoveHead(p)
  <2>1. pc[p] \in BegunSteps /\ pc[p] # "idle" /\ Released(p, "receipt", [job[p] EXCEPT !.final = head'])
    BY <1>7 DEF ReuseHistory, MoveHead, Job, BegunSteps, historyVars
  <2>2. PICK j : j = job[p]
    OBVIOUS
  <2>3. PICK x : x = head'
    OBVIOUS
  <2>4. [j EXCEPT !.final = x].set = j.set
    BY <1>0, <2>1, <2>2, JobUpdates DEF LockInv
  <2>5. job'[p] = [j EXCEPT !.final = x] /\ pc'[p] = "receipt"
    BY <1>0, <2>1, <2>2, <2>3, ReleasedFacts
  <2>6. job[p].set = c
    BY <2>2, <2>4, <2>5
  <2> QED BY <1>0, <2>1, <2>5, <2>6, BegunStays DEF CurrentInv, BegunSteps
<1>8. CASE PublishReceipt(p) /\ pc'[p] = "cleanup" /\ job'[p] = job[p]
  <2> DEFINE r == InventoryOf(versions[job[p].final])
  <2>1. job[p].final \in DOMAIN versions /\ job[p].set = c
    BY <1>0, <1>8 DEF PublishReceipt, FinalSound, FinalSteps
  <2>2. r # None
    BY <1>0, <2>1, InventoryIsSomething
  <2>3. receipts' = [receipts EXCEPT ![c] = r] \/ pc'[p] = "idle"
    BY <1>0, <1>8, <2>1, ReleasedFacts DEF PublishReceipt, GiveUp
  <2> HIDE DEF r
  <2>4. receipts'[c] # None
    BY <1>0, <1>8, <2>2, <2>3
  <2> QED BY <1>8, <2>4 DEF Begun
<1>9. ASSUME NEW e \in ChangeSets, BeginFresh(p, e)
      PROVE  pc'[p] = "prepare" /\ journal' = None
  BY <1>0, <1>9, HoldingFacts DEF BeginFresh, durable
<1>10. ASSUME NEW e \in ChangeSets, ResumePublished(p, e) \/ ResumeCompleted(p, e)
       PROVE  /\ pc'[p] \in {"seal", "cleanup"} /\ job'[p].set = e /\ Active(e)
              /\ pc'[p] = "cleanup" => receipts[e] # None
  <2>1. Proposed(e)
    BY <1>10 DEF ResumePublished, ResumeCompleted, Callable, Proposed
  <2>2. CASE ResumePublished(p, e)
    <3>1. PICK x : x = Inventory
      OBVIOUS
    <3>2. PICK j : j = [Applying(e, {}) EXCEPT !.result = x]
      OBVIOUS
    <3>3. j.set = e
      BY <2>1, <3>2, ApplyingIsJob
    <3>4. Released(p, "seal", j) /\ Active(e)
      BY <2>2, <3>1, <3>2 DEF ResumePublished
    <3>5. pc'[p] = "seal" /\ job'[p] = j
      BY <1>0, <3>4, ReleasedFacts
    <3> QED BY <3>3, <3>4, <3>5
  <2>3. CASE ResumeCompleted(p, e)
    <3>1. PICK j : j = Applying(e, {})
      OBVIOUS
    <3>2. j.set = e
      BY <2>1, <3>1, ApplyingIsJob
    <3>3. Holding(p, "cleanup", j) /\ Active(e) /\ receipts[e] # None
      BY <2>3, <3>1 DEF ResumeCompleted
    <3>4. pc'[p] = "cleanup" /\ job'[p] = j
      BY <1>0, <3>3, HoldingFacts
    <3> QED BY <3>2, <3>3, <3>4
  <2> QED BY <1>10, <2>2, <2>3
<1>11. ASSUME NEW e \in ChangeSets, ResumePublished(p, e) \/ ResumeCompleted(p, e)
       PROVE  /\ pc'[p] \in BegunSteps => Begun(c)'
              /\ pc'[p] = "cleanup" => receipts'[c] # None
              /\ pc'[p] = "prepare" => journal' = None
  BY <1>10, <1>11, BegunStays DEF Begun
<1> QED BY <1>1, <1>2, <1>3, <1>4, <1>5, <1>6, <1>7, <1>8, <1>9, <1>11, CallMoves DEF BegunSteps

\* An Object that a Version binds, and the Object Version it has by now.
Follows(o, over) == o \in DOMAIN current /\ (current[o] = over \/ Excused(o))

\* Renewing the projections of a Change Set that has begun excuses what it changes.
LEMMA RenewedFollow ==
  ASSUME ChangeSetInv, [Next]_allVars, NEW c \in ChangeSets, Begun(c),
         NEW ds \in SUBSET Deltas(c), NEW f, current' = CurrentWith(ds, f),
         NEW o, NEW over, Follows(o, over)
  PROVE  /\ Follows(o, over)'
         /\ (\E d \in Renewed(ds, f) : d.object = o)
              => \E d \in Renewed(ds, f) : d.object = o /\ current'[o] = d.after.over
<1>1. Proposed(c) /\ Deltas(c)' = Deltas(c) /\ Begun(c)'
  BY BegunProposed, BegunStays, ProposedStays DEF ChangeSetInv
<1>2. \A d, e \in ds : d.object = e.object => d = e
  BY <1>1 DEF Proposed, WellFormed
<1>3. o \in DOMAIN current /\ DOMAIN current' = DOMAIN current
  BY <1>2, RenewedFacts DEF Follows
<1>4. \/ \E d \in Renewed(ds, f) : d.object = o /\ current'[o] = d.after.over
      \/ (\A d \in Renewed(ds, f) : d.object # o) /\ current'[o] = current[o]
  BY <1>2, <1>3, RenewedFacts
<1>5. CASE current'[o] = current[o]
  BY <1>3, <1>4, <1>5, ExcusedStays DEF Follows
<1>6. ASSUME NEW d \in Renewed(ds, f), d.object = o, current'[o] = d.after.over
      PROVE  Follows(o, over)'
  <2>1. d \in Deltas(c)' /\ d.after # None
    BY <1>1 DEF Renewed
  <2>2. Excused(o)'
    BY <1>1, <1>6, <2>1 DEF Excused
  <2> QED BY <1>3, <2>2 DEF Follows
<1> QED BY <1>4, <1>5, <1>6

LEMMA FollowsStays ==
  ASSUME ChangeSetInv, [Next]_allVars, NEW o, NEW over, Follows(o, over), UNCHANGED current
  PROVE  Follows(o, over)'
BY ExcusedStays DEF Follows

LEMMA FollowStep ==
  ASSUME ChangeSetInv, [Next]_allVars
  PROVE  FollowsHead'
<1>0. LockInv /\ FinalSound /\ CurrentInv /\ VersionsSound /\ FollowsHead
  BY DEF ChangeSetInv, CurrentInv
<1>1. ASSUME head # None, NEW q \in DOMAIN Prior.bindings
      PROVE  Follows(Prior.bindings[q].object, Prior.bindings[q].over)
  BY <1>0, <1>1 DEF FollowsHead, Follows
<1>2. ASSUME UNCHANGED head, head # None
      PROVE  Prior' = Prior
  BY <1>0, <1>2, VersionsGrow DEF Prior, VersionsSound
<1>3. SUFFICES ASSUME head' # None, NEW q \in DOMAIN Prior'.bindings
               PROVE  Follows(Prior.bindings[q].object, Prior.bindings[q].over)'
  BY DEF FollowsHead, Follows
<1>4. CASE UNCHANGED <<head, versions, current>>
  BY <1>1, <1>2, <1>3, <1>4, FollowsStays
<1>5. CASE Seal
  <2>1. CASE UNCHANGED historyVars
    BY <1>1, <1>2, <1>3, <2>1, FollowsStays DEF historyVars
  <2>2. CASE InstallCapture(Captured) /\ Valid(Captured)
    <3> DEFINE v == Captured  id == <<"capture", issued + 1>>
    <3>1. PICK w : w = v
      OBVIOUS
    <3>2. /\ head' = id /\ versions' = Put(versions, id, w)
          /\ current' = [o \in DOMAIN current \cup LiveObjects(w) |->
                           IF o \in LiveObjects(w) THEN w.bindings[OwnerIn(w, o)].over ELSE current[o]]
      BY <2>2, <3>1 DEF InstallCapture
    <3>3. versions'[id] = w
      BY <3>2, SMT DEF Put
    <3>4. Prior' = w
      BY <1>3, <3>2, <3>3 DEF Prior
    <3> DEFINE o == w.bindings[q].object
    <3>5. q \in DOMAIN w.bindings /\ o \in LiveObjects(w)
      BY <1>3, <3>4 DEF LiveObjects
    <3>6. OwnerIn(w, o) = q
      <4>1. \A r \in DOMAIN w.bindings : w.bindings[r].object = o => r = q
        BY <2>2, <3>1, <3>5 DEF Valid
      <4> QED BY <3>5, <4>1 DEF OwnerIn
    <3> HIDE DEF o
    <3>7. o \in DOMAIN current' /\ current'[o] = w.bindings[q].over
      BY <3>2, <3>5, <3>6
    <3> QED BY <3>4, <3>7 DEF Follows, o
  <2> QED BY <1>5, <2>1, <2>2 DEF Seal
<1>6. ASSUME NEW p \in Procs, StartHistory(p) \/ RefuseHistory(p)
      PROVE  Follows(Prior.bindings[q].object, Prior.bindings[q].over)'
  <2> DEFINE c == job[p].set
  <2>1. c \in ChangeSets /\ Begun(c) /\ UNCHANGED head
    BY <1>0, <1>6 DEF StartHistory, RefuseHistory, LockInv, IsJob, Proposed, CurrentInv, BegunSteps
  <2>2. \/ UNCHANGED current
        \/ \E ds \in SUBSET Deltas(c) : \E f : current' = CurrentWith(ds, f)
    BY <1>6 DEF StartHistory, RefuseHistory, InPlace
  <2>3. Follows(Prior.bindings[q].object, Prior.bindings[q].over) /\ Prior' = Prior
    BY <1>1, <1>2, <1>3, <2>1
  <2>4. PICK o, over : o = Prior.bindings[q].object /\ over = Prior.bindings[q].over
    OBVIOUS
  <2> HIDE DEF c
  <2>5. Follows(o, over)'
    BY <2>1, <2>2, <2>3, <2>4, FollowsStays, RenewedFollow
  <2>6. Prior'.bindings[q].object = o /\ Prior'.bindings[q].over = over
    BY <2>3, <2>4
  <2> QED BY <2>5, <2>6 DEF Follows, Excused
<1>7. ASSUME NEW p \in Procs, InstallProposal(p)
      PROVE  Follows(Prior.bindings[q].object, Prior.bindings[q].over)'
  <2>1. UNCHANGED <<head, current>>
    BY <1>7 DEF InstallProposal
  <2> QED BY <1>1, <1>2, <1>3, <2>1, FollowsStays
<1>8. ASSUME NEW p \in Procs, MoveHead(p)
      PROVE  Follows(Prior.bindings[q].object, Prior.bindings[q].over)'
  <2> DEFINE c == job[p].set
  <2>1. UNCHANGED current /\ pc[p] = "head"
    BY <1>8 DEF MoveHead
  <2>2. c \in ChangeSets /\ head = job[p].final /\ head # None
    BY <1>0, <2>1, FinalFacts, ConstantFacts DEF Proposed, VersionsSound
  <2>3. \A d \in Deltas(c) : d.after # None => Follows(d.object, d.after.over)
    BY <1>0, <2>1, <2>2 DEF CurrentInv, Follows
  <2>4. PICK b : b = Prior'.bindings[q]
    OBVIOUS
  <2>5. Follows(b.object, b.over)
    BY <1>1, <1>3, <1>8, <2>2, <2>3, <2>4, HeadBinds
  <2> QED BY <2>1, <2>4, <2>5, FollowsStays
<1> QED BY <1>4, <1>5, <1>6, <1>7, <1>8, Frames

\* What a call is about to put under Head, the projections follow already.
LEMMA TouchedFollow ==
  ASSUME ChangeSetInv, [Next]_allVars, NEW p \in Procs, NEW c \in ChangeSets, job'[p].set = c,
         pc'[p] \in {"proposal", "head"}, NEW d \in Deltas(c)', d.after # None
  PROVE  Follows(d.object, d.after.over)'
<1>0. LockInv /\ FinalSound /\ CurrentInv /\ VersionsSound /\ FollowsHead
  BY DEF ChangeSetInv, CurrentInv
<1>1. ASSUME pc[p] \in {"proposal", "head"}, job[p].set = c, UNCHANGED current
      PROVE  Follows(d.object, d.after.over)'
  <2>1. Deltas(c)' = Deltas(c)
    BY <1>0, <1>1, FinalFacts, ProposedStays
  <2>2. Follows(d.object, d.after.over)
    BY <1>0, <1>1, <2>1 DEF CurrentInv, Follows
  <2> QED BY <1>1, <2>2, FollowsStays
<1>2. CASE pc'[p] = pc[p] /\ job'[p] = job[p]
  BY <1>1, <1>2, HistoryHeld DEF LockedSteps
<1>3. CASE InstallProposal(p)
  BY <1>0, <1>1, <1>3, HoldingFacts DEF InstallProposal, Job
<1>4. CASE StartHistory(p)
  <2>1. job'[p] = job[p] /\ pc[p] = "history"
    BY <1>0, <1>4, HoldingFacts DEF StartHistory, Job
  <2>2. Proposed(c) /\ Begun(c) /\ head \in DOMAIN versions /\ head = job[p].final /\ head # None
    BY <1>0, <1>4, <2>1, ConstantFacts
       DEF LockInv, IsJob, CurrentInv, BegunSteps, StartHistory, FinalSound, FinalSteps, VersionsSound
  <2>3. PICK f : f = versions[head]
    OBVIOUS
  <2>4. /\ CanFinalize(c, f) /\ current' = CurrentWith(Deltas(c), f) /\ Prior = f
    BY <1>4, <2>1, <2>2, <2>3 DEF StartHistory, Prior
  <2>5. Deltas(c)' = Deltas(c) /\ WellFormed(Deltas(c))
    BY <2>2, ProposedStays DEF Proposed
  <2>6. /\ d.after.path \in DOMAIN f.bindings
        /\ f.bindings[d.after.path].object = d.object
    BY <2>4, <2>5 DEF CanFinalize, InPlace
  <2> DEFINE was == f.bindings[d.after.path].over
  <2>7. Follows(d.object, was)
    BY <1>0, <2>2, <2>4, <2>6 DEF FollowsHead, Follows
  <2>8. /\ Follows(d.object, was)'
        /\ (\E e \in Renewed(Deltas(c), f) : e.object = d.object)
             => \E e \in Renewed(Deltas(c), f) : e.object = d.object /\ current'[d.object] = e.after.over
    BY <2>2, <2>4, <2>7, RenewedFollow
  <2>9. CASE was = d.after.over
    BY <2>8, <2>9
  <2>10. CASE was # d.after.over
    <3>1. d \in Renewed(Deltas(c), f)
      BY <2>5, <2>10 DEF Renewed
    <3>2. \A e \in Renewed(Deltas(c), f) : e.object = d.object => e = d
      BY <2>5 DEF Renewed, WellFormed
    <3>3. current'[d.object] = d.after.over
      BY <2>8, <3>1, <3>2
    <3> QED BY <2>8, <3>3 DEF Follows
  <2> QED BY <2>9, <2>10
<1>5. CASE pc'[p] \in {"idle", "move", "remove", "install", "rewrite", "journal", "cleanup"}
  BY <1>5
<1>6. CASE JournalPublished(p) \/ ReuseHistory(p) \/ MoveHead(p)
  BY <1>0, <1>6, ReleasedFacts DEF JournalPublished, ReuseHistory, MoveHead
<1>7. CASE SealFinal(p)
  BY <1>0, <1>7 DEF SealFinal, LockInv
<1>8. ASSUME NEW e \in ChangeSets, BeginFresh(p, e) \/ ResumePublished(p, e) \/ ResumeCompleted(p, e)
      PROVE  FALSE
  BY <1>0, <1>8, HoldingFacts, ReleasedFacts DEF BeginFresh, ResumePublished, ResumeCompleted
<1> QED BY <1>2, <1>3, <1>4, <1>5, <1>6, <1>7, <1>8, CallMoves

LEMMA CurrentStep ==
  ASSUME ChangeSetInv, [Next]_allVars
  PROVE  CurrentInv'
<1>1. FollowsHead'
  BY FollowStep
<1>2. \A p \in Procs, c \in ChangeSets : job'[p].set = c =>
        /\ pc'[p] \in BegunSteps => Begun(c)'
        /\ pc'[p] = "cleanup" => receipts'[c] # None
        /\ pc'[p] = "prepare" => journal' = None
  BY CallsBegun
<1>3. \A p \in Procs, c \in ChangeSets : job'[p].set = c =>
        (pc'[p] \in {"proposal", "head"} => \A d \in Deltas(c)' : d.after # None =>
           Follows(d.object, d.after.over)')
  BY TouchedFollow
<1> QED BY <1>1, <1>2, <1>3 DEF CurrentInv, Follows

-----------------------------------------------------------------------------
(* The theorems.                                                           *)

LEMMA ChangeSetInit ==
  ASSUME Init
  PROVE  ChangeSetInv
<1>1. issued \in Nat
  BY FS_CardinalityType, ConstantFacts DEF Init
<1>2. ws \in [Paths -> File \cup {None}]
  <2>1. \A q \in Paths : [ino |-> q, data |-> InitialContent, late |-> FALSE] \in File
    BY ConstantFacts, ChangeSetAssumption DEF File
  <2> QED BY <2>1 DEF Init
<1>3. /\ DOMAIN versions = {} /\ head = None /\ journal = None /\ edits = 0
      /\ pc = [p \in Procs |-> "idle"] /\ DOMAIN job = Procs /\ holder = None
      /\ DOMAIN envelopes = ChangeSets /\ DOMAIN checkouts = ChangeSets /\ DOMAIN receipts = ChangeSets
      /\ \A c \in ChangeSets : checkouts[c] = None /\ envelopes[c] = None /\ receipts[c] = None
  BY DEF Init, NoChange
<1>4. LockInv
  BY <1>3, ConstantFacts DEF LockInv, Steps, LockedSteps, PublishSteps
<1>5. VersionsSound
  BY <1>1, <1>2, <1>3 DEF VersionsSound
<1>6. EnvelopesSound
  BY <1>3 DEF EnvelopesSound
<1>7. PublishInv
  BY <1>3 DEF PublishInv, JudgedSteps, PublishSteps, Active
<1>8. HistorySound /\ FinalSound
  BY <1>3 DEF HistorySound, FinalSound, FinalSteps
<1>9. CurrentInv
  BY <1>3 DEF CurrentInv, FollowsHead, BegunSteps
<1> QED BY <1>4, <1>5, <1>6, <1>7, <1>8, <1>9 DEF ChangeSetInv

LEMMA ChangeSetInductive ==
  ASSUME ChangeSetInv, [Next]_allVars
  PROVE  ChangeSetInv'
BY LockStep, VersionsStep, EnvelopesStep, PublishStep, HistoryStep, FinalStep, CurrentStep
   DEF ChangeSetInv

\* What calls know, what Versions bind, what publication has in hand and what the
\* history was computed from: together they are inductive (apply_change_set).
THEOREM ChangeSetInvariance == Spec => []ChangeSetInv
<1>1. Init => ChangeSetInv
  BY ChangeSetInit
<1>2. ChangeSetInv /\ [Next]_allVars => ChangeSetInv'
  BY ChangeSetInductive
<1> QED BY <1>1, <1>2, PTL DEF Spec

\* Only paths of its deltas does publication touch.
LEMMA PublishedPaths ==
  ASSUME ChangeSetInv, NEW p \in Procs, Move(p) \/ Remove(p) \/ Publish(p) \/ Rewrite(p),
         NEW q \in Paths, ws'[q] # ws[q]
  PROVE  /\ pc[p] \in PublishSteps /\ Proposed(job[p].set) /\ Active(job[p].set)
         /\ q \in PathsOf(Deltas(job[p].set))
<1> DEFINE c == job[p].set
<1>0. LockInv /\ PublishInv /\ ws \in [Paths -> File \cup {None}]
  BY DEF ChangeSetInv, VersionsSound
<1>1. pc[p] \in PublishSteps
  BY DEF Move, Remove, Rewrite, Publish, VerifyMoved, Truncate, Install, Ready, PublishSteps
<1>2. Proposed(c) /\ Active(c) /\ Of(p) = Deltas(c)
  BY <1>0, <1>1, PublishFacts DEF Of
<1>3. ASSUME NEW d \in Deltas(c)
      PROVE  /\ d.before # None => d.before.path \in PathsOf(Deltas(c))
             /\ d.after # None => d.after.path \in PathsOf(Deltas(c))
  BY DEF PathsOf
<1>4. CASE Move(p)
  <2>1. PICK d \in job[p].todo :
          \/ UNCHANGED ws
          \/ ws' = [ws EXCEPT ![d.after.path] = ws[d.before.path], ![d.before.path] = None]
    BY <1>4 DEF Move, Job
  <2>2. d \in Deltas(c) /\ d.before # None /\ d.after # None
    BY <1>0, <1>1, <1>2, <1>4, <2>1, PublishFacts DEF Move, Moves
  <2>3. q \in {d.before.path, d.after.path}
    BY <1>0, <2>1
  <2> QED BY <1>1, <1>2, <1>3, <2>2, <2>3
<1>5. CASE Remove(p)
  <2>1. PICK d \in job[p].todo : ws' = [ws EXCEPT ![d.before.path] = None]
    BY <1>5 DEF Remove, Job
  <2>2. d \in Deltas(c) /\ d.before # None
    BY <1>0, <1>1, <1>2, <1>5, <2>1, PublishFacts DEF Remove, Removals
  <2>3. q = d.before.path
    BY <1>0, <2>1
  <2> QED BY <1>1, <1>2, <1>3, <2>2, <2>3
<1>6. CASE Publish(p)
  <2>1. PICK d \in job[p].todo : /\ pc[p] = "install"
                                 /\ UNCHANGED ws \/ \E x : ws' = [ws EXCEPT ![d.after.path] = x]
    BY <1>6 DEF Publish, VerifyMoved, Truncate, Install, Job
  <2>2. d \in Deltas(c) /\ d.after # None
    BY <1>0, <1>1, <1>2, <2>1, PublishFacts
  <2>3. q = d.after.path
    BY <1>0, <2>1
  <2> QED BY <1>1, <1>2, <1>3, <2>2, <2>3
<1>7. CASE Rewrite(p)
  <2> DEFINE d == job[p].at
  <2>1. /\ pc[p] = "rewrite"
        /\ UNCHANGED ws \/ \E x : ws' = [ws EXCEPT ![d.after.path] = x]
    BY <1>7 DEF Rewrite, Job
  <2>2. d \in Deltas(c) /\ d.after # None
    BY <1>0, <1>1, <1>2, <2>1, PublishFacts DEF Moves
  <2> HIDE DEF d
  <2>3. q = d.after.path
    BY <1>0, <2>1
  <2> QED BY <1>1, <1>2, <1>3, <2>2, <2>3
<1> QED BY <1>4, <1>5, <1>6, <1>7

\* Publication, resumed after any death, replaces or removes only bytes that the
\* deltas account for, or that came after it had judged the file (change_set.rs).
THEOREM EditsAlwaysSurvive == Spec => EditsSurviveApply
<1>1. ASSUME ChangeSetInv, [Next]_allVars, edits' = edits, NEW q \in Paths,
             ws[q] # None, ws'[q] # ws[q]
      PROVE  ws[q].late \/ Recognized(q)
  <2>1. ASSUME NEW r \in Paths, Edit(r) PROVE FALSE
    BY <1>1, <2>1 DEF Edit, ChangeSetInv, LockInv
  <2>2. PICK p \in Procs : Move(p) \/ Remove(p) \/ Publish(p) \/ Rewrite(p)
    BY <1>1, <2>1, Frames
  <2> DEFINE c == job[p].set
  <2>3. pc[p] \in PublishSteps /\ Proposed(c) /\ Active(c) /\ q \in PathsOf(Deltas(c))
    BY <1>1, <2>2, PublishedPaths
  <2>4. c \in ChangeSets /\ pc[p] \in JudgedSteps
    BY <2>3 DEF Proposed, JudgedSteps
  <2>5. Spoken(c, q)
    BY <1>1, <2>3, <2>4 DEF ChangeSetInv, PublishInv
  <2>6. ws[q].late \/ RecognizedBy(c, q)
    BY <1>1, <2>5 DEF Spoken
  <2>7. journal # None /\ journal.set = c
    BY <2>3 DEF Active
  <2> QED BY <2>6, <2>7 DEF RecognizedBy, Recognized
<1>2. ChangeSetInv /\ [Next]_allVars =>
        [edits' = edits => \A q \in Paths : ws[q] # None /\ ws'[q] # ws[q]
                                              => ws[q].late \/ Recognized(q)]_allVars
  BY <1>1
<1> QED BY <1>2, ChangeSetInvariance, PTL DEF Spec, EditsSurviveApply

\* Whatever attempts installed them, a merge is the union of the proposal's
\* Objects and the current Version's others, and each side differs from the base
\* only on its own part (finalize_change_set_history).
THEOREM MergesAreUnions == Spec => []MergeIsUnion
<1>1. ASSUME ChangeSetInv, NEW c \in ChangeSets, MergeId(c) \in DOMAIN versions
      PROVE  LET touched == Touched(Deltas(c))
                 Part(id, own) == {<<p, versions[id].bindings[p]>> :
                                     p \in {q \in DOMAIN versions[id].bindings :
                                              (versions[id].bindings[q].object \in touched) = own}}
             IN  /\ Part(MergeId(c), TRUE) = Part(ProposalId(c), TRUE)
                 /\ Part(MergeId(c), FALSE) = Part(CurrentId(c), FALSE)
                 /\ Part(CurrentId(c), TRUE) = Part(checkouts[c], TRUE)
                 /\ Part(ProposalId(c), FALSE) = Part(checkouts[c], FALSE)
  <2> DEFINE ds == Deltas(c)  T == Touched(ds)
             m == versions[MergeId(c)].bindings     p == versions[ProposalId(c)].bindings
             w == versions[CurrentId(c)].bindings   b == versions[checkouts[c]].bindings
             In(v) == {q \in DOMAIN v : v[q].object \in T}
             Out(v) == {q \in DOMAIN v : v[q].object \notin T}
             Pairs(v, S) == {<<q, v[q]>> : q \in S}
             Part(id, own) == {<<q, versions[id].bindings[q]>> :
                                 q \in {r \in DOMAIN versions[id].bindings :
                                          (versions[id].bindings[r].object \in T) = own}}
  <2>1. PICK i \in DOMAIN versions :
          /\ Proposed(c) /\ versions[ProposalId(c)] = Proposal(c)
          /\ versions[MergeId(c)] = Merge(c, versions[i])
          /\ BorneOut(c, versions[i]) /\ CurrentStands(c, versions[i])
    BY <1>1 DEF ChangeSetInv, HistorySound
  <2>2. WellFormed(ds) /\ DerivedFrom(ds, BaseOf(c))
    BY <1>1, <2>1 DEF ChangeSetInv, EnvelopesSound, Proposed
  <2> DEFINE f == versions[i].bindings
             before == {d.object : d \in {x \in ds : x.before # None}}
             after == {d.object : d \in {x \in ds : x.after # None}}
             put == {q \in DOMAIN b : b[q].object \in before}
  <2>3. after \cup before = T
    BY <2>2 DEF Touched, WellFormed
  <2>4. b = BaseOf(c).bindings /\ p = Proposal(c).bindings
    BY <2>1 DEF BaseOf
  <2>5. Out(f) \cap put = {}
    BY <2>1, <2>4 DEF CurrentStands, Disjoint, Kept
  <2>6. /\ DOMAIN m = Out(f) \cup In(p)
        /\ \A q \in DOMAIN m : m[q] = IF q \in In(p) THEN p[q] ELSE f[q]
    <3>1. m = Join(versions[i], Kept(versions[i], T), Proposal(c),
                   DOMAIN Proposal(c).bindings \ Kept(Proposal(c), T))
      BY <2>1 DEF Merge, MergeVersion
    <3>2. Kept(versions[i], T) = Out(f) /\ DOMAIN Proposal(c).bindings \ Kept(Proposal(c), T) = In(p)
      BY <2>4 DEF Kept
    <3> HIDE DEF m, p, f, T, In, Out
    <3> QED BY <2>4, <3>1, <3>2 DEF Join, f
  <2>7. /\ DOMAIN w = Out(f) \cup put
        /\ \A q \in DOMAIN w : w[q] = IF q \in put THEN b[q] ELSE f[q]
    <3>1. w = Join(versions[i], Kept(versions[i], after \cup before), BaseOf(c),
                   DOMAIN BaseOf(c).bindings \ Kept(BaseOf(c), before))
      BY <2>1 DEF CurrentStands, Current, CurrentVersion
    <3>2. Kept(versions[i], after \cup before) = Out(f)
          /\ DOMAIN BaseOf(c).bindings \ Kept(BaseOf(c), before) = put
      BY <2>3, <2>4 DEF Kept
    <3> HIDE DEF w, b, f, T, In, Out, put, after, before
    <3> QED BY <2>4, <3>1, <3>2 DEF Join, f
  <2>8. ASSUME NEW d \in ds, d.after # None
        PROVE  /\ d.after.path \in DOMAIN f /\ f[d.after.path].object = d.object /\ d.object \in T
               /\ d.after.path \in DOMAIN b => b[d.after.path].object = d.object
    <3>1. d \in InPlace(versions[i], ds)
      BY <2>1, <2>8 DEF BorneOut
    <3> QED BY <2>2, <2>4, <2>8, <3>1 DEF InPlace, Touched, DerivedFrom
  <2>9. ASSUME NEW q \in DOMAIN p
        PROVE  \/ q \in DOMAIN b /\ b[q].object \notin T /\ p[q] = b[q]
               \/ \E d \in ds : d.after # None /\ d.after.path = q /\ p[q].object \in T
    <3>1. q \in DOMAIN ProposalVersion(BaseOf(c), checkouts[c], ds).bindings
          /\ p = ProposalVersion(BaseOf(c), checkouts[c], ds).bindings
      BY <2>4, <2>9 DEF Proposal
    <3>2. CASE \E d \in ds : d.after # None /\ d.after.path = q
      <4>1. PICK d \in ds : d.after # None /\ d.after.path = q
        BY <3>2
      <4>2. DeltaOf(ds, q) = d
        BY <2>2, <4>1, DeltaAt DEF WellFormed
      <4>3. p[q] = AfterBinding(d)
        BY <3>1, <4>1, <4>2, ProposalBindings
      <4> QED BY <2>8, <4>1, <4>3 DEF AfterBinding
    <3>3. CASE ~ \E d \in ds : d.after # None /\ d.after.path = q
      BY <2>4, <3>1, <3>3, ProposalBindings
    <3> QED BY <3>2, <3>3
  <2>10. ASSUME NEW q \in Out(b) PROVE q \in DOMAIN p
    <3>1. p = ProposalVersion(BaseOf(c), checkouts[c], ds).bindings
      BY <2>4 DEF Proposal
    <3>2. q \in DOMAIN BaseOf(c).bindings /\ BaseOf(c).bindings[q].object \notin Touched(ds)
      BY <2>4, <2>10
    <3> HIDE DEF p, b, ds
    <3>3. q \in DOMAIN ProposalVersion(BaseOf(c), checkouts[c], ds).bindings
      BY <3>2, ProposalDomain
    <3> QED BY <3>1, <3>3
  <2>11. \A q \in DOMAIN b : b[q].object \in T => b[q].object \in before
    <3>1. ASSUME NEW q \in DOMAIN b, NEW d \in ds, d.object = b[q].object
          PROVE  d.before # None
      <4>1. d.object \in LiveObjects(BaseOf(c))
        BY <2>4, <3>1 DEF LiveObjects
      <4> QED BY <2>2, <4>1 DEF DerivedFrom
    <3> QED BY <3>1 DEF Touched
  <2>12. before \subseteq T
    BY <2>3
  <2>13. \A id : /\ Part(id, TRUE) = Pairs(versions[id].bindings, In(versions[id].bindings))
                 /\ Part(id, FALSE) = Pairs(versions[id].bindings, Out(versions[id].bindings))
    OBVIOUS
  <2> HIDE DEF m, p, w, b, f, T, before, after, ds
  <2>14. \A q \in Out(f) : q \notin In(p)
    BY <2>8, <2>9
  <2>15. In(m) = In(p) /\ \A q \in In(p) : m[q] = p[q]
    BY <2>6, <2>14
  <2>16. In(w) = In(b) /\ \A q \in In(b) : w[q] = b[q]
    BY <2>7, <2>11, <2>12
  <2>17. Out(m) = Out(w) /\ \A q \in Out(w) : m[q] = w[q]
    BY <2>5, <2>6, <2>7, <2>12, <2>14
  <2>18. Out(p) = Out(b) /\ \A q \in Out(b) : p[q] = b[q]
    BY <2>8, <2>9, <2>10
  <2>19. /\ Pairs(m, In(m)) = Pairs(p, In(p)) /\ Pairs(m, Out(m)) = Pairs(w, Out(w))
         /\ Pairs(w, In(w)) = Pairs(b, In(b)) /\ Pairs(p, Out(p)) = Pairs(b, Out(b))
    BY <2>15, <2>16, <2>17, <2>18
  <2>20. /\ Part(MergeId(c), TRUE) = Part(ProposalId(c), TRUE)
         /\ Part(MergeId(c), FALSE) = Part(CurrentId(c), FALSE)
         /\ Part(CurrentId(c), TRUE) = Part(checkouts[c], TRUE)
         /\ Part(ProposalId(c), FALSE) = Part(checkouts[c], FALSE)
    BY <2>13, <2>19 DEF m, p, w, b
  <2> QED BY <2>20 DEF T, ds
<1>2. ChangeSetInv => MergeIsUnion
  BY <1>1 DEF MergeIsUnion
<1> QED BY <1>2, ChangeSetInvariance, PTL

\* When no Change Set is under way the projections follow Head, whatever died
\* meanwhile, but for what a second call installed again.
THEOREM ProjectionsAlwaysFollow == Spec => []ProjectionsFollowHead
<1>1. ASSUME ChangeSetInv, UnderWay = {}, head # None, NEW q \in DOMAIN Prior.bindings
      PROVE  LET b == Prior.bindings[q]
             IN  current[b.object] = b.over \/ Reinstalled(b.object)
  <2> DEFINE o == Prior.bindings[q].object
  <2>1. current[o] = Prior.bindings[q].over \/ Excused(o)
    BY <1>1 DEF ChangeSetInv, CurrentInv, FollowsHead
  <2>2. \A c \in ChangeSets : Begun(c) => receipts[c] # None
    BY <1>1 DEF UnderWay, Begun
  <2>3. Excused(o) => Reinstalled(o)
    BY <2>2 DEF Excused, Reinstalled
  <2> QED BY <2>1, <2>3
<1>2. ChangeSetInv => ProjectionsFollowHead
  BY <1>1 DEF ProjectionsFollowHead
<1> QED BY <1>2, ChangeSetInvariance, PTL

-----------------------------------------------------------------------------
(* What VersionDiff lists, for every two valid states.                     *)

\* One Object is live at one path: the part of Valid the two passes rely on.
LEMMA OnePathEach ==
  ASSUME NEW v, ValidState(v), NEW p \in DOMAIN v.bindings, NEW q \in DOMAIN v.bindings,
         v.bindings[p].object = v.bindings[q].object
  PROVE  p = q
<1>1. [v EXCEPT !.exclusions = DOMAIN v.exclusions].bindings = v.bindings
  OBVIOUS
<1> QED BY <1>1 DEF ValidState, Valid

\* The changes of each kind among all of them.
LEMMA KindsOfDiff ==
  ASSUME NEW v, NEW w
  PROVE  /\ OfKind(Diff(v, w), {"moved"}) = Moved(v, w)
         /\ OfKind(Diff(v, w), {"updated"}) = Updated(v, w)
         /\ OfKind(Diff(v, w), {"added", "recreated"}) = Added(v, w) \cup Recreated(v, w)
         /\ OfKind(Diff(v, w), {"moved", "deleted", "recreated"})
              = Moved(v, w) \cup Deleted(v, w) \cup Recreated(v, w)
BY DEF OfKind, Diff, RootManifestUpdated, Moved, Updated, Added, Deleted, Recreated,
       TombstoneChanges, ExclusionChanges

\* FolderbaseVersion::diff leaves no arrival and no departure out, however the
\* Objects of two valid Versions changed places.
THEOREM DiffIsComplete ==
  ASSUME NEW v, NEW w, ValidState(v), ValidState(w)
  PROVE  Complete(v, w)
<1> DEFINE Left == Moved(v, w) \cup Deleted(v, w) \cup Recreated(v, w)
           Stays == {e \in Whereabouts(v) : ~ \E c \in Left : c.path = e[1]}
           Lands == {<<c.to, c.object>> : c \in Moved(v, w)}
           Arrives == {<<c.path, c.object>> : c \in Added(v, w) \cup Recreated(v, w)}
<1>1. Replayed(v, Diff(v, w)) = Stays \cup Lands \cup Arrives
  BY KindsOfDiff DEF Replayed
<1>2. Lands \subseteq Whereabouts(w)
  BY DEF Moved, Continued, Whereabouts
<1>3. Arrives \subseteq Whereabouts(w)
  BY DEF Added, Recreated, Whereabouts
<1>4. Stays \subseteq Whereabouts(w)
  <2> SUFFICES ASSUME NEW p \in DOMAIN v.bindings, ~ \E c \in Left : c.path = p
               PROVE  p \in DOMAIN w.bindings /\ w.bindings[p].object = v.bindings[p].object
    BY DEF Whereabouts
  <2> DEFINE o == v.bindings[p].object
  <2>1. CASE p \in DOMAIN w.bindings
    <3>1. SUFFICES ASSUME w.bindings[p].object # o
                   PROVE  FALSE
      BY <2>1
    <3>2. [kind |-> "recreated", path |-> p, previous |-> o, object |-> w.bindings[p].object]
            \in Recreated(v, w)
      BY <2>1, <3>1 DEF Recreated
    <3> QED BY <3>2
  <2>2. CASE p \notin DOMAIN w.bindings /\ o \notin LiveObjects(w)
    <3> DEFINE t == p \in DOMAIN w.tombstones /\ w.tombstones[p].object = o
    <3>1. [kind |-> "deleted", path |-> p, object |-> o, tombstone |-> t] \in Deleted(v, w)
      BY <2>2 DEF Deleted
    <3> QED BY <3>1
  <2>3. CASE p \notin DOMAIN w.bindings /\ o \in LiveObjects(w)
    <3>1. PICK q \in DOMAIN w.bindings : w.bindings[q].object = o
      BY <2>3 DEF LiveObjects
    <3>2. <<p, q>> \in Continued(v, w) /\ p # q
      BY <2>3, <3>1 DEF Continued
    <3>3. [kind |-> "moved", path |-> p, to |-> q, object |-> o] \in Moved(v, w)
      BY <3>2 DEF Moved
    <3> QED BY <3>3
  <2> QED BY <2>1, <2>2, <2>3
<1>5. Whereabouts(w) \subseteq Stays \cup Lands \cup Arrives
  <2> SUFFICES ASSUME NEW q \in DOMAIN w.bindings
               PROVE  <<q, w.bindings[q].object>> \in Stays \cup Lands \cup Arrives
    BY DEF Whereabouts
  <2> DEFINE o == w.bindings[q].object
  <2>1. CASE q \in DOMAIN v.bindings /\ v.bindings[q].object # o
    <3>1. [kind |-> "recreated", path |-> q, previous |-> v.bindings[q].object, object |-> o]
            \in Recreated(v, w)
      BY <2>1 DEF Recreated
    <3> QED BY <3>1
  <2>2. CASE q \in DOMAIN v.bindings /\ v.bindings[q].object = o
    <3>1. ASSUME NEW m \in Continued(v, w), m[1] = q
          PROVE  m[2] = q
      BY <2>2, <3>1, OnePathEach DEF Continued
    <3>2. \A c \in Moved(v, w) : c.path # q
      BY <3>1 DEF Moved
    <3>3. \A c \in Deleted(v, w) : c.path # q
      BY DEF Deleted
    <3>4. \A c \in Recreated(v, w) : c.path # q
      BY <2>2 DEF Recreated
    <3>5. <<q, o>> \in Whereabouts(v)
      BY <2>2 DEF Whereabouts
    <3> QED BY <3>2, <3>3, <3>4, <3>5
  <2>3. CASE q \notin DOMAIN v.bindings /\ o \notin LiveObjects(v)
    <3>1. [kind |-> "added", path |-> q, object |-> o] \in Added(v, w)
      BY <2>3 DEF Added
    <3> QED BY <3>1
  <2>4. CASE q \notin DOMAIN v.bindings /\ o \in LiveObjects(v)
    <3>1. PICK p \in DOMAIN v.bindings : v.bindings[p].object = o
      BY <2>4 DEF LiveObjects
    <3>2. <<p, q>> \in Continued(v, w) /\ p # q
      BY <2>4, <3>1 DEF Continued
    <3>3. [kind |-> "moved", path |-> p, to |-> q, object |-> o] \in Moved(v, w)
      BY <3>1, <3>2 DEF Moved
    <3> QED BY <3>3
  <2> QED BY <2>1, <2>2, <2>3, <2>4
<1> QED BY <1>1, <1>2, <1>3, <1>4, <1>5 DEF Complete

\* FolderbaseVersion::diff tells the edit of an Object that moved in the same
\* Version, and no edit of one that only moved.
THEOREM DiffTellsEdits ==
  ASSUME NEW v, NEW w, ValidState(v), ValidState(w)
  PROVE  EditsTold(v, w)
<1> SUFFICES ASSUME NEW m \in Continued(v, w)
             PROVE  (\E c \in Updated(v, w) : c.path = m[2])
                    <=> v.bindings[m[1]] # w.bindings[m[2]]
  BY KindsOfDiff DEF EditsTold
<1>1. ASSUME NEW n \in Continued(v, w), n[2] = m[2]
      PROVE  n[1] = m[1]
  BY <1>1, OnePathEach DEF Continued
<1>2. ASSUME NEW c \in Updated(v, w), c.path = m[2]
      PROVE  v.bindings[m[1]] # w.bindings[m[2]]
  <2>1. PICK n \in Continued(v, w) : /\ v.bindings[n[1]] # w.bindings[n[2]]
                                     /\ c.path = n[2]
    BY DEF Updated, StateEqIgnoringPath
  <2> QED BY <1>1, <1>2, <2>1
<1>3. ASSUME v.bindings[m[1]] # w.bindings[m[2]]
      PROVE  \E c \in Updated(v, w) : c.path = m[2]
  <2>1. [kind |-> "updated", path |-> m[2], object |-> w.bindings[m[2]].object,
         from |-> v.bindings[m[1]].over, to |-> w.bindings[m[2]].over] \in Updated(v, w)
    BY <1>3 DEF Updated, StateEqIgnoringPath
  <2> QED BY <2>1
<1> QED BY <1>2, <1>3

\* Each change of a diff, with what it is about and where it comes in the list.
LEMMA ChangesOfDiff ==
  ASSUME NEW v, NEW w, NEW c \in Diff(v, w)
  PROVE  \/ c \in RootManifestUpdated(v, w) /\ c.kind = "manifest" /\ SortKey(c).rank = 0
         \/ c \in Moved(v, w) /\ c.kind = "moved" /\ SortKey(c).rank = 1
         \/ c \in Recreated(v, w) /\ c.kind = "recreated" /\ SortKey(c).rank = 2
         \/ c \in Added(v, w) /\ c.kind = "added" /\ SortKey(c).rank = 3
         \/ c \in Updated(v, w) /\ c.kind = "updated" /\ SortKey(c).rank = 4
         \/ c \in Deleted(v, w) /\ c.kind = "deleted" /\ SortKey(c).rank = 5
         \/ c \in TombstoneChanges(v, w) /\ c.kind = "tombstone_added" /\ SortKey(c).rank = 6
         \/ c \in TombstoneChanges(v, w) /\ c.kind = "tombstone_removed" /\ SortKey(c).rank = 7
         \/ c \in ExclusionChanges(v, w) /\ c.kind = "exclusion_added" /\ SortKey(c).rank = 8
         \/ c \in ExclusionChanges(v, w) /\ c.kind = "exclusion_removed" /\ SortKey(c).rank = 9
<1>1. SortKey(c).rank = Rank[c.kind]
  BY DEF SortKey
<1>2. /\ Rank["manifest"] = 0 /\ Rank["moved"] = 1 /\ Rank["recreated"] = 2 /\ Rank["added"] = 3
      /\ Rank["updated"] = 4 /\ Rank["deleted"] = 5 /\ Rank["tombstone_added"] = 6
      /\ Rank["tombstone_removed"] = 7 /\ Rank["exclusion_added"] = 8
      /\ Rank["exclusion_removed"] = 9
  BY DEF Rank
<1>3. /\ c \in RootManifestUpdated(v, w) => c.kind = "manifest"
      /\ c \in Moved(v, w) => c.kind = "moved"
      /\ c \in Recreated(v, w) => c.kind = "recreated"
      /\ c \in Added(v, w) => c.kind = "added"
      /\ c \in Updated(v, w) => c.kind = "updated"
      /\ c \in Deleted(v, w) => c.kind = "deleted"
      /\ c \in TombstoneChanges(v, w) => c.kind \in {"tombstone_added", "tombstone_removed"}
      /\ c \in ExclusionChanges(v, w) => c.kind \in {"exclusion_added", "exclusion_removed"}
  BY DEF RootManifestUpdated, Moved, Recreated, Added, Updated, Deleted, TombstoneChanges,
         ExclusionChanges
<1> QED BY <1>1, <1>2, <1>3 DEF Diff

\* No two changes of one diff sort alike, so change_sort_key leaves nothing to the order
\* of the maps a diff is gathered from.
THEOREM DiffOrderIsTotal ==
  ASSUME NEW v, NEW w, ValidState(v), ValidState(w)
  PROVE  OrderIsTotal(v, w)
<1> SUFFICES ASSUME NEW c \in Diff(v, w), NEW d \in Diff(v, w), SortKey(c) = SortKey(d)
             PROVE  c = d
  BY DEF OrderIsTotal
<1>1. SortKey(c).rank = SortKey(d).rank /\ SortKey(c).path = SortKey(d).path
  OBVIOUS
<1>2. c.kind = d.kind
  BY <1>1, ChangesOfDiff
<1>3. c.kind # "manifest" => c.path = d.path
  BY <1>1, <1>2 DEF SortKey
<1>4. CASE c.kind = "manifest"
  <2>1. c \in RootManifestUpdated(v, w) /\ d \in RootManifestUpdated(v, w)
    BY <1>2, <1>4, ChangesOfDiff
  <2> QED BY <2>1 DEF RootManifestUpdated
<1>5. CASE c.kind = "moved"
  <2>1. c \in Moved(v, w) /\ d \in Moved(v, w)
    BY <1>2, <1>5, ChangesOfDiff
  <2>2. PICK m \in Continued(v, w) :
          c = [kind |-> "moved", path |-> m[1], to |-> m[2], object |-> v.bindings[m[1]].object]
    BY <2>1 DEF Moved
  <2>3. PICK n \in Continued(v, w) :
          d = [kind |-> "moved", path |-> n[1], to |-> n[2], object |-> v.bindings[n[1]].object]
    BY <2>1 DEF Moved
  <2>4. m[1] = n[1]
    BY <1>3, <1>5, <2>2, <2>3
  <2>5. m[2] = n[2]
    BY <2>4, OnePathEach DEF Continued
  <2> QED BY <2>2, <2>3, <2>4, <2>5
<1>6. CASE c.kind = "updated"
  <2>1. c \in Updated(v, w) /\ d \in Updated(v, w)
    BY <1>2, <1>6, ChangesOfDiff
  <2>2. PICK m \in Continued(v, w) :
          c = [kind |-> "updated", path |-> m[2], object |-> w.bindings[m[2]].object,
               from |-> v.bindings[m[1]].over, to |-> w.bindings[m[2]].over]
    BY <2>1 DEF Updated
  <2>3. PICK n \in Continued(v, w) :
          d = [kind |-> "updated", path |-> n[2], object |-> w.bindings[n[2]].object,
               from |-> v.bindings[n[1]].over, to |-> w.bindings[n[2]].over]
    BY <2>1 DEF Updated
  <2>4. m[2] = n[2]
    BY <1>3, <1>6, <2>2, <2>3
  <2>5. m[1] = n[1]
    BY <2>4, OnePathEach DEF Continued
  <2> QED BY <2>2, <2>3, <2>4, <2>5
<1>7. CASE c.kind = "recreated"
  <2>1. c \in Recreated(v, w) /\ d \in Recreated(v, w)
    BY <1>2, <1>7, ChangesOfDiff
  <2> QED BY <1>3, <1>7, <2>1 DEF Recreated
<1>8. CASE c.kind = "added"
  <2>1. c \in Added(v, w) /\ d \in Added(v, w)
    BY <1>2, <1>8, ChangesOfDiff
  <2> QED BY <1>3, <1>8, <2>1 DEF Added
<1>9. CASE c.kind = "deleted"
  <2>1. c \in Deleted(v, w) /\ d \in Deleted(v, w)
    BY <1>2, <1>9, ChangesOfDiff
  <2> QED BY <1>3, <1>9, <2>1 DEF Deleted
<1>10. CASE c.kind \in {"tombstone_added", "tombstone_removed"}
  <2>1. c \in TombstoneChanges(v, w) /\ d \in TombstoneChanges(v, w)
    BY <1>2, <1>10, ChangesOfDiff
  <2> QED BY <1>2, <1>3, <1>10, <2>1 DEF TombstoneChanges
<1>11. CASE c.kind \in {"exclusion_added", "exclusion_removed"}
  <2>1. c \in ExclusionChanges(v, w) /\ d \in ExclusionChanges(v, w)
    BY <1>2, <1>11, ChangesOfDiff
  <2> QED BY <1>2, <1>3, <1>11, <2>1 DEF ExclusionChanges
<1> QED BY <1>4, <1>5, <1>6, <1>7, <1>8, <1>9, <1>10, <1>11, ChangesOfDiff

\* A record of paths in a Version is a map: nothing but its entries tells it from another.
IsMap(f) == f = [p \in DOMAIN f |-> f[p]]
MapsOf(s) == IsMap(s.bindings) /\ IsMap(s.tombstones) /\ IsMap(s.exclusions)

\* Two maps are one when each entry of either is in the other as it is.
LEMMA NothingDropped ==
  ASSUME NEW f, NEW g, IsMap(f), IsMap(g), Dropped(f, g) = {}, Dropped(g, f) = {}
  PROVE  f = g
<1>1. DOMAIN f = DOMAIN g /\ \A p \in DOMAIN f : f[p] = g[p]
  BY DEF Dropped
<1>2. f = [p \in DOMAIN f |-> f[p]] /\ g = [p \in DOMAIN g |-> g[p]]
  BY DEF IsMap
<1> QED BY <1>1, <1>2

\* A list without changes means two Versions that record the same.
THEOREM EmptyDiffMeansEqual ==
  ASSUME NEW v, NEW w, ValidState(v), ValidState(w), MapsOf(v), MapsOf(w)
  PROVE  EmptyMeansEqual(v, w)
<1>1. ASSUME Diff(v, w) = {}
      PROVE  /\ v.manifest = w.manifest /\ v.bindings = w.bindings
             /\ v.tombstones = w.tombstones /\ v.exclusions = w.exclusions
  <2>1. /\ RootManifestUpdated(v, w) = {} /\ Updated(v, w) = {}
        /\ TombstoneChanges(v, w) = {} /\ ExclusionChanges(v, w) = {}
    BY <1>1 DEF Diff
  <2>2. v.manifest = w.manifest
    BY <2>1 DEF RootManifestUpdated
  <2>3. v.tombstones = w.tombstones
    <3>1. Dropped(v.tombstones, w.tombstones) = {} /\ Dropped(w.tombstones, v.tombstones) = {}
      BY <2>1 DEF TombstoneChanges
    <3>2. IsMap(v.tombstones) /\ IsMap(w.tombstones)
      BY DEF MapsOf
    <3> QED BY <3>1, <3>2, NothingDropped
  <2>4. v.exclusions = w.exclusions
    <3>1. Dropped(v.exclusions, w.exclusions) = {} /\ Dropped(w.exclusions, v.exclusions) = {}
      BY <2>1 DEF ExclusionChanges
    <3>2. IsMap(v.exclusions) /\ IsMap(w.exclusions)
      BY DEF MapsOf
    <3> QED BY <3>1, <3>2, NothingDropped
  <2>5. Whereabouts(v) = Whereabouts(w)
    <3>1. Replayed(v, {}) = Whereabouts(v)
      BY DEF Replayed, OfKind
    <3> QED BY <1>1, <3>1, DiffIsComplete DEF Complete
  <2>6. \A p : <<p, v.bindings[p].object>> \in Whereabouts(v) <=> p \in DOMAIN v.bindings
    BY DEF Whereabouts
  <2>7. \A p : p \in DOMAIN v.bindings =>
               p \in DOMAIN w.bindings /\ w.bindings[p].object = v.bindings[p].object
    <3> SUFFICES ASSUME NEW p, p \in DOMAIN v.bindings
                 PROVE  p \in DOMAIN w.bindings /\ w.bindings[p].object = v.bindings[p].object
      OBVIOUS
    <3>1. <<p, v.bindings[p].object>> \in Whereabouts(w)
      BY <2>5, <2>6
    <3>2. PICK q \in DOMAIN w.bindings : <<p, v.bindings[p].object>> = <<q, w.bindings[q].object>>
      BY <3>1 DEF Whereabouts
    <3> QED BY <3>2
  <2>8. \A p : p \in DOMAIN w.bindings => p \in DOMAIN v.bindings
    <3> SUFFICES ASSUME NEW p, p \in DOMAIN w.bindings
                 PROVE  p \in DOMAIN v.bindings
      OBVIOUS
    <3>1. <<p, w.bindings[p].object>> \in Whereabouts(v)
      BY <2>5 DEF Whereabouts
    <3>2. PICK q \in DOMAIN v.bindings : <<p, w.bindings[p].object>> = <<q, v.bindings[q].object>>
      BY <3>1 DEF Whereabouts
    <3> QED BY <3>2
  <2>9. \A p \in DOMAIN v.bindings : v.bindings[p] = w.bindings[p]
    <3> SUFFICES ASSUME NEW p \in DOMAIN v.bindings, v.bindings[p] # w.bindings[p]
                 PROVE  FALSE
      OBVIOUS
    <3> DEFINE m == <<p, p>>
               Told(n) == [kind |-> "updated", path |-> n[2], object |-> w.bindings[n[2]].object,
                           from |-> v.bindings[n[1]].over, to |-> w.bindings[n[2]].over]
    <3>1. m \in Continued(v, w) /\ m[1] = p /\ m[2] = p
      BY <2>7 DEF Continued
    <3>2. ~ StateEqIgnoringPath(v.bindings[m[1]], w.bindings[m[2]])
      BY <3>1 DEF StateEqIgnoringPath
    <3>3. Updated(v, w) = {Told(n) : n \in {k \in Continued(v, w) :
                             ~ StateEqIgnoringPath(v.bindings[k[1]], w.bindings[k[2]])}}
      BY DEF Updated
    <3> HIDE DEF Told, m
    <3>4. Told(m) \in Updated(v, w)
      BY <3>1, <3>2, <3>3
    <3> QED BY <2>1, <3>4
  <2>10. v.bindings = w.bindings
    <3>1. v.bindings = [p \in DOMAIN v.bindings |-> v.bindings[p]]
          /\ w.bindings = [p \in DOMAIN w.bindings |-> w.bindings[p]]
      BY DEF MapsOf, IsMap
    <3>2. DOMAIN v.bindings = DOMAIN w.bindings
      BY <2>7, <2>8
    <3> QED BY <2>9, <3>1, <3>2
  <2> QED BY <2>2, <2>3, <2>4, <2>10
<1>2. ASSUME v.manifest = w.manifest, v.bindings = w.bindings,
             v.tombstones = w.tombstones, v.exclusions = w.exclusions
      PROVE  Diff(v, w) = {}
  <2>1. \A m \in Continued(v, w) : m[1] = m[2]
    BY <1>2, OnePathEach DEF Continued
  <2>2. Moved(v, w) = {} /\ Updated(v, w) = {}
    BY <1>2, <2>1 DEF Moved, Updated, StateEqIgnoringPath
  <2>3. RootManifestUpdated(v, w) = {} /\ Added(v, w) = {} /\ Deleted(v, w) = {}
        /\ Recreated(v, w) = {}
    BY <1>2 DEF RootManifestUpdated, Added, Deleted, Recreated
  <2>4. TombstoneChanges(v, w) = {} /\ ExclusionChanges(v, w) = {}
    BY <1>2 DEF TombstoneChanges, ExclusionChanges, Dropped
  <2> QED BY <2>2, <2>3, <2>4 DEF Diff
<1> QED BY <1>1, <1>2 DEF EmptyMeansEqual
=============================================================================
