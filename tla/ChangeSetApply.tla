----------------------------- MODULE ChangeSetApply -----------------------------
(***************************************************************************)
(* apply_change_set, step by step, with the people who edit the root, the  *)
(* captures others make and the deaths of processes in between.            *)
(*                                                                         *)
(* A process that dies loses its lock and its place; the journal, the      *)
(* prepared work, the markers, the receipts and every Version stay.        *)
(***************************************************************************)
EXTENDS ChangeSet

VARIABLE
  meddled       \* whether a person touched a path of the Change Set being applied

allVars == <<vars, meddled>>

Job(p) == job[p]
Of(p) == Deltas(job[p].set)
Active(c) == journal # None /\ journal.set = c

Holding(p, step, j) ==
  /\ holder' = p
  /\ pc' = [pc EXCEPT ![p] = step]
  /\ job' = [job EXCEPT ![p] = j]

\* Drop the lock and go on to `step` without it.
Released(p, step, j) ==
  /\ holder' = None
  /\ pc' = [pc EXCEPT ![p] = step]
  /\ job' = [job EXCEPT ![p] = j]

GiveUp(p) == Released(p, "idle", None)

Applying(c, todo) ==
  [set |-> c, final |-> None, result |-> None, todo |-> todo, at |-> None]

-----------------------------------------------------------------------------
(* The first lock period: check, prepare, publish.                         *)

\* Processes differ in nothing: a call runs in the first that is free.
Callable(p, c) ==
  /\ holder = None
  /\ pc[p] = "idle" /\ \A q \in Procs : q < p => pc[q] # "idle"
  /\ envelopes[c] # None /\ WellFormed(Deltas(c))

\* Nothing is under way and the assessment is clean.
BeginFresh(p, c) ==
  /\ Callable(p, c)
  /\ receipts[c] = None /\ journal = None
  /\ Clean(c)
  /\ Holding(p, "prepare", Applying(c, {}))
  /\ UNCHANGED <<ws, historyVars, issued, durable, counters>>

\* Mutant: the bytes to resume with must be there before the first move.
ResumePreparedAtStart(p, c) ==
  /\ Callable(p, c)
  /\ receipts[c] = None /\ Active(c)
  /\ journal.phase = "prepared"
  /\ ~ MatchesAfter(c) /\ Clean(c)
  /\ Holding(p, "move", Applying(c, Moves(Deltas(c))))
  /\ UNCHANGED <<ws, historyVars, issued, durable, counters>>

\* The journal says prepared, the files are in a state publication passes through.
ResumePrepared(p, c) ==
  /\ Callable(p, c)
  /\ receipts[c] = None /\ Active(c)
  /\ journal.phase = "prepared"
  /\ ~ MatchesAfter(c) /\ Recoverable(c)
  /\ Holding(p, "move", Applying(c, Moves(Deltas(c))))
  /\ UNCHANGED <<ws, historyVars, issued, durable, counters>>

\* The files are published: only the history and the receipt are missing.
ResumePublished(p, c) ==
  /\ Callable(p, c)
  /\ receipts[c] = None /\ Active(c)
  /\ MatchesAfter(c)
  /\ Released(p, "seal", [Applying(c, {}) EXCEPT !.result = Inventory])
  /\ UNCHANGED <<ws, historyVars, issued, durable, counters>>

\* The receipt is there: what the journal left behind is cleaned up.
ResumeCompleted(p, c) ==
  /\ Callable(p, c)
  /\ receipts[c] # None /\ Active(c)
  /\ Holding(p, "cleanup", Applying(c, {}))
  /\ UNCHANGED <<ws, historyVars, issued, durable, counters>>

\* Work that an earlier attempt prepared is wiped; every replacement byte is
\* copied and verified before the journal names the Change Set.
Prepare(p) ==
  LET ds == {d \in Of(p) : d.after # None /\ ~ (d \in Moves(Of(p)) /\ ~ d.staged)}
  IN  /\ pc[p] = "prepare"
      /\ work' = [o \in {d.object : d \in ds} |->
                    (CHOOSE d \in ds : d.object = o).after.data]
      /\ marked' = {}
      /\ journal' = [set |-> job[p].set, phase |-> "prepared"]
      /\ Holding(p, "move", [Job(p) EXCEPT !.todo = Moves(Of(p))])
      /\ UNCHANGED <<ws, historyVars, issued, checkouts, envelopes, receipts, counters>>

Done(p, d) == [Job(p) EXCEPT !.todo = @ \ {d}]

\* A move whose source and destination both exist, or neither, is refused.
Move(p) ==
  /\ pc[p] = "move"
  /\ \E d \in Job(p).todo :
       LET from == d.before.path  to == d.after.path
       IN  \/ /\ ws[from] # None /\ ws[to] = None
              /\ ws' = [ws EXCEPT ![to] = ws[from], ![from] = None]
              /\ Holding(p, "move", Done(p, d))
           \/ /\ ws[from] = None /\ ws[to] # None
              /\ Holding(p, "move", Done(p, d))
              /\ UNCHANGED ws
           \/ /\ (ws[from] = None) = (ws[to] = None)
              /\ GiveUp(p)
              /\ UNCHANGED ws
  /\ UNCHANGED <<historyVars, issued, durable, counters>>

Removals(ds) == {d \in ds : d.before # None} \ Moves(ds)

\* Whatever is at the path goes, edited files included: they are installed anew.
Remove(p) ==
  /\ pc[p] = "remove"
  /\ \E d \in Job(p).todo :
       /\ ws' = [ws EXCEPT ![d.before.path] = None]
       /\ Holding(p, "remove", Done(p, d))
  /\ UNCHANGED <<historyVars, issued, durable, counters>>

\* One stage is over when nothing is left to do in it.
NextStage(p) ==
  /\ pc[p] \in {"move", "remove", "install"}
  /\ Job(p).todo = {}
  /\ \/ /\ pc[p] = "move"
        /\ Holding(p, "remove", [Job(p) EXCEPT !.todo = Removals(Of(p))])
     \/ /\ pc[p] = "remove"
        /\ Holding(p, "install", [Job(p) EXCEPT !.todo = {d \in Of(p) : d.after # None}])
     \/ /\ pc[p] = "install"
        /\ Holding(p, "journal", Job(p))
  /\ UNCHANGED <<ws, historyVars, issued, durable, counters>>

Ready(p, d) == pc[p] = "install" /\ d \in Job(p).todo

\* A moved file keeps its inode, and so its Object: it is never replaced.
VerifyMoved(p, d) ==
  /\ Ready(p, d)
  /\ d \in Moves(Of(p)) /\ ~ d.staged
  /\ IF Holds(d.after.path, d.after) THEN Holding(p, "install", Done(p, d)) ELSE GiveUp(p)
  /\ UNCHANGED <<ws, historyVars, issued, durable, counters>>

\* Moved and edited: a durable marker, then the file is truncated in place.
Truncate(p, d) ==
  /\ Ready(p, d)
  /\ d \in Moves(Of(p)) /\ d.staged
  /\ IF ws[d.after.path] = None
     THEN /\ marked' = marked \cup {d.object}
          /\ GiveUp(p)
          /\ UNCHANGED ws
     ELSE /\ marked' = marked \cup {d.object}
          /\ ws' = [ws EXCEPT ![d.after.path].data = Torn]
          /\ Holding(p, "rewrite", [Job(p) EXCEPT !.at = d])
  /\ UNCHANGED <<historyVars, issued, checkouts, envelopes, journal, work, receipts, counters>>

Rewrite(p) ==
  /\ pc[p] = "rewrite"
  /\ LET d == Job(p).at
     IN  IF ws[d.after.path] = None
         THEN GiveUp(p) /\ UNCHANGED <<ws, marked>>
         ELSE /\ ws' = [ws EXCEPT ![d.after.path] =
                          [@ EXCEPT !.data = work[d.object], !.late = FALSE]]
              /\ marked' = marked \ {d.object}
              /\ Holding(p, "install", [Done(p, d) EXCEPT !.at = None])
  /\ UNCHANGED <<historyVars, issued, checkouts, envelopes, journal, work, receipts, counters>>

\* In place already; or removed first, then put there under a new inode.
Install(p, d) ==
  /\ Ready(p, d)
  /\ d \notin Moves(Of(p))
  /\ \/ /\ Holds(d.after.path, d.after)
        /\ Holding(p, "install", Done(p, d))
        /\ UNCHANGED <<ws, issued>>
     \/ /\ ws[d.after.path] # None /\ ~ Holds(d.after.path, d.after)
        /\ ws' = [ws EXCEPT ![d.after.path] = None]
        /\ UNCHANGED <<volatile, issued>>
     \/ /\ ws[d.after.path] = None
        /\ ws' = [ws EXCEPT ![d.after.path] =
                    [ino |-> issued + 1, data |-> work[d.object], late |-> FALSE]]
        /\ issued' = issued + 1
        /\ Holding(p, "install", Done(p, d))
  /\ UNCHANGED <<historyVars, durable, counters>>

Publish(p) ==
  /\ pc[p] = "install"
  /\ \E d \in Job(p).todo : VerifyMoved(p, d) \/ Truncate(p, d) \/ Install(p, d)

\* The files are published and the lock is dropped: from here to the head of
\* the history anybody may capture, apply or edit.
JournalPublished(p) ==
  /\ pc[p] = "journal"
  /\ journal' = [set |-> job[p].set, phase |-> "published"]
  /\ Released(p, "seal", Job(p))
  /\ UNCHANGED <<ws, historyVars, issued, checkouts, envelopes, work, marked, receipts, counters>>

-----------------------------------------------------------------------------
(* The second: capture what is there, then put the Change Set's own history*)
(* in the place of that capture.                                           *)

SealFinal(p) ==
  /\ pc[p] = "seal" /\ holder = None
  /\ Seal
  /\ pc' = [pc EXCEPT ![p] = "history"]
  /\ job' = [job EXCEPT ![p].final = head']
  /\ UNCHANGED holder
  /\ UNCHANGED <<durable, counters>>

CurrentId(c) == <<"current", c>>
ProposalId(c) == <<"proposal", c>>
MergeId(c) == <<"merge", c>>

BaseOf(c) == versions[checkouts[c]]
Current(c, final) == CurrentVersion(BaseOf(c), checkouts[c], final, Deltas(c))
Proposal(c) == ProposalVersion(BaseOf(c), checkouts[c], Deltas(c))
Merge(c, final) == MergeVersion({CurrentId(c), ProposalId(c)}, Proposal(c), final, Deltas(c))
Diverged(c, final) == ~ SameAsBase(Current(c, final), BaseOf(c))

\* The identifiers are derived from the Change Set: a retry must compute the
\* very records an earlier attempt installed.
CanBuildCurrent(c, final) ==
  /\ ObjectsKept(final, Deltas(c))
  /\ Diverged(c, final) =>
       /\ Disjoint(BaseOf(c), final, Deltas(c))
       /\ Valid(Current(c, final)) /\ Installable(versions, CurrentId(c), Current(c, final))

CanFinalize(c, final) ==
  /\ CanBuildCurrent(c, final)
  /\ InPlace(final, Deltas(c)) = Deltas(c)
  /\ Valid(Proposal(c)) /\ Installable(versions, ProposalId(c), Proposal(c))
  /\ Diverged(c, final) =>
       Valid(Merge(c, final)) /\ Installable(versions, MergeId(c), Merge(c, final))

\* The Versions there are once the Change Set's current Version is installed.
WithCurrent(c, final) ==
  IF Diverged(c, final) THEN Put(versions, CurrentId(c), Current(c, final)) ELSE versions

Finalized(c) == head \in {ProposalId(c), MergeId(c)}

\* Mutant: the projections stay as the final capture left them.
CurrentKept(ds, final) == current

\* The deltas whose Object Version is not the one the final capture binds.
Renewed(ds, final) ==
  {d \in ds : d.after # None /\ final.bindings[d.after.path].over # d.after.over}

\* The object projections follow the Object Versions the Change Set names.
CurrentWith(ds, final) ==
  [o \in DOMAIN current |->
     IF \E d \in Renewed(ds, final) : d.object = o
     THEN (CHOOSE d \in ds : d.object = o).after.over ELSE current[o]]

StartHistory(p) ==
  LET c == job[p].set  final == versions[job[p].final]
  IN  /\ pc[p] = "history" /\ holder = None
      /\ ~ Finalized(c)
      /\ head = job[p].final
      /\ CanFinalize(c, final)
      /\ versions' = WithCurrent(c, final)
      /\ current' = CurrentWith(Deltas(c), final)
      /\ Holding(p, "proposal", Job(p))
      /\ UNCHANGED <<ws, head, identity, issued, durable, counters>>

\* Another process finalized it: Head is the history already.
ReuseHistory(p) ==
  /\ pc[p] = "history" /\ holder = None
  /\ Finalized(job[p].set)
  /\ Released(p, "receipt", [Job(p) EXCEPT !.final = head])
  /\ UNCHANGED <<ws, historyVars, issued, durable, counters>>

\* Head moved on, or the capture does not bear the Change Set out: what was
\* installed before that is found stays.
RefuseHistory(p) ==
  LET c == job[p].set  final == versions[job[p].final]
  IN  /\ pc[p] = "history" /\ holder = None
      /\ ~ Finalized(c)
      /\ \/ /\ head # job[p].final \/ ~ CanBuildCurrent(c, final)
            /\ UNCHANGED <<versions, current>>
         \/ /\ head = job[p].final
            /\ CanBuildCurrent(c, final) /\ ~ CanFinalize(c, final)
            /\ versions' = WithCurrent(c, final)
            /\ \E ds \in SUBSET InPlace(final, Deltas(c)) : current' = CurrentWith(ds, final)
      /\ GiveUp(p)
      /\ UNCHANGED <<ws, head, identity, issued, durable, counters>>

InstallProposal(p) ==
  LET c == job[p].set
  IN  /\ pc[p] = "proposal"
      /\ versions' = Put(versions, ProposalId(c), Proposal(c))
      /\ Holding(p, "head", Job(p))
      /\ UNCHANGED <<ws, head, identity, current, issued, durable, counters>>

MoveHead(p) ==
  LET c == job[p].set  final == versions[job[p].final]
  IN  /\ pc[p] = "head"
      /\ versions' = IF Diverged(c, final)
                     THEN Put(versions, MergeId(c), Merge(c, final)) ELSE versions
      /\ head' = IF Diverged(c, final) THEN MergeId(c) ELSE ProposalId(c)
      /\ Released(p, "receipt", [Job(p) EXCEPT !.final = head'])
      /\ UNCHANGED <<ws, identity, current, issued, durable, counters>>

-----------------------------------------------------------------------------
(* The third: the completion receipt, and nothing left behind.             *)

PublishReceipt(p) ==
  LET c == job[p].set  result == InventoryOf(versions[job[p].final])
  IN  /\ pc[p] = "receipt" /\ holder = None
      /\ IF /\ job[p].result \in {None, result}
            /\ receipts[c] \in {None, result}
         THEN /\ receipts' = [receipts EXCEPT ![c] = result]
              /\ Holding(p, "cleanup", Job(p))
         ELSE GiveUp(p) /\ UNCHANGED receipts
      /\ UNCHANGED <<ws, historyVars, issued, checkouts, envelopes, journal, work, marked, counters>>

Cleanup(p) ==
  /\ pc[p] = "cleanup"
  /\ IF Active(job[p].set)
     THEN journal' = None /\ work' = NoChange /\ marked' = {}
     ELSE UNCHANGED <<journal, work, marked>>
  /\ GiveUp(p)
  /\ UNCHANGED <<ws, historyVars, issued, checkouts, envelopes, receipts, counters>>

-----------------------------------------------------------------------------
(* The rest of the world.                                                  *)

Crash(p) ==
  /\ pc[p] # "idle"
  /\ crashes < MaxCrashes
  /\ crashes' = crashes + 1
  /\ pc' = [pc EXCEPT ![p] = "idle"]
  /\ job' = [job EXCEPT ![p] = None]
  /\ holder' = IF holder = p THEN None ELSE holder
  /\ UNCHANGED <<ws, historyVars, issued, durable, edits, captures>>

\* An edit is late when an apply has already judged the file: between its
\* check and its publication, or while the file is marked for rewriting.
Late(q) ==
  \/ \E p \in Procs : pc[p] \in PublishSteps \cup {"prepare"}
  \/ /\ journal # None
     /\ \E d \in Deltas(journal.set) : d.object \in marked /\ d.after.path = q

PathsOf(ds) == {d.before.path : d \in {x \in ds : x.before # None}}
               \cup {d.after.path : d \in {x \in ds : x.after # None}}

UnderWay == {c \in ChangeSets : Active(c) \/ \E p \in Procs : job[p] # None /\ job[p].set = c}

Touches(q) == \E c \in UnderWay : q \in PathsOf(Deltas(c))

\* Somebody writes, makes, deletes or renames the file at q.
Edit(q) ==
  /\ edits < MaxEdits
  /\ edits' = edits + 1
  /\ \/ \E d \in UserContents \ {DataAt(q)} :
          /\ ws' = [ws EXCEPT ![q] = [ino |-> IF @ = None THEN issued + 1 ELSE @.ino,
                                      data |-> d, late |-> Late(q)]]
          /\ meddled' = (meddled \/ Touches(q))
     \/ /\ ws[q] # None
        /\ ws' = [ws EXCEPT ![q] = None]
        /\ meddled' = (meddled \/ Touches(q))
     \/ \E r \in Paths \ {q} :
          /\ ws[q] # None /\ ws[r] = None
          /\ ws' = [ws EXCEPT ![q] = None, ![r] = [ws[q] EXCEPT !.late = Late(r)]]
          /\ meddled' = (meddled \/ Touches(q) \/ Touches(r))
  /\ issued' = IF ws[q] = None THEN issued + 1 ELSE issued
  /\ UNCHANGED <<historyVars, durable, volatile, captures, crashes>>

Capture ==
  /\ holder = None /\ captures < MaxCaptures
  /\ ~ NothingNew(Captured)
  /\ Seal
  /\ captures' = captures + 1
  /\ UNCHANGED <<durable, volatile, edits, crashes>>

-----------------------------------------------------------------------------
Init ==
  /\ ws = [q \in Paths |-> IF q \in InitialFiles
                            THEN [ino |-> q, data |-> InitialContent, late |-> FALSE] ELSE None]
  /\ head = None /\ versions = NoChange /\ identity = NoChange /\ current = NoChange
  /\ issued = Cardinality(Paths)
  /\ checkouts = [c \in ChangeSets |-> None]
  /\ envelopes = [c \in ChangeSets |-> None]
  /\ receipts = [c \in ChangeSets |-> None]
  /\ journal = None /\ work = NoChange /\ marked = {}
  /\ holder = None
  /\ pc = [p \in Procs |-> "idle"]
  /\ job = [p \in Procs |-> None]
  /\ edits = 0 /\ captures = 0 /\ crashes = 0
  /\ meddled = FALSE

Begin(p, c) ==
  BeginFresh(p, c) \/ ResumePrepared(p, c) \/ ResumePublished(p, c) \/ ResumeCompleted(p, c)

Progress(p) ==
  /\ pc[p] # "idle"
  /\ \/ Prepare(p) \/ Move(p) \/ Remove(p) \/ NextStage(p) \/ Publish(p) \/ Rewrite(p)
     \/ JournalPublished(p) \/ SealFinal(p)
     \/ StartHistory(p) \/ ReuseHistory(p) \/ RefuseHistory(p)
     \/ InstallProposal(p) \/ MoveHead(p)
     \/ PublishReceipt(p) \/ Cleanup(p)

Next ==
  \/ \E q \in Paths : Edit(q)
  \/ /\ \/ \E c \in ChangeSets : Checkout(c) \/ ProposeChangeSet(c)
        \/ \E p \in Procs, c \in ChangeSets : Begin(p, c)
        \/ \E p \in Procs : Progress(p) \/ Crash(p)
        \/ Capture
     /\ UNCHANGED meddled

Spec == Init /\ [][Next]_allVars

\* Of the calls that are under way some one goes on, and somebody applies the
\* active Change Set again for as long as it is not retired.
FairSpec ==
  /\ Spec
  /\ WF_allVars(UNCHANGED meddled /\ \E p \in Procs : Progress(p))
  /\ \A c \in ChangeSets : SF_allVars(UNCHANGED meddled /\ \E p \in Procs : Begin(p, c))

-----------------------------------------------------------------------------
(* What must hold.                                                         *)

\* The bytes a delta of the active Change Set accounts for at path q.
Recognized(q) ==
  journal # None /\ \E d \in Deltas(journal.set) :
    \/ d.before # None /\ d.before.path = q /\ Holds(q, d.before)
    \/ d.after # None /\ d.after.path = q /\
         \/ Holds(q, d.after) \/ DataAt(q) = Torn
         \/ d.before # None /\ Holds(q, d.before)

\* Publication, resumed after any death, replaces or removes only bytes that
\* the deltas account for.  What a person wrote is lost only when it was written
\* after the workspace was judged (the code does not look again), or over a file
\* marked for rewriting (change_set.rs, workspace_is_recoverable_transition).
EditsSurviveApply ==
  [][edits' = edits =>
       \A q \in Paths : ws[q] # None /\ ws'[q] # ws[q] => ws[q].late \/ Recognized(q)]_allVars

\* A merge is the exact union of the two sides it names: the Change Set's
\* Objects as proposed, every other Object as in the current Version; and both
\* sides differ from the projection base only on their own part, whichever
\* attempts installed them (finalize_change_set_history).
MergeIsUnion ==
  \A c \in ChangeSets : MergeId(c) \in DOMAIN versions =>
    LET touched == Touched(Deltas(c))
        Part(id, own) == {<<p, versions[id].bindings[p]>> :
                            p \in {q \in DOMAIN versions[id].bindings :
                                     (versions[id].bindings[q].object \in touched) = own}}
    IN  /\ Part(MergeId(c), TRUE) = Part(ProposalId(c), TRUE)
        /\ Part(MergeId(c), FALSE) = Part(CurrentId(c), FALSE)
        /\ Part(CurrentId(c), TRUE) = Part(checkouts[c], TRUE)
        /\ Part(ProposalId(c), FALSE) = Part(checkouts[c], FALSE)

\* Two calls may apply one Change Set: the slower installs its Object Versions
\* again, over a capture made since, and dies or is refused before it moves Head.
Reinstalled(o) ==
  \E c \in ChangeSets : receipts[c] # None /\
    \E d \in Deltas(c) : d.object = o /\ d.after # None /\ current[o] = d.after.over

\* When no Change Set is under way, the current Object Version of every live
\* file is the one Head binds, whatever died meanwhile, but for the Objects a
\* second call left Reinstalled (install_change_set_object_versions).
ProjectionsFollowHead ==
  UnderWay = {} /\ head # None =>
    \A p \in DOMAIN Prior.bindings :
      LET b == Prior.bindings[p]
      IN  current[b.object] = b.over \/ Reinstalled(b.object)

\* The capture of this attempt does not let the history be written.
Refused(c) ==
  \E p \in Procs : /\ pc[p] = "history" /\ job[p].set = c
                   /\ head = job[p].final /\ ~ Finalized(c) /\ ~ CanFinalize(c, versions[head])

\* An active Change Set is retired in the end, unless a person touched its paths
\* meanwhile or its history is refused (apply_change_set).
ApplyResolves ==
  \A c \in ChangeSets : Active(c) ~> (~ Active(c) \/ meddled \/ Refused(c))

\* ADR-0012: "After process or machine loss, the next apply converges to either
\* the exact pre-apply state or one completely published result."
ApplyConverges ==
  \A c \in ChangeSets : Active(c) ~> (~ Active(c) \/ meddled)

=============================================================================
