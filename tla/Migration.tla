------------------------------- MODULE Migration -------------------------------
(***************************************************************************)
(* One transaction-v1 migration from its approval to its end: commands     *)
(* that apply, resume and roll it back under the store's lock, crashes     *)
(* between any two of their calls, and people who keep working in the      *)
(* folder.                                                                 *)
(*                                                                         *)
(* Every command begins by opening the transaction again.  Whatever a      *)
(* crash left is admitted only when the last generation accounts for it:   *)
(* the publication under way, the private receipts, the claims, the        *)
(* directories a rollback removed and the record of an aborted apply.      *)
(***************************************************************************)
EXTENDS MigrationRollback

journaledApply(g) == 1 .. Receipts(g)
journaledInverse(g) == {i \in 1 .. Count : Inverted(g, i)}
AbortUnderWay(g) ==
  g.dir = "rollback" /\ g.inflight # None /\ ~ HasReceipt(g, g.inflight)
UndoUnderWay(g) ==
  g.dir = "rollback" /\ g.inflight # None /\ HasReceipt(g, g.inflight)
\* The work receipts of an abort are admitted in one phase only.
AbortRequested(g) == AbortUnderWay(g) /\ g.phase = "rollback_requested"

InFlightStep(g) == {g.inflight} \ {None}
ReceiptsOf(direction) == {i \in 1 .. Count : receipt[direction][i] # None}

-----------------------------------------------------------------------------
(* The active publication.                                                 *)

Slot(b) == <<b.step, b.kind>>
Artifacts == owned \cup {c \in Claims : staged[c] # None}

\* Before the receipt either the stage or the claim is there, and not both.
ReconciledPublication(c) ==
  \/ claims[c] # None /\ claims[c] \notin edited /\ staged[c] = None
  \/ claims[c] = None /\ staged[c] # None
ReceiptedPublication(c) == claims[c] # None /\ claims[c] \notin edited /\ staged[c] = None

ActivePublicationAdmitted ==
  IF journal.pub = None THEN Artifacts = {}
  ELSE LET b == journal.pub IN
    /\ Artifacts \subseteq {Slot(b)}
    /\ IF Slot(b) \in owned
       THEN IF b.dir = "apply" /\ receipt["abort"][b.step] # None THEN TRUE
            ELSE IF PublicationReceipted(journal, b) \/ receipt[b.dir][b.step] # None
            THEN ReceiptedPublication(Slot(b))
            ELSE ReconciledPublication(Slot(b))
       ELSE PublicationReceipted(journal, b)

-----------------------------------------------------------------------------
(* The private receipts: those the journal took up, and one ahead of it.   *)

\* (mutant) a receipt ahead of the journal is never admitted
AheadApplyNever(g) == {}
AheadApply(g) == IF g.dir = "apply" \/ AbortRequested(g) THEN InFlightStep(g) ELSE {}
AheadInverse(g) == IF g.dir = "rollback" /\ ~ AbortRequested(g) THEN InFlightStep(g) ELSE {}
AheadAbort(g) == IF AbortRequested(g) /\ g.aborted = None THEN InFlightStep(g) ELSE {}

Accounted(direction, journaled, ahead) ==
  journaled \subseteq ReceiptsOf(direction) /\ ReceiptsOf(direction) \subseteq journaled \cup ahead

ReceiptSetAdmitted ==
  LET g == journal IN
  /\ Accounted("apply", journaledApply(g), AheadApply(g))
  /\ Accounted("rollback", journaledInverse(g), AheadInverse(g))
  /\ Accounted("abort", {g.aborted} \ {None}, AheadAbort(g))
  /\ \A i \in journaledApply(g) : receipt["apply"][i] = ReceiptIdentity(g, i)
  /\ \A i \in journaledInverse(g) : receipt["rollback"][i].after = RestoredIdentity(g, i)
  /\ \A i \in ReceiptsOf("rollback") : HasReceipt(g, i)

-----------------------------------------------------------------------------
(* The claims.                                                             *)

ApplyKinds(i) ==
  CASE Kind(i) \in {"mkdir", "create"} -> {"publish"}
    [] Kind(i) = "replace"             -> {"publish", "source"}
    [] Kind(i) = "move"                -> {"source"}
InverseKinds(i) == IF Kind(i) \in {"replace", "move"} THEN {"rollback", "restore"} ELSE {"rollback"}
Retained(i) == receipt["rollback"][i] # None /\ receipt["rollback"][i].after # None

ApplyClaimsAllowed(g, i) ==
  IF i \in InFlightStep(g) \ journaledApply(g) \/ (HasReceipt(g, i) /\ Kind(i) # "mkdir")
  THEN ApplyKinds(i) ELSE {}
ApplyClaimsRequired(g, i) ==
  IF /\ Kind(i) # "mkdir"
     /\ HasReceipt(g, i) \/ (i \in InFlightStep(g) /\ receipt["apply"][i] # None)
  THEN ApplyKinds(i) ELSE {}
InverseClaimsAllowed(g, i) ==
  IF /\ \/ Inverted(g, i)
        \/ UndoUnderWay(g) /\ g.inflight = i
        \/ AbortUnderWay(g) /\ g.inflight = i /\ receipt["abort"][i] = None
     /\ ~ (Kind(i) = "mkdir" /\ Retained(i))
  THEN InverseKinds(i) ELSE {}
InverseClaimsRequired(g, i) ==
  IF Inverted(g, i) \/ receipt["rollback"][i] # None THEN InverseClaimsAllowed(g, i) ELSE {}
AbortClaims(i) == IF receipt["abort"][i] = None THEN {} ELSE receipt["abort"][i].claims
ActiveKind(g, i) == IF g.pub # None /\ g.pub.step = i THEN {g.pub.kind} ELSE {}

ClaimSetAdmitted ==
  \A i \in 1 .. Count :
    /\ HeldKinds(i) \subseteq ApplyClaimsAllowed(journal, i) \cup InverseClaimsAllowed(journal, i)
                              \cup AbortClaims(i) \cup ActiveKind(journal, i)
    /\ ApplyClaimsRequired(journal, i) \cup InverseClaimsRequired(journal, i)
         \cup AbortClaims(i) \subseteq HeldKinds(i)

-----------------------------------------------------------------------------
(* What a rollback removed, and what an abort left.                        *)

\* After the rollback its paths belong to people again; the evidence does not.
DispositionHeld(i) ==
  LET removed == receipt["rollback"][i].after = None
      out == Claim(i, "rollback") = ReceiptIdentity(journal, i)
  IN
  IF journal.phase = "rolled_back" THEN removed => out
  ELSE /\ removed => out /\ ~ Present(Target(i))
       /\ ~ removed => tree[Target(i)] = receipt["rollback"][i].after
DirectoriesAccountedFor ==
  \A i \in ReceiptsOf("rollback") :
    Kind(i) = "mkdir" /\ i \in journaledInverse(journal) \cup InFlightStep(journal)
      => DispositionHeld(i)

AbortAccountedFor ==
  \A i \in ReceiptsOf("abort") :
    /\ AbortedClaims(i)
    /\ i # journal.aborted /\ Kind(i) \in {"replace", "move"} => GivenBack(i)

ReopenOK ==
  /\ ActivePublicationAdmitted
  /\ ReceiptSetAdmitted
  /\ ClaimSetAdmitted
  /\ DirectoriesAccountedFor
  /\ AbortAccountedFor

-----------------------------------------------------------------------------
(* Commands, crashes and people.                                           *)

CONSTANTS
  Programs,     \* the programs the compiler may have produced
  MaxCrashes    \* bound: commands that are interrupted

Operations ==
  [kind : {"mkdir", "create", "replace", "move"}, source : Paths \cup {None}, target : Paths]

\* No two steps of a program name one path, as source or as target.
ASSUME ProgramsAssumption ==
  /\ MaxCrashes \in Nat /\ Programs \subseteq Seq(Operations)
  /\ \A q \in Programs : Len(q) <= MaxSteps
  /\ \A q \in Programs : \A i \in 1 .. Len(q) :
       /\ q[i].kind = "mkdir" <=> q[i].target \in Dirs
       /\ q[i].source \in IF q[i].kind = "move" THEN Paths \ (Dirs \cup {q[i].target}) ELSE {None}
       /\ \A k \in 1 .. Len(q) :
            k # i => {q[k].source, q[k].target} \cap {q[i].source, q[i].target} \subseteq {None}

VARIABLE crashes

vars == <<program, journal, files, private, userVars, plan, proc, at, aim, crashes>>

Init ==
  /\ program \in Programs /\ journal = Absent /\ plan = "approved"
  /\ tree = [p \in Paths |-> IF p \in Initial THEN Original(p) ELSE None]
  /\ edited = {} /\ carried = {}
  /\ claims = [c \in Claims |-> None] /\ staged = [c \in Claims |-> None] /\ owned = {}
  /\ receipt = [d \in {"apply", "rollback", "abort"} |-> [i \in Steps |-> None]]
  /\ touched = {} /\ discarded = {} /\ actions = 0
  /\ proc = "idle" /\ at = "top" /\ aim = None /\ crashes = 0

StartsAs(direction) ==
  /\ proc' = direction
  /\ UNCHANGED <<program, files, private, userVars, plan, at, aim>>

\* The transaction is written when the folder is what was approved, and applied.
Prepare ==
  /\ proc = "idle" /\ ~ Begun /\ plan = "approved" /\ PreparedEnvironment
  /\ journal' = Prepared /\ StartsAs("apply")

Opens == proc = "idle" /\ Begun /\ ReopenOK /\ UNCHANGED journal

\* Recover goes on in the direction the journal has; only Rollback turns it.
Recover == Opens /\ StartsAs(IF journal.dir = "apply" THEN "apply" ELSE "rollback")
Rollback == Opens /\ StartsAs("rollback")

Crash ==
  /\ proc # "idle" /\ crashes < MaxCrashes /\ crashes' = crashes + 1
  /\ proc' = "idle" /\ at' = "top" /\ aim' = None
  /\ UNCHANGED <<program, journal, files, private, userVars, plan>>

Works ==
  /\ \/ ApplyNext \/ RollbackNext
     \/ RenameIntoClaim
     \/ proc # "idle" /\ FinishPublication
  /\ UNCHANGED crashes

PeopleWork == Begun /\ UserActs /\ UNCHANGED crashes

Next ==
  \/ Prepare /\ UNCHANGED crashes
  \/ Recover /\ UNCHANGED crashes
  \/ Rollback /\ UNCHANGED crashes
  \/ Crash \/ Works \/ PeopleWork

\* A command runs to its end, and somebody starts the next one.
Spec ==
  /\ Init /\ [][Next]_vars
  /\ WF_vars(Prepare /\ UNCHANGED crashes) /\ WF_vars(Recover /\ UNCHANGED crashes)
  /\ WF_vars(Works)

-----------------------------------------------------------------------------
Ids == Inodes \cup {None}
TypeOK ==
  /\ program \in Programs
  /\ journal.dir \in {"apply", "rollback"} /\ journal.cursor \in 0 .. Count
  /\ journal.phase \in {"absent", "prepared", "applying", "applied", "conflicted",
                        "rollback_requested", "rolling_back", "rolled_back"}
  /\ journal.inflight \in (1 .. Count) \cup {None}
  /\ journal.conflicts \in 0 .. MaxConflicts
  /\ tree \in [Paths -> Ids] /\ edited \subseteq Inodes /\ carried \subseteq Inodes
  /\ claims \in [Claims -> Ids] /\ staged \in [Claims -> Ids] /\ owned \subseteq Claims
  /\ \A i \in Steps : receipt["apply"][i] \in Ids
  /\ plan \in {"approved", "verified", "rolled_back", "conflicted"}
  /\ proc \in {"idle", "apply", "rollback"}
  /\ at \in {"top", "staged", "checked", "claimed", "published", "receipted"}
  /\ (at = "checked") = (aim # None)
  /\ touched \subseteq Paths /\ discarded \subseteq Inodes
  /\ actions \in 0 .. MaxUserActions /\ crashes \in 0 .. MaxCrashes

\* Bytes that are a person's, by origin or by an edit, have a name until a
\* person removes them: in the tree, in a claim or inside a claimed directory.
NoByteLost ==
  \A id \in Inodes :
    /\ id \in edited \/ id \in {Original(p) : p \in Initial}
    /\ id \notin discarded \cup carried
    => Links(id) > 0

\* What people did not touch, nor anything below it, is after the rollback what
\* it was before the migration: the file itself or its bytes, or nothing.
Untouched(p) == \A q \in touched : q # p /\ p \notin Beneath[q]
RestoredTo(p) == {Original(p)} \cup {Restore(i) : i \in {k \in 1 .. Count : Taken(k) = p}}
RolledBackRestores ==
  journal.phase = "rolled_back" =>
    \A p \in Paths : Untouched(p) =>
      IF p \in Initial THEN tree[p] \in RestoredTo(p) /\ tree[p] \notin edited
      ELSE ~ Present(p)

\* When the program is applied, what people did not touch is its outcome.
Outcome(p) ==
  LET on == {k \in 1 .. Count : p \in StepPaths(k)} IN
  IF on = {} THEN IF p \in Initial THEN Original(p) ELSE None
  ELSE LET k == CHOOSE k \in on : TRUE IN IF p = Target(k) THEN Publishes(k) ELSE None
AppliedHolds ==
  journal.phase = "applied" =>
    \A p \in Paths : Untouched(p) => tree[p] = Outcome(p)

\* However often it died on the way, a migration that ends has done all of its
\* program or left nothing of it (execute_transaction_v1_apply_with_hook and its
\* rollback counterpart).
EndsAsPromised == RolledBackRestores /\ AppliedHolds

Stranded == proc = "idle" /\ Begun /\ ~ ReopenOK

\* While it applies, a transaction nobody interfered with cannot be opened again
\* only when the crash fell between a stage and the generation that binds it.
StrandedOnlyByStage ==
  Stranded /\ journal.dir = "apply" /\ touched = {} =>
    journal.pub = None /\ Artifacts # {}

\* Resumed often enough, a migration nobody interferes with comes to an end,
\* unless it is to take back an update of the policy that was never receipted:
\* the check of the policy's leaf has no case for that.
PolicyInDoubt ==
  /\ journal.dir = "rollback" /\ journal.inflight # None
  /\ Target(journal.inflight) \in EnvPaths /\ ~ HasReceipt(journal, journal.inflight)
ComesToAnEnd ==
  Begun ~> (Stranded \/ PolicyInDoubt \/ touched # {} \/ Terminal(journal))

=============================================================================
