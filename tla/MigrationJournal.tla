--------------------------- MODULE MigrationJournal ---------------------------
(***************************************************************************)
(* The append-only journal of a transaction-v1 migration.  A generation    *)
(* records how far the program got: the direction, the phase, the cursor   *)
(* (the operations whose receipts are journaled and not inverted), the     *)
(* operation in flight, the private publication bound to it, the published *)
(* and restored identities, and the one apply that was aborted.            *)
(* Every Next... operator is one constructor of the code; Legal is the     *)
(* check the code makes on an append, written independently of them.       *)
(***************************************************************************)
EXTENDS Naturals, Sequences

CONSTANTS None, MaxConflicts

VARIABLES program,      \* the immutable mutation program, a sequence of steps
          journal       \* the last generation, Absent before the transaction

Count == Len(program)
Receipts(g) == Len(g.applied)
HasReceipt(g, i) == i \in 1 .. Receipts(g)
Inverted(g, i) == g.dir = "rollback" /\ i \in (g.cursor + 1) .. Receipts(g)

\* The published identity of a journaled step, and the restored one.
ReceiptIdentity(g, i) == g.applied[i]
RestoredIdentity(g, i) == g.inverse[Receipts(g) - i + 1]

\* A binding may be cleared once the work it belongs to has its receipt.
PublicationReceipted(g, b) ==
  IF b.dir = "apply"
  THEN HasReceipt(g, b.step) \/ g.aborted = b.step
  ELSE Inverted(g, b.step)

Terminal(g) == g.phase \in {"applied", "rolled_back"}

-----------------------------------------------------------------------------
(* The constructors.                                                       *)

Prepared ==
  [dir |-> "apply", phase |-> "prepared", cursor |-> 0, inflight |-> None,
   pub |-> None, applied |-> <<>>, inverse |-> <<>>, aborted |-> None,
   conflicts |-> 0, seen |-> None]

\* No generation is written yet.
Absent == [Prepared EXCEPT !.phase = "absent"]
Begun == journal.phase # "absent"

CanIntend(g) == g.inflight = None /\ g.cursor < Count
NextApplyIntent(g) ==
  [g EXCEPT !.phase = "applying", !.inflight = g.cursor + 1]

NextApplyReceipt(g, id) ==
  [g EXCEPT !.phase = "applying", !.cursor = g.inflight, !.inflight = None,
            !.applied = Append(@, id)]

CanFinish(g) == g.inflight = None /\ g.cursor = Count
NextApplied(g) == [g EXCEPT !.phase = "applied"]

CanRequestRollback(g) ==
  /\ g.dir = "apply"
  /\ g.inflight # None => g.inflight = g.cursor + 1 /\ ~ HasReceipt(g, g.inflight)
NextRollbackRequested(g) ==
  [g EXCEPT !.dir = "rollback", !.phase = "rollback_requested"]

CanAbort(g) ==
  /\ g.dir = "rollback" /\ g.inflight = g.cursor + 1
  /\ g.phase \in {"rollback_requested", "conflicted"}
  /\ ~ HasReceipt(g, g.inflight) /\ g.aborted = None
NextAbortedApply(g) ==
  [g EXCEPT !.phase = "rollback_requested", !.inflight = None, !.aborted = g.inflight]

CanIntendRollback(g) ==
  /\ g.dir = "rollback" /\ g.inflight = None /\ g.cursor > 0
  /\ g.phase \in {"rollback_requested", "rolling_back", "conflicted"}
NextRollbackIntent(g) ==
  [g EXCEPT !.phase = "rolling_back", !.inflight = g.cursor]

CanInvert(g) ==
  /\ g.dir = "rollback" /\ g.inflight = g.cursor /\ HasReceipt(g, g.inflight)
  /\ g.phase \in {"rolling_back", "conflicted"}
NextRollbackReceipt(g, id) ==
  [g EXCEPT !.phase = "rolling_back", !.cursor = g.inflight - 1, !.inflight = None,
            !.inverse = Append(@, id)]

CanFinishRollback(g) ==
  /\ g.dir = "rollback" /\ g.cursor = 0 /\ g.inflight = None
  /\ Len(g.inverse) = Receipts(g)
NextRolledBack(g) == [g EXCEPT !.phase = "rolled_back"]

\* A conflict on leaves that have not changed since it was recorded is not
\* recorded twice, and once the budget is full the last evidence is kept.
DuplicateConflict(g, seen) == g.phase = "conflicted" /\ g.seen = seen /\ seen.leaves # {}
NextConflicted(g, seen) ==
  IF DuplicateConflict(g, seen) \/ g.conflicts = MaxConflicts
  THEN g
  ELSE [g EXCEPT !.phase = "conflicted", !.conflicts = @ + 1, !.seen = seen]

CanBind(g, b) == g.pub = None /\ g.inflight = b.step /\ g.dir = b.dir
NextPublicationBound(g, b) == [g EXCEPT !.pub = b]
NextPublicationCleared(g) == [g EXCEPT !.pub = None]

-----------------------------------------------------------------------------
(* What an append must be: a well-formed generation that follows its       *)
(* predecessor by one of eleven transitions.                               *)

Keeps(g, h, fields) == \A f \in fields : g[f] = h[f]
evidence == {"applied", "inverse", "aborted"}

LegalApplyIntent(g, h) ==
  /\ h.dir = "apply" /\ h.phase = "applying"
  /\ g.pub = None /\ Keeps(g, h, evidence \cup {"pub", "conflicts", "cursor"})
  /\ g.inflight = None /\ g.cursor < Count /\ h.inflight = g.cursor + 1
  /\ g.phase \in {"prepared", "applying", "conflicted"}

LegalApplyReceipt(g, h) ==
  /\ h.dir = "apply" /\ h.phase = "applying" /\ g.phase \in {"applying", "conflicted"}
  /\ Keeps(g, h, {"pub", "conflicts", "inverse", "aborted"})
  /\ g.inflight = g.cursor + 1 /\ h.inflight = None /\ h.cursor = g.cursor + 1
  /\ Receipts(h) = Receipts(g) + 1 /\ SubSeq(h.applied, 1, Receipts(g)) = g.applied

LegalApplied(g, h) ==
  /\ h.dir = "apply" /\ h.phase = "applied" /\ g.pub = None
  /\ Keeps(g, h, evidence \cup {"pub", "conflicts", "cursor", "inflight"})
  /\ g.cursor = Count /\ g.inflight = None
  /\ g.phase \in {"prepared", "applying", "conflicted"}

LegalRollbackRequested(g, h) ==
  /\ g.dir = "apply" /\ g.phase \in {"prepared", "applying", "applied", "conflicted"}
  /\ h.dir = "rollback" /\ h.phase = "rollback_requested"
  /\ Keeps(g, h, evidence \cup {"pub", "conflicts", "cursor", "inflight"})

LegalAbortedApply(g, h) ==
  /\ g.dir = "rollback" /\ g.phase \in {"rollback_requested", "conflicted"}
  /\ g.inflight = g.cursor + 1 /\ ~ HasReceipt(g, g.cursor + 1)
  /\ h.dir = "rollback" /\ h.phase = "rollback_requested" /\ h.inflight = None
  /\ g.aborted = None /\ h.aborted = g.cursor + 1
  /\ Keeps(g, h, {"applied", "inverse", "pub", "conflicts", "cursor"})

LegalRollbackIntent(g, h) ==
  /\ g.dir = "rollback" /\ g.phase \in {"rollback_requested", "rolling_back", "conflicted"}
  /\ g.inflight = None /\ g.pub = None /\ g.cursor > 0
  /\ h.dir = "rollback" /\ h.phase = "rolling_back" /\ h.inflight = g.cursor
  /\ Keeps(g, h, evidence \cup {"pub", "conflicts", "cursor"})

LegalRollbackReceipt(g, h) ==
  /\ g.dir = "rollback" /\ g.phase \in {"rolling_back", "conflicted"}
  /\ g.cursor > 0 /\ g.inflight = g.cursor
  /\ h.dir = "rollback" /\ h.phase = "rolling_back"
  /\ h.cursor + 1 = g.cursor /\ h.inflight = None
  /\ Keeps(g, h, {"pub", "conflicts", "applied", "aborted"})
  /\ Len(h.inverse) = Len(g.inverse) + 1
  /\ SubSeq(h.inverse, 1, Len(g.inverse)) = g.inverse

LegalRolledBack(g, h) ==
  /\ g.dir = "rollback" /\ g.phase \in {"rollback_requested", "rolling_back"}
  /\ g.cursor = 0 /\ g.inflight = None /\ g.pub = None
  /\ Len(g.inverse) = Receipts(g)
  /\ h.dir = "rollback" /\ h.phase = "rolled_back"
  /\ Keeps(g, h, evidence \cup {"pub", "conflicts", "cursor", "inflight"})

LegalConflicted(g, h) ==
  /\ h.phase = "conflicted" /\ h.conflicts = g.conflicts + 1
  /\ Keeps(g, h, evidence \cup {"dir", "cursor", "inflight", "pub"})

LegalPublicationBound(g, h) ==
  /\ g.pub = None /\ h.pub # None
  /\ g.inflight = h.pub.step /\ h.pub.dir = g.dir
  /\ Keeps(g, h, evidence \cup {"dir", "phase", "cursor", "inflight", "conflicts"})

LegalPublicationCleared(g, h) ==
  /\ g.pub # None /\ h.pub = None /\ PublicationReceipted(g, g.pub)
  /\ Keeps(g, h, evidence \cup {"dir", "phase", "cursor", "inflight", "conflicts"})

Legal(g, h) ==
  \/ LegalApplyIntent(g, h) \/ LegalApplyReceipt(g, h) \/ LegalApplied(g, h)
  \/ LegalRollbackRequested(g, h) \/ LegalAbortedApply(g, h)
  \/ LegalRollbackIntent(g, h) \/ LegalRollbackReceipt(g, h) \/ LegalRolledBack(g, h)
  \/ LegalConflicted(g, h)
  \/ LegalPublicationBound(g, h) \/ LegalPublicationCleared(g, h)

\* The receipts are a prefix of the program; the inverses unwind it from its end.
WellFormed(g) ==
  /\ g.cursor <= Count /\ g.inflight # None => g.inflight <= Count
  /\ IF g.dir = "apply"
     THEN Receipts(g) = g.cursor /\ g.inverse = <<>> /\ g.aborted = None
     ELSE Receipts(g) >= g.cursor /\ Len(g.inverse) = Receipts(g) - g.cursor
  /\ g.aborted # None => g.aborted = Receipts(g) + 1

Accepts(g, h) == Legal(g, h) /\ WellFormed(h)

=============================================================================
