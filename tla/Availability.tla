----------------------------- MODULE Availability -----------------------------
(***************************************************************************)
(* What one device may say of a Folderbase's availability, and whether an  *)
(* archive may remove local bytes.  Both are pure: the readiness report    *)
(* and the archive decision, each computed from the facts the caller has.  *)
(*                                                                         *)
(* The facts: the storage policy, the lifecycle, a record for each current *)
(* object, whether a session was requested, whether the remote history is  *)
(* verified and whether the platform keeps local bytes.  The objects are a *)
(* sequence, as two records may name one object.                           *)
(***************************************************************************)
EXTENDS Integers, Sequences, FiniteSets, Functions

CONSTANT MaxBytes   \* u64::MAX, where sums saturate

Policies == {"keep_local", "managed", "cloud_only"}
Lifecycles == {"active", "paused", "archived"}
Verification == {"missing", "unverified", "verified"}

ObjectAvailability(ids, sizes) ==
  [id: ids, bytes: sizes, local: Verification, remote: Verification,
   required: BOOLEAN, pinned: BOOLEAN]

AvailabilityInput(ids) ==
  [policy: Policies, lifecycle: Lifecycles, session: BOOLEAN, history: BOOLEAN,
   keepLocal: BOOLEAN, objects: Seq(ObjectAvailability(ids, 0 .. MaxBytes))]

Min2(a, b) == IF a < b THEN a ELSE b

\* saturating_add along the objects of the set S.
Bytes(input, S) ==
  FoldFunctionOnSet(LAMBDA o, total : Min2(total + o.bytes, MaxBytes), 0, input.objects, S)

Positions(input) == DOMAIN input.objects
IdsOf(input, S) == {input.objects[i].id : i \in S}

LocalIs(input, state) == {i \in Positions(input) : input.objects[i].local = state}
NotLocal(input) == {i \in Positions(input) : input.objects[i].local # "verified"}
NotRemote(input) == {i \in Positions(input) : input.objects[i].remote # "verified"}
Required(input) == {i \in Positions(input) : input.objects[i].required}
Unpinned(input) == {i \in Required(input) : ~ input.objects[i].pinned}

-----------------------------------------------------------------------------
(* evaluate_readiness.                                                     *)

LocalComplete(input) ==
  NotLocal(input) = {} /\ (input.policy = "keep_local" => input.keepLocal)
SessionReady(input) ==
  /\ input.session
  /\ Required(input) \cap NotLocal(input) = {}
  /\ IdsOf(input, Unpinned(input)) = {}
RemoteReady(input) == IdsOf(input, NotRemote(input)) = {} /\ input.history

State(input) ==
  CASE SessionReady(input) -> "session_ready"
    [] ~ SessionReady(input) /\ input.policy # "cloud_only" /\ LocalComplete(input)
         -> "local_complete"
    [] ~ SessionReady(input) /\ input.policy # "keep_local" /\ RemoteReady(input)
         /\ (input.policy = "managed" => ~ LocalComplete(input)) -> "remote_ready"
    [] OTHER -> "incomplete"

Counted(kind, n) == IF n = 0 THEN {} ELSE {<<kind, n>>}
Plain(kind, blocks) == IF blocks THEN {<<kind, 1>>} ELSE {}

\* A blocker that counts ids counts each once; the one about session objects
\* counts records.
ReadinessBlockers(input) ==
  UNION {Plain("keep_local_not_guaranteed", input.policy = "keep_local" /\ ~ input.keepLocal),
         Counted("local_missing", Cardinality(IdsOf(input, LocalIs(input, "missing")))),
         Counted("local_unverified", Cardinality(IdsOf(input, LocalIs(input, "unverified")))),
         Counted("session_missing",
                 IF input.session THEN Cardinality(Required(input) \cap NotLocal(input)) ELSE 0),
         Counted("session_unpinned",
                 IF input.session THEN Cardinality(IdsOf(input, Unpinned(input))) ELSE 0),
         Counted("remote_unverified", Cardinality(IdsOf(input, NotRemote(input)))),
         Plain("history_unverified", ~ input.history)}

\* An archived Folderbase is ready for nothing, and says only that.
Readiness(input) ==
  LET archived == input.lifecycle = "archived"
  IN  [state         |-> IF archived THEN "archived" ELSE State(input),
       localComplete |-> ~ archived /\ LocalComplete(input),
       sessionReady  |-> ~ archived /\ SessionReady(input),
       remoteReady   |-> ~ archived /\ RemoteReady(input),
       toFetch       |-> Bytes(input, NotLocal(input)),
       missing       |-> IdsOf(input, LocalIs(input, "missing")),
       unverified    |-> IdsOf(input, LocalIs(input, "unverified")),
       missingRemote |-> IdsOf(input, NotRemote(input)),
       unpinned      |-> IdsOf(input, Unpinned(input)),
       blockers      |-> IF archived THEN {<<"archived", 1>>} ELSE ReadinessBlockers(input)]

-----------------------------------------------------------------------------
(* evaluate_archive.  A manual request and an inactivity policy give the   *)
(* same two answers: whether it is time, and whether somebody agreed.      *)

Manual(approved) == [kind |-> "manual", approved |-> approved]
Inactivity(idle, threshold, automatic, proposal) ==
  [kind |-> "inactivity", idle |-> idle, threshold |-> threshold,
   automatic |-> automatic, proposal |-> proposal]

ThresholdReached(request) ==
  request.kind = "inactivity" => request.idle >= request.threshold
ExecutionApproved(request) ==
  IF request.kind = "manual" THEN request.approved ELSE request.automatic \/ request.proposal

RemoteVerified(input) == Cardinality(NotRemote(input)) = 0 /\ input.history

ArchiveBlockers(input, request) ==
  UNION {Plain("already_archived", input.lifecycle = "archived"),
         Counted("remote_unverified", Cardinality(NotRemote(input))),
         Plain("history_unverified", ~ input.history),
         Plain("threshold_not_reached", ~ ThresholdReached(request)),
         Plain("awaiting_approval", ThresholdReached(request) /\ ~ ExecutionApproved(request))}

MayRemoveLocalBytes(input, request) ==
  /\ input.lifecycle # "archived"
  /\ RemoteVerified(input)
  /\ ThresholdReached(request)
  /\ ExecutionApproved(request)

Disposition(input, request) ==
  CASE MayRemoveLocalBytes(input, request) -> "eligible"
    [] /\ input.lifecycle # "archived" /\ RemoteVerified(input)
       /\ ThresholdReached(request) /\ ~ ExecutionApproved(request) -> "proposal_eligible"
    [] OTHER -> "blocked"

Archive(input, request) ==
  [disposition |-> Disposition(input, request),
   mayRemove   |-> MayRemoveLocalBytes(input, request),
   verified    |-> Bytes(input, Positions(input) \ NotRemote(input)),
   toRestore   |-> Bytes(input, Positions(input)),
   blockers    |-> ArchiveBlockers(input, request)]

-----------------------------------------------------------------------------
(* What the two may be relied on for.                                      *)

\* The authorization and the list of reasons against it are computed apart, and
\* agree: bytes may go exactly when no blocker is told, and an executor that
\* waits for a member's word is told to when that word is all that is missing.
DecisionIsExplained(input, request) ==
  LET decision == Archive(input, request)
  IN  /\ decision.mayRemove <=> decision.blockers = {}
      /\ decision.disposition = "proposal_eligible"
           <=> decision.blockers = {<<"awaiting_approval", 1>>}

\* Once the bytes are gone, everything the device then has to fetch is verified
\* on the remote: what an archive allows leaves a Folderbase remotely ready.
Removed(input) ==
  [input EXCEPT !.objects = [i \in Positions(input) |-> [@[i] EXCEPT !.local = "missing"]]]
RemovalIsRecoverable(input, request) ==
  MayRemoveLocalBytes(input, request) =>
    Readiness(Removed(input)).remoteReady /\ Readiness(Removed(input)).missingRemote = {}

\* The restore then costs what the decision said, saturated alike, and all of it
\* is verified.
CostIsTold(input, request) ==
  MayRemoveLocalBytes(input, request) =>
    LET decision == Archive(input, request)
    IN  /\ Readiness(Removed(input)).toFetch = decision.toRestore
        /\ decision.verified = decision.toRestore

\* A state is reached exactly when none of its blockers is told; session readiness,
\* when a session was asked for and none of its blockers is told.
StateIsExplained(input) ==
  LET report == Readiness(input)
      told == {b[1] : b \in report.blockers}
  IN  /\ report.sessionReady
           <=> input.session /\ told \cap {"archived", "session_missing", "session_unpinned"} = {}
      /\ report.remoteReady <=> told \cap {"archived", "remote_unverified", "history_unverified"} = {}
      /\ report.localComplete
           <=> told \cap {"archived", "keep_local_not_guaranteed", "local_missing",
                          "local_unverified"} = {}
      /\ report.state = "session_ready" <=> report.sessionReady
=============================================================================
