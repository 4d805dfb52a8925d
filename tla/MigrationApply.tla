---------------------------- MODULE MigrationApply ----------------------------
(***************************************************************************)
(* Forward execution: an intent is journaled, the step's leaf is built     *)
(* privately and published into a path seen absent, a private receipt says *)
(* what was published, and the journal takes the receipt up.  A resumed    *)
(* command finds what is already done and verifies it before it goes on.   *)
(***************************************************************************)
EXTENDS MigrationFiles

Applying == proc = "apply" /\ ~ FinishesPublication
InApply(i) == Applying /\ journal.inflight = i

\* What a receipt claims, looked at again: the visible leaf, and the claims.
AppliedVisible(i) ==
  CASE Kind(i) = "mkdir"  -> tree[Target(i)] = receipt["apply"][i]
    [] Kind(i) = "move"   -> ~ Present(Source(i)) /\ ExactAt(Target(i), receipt["apply"][i], 2)
    [] OTHER              -> ExactAt(Target(i), receipt["apply"][i], 2)
AppliedClaims(i) ==
  CASE Kind(i) = "mkdir"  -> TRUE
    [] Kind(i) = "create" -> ExactClaim(i, "publish", receipt["apply"][i], 2)
    [] Kind(i) = "move"   -> ExactClaim(i, "source", receipt["apply"][i], 2)
    [] OTHER -> /\ ExactClaim(i, "publish", receipt["apply"][i], 2)
                /\ ExactClaim(i, "source", Before(i), 1)

-----------------------------------------------------------------------------
(* The loop around the steps.                                              *)

ApplyIntent ==
  /\ Applying /\ CanIntend(journal)
  /\ journal.phase # "applied" /\ (journal.cursor = 0 => PreparedEnvironment)
  /\ AppendGeneration(NextApplyIntent(journal))

PreparedDrifted ==
  /\ Applying /\ CanIntend(journal) /\ journal.cursor = 0 /\ ~ PreparedEnvironment
  /\ Conflict(1)

ApplyFinish ==
  /\ Applying /\ CanFinish(journal) /\ journal.phase # "applied"
  /\ AppendGeneration(NextApplied(journal))

\* A migration that is applied already is verified again, step by step.
Broken == {i \in 1 .. Count : ~ (AppliedVisible(i) /\ AppliedClaims(i))}
FirstBroken == CHOOSE i \in Broken : \A k \in Broken : i <= k

ApplyVerifies ==
  /\ Applying /\ journal.phase = "applied"
  /\ IF ~ EnvironmentHeld(journal) THEN Abandon
     ELSE IF Broken # {}
     THEN IF AppliedVisible(FirstBroken) THEN Abandon ELSE Conflict(FirstBroken)
     ELSE /\ plan' = "verified" /\ proc' = "idle" /\ at' = "top"
          /\ UNCHANGED <<program, journal, files, private, userVars, aim>>

ApplyReceiptJournaled(i) ==
  /\ InApply(i)
  /\ at = "receipted"
  /\ AppendGeneration(NextApplyReceipt(journal, receipt["apply"][i]))

\* A receipt found on the way in is verified first.
ApplyReceiptVerified(i) ==
  /\ InApply(i) /\ at = "top" /\ receipt["apply"][i] # None /\ Kind(i) # "mkdir"
  /\ IF ~ Authority(i) \/ ~ AppliedVisible(i) THEN Conflict(i)
     ELSE IF ~ AppliedClaims(i) THEN Abandon
     ELSE AppendGeneration(NextApplyReceipt(journal, receipt["apply"][i]))

ApplyReceiptPersists(i) ==
  /\ InApply(i) /\ at = "published"
  /\ IF Authority(i) THEN PersistReceipt("apply", i, Publishes(i)) ELSE Conflict(i)

\* The step runs: no receipt of it yet, and everything above it is in place.
Runs(i) == InApply(i) /\ at \in {"top", "claimed"} /\ receipt["apply"][i] = None /\ Authority(i)
Displaced(i) ==
  /\ InApply(i) /\ at \in {"top", "claimed"} /\ ~ Authority(i)
  /\ receipt["apply"][i] = None \/ Kind(i) = "mkdir"
  /\ Conflict(i)

\* A leaf is hard-linked into a path seen absent, found already there, or refused.
\* (mutant) a leaf this step published earlier counts as somebody else's
PublishOnce(i, kind, path) ==
  IF ~ Present(path) THEN at' = "published" /\ LinkVisible(i, kind, path) ELSE Conflict(i)
Publish(i, kind, path) ==
  IF ~ Present(path)
  THEN /\ at' = "published" /\ LinkVisible(i, kind, path)
  ELSE IF Shows(path, Claim(i, kind))
  THEN at' = "published" /\ UNCHANGED <<journal, files, private>> /\ Rests
  ELSE Conflict(i)

-----------------------------------------------------------------------------
(* A directory: its receipt names the identity before it is published.     *)

MkdirPrepare(i) ==
  /\ Runs(i) /\ Kind(i) = "mkdir" /\ ~ Holds(i, "publish")
  /\ claims' = [claims EXCEPT ![<<i, "publish">>] = Image(i)]
  /\ UNCHANGED <<journal, files, staged, owned, receipt, at>> /\ Rests

MkdirReceipt(i) ==
  /\ Runs(i) /\ Kind(i) = "mkdir" /\ Holds(i, "publish")
  /\ receipt' = [receipt EXCEPT !["apply"][i] = Claim(i, "publish")]
  /\ UNCHANGED <<journal, files, claims, staged, owned, at>> /\ Rests

MkdirPublish(i) ==
  /\ InApply(i) /\ at = "top" /\ Kind(i) = "mkdir" /\ receipt["apply"][i] # None /\ Authority(i)
  /\ IF ~ Present(Target(i))
     THEN IF Holds(i, "publish") THEN RenameVisible(i, "publish", Target(i)) ELSE Abandon
     ELSE IF tree[Target(i)] = receipt["apply"][i]
     THEN AppendGeneration(NextApplyReceipt(journal, receipt["apply"][i]))
     ELSE Conflict(i)

-----------------------------------------------------------------------------
(* A new file, and a file replaced: the replacement is ready before the    *)
(* file it replaces is taken.                                              *)

\* (mutant) an image found prepared on resuming counts as published
CreatePublishesOrFinds(i) ==
  /\ Runs(i) /\ Kind(i) = "create" /\ Holds(i, "publish")
  /\ IF at = "claimed" THEN Publish(i, "publish", Target(i))
     ELSE at' = "published" /\ UNCHANGED <<journal, files, private>> /\ Rests
CreatePublishes(i) ==
  /\ Runs(i) /\ Kind(i) = "create" /\ Holds(i, "publish")
  /\ IF Claim(i, "publish") \in edited THEN Abandon ELSE Publish(i, "publish", Target(i))

ImagePrepared(i) ==
  /\ Runs(i) \/ (InApply(i) /\ at = "staged")
  /\ Kind(i) \in {"create", "replace"}
  /\ PreparePublication(i, "publish", Image(i))

ReplaceTakesSource(i) ==
  /\ Runs(i) /\ Kind(i) = "replace" /\ Holds(i, "publish") /\ ~ Holds(i, "source")
  /\ IF ExactAt(Target(i), Before(i), 1)
     THEN CheckLeaf(i, Target(i), "source", Before(i))
     ELSE Conflict(i)

ReplacePublishes(i) ==
  /\ Runs(i) /\ Kind(i) = "replace" /\ Holds(i, "publish") /\ Holds(i, "source")
  /\ IF Claim(i, "publish") \in edited \/ ~ ExactClaim(i, "source", Before(i), 1) THEN Abandon
     ELSE Publish(i, "publish", Target(i))

-----------------------------------------------------------------------------
(* A move keeps the inode: the source's own claim is linked at its target. *)

MoveTakesSource(i) ==
  /\ Runs(i) /\ Kind(i) = "move" /\ ~ Holds(i, "source")
  /\ IF Shows(Target(i), Before(i)) THEN Abandon
     ELSE IF ExactAt(Source(i), Before(i), 1)
     THEN CheckLeaf(i, Source(i), "source", Before(i))
     ELSE Conflict(i)

MovePublishes(i) ==
  /\ Runs(i) /\ Kind(i) = "move" /\ Holds(i, "source")
  /\ IF ~ ExactClaim(i, "source", Before(i), IF Shows(Target(i), Before(i)) THEN 2 ELSE 1)
     THEN Abandon
     ELSE IF at = "top" /\ Present(Source(i)) THEN Conflict(i)
     ELSE Publish(i, "source", Target(i))

ApplyStep(i) ==
  \/ ApplyReceiptJournaled(i) \/ ApplyReceiptVerified(i) \/ ApplyReceiptPersists(i)
  \/ Displaced(i)
  \/ MkdirPrepare(i) \/ MkdirReceipt(i) \/ MkdirPublish(i)
  \/ ImagePrepared(i) \/ CreatePublishes(i)
  \/ ReplaceTakesSource(i) \/ ReplacePublishes(i)
  \/ MoveTakesSource(i) \/ MovePublishes(i)

ApplyNext ==
  \/ ApplyIntent \/ PreparedDrifted \/ ApplyFinish \/ ApplyVerifies
  \/ \E i \in Steps : ApplyStep(i)

=============================================================================
