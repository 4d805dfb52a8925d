---------------------------- MODULE ProtocolUpgrade ----------------------------
(* The explicit upgrade of a legacy root manifest: a read-only plan, a durable *)
(* intent, one exchange of the manifest against a staged successor, its        *)
(* verification, rollback and recovery.                                        *)
EXTENDS RootAuthority

VARIABLES
  approved,      \* the plan each agent holds between planning and applying
  up,            \* the apply in progress: its agent and step, or None
  artifact,      \* .exchange-<owner>.tmp beside the manifest
  recovered      \* manifest.concurrent-<owner>.recovery files

upgradeVars == <<approved, up, artifact, recovered>>

-------------------------------------------------------------------------------
(* Planning.                                                                   *)
IgnoreSnapshot == ignorePolicy

\* What the durable intent keeps of a plan, and the plan it gives back.
IntentOf(plan) ==
  [source |-> plan.source, digest |-> plan.digest, target |-> plan.target,
   policy |-> plan.policy]
PlanOf(intent) ==
  [applied |-> FALSE, source |-> intent.source, digest |-> intent.digest,
   target |-> intent.target, policy |-> intent.policy]

\* An intent read back binds its target to its source and its digest.
ValidIntent(intent) ==
  /\ intent.source.profile = "legacy"
  /\ intent.target = Target(intent.source, intent.digest)

CanPlan ==
  /\ AttestsForRecovery
  /\ ~PendingWork
  /\ upgradeIntent # None =>
       /\ ValidIntent(upgradeIntent)
       /\ Ordinary(manifest) \/ manifest = upgradeIntent.source

FreshPlan ==
  LET digest == Digest(manifest, IgnoreSnapshot, localHead)
  IN [applied |-> FALSE, digest |-> digest, source |-> manifest,
      target |-> Target(manifest, digest), policy |-> IgnoreSnapshot]

\* The receipt of an upgraded manifest repeats the digest of its plan.
AppliedReceipt == manifest.receipt

AppliedPlan ==
  [applied |-> TRUE,
   digest |-> IF AppliedReceipt = None THEN Digest(manifest, None, None)
                                       ELSE AppliedReceipt,
   source |-> manifest, target |-> manifest, policy |-> None]

PlannedNow ==
  CASE Ordinary(manifest) -> AppliedPlan
    [] ~Ordinary(manifest) /\ upgradeIntent # None -> PlanOf(upgradeIntent)
    [] OTHER -> FreshPlan

Plan(a) ==
  /\ approved[a] = None
  /\ CanPlan
  /\ approved' = [approved EXCEPT ![a] = PlannedNow]
  /\ UNCHANGED <<rootVars, up, artifact, recovered>>

\* The reviewed plan still is what planning under the lock finds.
StillPlanned(plan) ==
  LET current == PlannedNow
  IN /\ current.source = plan.source
     /\ current.digest = plan.digest
     /\ current.target = plan.target

-------------------------------------------------------------------------------
(* The steps of one apply.                                                     *)
At(step) == up # None /\ up.step = step
GoTo(step) == up' = [up EXCEPT !.step = step]

\* The agent's call ends, with a result or an error.
End ==
  /\ up' = None
  /\ lock' = None
  /\ approved' = [approved EXCEPT ![up.agent] = None]

Apply(a) ==
  /\ approved[a] # None
  /\ up = None
  /\ TakeLockForUpgrade(a)
  /\ up' = [agent |-> a, step |-> "recover", undo |-> FALSE]
  /\ UNCHANGED <<manifest, upgradeIntent, restOfRoot, approved, artifact,
                 recovered>>

\* Recovery admits a pending intent only beside one of its two manifests.
Sealed(bytes) == bytes \in {upgradeIntent.source, upgradeIntent.target}

CannotRecover ==
  /\ At("recover")
  /\ upgradeIntent # None
  /\ \/ ~AttestsForRecovery
     \/ ~Sealed(manifest)
     \/ artifact # None /\ ~Sealed(artifact)
  /\ End
  /\ UNCHANGED <<manifest, upgradeIntent, restOfRoot, artifact, recovered>>

\* (mutant) what a dead exchange left stays.
ReclaimedNever == artifact' = artifact

Reclaimed == artifact' = None

Recover ==
  /\ At("recover")
  /\ upgradeIntent # None
  /\ AttestsForRecovery /\ Sealed(manifest)
  /\ artifact # None => Sealed(artifact)
  /\ Reclaimed
  /\ LET same == IgnoreSnapshot = upgradeIntent.policy
     IN \/ /\ manifest = upgradeIntent.target /\ same
           /\ upgradeIntent' = None
           /\ GoTo("revalidate")
           /\ UNCHANGED <<lock, approved>>
        \/ /\ manifest = upgradeIntent.target /\ ~same
           /\ up' = [up EXCEPT !.step = "stage", !.undo = TRUE]
           /\ UNCHANGED <<upgradeIntent, lock, approved>>
        \/ /\ manifest = upgradeIntent.source /\ same
           /\ GoTo("revalidate")
           /\ UNCHANGED <<upgradeIntent, lock, approved>>
        \/ /\ manifest = upgradeIntent.source /\ ~same
           /\ upgradeIntent' = None
           /\ End
  /\ UNCHANGED <<manifest, restOfRoot, recovered>>

NothingToRecover ==
  /\ At("recover")
  /\ upgradeIntent = None
  /\ GoTo("revalidate")
  /\ UNCHANGED <<rootVars, approved, artifact, recovered>>

Refuse ==
  /\ At("revalidate")
  /\ ~(CanPlan /\ StillPlanned(approved[up.agent]))
  /\ End
  /\ UNCHANGED <<manifest, upgradeIntent, restOfRoot, artifact, recovered>>

AlreadyApplied ==
  /\ At("revalidate")
  /\ CanPlan /\ StillPlanned(approved[up.agent])
  /\ PlannedNow.applied
  /\ End
  /\ UNCHANGED <<manifest, upgradeIntent, restOfRoot, artifact, recovered>>

Revalidate ==
  /\ At("revalidate")
  /\ CanPlan /\ StillPlanned(approved[up.agent])
  /\ ~PlannedNow.applied
  /\ up' = [agent |-> up.agent, step |-> "prepare", undo |-> FALSE,
            plan |-> PlannedNow]
  /\ UNCHANGED <<rootVars, approved, artifact, recovered>>

PrepareIntent ==
  /\ At("prepare")
  /\ upgradeIntent \in {None, IntentOf(up.plan)}
  /\ upgradeIntent' = IntentOf(up.plan)
  /\ GoTo("stage")
  /\ UNCHANGED <<manifest, lock, restOfRoot, approved, artifact, recovered>>

-------------------------------------------------------------------------------
(* The exchange.  Activation goes from source to target, rollback back; the    *)
(* displaced manifest is looked at only once it has been displaced.            *)
Expected == IF up.undo THEN upgradeIntent.target ELSE upgradeIntent.source
Replacement == IF up.undo THEN upgradeIntent.source ELSE upgradeIntent.target

Stage ==
  /\ At("stage")
  /\ artifact = None
  /\ artifact' = Replacement
  /\ GoTo("exchange")
  /\ UNCHANGED <<rootVars, approved, recovered>>

Exchange ==
  /\ At("exchange")
  /\ manifest' = artifact
  /\ artifact' = manifest
  /\ GoTo("displaced")
  /\ UNCHANGED <<lock, upgradeIntent, restOfRoot, approved, recovered>>

\* Something else was displaced: it goes back.
ExchangeBack ==
  /\ At("displaced")
  /\ artifact # Expected
  /\ manifest' = artifact
  /\ artifact' = manifest
  /\ GoTo("back")
  /\ UNCHANGED <<lock, upgradeIntent, restOfRoot, approved, recovered>>

\* (mutant) what came back is taken for the successor.
KeepNothing == recovered' = recovered

\* What came back is either the successor, which goes, or one more edit of the
\* user, which is kept beside the manifest.
KeepConcurrent ==
  recovered' = IF artifact = Replacement THEN recovered
                                         ELSE recovered \cup {artifact}

CleanBack ==
  /\ At("back")
  /\ KeepConcurrent
  /\ artifact' = None
  /\ End
  /\ UNCHANGED <<manifest, upgradeIntent, restOfRoot>>

DropDisplaced ==
  /\ At("displaced")
  /\ artifact = Expected
  /\ artifact' = None
  /\ GoTo(IF up.undo THEN "unwound" ELSE "activated")
  /\ UNCHANGED <<rootVars, approved, recovered>>

-------------------------------------------------------------------------------
(* After the exchange.                                                         *)
ExactTarget == AttestsForRecovery /\ manifest = upgradeIntent.target

NotExact ==
  /\ \/ At("activated") \/ At("acknowledge") \/ At("unwound")
  /\ ~(IF up.undo THEN manifest = upgradeIntent.source ELSE ExactTarget)
  /\ End
  /\ UNCHANGED <<manifest, upgradeIntent, restOfRoot, artifact, recovered>>

Validate ==
  /\ At("activated")
  /\ ExactTarget
  /\ IF IgnoreSnapshot = upgradeIntent.policy
     THEN GoTo("acknowledge")
     ELSE up' = [up EXCEPT !.step = "stage", !.undo = TRUE]
  /\ UNCHANGED <<rootVars, approved, artifact, recovered>>

Acknowledge ==
  /\ At("acknowledge")
  /\ ExactTarget
  /\ upgradeIntent' = None
  /\ up' = [up EXCEPT !.step = "retired"]
  /\ UNCHANGED <<manifest, lock, restOfRoot, approved, artifact, recovered>>

\* The last attestation only decides what the caller is told.
Retired ==
  /\ At("retired")
  /\ End
  /\ UNCHANGED <<manifest, upgradeIntent, restOfRoot, artifact, recovered>>

Unwound ==
  /\ At("unwound")
  /\ manifest = upgradeIntent.source
  /\ upgradeIntent' = None
  /\ End
  /\ UNCHANGED <<manifest, restOfRoot, artifact, recovered>>

UpgradeCrash ==
  /\ up # None
  /\ End
  /\ UNCHANGED <<manifest, upgradeIntent, restOfRoot, artifact, recovered>>

UpgradeStep ==
  \/ CannotRecover \/ Recover \/ NothingToRecover
  \/ Refuse \/ AlreadyApplied \/ Revalidate \/ PrepareIntent
  \/ Stage \/ Exchange \/ ExchangeBack \/ CleanBack \/ DropDisplaced
  \/ NotExact \/ Validate \/ Acknowledge \/ Retired \/ Unwound

UpgradeInit ==
  /\ approved = [a \in Agents |-> None]
  /\ up = None
  /\ artifact = None
  /\ recovered = {}
===============================================================================
