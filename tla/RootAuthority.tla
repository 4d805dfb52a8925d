----------------------------- MODULE RootAuthority -----------------------------
(* What every operation on one root reads first: the root manifest and its    *)
(* attestation, the visible ignore policy, Local Head, and the transaction    *)
(* lock with the pending work that closes it.                                 *)
EXTENDS Naturals, FiniteSets

CONSTANTS
  None,              \* absence of a record
  Agents,            \* processes that open the root
  MaxManifestEdits   \* bound on the manifests a user writes

VARIABLES
  manifest,          \* .folderbase/manifest.json, or None
  ignorePolicy,      \* .folderbaseignore: FALSE absent, TRUE one regular file
  localHead,         \* the sealed version Local Head names, as a count
  lock,              \* the agent that holds the transaction lock
  upgradeIntent,     \* transactions/protocol-upgrades/active.json
  captureIntent,     \* any other nonterminal work found under transactions
  capturePlanned,    \* agents that planned a capture and have not sealed it
  manifestEdits      \* history: the manifests users have written

rootVars == <<manifest, ignorePolicy, localHead, lock, upgradeIntent,
              captureIntent, capturePlanned, manifestEdits>>

\* Left alone by a step that changes the manifest, an intent or the lock.
restOfRoot == <<ignorePolicy, localHead, captureIntent, capturePlanned,
                manifestEdits>>

-------------------------------------------------------------------------------
(* Manifests.  A user writes legacy bytes; an upgrade derives the target from  *)
(* its source and the digest of its plan.  The origin is the template the root *)
(* was initialized from, if any.                                               *)

\* What capture and the plan bind: the manifest's bytes, the ignore policy and
\* Local Head.
Digest(m, policy, h) == [text |-> m.text, policy |-> policy, head |-> h]

Target(source, digest) ==
  [profile |-> "ordinary", text |-> source.text, receipt |-> digest,
   origin |-> source.origin]

\* A user's edit of an upgraded manifest keeps the receipt, which no longer
\* binds it: the bytes decode to no profile.
Edited(m, text) ==
  IF m.receipt = None THEN [m EXCEPT !.text = text]
                      ELSE [m EXCEPT !.profile = "unbound", !.text = text]

Ordinary(m) == m.profile = "ordinary"
Native(m) == m.profile # "legacy"
Decodes(m) == m # None /\ (m.profile = "legacy" \/ Ordinary(m))

\* Attestation of the root, for operations that may find an upgrade pending
\* and for the others.
AttestsForRecovery == Decodes(manifest)
Attests == Decodes(manifest) /\ upgradeIntent = None

-------------------------------------------------------------------------------
(* The transaction lock.                                                       *)
TakeLockForUpgrade(a) == lock = None /\ lock' = a

\* (mutant) the lock alone admits a caller.
LockAdmitsAlways == TRUE

\* Every other caller looks for a pending upgrade once it has the lock, and
\* gives the lock back when it finds one.
LockAdmits == upgradeIntent = None
TakeLock(a) == TakeLockForUpgrade(a) /\ LockAdmits

PendingWork == captureIntent # None

-------------------------------------------------------------------------------
(* People, and the operation an upgrade has to exclude.                        *)
CONSTANT MaxHeads    \* bound on the captures other agents seal
ASSUME MaxHeadsAssumption == MaxHeads \in Nat
ASSUME MaxManifestEditsAssumption == MaxManifestEdits \in Nat

EditManifest ==
  /\ manifest # None
  /\ manifestEdits < MaxManifestEdits
  /\ manifestEdits' = manifestEdits + 1
  /\ manifest' = Edited(manifest, manifestEdits + 1)
  /\ UNCHANGED <<ignorePolicy, localHead, lock, upgradeIntent, captureIntent,
                 capturePlanned>>

EditIgnorePolicy ==
  /\ ignorePolicy' = ~ignorePolicy
  /\ UNCHANGED <<manifest, localHead, lock, upgradeIntent, captureIntent,
                 capturePlanned, manifestEdits>>

\* A capture attests the root when it is planned and takes the lock when it is
\* sealed; its journal is durable before the Head moves, and a process that
\* dies leaves the journal for the next one.
CapturePlan(a) ==
  /\ a \notin capturePlanned
  /\ localHead < MaxHeads
  /\ Attests
  /\ capturePlanned' = capturePlanned \cup {a}
  /\ UNCHANGED <<manifest, ignorePolicy, localHead, lock, upgradeIntent,
                 captureIntent, manifestEdits>>

CaptureBegin(a) ==
  /\ a \in capturePlanned
  /\ localHead < MaxHeads
  /\ TakeLock(a)
  /\ capturePlanned' = capturePlanned \ {a}
  /\ captureIntent' = a
  /\ UNCHANGED <<manifest, ignorePolicy, localHead, upgradeIntent,
                 manifestEdits>>

CaptureEnd(a) ==
  /\ lock = a /\ captureIntent = a
  /\ localHead' = localHead + 1
  /\ captureIntent' = None
  /\ lock' = None
  /\ UNCHANGED <<manifest, ignorePolicy, upgradeIntent, capturePlanned,
                 manifestEdits>>

CaptureCrash(a) ==
  /\ lock = a /\ captureIntent = a
  /\ lock' = None
  /\ UNCHANGED <<manifest, ignorePolicy, localHead, upgradeIntent,
                 captureIntent, capturePlanned, manifestEdits>>

RootInit(manifests) ==
  /\ manifest \in manifests
  /\ ignorePolicy = FALSE
  /\ localHead = 0
  /\ lock = None
  /\ upgradeIntent = None
  /\ captureIntent = None
  /\ capturePlanned = {}
  /\ manifestEdits = 0
===============================================================================
