----------------------------- MODULE RootLifecycle -----------------------------
(* One root from its initialization on: templates are applied to it, its       *)
(* manifest is upgraded, captures seal versions of it and observers record     *)
(* evidence about its folders, all but the initialization under one            *)
(* transaction lock.                                                           *)
EXTENDS ProtocolUpgrade, FolderScopeEvidence, Initialization, TemplateExpansion

CONSTANTS
  Upgraders, Sealers, Observers,   \* the agents, by what they do
  Teams,             \* who is at work together, and the bounds on what people
                     \* do and on the processes that die meanwhile
  Origins            \* the templates a root may have come from

VARIABLES
  changes,           \* history: what people did
  crashes,           \* history: the processes that died
  team               \* one of Teams: its agents and bounds

bounds == <<changes, crashes, team>>
setupVars == <<setupTreeVars, starting, expansionVars>>
lifecycleVars == <<rootVars, upgradeVars, scopeVars, setupVars, bounds>>

-------------------------------------------------------------------------------
(* Assumptions on the constants, and the records that are written.             *)
\* A process runs one command; its kind tells which.
ASSUME RolesAssumption ==
  /\ Upgraders \cup Sealers \cup Observers \cup Expanders \cup Starters
       \subseteq Agents
  /\ None \notin Agents
  /\ Upgraders \cap (Sealers \cup Observers \cup Expanders) = {}
  /\ Sealers \cap (Observers \cup Expanders) = {}
  /\ Observers \cap Expanders = {}

\* A package's versions are ordered by number; the paths looked at have those
\* of its artifacts among them.
PackageHolds(package) ==
  /\ package.version \in Nat
  /\ \A a \in package.artifacts :
       /\ a.kind \in {"directory", "file"}
       /\ a.target \in SetupPaths

OriginOf(package) ==
  [id |-> package.id, version |-> package.version, digest |-> package]

ASSUME PackagesAssumption ==
  /\ \A package \in Offers \cup (StartTemplates \ {None}) : PackageHolds(package)
  /\ \A origin \in Origins \ {None} :
       origin = OriginOf(origin.digest) /\ PackageHolds(origin.digest)
  /\ AdapterPaths \subseteq SetupPaths

OriginRecord ==
  (Origins \ {None}) \cup {OriginOf(package) : package \in StartTemplates \ {None}}
DigestRecord == [text : Nat, policy : BOOLEAN, head : Nat]
ManifestRecord ==
  [profile : {"legacy", "ordinary", "unbound"}, text : Nat,
   receipt : DigestRecord \cup {None}, origin : OriginRecord \cup {None}]
IntentRecord ==
  [source : ManifestRecord, digest : DigestRecord, target : ManifestRecord,
   policy : BOOLEAN]

Place == [Folders -> Instances \cup {None}]
Boundaries == [Instances -> {{}, {"nested"}, None}]
PlannedRecord ==
  [path : Folders, head : Nat, inventory : Place \X Boundaries \X Nat \X BOOLEAN,
   manifest : ManifestRecord]
SeenRecord ==
  [plan : PlannedRecord, folder : Instances, nested : {{}, {"nested"}, None}]
ScopeEvent == [seen : SeenRecord, nonce : Nat]

\* The absent record is none that is written.
ASSUME NoneIsNoRecord ==
  /\ None \notin Nat
  /\ None \notin OriginRecord \cup ManifestRecord \cup IntentRecord
               \cup ScopeEvent
  /\ None \notin [kind : {"file"}, data : ManifestRecord \cup {PeoplesData},
                  node : Nat]
ASSUME BoundsAssumption ==
  MaxInstances \in Nat \ {0} /\ MaxWorkspaceEdits \in Nat /\ MaxClock \in Nat

-------------------------------------------------------------------------------
SetsUp == team.agents \cap (Starters \cup Expanders) # {}

\* People change what the agents at work look at.
People ==
  /\ changes < team.changes
  /\ changes' = changes + 1
  /\ \/ /\ EditManifest
        /\ UNCHANGED <<scopeVars, setupTreeVars>>
     \/ /\ ~SetsUp /\ EditIgnorePolicy
        /\ UNCHANGED <<scopeVars, setupTreeVars>>
     \/ /\ team.agents \cap Observers # {}
        /\ \/ \E p \in Folders : \/ PutFolder(p) \/ ToggleBoundary(p)
                                 \/ \E q \in Folders : RenameFolder(p, q)
           \/ EditWorkspace
        /\ UNCHANGED setupTreeVars
     \/ /\ SetsUp /\ PeopleArrange
        /\ UNCHANGED scopeVars
  /\ UNCHANGED <<upgradeVars, starting, expansionVars, crashes, team>>

Crash ==
  /\ crashes < team.crashes
  /\ crashes' = crashes + 1
  /\ \/ /\ \E a \in Sealers : CaptureCrash(a)
        /\ UNCHANGED <<upgradeVars, scopeVars, setupVars>>
     \/ /\ UpgradeCrash
        /\ UNCHANGED <<scopeVars, setupVars>>
     \/ /\ \E a \in Observers : ObserveCrash(a)
        /\ UNCHANGED <<upgradeVars, setupVars>>
     \/ /\ \E a \in Starters : StartCrash(a)
        /\ UNCHANGED <<upgradeVars, scopeVars, expansionVars>>
     \/ /\ \E a \in Expanders : ExpansionCrash(a)
        /\ UNCHANGED <<upgradeVars, scopeVars, starting>>
  /\ UNCHANGED <<changes, team>>

Capture(a) ==
  /\ a \in team.agents
  /\ CapturePlan(a) \/ CaptureBegin(a) \/ CaptureEnd(a)
  /\ UNCHANGED <<upgradeVars, scopeVars, setupVars, bounds>>
Upgrade ==
  /\ UpgradeStep
  /\ UNCHANGED <<scopeVars, setupVars, bounds>>
PlanUpgrade(a) ==
  a \in team.agents /\ Plan(a) /\ UNCHANGED <<scopeVars, setupVars, bounds>>
ApplyUpgrade(a) ==
  a \in team.agents /\ Apply(a) /\ UNCHANGED <<scopeVars, setupVars, bounds>>
Observe(a) ==
  /\ a \in team.agents
  /\ (\E p \in Folders : ObservePlan(a, p)) \/ ObserveStep(a)
  /\ UNCHANGED <<upgradeVars, setupVars, bounds>>
Initialize(a) ==
  /\ a \in team.agents
  /\ StartStep(a)
  /\ UNCHANGED <<upgradeVars, scopeVars, expansionVars, bounds>>
PlanTemplate(a) ==
  /\ a \in team.agents
  /\ \E package \in Offers, answers \in Answers : PlanExpansion(a, package, answers)
  /\ UNCHANGED <<upgradeVars, scopeVars, starting, bounds>>
ApplyTemplate(a) ==
  /\ a \in team.agents
  /\ ExpansionStep(a)
  /\ UNCHANGED <<upgradeVars, scopeVars, starting, bounds>>

LifecycleNext ==
  \/ People \/ Crash \/ Upgrade
  \/ \E a \in Sealers : Capture(a)
  \/ \E a \in Upgraders : PlanUpgrade(a) \/ ApplyUpgrade(a)
  \/ \E a \in Observers : Observe(a)
  \/ \E a \in Starters : Initialize(a)
  \/ \E a \in Expanders : PlanTemplate(a) \/ ApplyTemplate(a)

\* A team that initializes finds no manifest, any other one of either profile.
Manifests ==
  IF team.agents \cap Starters # {} THEN {None}
  ELSE [profile : {"legacy", "ordinary"}, text : {0}, receipt : {None},
        origin : IF SetsUp THEN Origins ELSE {None}]

LifecycleInit ==
  /\ team \in Teams
  /\ RootInit(Manifests) /\ UpgradeInit /\ ScopeInit
  /\ SetupInit /\ InitializationInit /\ ExpansionInit
  /\ changes = 0 /\ crashes = 0
LifecycleSpec == LifecycleInit /\ [][LifecycleNext]_lifecycleVars

\* The holder of the lock runs, and somebody keeps planning and applying the
\* upgrade.
FairLifecycleSpec ==
  /\ LifecycleSpec
  /\ WF_lifecycleVars(Upgrade)
  /\ \A a \in Upgraders : /\ WF_lifecycleVars(PlanUpgrade(a))
                          /\ SF_lifecycleVars(ApplyUpgrade(a))
  /\ WF_lifecycleVars(
       \/ \E a \in Sealers : lock = a /\ Capture(a)
       \/ \E a \in Observers : lock = a /\ Observe(a)
       \/ \E a \in Expanders : lock = a /\ ApplyTemplate(a))

-------------------------------------------------------------------------------
(* Between the durable intent and its retirement nobody else changes history:  *)
(* captures and observations that were planned before find the intent once     *)
(* they have the lock (acquire_transaction_lock_for_state).                    *)
UpgradeExcludesOthers ==
  [][upgradeIntent # None
       => UNCHANGED <<localHead, captureIntent, journalVars, applications>>
     ]_lifecycleVars

(* Whatever a user last wrote as the manifest is still somewhere: in force,    *)
(* under the exchange artifact, in a recovery file, or as the source an        *)
(* upgrade derived its target from (compare_exchange_exact_owned_with_hooks).  *)
ManifestsSurvive ==
  manifestEdits > 0 =>
    \E m \in {manifest, artifact} \cup recovered :
      m # None /\ m.text = manifestEdits

(* And a file people put or edited is what they made of it: no initialization  *)
(* or application writes over it, whenever it appears (create_if_missing,      *)
(* install_text_no_clobber).                                                   *)
FilesSurvive == \A p \in wrote : KindAt(p) = "file" /\ tree[p].data = PeoplesData
PeoplesWorkSurvives == ManifestsSurvive /\ FilesSurvive

(* The manifest of a root and its application records are installed last, so   *)
(* a crash may leave additions without a record but never a record of what was *)
(* not there (the manifest, which is there by then, may be listed as kept);    *)
(* and the records form one chain from the origin, which every reader demands  *)
(* (validate_application_history_chain), unless the clock ran backwards        *)
(* between two of them.                                                        *)
SeenAt(p) == \E s \in seen : s.path = p
RecordedFirst ==
  /\ manifest # None /\ manifest.origin # None =>
       \A a \in manifest.origin.digest.artifacts : SeenAt(a.target)
  /\ \A r \in applications :
       \A i \in r.created \cup r.preserved :
         \/ i.path = ManifestPath
         \/ [path |-> i.path, kind |-> i.kind, data |-> i.data] \in seen
ClockRanBackwards ==
  \E r, p \in applications : p.number = r.from.application /\ p.at > r.at
HistoryHolds ==
  RecordedFirst /\ HistoryReads /\ (ClockRanBackwards \/ ChainHolds)

(* A pending upgrade is resolved by later calls unless a user's manifest is in *)
(* its place: it is acknowledged, rolled back or withdrawn.                    *)
Foreign ==
  /\ upgradeIntent # None
  /\ ~Sealed(manifest) \/ (artifact # None /\ ~Sealed(artifact))
Pending == upgradeIntent # None
Settled == ~Pending \/ Foreign
UpgradeResolves == Pending ~> Settled

(* The proof a scope is known by goes with one physical folder, through        *)
(* renames, crashes and retries: no path was ever observed as two folders, no  *)
(* folder under two proofs, no proof for two folders, and no observation twice.*)
ProofsFollowFolders ==
  \A i, j \in 1..scopeHead :
    LET e == events[i]
        f == events[j]
    IN /\ e.nonce = f.nonce <=> e.seen.folder = f.seen.folder
       /\ e.seen.plan.path = f.seen.plan.path => e.seen.folder = f.seen.folder
       /\ e.seen = f.seen => i = j
===============================================================================
