-------------------------- MODULE RootLifecycleProofs --------------------------
(***************************************************************************)
(* Safety of a root's own records, for every set of agents, templates,     *)
(* folders and paths and for every bound: a pending upgrade excludes other *)
(* writers, what people wrote survives, application records form a chain,  *)
(* and a folder's proof goes with the folder.                              *)
(***************************************************************************)
EXTENDS RootLifecycle, SequenceTheorems, FiniteSetTheorems,
        WellFoundedInduction, TLAPS

-----------------------------------------------------------------------------
(* The inductive invariant, by what it is about.                           *)

\* The steps of an apply, an observation and an application, with what each
\* keeps for the next.
UpStep == {"recover", "revalidate", "prepare", "stage", "exchange", "displaced",
           "back", "activated", "acknowledge", "retired", "unwound"}
UpPlan == [applied : {FALSE}, source : ManifestRecord, digest : DigestRecord,
           target : ManifestRecord, policy : BOOLEAN]
IntentSteps == {"stage", "exchange", "displaced", "back", "activated", "acknowledge",
                "unwound"}
UpRecord == [agent : Upgraders, step : UpStep \ {"prepare"}, undo : BOOLEAN]
PreparedRecord ==
  [agent : Upgraders, step : UpStep, undo : BOOLEAN, plan : UpPlan]
ObservingRecord ==
  [step : {"bind"}, plan : PlannedRecord]
    \cup [step : {"lock", "verify"}, seen : SeenRecord]
    \cup [step : {"event", "authority", "head"}, event : ScopeEvent]
ScopeSteps == {"verify", "event", "authority", "head"}
IsExpanding(r) ==
  /\ r = [step |-> r.step, plan |-> r.plan, answers |-> r.answers, left |-> r.left]
  /\ r.step \in {"approved", "add", "record"}

\* Types: what is written is of the records it is written as.
TypeInv ==
  /\ manifest \in ManifestRecord \cup {None}
  /\ ignorePolicy \in BOOLEAN
  /\ localHead \in Nat
  /\ manifestEdits \in Nat
  /\ upgradeIntent \in IntentRecord \cup {None}
  /\ artifact \in ManifestRecord \cup {None}
  /\ up \in UpRecord \cup PreparedRecord \cup {None}
  /\ up # None /\ up.step \in IntentSteps => upgradeIntent # None
  /\ expanding = [a \in Expanders |-> expanding[a]]
  /\ \A a \in Expanders : expanding[a] # None => IsExpanding(expanding[a])

\* Whose step it is belongs to the lock, and only an upgrade keeps the lock
\* while its intent is pending.
LockInv ==
  /\ lock \in Agents \cup {None}
  /\ up # None => lock = up.agent
  /\ upgradeIntent # None => lock \in Upgraders \cup {None}
  /\ DOMAIN observing = Agents
  /\ \A a \in Observers :
       observing[a] # None /\ observing[a].step \in ScopeSteps => lock = a
  /\ \A a \in Expanders :
       expanding[a] # None /\ expanding[a].step \in {"add", "record"} => lock = a

\* What an initialization still has to make.  Its items can be ordered, which
\* is why the manifest comes when everything else is there.
Ordered(items) ==
  \A left \in SUBSET items :
    left # {} => \E i \in left : \A j \in left \ {i} : MadeBefore(i, j)
SoundStart(s) ==
  /\ s = [request |-> s.request, items |-> s.items, keeps |-> s.keeps,
          found |-> s.found, left |-> s.left]
  /\ s.request.package \in StartTemplates
  /\ \A i \in s.items :
       /\ i.path = ManifestPath => i = ManifestItem(s.request.package)
       /\ i.kind = "file" \/ i.path # ManifestPath
  /\ Ordered(s.items)
  /\ \A a \in Artifacts(s.request.package) :
       \/ SeenAt(a.target)
       \/ \E i \in s.items : i.path = a.target /\ i.path # ManifestPath
  /\ s.left # None =>
       /\ s.left \subseteq s.items
       /\ \A i \in s.items \ s.left : i.path = ManifestPath \/ SeenAt(i.path)
StartInv ==
  /\ starting = [a \in Starters |-> starting[a]]
  /\ \A a \in Starters : starting[a] # None => SoundStart(starting[a])

\* What is in the tree, and what has been there.
Node == [kind : {"file"}, data : {PeoplesData}, node : Nat]
IsNode(n) == n = [kind |-> n.kind, data |-> n.data, node |-> n.node]
WasThere(p, n) == [path |-> p, kind |-> n.kind, data |-> n.data] \in seen
TreeInv ==
  /\ tree = [p \in SetupPaths \ {ManifestPath} |-> tree[p]]
  /\ nodes \in Nat
  /\ wrote \subseteq PeoplePaths
  /\ \A p \in wrote : tree[p] \in Node
  /\ \A p \in SetupPaths \ {ManifestPath} :
       tree[p] # None =>
         /\ IsNode(tree[p]) /\ tree[p].node \in Nat
         /\ SeenAt(p)
         /\ tree[p].kind # "nested" => WasThere(p, tree[p])

\* Every manifest around, wherever an exchange has put it, has the one origin
\* and is no newer than the last edit; until somebody edits, the source and the
\* target of the intent are all there is.
Intact(plan) ==
  /\ plan.source.profile = "legacy"
  /\ plan.target = Target(plan.source, plan.digest)
  /\ plan.source.text <= manifestEdits
  /\ manifest # None /\ plan.source.origin = manifest.origin
  /\ plan.source.text = manifestEdits =>
       {manifest, artifact} \subseteq {plan.source, plan.target, None}
NoManifestYet == manifest = None => manifestEdits = 0 /\ applications = {}
OriginWasThere ==
  manifest # None /\ manifest.origin # None =>
    \A a \in manifest.origin.digest.artifacts : SeenAt(a.target)
ExchangeInv ==
  /\ manifest # None => manifest.text <= manifestEdits
  /\ artifact # None =>
       /\ upgradeIntent # None
       /\ artifact.text <= manifestEdits
       /\ manifest # None /\ artifact.origin = manifest.origin
  /\ upgradeIntent # None => Intact(upgradeIntent)
  /\ up # None =>
       /\ up.step = "prepare" =>
            /\ Intact(up.plan)
            /\ upgradeIntent \in {None, IntentOf(up.plan)}
       /\ up.step \in {"revalidate", "prepare", "stage", "activated", "acknowledge",
                       "retired", "unwound"} => artifact = None
       /\ up.step \in {"exchange", "displaced", "back"} => artifact # None
UpgradeInv == NoManifestYet /\ OriginWasThere /\ ExchangeInv

\* What a plan says of the lineage it extends, with m and records as manifest
\* and history.
Continues(plan, m, records) ==
  /\ plan.from.version < plan.template.version
  /\ \/ /\ plan.from.source = "application"
        /\ \E p \in records :
             /\ p.number = plan.from.application
             /\ p.template.id = plan.template.id
             /\ p.template.version = plan.from.version
             /\ \A r \in records : r.from.application # p.number
     \/ /\ plan.from.source \in {"origin", "unmanaged"}
        /\ plan.from.application = None
        /\ \A r \in records : r.template.id # plan.template.id
        /\ plan.from.source = "origin" =>
             /\ m.origin # None
             /\ plan.template.id = m.origin.id
             /\ plan.from.version = m.origin.version
        /\ plan.from.source = "unmanaged" =>
             Native(m) /\ m.origin = None /\ plan.from.version = 0
SoundPlan(plan) ==
  /\ \A k \in plan.keeps : k.path \in SetupPaths
  /\ plan.from.version \in Nat /\ plan.template.version \in Nat
  /\ plan.template.digest \in Offers
WasItem(i) ==
  i.path = ManifestPath \/ [path |-> i.path, kind |-> i.kind, data |-> i.data] \in seen
SoundExpansion(e) ==
  /\ SoundPlan(e.plan)
  /\ e.step = "approved" =>
       e.plan.structural \/ NoOp(e.plan)
         \/ Continues(e.plan, e.plan.manifest, e.plan.history)
  /\ e.step = "add" =>
       /\ NoOp(e.plan) \/ Continues(e.plan, manifest, applications)
       /\ \A i \in e.plan.adds \ e.left : WasItem(i)
  /\ e.step = "record" =>
       /\ Continues(e.plan, manifest, applications)
       /\ \A i \in e.plan.adds \cup e.plan.keeps : WasItem(i)
ExpandInv ==
  \A a \in Expanders :
    expanding[a] # None => manifest # None /\ SoundExpansion(expanding[a])

\* The application records.
Unmanaged == \E r \in applications : r.from.source = "unmanaged"
RecordsInv ==
  /\ IsFiniteSet(applications)
  /\ \A r \in applications :
       /\ r.number \in 1..Cardinality(applications)
       /\ r.at \in Nat /\ r.template.version \in Nat /\ r.from.version \in Nat
       /\ RecordHolds(r)
       /\ \A i \in r.created \cup r.preserved : WasItem(i)
  /\ \A r, s \in applications : r.number = s.number => r = s
  /\ Unmanaged => /\ Native(manifest) /\ upgradeIntent = None
                  /\ up = None \/ up.step # "prepare"
  /\ ClockRanBackwards \/ ChainHolds

\* The journal of a scope, the uncommitted event included.
Proves(log) ==
  \A i, j \in 1..Len(log) :
    /\ log[i].nonce = log[j].nonce <=> log[i].seen.folder = log[j].seen.folder
    /\ log[i].seen.plan.path = log[j].seen.plan.path =>
         log[i].seen.folder = log[j].seen.folder
    /\ log[i].seen = log[j].seen => i = j
AllNonces == {events[i].nonce : i \in 1..Len(events)}
\* The event decided on is new to what is committed, and to what a crash left
\* it is the very same or has to give way.
Decided(e) ==
  /\ \A i \in 1..Len(events) : e.nonce = events[i].nonce <=>
                               e.seen.folder = events[i].seen.folder
  /\ e.nonce \in 1..(Cardinality(AllNonces) + 1)
  /\ \A i \in 1..scopeHead :
       /\ e.seen.plan.path = events[i].seen.plan.path =>
            e.seen.folder = events[i].seen.folder
       /\ e.seen # events[i].seen
PlacesTyped == place \in Place /\ boundaries \in Boundaries /\ edits \in Nat
JournalInv ==
  /\ events \in Seq(ScopeEvent)
  /\ scopeHead \in Nat
  /\ Len(events) \in {scopeHead, scopeHead + 1}
  /\ Proves(events)
  /\ AllNonces = 1..Cardinality(AllNonces)
SoundObservation(o) ==
  /\ o \in ObservingRecord
  /\ o.step = "event" => Decided(o.event)
  /\ o.step \in {"authority", "head"} => Len(events) = scopeHead + 1
ObservingInv ==
  /\ observing = [a \in Agents |-> observing[a]]
  /\ \A a \in Agents \ Observers : observing[a] = None
  /\ \A a \in Observers : observing[a] # None => SoundObservation(observing[a])
ScopeInv == PlacesTyped /\ JournalInv /\ ObservingInv

LifecycleInv ==
  /\ TreeInv /\ StartInv /\ TypeInv /\ LockInv /\ UpgradeInv /\ ManifestsSurvive
  /\ ExpandInv /\ RecordsInv /\ ScopeInv

-----------------------------------------------------------------------------
(* Who changes what.                                                       *)

\* The tree is changed by people and by additions where nothing is.
LEMMA TreeSteps ==
  ASSUME LifecycleNext
  PROVE  \/ UNCHANGED setupTreeVars
         \/ PeopleArrange
         \/ \E item : CanInstall(item) /\ Install(item)
<1>1. CASE People
  BY <1>1 DEF People
<1>2. CASE Crash
  BY <1>2 DEF Crash, setupVars, StartCrash, ExpansionCrash
<1>3. CASE Upgrade
  BY <1>3 DEF Upgrade, setupVars
<1>4. ASSUME NEW a, Capture(a) \/ PlanUpgrade(a) \/ ApplyUpgrade(a) \/ Observe(a)
      PROVE  UNCHANGED setupTreeVars
  BY <1>4 DEF Capture, PlanUpgrade, ApplyUpgrade, Observe, setupVars
<1>5. ASSUME NEW a, Initialize(a)
      PROVE  \/ UNCHANGED setupTreeVars
             \/ \E item : CanInstall(item) /\ Install(item)
  BY <1>5 DEF Initialize, StartStep, PlanStart, PlanStartAgain, Start, MakeEntry, FinishStart
<1>6. ASSUME NEW a, PlanTemplate(a)
      PROVE  UNCHANGED setupTreeVars
  BY <1>6 DEF PlanTemplate, PlanExpansion
<1>7. ASSUME NEW a \in Expanders, ApplyTemplate(a)
      PROVE  \/ UNCHANGED setupTreeVars
             \/ \E item : CanInstall(item) /\ Install(item)
  BY <1>7 DEF ApplyTemplate, ExpansionStep, BeginExpansion, RefuseExpansion, AddEntry,
    VerifyExpansion, RecordExpansion
<1>8. QED
  BY <1>1, <1>2, <1>3, <1>4, <1>5, <1>6, <1>7 DEF LifecycleNext

-----------------------------------------------------------------------------
(* The tree.                                                               *)

\* Nothing is forgotten.
LEMMA InstallKeepsTree ==
  ASSUME TreeInv, NEW item, CanInstall(item), Install(item)
  PROVE  TreeInv'
<1> DEFINE n == [kind |-> item.kind, data |-> item.data, node |-> nodes]
           q == item.path
<1>1. /\ tree' = [tree EXCEPT ![q] = n]
      /\ nodes' = nodes + 1 /\ wrote' = wrote
      /\ seen' = seen \cup {[path |-> q, kind |-> n.kind, data |-> n.data]}
  BY DEF Install, Put
<1>2. DOMAIN tree = SetupPaths \ {ManifestPath} /\ nodes \in Nat
  BY DEF TreeInv
<1>3. q \in SetupPaths \ {ManifestPath} => tree[q] = None
  BY DEF CanInstall, Present, Entry
<1>4. IsNode(n) /\ n.node \in Nat
  BY <1>2 DEF IsNode
<1> HIDE DEF n
<1>5. ASSUME NEW p \in SetupPaths \ {ManifestPath}
      PROVE  tree'[p] = IF p = q THEN n ELSE tree[p]
  BY <1>1, <1>2
<1>6. tree' = [p \in SetupPaths \ {ManifestPath} |-> tree'[p]]
  BY <1>1, <1>2
<1>7. ASSUME NEW p \in wrote
      PROVE  tree'[p] \in Node
  <2>1. p \in SetupPaths \ {ManifestPath} /\ tree[p] \in Node
    BY PathOrderAssumption DEF TreeInv
  <2>2. tree[p] # None
    BY <2>1, NoneIsNoRecord DEF Node
  <2>3. QED
    BY <2>1, <2>2, <1>3, <1>5
<1>8. ASSUME NEW p \in SetupPaths \ {ManifestPath}, tree'[p] # None
      PROVE  /\ IsNode(tree'[p]) /\ tree'[p].node \in Nat
             /\ SeenAt(p)'
             /\ tree'[p].kind # "nested" => WasThere(p, tree[p])'
  <2>1. CASE p = q
    BY <2>1, <1>1, <1>4, <1>5 DEF SeenAt, WasThere
  <2>2. CASE p # q
    BY <2>2, <1>1, <1>5, <1>8 DEF SeenAt, TreeInv, WasThere
  <2>3. QED
    BY <2>1, <2>2
<1>9. nodes' \in Nat /\ wrote' = wrote /\ wrote \subseteq PeoplePaths
  BY <1>1 DEF TreeInv
<1>10. QED
  BY <1>6, <1>7, <1>8, <1>9 DEF TreeInv, SeenAt, WasThere

\* A file that a person put, edited, removed or made nothing of.
LEMMA PeopleKeepTree ==
  ASSUME TreeInv, PeopleArrange
  PROVE  TreeInv'
<1>1. PICK q \in PeoplePaths :
        \/ \E kind \in {"file", "directory"} : PeoplePut(q, kind)
        \/ PeopleEdit(q) \/ PeopleRemove(q) \/ PeopleNest(q)
  BY DEF PeopleArrange
<1>2. q \in SetupPaths \ {ManifestPath}
  BY PathOrderAssumption
<1>3. DOMAIN tree = SetupPaths \ {ManifestPath} /\ nodes \in Nat /\ wrote \subseteq PeoplePaths
  BY DEF TreeInv
<1>4. PeoplePaths \subseteq SetupPaths \ {ManifestPath}
  BY PathOrderAssumption
<1>5. \A p \in wrote : tree[p] # None /\ tree[p].kind = "file"
  BY NoneIsNoRecord DEF TreeInv, Node
<1>6. ASSUME NEW kind \in {"file", "directory"}, PeoplePut(q, kind)
      PROVE  TreeInv'
  <2> DEFINE n == [kind |-> kind, data |-> IF kind = "file" THEN PeoplesData ELSE None,
                   node |-> nodes]
  <2>1. /\ tree' = [tree EXCEPT ![q] = n]
        /\ nodes' = nodes + 1
        /\ seen' = seen \cup {[path |-> q, kind |-> n.kind, data |-> n.data]}
        /\ wrote' = IF kind = "file" THEN wrote \cup {q} ELSE wrote
        /\ tree[q] = None
    BY <1>6 DEF PeoplePut, Put
  <2>2. IsNode(n) /\ n.node \in Nat /\ n.kind = kind /\ (kind = "file" => n \in Node)
    BY <1>3 DEF IsNode, Node
  <2> HIDE DEF n
  <2>3. ASSUME NEW p \in SetupPaths \ {ManifestPath}
        PROVE  tree'[p] = IF p = q THEN n ELSE tree[p]
    BY <2>1, <1>3
  <2>4. tree' = [p \in SetupPaths \ {ManifestPath} |-> tree'[p]]
    BY <2>1, <1>3
  <2>5. ASSUME NEW p \in wrote'
        PROVE  p \in PeoplePaths /\ tree'[p] \in Node
    <3>1. CASE p = q
      BY <3>1, <2>1, <2>2, <2>3, <1>2, <1>5, <2>5
    <3>2. CASE p # q
      BY <3>2, <2>1, <2>3, <1>3, <1>4, <2>5 DEF TreeInv
    <3>3. QED
      BY <3>1, <3>2
  <2>6. ASSUME NEW p \in SetupPaths \ {ManifestPath}, tree'[p] # None
        PROVE  /\ IsNode(tree'[p]) /\ tree'[p].node \in Nat
               /\ SeenAt(p)'
               /\ tree'[p].kind # "nested" => WasThere(p, tree[p])'
    <3>1. CASE p = q
      BY <3>1, <2>1, <2>2, <2>3 DEF SeenAt, WasThere
    <3>2. CASE p # q
      BY <3>2, <2>1, <2>3, <2>6 DEF SeenAt, TreeInv, WasThere
    <3>3. QED
      BY <3>1, <3>2
  <2>7. nodes' \in Nat
    BY <2>1, <1>3
  <2>8. QED
    BY <2>4, <2>5, <2>6, <2>7 DEF TreeInv, SeenAt, WasThere
<1>7. ASSUME PeopleEdit(q)
      PROVE  TreeInv'
  <2>1. tree[q] # None /\ tree[q].kind = "file"
    BY <1>7, <1>2 DEF PeopleEdit, KindAt, Present, Entry
  <2>2. IsNode(tree[q]) /\ tree[q].node \in Nat
    BY <2>1, <1>2 DEF TreeInv
  <2> DEFINE n == [kind |-> "file", data |-> PeoplesData, node |-> tree[q].node]
  <2>0. tree' = [tree EXCEPT ![q] = [tree[q] EXCEPT !.data = PeoplesData]]
    BY <1>7 DEF PeopleEdit
  <2>3. /\ nodes' = nodes
        /\ seen' = seen \cup {[path |-> q, kind |-> n.kind, data |-> n.data]}
        /\ wrote' = wrote \cup {q}
    BY <1>7 DEF PeopleEdit
  <2>4. PICK old : old = tree[q]
    OBVIOUS
  <2>5. [old EXCEPT !.data = PeoplesData] = n
    <3>1. old = [kind |-> "file", data |-> old.data, node |-> old.node]
      BY <2>1, <2>2, <2>4 DEF IsNode
    <3>2. QED
      BY <3>1, <2>4
  <2>6. tree' = [tree EXCEPT ![q] = n]
    BY <2>0, <2>4, <2>5
  <2>7. n \in Node /\ IsNode(n) /\ n.node \in Nat /\ n.kind = "file" /\ n.data = PeoplesData
    BY <2>2 DEF Node, IsNode
  <2> HIDE DEF n
  <2>8. ASSUME NEW p \in SetupPaths \ {ManifestPath}
        PROVE  tree'[p] = IF p = q THEN n ELSE tree[p]
    BY <2>6, <1>3
  <2>9. tree' = [p \in SetupPaths \ {ManifestPath} |-> tree'[p]]
    BY <2>6, <1>3
  <2>10. ASSUME NEW p \in wrote'
         PROVE  p \in PeoplePaths /\ tree'[p] \in Node
    <3>1. CASE p = q
      BY <3>1, <2>7, <2>8, <1>2
    <3>2. CASE p # q
      BY <3>2, <2>3, <2>8, <1>3, <1>4, <2>10 DEF TreeInv
    <3>3. QED
      BY <3>1, <3>2
  <2>11. ASSUME NEW p \in SetupPaths \ {ManifestPath}, tree'[p] # None
         PROVE  /\ IsNode(tree'[p]) /\ tree'[p].node \in Nat
                /\ SeenAt(p)'
                /\ tree'[p].kind # "nested" => WasThere(p, tree[p])'
    <3>1. CASE p = q
      BY <3>1, <2>3, <2>7, <2>8 DEF SeenAt, WasThere
    <3>2. CASE p # q
      BY <3>2, <2>3, <2>8, <2>11 DEF SeenAt, TreeInv, WasThere
    <3>3. QED
      BY <3>1, <3>2
  <2>12. QED
    BY <2>3, <1>3, <2>9, <2>10, <2>11 DEF TreeInv, SeenAt, WasThere
<1>8. ASSUME PeopleRemove(q)
      PROVE  TreeInv'
  <2>1. tree' = [tree EXCEPT ![q] = None] /\ wrote' = wrote \ {q}
        /\ nodes' = nodes /\ seen' = seen
    BY <1>8 DEF PeopleRemove
  <2>2. ASSUME NEW p \in SetupPaths \ {ManifestPath}
        PROVE  tree'[p] = IF p = q THEN None ELSE tree[p]
    BY <2>1, <1>3
  <2>3. tree' = [p \in SetupPaths \ {ManifestPath} |-> tree'[p]]
    BY <2>1, <1>3
  <2>4. \A p \in wrote' : p \in PeoplePaths /\ tree'[p] \in Node
    BY <2>1, <2>2, <1>3, <1>4 DEF TreeInv
  <2>5. QED
    BY <2>1, <2>2, <2>3, <2>4, <1>3 DEF TreeInv, WasThere, SeenAt
<1>9. ASSUME PeopleNest(q)
      PROVE  TreeInv'
  <2>1. tree[q] # None /\ tree[q].kind = "directory"
    BY <1>9, <1>2 DEF PeopleNest, KindAt, Present, Entry
  <2>2. IsNode(tree[q]) /\ tree[q].node \in Nat /\ SeenAt(q)
    BY <2>1, <1>2 DEF TreeInv
  <2> DEFINE n == [kind |-> "nested", data |-> tree[q].data, node |-> tree[q].node]
  <2>0. tree' = [tree EXCEPT ![q] = [tree[q] EXCEPT !.kind = "nested"]]
    BY <1>9 DEF PeopleNest
  <2>3. /\ nodes' = nodes /\ seen' = seen /\ wrote' = wrote
    BY <1>9 DEF PeopleNest
  <2>4. PICK old : old = tree[q]
    OBVIOUS
  <2>5. [old EXCEPT !.kind = "nested"] = n
    <3>1. old = [kind |-> old.kind, data |-> old.data, node |-> old.node]
      BY <2>2, <2>4 DEF IsNode
    <3>2. QED
      BY <3>1, <2>4
  <2>6. tree' = [tree EXCEPT ![q] = n]
    BY <2>0, <2>4, <2>5
  <2>7. IsNode(n) /\ n.node \in Nat /\ n.kind = "nested"
    BY <2>2 DEF IsNode
  <2> HIDE DEF n
  <2>8. ASSUME NEW p \in SetupPaths \ {ManifestPath}
        PROVE  tree'[p] = IF p = q THEN n ELSE tree[p]
    BY <2>6, <1>3
  <2>9. tree' = [p \in SetupPaths \ {ManifestPath} |-> tree'[p]]
    BY <2>6, <1>3
  <2>10. q \notin wrote
    BY <2>1, <1>5
  <2>11. \A p \in wrote' : p \in PeoplePaths /\ tree'[p] \in Node
    BY <2>3, <2>8, <2>10, <1>3, <1>4 DEF TreeInv
  <2>12. ASSUME NEW p \in SetupPaths \ {ManifestPath}, tree'[p] # None
         PROVE  /\ IsNode(tree'[p]) /\ tree'[p].node \in Nat
                /\ SeenAt(p)'
                /\ tree'[p].kind # "nested" => WasThere(p, tree[p])'
    <3>1. CASE p = q
      BY <3>1, <2>2, <2>3, <2>7, <2>8 DEF SeenAt, WasThere
    <3>2. CASE p # q
      BY <3>2, <2>3, <2>8, <2>12 DEF SeenAt, TreeInv, WasThere
    <3>3. QED
      BY <3>1, <3>2
  <2>13. QED
    BY <2>3, <1>3, <2>9, <2>11, <2>12 DEF TreeInv, SeenAt, WasThere
<1>10. QED
  BY <1>1, <1>6, <1>7, <1>8, <1>9

\* What is put is new to its path, and what was put before stays seen.
LEMMA NextKeepsTree ==
  ASSUME TreeInv, [LifecycleNext]_lifecycleVars
  PROVE  TreeInv'
<1>1. CASE UNCHANGED setupTreeVars
  BY <1>1 DEF TreeInv, setupTreeVars, SeenAt, WasThere
<1>2. CASE UNCHANGED lifecycleVars
  BY <1>1, <1>2 DEF lifecycleVars, setupVars
<1>3. CASE LifecycleNext
  BY <1>1, <1>3, TreeSteps, InstallKeepsTree, PeopleKeepTree
<1>4. QED
  BY <1>2, <1>3

\* What has been somewhere, has been there from then on.
LEMMA SeenGrows ==
  ASSUME [LifecycleNext]_lifecycleVars
  PROVE  seen \subseteq seen'
<1>1. CASE UNCHANGED lifecycleVars
  BY <1>1 DEF lifecycleVars, setupVars, setupTreeVars
<1>2. CASE LifecycleNext
  BY <1>2, TreeSteps DEF setupTreeVars, PeopleArrange, PeoplePut, PeopleEdit,
    PeopleRemove, PeopleNest, Install, Put
<1>3. QED
  BY <1>1, <1>2

-----------------------------------------------------------------------------
(* The order of an initialization.                                         *)

\* A set of numbers that is not empty has a least one.
LEMMA LeastNumber ==
  ASSUME NEW T \in SUBSET Nat, T # {}
  PROVE  \E n \in T : \A m \in T : n <= m
<1>1. PICK n \in T : \A m \in T : <<m, n>> \notin OpToRel(<, Nat)
  BY NatLessThanWellFounded, WFMin
<1>2. \A m \in T : ~ (m < n)
  BY <1>1 DEF OpToRel
<1>3. QED
  BY <1>2

\* A path that is looked at has one place in the order.
LEMMA RankOf ==
  ASSUME NEW p \in SetupPaths
  PROVE  Rank(p) \in Nat /\ PathOrder[Rank(p)] = p
<1>1. \E i \in DOMAIN PathOrder : PathOrder[i] = p
  BY DEF SetupPaths
<1>2. Rank(p) \in DOMAIN PathOrder /\ PathOrder[Rank(p)] = p
  BY <1>1 DEF Rank
<1>3. DOMAIN PathOrder \subseteq Nat
  BY PathOrderAssumption
<1>4. QED
  BY <1>2, <1>3

\* Of the paths of some items one comes first.
LEMMA LeastRank ==
  ASSUME NEW items, items # {}, \A i \in items : i.path \in SetupPaths,
         \A i, j \in items : i # j => i.path # j.path
  PROVE  \E i \in items : \A j \in items \ {i} : Rank(i.path) < Rank(j.path)
<1> DEFINE T == {Rank(i.path) : i \in items}
<1>1. T \subseteq Nat /\ T # {}
  BY RankOf
<1>2. PICK n \in T : \A m \in T : n <= m
  BY <1>1, LeastNumber
<1>3. PICK i \in items : n = Rank(i.path)
  BY <1>2
<1>4. ASSUME NEW j \in items \ {i}
      PROVE  Rank(i.path) < Rank(j.path)
  <2>1. Rank(j.path) \in T /\ n <= Rank(j.path)
    BY <1>2
  <2>2. Rank(i.path) # Rank(j.path)
    BY RankOf
  <2>3. QED
    BY <1>1, <1>3, <2>1, <2>2
<1>5. QED
  BY <1>4

\* Items whose paths differ can be made one after the other.
LEMMA ItemsAreOrdered ==
  ASSUME NEW items,
         \A i \in items : i.path \in SetupPaths /\ i.kind \in {"file", "directory"},
         \A i, j \in items : i # j => i.path # j.path
  PROVE  Ordered(items)
<1> SUFFICES ASSUME NEW left \in SUBSET items, left # {}
             PROVE  \E i \in left : \A j \in left \ {i} : MadeBefore(i, j)
  BY DEF Ordered
<1> DEFINE Dirs == {i \in left : i.kind = "directory"}
           Others == {i \in left : i.path # ManifestPath}
<1>1. CASE Dirs # {}
  <2> DEFINE T == {Len(i.path) : i \in Dirs}
  <2>1. T \subseteq Nat /\ T # {}
    BY <1>1, PathOrderAssumption
  <2>2. PICK n \in T : \A m \in T : n <= m
    BY <2>1, LeastNumber
  <2> DEFINE Short == {i \in Dirs : Len(i.path) = n}
  <2>3. Short # {} /\ \A i \in Short : i.path \in SetupPaths
    BY <2>2
  <2>4. PICK i \in Short : \A j \in Short \ {i} : Rank(i.path) < Rank(j.path)
    BY <2>3, LeastRank
  <2>5. ASSUME NEW j \in left \ {i}
        PROVE  MadeBefore(i, j)
    <3>1. i.kind = "directory" /\ Len(i.path) = n
      BY <2>4
    <3>2. CASE j.kind # "directory"
      BY <3>1, <3>2 DEF MadeBefore, DirectoryBefore
    <3>3. CASE j.kind = "directory" /\ Len(j.path) = n
      BY <3>1, <3>3, <2>4 DEF MadeBefore, DirectoryBefore
    <3>4. CASE j.kind = "directory" /\ Len(j.path) # n
      <4>1. Len(j.path) \in T
        BY <3>4
      <4>2. Len(i.path) < Len(j.path)
        BY <4>1, <3>1, <3>4, <2>1, <2>2
      <4>3. QED
        BY <4>2, <3>1, <3>4 DEF MadeBefore, DirectoryBefore
    <3>5. QED
      BY <3>2, <3>3, <3>4
  <2>6. QED
    BY <2>5, <2>4
<1>2. CASE Dirs = {} /\ Others # {}
  <2>1. \A i \in Others : i.path \in SetupPaths
    OBVIOUS
  <2>2. PICK i \in Others : \A j \in Others \ {i} : Rank(i.path) < Rank(j.path)
    BY <1>2, <2>1, LeastRank
  <2>3. \A j \in left : j.kind = "file"
    BY <1>2
  <2>4. ASSUME NEW j \in left \ {i}
        PROVE  MadeBefore(i, j)
    BY <2>2, <2>3 DEF MadeBefore
  <2>5. QED
    BY <2>4, <2>2
<1>3. CASE Others = {}
  <2>1. PICK i \in left : TRUE
    OBVIOUS
  <2>2. \A j \in left : j = i
    BY <1>3
  <2>3. QED
    BY <2>1, <2>2
<1>4. QED
  BY <1>1, <1>2, <1>3

\* The manifest is not among the files of a template, so what a plan makes of
\* it is the plan's own manifest.
LEMMA PlansAreSound ==
  ASSUME TreeInv, NEW request, request.package \in StartTemplates,
         CanStart(request.package, request.answers, request.adapters)
  PROVE  SoundStart(StartPlan(request))
<1>1. PICK package : package = request.package
  OBVIOUS
<1>2. PICK answers : answers = request.answers
  OBVIOUS
<1>3. PICK adapters : adapters = request.adapters
  OBVIOUS
<1> DEFINE items == StartItems(package, answers, adapters)
           rendered == TemplateItems(package, answers)
           extra == AdapterItems(adapters, rendered)
           files == rendered \cup extra \cup {ManifestItem(package)}
<1>4. manifest = None /\ Fits(items)
  BY <1>1, <1>2, <1>3 DEF CanStart
<1>5. items = files \cup MissingParents(files)
  BY DEF StartItems
<1>6. \A a \in Artifacts(package) : a.kind \in {"directory", "file"} /\ a.target \in SetupPaths
  BY <1>1, PackagesAssumption DEF Artifacts, PackageHolds
<1>7. \A i \in rendered : i.path \in SetupPaths /\ i.kind \in {"file", "directory"}
  BY <1>6 DEF TemplateItems, Rendered
<1>8. \A i \in extra : i.path \in SetupPaths /\ i.kind \in {"file", "directory"}
  BY PackagesAssumption DEF AdapterItems
<1>9. ManifestItem(package).path = ManifestPath /\ ManifestItem(package).kind = "file"
  BY DEF ManifestItem
<1>10. ManifestPath \in SetupPaths
  BY PathOrderAssumption
<1>11. \A i \in files : i.path \in SetupPaths /\ i.kind \in {"file", "directory"}
  BY <1>7, <1>8, <1>9, <1>10
<1> HIDE DEF files
<1>12. \A i \in MissingParents(files) :
         i.path \in SetupPaths /\ i.kind \in {"file", "directory"}
  BY <1>11, PathOrderAssumption DEF MissingParents
<1>13. \A i \in items : i.path \in SetupPaths /\ i.kind \in {"file", "directory"}
  BY <1>5, <1>11, <1>12
<1>14. \A i, j \in items : i # j => i.path # j.path
  BY <1>4 DEF Fits, CollisionFree
<1>15. ManifestItem(package) \in items
  BY <1>5 DEF files
<1>16. \A i \in items : i.path = ManifestPath => i = ManifestItem(package)
  BY <1>9, <1>14, <1>15
<1>17. ASSUME NEW a \in Artifacts(package)
       PROVE  \/ SeenAt(a.target)
              \/ \E i \in items : i.path = a.target /\ i.path # ManifestPath
  <2>1. CASE Present(a.target)
    <3>1. a.target # ManifestPath
      BY <2>1, <1>4 DEF Present, Entry
    <3>2. tree[a.target] # None
      BY <2>1, <3>1 DEF Present, Entry
    <3>3. QED
      BY <3>1, <3>2, <1>6 DEF TreeInv
  <2>2. CASE ~ Present(a.target)
    <3>1. Rendered(a, answers) \in items
      BY <2>2, <1>5 DEF files, TemplateItems, Existing
    <3>2. Rendered(a, answers).path = a.target
      BY DEF Rendered
    <3>3. a.target # ManifestPath
      <4>1. SUFFICES ASSUME a.target = ManifestPath
                     PROVE  FALSE
        OBVIOUS
      <4>2. Rendered(a, answers) = ManifestItem(package)
        BY <3>1, <3>2, <4>1, <1>16
      <4>3. PICK d : d = [by |-> a.text, says |-> [q \in a.quotes |-> answers[q]]]
        OBVIOUS
      <4>4. DOMAIN d = {"by", "says"}
        BY <4>3
      <4>5. Rendered(a, answers).kind = a.kind /\ a.kind = "file"
        BY <4>2, <1>9 DEF Rendered
      <4>6. Rendered(a, answers).data = d
        BY <4>3, <4>5 DEF Rendered
      <4>7. "profile" \in DOMAIN ManifestItem(package).data
        BY DEF ManifestItem, FreshManifest
      <4>8. QED
        BY <4>2, <4>4, <4>6, <4>7
    <3>4. QED
      BY <3>1, <3>2, <3>3
  <2>3. QED
    BY <2>1, <2>2
<1>18. Ordered(items)
  BY <1>13, <1>14, ItemsAreOrdered
<1> HIDE DEF items
<1>19. PICK s : s = StartPlan(request)
  OBVIOUS
<1>20. /\ s.request = request /\ s.items = items /\ s.left = None
       /\ s = [request |-> s.request, items |-> s.items, keeps |-> s.keeps,
               found |-> s.found, left |-> s.left]
  BY <1>19, <1>1, <1>2, <1>3 DEF StartPlan, items
<1>21. SoundStart(s)
  BY <1>20, <1>1, <1>9, <1>16, <1>17, <1>18 DEF SoundStart
<1>22. QED
  BY <1>19, <1>21

\* What is installed has been there.
LEMMA InstallIsSeen ==
  ASSUME NEW item, Install(item)
  PROVE  \E w \in seen' : w.path = item.path
<1>1. PICK w : w = [path |-> item.path, kind |-> item.kind, data |-> item.data]
  OBVIOUS
<1>2. w \in seen' /\ w.path = item.path
  BY <1>1 DEF Install, Put
<1>3. QED
  BY <1>2

\* What is there to make stays sound while things are put in their places.
LEMMA StartStaysSound ==
  ASSUME NEW s, SoundStart(s), seen \subseteq seen'
  PROVE  SoundStart(s)'
BY DEF SoundStart, SeenAt

\* The first of what is left is one of what is left, and the manifest only
\* when it is all.
LEMMA ManifestIsLast ==
  ASSUME NEW s, SoundStart(s), s.left # None, s.left # {}
  PROVE  /\ FirstToMake(s.left) \in s.left
         /\ FirstToMake(s.left).path = ManifestPath => s.left = {FirstToMake(s.left)}
<1> DEFINE i == FirstToMake(s.left)
<1>1. \E k \in s.left : \A j \in s.left \ {k} : MadeBefore(k, j)
  BY DEF SoundStart, Ordered
<1>2. i \in s.left /\ \A j \in s.left \ {i} : MadeBefore(i, j)
  BY <1>1 DEF FirstToMake
<1>3. i.path = ManifestPath => i.kind = "file"
  BY <1>2 DEF SoundStart
<1>4. ASSUME i.path = ManifestPath, NEW j \in s.left \ {i}
      PROVE  FALSE
  BY <1>2, <1>3, <1>4 DEF MadeBefore, DirectoryBefore
<1>5. QED
  BY <1>2, <1>4

\* The manifest an initialization makes is its plan's, and everything its
\* template lists has been there.
LEMMA ManifestMade ==
  ASSUME StartInv, NEW a \in Starters, MakeEntry(a), UNCHANGED manifest => FALSE
  PROVE  \E package \in StartTemplates :
           /\ manifest = None \/ manifest \notin ManifestRecord
           /\ manifest' = FreshManifest(package)
           /\ \A b \in Artifacts(package) : SeenAt(b.target)
<1>1. PICK s : s = starting[a]
  OBVIOUS
<1>2. s # None /\ s.left # None /\ s.left # {}
  BY <1>1 DEF MakeEntry, Running
<1>3. SoundStart(s)
  BY <1>1, <1>2 DEF StartInv
<1>4. PICK item : item = FirstToMake(s.left)
  OBVIOUS
<1>5. CanInstall(item) /\ item.path = ManifestPath /\ manifest' = item.data
  BY <1>1, <1>4 DEF MakeEntry, Ends, rootVars
<1>6. item \in s.left /\ s.left = {item}
  BY <1>2, <1>3, <1>4, <1>5, ManifestIsLast
<1>7. item = ManifestItem(s.request.package) /\ s.request.package \in StartTemplates
  BY <1>3, <1>2, <1>5, <1>6 DEF SoundStart
<1>8. manifest' = FreshManifest(s.request.package)
  BY <1>5, <1>7 DEF ManifestItem
<1>9. manifest = None \/ manifest \notin ManifestRecord
  <2>1. SUFFICES ASSUME manifest # None, manifest \in ManifestRecord
                 PROVE  FALSE
    OBVIOUS
  <2>2. Entry(ManifestPath) = [kind |-> "file", data |-> manifest, node |-> 0]
    BY <2>1 DEF Entry
  <2>3. Entry(ManifestPath) # None
    BY <2>1, <2>2, NoneIsNoRecord
  <2>4. QED
    BY <2>3, <1>5 DEF CanInstall, Present
<1>10. ASSUME NEW b \in Artifacts(s.request.package)
       PROVE  SeenAt(b.target)
  BY <1>2, <1>3, <1>5, <1>6 DEF SoundStart
<1>11. QED
  BY <1>7, <1>8, <1>9, <1>10

\* Who changes the plans of initializations, and to what.
LEMMA StartSteps ==
  ASSUME LifecycleNext
  PROVE  \/ UNCHANGED starting
         \/ \E a \in Starters :
              \/ Ends(a)
              \/ \E request : /\ request.package \in StartTemplates
                              /\ CanStart(request.package, request.answers,
                                          request.adapters)
                              /\ starting' = [starting EXCEPT ![a] = StartPlan(request)]
              \/ PlanStartAgain(a)
              \/ Start(a)
              \/ MakeEntry(a)
<1>1. CASE People \/ Upgrade
  BY <1>1 DEF People, Upgrade, setupVars
<1>2. CASE Crash
  BY <1>2 DEF Crash, setupVars, StartCrash
<1>3. ASSUME NEW a, \/ Capture(a) \/ PlanUpgrade(a) \/ ApplyUpgrade(a) \/ Observe(a)
                    \/ PlanTemplate(a) \/ ApplyTemplate(a)
      PROVE  UNCHANGED starting
  BY <1>3 DEF Capture, PlanUpgrade, ApplyUpgrade, Observe, PlanTemplate, ApplyTemplate,
    setupVars
<1>4. ASSUME NEW a \in Starters, NEW package \in StartTemplates, NEW answers, NEW adapters,
             PlanStart(a, [package |-> package, answers |-> answers, adapters |-> adapters])
      PROVE  \E request : /\ request.package \in StartTemplates
                          /\ CanStart(request.package, request.answers,
                                      request.adapters)
                          /\ starting' = [starting EXCEPT ![a] = StartPlan(request)]
  <2>1. PICK request :
          request = [package |-> package, answers |-> answers, adapters |-> adapters]
    OBVIOUS
  <2>2. request.package \in StartTemplates
    BY <2>1
  <2>3. QED
    BY <1>4, <2>1, <2>2 DEF PlanStart
<1>5. ASSUME NEW a \in Starters, Initialize(a)
      PROVE  \/ Ends(a)
             \/ \E request : /\ request.package \in StartTemplates
                             /\ CanStart(request.package, request.answers,
                                         request.adapters)
                             /\ starting' = [starting EXCEPT ![a] = StartPlan(request)]
             \/ PlanStartAgain(a)
             \/ Start(a)
             \/ MakeEntry(a)
  <2>1. CASE \E package \in StartTemplates, answers \in StartAnswers, adapters \in BOOLEAN :
               PlanStart(a, [package |-> package, answers |-> answers, adapters |-> adapters])
    BY <2>1, <1>4
  <2>2. CASE PlanStartAgain(a) \/ Start(a) \/ MakeEntry(a)
    BY <2>2
  <2>3. CASE FinishStart(a)
    BY <2>3 DEF FinishStart
  <2>4. QED
    BY <1>5, <2>1, <2>2, <2>3 DEF Initialize, StartStep
<1>6. QED
  BY <1>1, <1>2, <1>3, <1>5 DEF LifecycleNext

\* A plan stays sound: every step of its own keeps it so, and the tree only
\* sees more.
LEMMA NextKeepsStart ==
  ASSUME TreeInv, StartInv, [LifecycleNext]_lifecycleVars
  PROVE  StartInv'
<1>1. seen \subseteq seen'
  BY SeenGrows
<1>2. DOMAIN starting = Starters
  BY DEF StartInv
<1>3. \A b \in Starters : starting[b] # None => SoundStart(starting[b])
  BY DEF StartInv
<1>4. ASSUME NEW a \in Starters, NEW r, starting' = [starting EXCEPT ![a] = r],
             r # None => SoundStart(r)'
      PROVE  StartInv'
  <2>1. starting' = [b \in Starters |-> starting'[b]]
    BY <1>2, <1>4
  <2>2. ASSUME NEW b \in Starters, starting'[b] # None
        PROVE  SoundStart(starting[b])'
    <3>1. CASE b = a
      <4>1. starting'[b] = r
        BY <3>1, <1>2, <1>4
      <4>2. PICK s : s = starting'[b]
        OBVIOUS
      <4>3. SoundStart(s)'
        BY <4>1, <4>2, <1>4, <2>2
      <4>4. QED
        BY <4>2, <4>3 DEF SoundStart
    <3>2. CASE b # a
      <4>1. PICK s : s = starting[b]
        OBVIOUS
      <4>2. starting'[b] = s
        BY <3>2, <4>1, <1>2, <1>4
      <4>3. SoundStart(s)
        BY <4>1, <4>2, <1>3, <2>2
      <4>4. SoundStart(s)'
        BY <4>3, <1>1, StartStaysSound
      <4>5. QED
        BY <4>2, <4>4 DEF SoundStart
    <3>3. QED
      BY <3>1, <3>2
  <2>3. QED
    BY <2>1, <2>2 DEF StartInv
<1>5. CASE UNCHANGED starting
  <2>1. ASSUME NEW b \in Starters, starting'[b] # None
        PROVE  SoundStart(starting[b])'
    <3>1. PICK s : s = starting[b]
      OBVIOUS
    <3>2. SoundStart(s)'
      BY <3>1, <2>1, <1>1, <1>3, <1>5, StartStaysSound
    <3>3. QED
      BY <3>1, <3>2, <1>5 DEF SoundStart
  <2>2. QED
    BY <2>1, <1>5 DEF StartInv
<1>6. ASSUME NEW a \in Starters, Ends(a)
      PROVE  StartInv'
  BY <1>4, <1>6 DEF Ends
<1>7. ASSUME NEW a \in Starters, NEW request, request.package \in StartTemplates,
             CanStart(request.package, request.answers, request.adapters),
             starting' = [starting EXCEPT ![a] = StartPlan(request)]
      PROVE  StartInv'
  <2>1. PICK s : s = StartPlan(request)
    OBVIOUS
  <2>2. SoundStart(s)
    BY <2>1, <1>7, PlansAreSound
  <2>3. SoundStart(s)'
    BY <2>2, <1>1, StartStaysSound
  <2>4. starting' = [starting EXCEPT ![a] = s]
    BY <2>1, <1>7
  <2>5. QED
    BY <2>3, <2>4, <1>4
<1>8. ASSUME NEW a \in Starters, PlanStartAgain(a)
      PROVE  StartInv'
  <2>1. PICK request : request = starting[a].request
    OBVIOUS
  <2>2. request.package \in StartTemplates
    BY <2>1, <1>3, <1>8 DEF PlanStartAgain, SoundStart
  <2>3. \/ Ends(a)
        \/ /\ CanStart(request.package, request.answers, request.adapters)
           /\ starting' = [starting EXCEPT ![a] = StartPlan(request)]
    BY <2>1, <1>8 DEF PlanStartAgain
  <2>4. QED
    BY <2>2, <2>3, <1>6, <1>7
<1>9. ASSUME NEW a \in Starters, Start(a)
      PROVE  StartInv'
  <2>1. PICK s : s = starting[a]
    OBVIOUS
  <2>2. SoundStart(s)
    BY <2>1, <1>3, <1>9 DEF Start
  <2>3. Ends(a) \/ starting' = [starting EXCEPT ![a] = [s EXCEPT !.left = s.items]]
    BY <2>1, <1>9 DEF Start
  <2>4. PICK r : r = [s EXCEPT !.left = s.items]
    OBVIOUS
  <2>5. r = [request |-> s.request, items |-> s.items, keeps |-> s.keeps,
             found |-> s.found, left |-> s.items]
    <3>1. s = [request |-> s.request, items |-> s.items, keeps |-> s.keeps,
               found |-> s.found, left |-> s.left]
      BY <2>2 DEF SoundStart
    <3>2. QED
      BY <2>4, <3>1
  <2>6. SoundStart(r)
    BY <2>2, <2>5 DEF SoundStart
  <2>7. SoundStart(r)'
    BY <2>6, <1>1, StartStaysSound
  <2>8. QED
    BY <2>3, <2>4, <2>7, <1>4, <1>6
<1>10. ASSUME NEW a \in Starters, MakeEntry(a)
       PROVE  StartInv'
  <2>1. PICK s : s = starting[a]
    OBVIOUS
  <2>2. s # None /\ s.left # None /\ s.left # {}
    BY <2>1, <1>10 DEF MakeEntry, Running
  <2>3. SoundStart(s)
    BY <2>1, <2>2, <1>3
  <2>4. PICK item : item = FirstToMake(s.left)
    OBVIOUS
  <2>5. PICK r : r = [s EXCEPT !.left = s.left \ {item}]
    OBVIOUS
  <2>6. \/ Ends(a)
        \/ /\ starting' = [starting EXCEPT ![a] = r]
           /\ item.path = ManifestPath \/ Install(item)
    BY <2>1, <2>4, <2>5, <1>10 DEF MakeEntry
  <2>7. r = [request |-> s.request, items |-> s.items, keeps |-> s.keeps,
             found |-> s.found, left |-> s.left \ {item}]
    <3>1. s = [request |-> s.request, items |-> s.items, keeps |-> s.keeps,
               found |-> s.found, left |-> s.left]
      BY <2>3 DEF SoundStart
    <3>2. QED
      BY <2>5, <3>1
  <2>8. ASSUME item.path = ManifestPath \/ Install(item)
        PROVE  SoundStart(r)'
    <3>1. SoundStart(s)'
      BY <2>3, <1>1, StartStaysSound
    <3>2. \A i \in r.items \ r.left : i = item \/ i \in s.items \ s.left
      BY <2>7
    <3>3. item.path = ManifestPath \/ SeenAt(item.path)'
      BY <2>8, InstallIsSeen DEF SeenAt
    <3>4. \A i \in r.items \ r.left : i.path = ManifestPath \/ SeenAt(i.path)'
      BY <3>1, <3>2, <3>3, <2>2 DEF SoundStart
    <3>5. QED
      BY <3>1, <3>4, <2>2, <2>7 DEF SoundStart
  <2>9. QED
    BY <2>6, <2>8, <1>4, <1>6
<1>11. CASE UNCHANGED lifecycleVars
  BY <1>5, <1>11 DEF lifecycleVars, setupVars
<1>12. CASE LifecycleNext
  BY <1>12, StartSteps, <1>5, <1>6, <1>7, <1>8, <1>9, <1>10
<1>13. QED
  BY <1>11, <1>12

-----------------------------------------------------------------------------
(* Types.                                                                  *)

\* What is planned anew or from the intent is a plan.
LEMMA PlanTyped ==
  ASSUME TypeInv, CanPlan, ~ PlannedNow.applied
  PROVE  PlannedNow \in UpPlan
<1>1. manifest \in ManifestRecord
  BY DEF TypeInv, CanPlan, AttestsForRecovery, Decodes
<1>2. ~ Ordinary(manifest)
  BY DEF PlannedNow, AppliedPlan
<1>3. CASE upgradeIntent # None
  <2>1. PlannedNow = PlanOf(upgradeIntent)
    BY <1>2, <1>3 DEF PlannedNow
  <2>2. upgradeIntent \in IntentRecord
    BY <1>3 DEF TypeInv
  <2>3. QED
    BY <2>1, <2>2 DEF PlanOf, UpPlan, IntentRecord
<1>4. CASE upgradeIntent = None
  <2>1. PlannedNow = FreshPlan
    BY <1>2, <1>4 DEF PlannedNow
  <2>2. PICK digest : digest = Digest(manifest, IgnoreSnapshot, localHead)
    OBVIOUS
  <2>3. digest \in DigestRecord
    BY <2>2, <1>1 DEF TypeInv, Digest, DigestRecord, IgnoreSnapshot, ManifestRecord
  <2>4. Target(manifest, digest) \in ManifestRecord
    BY <2>3, <1>1 DEF Target, ManifestRecord
  <2>5. FreshPlan = [applied |-> FALSE, digest |-> digest, source |-> manifest,
                     target |-> Target(manifest, digest), policy |-> ignorePolicy]
    BY <2>2 DEF FreshPlan, IgnoreSnapshot
  <2>6. ignorePolicy \in BOOLEAN
    BY DEF TypeInv
  <2>7. QED
    BY <2>1, <2>3, <2>4, <2>5, <2>6, <1>1 DEF UpPlan
<1>5. QED
  BY <1>3, <1>4

\* The variables an upgrade step changes.
UpgradeTypes ==
  /\ manifest \in ManifestRecord \cup {None}
  /\ upgradeIntent \in IntentRecord \cup {None}
  /\ artifact \in ManifestRecord \cup {None}
  /\ up \in UpRecord \cup PreparedRecord \cup {None}
  /\ up # None /\ up.step \in IntentSteps => upgradeIntent # None

\* A step of an apply keeps its agent and its plan.
LEMMA GoToTyped ==
  ASSUME up \in UpRecord \cup PreparedRecord, NEW step \in UpStep \ {"prepare"}, GoTo(step)
  PROVE  /\ up' \in UpRecord \cup PreparedRecord
         /\ up'.step = step /\ up'.agent = up.agent /\ up'.undo = up.undo
<1>1. CASE up \in UpRecord
  BY <1>1 DEF GoTo, UpRecord
<1>2. CASE up \in PreparedRecord
  BY <1>2 DEF GoTo, PreparedRecord
<1>3. QED
  BY <1>1, <1>2

\* And so does turning back.
LEMMA UndoTyped ==
  ASSUME up \in UpRecord \cup PreparedRecord,
         up' = [up EXCEPT !.step = "stage", !.undo = TRUE]
  PROVE  /\ up' \in UpRecord \cup PreparedRecord
         /\ up'.step = "stage" /\ up'.agent = up.agent /\ up'.undo = TRUE
<1>1. CASE up \in UpRecord
  BY <1>1 DEF UpRecord, UpStep
<1>2. CASE up \in PreparedRecord
  BY <1>2 DEF PreparedRecord, UpStep
<1>3. QED
  BY <1>1, <1>2

\* The same manifests change places, and an intent is what was planned.
LEMMA UpgradeStepTyped ==
  ASSUME TypeInv, UpgradeStep
  PROVE  UpgradeTypes'
<1>1. UpgradeTypes
  BY DEF TypeInv, UpgradeTypes
<1>2. up # None => up \in UpRecord \cup PreparedRecord
  BY DEF TypeInv
<1>3. CASE CannotRecover \/ Refuse \/ AlreadyApplied \/ NotExact \/ Retired \/ Unwound
  BY <1>1, <1>3 DEF UpgradeTypes, CannotRecover, Refuse, AlreadyApplied, NotExact, Retired,
    Unwound, End
<1>4. CASE Recover
  <2>1. /\ manifest' = manifest /\ artifact' = None /\ upgradeIntent # None
        /\ up # None
    BY <1>4 DEF Recover, Reclaimed, At
  <2>2. \/ GoTo("revalidate") /\ upgradeIntent' \in {upgradeIntent, None}
        \/ up' = [up EXCEPT !.step = "stage", !.undo = TRUE] /\ upgradeIntent' = upgradeIntent
        \/ up' = None /\ upgradeIntent' = None
    BY <1>4 DEF Recover, End
  <2>3. CASE GoTo("revalidate") /\ upgradeIntent' \in {upgradeIntent, None}
    BY <2>1, <2>3, <1>1, <1>2, GoToTyped DEF UpgradeTypes, UpStep, IntentSteps
  <2>4. CASE up' = [up EXCEPT !.step = "stage", !.undo = TRUE] /\ upgradeIntent' = upgradeIntent
    BY <2>1, <2>4, <1>1, <1>2, UndoTyped DEF UpgradeTypes
  <2>5. CASE up' = None /\ upgradeIntent' = None
    BY <2>1, <2>5, <1>1 DEF UpgradeTypes
  <2>6. QED
    BY <2>2, <2>3, <2>4, <2>5
<1>5. CASE NothingToRecover
  BY <1>1, <1>2, <1>5, GoToTyped DEF NothingToRecover, At, UpStep, IntentSteps, UpgradeTypes,
    rootVars
<1>6. CASE Revalidate
  <2>1. PlannedNow \in UpPlan
    BY <1>6, PlanTyped DEF Revalidate
  <2>2. up.agent \in Upgraders
    BY <1>2, <1>6 DEF Revalidate, At, UpRecord, PreparedRecord
  <2>3. up' \in PreparedRecord /\ up'.step = "prepare"
    BY <2>1, <2>2, <1>6 DEF Revalidate, PreparedRecord, UpStep
  <2>4. QED
    BY <2>3, <1>1, <1>6 DEF Revalidate, UpgradeTypes, rootVars, IntentSteps
<1>7. CASE PrepareIntent
  <2>1. up \in PreparedRecord
    BY <1>2, <1>7 DEF PrepareIntent, At, UpRecord
  <2>2. up.plan \in UpPlan
    BY <2>1 DEF PreparedRecord
  <2>3. upgradeIntent' \in IntentRecord
    BY <2>2, <1>7 DEF PrepareIntent, IntentOf, UpPlan, IntentRecord
  <2>4. upgradeIntent' # None
    BY <2>3, NoneIsNoRecord
  <2>5. up' \in UpRecord \cup PreparedRecord
    BY <2>1, <1>7, GoToTyped DEF PrepareIntent, UpStep
  <2>6. QED
    BY <2>3, <2>4, <2>5, <1>1, <1>7 DEF PrepareIntent, UpgradeTypes
<1>8. CASE Stage
  <2>1. upgradeIntent \in IntentRecord
    BY <1>1, <1>8 DEF UpgradeTypes, Stage, At, IntentSteps
  <2>2. Replacement \in ManifestRecord
    BY <2>1 DEF Replacement, IntentRecord
  <2>3. up' \in UpRecord \cup PreparedRecord
    BY <1>2, <1>8, GoToTyped DEF Stage, At, UpStep
  <2>4. QED
    BY <2>1, <2>2, <2>3, <1>1, <1>8 DEF Stage, UpgradeTypes, rootVars, At, IntentSteps
<1>9. CASE Exchange
  <2>1. upgradeIntent # None
    BY <1>1, <1>9 DEF UpgradeTypes, Exchange, At, IntentSteps
  <2>2. QED
    BY <2>1, <1>1, <1>2, <1>9, GoToTyped DEF Exchange, UpgradeTypes, At, UpStep
<1>10. CASE ExchangeBack
  <2>1. upgradeIntent # None
    BY <1>1, <1>10 DEF UpgradeTypes, ExchangeBack, At, IntentSteps
  <2>2. QED
    BY <2>1, <1>1, <1>2, <1>10, GoToTyped DEF ExchangeBack, UpgradeTypes, At, UpStep
<1>11. CASE CleanBack
  BY <1>1, <1>11 DEF UpgradeTypes, CleanBack, End
<1>12. CASE DropDisplaced
  <2>1. upgradeIntent # None
    BY <1>1, <1>12 DEF UpgradeTypes, DropDisplaced, At, IntentSteps
  <2>2. up # None /\ (GoTo("unwound") \/ GoTo("activated"))
    BY <1>12 DEF DropDisplaced, At
  <2>3. up' \in UpRecord \cup PreparedRecord
    BY <2>2, <1>2, GoToTyped DEF UpStep
  <2>4. QED
    BY <2>1, <2>3, <1>1, <1>12 DEF DropDisplaced, UpgradeTypes, rootVars
<1>13. CASE Validate
  <2>1. upgradeIntent # None
    BY <1>1, <1>13 DEF UpgradeTypes, Validate, At, IntentSteps
  <2>2. up # None /\ (GoTo("acknowledge") \/ up' = [up EXCEPT !.step = "stage", !.undo = TRUE])
    BY <1>13 DEF Validate, At
  <2>3. up' \in UpRecord \cup PreparedRecord
    BY <2>2, <1>2, GoToTyped, UndoTyped DEF UpStep
  <2>4. QED
    BY <2>1, <2>3, <1>1, <1>13 DEF Validate, UpgradeTypes, rootVars
<1>14. CASE Acknowledge
  BY <1>1, <1>2, <1>14, GoToTyped DEF Acknowledge, GoTo, UpgradeTypes, At, UpStep, IntentSteps
<1>15. QED
  BY <1>3, <1>4, <1>5, <1>6, <1>7, <1>8, <1>9, <1>10, <1>11, <1>12, <1>13, <1>14 DEF UpgradeStep

\* The plan of an application keeps its shape.
LEMMA ExpandTyped ==
  ASSUME TypeInv, NEW a \in Expanders, expanding[a] # None, NEW step, NEW plan, NEW left,
         Expand(a, step, plan, left), step \in {"add", "record"}
  PROVE  /\ expanding' = [b \in Expanders |-> expanding'[b]]
         /\ \A b \in Expanders : b # a => expanding'[b] = expanding[b]
         /\ IsExpanding(expanding'[a])
         /\ expanding'[a].step = step /\ expanding'[a].plan = plan
         /\ expanding'[a].left = left
<1>1. PICK r : r = expanding[a]
  OBVIOUS
<1>2. r = [step |-> r.step, plan |-> r.plan, answers |-> r.answers, left |-> r.left]
  BY <1>1 DEF TypeInv, IsExpanding
<1>3. DOMAIN expanding = Expanders
  BY DEF TypeInv
<1>4. expanding' = [expanding EXCEPT ![a].step = step, ![a].plan = plan, ![a].left = left]
  BY DEF Expand
<1>5. DOMAIN expanding' = Expanders /\ expanding' = [b \in Expanders |-> expanding'[b]]
  BY <1>3, <1>4
<1>6. \A b \in Expanders : b # a => expanding'[b] = expanding[b]
  BY <1>3, <1>4
<1>7. PICK n : n = [[[r EXCEPT !.step = step] EXCEPT !.plan = plan] EXCEPT !.left = left]
  OBVIOUS
<1>8. n = [step |-> step, plan |-> plan, answers |-> r.answers, left |-> left]
  BY <1>2, <1>7
<1>9. expanding'[a] = n
  BY <1>1, <1>3, <1>4, <1>7
<1>10. QED
  BY <1>5, <1>6, <1>8, <1>9 DEF IsExpanding

\* What an upgrade is about, and who changes it: an upgrade, a person who edits
\* the manifest, and the initialization that makes it.
manifestVars == <<manifest, manifestEdits, upgradeIntent, artifact, up, recovered>>

\* The steps that change any of them.
LEMMA ManifestSteps ==
  ASSUME LifecycleNext
  PROVE  \/ UNCHANGED manifestVars
         \/ EditManifest /\ UNCHANGED upgradeVars
         \/ UpgradeStep
         \/ \E a \in Upgraders : Apply(a)
         \/ UpgradeCrash
         \/ \E a \in Starters : MakeEntry(a) /\ UNCHANGED upgradeVars
<1>1. CASE People
  BY <1>1 DEF People, manifestVars, upgradeVars, EditIgnorePolicy, PutFolder, ToggleBoundary,
    RenameFolder, EditWorkspace, PeopleArrange, rootVars
<1>2. CASE Crash
  BY <1>2 DEF Crash, manifestVars, upgradeVars, CaptureCrash, ObserveCrash, StartCrash,
    ExpansionCrash, restOfRoot, rootVars
<1>3. CASE Upgrade
  BY <1>3 DEF Upgrade
<1>4. ASSUME NEW a, Capture(a)
      PROVE  UNCHANGED manifestVars
  BY <1>4 DEF Capture, manifestVars, upgradeVars, CapturePlan, CaptureBegin, CaptureEnd
<1>5. ASSUME NEW a \in Upgraders, PlanUpgrade(a) \/ ApplyUpgrade(a)
      PROVE  UNCHANGED manifestVars \/ Apply(a)
  BY <1>5 DEF PlanUpgrade, ApplyUpgrade, Plan, manifestVars, rootVars
<1>6. ASSUME NEW a, Observe(a)
      PROVE  UNCHANGED manifestVars
  BY <1>6 DEF Observe, manifestVars, upgradeVars, ObservePlan, ObserveStep, ObserveBind,
    ObserveLock, ObserveRefused, ObserveChanged, ObserveAnswer, ObserveDecide, PublishEvent,
    EventOccupied, PublishAuthority, PublishHead, rootVars, restOfRoot
<1>7. ASSUME NEW a, Initialize(a)
      PROVE  UNCHANGED manifestVars \/ (MakeEntry(a) /\ UNCHANGED upgradeVars)
  BY <1>7 DEF Initialize, manifestVars, upgradeVars, StartStep, PlanStart, PlanStartAgain,
    Start, FinishStart, rootVars
<1>8. ASSUME NEW a, PlanTemplate(a) \/ ApplyTemplate(a)
      PROVE  UNCHANGED manifestVars
  BY <1>8 DEF PlanTemplate, ApplyTemplate, manifestVars, upgradeVars, PlanExpansion,
    ExpansionStep, BeginExpansion, RefuseExpansion, AddEntry, VerifyExpansion,
    RecordExpansion, rootVars, restOfRoot
<1>9. QED
  BY <1>1, <1>2, <1>3, <1>4, <1>5, <1>6, <1>7, <1>8 DEF LifecycleNext

\* The policy is switched and the head moves by one, or they stay.
LEMMA RestOfRootSteps ==
  ASSUME LifecycleNext
  PROVE  \/ UNCHANGED <<ignorePolicy, localHead>>
         \/ ignorePolicy' = ~ ignorePolicy /\ localHead' = localHead
         \/ ignorePolicy' = ignorePolicy /\ localHead' = localHead + 1
<1>1. CASE People
  BY <1>1 DEF People, EditManifest, EditIgnorePolicy, PutFolder, ToggleBoundary,
    RenameFolder, EditWorkspace, PeopleArrange, rootVars
<1>2. CASE Crash
  BY <1>2 DEF Crash, UpgradeCrash, CaptureCrash, ObserveCrash, StartCrash,
    ExpansionCrash, restOfRoot, rootVars
<1>3. CASE Upgrade
  BY <1>3 DEF Upgrade, UpgradeStep, CannotRecover, Recover, NothingToRecover, Refuse,
    AlreadyApplied, Revalidate, PrepareIntent, Stage, Exchange, ExchangeBack, CleanBack,
    DropDisplaced, NotExact, Validate, Acknowledge, Retired, Unwound, restOfRoot, rootVars
<1>4. ASSUME NEW a, Capture(a)
      PROVE  \/ UNCHANGED <<ignorePolicy, localHead>>
             \/ ignorePolicy' = ignorePolicy /\ localHead' = localHead + 1
  BY <1>4 DEF Capture, CapturePlan, CaptureBegin, CaptureEnd
<1>5. ASSUME NEW a \in Upgraders, PlanUpgrade(a) \/ ApplyUpgrade(a)
      PROVE  UNCHANGED <<ignorePolicy, localHead>>
  BY <1>5 DEF PlanUpgrade, ApplyUpgrade, Plan, Apply, rootVars, restOfRoot
<1>6. ASSUME NEW a, Observe(a)
      PROVE  UNCHANGED <<ignorePolicy, localHead>>
  BY <1>6 DEF Observe, ObservePlan, ObserveStep, ObserveBind,
    ObserveLock, ObserveRefused, ObserveChanged, ObserveAnswer, ObserveDecide, PublishEvent,
    EventOccupied, PublishAuthority, PublishHead, rootVars, restOfRoot
<1>7. ASSUME NEW a, Initialize(a)
      PROVE  UNCHANGED <<ignorePolicy, localHead>>
  BY <1>7 DEF Initialize, StartStep, PlanStart, PlanStartAgain, Start, MakeEntry,
    FinishStart, rootVars, restOfRoot
<1>8. ASSUME NEW a, PlanTemplate(a) \/ ApplyTemplate(a)
      PROVE  UNCHANGED <<ignorePolicy, localHead>>
  BY <1>8 DEF PlanTemplate, ApplyTemplate, PlanExpansion,
    ExpansionStep, BeginExpansion, RefuseExpansion, AddEntry, VerifyExpansion,
    RecordExpansion, rootVars, restOfRoot
<1>9. QED
  BY <1>1, <1>2, <1>3, <1>4, <1>5, <1>6, <1>7, <1>8 DEF LifecycleNext

\* Who changes applications and their records.
LEMMA ExpandSteps ==
  ASSUME LifecycleNext
  PROVE  \/ UNCHANGED expansionVars
         \/ \E a \in Expanders : PlanTemplate(a) \/ ApplyTemplate(a) \/ ExpansionCrash(a)
<1>1. CASE People \/ Upgrade
  BY <1>1 DEF People, Upgrade, setupVars
<1>2. CASE Crash
  BY <1>2 DEF Crash, setupVars
<1>3. ASSUME NEW a, Capture(a) \/ PlanUpgrade(a) \/ ApplyUpgrade(a) \/ Observe(a)
      PROVE  UNCHANGED expansionVars
  BY <1>3 DEF Capture, PlanUpgrade, ApplyUpgrade, Observe, setupVars
<1>4. ASSUME NEW a, Initialize(a)
      PROVE  UNCHANGED expansionVars
  BY <1>4 DEF Initialize
<1>5. QED
  BY <1>1, <1>2, <1>3, <1>4 DEF LifecycleNext

\* The manifest of an initialization names its template's package.
LEMMA FreshManifestTyped ==
  ASSUME NEW package \in StartTemplates
  PROVE  /\ FreshManifest(package) \in ManifestRecord
         /\ FreshManifest(package).text = 0
         /\ FreshManifest(package).profile = "ordinary"
         /\ FreshManifest(package).origin =
              IF package = None THEN None ELSE OriginOf(package)
<1>1. package # None => OriginOf(package) \in OriginRecord
  BY DEF OriginRecord
<1>2. FreshManifest(package).origin = IF package = None THEN None ELSE OriginOf(package)
  BY DEF FreshManifest, OriginOf
<1>3. FreshManifest(package) =
        [profile |-> "ordinary", text |-> 0, receipt |-> None,
         origin |-> FreshManifest(package).origin]
  BY DEF FreshManifest
<1>4. QED
  BY <1>1, <1>2, <1>3 DEF ManifestRecord

\* An edit changes the text, and the profile of what was upgraded.
LEMMA EditedTyped ==
  ASSUME NEW m \in ManifestRecord, NEW text \in Nat
  PROVE  /\ Edited(m, text) \in ManifestRecord
         /\ Edited(m, text).text = text
         /\ Edited(m, text).origin = m.origin
         /\ Native(m) => Native(Edited(m, text))
<1>1. PICK e : e = Edited(m, text)
  OBVIOUS
<1>2. \/ e = [m EXCEPT !.text = text]
      \/ e = [m EXCEPT !.profile = "unbound", !.text = text]
  BY <1>1 DEF Edited
<1>3. \/ e = [profile |-> m.profile, text |-> text, receipt |-> m.receipt,
              origin |-> m.origin]
      \/ e = [profile |-> "unbound", text |-> text, receipt |-> m.receipt,
              origin |-> m.origin]
  BY <1>2 DEF ManifestRecord
<1>4. QED
  BY <1>1, <1>3 DEF ManifestRecord, Native

\* Every step writes records of the kinds they are read as.
LEMMA NextKeepsTypes ==
  ASSUME StartInv, TypeInv, [LifecycleNext]_lifecycleVars
  PROVE  TypeInv'
<1> USE DEF UpgradeTypes
<1>1. UpgradeTypes' /\ manifestEdits' \in Nat
  <2>1. UpgradeTypes /\ manifestEdits \in Nat
    BY DEF TypeInv
  <2>2. CASE UNCHANGED manifestVars
    BY <2>1, <2>2 DEF manifestVars
  <2>3. CASE EditManifest /\ UNCHANGED upgradeVars
    <3>1. manifest \in ManifestRecord /\ manifestEdits + 1 \in Nat
      BY <2>1, <2>3 DEF EditManifest
    <3>2. manifest' \in ManifestRecord
      BY <3>1, <2>3, EditedTyped DEF EditManifest
    <3>3. QED
      BY <3>1, <3>2, <2>1, <2>3 DEF EditManifest, upgradeVars
  <2>4. CASE UpgradeStep
    <3>1. manifestEdits' = manifestEdits
      BY <2>4 DEF UpgradeStep, CannotRecover, Recover, NothingToRecover, Refuse,
        AlreadyApplied, Revalidate, PrepareIntent, Stage, Exchange, ExchangeBack, CleanBack,
        DropDisplaced, NotExact, Validate, Acknowledge, Retired, Unwound, restOfRoot, rootVars
    <3>2. QED
      BY <3>1, <2>1, <2>4, UpgradeStepTyped
  <2>5. ASSUME NEW a \in Upgraders, Apply(a)
        PROVE  UpgradeTypes' /\ manifestEdits' \in Nat
    <3>1. up' \in UpRecord /\ up'.step = "recover"
      BY <2>5 DEF Apply, UpRecord, UpStep
    <3>2. QED
      BY <3>1, <2>1, <2>5 DEF Apply, restOfRoot, IntentSteps
  <2>6. CASE UpgradeCrash
    BY <2>1, <2>6 DEF UpgradeCrash, End, restOfRoot
  <2>7. ASSUME NEW a \in Starters, MakeEntry(a), UNCHANGED upgradeVars
        PROVE  UpgradeTypes' /\ manifestEdits' \in Nat
    <3>1. UNCHANGED <<manifestEdits, upgradeIntent>>
      BY <2>7 DEF MakeEntry, rootVars, restOfRoot
    <3>2. CASE UNCHANGED manifest
      BY <3>1, <3>2, <2>1, <2>7 DEF upgradeVars
    <3>3. CASE ~ UNCHANGED manifest
      BY <3>1, <3>3, <2>1, <2>7, ManifestMade, FreshManifestTyped DEF upgradeVars
    <3>4. QED
      BY <3>2, <3>3
  <2>8. CASE LifecycleNext
    BY <2>2, <2>3, <2>4, <2>5, <2>6, <2>7, <2>8, ManifestSteps
  <2>9. CASE UNCHANGED lifecycleVars
    BY <2>2, <2>9 DEF lifecycleVars, manifestVars, rootVars, upgradeVars
  <2>10. QED
    BY <2>8, <2>9
<1>2. ignorePolicy' \in BOOLEAN /\ localHead' \in Nat
  <2>1. ignorePolicy \in BOOLEAN /\ localHead \in Nat
    BY DEF TypeInv
  <2>2. CASE LifecycleNext
    <3>1. (~ ignorePolicy) \in BOOLEAN
      OBVIOUS
    <3>2. ignorePolicy' \in BOOLEAN
      BY <2>1, <2>2, <3>1, RestOfRootSteps, Zenon
    <3>3. localHead' \in Nat
      BY <2>1, <2>2, RestOfRootSteps
    <3>4. QED
      BY <3>2, <3>3
  <2>3. CASE UNCHANGED lifecycleVars
    BY <2>1, <2>3 DEF lifecycleVars, rootVars
  <2>4. QED
    BY <2>2, <2>3
<1> DEFINE Shaped ==
             /\ expanding = [a \in Expanders |-> expanding[a]]
             /\ \A a \in Expanders : expanding[a] # None => IsExpanding(expanding[a])
<1>3. Shaped /\ DOMAIN expanding = Expanders
  BY DEF TypeInv
<1>4. Shaped'
  <2>1. CASE UNCHANGED expanding
    BY <1>3, <2>1
  <2>2. ASSUME NEW a \in Expanders, NEW r, expanding' = [expanding EXCEPT ![a] = r],
               r # None => IsExpanding(r)
        PROVE  Shaped'
    BY <1>3, <2>2
  <2>3. ASSUME NEW a \in Expanders, expanding' = [expanding EXCEPT ![a] = None]
        PROVE  Shaped'
    BY <2>2, <2>3
  <2>4. ASSUME NEW a \in Expanders, PlanTemplate(a)
        PROVE  Shaped'
    <3>1. PICK package, answers, r :
            /\ r = [step |-> "approved", plan |-> ExpansionPlan(package, answers),
                    answers |-> answers, left |-> {}]
            /\ expanding' = [expanding EXCEPT ![a] = r]
      BY <2>4 DEF PlanTemplate, PlanExpansion
    <3>2. IsExpanding(r)
      BY <3>1 DEF IsExpanding
    <3>3. QED
      BY <3>1, <3>2, <2>2
  <2>5. ASSUME NEW a \in Expanders, expanding[a] # None, NEW step \in {"add", "record"},
               NEW plan, NEW left, Expand(a, step, plan, left)
        PROVE  Shaped'
    <3>1. /\ expanding' = [b \in Expanders |-> expanding'[b]]
          /\ \A b \in Expanders : b # a => expanding'[b] = expanding[b]
          /\ IsExpanding(expanding'[a])
      BY <2>5, ExpandTyped
    <3>2. QED
      BY <3>1, <1>3
  <2>6. ASSUME NEW a \in Expanders, ApplyTemplate(a) \/ ExpansionCrash(a)
        PROVE  Shaped'
    <3>1. CASE BeginExpansion(a)
      BY <3>1, <2>5 DEF BeginExpansion, Expanding
    <3>2. CASE AddEntry(a)
      BY <3>2, <2>3, <2>5 DEF AddEntry, Expanding, Leave
    <3>3. CASE VerifyExpansion(a)
      BY <3>3, <2>3, <2>5 DEF VerifyExpansion, Expanding, Leave
    <3>4. CASE RefuseExpansion(a) \/ RecordExpansion(a) \/ ExpansionCrash(a)
      BY <3>4, <2>3 DEF RefuseExpansion, RecordExpansion, ExpansionCrash, Leave
    <3>5. QED
      BY <2>6, <3>1, <3>2, <3>3, <3>4 DEF ApplyTemplate, ExpansionStep
  <2>7. CASE LifecycleNext
    BY <2>1, <2>4, <2>6, <2>7, ExpandSteps DEF expansionVars
  <2>8. CASE UNCHANGED lifecycleVars
    BY <2>1, <2>8 DEF lifecycleVars, setupVars, expansionVars
  <2>9. QED
    BY <2>7, <2>8
<1>5. QED
  BY <1>1, <1>2, <1>4 DEF TypeInv

-----------------------------------------------------------------------------
(* The lock.                                                               *)

lockVars == <<lock, up, upgradeIntent, observing, expanding>>

\* A step of an upgrade keeps the lock for its agent, or ends and gives it back.
LEMMA UpgradeKeepsLock ==
  ASSUME TypeInv, UpgradeStep
  PROVE  /\ up # None /\ up.agent \in Upgraders
         /\ \/ lock' = lock /\ up'.agent = up.agent
            \/ lock' = None /\ up' = None
<1>1. up # None
  BY DEF UpgradeStep, CannotRecover, Recover, NothingToRecover, Refuse, AlreadyApplied,
    Revalidate, PrepareIntent, Stage, Exchange, ExchangeBack, CleanBack, DropDisplaced,
    NotExact, Validate, Acknowledge, Retired, Unwound, At
<1>2. up \in UpRecord \cup PreparedRecord
  BY <1>1 DEF TypeInv
<1>3. up.agent \in Upgraders
  BY <1>2 DEF UpRecord, PreparedRecord
<1>4. CASE CannotRecover \/ Refuse \/ AlreadyApplied \/ NotExact \/ Retired \/ Unwound
           \/ CleanBack
  BY <1>1, <1>3, <1>4 DEF CannotRecover, Refuse, AlreadyApplied, NotExact, Retired, Unwound,
    CleanBack, End
<1>5. CASE Recover
  <2>1. \/ GoTo("revalidate") /\ lock' = lock
        \/ up' = [up EXCEPT !.step = "stage", !.undo = TRUE] /\ lock' = lock
        \/ up' = None /\ lock' = None
    BY <1>5 DEF Recover, End
  <2>2. QED
    BY <2>1, <1>1, <1>2, <1>3, GoToTyped, UndoTyped DEF UpStep
<1>6. CASE NothingToRecover \/ Stage \/ Exchange \/ ExchangeBack \/ PrepareIntent \/ DropDisplaced
  <2>1. lock' = lock
    BY <1>6 DEF NothingToRecover, Stage, Exchange, ExchangeBack, PrepareIntent, DropDisplaced,
      rootVars
  <2>2. \E step \in UpStep \ {"prepare"} : GoTo(step)
    BY <1>6 DEF NothingToRecover, Stage, Exchange, ExchangeBack, PrepareIntent, DropDisplaced,
      UpStep
  <2>3. QED
    BY <2>1, <2>2, <1>1, <1>2, <1>3, GoToTyped
<1>7. CASE Revalidate
  BY <1>1, <1>3, <1>7 DEF Revalidate, rootVars
<1>8. CASE Validate
  <2>1. GoTo("acknowledge") \/ up' = [up EXCEPT !.step = "stage", !.undo = TRUE]
    BY <1>8 DEF Validate
  <2>2. lock' = lock
    BY <1>8 DEF Validate, rootVars
  <2>3. QED
    BY <2>1, <2>2, <1>1, <1>2, <1>3, GoToTyped, UndoTyped DEF UpStep
<1>9. CASE Acknowledge
  BY <1>1, <1>2, <1>3, <1>9, GoToTyped DEF Acknowledge, GoTo, UpStep
<1>10. QED
  BY <1>4, <1>5, <1>6, <1>7, <1>8, <1>9 DEF UpgradeStep

\* A step of an observation takes the lock when it is free and no upgrade is
\* pending, keeps it, or gives it back.
LEMMA ObserveKeepsLock ==
  ASSUME LockInv, NEW a \in Observers, Observe(a)
  PROVE  /\ up' = up /\ upgradeIntent' = upgradeIntent /\ expanding' = expanding
         /\ \E r : observing' = [observing EXCEPT ![a] = r]
         /\ \/ /\ lock' = lock
               /\ observing'[a] # None => lock = a \/ observing'[a].step \notin ScopeSteps
            \/ lock = None /\ upgradeIntent = None /\ lock' = a
            \/ lock = a /\ lock' = None /\ observing'[a] = None
<1>1. a \in Agents /\ DOMAIN observing = Agents
  BY RolesAssumption DEF LockInv
<1>2. up' = up /\ upgradeIntent' = upgradeIntent /\ expanding' = expanding
  BY DEF Observe, ObservePlan, ObserveStep, ObserveBind, ObserveLock, ObserveRefused,
    ObserveChanged, ObserveAnswer, ObserveDecide, PublishEvent, EventOccupied,
    PublishAuthority, PublishHead, rootVars, restOfRoot, upgradeVars, setupVars, expansionVars
<1>3. \E r : observing' = [observing EXCEPT ![a] = r]
  BY DEF Observe, ObservePlan, ObserveStep, ObserveBind, ObserveLock, ObserveRefused,
    ObserveChanged, ObserveAnswer, ObserveDecide, PublishEvent, EventOccupied,
    PublishAuthority, PublishHead, Advance, Answer, Release
<1>4. ASSUME NEW p, ObservePlan(a, p)
      PROVE  lock' = lock /\ (observing'[a] # None => observing'[a].step \notin ScopeSteps)
  BY <1>1, <1>4 DEF ObservePlan, Advance, rootVars, ScopeSteps
<1>5. CASE ObserveBind(a)
  <2>1. CASE Opens(observing[a].plan.path)
    <3>1. PICK r : r = [step |-> "lock", seen |-> Bound(observing[a].plan)]
      OBVIOUS
    <3>2. observing' = [observing EXCEPT ![a] = r]
      BY <1>5, <2>1, <3>1 DEF ObserveBind, Advance
    <3>3. observing'[a].step = "lock"
      BY <1>1, <3>1, <3>2
    <3>4. QED
      BY <1>2, <1>3, <1>5, <3>3 DEF ObserveBind, rootVars, ScopeSteps
  <2>2. CASE ~ Opens(observing[a].plan.path)
    BY <1>1, <1>2, <1>3, <1>5, <2>2 DEF ObserveBind, Answer, rootVars
  <2>3. QED
    BY <2>1, <2>2
<1>6. CASE ObserveLock(a)
  BY <1>2, <1>3, <1>6 DEF ObserveLock, TakeLock, TakeLockForUpgrade, LockAdmits
<1>7. CASE ObserveRefused(a)
  BY <1>1, <1>2, <1>3, <1>7, RolesAssumption DEF ObserveRefused, Answer, rootVars
<1>8. ASSUME Step(a, "verify") \/ Step(a, "event") \/ Step(a, "authority") \/ Step(a, "head")
      PROVE  lock = a
  BY <1>8 DEF Step, Busy, LockInv, ScopeSteps
<1>9. CASE ObserveChanged(a) \/ ObserveAnswer(a) \/ EventOccupied(a) \/ PublishHead(a)
  BY <1>1, <1>2, <1>3, <1>8, <1>9 DEF ObserveChanged, ObserveAnswer, EventOccupied,
    PublishHead, Release, Answer
<1>10. CASE ObserveDecide(a) \/ PublishEvent(a) \/ PublishAuthority(a)
  BY <1>2, <1>3, <1>8, <1>10 DEF ObserveDecide, PublishEvent, PublishAuthority, rootVars
<1>11. QED
  BY <1>2, <1>3, <1>4, <1>5, <1>6, <1>7, <1>9, <1>10 DEF Observe, ObserveStep

\* The lock passes from agent to agent, and to none while an intent is
\* pending but an upgrade.
LEMMA NextKeepsLocks ==
  ASSUME StartInv, TypeInv, LockInv, [LifecycleNext]_lifecycleVars
  PROVE  LockInv'
<1>1. CASE UNCHANGED lockVars
  BY <1>1 DEF LockInv, lockVars
<1>2. up # None => up.agent \in Upgraders
  BY DEF TypeInv, UpRecord, PreparedRecord
<1>3. DOMAIN observing = Agents /\ DOMAIN expanding = Expanders
  BY DEF LockInv, TypeInv
<1>4. CASE People
  BY <1>1, <1>4 DEF People, lockVars, EditManifest, EditIgnorePolicy, PutFolder, ToggleBoundary,
    RenameFolder, EditWorkspace, PeopleArrange, rootVars, upgradeVars, scopeVars, expansionVars
<1>5. ASSUME NEW a \in Sealers, CaptureCrash(a), UNCHANGED <<upgradeVars, scopeVars, setupVars>>
      PROVE  LockInv'
  BY <1>2, <1>5, RolesAssumption DEF CaptureCrash, LockInv, upgradeVars, scopeVars, setupVars,
    expansionVars
<1>6. CASE UpgradeCrash /\ UNCHANGED <<scopeVars, setupVars>>
  BY <1>2, <1>6, RolesAssumption DEF UpgradeCrash, End, LockInv, scopeVars, setupVars,
    expansionVars
<1>7. ASSUME NEW a \in Observers, ObserveCrash(a), UNCHANGED <<upgradeVars, setupVars>>
      PROVE  LockInv'
  BY <1>2, <1>3, <1>7, RolesAssumption DEF ObserveCrash, Release, Answer, LockInv, upgradeVars,
    setupVars, expansionVars
<1>8. ASSUME NEW a \in Expanders, ExpansionCrash(a), UNCHANGED <<upgradeVars, scopeVars>>
      PROVE  LockInv'
  BY <1>2, <1>3, <1>8, RolesAssumption DEF ExpansionCrash, Leave, LockInv, upgradeVars,
    scopeVars
<1>9. CASE Crash
  <2>1. ASSUME NEW a \in Starters, StartCrash(a), UNCHANGED <<upgradeVars, scopeVars, expansionVars>>
        PROVE  UNCHANGED lockVars
    BY <2>1 DEF StartCrash, lockVars, rootVars, upgradeVars, scopeVars, expansionVars
  <2>2. QED
    BY <2>1, <1>1, <1>5, <1>6, <1>7, <1>8, <1>9 DEF Crash
<1>10. CASE Upgrade
  <2>1. UNCHANGED <<observing, expanding>> /\ UpgradeStep
    BY <1>10 DEF Upgrade, scopeVars, setupVars, expansionVars
  <2>2. /\ up # None /\ up.agent \in Upgraders
        /\ \/ lock' = lock /\ up'.agent = up.agent
           \/ lock' = None /\ up' = None
    BY <2>1, UpgradeKeepsLock
  <2>3. lock = up.agent
    BY <2>2 DEF LockInv
  <2>4. QED
    BY <2>1, <2>2, <2>3, RolesAssumption DEF LockInv
<1>11. ASSUME NEW a \in Sealers, Capture(a)
       PROVE  LockInv'
  <2>1. UNCHANGED <<up, upgradeIntent, observing, expanding>>
    BY <1>11 DEF Capture, CapturePlan, CaptureBegin, CaptureEnd, upgradeVars, scopeVars,
      setupVars, expansionVars
  <2>2. CASE CapturePlan(a)
    BY <2>1, <2>2, <1>1 DEF CapturePlan, lockVars
  <2>3. CASE CaptureBegin(a)
    BY <2>1, <2>3, <1>2, RolesAssumption DEF CaptureBegin, TakeLock, TakeLockForUpgrade,
      LockAdmits, LockInv
  <2>4. CASE CaptureEnd(a)
    BY <2>1, <2>4, <1>2, RolesAssumption DEF CaptureEnd, LockInv
  <2>5. QED
    BY <2>2, <2>3, <2>4, <1>11 DEF Capture
<1>12. ASSUME NEW a \in Upgraders, PlanUpgrade(a)
       PROVE  LockInv'
  BY <1>1, <1>12 DEF PlanUpgrade, Plan, lockVars, rootVars, scopeVars, setupVars, expansionVars
<1>13. ASSUME NEW a \in Upgraders, ApplyUpgrade(a)
       PROVE  LockInv'
  <2>1. UNCHANGED <<upgradeIntent, observing, expanding>> /\ lock = None /\ lock' = a
        /\ up'.agent = a
    BY <1>13 DEF ApplyUpgrade, Apply, TakeLockForUpgrade, scopeVars, setupVars, expansionVars
  <2>2. QED
    BY <2>1, RolesAssumption DEF LockInv
<1>14. ASSUME NEW a \in Observers, Observe(a)
       PROVE  LockInv'
  <2>1. /\ up' = up /\ upgradeIntent' = upgradeIntent /\ expanding' = expanding
        /\ \E r : observing' = [observing EXCEPT ![a] = r]
        /\ \/ /\ lock' = lock
              /\ observing'[a] # None => lock = a \/ observing'[a].step \notin ScopeSteps
           \/ lock = None /\ upgradeIntent = None /\ lock' = a
           \/ lock = a /\ lock' = None /\ observing'[a] = None
    BY <1>14, ObserveKeepsLock
  <2>2. /\ DOMAIN observing' = Agents
        /\ \A b \in Observers : b # a => observing'[b] = observing[b]
    BY <2>1, <1>3, RolesAssumption
  <2>3. up # None => lock \notin Observers
    BY <1>2, RolesAssumption DEF LockInv
  <2>4. upgradeIntent # None => lock \notin Observers
    BY RolesAssumption DEF LockInv
  <2>5. CASE /\ lock' = lock
             /\ observing'[a] # None => lock = a \/ observing'[a].step \notin ScopeSteps
    BY <2>1, <2>2, <2>5 DEF LockInv
  <2>6. CASE lock = None /\ upgradeIntent = None /\ lock' = a
    BY <1>2, <2>1, <2>2, <2>6, RolesAssumption DEF LockInv
  <2>7. CASE lock = a /\ lock' = None /\ observing'[a] = None
    BY <2>1, <2>2, <2>3, <2>7, RolesAssumption DEF LockInv
  <2>8. QED
    BY <2>1, <2>5, <2>6, <2>7
<1>15. ASSUME NEW a, Initialize(a)
       PROVE  LockInv'
  BY <1>1, <1>15 DEF Initialize, StartStep, PlanStart, PlanStartAgain, Start, MakeEntry,
    FinishStart, lockVars, rootVars, upgradeVars, scopeVars, expansionVars
<1>16. ASSUME NEW a \in Expanders, PlanTemplate(a)
       PROVE  LockInv'
  <2>1. PICK package, answers, r :
          /\ r = [step |-> "approved", plan |-> ExpansionPlan(package, answers),
                  answers |-> answers, left |-> {}]
          /\ expanding' = [expanding EXCEPT ![a] = r]
    BY <1>16 DEF PlanTemplate, PlanExpansion
  <2>2. UNCHANGED <<lock, up, upgradeIntent, observing>>
    BY <1>16 DEF PlanTemplate, PlanExpansion, rootVars, upgradeVars, scopeVars
  <2>3. r.step = "approved"
    BY <2>1
  <2>4. QED
    BY <2>1, <2>2, <2>3, <1>3 DEF LockInv
<1>17. ASSUME NEW a \in Expanders, ApplyTemplate(a)
       PROVE  LockInv'
  <2>1. UNCHANGED <<up, upgradeIntent, observing>>
    BY <1>17 DEF ApplyTemplate, ExpansionStep, BeginExpansion, RefuseExpansion, AddEntry,
      VerifyExpansion, RecordExpansion, rootVars, restOfRoot, upgradeVars, scopeVars
  <2>2. ASSUME NEW step \in {"add", "record"}, NEW plan, NEW left, expanding[a] # None,
               Expand(a, step, plan, left),
               \/ lock = a /\ lock' = a
               \/ lock = None /\ lock' = a /\ upgradeIntent = None
        PROVE  LockInv'
    <3>1. \A b \in Expanders : b # a => expanding'[b] = expanding[b]
      BY <2>2, ExpandTyped
    <3>2. QED
      BY <3>1, <2>1, <2>2, <1>2, RolesAssumption DEF LockInv
  <2>3. ASSUME Expanding(a, "add") \/ Expanding(a, "record")
        PROVE  lock = a
    BY <2>3 DEF Expanding, LockInv
  <2>4. ASSUME lock = a, Leave(a)
        PROVE  LockInv'
    BY <2>1, <2>4, <1>2, <1>3, RolesAssumption DEF LockInv, Leave
  <2>5. CASE BeginExpansion(a)
    BY <2>2, <2>5 DEF BeginExpansion, Expanding, TakeLock, TakeLockForUpgrade, LockAdmits
  <2>6. CASE RefuseExpansion(a)
    BY <2>1, <2>6, <1>3 DEF RefuseExpansion, rootVars, LockInv
  <2>7. CASE AddEntry(a)
    BY <2>2, <2>3, <2>4, <2>7 DEF AddEntry, Expanding, rootVars
  <2>8. CASE VerifyExpansion(a)
    BY <2>2, <2>3, <2>4, <2>8 DEF VerifyExpansion, Expanding, rootVars
  <2>9. CASE RecordExpansion(a)
    BY <2>3, <2>4, <2>9 DEF RecordExpansion
  <2>10. QED
    BY <2>5, <2>6, <2>7, <2>8, <2>9, <1>17 DEF ApplyTemplate, ExpansionStep
<1>18. CASE UNCHANGED lifecycleVars
  BY <1>1, <1>18 DEF lifecycleVars, lockVars, rootVars, upgradeVars, scopeVars, setupVars,
    expansionVars
<1>19. CASE LifecycleNext
  BY <1>19, <1>4, <1>9, <1>10, <1>11, <1>12, <1>13, <1>14, <1>15, <1>16, <1>17
    DEF LifecycleNext
<1>20. QED
  BY <1>18, <1>19

\* While an intent is pending no step but an upgrade's takes the lock, and
\* without the lock nobody writes what a plan of an upgrade or an application
\* has read.
LEMMA StepExcludesOthers ==
  ASSUME TypeInv, LockInv, upgradeIntent # None, LifecycleNext
  PROVE  UNCHANGED <<localHead, captureIntent, journalVars, applications>>
<1>1. lock \notin Sealers \cup Observers \cup Expanders
  BY RolesAssumption DEF LockInv
<1>2. CASE People
  BY <1>2 DEF People, EditManifest, EditIgnorePolicy, PutFolder, ToggleBoundary,
    RenameFolder, EditWorkspace, PeopleArrange, rootVars, scopeVars, journalVars, expansionVars
<1>3. CASE Crash
  BY <1>3 DEF Crash, CaptureCrash, UpgradeCrash, ObserveCrash, StartCrash, ExpansionCrash,
    rootVars, restOfRoot, scopeVars, journalVars, setupVars, expansionVars
<1>4. CASE Upgrade
  BY <1>4 DEF Upgrade, UpgradeStep, CannotRecover, Recover, NothingToRecover, Refuse,
    AlreadyApplied, Revalidate, PrepareIntent, Stage, Exchange, ExchangeBack, CleanBack,
    DropDisplaced, NotExact, Validate, Acknowledge, Retired, Unwound, restOfRoot, rootVars,
    scopeVars, journalVars, setupVars, expansionVars
<1>5. ASSUME NEW a \in Sealers, Capture(a)
      PROVE  UNCHANGED <<localHead, captureIntent, journalVars, applications>>
  <2>1. CapturePlan(a)
    BY <1>1, <1>5 DEF Capture, CaptureBegin, CaptureEnd, TakeLock, LockAdmits
  <2>2. QED
    BY <2>1, <1>5 DEF Capture, CapturePlan, scopeVars, journalVars, setupVars, expansionVars
<1>6. ASSUME NEW a \in Upgraders, PlanUpgrade(a) \/ ApplyUpgrade(a)
      PROVE  UNCHANGED <<localHead, captureIntent, journalVars, applications>>
  BY <1>6 DEF PlanUpgrade, ApplyUpgrade, Plan, Apply, restOfRoot, rootVars, scopeVars,
    journalVars, setupVars, expansionVars
<1>7. ASSUME NEW a \in Observers, Observe(a)
      PROVE  UNCHANGED <<localHead, captureIntent, journalVars, applications>>
  <2>1. ~ (Step(a, "event") \/ Step(a, "authority") \/ Step(a, "head"))
    BY <1>1 DEF Step, Busy, LockInv, ScopeSteps
  <2>2. ~ (PublishEvent(a) \/ PublishAuthority(a) \/ PublishHead(a))
    BY <2>1 DEF PublishEvent, PublishAuthority, PublishHead
  <2>3. UNCHANGED <<localHead, captureIntent, journalVars>>
    BY <2>2, <1>7 DEF Observe, ObservePlan, ObserveStep, ObserveBind,
      ObserveLock, ObserveRefused, ObserveChanged, ObserveAnswer, ObserveDecide,
      EventOccupied, rootVars, restOfRoot
  <2>4. QED
    BY <2>3, <1>7 DEF Observe, setupVars, expansionVars
<1>8. ASSUME NEW a, Initialize(a)
      PROVE  UNCHANGED <<localHead, captureIntent, journalVars, applications>>
  BY <1>8 DEF Initialize, StartStep, PlanStart, PlanStartAgain, Start, MakeEntry, FinishStart,
    restOfRoot, rootVars, scopeVars, journalVars, expansionVars
<1>9. ASSUME NEW a \in Expanders, PlanTemplate(a) \/ ApplyTemplate(a)
      PROVE  UNCHANGED <<localHead, captureIntent, journalVars, applications>>
  <2>1. ~ RecordExpansion(a)
    BY <1>1 DEF RecordExpansion, Expanding, LockInv
  <2>2. UNCHANGED <<localHead, captureIntent, applications>>
    BY <2>1, <1>9 DEF PlanTemplate, ApplyTemplate, PlanExpansion, ExpansionStep,
      BeginExpansion, RefuseExpansion, AddEntry, VerifyExpansion, rootVars, restOfRoot
  <2>3. QED
    BY <2>2, <1>9 DEF PlanTemplate, ApplyTemplate, scopeVars, journalVars
<1>10. QED
  BY <1>2, <1>3, <1>4, <1>5, <1>6, <1>7, <1>8, <1>9 DEF LifecycleNext

-----------------------------------------------------------------------------
(* The exchange of manifests.                                              *)

\* An intent stays intact while manifests only change places, whatever else
\* goes.
LEMMA IntactStays ==
  ASSUME NEW plan, Intact(plan), manifestEdits' = manifestEdits,
         manifest' # None, manifest'.origin = manifest.origin,
         {manifest', artifact'} \subseteq
           {manifest, artifact, plan.source, plan.target, None}
  PROVE  Intact(plan)'
BY DEF Intact

\* The parts of what is exchanged when an intent is pending.
LEMMA IntentParts ==
  ASSUME TypeInv, NEW i, i = upgradeIntent, i # None, Intact(i)
  PROVE  /\ i \in IntentRecord /\ i.source \in ManifestRecord /\ i.target \in ManifestRecord
         /\ i.source # None /\ i.target # None
         /\ i.target.text = i.source.text /\ i.target.origin = i.source.origin
         /\ i.source.text <= manifestEdits
         /\ manifest \in ManifestRecord /\ manifest # None
         /\ i.source.origin = manifest.origin
         /\ i.source.text = manifestEdits =>
              {manifest, artifact} \subseteq {i.source, i.target, None}
<1>1. i \in IntentRecord /\ manifest \in ManifestRecord
  BY DEF TypeInv, Intact
<1>2. i.source \in ManifestRecord /\ i.target \in ManifestRecord
  BY <1>1 DEF IntentRecord
<1>3. i.target.text = i.source.text /\ i.target.origin = i.source.origin
  BY DEF Intact, Target
<1>4. QED
  BY <1>1, <1>2, <1>3, NoneIsNoRecord DEF Intact

\* A step that changes the place of the call only, and not to "prepare".
LEMMA OnlyTheCall ==
  ASSUME ExchangeInv, UNCHANGED <<manifest, manifestEdits, upgradeIntent, artifact>>,
         up' # None =>
           /\ up'.step # "prepare"
           /\ up'.step \in {"revalidate", "stage", "activated", "acknowledge",
                            "retired", "unwound"} => artifact = None
           /\ up'.step \in {"exchange", "displaced", "back"} => artifact # None
  PROVE  ExchangeInv'
<1>1. ASSUME upgradeIntent # None
      PROVE  Intact(upgradeIntent)'
  BY <1>1 DEF ExchangeInv, Intact
<1>2. QED
  BY <1>1 DEF ExchangeInv

\* What is planned under the lock is intact, and its own intent.
LEMMA PlannedIsIntact ==
  ASSUME TypeInv, ExchangeInv, CanPlan, ~ PlannedNow.applied, artifact = None
  PROVE  Intact(PlannedNow) /\ upgradeIntent \in {None, IntentOf(PlannedNow)}
<1>1. manifest \in ManifestRecord /\ manifest # None
  BY NoneIsNoRecord DEF TypeInv, CanPlan, AttestsForRecovery, Decodes
<1>2. ~ Ordinary(manifest) /\ manifest.profile = "legacy"
  BY DEF PlannedNow, AppliedPlan, CanPlan, AttestsForRecovery, Decodes
<1>3. CASE upgradeIntent # None
  <2>1. PICK i : i = upgradeIntent
    OBVIOUS
  <2>2. i \in IntentRecord /\ Intact(i)
    BY <2>1, <1>3 DEF TypeInv, ExchangeInv
  <2>3. PlannedNow = PlanOf(i)
    BY <1>2, <1>3, <2>1 DEF PlannedNow
  <2>4. PICK p : p = PlanOf(i)
    OBVIOUS
  <2>5. /\ p.source = i.source /\ p.target = i.target /\ p.digest = i.digest
        /\ p.policy = i.policy
    BY <2>4 DEF PlanOf
  <2>6. Intact(p)
    BY <2>2, <2>5 DEF Intact
  <2>7. IntentOf(p) = i
    BY <2>2, <2>5 DEF IntentOf, IntentRecord
  <2>8. QED
    BY <2>1, <2>3, <2>4, <2>6, <2>7
<1>4. CASE upgradeIntent = None
  <2>1. PlannedNow = FreshPlan
    BY <1>2, <1>4 DEF PlannedNow
  <2>2. PICK p : p = FreshPlan
    OBVIOUS
  <2>3. p.source = manifest /\ p.target = Target(manifest, p.digest)
    BY <2>2 DEF FreshPlan
  <2>4. Intact(p)
    BY <2>3, <1>1, <1>2 DEF Intact, ExchangeInv
  <2>5. QED
    BY <2>1, <2>2, <2>4, <1>4
<1>5. QED
  BY <1>3, <1>4

\* A manifest changes places with another one, or is made, or edited; a step of
\* an upgrade loses none that a user wrote last.
LEMMA UpgradeKeepsManifests ==
  ASSUME TypeInv, ExchangeInv, ManifestsSurvive, UpgradeStep
  PROVE  /\ ExchangeInv' /\ ManifestsSurvive'
         /\ manifestEdits' = manifestEdits
         /\ \/ manifest' = manifest
            \/ manifest # None /\ manifest' # None /\ manifest'.origin = manifest.origin
<1>1. up # None /\ up \in UpRecord \cup PreparedRecord
  BY DEF TypeInv, UpgradeStep, CannotRecover, Recover, NothingToRecover, Refuse,
    AlreadyApplied, Revalidate, PrepareIntent, Stage, Exchange, ExchangeBack, CleanBack,
    DropDisplaced, NotExact, Validate, Acknowledge, Retired, Unwound, At
<1>2. manifestEdits' = manifestEdits
  BY DEF UpgradeStep, CannotRecover, Recover, NothingToRecover, Refuse,
    AlreadyApplied, Revalidate, PrepareIntent, Stage, Exchange, ExchangeBack, CleanBack,
    DropDisplaced, NotExact, Validate, Acknowledge, Retired, Unwound, restOfRoot, rootVars
<1>3. ASSUME UNCHANGED <<manifest, artifact, recovered>>
      PROVE  ManifestsSurvive'
  BY <1>2, <1>3 DEF ManifestsSurvive
<1>4. PICK i : i = upgradeIntent
  OBVIOUS
<1>5. i # None => Intact(i)
  BY <1>4 DEF ExchangeInv
<1>6. ASSUME up.step \in IntentSteps
      PROVE  i # None /\ Intact(i) /\ upgradeIntent' \in {i, None}
  BY <1>1, <1>4, <1>5, <1>6 DEF TypeInv, IntentSteps, UpgradeStep, CannotRecover, Recover,
    NothingToRecover, Refuse, AlreadyApplied, Revalidate, PrepareIntent, Stage, Exchange,
    ExchangeBack, CleanBack, DropDisplaced, NotExact, Validate, Acknowledge, Retired,
    Unwound, restOfRoot, rootVars, At
<1>7. CASE CannotRecover \/ Refuse \/ AlreadyApplied \/ NotExact \/ Retired
  <2>1. up' = None /\ UNCHANGED <<manifest, upgradeIntent, artifact, recovered>>
    BY <1>7 DEF CannotRecover, Refuse, AlreadyApplied, NotExact, Retired, End
  <2>2. QED
    BY <2>1, <1>2, <1>3, OnlyTheCall
<1>8. CASE NothingToRecover
  <2>1. /\ UNCHANGED <<manifest, upgradeIntent, artifact, recovered>>
        /\ upgradeIntent = None /\ GoTo("revalidate")
    BY <1>8 DEF NothingToRecover, rootVars
  <2>2. up'.step = "revalidate"
    BY <2>1, <1>1, GoToTyped DEF UpStep
  <2>3. artifact = None
    BY <2>1 DEF ExchangeInv
  <2>4. QED
    BY <2>1, <2>2, <2>3, <1>2, <1>3, OnlyTheCall
<1>9. CASE Validate
  <2>1. /\ UNCHANGED <<manifest, upgradeIntent, artifact, recovered>>
        /\ GoTo("acknowledge") \/ up' = [up EXCEPT !.step = "stage", !.undo = TRUE]
    BY <1>9 DEF Validate, rootVars
  <2>2. up'.step \in {"acknowledge", "stage"}
    BY <2>1, <1>1, GoToTyped, UndoTyped DEF UpStep
  <2>3. artifact = None
    BY <1>9 DEF ExchangeInv, Validate, At
  <2>4. QED
    BY <2>1, <2>2, <2>3, <1>2, <1>3, OnlyTheCall
<1>10. CASE Recover
  <2>1. /\ manifest' = manifest /\ artifact' = None /\ recovered' = recovered
        /\ i # None /\ Intact(i) /\ manifest \in {i.source, i.target}
        /\ artifact \in {i.source, i.target, None} /\ upgradeIntent' \in {i, None}
    BY <1>4, <1>5, <1>10 DEF Recover, Reclaimed, Sealed
  <2>2. /\ i.source # None /\ i.target # None
        /\ i.target.text = i.source.text /\ manifest # None
    BY <2>1, <1>4, IntentParts
  <2>3. ManifestsSurvive'
    BY <2>1, <2>2, <1>2 DEF ManifestsSurvive
  <2>4. \/ GoTo("revalidate") \/ up' = [up EXCEPT !.step = "stage", !.undo = TRUE]
        \/ up' = None
    BY <1>10 DEF Recover, End
  <2>5. up' # None => up'.step \in {"revalidate", "stage"}
    BY <2>4, <1>1, GoToTyped, UndoTyped DEF UpStep
  <2>6. Intact(i)'
    BY <2>1, <2>2, <1>2, IntactStays
  <2>7. upgradeIntent' # None => Intact(upgradeIntent)'
    BY <2>1, <2>6 DEF Intact
  <2>8. ExchangeInv'
    BY <2>1, <2>2, <2>5, <2>7, <1>2 DEF ExchangeInv
  <2>9. QED
    BY <2>1, <2>3, <2>8, <1>2
<1>11. CASE Revalidate
  <2>1. UNCHANGED <<manifest, upgradeIntent, artifact, recovered>>
    BY <1>11 DEF Revalidate, rootVars
  <2>2. artifact = None
    BY <1>11 DEF ExchangeInv, Revalidate, At
  <2>3. PICK p : p = PlannedNow
    OBVIOUS
  <2>4. Intact(p) /\ upgradeIntent \in {None, IntentOf(p)}
    BY <2>2, <2>3, <1>11, PlannedIsIntact DEF Revalidate
  <2>5. up'.step = "prepare" /\ up'.plan = p
    BY <2>3, <1>11 DEF Revalidate
  <2>6. Intact(p)' /\ (i # None => Intact(i)')
    BY <2>1, <2>4, <1>2, <1>5 DEF Intact
  <2>7. Intact(up.plan)' /\ (upgradeIntent' # None => Intact(upgradeIntent)')
    BY <2>1, <2>5, <2>6, <1>4 DEF Intact
  <2>8. upgradeIntent' \in {None, IntentOf(up.plan)'}
    BY <2>1, <2>4, <2>5 DEF IntentOf
  <2>9. ExchangeInv'
    BY <2>1, <2>2, <2>5, <2>7, <2>8, <1>2 DEF ExchangeInv
  <2>10. QED
    BY <2>1, <2>9, <1>2, <1>3
<1>12. CASE PrepareIntent
  <2>1. PICK p : p = up.plan
    OBVIOUS
  <2>2. /\ UNCHANGED <<manifest, artifact, recovered>>
        /\ upgradeIntent' = IntentOf(p) /\ GoTo("stage") /\ up.step = "prepare"
    BY <2>1, <1>12 DEF PrepareIntent, At
  <2>3. artifact = None /\ Intact(p)
    BY <2>1, <2>2, <1>1 DEF ExchangeInv
  <2>4. up'.step = "stage"
    BY <2>2, <1>1, GoToTyped DEF UpStep
  <2>5. PICK n : n = IntentOf(p)
    OBVIOUS
  <2>6. n.source = p.source /\ n.target = p.target /\ n.digest = p.digest
    BY <2>5 DEF IntentOf
  <2>7. Intact(n)'
    BY <2>2, <2>3, <2>6, <1>2 DEF Intact
  <2>8. Intact(upgradeIntent)'
    BY <2>2, <2>5, <2>7 DEF Intact
  <2>9. ExchangeInv'
    BY <2>2, <2>3, <2>4, <2>8, <1>2 DEF ExchangeInv
  <2>10. QED
    BY <2>2, <2>9, <1>2, <1>3
<1>13. ASSUME up.step \in IntentSteps, NEW m \in {manifest, artifact}, manifest' = m, m # None,
              artifact' \in {manifest, artifact, i.source, i.target, None},
              upgradeIntent' \in {i, None}, artifact' # None => upgradeIntent' # None,
              up' # None =>
                /\ up'.step # "prepare"
                /\ up'.step \in {"revalidate", "stage", "activated", "acknowledge",
                                 "retired", "unwound"} => artifact' = None
                /\ up'.step \in {"exchange", "displaced", "back"} => artifact' # None
       PROVE  ExchangeInv' /\ manifest'.origin = manifest.origin /\ manifest # None
  <2>1. i # None /\ Intact(i)
    BY <1>6, <1>13
  <2>2. /\ i.source # None /\ i.target # None
        /\ i.target.text = i.source.text /\ i.target.origin = i.source.origin
        /\ i.source.text <= manifestEdits
        /\ manifest # None /\ i.source.origin = manifest.origin
    BY <2>1, <1>4, IntentParts
  <2>3. manifest' # None /\ manifest'.origin = manifest.origin /\ manifest'.text <= manifestEdits
    BY <1>13, <2>2 DEF ExchangeInv
  <2>4. artifact' # None => artifact'.text <= manifestEdits /\ artifact'.origin = manifest.origin
    BY <1>13, <2>2 DEF ExchangeInv
  <2>5. {manifest', artifact'} \subseteq {manifest, artifact, i.source, i.target, None}
    BY <1>13
  <2>6. Intact(i)'
    BY <2>1, <2>3, <2>5, <1>2, IntactStays
  <2>7. upgradeIntent' # None => Intact(upgradeIntent)'
    BY <1>13, <2>6 DEF Intact
  <2>8. ExchangeInv'
    BY <1>2, <1>13, <2>3, <2>4, <2>7 DEF ExchangeInv
  <2>9. QED
    BY <2>2, <2>3, <2>8
<1>14. manifest # None \/ i = None
  BY <1>5 DEF Intact
<1>15. CASE Stage
  <2>1. /\ UNCHANGED <<manifest, upgradeIntent, recovered>>
        /\ up.step = "stage" /\ artifact = None /\ artifact' = Replacement
        /\ GoTo("exchange")
    BY <1>15 DEF Stage, At, rootVars
  <2>2. up.step \in IntentSteps /\ i # None /\ Intact(i)
    BY <2>1, <1>6 DEF IntentSteps
  <2>3. up'.step = "exchange"
    BY <2>1, <1>1, GoToTyped DEF UpStep
  <2>4. artifact' \in {i.source, i.target}
    BY <2>1, <1>4 DEF Replacement
  <2>5. artifact' # None
    BY <2>2, <2>4, <1>4, IntentParts
  <2>6. ExchangeInv'
    BY <2>1, <2>2, <2>3, <2>4, <2>5, <1>4, <1>13, <1>14
  <2>7. ManifestsSurvive'
    BY <2>1, <1>2 DEF ManifestsSurvive
  <2>8. QED
    BY <2>1, <2>6, <2>7, <1>2
<1>16. CASE Exchange \/ ExchangeBack
  <2>1. /\ UNCHANGED <<upgradeIntent, recovered>>
        /\ up.step \in {"exchange", "displaced"}
        /\ manifest' = artifact /\ artifact' = manifest
        /\ GoTo("displaced") \/ GoTo("back")
    BY <1>16 DEF Exchange, ExchangeBack, At
  <2>2. up.step \in IntentSteps /\ i # None /\ artifact # None
    BY <2>1, <1>1, <1>6 DEF IntentSteps, ExchangeInv
  <2>3. up'.step \in {"displaced", "back"}
    BY <2>1, <1>1, GoToTyped DEF UpStep
  <2>4. ExchangeInv' /\ manifest'.origin = manifest.origin /\ manifest # None
    BY <2>1, <2>2, <2>3, <1>4, <1>13, <1>14
  <2>5. ManifestsSurvive'
    BY <2>1, <1>2 DEF ManifestsSurvive
  <2>6. QED
    BY <2>1, <2>2, <2>4, <2>5, <1>2
<1>17. CASE CleanBack
  <2>1. /\ UNCHANGED <<manifest, upgradeIntent>>
        /\ up.step = "back" /\ artifact' = None /\ up' = None
        /\ \/ artifact \in {i.source, i.target} /\ recovered' = recovered
           \/ recovered' = recovered \cup {artifact}
    BY <1>4, <1>17 DEF CleanBack, At, End, KeepConcurrent, Replacement
  <2>2. up.step \in IntentSteps /\ i # None /\ Intact(i)
    BY <2>1, <1>6 DEF IntentSteps
  <2>3. /\ i.target.text = i.source.text /\ manifest # None
        /\ i.source.text = manifestEdits =>
              {manifest, artifact} \subseteq {i.source, i.target, None}
    BY <2>2, <1>4, IntentParts
  <2>4. ExchangeInv'
    BY <2>1, <2>2, <2>3, <1>4, <1>13
  <2>5. ManifestsSurvive'
    BY <2>1, <2>3, <1>2 DEF ManifestsSurvive
  <2>6. QED
    BY <2>1, <2>4, <2>5, <1>2
<1>18. CASE DropDisplaced
  <2>1. /\ UNCHANGED <<manifest, upgradeIntent, recovered>>
        /\ up.step = "displaced" /\ artifact' = None
        /\ artifact \in {i.source, i.target}
        /\ GoTo("unwound") \/ GoTo("activated")
    BY <1>4, <1>18 DEF DropDisplaced, At, Expected, rootVars
  <2>2. up.step \in IntentSteps /\ i # None /\ Intact(i)
    BY <2>1, <1>6 DEF IntentSteps
  <2>3. /\ i.target.text = i.source.text /\ manifest # None
        /\ i.source.text = manifestEdits =>
              {manifest, artifact} \subseteq {i.source, i.target, None}
    BY <2>2, <1>4, IntentParts
  <2>4. up'.step \in {"unwound", "activated"}
    BY <2>1, <1>1, GoToTyped DEF UpStep
  <2>5. ExchangeInv'
    BY <2>1, <2>2, <2>3, <2>4, <1>4, <1>13
  <2>6. ManifestsSurvive'
    BY <2>1, <2>3, <1>2 DEF ManifestsSurvive
  <2>7. QED
    BY <2>1, <2>5, <2>6, <1>2
<1>19. CASE Acknowledge \/ Unwound
  <2>1. /\ UNCHANGED <<manifest, artifact, recovered>> /\ upgradeIntent' = None
        /\ up.step \in {"acknowledge", "unwound"}
        /\ up' = None \/ GoTo("retired")
    BY <1>19 DEF Acknowledge, Unwound, At, End, GoTo
  <2>2. up.step \in IntentSteps /\ i # None /\ Intact(i) /\ artifact = None
    BY <2>1, <1>1, <1>6 DEF IntentSteps, ExchangeInv
  <2>3. up' # None => up'.step = "retired"
    BY <2>1, <1>1, GoToTyped DEF UpStep
  <2>4. manifest # None
    BY <2>2, <1>14
  <2>5. ExchangeInv'
    BY <2>1, <2>2, <2>3, <2>4, <1>4, <1>13
  <2>6. QED
    BY <2>1, <2>5, <1>2, <1>3
<1>20. QED
  BY <1>7, <1>8, <1>9, <1>10, <1>11, <1>12, <1>15, <1>16, <1>17, <1>18, <1>19 DEF UpgradeStep

\* A manifest is never lost, it is made once, and its origin was there first.
LEMMA NextKeepsUpgrade ==
  ASSUME TreeInv, StartInv, TypeInv, UpgradeInv, ManifestsSurvive, ExpandInv,
         [LifecycleNext]_lifecycleVars
  PROVE  UpgradeInv' /\ ManifestsSurvive'
<1>1. seen \subseteq seen'
  BY SeenGrows
<1>2. ASSUME UNCHANGED manifestVars
      PROVE  ExchangeInv' /\ ManifestsSurvive' /\ UNCHANGED <<manifest, manifestEdits>>
  <2>1. upgradeIntent # None => Intact(upgradeIntent)'
    BY <1>2 DEF UpgradeInv, ExchangeInv, Intact, manifestVars
  <2>2. up # None /\ up.step = "prepare" =>
          Intact(up.plan)' /\ upgradeIntent \in {None, IntentOf(up.plan)'}
    BY <1>2 DEF UpgradeInv, ExchangeInv, Intact, IntentOf, manifestVars
  <2>3. QED
    BY <2>1, <2>2, <1>2 DEF UpgradeInv, ExchangeInv, ManifestsSurvive, manifestVars
<1>3. ASSUME EditManifest, UNCHANGED upgradeVars
      PROVE  /\ ExchangeInv' /\ ManifestsSurvive'
             /\ manifest # None /\ manifest' # None /\ manifest'.origin = manifest.origin
  <2>1. manifest \in ManifestRecord /\ manifest # None /\ manifestEdits \in Nat
    BY <1>3 DEF TypeInv, EditManifest
  <2>2. PICK m : m = Edited(manifest, manifestEdits + 1)
    OBVIOUS
  <2>3. /\ manifest' = m /\ manifestEdits' = manifestEdits + 1
        /\ upgradeIntent' = upgradeIntent /\ artifact' = artifact /\ up' = up
    BY <1>3, <2>2 DEF EditManifest, upgradeVars
  <2>4. m \in ManifestRecord /\ m.text = manifestEdits + 1 /\ m.origin = manifest.origin
    BY <2>1, <2>2, EditedTyped
  <2>5. m # None
    BY <2>4, NoneIsNoRecord
  <2>6. ASSUME NEW plan, Intact(plan), plan.source.text \in Nat
        PROVE  Intact(plan)'
    BY <2>1, <2>3, <2>4, <2>5, <2>6 DEF Intact
  <2>7. upgradeIntent # None => Intact(upgradeIntent)'
    <3>1. PICK i : i = upgradeIntent
      OBVIOUS
    <3>2. i # None => Intact(i) /\ i.source.text \in Nat
      BY <3>1 DEF UpgradeInv, ExchangeInv, TypeInv, IntentRecord, ManifestRecord
    <3>3. i # None => Intact(i)'
      BY <3>2, <2>6
    <3>4. QED
      BY <3>1, <3>3, <2>3 DEF Intact
  <2>8. up # None /\ up.step = "prepare" =>
          Intact(up.plan)' /\ upgradeIntent \in {None, IntentOf(up.plan)'}
    <3>1. SUFFICES ASSUME up # None, up.step = "prepare"
                   PROVE  Intact(up.plan)' /\ upgradeIntent \in {None, IntentOf(up.plan)'}
      OBVIOUS
    <3>2. PICK p : p = up.plan
      OBVIOUS
    <3>3. up \in PreparedRecord
      BY <3>1 DEF TypeInv, UpRecord
    <3>4. p \in UpPlan
      BY <3>2, <3>3 DEF PreparedRecord
    <3>5. Intact(p) /\ p.source.text \in Nat /\ upgradeIntent \in {None, IntentOf(p)}
      BY <3>1, <3>2, <3>4 DEF UpgradeInv, ExchangeInv, UpPlan, ManifestRecord
    <3>6. Intact(p)'
      BY <3>5, <2>6
    <3>7. QED
      BY <3>2, <3>5, <3>6, <2>3 DEF Intact, IntentOf
  <2>9. artifact # None => artifact.text \in Nat
    BY DEF TypeInv, ManifestRecord
  <2>10. ExchangeInv'
    BY <2>1, <2>3, <2>4, <2>5, <2>7, <2>8, <2>9 DEF UpgradeInv, ExchangeInv
  <2>11. ManifestsSurvive'
    BY <2>3, <2>4, <2>5 DEF ManifestsSurvive
  <2>12. QED
    BY <2>1, <2>3, <2>4, <2>5, <2>10, <2>11
<1>4. ASSUME NEW a \in Starters, MakeEntry(a), UNCHANGED upgradeVars
      PROVE  /\ ExchangeInv' /\ ManifestsSurvive' /\ manifestEdits' = manifestEdits
             /\ manifest' = manifest \/ (manifest' # None /\ OriginWasThere')
  <2>1. UNCHANGED <<manifestEdits, upgradeIntent>>
    BY <1>4 DEF MakeEntry, rootVars, restOfRoot
  <2>2. CASE UNCHANGED manifest
    <3>1. UNCHANGED manifestVars
      BY <2>1, <2>2, <1>4 DEF manifestVars, upgradeVars
    <3>2. QED
      BY <3>1, <2>1, <2>2, <1>2
  <2>3. CASE ~ UNCHANGED manifest
    <3>1. PICK package \in StartTemplates :
            /\ manifest = None \/ manifest \notin ManifestRecord
            /\ manifest' = FreshManifest(package)
            /\ \A b \in Artifacts(package) : SeenAt(b.target)
      BY <2>3, <1>4, ManifestMade
    <3>2. manifest = None
      BY <3>1 DEF TypeInv
    <3>3. upgradeIntent = None /\ artifact = None /\ manifestEdits = 0
          /\ (up # None => up.step # "prepare")
      BY <3>2 DEF UpgradeInv, ExchangeInv, NoManifestYet, Intact
    <3>4. PICK m : m = FreshManifest(package)
      OBVIOUS
    <3>5. /\ m \in ManifestRecord /\ m.text = 0
          /\ m.origin = IF package = None THEN None ELSE OriginOf(package)
      BY <3>4, FreshManifestTyped
    <3>6. ExchangeInv'
      BY <3>1, <3>3, <3>4, <3>5, <2>1, <1>4 DEF UpgradeInv, ExchangeInv, upgradeVars
    <3>7. ManifestsSurvive'
      BY <3>3, <2>1 DEF ManifestsSurvive
    <3>8. m.origin # None => \A b \in m.origin.digest.artifacts : SeenAt(b.target)
      BY <3>1, <3>5 DEF OriginOf, Artifacts
    <3>9. OriginWasThere'
      BY <3>1, <3>4, <3>8, <1>1 DEF OriginWasThere, SeenAt
    <3>10. QED
      BY <2>1, <3>1, <3>4, <3>5, <3>6, <3>7, <3>9, NoneIsNoRecord
  <2>4. QED
    BY <2>2, <2>3
<1> DEFINE Stays == manifest' = manifest
           Moved == manifest # None /\ manifest' # None /\ manifest'.origin = manifest.origin
           Made == manifest' # None /\ OriginWasThere'
<1>5. /\ ExchangeInv' /\ ManifestsSurvive' /\ (Stays \/ Moved \/ Made)
      /\ manifest' = None => manifestEdits' = manifestEdits
  <2>1. ASSUME UpgradeStep
        PROVE  ExchangeInv' /\ ManifestsSurvive' /\ manifestEdits' = manifestEdits
               /\ (Stays \/ Moved)
    BY <2>1, UpgradeKeepsManifests DEF UpgradeInv
  <2>2. ASSUME NEW a \in Upgraders, Apply(a)
        PROVE  ExchangeInv' /\ ManifestsSurvive' /\ manifestEdits' = manifestEdits /\ Stays
    <3>1. /\ UNCHANGED <<manifest, manifestEdits, upgradeIntent, artifact, recovered>>
          /\ up'.step = "recover"
      BY <2>2 DEF Apply, restOfRoot
    <3>2. QED
      BY <3>1, OnlyTheCall DEF UpgradeInv, ManifestsSurvive
  <2>3. ASSUME UpgradeCrash
        PROVE  ExchangeInv' /\ ManifestsSurvive' /\ manifestEdits' = manifestEdits /\ Stays
    <3>1. /\ UNCHANGED <<manifest, manifestEdits, upgradeIntent, artifact, recovered>>
          /\ up' = None
      BY <2>3 DEF UpgradeCrash, End, restOfRoot
    <3>2. QED
      BY <3>1, OnlyTheCall DEF UpgradeInv, ManifestsSurvive
  <2>4. CASE LifecycleNext
    BY <2>1, <2>2, <2>3, <2>4, <1>2, <1>3, <1>4, ManifestSteps
  <2>5. CASE UNCHANGED lifecycleVars
    BY <2>5, <1>2 DEF lifecycleVars, manifestVars, rootVars, upgradeVars
  <2>6. QED
    BY <2>4, <2>5
<1>6. OriginWasThere'
  BY <1>1, <1>5 DEF UpgradeInv, OriginWasThere, SeenAt
<1>7. manifest = None => applications' = applications
  <2>1. \A a \in Expanders : manifest = None => expanding[a] = None
    BY DEF ExpandInv
  <2>2. ASSUME NEW a \in Expanders, ApplyTemplate(a), manifest = None
        PROVE  UNCHANGED applications
    BY <2>1, <2>2 DEF ApplyTemplate, ExpansionStep, BeginExpansion, RefuseExpansion, AddEntry,
      VerifyExpansion, RecordExpansion, Expanding
  <2>3. ASSUME NEW a \in Expanders, PlanTemplate(a) \/ ExpansionCrash(a)
        PROVE  UNCHANGED applications
    BY <2>3 DEF PlanTemplate, PlanExpansion, ExpansionCrash
  <2>4. CASE LifecycleNext
    BY <2>2, <2>3, <2>4, ExpandSteps DEF expansionVars
  <2>5. CASE UNCHANGED lifecycleVars
    BY <2>5 DEF lifecycleVars, setupVars, expansionVars
  <2>6. QED
    BY <2>4, <2>5
<1>8. NoManifestYet'
  BY <1>5, <1>7 DEF UpgradeInv, NoManifestYet
<1>9. QED
  BY <1>5, <1>6, <1>8 DEF UpgradeInv

-----------------------------------------------------------------------------
(* Templates and the records of their applications.                        *)

\* What a plan continues, it continues after an edit of the manifest too.
LEMMA ContinuesStays ==
  ASSUME NEW plan, NEW m, NEW n, NEW records, Continues(plan, m, records),
         n.origin = m.origin, plan.from.source = "unmanaged" /\ Native(m) => Native(n)
  PROVE  Continues(plan, n, records)
BY DEF Continues

\* The versions of an origin are numbers.
LEMMA OriginTyped ==
  ASSUME NEW m \in ManifestRecord, m.origin # None
  PROVE  m.origin.version \in Nat
<1>1. PICK o : o = m.origin
  OBVIOUS
<1>2. o \in OriginRecord
  BY <1>1 DEF ManifestRecord
<1>3. CASE o \in Origins \ {None}
  <2>1. o = OriginOf(o.digest) /\ PackageHolds(o.digest)
    BY <1>3, PackagesAssumption
  <2>2. o.version = o.digest.version
    BY <2>1 DEF OriginOf
  <2>3. QED
    BY <1>1, <2>1, <2>2 DEF PackageHolds
<1>4. CASE \E package \in StartTemplates \ {None} : o = OriginOf(package)
  <2>1. PICK package \in StartTemplates \ {None} : o = OriginOf(package)
    BY <1>4
  <2>2. o.version = package.version /\ PackageHolds(package)
    BY <2>1, PackagesAssumption DEF OriginOf
  <2>3. QED
    BY <1>1, <2>2 DEF PackageHolds
<1>5. QED
  BY <1>2, <1>3, <1>4 DEF OriginRecord

\* The one terminal of a set of records.
LEMMA OnlyTerminal ==
  ASSUME RecordsInv, NEW records \in SUBSET applications,
         Cardinality(Terminals(records)) = 1
  PROVE  \E r \in records : /\ Only(Terminals(records)) = r
                            /\ \A s \in applications : s.from.application # r.number
<1>1. IsFiniteSet(Terminals(records))
  <2>1. Terminals(records) \subseteq applications /\ IsFiniteSet(applications)
    BY DEF Terminals, RecordsInv
  <2>2. QED
    BY <2>1, FS_Subset
<1>2. PICK r : Terminals(records) = {r}
  BY <1>1, FS_Singleton
<1>3. Only(Terminals(records)) = r
  BY <1>2 DEF Only
<1>4. r \in records /\ r.number \notin Followed
  BY <1>2 DEF Terminals
<1>5. QED
  BY <1>3, <1>4 DEF Followed

\* What a template is compared with, by where it comes from.
LEMMA ComparisonIs ==
  ASSUME RecordsInv, manifest \in ManifestRecord, NEW id, NEW c, c = Comparison(id), c # None
  PROVE  /\ c.version \in Nat
         /\ \/ \E r \in applications :
                 /\ c = After(r)
                 /\ \A s \in applications : s.from.application # r.number
            \/ /\ Of(id) = {} /\ manifest.origin # None
               /\ c = [source |-> "origin", id |-> manifest.origin.id,
                       version |-> manifest.origin.version,
                       digest |-> manifest.origin.digest, application |-> None]
            \/ /\ Of(id) = {} /\ manifest.origin = None /\ Native(manifest)
               /\ c = [source |-> "unmanaged", id |-> id, version |-> 0,
                       digest |-> None, application |-> None]
<1>1. ASSUME NEW records \in SUBSET applications, Cardinality(Terminals(records)) = 1,
             c = After(Only(Terminals(records)))
      PROVE  \E r \in applications : /\ c = After(r) /\ c.version \in Nat
                                     /\ \A s \in applications : s.from.application # r.number
  <2>1. PICK r \in records : /\ Only(Terminals(records)) = r
                             /\ \A s \in applications : s.from.application # r.number
    BY <1>1, OnlyTerminal
  <2>2. c = After(r) /\ r.template.version \in Nat
    BY <1>1, <2>1 DEF RecordsInv
  <2>3. c.version \in Nat
    BY <2>2 DEF After
  <2>4. QED
    BY <2>1, <2>2, <2>3
<1>2. CASE Cardinality(Terminals(Of(id))) = 1
  <2>1. Of(id) # {}
    <3>1. SUFFICES ASSUME Of(id) = {}
                   PROVE  FALSE
      OBVIOUS
    <3>2. Terminals(Of(id)) = {}
      BY <3>1 DEF Terminals
    <3>3. QED
      BY <3>2, <1>2, FS_EmptySet
  <2>2. c = After(Only(Terminals(Of(id))))
    BY <1>2, <2>1 DEF Comparison
  <2>3. Of(id) \in SUBSET applications
    BY DEF Of
  <2>4. QED
    BY <2>2, <2>3, <1>1, <1>2
<1>3. CASE Cardinality(Terminals(Of(id))) # 1
  <2>1. Of(id) = {}
    BY <1>3 DEF Comparison
  <2>2. CASE manifest.origin # None
    <3>1. c = [source |-> "origin", id |-> manifest.origin.id,
               version |-> manifest.origin.version,
               digest |-> manifest.origin.digest, application |-> None]
      BY <1>3, <2>1, <2>2 DEF Comparison
    <3>2. c.version \in Nat
      BY <3>1, <2>2, OriginTyped
    <3>3. QED
      BY <2>1, <2>2, <3>1, <3>2
  <2>3. CASE manifest.origin = None /\ applications = {}
    <3>1. /\ Native(manifest)
          /\ c = [source |-> "unmanaged", id |-> id, version |-> 0,
                  digest |-> None, application |-> None]
      BY <1>3, <2>1, <2>3 DEF Comparison
    <3>2. c.version \in Nat
      BY <3>1
    <3>3. QED
      BY <2>1, <2>3, <3>1, <3>2
  <2>4. CASE manifest.origin = None /\ applications # {}
    <3>1. /\ Cardinality(Terminals(applications)) = 1
          /\ c = After(Only(Terminals(applications)))
      BY <1>3, <2>1, <2>4 DEF Comparison
    <3>2. QED
      BY <3>1, <1>1
  <2>5. QED
    BY <2>2, <2>3, <2>4
<1>4. QED
  BY <1>2, <1>3

\* A plan that is not refused continues the lineage, or has nothing to do.
LEMMA PlanIsSound ==
  ASSUME RecordsInv, manifest \in ManifestRecord, NEW package \in Offers, NEW answers,
         CanExpand(package, answers), NEW plan, plan = ExpansionPlan(package, answers)
  PROVE  /\ SoundPlan(plan)
         /\ plan.manifest = manifest /\ plan.history = applications
         /\ \/ plan.structural \/ NoOp(plan) \/ Continues(plan, manifest, applications)
<1>1. PICK c : c = Comparison(package.id)
  OBVIOUS
<1>2. c # None
  BY <1>1 DEF CanExpand
<1>3. /\ plan.template = [id |-> package.id, version |-> package.version, digest |-> package]
      /\ plan.from = c /\ plan.structural = Structural(c, package)
      /\ plan.adds = (IF Lays(c, package) THEN AddedItems(package, answers) ELSE {})
      /\ plan.keeps = (IF Lays(c, package) THEN {Precondition(a.target) : a \in Kept(package)}
                       ELSE {})
      /\ plan.manifest = manifest /\ plan.history = applications
  BY <1>1 DEF ExpansionPlan
<1>4. PackageHolds(package)
  BY PackagesAssumption
<1>5. plan.template.id = package.id /\ plan.template.version = package.version
      /\ plan.template.digest = package
  BY <1>3
<1>6. \A k \in plan.keeps : k.path \in SetupPaths
  BY <1>3, <1>4 DEF Kept, Precondition, PackageHolds
<1>7. /\ c.version \in Nat
      /\ \/ \E r \in applications :
              /\ c = After(r)
              /\ \A s \in applications : s.from.application # r.number
         \/ /\ Of(package.id) = {} /\ manifest.origin # None
            /\ c = [source |-> "origin", id |-> manifest.origin.id,
                    version |-> manifest.origin.version,
                    digest |-> manifest.origin.digest, application |-> None]
         \/ /\ Of(package.id) = {} /\ manifest.origin = None /\ Native(manifest)
            /\ c = [source |-> "unmanaged", id |-> package.id, version |-> 0,
                    digest |-> None, application |-> None]
  BY <1>1, <1>2, ComparisonIs
<1>8. SoundPlan(plan)
  BY <1>3, <1>4, <1>5, <1>6, <1>7 DEF SoundPlan, PackageHolds
<1>9. CASE Same(c, package)
  <2>1. plan.adds = {}
    BY <1>3, <1>9 DEF Lays
  <2>2. Same(plan.from, plan.template)
    BY <1>3, <1>5, <1>9 DEF Same
  <2>3. QED
    BY <2>1, <2>2, <1>3, <1>8 DEF NoOp
<1>10. CASE ~ Same(c, package) /\ ~ Structural(c, package)
  <2>1. c.id = package.id /\ c.version < package.version
    BY <1>4, <1>7, <1>10 DEF Structural, Same, PackageHolds
  <2>2. ASSUME NEW r \in applications, c = After(r),
               \A s \in applications : s.from.application # r.number
        PROVE  Continues(plan, manifest, applications)
    <3>1. /\ c.source = "application" /\ c.application = r.number
          /\ c.id = r.template.id /\ c.version = r.template.version
      BY <2>2 DEF After
    <3>2. QED
      BY <3>1, <2>1, <2>2, <1>3, <1>5 DEF Continues
  <2>3. \A r \in applications : Of(package.id) = {} => r.template.id # package.id
    BY DEF Of
  <2>4. CASE /\ Of(package.id) = {} /\ manifest.origin # None
             /\ c = [source |-> "origin", id |-> manifest.origin.id,
                     version |-> manifest.origin.version,
                     digest |-> manifest.origin.digest, application |-> None]
    <3>1. /\ c.source = "origin" /\ c.application = None
          /\ c.id = manifest.origin.id /\ c.version = manifest.origin.version
      BY <2>4
    <3>2. manifest.origin # None /\ \A r \in applications : r.template.id # package.id
      BY <2>3, <2>4
    <3>3. plan.from = c
      BY <1>3
    <3>4. Continues(plan, manifest, applications)
      BY <3>1, <3>2, <3>3, <2>1, <1>5 DEF Continues
    <3>5. QED
      BY <3>4, <1>3, <1>8
  <2>5. CASE /\ Of(package.id) = {} /\ manifest.origin = None /\ Native(manifest)
             /\ c = [source |-> "unmanaged", id |-> package.id, version |-> 0,
                     digest |-> None, application |-> None]
    <3>1. c.source = "unmanaged" /\ c.application = None /\ c.version = 0
      BY <2>5
    <3>2. /\ manifest.origin = None /\ Native(manifest)
          /\ \A r \in applications : r.template.id # package.id
      BY <2>3, <2>5
    <3>3. plan.from = c
      BY <1>3
    <3>4. Continues(plan, manifest, applications)
      BY <3>1, <3>2, <3>3, <2>1, <1>5 DEF Continues
    <3>5. QED
      BY <3>4, <1>3, <1>8
  <2>6. QED
    BY <2>2, <2>4, <2>5, <1>3, <1>7, <1>8
<1>11. CASE Structural(c, package)
  BY <1>3, <1>8, <1>11
<1>12. QED
  BY <1>9, <1>10, <1>11

\* An application in progress stays sound while its history and the lineage of
\* the manifest stay.
LEMMA ExpansionStaysSound ==
  ASSUME NEW e, SoundExpansion(e), seen \subseteq seen',
         e.step \in {"add", "record"} =>
           /\ applications' = applications
           /\ manifest'.origin = manifest.origin
           /\ Native(manifest) => Native(manifest')
  PROVE  SoundExpansion(e)'
<1>1. SoundPlan(e.plan)'
  BY DEF SoundExpansion, SoundPlan
<1>2. \A i : WasItem(i) => WasItem(i)'
  BY DEF WasItem
<1>3. ASSUME e.step \in {"add", "record"}, Continues(e.plan, manifest, applications)
      PROVE  Continues(e.plan, manifest', applications')
  BY <1>3, ContinuesStays
<1>4. QED
  BY <1>1, <1>2, <1>3 DEF SoundExpansion

\* While an application holds the lock, or one was made without an origin, the
\* manifest changes only as people edit it.
LEMMA LineageStays ==
  ASSUME StartInv, TypeInv, LockInv, UpgradeInv, RecordsInv, [LifecycleNext]_lifecycleVars
  PROVE  /\ applications # {} => manifest # None
         /\ (lock \in Expanders \/ Unmanaged) /\ manifest # None =>
              manifest'.origin = manifest.origin /\ (Native(manifest) => Native(manifest'))
         /\ manifest # None => manifest' # None /\ manifest'.origin = manifest.origin
         /\ Unmanaged => upgradeIntent' = None /\ (up' = None \/ up'.step # "prepare")
<1>1. applications # {} => manifest # None
  BY DEF UpgradeInv, NoManifestYet
<1>2. CASE UNCHANGED manifestVars
  BY <1>1, <1>2 DEF RecordsInv, manifestVars
<1>3. CASE EditManifest /\ UNCHANGED upgradeVars
  <2>1. manifest \in ManifestRecord /\ manifestEdits + 1 \in Nat
    BY <1>3 DEF TypeInv, EditManifest
  <2>2. PICK m : m = Edited(manifest, manifestEdits + 1)
    OBVIOUS
  <2>3. m # None /\ m.origin = manifest.origin /\ (Native(manifest) => Native(m))
    BY <2>1, <2>2, EditedTyped, NoneIsNoRecord
  <2>4. manifest' = m /\ upgradeIntent' = upgradeIntent /\ up' = up
    BY <2>2, <1>3 DEF EditManifest, upgradeVars
  <2>5. QED
    BY <2>3, <2>4, <1>1 DEF RecordsInv
<1>4. CASE UpgradeStep
  <2>1. /\ \/ manifest' = manifest
           \/ manifest # None /\ manifest' # None /\ manifest'.origin = manifest.origin
    <3>1. CASE Exchange \/ ExchangeBack
      BY <1>4, <3>1 DEF TypeInv, UpgradeInv, ExchangeInv, Exchange, ExchangeBack, At
    <3>2. CASE ~ (Exchange \/ ExchangeBack)
      BY <1>4, <3>2 DEF UpgradeStep, CannotRecover, Recover, NothingToRecover, Refuse,
        AlreadyApplied, Revalidate, PrepareIntent, Stage, CleanBack, DropDisplaced,
        NotExact, Validate, Acknowledge, Retired, Unwound, rootVars
    <3>3. QED
      BY <3>1, <3>2
  <2>2. up # None /\ up.agent \in Upgraders
    BY <1>4, UpgradeKeepsLock
  <2>3. lock \notin Expanders
    BY <2>2, RolesAssumption DEF LockInv
  <2>4. ASSUME Unmanaged
        PROVE  manifest' = manifest /\ upgradeIntent' = None
               /\ (up' = None \/ up'.step # "prepare")
    <3>1. Native(manifest) /\ upgradeIntent = None /\ up.step # "prepare"
      BY <2>2, <2>4 DEF RecordsInv
    <3>2. up.step \notin IntentSteps
      BY <2>2, <3>1 DEF TypeInv
    <3>3. NothingToRecover \/ Refuse \/ AlreadyApplied \/ Revalidate \/ Retired
      BY <3>1, <3>2, <1>4 DEF IntentSteps, UpgradeStep, CannotRecover, Recover, PrepareIntent,
        Stage, Exchange, ExchangeBack, CleanBack, DropDisplaced, NotExact, Validate,
        Acknowledge, Unwound, At
    <3>4. ~ Revalidate
      <4>1. SUFFICES ASSUME Revalidate
                     PROVE  FALSE
        OBVIOUS
      <4>2. Ordinary(manifest)
        BY <3>1, <4>1 DEF Revalidate, CanPlan, AttestsForRecovery, Decodes, Native
      <4>3. PlannedNow = AppliedPlan
        BY <4>2 DEF PlannedNow
      <4>4. PlannedNow.applied = TRUE
        BY <4>3 DEF AppliedPlan
      <4>5. QED
        BY <4>1, <4>4 DEF Revalidate
    <3>5. CASE NothingToRecover
      <4>1. GoTo("revalidate") /\ UNCHANGED <<manifest, upgradeIntent>>
        BY <3>5 DEF NothingToRecover, rootVars
      <4>2. up'.step = "revalidate"
        BY <4>1, <2>2, GoToTyped DEF TypeInv, UpStep
      <4>3. QED
        BY <3>1, <4>1, <4>2
    <3>6. CASE Refuse \/ AlreadyApplied \/ Retired
      BY <3>1, <3>6 DEF Refuse, AlreadyApplied, Retired, End
    <3>7. QED
      BY <3>3, <3>4, <3>5, <3>6
  <2>5. QED
    BY <1>1, <2>1, <2>3, <2>4
<1>5. ASSUME NEW a \in Upgraders, Apply(a)
      PROVE  /\ UNCHANGED <<manifest, upgradeIntent>>
             /\ up'.step = "recover"
  BY <1>5 DEF Apply
<1>6. CASE UpgradeCrash
  BY <1>1, <1>6 DEF UpgradeCrash, End, RecordsInv
<1>7. ASSUME NEW a \in Starters, MakeEntry(a), UNCHANGED upgradeVars
      PROVE  UNCHANGED <<upgradeIntent, up>> /\ (manifest # None => manifest' = manifest)
  <2>1. UNCHANGED <<upgradeIntent, up>>
    BY <1>7 DEF MakeEntry, rootVars, upgradeVars
  <2>2. manifest' # manifest => manifest = None \/ manifest \notin ManifestRecord
    BY <1>7, ManifestMade
  <2>3. QED
    BY <2>1, <2>2 DEF TypeInv
<1>8. CASE \E a \in Upgraders : Apply(a)
  BY <1>1, <1>5, <1>8 DEF RecordsInv
<1>9. CASE \E a \in Starters : MakeEntry(a) /\ UNCHANGED upgradeVars
  BY <1>1, <1>7, <1>9 DEF RecordsInv
<1>10. CASE UNCHANGED lifecycleVars
  BY <1>2, <1>10 DEF lifecycleVars, manifestVars, rootVars, upgradeVars
<1>11. QED
  BY <1>2, <1>3, <1>4, <1>6, <1>8, <1>9, <1>10, ManifestSteps

\* What an application has verified to be kept has been there.
LEMMA KeptWasThere ==
  ASSUME TreeInv, NEW plan, SoundPlan(plan), KeptAsPlanned(plan), NEW k \in plan.keeps
  PROVE  WasItem(k)
<1>1. PICK p : p = k.path
  OBVIOUS
<1>2. p \in SetupPaths
  BY <1>1 DEF SoundPlan
<1>3. /\ KindAt(p) # "nested" /\ Present(p)
      /\ k = [path |-> p, kind |-> KindAt(p), data |-> Entry(p).data, node |-> Entry(p).node]
  BY <1>1 DEF KeptAsPlanned, Openable, Precondition
<1>4. CASE p # ManifestPath
  <2>1. Entry(p) = tree[p] /\ tree[p] # None
    BY <1>3, <1>4 DEF Entry, Present
  <2>2. KindAt(p) = tree[p].kind
    BY <1>3, <2>1 DEF KindAt
  <2>3. k.kind = tree[p].kind /\ k.data = tree[p].data
    BY <1>3, <2>1, <2>2
  <2>4. WasThere(p, tree[p])
    BY <2>1, <2>2, <1>2, <1>3, <1>4 DEF TreeInv
  <2>5. QED
    BY <2>3, <2>4, <1>1 DEF WasThere, WasItem
<1>5. QED
  BY <1>1, <1>4 DEF WasItem

\* An application in progress is sound at every step.
LEMMA NextKeepsExpansions ==
  ASSUME TreeInv, StartInv, TypeInv, LockInv, UpgradeInv, ExpandInv, RecordsInv,
         [LifecycleNext]_lifecycleVars
  PROVE  ExpandInv'
<1>1. seen \subseteq seen'
  BY SeenGrows
<1>2. manifest # None => manifest' # None /\ manifest'.origin = manifest.origin
  BY LineageStays
<1>3. lock \in Expanders /\ manifest # None => (Native(manifest) => Native(manifest'))
  BY LineageStays
<1>4. DOMAIN expanding = Expanders
  BY DEF TypeInv
<1>5. ASSUME NEW b \in Expanders, expanding'[b] = expanding[b], expanding[b] # None,
             expanding[b].step \in {"add", "record"} => applications' = applications
      PROVE  manifest' # None /\ SoundExpansion(expanding[b])'
  <2>1. PICK e : e = expanding[b]
    OBVIOUS
  <2>2. manifest # None /\ SoundExpansion(e)
    BY <2>1, <1>5 DEF ExpandInv
  <2>3. e.step \in {"add", "record"} => lock \in Expanders
    BY <2>1, <1>5 DEF LockInv
  <2>4. SoundExpansion(e)'
    BY <2>1, <2>2, <2>3, <1>1, <1>2, <1>3, <1>5, ExpansionStaysSound
  <2>5. expanding'[b] = e
    BY <2>1, <1>5
  <2>6. SoundExpansion(expanding[b])'
    BY <2>4, <2>5 DEF SoundExpansion
  <2>7. QED
    BY <2>2, <2>6, <1>2
<1>6. CASE UNCHANGED expansionVars
  BY <1>5, <1>6 DEF ExpandInv, expansionVars
<1>7. ASSUME NEW a \in Expanders, NEW e, expanding'[a] = e, e # None => SoundExpansion(e)',
             \A b \in Expanders : b # a => expanding'[b] = expanding[b],
             e # None => manifest # None,
             applications' = applications \/ lock = a
      PROVE  ExpandInv'
  <2>1. ASSUME NEW b \in Expanders, expanding'[b] # None
        PROVE  manifest' # None /\ SoundExpansion(expanding[b])'
    <3>1. CASE b = a
      <4>1. expanding'[b] = e /\ SoundExpansion(e)'
        BY <3>1, <1>7, <2>1
      <4>2. SoundExpansion(expanding[b])'
        BY <4>1 DEF SoundExpansion
      <4>3. QED
        BY <4>1, <4>2, <2>1, <1>2, <1>7
    <3>2. CASE b # a
      <4>1. expanding'[b] = expanding[b] /\ expanding[b] # None
        BY <3>2, <1>7, <2>1
      <4>2. expanding[b].step \in {"add", "record"} => applications' = applications
        BY <3>2, <4>1, <1>7 DEF LockInv
      <4>3. QED
        BY <4>1, <4>2, <1>5
    <3>3. QED
      BY <3>1, <3>2
  <2>2. QED
    BY <2>1 DEF ExpandInv
<1>8. ASSUME NEW a \in Expanders, expanding' = [expanding EXCEPT ![a] = None],
             applications' = applications \/ lock = a
      PROVE  ExpandInv'
  <2>1. PICK e : e = expanding'[a]
    OBVIOUS
  <2>2. e = None /\ \A b \in Expanders : b # a => expanding'[b] = expanding[b]
    BY <2>1, <1>4, <1>8
  <2>3. QED
    BY <2>1, <2>2, <1>7, <1>8
<1>9. ASSUME NEW a \in Expanders, PlanTemplate(a)
      PROVE  ExpandInv'
  <2>1. PICK package \in Offers, answers \in Answers : PlanExpansion(a, package, answers)
    BY <1>9 DEF PlanTemplate
  <2>2. PICK plan : plan = ExpansionPlan(package, answers)
    OBVIOUS
  <2>3. PICK e : e = [step |-> "approved", plan |-> plan, answers |-> answers, left |-> {}]
    OBVIOUS
  <2>4. /\ expanding' = [expanding EXCEPT ![a] = e]
        /\ CanExpand(package, answers) /\ applications' = applications
    BY <2>1, <2>2, <2>3 DEF PlanExpansion
  <2>5. manifest \in ManifestRecord /\ manifest # None
    BY <2>4 DEF CanExpand, TypeInv
  <2>6. /\ SoundPlan(plan)
        /\ plan.manifest = manifest /\ plan.history = applications
        /\ plan.structural \/ NoOp(plan) \/ Continues(plan, manifest, applications)
    BY <2>2, <2>4, <2>5, PlanIsSound
  <2>7. e.plan = plan /\ e.step = "approved"
    BY <2>3
  <2>8. SoundPlan(e.plan)'
    BY <2>6, <2>7 DEF SoundPlan
  <2>9. /\ e.plan.structural \/ NoOp(e.plan)
              \/ Continues(e.plan, e.plan.manifest, e.plan.history)
    BY <2>6, <2>7
  <2>10. SoundExpansion(e)'
    BY <2>7, <2>8, <2>9 DEF SoundExpansion
  <2>11. expanding'[a] = e /\ \A b \in Expanders : b # a => expanding'[b] = expanding[b]
    BY <2>4, <1>4
  <2>12. QED
    BY <2>4, <2>5, <2>10, <2>11, <1>7
<1>10. ASSUME NEW a \in Expanders, expanding[a] # None, NEW step \in {"add", "record"},
              NEW plan, NEW left, Expand(a, step, plan, left),
              applications' = applications, manifest' = manifest,
              SoundPlan(plan),
              step = "add" => /\ NoOp(plan) \/ Continues(plan, manifest, applications)
                              /\ \A i \in plan.adds \ left : WasItem(i)',
              step = "record" => /\ Continues(plan, manifest, applications)
                                 /\ \A i \in plan.adds \cup plan.keeps : WasItem(i)
       PROVE  ExpandInv'
  <2>1. PICK e : e = expanding'[a]
    OBVIOUS
  <2>2. /\ \A b \in Expanders : b # a => expanding'[b] = expanding[b]
        /\ e.step = step /\ e.plan = plan /\ e.left = left
    BY <2>1, <1>10, ExpandTyped
  <2>3. manifest # None
    BY <1>10 DEF ExpandInv
  <2>4. SoundPlan(e.plan)'
    BY <2>2, <1>10 DEF SoundPlan
  <2>5. \A i : WasItem(i) => WasItem(i)'
    BY <1>1 DEF WasItem
  <2>6. SoundExpansion(e)'
    BY <2>2, <2>4, <2>5, <1>10 DEF SoundExpansion
  <2>7. QED
    BY <2>1, <2>2, <2>3, <2>6, <1>7, <1>10
<1>11. ASSUME NEW a \in Expanders, BeginExpansion(a)
       PROVE  ExpandInv'
  <2>1. PICK e : e = expanding[a]
    OBVIOUS
  <2>2. /\ e # None /\ e.step = "approved" /\ applications' = applications
        /\ manifest' = manifest
        /\ \/ MayApply(e.plan) /\ Expand(a, "add", e.plan, e.plan.adds)
           \/ /\ AppliesDigest(a)
              /\ Expand(a, "add", ExpansionPlan(e.plan.template.digest, e.answers),
                        ExpansionPlan(e.plan.template.digest, e.answers).adds)
    BY <2>1, <1>11 DEF BeginExpansion, Expanding, AppliesPlan
  <2>3. manifest \in ManifestRecord /\ SoundExpansion(e) /\ SoundPlan(e.plan)
    BY <2>1, <2>2 DEF ExpandInv, TypeInv, SoundExpansion
  <2>4. CASE MayApply(e.plan) /\ Expand(a, "add", e.plan, e.plan.adds)
    <3>1. PICK plan : plan = e.plan
      OBVIOUS
    <3>2. NoOp(plan) \/ Continues(plan, manifest, applications)
      BY <2>2, <2>3, <2>4, <3>1 DEF MayApply, NothingChanged, SoundExpansion
    <3>3. plan.adds \ plan.adds = {}
      OBVIOUS
    <3>4. QED
      BY <2>1, <2>2, <2>3, <2>4, <3>1, <3>2, <3>3, <1>10
  <2>5. CASE /\ AppliesDigest(a)
             /\ Expand(a, "add", ExpansionPlan(e.plan.template.digest, e.answers),
                       ExpansionPlan(e.plan.template.digest, e.answers).adds)
    <3>1. PICK package, answers : package = e.plan.template.digest /\ answers = e.answers
      OBVIOUS
    <3>2. PICK plan : plan = ExpansionPlan(package, answers)
      OBVIOUS
    <3>3. package \in Offers
      BY <2>3, <3>1 DEF SoundPlan
    <3>4. CanExpand(package, answers) /\ MayApply(plan)
      BY <2>1, <2>5, <3>1, <3>2 DEF AppliesDigest
    <3>5. /\ SoundPlan(plan)
          /\ plan.structural \/ NoOp(plan) \/ Continues(plan, manifest, applications)
      BY <2>3, <3>2, <3>3, <3>4, PlanIsSound
    <3>6. NoOp(plan) \/ Continues(plan, manifest, applications)
      BY <3>4, <3>5 DEF MayApply
    <3>7. plan.adds \ plan.adds = {}
      OBVIOUS
    <3>8. Expand(a, "add", plan, plan.adds)
      BY <2>5, <3>1, <3>2
    <3>9. QED
      BY <2>1, <2>2, <3>5, <3>6, <3>7, <3>8, <1>10
  <2>6. QED
    BY <2>2, <2>4, <2>5
<1>12. ASSUME NEW a \in Expanders, AddEntry(a)
       PROVE  ExpandInv'
  <2>1. PICK e : e = expanding[a]
    OBVIOUS
  <2>2. e # None /\ e.step = "add" /\ applications' = applications
    BY <2>1, <1>12 DEF AddEntry, Expanding
  <2>3. PICK item : item = FirstToAdd(e.left)
    OBVIOUS
  <2>4. \/ /\ Install(item) /\ UNCHANGED rootVars
           /\ Expand(a, "add", e.plan, e.left \ {item})
        \/ Leave(a)
    BY <2>1, <2>3, <1>12 DEF AddEntry
  <2>5. CASE Leave(a)
    BY <2>2, <2>5, <1>8 DEF Leave
  <2>6. CASE /\ Install(item) /\ UNCHANGED rootVars
             /\ Expand(a, "add", e.plan, e.left \ {item})
    <3>1. PICK plan, left : plan = e.plan /\ left = e.left
      OBVIOUS
    <3>2. /\ SoundPlan(plan)
          /\ NoOp(plan) \/ Continues(plan, manifest, applications)
          /\ \A i \in plan.adds \ left : WasItem(i)
      BY <2>1, <2>2, <3>1 DEF ExpandInv, SoundExpansion
    <3>3. [path |-> item.path, kind |-> item.kind, data |-> item.data] \in seen'
      BY <2>6 DEF Install, Put
    <3>4. \A i \in plan.adds \ (left \ {item}) : WasItem(i)'
      BY <3>2, <3>3, <1>1 DEF WasItem
    <3>5. manifest' = manifest
      BY <2>6 DEF rootVars
    <3>6. QED
      BY <2>1, <2>2, <2>6, <3>1, <3>2, <3>4, <3>5, <1>10
  <2>7. QED
    BY <2>4, <2>5, <2>6
<1>13. ASSUME NEW a \in Expanders, VerifyExpansion(a)
       PROVE  ExpandInv'
  <2>1. PICK e : e = expanding[a]
    OBVIOUS
  <2>2. /\ e # None /\ e.step = "add" /\ e.left = {} /\ applications' = applications
    BY <2>1, <1>13 DEF VerifyExpansion, Expanding
  <2>3. PICK plan : plan = e.plan
    OBVIOUS
  <2>4. \/ /\ ~ NoOp(plan) /\ KeptAsPlanned(plan) /\ manifest' = manifest
           /\ Expand(a, "record", plan, {})
        \/ Leave(a)
    BY <2>1, <2>3, <1>13 DEF VerifyExpansion, rootVars
  <2>5. CASE Leave(a)
    BY <2>2, <2>5, <1>8 DEF Leave
  <2>6. CASE /\ ~ NoOp(plan) /\ KeptAsPlanned(plan) /\ manifest' = manifest
             /\ Expand(a, "record", plan, {})
    <3>1. /\ SoundPlan(plan)
          /\ NoOp(plan) \/ Continues(plan, manifest, applications)
          /\ \A i \in plan.adds \ e.left : WasItem(i)
      BY <2>1, <2>2, <2>3 DEF ExpandInv, SoundExpansion
    <3>2. \A k \in plan.keeps : WasItem(k)
      BY <3>1, <2>6, KeptWasThere
    <3>3. \A i \in plan.adds \cup plan.keeps : WasItem(i)
      BY <3>1, <3>2, <2>2
    <3>4. QED
      BY <2>1, <2>2, <2>6, <3>1, <3>3, <1>10
  <2>7. QED
    BY <2>4, <2>5, <2>6
<1>14. ASSUME NEW a \in Expanders,
              RefuseExpansion(a) \/ RecordExpansion(a) \/ ExpansionCrash(a)
       PROVE  ExpandInv'
  <2>1. expanding' = [expanding EXCEPT ![a] = None]
    BY <1>14 DEF RefuseExpansion, RecordExpansion, ExpansionCrash, Leave
  <2>2. applications' = applications \/ lock = a
    BY <1>14 DEF RefuseExpansion, RecordExpansion, ExpansionCrash, Expanding, LockInv
  <2>3. QED
    BY <2>1, <2>2, <1>8
<1>15. CASE LifecycleNext
  BY <1>6, <1>9, <1>11, <1>12, <1>13, <1>14, <1>15, ExpandSteps DEF ApplyTemplate, ExpansionStep
<1>16. CASE UNCHANGED lifecycleVars
  BY <1>6, <1>16 DEF lifecycleVars, setupVars
<1>17. QED
  BY <1>15, <1>16

\* The records stay what they are while nothing is recorded.
LEMMA RecordsStay ==
  ASSUME RecordsInv, applications' = applications, seen \subseteq seen',
         applications # {} => manifest'.origin = manifest.origin /\ manifest' # None,
         Unmanaged => /\ Native(manifest')
                      /\ upgradeIntent' = None /\ (up' = None \/ up'.step # "prepare")
  PROVE  RecordsInv'
<1>1. \A i : WasItem(i) => WasItem(i)'
  BY DEF WasItem
<1>2. \A r : RecordHolds(r) => RecordHolds(r)'
  BY DEF RecordHolds
<1>3. ASSUME NEW r \in applications, ExtendsOrigin(r)
      PROVE  ExtendsOrigin(r)'
  <2>1. CASE r.from.source = "unmanaged"
    <3>1. Unmanaged
      BY <2>1 DEF Unmanaged
    <3>2. Native(manifest') /\ manifest'.origin = manifest.origin
      BY <3>1 DEF RecordsInv
    <3>3. manifest.origin = None /\ r.from.version = 0
      BY <1>3, <2>1 DEF ExtendsOrigin
    <3>4. QED
      BY <2>1, <3>2, <3>3 DEF ExtendsOrigin
  <2>2. CASE r.from.source = "origin"
    <3>1. manifest'.origin = manifest.origin
      OBVIOUS
    <3>2. /\ manifest.origin # None /\ r.template.id = manifest.origin.id
          /\ r.from.version = manifest.origin.version
      BY <1>3, <2>2 DEF ExtendsOrigin
    <3>3. QED
      BY <2>2, <3>1, <3>2 DEF ExtendsOrigin
  <2>3. QED
    BY <1>3, <2>1, <2>2 DEF ExtendsOrigin
<1>4. ClockRanBackwards => ClockRanBackwards'
  BY DEF ClockRanBackwards
<1>5. ChainHolds => ChainHolds'
  <2>1. \A id : Of(id)' = Of(id)
    BY DEF Of
  <2>2. \A r, p : Follows(r, p)' = Follows(r, p)
    BY DEF Follows
  <2>3. QED
    BY <2>1, <2>2, <1>3 DEF ChainHolds
<1>6. Unmanaged' => Unmanaged
  BY DEF Unmanaged
<1>7. Unmanaged' => /\ Native(manifest)' /\ upgradeIntent' = None
                    /\ up' = None \/ up'.step # "prepare"
  BY <1>6 DEF Native
<1>8. IsFiniteSet(applications)'
  BY DEF RecordsInv
<1>9. \A r \in applications' :
        /\ r.number \in 1..Cardinality(applications')
        /\ r.at \in Nat /\ r.template.version \in Nat /\ r.from.version \in Nat
        /\ RecordHolds(r)'
        /\ \A i \in r.created \cup r.preserved : WasItem(i)'
  BY <1>1, <1>2 DEF RecordsInv
<1>10. \A r, s \in applications' : r.number = s.number => r = s
  BY DEF RecordsInv
<1>11. (ClockRanBackwards \/ ChainHolds)'
  BY <1>4, <1>5 DEF RecordsInv
<1>12. QED
  BY <1>7, <1>8, <1>9, <1>10, <1>11 DEF RecordsInv

\* A record that continues the lineage leaves one chain, unless the clock says
\* it is older than what it follows.
LEMMA ChainGrows ==
  ASSUME RecordsInv, ChainHolds, NEW r, RecordHolds(r), NEW plan,
         Continues(plan, manifest, applications),
         r.template = plan.template, r.from = plan.from, r.at \in Nat,
         applications' = applications \cup {r}, manifest' = manifest
  PROVE  (ClockRanBackwards \/ ChainHolds)'
<1> USE DEF Follows
<1>1. /\ r.from.version < r.template.version
      /\ \/ /\ r.from.source = "application"
            /\ \E p \in applications :
                 /\ p.number = r.from.application
                 /\ p.template.id = r.template.id
                 /\ p.template.version = r.from.version
                 /\ \A s \in applications : s.from.application # p.number
         \/ /\ r.from.source \in {"origin", "unmanaged"}
            /\ r.from.application = None
            /\ \A s \in applications : s.template.id # r.template.id
            /\ ExtendsOrigin(r)
  BY DEF Continues, ExtendsOrigin
<1>2. \A s : ExtendsOrigin(s) => ExtendsOrigin(s)'
  BY DEF ExtendsOrigin
<1>3. \A s \in applications : s.from.source = "application" => s.from.application # None
  BY DEF RecordsInv, RecordHolds
<1>4. ASSUME NEW s \in applications, s # r
      PROVE  /\ s.from.version < s.template.version
             /\ IF s.from.source = "application"
                THEN /\ \E p \in applications' : Follows(s, p)
                     /\ \A t \in applications' \ {s} :
                          t.from.application # s.from.application
                ELSE /\ ExtendsOrigin(s)'
                     /\ \A t \in Of(s.template.id)' \ {s} : t.from.source = "application"
  <2>1. s.from.version < s.template.version
    BY DEF ChainHolds
  <2>2. CASE s.from.source = "application"
    <3>1. \E p \in applications' : Follows(s, p)
      BY <2>2 DEF ChainHolds
    <3>2. r.from.application # s.from.application
      BY <1>1, <1>3, <2>2
    <3>3. \A t \in applications' \ {s} : t.from.application # s.from.application
      BY <2>2, <3>2 DEF ChainHolds
    <3>4. QED
      BY <2>1, <2>2, <3>1, <3>3
  <2>3. CASE s.from.source # "application"
    <3>1. ExtendsOrigin(s)'
      BY <2>3, <1>2 DEF ChainHolds
    <3>2. r.template.id = s.template.id => r.from.source = "application"
      BY <1>1
    <3>3. \A t \in Of(s.template.id) \ {s} : t.from.source = "application"
      BY <2>3 DEF ChainHolds
    <3>4. \A t \in Of(s.template.id)' \ {s} : t.from.source = "application"
      BY <3>2, <3>3 DEF Of
    <3>5. QED
      BY <2>1, <2>3, <3>1, <3>4
  <2>4. QED
    BY <2>2, <2>3
<1>5. CASE r.from.source = "application"
  <2>1. PICK p \in applications :
          /\ p.number = r.from.application
          /\ p.template.id = r.template.id
          /\ p.template.version = r.from.version
          /\ \A s \in applications : s.from.application # p.number
    BY <1>1, <1>5
  <2>2. CASE p.at > r.at
    <3>1. p \in applications' /\ r \in applications'
      OBVIOUS
    <3>2. ClockRanBackwards'
      BY <2>1, <2>2, <3>1 DEF ClockRanBackwards
    <3>3. QED
      BY <3>2
  <2>3. CASE ~ (p.at > r.at)
    <3>1. p.at <= r.at
      BY <2>3 DEF RecordsInv
    <3>2. \E q \in applications' : Follows(r, q)
      BY <2>1, <3>1
    <3>3. \A s \in applications' \ {r} : s.from.application # r.from.application
      BY <2>1
    <3>4. \A s \in applications' :
            /\ s.from.version < s.template.version
            /\ IF s.from.source = "application"
               THEN /\ \E q \in applications' : Follows(s, q)
                    /\ \A t \in applications' \ {s} :
                         t.from.application # s.from.application
               ELSE /\ ExtendsOrigin(s)'
                    /\ \A t \in Of(s.template.id)' \ {s} : t.from.source = "application"
      BY <1>1, <1>4, <1>5, <3>2, <3>3
    <3>5. QED
      BY <3>4 DEF ChainHolds
  <2>4. QED
    BY <2>2, <2>3
<1>6. CASE r.from.source # "application"
  <2>1. \A s \in applications : s.template.id # r.template.id
    BY <1>1, <1>6
  <2>2. Of(r.template.id)' \ {r} = {}
    BY <2>1 DEF Of
  <2>3. ExtendsOrigin(r)'
    BY <1>1, <1>2, <1>6
  <2>4. \A s \in applications' :
          /\ s.from.version < s.template.version
          /\ IF s.from.source = "application"
             THEN /\ \E q \in applications' : Follows(s, q)
                  /\ \A t \in applications' \ {s} :
                       t.from.application # s.from.application
             ELSE /\ ExtendsOrigin(s)'
                  /\ \A t \in Of(s.template.id)' \ {s} : t.from.source = "application"
    BY <1>1, <1>4, <1>6, <2>2, <2>3
  <2>5. QED
    BY <2>4 DEF ChainHolds
<1>7. QED
  BY <1>5, <1>6

\* What is recorded was there, and continues what was recorded before.
LEMMA NextKeepsRecords ==
  ASSUME TreeInv, StartInv, TypeInv, LockInv, UpgradeInv, ExpandInv, RecordsInv,
         [LifecycleNext]_lifecycleVars
  PROVE  RecordsInv'
<1>1. seen \subseteq seen'
  BY SeenGrows
<1>2. ASSUME UNCHANGED applications
      PROVE  RecordsInv'
  <2>1. applications # {} => manifest'.origin = manifest.origin /\ manifest' # None
    BY LineageStays
  <2>2. Unmanaged => /\ Native(manifest')
                     /\ upgradeIntent' = None /\ (up' = None \/ up'.step # "prepare")
    <3>1. Unmanaged => applications # {} /\ Native(manifest)
      BY DEF Unmanaged, RecordsInv
    <3>2. QED
      BY <3>1, LineageStays
  <2>3. QED
    BY <2>1, <2>2, <1>1, <1>2, RecordsStay
<1>3. ASSUME NEW a \in Expanders, RecordExpansion(a), up' = up
      PROVE  RecordsInv'
  <2>1. PICK plan : plan = expanding[a].plan
    OBVIOUS
  <2>2. /\ expanding[a] # None /\ expanding[a].step = "record"
        /\ UNCHANGED <<manifest, upgradeIntent, seen>>
    BY <1>3 DEF RecordExpansion, Expanding, setupTreeVars
  <2>3. /\ SoundPlan(plan) /\ Continues(plan, manifest, applications)
        /\ \A i \in plan.adds \cup plan.keeps : WasItem(i)
    BY <2>1, <2>2 DEF ExpandInv, SoundExpansion
  <2>4. PICK now, r :
          /\ now \in 1..MaxClock
          /\ r = [number |-> Cardinality(applications) + 1,
                  template |-> plan.template, from |-> plan.from, at |-> now,
                  created |-> plan.adds, preserved |-> plan.keeps]
          /\ applications' = applications \cup {s \in {r} : RecordHolds(s)}
    BY <2>1, <1>3 DEF RecordExpansion
  <2>5. CASE ~ RecordHolds(r)
    <3>1. UNCHANGED applications
      BY <2>4, <2>5
    <3>2. QED
      BY <3>1, <1>2
  <2>6. CASE RecordHolds(r)
    <3>1. applications' = applications \cup {r}
      BY <2>4, <2>6
    <3>2. /\ r.number = Cardinality(applications) + 1
          /\ r.template = plan.template /\ r.from = plan.from /\ r.at = now
          /\ r.created = plan.adds /\ r.preserved = plan.keeps
          /\ now \in Nat
      BY <2>4, BoundsAssumption
    <3>3. /\ IsFiniteSet(applications) /\ Cardinality(applications) \in Nat
          /\ \A s \in applications : s.number \in 1..Cardinality(applications)
      BY FS_CardinalityType DEF RecordsInv
    <3>4. r \notin applications
      BY <3>2, <3>3
    <3>5. /\ IsFiniteSet(applications')
          /\ Cardinality(applications') = Cardinality(applications) + 1
      BY <3>1, <3>3, <3>4, FS_AddElement
    <3>6. PICK K \in Nat : K = Cardinality(applications) /\ Cardinality(applications') = K + 1
      BY <3>3, <3>5
    <3>7. \A i : WasItem(i) => WasItem(i)'
      BY <1>1 DEF WasItem
    <3>8. \A s : RecordHolds(s) => RecordHolds(s)'
      BY DEF RecordHolds
    <3>9. \A s \in applications' :
            /\ s.number \in 1..(K + 1)
            /\ s.at \in Nat /\ s.template.version \in Nat /\ s.from.version \in Nat
            /\ RecordHolds(s)'
            /\ \A i \in s.created \cup s.preserved : WasItem(i)'
      <4>1. ASSUME NEW s \in applications
            PROVE  /\ s.number \in 1..(K + 1)
                   /\ s.at \in Nat /\ s.template.version \in Nat /\ s.from.version \in Nat
                   /\ RecordHolds(s)'
                   /\ \A i \in s.created \cup s.preserved : WasItem(i)'
        BY <3>6, <3>7, <3>8 DEF RecordsInv
      <4>2. /\ r.number \in 1..(K + 1)
            /\ r.at \in Nat /\ r.template.version \in Nat /\ r.from.version \in Nat
        BY <2>3, <3>2, <3>6 DEF SoundPlan
      <4>3. RecordHolds(r)' /\ \A i \in r.created \cup r.preserved : WasItem(i)'
        BY <2>3, <2>6, <3>2, <3>7, <3>8
      <4>4. QED
        BY <4>1, <4>2, <4>3, <3>1
    <3>10. \A s, t \in applications' : s.number = t.number => s = t
      BY <3>1, <3>2, <3>3, <3>6 DEF RecordsInv
    <3>11. lock = a
      BY <2>2 DEF LockInv
    <3>12. up = None /\ upgradeIntent = None
      BY <3>11, RolesAssumption DEF LockInv, TypeInv, UpRecord, PreparedRecord
    <3>13. up' = None
      BY <3>12, <1>3
    <3>14. Unmanaged' => Native(manifest)'
      <4>1. Unmanaged => Native(manifest)
        BY DEF RecordsInv
      <4>2. r.from.source = "unmanaged" => Native(manifest)
        BY <2>3, <3>2 DEF Continues
      <4>3. QED
        BY <4>1, <4>2, <2>2, <3>1 DEF Unmanaged, Native
    <3>15. (ClockRanBackwards \/ ChainHolds)'
      <4>1. ClockRanBackwards => ClockRanBackwards'
        BY <3>1 DEF ClockRanBackwards
      <4>2. ChainHolds => (ClockRanBackwards \/ ChainHolds)'
        BY <2>2, <2>3, <2>6, <3>1, <3>2, ChainGrows
      <4>3. QED
        BY <4>1, <4>2 DEF RecordsInv
    <3>16. upgradeIntent' = None
      BY <2>2, <3>12
    <3>17. QED
      BY <3>5, <3>6, <3>9, <3>10, <3>13, <3>14, <3>15, <3>16 DEF RecordsInv
  <2>7. QED
    BY <2>5, <2>6
<1>4. CASE LifecycleNext
  <2>1. ASSUME NEW a \in Expanders, PlanTemplate(a) \/ ApplyTemplate(a) \/ ExpansionCrash(a)
        PROVE  RecordsInv'
    <3>1. (RecordExpansion(a) /\ up' = up) \/ UNCHANGED applications
      BY <2>1 DEF PlanTemplate, ApplyTemplate, ExpansionCrash, PlanExpansion, ExpansionStep,
        BeginExpansion, RefuseExpansion, AddEntry, VerifyExpansion, upgradeVars
    <3>2. QED
      BY <3>1, <1>2, <1>3
  <2>2. QED
    BY <2>1, <1>2, <1>4, ExpandSteps DEF expansionVars
<1>5. CASE UNCHANGED lifecycleVars
  BY <1>2, <1>5 DEF lifecycleVars, setupVars, expansionVars
<1>6. QED
  BY <1>4, <1>5

-----------------------------------------------------------------------------
(* The evidence about folders.                                             *)

\* Who changes the workspace, the journal and the observations in progress.
journalSteps == <<place, boundaries, edits, events, scopeHead, observing>>

\* The steps that change any of them.
LEMMA ScopeChanges ==
  ASSUME LifecycleNext
  PROVE  \/ UNCHANGED journalSteps
         \/ /\ UNCHANGED <<events, scopeHead, observing>>
            /\ \/ \E p \in Folders : \/ PutFolder(p) \/ ToggleBoundary(p)
                                     \/ \E q \in Folders : RenameFolder(p, q)
               \/ EditWorkspace
         \/ \E a \in Observers : /\ UNCHANGED <<place, boundaries, edits>>
                                 /\ Observe(a) \/ ObserveCrash(a)
<1> USE DEF journalSteps, scopeVars, journalVars, workspaceVars
<1>1. CASE People
  BY <1>1 DEF People, PutFolder, ToggleBoundary, RenameFolder, EditWorkspace
<1>2. CASE Crash
  BY <1>2 DEF Crash, ObserveCrash
<1>3. CASE Upgrade
  BY <1>3 DEF Upgrade
<1>4. ASSUME NEW a, \/ Capture(a) \/ PlanUpgrade(a) \/ ApplyUpgrade(a)
                    \/ Initialize(a) \/ PlanTemplate(a) \/ ApplyTemplate(a)
      PROVE  UNCHANGED journalSteps
  BY <1>4 DEF Capture, PlanUpgrade, ApplyUpgrade, Initialize, PlanTemplate, ApplyTemplate
<1>5. ASSUME NEW a, Observe(a)
      PROVE  UNCHANGED <<place, boundaries, edits>>
  BY <1>5 DEF Observe, ObservePlan, ObserveStep, ObserveBind, ObserveLock, ObserveRefused,
    ObserveChanged, ObserveAnswer, ObserveDecide, PublishEvent, EventOccupied,
    PublishAuthority, PublishHead
<1>6. QED
  BY <1>1, <1>2, <1>3, <1>4, <1>5 DEF LifecycleNext

\* A folder is put, moved or made a boundary where it is one.
LEMMA NextKeepsPlaces ==
  ASSUME PlacesTyped, [LifecycleNext]_lifecycleVars
  PROVE  PlacesTyped'
<1> USE DEF PlacesTyped, Place, Boundaries
<1>1. CASE UNCHANGED <<place, boundaries, edits>>
  BY <1>1
<1>2. ASSUME NEW p \in Folders, PutFolder(p)
      PROVE  PlacesTyped'
  <2>1. PICK i \in Instances : /\ place' = [place EXCEPT ![p] = i]
                               /\ boundaries' = [boundaries EXCEPT ![i] = {}]
    BY <1>2 DEF PutFolder, Fresh
  <2>2. edits' = edits
    BY <1>2 DEF PutFolder
  <2>3. QED
    BY <2>1, <2>2
<1>3. ASSUME NEW p \in Folders, NEW q \in Folders, RenameFolder(p, q)
      PROVE  PlacesTyped'
  BY <1>3 DEF RenameFolder
<1>4. ASSUME NEW p \in Folders, ToggleBoundary(p)
      PROVE  PlacesTyped'
  <2>1. PICK i : i = place[p]
    OBVIOUS
  <2>2. i \in Instances
    BY <2>1, <1>4 DEF ToggleBoundary
  <2>3. boundaries' = [boundaries EXCEPT ![i] = IF boundaries[i] = {} THEN {"nested"} ELSE {}]
    BY <2>1, <1>4 DEF ToggleBoundary
  <2>4. QED
    BY <2>2, <2>3, <1>4 DEF ToggleBoundary
<1>5. CASE EditWorkspace
  BY <1>5 DEF EditWorkspace
<1>6. CASE LifecycleNext
  BY <1>6, <1>1, <1>2, <1>3, <1>4, <1>5, ScopeChanges DEF journalSteps
<1>7. CASE UNCHANGED lifecycleVars
  BY <1>1, <1>7 DEF lifecycleVars, scopeVars
<1>8. QED
  BY <1>6, <1>7

\* An event is not the absent one.
LEMMA EventTyped ==
  ASSUME JournalInv, NEW i \in 1..Len(events)
  PROVE  events[i] \in ScopeEvent /\ events[i] # None
BY NoneIsNoRecord DEF JournalInv

\* What a crash may have left is read with what is committed: the whole journal.
LEMMA WholeJournal ==
  ASSUME JournalInv
  PROVE  /\ Recoverable = {events[i] : i \in 1..Len(events)}
         /\ Committed = {events[i] : i \in 1..scopeHead}
         /\ Nonces = AllNonces
         /\ Orphan = None <=> Len(events) = scopeHead
<1>1. Len(events) \in Nat /\ scopeHead \in Nat /\ Len(events) \in {scopeHead, scopeHead + 1}
  BY DEF JournalInv
<1>2. CASE Len(events) = scopeHead
  <2>1. Orphan = None
    BY <1>1, <1>2 DEF Orphan
  <2>2. QED
    BY <2>1, <1>2 DEF Recoverable, Committed, Nonces, AllNonces
<1>3. CASE Len(events) = scopeHead + 1
  <2>1. Orphan = events[scopeHead + 1] /\ scopeHead + 1 \in 1..Len(events)
    BY <1>1, <1>3 DEF Orphan
  <2>2. Orphan # None
    BY <2>1, EventTyped
  <2>3. 1..Len(events) = (1..scopeHead) \cup {scopeHead + 1}
    BY <1>1, <1>3
  <2>4. Recoverable = {events[i] : i \in 1..Len(events)}
    BY <2>1, <2>2, <2>3 DEF Recoverable, Committed
  <2>5. QED
    BY <2>2, <2>4, <1>1, <1>3 DEF Committed, Nonces, AllNonces
<1>4. QED
  BY <1>1, <1>2, <1>3

\* The nonces are finitely many.
LEMMA NonceCount ==
  ASSUME JournalInv
  PROVE  IsFiniteSet(AllNonces) /\ Cardinality(AllNonces) \in Nat
<1>1. Len(events) \in Nat
  BY DEF JournalInv
<1>2. IsFiniteSet(1..Len(events))
  BY <1>1, FS_Interval
<1>3. IsFiniteSet(AllNonces)
  <2>1. PICK f : f = [i \in 1..Len(events) |-> events[i].nonce]
    OBVIOUS
  <2>2. f \in Surjection(1..Len(events), AllNonces)
    BY <2>1 DEF Surjection, AllNonces
  <2>3. QED
    BY <2>2, <1>2, FS_Surjection
<1>4. QED
  BY <1>3, FS_CardinalityType

\* A new event finds the nonce of its folder, or makes one nobody has.
LEMMA DecisionIsSound ==
  ASSUME JournalInv, NEW seen0 \in SeenRecord, ~ Replaced(seen0), ~ Replayed(seen0),
         NEW e, e = [seen |-> seen0, nonce |-> NonceFor(seen0)]
  PROVE  e \in ScopeEvent /\ Decided(e)
<1>1. PICK K : K = Cardinality(AllNonces)
  OBVIOUS
<1>2. K \in Nat /\ AllNonces = 1..K /\ Nonces = AllNonces
  BY <1>1, NonceCount, WholeJournal DEF JournalInv
<1>3. PICK n : n = NonceFor(seen0)
  OBVIOUS
<1>4. e.seen = seen0 /\ e.nonce = n /\ e = [seen |-> seen0, nonce |-> n]
  BY <1>3
<1>5. SameFolder(seen0) = {f \in {events[i] : i \in 1..Len(events)} :
                             f.seen.folder = seen0.folder}
  BY WholeJournal DEF SameFolder
<1>6. /\ n \in 1..(K + 1)
      /\ \A i \in 1..Len(events) : n = events[i].nonce <=>
                                   seen0.folder = events[i].seen.folder
  <2>1. CASE SameFolder(seen0) # {}
    <3>1. PICK f \in SameFolder(seen0) : n = f.nonce
      BY <2>1, <1>3 DEF NonceFor
    <3>2. PICK j \in 1..Len(events) : f = events[j] /\ f.seen.folder = seen0.folder
      BY <3>1, <1>5
    <3>3. n \in AllNonces
      BY <3>1, <3>2 DEF AllNonces
    <3>4. \A i \in 1..Len(events) : events[i].nonce = events[j].nonce <=>
                                    events[i].seen.folder = events[j].seen.folder
      BY DEF JournalInv, Proves
    <3>5. QED
      BY <3>1, <3>2, <3>3, <3>4, <1>2
  <2>2. CASE SameFolder(seen0) = {}
    <3>1. n = K + 1
      BY <2>2, <1>1, <1>2, <1>3 DEF NonceFor
    <3>2. \A i \in 1..Len(events) : events[i].nonce \in 1..K
      BY <1>2 DEF AllNonces
    <3>3. \A i \in 1..Len(events) : seen0.folder # events[i].seen.folder
      BY <2>2, <1>5
    <3>4. QED
      BY <3>1, <3>2, <3>3, <1>2
  <2>3. QED
    BY <2>1, <2>2
<1>7. \A i \in 1..scopeHead : /\ seen0.plan.path = events[i].seen.plan.path =>
                                   seen0.folder = events[i].seen.folder
                              /\ seen0 # events[i].seen
  BY DEF Replaced, Replayed, SamePath, Committed
<1>8. n \in Nat
  BY <1>2, <1>6
<1>9. e \in ScopeEvent
  BY <1>4, <1>8 DEF ScopeEvent
<1>10. Decided(e)
  BY <1>1, <1>4, <1>6, <1>7 DEF Decided
<1>11. QED
  BY <1>9, <1>10

\* The event decided on, appended to a journal nothing was left in.
LEMMA JournalGrows ==
  ASSUME JournalInv, Len(events) = scopeHead, NEW e \in ScopeEvent, Decided(e),
         events' = Append(events, e), scopeHead' = scopeHead
  PROVE  JournalInv' /\ Len(events') = scopeHead' + 1
<1>1. PICK K : K = Cardinality(AllNonces)
  OBVIOUS
<1>2. K \in Nat /\ AllNonces = 1..K /\ scopeHead \in Nat
  BY <1>1, NonceCount DEF JournalInv
<1>3. PICK n : n = scopeHead + 1
  OBVIOUS
<1>4. n \in Nat /\ events' \in Seq(ScopeEvent) /\ Len(events') = n
  BY <1>2, <1>3 DEF JournalInv
<1>5. events'[n] = e /\ \A i \in 1..scopeHead : events'[i] = events[i]
  BY <1>2, <1>3 DEF JournalInv
<1>6. 1..n = (1..scopeHead) \cup {n}
  BY <1>2, <1>3
<1>7. \A i \in 1..scopeHead :
        /\ e.nonce = events[i].nonce <=> e.seen.folder = events[i].seen.folder
        /\ e.seen.plan.path = events[i].seen.plan.path =>
             e.seen.folder = events[i].seen.folder
        /\ e.seen # events[i].seen
  BY DEF Decided
<1>8. Proves(events')
  <2>1. ASSUME NEW i \in 1..scopeHead, NEW j \in 1..scopeHead
        PROVE  /\ events[i].nonce = events[j].nonce <=>
                    events[i].seen.folder = events[j].seen.folder
               /\ events[i].seen.plan.path = events[j].seen.plan.path =>
                    events[i].seen.folder = events[j].seen.folder
               /\ events[i].seen = events[j].seen => i = j
    BY DEF JournalInv, Proves
  <2>2. QED
    BY <2>1, <1>4, <1>5, <1>6, <1>7 DEF Proves
<1>9. AllNonces' = (1..K) \cup {e.nonce}
  <2>1. AllNonces' = {events'[i].nonce : i \in 1..n}
    BY <1>4 DEF AllNonces
  <2>2. AllNonces' = {events[i].nonce : i \in 1..scopeHead} \cup {e.nonce}
    BY <2>1, <1>5, <1>6
  <2>3. QED
    BY <2>2, <1>2 DEF AllNonces
<1>10. e.nonce \in 1..(K + 1)
  BY <1>1 DEF Decided
<1>11. PICK M \in {K, K + 1} : AllNonces' = 1..M
  <2>1. CASE e.nonce \in 1..K
    BY <2>1, <1>9
  <2>2. CASE e.nonce = K + 1
    BY <2>2, <1>2, <1>9
  <2>3. QED
    BY <2>1, <2>2, <1>2, <1>10
<1>12. Cardinality(1..M) = M
  BY <1>2, <1>11, FS_Interval
<1>13. AllNonces' = 1..Cardinality(AllNonces')
  BY <1>11, <1>12
<1>14. QED
  BY <1>2, <1>3, <1>4, <1>8, <1>13 DEF JournalInv

\* What an observation in progress is, it stays while the journal does.
LEMMA ObservationStays ==
  ASSUME NEW o, SoundObservation(o),
         o.step \in {"event", "authority", "head"} =>
           events' = events /\ scopeHead' = scopeHead
  PROVE  SoundObservation(o)'
<1>1. (o \in ObservingRecord)'
  BY DEF SoundObservation
<1>2. ASSUME o.step \in {"event", "authority", "head"}, Decided(o.event)
      PROVE  Decided(o.event)'
  BY <1>2 DEF Decided, AllNonces
<1>3. QED
  BY <1>1, <1>2 DEF SoundObservation

\* The journal names each folder by one nonce, and observations add to it what
\* they have decided on under the lock.
LEMMA NextKeepsScope ==
  ASSUME TypeInv, LockInv, ScopeInv, [LifecycleNext]_lifecycleVars
  PROVE  ScopeInv'
<1>1. PlacesTyped'
  BY NextKeepsPlaces DEF ScopeInv
<1>2. PlacesTyped /\ JournalInv /\ ObservingInv /\ DOMAIN observing = Agents
  BY DEF ScopeInv, ObservingInv
<1>3. CASE UNCHANGED <<events, scopeHead, observing>>
  <2>1. JournalInv'
    BY <1>2, <1>3 DEF JournalInv, AllNonces
  <2>2. ASSUME NEW b \in Observers, observing[b] # None
        PROVE  SoundObservation(observing[b])'
    <3>1. PICK o : o = observing[b]
      OBVIOUS
    <3>2. SoundObservation(o)'
      BY <3>1, <2>2, <1>2, <1>3, ObservationStays DEF ObservingInv
    <3>3. observing'[b] = o
      BY <3>1, <1>3
    <3>4. QED
      BY <3>2, <3>3 DEF SoundObservation
  <2>3. QED
    BY <2>1, <2>2, <1>1, <1>2, <1>3 DEF ScopeInv, ObservingInv
\* Observer a's own step, to observation o.
<1>4. ASSUME NEW a \in Observers, NEW o, observing' = [observing EXCEPT ![a] = o],
             o # None => SoundObservation(o)', JournalInv',
             lock = a \/ UNCHANGED <<events, scopeHead>>
      PROVE  ScopeInv'
  <2>1. a \in Agents
    BY RolesAssumption
  <2>2. observing' = [b \in Agents |-> observing'[b]]
    BY <1>2, <1>4
  <2>3. \A b \in Agents : observing'[b] = IF b = a THEN o ELSE observing[b]
    BY <1>2, <1>4
  <2>4. ASSUME NEW b \in Observers, observing'[b] # None
        PROVE  SoundObservation(observing[b])'
    <3>1. PICK n : n = observing'[b]
      OBVIOUS
    <3>2. b \in Agents
      BY RolesAssumption
    <3>3. CASE b = a
      BY <3>1, <3>2, <3>3, <2>3, <2>4, <1>4 DEF SoundObservation
    <3>4. CASE b # a
      <4>1. n = observing[b] /\ n # None
        BY <3>1, <3>2, <3>4, <2>3, <2>4
      <4>2. n.step \in {"event", "authority", "head"} => lock = b
        BY <4>1 DEF LockInv, ScopeSteps
      <4>3. SoundObservation(n)
        BY <4>1, <1>2 DEF ObservingInv
      <4>4. SoundObservation(n)'
        BY <4>2, <4>3, <3>4, <1>4, ObservationStays
      <4>5. QED
        BY <3>1, <4>4 DEF SoundObservation
    <3>5. QED
      BY <3>3, <3>4
  <2>5. \A b \in Agents \ Observers : observing'[b] = None
    BY <2>3, <1>2 DEF ObservingInv
  <2>6. ObservingInv'
    BY <2>2, <2>4, <2>5 DEF ObservingInv
  <2>7. QED
    BY <2>6, <1>1, <1>4 DEF ScopeInv
<1>5. ASSUME UNCHANGED <<events, scopeHead>>
      PROVE  JournalInv'
  BY <1>2, <1>5 DEF JournalInv, AllNonces
<1>6. ASSUME NEW a \in Observers, Answer(a), UNCHANGED <<events, scopeHead>>
      PROVE  ScopeInv'
  BY <1>4, <1>5, <1>6 DEF Answer
<1>7. ASSUME NEW a \in Observers, NEW o, Advance(a, o), o \in ObservingRecord,
             o.step \in {"bind", "lock", "verify"}, UNCHANGED <<events, scopeHead>>
      PROVE  ScopeInv'
  <2>1. SoundObservation(o)'
    BY <1>7 DEF SoundObservation
  <2>2. QED
    BY <2>1, <1>4, <1>5, <1>7 DEF Advance
<1>8. ASSUME NEW a \in Observers, NEW p \in Folders, ObservePlan(a, p)
      PROVE  ScopeInv'
  <2>1. PICK plan : plan = Planned(p)
    OBVIOUS
  <2>2. manifest \in ManifestRecord /\ localHead \in Nat
    BY <1>8 DEF ObservePlan, Attests, Decodes, TypeInv
  <2>3. Inventory \in Place \X Boundaries \X Nat \X BOOLEAN
    BY <1>2 DEF PlacesTyped, Inventory, TypeInv
  <2>4. plan \in PlannedRecord
    BY <2>1, <2>2, <2>3 DEF Planned, PlannedRecord
  <2>5. PICK o : o = [step |-> "bind", plan |-> plan]
    OBVIOUS
  <2>6. o \in ObservingRecord /\ o.step = "bind"
    BY <2>4, <2>5 DEF ObservingRecord
  <2>7. Advance(a, o) /\ UNCHANGED <<events, scopeHead>>
    BY <2>1, <2>5, <1>8 DEF ObservePlan, journalVars
  <2>8. QED
    BY <2>6, <2>7, <1>7
<1>9. ASSUME NEW a \in Observers, NEW o, o = observing[a], o # None
      PROVE  /\ SoundObservation(o) /\ o \in ObservingRecord
             /\ o.step = "bind" => o.plan \in PlannedRecord
             /\ o.step \in {"lock", "verify"} =>
                  o.seen \in SeenRecord /\ o = [step |-> o.step, seen |-> o.seen]
             /\ o.step \in {"event", "authority", "head"} =>
                  o.event \in ScopeEvent /\ o = [step |-> o.step, event |-> o.event]
  <2>1. SoundObservation(o) /\ o \in ObservingRecord
    BY <1>2, <1>9 DEF ObservingInv, SoundObservation
  <2>2. CASE o \in [step : {"bind"}, plan : PlannedRecord]
    BY <2>1, <2>2
  <2>3. CASE o \in [step : {"lock", "verify"}, seen : SeenRecord]
    BY <2>1, <2>3
  <2>4. CASE o \in [step : {"event", "authority", "head"}, event : ScopeEvent]
    BY <2>1, <2>4
  <2>5. QED
    BY <2>1, <2>2, <2>3, <2>4 DEF ObservingRecord
<1>10. ASSUME NEW a \in Observers, ObserveBind(a)
       PROVE  ScopeInv'
  <2>1. PICK o : o = observing[a]
    OBVIOUS
  <2>2. o # None /\ o.step = "bind" /\ UNCHANGED <<events, scopeHead>>
    BY <2>1, <1>10 DEF ObserveBind, Step, Busy, journalVars
  <2>3. PICK plan : plan = o.plan
    OBVIOUS
  <2>4. plan \in PlannedRecord /\ plan.path \in Folders
    BY <2>1, <2>2, <2>3, <1>9 DEF PlannedRecord
  <2>5. CASE Opens(plan.path)
    <3>1. PICK i : i = place[plan.path]
      OBVIOUS
    <3>2. i \in Instances /\ boundaries[i] \in {{}, {"nested"}, None}
      BY <3>1, <2>4, <2>5, <1>2 DEF Opens, PlacesTyped, Place, Boundaries
    <3>3. Bound(plan) = [plan |-> plan, folder |-> i, nested |-> boundaries[i]]
      BY <3>1 DEF Bound, Instance, BoundariesUnder
    <3>4. Bound(plan) \in SeenRecord
      BY <3>2, <3>3, <2>4 DEF SeenRecord
    <3>5. PICK n : n = [step |-> "lock", seen |-> Bound(plan)]
      OBVIOUS
    <3>6. n \in ObservingRecord /\ n.step = "lock"
      BY <3>4, <3>5 DEF ObservingRecord
    <3>7. Advance(a, n)
      BY <2>1, <2>3, <2>5, <3>5, <1>10 DEF ObserveBind
    <3>8. QED
      BY <3>6, <3>7, <2>2, <1>7
  <2>6. CASE ~ Opens(plan.path)
    BY <2>1, <2>2, <2>3, <2>6, <1>6, <1>10 DEF ObserveBind
  <2>7. QED
    BY <2>5, <2>6
<1>11. ASSUME NEW a \in Observers, ObserveLock(a)
       PROVE  ScopeInv'
  <2>1. PICK o : o = observing[a]
    OBVIOUS
  <2>2. /\ o # None /\ o.step = "lock" /\ UNCHANGED <<events, scopeHead>>
        /\ Advance(a, [o EXCEPT !.step = "verify"])
    BY <2>1, <1>11 DEF ObserveLock, Step, Busy, journalVars
  <2>3. o.seen \in SeenRecord /\ o = [step |-> o.step, seen |-> o.seen]
    BY <2>1, <2>2, <1>9
  <2>4. PICK n : n = [o EXCEPT !.step = "verify"]
    OBVIOUS
  <2>5. n = [step |-> "verify", seen |-> o.seen]
    BY <2>3, <2>4
  <2>6. n \in ObservingRecord /\ n.step = "verify"
    BY <2>3, <2>5 DEF ObservingRecord
  <2>7. QED
    BY <2>2, <2>4, <2>6, <1>7
<1>12. ASSUME NEW a \in Observers,
              \/ ObserveRefused(a) \/ ObserveChanged(a) \/ ObserveAnswer(a)
              \/ EventOccupied(a) \/ ObserveCrash(a)
       PROVE  ScopeInv'
  BY <1>6, <1>12 DEF ObserveRefused, ObserveChanged, ObserveAnswer, EventOccupied,
    ObserveCrash, Release, journalVars
<1>13. ASSUME NEW a \in Observers, ObserveDecide(a)
       PROVE  ScopeInv'
  <2>1. PICK o, seen0 : o = observing[a] /\ seen0 = o.seen
    OBVIOUS
  <2>2. /\ o # None /\ o.step = "verify" /\ UNCHANGED <<events, scopeHead>>
        /\ ~ Replaced(seen0) /\ ~ Replayed(seen0)
        /\ Advance(a, [step |-> "event",
                       event |-> [seen |-> seen0, nonce |-> NonceFor(seen0)]])
    BY <2>1, <1>13 DEF ObserveDecide, Step, Busy, journalVars
  <2>3. seen0 \in SeenRecord
    BY <2>1, <2>2, <1>9
  <2>4. PICK e : e = [seen |-> seen0, nonce |-> NonceFor(seen0)]
    OBVIOUS
  <2>5. e \in ScopeEvent /\ Decided(e)
    BY <2>2, <2>3, <2>4, <1>2, DecisionIsSound
  <2>6. PICK n : n = [step |-> "event", event |-> e]
    OBVIOUS
  <2>7. n.step = "event" /\ n.event = e /\ n \in ObservingRecord
    BY <2>5, <2>6 DEF ObservingRecord
  <2>8. SoundObservation(n)
    BY <2>5, <2>7 DEF SoundObservation
  <2>9. SoundObservation(n)'
    BY <2>2, <2>8, ObservationStays
  <2>10. Advance(a, n)
    BY <2>2, <2>4, <2>6
  <2>11. QED
    BY <2>2, <2>9, <2>10, <1>4, <1>5 DEF Advance
<1>14. ASSUME NEW a \in Observers, NEW o, o = observing[a], o # None,
              o.step \in {"event", "authority", "head"}
       PROVE  lock = a
  BY <1>14 DEF LockInv, ScopeSteps
<1>15. ASSUME NEW a \in Observers, NEW o, o = observing[a], o # None,
              o.step \in {"event", "authority"}, NEW step \in {"authority", "head"},
              Advance(a, [o EXCEPT !.step = step]),
              JournalInv', Len(events') = scopeHead' + 1
       PROVE  ScopeInv'
  <2>1. o.event \in ScopeEvent /\ o = [step |-> o.step, event |-> o.event]
    BY <1>9, <1>15
  <2>2. PICK n : n = [o EXCEPT !.step = step]
    OBVIOUS
  <2>3. n = [step |-> step, event |-> o.event]
    BY <2>1, <2>2
  <2>4. n \in ObservingRecord /\ n.step = step
    BY <2>1, <2>3 DEF ObservingRecord
  <2>5. SoundObservation(n)'
    BY <2>4, <1>15 DEF SoundObservation
  <2>6. lock = a
    BY <1>14, <1>15
  <2>7. QED
    BY <2>2, <2>5, <2>6, <1>4, <1>15 DEF Advance
<1>16. ASSUME NEW a \in Observers, PublishEvent(a)
       PROVE  ScopeInv'
  <2>1. PICK o, e : o = observing[a] /\ e = o.event
    OBVIOUS
  <2>2. /\ o # None /\ o.step = "event" /\ scopeHead' = scopeHead
        /\ Orphan \in {None, e}
        /\ events' = IF Orphan = None THEN Append(events, e) ELSE events
        /\ Advance(a, [o EXCEPT !.step = IF scopeHead = 0 THEN "authority" ELSE "head"])
    BY <2>1, <1>16 DEF PublishEvent, Step, Busy, Occupied
  <2>3. e \in ScopeEvent /\ Decided(e)
    BY <2>1, <2>2, <1>9 DEF SoundObservation
  <2>4. PICK step \in {"authority", "head"} :
          step = IF scopeHead = 0 THEN "authority" ELSE "head"
    OBVIOUS
  <2>5. Advance(a, [o EXCEPT !.step = step])
    BY <2>2, <2>4
  <2>6. CASE Orphan = None
    <3>1. Len(events) = scopeHead /\ events' = Append(events, e)
      BY <2>2, <2>6, <1>2, WholeJournal
    <3>2. JournalInv' /\ Len(events') = scopeHead' + 1
      BY <3>1, <2>2, <2>3, <1>2, JournalGrows
    <3>3. QED
      BY <3>2, <2>1, <2>2, <2>5, <1>15
  <2>7. CASE Orphan # None
    <3>1. Len(events) # scopeHead /\ events' = events
      BY <2>2, <2>7, <1>2, WholeJournal
    <3>2. Len(events) = scopeHead + 1
      BY <3>1, <1>2 DEF JournalInv
    <3>3. JournalInv'
      BY <3>1, <2>2, <1>5
    <3>4. QED
      BY <3>1, <3>2, <3>3, <2>1, <2>2, <2>5, <1>15
  <2>8. QED
    BY <2>6, <2>7
<1>17. ASSUME NEW a \in Observers, PublishAuthority(a)
       PROVE  ScopeInv'
  <2>1. PICK o : o = observing[a]
    OBVIOUS
  <2>2. /\ o # None /\ o.step = "authority" /\ UNCHANGED <<events, scopeHead>>
        /\ Advance(a, [o EXCEPT !.step = "head"])
    BY <2>1, <1>17 DEF PublishAuthority, Step, Busy
  <2>3. Len(events) = scopeHead + 1
    BY <2>1, <2>2, <1>9 DEF SoundObservation
  <2>4. QED
    BY <2>1, <2>2, <2>3, <1>5, <1>15
<1>18. ASSUME NEW a \in Observers, PublishHead(a)
       PROVE  ScopeInv'
  <2>1. PICK o : o = observing[a]
    OBVIOUS
  <2>2. /\ o # None /\ o.step = "head" /\ events' = events
        /\ scopeHead' = scopeHead + 1 /\ Answer(a)
    BY <2>1, <1>18 DEF PublishHead, Step, Busy, Release
  <2>3. Len(events) = scopeHead + 1
    BY <2>1, <2>2, <1>9 DEF SoundObservation
  <2>4. JournalInv'
    <3>1. AllNonces' = AllNonces
      BY <2>2 DEF AllNonces
    <3>2. scopeHead' \in Nat /\ Len(events') = scopeHead'
      BY <2>2, <2>3, <1>2 DEF JournalInv
    <3>3. events' \in Seq(ScopeEvent) /\ Proves(events')
      BY <2>2, <1>2 DEF JournalInv
    <3>4. AllNonces' = 1..Cardinality(AllNonces')
      BY <3>1, <1>2 DEF JournalInv
    <3>5. QED
      BY <3>2, <3>3, <3>4 DEF JournalInv
  <2>5. lock = a
    BY <2>1, <2>2, <1>14
  <2>6. QED
    BY <2>2, <2>4, <2>5, <1>4 DEF Answer
<1>19. ASSUME NEW a \in Observers, Observe(a) \/ ObserveCrash(a)
       PROVE  ScopeInv'
  BY <1>8, <1>10, <1>11, <1>12, <1>13, <1>16, <1>17, <1>18, <1>19 DEF Observe, ObserveStep
<1>20. CASE LifecycleNext
  BY <1>3, <1>19, <1>20, ScopeChanges DEF journalSteps
<1>21. CASE UNCHANGED lifecycleVars
  BY <1>3, <1>21 DEF lifecycleVars, scopeVars
<1>22. QED
  BY <1>20, <1>21

-----------------------------------------------------------------------------
(* The invariant and what follows from it.                                 *)

\* The manifests a root may start with.
LEMMA ManifestsTyped ==
  ASSUME LifecycleInit
  PROVE  /\ manifest \in ManifestRecord \cup {None}
         /\ manifest # None =>
              manifest.text = 0 /\ (manifest.origin # None => manifest.origin \in Origins)
<1>1. manifest \in Manifests
  BY DEF LifecycleInit, RootInit
<1>2. CASE manifest = None
  BY <1>2
<1>3. CASE manifest # None
  <2>1. PICK origins : origins = IF SetsUp THEN Origins ELSE {None}
    OBVIOUS
  <2>2. origins \subseteq Origins \cup {None}
    BY <2>1
  <2>3. manifest \in [profile : {"legacy", "ordinary"}, text : {0}, receipt : {None},
                     origin : origins]
    BY <2>1, <1>1, <1>3 DEF Manifests
  <2>4. QED
    BY <2>2, <2>3 DEF ManifestRecord, OriginRecord
<1>4. QED
  BY <1>2, <1>3

\* A root starts without records, calls or intents, and with what its origin
\* lists.
LEMMA InitHolds ==
  ASSUME LifecycleInit
  PROVE  LifecycleInv
<1> USE DEF LifecycleInit
<1>1. /\ manifest \in ManifestRecord \cup {None}
      /\ manifest # None =>
           manifest.text = 0 /\ (manifest.origin # None => manifest.origin \in Origins)
  BY ManifestsTyped
<1>2. /\ ignorePolicy = FALSE /\ localHead = 0 /\ lock = None /\ upgradeIntent = None
      /\ manifestEdits = 0 /\ up = None /\ artifact = None
      /\ applications = {} /\ expanding = [a \in Expanders |-> None]
      /\ starting = [a \in Starters |-> None] /\ observing = [a \in Agents |-> None]
  BY DEF RootInit, UpgradeInit, ScopeInit, InitializationInit, ExpansionInit
<1>3. TypeInv
  BY <1>1, <1>2 DEF TypeInv
<1>4. LockInv
  BY <1>2, RolesAssumption DEF LockInv
<1>5. StartInv
  BY <1>2 DEF StartInv
<1>6. TreeInv
  <2>1. nodes = 1 /\ wrote = {}
    BY DEF SetupInit
  <2>2. CASE manifest = None
    <3>1. \A p \in SetupPaths \ {ManifestPath} : tree[p] = None
      BY <2>2 DEF SetupInit
    <3>2. tree = [p \in SetupPaths \ {ManifestPath} |-> tree[p]]
      BY <2>2 DEF SetupInit
    <3>3. QED
      BY <2>1, <3>1, <3>2 DEF TreeInv
  <2>3. CASE manifest # None
    <3>1. PICK n : n = [kind |-> "directory", data |-> None, node |-> 0]
      OBVIOUS
    <3>2. tree = [p \in SetupPaths \ {ManifestPath} |-> IF p = StateDir THEN n ELSE None]
      BY <2>3, <3>1 DEF SetupInit
    <3>3. [path |-> StateDir, kind |-> "directory", data |-> None] \in seen
      BY <2>3 DEF SetupInit
    <3>4. IsNode(n) /\ n.node \in Nat /\ WasThere(StateDir, n)
      BY <3>1, <3>3 DEF IsNode, WasThere
    <3>5. SeenAt(StateDir)
      BY <3>3 DEF SeenAt
    <3>6. \A p \in SetupPaths \ {ManifestPath} : tree[p] # None => tree[p] = n /\ p = StateDir
      BY <3>2
    <3>7. tree = [p \in SetupPaths \ {ManifestPath} |-> tree[p]]
      BY <3>2
    <3>8. QED
      BY <2>1, <3>4, <3>5, <3>6, <3>7 DEF TreeInv
  <2>4. QED
    BY <2>2, <2>3
<1>7. UpgradeInv /\ ManifestsSurvive
  <2>1. NoManifestYet /\ ExchangeInv /\ ManifestsSurvive
    BY <1>1, <1>2 DEF NoManifestYet, ExchangeInv, ManifestsSurvive
  <2>2. ASSUME manifest # None, manifest.origin # None,
               NEW b \in manifest.origin.digest.artifacts
        PROVE  SeenAt(b.target)
    <3>1. PICK w : w = [path |-> b.target, kind |-> b.kind, data |-> None]
      OBVIOUS
    <3>2. w \in seen /\ w.path = b.target
      BY <2>2, <3>1 DEF SetupInit
    <3>3. QED
      BY <3>2 DEF SeenAt
  <2>3. QED
    BY <2>1, <2>2 DEF OriginWasThere, UpgradeInv
<1>8. ExpandInv
  BY <1>2 DEF ExpandInv
<1>9. RecordsInv
  <2>1. IsFiniteSet(applications) /\ ~ Unmanaged /\ ChainHolds
    BY <1>2, FS_EmptySet DEF Unmanaged, ChainHolds
  <2>2. QED
    BY <2>1, <1>2 DEF RecordsInv
<1>10. ScopeInv
  <2>1. 1 \in Instances
    BY BoundsAssumption DEF Instances
  <2>2. PlacesTyped
    BY <2>1 DEF ScopeInit, PlacesTyped, Place, Boundaries
  <2>3. events = <<>> /\ scopeHead = 0
    BY DEF ScopeInit
  <2>4. events \in Seq(ScopeEvent) /\ Len(events) = 0
    BY <2>3
  <2>5. AllNonces = {}
    BY <2>4 DEF AllNonces
  <2>6. AllNonces = 1..Cardinality(AllNonces)
    BY <2>5, FS_EmptySet
  <2>7. Proves(events)
    BY <2>4 DEF Proves
  <2>8. JournalInv
    BY <2>3, <2>4, <2>6, <2>7 DEF JournalInv
  <2>9. ObservingInv
    BY <1>2, RolesAssumption DEF ObservingInv
  <2>10. QED
    BY <2>2, <2>8, <2>9 DEF ScopeInv
<1>11. QED
  BY <1>3, <1>4, <1>5, <1>6, <1>7, <1>8, <1>9, <1>10 DEF LifecycleInv

\* Every step keeps every part.
LEMMA NextKeepsInvariant ==
  ASSUME LifecycleInv, [LifecycleNext]_lifecycleVars
  PROVE  LifecycleInv'
BY NextKeepsTree, NextKeepsStart, NextKeepsTypes, NextKeepsLocks, NextKeepsUpgrade,
   NextKeepsExpansions, NextKeepsRecords, NextKeepsScope DEF LifecycleInv

\* The invariant holds for every set of agents, templates, folders and paths:
\* types, the lock and who may hold it, initializations, the tree, the exchange
\* of manifests, applications and their records, the journal of evidence.
THEOREM LifecycleInvariance == LifecycleSpec => []LifecycleInv
<1>1. LifecycleInit => LifecycleInv
  BY InitHolds
<1>2. LifecycleInv /\ [LifecycleNext]_lifecycleVars => LifecycleInv'
  BY NextKeepsInvariant
<1>3. QED
  BY <1>1, <1>2, PTL DEF LifecycleSpec

\* Between the durable intent of an upgrade and its retirement nobody else
\* changes history (acquire_transaction_lock_for_state).
THEOREM UpgradeAlwaysExcludes == LifecycleSpec => UpgradeExcludesOthers
<1>1. LifecycleInv /\ [LifecycleNext]_lifecycleVars =>
        [upgradeIntent # None
           => UNCHANGED <<localHead, captureIntent, journalVars, applications>>
        ]_lifecycleVars
  BY StepExcludesOthers DEF LifecycleInv
<1>2. QED
  BY <1>1, LifecycleInvariance, PTL DEF LifecycleSpec, UpgradeExcludesOthers

\* What a user last wrote as the manifest is still somewhere, and a file people
\* put or edited is what they made of it (compare_exchange_exact_owned_with_hooks,
\* create_if_missing, install_text_no_clobber).
THEOREM PeoplesWorkAlwaysSurvives == LifecycleSpec => []PeoplesWorkSurvives
<1>1. LifecycleInv => PeoplesWorkSurvives
  <2>1. ASSUME LifecycleInv
        PROVE  FilesSurvive
    <3>1. ASSUME NEW p \in wrote
          PROVE  KindAt(p) = "file" /\ tree[p].data = PeoplesData
      <4>1. tree[p] \in Node /\ p \in PeoplePaths
        BY <2>1 DEF LifecycleInv, TreeInv
      <4>2. p # ManifestPath /\ tree[p] # None
        BY <4>1, PathOrderAssumption, NoneIsNoRecord DEF Node
      <4>3. Entry(p) = tree[p]
        BY <4>2 DEF Entry
      <4>4. QED
        BY <4>1, <4>2, <4>3 DEF KindAt, Present, Node
    <3>2. QED
      BY <3>1 DEF FilesSurvive
  <2>2. QED
    BY <2>1 DEF LifecycleInv, PeoplesWorkSurvives
<1>2. QED
  BY <1>1, LifecycleInvariance, PTL

\* The manifest and the application records list only what has been there, and
\* the records form one chain from the origin unless the clock ran backwards
\* (validate_application_history_chain).
THEOREM HistoryAlwaysHolds == LifecycleSpec => []HistoryHolds
<1>1. LifecycleInv => HistoryHolds
  BY DEF LifecycleInv, UpgradeInv, OriginWasThere, RecordsInv, WasItem, HistoryHolds,
    RecordedFirst, HistoryReads
<1>2. QED
  BY <1>1, LifecycleInvariance, PTL

\* A scope's proof goes with one physical folder, through renames, crashes and
\* retries.
THEOREM ProofsAlwaysFollow == LifecycleSpec => []ProofsFollowFolders
<1>1. LifecycleInv => ProofsFollowFolders
  <2>1. ASSUME JournalInv
        PROVE  ProofsFollowFolders
    <3>1. \A i \in 1..scopeHead : i \in 1..Len(events)
      BY <2>1 DEF JournalInv
    <3>2. QED
      BY <3>1, <2>1 DEF JournalInv, Proves, ProofsFollowFolders
  <2>2. QED
    BY <2>1 DEF LifecycleInv, ScopeInv
<1>2. QED
  BY <1>1, LifecycleInvariance, PTL

=============================================================================
