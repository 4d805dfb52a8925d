-------------------------- MODULE TemplateExpansion --------------------------
(* Additive template applications: a read-only plan against the lineage that *)
(* the manifest and the application history give, its application under the  *)
(* transaction lock, and the record that is installed last.                  *)
EXTENDS FolderSetup

CONSTANTS
  Expanders,         \* processes that apply templates
  Offers,            \* the packages they may apply
  Answers,           \* the answers they may give
  MaxClock           \* bound on the device's clock

VARIABLES
  applications,      \* template-applications/<id>.json
  expanding          \* expander -> its plan, or its application in progress

expansionVars == <<applications, expanding>>

-------------------------------------------------------------------------------
(* The lineage of a template.                                                  *)
Of(id) == {r \in applications : r.template.id = id}
Followed == {r.from.application : r \in applications}
Terminals(records) == {r \in records : r.number \notin Followed}
Only(records) == CHOOSE r \in records : records = {r}

After(r) ==
  [source |-> "application", id |-> r.template.id,
   version |-> r.template.version, digest |-> r.template.digest,
   application |-> r.number]

\* The one application nothing follows, or the origin in the manifest, or, in a
\* native root without either, the unmanaged origin; None when there is no one.
Comparison(id) ==
  LET origin == manifest.origin
  IN CASE Cardinality(Terminals(Of(id))) = 1 -> After(Only(Terminals(Of(id))))
       [] Of(id) # {} /\ Cardinality(Terminals(Of(id))) # 1 -> None
       [] Of(id) = {} /\ origin # None ->
            [source |-> "origin", id |-> origin.id, version |-> origin.version,
             digest |-> origin.digest, application |-> None]
       [] Of(id) = {} /\ origin = None /\ applications = {} ->
            IF Native(manifest)
            THEN [source |-> "unmanaged", id |-> id, version |-> 0,
                  digest |-> None, application |-> None]
            ELSE None
       [] OTHER ->
            IF Cardinality(Terminals(applications)) = 1
            THEN After(Only(Terminals(applications))) ELSE None

\* What every reader of the history demands of it.
ExtendsOrigin(r) ==
  \/ /\ r.from.source = "unmanaged"
     /\ Native(manifest) /\ manifest.origin = None /\ r.from.version = 0
  \/ /\ r.from.source = "origin"
     /\ manifest.origin # None
     /\ r.template.id = manifest.origin.id
     /\ r.from.version = manifest.origin.version

Follows(r, p) ==
  /\ p.number = r.from.application
  /\ p.template.id = r.template.id
  /\ p.template.version = r.from.version
  /\ p.at <= r.at

\* A record names every path once, and an application it follows exactly if it
\* compares with one.
RecordHolds(r) ==
  /\ (r.from.source = "application") <=> (r.from.application # None)
  /\ \A i, j \in r.created \cup r.preserved : Key(i.path) = Key(j.path) => i = j

HistoryReads == \A r \in applications : RecordHolds(r)

ChainHolds ==
  \A r \in applications :
    /\ r.from.version < r.template.version
    /\ IF r.from.source = "application"
       THEN /\ \E p \in applications : Follows(r, p)
            /\ \A s \in applications \ {r} :
                 s.from.application # r.from.application
       ELSE /\ ExtendsOrigin(r)
            /\ \A s \in Of(r.template.id) \ {r} : s.from.source = "application"

-------------------------------------------------------------------------------
(* Planning.                                                                   *)
\* A target is opened through the root, without entering a nested Folderbase.
Openable(p) == OutsideNested(p) /\ KindAt(p) # "nested"

Same(c, package) == c.id = package.id /\ c.version = package.version

\* Another lineage, a downgrade, or a transition the package does not declare.
Structural(c, package) ==
  \/ c.id # package.id
  \/ /\ ~Same(c, package)
     /\ \/ package.version < c.version
        \/ /\ c.source # "unmanaged"
           /\ <<c.version, package.version>> \notin package.edges

Missing(package) == {a \in package.artifacts : ~Present(a.target)}
Kept(package) == {a \in package.artifacts : KindAt(a.target) = a.kind}

Precondition(p) == [path |-> p, kind |-> KindAt(p), data |-> Entry(p).data,
                    node |-> Entry(p).node]

AddedItems(package, answers) ==
  LET rendered == {Rendered(a, answers) : a \in Missing(package)}
  IN rendered \cup {i \in MissingParents(rendered) : i.path # StateDir}

\* A plan that keeps to its lineage looks at the tree; the others stop there.
Lays(c, package) == ~Same(c, package) /\ ~Structural(c, package)

ExpansionPlan(package, answers) ==
  LET c == Comparison(package.id)
      lays == Lays(c, package)
  IN [template |-> [id |-> package.id, version |-> package.version,
                    digest |-> package],
      from |-> c,
      structural |-> Structural(c, package),
      adds |-> IF lays THEN AddedItems(package, answers) ELSE {},
      keeps |-> IF lays THEN {Precondition(a.target) : a \in Kept(package)}
                        ELSE {},
      blocked |-> lays /\ \E a \in package.artifacts \ Kept(package) :
                            Present(a.target),
      manifest |-> manifest,
      history |-> applications]

CanExpand(package, answers) ==
  /\ manifest # None
  /\ ValidPackage(package)
  /\ HistoryReads /\ ChainHolds
  /\ LET c == Comparison(package.id)
     IN /\ c # None
        /\ c.source = "origin" => c.digest # None
        /\ Same(c, package) => c.digest = package
        /\ Lays(c, package) =>
             /\ \A a \in package.artifacts :
                  /\ AliasFree(a.target) /\ Openable(a.target)
                  /\ Renders(a, answers)
             /\ ValidAnswers(package, answers)
             /\ CollisionFree(AddedItems(package, answers))

PlanExpansion(a, package, answers) ==
  /\ expanding[a] = None
  /\ Attests
  /\ CanExpand(package, answers)
  /\ expanding' = [expanding EXCEPT ![a] =
       [step |-> "approved", plan |-> ExpansionPlan(package, answers),
        answers |-> answers, left |-> {}]]
  /\ UNCHANGED <<rootVars, setupTreeVars, applications>>

\* The reviewed digest binds what is kept by its bytes, not by its identity.
PlanDigest(plan) ==
  [plan EXCEPT !.keeps = {[path |-> k.path, kind |-> k.kind, data |-> k.data] :
                            k \in plan.keeps}]

-------------------------------------------------------------------------------
(* Applying.                                                                   *)
Expand(a, step, plan, left) ==
  expanding' = [expanding EXCEPT ![a].step = step, ![a].plan = plan,
                                 ![a].left = left]
Expanding(a, step) == expanding[a] # None /\ expanding[a].step = step

\* The call ends, with a result or an error, and gives the lock back.
Leave(a) ==
  /\ expanding' = [expanding EXCEPT ![a] = None]
  /\ lock' = None

\* (mutant) only the manifest is compared.
ManifestUnchanged(plan) == manifest = plan.manifest

NothingChanged(plan) == manifest = plan.manifest /\ applications = plan.history

KeptAsPlanned(plan) ==
  \A k \in plan.keeps : Openable(k.path) /\ Present(k.path)
                        /\ Precondition(k.path) = k

MayApply(plan) ==
  /\ ~plan.structural /\ ~plan.blocked
  /\ HistoryReads
  /\ NothingChanged(plan)
  /\ \A i \in plan.adds \cup plan.keeps : AliasFree(i.path)
  /\ KeptAsPlanned(plan)
  /\ \A i \in plan.adds : Openable(i.path) /\ ~Present(i.path)

NoOp(plan) == Same(plan.from, plan.template) /\ plan.adds = {}

\* A caller brings the plan itself, or its digest and plans again.
AppliesPlan(a) == MayApply(expanding[a].plan)
AppliesDigest(a) ==
  LET package == expanding[a].plan.template.digest
      again == ExpansionPlan(package, expanding[a].answers)
  IN /\ CanExpand(package, expanding[a].answers)
     /\ PlanDigest(again) = PlanDigest(expanding[a].plan)
     /\ MayApply(again)

BeginExpansion(a) ==
  /\ Expanding(a, "approved")
  /\ TakeLock(a)
  /\ LET plan == expanding[a].plan
     IN \/ AppliesPlan(a) /\ Expand(a, "add", plan, plan.adds)
        \/ /\ AppliesDigest(a)
           /\ LET again == ExpansionPlan(plan.template.digest, expanding[a].answers)
              IN Expand(a, "add", again, again.adds)
  /\ UNCHANGED <<manifest, upgradeIntent, restOfRoot, setupTreeVars,
                 applications>>

\* The lock is not to be had for long: an upgrade is pending, or the plan no
\* longer holds.
RefuseExpansion(a) ==
  /\ Expanding(a, "approved")
  /\ lock = None
  /\ ~LockAdmits \/ ~AppliesPlan(a) \/ ~AppliesDigest(a)
  /\ expanding' = [expanding EXCEPT ![a] = None]
  /\ UNCHANGED <<rootVars, setupTreeVars, applications>>

\* Directories, then files by depth.
AddedBefore(i, j) ==
  \/ DirectoryBefore(i, j)
  \/ /\ i.kind = "file" /\ j.kind = "file"
     /\ \/ Len(i.path) < Len(j.path)
        \/ Len(i.path) = Len(j.path) /\ Rank(i.path) < Rank(j.path)

FirstToAdd(left) == CHOOSE i \in left : \A j \in left \ {i} : AddedBefore(i, j)

AddEntry(a) ==
  /\ Expanding(a, "add") /\ expanding[a].left # {}
  /\ LET item == FirstToAdd(expanding[a].left)
     IN IF CanInstall(item)
        THEN /\ Install(item)
             /\ Expand(a, "add", expanding[a].plan, expanding[a].left \ {item})
             /\ UNCHANGED rootVars
        ELSE /\ Leave(a)
             /\ UNCHANGED <<manifest, upgradeIntent, restOfRoot, setupTreeVars>>
  /\ UNCHANGED applications

\* Everything added is there with its bytes, and everything kept as it was.
AddedAsPlanned(plan) ==
  \A i \in plan.adds : /\ Openable(i.path) /\ KindAt(i.path) = i.kind
                       /\ Entry(i.path).data = i.data

VerifyExpansion(a) ==
  /\ Expanding(a, "add") /\ expanding[a].left = {}
  /\ LET plan == expanding[a].plan
     IN IF ~NoOp(plan) /\ AddedAsPlanned(plan) /\ KeptAsPlanned(plan)
        THEN Expand(a, "record", plan, {}) /\ UNCHANGED rootVars
        ELSE Leave(a) /\ UNCHANGED <<manifest, upgradeIntent, restOfRoot>>
  /\ UNCHANGED <<setupTreeVars, applications>>

\* The record tells the time the device's clock shows, which people can set.
RecordExpansion(a) ==
  /\ Expanding(a, "record")
  /\ \E now \in 1..MaxClock :
       LET plan == expanding[a].plan
           record == [number |-> Cardinality(applications) + 1,
                      template |-> plan.template, from |-> plan.from, at |-> now,
                      created |-> plan.adds, preserved |-> plan.keeps]
       IN applications' = applications \cup
                            {r \in {record} : RecordHolds(r)}
  /\ Leave(a)
  /\ UNCHANGED <<manifest, upgradeIntent, restOfRoot, setupTreeVars>>

ExpansionCrash(a) ==
  /\ lock = a /\ expanding[a] # None
  /\ Leave(a)
  /\ UNCHANGED <<manifest, upgradeIntent, restOfRoot, setupTreeVars,
                 applications>>

ExpansionStep(a) ==
  \/ BeginExpansion(a) \/ RefuseExpansion(a)
  \/ AddEntry(a) \/ VerifyExpansion(a) \/ RecordExpansion(a)

ExpansionInit ==
  /\ applications = {}
  /\ expanding = [a \in Expanders |-> None]
===============================================================================
