---------------------------- MODULE Initialization ----------------------------
(* Making an ordinary directory a Folderbase: a read-only plan, one preflight, *)
(* then additions without a lock or a journal, the manifest last.  A process   *)
(* that dies leaves what it made, which the next plan preserves.               *)
EXTENDS FolderSetup

CONSTANTS
  Starters,          \* processes that initialize the root
  StartTemplates,    \* what they may start from: packages, or None
  StartAnswers,      \* the answers they may give
  AdapterPaths       \* where an agent adapter goes when they ask for adapters

VARIABLE starting    \* starter -> its plan and what is left of it, or None

-------------------------------------------------------------------------------
(* Planning.                                                                   *)
\* What is in the root, by path and kind; nothing is listed inside a nested
\* Folderbase.
DestinationInventory ==
  {<<p, KindAt(p)>> : p \in {q \in SetupPaths : Present(q) /\ OutsideNested(q)}}

Artifacts(package) == IF package = None THEN {} ELSE package.artifacts
Existing(package) == {a \in Artifacts(package) : Present(a.target)}

\* A template keeps what is there if it has the kind the template wants.
Adopts(package) ==
  /\ \A a \in Artifacts(package) :
       /\ \A q \in Ancestors(a.target) : Present(q) => Folder(q)
       /\ OutsideNested(a.target)
  /\ \A a \in Existing(package) : KindAt(a.target) = a.kind

\* What the plan makes of the template, and of the adapters nobody else makes.
TemplateItems(package, answers) ==
  {Rendered(a, answers) : a \in Artifacts(package) \ Existing(package)}

AdapterItems(wanted, items) ==
  {[path |-> p, kind |-> "file", data |-> [by |-> "adapter"]] :
     p \in {q \in IF wanted THEN AdapterPaths ELSE {} :
              ~Present(q) /\ \A i \in items : i.path # q \/ i.kind # "file"}}

FreshManifest(package) ==
  [profile |-> "ordinary", text |-> 0, receipt |-> None,
   origin |-> IF package = None THEN None
              ELSE [id |-> package.id, version |-> package.version,
                    digest |-> package]]

ManifestItem(package) ==
  [path |-> ManifestPath, kind |-> "file", data |-> FreshManifest(package)]

StartItems(package, answers, adapters) ==
  LET rendered == TemplateItems(package, answers)
      files == rendered \cup AdapterItems(adapters, rendered)
                        \cup {ManifestItem(package)}
  IN files \cup MissingParents(files)

\* Every planned path is free, and so is every spelling of it.
Fits(items) ==
  /\ CollisionFree(items)
  /\ \A i \in items : AliasFree(i.path) /\ ~Present(i.path)

CanStart(package, answers, adapters) ==
  /\ manifest = None
  /\ package # None =>
       /\ ValidPackage(package) /\ ValidAnswers(package, answers)
       /\ Adopts(package)
       /\ \A a \in package.artifacts \ Existing(package) : Renders(a, answers)
  /\ adapters => \A p \in AdapterPaths : KindAt(p) \in {"absent", "file"}
  /\ Fits(StartItems(package, answers, adapters))

\* The plan keeps the identity of what it preserves and the inventory.
Identity(target) == [path |-> target, kind |-> KindAt(target),
                     node |-> Entry(target).node]

StartPlan(request) ==
  [request |-> request,
   items |-> StartItems(request.package, request.answers, request.adapters),
   keeps |-> {Identity(e.target) : e \in Existing(request.package)},
   found |-> DestinationInventory,
   left |-> None]

\* The reviewed digest binds what is kept by its path and kind, not by its
\* identity.
StartDigest(plan) ==
  [plan EXCEPT !.keeps = {[path |-> k.path, kind |-> k.kind] : k \in plan.keeps}]

PlanStart(a, request) ==
  /\ starting[a] = None
  /\ CanStart(request.package, request.answers, request.adapters)
  /\ starting' = [starting EXCEPT ![a] = StartPlan(request)]
  /\ UNCHANGED <<rootVars, setupTreeVars>>

-------------------------------------------------------------------------------
(* Applying a plan.                                                            *)
AsPlanned(plan) ==
  /\ \A k \in plan.keeps : Present(k.path) /\ Identity(k.path) = k
  /\ Fits(plan.items)
  /\ \A i \in plan.items : OutsideNested(i.path)
  /\ DestinationInventory = plan.found

Running(a) == starting[a] # None /\ starting[a].left # None
Ends(a) == starting' = [starting EXCEPT ![a] = None]

Start(a) ==
  /\ starting[a] # None /\ ~Running(a)
  /\ IF AsPlanned(starting[a])
     THEN starting' = [starting EXCEPT ![a].left = starting[a].items]
     ELSE Ends(a)
  /\ UNCHANGED <<rootVars, setupTreeVars>>

\* A caller that holds the digest plans again, and goes on if it is the same.
PlanStartAgain(a) ==
  /\ starting[a] # None /\ ~Running(a)
  /\ LET request == starting[a].request
         again == StartPlan(request)
     IN IF /\ CanStart(request.package, request.answers, request.adapters)
           /\ StartDigest(again) = StartDigest(starting[a])
        THEN starting' = [starting EXCEPT ![a] = again]
        ELSE Ends(a)
  /\ UNCHANGED <<rootVars, setupTreeVars>>

\* Directories, then files, and the manifest after every other file.
MadeBefore(i, j) ==
  \/ DirectoryBefore(i, j)
  \/ /\ i.kind = "file" /\ j.kind = "file" /\ i.path # ManifestPath
     /\ j.path = ManifestPath \/ Rank(i.path) < Rank(j.path)

FirstToMake(left) == CHOOSE i \in left : \A j \in left \ {i} : MadeBefore(i, j)

MakeEntry(a) ==
  /\ Running(a) /\ starting[a].left # {}
  /\ LET item == FirstToMake(starting[a].left)
     IN IF CanInstall(item)
        THEN /\ starting' = [starting EXCEPT ![a].left = @ \ {item}]
             /\ IF item.path = ManifestPath
                THEN /\ manifest' = item.data
                     /\ UNCHANGED <<lock, upgradeIntent, restOfRoot, setupTreeVars>>
                ELSE Install(item) /\ UNCHANGED rootVars
        ELSE Ends(a) /\ UNCHANGED <<rootVars, setupTreeVars>>

FinishStart(a) ==
  /\ Running(a) /\ starting[a].left = {}
  /\ Ends(a)
  /\ UNCHANGED <<rootVars, setupTreeVars>>

StartCrash(a) ==
  /\ Running(a)
  /\ Ends(a)
  /\ UNCHANGED <<rootVars, setupTreeVars>>

StartStep(a) ==
  \/ \E package \in StartTemplates, answers \in StartAnswers, adapters \in BOOLEAN :
       PlanStart(a, [package |-> package, answers |-> answers,
                     adapters |-> adapters])
  \/ PlanStartAgain(a)
  \/ Start(a) \/ MakeEntry(a) \/ FinishStart(a)

InitializationInit == starting = [a \in Starters |-> None]
===============================================================================
