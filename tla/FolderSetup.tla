----------------------------- MODULE FolderSetup -----------------------------
(* What an initialization and a template application share: the entries of   *)
(* the root they look at, template packages and how one is rendered, the     *)
(* checks of a planned path against what is there, and the two no-clobber    *)
(* steps every addition is made with.                                        *)
(*                                                                           *)
(* A name is its case-folded key and its spelling, a path a sequence of      *)
(* names; the data of a file is a record that tells who wrote it.            *)
EXTENDS RootAuthority, Sequences

CONSTANTS
  PathOrder,        \* every path looked at, in the order of its bytes
  PeoplePaths,      \* the paths people put things at
  ReservedKeys      \* names no artifact may use on some platform

VARIABLES
  tree,             \* path -> what is there, or None
  nodes,            \* the physical identity the next entry gets
  wrote,            \* history: the paths where people last put or edited a file
  seen              \* history: what has been where

setupTreeVars == <<tree, nodes, wrote, seen>>

StateDir == << <<"state", 0>> >>
ManifestPath == StateDir \o << <<"manifest", 0>> >>
SetupPaths == {PathOrder[i] : i \in DOMAIN PathOrder}
Rank(p) == CHOOSE i \in DOMAIN PathOrder : PathOrder[i] = p

Ancestors(p) == {SubSeq(p, 1, i) : i \in 1..(Len(p) - 1)}

\* The paths looked at are each listed once, and what is above them is too.
\* People write the manifest in ways of its own (EditManifest).
ASSUME PathOrderAssumption ==
  /\ PathOrder \in Seq(SetupPaths)
  /\ {StateDir, ManifestPath} \cup PeoplePaths \subseteq SetupPaths
  /\ ManifestPath \notin PeoplePaths
  /\ \A i, j \in DOMAIN PathOrder : PathOrder[i] = PathOrder[j] => i = j
  /\ \A p \in SetupPaths : Len(p) \in Nat /\ Ancestors(p) \subseteq SetupPaths
Key(p) == [i \in DOMAIN p |-> p[i][1]]

-------------------------------------------------------------------------------
(* What is there.                                                              *)
Entry(p) ==
  IF p = ManifestPath
  THEN IF manifest = None THEN None
       ELSE [kind |-> "file", data |-> manifest, node |-> 0]
  ELSE tree[p]

Present(p) == Entry(p) # None
KindAt(p) == IF Present(p) THEN Entry(p).kind ELSE "absent"
Folder(p) == KindAt(p) \in {"directory", "nested"}

\* The parents an operation opens one by one without following a link.
ParentsOpen(p) == \A q \in Ancestors(p) : Folder(q)

\* No entry beside a name of the path differs from it by its spelling alone,
\* and everything on the way that is there is a directory.
AliasFree(p) ==
  \A q \in SetupPaths :
    \A i \in 1..Len(p) :
      /\ Present(q) /\ Len(q) = i
      /\ SubSeq(q, 1, i - 1) = SubSeq(p, 1, i - 1)
      /\ Key(q)[i] = Key(p)[i]
      => /\ q[i] = p[i]
         /\ i < Len(p) => Folder(q)

\* No directory above the path is a Folderbase of its own.
OutsideNested(p) == \A q \in Ancestors(p) : KindAt(q) # "nested"

\* Two planned paths differ by more than spelling, and none is to be a
\* directory and a file at once.
CollisionFree(items) ==
  \A i, j \in items :
    i # j =>
      /\ Key(i.path) # Key(j.path)
      /\ j.kind = "file" => Key(j.path) \notin {Key(q) : q \in Ancestors(i.path)}

-------------------------------------------------------------------------------
(* Template packages.  An artifact's content names the questions it quotes.    *)
Safe(target) ==
  /\ target # <<>>
  /\ \A i \in DOMAIN target : target[i][1] \notin ReservedKeys

\* Every edge advances and ends at the package, which leaves no cycle.
UpgradeGraphHolds(p) ==
  \A edge \in p.edges : edge[1] < edge[2] /\ edge[2] = p.version

ValidPackage(p) ==
  /\ UpgradeGraphHolds(p)
  /\ \A a \in p.artifacts :
       /\ Safe(a.target)
       /\ a.kind = "file" <=> a.text # None
       /\ a.quotes \subseteq DOMAIN p.questions
       /\ \A b \in p.artifacts : Key(a.target) = Key(b.target) => a = b

\* Answers are to the package's questions, of their type, and a required one
\* is neither missing nor blank.
ValidAnswers(p, answers) ==
  /\ DOMAIN answers \subseteq DOMAIN p.questions
  /\ \A q \in DOMAIN answers : answers[q].type = p.questions[q].type
  /\ \A q \in DOMAIN p.questions :
       p.questions[q].required => q \in DOMAIN answers /\ ~answers[q].blank

\* What a rendered artifact is: a directory, or a file that quotes answers.
Renders(a, answers) == a.quotes \subseteq DOMAIN answers
Rendered(a, answers) ==
  [path |-> a.target, kind |-> a.kind,
   data |-> IF a.kind = "directory" THEN None
            ELSE [by |-> a.text, says |-> [q \in a.quotes |-> answers[q]]]]

\* The directories that have to be made above the planned items.
MissingParents(items) ==
  {[path |-> q, kind |-> "directory", data |-> None] :
     q \in {r \in UNION {Ancestors(i.path) : i \in items} :
              ~Present(r) /\ \A i \in items : i.path # r}}

-------------------------------------------------------------------------------
(* The two no-clobber steps.                                                   *)
\* Directories first, parents before their children.
DirectoryBefore(i, j) ==
  \/ i.kind = "directory" /\ j.kind # "directory"
  \/ /\ i.kind = "directory" /\ j.kind = "directory"
     /\ \/ Len(i.path) < Len(j.path)
        \/ Len(i.path) = Len(j.path) /\ Rank(i.path) < Rank(j.path)

Put(p, kind, data) ==
  /\ tree' = [tree EXCEPT ![p] = [kind |-> kind, data |-> data, node |-> nodes]]
  /\ nodes' = nodes + 1
  /\ seen' = seen \cup {[path |-> p, kind |-> kind, data |-> data]}

\* A directory is made, and a staged file linked, only where nothing is.
CanInstall(item) == ParentsOpen(item.path) /\ ~Present(item.path)

Install(item) ==
  /\ Put(item.path, item.kind, item.data)
  /\ UNCHANGED wrote

-------------------------------------------------------------------------------
(* People put, edit and remove things, and make a directory a Folderbase.      *)
PeoplesData == [by |-> "people"]

PeoplePut(p, kind) ==
  /\ ParentsOpen(p) /\ tree[p] = None
  /\ Put(p, kind, IF kind = "file" THEN PeoplesData ELSE None)
  /\ wrote' = IF kind = "file" THEN wrote \cup {p} ELSE wrote

PeopleEdit(p) ==
  /\ KindAt(p) = "file" /\ tree[p].data # PeoplesData
  /\ tree' = [tree EXCEPT ![p].data = PeoplesData]
  /\ wrote' = wrote \cup {p}
  /\ seen' = seen \cup {[path |-> p, kind |-> "file", data |-> PeoplesData]}
  /\ UNCHANGED nodes

PeopleRemove(p) ==
  /\ tree[p] # None
  /\ \A q \in SetupPaths : p \in Ancestors(q) => ~Present(q)
  /\ tree' = [tree EXCEPT ![p] = None]
  /\ wrote' = wrote \ {p}
  /\ UNCHANGED <<nodes, seen>>

PeopleNest(p) ==
  /\ KindAt(p) = "directory"
  /\ tree' = [tree EXCEPT ![p].kind = "nested"]
  /\ UNCHANGED <<nodes, seen, wrote>>

PeopleArrange ==
  /\ \E p \in PeoplePaths :
       \/ \E kind \in {"file", "directory"} : PeoplePut(p, kind)
       \/ PeopleEdit(p) \/ PeopleRemove(p) \/ PeopleNest(p)
  /\ UNCHANGED rootVars

SetupInit ==
  /\ tree = [p \in SetupPaths \ {ManifestPath} |->
               IF p = StateDir /\ manifest # None
               THEN [kind |-> "directory", data |-> None, node |-> 0]
               ELSE None]
  /\ nodes = 1
  /\ wrote = {}
  /\ seen = IF manifest = None THEN {}
            ELSE {[path |-> StateDir, kind |-> "directory", data |-> None]} \cup
                 IF manifest.origin = None THEN {}
                 ELSE {[path |-> a.target, kind |-> a.kind, data |-> None] :
                         a \in manifest.origin.digest.artifacts}
===============================================================================
