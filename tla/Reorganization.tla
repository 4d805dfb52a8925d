---------------------------- MODULE Reorganization ----------------------------
(***************************************************************************)
(* reorganization-v1: a draft of ordered operations, the path facts they    *)
(* rest on (the operation closure), and the plan a complete draft is sealed *)
(* into.  Nothing here touches a folder; what a draft must be is checked,   *)
(* so that a tree with those facts takes every operation in order.          *)
(*                                                                          *)
(* A path is the sequence of its names.  Digests are injective: a digest is *)
(* the value it was made of, without the order of set-like lists.           *)
(***************************************************************************)
EXTENDS Naturals, Sequences, FiniteSets

CONSTANTS
  None,
  Normal,           \* name -> name: NFC
  Fold,             \* name -> name: NFC and default case folding
  Lower,            \* name -> name: its ASCII letters in lower case, no other change
  Reserved,         \* names only Core may write, in lower case: .folderbase, .git
  AgentFiles,       \* the paths of the managed agents' root files
  IgnorePolicy,     \* the path of .folderbaseignore
  Manifest,         \* the path of the root manifest
  RecordPath        \* Object -> the path of its canonical object record

Elements(s) == {s[i] : i \in DOMAIN s}
Distinct(s) == \A i, j \in DOMAIN s : s[i] = s[j] => i = j

Ancestors(path) == {SubSeq(path, 1, n) : n \in 1 .. Len(path) - 1}
Spelled(form, path) == [i \in DOMAIN path |-> form[path[i]]]

\* portable_path_key: two spellings with one key are one path on the folder's volume.
Key(profile, path) == Spelled(IF profile = "case_fold" THEN Fold ELSE Normal, path)

AtOrAbove(keys, key) == ({key} \cup Ancestors(key)) \cap keys # {}
Below(keys, key) == \E k \in keys : key \in Ancestors(k)

-----------------------------------------------------------------------------
(* One operation: what it writes, and what it says is there.               *)

Creates == {"create_directory", "create_file"}
Moves == {"move_file", "move_tracked"}
Records == {"mark_canonical", "mark_superseded", "archive_object", "add_relationship"}

OperationPaths(op) == IF op.kind \in Moves THEN <<op.path, op.to>> ELSE <<op.path>>
PreexistingPaths(op) == IF op.kind \in Creates THEN {} ELSE {op.path}

\* eq_ignore_ascii_case: a name that only the full folding makes a reserved one is ordinary.
OrdinaryContentPath(path) ==
  /\ \A i \in DOMAIN path : Lower[path[i]] \notin Reserved
  /\ Len(path) = 1 =>
       \A a \in AgentFiles \cup {IgnorePolicy} : Spelled(Lower, path) # Spelled(Lower, a)

ValidOperation(op) ==
  CASE op.kind \in Moves ->
         /\ Spelled(Fold, op.path) # Spelled(Fold, op.to)
         /\ OrdinaryContentPath(op.path) /\ OrdinaryContentPath(op.to)
    [] op.kind = "update_agent_block" -> op.path \in AgentFiles
    [] op.kind \in Records -> op.path = RecordPath[op.object]
    [] OTHER -> OrdinaryContentPath(op.path)

-----------------------------------------------------------------------------
(* The facts an ordered list of operations rests on.                       *)

Absent == [is |-> "absent"]
Directory == [is |-> "directory"]
File(sha, bytes) == [is |-> "file", sha |-> sha, bytes |-> bytes]
Tracked(object, version) == [is |-> "tracked", object |-> object, version |-> version]

\* What one operation requires of the path it changes, and of a move's other end.
OwnRequirement(op) ==
  CASE op.kind \in Creates -> Absent
    [] op.kind = "move_file" -> File(op.sha, op.bytes)
    [] op.kind = "move_tracked" -> Tracked(op.object, op.version)
    [] OTHER -> File(op.sha, None)

\* The keys of the directories a draft makes, and the position that makes each.
CreatedAt(profile, ops) ==
  {<<Key(profile, ops[i].path), i>> : i \in {j \in DOMAIN ops : ops[j].kind = "create_directory"}}
CreatedDirectories(profile, ops) == {c[1] : c \in CreatedAt(profile, ops)}

OwnRequirements(profile, op) ==
  {<<Key(profile, op.path), OwnRequirement(op)>>}
  \cup IF op.kind \in Moves THEN {<<Key(profile, op.to), Absent>>} ELSE {}

\* An ancestor the draft makes must be absent before it, any other be there.
AncestorRequirements(profile, ops, op) ==
  LET ancestors == UNION {Ancestors(p) : p \in Elements(OperationPaths(op))}
      created == CreatedDirectories(profile, ops)
  IN  {<<Key(profile, a), IF Key(profile, a) \in created THEN Absent ELSE Directory>> :
         a \in ancestors}

Requirements(profile, ops) ==
  UNION {OwnRequirements(profile, op) \cup AncestorRequirements(profile, ops, op) :
           op \in Elements(ops)}

\* insert_closure_requirement: no path may have to be two things at once.
Compatible(requirements) == \A r, s \in requirements : r[1] = s[1] => r[2] = s[2]

Matches(entry, requirement) ==
  /\ entry.is = requirement.is
  /\ entry.is = "file" => entry.sha = requirement.sha /\ requirement.bytes \in {None, entry.bytes}
  /\ entry.is = "tracked" => entry.object = requirement.object /\ entry.version = requirement.version

\* A list of entries is one fact for each key of the set, and no other.
ExactlyOneEach(profile, entries, keys) ==
  /\ Distinct([i \in DOMAIN entries |-> Key(profile, entries[i].path)])
  /\ {Key(profile, e.path) : e \in Elements(entries)} = keys

\* What must be there before the plan cannot be below what the plan makes, and
\* what the plan makes comes before what goes into it.
SourcesNotBelowCreated(profile, ops) ==
  \A op \in Elements(ops) : \A p \in PreexistingPaths(op) : \A a \in Ancestors(p) :
    Key(profile, a) \notin CreatedDirectories(profile, ops)
ParentsPrecede(profile, ops) ==
  \A i \in DOMAIN ops : \A p \in Elements(OperationPaths(ops[i])) : \A a \in Ancestors(p) :
    \A c \in CreatedAt(profile, ops) : c[1] = Key(profile, a) => c[2] < i

ValidClosure(profile, scope, ops) ==
  LET required == Requirements(profile, ops)
      keys == {r[1] : r \in required}
      declared == {Key(profile, e.path) : e \in Elements(scope.declared)}
  IN  /\ SourcesNotBelowCreated(profile, ops)
      /\ ParentsPrecede(profile, ops)
      /\ Compatible(required)
      /\ ExactlyOneEach(profile, scope.closure, keys)
      /\ \A e \in Elements(scope.closure), r \in required :
           Key(profile, e.path) = r[1] => Matches(e.fact, r[2])
      /\ ExactlyOneEach(profile, scope.declared, declared)
      /\ declared \cap (keys \cup {Key(profile, p) : p \in {IgnorePolicy, Manifest}}) = {}

\* validate_operation_path_uniqueness: operations share no path, but for ancestors.
PathsAreUnique(profile, ops) ==
  LET uses == UNION {{<<i, n>> : n \in DOMAIN OperationPaths(ops[i])} : i \in DOMAIN ops}
      KeyOf(u) == Key(profile, OperationPaths(ops[u[1]])[u[2]])
  IN  \A u, v \in uses : KeyOf(u) = KeyOf(v) => u = v

\* validate_nested_boundary_confinement.
Confined(profile, scope, ops) ==
  LET boundaries == {Key(profile, b) : b \in Elements(scope.boundaries)}
      paths == UNION {Elements(OperationPaths(op)) : op \in Elements(ops)}
               \cup {e.path : e \in Elements(scope.closure) \cup Elements(scope.declared)}
  IN  \A p \in paths : ~ AtOrAbove(boundaries, Key(profile, p))

-----------------------------------------------------------------------------
(* The draft, and the plan it is sealed into.  Limits on the number of      *)
(* entries and on the length of texts are left out.                         *)

ValidScope(profile, scope) ==
  /\ scope.ignorePolicy.is \in {"absent", "file"}
  /\ Distinct([i \in DOMAIN scope.boundaries |-> Key(profile, scope.boundaries[i])])
  /\ LET keys == {Key(profile, b) : b \in Elements(scope.boundaries)}
     IN  \A k \in keys : ~ Below(keys, k)

\* A choice is among distinct options, only a choice has options, and an answer
\* is of the kind that was asked for.
ValidQuestion(q) ==
  /\ Distinct(q.options)
  /\ q.type = "single_choice" <=> q.options # <<>>
  /\ q.answer # None =>
       /\ q.answer.type = q.type
       /\ q.type = "single_choice" => q.answer.value \in Elements(q.options)

ValidDraft(d) ==
  /\ ValidScope(d.profile, d.scope)
  /\ \A i \in DOMAIN d.questions : ValidQuestion(d.questions[i])
  /\ Distinct([i \in DOMAIN d.questions |-> d.questions[i].id])
  /\ Distinct(d.templates)
  /\ d.operations # <<>>
  /\ \A op \in Elements(d.operations) : ValidOperation(op)
  /\ PathsAreUnique(d.profile, d.operations)
  /\ Confined(d.profile, d.scope, d.operations)
  /\ ValidClosure(d.profile, d.scope, d.operations)

Answered(d) == \A q \in Elements(d.questions) : q.required => q.answer # None

\* normalize_scope and normalize_plan sort the set-like lists before they are
\* digested, so a digest does not tell two orders of one list apart.
ScopeDigest(scope) ==
  [scope EXCEPT !.boundaries = Elements(@), !.closure = Elements(@), !.declared = Elements(@)]
PlanDigest(d) == [d EXCEPT !.scope = ScopeDigest(@), !.templates = Elements(@)]

\* seal_reorganization_draft, {} where it refuses.
Sealed(d) ==
  IF ValidDraft(d) /\ Answered(d)
  THEN {[draft |-> d, scopeDigest |-> ScopeDigest(d.scope), planDigest |-> PlanDigest(d)]}
  ELSE {}

ValidPlan(plan) ==
  /\ ValidDraft(plan.draft) /\ Answered(plan.draft)
  /\ plan.scopeDigest = ScopeDigest(plan.draft.scope)
  /\ plan.planDigest = PlanDigest(plan.draft)

-----------------------------------------------------------------------------
(* What a plan promises whoever carries it out.  A tree maps the keys of    *)
(* what is there to its facts; the operations are done one after another.   *)

Tree(tree) == \A k \in DOMAIN tree : \A a \in Ancestors(k) :
                a \in DOMAIN tree /\ tree[a] = Directory
FactAt(tree, key) == IF key \in DOMAIN tree THEN tree[key] ELSE Absent
Meets(tree, profile, scope) ==
  \A e \in Elements(scope.closure) : FactAt(tree, Key(profile, e.path)) = e.fact

Set(tree, key, fact) ==
  [k \in DOMAIN tree \cup {key} |-> IF k = key THEN fact ELSE tree[k]]
Written == File("written", 0)
Done(tree, profile, op) ==
  LET source == Key(profile, op.path)
      without == [k \in DOMAIN tree \ {source} |-> tree[k]]
  IN  CASE op.kind \in Moves -> Set(without, Key(profile, op.to), tree[source])
        [] op.kind = "create_directory" -> Set(tree, source, Directory)
        [] OTHER -> Set(tree, source, Written)

\* Every path an operation fills is free, in a directory that is there; every
\* path it takes is as the draft said.
Ready(tree, profile, op) ==
  /\ \A r \in OwnRequirements(profile, op) : Matches(FactAt(tree, r[1]), r[2])
  /\ \A p \in Elements(OperationPaths(op)) : \A a \in Ancestors(Key(profile, p)) :
       FactAt(tree, a) = Directory

\* The tree after the first n operations.
After(tree, profile, ops) ==
  LET t[n \in 0 .. Len(ops)] == IF n = 0 THEN tree ELSE Done(t[n - 1], profile, ops[n])
  IN  t

\* A plan that was sealed runs through on every tree with the facts of its
\* closure: no operation undoes what a later one rests on.
PlansRun(plan, tree) ==
  LET draft == plan.draft
      t == After(tree, draft.profile, draft.operations)
  IN  Tree(tree) /\ Meets(tree, draft.profile, draft.scope) =>
        \A n \in DOMAIN draft.operations : Ready(t[n - 1], draft.profile, draft.operations[n])

\* And it leaves every nested Folderbase alone, with the way to it.
BoundariesStayClosed(plan, tree) ==
  LET draft == plan.draft
      t == After(tree, draft.profile, draft.operations)
      keys == {Key(draft.profile, b) : b \in Elements(draft.scope.boundaries)} \cap DOMAIN tree
      nested == {k \in DOMAIN tree : AtOrAbove(keys, k) \/ Below(keys, k)}
  IN  Tree(tree) /\ Meets(tree, draft.profile, draft.scope) =>
        \A n \in DOMAIN t : \A k \in nested : FactAt(t[n], k) = tree[k]
=============================================================================
