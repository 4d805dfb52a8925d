------------------------------- MODULE ChangeSet -------------------------------
(***************************************************************************)
(* The ordinary files of a Folderbase, the Versions that capture, scoped   *)
(* checkout and Change Set publication make of them, and Change Sets up to *)
(* their judgement: an agent receives a copy of the shared paths, proposes *)
(* what it changed as deltas of Objects, and apply publishes the deltas    *)
(* into a root where people went on working.                               *)
(*                                                                         *)
(* Capture is one step here: CaptureSeal has its journal and its crashes.  *)
(* Its identity rules are kept, for publication depends on them: a path    *)
(* that is bound continues its Object, a moved file continues the Object   *)
(* whose recorded inode it has, and every other file is a new Object.      *)
(*                                                                         *)
(* apply works in three lock periods.  The first checks, prepares and      *)
(* publishes the files under a two-phase journal; the capture that follows *)
(* and the history it is replaced by each take the lock for themselves;    *)
(* the last publishes the completion receipt and cleans up.                *)
(***************************************************************************)
EXTENDS FolderbaseVersion, Sequences

CONSTANTS
  Shared,       \* the paths of the one Folder Scope that is checked out
  Torn          \* the bytes of a file that was truncated and not yet rewritten

ASSUME ScopeAssumption ==
  /\ Paths \subseteq Nat /\ IsFiniteSet(Paths) /\ Shared \subseteq Paths
  /\ Torn \notin Contents /\ Torn # None

VARIABLES
  ws,           \* path -> the file there, or None
  head,         \* the Version Local Head names, or None
  versions,     \* installed Folderbase Versions, append-only
  identity,     \* Object -> inode, the capture identity records
  current,      \* Object -> its current Object Version, the object projections
  issued        \* identifiers minted so far: captures, proposals and inodes

historyVars == <<head, versions, identity, current>>

File == [ino: Nat, data: Contents \cup {Torn}, late: BOOLEAN]

\* A Version is named by its capture, or derived from its Change Set and role;
\* `made` stands for created_at: a capture's own, or the one of the final capture
\* that a current or merge Version is computed from.
Roles == {"capture", "current", "proposal", "merge"}
VersionIds == Roles \X Nat

-----------------------------------------------------------------------------
(* Capture.                                                                *)

Prior == IF head = None THEN EmptyVersion ELSE versions[head]

\* The prior paths whose Object the file at p continues.
Continues(p) ==
  IF p \in DOMAIN Prior.bindings THEN {p}
  ELSE {q \in DOMAIN Prior.bindings : identity[Prior.bindings[q].object] = ws[p].ino}

Assigned(p) ==
  LET fresh == <<issued + 1, p>>
      prior == Prior.bindings[CHOOSE q \in Continues(p) : TRUE]
  IN  IF Continues(p) = {}
      THEN [object |-> fresh, over |-> fresh, reused |-> FALSE]
      ELSE [object |-> prior.object, reused |-> TRUE,
            over |-> IF prior.data = ws[p].data THEN prior.over ELSE fresh]

Present == {p \in Paths : ws[p] # None}

Captured ==
  LET assigned == [p \in Present |-> Assigned(p)]
  IN  [parents    |-> IF head = None THEN {} ELSE {head},
       bindings   |-> [p \in Present |-> [object |-> assigned[p].object, kind |-> "regular_file",
                                          over |-> assigned[p].over, data |-> ws[p].data]],
       tombstones |-> TargetTombstones(Prior, assigned),
       exclusions |-> {},
       made       |-> <<"capture", issued + 1>>]

\* Nothing changed since Head: seal_capture returns the Version that is there.
NothingNew(v) ==
  /\ head # None
  /\ v.bindings = Prior.bindings
  /\ v.tombstones = Prior.tombstones

OwnerIn(v, o) == CHOOSE p \in DOMAIN v.bindings : v.bindings[p].object = o

\* Replace the captured state v: Version, identity records and projections.
InstallCapture(v) ==
  LET live == LiveObjects(v)
      id   == <<"capture", issued + 1>>
  IN  /\ head' = id
      /\ versions' = Put(versions, id, v)
      /\ identity' = [o \in DOMAIN identity \cup live |->
                        IF o \in live THEN ws[OwnerIn(v, o)].ino ELSE identity[o]]
      /\ current' = [o \in DOMAIN current \cup live |->
                       IF o \in live THEN v.bindings[OwnerIn(v, o)].over ELSE current[o]]
      /\ issued' = issued + 1

Seal ==
  LET v == Captured
  IN  /\ Valid(v)
      /\ IF NothingNew(v) THEN UNCHANGED <<historyVars, issued>> ELSE InstallCapture(v)
      /\ UNCHANGED ws

\* Every Version reachable from id, itself included.
Ancestry(id) ==
  LET reach[n \in 0..Cardinality(DOMAIN versions)] ==
        IF n = 0 THEN {id}
        ELSE reach[n - 1] \cup UNION {versions[v].parents : v \in reach[n - 1]}
  IN  reach[Cardinality(DOMAIN versions)]

-----------------------------------------------------------------------------
(* The Versions of a Change Set with deltas ds.  A delta names one Object  *)
(* and its state before and after; either may be None.                     *)

Touched(ds) == {d.object : d \in ds}
Kept(v, objects) == {p \in DOMAIN v.bindings : v.bindings[p].object \notin objects}

\* The bindings of two Versions side by side; they clash at a path both bind.
Join(v, ps, w, qs) ==
  [p \in ps \cup qs |-> IF p \in qs THEN w.bindings[p] ELSE v.bindings[p]]

\* What the workspace was without the Change Set: the final capture with the
\* touched Objects as the projection base has them.
CurrentVersion(base, id, final, ds) ==
  LET before  == {d.object : d \in {x \in ds : x.before # None}}
      after   == {d.object : d \in {x \in ds : x.after # None}}
      paths   == {d.before.path : d \in {x \in ds : x.before # None}}
  IN  [parents    |-> {id},
       bindings   |-> Join(final, Kept(final, after \cup before),
                           base, DOMAIN base.bindings \ Kept(base, before)),
       tombstones |-> [p \in DOMAIN final.tombstones \ paths |-> final.tombstones[p]],
       exclusions |-> final.exclusions,
       made       |-> final.made]

\* No work but the Change Set's since the base: there is nothing to merge with.
SameAsBase(v, base) ==
  v.bindings = base.bindings /\ v.tombstones = base.tombstones /\ v.exclusions = base.exclusions

\* The binding a delta publishes: exactly its Object Version.
AfterBinding(d) ==
  [object |-> d.object, kind |-> "regular_file", over |-> d.after.over, data |-> d.after.data]

DeltaOf(ds, p) == CHOOSE d \in ds : d.after # None /\ d.after.path = p

\* The projection base with the Change Set applied.
ProposalVersion(base, id, ds) ==
  LET kept    == Kept(base, Touched(ds))
      after   == {d.after.path : d \in {x \in ds : x.after # None}}
      deleted == {x \in ds : x.after = None}
      revived == {p \in DOMAIN base.tombstones :
                    base.tombstones[p].object \in {d.object : d \in ds \ deleted}}
      removed == {d.before.path : d \in deleted}
  IN  [parents    |-> {id},
       bindings   |-> [p \in kept \cup after |->
                         IF p \in after THEN AfterBinding(DeltaOf(ds, p)) ELSE base.bindings[p]],
       tombstones |-> [p \in (DOMAIN base.tombstones \ revived) \cup removed |->
                         IF p \in removed THEN Tombstone(base.bindings[p]) ELSE base.tombstones[p]],
       exclusions |-> base.exclusions,
       made       |-> <<"proposal", 0>>]

\* Mutant: the merge is the capture, whatever the proposal binds.
MergeOfCapture(parents, proposal, final, ds) ==
  [final EXCEPT !.parents = parents]

\* The final capture with the touched Objects as the proposal has them.
MergeVersion(parents, proposal, final, ds) ==
  [parents    |-> parents,
   bindings   |-> Join(final, Kept(final, Touched(ds)),
                       proposal, DOMAIN proposal.bindings \ Kept(proposal, Touched(ds))),
   tombstones |-> final.tombstones,
   exclusions |-> final.exclusions,
   made       |-> final.made]

\* The final capture has every Object the Change Set leaves behind.
ObjectsKept(final, ds) ==
  \A d \in ds : d.after # None => d.object \in LiveObjects(final)

\* The deltas whose Object the final capture has where the Change Set put it.
InPlace(final, ds) ==
  {d \in ds : d.after # None => /\ d.after.path \in DOMAIN final.bindings
                               /\ final.bindings[d.after.path].object = d.object}

\* Both Versions bind each path at most once.
Disjoint(base, final, ds) ==
  LET before == {d.object : d \in {x \in ds : x.before # None}}
  IN  Kept(final, Touched(ds)) \cap (DOMAIN base.bindings \ Kept(base, before)) = {}

-----------------------------------------------------------------------------
(* Scoped checkouts and immutable Change Sets.                             *)

CONSTANTS
  ChangeSets,       \* the Change Sets anyone proposes
  Procs,            \* processes that apply them
  AgentContents,    \* what an agent may write in its checkout
  UserContents,     \* what the people at the root may write
  InitialFiles,     \* the paths that hold a file at first
  InitialContent,   \* and its bytes
  MaxAgentChanges,  \* bound: paths an agent changes in its checkout
  MaxEdits,         \* bound: changes people make in the root
  MaxCaptures,      \* bound: captures that are no part of an apply
  MaxCrashes        \* bound: process deaths

ASSUME ChangeSetAssumption ==
  /\ ChangeSets \subseteq Nat /\ Procs \subseteq Nat /\ None \notin Procs
  /\ AgentContents \subseteq Contents /\ UserContents \subseteq Contents
  /\ InitialContent \in Contents
  /\ MaxAgentChanges \in Nat /\ MaxEdits \in Nat
  /\ MaxCaptures \in Nat /\ MaxCrashes \in Nat

VARIABLES
  checkouts,    \* Change Set -> the trusted projection its checkout left, or None
  envelopes,    \* Change Set -> its deltas, or None before it is proposed
  journal,      \* the active apply: [set, phase], or None
  work,         \* Object -> prepared bytes of the active Change Set
  marked,       \* Objects whose file is being overwritten in place
  receipts,     \* Change Set -> the scoped result its completion names, or None
  holder,       \* the process that holds the transaction lock
  pc,           \* process -> its next step
  job,          \* process -> [set, final, result, todo] of its apply, or None
  edits, captures, crashes

durable == <<checkouts, envelopes, journal, work, marked, receipts>>
volatile == <<holder, pc, job>>
counters == <<edits, captures, crashes>>
vars == <<ws, historyVars, issued, durable, volatile, counters>>

Phases == {"prepared", "published"}
PublishSteps == {"move", "remove", "install", "rewrite", "journal"}
Steps == {"idle", "prepare", "seal", "history", "proposal", "head", "receipt", "cleanup"} \cup PublishSteps

NoChange == [o \in {} |-> None]

State == [path: Shared, over: Ids, data: Contents \cup {Torn}]
Delta == [object: Ids, before: State \cup {None}, after: State \cup {None}, staged: BOOLEAN]

Inventories == PartialFunctions(Shared, Contents \cup {Torn})

\* The absent value of an optional record is none of the records.
ASSUME NoneIsNoRecord ==
  None \notin File \cup State \cup VersionIds \cup [set: ChangeSets, phase: Phases]
                \cup Inventories

TypeOK ==
  /\ ws \in [Paths -> File \cup {None}]
  /\ head \in VersionIds \cup {None}
  /\ head # None => head \in DOMAIN versions
  /\ \A v \in DOMAIN versions : versions[v].parents \subseteq DOMAIN versions
  /\ DOMAIN envelopes = ChangeSets
  /\ \A c \in ChangeSets : envelopes[c] # None => envelopes[c] \subseteq Delta
  /\ journal \in [set: ChangeSets, phase: Phases] \cup {None}
  /\ holder \in Procs \cup {None}
  /\ pc \in [Procs -> Steps]

-----------------------------------------------------------------------------
(* Checkout and proposal.                                                  *)

Deltas(c) == envelopes[c]
Moves(ds) == {d \in ds : d.before # None /\ d.after # None /\ d.before.path # d.after.path}

\* The checkout tree of c after the agent worked on it: path -> bytes or None.
BaseTree(v) == [p \in Shared |-> IF p \in DOMAIN v.bindings THEN v.bindings[p].data ELSE None]
AgentTrees(v) ==
  {t \in [Shared -> AgentContents \cup {None} \cup {BaseTree(v)[p] : p \in Shared}] :
     LET changed == {p \in Shared : t[p] # BaseTree(v)[p]}
     IN  changed # {} /\ Cardinality(changed) <= MaxAgentChanges}

InTree(t) == {p \in Shared : t[p] # None}

\* match_inventory: an entry continues the base entry at its path; else the
\* only unmatched one with its bytes; else, when one is left on each side, that.
Unmatched(t, u) == InTree(t) \ InTree(u)
SameBytes(base, t, p) == {q \in Unmatched(base, t) : base[q] = t[p]}

ByBytes(base, t) ==
  {m \in Unmatched(base, t) \X Unmatched(t, base) :
     /\ SameBytes(base, t, m[2]) = {m[1]}
     /\ \A r \in Unmatched(t, base) : r < m[2] => SameBytes(base, t, r) # {m[1]}}

Leftover(base, t) ==
  LET pairs == ByBytes(base, t)
      olds  == Unmatched(base, t) \ {m[1] : m \in pairs}
      news  == Unmatched(t, base) \ {m[2] : m \in pairs}
  IN  IF Cardinality(olds) = 1 /\ Cardinality(news) = 1 THEN olds \X news ELSE {}

MatchInventory(base, t) ==
  {<<p, p>> : p \in InTree(base) \cap InTree(t)} \cup ByBytes(base, t) \cup Leftover(base, t)

Before(v, q) == [path |-> q, over |-> v.bindings[q].over, data |-> v.bindings[q].data]

\* The deltas between the base and the tree; n mints the identifiers.
Propose(v, t, n) ==
  LET base    == BaseTree(v)
      matched == MatchInventory(base, t)
      same(q, p) == base[q] = t[p]
      olds    == InTree(base) \ {m[1] : m \in matched}
      news    == InTree(t) \ {m[2] : m \in matched}
  IN  {[object |-> v.bindings[m[1]].object, before |-> Before(v, m[1]),
        after |-> [path |-> m[2], data |-> t[m[2]],
                   over |-> IF same(m[1], m[2]) THEN v.bindings[m[1]].over ELSE <<n, m[2]>>],
        staged |-> ~ same(m[1], m[2])] :
          m \in {x \in matched : x[1] # x[2] \/ ~ same(x[1], x[2])}}
      \cup {[object |-> v.bindings[q].object, before |-> Before(v, q), after |-> None,
             staged |-> FALSE] : q \in olds}
      \cup {[object |-> <<n, p>>, before |-> None, staged |-> TRUE,
             after |-> [path |-> p, over |-> <<n, p>>, data |-> t[p]]] : p \in news}

\* The closed envelope: some delta, one per Object, each a real change, no two
\* onto one path, and bytes nobody has yet are staged.
WellFormed(ds) ==
  /\ ds # {}
  /\ \A d, e \in ds : d.object = e.object => d = e
  /\ \A d \in ds : d.before # d.after
  /\ \A d, e \in {x \in ds : x.after # None} : d.after.path = e.after.path => d = e
  /\ \A d \in ds : d.before = None => d.staged

\* Seal what is there, copy the shared paths out and trust the Version they
\* came from.  Every copied byte is verified against it: an edit that slips
\* between the seal and the copy fails the checkout and leaves only the Version.
Checkout(c) ==
  /\ holder = None
  /\ checkouts[c] = None /\ captures < MaxCaptures
  /\ Seal
  /\ captures' = captures + 1
  /\ checkouts' = [checkouts EXCEPT ![c] = head']
  /\ UNCHANGED <<envelopes, journal, work, marked, receipts, volatile, edits, crashes>>

ProposeChangeSet(c) ==
  /\ checkouts[c] # None
  /\ envelopes[c] = None
  /\ \E t \in AgentTrees(versions[checkouts[c]]) :
       envelopes' = [envelopes EXCEPT ![c] = Propose(versions[checkouts[c]], t, issued + 1)]
  /\ issued' = issued + 1
  /\ UNCHANGED <<ws, historyVars, checkouts, journal, work, marked, receipts, volatile, counters>>

-----------------------------------------------------------------------------
(* The workspace as apply judges it.                                       *)

DataAt(p) == IF ws[p] = None THEN None ELSE ws[p].data
Holds(p, s) == DataAt(p) = s.data

\* assess_conflicts finds none: nothing is where a delta creates or moves to,
\* and every Object is where the base has it, with the base's bytes.
Clean(c) ==
  \A d \in Deltas(c) :
    /\ d.before = None => ws[d.after.path] = None
    /\ d.before # None => Holds(d.before.path, d.before) \/ (d.after = None /\ ws[d.before.path] = None)
    /\ d \in Moves(Deltas(c)) => ws[d.after.path] = None

MatchesAfter(c) ==
  \A d \in Deltas(c) :
    /\ d.after # None => Holds(d.after.path, d.after)
    /\ d.after = None => ws[d.before.path] = None
    /\ d \in Moves(Deltas(c)) => ws[d.before.path] = None

\* A state an interrupted publication may have left.
Intermediate(d) ==
  CASE d \in Moves({d}) ->
         \/ Holds(d.before.path, d.before) /\ ws[d.after.path] = None
         \/ /\ ws[d.before.path] = None
            /\ \/ Holds(d.after.path, d.before)
               \/ Holds(d.after.path, d.after)
               \/ ws[d.after.path] # None /\ d.object \in marked
    [] d.before # None /\ d.after # None /\ d.before.path = d.after.path ->
         ws[d.before.path] = None \/ Holds(d.before.path, d.before) \/ Holds(d.before.path, d.after)
    [] d.after = None -> ws[d.before.path] = None \/ Holds(d.before.path, d.before)
    [] OTHER -> ws[d.after.path] = None \/ Holds(d.after.path, d.after)

\* Mutant: an interrupted Change Set is resumed over whatever is there.
RecoverableAlways(c) == TRUE

Recoverable(c) == \A d \in Deltas(c) : Intermediate(d)

Inventory == [p \in {q \in Shared : ws[q] # None} |-> ws[p].data]
InventoryOf(v) == [p \in Shared \cap DOMAIN v.bindings |-> v.bindings[p].data]
=============================================================================
