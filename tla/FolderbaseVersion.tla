-------------------------- MODULE FolderbaseVersion --------------------------
(***************************************************************************)
(* The immutable full-state record that a Local Head names, and the pure   *)
(* computations over it: which records are valid, which Tombstones a       *)
(* capture projects, and which binding a Tombstone restores.               *)
(*                                                                         *)
(* A record is abstracted to its parents, its Path Bindings and Tombstones *)
(* (partial functions on Paths) and the paths it excludes.  Identifiers    *)
(* minted as UUIDs are pairs <<transaction, path>>; the root manifest,     *)
(* timestamps, digests and byte lengths carry no property and are left out.*)
(***************************************************************************)
EXTENDS Naturals, FiniteSets

CONSTANTS
  Paths,        \* portable paths, all at the top level of the root
  Contents,     \* what a regular file's bytes can be
  None          \* the absent value of every optional field

ASSUME NoneAssumption == None \notin Contents

Kinds == {"regular_file", "directory"}

PartialFunctions(S, T) == UNION {[D -> T] : D \in SUBSET S}

\* Membership of that set, for an S that cannot be enumerated.
IsPartial(f, S, T) == DOMAIN f \subseteq S /\ f \in [DOMAIN f -> T]

\* f with k bound to v.
Put(f, k, v) == [x \in DOMAIN f \cup {k} |-> IF x = k THEN v ELSE f[x]]

\* Object IDs and Object Version IDs: the transaction that minted one and the
\* path it minted it for.
Ids == Nat \X Paths

Binding == [object: Ids, kind: Kinds, over: Ids \cup {None}, data: Contents \cup {None}]
TombstoneRecord == [object: Ids, kind: Kinds, over: Ids \cup {None}]

Version ==
  [parents: SUBSET Nat,
   bindings: PartialFunctions(Paths, Binding),
   tombstones: PartialFunctions(Paths, TombstoneRecord),
   exclusions: SUBSET Paths]

IsVersion(v) ==
  /\ v = [parents |-> v.parents, bindings |-> v.bindings, tombstones |-> v.tombstones,
          exclusions |-> v.exclusions]
  /\ v.parents \subseteq Nat /\ v.exclusions \subseteq Paths
  /\ IsPartial(v.bindings, Paths, Binding)
  /\ IsPartial(v.tombstones, Paths, TombstoneRecord)

EmptyFunction == [p \in {} |-> None]

EmptyVersion == [parents |-> {}, bindings |-> EmptyFunction,
                 tombstones |-> EmptyFunction, exclusions |-> {}]

LiveObjects(v) == {v.bindings[p].object : p \in DOMAIN v.bindings}
DeletedObjects(v) == {v.tombstones[p].object : p \in DOMAIN v.tombstones}

\* What FolderbaseVersion::validate refuses: one Object live at two paths, a
\* path recreated under the Object its Tombstone names, a Tombstone at an
\* excluded path, an excluded path that is also bound.
Valid(v) ==
  /\ \A p, q \in DOMAIN v.bindings :
        v.bindings[p].object = v.bindings[q].object => p = q
  /\ \A p \in DOMAIN v.tombstones \cap DOMAIN v.bindings :
        v.tombstones[p].object # v.bindings[p].object
  /\ v.exclusions \cap (DOMAIN v.tombstones \cup DOMAIN v.bindings) = {}

Tombstone(b) == [object |-> b.object, kind |-> b.kind, over |-> b.over]

\* Mutant: a path that is bound again counts as continued, whatever it names.
DiscontinuedByPath(prior, assignments) == DOMAIN prior.bindings \ DOMAIN assignments

\* Prior bindings that no assignment continues.  An assignment continues an
\* Object when it reuses its Object ID, at whichever path.
Discontinued(prior, assignments) ==
  {p \in DOMAIN prior.bindings :
     ~ \E q \in DOMAIN assignments :
         /\ assignments[q].reused
         /\ assignments[q].object = prior.bindings[p].object}

\* Tombstones carry forward; a discontinued binding replaces whatever
\* Tombstone its path held.
TargetTombstones(prior, assignments) ==
  LET dropped == Discontinued(prior, assignments)
  IN  [p \in DOMAIN prior.tombstones \cup dropped |->
         IF p \in dropped THEN Tombstone(prior.bindings[p]) ELSE prior.tombstones[p]]

\* A version is published once; a retry must find the identical record.
Installable(versions, id, v) == id \in DOMAIN versions => versions[id] = v

\* The child that a Tombstone restore of path p derives from version `id`.
RestoredVersion(id, v, p, binding) ==
  [parents    |-> {id},
   bindings   |-> Put(v.bindings, p, binding),
   tombstones |-> [q \in DOMAIN v.tombstones \ {p} |-> v.tombstones[q]],
   exclusions |-> v.exclusions]

\* Every version reachable from `id` through parents, itself included.  A
\* parent is installed before its child, so its number is smaller.
Lineage(versions, id) ==
  LET reach[n \in Nat] ==
        IF n \in DOMAIN versions
        THEN {n} \cup UNION {reach[m] : m \in {k \in versions[n].parents : k < n}}
        ELSE {}
  IN  reach[id]

\* Ancestors of `id` with a live binding that matches Tombstone t at p in
\* Object and Object Version.
RestoreCandidates(versions, id, p, t) ==
  {a \in DOMAIN versions \ {id} :
     /\ a \in Lineage(versions, id)
     /\ p \in DOMAIN versions[a].bindings
     /\ Tombstone(versions[a].bindings[p]) = t}

\* Mutant: the search starts at the root and matches the Object alone.
RestoreBindingOfObject(versions, id, p, t) ==
  LET ancestors == {a \in Lineage(versions, id) : /\ p \in DOMAIN versions[a].bindings
                                                  /\ versions[a].bindings[p].object = t.object}
  IN  versions[CHOOSE a \in ancestors : \A b \in ancestors : a <= b].bindings[p]

\* The nearest one, if there is any: along one line of parents, the youngest.
RestoreSource(versions, id, p, t) ==
  LET ancestors == RestoreCandidates(versions, id, p, t)
  IN  {a \in ancestors : \A b \in ancestors : b <= a}

RestoreBinding(versions, id, p, t) ==
  versions[CHOOSE a \in RestoreSource(versions, id, p, t) : TRUE].bindings[p]
=============================================================================
