------------------------ MODULE ReconstructionPackage ------------------------
(* The package a root is reconstructed from: an index that pins one Folderbase *)
(* Version, the manifests of the Objects it needs and their chunks.  Planning  *)
(* decides from the records alone whether the package is closed; revalidation  *)
(* repeats the decision on the files and remembers their identities.  A digest *)
(* is the bytes it is the digest of, and a manifest is named by its record.    *)
EXTENDS Integers, Sequences, FiniteSets, SequencesExt

CONSTANTS
  Version,     \* the Folderbase Version the package carries
  Indexes,     \* the index records that may be met, each named by its number
  MaxReferences  \* MAX_PACKAGE_REFERENCES

(* A Version: its root manifest (that it fits is to be one of the Version's    *)
(* Folderbase and protocol), live bindings and Tombstones, as the canonical    *)
(* record keeps them (bindings and Tombstones in path order).                  *)
Regulars(v) == SelectSeq(v.bindings, LAMBDA b : b.kind = "regular")
Symlinks(v) == SelectSeq(v.bindings, LAMBDA b : b.kind = "symlink")
DeletedRegulars(v) ==
  SelectSeq(v.tombstones, LAMBDA t : t.kind = "regular" /\ t.last # 0)

LastVersions(v) == {t.last : t \in Range(v.tombstones)} \ {0}
Bound(v) == Range(Regulars(v)) \union Range(Symlinks(v))
Needed(v) == {v.root.version} \union {b.version : b \in Bound(v)} \union LastVersions(v)

(* What the package must bring for an Object Version: whose it is, the roles it*)
(* plays, and the bytes the Version already authenticates.  The target of a    *)
(* symbolic link is derived, never brought.                                    *)
RolesOf(v, id) ==
  (IF id = v.root.version THEN {"root_manifest"} ELSE {})
    \union (IF \E b \in Range(Regulars(v)) : b.version = id THEN {"live_regular_file"} ELSE {})
    \union (IF id \in LastVersions(v) THEN {"retained_tombstone"} ELSE {})
ObjectOf(v, id) ==
  CASE id = v.root.version -> {}
    [] \E b \in Bound(v) : b.version = id -> {b.object : b \in {c \in Bound(v) : c.version = id}}
    [] OTHER -> {t.object : t \in {u \in Range(v.tombstones) : u.last = id}}
Authenticated(v, id) ==
  IF id = v.root.version THEN {v.root.content}
  ELSE {b.content : b \in {c \in Bound(v) : c.version = id}}
Expected(v) ==
  [id \in {i \in Needed(v) : RolesOf(v, i) # {}} |->
     [object |-> ObjectOf(v, id), roles |-> RolesOf(v, id), bytes |-> Authenticated(v, id)]]

(* The roles an index may state, and whether they carry an Object id.          *)
CanonicalRoles(r) ==
  \/ r.roles = {"root_manifest"} /\ r.object = {}
  \/ /\ r.roles \in {{"live_regular_file"}, {"retained_tombstone"},
                     {"live_regular_file", "retained_tombstone"}}
     /\ r.object # {}

ReferencesMatch(refs, expected) ==
  /\ Len(refs) <= MaxReferences
  /\ \A i \in 2..Len(refs) : refs[i - 1].version < refs[i].version
  /\ \A r \in Range(refs) :
       /\ CanonicalRoles(r)
       /\ r.version \in DOMAIN expected
       /\ r.roles = expected[r.version].roles
       /\ r.object = expected[r.version].object
  /\ DOMAIN expected = {r.version : r \in Range(refs)}

(* Whether a deleted file was executable is not in the Version: the package    *)
(* states it, one record per Tombstone and in their order.                     *)
FidelityMatches(v, supplied) ==
  LET deleted == DeletedRegulars(v)
  IN  /\ Len(supplied) = Len(deleted)
      /\ \A i \in DOMAIN supplied :
           /\ supplied[i].path = deleted[i].path
           /\ supplied[i].object = deleted[i].object
           /\ supplied[i].version = deleted[i].last

(* One Object Version may be live and deleted at once: both must agree.  No    *)
(* planner compares them; the reconstruction does, before it copies anything.  *)
ExecutableOf(v, fidelity) ==
  {<<b.version, b.executable>> : b \in Range(Regulars(v))}
    \union {<<f.version, f.executable>> : f \in Range(fidelity)}
FidelityAgrees(v, fidelity) ==
  \A x, y \in ExecutableOf(v, fidelity) : x[1] = y[1] => x = y

ManifestsMatch(refs, manifests, expected) ==
  /\ manifests = {r.manifest : r \in Range(refs)}
  /\ \A r \in Range(refs) :
       expected[r.version].bytes \in {{}, {r.manifest.object}}

(* decode_and_plan: the index, the Version and the manifests as they are read. *)
Closed(index, v, manifests) ==
  /\ index.format = "v1" /\ index.limits = "v1"
  /\ index.version = v
  /\ FidelityMatches(v, index.fidelity)
  /\ ReferencesMatch(index.references, Expected(v))
  /\ ManifestsMatch(index.references, manifests, Expected(v))

(* The builder takes the manifest of every needed Object Version, in order, and*)
(* derives roles and Object ids from the Version; what it builds it also plans.*)
ClosureOf(v, associations, fidelity) ==
  [format |-> "v1", limits |-> "v1", version |-> v, fidelity |-> fidelity,
   references |->
     [i \in DOMAIN associations |->
        LET a == associations[i]
        IN  [version |-> a.version, object |-> ObjectOf(v, a.version),
             roles |-> RolesOf(v, a.version), manifest |-> a.manifest]]]
Derivable(v, associations, fidelity) ==
  /\ Len(associations) <= MaxReferences
  /\ \A i \in 2..Len(associations) : associations[i - 1].version < associations[i].version
  /\ {a.version : a \in Range(associations)} = DOMAIN Expected(v)
  /\ FidelityMatches(v, fidelity)
Built(v, associations, fidelity, manifests) ==
  LET index == ClosureOf(v, associations, fidelity)
  IN  IF Derivable(v, associations, fidelity) /\ Closed(index, v, manifests)
      THEN {index} ELSE {}

-----------------------------------------------------------------------------
(* On disk the package also has chunks, each with an identity and bytes, and   *)
(* may hold what does not belong there.                                        *)
ChunksOf(manifests) == UNION {Range(m.chunks) : m \in manifests}

(* revalidate_package: pinned bytes, exact entries, private single-link files. *)
(* The bytes of a chunk are not read here.                                     *)
Revalidates(p, pin) ==
  /\ p.index = pin
  /\ ~p.foreign
  /\ p.manifests = {r.manifest : r \in Range(Indexes[pin].references)}
  /\ DOMAIN p.chunks = ChunksOf(p.manifests)
Plannable(p) ==
  /\ Closed(Indexes[p.index], Version, p.manifests)
  /\ Revalidates(p, p.index)
IdentityOf(p) == [records |-> p.id, chunks |-> [c \in DOMAIN p.chunks |-> p.chunks[c].id]]

(* PackageObjectReader under verify_object_and_copy: every chunk still is the  *)
(* file that was validated and its bytes are those the manifest names.         *)
Readable(p, seen, manifest) ==
  \A c \in Range(manifest.chunks) :
    /\ c \in DOMAIN p.chunks
    /\ p.chunks[c].id = seen.chunks[c]
    /\ p.chunks[c].bytes = c
=============================================================================
