----------------------------- MODULE VersionDiff -----------------------------
(***************************************************************************)
(* FolderbaseVersion::diff: what changed between two Versions of one       *)
(* Folderbase.  One pass over the bindings goes by Object and one by path, *)
(* and they have to agree on who reports what: a path can be vacated by    *)
(* one Object and taken by another, which may itself come from elsewhere.  *)
(*                                                                         *)
(* A state here is a Version with the root manifest it names, and with the *)
(* kind of what each exclusion leaves out.  The changes are a set; SortKey *)
(* is the order the code lists them in.                                    *)
(***************************************************************************)
EXTENDS FolderbaseVersion

ValidState(v) == Valid([v EXCEPT !.exclusions = DOMAIN v.exclusions])

\* The two paths of an Object that is live on both sides.
Continued(v, w) ==
  {m \in (DOMAIN v.bindings) \X (DOMAIN w.bindings) :
     v.bindings[m[1]].object = w.bindings[m[2]].object}

RootManifestUpdated(v, w) ==
  IF v.manifest = w.manifest THEN {}
  ELSE {[kind |-> "manifest", from |-> v.manifest, to |-> w.manifest]}

Moved(v, w) ==
  {[kind |-> "moved", path |-> m[1], to |-> m[2], object |-> v.bindings[m[1]].object] :
     m \in {n \in Continued(v, w) : n[1] # n[2]}}

\* Kind, Object Version and content; a binding's record here has no path.
StateEqIgnoringPath(b, c) == b = c

Updated(v, w) ==
  {[kind |-> "updated", path |-> m[2], object |-> w.bindings[m[2]].object,
    from |-> v.bindings[m[1]].over, to |-> w.bindings[m[2]].over] :
     m \in {n \in Continued(v, w) :
            ~ StateEqIgnoringPath(v.bindings[n[1]], w.bindings[n[2]])}}

Added(v, w) ==
  {[kind |-> "added", path |-> p, object |-> w.bindings[p].object] :
     p \in {q \in DOMAIN w.bindings \ DOMAIN v.bindings :
              w.bindings[q].object \notin LiveObjects(v)}}

Deleted(v, w) ==
  {[kind |-> "deleted", path |-> p, object |-> v.bindings[p].object,
    tombstone |-> p \in DOMAIN w.tombstones /\ w.tombstones[p].object = v.bindings[p].object] :
     p \in {q \in DOMAIN v.bindings \ DOMAIN w.bindings :
              v.bindings[q].object \notin LiveObjects(w)}}

Recreated(v, w) ==
  {[kind |-> "recreated", path |-> p, previous |-> v.bindings[p].object,
    object |-> w.bindings[p].object] :
     p \in {q \in DOMAIN v.bindings \cap DOMAIN w.bindings :
              v.bindings[q].object # w.bindings[q].object}}

\* The entries of f that g does not have as they are.
Dropped(f, g) == {p \in DOMAIN f : p \notin DOMAIN g \/ f[p] # g[p]}

\* A Tombstone that changed under its Object is removed and added.
TombstoneChanges(v, w) ==
  {[kind |-> "tombstone_removed", path |-> p, object |-> v.tombstones[p].object] :
     p \in Dropped(v.tombstones, w.tombstones)}
  \cup
  {[kind |-> "tombstone_added", path |-> p, object |-> w.tombstones[p].object] :
     p \in Dropped(w.tombstones, v.tombstones)}

ExclusionChanges(v, w) ==
  {[kind |-> "exclusion_removed", path |-> p, excluded |-> v.exclusions[p]] :
     p \in Dropped(v.exclusions, w.exclusions)}
  \cup
  {[kind |-> "exclusion_added", path |-> p, excluded |-> w.exclusions[p]] :
     p \in Dropped(w.exclusions, v.exclusions)}

Diff(v, w) ==
  UNION {RootManifestUpdated(v, w), Moved(v, w), Updated(v, w), Added(v, w), Deleted(v, w),
         Recreated(v, w), TombstoneChanges(v, w), ExclusionChanges(v, w)}

\* Where change_sort_key puts each kind of change among those of one path.
Rank ==
  [manifest |-> 0, moved |-> 1, recreated |-> 2, added |-> 3, updated |-> 4, deleted |-> 5,
   tombstone_added |-> 6, tombstone_removed |-> 7, exclusion_added |-> 8,
   exclusion_removed |-> 9]
SortKey(c) ==
  [path   |-> IF c.kind = "manifest" THEN None ELSE c.path,
   rank   |-> Rank[c.kind],
   object |-> IF c.kind \in {"manifest", "exclusion_added", "exclusion_removed"}
              THEN None ELSE c.object]

-----------------------------------------------------------------------------
(* What a reader of the list may rely on.                                  *)

Whereabouts(v) == {<<p, v.bindings[p].object>> : p \in DOMAIN v.bindings}

\* The older state's bindings with the listed changes made to them: an Object
\* leaves the path it moved from, was deleted at or lost to another, and
\* arrives where it moved to, was added or took over.
OfKind(changes, kinds) == {c \in changes : c.kind \in kinds}
Replayed(v, changes) ==
  {e \in Whereabouts(v) :
     ~ \E c \in OfKind(changes, {"moved", "deleted", "recreated"}) : c.path = e[1]}
  \cup {<<c.to, c.object>> : c \in OfKind(changes, {"moved"})}
  \cup {<<c.path, c.object>> : c \in OfKind(changes, {"added", "recreated"})}

\* The older state and the list give the newer state's bindings: no arrival,
\* departure, swap or takeover is missing from the list or told wrongly.
Complete(v, w) == Replayed(v, Diff(v, w)) = Whereabouts(w)

\* An Object is told as updated exactly when its kind, Object Version or content
\* changed, whether it moved meanwhile or not.
EditsTold(v, w) ==
  \A m \in Continued(v, w) :
    (\E c \in OfKind(Diff(v, w), {"updated"}) : c.path = m[2])
    <=> v.bindings[m[1]] # w.bindings[m[2]]

\* No two changes of one list have the same place in it, so the list of a pair
\* of Versions is one list, whatever the maps it is gathered from.
OrderIsTotal(v, w) == \A c, d \in Diff(v, w) : SortKey(c) = SortKey(d) => c = d

\* Nothing is left out that a Version records: an empty list means equal states.
EmptyMeansEqual(v, w) ==
  Diff(v, w) = {} <=> /\ v.manifest = w.manifest
                      /\ v.bindings = w.bindings
                      /\ v.tombstones = w.tombstones
                      /\ v.exclusions = w.exclusions
=============================================================================
