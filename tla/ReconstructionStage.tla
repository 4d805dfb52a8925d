-------------------------- MODULE ReconstructionStage --------------------------
(* A root rebuilt from a package.  A call works in a stage directory beside the*)
(* destination, proves the whole tree there and publishes it by one rename that*)
(* replaces nothing; an owner file and a stage proof tell a later call what of *)
(* an interrupted one is its own.  No lock is taken: calls, people and crashes *)
(* interleave freely.                                                          *)
EXTENDS ReconstructionPackage

CONSTANTS
  Callers,       \* processes that make the call
  Operations,    \* operation ids
  OperationOf,   \* the operation each caller asks for
  Packages       \* the packages a call may be given
ASSUME OperationsAssumption == OperationOf \in [Callers -> Operations]

VARIABLES
  package,       \* the package on disk
  tree,          \* the directories made by Core, in the order they were made
  stage,         \* operation -> the directory under its stage name, 0 if none
  owner,         \* operation -> its owner file: {}, {CutShortRecord} or {the operation record}
  proof,         \* operation -> its stage proof: 0 none, -1 torn, or a directory
  root,          \* the destination: 0 absent, -1 somebody else's, or a directory
  call,          \* caller -> the call it is in
  edited         \* history: <<"people", d>> if d was edited since Core proved it,
                 \* <<"manifest", d>> if people ever changed its root manifest,
                 \* <<"rivals", d>> if two calls of one operation held d at once, or
                 \* one published what the other held

beside == <<stage, owner, proof>>
reconstructVars ==
  <<package, tree, stage, owner, proof, root, call, edited>>

References(p) == Indexes[call[p].plan].references

(* What is copied into the tree, in the order of the code: the root manifest,  *)
(* the regular bindings, the symbolic links.                                   *)
Files ==
  <<[path |-> "manifest", version |-> Version.root.version,
     exact |-> <<Version.root.content, FALSE>>]>>
  \o [i \in DOMAIN Regulars(Version) |->
        LET b == Regulars(Version)[i]
        IN  [path |-> b.path, version |-> b.version, exact |-> <<b.content, b.executable>>]]
Links == [i \in DOMAIN Symlinks(Version) |->
            LET b == Symlinks(Version)[i] IN [path |-> b.path, exact |-> <<b.content, "link">>]]
Visible == {b.path : b \in Bound(Version)}
Exact ==
  [path \in Visible \union {"manifest"} |->
     (CHOOSE f \in Range(Files) \union Range(Links) : f.path = path).exact]
Closure == Expected(Version)

(* Bindings are lists, of paths outside .folderbase and apart from "other".    *)
ASSUME VersionAssumption ==
  /\ Regulars(Version) \in Seq(Range(Regulars(Version)))
  /\ Symlinks(Version) \in Seq(Range(Symlinks(Version)))
  /\ {"manifest", "other"} \cap Visible = {}

Absent == <<"absent">>
Stray == <<"stray">>            \* what people put at a path
EditedManifest == <<"edited">>     \* a valid root manifest that people wrote
ForeignManifest == <<"foreign">>   \* one of another Folderbase, or of another protocol
Torn(p) == <<"torn", p, "cut">>        \* being written by p
Empty ==
  [active |-> {}, object |-> [id \in DOMAIN Closure |-> Absent],
   file |-> [path \in Visible \union {"manifest", "other"} |-> Absent],
   history |-> "none", completed |-> {}]

Call(pc, plan, dir, seen, item) ==
  [pc |-> pc, plan |-> plan, dir |-> dir, seen |-> seen, item |-> item, result |-> "none"]
Idle == Call("idle", 0, 0, {}, 1)
Op(p) == OperationOf[p]
Record(p) == [operation |-> Op(p), index |-> call[p].plan]   \* ReconstructionRecord
CutShortRecord == [torn |-> TRUE]          \* a record whose writer died
At(p, pc) == call[p].pc = pc
Becomes(p, c) == call' = [call EXCEPT ![p] = c]
Reaches(p, pc, item) ==
  Becomes(p, Call(pc, call[p].plan, call[p].dir, call[p].seen, item))
Goto(p, pc) == Reaches(p, pc, 1)
Into(p, pc) == Reaches(p, pc, call[p].item)
Advance(p, pc) == Reaches(p, pc, call[p].item + 1)
Answer(p, result) == Becomes(p, [Idle EXCEPT !.result = result])
Held(p) == tree[call[p].dir]

-----------------------------------------------------------------------------
(* The proof of a tree: every binding with its bytes and mode and nothing else.*)
(* An attestation takes any valid root manifest; only the one before history   *)
(* and the one of a replay ask whose it is.  The completion names the directory*)
(* and the manifest that were attested last.                                   *)
VisibleExact(d) ==
  /\ \A path \in Visible : tree[d].file[path] = Exact[path]
  /\ tree[d].file["other"] = Absent
RootManifest(d) == tree[d].file["manifest"]
Attests(m) == m \in {Exact["manifest"], EditedManifest, ForeignManifest}
Fits(m) == m = EditedManifest \/ (m = Exact["manifest"] /\ Version.root.fits)
Completion(record, d, m) == [operation |-> record, root |-> d, manifest |-> m]

(* The package is planned first, from its records alone.                       *)
PlanPackage(p) ==
  /\ At(p, "idle")
  /\ IF Plannable(package)
     THEN Becomes(p, Call("begin", package.index, 0, {}, 1))
     ELSE Answer(p, "refused")
  /\ UNCHANGED <<package, tree, beside, root, edited>>

(* Begin: a destination that is a directory is replayed, anything else there   *)
(* refuses the call, an absent one is reconstructed.                           *)
Begin(p) ==
  /\ At(p, "begin")
  /\ CASE root = 0 -> Goto(p, "package")
       [] root = -1 -> Answer(p, "occupied")
       [] OTHER -> Becomes(p, Call("replay", call[p].plan, root, {}, 1))
  /\ UNCHANGED <<package, tree, beside, root, edited>>

(* A package in the destination's directory, or around it, is refused first.   *)
Revalidate(p) ==
  /\ At(p, "package")
  /\ CASE ~package.apart -> Answer(p, "invalid")
       [] package.apart /\ Revalidates(package, call[p].plan) ->
            Becomes(p, Call("owner", call[p].plan, 0, {IdentityOf(package)}, 1))
       [] OTHER -> Answer(p, "changed")
  /\ UNCHANGED <<package, tree, beside, root, edited>>

(* The owner file is created and then written, not installed atomically.  An   *)
(* operation without one owns neither a proof nor a stage.                     *)
ReadOwner(p) ==
  /\ At(p, "owner")
  /\ LET o == Op(p)
     IN  CASE owner[o] = {Record(p)} -> Goto(p, "stage") /\ UNCHANGED owner
           [] owner[o] \notin {{}, {Record(p)}} -> Answer(p, "conflict") /\ UNCHANGED owner
           [] OTHER ->
                IF proof[o] # 0 \/ stage[o] # 0
                THEN Answer(p, "conflict") /\ UNCHANGED owner
                ELSE Goto(p, "ownerTorn") /\ owner' = [owner EXCEPT ![o] = {CutShortRecord}]
  /\ UNCHANGED <<package, tree, stage, proof, root, edited>>
WriteOwner(p) ==
  /\ At(p, "ownerTorn")
  /\ owner' = [owner EXCEPT ![Op(p)] = {Record(p)}]
  /\ Goto(p, "stage")
  /\ UNCHANGED <<package, tree, stage, proof, root, edited>>

Shared(d) == <<"rivals", d>> \in edited
Holds(p, pc, dir) == Becomes(p, Call(pc, call[p].plan, dir, call[p].seen, 1))
AcquireStage(p) ==
  /\ At(p, "stage")
  /\ LET o == Op(p)
     IN  \/ /\ stage[o] = 0 /\ proof[o] = 0
            /\ tree' = Append(tree, Empty)
            /\ stage' = [stage EXCEPT ![o] = Len(tree')]
            /\ Holds(p, "proof", Len(tree'))
         \/ /\ stage[o] # 0 /\ proof[o] = 0
            /\ Holds(p, "proof", stage[o])
            /\ UNCHANGED <<tree, stage>>
         \/ /\ stage[o] # 0 /\ proof[o] = stage[o]
            /\ Holds(p, "prepare", stage[o])
            /\ UNCHANGED <<tree, stage>>
         \/ /\ proof[o] \notin {0, stage[o]}
            /\ Answer(p, "conflict")
            /\ UNCHANGED <<tree, stage>>
  /\ edited' = edited \union
       {<<"rivals", call[q].dir>> : q \in {q \in Callers \ {p} :
                                            call[q].dir # 0 /\ call[q].dir = call'[p].dir}}
  /\ UNCHANGED <<package, owner, proof, root>>
PersistProof(p) ==
  /\ At(p, "proof")
  /\ IF proof[Op(p)] # 0
     THEN Answer(p, "failed") /\ UNCHANGED proof
     ELSE Goto(p, "proofTorn") /\ proof' = [proof EXCEPT ![Op(p)] = -1]
  /\ UNCHANGED <<package, tree, stage, owner, root, edited>>
WriteProof(p) ==
  /\ At(p, "proofTorn")
  /\ proof' = [proof EXCEPT ![Op(p)] = call[p].dir]
  /\ Goto(p, "prepare")
  /\ UNCHANGED <<package, tree, stage, owner, root, edited>>

-----------------------------------------------------------------------------
(* Everything below works on the directory the call holds, whatever its name.  *)
Prepare(p) ==
  /\ At(p, "prepare")
  /\ IF Held(p).active \in {{}, {Record(p)}}
     THEN /\ tree' = [tree EXCEPT ![call[p].dir].active = {Record(p)}]
          /\ Goto(p, "recheck")
     ELSE Answer(p, "conflict") /\ UNCHANGED tree
  /\ UNCHANGED <<package, beside, root, edited>>

(* The package is validated again before and after it is read: same files.     *)
SamePackage(p) ==
  Revalidates(package, call[p].plan) /\ call[p].seen = {IdentityOf(package)}
Recheck(p, from, next) ==
  /\ At(p, from)
  /\ IF SamePackage(p) THEN Goto(p, next) ELSE Answer(p, "changed")
  /\ UNCHANGED <<package, tree, beside, root, edited>>

(* materialize_reconstruction begins with the modes: an Object Version that is *)
(* live and deleted has one, and the plan did not compare them.                *)
CheckFidelity(p) ==
  /\ At(p, "fidelity")
  /\ IF FidelityAgrees(Version, Indexes[call[p].plan].fidelity)
     THEN Goto(p, "objects") ELSE Answer(p, "mismatch")
  /\ UNCHANGED <<package, tree, beside, root, edited>>

Seen(p) == CHOOSE s \in call[p].seen : TRUE

(* write_verified_package_object: what a dead call left is kept only if it     *)
(* verifies, is removed and copied again otherwise, and is read back by name.  *)
PutObject(p, id, value) == tree' = [tree EXCEPT ![call[p].dir].object[id] = value]
PutFile(p, path, value) == tree' = [tree EXCEPT ![call[p].dir].file[path] = value]
CopyObject(p) ==
  /\ At(p, "objects")
  /\ IF call[p].item > Len(References(p)) THEN Goto(p, "files") /\ UNCHANGED tree
     ELSE LET r == References(p)[call[p].item]
              here == Held(p).object[r.version]
          IN  CASE here = Absent -> PutObject(p, r.version, Torn(p)) /\ Into(p, "object")
                [] here = <<r.manifest.object>> ->
                     /\ IF Readable(package, Seen(p), r.manifest)
                        THEN Advance(p, "objects") ELSE Answer(p, "changed")
                     /\ UNCHANGED tree
                [] OTHER -> Into(p, "dropObject") /\ UNCHANGED tree
  /\ UNCHANGED <<package, beside, root, edited>>
FillObject(p) ==
  /\ At(p, "object")
  /\ LET r == References(p)[call[p].item]
         filled == IF Held(p).object[r.version] = Torn(p) THEN <<r.manifest.object>>
                   ELSE Held(p).object[r.version]
     IN  IF Readable(package, Seen(p), r.manifest)
         THEN /\ PutObject(p, r.version, filled)
              /\ IF filled = <<r.manifest.object>> THEN Advance(p, "objects") ELSE Answer(p, "failed")
         ELSE Answer(p, "changed") /\ UNCHANGED tree
  /\ UNCHANGED <<package, beside, root, edited>>

(* copy_verified_stage_object, for the root manifest and each regular file.    *)
CopyFileOnce(p) ==       \* a wrong variant: what a dead call left torn is refused
  /\ At(p, "files")
  /\ IF call[p].item > Len(Files) THEN Goto(p, "links") /\ UNCHANGED tree
     ELSE LET f == Files[call[p].item]
              here == Held(p).file[f.path]
          IN  CASE here = Absent -> PutFile(p, f.path, Torn(p)) /\ Into(p, "file")
                [] here = f.exact -> Advance(p, "files") /\ UNCHANGED tree
                [] OTHER -> Answer(p, "conflict") /\ UNCHANGED tree
  /\ UNCHANGED <<package, beside, root, edited>>
CopyFile(p) ==
  /\ At(p, "files")
  /\ IF call[p].item > Len(Files) THEN Goto(p, "links") /\ UNCHANGED tree
     ELSE LET f == Files[call[p].item]
              here == Held(p).file[f.path]
          IN  CASE here = Absent -> PutFile(p, f.path, Torn(p)) /\ Into(p, "file")
                [] here = f.exact -> Advance(p, "files") /\ UNCHANGED tree
                [] OTHER -> Into(p, "dropFile") /\ UNCHANGED tree
  /\ UNCHANGED <<package, beside, root, edited>>
FillFile(p) ==
  /\ At(p, "file")
  /\ LET f == Files[call[p].item]
         r == CHOOSE r \in Range(References(p)) : r.version = f.version
     IN  IF Held(p).object[r.version] = <<r.manifest.object>>
         THEN /\ IF Held(p).file[f.path] = Torn(p) THEN PutFile(p, f.path, f.exact)
                 ELSE UNCHANGED tree
              /\ Advance(p, "files")
         ELSE Answer(p, "failed") /\ UNCHANGED tree
  /\ UNCHANGED <<package, beside, root, edited>>

(* Both remove by name what they found torn, whatever it is by then.           *)
DropTorn(p) ==
  /\ \/ /\ At(p, "dropObject")
        /\ LET id == References(p)[call[p].item].version
           IN  IF Held(p).object[id] = Absent THEN Answer(p, "failed") /\ UNCHANGED tree
               ELSE PutObject(p, id, Absent) /\ Into(p, "objects")
     \/ /\ At(p, "dropFile")
        /\ LET path == Files[call[p].item].path
           IN  IF Held(p).file[path] = Absent THEN Answer(p, "failed") /\ UNCHANGED tree
               ELSE PutFile(p, path, Absent) /\ Into(p, "files")
  /\ UNCHANGED <<package, beside, root, edited>>

CreateLink(p) ==
  /\ At(p, "links")
  /\ IF call[p].item > Len(Links) THEN Goto(p, "history") /\ UNCHANGED tree
     ELSE LET l == Links[call[p].item]
          IN  CASE Held(p).file[l.path] = Absent -> PutFile(p, l.path, l.exact) /\ Advance(p, "links")
                [] Held(p).file[l.path] = l.exact -> Advance(p, "links") /\ UNCHANGED tree
                [] OTHER -> Answer(p, "conflict") /\ UNCHANGED tree
  /\ UNCHANGED <<package, beside, root, edited>>
=============================================================================
