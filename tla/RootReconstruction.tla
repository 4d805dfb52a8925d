-------------------------- MODULE RootReconstruction --------------------------
(* The second half of a reconstruction: history, proof, publication and the    *)
(* retirement of the ownership records; replay of a published root; people and *)
(* crashes; and what must hold of all of it.                                   *)
EXTENDS ReconstructionStage

(* install_reconstructed_history: records, associations and the Version first, *)
(* Local Head when every Object they name verifies, projections last.          *)
ObjectsExact(p) ==
  \A r \in Range(References(p)) : Held(p).object[r.version] = <<r.manifest.object>>
SetHistory(p, value) == tree' = [tree EXCEPT ![call[p].dir].history = value]
InstallRecords(p) ==
  /\ At(p, "history")
  /\ IF Fits(RootManifest(call[p].dir)) /\ ObjectsExact(p)
     THEN /\ IF Held(p).history = "none" THEN SetHistory(p, "records")
             ELSE UNCHANGED tree
          /\ Goto(p, "head")
     ELSE Answer(p, "conflict") /\ UNCHANGED tree
  /\ UNCHANGED <<package, beside, root, edited>>
InstallHead(p) ==
  /\ At(p, "head")
  /\ IF ObjectsExact(p)
     THEN SetHistory(p, "head") /\ Goto(p, "recheckAgain")
     ELSE Answer(p, "conflict") /\ UNCHANGED tree
  /\ UNCHANGED <<package, beside, root, edited>>

(* The visible tree, then the root manifest, which is none of it: the completion*)
(* and every later check compare the manifest with the one attested here.      *)
AttestAs(p, pc) ==
  Becomes(p, Call(pc, call[p].plan, call[p].dir, {RootManifest(call[p].dir)}, 1))
VerifyStageOnly(p) ==    \* a wrong variant: published without a completion record
  /\ At(p, "verify")
  /\ IF VisibleExact(call[p].dir) /\ Attests(RootManifest(call[p].dir))
     THEN AttestAs(p, "publish") /\ edited' = edited \ {<<"people", call[p].dir>>}
     ELSE Answer(p, "conflict") /\ UNCHANGED edited
  /\ UNCHANGED <<package, tree, beside, root>>
VerifyStage(p) ==
  /\ At(p, "verify")
  /\ IF VisibleExact(call[p].dir) /\ Attests(RootManifest(call[p].dir))
     THEN AttestAs(p, "complete") /\ edited' = edited \ {<<"people", call[p].dir>>}
     ELSE Answer(p, "conflict") /\ UNCHANGED edited
  /\ UNCHANGED <<package, tree, beside, root>>
Complete(p) ==
  /\ At(p, "complete")
  /\ LET done == {Completion(Record(p), call[p].dir, m) : m \in call[p].seen}
     IN  IF Held(p).completed \in {{}, done}
         THEN tree' = [tree EXCEPT ![call[p].dir].completed = done] /\ Goto(p, "publish")
         ELSE Answer(p, "conflict") /\ UNCHANGED tree
  /\ UNCHANGED <<package, beside, root, edited>>

(* The rename is by name: it moves whatever the stage name is by then.         *)
PublishOver(p) ==        \* a wrong variant: replaces what is there
  /\ At(p, "publish")
  /\ root' = stage[Op(p)]
  /\ stage' = [stage EXCEPT ![Op(p)] = 0]
  /\ Goto(p, "confirm")
  /\ UNCHANGED <<package, tree, owner, proof, edited>>
Publish(p) ==
  /\ At(p, "publish")
  /\ LET o == Op(p)
     IN  CASE stage[o] = 0 -> Answer(p, "failed") /\ UNCHANGED <<stage, root, edited>>
           [] stage[o] # 0 /\ root # 0 -> Answer(p, "occupied") /\ UNCHANGED <<stage, root, edited>>
           [] OTHER -> /\ root' = stage[o]
                       /\ stage' = [stage EXCEPT ![o] = 0]
                       /\ Goto(p, "confirm")
                       /\ edited' = IF stage[o] = call[p].dir THEN edited
                                    ELSE edited \union {<<"rivals", stage[o]>>}
  /\ UNCHANGED <<package, tree, owner, proof>>
Confirm(p) ==
  /\ At(p, "confirm")
  /\ IF /\ root = call[p].dir
        /\ VisibleExact(root) /\ call[p].seen = {RootManifest(root)}
     THEN Goto(p, "retireProof") ELSE Answer(p, "conflict")
  /\ UNCHANGED <<package, tree, beside, root, edited>>

(* retire_stage_owner: the proof goes first, so that an owner file alone never *)
(* speaks for a stage that is gone.                                            *)
RetireProof(p) ==
  /\ At(p, "retireProof")
  /\ IF owner[Op(p)] = {Record(p)} /\ proof[Op(p)] = call[p].dir
     THEN proof' = [proof EXCEPT ![Op(p)] = 0] /\ Goto(p, "retireOwner")
     ELSE Answer(p, "conflict") /\ UNCHANGED proof
  /\ UNCHANGED <<package, tree, stage, owner, root, edited>>
RetireOwner(p) ==
  /\ At(p, "retireOwner")
  /\ IF owner[Op(p)] = {} THEN Answer(p, "failed") ELSE Answer(p, "done")
  /\ owner' = [owner EXCEPT ![Op(p)] = {}]
  /\ UNCHANGED <<package, tree, stage, proof, root, edited>>

(* replay_published_root: a root that is exactly what this operation completed *)
(* is reported as done, and what was left beside it is retired.                *)
Replay(p) ==
  /\ At(p, "replay")
  /\ LET o == Op(p)  d == call[p].dir
     IN  /\ CASE ~( /\ tree[d].completed = {Completion(Record(p), d, RootManifest(d))}
                    /\ tree[d].history # "none"
                    /\ Fits(RootManifest(d)) /\ VisibleExact(d) ) -> Answer(p, "occupied")
              [] owner[o] = {} /\ proof[o] = 0 -> Answer(p, "replayed")
              [] owner[o] = {Record(p)} /\ proof[o] = d -> Goto(p, "replayProof")
              [] owner[o] = {Record(p)} /\ proof[o] = 0 -> Goto(p, "replayOwner")
              [] OTHER -> Answer(p, "conflict")
  /\ UNCHANGED <<package, tree, beside, root, edited>>
ReplayProof(p) ==
  /\ At(p, "replayProof")
  /\ IF proof[Op(p)] = 0 THEN Answer(p, "failed") ELSE Goto(p, "replayOwner")
  /\ proof' = [proof EXCEPT ![Op(p)] = 0]
  /\ UNCHANGED <<package, tree, stage, owner, root, edited>>
ReplayOwner(p) ==
  /\ At(p, "replayOwner")
  /\ IF owner[Op(p)] = {} THEN Answer(p, "failed") ELSE Answer(p, "replayed")
  /\ owner' = [owner EXCEPT ![Op(p)] = {}]
  /\ UNCHANGED <<package, tree, stage, proof, root, edited>>

ReconstructStep(p) ==
  \/ PlanPackage(p) \/ Begin(p) \/ Revalidate(p) \/ ReadOwner(p) \/ WriteOwner(p) \/ AcquireStage(p)
  \/ PersistProof(p) \/ WriteProof(p) \/ Prepare(p)
  \/ Recheck(p, "recheck", "fidelity") \/ CheckFidelity(p) \/ CopyObject(p) \/ FillObject(p)
  \/ CopyFile(p) \/ FillFile(p) \/ DropTorn(p) \/ CreateLink(p)
  \/ InstallRecords(p) \/ InstallHead(p) \/ Recheck(p, "recheckAgain", "verify")
  \/ VerifyStage(p) \/ Complete(p) \/ Publish(p) \/ Confirm(p)
  \/ RetireProof(p) \/ RetireOwner(p)
  \/ Replay(p) \/ ReplayProof(p) \/ ReplayOwner(p)

-----------------------------------------------------------------------------
(* People and other programs: files in any tree, the stage, the destination    *)
(* and the package.                                                            *)
Writable(path) ==
  {Absent, Stray}
    \union (IF path = "manifest" THEN {EditedManifest, ForeignManifest} ELSE {})
EditTree ==
  /\ \E d \in DOMAIN tree : \E path \in DOMAIN Empty.file :
       /\ \E value \in Writable(path) :
            /\ tree[d].file[path] # value
            /\ tree' = [tree EXCEPT ![d].file[path] = value]
       /\ edited' = edited \union {<<"people", d>>}
                       \union (IF path = "manifest" THEN {<<"manifest", d>>} ELSE {})
  /\ UNCHANGED <<package, beside, root, call>>
MoveRoot ==
  /\ root' \in {0, -1} \ {root}
  /\ UNCHANGED <<package, tree, beside, call, edited>>
RemoveStage ==          \* people clean up after a call that died
  /\ \E o \in Operations :
       /\ stage[o] # 0 /\ \A p \in Callers : Op(p) = o => At(p, "idle")
       /\ stage' = [stage EXCEPT ![o] = 0]
  /\ UNCHANGED <<package, tree, owner, proof, root, call, edited>>
ChangePackage ==
  /\ \/ package' = [package EXCEPT !.foreign = TRUE]
     \/ \E i \in DOMAIN Indexes \ {package.index} : package' = [package EXCEPT !.index = i]
     \/ package' = [package EXCEPT !.id = @ + 1]
     \/ \E c \in DOMAIN package.chunks :
          \/ package' = [package EXCEPT !.chunks[c].bytes = "corrupted"]
          \/ package' = [package EXCEPT !.chunks[c].id = @ + 1]
          \/ package' = [package EXCEPT !.chunks =
                           [k \in DOMAIN package.chunks \ {c} |-> package.chunks[k]]]
  /\ UNCHANGED <<tree, beside, root, call, edited>>

PeopleMeddle == EditTree \/ MoveRoot \/ RemoveStage \/ ChangePackage
CallerDies(p) ==
  /\ ~At(p, "idle")
  /\ call' = [call EXCEPT ![p] = Idle]
  /\ UNCHANGED <<package, tree, beside, root, edited>>

ReconstructInit ==
  /\ package \in Packages
  /\ tree = <<>>
  /\ stage = [o \in Operations |-> 0]
  /\ owner = [o \in Operations |-> {}]
  /\ proof = [o \in Operations |-> 0]
  /\ root = 0
  /\ call = [p \in Callers |-> Idle]
  /\ edited = {}

-----------------------------------------------------------------------------
(* A directory Core published is the whole Version: every file, every Object   *)
(* Version its history names, Local Head and the completion a replay           *)
(* recognises, which names the root manifest that stands there, unless people  *)
(* changed the tree after Core proved it or two calls of one operation wrote   *)
(* into it at once.  Nobody can open half a root (root_reconstruction.rs       *)
(* publishes only a proved stage), and its manifest is the Version's own, of   *)
(* its Folderbase and protocol, unless people ever wrote another in the stage. *)
CompletedAs(d) ==
  {c \in tree[d].completed : c.root = d /\ c.operation.operation \in Operations}
WholeAs(c, d) ==
  /\ c.manifest = RootManifest(d) /\ Attests(c.manifest)
  /\ <<"manifest", d>> \notin edited => c.manifest = Exact["manifest"] /\ Fits(c.manifest)
  /\ \A id \in DOMAIN Closure :
       \E r \in Range(Indexes[c.operation.index].references) :
         r.version = id /\ tree[d].object[id] = <<r.manifest.object>>
RootIsWhole ==
  (root > 0 /\ <<"people", root>> \notin edited /\ ~Shared(root)) =>
    /\ VisibleExact(root)
    /\ tree[root].history = "head"
    /\ \E c \in CompletedAs(root) : WholeAs(c, root)

(* A record that a crash cut short is refused by every later call; otherwise   *)
(* the operation that won is published and owns nothing beside the root.       *)
CutShort == \E o \in Operations : owner[o] = {CutShortRecord} \/ proof[o] = -1
Settled ==
  /\ root > 0
  /\ \E c \in CompletedAs(root) :
       owner[c.operation.operation] = {} /\ proof[c.operation.operation] = 0
=============================================================================
