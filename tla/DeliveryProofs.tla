---------------------------- MODULE DeliveryProofs ----------------------------
(* Safety of delivery, for every package, Object, set of callers and receivers *)
(* and every bound: what appears at a destination is whole, and what is there  *)
(* is left alone.  And the archive decision of Availability.                   *)
EXTENDS Delivery, Availability, SequenceTheorems, FiniteSetTheorems, TLAPS

-----------------------------------------------------------------------------
(* The invariant of reconstruction.                                            *)

\* Where a call is: before it holds a directory, looking at a published root, or
\* at work in the directory it holds; Early until Local Head is installed there.
Outside == {"idle", "begin", "package", "owner", "ownerTorn", "stage"}
Replaying == {"replay", "replayProof", "replayOwner"}
Early ==
  {"proof", "proofTorn", "prepare", "recheck", "fidelity", "objects", "object",
   "dropObject", "files", "file", "dropFile", "links", "history", "head"}
PastHead == {"recheckAgain", "verify", "complete", "publish"}
Finished == {"confirm", "retireProof", "retireOwner"}
Works(p) == call[p].pc \in Early \cup PastHead \cup Finished

IsTree(t) ==
  t = [active |-> t.active, object |-> t.object, file |-> t.file,
       history |-> t.history, completed |-> t.completed]
TreesTyped == tree \in Seq(Range(tree)) /\ \A d \in 1..Len(tree) : IsTree(tree[d])

\* A directory has one name at most.
NamesTyped ==
  /\ stage = [o \in Operations |-> stage[o]]
  /\ \A o \in Operations : stage[o] \in 0..Len(tree)
  /\ \A o, n \in Operations : stage[o] = stage[n] /\ stage[o] # 0 => o = n
  /\ root \in -1..Len(tree)
  /\ root > 0 => \A o \in Operations : stage[o] # root

\* The plan names a reference for every Object Version the Version needs.
PlanCloses(i) ==
  \A id \in DOMAIN Closure : \E r \in Range(Indexes[i].references) : r.version = id
CallsTyped ==
  /\ call = [p \in Callers |-> call[p]]
  /\ \A p \in Callers :
       /\ call[p].pc \in Outside => call[p].dir = 0
       /\ call[p].pc \in Replaying \cup Early \cup PastHead \cup Finished =>
            call[p].dir \in 1..Len(tree)
       /\ call[p].pc \in Outside \cup Replaying \cup Early \cup PastHead \cup Finished
       /\ call[p].pc # "idle" => PlanCloses(call[p].plan)

\* Two calls at work in one directory are marked, and so is a call that is still
\* at work in a directory under the destination's name.
RivalsMarked ==
  \A p, q \in Callers :
    p # q /\ Works(p) /\ Works(q) /\ call[p].dir = call[q].dir => Shared(call[p].dir)
RootIsClosed ==
  \A p \in Callers :
    Works(p) /\ call[p].dir = root /\ ~ Shared(root) => call[p].pc \in Finished

\* What a call that works alone has proved of its directory.
Proved(p) ==
  LET d == call[p].dir IN
  /\ tree[d].history = "head" /\ ObjectsExact(p)
  /\ call[p].pc \in {"complete", "publish"} /\ <<"people", d>> \notin edited =>
       VisibleExact(d) /\ Attests(RootManifest(d)) /\ call[p].seen = {RootManifest(d)}
  /\ call[p].pc = "publish" =>
       tree[d].completed = {Completion(Record(p), d, m) : m \in call[p].seen}
ProofsHold ==
  \A p \in Callers :
    call[p].pc \in PastHead /\ ~ Shared(call[p].dir) => Proved(p)

ReconstructInv ==
  /\ TreesTyped /\ NamesTyped /\ CallsTyped
  /\ RivalsMarked /\ RootIsClosed /\ ProofsHold /\ RootIsWhole

\* The manifest nobody changed is not one that people write, and its Folderbase and
\* protocol were checked before the history was installed.
Tagged(d) == <<"manifest", d>> \in edited
ItemsTyped ==
  \A p \in Callers :
    /\ call[p].item \in Nat \ {0}
    /\ call[p].pc = "file" => call[p].item \in 1..Len(Files)
ManifestsMarked ==
  \A d \in 1..Len(tree) :
    /\ "manifest" \in DOMAIN tree[d].file
    /\ RootManifest(d) \in {EditedManifest, ForeignManifest} => Tagged(d)
ManifestsFit ==
  \A p \in Callers :
    call[p].pc \in {"head"} \cup PastHead => Tagged(call[p].dir) \/ Version.root.fits
ManifestInv == ItemsTyped /\ ManifestsMarked /\ ManifestsFit

-----------------------------------------------------------------------------
(* What one step of a call does.                                               *)

\* The call goes on as c: it ends, plans, looks at a published root or works on
\* in the directory it holds.
Follows(p, c) ==
  \/ c.pc = "idle" /\ c.dir = 0
  \/ /\ c.pc \in Outside /\ c.dir = 0
     /\ c.pc # "idle" => PlanCloses(c.plan)
  \/ /\ c.pc \in Replaying /\ c.dir \in 1..Len(tree)
     /\ PlanCloses(c.plan)
  \/ /\ c.dir = call[p].dir /\ c.plan = call[p].plan
     /\ \/ call[p].pc \in Early /\ c.pc \in Early
        \/ call[p].pc \in Finished /\ c.pc \in Finished
        \/ call[p].pc = "recheckAgain" /\ c.pc = "verify"
Moves(p) ==
  /\ UNCHANGED <<tree, stage, root, edited>>
  /\ \E c : Becomes(p, c) /\ Follows(p, c)

\* Only directory d changes.
ChangesOnly(d) ==
  /\ tree' \in Seq(Range(tree')) /\ Len(tree') = Len(tree)
  /\ \A e \in 1..Len(tree) : e # d => tree'[e] = tree[e]
  /\ IsTree(tree'[d])
Fills(p) ==
  /\ call[p].pc \in Early
  /\ ChangesOnly(call[p].dir)
  /\ UNCHANGED <<stage, root, edited>>
  /\ \E c : /\ Becomes(p, c)
            /\ \/ c.pc = "idle" /\ c.dir = 0
               \/ c.pc \in Early /\ c.dir = call[p].dir /\ c.plan = call[p].plan

\* A field of one directory is written.
LEMMA FieldsWritten ==
  ASSUME TreesTyped, NEW d \in 1..Len(tree), NEW v,
         \/ tree' = [tree EXCEPT ![d].active = v]
         \/ tree' = [tree EXCEPT ![d].history = v]
         \/ tree' = [tree EXCEPT ![d].completed = v]
  PROVE  /\ ChangesOnly(d) /\ tree'[d].object = tree[d].object
         /\ tree'[d].file = tree[d].file
         /\ tree' = [tree EXCEPT ![d].active = v] => tree'[d].history = tree[d].history
         /\ tree' = [tree EXCEPT ![d].history = v] =>
              tree'[d].history = v /\ tree'[d].completed = tree[d].completed
         /\ tree' = [tree EXCEPT ![d].completed = v] =>
              tree'[d].completed = v /\ tree'[d].history = tree[d].history
<1>1. IsTree(tree[d])
  BY DEF TreesTyped
<1>2. DOMAIN tree = 1..Len(tree)
  BY DEF TreesTyped
<1>3. DOMAIN tree' = 1..Len(tree)
  BY <1>2
<1>4. /\ \A e \in 1..Len(tree) : e # d => tree'[e] = tree[e]
      /\ IsTree(tree'[d])
  BY <1>1, <1>2 DEF IsTree
<1>5. tree' = [e \in 1..Len(tree) |-> tree'[e]] /\ Len(tree) \in Nat
  BY <1>2, <1>3 DEF TreesTyped
<1>6. tree' \in Seq(Range(tree')) /\ Len(tree') = Len(tree)
  BY <1>3, <1>5 DEF Range
<1>7. ChangesOnly(d)
  BY <1>4, <1>6 DEF ChangesOnly
<1>8. tree'[d].object = tree[d].object /\ tree'[d].file = tree[d].file
  BY <1>1, <1>2 DEF IsTree
<1>9. tree' = [tree EXCEPT ![d].active = v] => tree'[d].history = tree[d].history
  BY <1>1, <1>2 DEF IsTree
<1>10. tree' = [tree EXCEPT ![d].history = v] =>
         tree'[d].history = v /\ tree'[d].completed = tree[d].completed
  BY <1>1, <1>2 DEF IsTree
<1>11. tree' = [tree EXCEPT ![d].completed = v] =>
         tree'[d].completed = v /\ tree'[d].history = tree[d].history
  BY <1>1, <1>2 DEF IsTree
<1>12. QED
  BY <1>7, <1>8, <1>9, <1>10, <1>11

\* So is one entry of a directory.
LEMMA EntriesWritten ==
  ASSUME TreesTyped, NEW d \in 1..Len(tree), NEW x, NEW v,
         \/ tree' = [tree EXCEPT ![d].object[x] = v]
         \/ tree' = [tree EXCEPT ![d].file[x] = v]
  PROVE  /\ ChangesOnly(d)
         /\ tree' = [tree EXCEPT ![d].file[x] = v] =>
              /\ tree'[d].object = tree[d].object /\ tree'[d].history = tree[d].history
              /\ tree'[d].completed = tree[d].completed
<1>1. IsTree(tree[d])
  BY DEF TreesTyped
<1>2. DOMAIN tree = 1..Len(tree) /\ Len(tree) \in Nat
  BY DEF TreesTyped
<1>3. DOMAIN tree' = 1..Len(tree)
  BY <1>2
<1>4. /\ \A e \in 1..Len(tree) : e # d => tree'[e] = tree[e]
      /\ IsTree(tree'[d])
  BY <1>1, <1>2 DEF IsTree
<1>5. tree' = [e \in 1..Len(tree) |-> tree'[e]]
  BY <1>2, <1>3
<1>6. tree' \in Seq(Range(tree')) /\ Len(tree') = Len(tree)
  BY <1>2, <1>3, <1>5 DEF Range
<1>7. ChangesOnly(d)
  BY <1>4, <1>6 DEF ChangesOnly
<1>8. tree' = [tree EXCEPT ![d].file[x] = v] =>
        /\ tree'[d].object = tree[d].object /\ tree'[d].history = tree[d].history
        /\ tree'[d].completed = tree[d].completed
  BY <1>1, <1>2 DEF IsTree
<1>9. QED
  BY <1>7, <1>8

\* Of the files, the one that is written changes; an Object is none of them.
PutsFile(d, x, v) == tree' = [tree EXCEPT ![d].file[x] = v]
LEMMA FilesWritten ==
  ASSUME TreesTyped, NEW d \in 1..Len(tree), NEW x, NEW v, PutsFile(d, x, v)
  PROVE  ChangesOnly(d) /\ tree'[d].file = [tree[d].file EXCEPT ![x] = v]
<1>1. ChangesOnly(d)
  BY EntriesWritten DEF PutsFile
<1>2. IsTree(tree[d]) /\ d \in DOMAIN tree
  BY DEF TreesTyped
<1>3. QED
  BY <1>1, <1>2 DEF IsTree, PutsFile
LEMMA ObjectsWritten ==
  ASSUME TreesTyped, NEW d \in 1..Len(tree), NEW x, NEW v,
         tree' = [tree EXCEPT ![d].object[x] = v]
  PROVE  ChangesOnly(d) /\ tree'[d].file = tree[d].file
<1>1. ChangesOnly(d)
  BY EntriesWritten
<1>2. IsTree(tree[d]) /\ d \in DOMAIN tree
  BY DEF TreesTyped
<1>3. QED
  BY <1>1, <1>2 DEF IsTree

\* Nothing written is a change too.
LEMMA NothingWritten ==
  ASSUME TreesTyped, NEW d \in 1..Len(tree), tree' = tree
  PROVE  ChangesOnly(d)
BY DEF TreesTyped, ChangesOnly

\* A call answered is over.
LEMMA Answered ==
  ASSUME NEW p, NEW result, Answer(p, result)
  PROVE  \E c : Becomes(p, c) /\ c.pc = "idle" /\ c.dir = 0
<1> DEFINE c == [Idle EXCEPT !.result = result]
<1>1. c.pc = "idle" /\ c.dir = 0
  BY DEF Idle, Call
<1>2. QED
  BY <1>1 DEF Answer

\* A call that goes on keeps its plan and its directory.
LEMMA Reached ==
  ASSUME NEW p, NEW pc, NEW item, Reaches(p, pc, item)
  PROVE  \E c : /\ Becomes(p, c) /\ c.pc = pc /\ c.item = item
                /\ c.dir = call[p].dir /\ c.plan = call[p].plan /\ c.seen = call[p].seen
<1> DEFINE c == Call(pc, call[p].plan, call[p].dir, call[p].seen, item)
<1>1. /\ c.pc = pc /\ c.item = item
      /\ c.dir = call[p].dir /\ c.plan = call[p].plan /\ c.seen = call[p].seen
  BY DEF Call
<1>2. QED
  BY <1>1 DEF Reaches

\* A package that is planned is closed over its Version.
LEMMA PlannableCloses ==
  ASSUME NEW k, Plannable(k)
  PROVE  PlanCloses(k.index)
BY DEF Plannable, Closed, ReferencesMatch, PlanCloses, Closure

\* Before a call has a directory.
LEMMA OutsideMoves ==
  ASSUME CallsTyped, NamesTyped, NEW p \in Callers,
         PlanPackage(p) \/ Begin(p) \/ Revalidate(p) \/ ReadOwner(p) \/ WriteOwner(p)
  PROVE  Moves(p)
<1>0. UNCHANGED <<tree, stage, root, edited>>
  BY DEF PlanPackage, Begin, Revalidate, ReadOwner, WriteOwner, beside
<1>1. ASSUME NEW result, Answer(p, result)
      PROVE  Moves(p)
  BY <1>0, <1>1, Answered DEF Moves, Follows
<1>2. ASSUME NEW pc, Goto(p, pc), pc \in Outside, call[p].pc \in Outside, call[p].pc # "idle"
      PROVE  Moves(p)
  <2>1. PICK c : Becomes(p, c) /\ c.pc = pc /\ c.dir = call[p].dir /\ c.plan = call[p].plan
    BY <1>2, Reached DEF Goto
  <2>2. c.dir = 0 /\ PlanCloses(c.plan)
    BY <1>2, <2>1 DEF CallsTyped
  <2>3. QED
    BY <1>0, <1>2, <2>1, <2>2 DEF Moves, Follows
<1>3. CASE PlanPackage(p)
  <2>1. CASE Plannable(package)
    <3> DEFINE c == Call("begin", package.index, 0, {}, 1)
    <3>1. c.pc = "begin" /\ c.dir = 0 /\ c.plan = package.index
      BY DEF Call
    <3>2. Becomes(p, c)
      BY <1>3, <2>1 DEF PlanPackage
    <3>3. PlanCloses(package.index)
      BY <2>1, PlannableCloses
    <3> HIDE DEF c
    <3>4. QED
      BY <1>0, <3>1, <3>2, <3>3 DEF Moves, Follows, Outside
  <2>2. CASE ~ Plannable(package)
    BY <1>1, <1>3, <2>2 DEF PlanPackage
  <2>3. QED
    BY <2>1, <2>2
<1>4. CASE Begin(p)
  <2>1. call[p].pc = "begin" /\ PlanCloses(call[p].plan)
    BY <1>4 DEF Begin, At, CallsTyped
  <2>2. CASE root = 0
    BY <1>2, <1>4, <2>1, <2>2 DEF Begin, Outside
  <2>3. CASE root = -1
    BY <1>1, <1>4, <2>3 DEF Begin
  <2>4. CASE root # 0 /\ root # -1
    <3> DEFINE c == Call("replay", call[p].plan, root, {}, 1)
    <3>1. c.pc = "replay" /\ c.dir = root /\ c.plan = call[p].plan
      BY DEF Call
    <3>2. Becomes(p, c)
      BY <1>4, <2>4 DEF Begin
    <3>3. root \in 1..Len(tree)
      BY <2>4 DEF NamesTyped
    <3> HIDE DEF c
    <3>4. QED
      BY <1>0, <2>1, <3>1, <3>2, <3>3 DEF Moves, Follows, Replaying
  <2>5. QED
    BY <2>2, <2>3, <2>4
<1>5. CASE Revalidate(p)
  <2>1. call[p].pc = "package" /\ PlanCloses(call[p].plan)
    BY <1>5 DEF Revalidate, At, CallsTyped
  <2>2. CASE package.apart /\ Revalidates(package, call[p].plan)
    <3> DEFINE c == Call("owner", call[p].plan, 0, {IdentityOf(package)}, 1)
    <3>1. c.pc = "owner" /\ c.dir = 0 /\ c.plan = call[p].plan
      BY DEF Call
    <3>2. Becomes(p, c)
      BY <1>5, <2>2 DEF Revalidate
    <3> HIDE DEF c
    <3>3. QED
      BY <1>0, <2>1, <3>1, <3>2 DEF Moves, Follows, Outside
  <2>3. CASE ~ (package.apart /\ Revalidates(package, call[p].plan))
    <3>1. Answer(p, "invalid") \/ Answer(p, "changed")
      BY <1>5, <2>3 DEF Revalidate
    <3>2. QED
      BY <1>1, <3>1
  <2>4. QED
    BY <2>2, <2>3
<1>6. CASE ReadOwner(p)
  <2>1. call[p].pc = "owner"
    BY <1>6 DEF ReadOwner, At
  <2>2. Goto(p, "stage") \/ Goto(p, "ownerTorn") \/ Answer(p, "conflict")
    BY <1>6 DEF ReadOwner
  <2>3. QED
    BY <1>1, <1>2, <2>1, <2>2 DEF Outside
<1>7. CASE WriteOwner(p)
  BY <1>2, <1>7 DEF WriteOwner, At, Outside
<1>8. QED
  BY <1>3, <1>4, <1>5, <1>6, <1>7

\* A call at a published root, and one that is done with it.
LEMMA LaterMoves ==
  ASSUME CallsTyped, NEW p \in Callers,
         \/ PersistProof(p) \/ WriteProof(p)
         \/ Recheck(p, "recheck", "fidelity") \/ CheckFidelity(p)
         \/ Recheck(p, "recheckAgain", "verify")
         \/ Confirm(p) \/ RetireProof(p) \/ RetireOwner(p)
         \/ Replay(p) \/ ReplayProof(p) \/ ReplayOwner(p)
  PROVE  Moves(p)
<1>0. UNCHANGED <<tree, stage, root, edited>>
  BY DEF PersistProof, WriteProof, Recheck, CheckFidelity, Confirm, RetireProof, RetireOwner, Replay,
    ReplayProof, ReplayOwner, beside
<1>1. ASSUME NEW result, Answer(p, result)
      PROVE  Moves(p)
  BY <1>0, <1>1, Answered DEF Moves, Follows
<1>2. ASSUME NEW pc, Goto(p, pc), pc \in Replaying, call[p].pc \in Replaying
      PROVE  Moves(p)
  <2>1. PICK c : Becomes(p, c) /\ c.pc = pc /\ c.dir = call[p].dir /\ c.plan = call[p].plan
    BY <1>2, Reached DEF Goto
  <2>2. c.dir \in 1..Len(tree) /\ PlanCloses(c.plan)
    BY <1>2, <2>1 DEF CallsTyped, Replaying
  <2>3. QED
    BY <1>0, <1>2, <2>1, <2>2 DEF Moves, Follows
<1>3. ASSUME NEW pc, Goto(p, pc),
             \/ call[p].pc \in Early /\ pc \in Early
             \/ call[p].pc \in Finished /\ pc \in Finished
             \/ call[p].pc = "recheckAgain" /\ pc = "verify"
      PROVE  Moves(p)
  <2>1. PICK c : Becomes(p, c) /\ c.pc = pc /\ c.dir = call[p].dir /\ c.plan = call[p].plan
    BY <1>3, Reached DEF Goto
  <2>2. Follows(p, c)
    BY <1>3, <2>1 DEF Follows
  <2>3. QED
    BY <1>0, <2>1, <2>2 DEF Moves
<1>4. CASE PersistProof(p) \/ WriteProof(p)
  BY <1>1, <1>3, <1>4 DEF PersistProof, WriteProof, At, Early
<1>5. CASE \/ Recheck(p, "recheck", "fidelity") \/ CheckFidelity(p)
           \/ Recheck(p, "recheckAgain", "verify")
  BY <1>1, <1>3, <1>5 DEF Recheck, CheckFidelity, At, Early
<1>6. CASE Confirm(p) \/ RetireProof(p)
  BY <1>1, <1>3, <1>6 DEF Confirm, RetireProof, At, Finished
<1>7. CASE RetireOwner(p) \/ ReplayOwner(p)
  BY <1>1, <1>7 DEF RetireOwner, ReplayOwner
<1>8. CASE Replay(p)
  <2>1. call[p].pc = "replay"
    BY <1>8 DEF Replay, At
  <2>2. \/ Answer(p, "occupied") \/ Answer(p, "replayed") \/ Answer(p, "conflict")
        \/ Goto(p, "replayProof") \/ Goto(p, "replayOwner")
    BY <1>8 DEF Replay
  <2>3. QED
    BY <1>1, <1>2, <2>1, <2>2 DEF Replaying
<1>9. CASE ReplayProof(p)
  BY <1>1, <1>2, <1>9 DEF ReplayProof, At, Replaying
<1>10. QED
  BY <1>4, <1>5, <1>6, <1>7, <1>8, <1>9

\* The work in the stage, until Local Head.
LEMMA StageFills ==
  ASSUME TreesTyped, CallsTyped, NEW p \in Callers,
         \/ Prepare(p) \/ CopyObject(p) \/ FillObject(p)
         \/ CopyFile(p) \/ FillFile(p) \/ DropTorn(p) \/ CreateLink(p)
         \/ InstallRecords(p)
  PROVE  Fills(p)
<1>d. PICK d : d = call[p].dir
  OBVIOUS
<1>0. UNCHANGED <<stage, root, edited>>
  BY DEF Prepare, CopyObject, FillObject, CopyFile, FillFile, DropTorn, CreateLink,
    InstallRecords, beside
<1>1. call[p].pc \in Early
  BY DEF Prepare, CopyObject, FillObject, CopyFile, FillFile, DropTorn, CreateLink,
    InstallRecords, At, Early
<1>2. d \in 1..Len(tree)
  BY <1>d, <1>1 DEF CallsTyped
<1> DEFINE Ends == \E c : /\ Becomes(p, c)
                          /\ \/ c.pc = "idle" /\ c.dir = 0
                             \/ /\ c.pc \in Early /\ c.dir = call[p].dir
                                /\ c.plan = call[p].plan
<1>3. Ends
  <2>1. ASSUME NEW result, Answer(p, result)
        PROVE  Ends
    BY <2>1, Answered
  <2>2. ASSUME NEW pc \in Early, NEW item, Reaches(p, pc, item)
        PROVE  Ends
    BY <2>2, Reached
  <2>3. CASE Prepare(p) \/ InstallRecords(p)
    BY <2>1, <2>2, <2>3 DEF Prepare, InstallRecords, Goto, Early
  <2>4. CASE CopyObject(p)
    <3>1. \/ Goto(p, "files") \/ Into(p, "object") \/ Advance(p, "objects")
          \/ Answer(p, "changed") \/ Into(p, "dropObject")
      BY <2>4 DEF CopyObject
    <3>2. QED
      BY <2>1, <2>2, <3>1 DEF Goto, Into, Advance, Early
  <2>5. CASE FillObject(p)
    <3>1. Advance(p, "objects") \/ Answer(p, "failed") \/ Answer(p, "changed")
      BY <2>5 DEF FillObject
    <3>2. QED
      BY <2>1, <2>2, <3>1 DEF Advance, Early
  <2>6. CASE CopyFile(p)
    <3>1. \/ Goto(p, "links") \/ Into(p, "file") \/ Advance(p, "files")
          \/ Into(p, "dropFile")
      BY <2>6 DEF CopyFile
    <3>2. QED
      BY <2>2, <3>1 DEF Goto, Into, Advance, Early
  <2>7. CASE FillFile(p)
    <3>1. Advance(p, "files") \/ Answer(p, "failed")
      BY <2>7 DEF FillFile
    <3>2. QED
      BY <2>1, <2>2, <3>1 DEF Advance, Early
  <2>8. CASE DropTorn(p)
    <3>1. Answer(p, "failed") \/ Into(p, "objects") \/ Into(p, "files")
      BY <2>8 DEF DropTorn
    <3>2. QED
      BY <2>1, <2>2, <3>1 DEF Into, Early
  <2>9. CASE CreateLink(p)
    <3>1. Goto(p, "history") \/ Advance(p, "links") \/ Answer(p, "conflict")
      BY <2>9 DEF CreateLink
    <3>2. QED
      BY <2>1, <2>2, <3>1 DEF Goto, Advance, Early
  <2>10. QED
    BY <2>3, <2>4, <2>5, <2>6, <2>7, <2>8, <2>9
<1>4. ChangesOnly(d)
  <2>1. \/ tree' = tree
        \/ \E v : tree' = [tree EXCEPT ![d].active = v]
        \/ \E v : tree' = [tree EXCEPT ![d].history = v]
        \/ \E x, v : tree' = [tree EXCEPT ![d].object[x] = v]
        \/ \E x, v : tree' = [tree EXCEPT ![d].file[x] = v]
    <3>1. CASE Prepare(p) \/ InstallRecords(p)
      BY <1>d, <3>1 DEF Prepare, InstallRecords, SetHistory
    <3>2. CASE CopyObject(p)
      BY <1>d, <3>2 DEF CopyObject, PutObject
    <3>3. CASE FillObject(p)
      BY <1>d, <3>3 DEF FillObject, PutObject
    <3>4. CASE CopyFile(p)
      BY <1>d, <3>4 DEF CopyFile, PutFile
    <3>5. CASE FillFile(p)
      BY <1>d, <3>5 DEF FillFile, PutFile
    <3>6. CASE DropTorn(p)
      BY <1>d, <3>6 DEF DropTorn, PutFile, PutObject
    <3>7. CASE CreateLink(p)
      BY <1>d, <3>7 DEF CreateLink, PutFile
    <3>8. QED
      BY <3>1, <3>2, <3>3, <3>4, <3>5, <3>6, <3>7
  <2>2. QED
    <3>1. CASE tree' = tree
      BY <1>2, <3>1, NothingWritten
    <3>2. CASE \E v : tree' = [tree EXCEPT ![d].active = v]
      BY <1>2, <3>2, FieldsWritten
    <3>3. CASE \E v : tree' = [tree EXCEPT ![d].history = v]
      BY <1>2, <3>3, FieldsWritten
    <3>4. CASE \E x, v : tree' = [tree EXCEPT ![d].object[x] = v]
      BY <1>2, <3>4, EntriesWritten
    <3>5. CASE \E x, v : tree' = [tree EXCEPT ![d].file[x] = v]
      BY <1>2, <3>5, EntriesWritten
    <3>6. QED
      BY <2>1, <3>1, <3>2, <3>3, <3>4, <3>5
<1>5. QED
  BY <1>d, <1>0, <1>1, <1>3, <1>4 DEF Fills

\* So a step of a call is one of seven kinds.
LEMMA StepKinds ==
  ASSUME TreesTyped, NamesTyped, CallsTyped, NEW p \in Callers, ReconstructStep(p)
  PROVE  \/ Moves(p) \/ Fills(p) \/ AcquireStage(p) \/ InstallHead(p)
         \/ VerifyStage(p) \/ Complete(p) \/ Publish(p)
BY OutsideMoves, LaterMoves, StageFills DEF ReconstructStep

-----------------------------------------------------------------------------
(* The root manifest: what Core writes is never what people write.             *)

\* Nothing Core writes at a path is a manifest of people.
OfPeople == {EditedManifest, ForeignManifest}
LEMMA CoreWrites ==
  /\ Absent \notin OfPeople
  /\ \A p : Torn(p) \notin OfPeople
  /\ Len(Files) \in Nat /\ \A i \in 1..Len(Files) : Files[i].exact \notin OfPeople
  /\ Len(Links) \in Nat /\ \A i \in 1..Len(Links) : Links[i].exact \notin OfPeople
<1>1. \A a, b : <<a, b>> \notin OfPeople
  BY DEF OfPeople, EditedManifest, ForeignManifest
<1>2. Absent \notin OfPeople /\ \A p : Torn(p) \notin OfPeople
  BY DEF Absent, Torn, OfPeople, EditedManifest, ForeignManifest
<1>3. Len(Files) \in Nat /\ \A i \in 1..Len(Files) : Files[i].exact \notin OfPeople
  <2> DEFINE FileOf(path, version, a, b) ==
               [path |-> path, version |-> version, exact |-> <<a, b>>]
             first == FileOf("manifest", Version.root.version, Version.root.content, FALSE)
             rest == [i \in DOMAIN Regulars(Version) |->
                        FileOf(Regulars(Version)[i].path, Regulars(Version)[i].version,
                               Regulars(Version)[i].content, Regulars(Version)[i].executable)]
  <2>1. \A path, version, a, b : FileOf(path, version, a, b).exact \notin OfPeople
    BY <1>1
  <2>2. Files = <<first>> \o rest
    BY DEF Files
  <2>3. DOMAIN Regulars(Version) = 1..Len(Regulars(Version)) /\ Len(Regulars(Version)) \in Nat
    BY VersionAssumption
  <2>4. first.exact \notin OfPeople /\ \A i \in DOMAIN rest : rest[i].exact \notin OfPeople
    BY <2>1
  <2>5. DOMAIN rest = 1..Len(Regulars(Version))
    BY <2>3
  <2> HIDE DEF first, rest
  <2>6. PICK S : S = {first} \cup {rest[i] : i \in DOMAIN rest}
    OBVIOUS
  <2>7. \A f \in S : f.exact \notin OfPeople
    BY <2>4, <2>6
  <2>8. <<first>> \in Seq(S)
    BY <2>6
  <2>9. rest \in Seq(S)
    <3>1. rest = [i \in 1..Len(Regulars(Version)) |-> rest[i]]
      BY <2>5 DEF rest
    <3>2. \A i \in 1..Len(Regulars(Version)) : rest[i] \in S
      BY <2>5, <2>6
    <3>3. QED
      BY <2>3, <3>1, <3>2
  <2>10. Files \in Seq(S)
    BY <2>2, <2>8, <2>9, ConcatProperties
  <2>11. QED
    BY <2>7, <2>10
<1>4. Len(Links) \in Nat /\ \A i \in 1..Len(Links) : Links[i].exact \notin OfPeople
  <2>1. DOMAIN Symlinks(Version) = 1..Len(Symlinks(Version)) /\ Len(Symlinks(Version)) \in Nat
    BY VersionAssumption
  <2>2. DOMAIN Links = 1..Len(Symlinks(Version)) /\ Len(Links) = Len(Symlinks(Version))
    BY <2>1 DEF Links
  <2>3. \A i \in DOMAIN Links :
          Links[i].exact = <<Symlinks(Version)[i].content, "link">>
    BY DEF Links
  <2>4. QED
    BY <1>1, <2>1, <2>2, <2>3
<1>5. QED
  BY <1>2, <1>3, <1>4

\* A manifest that people do not write is put in a directory, or none is.
PutsOwn(d) ==
  \E x, v : v \notin OfPeople /\ tree'[d].file = [tree[d].file EXCEPT ![x] = v]
LEMMA MarkedStays ==
  ASSUME ManifestsMarked, NEW d \in 1..Len(tree), Len(tree') = Len(tree),
         \A e \in 1..Len(tree) : e # d => tree'[e] = tree[e],
         tree'[d].file = tree[d].file \/ PutsOwn(d),
         \A e : <<"manifest", e>> \in edited => <<"manifest", e>> \in edited'
  PROVE  ManifestsMarked'
<1> SUFFICES ASSUME NEW e \in 1..Len(tree)
             PROVE  /\ "manifest" \in DOMAIN tree'[e].file
                    /\ tree'[e].file["manifest"] \in OfPeople => <<"manifest", e>> \in edited'
  BY DEF ManifestsMarked, RootManifest, OfPeople, Tagged
<1>1. /\ "manifest" \in DOMAIN tree[e].file
      /\ tree[e].file["manifest"] \in OfPeople => <<"manifest", e>> \in edited
  BY DEF ManifestsMarked, RootManifest, OfPeople, Tagged
<1>2. CASE tree'[e].file = tree[e].file
  BY <1>1, <1>2
<1>3. ASSUME NEW x, NEW v, v \notin OfPeople, tree'[e].file = [tree[e].file EXCEPT ![x] = v]
      PROVE  /\ "manifest" \in DOMAIN tree'[e].file
             /\ tree'[e].file["manifest"] \in OfPeople => <<"manifest", e>> \in edited'
  <2>1. /\ "manifest" \in DOMAIN tree'[e].file
        /\ tree'[e].file["manifest"] \in {v, tree[e].file["manifest"]}
    BY <1>1, <1>3
  <2>2. QED
    BY <1>1, <1>3, <2>1
<1>4. CASE e = d
  BY <1>2, <1>3, <1>4 DEF PutsOwn
<1>5. CASE e # d
  BY <1>2, <1>5
<1>6. QED
  BY <1>4, <1>5

\* What a call becomes: it counts on, and gets to Local Head by the check of the
\* manifest's Folderbase and protocol.
Goes(p) ==
  \E c : /\ Becomes(p, c) /\ c.item \in Nat \ {0}
         /\ c.pc = "file" => c.item \in 1..Len(Files)
         /\ c.pc \in {"head"} \cup PastHead =>
              c.dir = call[p].dir /\ (Tagged(c.dir) \/ Version.root.fits)
LEMMA AnswerGoes ==
  ASSUME NEW p, NEW result, Answer(p, result)
  PROVE  Goes(p)
<1> DEFINE c == [Idle EXCEPT !.result = result]
<1>1. c.pc = "idle" /\ c.item = 1
  BY DEF Idle, Call
<1>2. Becomes(p, c)
  BY DEF Answer
<1> HIDE DEF c
<1>3. QED
  BY <1>1, <1>2 DEF Goes, PastHead
LEMMA FreshGoes ==
  ASSUME NEW p, NEW pc, NEW plan, NEW dir, NEW seen, pc \notin {"file", "head"} \cup PastHead,
         Becomes(p, Call(pc, plan, dir, seen, 1))
  PROVE  Goes(p)
<1> DEFINE c == Call(pc, plan, dir, seen, 1)
<1>1. c.pc = pc /\ c.item = 1
  BY DEF Call
<1>2. QED
  BY <1>1 DEF Goes
LEMMA ReachGoes ==
  ASSUME ManifestInv, NEW p \in Callers, NEW pc,
         Goto(p, pc) \/ Into(p, pc) \/ Advance(p, pc),
         pc = "file" => Into(p, pc) /\ call[p].item \in 1..Len(Files),
         pc \in {"head"} \cup PastHead =>
           \/ Tagged(call[p].dir) \/ Version.root.fits
           \/ call[p].pc \in {"head"} \cup PastHead
  PROVE  Goes(p)
<1>1. PICK item \in Nat \ {0} : Reaches(p, pc, item) /\ (pc = "file" => item \in 1..Len(Files))
  BY DEF ManifestInv, ItemsTyped, Goto, Into, Advance
<1>2. PICK c : Becomes(p, c) /\ c.pc = pc /\ c.item = item /\ c.dir = call[p].dir
  BY <1>1, Reached
<1>3. c.pc \in {"head"} \cup PastHead => Tagged(c.dir) \/ Version.root.fits
  BY <1>2 DEF ManifestInv, ManifestsFit
<1>4. QED
  BY <1>1, <1>2, <1>3 DEF Goes

\* Every step of a call is such a step.
LEMMA StepGoes ==
  ASSUME ManifestInv, TreesTyped, CallsTyped, NEW p \in Callers, ReconstructStep(p)
  PROVE  Goes(p)
<1> USE DEF At
<1>1. CASE PlanPackage(p) \/ Begin(p) \/ Revalidate(p)
  <2>1. \/ \E result : Answer(p, result)
        \/ Goto(p, "package")
        \/ \E pc, plan, dir, seen :
             /\ pc \in {"begin", "replay", "owner"}
             /\ Becomes(p, Call(pc, plan, dir, seen, 1))
    BY <1>1 DEF PlanPackage, Begin, Revalidate
  <2>2. QED
    BY <2>1, AnswerGoes, FreshGoes, ReachGoes DEF PastHead
<1>2. CASE ReadOwner(p) \/ WriteOwner(p) \/ PersistProof(p) \/ WriteProof(p) \/ Prepare(p)
  <2>1. \/ \E result : Answer(p, result)
        \/ \E pc \in {"stage", "ownerTorn", "proofTorn", "prepare", "recheck"} : Goto(p, pc)
    BY <1>2 DEF ReadOwner, WriteOwner, PersistProof, WriteProof, Prepare
  <2>2. QED
    BY <2>1, AnswerGoes, ReachGoes DEF PastHead
<1>3. CASE AcquireStage(p)
  <2>1. \/ Answer(p, "conflict")
        \/ \E pc \in {"proof", "prepare"} : \E dir : Holds(p, pc, dir)
    BY <1>3 DEF AcquireStage
  <2>2. QED
    BY <2>1, AnswerGoes, FreshGoes DEF Holds, PastHead
<1>4. CASE Recheck(p, "recheck", "fidelity") \/ CheckFidelity(p)
  <2>1. (\E result : Answer(p, result)) \/ Goto(p, "fidelity") \/ Goto(p, "objects")
    BY <1>4 DEF Recheck, CheckFidelity
  <2>2. QED
    BY <2>1, AnswerGoes, ReachGoes DEF PastHead
<1>5. CASE CopyObject(p) \/ FillObject(p) \/ FillFile(p) \/ DropTorn(p) \/ CreateLink(p)
  <2>1. \/ \E result : Answer(p, result)
        \/ \E pc \in {"files", "object", "objects", "dropObject", "links", "history"} :
             Goto(p, pc) \/ Into(p, pc) \/ Advance(p, pc)
    <3>1. CASE CopyObject(p)
      BY <3>1 DEF CopyObject
    <3>2. CASE FillObject(p)
      BY <3>2 DEF FillObject
    <3>3. CASE FillFile(p) \/ DropTorn(p) \/ CreateLink(p)
      BY <3>3 DEF FillFile, DropTorn, CreateLink
    <3>4. QED
      BY <1>5, <3>1, <3>2, <3>3
  <2>2. QED
    BY <2>1, AnswerGoes, ReachGoes DEF PastHead
<1>6. CASE CopyFile(p)
  <2>1. \/ Goto(p, "links") \/ Advance(p, "files") \/ Into(p, "dropFile")
        \/ ~ call[p].item > Len(Files) /\ Into(p, "file")
    BY <1>6 DEF CopyFile
  <2>2. call[p].item \in Nat \ {0} /\ Len(Files) \in Nat
    BY CoreWrites DEF ManifestInv, ItemsTyped
  <2>3. QED
    BY <2>1, <2>2, ReachGoes DEF PastHead
<1>7. CASE InstallRecords(p)
  <2>1. Answer(p, "conflict") \/ (Goto(p, "head") /\ Fits(RootManifest(call[p].dir)))
    BY <1>7 DEF InstallRecords
  <2>2. call[p].dir \in 1..Len(tree)
    BY <1>7 DEF InstallRecords, CallsTyped, Early
  <2>3. Fits(RootManifest(call[p].dir)) => Tagged(call[p].dir) \/ Version.root.fits
    BY <2>2 DEF Fits, ManifestInv, ManifestsMarked
  <2>4. QED
    BY <2>1, <2>3, AnswerGoes, ReachGoes DEF PastHead
<1>8. CASE InstallHead(p) \/ Recheck(p, "recheckAgain", "verify") \/ Complete(p)
  <2>1. /\ call[p].pc \in {"head"} \cup PastHead
        /\ \/ \E result : Answer(p, result)
           \/ Goto(p, "recheckAgain") \/ Goto(p, "verify") \/ Goto(p, "publish")
    BY <1>8 DEF InstallHead, Recheck, Complete, PastHead
  <2>2. QED
    BY <2>1, AnswerGoes, ReachGoes
<1>9. CASE VerifyStage(p)
  <2>1. call[p].pc = "verify" /\ (Answer(p, "conflict") \/ AttestAs(p, "complete"))
    BY <1>9 DEF VerifyStage
  <2>2. CASE AttestAs(p, "complete")
    <3> DEFINE c == Call("complete", call[p].plan, call[p].dir, {RootManifest(call[p].dir)}, 1)
    <3>1. c.pc = "complete" /\ c.dir = call[p].dir /\ c.item = 1
      BY DEF Call
    <3>2. Becomes(p, c)
      BY <2>2 DEF AttestAs
    <3>3. Tagged(call[p].dir) \/ Version.root.fits
      BY <2>1 DEF ManifestInv, ManifestsFit, PastHead
    <3> HIDE DEF c
    <3>4. QED
      BY <3>1, <3>2, <3>3 DEF Goes
  <2>3. QED
    BY <2>1, <2>2, AnswerGoes
<1>10. CASE \/ Publish(p) \/ Confirm(p) \/ RetireProof(p) \/ RetireOwner(p)
            \/ Replay(p) \/ ReplayProof(p) \/ ReplayOwner(p)
  <2>1. \/ \E result : Answer(p, result)
        \/ \E pc \in {"confirm", "retireProof", "retireOwner", "replayProof", "replayOwner"} :
             Goto(p, pc)
    <3>1. CASE Publish(p) \/ Confirm(p) \/ RetireProof(p) \/ RetireOwner(p)
      BY <3>1 DEF Publish, Confirm, RetireProof, RetireOwner
    <3>2. CASE Replay(p) \/ ReplayProof(p) \/ ReplayOwner(p)
      BY <3>2 DEF Replay, ReplayProof, ReplayOwner
    <3>3. QED
      BY <1>10, <3>1, <3>2
  <2>2. QED
    BY <2>1, AnswerGoes, ReachGoes DEF PastHead
<1>11. QED
  BY <1>1, <1>2, <1>3, <1>4, <1>5, <1>6, <1>7, <1>8, <1>9, <1>10 DEF ReconstructStep

\* The calls after a step: one goes on, the others stay, and marks are kept.
LEMMA CallsFit ==
  ASSUME ManifestInv, CallsTyped, NEW p \in Callers, Goes(p),
         \A e : <<"manifest", e>> \in edited => <<"manifest", e>> \in edited'
  PROVE  ItemsTyped' /\ ManifestsFit'
<1>1. PICK c : /\ Becomes(p, c) /\ c.item \in Nat \ {0}
               /\ c.pc = "file" => c.item \in 1..Len(Files)
               /\ c.pc \in {"head"} \cup PastHead => Tagged(c.dir) \/ Version.root.fits
  BY DEF Goes
<1>2. \A q \in Callers : call'[q] = IF q = p THEN c ELSE call[q]
  BY <1>1 DEF Becomes, CallsTyped
<1>3. PICK n : n = Len(Files) /\ n = Len(Files)'
  BY DEF Files
<1>4. \A q \in Callers :
        /\ call'[q].item \in Nat \ {0}
        /\ call'[q].pc = "file" => call'[q].item \in 1..n
  BY <1>1, <1>2, <1>3 DEF ManifestInv, ItemsTyped
<1>5. \A q \in Callers :
        call'[q].pc \in {"head"} \cup PastHead =>
          <<"manifest", call'[q].dir>> \in edited' \/ Version.root.fits
  BY <1>1, <1>2 DEF ManifestInv, ManifestsFit, Tagged
<1>6. QED
  BY <1>3, <1>4, <1>5 DEF ItemsTyped, ManifestsFit, Tagged

-----------------------------------------------------------------------------
(* Each kind of step keeps the invariant.                                      *)

\* The call that steps is typed if what it becomes is; the others stay.
LEMMA CallsStay ==
  ASSUME TreesTyped, CallsTyped, NEW p \in Callers, NEW c, Becomes(p, c),
         Len(tree') \in Nat, Len(tree) =< Len(tree'),
         c.pc \in Outside => c.dir = 0,
         c.pc \in Replaying \cup Early \cup PastHead \cup Finished => c.dir \in 1..Len(tree'),
         c.pc \in Outside \cup Replaying \cup Early \cup PastHead \cup Finished,
         c.pc # "idle" => PlanCloses(c.plan)
  PROVE  /\ CallsTyped'
         /\ call'[p] = c /\ \A q \in Callers \ {p} : call'[q] = call[q]
<1>1. call' = [call EXCEPT ![p] = c] /\ call = [q \in Callers |-> call[q]]
  BY DEF Becomes, CallsTyped
<1>2. call'[p] = c /\ \A q \in Callers \ {p} : call'[q] = call[q]
  BY <1>1
<1>3. call' = [q \in Callers |-> call'[q]]
  BY <1>1
<1>4. \A d : d \in 1..Len(tree) => d \in 1..Len(tree')
  BY DEF TreesTyped
<1>5. \A q \in Callers :
        /\ call'[q].pc \in Outside => call'[q].dir = 0
        /\ call'[q].pc \in Replaying \cup Early \cup PastHead \cup Finished =>
             call'[q].dir \in 1..Len(tree')
        /\ call'[q].pc \in Outside \cup Replaying \cup Early \cup PastHead \cup Finished
        /\ call'[q].pc # "idle" => PlanCloses(call'[q].plan)
  <2> TAKE q \in Callers
  <2>1. CASE q = p
    BY <1>2, <2>1
  <2>2. CASE q # p
    <3>1. call'[q] = call[q]
      BY <1>2, <2>2
    <3>2. QED
      BY <1>4, <3>1 DEF CallsTyped
  <2>3. QED
    BY <2>1, <2>2
<1>6. QED
  BY <1>2, <1>3, <1>5 DEF CallsTyped, PlanCloses

\* What another call has proved stays proved while its directory is left alone.
LEMMA ProvedStays ==
  ASSUME NEW q \in Callers, NEW d, call[q].dir = d, call'[q] = call[q], tree'[d] = tree[d],
         <<"people", d>> \notin edited' => <<"people", d>> \notin edited, Proved(q)
  PROVE  Proved(q)'
<1>1. tree[d].history = "head" /\ ObjectsExact(q)
  BY DEF Proved
<1>2. \A r \in Range(References(q)) : tree[d].object[r.version] = <<r.manifest.object>>
  BY <1>1 DEF ObjectsExact, Held
<1>3. ObjectsExact(q)'
  BY <1>2 DEF ObjectsExact, Held, References
<1>4. call[q].pc \in {"complete", "publish"} /\ <<"people", d>> \notin edited' =>
        VisibleExact(d)' /\ Attests(RootManifest(d)') /\ call[q].seen = {RootManifest(d)'}
  <2>1. call[q].pc \in {"complete", "publish"} /\ <<"people", d>> \notin edited' =>
          VisibleExact(d) /\ Attests(RootManifest(d)) /\ call[q].seen = {RootManifest(d)}
    BY DEF Proved
  <2>2. VisibleExact(d) => VisibleExact(d)'
    BY DEF VisibleExact
  <2>3. RootManifest(d)' = RootManifest(d)
    BY DEF RootManifest
  <2>4. QED
    BY <2>1, <2>2, <2>3
<1>5. call[q].pc = "publish" =>
        tree[d].completed = {Completion(Record(q), d, m) : m \in call[q].seen}
  BY DEF Proved
<1>6. call[q].pc = "publish" =>
        tree'[d].completed = {Completion(Record(q)', d, m) : m \in call'[q].seen}
  BY <1>5 DEF Record
<1>7. call'[q].dir = d /\ call'[q].seen = call[q].seen /\ tree'[d].history = "head"
  BY <1>1
<1>8. VisibleExact(call[q].dir)' = VisibleExact(d)' /\ RootManifest(call[q].dir)' = RootManifest(d)'
  BY <1>7 DEF VisibleExact, RootManifest
<1>9. QED
  BY <1>3, <1>4, <1>6, <1>7, <1>8 DEF Proved, Attests

\* A root that is whole stays whole while its directory is left alone.
LEMMA WholeStays ==
  ASSUME RootIsWhole, root' = root, root > 0 => tree'[root] = tree[root],
         <<"people", root>> \notin edited' => <<"people", root>> \notin edited,
         <<"rivals", root>> \notin edited' => <<"rivals", root>> \notin edited,
         <<"manifest", root>> \notin edited' => <<"manifest", root>> \notin edited
  PROVE  RootIsWhole'
<1>1. PICK d : d = root
  OBVIOUS
<1>2. SUFFICES ASSUME d > 0, <<"people", d>> \notin edited, <<"rivals", d>> \notin edited
               PROVE  RootIsWhole'
  BY <1>1 DEF RootIsWhole, Shared
<1>3. /\ VisibleExact(d) /\ tree[d].history = "head"
      /\ \E c \in CompletedAs(d) : WholeAs(c, d)
  BY <1>1, <1>2 DEF RootIsWhole, Shared
<1>4. tree'[d] = tree[d] /\ root' = d
  BY <1>1, <1>2
<1>5. VisibleExact(d)' /\ CompletedAs(d)' = CompletedAs(d)
  BY <1>3, <1>4 DEF VisibleExact, CompletedAs
<1>6. \A c : WholeAs(c, d) => WholeAs(c, d)'
  BY <1>1, <1>4 DEF WholeAs, RootManifest, Attests, Fits, Closure
<1>7. /\ VisibleExact(root)' /\ CompletedAs(root)' = CompletedAs(d)
      /\ \A c : WholeAs(c, d)' => WholeAs(c, root)'
  BY <1>4, <1>5 DEF VisibleExact, CompletedAs, WholeAs, RootManifest
<1>8. QED
  BY <1>3, <1>4, <1>6, <1>7 DEF RootIsWhole

\* A sequence that has grown by one.
LEMMA Appended ==
  ASSUME NEW s, s \in Seq(Range(s)), NEW v, NEW t, t = Append(s, v)
  PROVE  /\ t \in Seq(Range(t)) /\ Len(s) \in Nat /\ Len(t) = Len(s) + 1
         /\ \A i \in 1..Len(s) : t[i] = s[i]
         /\ t[Len(s) + 1] = v
<1> DEFINE S == Range(s) \cup {v}
<1>1. s \in Seq(S) /\ v \in S
  <2>1. DOMAIN s = 1..Len(s) /\ Len(s) \in Nat /\ s = [i \in 1..Len(s) |-> s[i]]
    OBVIOUS
  <2>2. \A i \in 1..Len(s) : s[i] \in S
    BY <2>1 DEF Range
  <2>3. QED
    BY <2>1, <2>2
<1> HIDE DEF S
<1>2. /\ t \in Seq(S) /\ Len(t) = Len(s) + 1 /\ Len(s) \in Nat
      /\ \A i \in 1..Len(s) : t[i] = s[i]
      /\ t[Len(s) + 1] = v
  BY <1>1, AppendProperties
<1>3. DOMAIN t = 1..Len(t) /\ Len(t) \in Nat /\ t = [i \in 1..Len(t) |-> t[i]]
  BY <1>2, LenProperties
<1>4. t \in Seq(Range(t))
  BY <1>3 DEF Range
<1>5. QED
  BY <1>2, <1>4

\* A call that goes on where it is.
LEMMA MovesKeep ==
  ASSUME ReconstructInv, NEW p \in Callers, Moves(p)
  PROVE  ReconstructInv'
<1> USE DEF ReconstructInv
<1>0. tree' = tree /\ stage' = stage /\ root' = root /\ edited' = edited
  BY DEF Moves
<1>1. PICK c : Becomes(p, c) /\ Follows(p, c)
  BY DEF Moves
<1>2. TreesTyped' /\ NamesTyped'
  BY <1>0 DEF TreesTyped, NamesTyped, IsTree, Range
<1>3. /\ CallsTyped'
      /\ call'[p] = c /\ \A q \in Callers \ {p} : call'[q] = call[q]
  <2>1. Len(tree') \in Nat /\ Len(tree) =< Len(tree')
    BY <1>0 DEF TreesTyped
  <2>2. c.pc \in Outside => c.dir = 0
    BY <1>1 DEF Follows, CallsTyped, Outside, Replaying, Early, PastHead, Finished
  <2>3. c.pc \in Replaying \cup Early \cup PastHead \cup Finished => c.dir \in 1..Len(tree')
    BY <1>0, <1>1 DEF Follows, CallsTyped, Outside, Replaying, Early, PastHead, Finished
  <2>4. c.pc \in Outside \cup Replaying \cup Early \cup PastHead \cup Finished
    BY <1>1 DEF Follows, Outside, PastHead
  <2>5. c.pc # "idle" => PlanCloses(c.plan)
    BY <1>1 DEF Follows, CallsTyped, Early, Finished
  <2>6. QED
    BY <1>1, <2>1, <2>2, <2>3, <2>4, <2>5, CallsStay
<1>4. c.pc \in Early \cup PastHead \cup Finished => Works(p) /\ c.dir = call[p].dir
  BY <1>1 DEF Follows, Works, Outside, Replaying, Early, PastHead, Finished
<1>5. \A q \in Callers : Works(q)' => Works(q) /\ call'[q].dir = call[q].dir
  BY <1>3, <1>4 DEF Works
<1>6. RivalsMarked'
  BY <1>0, <1>5 DEF RivalsMarked, Shared
<1>7. RootIsClosed'
  <2>1. c.pc \in Early \cup PastHead \cup Finished /\ call[p].pc \in Finished => c.pc \in Finished
    BY <1>1 DEF Follows, Outside, Replaying, Early, PastHead, Finished
  <2>2. \A q \in Callers : Works(q)' /\ call[q].pc \in Finished => call'[q].pc \in Finished
    BY <1>3, <2>1 DEF Works
  <2>3. QED
    BY <1>0, <1>5, <2>2 DEF RootIsClosed, Shared
<1>8. ProofsHold'
  <2> SUFFICES ASSUME NEW q \in Callers, call'[q].pc \in PastHead,
                      <<"rivals", call'[q].dir>> \notin edited'
               PROVE  Proved(q)'
    BY DEF ProofsHold, Shared
  <2>0. ~ Shared(call'[q].dir)
    BY <1>0 DEF Shared
  <2>1. CASE q # p
    <3>1. call'[q] = call[q]
      BY <1>3, <2>1
    <3>2. Proved(q)
      BY <2>0, <3>1 DEF ProofsHold
    <3>3. PICK d : d = call[q].dir
      OBVIOUS
    <3>4. QED
      BY <1>0, <3>1, <3>2, <3>3, ProvedStays
  <2>2. CASE q = p
    <3>1. /\ call[p].pc = "recheckAgain" /\ c.pc = "verify"
          /\ c.dir = call[p].dir /\ c.plan = call[p].plan
      BY <1>1, <1>3, <2>2 DEF Follows, Outside, Replaying, Early, PastHead, Finished
    <3>2. Proved(p)
      BY <1>3, <2>0, <2>2, <3>1 DEF ProofsHold, PastHead
    <3>3. Proved(p)'
      BY <1>0, <1>3, <3>1, <3>2 DEF Proved, ObjectsExact, References, Held
    <3>4. QED
      BY <2>2, <3>3
  <2>3. QED
    BY <2>1, <2>2
<1>9. RootIsWhole'
  BY <1>0, WholeStays
<1>10. QED
  BY <1>2, <1>3, <1>6, <1>7, <1>8, <1>9

\* A call that works on in its directory, or gives it up, where it has proved what
\* the next step relies on.
LEMMA WorkKeeps ==
  ASSUME ReconstructInv, NEW p \in Callers, Works(p), call[p].pc \notin Finished,
         NEW d, d = call[p].dir, ChangesOnly(d), UNCHANGED <<stage, root>>,
         \A e : e # d => (<<"people", e>> \in edited' <=> <<"people", e>> \in edited),
         \A e : <<"rivals", e>> \in edited' <=> <<"rivals", e>> \in edited,
         \A e : <<"manifest", e>> \in edited' <=> <<"manifest", e>> \in edited,
         NEW c, Becomes(p, c),
         \/ c.pc = "idle" /\ c.dir = 0
         \/ c.pc \in Early \cup PastHead /\ c.dir = d /\ c.plan = call[p].plan,
         c.pc \in PastHead /\ <<"rivals", d>> \notin edited => Proved(p)'
  PROVE  ReconstructInv'
<1> USE DEF ReconstructInv
<1>2. d \in 1..Len(tree)
  BY DEF Works, CallsTyped
<1>3. /\ tree' \in Seq(Range(tree')) /\ Len(tree') = Len(tree) /\ IsTree(tree'[d])
      /\ \A e \in 1..Len(tree) : e # d => tree'[e] = tree[e]
  BY DEF ChangesOnly
<1>4. TreesTyped'
  BY <1>3 DEF TreesTyped, IsTree
<1>5. NamesTyped'
  BY <1>3 DEF NamesTyped
<1>6. /\ CallsTyped'
      /\ call'[p] = c /\ \A q \in Callers \ {p} : call'[q] = call[q]
  <2>1. Len(tree') \in Nat /\ Len(tree) =< Len(tree')
    BY <1>3 DEF TreesTyped
  <2>2. c.pc \in Outside => c.dir = 0
    BY DEF Outside, Early, PastHead
  <2>3. c.pc \in Replaying \cup Early \cup PastHead \cup Finished => c.dir \in 1..Len(tree')
    BY <1>2, <1>3 DEF Replaying, Early, PastHead, Finished
  <2>4. c.pc \in Outside \cup Replaying \cup Early \cup PastHead \cup Finished
    BY DEF Outside
  <2>5. c.pc # "idle" => PlanCloses(c.plan)
    BY DEF CallsTyped, Works, Early, PastHead, Finished
  <2>6. QED
    BY <2>1, <2>2, <2>3, <2>4, <2>5, CallsStay
<1>7. \A q \in Callers : Works(q)' => Works(q) /\ call'[q].dir = call[q].dir
  BY <1>6 DEF Works, Early, PastHead, Finished
<1>8. RivalsMarked'
  BY <1>7 DEF RivalsMarked, Shared
<1>9. RootIsClosed'
  <2>1. \A q \in Callers : Works(q)' /\ call[q].pc \in Finished => call'[q].pc \in Finished
    BY <1>6
  <2>2. QED
    BY <1>7, <2>1 DEF RootIsClosed, Shared
<1>10. ProofsHold'
  <2> SUFFICES ASSUME NEW q \in Callers, call'[q].pc \in PastHead,
                      <<"rivals", call'[q].dir>> \notin edited'
               PROVE  Proved(q)'
    BY DEF ProofsHold, Shared
  <2>1. CASE q # p
    <3>1. call'[q] = call[q] /\ Works(q)
      BY <1>6, <2>1 DEF Works
    <3>2. PICK e : e = call[q].dir
      OBVIOUS
    <3>3. ~ Shared(e)
      BY <3>1, <3>2 DEF Shared
    <3>4. e # d /\ e \in 1..Len(tree)
      BY <2>1, <3>1, <3>2, <3>3 DEF RivalsMarked, CallsTyped, Works
    <3>5. Proved(q)
      BY <3>1, <3>2, <3>3 DEF ProofsHold
    <3>6. QED
      BY <1>3, <3>1, <3>2, <3>4, <3>5, ProvedStays
  <2>2. CASE q = p
    <3>1. call'[q].pc = c.pc /\ call'[q].dir = d
      BY <1>6, <2>2 DEF PastHead
    <3>2. QED
      BY <2>2, <3>1
  <2>3. QED
    BY <2>1, <2>2
<1>11. RootIsWhole'
  <2>1. CASE Shared(root)
    BY <2>1 DEF RootIsWhole, Shared
  <2>2. CASE ~ Shared(root)
    <3>1. root # d
      BY <2>2 DEF RootIsClosed
    <3>2. root > 0 => tree'[root] = tree[root]
      BY <1>3, <3>1 DEF NamesTyped, TreesTyped
    <3>3. QED
      BY <3>1, <3>2, WholeStays
  <2>3. QED
    BY <2>1, <2>2
<1>12. QED
  BY <1>4, <1>5, <1>6, <1>8, <1>9, <1>10, <1>11

\* A call that fills its stage.
LEMMA FillsKeep ==
  ASSUME ReconstructInv, NEW p \in Callers, Fills(p)
  PROVE  ReconstructInv'
<1>1. PICK c : /\ Becomes(p, c)
               /\ \/ c.pc = "idle" /\ c.dir = 0
                  \/ c.pc \in Early /\ c.dir = call[p].dir /\ c.plan = call[p].plan
  BY DEF Fills
<1>2. PICK d : d = call[p].dir
  OBVIOUS
<1>3. Works(p) /\ call[p].pc \notin Finished
  BY DEF Fills, Works, Early, Finished
<1>4. ChangesOnly(d) /\ UNCHANGED <<stage, root, edited>>
  BY <1>2 DEF Fills
<1>5. c.pc \notin PastHead
  BY <1>1 DEF Early, PastHead
<1>6. QED
  BY <1>1, <1>2, <1>3, <1>4, <1>5, WorkKeeps

\* A call that takes the stage of its operation, or makes it.
LEMMA AcquireKeeps ==
  ASSUME ReconstructInv, NEW p \in Callers, AcquireStage(p)
  PROVE  ReconstructInv'
<1> USE DEF ReconstructInv
<1>0. root' = root /\ call[p].pc = "stage" /\ Op(p) \in Operations
  BY OperationsAssumption DEF AcquireStage, At, Op
<1>p. call[p].dir = 0 /\ PlanCloses(call[p].plan) /\ ~ Works(p)
  BY <1>0 DEF CallsTyped, Outside, Works, Early, PastHead, Finished
<1>1. /\ edited \subseteq edited'
      /\ \A d : <<"people", d>> \in edited' => <<"people", d>> \in edited
      /\ \A q \in Callers \ {p} :
           call[q].dir # 0 /\ call[q].dir = call'[p].dir => <<"rivals", call[q].dir>> \in edited'
  BY DEF AcquireStage
<1>2. \A d : /\ <<"rivals", d>> \notin edited' => <<"rivals", d>> \notin edited
             /\ <<"manifest", d>> \notin edited' => <<"manifest", d>> \notin edited
  BY <1>1
\* What it becomes, and which directory it holds then.
<1>3. PICK c : /\ Becomes(p, c)
               /\ \/ c.pc = "idle" /\ c.dir = 0 /\ UNCHANGED <<tree, stage>>
                  \/ /\ c.pc \in {"proof", "prepare"} /\ c.plan = call[p].plan
                     /\ c.dir = stage[Op(p)] /\ c.dir # 0 /\ UNCHANGED <<tree, stage>>
                  \/ /\ c.pc = "proof" /\ c.plan = call[p].plan
                     /\ stage[Op(p)] = 0 /\ tree' = Append(tree, Empty)
                     /\ c.dir = Len(tree') /\ stage' = [stage EXCEPT ![Op(p)] = Len(tree')]
  <2> DEFINE Sort(c) == \/ c.pc = "idle" /\ c.dir = 0 /\ UNCHANGED <<tree, stage>>
                        \/ /\ c.pc \in {"proof", "prepare"} /\ c.plan = call[p].plan
                           /\ c.dir = stage[Op(p)] /\ c.dir # 0 /\ UNCHANGED <<tree, stage>>
                        \/ /\ c.pc = "proof" /\ c.plan = call[p].plan
                           /\ stage[Op(p)] = 0 /\ tree' = Append(tree, Empty)
                           /\ c.dir = Len(tree')
                           /\ stage' = [stage EXCEPT ![Op(p)] = Len(tree')]
  <2>1. ASSUME NEW pc \in {"proof", "prepare"}, Holds(p, pc, stage[Op(p)]), stage[Op(p)] # 0,
               UNCHANGED <<tree, stage>>
        PROVE  \E c : Becomes(p, c) /\ Sort(c)
    <3> DEFINE c == Call(pc, call[p].plan, stage[Op(p)], call[p].seen, 1)
    <3>1. c.pc = pc /\ c.plan = call[p].plan /\ c.dir = stage[Op(p)]
      BY DEF Call
    <3>2. Becomes(p, c)
      BY <2>1 DEF Holds
    <3> HIDE DEF c
    <3>3. QED
      BY <2>1, <3>1, <3>2
  <2>2. ASSUME Holds(p, "proof", Len(tree')), stage[Op(p)] = 0, tree' = Append(tree, Empty),
               stage' = [stage EXCEPT ![Op(p)] = Len(tree')]
        PROVE  \E c : Becomes(p, c) /\ Sort(c)
    <3> DEFINE c == Call("proof", call[p].plan, Len(tree'), call[p].seen, 1)
    <3>1. c.pc = "proof" /\ c.plan = call[p].plan /\ c.dir = Len(tree')
      BY DEF Call
    <3>2. Becomes(p, c)
      BY <2>2 DEF Holds
    <3> HIDE DEF c
    <3>3. QED
      BY <2>2, <3>1, <3>2
  <2>3. ASSUME Answer(p, "conflict"), UNCHANGED <<tree, stage>>
        PROVE  \E c : Becomes(p, c) /\ Sort(c)
    BY <2>3, Answered
  <2> HIDE DEF Sort
  <2>4. \E c : Becomes(p, c) /\ Sort(c)
    <3>1. \/ /\ stage[Op(p)] = 0 /\ tree' = Append(tree, Empty)
             /\ stage' = [stage EXCEPT ![Op(p)] = Len(tree')]
             /\ Holds(p, "proof", Len(tree'))
          \/ /\ stage[Op(p)] # 0 /\ UNCHANGED <<tree, stage>>
             /\ Holds(p, "proof", stage[Op(p)]) \/ Holds(p, "prepare", stage[Op(p)])
          \/ Answer(p, "conflict") /\ UNCHANGED <<tree, stage>>
      BY DEF AcquireStage
    <3>2. QED
      BY <2>1, <2>2, <2>3, <3>1
  <2>5. QED
    BY <2>4 DEF Sort
<1>4. Len(tree) \in Nat /\ DOMAIN tree = 1..Len(tree)
  BY DEF TreesTyped
<1>5. /\ Len(tree') \in Nat /\ Len(tree) =< Len(tree')
      /\ tree' \in Seq(Range(tree'))
      /\ \A d \in 1..Len(tree) : tree'[d] = tree[d]
      /\ \A d \in 1..Len(tree') : IsTree(tree'[d])
  <2>1. PICK s, t, new : s = tree /\ t = tree' /\ new = Empty
    OBVIOUS
  <2>2. CASE t = Append(s, new)
    <3>0. s \in Seq(Range(s))
      BY <2>1 DEF TreesTyped
    <3>1. IsTree(new)
      BY <2>1 DEF IsTree, Empty
    <3>2. /\ t \in Seq(Range(t)) /\ Len(t) = Len(s) + 1
          /\ \A d \in 1..Len(s) : t[d] = s[d]
          /\ t[Len(s) + 1] = new
      <4>1. t \in Seq(Range(t)) /\ Len(t) = Len(s) + 1
        BY <2>2, <3>0, Appended
      <4>2. \A d \in 1..Len(s) : t[d] = s[d]
        BY <2>2, <3>0, Appended
      <4>3. t[Len(s) + 1] = new
        BY <2>2, <3>0, Appended
      <4>4. QED
        BY <4>1, <4>2, <4>3
    <3>3. \A d \in 1..Len(t) : IsTree(t[d])
      <4> TAKE d \in 1..Len(t)
      <4>1. CASE d = Len(s) + 1
        BY <3>1, <3>2, <4>1
      <4>2. CASE d # Len(s) + 1
        <5>1. d \in 1..Len(s)
          BY <1>4, <2>1, <3>2, <4>2
        <5>2. t[d] = s[d] /\ IsTree(s[d])
          BY <2>1, <3>2, <5>1 DEF TreesTyped
        <5>3. QED
          BY <5>2
      <4>3. QED
        BY <4>1, <4>2
    <3>4. QED
      BY <1>4, <2>1, <3>2, <3>3
  <2>3. CASE t = s
    <3>1. s \in Seq(Range(s)) /\ \A d \in 1..Len(s) : IsTree(s[d])
      BY <2>1 DEF TreesTyped
    <3>2. t \in Seq(Range(t)) /\ \A d \in 1..Len(t) : IsTree(t[d])
      BY <2>3, <3>1
    <3>3. Len(t) = Len(s) /\ \A d \in 1..Len(s) : t[d] = s[d]
      BY <2>3
    <3>4. QED
      BY <1>4, <2>1, <2>3, <3>2, <3>3
  <2>4. QED
    BY <1>3, <2>1, <2>2, <2>3
<1>g. ASSUME tree' = Append(tree, Empty)
      PROVE  Len(tree') = Len(tree) + 1
  BY <1>g, Appended DEF TreesTyped
<1>6. TreesTyped'
  BY <1>5 DEF TreesTyped, IsTree
<1>7. NamesTyped'
  <2>1. CASE UNCHANGED stage
    BY <1>0, <1>4, <1>5, <2>1 DEF NamesTyped
  <2>2. CASE stage' = [stage EXCEPT ![Op(p)] = Len(tree')] /\ tree' = Append(tree, Empty)
    <3>1. PICK o \in Operations : o = Op(p)
      BY <1>0
    <3>2. stage' = [stage EXCEPT ![o] = Len(tree) + 1] /\ Len(tree') = Len(tree) + 1
      BY <1>g, <2>2, <3>1
    <3>3. \A n \in Operations : stage'[n] = IF n = o THEN Len(tree) + 1 ELSE stage[n]
      BY <3>2 DEF NamesTyped
    <3>4. stage' = [n \in Operations |-> stage'[n]]
      BY <3>2 DEF NamesTyped
    <3>5. \A m, n \in Operations : stage'[m] = stage'[n] /\ stage'[m] # 0 => m = n
      BY <1>4, <3>3 DEF NamesTyped
    <3>6. \A n \in Operations : stage'[n] \in 0..Len(tree')
      BY <1>4, <3>2, <3>3 DEF NamesTyped
    <3>7. root' \in -1..Len(tree') /\ (root' > 0 => \A n \in Operations : stage'[n] # root')
      BY <1>0, <1>4, <3>2, <3>3 DEF NamesTyped
    <3>8. QED
      BY <3>4, <3>5, <3>6, <3>7 DEF NamesTyped
  <2>3. QED
    BY <1>3, <2>1, <2>2
<1>8. c.dir \in 0..Len(tree') /\ (c.pc # "idle" => c.dir # 0 /\ c.dir # root)
  <2>1. CASE tree' = tree /\ c.pc # "idle" /\ c.dir = stage[Op(p)] /\ c.dir # 0
    BY <1>0, <1>4, <2>1 DEF NamesTyped
  <2>2. CASE tree' = Append(tree, Empty) /\ c.dir = Len(tree')
    BY <1>4, <1>g, <2>2 DEF NamesTyped
  <2>3. CASE c.pc = "idle" /\ c.dir = 0
    BY <1>5, <2>3
  <2>4. QED
    BY <1>3, <2>1, <2>2, <2>3
<1>9. /\ CallsTyped'
      /\ call'[p] = c /\ \A q \in Callers \ {p} : call'[q] = call[q]
  <2>1. c.pc \in {"idle", "proof", "prepare"}
    BY <1>3
  <2>2. c.pc \in Outside => c.dir = 0
    BY <1>3, <2>1 DEF Outside
  <2>3. c.pc \in Replaying \cup Early \cup PastHead \cup Finished => c.dir \in 1..Len(tree')
    BY <1>5, <1>8, <2>1 DEF Replaying, Early, PastHead, Finished
  <2>4. c.pc \in Outside \cup Replaying \cup Early \cup PastHead \cup Finished
    BY <2>1 DEF Outside, Early
  <2>5. c.pc # "idle" => PlanCloses(c.plan)
    BY <1>3, <1>p
  <2>6. QED
    BY <1>3, <1>5, <2>2, <2>3, <2>4, <2>5, CallsStay
<1>10. RivalsMarked'
  <2> SUFFICES ASSUME NEW q \in Callers, NEW r \in Callers, q # r, Works(q)', Works(r)',
                      call'[q].dir = call'[r].dir
               PROVE  <<"rivals", call'[q].dir>> \in edited'
    BY DEF RivalsMarked, Shared
  <2>1. CASE q # p /\ r # p
    <3>1. Works(q) /\ Works(r) /\ call[q].dir = call[r].dir /\ call'[q].dir = call[q].dir
      BY <1>9, <2>1 DEF Works
    <3>2. <<"rivals", call[q].dir>> \in edited
      BY <3>1 DEF RivalsMarked, Shared
    <3>3. QED
      BY <1>1, <3>1, <3>2
  <2>2. ASSUME NEW s \in Callers, s # p, Works(s)', call'[s].dir = call'[p].dir
        PROVE  <<"rivals", call'[s].dir>> \in edited'
    <3>1. call'[s] = call[s] /\ Works(s)
      BY <1>9, <2>2 DEF Works
    <3>2. call[s].dir # 0
      BY <1>4, <3>1 DEF CallsTyped, Works
    <3>3. QED
      BY <1>1, <2>2, <3>1, <3>2
  <2>3. QED
    BY <2>1, <2>2
<1>11. RootIsClosed'
  <2> SUFFICES ASSUME NEW q \in Callers, Works(q)', call'[q].dir = root,
                      <<"rivals", root>> \notin edited'
               PROVE  call'[q].pc \in Finished
    BY <1>0 DEF RootIsClosed, Shared
  <2>1. q # p
    BY <1>8, <1>9 DEF Works, Early, PastHead, Finished
  <2>2. Works(q) /\ call'[q] = call[q]
    BY <1>9, <2>1 DEF Works
  <2>3. QED
    BY <1>2, <2>2 DEF RootIsClosed, Shared
<1>12. ProofsHold'
  <2> SUFFICES ASSUME NEW q \in Callers, call'[q].pc \in PastHead,
                      <<"rivals", call'[q].dir>> \notin edited'
               PROVE  Proved(q)'
    BY DEF ProofsHold, Shared
  <2>1. q # p /\ call'[q] = call[q]
    BY <1>3, <1>9 DEF PastHead
  <2>2. PICK e : e = call[q].dir
    OBVIOUS
  <2>3. e \in 1..Len(tree)
    BY <2>1, <2>2 DEF CallsTyped
  <2>4. Proved(q)
    BY <1>2, <2>1, <2>2 DEF ProofsHold, Shared
  <2>5. QED
    BY <1>1, <1>5, <2>1, <2>2, <2>3, <2>4, ProvedStays
<1>13. RootIsWhole'
  <2>1. root > 0 => tree'[root] = tree[root]
    BY <1>4, <1>5 DEF NamesTyped
  <2>2. QED
    BY <1>0, <1>1, <1>2, <2>1, WholeStays
<1>14. QED
  BY <1>6, <1>7, <1>9, <1>10, <1>11, <1>12, <1>13

\* Local Head is installed when every Object its history names is there.
LEMMA InstallHeadKeeps ==
  ASSUME ReconstructInv, NEW p \in Callers, InstallHead(p)
  PROVE  ReconstructInv'
<1>1. Works(p) /\ call[p].pc \notin Finished
  BY DEF InstallHead, At, Works, Early, Finished
<1>2. PICK d : d = call[p].dir
  OBVIOUS
<1>3. d \in 1..Len(tree) /\ TreesTyped
  BY <1>1, <1>2 DEF ReconstructInv, CallsTyped, Works
<1>4. UNCHANGED <<stage, root, edited>>
  BY DEF InstallHead, beside
<1>5. CASE ~ ObjectsExact(p)
  <2>1. Answer(p, "conflict") /\ tree' = tree
    BY <1>5 DEF InstallHead
  <2>2. PICK c : Becomes(p, c) /\ c.pc = "idle" /\ c.dir = 0
    BY <2>1, Answered
  <2>3. ChangesOnly(d)
    BY <1>3, <2>1, NothingWritten
  <2>4. c.pc \notin PastHead
    BY <2>2 DEF PastHead
  <2>5. QED
    BY <1>1, <1>2, <1>4, <2>2, <2>3, <2>4, WorkKeeps
<1>6. CASE ObjectsExact(p)
  <2>1. Goto(p, "recheckAgain") /\ tree' = [tree EXCEPT ![d].history = "head"]
    BY <1>2, <1>6 DEF InstallHead, SetHistory
  <2>2. PICK c : /\ Becomes(p, c) /\ c.pc = "recheckAgain"
                 /\ c.dir = call[p].dir /\ c.plan = call[p].plan
    BY <2>1, Reached DEF Goto
  <2>3. /\ ChangesOnly(d) /\ tree'[d].object = tree[d].object
        /\ tree'[d].history = "head"
    BY <1>3, <2>1, FieldsWritten
  <2>4. call'[p] = c
    BY <2>2 DEF ReconstructInv, CallsTyped, Becomes
  <2>5. ObjectsExact(p)'
    BY <1>2, <1>6, <2>2, <2>3, <2>4 DEF ObjectsExact, References, Held
  <2>6. Proved(p)'
    BY <1>2, <2>2, <2>3, <2>4, <2>5 DEF Proved
  <2>7. c.pc \in Early \cup PastHead /\ c.dir = d
    BY <1>2, <2>2 DEF PastHead
  <2>8. QED
    BY <1>1, <1>2, <1>4, <2>2, <2>3, <2>6, <2>7, WorkKeeps
<1>7. QED
  BY <1>5, <1>6

\* The whole stage is proved.
LEMMA VerifyKeeps ==
  ASSUME ReconstructInv, NEW p \in Callers, VerifyStage(p)
  PROVE  ReconstructInv'
<1>1. Works(p) /\ call[p].pc = "verify" /\ call[p].pc \notin Finished
  BY DEF VerifyStage, At, Works, PastHead, Finished
<1>2. PICK d : d = call[p].dir
  OBVIOUS
<1>3. d \in 1..Len(tree) /\ TreesTyped
  BY <1>1, <1>2 DEF ReconstructInv, CallsTyped, Works
<1>4. tree' = tree /\ UNCHANGED <<stage, root>>
  BY DEF VerifyStage, beside
<1>5. ChangesOnly(d)
  BY <1>3, <1>4, NothingWritten
<1>6. CASE ~ (VisibleExact(d) /\ Attests(RootManifest(d)))
  <2>1. Answer(p, "conflict") /\ edited' = edited
    BY <1>2, <1>6 DEF VerifyStage
  <2>2. PICK c : Becomes(p, c) /\ c.pc = "idle" /\ c.dir = 0
    BY <2>1, Answered
  <2>3. c.pc \notin PastHead
    BY <2>2 DEF PastHead
  <2>4. QED
    BY <1>1, <1>2, <1>4, <1>5, <2>1, <2>2, <2>3, WorkKeeps
<1>7. CASE VisibleExact(d) /\ Attests(RootManifest(d))
  <2>1. AttestAs(p, "complete") /\ edited' = edited \ {<<"people", d>>}
    BY <1>2, <1>7 DEF VerifyStage
  <2>2. PICK c : /\ Becomes(p, c) /\ c.pc = "complete" /\ c.seen = {RootManifest(d)}
                 /\ c.dir = call[p].dir /\ c.plan = call[p].plan
    <3> DEFINE c == Call("complete", call[p].plan, call[p].dir, {RootManifest(call[p].dir)}, 1)
    <3>1. /\ c.pc = "complete" /\ c.seen = {RootManifest(d)}
          /\ c.dir = call[p].dir /\ c.plan = call[p].plan
      BY <1>2 DEF Call
    <3>2. Becomes(p, c)
      BY <2>1 DEF AttestAs
    <3>3. QED
      BY <3>1, <3>2
  <2>3. call'[p] = c
    BY <2>2 DEF ReconstructInv, CallsTyped, Becomes
  <2>4. /\ \A e : e # d => (<<"people", e>> \in edited' <=> <<"people", e>> \in edited)
        /\ \A e : <<"rivals", e>> \in edited' <=> <<"rivals", e>> \in edited
        /\ \A e : <<"manifest", e>> \in edited' <=> <<"manifest", e>> \in edited
    BY <2>1
  <2>5. ASSUME <<"rivals", d>> \notin edited
        PROVE  Proved(p)'
    <3>1. Proved(p)
      BY <1>1, <1>2, <2>5 DEF ReconstructInv, ProofsHold, PastHead, Shared
    <3>2. tree'[d].history = "head" /\ ObjectsExact(p)'
      BY <1>2, <1>4, <2>2, <2>3, <3>1 DEF Proved, ObjectsExact, References, Held
    <3>3. VisibleExact(d)' /\ RootManifest(d)' = RootManifest(d)
      BY <1>4, <1>7 DEF VisibleExact, RootManifest
    <3>4. /\ call'[p].dir = d /\ call'[p].pc = "complete"
          /\ call'[p].seen = {RootManifest(d)'}
      BY <1>2, <2>2, <2>3, <3>3
    <3>5. QED
      BY <1>7, <3>2, <3>3, <3>4 DEF Proved, VisibleExact, RootManifest, Attests
  <2>6. c.pc \in Early \cup PastHead /\ c.dir = d
    BY <1>2, <2>2 DEF PastHead
  <2>7. QED
    BY <1>1, <1>2, <1>4, <1>5, <2>2, <2>4, <2>5, <2>6, WorkKeeps
<1>8. QED
  BY <1>6, <1>7

\* The completion record is written in a stage that was proved.
LEMMA CompleteKeeps ==
  ASSUME ReconstructInv, NEW p \in Callers, Complete(p)
  PROVE  ReconstructInv'
<1>1. Works(p) /\ call[p].pc = "complete" /\ call[p].pc \notin Finished
  BY DEF Complete, At, Works, PastHead, Finished
<1>2. PICK d : d = call[p].dir
  OBVIOUS
<1>3. d \in 1..Len(tree) /\ TreesTyped
  BY <1>1, <1>2 DEF ReconstructInv, CallsTyped, Works
<1>4. UNCHANGED <<stage, root, edited>>
  BY DEF Complete, beside
<1>5. PICK done : done = {Completion(Record(p), d, m) : m \in call[p].seen}
  OBVIOUS
<1>6. CASE Answer(p, "conflict") /\ tree' = tree
  <2>1. PICK c : Becomes(p, c) /\ c.pc = "idle" /\ c.dir = 0
    BY <1>6, Answered
  <2>2. ChangesOnly(d)
    BY <1>3, <1>6, NothingWritten
  <2>3. c.pc \notin PastHead
    BY <2>1 DEF PastHead
  <2>4. QED
    BY <1>1, <1>2, <1>4, <2>1, <2>2, <2>3, WorkKeeps
<1>7. CASE tree' = [tree EXCEPT ![d].completed = done] /\ Goto(p, "publish")
  <2>1. PICK c : /\ Becomes(p, c) /\ c.pc = "publish" /\ c.seen = call[p].seen
                 /\ c.dir = call[p].dir /\ c.plan = call[p].plan
    BY <1>7, Reached DEF Goto
  <2>2. call'[p] = c
    BY <2>1 DEF ReconstructInv, CallsTyped, Becomes
  <2>3. /\ ChangesOnly(d) /\ tree'[d].object = tree[d].object
        /\ tree'[d].file = tree[d].file /\ tree'[d].history = tree[d].history
        /\ tree'[d].completed = done
    BY <1>3, <1>7, FieldsWritten
  <2>4. ASSUME <<"rivals", d>> \notin edited
        PROVE  Proved(p)'
    <3>1. Proved(p)
      BY <1>1, <1>2, <2>4 DEF ReconstructInv, ProofsHold, PastHead, Shared
    <3>2. tree'[d].history = "head" /\ ObjectsExact(p)'
      BY <1>2, <2>1, <2>2, <2>3, <3>1 DEF Proved, ObjectsExact, References, Held
    <3>3. ASSUME <<"people", d>> \notin edited
          PROVE  /\ VisibleExact(d)' /\ Attests(RootManifest(d)')
                 /\ call[p].seen = {RootManifest(d)'}
      <4>1. /\ VisibleExact(d) /\ Attests(RootManifest(d))
            /\ call[p].seen = {RootManifest(d)}
        BY <1>1, <1>2, <3>1, <3>3 DEF Proved
      <4>2. QED
        BY <2>3, <4>1 DEF VisibleExact, RootManifest
    <3>4. tree'[d].completed = {Completion(Record(p)', d, m) : m \in call[p].seen}
      BY <1>5, <2>1, <2>2, <2>3 DEF Record
    <3>5. call'[p].dir = d /\ call'[p].pc = "publish" /\ call'[p].seen = call[p].seen
      BY <1>2, <2>1, <2>2
    <3>6. QED
      BY <1>4, <3>2, <3>3, <3>4, <3>5 DEF Proved, VisibleExact, RootManifest, Attests
  <2>5. c.pc \in Early \cup PastHead /\ c.dir = d
    BY <1>2, <2>1 DEF PastHead
  <2>6. QED
    BY <1>1, <1>2, <1>4, <2>1, <2>3, <2>4, <2>5, WorkKeeps
<1>8. QED
  BY <1>2, <1>5, <1>6, <1>7 DEF Complete

\* The rename publishes what its call has proved, or marks what it has not.
LEMMA PublishKeeps ==
  ASSUME ReconstructInv, ManifestInv, NEW p \in Callers, Publish(p)
  PROVE  ReconstructInv'
<1> USE DEF ReconstructInv
<1>1. Works(p) /\ call[p].pc = "publish" /\ call[p].pc \notin Finished
  BY DEF Publish, At, Works, PastHead, Finished
<1>2. PICK d, o : d = call[p].dir /\ o = Op(p)
  OBVIOUS
<1>3. d \in 1..Len(tree) /\ TreesTyped /\ o \in Operations
  BY <1>1, <1>2, OperationsAssumption DEF CallsTyped, Works, Op
<1>4. tree' = tree
  BY DEF Publish
<1>5. CASE \E result : Answer(p, result) /\ UNCHANGED <<stage, root, edited>>
  <2>1. PICK c : Becomes(p, c) /\ c.pc = "idle" /\ c.dir = 0
    BY <1>5, Answered
  <2>2. Moves(p)
    BY <1>4, <1>5, <2>1 DEF Moves, Follows
  <2>3. QED
    BY <2>2, MovesKeep
<1>6. CASE /\ root = 0 /\ stage[o] # 0 /\ root' = stage[o]
           /\ stage' = [stage EXCEPT ![o] = 0] /\ Goto(p, "confirm")
           /\ edited' = IF stage[o] = d THEN edited
                        ELSE edited \union {<<"rivals", stage[o]>>}
  <2>1. PICK c : /\ Becomes(p, c) /\ c.pc = "confirm"
                 /\ c.dir = call[p].dir /\ c.plan = call[p].plan
    BY <1>6, Reached DEF Goto
  <2>2. TreesTyped'
    BY <1>4 DEF TreesTyped, IsTree, Range
  <2>3. /\ \A n \in Operations : stage'[n] = IF n = o THEN 0 ELSE stage[n]
        /\ stage' = [n \in Operations |-> stage'[n]]
    BY <1>6 DEF NamesTyped
  <2>4. stage[o] \in 1..Len(tree) /\ Len(tree) \in Nat
    BY <1>3, <1>6 DEF NamesTyped, TreesTyped
  <2>5. NamesTyped'
    <3>1. /\ \A n \in Operations : stage'[n] \in 0..Len(tree')
          /\ \A m, n \in Operations : stage'[m] = stage'[n] /\ stage'[m] # 0 => m = n
      BY <1>4, <2>3, <2>4 DEF NamesTyped
    <3>2. root' \in -1..Len(tree') /\ \A n \in Operations : stage'[n] # root'
      BY <1>3, <1>4, <1>6, <2>3, <2>4 DEF NamesTyped
    <3>3. QED
      BY <2>3, <3>1, <3>2 DEF NamesTyped
  <2>6. /\ CallsTyped'
        /\ call'[p] = c /\ \A q \in Callers \ {p} : call'[q] = call[q]
    <3>1. c.pc \notin Outside /\ c.pc \in Finished /\ c.dir \in 1..Len(tree')
      BY <1>2, <1>3, <1>4, <2>1 DEF Outside, Finished
    <3>2. PlanCloses(c.plan)
      BY <1>1, <2>1 DEF CallsTyped
    <3>3. Len(tree') \in Nat /\ Len(tree) =< Len(tree')
      BY <1>4, <2>4
    <3>4. QED
      BY <2>1, <3>1, <3>2, <3>3, CallsStay
  <2>7. \A q \in Callers : Works(q)' => Works(q) /\ call'[q].dir = call[q].dir
    BY <1>1, <2>1, <2>6 DEF Works
  <2>8. /\ edited \subseteq edited'
        /\ \A e : <<"people", e>> \in edited' => <<"people", e>> \in edited
        /\ \A e : <<"manifest", e>> \in edited' => <<"manifest", e>> \in edited
    BY <1>6
  <2>9. RivalsMarked'
    BY <2>7, <2>8 DEF RivalsMarked, Shared
  <2>10. RootIsClosed'
    <3> SUFFICES ASSUME NEW q \in Callers, Works(q)', call'[q].dir = root',
                        <<"rivals", root'>> \notin edited'
                 PROVE  call'[q].pc \in Finished
      BY DEF RootIsClosed, Shared
    <3>1. stage[o] = d
      BY <1>6
    <3>2. CASE q = p
      BY <2>1, <2>6, <3>2 DEF Finished
    <3>3. CASE q # p
      <4>1. Works(q) /\ call[q].dir = d
        BY <1>6, <2>7, <3>1
      <4>2. <<"rivals", d>> \in edited
        BY <1>1, <1>2, <3>3, <4>1 DEF RivalsMarked, Shared
      <4>3. QED
        BY <1>6, <2>8, <3>1, <4>2
    <3>4. QED
      BY <3>2, <3>3
  <2>11. ProofsHold'
    <3> SUFFICES ASSUME NEW q \in Callers, call'[q].pc \in PastHead,
                        <<"rivals", call'[q].dir>> \notin edited'
                 PROVE  Proved(q)'
      BY DEF ProofsHold, Shared
    <3>1. q # p
      BY <2>1, <2>6 DEF PastHead
    <3>2. call'[q] = call[q]
      BY <2>6, <3>1
    <3>3. PICK e : e = call[q].dir
      OBVIOUS
    <3>4. Proved(q)
      BY <2>8, <3>2, <3>3 DEF ProofsHold, Shared
    <3>5. QED
      BY <1>4, <2>8, <3>2, <3>3, <3>4, ProvedStays
  <2>12. RootIsWhole'
    <3> SUFFICES ASSUME <<"people", root'>> \notin edited', <<"rivals", root'>> \notin edited'
                 PROVE  /\ VisibleExact(root)' /\ tree'[root'].history = "head"
                        /\ \E x \in CompletedAs(root)' : WholeAs(x, root)'
      BY DEF RootIsWhole, Shared
    <3>1. stage[o] = d /\ root' = d /\ edited' = edited
      BY <1>6
    <3>2. <<"people", d>> \notin edited /\ <<"rivals", d>> \notin edited
      BY <3>1
    <3>3. Proved(p)
      BY <1>1, <1>2, <3>2 DEF ProofsHold, PastHead, Shared
    <3>4. PICK m : m = RootManifest(d)
      OBVIOUS
    <3>5. /\ tree[d].history = "head" /\ VisibleExact(d) /\ Attests(m)
          /\ tree[d].completed = {Completion(Record(p), d, m)}
      BY <1>1, <1>2, <3>2, <3>3, <3>4 DEF Proved
    <3>6. PICK x : x = Completion(Record(p), d, m)
      OBVIOUS
    <3>7. /\ x.root = d /\ x.manifest = m
          /\ x.operation.operation = o /\ x.operation.index = call[p].plan
      BY <1>2, <3>6 DEF Completion, Record
    <3>8. x \in CompletedAs(root)'
      BY <1>3, <1>4, <3>1, <3>5, <3>6, <3>7 DEF CompletedAs
    <3>9. \A id \in DOMAIN Closure :
            \E r \in Range(Indexes[x.operation.index].references) :
              r.version = id /\ tree[d].object[id] = <<r.manifest.object>>
      <4>1. PICK refs : refs = Range(References(p))
        OBVIOUS
      <4>2. \A id \in DOMAIN Closure : \E r \in refs : r.version = id
        BY <1>1, <4>1 DEF CallsTyped, PlanCloses, References
      <4>3. \A r \in refs : tree[d].object[r.version] = <<r.manifest.object>>
        BY <1>2, <3>3, <4>1 DEF Proved, ObjectsExact, Held
      <4>4. \A id \in DOMAIN Closure :
              \E r \in refs : r.version = id /\ tree[d].object[id] = <<r.manifest.object>>
        <5> TAKE id \in DOMAIN Closure
        <5>1. PICK r \in refs : r.version = id
          BY <4>2
        <5>2. tree[d].object[r.version] = <<r.manifest.object>>
          BY <4>3, <5>1
        <5>3. tree[d].object[id] = <<r.manifest.object>>
          BY <5>1, <5>2
        <5>4. QED
          BY <5>1, <5>3
      <4>5. Range(Indexes[x.operation.index].references) = refs
        BY <3>7, <4>1 DEF References
      <4>6. QED
        BY <4>4, <4>5
    <3>10. ~ Tagged(d) => m = Exact["manifest"] /\ Fits(m)
      <4>1. ASSUME ~ Tagged(d)
            PROVE  m = Exact["manifest"] /\ Version.root.fits
        BY <1>1, <1>2, <1>3, <3>4, <3>5, <4>1
          DEF ManifestInv, ManifestsMarked, ManifestsFit, PastHead, Attests
      <4>2. QED
        BY <4>1 DEF Fits
    <3>11. WholeAs(x, d)
      BY <3>4, <3>5, <3>7, <3>9, <3>10 DEF WholeAs, Tagged
    <3>12. WholeAs(x, root)' /\ VisibleExact(root)'
      BY <1>4, <3>1, <3>5, <3>11
        DEF WholeAs, VisibleExact, RootManifest, Attests, Fits, Closure
    <3>13. QED
      BY <1>4, <3>1, <3>5, <3>8, <3>12
  <2>13. QED
    BY <2>2, <2>5, <2>6, <2>9, <2>10, <2>11, <2>12
<1>7. QED
  BY <1>2, <1>5, <1>6 DEF Publish

\* A step of a call.
LEMMA StepKeeps ==
  ASSUME ReconstructInv, ManifestInv, NEW p \in Callers, ReconstructStep(p)
  PROVE  ReconstructInv'
BY StepKinds, MovesKeep, FillsKeep, AcquireKeeps, InstallHeadKeeps, VerifyKeeps,
   CompleteKeeps, PublishKeeps DEF ReconstructInv

-----------------------------------------------------------------------------
(* People and deaths.                                                          *)

\* A death ends a call and changes nothing on disk.
LEMMA DeathKeeps ==
  ASSUME ReconstructInv, NEW p \in Callers, CallerDies(p)
  PROVE  ReconstructInv'
<1>1. Becomes(p, Idle) /\ UNCHANGED <<tree, stage, root, edited>>
  BY DEF CallerDies, Becomes, beside
<1>2. Idle.pc = "idle" /\ Idle.dir = 0
  BY DEF Idle, Call
<1>3. PICK c : c = Idle
  OBVIOUS
<1>4. Moves(p)
  BY <1>1, <1>2, <1>3 DEF Moves, Follows
<1>5. QED
  BY <1>4, MovesKeep

\* What people edit is marked until it is proved again.
LEMMA EditKeeps ==
  ASSUME ReconstructInv, EditTree
  PROVE  ReconstructInv'
<1> USE DEF ReconstructInv
<1>1. PICK d \in DOMAIN tree : \E path, value :
        /\ tree' = [tree EXCEPT ![d].file[path] = value]
        /\ edited' \in {edited \union {<<"people", d>>},
                       edited \union {<<"people", d>>, <<"manifest", d>>}}
  BY DEF EditTree
<1>2. d \in 1..Len(tree) /\ Len(tree) \in Nat
  BY DEF TreesTyped
<1>3. UNCHANGED <<stage, root, call>>
  BY DEF EditTree, beside
<1>4. /\ ChangesOnly(d)
      /\ tree'[d].object = tree[d].object /\ tree'[d].history = tree[d].history
      /\ tree'[d].completed = tree[d].completed
  <2>1. PICK path, value : tree' = [tree EXCEPT ![d].file[path] = value]
    BY <1>1
  <2>2. QED
    BY <1>2, <2>1, EntriesWritten
<1>5. /\ tree' \in Seq(Range(tree')) /\ Len(tree') = Len(tree) /\ IsTree(tree'[d])
      /\ \A e \in 1..Len(tree) : e # d => tree'[e] = tree[e]
  BY <1>4 DEF ChangesOnly
<1>6. /\ edited \subseteq edited' /\ <<"people", d>> \in edited'
      /\ \A e : <<"people", e>> \in edited' => <<"people", e>> \in edited \/ e = d
      /\ \A e : <<"rivals", e>> \in edited' <=> <<"rivals", e>> \in edited
      /\ \A e : <<"manifest", e>> \in edited => <<"manifest", e>> \in edited'
  BY <1>1
<1>7. TreesTyped' /\ NamesTyped' /\ CallsTyped'
  BY <1>3, <1>5 DEF TreesTyped, IsTree, NamesTyped, CallsTyped, PlanCloses, Closure
<1>8. RivalsMarked' /\ RootIsClosed'
  BY <1>3, <1>6 DEF RivalsMarked, RootIsClosed, Shared, Works
<1>9. ProofsHold'
  <2> SUFFICES ASSUME NEW q \in Callers, call[q].pc \in PastHead,
                      <<"rivals", call[q].dir>> \notin edited
               PROVE  Proved(q)'
    BY <1>3, <1>6 DEF ProofsHold, Shared
  <2>1. Proved(q) /\ call'[q] = call[q]
    BY <1>3 DEF ProofsHold, Shared
  <2>2. PICK e : e = call[q].dir
    OBVIOUS
  <2>3. CASE e # d
    <3>1. e \in 1..Len(tree)
      BY <2>2 DEF CallsTyped
    <3>2. QED
      BY <1>5, <1>6, <2>1, <2>2, <2>3, <3>1, ProvedStays
  <2>4. CASE e = d
    <3>1. tree'[d].history = "head" /\ ObjectsExact(q)'
      BY <1>4, <2>1, <2>2, <2>4 DEF Proved, ObjectsExact, References, Held
    <3>2. call[q].pc = "publish" =>
            tree'[d].completed = {Completion(Record(q)', d, m) : m \in call'[q].seen}
      BY <1>4, <2>1, <2>2, <2>4 DEF Proved, Record
    <3>3. call'[q].dir = d /\ <<"people", d>> \in edited'
      BY <1>6, <2>1, <2>2, <2>4
    <3>4. QED
      BY <2>1, <3>1, <3>2, <3>3 DEF Proved
  <2>5. QED
    BY <2>3, <2>4
<1>10. RootIsWhole'
  <2>1. CASE root = d
    BY <1>3, <1>6, <2>1 DEF RootIsWhole
  <2>2. CASE root # d
    <3>1. root > 0 => tree'[root] = tree[root]
      BY <1>2, <1>5, <2>2 DEF NamesTyped
    <3>2. QED
      BY <1>3, <1>6, <2>2, <3>1, WholeStays
  <2>3. QED
    BY <2>1, <2>2
<1>11. QED
  BY <1>7, <1>8, <1>9, <1>10

\* People may take the root or a stage away, or change the package.
LEMMA PeopleKeep ==
  ASSUME ReconstructInv, PeopleMeddle
  PROVE  ReconstructInv'
<1> USE DEF ReconstructInv
<1>1. CASE EditTree
  BY <1>1, EditKeeps
<1>2. CASE MoveRoot \/ RemoveStage \/ ChangePackage
  <2>1. UNCHANGED <<tree, call, edited>>
    BY <1>2 DEF MoveRoot, RemoveStage, ChangePackage
  <2>2. /\ root' = root \/ root' \in {0, -1}
        /\ stage' = stage \/ \E o \in Operations : stage' = [stage EXCEPT ![o] = 0]
    BY <1>2 DEF MoveRoot, RemoveStage, ChangePackage, beside
  <2>3. Len(tree) \in Nat
    BY DEF TreesTyped
  <2>4. TreesTyped' /\ CallsTyped' /\ RivalsMarked'
    BY <2>1 DEF TreesTyped, IsTree, Range, CallsTyped, PlanCloses, Closure, RivalsMarked,
      Works, Shared
  <2>5. NamesTyped'
    <3>1. /\ stage' = [o \in Operations |-> stage'[o]]
          /\ \A o \in Operations : stage'[o] \in {0, stage[o]}
      BY <2>2 DEF NamesTyped
    <3>2. /\ \A o \in Operations : stage'[o] \in 0..Len(tree)
          /\ \A o, n \in Operations : stage'[o] = stage'[n] /\ stage'[o] # 0 => o = n
      BY <2>3, <3>1 DEF NamesTyped
    <3>3. root' \in -1..Len(tree) /\ (root' > 0 => \A o \in Operations : stage'[o] # root')
      BY <2>2, <2>3, <3>1 DEF NamesTyped
    <3>4. QED
      BY <2>1, <3>1, <3>2, <3>3 DEF NamesTyped
  <2>6. RootIsClosed'
    <3>1. \A q \in Callers : Works(q) => call[q].dir \in 1..Len(tree)
      BY DEF CallsTyped, Works
    <3>2. QED
      BY <2>1, <2>2, <2>3, <3>1 DEF RootIsClosed, Works, Shared
  <2>7. ProofsHold'
    <3> SUFFICES ASSUME NEW q \in Callers, call[q].pc \in PastHead,
                        <<"rivals", call[q].dir>> \notin edited
                 PROVE  Proved(q)'
      BY <2>1 DEF ProofsHold, Shared
    <3>1. Proved(q)
      BY DEF ProofsHold, Shared
    <3>2. PICK e : e = call[q].dir
      OBVIOUS
    <3>3. QED
      BY <2>1, <3>1, <3>2, ProvedStays
  <2>8. RootIsWhole'
    <3>1. CASE root' = root
      BY <2>1, <3>1, WholeStays
    <3>2. CASE root' \in {0, -1}
      BY <3>2 DEF RootIsWhole
    <3>3. QED
      BY <2>2, <3>1, <3>2
  <2>9. QED
    BY <2>4, <2>5, <2>6, <2>7, <2>8
<1>3. QED
  BY <1>1, <1>2 DEF PeopleMeddle

\* Nothing of reconstruction changes.
LEMMA StillKeeps ==
  ASSUME ReconstructInv, UNCHANGED reconstructVars
  PROVE  ReconstructInv'
<1> USE DEF ReconstructInv
<1>1. UNCHANGED <<tree, stage, root, call, edited>>
  BY DEF reconstructVars
<1>2. TreesTyped' /\ CallsTyped' /\ RivalsMarked' /\ NamesTyped' /\ RootIsClosed'
  <2>1. TreesTyped' /\ NamesTyped'
    BY <1>1 DEF TreesTyped, IsTree, Range, NamesTyped
  <2>2. CallsTyped'
    BY <1>1 DEF CallsTyped, PlanCloses, Closure
  <2>3. RivalsMarked' /\ RootIsClosed'
    BY <1>1 DEF RivalsMarked, RootIsClosed, Works, Shared
  <2>4. QED
    BY <2>1, <2>2, <2>3
<1>3. ProofsHold'
  <2> SUFFICES ASSUME NEW q \in Callers, call[q].pc \in PastHead,
                      <<"rivals", call[q].dir>> \notin edited
               PROVE  Proved(q)'
    BY <1>1 DEF ProofsHold, Shared
  <2>1. Proved(q)
    BY DEF ProofsHold, Shared
  <2>2. PICK e : e = call[q].dir
    OBVIOUS
  <2>3. QED
    BY <1>1, <2>1, <2>2, ProvedStays
<1>4. RootIsWhole'
  BY <1>1, WholeStays
<1>5. QED
  BY <1>2, <1>3, <1>4

\* Only people mark a manifest, and no step of a call takes the mark away.
LEMMA MarksStay ==
  ASSUME NEW p, Moves(p) \/ Fills(p) \/ AcquireStage(p) \/ InstallHead(p)
                \/ VerifyStage(p) \/ Complete(p) \/ Publish(p),
         NEW e, <<"manifest", e>> \in edited
  PROVE  <<"manifest", e>> \in edited'
BY DEF Moves, Fills, AcquireStage, InstallHead, VerifyStage, Complete, Publish

\* A step of a call.
LEMMA MarkedKeeps ==
  ASSUME ReconstructInv, ManifestInv, NEW p \in Callers, ReconstructStep(p)
  PROVE  ManifestsMarked'
<1>0. TreesTyped /\ NamesTyped /\ CallsTyped /\ ManifestsMarked
  BY DEF ReconstructInv, ManifestInv
<1>1. \A e : <<"manifest", e>> \in edited => <<"manifest", e>> \in edited'
  BY <1>0, StepKinds, MarksStay
<1>d. PICK d : d = call[p].dir
  OBVIOUS
<1>3. ASSUME tree' = tree
      PROVE  ManifestsMarked'
  BY <1>0, <1>1, <1>3 DEF ManifestsMarked, RootManifest, Tagged
<1>4. ASSUME d \in 1..Len(tree),
             \/ \E v : \/ tree' = [tree EXCEPT ![d].active = v]
                       \/ tree' = [tree EXCEPT ![d].history = v]
                       \/ tree' = [tree EXCEPT ![d].completed = v]
             \/ \E x, v : tree' = [tree EXCEPT ![d].object[x] = v]
      PROVE  ManifestsMarked'
  <2>1. ChangesOnly(d) /\ tree'[d].file = tree[d].file
    <3>1. CASE \E v : \/ tree' = [tree EXCEPT ![d].active = v]
                      \/ tree' = [tree EXCEPT ![d].history = v]
                      \/ tree' = [tree EXCEPT ![d].completed = v]
      BY <1>0, <1>4, <3>1, FieldsWritten
    <3>2. CASE \E x, v : tree' = [tree EXCEPT ![d].object[x] = v]
      BY <1>0, <1>4, <3>2, ObjectsWritten
    <3>3. QED
      BY <1>4, <3>1, <3>2
  <2>2. QED
    BY <1>0, <1>1, <1>4, <2>1, MarkedStays DEF ChangesOnly
<1>5. ASSUME d \in 1..Len(tree), NEW x, NEW v, v \notin OfPeople, PutFile(p, x, v)
      PROVE  ManifestsMarked'
  <2>1. PutsFile(d, x, v)
    BY <1>d, <1>5 DEF PutFile, PutsFile
  <2>2. ChangesOnly(d) /\ tree'[d].file = [tree[d].file EXCEPT ![x] = v]
    BY <1>0, <1>5, <2>1, FilesWritten
  <2>3. PutsOwn(d)
    BY <1>5, <2>2 DEF PutsOwn
  <2>4. QED
    BY <1>0, <1>1, <1>5, <2>2, <2>3, MarkedStays DEF ChangesOnly
<1>6. CASE Moves(p) \/ VerifyStage(p) \/ Publish(p)
  BY <1>3, <1>6 DEF Moves, VerifyStage, Publish
<1>7. CASE AcquireStage(p)
  <2>1. tree' = tree \/ tree' = Append(tree, Empty)
    BY <1>7 DEF AcquireStage
  <2>2. CASE tree' = Append(tree, Empty)
    <3>1. PICK n : n = Len(tree) /\ n \in Nat
      BY <1>0 DEF TreesTyped
    <3>2. /\ Len(tree') = n + 1 /\ tree'[n + 1] = Empty
          /\ \A e \in 1..n : tree'[e] = tree[e]
      BY <1>0, <2>2, <3>1, Appended DEF TreesTyped
    <3>3. "manifest" \in DOMAIN Empty.file /\ Empty.file["manifest"] = Absent
      BY DEF Empty
    <3>4. \A e \in 1..n : /\ "manifest" \in DOMAIN tree'[e].file
                          /\ tree'[e].file["manifest"] \in OfPeople =>
                               <<"manifest", e>> \in edited'
      BY <1>0, <1>1, <3>1, <3>2 DEF ManifestsMarked, RootManifest, OfPeople, Tagged
    <3>5. \A e \in 1..n + 1 : e \in 1..n \/ e = n + 1
      BY <3>1
    <3>6. \A e \in 1..n + 1 : /\ "manifest" \in DOMAIN tree'[e].file
                              /\ tree'[e].file["manifest"] \in OfPeople =>
                                   <<"manifest", e>> \in edited'
      BY <3>2, <3>3, <3>4, <3>5, CoreWrites
    <3>7. QED
      BY <3>2, <3>6 DEF ManifestsMarked, RootManifest, OfPeople, Tagged
  <2>3. QED
    BY <1>3, <2>1, <2>2
<1>8. CASE \/ InstallHead(p) \/ Complete(p)
           \/ Prepare(p) \/ InstallRecords(p) \/ CopyObject(p) \/ FillObject(p)
  <2>1. d \in 1..Len(tree)
    BY <1>0, <1>8, <1>d
      DEF InstallHead, Complete, Prepare, InstallRecords, CopyObject, FillObject, At, CallsTyped,
        Early, PastHead
  <2>2. \/ tree' = tree
        \/ \E v : \/ tree' = [tree EXCEPT ![d].active = v]
                  \/ tree' = [tree EXCEPT ![d].history = v]
                  \/ tree' = [tree EXCEPT ![d].completed = v]
        \/ \E x, v : tree' = [tree EXCEPT ![d].object[x] = v]
    <3>1. CASE InstallHead(p) \/ Complete(p) \/ Prepare(p) \/ InstallRecords(p)
      BY <1>d, <3>1 DEF InstallHead, Complete, Prepare, InstallRecords, SetHistory
    <3>2. CASE CopyObject(p)
      BY <1>d, <3>2 DEF CopyObject, PutObject
    <3>3. CASE FillObject(p)
      BY <1>d, <3>3 DEF FillObject, PutObject
    <3>4. QED
      BY <1>8, <3>1, <3>2, <3>3
  <2>3. QED
    BY <1>3, <1>4, <2>1, <2>2
<1>9. CASE CopyFile(p) \/ FillFile(p) \/ DropTorn(p) \/ CreateLink(p)
  <2>1. d \in 1..Len(tree)
    BY <1>0, <1>9, <1>d DEF CopyFile, FillFile, DropTorn, CreateLink, At, CallsTyped, Early
  <2>2. CASE CopyFile(p)
    <3>1. tree' = tree \/ \E x : PutFile(p, x, Torn(p))
      BY <2>2 DEF CopyFile
    <3>2. QED
      BY <1>3, <1>5, <2>1, <3>1, CoreWrites
  <2>3. CASE FillFile(p)
    <3>1. call[p].item \in 1..Len(Files)
      BY <2>3 DEF FillFile, At, ManifestInv, ItemsTyped
    <3>2. \/ tree' = tree
          \/ PutFile(p, Files[call[p].item].path, Files[call[p].item].exact)
      BY <2>3 DEF FillFile
    <3>3. QED
      BY <1>3, <1>5, <2>1, <3>1, <3>2, CoreWrites
  <2>4. CASE DropTorn(p)
    <3>1. \/ tree' = tree
          \/ \E x : PutObject(p, x, Absent)
          \/ \E x : PutFile(p, x, Absent)
      BY <2>4 DEF DropTorn
    <3>2. ASSUME NEW x, PutObject(p, x, Absent)
          PROVE  ManifestsMarked'
      BY <1>4, <1>d, <2>1, <3>2 DEF PutObject
    <3>3. QED
      BY <1>3, <1>5, <2>1, <3>1, <3>2, CoreWrites
  <2>5. CASE CreateLink(p)
    <3>1. \/ tree' = tree
          \/ /\ ~ call[p].item > Len(Links)
             /\ PutFile(p, Links[call[p].item].path, Links[call[p].item].exact)
      BY <2>5 DEF CreateLink
    <3>2. call[p].item \in Nat \ {0}
      BY DEF ManifestInv, ItemsTyped
    <3>3. ~ call[p].item > Len(Links) => Links[call[p].item].exact \notin OfPeople
      BY <3>2, CoreWrites
    <3>4. QED
      BY <1>3, <1>5, <2>1, <3>1, <3>3
  <2>6. QED
    BY <1>9, <2>2, <2>3, <2>4, <2>5
<1>10. QED
  BY <1>0, <1>6, <1>7, <1>8, <1>9, OutsideMoves, LaterMoves DEF ReconstructStep
LEMMA ManifestKeeps ==
  ASSUME ReconstructInv, ManifestInv, NEW p \in Callers, ReconstructStep(p)
  PROVE  ManifestInv'
<1>1. TreesTyped /\ NamesTyped /\ CallsTyped
  BY DEF ReconstructInv
<1>2. \A e : <<"manifest", e>> \in edited => <<"manifest", e>> \in edited'
  BY <1>1, StepKinds, MarksStay
<1>3. ItemsTyped' /\ ManifestsFit'
  BY <1>1, <1>2, StepGoes, CallsFit
<1>4. QED
  BY <1>3, MarkedKeeps DEF ManifestInv

\* People mark what they write in a manifest; nothing else of theirs, and no death,
\* touches one.
LEMMA ManifestOthersKeep ==
  ASSUME ReconstructInv, ManifestInv,
         \/ PeopleMeddle \/ UNCHANGED reconstructVars \/ \E p \in Callers : CallerDies(p)
  PROVE  ManifestInv'
<1>0. TreesTyped /\ CallsTyped /\ ItemsTyped /\ ManifestsMarked /\ ManifestsFit
  BY DEF ReconstructInv, ManifestInv
<1>1. ASSUME call' = call, \A e : <<"manifest", e>> \in edited => <<"manifest", e>> \in edited'
      PROVE  ItemsTyped' /\ ManifestsFit'
  BY <1>0, <1>1 DEF ItemsTyped, ManifestsFit, Tagged, Files
<1>2. CASE EditTree
  <2>0. PICK d \in DOMAIN tree, path \in DOMAIN Empty.file :
          /\ \E value \in Writable(path) : PutsFile(d, path, value)
          /\ path = "manifest" => <<"manifest", d>> \in edited'
    <3>1. \E d \in DOMAIN tree : \E path \in DOMAIN Empty.file :
            /\ \E value \in Writable(path) : PutsFile(d, path, value)
            /\ edited' = edited \union {<<"people", d>>}
                            \union (IF path = "manifest" THEN {<<"manifest", d>>} ELSE {})
      BY <1>2 DEF EditTree, PutsFile
    <3>2. QED
      BY <3>1
  <2>1. PICK value \in Writable(path) : PutsFile(d, path, value)
    BY <2>0
  <2>2. path # "manifest" => value \notin OfPeople
    BY <2>1, CoreWrites DEF Writable, Stray, OfPeople, EditedManifest, ForeignManifest
  <2>3. /\ call' = call
        /\ \A e : <<"manifest", e>> \in edited => <<"manifest", e>> \in edited'
    BY <1>2 DEF EditTree
  <2>4. d \in 1..Len(tree)
    BY <1>0 DEF TreesTyped
  <2>5. /\ ChangesOnly(d)
        /\ tree'[d].file = [tree[d].file EXCEPT ![path] = value]
    BY <1>0, <2>1, <2>4, FilesWritten
  <2>6. ManifestsMarked'
    <3>1. CASE path # "manifest"
      <4>1. PutsOwn(d)
        BY <2>5, <2>2, <3>1 DEF PutsOwn
      <4>2. QED
        BY <1>0, <2>3, <2>4, <2>5, <4>1, MarkedStays DEF ChangesOnly
    <3>2. CASE path = "manifest"
      <4>1. /\ "manifest" \in DOMAIN tree'[d].file /\ <<"manifest", d>> \in edited'
            /\ \A e \in 1..Len(tree) : e # d => tree'[e] = tree[e]
            /\ Len(tree') = Len(tree)
        BY <1>0, <2>0, <2>4, <2>5, <3>2 DEF ManifestsMarked, ChangesOnly
      <4>2. QED
        BY <1>0, <2>3, <4>1 DEF ManifestsMarked, RootManifest, Tagged
    <3>3. QED
      BY <3>1, <3>2
  <2>7. QED
    BY <1>1, <2>3, <2>6 DEF ManifestInv
<1>3. CASE MoveRoot \/ RemoveStage \/ ChangePackage \/ UNCHANGED reconstructVars
  <2>1. UNCHANGED <<tree, call, edited>>
    BY <1>3 DEF MoveRoot, RemoveStage, ChangePackage, reconstructVars
  <2>2. ManifestsMarked'
    BY <1>0, <2>1 DEF ManifestsMarked, RootManifest, Tagged
  <2>3. QED
    BY <1>1, <2>1, <2>2 DEF ManifestInv
<1>4. ASSUME NEW p \in Callers, CallerDies(p)
      PROVE  ManifestInv'
  <2>1. Becomes(p, Idle) /\ UNCHANGED <<tree, edited>>
    BY <1>4 DEF CallerDies, Becomes
  <2>2. Goes(p)
    BY <2>1, FreshGoes DEF Idle, PastHead
  <2>3. ItemsTyped' /\ ManifestsFit'
    BY <1>0, <2>1, <2>2, CallsFit
  <2>4. ManifestsMarked'
    BY <1>0, <2>1 DEF ManifestsMarked, RootManifest, Tagged
  <2>5. QED
    BY <2>3, <2>4 DEF ManifestInv
<1>5. QED
  BY <1>2, <1>3, <1>4 DEF PeopleMeddle

-----------------------------------------------------------------------------
(* Delivery.                                                                   *)

\* Nothing is published, held or made at first.
LEMMA InitHolds ==
  ASSUME ReconstructInit
  PROVE  ReconstructInv /\ ManifestInv
<1>1. tree = <<>> /\ root = 0 /\ edited = {} /\ stage = [o \in Operations |-> 0]
  BY DEF ReconstructInit
<1>2. /\ call = [p \in Callers |-> Idle]
      /\ Idle.pc = "idle" /\ Idle.dir = 0 /\ Idle.item = 1
  BY DEF ReconstructInit, Idle, Call
<1>3. TreesTyped
  BY <1>1 DEF TreesTyped
<1>4. NamesTyped
  BY <1>1 DEF NamesTyped
<1>5. \A p \in Callers : call[p].pc = "idle" /\ call[p].dir = 0
  BY <1>2
<1>6. CallsTyped
  BY <1>2, <1>5 DEF CallsTyped, Outside, Replaying, Early, PastHead, Finished
<1>7. RivalsMarked /\ RootIsClosed /\ ProofsHold
  BY <1>5 DEF RivalsMarked, RootIsClosed, ProofsHold, Works, Early, PastHead, Finished
<1>8. RootIsWhole
  BY <1>1 DEF RootIsWhole
<1>9. ManifestInv
  BY <1>1, <1>2 DEF ManifestInv, ItemsTyped, ManifestsMarked, ManifestsFit, PastHead
<1>10. QED
  BY <1>3, <1>4, <1>6, <1>7, <1>8, <1>9 DEF ReconstructInv

\* The invariant of a transfer: what is about to be installed was verified against
\* the manifest of the Object.
IsDoing(m) == m = Doing(m.at, m.index, m.read, m.copy)
TransferInv ==
  /\ manifest = Planned(object)
  /\ chunkFile = [i \in Indices |-> chunkFile[i]]
  /\ receiver = [r \in Receivers |-> receiver[r]]
  /\ \A r \in Receivers :
       IsDoing(receiver[r]) /\ (receiver[r].at = "install" => receiver[r].copy = object)
  /\ DeliveredWhole

\* Two Objects with one manifest are one.
LEMMA VerifiedIsObject ==
  ASSUME NEW copy, NEW o, NEW m, m = Planned(o), Verifies(m, copy)
  PROVE  copy = o
BY DEF Verifies, Planned

\* What a receiver turns to.
LEMMA TurnKeeps ==
  ASSUME TransferInv, NEW r \in Receivers, NEW at, Turn(r, at), UNCHANGED <<object, manifest>>,
         at = "install" => receiver[r].copy = object
  PROVE  /\ receiver' = [s \in Receivers |-> receiver'[s]]
         /\ \A s \in Receivers :
              /\ IsDoing(receiver'[s])
              /\ receiver'[s].at = "install" => receiver'[s].copy = object
<1>1. receiver = [s \in Receivers |-> receiver[s]] /\ IsDoing(receiver[r])
  BY DEF TransferInv
<1>2. receiver' = [receiver EXCEPT ![r].at = at]
  BY DEF Turn
<1>3. /\ receiver' = [s \in Receivers |-> receiver'[s]]
      /\ \A s \in Receivers : s # r => receiver'[s] = receiver[s]
  BY <1>1, <1>2
<1>4. /\ IsDoing(receiver'[r]) /\ receiver'[r].at = at
      /\ receiver'[r].copy = receiver[r].copy
  BY <1>1, <1>2 DEF IsDoing, Doing
<1>5. QED
  BY <1>3, <1>4 DEF TransferInv

\* What else a receiver does.
LEMMA DoesKeeps ==
  ASSUME TransferInv, NEW r \in Receivers, NEW m, IsDoing(m), m.at # "install",
         receiver' = [receiver EXCEPT ![r] = m], UNCHANGED <<object, manifest>>
  PROVE  /\ receiver' = [s \in Receivers |-> receiver'[s]]
         /\ \A s \in Receivers :
              /\ IsDoing(receiver'[s])
              /\ receiver'[s].at = "install" => receiver'[s].copy = object
<1>1. receiver = [s \in Receivers |-> receiver[s]]
  BY DEF TransferInv
<1>2. /\ receiver' = [s \in Receivers |-> receiver'[s]] /\ receiver'[r] = m
      /\ \A s \in Receivers : s # r => receiver'[s] = receiver[s]
  BY <1>1
<1>3. QED
  BY <1>2 DEF TransferInv

\* Whatever a receiver takes up is one of its tasks.
LEMMA DoingIsDoing ==
  ASSUME NEW at, NEW index, NEW read, NEW copy
  PROVE  IsDoing(Doing(at, index, read, copy)) /\ Doing(at, index, read, copy).at = at
BY DEF IsDoing, Doing

\* A step of a receiver keeps what it is about to install.
LEMMA ReceiverKeeps ==
  ASSUME TransferInv, NEW r \in Receivers, UNCHANGED <<object, manifest>>,
         \/ ReceiverStep(r) \/ ReceiverDies(r) \/ MaterializeBegin(r)
         \/ \E i, read : AcceptBegin(r, i, read)
  PROVE  /\ receiver' = [s \in Receivers |-> receiver'[s]]
         /\ \A s \in Receivers :
              /\ IsDoing(receiver'[s])
              /\ receiver'[s].at = "install" => receiver'[s].copy = object
<1>1. CASE Rest(r)
  <2>1. PICK m : m = Doing("open", 0, <<>>, <<>>)
    OBVIOUS
  <2>2. IsDoing(m) /\ m.at # "install"
    BY <2>1, DoingIsDoing
  <2>3. QED
    BY <1>1, <2>1, <2>2, DoesKeeps DEF Rest
<1>2. CASE \E at : Turn(r, at) /\ at # "install"
  BY <1>2, TurnKeeps
<1>3. CASE CreateStep(r) \/ OpenCheckpoint(r) \/ DiscardPart(r) \/ Release(r)
  <2>1. \/ Rest(r)
        \/ Turn(r, "chunks") \/ Turn(r, "manifest") \/ Turn(r, "lock")
    BY <1>3 DEF CreateStep, OpenCheckpoint, DiscardPart, Release
  <2>2. QED
    BY <1>1, <1>2, <2>1
<1>4. CASE StageChunk(r) \/ LinkChunk(r) \/ Install(r) \/ MaterializeBegin(r)
  <2>1. \/ Turn(r, "link") \/ Turn(r, "discard") \/ Turn(r, "release") \/ Turn(r, "assemble")
    BY <1>4 DEF StageChunk, LinkChunk, Install, MaterializeBegin
  <2>2. QED
    BY <1>2, <2>1
<1>5. CASE AssembleChunk(r)
  <2>1. CASE Turn(r, "install") /\ Verifies(manifest, receiver[r].copy)
    <3>1. receiver[r].copy = object
      BY <2>1, VerifiedIsObject DEF TransferInv
    <3>2. QED
      BY <2>1, <3>1, TurnKeeps
  <2>2. CASE Turn(r, "release")
    BY <1>2, <2>2
  <2>3. CASE \E next, read, copy :
               receiver' = [receiver EXCEPT ![r] = Doing("assemble", next, read, copy)]
    <3>1. PICK next, read, copy :
            receiver' = [receiver EXCEPT ![r] = Doing("assemble", next, read, copy)]
      BY <2>3
    <3>2. PICK m : m = Doing("assemble", next, read, copy)
      OBVIOUS
    <3>3. IsDoing(m) /\ m.at # "install"
      BY <3>2, DoingIsDoing
    <3>4. QED
      BY <3>1, <3>2, <3>3, DoesKeeps
  <2>4. QED
    BY <1>5, <2>1, <2>2, <2>3 DEF AssembleChunk
<1>6. CASE \E i, read : AcceptBegin(r, i, read)
  <2>1. PICK i, read : AcceptBegin(r, i, read)
    BY <1>6
  <2>2. PICK m : m = Doing("stage", i, read, <<>>)
    OBVIOUS
  <2>3. IsDoing(m) /\ m.at # "install"
    BY <2>2, DoingIsDoing
  <2>4. QED
    BY <2>1, <2>2, <2>3, DoesKeeps DEF AcceptBegin
<1>7. CASE ReceiverDies(r)
  <2>1. PICK m : m = Resting
    OBVIOUS
  <2>2. IsDoing(m) /\ m.at # "install"
    BY <2>1, DoingIsDoing DEF Resting
  <2>3. QED
    BY <1>7, <2>1, <2>2, DoesKeeps DEF ReceiverDies
<1>8. QED
  BY <1>3, <1>4, <1>5, <1>6, <1>7 DEF ReceiverStep

\* What a receiver does to the chunks and to the destination.
LEMMA ReceiverPlaces ==
  ASSUME TransferInv, NEW r \in Receivers,
         \/ ReceiverStep(r) \/ ReceiverDies(r) \/ MaterializeBegin(r)
         \/ \E i, read : AcceptBegin(r, i, read)
  PROVE  /\ UNCHANGED <<object, manifest>>
         /\ target' = target \/ (target = {} /\ target' = {object})
         /\ chunkFile' = [i \in Indices |-> chunkFile'[i]]
         /\ \A i \in Indices : chunkFile[i] # {} => chunkFile'[i] = chunkFile[i]
<1>0. chunkFile = [i \in Indices |-> chunkFile[i]]
  BY DEF TransferInv
<1>1. CASE LinkChunk(r)
  <2>1. PICK j, v : chunkFile' = [chunkFile EXCEPT ![j] = IF @ = {} THEN v ELSE @]
    BY <1>1 DEF LinkChunk
  <2>2. UNCHANGED <<object, manifest, target>>
    BY <1>1 DEF LinkChunk
  <2>3. /\ chunkFile' = [i \in Indices |-> chunkFile'[i]]
        /\ \A i \in Indices : chunkFile[i] # {} => chunkFile'[i] = chunkFile[i]
    BY <1>0, <2>1
  <2>4. QED
    BY <2>2, <2>3
<1>2. CASE Install(r)
  <2>1. receiver[r].copy = object
    BY <1>2 DEF Install, Does, TransferInv
  <2>2. UNCHANGED <<object, manifest, chunkFile>>
    BY <1>2 DEF Install
  <2>3. target' = IF target = {} THEN {receiver[r].copy} ELSE target
    BY <1>2 DEF Install
  <2>4. QED
    BY <1>0, <2>1, <2>2, <2>3 DEF Indices
<1>3. CASE UNCHANGED <<object, manifest, chunkFile, target>>
  BY <1>0, <1>3 DEF Indices
<1>4. CASE \/ CreateStep(r) \/ OpenCheckpoint(r) \/ StageChunk(r) \/ DiscardPart(r)
           \/ AssembleChunk(r) \/ Release(r)
  BY <1>3, <1>4 DEF CreateStep, OpenCheckpoint, StageChunk, DiscardPart, AssembleChunk, Release
<1>5. CASE \/ ReceiverDies(r) \/ MaterializeBegin(r)
           \/ \E i, read : AcceptBegin(r, i, read)
  BY <1>3, <1>5 DEF ReceiverDies, MaterializeBegin, AcceptBegin
<1>6. QED
  BY <1>1, <1>2, <1>4, <1>5 DEF ReceiverStep

\* Each step of a transfer keeps its invariant.
LEMMA ReceiverHolds ==
  ASSUME TransferInv, NEW r \in Receivers,
         \/ ReceiverStep(r) \/ ReceiverDies(r) \/ MaterializeBegin(r)
         \/ \E i, read : AcceptBegin(r, i, read)
  PROVE  TransferInv'
<1>1. /\ UNCHANGED <<object, manifest>>
      /\ target' = target \/ (target = {} /\ target' = {object})
      /\ chunkFile' = [i \in Indices |-> chunkFile'[i]]
  BY ReceiverPlaces
<1>2. /\ receiver' = [s \in Receivers |-> receiver'[s]]
      /\ \A s \in Receivers :
           /\ IsDoing(receiver'[s])
           /\ receiver'[s].at = "install" => receiver'[s].copy = object
  BY <1>1, ReceiverKeeps
<1>3. DeliveredWhole'
  BY <1>1 DEF TransferInv, DeliveredWhole
<1>4. (manifest = Planned(object))'
  <2>1. PICK o, m : o = object /\ m = manifest
    OBVIOUS
  <2>2. m = Planned(o) /\ object' = o /\ manifest' = m
    BY <1>1, <2>1 DEF TransferInv
  <2>3. QED
    BY <2>2 DEF Planned
<1>5. Indices' = Indices
  BY <1>1 DEF Indices
<1>6. QED
  BY <1>1, <1>2, <1>3, <1>4, <1>5 DEF TransferInv, IsDoing

\* A step of the source, of people or of the network changes no receiver and delivers
\* nothing of the Object's.
LEMMA OthersHold ==
  ASSUME TransferInv, UNCHANGED <<object, manifest, chunkFile, receiver>>,
         target' \in {target, {}, {Foreign}}
  PROVE  TransferInv'
<1>1. DeliveredWhole'
  BY DEF TransferInv, DeliveredWhole
<1>2. (manifest = Planned(object))'
  <2>1. PICK o, m : o = object /\ m = manifest
    OBVIOUS
  <2>2. m = Planned(o) /\ object' = o /\ manifest' = m
    BY <2>1 DEF TransferInv
  <2>3. QED
    BY <2>2 DEF Planned
<1>3. Indices' = Indices
  BY DEF Indices
<1>4. QED
  BY <1>1, <1>2, <1>3 DEF TransferInv, IsDoing

-----------------------------------------------------------------------------
(* The invariant of both.                                                      *)
DeliveryInv == scene \in Scenes /\ ReconstructInv /\ ManifestInv /\ TransferInv

\* Every scene starts with nothing delivered.
LEMMA DeliveryInitHolds == DeliveryInit => DeliveryInv
<1> SUFFICES ASSUME DeliveryInit PROVE DeliveryInv
  OBVIOUS
<1>1. ReconstructInv /\ ManifestInv /\ scene \in Scenes
  BY InitHolds DEF DeliveryInit
<1>2. PICK m : m = Resting
  OBVIOUS
<1>3. IsDoing(m) /\ m.at # "install"
  BY <1>2, DoingIsDoing DEF Resting
<1>4. /\ manifest = Planned(object) /\ target = {}
      /\ chunkFile = [i \in Indices |-> {}]
      /\ receiver = [r \in Receivers |-> m]
  BY <1>2 DEF DeliveryInit, TransferInit
<1>5. TransferInv
  BY <1>3, <1>4 DEF TransferInv, DeliveredWhole
<1>6. QED
  BY <1>1, <1>5 DEF DeliveryInv

\* Every step of a scene is one of a call, a receiver, the source or people.
LEMMA DeliveryStepHolds ==
  ASSUME DeliveryInv, [DeliveryNext]_deliveryVars
  PROVE  DeliveryInv'
<1>0. /\ scene \in Scenes /\ ReconstructInv /\ ManifestInv /\ TransferInv
      /\ scene.callers \subseteq Callers /\ scene.receivers \subseteq Receivers
  BY ScenesAssumption DEF DeliveryInv
<1>1. scene' = scene
  BY DEF DeliveryNext, Reconstruct, Transfer, Disturb, Death, bounds, deliveryVars
<1>2. ReconstructInv' /\ ManifestInv'
  <2>1. \/ \E p \in Callers : ReconstructStep(p)
        \/ PeopleMeddle
        \/ \E p \in Callers : CallerDies(p)
        \/ UNCHANGED reconstructVars
    BY <1>0 DEF DeliveryNext, Reconstruct, Transfer, Disturb, Death, deliveryVars
  <2>2. QED
    BY <1>0, <2>1, StepKeeps, PeopleKeep, DeathKeeps, StillKeeps, ManifestKeeps,
       ManifestOthersKeep
<1>3. TransferInv'
  <2>1. CASE \E r \in Receivers :
               \/ ReceiverStep(r) \/ ReceiverDies(r) \/ MaterializeBegin(r)
               \/ \E i, read : AcceptBegin(r, i, read)
    BY <1>0, <2>1, ReceiverHolds
  <2>2. CASE \/ SourceStep \/ SourceChanges \/ TargetChanges \/ UNCHANGED transferVars
    <3>1. /\ UNCHANGED <<object, manifest, chunkFile, receiver>>
          /\ target' \in {target, {}, {Foreign}}
      BY <2>2 DEF SourceStep, OpenSource, CopyChunk, SourceChanges, TargetChanges, transferVars
    <3>2. QED
      BY <1>0, <3>1, OthersHold
  <2>3. ASSUME NEW r \in Receivers, TransferStep(r) \/ Misdeliver(r)
        PROVE  TransferInv'
    BY <2>1, <2>3 DEF TransferStep, Drive, Misdeliver
  <2>4. \/ \E r \in Receivers : TransferStep(r) \/ Misdeliver(r) \/ ReceiverDies(r)
        \/ SourceStep \/ SourceChanges \/ TargetChanges \/ UNCHANGED transferVars
    BY <1>0 DEF DeliveryNext, Reconstruct, Transfer, Disturb, Death, deliveryVars
  <2>5. QED
    BY <2>1, <2>2, <2>3, <2>4
<1>4. QED
  BY <1>0, <1>1, <1>2, <1>3 DEF DeliveryInv

\* The invariant of every behaviour: a stage that verifies is exactly the Version,
\* a second call in it is marked, and what a receiver installs was verified.
THEOREM DeliveryInvariance == DeliverySpec => []DeliveryInv
<1>1. DeliveryInit => DeliveryInv
  BY DeliveryInitHolds
<1>2. DeliveryInv /\ [DeliveryNext]_deliveryVars => DeliveryInv'
  BY DeliveryStepHolds
<1>3. QED
  BY <1>1, <1>2, PTL DEF DeliverySpec

\* Nobody ever opens half a root that Core published (root_reconstruction.rs proves a
\* whole stage and publishes it by one rename).
THEOREM RootIsAlwaysWhole == DeliverySpec => []RootIsWhole
<1>1. DeliveryInv => RootIsWhole
  BY DEF DeliveryInv, ReconstructInv
<1>2. QED
  BY <1>1, DeliveryInvariance, PTL

\* Whatever reaches a receiver, a file it installs is the Object, byte for byte.
THEOREM DeliveredAlwaysWhole == DeliverySpec => []DeliveredWhole
<1>1. DeliveryInv => DeliveredWhole
  BY DEF DeliveryInv, TransferInv
<1>2. QED
  BY <1>1, DeliveryInvariance, PTL

\* A step of Core keeps the files of a published root.
LEMMA RootFilesStay ==
  ASSUME ReconstructInv, NEW p \in Callers, ReconstructStep(p)
  PROVE  /\ root # 0 => root' = root
         /\ root > 0 /\ ~ Shared(root) => tree'[root].file = tree[root].file
<1> USE DEF ReconstructInv
<1>0. /\ Len(tree) \in Nat
      /\ root > 0 => root \in 1..Len(tree)
  BY DEF TreesTyped, NamesTyped
<1>1. CASE Moves(p) \/ VerifyStage(p) \/ Publish(p)
  <2>1. tree' = tree /\ (root # 0 => root' = root)
    BY <1>1 DEF Moves, VerifyStage, Publish
  <2>2. QED
    BY <2>1
<1>2. CASE Fills(p)
  <2>1. root' = root /\ Works(p) /\ call[p].pc \notin Finished
    BY <1>2 DEF Fills, Works, Early, Finished
  <2>2. ASSUME root > 0, ~ Shared(root)
        PROVE  tree'[root] = tree[root]
    <3>1. root # call[p].dir
      BY <2>1, <2>2 DEF RootIsClosed
    <3>2. QED
      BY <1>0, <1>2, <2>2, <3>1 DEF Fills, ChangesOnly
  <2>3. QED
    BY <2>1, <2>2
<1>3. CASE AcquireStage(p)
  <2>1. root' = root /\ (tree' = tree \/ tree' = Append(tree, Empty))
    BY <1>3 DEF AcquireStage
  <2>2. root > 0 => tree'[root] = tree[root]
    BY <1>0, <2>1, Appended DEF TreesTyped
  <2>3. QED
    BY <2>1, <2>2
<1>4. CASE InstallHead(p) \/ Complete(p)
  <2>1. call[p].pc \in {"head", "complete"} /\ root' = root
    BY <1>4 DEF InstallHead, Complete, At
  <2>2. PICK d : d = call[p].dir
    OBVIOUS
  <2>3. d \in 1..Len(tree)
    BY <2>1, <2>2 DEF CallsTyped, Early, PastHead
  <2>4. \/ tree' = tree
        \/ \E v : tree' = [tree EXCEPT ![d].history = v]
        \/ \E v : tree' = [tree EXCEPT ![d].completed = v]
    BY <1>4, <2>2 DEF InstallHead, Complete, SetHistory
  <2>5. /\ tree'[d].file = tree[d].file
        /\ \A e \in 1..Len(tree) : e # d => tree'[e] = tree[e]
    BY <2>3, <2>4, FieldsWritten DEF ChangesOnly
  <2>6. root > 0 => tree'[root].file = tree[root].file
    BY <1>0, <2>5
  <2>7. QED
    BY <2>1, <2>6
<1>5. QED
  BY <1>1, <1>2, <1>3, <1>4, StepKinds

\* No step of Core changes what a destination holds: not the name of a root nor a file
\* of a published one, not an accepted chunk and not a file a transfer delivered.
THEOREM DestinationsStayAlone == DeliverySpec => DestinationsAreLeftAlone
<1> DEFINE Alone ==
  /\ root # 0 => root' = root
  /\ (root > 0 /\ ~Shared(root)) => tree'[root].file = tree[root].file
  /\ target # {} => target' = target
  /\ \A i \in Indices : chunkFile[i] # {} => chunkFile'[i] = chunkFile[i]
<1>1. ASSUME DeliveryInv, CoreStep
      PROVE  Alone
  <2>0. /\ ReconstructInv /\ TransferInv /\ scene.receivers \subseteq Receivers
    BY <1>1, ScenesAssumption DEF DeliveryInv
  <2>1. ASSUME NEW p \in Callers, Reconstruct(p)
        PROVE  Alone
    <3>1. ReconstructStep(p) /\ UNCHANGED transferVars
      BY <2>1 DEF Reconstruct
    <3>2. target' = target /\ chunkFile' = chunkFile
      BY <3>1 DEF transferVars
    <3>3. QED
      BY <2>0, <3>1, <3>2, RootFilesStay
  <2>2. ASSUME Transfer
        PROVE  Alone
    <3>1. root' = root /\ tree' = tree
      BY <2>2 DEF Transfer, reconstructVars
    <3>2. CASE SourceStep
      <4>1. target' = target /\ chunkFile' = chunkFile
        BY <3>2 DEF SourceStep, OpenSource, CopyChunk
      <4>2. QED
        BY <3>1, <4>1
    <3>3. ASSUME NEW r \in Receivers, TransferStep(r)
          PROVE  Alone
      <4>1. \/ ReceiverStep(r) \/ MaterializeBegin(r)
            \/ \E i, read : AcceptBegin(r, i, read)
        BY <3>3 DEF TransferStep, Drive
      <4>2. /\ target' = target \/ target = {}
            /\ \A i \in Indices : chunkFile[i] # {} => chunkFile'[i] = chunkFile[i]
        BY <2>0, <4>1, ReceiverPlaces
      <4>3. QED
        BY <3>1, <4>2
    <3>4. QED
      BY <2>0, <2>2, <3>2, <3>3 DEF Transfer
  <2>3. QED
    BY <1>1, <2>1, <2>2 DEF CoreStep
<1>2. DeliveryInv /\ [DeliveryNext]_deliveryVars => [CoreStep => Alone]_deliveryVars
  BY <1>1
<1>3. QED
  BY <1>2, DeliveryInvariance, PTL DEF DeliverySpec, DestinationsAreLeftAlone

-----------------------------------------------------------------------------
(* The archive decision, for any objects and any request.                  *)

\* evaluate_archive never allows a removal it has a reason against, and never
\* refuses without telling one.
THEOREM DecisionsAreExplained ==
  ASSUME NEW input, NEW request PROVE DecisionIsExplained(input, request)
<1> DEFINE blockers == ArchiveBlockers(input, request)
           awaiting == <<"awaiting_approval", 1>>
           archived == input.lifecycle = "archived"
           late == ThresholdReached(request)
           word == ExecutionApproved(request)
           others == UNION {Plain("already_archived", archived),
                            Counted("remote_unverified", Cardinality(NotRemote(input))),
                            Plain("history_unverified", ~ input.history),
                            Plain("threshold_not_reached", ~ late)}
<1>1. blockers = others \cup Plain("awaiting_approval", late /\ ~ word)
  BY DEF ArchiveBlockers
<1>2. others = {} <=> ~ archived /\ RemoteVerified(input) /\ late
  BY DEF RemoteVerified, Plain, Counted
<1>3. awaiting \notin others
  BY DEF Plain, Counted
<1>4. Plain("awaiting_approval", late /\ ~ word) = IF late /\ ~ word THEN {awaiting} ELSE {}
  BY DEF Plain
<1>5. blockers = {} <=> others = {} /\ word
  BY <1>1, <1>2, <1>4
<1>6. blockers = {awaiting} <=> others = {} /\ ~ word
  BY <1>1, <1>2, <1>3, <1>4
<1>7. Disposition(input, request) = "proposal_eligible" <=> others = {} /\ ~ word
  BY <1>2 DEF Disposition, MayRemoveLocalBytes
<1>8. MayRemoveLocalBytes(input, request) <=> others = {} /\ word
  BY <1>2 DEF MayRemoveLocalBytes
<1> QED BY <1>5, <1>6, <1>7, <1>8 DEF DecisionIsExplained, Archive

\* An archive that evaluate_archive allows leaves nothing that the remote cannot
\* give back.
THEOREM RemovalsAreRecoverable ==
  ASSUME NEW ids, NEW input \in AvailabilityInput(ids), NEW request
  PROVE  RemovalIsRecoverable(input, request)
<1> SUFFICES ASSUME MayRemoveLocalBytes(input, request)
             PROVE  /\ Readiness(Removed(input)).remoteReady
                    /\ Readiness(Removed(input)).missingRemote = {}
  BY DEF RemovalIsRecoverable
<1> DEFINE after == Removed(input)
<1>1. input.objects \in Seq(ObjectAvailability(ids, 0 .. MaxBytes))
  BY DEF AvailabilityInput
<1>2. IsFiniteSet(NotRemote(input))
  <2>1. Positions(input) = 1 .. Len(input.objects) /\ Len(input.objects) \in Nat
    BY <1>1 DEF Positions
  <2>2. IsFiniteSet(Positions(input))
    BY <2>1, FS_Interval
  <2> QED BY <2>2, FS_Subset DEF NotRemote
<1>3. NotRemote(input) = {} /\ input.history /\ input.lifecycle # "archived"
  BY <1>2, FS_EmptySet DEF MayRemoveLocalBytes, RemoteVerified
<1>4. /\ after.objects = [i \in Positions(input) |->
                            [input.objects[i] EXCEPT !.local = "missing"]]
      /\ after.history = input.history /\ after.lifecycle = input.lifecycle
  BY DEF Removed, AvailabilityInput
<1>5. NotRemote(after) = {}
  <2> SUFFICES ASSUME NEW i \in Positions(input)
               PROVE  after.objects[i].remote = "verified"
    BY <1>4 DEF NotRemote, Positions
  <2>1. input.objects[i] \in ObjectAvailability(ids, 0 .. MaxBytes)
    BY <1>1 DEF Positions
  <2>2. after.objects[i].remote = input.objects[i].remote
    BY <1>4, <2>1 DEF ObjectAvailability
  <2> QED BY <1>3, <2>2 DEF NotRemote
<1>6. IdsOf(after, NotRemote(after)) = {}
  BY <1>5 DEF IdsOf
<1> QED BY <1>3, <1>4, <1>6 DEF Readiness, RemoteReady

-----------------------------------------------------------------------------
(* The readiness report, and what undoing a removal costs.                 *)

\* Bytes is one function of the sizes at the positions: two inputs with the same sizes
\* there have the same bytes.
LEMMA BytesOfSizes ==
  ASSUME NEW input, NEW other, NEW S,
         \A i \in S : input.objects[i].bytes = other.objects[i].bytes
  PROVE  Bytes(input, S) = Bytes(other, S)
<1> DEFINE Sums(iter, o) ==
             iter = [s \in SUBSET S |->
                       IF s = {} THEN 0
                       ELSE Min2(iter[s \ {CHOOSE x \in s : TRUE}]
                                   + o.objects[CHOOSE x \in s : TRUE].bytes, MaxBytes)]
<1>1. \A o : Bytes(o, S) = (CHOOSE iter : Sums(iter, o))[S]
  BY DEF Bytes, FoldFunctionOnSet, MapThenFoldSet
<1>2. \A iter : Sums(iter, input) <=> Sums(iter, other)
  <2>1. \A s \in SUBSET S : s # {} =>
          input.objects[CHOOSE x \in s : TRUE].bytes = other.objects[CHOOSE x \in s : TRUE].bytes
    OBVIOUS
  <2> QED BY <2>1
<1> HIDE DEF Sums
<1>3. (CHOOSE iter : Sums(iter, input)) = (CHOOSE iter : Sums(iter, other))
  BY <1>2
<1> QED BY <1>1, <1>3

\* A count is 0 exactly when there is nothing to count.
LEMMA CountsAre ==
  ASSUME NEW ids, NEW input \in AvailabilityInput(ids), NEW S \in SUBSET Positions(input)
  PROVE  /\ Cardinality(S) = 0 <=> S = {}
         /\ Cardinality(IdsOf(input, S)) = 0 <=> S = {}
<1>1. IsFiniteSet(Positions(input))
  <2>1. input.objects \in Seq(ObjectAvailability(ids, 0 .. MaxBytes))
    BY DEF AvailabilityInput
  <2>2. Positions(input) = 1 .. Len(input.objects) /\ Len(input.objects) \in Nat
    BY <2>1 DEF Positions
  <2> QED BY <2>2, FS_Interval
<1>2. IsFiniteSet(S)
  BY <1>1, FS_Subset
<1> DEFINE f == [i \in S |-> input.objects[i].id]
<1>3. f \in Surjection(S, IdsOf(input, S))
  <2>1. f \in [S -> IdsOf(input, S)]
    BY DEF IdsOf
  <2>2. \A id \in IdsOf(input, S) : \E i \in S : f[i] = id
    BY DEF IdsOf
  <2> QED BY <2>1, <2>2 DEF Surjection
<1>4. IsFiniteSet(IdsOf(input, S))
  BY <1>2, <1>3, FS_Surjection
<1>5. IdsOf(input, S) = {} <=> S = {}
  BY DEF IdsOf
<1> QED BY <1>2, <1>4, <1>5, FS_EmptySet

\* A report tells each of its blockers exactly when what it is about is so.
LEMMA BlockersTold ==
  ASSUME NEW ids, NEW input \in AvailabilityInput(ids)
  PROVE  LET told == {b[1] : b \in ReadinessBlockers(input)}
         IN  /\ "archived" \notin told
             /\ "keep_local_not_guaranteed" \in told
                  <=> input.policy = "keep_local" /\ ~ input.keepLocal
             /\ "local_missing" \in told <=> LocalIs(input, "missing") # {}
             /\ "local_unverified" \in told <=> LocalIs(input, "unverified") # {}
             /\ "session_missing" \in told
                  <=> input.session /\ Required(input) \cap NotLocal(input) # {}
             /\ "session_unpinned" \in told <=> input.session /\ Unpinned(input) # {}
             /\ "remote_unverified" \in told <=> NotRemote(input) # {}
             /\ "history_unverified" \in told <=> ~ input.history
<1> DEFINE told == {b[1] : b \in ReadinessBlockers(input)}
           waiting == IF input.session THEN Cardinality(Required(input) \cap NotLocal(input)) ELSE 0
           unpinned == IF input.session THEN Cardinality(IdsOf(input, Unpinned(input))) ELSE 0
           missing == Cardinality(IdsOf(input, LocalIs(input, "missing")))
           unverified == Cardinality(IdsOf(input, LocalIs(input, "unverified")))
           remote == Cardinality(IdsOf(input, NotRemote(input)))
<1>1. /\ LocalIs(input, "missing") \in SUBSET Positions(input)
      /\ LocalIs(input, "unverified") \in SUBSET Positions(input)
      /\ Required(input) \cap NotLocal(input) \in SUBSET Positions(input)
      /\ Unpinned(input) \in SUBSET Positions(input)
      /\ NotRemote(input) \in SUBSET Positions(input)
  BY DEF LocalIs, Required, NotLocal, Unpinned, NotRemote
<1>2. /\ missing = 0 <=> LocalIs(input, "missing") = {}
      /\ unverified = 0 <=> LocalIs(input, "unverified") = {}
      /\ waiting = 0 <=> ~ input.session \/ Required(input) \cap NotLocal(input) = {}
      /\ unpinned = 0 <=> ~ input.session \/ Unpinned(input) = {}
      /\ remote = 0 <=> NotRemote(input) = {}
  BY <1>1, CountsAre
<1>3. ReadinessBlockers(input) =
        UNION {Plain("keep_local_not_guaranteed",
                     input.policy = "keep_local" /\ ~ input.keepLocal),
               Counted("local_missing", missing), Counted("local_unverified", unverified),
               Counted("session_missing", waiting), Counted("session_unpinned", unpinned),
               Counted("remote_unverified", remote),
               Plain("history_unverified", ~ input.history)}
  BY DEF ReadinessBlockers
<1> HIDE DEF waiting, unpinned, missing, unverified, remote
<1>4. ASSUME NEW kind, NEW n
      PROVE  {b[1] : b \in Counted(kind, n)} = IF n = 0 THEN {} ELSE {kind}
  <2>1. {b[1] : b \in {<<kind, n>>}} = {kind}
    OBVIOUS
  <2>2. CASE n = 0
    BY <2>2 DEF Counted
  <2>3. CASE n # 0
    BY <2>1, <2>3 DEF Counted
  <2> QED BY <2>2, <2>3
<1>5. ASSUME NEW kind, NEW blocks \in BOOLEAN
      PROVE  {b[1] : b \in Plain(kind, blocks)} = IF blocks THEN {kind} ELSE {}
  <2>1. {b[1] : b \in {<<kind, 1>>}} = {kind}
    OBVIOUS
  <2>2. CASE ~ blocks
    BY <2>2 DEF Plain
  <2>3. CASE blocks
    BY <2>1, <2>3 DEF Plain
  <2> QED BY <2>2, <2>3
<1>6. told = {b[1] : b \in Plain("keep_local_not_guaranteed",
                                 input.policy = "keep_local" /\ ~ input.keepLocal)}
             \cup {b[1] : b \in Counted("local_missing", missing)}
             \cup {b[1] : b \in Counted("local_unverified", unverified)}
             \cup {b[1] : b \in Counted("session_missing", waiting)}
             \cup {b[1] : b \in Counted("session_unpinned", unpinned)}
             \cup {b[1] : b \in Counted("remote_unverified", remote)}
             \cup {b[1] : b \in Plain("history_unverified", ~ input.history)}
  BY <1>3
<1> HIDE DEF told
<1>7. told = (IF input.policy = "keep_local" /\ ~ input.keepLocal
              THEN {"keep_local_not_guaranteed"} ELSE {})
             \cup (IF missing = 0 THEN {} ELSE {"local_missing"})
             \cup (IF unverified = 0 THEN {} ELSE {"local_unverified"})
             \cup (IF waiting = 0 THEN {} ELSE {"session_missing"})
             \cup (IF unpinned = 0 THEN {} ELSE {"session_unpinned"})
             \cup (IF remote = 0 THEN {} ELSE {"remote_unverified"})
             \cup (IF ~ input.history THEN {"history_unverified"} ELSE {})
  BY <1>4, <1>5, <1>6
<1>8. /\ "archived" \notin told
      /\ "keep_local_not_guaranteed" \in told <=> input.policy = "keep_local" /\ ~ input.keepLocal
      /\ "local_missing" \in told <=> missing # 0
      /\ "local_unverified" \in told <=> unverified # 0
      /\ "session_missing" \in told <=> waiting # 0
      /\ "session_unpinned" \in told <=> unpinned # 0
      /\ "remote_unverified" \in told <=> remote # 0
      /\ "history_unverified" \in told <=> ~ input.history
  BY <1>7
<1> QED BY <1>2, <1>8 DEF told

\* A readiness report says a state is reached exactly when its list has none of the
\* blockers of that state, and, of a session's readiness, a session was asked for.
THEOREM StatesAreExplained ==
  ASSUME NEW ids, NEW input \in AvailabilityInput(ids)
  PROVE  StateIsExplained(input)
<1> DEFINE report == Readiness(input)
           told == {b[1] : b \in report.blockers}
           archived == input.lifecycle = "archived"
<1>1. /\ report.state = IF archived THEN "archived" ELSE State(input)
      /\ report.localComplete <=> ~ archived /\ LocalComplete(input)
      /\ report.sessionReady <=> ~ archived /\ SessionReady(input)
      /\ report.remoteReady <=> ~ archived /\ RemoteReady(input)
      /\ report.blockers = IF archived THEN {<<"archived", 1>>} ELSE ReadinessBlockers(input)
  BY DEF Readiness
<1>2. State(input) = "session_ready" <=> SessionReady(input)
  BY DEF State
<1>3. NotLocal(input) = {} <=> LocalIs(input, "missing") = {} /\ LocalIs(input, "unverified") = {}
  <2>1. \A i \in Positions(input) : input.objects[i].local \in {"missing", "unverified", "verified"}
    <3>1. input.objects \in Seq(ObjectAvailability(ids, 0 .. MaxBytes))
      BY DEF AvailabilityInput
    <3>2. \A i \in Positions(input) : input.objects[i] \in ObjectAvailability(ids, 0 .. MaxBytes)
      BY <3>1 DEF Positions
    <3> QED BY <3>2 DEF ObjectAvailability, Verification
  <2> QED BY <2>1 DEF NotLocal, LocalIs
<1>4. \A S : IdsOf(input, S) = {} <=> S = {}
  BY DEF IdsOf
<1> HIDE DEF report
<1>5. CASE archived
  <2>1. told = {"archived"}
    BY <1>1, <1>5
  <2> QED BY <1>1, <1>5, <2>1 DEF StateIsExplained, report
<1>6. CASE ~ archived
  <2>1. told = {b[1] : b \in ReadinessBlockers(input)}
    BY <1>1, <1>6
  <2> HIDE DEF told
  <2>2. /\ "archived" \notin told
        /\ "keep_local_not_guaranteed" \in told <=> input.policy = "keep_local" /\ ~ input.keepLocal
        /\ "local_missing" \in told <=> LocalIs(input, "missing") # {}
        /\ "local_unverified" \in told <=> LocalIs(input, "unverified") # {}
        /\ "session_missing" \in told <=> input.session /\ Required(input) \cap NotLocal(input) # {}
        /\ "session_unpinned" \in told <=> input.session /\ Unpinned(input) # {}
        /\ "remote_unverified" \in told <=> NotRemote(input) # {}
        /\ "history_unverified" \in told <=> ~ input.history
    BY <2>1, BlockersTold
  <2>3. report.sessionReady
          <=> input.session /\ told \cap {"archived", "session_missing", "session_unpinned"} = {}
    BY <1>1, <1>4, <1>6, <2>2 DEF SessionReady
  <2>4. report.remoteReady
          <=> told \cap {"archived", "remote_unverified", "history_unverified"} = {}
    BY <1>1, <1>4, <1>6, <2>2 DEF RemoteReady
  <2>5. report.localComplete
          <=> told \cap {"archived", "keep_local_not_guaranteed", "local_missing",
                         "local_unverified"} = {}
    BY <1>1, <1>3, <1>6, <2>2 DEF LocalComplete
  <2>6. report.state = "session_ready" <=> report.sessionReady
    BY <1>1, <1>2, <1>6
  <2> QED BY <2>3, <2>4, <2>5, <2>6 DEF StateIsExplained, report, told
<1> QED BY <1>5, <1>6

\* A removal that evaluate_archive allows costs, to undo, what the decision said, and all
\* of it was verified.
THEOREM CostsAreTold ==
  ASSUME NEW ids, NEW input \in AvailabilityInput(ids), NEW request
  PROVE  CostIsTold(input, request)
<1> SUFFICES ASSUME MayRemoveLocalBytes(input, request)
             PROVE  /\ Readiness(Removed(input)).toFetch = Archive(input, request).toRestore
                    /\ Archive(input, request).verified = Archive(input, request).toRestore
  BY DEF CostIsTold
<1> DEFINE after == Removed(input)
<1>1. input.objects \in Seq(ObjectAvailability(ids, 0 .. MaxBytes))
  BY DEF AvailabilityInput
<1>2. NotRemote(input) = {}
  <2>1. NotRemote(input) \in SUBSET Positions(input)
    BY DEF NotRemote
  <2> QED BY <2>1, CountsAre DEF MayRemoveLocalBytes, RemoteVerified
<1>3. after.objects = [i \in Positions(input) |-> [input.objects[i] EXCEPT !.local = "missing"]]
  BY DEF Removed, AvailabilityInput
<1>4. \A i \in Positions(input) : /\ after.objects[i].bytes = input.objects[i].bytes
                                  /\ after.objects[i].local = "missing"
  BY <1>1, <1>3 DEF ObjectAvailability, Positions
<1>5. Positions(after) = Positions(input)
  BY <1>3 DEF Positions
<1> HIDE DEF after
<1>6. NotLocal(after) = Positions(input)
  BY <1>4, <1>5 DEF NotLocal
<1>7. Bytes(after, Positions(input)) = Bytes(input, Positions(input))
  BY <1>4, BytesOfSizes
<1>8. Readiness(after).toFetch = Bytes(after, NotLocal(after))
  BY DEF Readiness
<1>9. /\ Archive(input, request).toRestore = Bytes(input, Positions(input))
      /\ Archive(input, request).verified = Bytes(input, Positions(input) \ NotRemote(input))
  BY DEF Archive
<1>10. Positions(input) \ NotRemote(input) = Positions(input)
  BY <1>2
<1> QED BY <1>6, <1>7, <1>8, <1>9, <1>10 DEF after
=============================================================================
