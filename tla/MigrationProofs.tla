---------------------------- MODULE MigrationProofs ----------------------------
(***************************************************************************)
(* A migration loses no byte of a person, and one that ends has done all   *)
(* of its program or left nothing of it, whatever interrupts it and        *)
(* whatever people do meanwhile; and what a crash leaves of an apply can   *)
(* be opened again, but for one stage the journal was not yet told of.     *)
(* And a reorganization plan that was sealed runs through.                 *)
(***************************************************************************)
EXTENDS Migration, FiniteSetTheorems, TLAPS

\* The parameters of Reorganization, at the end of this module.
CONSTANTS Normal, Fold, Lower, Reserved, AgentFiles, IgnorePolicy, Manifest, RecordPath

-----------------------------------------------------------------------------
(* The tree of paths.                                                      *)

\* Induction on the naturals, said of a set.
LEMMA NaturalSets ==
  ASSUME NEW T, T \subseteq Nat, 0 \in T, \A n \in T : n + 1 \in T
  PROVE  T = Nat
<1> DEFINE R == OpToRel(<, Nat)
<1>1. IsWellFoundedOn(R, Nat)
  BY NatLessThanWellFounded, Zenon
<1>2. \A m, n \in Nat : <<m, n>> \in R <=> m < n
  BY DEF OpToRel
<1> HIDE DEF R
<1>3. SUFFICES ASSUME Nat \ T # {} PROVE FALSE
  OBVIOUS
<1>4. PICK m \in Nat \ T : \A k \in Nat \ T : ~ (<<k, m>> \in R)
  BY <1>1, <1>3, WFMin
<1>5. m - 1 \in Nat /\ m - 1 < m /\ m = (m - 1) + 1
  BY <1>4
<1>6. m - 1 \in T
  BY <1>2, <1>4, <1>5
<1> QED BY <1>4, <1>5, <1>6

\* What a path is beneath, directory by directory.
LEMMA BeneathIs ==
  \A p \in Paths : Beneath[p] = IF Parent[p] = None THEN {} ELSE {Parent[p]} \cup Beneath[Parent[p]]
<1> DEFINE C == Cardinality(Paths)
<1>0. C \in Nat
  BY MigrationAssumption, FS_CardinalityType
<1>1. PICK depth \in [Paths -> 0 .. C] :
        \A p \in Paths : Parent[p] # None => depth[Parent[p]] < depth[p]
  BY TreeAssumption
<1> HIDE DEF C
<1> DEFINE Up(f, p) == IF Parent[p] = None THEN {} ELSE {Parent[p]} \cup f[Parent[p]]
           Within(k) == {p \in Paths : depth[p] < k}
           Grows(f, S) == f = [p \in S |-> Up(f, p)]
           T == {k \in Nat : \E f : Grows(f, Within(k))}
<1>2. \A p \in Paths : Parent[p] # None => Parent[p] \in Paths
  BY MigrationAssumption
<1>3. 0 \in T
  <2>1. Within(0) = {}
    BY <1>1
  <2> DEFINE f == [p \in {} |-> {}]
  <2>2. Grows(f, Within(0))
    BY <2>1
  <2>3. \E g : Grows(g, Within(0))
    <3> HIDE DEF Grows, f
    <3> QED BY <2>2
  <2> HIDE DEF Grows, Within
  <2> QED BY <2>3
<1>4. ASSUME NEW k \in T PROVE k + 1 \in T
  <2>1. PICK f : Grows(f, Within(k))
    OBVIOUS
  <2> DEFINE g == [p \in Within(k + 1) |-> Up(f, p)]
  <2>2. \A p \in Within(k) : f[p] = Up(f, p)
    BY <2>1
  <2>3. \A p \in Within(k + 1) : Parent[p] # None => Parent[p] \in Within(k)
    BY <1>1, <1>2
  <2>4. Within(k) \subseteq Within(k + 1)
    BY <1>1
  <2>5. \A p \in Within(k) : g[p] = f[p]
    BY <2>2, <2>4
  <2> HIDE DEF Within
  <2>6. \A p \in Within(k + 1) : g[p] = Up(g, p)
    <3> SUFFICES ASSUME NEW p \in Within(k + 1) PROVE g[p] = Up(g, p)
      OBVIOUS
    <3>1. g[p] = Up(f, p)
      OBVIOUS
    <3>2. Parent[p] # None => g[Parent[p]] = f[Parent[p]]
      BY <2>3, <2>5
    <3> HIDE DEF g
    <3> QED BY <3>1, <3>2
  <2>7. g = [p \in Within(k + 1) |-> g[p]]
    OBVIOUS
  <2>8. Grows(g, Within(k + 1))
    <3> HIDE DEF g, Up
    <3> QED BY <2>6, <2>7
  <2>9. \E h : Grows(h, Within(k + 1))
    <3> HIDE DEF Grows, g
    <3> QED BY <2>8
  <2>10. k + 1 \in Nat
    OBVIOUS
  <2>11. \A j : j \in T <=> j \in Nat /\ \E h : Grows(h, Within(j))
    <3> HIDE DEF Grows
    <3> QED OBVIOUS
  <2> HIDE DEF T, Grows, g
  <2> QED BY <2>9, <2>10, <2>11
<1>5. T = Nat
  <2>1. T \subseteq Nat
    OBVIOUS
  <2> HIDE DEF T
  <2> QED BY <1>3, <1>4, <2>1, NaturalSets
<1>6. Within(C + 1) = Paths
  BY <1>0, <1>1
<1>7. \E f : Grows(f, Paths)
  <2>1. C + 1 \in T
    <3> HIDE DEF T
    <3> QED BY <1>0, <1>5
  <2>2. \E f : Grows(f, Within(C + 1))
    <3> HIDE DEF Grows, Within
    <3> QED BY <2>1
  <2> HIDE DEF Grows, Within
  <2> QED BY <1>6, <2>2
<1>8. Beneath = CHOOSE f : Grows(f, Paths)
  BY DEF Beneath
<1>9. Grows(Beneath, Paths)
  <2> HIDE DEF Grows
  <2> QED BY <1>7, <1>8, Zenon
<1>10. \A p \in Paths : Beneath[p] = Up(Beneath, p)
  BY <1>9, Zenon
<1> QED BY <1>10

\* A path is beneath whatever the directory that holds it is beneath.
LEMMA BeneathGoesUp ==
  \A p, q \in Paths : q \in Beneath[p] => Beneath[q] \subseteq Beneath[p]
<1> DEFINE C == Cardinality(Paths)
<1>1. C \in Nat
  BY MigrationAssumption, FS_CardinalityType
<1>2. PICK depth \in [Paths -> 0 .. C] :
        \A p \in Paths : Parent[p] # None => depth[Parent[p]] < depth[p]
  BY TreeAssumption
<1> HIDE DEF C
<1> DEFINE Goes(p) == \A q \in Paths : q \in Beneath[p] => Beneath[q] \subseteq Beneath[p]
           T == {k \in Nat : \A p \in Paths : depth[p] < k => Goes(p)}
<1>3. \A p \in Paths : Parent[p] # None => Parent[p] \in Paths
  BY MigrationAssumption
<1>4. 0 \in T
  BY <1>1, <1>2
<1>5. ASSUME NEW k \in T PROVE k + 1 \in T
  <2>1. ASSUME NEW p \in Paths, depth[p] < k + 1, NEW q \in Paths, q \in Beneath[p]
        PROVE  Beneath[q] \subseteq Beneath[p]
    <3>1. /\ Parent[p] # None /\ q \in {Parent[p]} \cup Beneath[Parent[p]]
          /\ Beneath[p] = {Parent[p]} \cup Beneath[Parent[p]]
      BY <2>1, BeneathIs
    <3>2. Parent[p] \in Paths /\ depth[Parent[p]] < k
      BY <1>1, <1>2, <1>3, <2>1, <3>1
    <3>3. q \in Beneath[Parent[p]] => Beneath[q] \subseteq Beneath[Parent[p]]
      BY <2>1, <3>2
    <3> QED BY <3>1, <3>3
  <2> QED BY <2>1
<1>6. T = Nat
  <2>1. T \subseteq Nat
    OBVIOUS
  <2> HIDE DEF T
  <2> QED BY <1>4, <1>5, <2>1, NaturalSets
<1>7. ASSUME NEW p \in Paths PROVE Goes(p)
  <2>1. C + 1 \in T
    <3> HIDE DEF T
    <3> QED BY <1>1, <1>6
  <2>2. depth[p] < C + 1
    BY <1>1, <1>2
  <2> QED BY <2>1, <2>2
<1> QED BY <1>7

-----------------------------------------------------------------------------
(* The inductive invariant.                                                *)

PathNames(id) == {p \in Paths : tree[p] = id}
ClaimNames(id) == {c \in Claims : claims[c] = id}
Named(id) == PathNames(id) # {} \/ ClaimNames(id) # {}

\* A generation has the fields of one, and its step in flight is one of the program.
GenerationFields ==
  {"dir", "phase", "cursor", "inflight", "pub", "applied", "inverse", "aborted",
   "conflicts", "seen"}
Generation(g) ==
  /\ DOMAIN g = GenerationFields
  /\ g.dir \in {"apply", "rollback"} /\ g.cursor \in 0 .. Count
  /\ g.inflight \in {None} \cup 1 .. Count
  /\ g.phase = "absent" => g.dir = "apply"

\* A command that applies works on a journal that applies.
JournalInv ==
  /\ program \in Programs
  /\ Generation(journal)
  /\ proc = "apply" => journal.dir = "apply"

FilesInv ==
  /\ tree \in [Paths -> Ids] /\ edited \subseteq Inodes
  /\ claims \in [Claims -> Ids] /\ staged \in [Claims -> Ids]
  /\ actions \in 0 .. MaxUserActions

\* What the transaction makes itself has one place to be made in.
OwnInv ==
  \A i \in Steps :
    /\ claims[<<i, "publish">>] \in {None, Image(i)} /\ staged[<<i, "publish">>] \in {None, Image(i)}
    /\ claims[<<i, "restore">>] \in {None, Restore(i)} /\ staged[<<i, "restore">>] \in {None, Restore(i)}

\* An inode is named by the paths and claims of one step only, apart from its own path.
PlaceInv ==
  /\ \A p, q \in Paths : tree[q] = Original(p) =>
       q = p \/ \E i \in 1 .. Count : p \in StepPaths(i) /\ q \in StepPaths(i)
  /\ \A p \in Paths, c \in Claims : claims[c] = Original(p) =>
       c[1] \in 1 .. Count /\ p \in StepPaths(c[1])
  /\ \A i \in Steps, q \in Paths : tree[q] = Image(i) => i \in 1 .. Count /\ q = Target(i)
  /\ \A i \in Steps, c \in Claims : claims[c] = Image(i) => c[1] = i

\* A copy nobody has seen has not been edited; a directory is never edited.
Unseen(id) == id \notin edited /\ PathNames(id) = {}
UnseenInv ==
  \A i \in 1 .. Count :
    /\ Kind(i) = "mkdir" => Image(i) \notin edited
    /\ Kind(i) = "replace" /\ Holds(i, "publish") /\ ~ Holds(i, "source") => Unseen(Image(i))
    /\ Kind(i) \in {"create", "replace"} /\ ~ Holds(i, "publish") /\ journal.dir = "apply"
         => Unseen(Image(i))

\* The claim a checked leaf is about to be renamed into is free.
AimInv ==
  at = "checked" =>
    \E i \in 1 .. Count : \E k \in {"source", "rollback"} :
      /\ aim.claim = <<i, k>> /\ claims[<<i, k>>] = None
      /\ aim.path \in StepPaths(i)

MigrationInv == JournalInv /\ FilesInv /\ OwnInv /\ PlaceInv /\ UnseenInv /\ AimInv

\* A name goes only with what people remove, with what a claimed directory takes
\* along, or as that of an unedited copy the transaction made to publish it.
NamesStay ==
  /\ discarded \subseteq discarded' /\ carried \subseteq carried'
  /\ \A id \in edited' \ edited : Named(id)'
  /\ \A id \in Inodes :
       Named(id) =>
         \/ Named(id)' \/ id \in discarded' \cup carried'
         \/ id \notin edited' /\ \E i \in Steps : id = Image(i)

-----------------------------------------------------------------------------
(* Programs and inodes.                                                    *)

LEMMA ProgramShape ==
  ASSUME program \in Programs
  PROVE  /\ Count \in Nat /\ Count <= MaxSteps /\ 1 .. Count \subseteq Steps
         /\ \A i \in 1 .. Count :
              /\ Kind(i) \in {"mkdir", "create", "replace", "move"} /\ Target(i) \in Paths
              /\ Kind(i) = "mkdir" <=> Target(i) \in Dirs
              /\ Kind(i) = "move" => Source(i) \in Paths /\ Source(i) # Target(i)
              /\ StepPaths(i) \subseteq Paths /\ Target(i) \in StepPaths(i) /\ Taken(i) \in StepPaths(i)
         /\ \A i, k \in 1 .. Count : i # k => StepPaths(i) \cap StepPaths(k) = {}
<1>1. program \in Seq(Operations) /\ Len(program) <= MaxSteps
  BY ProgramsAssumption
<1>2. /\ Count \in Nat /\ Count <= MaxSteps
      /\ \A i \in 1 .. Count : program[i] \in Operations
  BY <1>1 DEF Count
<1>3. 1 .. Count \subseteq Steps
  BY <1>2, MigrationAssumption DEF Steps
<1>4. \A i \in 1 .. Count :
        /\ Kind(i) \in {"mkdir", "create", "replace", "move"} /\ Target(i) \in Paths
        /\ Kind(i) = "mkdir" <=> Target(i) \in Dirs
        /\ Source(i) \in IF Kind(i) = "move" THEN Paths \ (Dirs \cup {Target(i)}) ELSE {None}
  BY <1>2, ProgramsAssumption DEF Count, Kind, Target, Source, Operations
<1>5. \A i, k \in 1 .. Count :
        i # k => {Source(k), Target(k)} \cap {Source(i), Target(i)} \subseteq {None}
  BY <1>2, ProgramsAssumption DEF Count, Target, Source
<1>6. \A i \in 1 .. Count :
        /\ StepPaths(i) \subseteq {Source(i), Target(i)} \cap Paths
        /\ Target(i) \in StepPaths(i) /\ Taken(i) \in StepPaths(i)
  BY <1>4 DEF StepPaths, Taken
<1>7. ASSUME NEW i \in 1 .. Count, NEW k \in 1 .. Count, i # k,
             NEW p \in StepPaths(i), p \in StepPaths(k)
      PROVE  FALSE
  <2>1. p \in {Source(i), Target(i)} /\ p \in {Source(k), Target(k)} /\ p \in Paths
    BY <1>6, <1>7
  <2>2. {Source(k), Target(k)} \cap {Source(i), Target(i)} \subseteq {None}
    BY <1>5, <1>7
  <2> QED  BY <2>1, <2>2, MigrationAssumption
<1> QED  BY <1>2, <1>3, <1>4, <1>6, <1>7

LEMMA InodesDiffer ==
  /\ None \notin Inodes /\ None \notin Nat
  /\ \A p \in Paths : Original(p) \in Inodes
  /\ \A i \in Steps : Image(i) \in Inodes /\ Restore(i) \in Inodes
  /\ \A p, q : Original(p) = Original(q) => p = q
  /\ \A i, k : Image(i) = Image(k) => i = k
  /\ \A p, i : Original(p) # Image(i) /\ Original(p) # Restore(i) /\ Image(p) # Restore(i)
  /\ \A p, n : Users(n) # Original(p) /\ Users(n) # Image(p)
BY NoneIsNoRecord, MigrationAssumption DEF Inodes, Original, Image, Restore, Users

LEMMA SlotsAreClaims ==
  /\ \A i \in Steps : \A k \in ClaimKinds : <<i, k>> \in Claims
  /\ \A c \in Claims : c = <<c[1], c[2]>> /\ c[1] \in Steps /\ c[2] \in ClaimKinds
  /\ \A i, k, j, l : <<i, k>> = <<j, l>> <=> i = j /\ k = l
BY DEF Claims

\* A step of the program has its paths to itself, and nothing else names its originals.
LEMMA OneStep ==
  ASSUME program \in Programs, NEW i \in 1 .. Count, NEW k \in 1 .. Count,
         NEW p \in StepPaths(i), p \in StepPaths(k)
  PROVE  i = k
BY ProgramShape

-----------------------------------------------------------------------------
(* Generations.                                                            *)

LEMMA NextGenerations ==
  ASSUME NEW g, Generation(g), Count \in Nat
  PROVE  /\ g.cursor < Count =>
              Generation(NextApplyIntent(g)) /\ NextApplyIntent(g).dir = g.dir
         /\ g.inflight # None =>
              \A id : /\ Generation(NextApplyReceipt(g, id)) /\ NextApplyReceipt(g, id).dir = g.dir
                      /\ Generation(NextRollbackReceipt(g, id))
                      /\ NextRollbackReceipt(g, id).dir = g.dir
         /\ Generation(NextApplied(g)) /\ NextApplied(g).dir = g.dir
         /\ Generation(NextRollbackRequested(g)) /\ NextRollbackRequested(g).dir = "rollback"
         /\ Generation(NextAbortedApply(g)) /\ NextAbortedApply(g).dir = g.dir
         /\ g.cursor > 0 =>
              Generation(NextRollbackIntent(g)) /\ NextRollbackIntent(g).dir = g.dir
         /\ Generation(NextRolledBack(g)) /\ NextRolledBack(g).dir = g.dir
         /\ \A seen : Generation(NextConflicted(g, seen)) /\ NextConflicted(g, seen).dir = g.dir
         /\ \A b : Generation(NextPublicationBound(g, b)) /\ NextPublicationBound(g, b).dir = g.dir
         /\ Generation(NextPublicationCleared(g)) /\ NextPublicationCleared(g).dir = g.dir
<1> USE DEF Generation, GenerationFields
<1>1. g.cursor < Count => Generation(NextApplyIntent(g)) /\ NextApplyIntent(g).dir = g.dir
  BY DEF NextApplyIntent
<1>2. ASSUME g.inflight # None, NEW id
      PROVE  Generation(NextApplyReceipt(g, id)) /\ NextApplyReceipt(g, id).dir = g.dir
  BY <1>2 DEF NextApplyReceipt
<1>3. ASSUME g.inflight # None, NEW id
      PROVE  Generation(NextRollbackReceipt(g, id)) /\ NextRollbackReceipt(g, id).dir = g.dir
  BY <1>3 DEF NextRollbackReceipt
<1>4. Generation(NextApplied(g)) /\ NextApplied(g).dir = g.dir
  BY DEF NextApplied
<1>5. Generation(NextRollbackRequested(g)) /\ NextRollbackRequested(g).dir = "rollback"
  BY DEF NextRollbackRequested
<1>6. Generation(NextAbortedApply(g)) /\ NextAbortedApply(g).dir = g.dir
  BY DEF NextAbortedApply
<1>7. g.cursor > 0 => Generation(NextRollbackIntent(g)) /\ NextRollbackIntent(g).dir = g.dir
  BY DEF NextRollbackIntent
<1>8. Generation(NextRolledBack(g)) /\ NextRolledBack(g).dir = g.dir
  BY DEF NextRolledBack
<1>9. ASSUME NEW seen
      PROVE  Generation(NextConflicted(g, seen)) /\ NextConflicted(g, seen).dir = g.dir
  <2>1. CASE NextConflicted(g, seen) = g
    BY <2>1
  <2>2. CASE NextConflicted(g, seen)
               = [g EXCEPT !.phase = "conflicted", !.conflicts = @ + 1, !.seen = seen]
    BY <2>2
  <2> QED  BY <2>1, <2>2 DEF NextConflicted
<1>10. ASSUME NEW b
       PROVE  Generation(NextPublicationBound(g, b)) /\ NextPublicationBound(g, b).dir = g.dir
  BY DEF NextPublicationBound
<1>11. Generation(NextPublicationCleared(g)) /\ NextPublicationCleared(g).dir = g.dir
  BY DEF NextPublicationCleared
<1> QED  BY <1>1, <1>2, <1>3, <1>4, <1>5, <1>6, <1>7, <1>8, <1>9, <1>10, <1>11

-----------------------------------------------------------------------------
(* Steps that leave every name where it is.                                *)

CoreInv == JournalInv /\ FilesInv /\ OwnInv /\ PlaceInv /\ UnseenInv

\* The journal goes on, and never back to applying.
JournalGoesOn ==
  /\ JournalInv'
  /\ journal'.dir = "apply" => journal.dir = "apply"
StagesStay ==
  /\ staged' \in [Claims -> Ids]
  /\ \A i \in Steps : /\ staged'[<<i, "publish">>] \in {None, Image(i)}
                      /\ staged'[<<i, "restore">>] \in {None, Restore(i)}
NamesUnchanged == UNCHANGED <<program, tree, edited, claims, carried, discarded, actions>>
Quiet ==
  /\ NamesUnchanged /\ JournalGoesOn /\ StagesStay
  /\ at' = "checked" => at = "checked" /\ aim' = aim

LEMMA CoreSettles ==
  ASSUME CoreInv, NamesUnchanged, JournalGoesOn, StagesStay
  PROVE  CoreInv' /\ NamesStay
<1> USE DEF CoreInv, NamesUnchanged, JournalGoesOn
<1>1. FilesInv'
  BY DEF FilesInv, StagesStay, Ids, Inodes, Steps
<1>2. OwnInv'
  BY DEF OwnInv, StagesStay, Steps, Image, Restore
<1>3. PlaceInv'
  BY DEF PlaceInv, Original, Image, Steps, Claims, ClaimKinds, StepPaths, Kind, Source, Target, Count
<1>4. UnseenInv'
  BY DEF UnseenInv, Unseen, PathNames, Holds, Claim, Image, Kind, Count
<1>5. NamesStay
  BY DEF NamesStay, Named, PathNames, ClaimNames
<1> QED  BY <1>1, <1>2, <1>3, <1>4, <1>5

LEMMA QuietKeeps ==
  ASSUME MigrationInv, Quiet
  PROVE  MigrationInv' /\ NamesStay
<1>1. CoreInv' /\ NamesStay
  BY CoreSettles DEF MigrationInv, CoreInv, Quiet
<1>2. AimInv'
  BY DEF MigrationInv, AimInv, Quiet, NamesUnchanged, StepPaths, Kind, Source, Target, Count
<1> QED  BY <1>1, <1>2 DEF MigrationInv, CoreInv

LEMMA StagesRest ==
  ASSUME FilesInv, OwnInv, UNCHANGED staged
  PROVE  StagesStay
BY DEF FilesInv, OwnInv, StagesStay

\* A conflict, an abandoned step and an append are quiet; so is a private receipt.
LEMMA GenerationStays ==
  ASSUME JournalInv, UNCHANGED <<program, journal>>, proc' = proc \/ proc' = "idle"
  PROVE  JournalGoesOn
BY DEF JournalGoesOn, JournalInv, Generation, GenerationFields, Count

LEMMA GenerationFollows ==
  ASSUME JournalInv, UNCHANGED program, Generation(journal'),
         \/ journal'.dir = journal.dir /\ proc' \in {proc, "idle"}
         \/ journal'.dir = "rollback" /\ proc' = "rollback"
  PROVE  JournalGoesOn
<1>1. Generation(journal)'
  BY DEF Generation, GenerationFields, Count
<1>2. program' \in Programs
  BY DEF JournalInv
<1>3. proc' = "apply" => journal'.dir = "apply"
  BY DEF JournalInv
<1>4. journal'.dir = "apply" => journal.dir = "apply"
  OBVIOUS
<1> QED  BY <1>1, <1>2, <1>3, <1>4 DEF JournalGoesOn, JournalInv

LEMMA ConflictIsQuiet ==
  ASSUME MigrationInv, NEW i, Conflict(i)
  PROVE  Quiet
<1>1. Generation(journal) /\ Count \in Nat
  BY ProgramShape DEF MigrationInv, JournalInv
<1>2. Generation(journal') /\ journal'.dir = journal.dir
  BY <1>1, NextGenerations DEF Conflict
<1>3. NamesUnchanged /\ UNCHANGED staged /\ proc' = "idle" /\ at' = "top"
  BY DEF Conflict, NamesUnchanged, files, private, userVars
<1>4. JournalGoesOn
  BY <1>2, <1>3, GenerationFollows DEF MigrationInv, NamesUnchanged
<1> QED  BY <1>3, <1>4, StagesRest DEF Quiet, MigrationInv

LEMMA AbandonIsQuiet ==
  ASSUME MigrationInv, Abandon
  PROVE  Quiet
<1>1. NamesUnchanged /\ UNCHANGED <<staged, journal>> /\ proc' = "idle" /\ at' = "top"
  BY DEF Abandon, NamesUnchanged, files, private, userVars
<1> QED  BY <1>1, GenerationStays, StagesRest DEF Quiet, MigrationInv, NamesUnchanged

LEMMA AppendIsQuiet ==
  ASSUME MigrationInv, NEW g, Generation(g),
         g.dir = journal.dir \/ (g.dir = "rollback" /\ proc = "rollback"),
         AppendGeneration(g)
  PROVE  Quiet
<1>1. UNCHANGED <<proc, staged>> /\ NamesUnchanged /\ journal' = g /\ at' = "top"
  BY DEF AppendGeneration, Rests, NamesUnchanged, files, private, userVars
<1> QED  BY <1>1, GenerationFollows, StagesRest DEF Quiet, MigrationInv, NamesUnchanged

LEMMA RestIsQuiet ==
  ASSUME MigrationInv, NamesUnchanged, StagesStay, UNCHANGED <<journal, proc, aim>>,
         at' # "checked" \/ at' = at
  PROVE  Quiet
BY GenerationStays DEF Quiet, MigrationInv, NamesUnchanged

LEMMA ReceiptIsQuiet ==
  ASSUME MigrationInv, NEW d, NEW i, NEW r, PersistReceipt(d, i, r)
  PROVE  Quiet
<1>1. NamesUnchanged /\ UNCHANGED <<journal, proc, aim, staged>> /\ at' # "checked"
  BY DEF PersistReceipt, Rests, NamesUnchanged, files, userVars
<1> QED  BY <1>1, RestIsQuiet, StagesRest DEF MigrationInv

-----------------------------------------------------------------------------
(* Steps that give or take a name.                                         *)

\* What the parts of the invariant say of a program that stays as it is.
LEMMA ProgramStays ==
  ASSUME UNCHANGED program
  PROVE  /\ Count' = Count
         /\ \A i : Kind(i)' = Kind(i) /\ Target(i)' = Target(i) /\ StepPaths(i)' = StepPaths(i)
BY DEF Count, Kind, Target, Source, StepPaths

\* A leaf becomes visible where nothing was, and may move out of its claim.
LEMMA VisibleKeeps ==
  ASSUME MigrationInv, NEW i \in 1 .. Count, NEW k \in ClaimKinds,
         NEW path \in StepPaths(i), NEW id,
         claims[<<i, k>>] = id, id # None, ~ Present(path), tree' = [tree EXCEPT ![path] = id],
         claims' = claims \/ claims' = [claims EXCEPT ![<<i, k>>] = None],
         \/ /\ k = "publish" /\ path = Target(i)
            /\ Kind(i) = "replace" => Holds(i, "source")
            /\ claims' = claims \/ Kind(i) = "mkdir"
         \/ k = "restore" /\ claims' = claims
         \/ /\ k = "source" /\ id = Before(i)
            /\ claims' = claims \/ (Kind(i) = "replace" /\ ~ Holds(i, "publish")),
         UNCHANGED <<program, journal, edited, staged, carried, discarded, actions, proc>>,
         at' # "checked"
  PROVE  MigrationInv' /\ NamesStay
<1>1. /\ program \in Programs /\ i \in Steps /\ path \in Paths /\ <<i, k>> \in Claims
      /\ tree \in [Paths -> Ids] /\ claims \in [Claims -> Ids] /\ id \in Inodes
  <2>1. program \in Programs /\ tree \in [Paths -> Ids] /\ claims \in [Claims -> Ids]
    BY DEF MigrationInv, JournalInv, FilesInv
  <2>2. i \in Steps /\ path \in Paths
    BY <2>1, ProgramShape
  <2> QED  BY <2>1, <2>2, SlotsAreClaims DEF Ids
<1>2. /\ \A q \in Paths : tree'[q] = IF q = path THEN id ELSE tree[q]
      /\ \A c \in Claims : claims'[c] = claims[c] \/ (c = <<i, k>> /\ claims'[c] = None)
      /\ tree' \in [Paths -> Ids] /\ claims' \in [Claims -> Ids]
  BY <1>1 DEF Ids
<1>3. JournalInv'
  BY GenerationStays DEF MigrationInv, JournalGoesOn
<1>4. FilesInv'
  BY <1>2 DEF FilesInv, MigrationInv, Ids, Inodes, Steps, Claims
<1>5. OwnInv'
  BY <1>2, SlotsAreClaims DEF OwnInv, MigrationInv, Steps, Image, Restore, ClaimKinds
<1>6. \/ k = "publish" /\ id = Image(i) /\ path = Target(i)
      \/ k = "restore" /\ id = Restore(i)
      \/ k = "source" /\ id = Original(Taken(i)) /\ Taken(i) \in StepPaths(i)
  BY <1>1, ProgramShape DEF MigrationInv, OwnInv, Before
<1>7. PlaceInv'
  <2>1. ASSUME NEW p \in Paths, NEW q \in Paths, tree'[q] = Original(p)
        PROVE  q = p \/ \E j \in 1 .. Count : p \in StepPaths(j) /\ q \in StepPaths(j)
    <3>1. CASE q = path
      <4>1. id = Original(p)
        BY <1>2, <2>1, <3>1
      <4>2. p = Taken(i) /\ Taken(i) \in StepPaths(i)
        BY <1>6, <4>1, InodesDiffer
      <4> QED  BY <4>2, <3>1
    <3>2. CASE q # path
      BY <1>2, <2>1, <3>2 DEF MigrationInv, PlaceInv
    <3> QED  BY <3>1, <3>2
  <2>2. ASSUME NEW p \in Paths, NEW c \in Claims, claims'[c] = Original(p)
        PROVE  c[1] \in 1 .. Count /\ p \in StepPaths(c[1])
    <3>1. claims[c] = Original(p)
      BY <1>2, <2>2, InodesDiffer
    <3> QED  BY <3>1 DEF MigrationInv, PlaceInv
  <2>3. ASSUME NEW j \in Steps, NEW q \in Paths, tree'[q] = Image(j)
        PROVE  j \in 1 .. Count /\ q = Target(j)
    <3>1. CASE q = path
      BY <1>2, <1>6, <2>3, <3>1, InodesDiffer
    <3>2. CASE q # path
      BY <1>2, <2>3, <3>2 DEF MigrationInv, PlaceInv
    <3> QED  BY <3>1, <3>2
  <2>4. ASSUME NEW j \in Steps, NEW c \in Claims, claims'[c] = Image(j)
        PROVE  c[1] = j
    <3>1. claims[c] = Image(j)
      BY <1>2, <2>4, InodesDiffer
    <3> QED  BY <3>1 DEF MigrationInv, PlaceInv
  <2> QED
    BY <2>1, <2>2, <2>3, <2>4, ProgramStays
    DEF PlaceInv, Original, Image, Steps, Claims, ClaimKinds
<1>8. UnseenInv'
  <2>1. ASSUME NEW j \in 1 .. Count, Unseen(Image(j)), ~ (j = i /\ k = "publish")
        PROVE  Unseen(Image(j))'
    <3>1. id # Image(j)
      BY <1>6, <2>1, InodesDiffer
    <3> QED  BY <3>1, <1>2, <2>1 DEF Unseen, PathNames, Image
  <2>2. ASSUME NEW j \in 1 .. Count, Kind(j) = "mkdir"
        PROVE  Image(j) \notin edited'
    BY <2>2 DEF MigrationInv, UnseenInv
  <2>3. ASSUME NEW j \in 1 .. Count, Kind(j) = "replace", Holds(j, "publish")', ~ Holds(j, "source")'
        PROVE  Unseen(Image(j))'
    <3>1. j \in Steps /\ <<j, "publish">> \in Claims /\ <<j, "source">> \in Claims
      BY <1>1, ProgramShape, SlotsAreClaims DEF ClaimKinds
    <3>2. Holds(j, "publish")
      BY <1>2, <2>3, <3>1 DEF Holds, Claim
    <3>3. ~ Holds(j, "source")
      BY <1>2, <2>3, <3>1, <3>2, SlotsAreClaims DEF Holds, Claim
    <3>4. ~ (j = i /\ k = "publish")
      BY <2>3, <3>3
    <3> QED  BY <2>1, <2>3, <3>2, <3>3, <3>4 DEF MigrationInv, UnseenInv
  <2>4. ASSUME NEW j \in 1 .. Count, Kind(j) \in {"create", "replace"}, ~ Holds(j, "publish")',
               journal'.dir = "apply"
        PROVE  Unseen(Image(j))'
    <3>1. j \in Steps /\ <<j, "publish">> \in Claims
      BY <1>1, ProgramShape, SlotsAreClaims DEF ClaimKinds
    <3>2. ~ Holds(j, "publish")
      BY <1>2, <2>4, <3>1, SlotsAreClaims DEF Holds, Claim
    <3>3. ~ (j = i /\ k = "publish")
      BY <3>2 DEF Holds, Claim
    <3> QED  BY <2>1, <2>4, <3>2, <3>3 DEF MigrationInv, UnseenInv
  <2> QED  BY <2>2, <2>3, <2>4, ProgramStays DEF UnseenInv, Image
<1>9. NamesStay
  <2>1. ASSUME NEW x \in Inodes, Named(x) PROVE Named(x)'
    <3>1. CASE x = id
      BY <1>1, <1>2, <3>1 DEF Named, PathNames
    <3>2. CASE x # id
      <4>1. CASE \E q \in Paths : tree[q] = x
        <5>1. PICK q \in Paths : tree[q] = x
          BY <4>1
        <5>2. q # path
          BY <5>1, InodesDiffer DEF Present
        <5> QED  BY <1>2, <5>1, <5>2 DEF Named, PathNames
      <4>2. CASE \E c \in Claims : claims[c] = x
        BY <1>2, <3>2, <4>2 DEF Named, ClaimNames, Claims
      <4> QED  BY <2>1, <4>1, <4>2 DEF Named, PathNames, ClaimNames
    <3> QED  BY <3>1, <3>2
  <2> QED  BY <2>1 DEF NamesStay
<1>10. AimInv'
  BY DEF AimInv
<1> QED  BY <1>3, <1>4, <1>5, <1>7, <1>8, <1>9, <1>10 DEF MigrationInv

\* A claim is cleared whose inode has another name, or is an unedited copy.
LEMMA ClearedKeeps ==
  ASSUME MigrationInv, NEW i \in 1 .. Count, NEW k \in ClaimKinds,
         claims' = [claims EXCEPT ![<<i, k>>] = None],
         \/ \E p \in Paths : tree[p] = claims[<<i, k>>]
         \/ claims[<<i, k>>] = Image(i) /\ Image(i) \notin edited,
         k = "publish" => Kind(i) = "mkdir" \/ journal.dir = "rollback",
         k = "source" => Kind(i) # "replace" \/ ~ Holds(i, "publish"),
         UNCHANGED <<program, journal, tree, edited, staged, carried, discarded, actions, proc>>,
         at' # "checked"
  PROVE  MigrationInv' /\ NamesStay
<1>1. /\ program \in Programs /\ i \in Steps /\ <<i, k>> \in Claims
      /\ claims \in [Claims -> Ids]
  BY ProgramShape, SlotsAreClaims DEF MigrationInv, JournalInv, FilesInv
<1>2. /\ \A c \in Claims : claims'[c] = IF c = <<i, k>> THEN None ELSE claims[c]
      /\ claims' \in [Claims -> Ids]
  BY <1>1 DEF Ids
<1>3. JournalInv'
  BY GenerationStays DEF MigrationInv, JournalGoesOn
<1>4. FilesInv'
  BY <1>2 DEF FilesInv, MigrationInv, Ids, Inodes, Steps, Claims
<1>5. OwnInv'
  BY <1>2, SlotsAreClaims DEF OwnInv, MigrationInv, Steps, Image, Restore, ClaimKinds
<1>6. PlaceInv'
  <2>1. ASSUME NEW x \in Inodes, NEW c \in Claims, claims'[c] = x
        PROVE  claims[c] = x
    BY <1>2, <2>1, InodesDiffer
  <2>2. \A p \in Paths, c \in Claims : claims'[c] = Original(p) =>
          c[1] \in 1 .. Count /\ p \in StepPaths(c[1])
    BY <2>1, InodesDiffer DEF MigrationInv, PlaceInv
  <2>3. \A j \in Steps, c \in Claims : claims'[c] = Image(j) => c[1] = j
    BY <2>1, InodesDiffer DEF MigrationInv, PlaceInv
  <2> QED
    BY <2>2, <2>3, ProgramStays
    DEF MigrationInv, PlaceInv, Original, Image, Steps, Claims, ClaimKinds
<1>7. UnseenInv'
  <2>1. \A j \in 1 .. Count : Unseen(Image(j)) => Unseen(Image(j))'
    BY DEF Unseen, PathNames, Image
  <2>2. \A j \in 1 .. Count : Kind(j) = "mkdir" => Image(j) \notin edited'
    BY DEF MigrationInv, UnseenInv
  <2>3. ASSUME NEW j \in 1 .. Count, Kind(j) = "replace", Holds(j, "publish")', ~ Holds(j, "source")'
        PROVE  Unseen(Image(j))'
    <3>1. j \in Steps /\ <<j, "publish">> \in Claims /\ <<j, "source">> \in Claims
      BY <1>1, ProgramShape, SlotsAreClaims DEF ClaimKinds
    <3>2. Holds(j, "publish")
      BY <1>2, <2>3, <3>1 DEF Holds, Claim
    <3>3. ~ Holds(j, "source")
      BY <1>2, <2>3, <3>1, <3>2, SlotsAreClaims DEF Holds, Claim
    <3> QED  BY <2>1, <2>3, <3>2, <3>3 DEF MigrationInv, UnseenInv
  <2>4. ASSUME NEW j \in 1 .. Count, Kind(j) \in {"create", "replace"}, ~ Holds(j, "publish")',
               journal'.dir = "apply"
        PROVE  Unseen(Image(j))'
    <3>1. j \in Steps /\ <<j, "publish">> \in Claims
      BY <1>1, ProgramShape, SlotsAreClaims DEF ClaimKinds
    <3>2. ~ Holds(j, "publish")
      BY <1>2, <2>4, <3>1, SlotsAreClaims DEF Holds, Claim
    <3> QED  BY <2>1, <2>4, <3>2 DEF MigrationInv, UnseenInv
  <2> QED  BY <2>2, <2>3, <2>4, ProgramStays DEF UnseenInv, Image
<1>8. NamesStay
  <2>1. ASSUME NEW x \in Inodes, Named(x), x # claims[<<i, k>>] PROVE Named(x)'
    BY <1>2, <2>1 DEF Named, PathNames, ClaimNames, Claims
  <2>2. CASE \E p \in Paths : tree[p] = claims[<<i, k>>]
    <3>1. ASSUME NEW x \in Inodes, x = claims[<<i, k>>] PROVE Named(x)'
      BY <2>2, <3>1 DEF Named, PathNames
    <3> QED  BY <2>1, <3>1 DEF NamesStay
  <2>3. CASE claims[<<i, k>>] = Image(i) /\ Image(i) \notin edited
    BY <1>1, <2>1, <2>3 DEF NamesStay
  <2> QED  BY <2>2, <2>3
<1>9. AimInv'
  BY DEF AimInv
<1> QED  BY <1>3, <1>4, <1>5, <1>6, <1>7, <1>8, <1>9 DEF MigrationInv

\* A copy is installed in a claim that is free.
LEMMA InstalledKeeps ==
  ASSUME MigrationInv, NEW i \in 1 .. Count, NEW k \in ClaimKinds, NEW id,
         ~ Holds(i, k), claims' = [claims EXCEPT ![<<i, k>>] = id],
         \/ /\ k = "publish" /\ id = Image(i)
            /\ Kind(i) \in {"create", "replace"} => journal.dir = "apply"
         \/ k = "restore" /\ id = Restore(i),
         StagesStay, at' # "checked",
         UNCHANGED <<program, journal, tree, edited, carried, discarded, actions, proc>>
  PROVE  MigrationInv' /\ NamesStay
<1>1. /\ program \in Programs /\ i \in Steps /\ <<i, k>> \in Claims /\ id \in Inodes
      /\ claims \in [Claims -> Ids]
  BY ProgramShape, SlotsAreClaims, InodesDiffer DEF MigrationInv, JournalInv, FilesInv
<1>2. /\ \A c \in Claims : claims'[c] = IF c = <<i, k>> THEN id ELSE claims[c]
      /\ claims' \in [Claims -> Ids]
  BY <1>1 DEF Ids
<1>3. JournalInv'
  BY GenerationStays DEF MigrationInv, JournalGoesOn
<1>4. FilesInv'
  BY <1>2 DEF FilesInv, MigrationInv, StagesStay, Ids, Inodes, Steps, Claims
<1>5. OwnInv'
  BY <1>2, SlotsAreClaims DEF OwnInv, MigrationInv, StagesStay, Steps, Image, Restore, ClaimKinds
<1>6. PlaceInv'
  <2>1. \A p \in Paths, c \in Claims : claims'[c] = Original(p) =>
          c[1] \in 1 .. Count /\ p \in StepPaths(c[1])
    BY <1>2, InodesDiffer DEF MigrationInv, PlaceInv
  <2>2. \A j \in Steps, c \in Claims : claims'[c] = Image(j) => c[1] = j
    BY <1>1, <1>2, InodesDiffer, SlotsAreClaims DEF MigrationInv, PlaceInv
  <2> QED
    BY <2>1, <2>2, ProgramStays
    DEF MigrationInv, PlaceInv, Original, Image, Steps, Claims, ClaimKinds
<1>7. UnseenInv'
  <2>1. \A j \in 1 .. Count : Unseen(Image(j)) => Unseen(Image(j))'
    BY DEF Unseen, PathNames, Image
  <2>2. \A j \in 1 .. Count : Kind(j) = "mkdir" => Image(j) \notin edited'
    BY DEF MigrationInv, UnseenInv
  <2>3. ASSUME NEW j \in 1 .. Count, Kind(j) = "replace", Holds(j, "publish")', ~ Holds(j, "source")'
        PROVE  Unseen(Image(j))'
    <3>1. j \in Steps /\ <<j, "publish">> \in Claims /\ <<j, "source">> \in Claims
      BY <1>1, ProgramShape, SlotsAreClaims DEF ClaimKinds
    <3>2. CASE j = i /\ k = "publish"
      BY <2>1, <2>3, <3>2 DEF MigrationInv, UnseenInv
    <3>3. CASE ~ (j = i /\ k = "publish")
      <4>1. Holds(j, "publish") /\ ~ Holds(j, "source")
        BY <1>1, <1>2, <2>3, <3>1, <3>3, SlotsAreClaims, InodesDiffer DEF Holds, Claim
      <4> QED  BY <2>1, <2>3, <4>1 DEF MigrationInv, UnseenInv
    <3> QED  BY <3>2, <3>3
  <2>4. ASSUME NEW j \in 1 .. Count, Kind(j) \in {"create", "replace"}, ~ Holds(j, "publish")',
               journal'.dir = "apply"
        PROVE  Unseen(Image(j))'
    <3>1. j \in Steps /\ <<j, "publish">> \in Claims
      BY <1>1, ProgramShape, SlotsAreClaims DEF ClaimKinds
    <3>2. ~ Holds(j, "publish")
      BY <1>1, <1>2, <2>4, <3>1, SlotsAreClaims, InodesDiffer DEF Holds, Claim
    <3> QED  BY <2>1, <2>4, <3>2 DEF MigrationInv, UnseenInv
  <2> QED  BY <2>2, <2>3, <2>4, ProgramStays DEF UnseenInv, Image
<1>8. NamesStay
  <2>1. ASSUME NEW x \in Inodes, Named(x) PROVE Named(x)'
    BY <1>1, <1>2, <2>1, InodesDiffer DEF Named, PathNames, ClaimNames, Claims, Holds, Claim
  <2> QED  BY <2>1 DEF NamesStay
<1>9. AimInv'
  BY DEF AimInv
<1> QED  BY <1>3, <1>4, <1>5, <1>6, <1>7, <1>8, <1>9 DEF MigrationInv

\* A leaf that was checked goes into its claim, whatever it is by now.
LEMMA TakenKeeps ==
  ASSUME MigrationInv, RenameIntoClaim
  PROVE  MigrationInv' /\ NamesStay
<1>1. PICK i \in 1 .. Count, k \in {"source", "rollback"} :
        aim.claim = <<i, k>> /\ claims[<<i, k>>] = None /\ aim.path \in StepPaths(i)
  BY DEF RenameIntoClaim, MigrationInv, AimInv
<1>2. PICK path : path = aim.path
  OBVIOUS
<1>3. PICK gone : gone = Children(path)
  OBVIOUS
<1>4. /\ program \in Programs /\ i \in Steps /\ <<i, k>> \in Claims /\ path \in Paths
      /\ claims \in [Claims -> Ids] /\ tree \in [Paths -> Ids] /\ gone \subseteq Paths
  BY <1>1, <1>2, <1>3, ProgramShape, SlotsAreClaims
  DEF MigrationInv, JournalInv, FilesInv, ClaimKinds, Children
<1>5. /\ claims' = claims \/ claims' = [claims EXCEPT ![<<i, k>>] = tree[path]]
      /\ tree[path] # None => claims' = [claims EXCEPT ![<<i, k>>] = tree[path]]
      /\ tree' = [p \in Paths |-> IF p = path \/ p \in gone THEN None ELSE tree[p]]
      /\ carried' = carried \cup {tree[p] : p \in gone}
      /\ UNCHANGED <<program, journal, staged, edited, discarded, actions>>
      /\ proc' = proc \/ proc' = "idle"
      /\ at' # "checked"
  BY <1>1, <1>2, <1>3 DEF RenameIntoClaim, Present, userVars
<1>6. /\ \A c \in Claims : claims'[c] = claims[c] \/ (c = <<i, k>> /\ claims'[c] = tree[path])
      /\ claims' \in [Claims -> Ids] /\ tree' \in [Paths -> Ids]
      /\ \A p \in Paths : tree'[p] = IF p = path \/ p \in gone THEN None ELSE tree[p]
  BY <1>4, <1>5 DEF Ids
<1>7. JournalInv'
  BY <1>5, GenerationStays DEF MigrationInv, JournalGoesOn
<1>8. FilesInv'
  BY <1>5, <1>6 DEF FilesInv, MigrationInv, Ids, Inodes, Steps, Claims
<1>9. OwnInv'
  BY <1>5, <1>6, SlotsAreClaims DEF OwnInv, MigrationInv, Steps, Image, Restore, ClaimKinds
<1>10. PlaceInv'
  <2>1. ASSUME NEW p \in Paths, NEW c \in Claims, claims'[c] = Original(p)
        PROVE  c[1] \in 1 .. Count /\ p \in StepPaths(c[1])
    <3>1. CASE claims[c] = Original(p)
      BY <3>1 DEF MigrationInv, PlaceInv
    <3>2. CASE c = <<i, k>> /\ tree[path] = Original(p)
      <4>1. path = p \/ \E j \in 1 .. Count : p \in StepPaths(j) /\ path \in StepPaths(j)
        BY <1>4, <3>2 DEF MigrationInv, PlaceInv
      <4>2. p \in StepPaths(i)
        BY <1>1, <1>2, <1>4, <4>1, OneStep
      <4> QED  BY <3>2, <4>2
    <3> QED  BY <1>6, <2>1, <3>1, <3>2
  <2>2. ASSUME NEW j \in Steps, NEW c \in Claims, claims'[c] = Image(j)
        PROVE  c[1] = j
    <3>1. CASE claims[c] = Image(j)
      BY <3>1 DEF MigrationInv, PlaceInv
    <3>2. CASE c = <<i, k>> /\ tree[path] = Image(j)
      <4>1. j \in 1 .. Count /\ path = Target(j)
        BY <1>4, <3>2 DEF MigrationInv, PlaceInv
      <4>2. path \in StepPaths(j)
        BY <1>4, <4>1, ProgramShape
      <4>3. j = i
        BY <1>1, <1>2, <1>4, <4>1, <4>2, OneStep
      <4> QED  BY <3>2, <4>3
    <3> QED  BY <1>6, <2>2, <3>1, <3>2
  <2>3. ASSUME NEW x \in Inodes, NEW q \in Paths, tree'[q] = x PROVE tree[q] = x
    BY <1>6, <2>3, InodesDiffer
  <2>4. \A p, q \in Paths : tree'[q] = Original(p) =>
          q = p \/ \E j \in 1 .. Count : p \in StepPaths(j) /\ q \in StepPaths(j)
    BY <2>3, InodesDiffer DEF MigrationInv, PlaceInv
  <2>5. \A j \in Steps, q \in Paths : tree'[q] = Image(j) => j \in 1 .. Count /\ q = Target(j)
    BY <2>3, InodesDiffer DEF MigrationInv, PlaceInv
  <2> QED
    BY <1>5, <2>1, <2>2, <2>4, <2>5, ProgramStays
    DEF PlaceInv, Original, Image, Steps, Claims, ClaimKinds
<1>11. UnseenInv'
  <2>1. ASSUME NEW j \in 1 .. Count, Unseen(Image(j)) PROVE Unseen(Image(j))'
    <3>1. Image(j) \in Inodes
      BY <1>4, ProgramShape, InodesDiffer
    <3> QED  BY <1>5, <1>6, <2>1, <3>1, InodesDiffer DEF Unseen, PathNames, Image
  <2>2. \A j \in 1 .. Count : Kind(j) = "mkdir" => Image(j) \notin edited'
    BY <1>5 DEF MigrationInv, UnseenInv
  <2>3. ASSUME NEW j \in 1 .. Count
        PROVE  /\ Holds(j, "publish")' <=> Holds(j, "publish")
               /\ Holds(j, "source") => Holds(j, "source")'
    <3>1. j \in Steps /\ <<j, "publish">> \in Claims /\ <<j, "source">> \in Claims
      BY <1>4, ProgramShape, SlotsAreClaims DEF ClaimKinds
    <3>2. claims'[<<j, "publish">>] = claims[<<j, "publish">>]
      BY <1>6, <3>1, SlotsAreClaims
    <3>3. claims[<<j, "source">>] # None => claims'[<<j, "source">>] # None
      BY <1>1, <1>6, <3>1, SlotsAreClaims
    <3> QED  BY <3>2, <3>3 DEF Holds, Claim
  <2> QED
    BY <1>5, <2>1, <2>2, <2>3, ProgramStays DEF MigrationInv, UnseenInv, Image
<1>12. NamesStay
  <2>1. ASSUME NEW x \in Inodes, NEW q \in Paths, tree[q] = x
        PROVE  Named(x)' \/ x \in carried'
    <3>1. CASE q = path
      <4>1. claims'[<<i, k>>] = x
        BY <1>4, <1>5, <2>1, <3>1, InodesDiffer
      <4> QED  BY <1>4, <4>1 DEF Named, ClaimNames, Claims
    <3>2. CASE q \in gone
      BY <1>5, <2>1, <3>2
    <3>3. CASE q # path /\ q \notin gone
      BY <1>6, <2>1, <3>3 DEF Named, PathNames
    <3> QED  BY <3>1, <3>2, <3>3
  <2>2. ASSUME NEW x \in Inodes, NEW c \in Claims, claims[c] = x PROVE Named(x)'
    <3>1. claims'[c] = x
      BY <1>1, <1>4, <1>5, <2>2, InodesDiffer
    <3> QED  BY <3>1 DEF Named, ClaimNames, Claims
  <2>3. ASSUME NEW x \in Inodes, Named(x) PROVE Named(x)' \/ x \in carried'
    BY <2>1, <2>2, <2>3 DEF Named, PathNames, ClaimNames
  <2> QED  BY <1>5, <2>3 DEF NamesStay
<1>13. AimInv'
  BY <1>5 DEF AimInv
<1> QED  BY <1>7, <1>8, <1>9, <1>10, <1>11, <1>12, <1>13 DEF MigrationInv

LEMMA CheckedKeeps ==
  ASSUME MigrationInv, NEW i \in 1 .. Count, NEW path \in StepPaths(i),
         NEW k \in {"source", "rollback"}, NEW id, ~ Holds(i, k), CheckLeaf(i, path, k, id)
  PROVE  MigrationInv' /\ NamesStay
<1>1. /\ NamesUnchanged /\ UNCHANGED <<journal, staged, proc>>
      /\ aim' = [path |-> path, claim |-> <<i, k>>, id |-> id]
  BY DEF CheckLeaf, NamesUnchanged, files, private, userVars
<1>2. CoreInv' /\ NamesStay
  BY <1>1, CoreSettles, GenerationStays, StagesRest DEF MigrationInv, CoreInv, NamesUnchanged
<1>3. AimInv'
  <2>1. aim'.claim = <<i, k>> /\ aim'.path = path /\ claims'[<<i, k>>] = None
    BY <1>1 DEF Holds, Claim, NamesUnchanged
  <2>2. Count' = Count /\ StepPaths(i)' = StepPaths(i)
    BY <1>1, ProgramStays DEF NamesUnchanged
  <2> QED  BY <2>1, <2>2 DEF AimInv, StepPaths, Kind, Source, Target
<1> QED  BY <1>2, <1>3 DEF MigrationInv, CoreInv

-----------------------------------------------------------------------------
(* People.                                                                 *)

\* A path comes to name what is new, or nothing; what it named is removed.
LEMMA SettledKeeps ==
  ASSUME MigrationInv, NEW p \in Paths, NEW id, actions < MaxUserActions,
         actions' = actions + 1, id = None \/ id = Users(actions + 1), Settles(p, id),
         discarded' = discarded \cup {tree[p]} \/ (discarded' = discarded /\ ~ Present(p)),
         UNCHANGED edited, ByPeople
  PROVE  MigrationInv' /\ NamesStay
<1>1. UNCHANGED <<program, journal, claims, staged, edited, carried, proc, at, aim>>
  BY DEF ByPeople, private
<1>2. /\ program \in Programs /\ tree \in [Paths -> Ids] /\ id \in Ids
      /\ tree' = [tree EXCEPT ![p] = id]
  <2>1. id = Users(actions + 1) => id \in Inodes
    BY MigrationAssumption DEF MigrationInv, FilesInv, Inodes
  <2> QED  BY <2>1 DEF MigrationInv, JournalInv, FilesInv, Settles, Ids
<1>3. \A q \in Paths : tree'[q] = IF q = p THEN id ELSE tree[q]
  BY <1>2
<1>4. JournalInv'
  BY <1>1, GenerationStays DEF MigrationInv, JournalGoesOn
<1>5. FilesInv'
  BY <1>1, <1>2, MigrationAssumption DEF FilesInv, MigrationInv, Ids, Inodes, Steps, Claims
<1>6. OwnInv'
  BY <1>1 DEF OwnInv, MigrationInv, Steps, Image, Restore
<1>7. PlaceInv'
  <2>1. \A x, q \in Paths : tree'[q] = Original(x) =>
          q = x \/ \E j \in 1 .. Count : x \in StepPaths(j) /\ q \in StepPaths(j)
    BY <1>3, InodesDiffer DEF MigrationInv, PlaceInv
  <2>2. \A j \in Steps, q \in Paths : tree'[q] = Image(j) => j \in 1 .. Count /\ q = Target(j)
    BY <1>3, InodesDiffer DEF MigrationInv, PlaceInv
  <2> QED
    BY <1>1, <2>1, <2>2, ProgramStays
    DEF MigrationInv, PlaceInv, Original, Image, Steps, Claims, ClaimKinds
<1>8. UnseenInv'
  <2>1. ASSUME NEW j \in 1 .. Count, Unseen(Image(j)) PROVE Unseen(Image(j))'
    <3>1. Image(j) \in Inodes
      BY <1>2, ProgramShape, InodesDiffer
    <3> QED  BY <1>1, <1>3, <2>1, <3>1, InodesDiffer DEF Unseen, PathNames, Image
  <2> QED  BY <1>1, <2>1, ProgramStays DEF MigrationInv, UnseenInv, Image, Holds, Claim
<1>9. NamesStay
  <2>1. ASSUME NEW x \in Inodes, Named(x) PROVE Named(x)' \/ x \in discarded'
    BY <1>1, <1>3, <2>1, InodesDiffer DEF Named, PathNames, ClaimNames, Claims, Present
  <2> QED  BY <1>1, <2>1 DEF NamesStay
<1>10. AimInv'
  BY <1>1, ProgramStays DEF MigrationInv, AimInv
<1> QED  BY <1>4, <1>5, <1>6, <1>7, <1>8, <1>9, <1>10 DEF MigrationInv

LEMMA EditedKeeps ==
  ASSUME MigrationInv, NEW p \in Paths, UserEdits(p)
  PROVE  MigrationInv' /\ NamesStay
<1>1. /\ UNCHANGED <<program, journal, tree, claims, staged, carried, discarded, proc, at, aim>>
      /\ edited' = edited \cup {tree[p]} /\ p \notin Dirs /\ tree[p] # None
      /\ actions' = actions + 1 /\ actions < MaxUserActions
  BY DEF UserEdits, Acts, ByPeople, private, Present
<1>2. program \in Programs /\ tree \in [Paths -> Ids] /\ tree[p] \in Inodes
  BY <1>1 DEF MigrationInv, JournalInv, FilesInv, Ids
<1>3. JournalInv'
  BY <1>1, GenerationStays DEF MigrationInv, JournalGoesOn
<1>4. FilesInv'
  BY <1>1, <1>2, MigrationAssumption DEF FilesInv, MigrationInv, Ids, Inodes, Steps, Claims
<1>5. OwnInv'
  BY <1>1 DEF OwnInv, MigrationInv, Steps, Image, Restore
<1>6. PlaceInv'
  BY <1>1, ProgramStays DEF MigrationInv, PlaceInv, Original, Image, Steps, Claims, ClaimKinds
<1>7. UnseenInv'
  <2>1. ASSUME NEW j \in 1 .. Count, Unseen(Image(j)) PROVE Unseen(Image(j))'
    BY <1>1, <2>1 DEF Unseen, PathNames, Image
  <2>2. ASSUME NEW j \in 1 .. Count, Kind(j) = "mkdir", Image(j) \notin edited
        PROVE  Image(j) \notin edited'
    <3>1. j \in Steps /\ Target(j) \in Dirs
      BY <1>2, <2>2, ProgramShape
    <3>2. tree[p] # Image(j)
      BY <1>1, <3>1 DEF MigrationInv, PlaceInv
    <3> QED  BY <1>1, <2>2, <3>2
  <2> QED  BY <1>1, <2>1, <2>2, ProgramStays DEF MigrationInv, UnseenInv, Image, Holds, Claim
<1>8. NamesStay
  BY <1>1, <1>2 DEF NamesStay, Named, PathNames, ClaimNames, Claims
<1>9. AimInv'
  BY <1>1, ProgramStays DEF MigrationInv, AimInv
<1> QED  BY <1>3, <1>4, <1>5, <1>6, <1>7, <1>8, <1>9 DEF MigrationInv

LEMMA PeopleKeep ==
  ASSUME MigrationInv, UserActs
  PROVE  MigrationInv' /\ NamesStay
<1>1. PICK p \in Paths : UserEdits(p) \/ UserReplaces(p) \/ UserCreates(p) \/ UserDeletes(p)
  BY DEF UserActs
<1>2. CASE UserEdits(p)
  BY <1>2, EditedKeeps
<1>3. CASE UserReplaces(p)
  <2> PICK id : id = Users(actions + 1)
    OBVIOUS
  <2> QED  BY <1>3, SettledKeeps DEF UserReplaces, Acts
<1>4. CASE UserCreates(p)
  <2> PICK id : id = Users(actions + 1)
    OBVIOUS
  <2> QED  BY <1>4, SettledKeeps DEF UserCreates, Acts
<1>5. CASE UserDeletes(p)
  BY <1>5, SettledKeeps DEF UserDeletes, Acts
<1> QED  BY <1>1, <1>2, <1>3, <1>4, <1>5

-----------------------------------------------------------------------------
(* What steps of both directions are made of.                              *)

LEMMA ConflictKeeps ==
  ASSUME MigrationInv, NEW i, Conflict(i)
  PROVE  MigrationInv' /\ NamesStay
BY ConflictIsQuiet, QuietKeeps

LEMMA AbandonKeeps ==
  ASSUME MigrationInv, Abandon
  PROVE  MigrationInv' /\ NamesStay
BY AbandonIsQuiet, QuietKeeps

LEMMA AppendKeeps ==
  ASSUME MigrationInv, NEW g, Generation(g),
         g.dir = journal.dir \/ (g.dir = "rollback" /\ proc = "rollback"),
         AppendGeneration(g)
  PROVE  MigrationInv' /\ NamesStay
BY AppendIsQuiet, QuietKeeps

LEMMA ReceiptKeeps ==
  ASSUME MigrationInv, NEW d, NEW i, NEW r, PersistReceipt(d, i, r)
  PROVE  MigrationInv' /\ NamesStay
BY ReceiptIsQuiet, QuietKeeps

\* The step in flight is a step of the program.
LEMMA StepInFlight ==
  ASSUME MigrationInv, NEW i \in Steps, journal.inflight = i
  PROVE  /\ i \in 1 .. Count /\ program \in Programs /\ Count \in Nat
         /\ Generation(journal) /\ journal.inflight # None
BY ProgramShape, MigrationAssumption DEF MigrationInv, JournalInv, Generation, Steps

LEMMA PublishKeeps ==
  ASSUME MigrationInv, NEW i \in 1 .. Count, NEW k \in {"publish", "source", "restore"},
         NEW path \in StepPaths(i), Holds(i, k),
         k = "publish" => path = Target(i) /\ (Kind(i) = "replace" => Holds(i, "source")),
         k = "source" => Claim(i, k) = Before(i),
         Publish(i, k, path)
  PROVE  MigrationInv' /\ NamesStay
<1>1. CASE at' = "published" /\ LinkVisible(i, k, path)
  <2> PICK id : id = Claim(i, k)
    OBVIOUS
  <2>1. /\ claims[<<i, k>>] = id /\ id # None /\ ~ Present(path)
        /\ tree' = [tree EXCEPT ![path] = id] /\ claims' = claims /\ at' # "checked"
        /\ UNCHANGED <<program, journal, edited, staged, carried, discarded, actions, proc>>
    BY <1>1 DEF LinkVisible, Rests, private, userVars, Holds, Claim
  <2> QED  BY <2>1, VisibleKeeps DEF ClaimKinds, Claim
<1>2. CASE at' = "published" /\ UNCHANGED <<journal, files, private>> /\ Rests
  <2>1. NamesUnchanged /\ UNCHANGED <<journal, staged, proc, aim>> /\ at' # "checked"
    BY <1>2 DEF Rests, NamesUnchanged, files, private, userVars
  <2> QED  BY <2>1, StagesRest, RestIsQuiet, QuietKeeps DEF MigrationInv
<1>3. CASE Conflict(i)
  BY <1>3, ConflictKeeps
<1> QED  BY <1>1, <1>2, <1>3 DEF Publish

LEMMA PublicationKeeps ==
  ASSUME MigrationInv, NEW i \in 1 .. Count, journal.inflight = i, NEW k \in ClaimKinds, NEW id,
         \/ /\ k = "publish" /\ id = Image(i)
            /\ Kind(i) \in {"create", "replace"} => journal.dir = "apply"
         \/ k = "restore" /\ id = Restore(i),
         PreparePublication(i, k, id)
  PROVE  MigrationInv' /\ NamesStay
<1>1. /\ program \in Programs /\ i \in Steps /\ <<i, k>> \in Claims /\ id \in Ids
      /\ staged \in [Claims -> Ids] /\ Count \in Nat
  BY ProgramShape, SlotsAreClaims, InodesDiffer DEF MigrationInv, JournalInv, FilesInv, Ids
<1>2. CASE StagePublication(i, k, id)
  <2>1. /\ NamesUnchanged /\ UNCHANGED <<journal, proc, aim>> /\ at' # "checked"
        /\ staged' = [staged EXCEPT ![<<i, k>>] = id]
    BY <1>2 DEF StagePublication, Rests, NamesUnchanged, files, userVars
  <2>2. StagesStay
    BY <1>1, <2>1, SlotsAreClaims DEF StagesStay, MigrationInv, OwnInv, ClaimKinds
  <2> QED  BY <2>1, <2>2, RestIsQuiet, QuietKeeps
<1>3. CASE BindPublication(i, k)
  <2>1. PICK b : b = [step |-> i, dir |-> journal.dir, kind |-> k]
    OBVIOUS
  <2>2. /\ journal' = NextPublicationBound(journal, b) /\ NamesUnchanged
        /\ UNCHANGED <<staged, proc, aim, at>>
    BY <1>3, <2>1 DEF BindPublication, Rests, NamesUnchanged, files, private, userVars
  <2>3. Generation(journal') /\ journal'.dir = journal.dir
    BY <1>1, <2>2, NextGenerations DEF MigrationInv, JournalInv
  <2>4. Quiet
    BY <2>2, <2>3, GenerationFollows, StagesRest DEF Quiet, MigrationInv, NamesUnchanged
  <2> QED  BY <2>4, QuietKeeps
<1>4. CASE InstallPublication(i, k)
  <2>1. staged[<<i, k>>] = id /\ ~ Holds(i, k)
    BY <1>1, <1>4 DEF InstallPublication, PreparePublication, MigrationInv, OwnInv
  <2>2. /\ claims' = [claims EXCEPT ![<<i, k>>] = id] /\ at' # "checked"
        /\ staged' = [staged EXCEPT ![<<i, k>>] = None]
        /\ UNCHANGED <<program, journal, tree, edited, carried, discarded, actions, proc>>
    BY <1>4, <2>1 DEF InstallPublication, Rests, files, userVars
  <2>3. StagesStay
    BY <1>1, <2>2, SlotsAreClaims DEF StagesStay, MigrationInv, OwnInv, ClaimKinds, Ids
  <2> QED  BY <2>1, <2>2, <2>3, InstalledKeeps
<1> QED  BY <1>2, <1>3, <1>4 DEF PreparePublication

-----------------------------------------------------------------------------
(* Forward.                                                                *)

LEMMA ApplyLoopKeeps ==
  ASSUME MigrationInv, ApplyIntent \/ PreparedDrifted \/ ApplyFinish \/ ApplyVerifies
  PROVE  MigrationInv' /\ NamesStay
<1>1. Generation(journal) /\ Count \in Nat
  BY ProgramShape DEF MigrationInv, JournalInv
<1>2. CASE ApplyIntent
  <2> PICK g : g = NextApplyIntent(journal)
    OBVIOUS
  <2>1. Generation(g) /\ g.dir = journal.dir
    BY <1>1, <1>2, NextGenerations DEF ApplyIntent, CanIntend
  <2> QED  BY <1>2, <2>1, AppendKeeps DEF ApplyIntent
<1>3. CASE PreparedDrifted
  BY <1>3, ConflictKeeps DEF PreparedDrifted
<1>4. CASE ApplyFinish
  <2> PICK g : g = NextApplied(journal)
    OBVIOUS
  <2>1. Generation(g) /\ g.dir = journal.dir
    BY <1>1, NextGenerations
  <2> QED  BY <1>4, <2>1, AppendKeeps DEF ApplyFinish
<1>5. CASE ApplyVerifies
  <2>1. CASE Abandon \/ \E i : Conflict(i)
    BY <2>1, AbandonKeeps, ConflictKeeps
  <2>2. CASE /\ plan' = "verified" /\ proc' = "idle" /\ at' = "top"
             /\ UNCHANGED <<program, journal, files, private, userVars, aim>>
    <3>1. NamesUnchanged /\ UNCHANGED <<journal, staged>> /\ proc' = "idle" /\ at' = "top"
      BY <2>2 DEF NamesUnchanged, files, private, userVars
    <3>2. Quiet
      BY <3>1, GenerationStays, StagesRest DEF Quiet, MigrationInv, NamesUnchanged
    <3> QED  BY <3>2, QuietKeeps
  <2> QED  BY <1>5, <2>1, <2>2 DEF ApplyVerifies
<1> QED  BY <1>2, <1>3, <1>4, <1>5

LEMMA ApplyReceiptsKeep ==
  ASSUME MigrationInv, NEW i \in Steps,
         \/ ApplyReceiptJournaled(i) \/ ApplyReceiptVerified(i) \/ ApplyReceiptPersists(i)
         \/ Displaced(i)
  PROVE  MigrationInv' /\ NamesStay
<1>1. i \in 1 .. Count /\ Generation(journal) /\ Count \in Nat /\ journal.inflight # None
  BY StepInFlight
  DEF ApplyReceiptJournaled, ApplyReceiptVerified, ApplyReceiptPersists, Displaced, InApply
<1>2. PICK g : g = NextApplyReceipt(journal, receipt["apply"][i])
  OBVIOUS
<1>3. Generation(g) /\ g.dir = journal.dir
  BY <1>1, <1>2, NextGenerations
<1>4. AppendGeneration(g) \/ Conflict(i) \/ Abandon \/ PersistReceipt("apply", i, Publishes(i))
  BY <1>2 DEF ApplyReceiptJournaled, ApplyReceiptVerified, ApplyReceiptPersists, Displaced
<1> QED  BY <1>3, <1>4, AppendKeeps, ConflictKeeps, AbandonKeeps, ReceiptKeeps

LEMMA MkdirKeeps ==
  ASSUME MigrationInv, NEW i \in Steps, MkdirPrepare(i) \/ MkdirReceipt(i) \/ MkdirPublish(i)
  PROVE  MigrationInv' /\ NamesStay
<1>1. /\ i \in 1 .. Count /\ Generation(journal) /\ Count \in Nat /\ journal.inflight # None
      /\ program \in Programs /\ Kind(i) = "mkdir"
  BY StepInFlight DEF MkdirPrepare, MkdirReceipt, MkdirPublish, Runs, InApply
<1>2. CASE MkdirPrepare(i)
  <2> PICK id : id = Image(i)
    OBVIOUS
  <2>1. /\ ~ Holds(i, "publish") /\ claims' = [claims EXCEPT ![<<i, "publish">>] = id]
        /\ UNCHANGED <<program, journal, tree, edited, carried, discarded, actions, proc, staged>>
        /\ at' # "checked"
    BY <1>2 DEF MkdirPrepare, Runs, InApply, Rests, files, userVars
  <2> QED  BY <1>1, <2>1, StagesRest, InstalledKeeps DEF MigrationInv, ClaimKinds
<1>3. CASE MkdirReceipt(i)
  <2>1. NamesUnchanged /\ UNCHANGED <<journal, staged, proc, aim, at>>
    BY <1>3 DEF MkdirReceipt, Rests, NamesUnchanged, files, userVars
  <2> QED  BY <2>1, StagesRest, RestIsQuiet, QuietKeeps DEF MigrationInv
<1>4. CASE MkdirPublish(i)
  <2>1. CASE Holds(i, "publish") /\ RenameVisible(i, "publish", Target(i))
    <3> PICK id : id = Claim(i, "publish")
      OBVIOUS
    <3>1. /\ claims[<<i, "publish">>] = id /\ id # None /\ ~ Present(Target(i))
          /\ tree' = [tree EXCEPT ![Target(i)] = id]
          /\ claims' = [claims EXCEPT ![<<i, "publish">>] = None] /\ at' # "checked"
          /\ UNCHANGED <<program, journal, edited, staged, carried, discarded, actions, proc>>
      BY <1>4, <2>1 DEF MkdirPublish, RenameVisible, Rests, userVars, Holds, Claim
    <3>2. Target(i) \in StepPaths(i)
      BY <1>1, ProgramShape
    <3> QED  BY <1>1, <3>1, <3>2, VisibleKeeps DEF ClaimKinds
  <2>2. CASE Abandon \/ Conflict(i)
    BY <2>2, AbandonKeeps, ConflictKeeps
  <2>3. CASE AppendGeneration(NextApplyReceipt(journal, receipt["apply"][i]))
    BY <1>1, <2>3, NextGenerations, AppendKeeps
  <2> QED  BY <1>4, <2>1, <2>2, <2>3 DEF MkdirPublish
<1> QED  BY <1>2, <1>3, <1>4

LEMMA ApplyFilesKeep ==
  ASSUME MigrationInv, NEW i \in Steps,
         \/ ImagePrepared(i) \/ CreatePublishes(i)
         \/ ReplaceTakesSource(i) \/ ReplacePublishes(i)
         \/ MoveTakesSource(i) \/ MovePublishes(i)
  PROVE  MigrationInv' /\ NamesStay
<1>1. /\ i \in 1 .. Count /\ program \in Programs /\ journal.inflight = i
      /\ journal.dir = "apply"
  BY StepInFlight
  DEF ImagePrepared, CreatePublishes, ReplaceTakesSource, ReplacePublishes, MoveTakesSource,
      MovePublishes, Runs, InApply, Applying, MigrationInv, JournalInv
<1>2. /\ Target(i) \in StepPaths(i)
      /\ Kind(i) = "move" => Source(i) \in StepPaths(i)
  BY <1>1, ProgramShape DEF StepPaths
<1>3. CASE ImagePrepared(i)
  BY <1>1, <1>3, PublicationKeeps DEF ImagePrepared, ClaimKinds
<1>4. CASE CreatePublishes(i)
  BY <1>1, <1>2, <1>4, AbandonKeeps, PublishKeeps DEF CreatePublishes
<1>5. CASE ReplaceTakesSource(i)
  BY <1>1, <1>2, <1>5, ConflictKeeps, CheckedKeeps DEF ReplaceTakesSource
<1>6. CASE ReplacePublishes(i)
  BY <1>1, <1>2, <1>6, AbandonKeeps, PublishKeeps DEF ReplacePublishes
<1>7. CASE MoveTakesSource(i)
  BY <1>1, <1>2, <1>7, AbandonKeeps, ConflictKeeps, CheckedKeeps DEF MoveTakesSource
<1>8. CASE MovePublishes(i)
  BY <1>1, <1>2, <1>8, AbandonKeeps, ConflictKeeps, PublishKeeps
  DEF MovePublishes, ExactClaim, Claim
<1> QED  BY <1>3, <1>4, <1>5, <1>6, <1>7, <1>8

LEMMA ApplyKeeps ==
  ASSUME MigrationInv, ApplyNext
  PROVE  MigrationInv' /\ NamesStay
BY ApplyLoopKeeps, ApplyReceiptsKeep, MkdirKeeps, ApplyFilesKeep DEF ApplyNext, ApplyStep

-----------------------------------------------------------------------------
(* Backward.                                                               *)

LEMMA RollbackLoopKeeps ==
  ASSUME MigrationInv,
         \/ PromoteReceipt \/ RequestRollback \/ ScopeLost
         \/ RollbackIntent \/ RollbackFinish \/ RollbackDone
  PROVE  MigrationInv' /\ NamesStay
<1>1. Generation(journal) /\ Count \in Nat
  BY ProgramShape DEF MigrationInv, JournalInv
<1>2. CASE PromoteReceipt
  <2> PICK i : i = journal.inflight
    OBVIOUS
  <2> PICK g : g = NextApplyReceipt(journal, receipt["apply"][i])
    OBVIOUS
  <2>1. Generation(g) /\ g.dir = journal.dir
    BY <1>1, <1>2, NextGenerations DEF PromoteReceipt
  <2>2. Conflict(i) \/ Abandon \/ AppendGeneration(g)
    BY <1>2 DEF PromoteReceipt
  <2> QED  BY <2>1, <2>2, ConflictKeeps, AbandonKeeps, AppendKeeps
<1>3. CASE RequestRollback
  <2> PICK g : g = NextRollbackRequested(journal)
    OBVIOUS
  <2>1. Generation(g) /\ g.dir = "rollback"
    BY <1>1, NextGenerations
  <2> QED  BY <1>3, <2>1, AppendKeeps DEF RequestRollback, RollingBack
<1>4. CASE ScopeLost
  BY <1>4, ConflictKeeps DEF ScopeLost
<1>5. CASE RollbackIntent
  <2> PICK g : g = NextRollbackIntent(journal)
    OBVIOUS
  <2>1. Generation(g) /\ g.dir = journal.dir
    BY <1>1, <1>5, NextGenerations DEF RollbackIntent, CanIntendRollback
  <2> QED  BY <1>5, <2>1, AppendKeeps DEF RollbackIntent
<1>6. CASE RollbackFinish
  <2> PICK g : g = NextRolledBack(journal)
    OBVIOUS
  <2>1. Generation(g) /\ g.dir = journal.dir
    BY <1>1, NextGenerations
  <2> QED  BY <1>6, <2>1, AppendKeeps DEF RollbackFinish
<1>7. CASE RollbackDone
  <2>1. CASE Abandon
    BY <2>1, AbandonKeeps
  <2>2. CASE /\ plan' = "rolled_back" /\ proc' = "idle" /\ at' = "top"
             /\ UNCHANGED <<program, journal, files, private, userVars, aim>>
    <3>1. NamesUnchanged /\ UNCHANGED <<journal, staged>> /\ proc' = "idle" /\ at' = "top"
      BY <2>2 DEF NamesUnchanged, files, private, userVars
    <3>2. Quiet
      BY <3>1, GenerationStays, StagesRest DEF Quiet, MigrationInv, NamesUnchanged
    <3> QED  BY <3>2, QuietKeeps
  <2> QED  BY <1>7, <2>1, <2>2 DEF RollbackDone
<1> QED  BY <1>2, <1>3, <1>4, <1>5, <1>6, <1>7

LEMMA InversesKeep ==
  ASSUME MigrationInv, NEW i \in Steps, RollbackStep(i)
  PROVE  MigrationInv' /\ NamesStay
<1>1. /\ i \in 1 .. Count /\ program \in Programs /\ Count \in Nat /\ journal.inflight = i
      /\ Generation(journal) /\ journal.inflight # None
  <2>1. journal.inflight = i
    BY DEF RollbackStep, InverseDisplaced, InverseJournaled, InverseVerified, InvertMkdir,
           InvertCreate, TakesPublished, RestoreRefused, RestorePrepared, RestorePublishes,
           RestoreFound, RestoreReceipted, Restores, Inverting, Inverts, InFlight
  <2> QED  BY <2>1, StepInFlight
<1>2. /\ Target(i) \in StepPaths(i) /\ Taken(i) \in StepPaths(i)
  BY <1>1, ProgramShape
<1>3. ASSUME NEW g, g = NextRollbackReceipt(journal, receipt["rollback"][i].after),
             AppendGeneration(g)
      PROVE  MigrationInv' /\ NamesStay
  <2>1. Generation(g) /\ g.dir = journal.dir
    BY <1>1, <1>3, NextGenerations
  <2> QED  BY <1>3, <2>1, AppendKeeps
<1>4. ASSUME NEW id, Receipted(i, id) PROVE MigrationInv' /\ NamesStay
  BY <1>4, ReceiptKeeps DEF Receipted
<1>5. CASE InverseDisplaced(i)
  BY <1>5, ConflictKeeps DEF InverseDisplaced
<1>6. CASE InverseJournaled(i)
  BY <1>3, <1>6 DEF InverseJournaled
<1>7. CASE InverseVerified(i)
  BY <1>3, <1>7, AbandonKeeps, ConflictKeeps DEF InverseVerified
<1>8. CASE InvertMkdir(i)
  BY <1>1, <1>2, <1>4, <1>8, AbandonKeeps, ConflictKeeps, CheckedKeeps DEF InvertMkdir
<1>9. CASE InvertCreate(i)
  BY <1>1, <1>2, <1>4, <1>9, AbandonKeeps, ConflictKeeps, CheckedKeeps DEF InvertCreate
<1>10. CASE TakesPublished(i)
  BY <1>1, <1>2, <1>10, ConflictKeeps, CheckedKeeps DEF TakesPublished
<1>11. CASE RestoreRefused(i)
  BY <1>11, AbandonKeeps, ConflictKeeps DEF RestoreRefused
<1>12. CASE RestorePrepared(i)
  BY <1>1, <1>12, PublicationKeeps DEF RestorePrepared, ClaimKinds
<1>13. CASE RestorePublishes(i)
  BY <1>1, <1>2, <1>13, AbandonKeeps, PublishKeeps DEF RestorePublishes
<1>14. CASE RestoreFound(i)
  BY <1>4, <1>14, AbandonKeeps, ConflictKeeps DEF RestoreFound
<1>15. CASE RestoreReceipted(i)
  BY <1>4, <1>15, AbandonKeeps, ConflictKeeps DEF RestoreReceipted
<1> QED
  BY <1>5, <1>6, <1>7, <1>8, <1>9, <1>10, <1>11, <1>12, <1>13, <1>14, <1>15 DEF RollbackStep

\* A call that aborts clears one claim.
LEMMA RemovedKeeps ==
  ASSUME MigrationInv, NEW i \in 1 .. Count, NEW k \in ClaimKinds, at # "checked",
         RemoveClaim(i, k),
         \/ \E p \in Paths : tree[p] = Claim(i, k)
         \/ Claim(i, k) = Image(i) /\ Image(i) \notin edited,
         k = "publish" => Kind(i) = "mkdir" \/ journal.dir = "rollback",
         k = "source" => Kind(i) # "replace" \/ ~ Holds(i, "publish")
  PROVE  MigrationInv' /\ NamesStay
<1>1. /\ claims' = [claims EXCEPT ![<<i, k>>] = None] /\ at' # "checked"
      /\ UNCHANGED <<program, journal, tree, edited, staged, carried, discarded, actions, proc>>
  BY DEF RemoveClaim, Rests, files, userVars
<1> QED  BY <1>1, ClearedKeeps DEF Claim

\* An original with three names, its source and the source's claim among them and its
\* target not, has the third in the rollback claim: no other step can name it.
LEMMA ThirdName ==
  ASSUME MigrationInv, NEW i \in 1 .. Count, Kind(i) = "move", Holds(i, "rollback"),
         Claim(i, "source") = Before(i), tree[Source(i)] = Before(i),
         tree[Target(i)] # Before(i),
         Links(Before(i)) = 2 + Cardinality(HeldKinds(i) \cap {"rollback"})
  PROVE  Claim(i, "rollback") = Before(i)
<1> PICK id : id = Before(i)
  OBVIOUS
<1>1. /\ program \in Programs /\ i \in Steps /\ Source(i) \in Paths /\ id = Original(Source(i))
      /\ Source(i) \in StepPaths(i) /\ StepPaths(i) = {Source(i), Target(i)}
  <2>1. program \in Programs
    BY DEF MigrationInv, JournalInv
  <2> QED  BY <2>1, ProgramShape DEF Before, Taken, StepPaths
<1>2. HeldKinds(i) \cap {"rollback"} = {"rollback"}
  BY DEF HeldKinds, ClaimKinds
<1>3. Cardinality({"rollback"}) = 1 /\ Cardinality({Source(i)}) = 1
      /\ Cardinality({<<i, "source">>}) = 1
  BY FS_Singleton
<1>4. {p \in Paths : tree[p] = id} = {Source(i)}
  <2>1. ASSUME NEW p \in Paths, tree[p] = id PROVE p = Source(i)
    <3>1. p = Source(i) \/ \E j \in 1 .. Count : Source(i) \in StepPaths(j) /\ p \in StepPaths(j)
      BY <1>1, <2>1 DEF MigrationInv, PlaceInv
    <3>2. p \in StepPaths(i)
      BY <1>1, <3>1, OneStep
    <3> QED  BY <1>1, <2>1, <3>2
  <2> QED  BY <1>1, <2>1
<1>5. {c \in Claims : claims[c] = id} \subseteq {<<i, "source">>, <<i, "rollback">>}
  <2>1. ASSUME NEW c \in Claims, claims[c] = id
        PROVE  c \in {<<i, "source">>, <<i, "rollback">>}
    <3>1. c[1] \in 1 .. Count /\ Source(i) \in StepPaths(c[1])
      BY <1>1, <2>1 DEF MigrationInv, PlaceInv
    <3>2. c[1] = i
      BY <1>1, <3>1, OneStep
    <3>3. c = <<i, c[2]>> /\ c[2] \in ClaimKinds
      BY <3>2, SlotsAreClaims
    <3>4. /\ claims[<<i, "publish">>] \in {None, Image(i)}
          /\ claims[<<i, "restore">>] \in {None, Restore(i)}
      BY <1>1 DEF MigrationInv, OwnInv
    <3>5. claims[<<i, "publish">>] # id /\ claims[<<i, "restore">>] # id
      BY <1>1, <3>4, InodesDiffer
    <3> QED  BY <2>1, <3>3, <3>5 DEF ClaimKinds
  <2> QED  BY <2>1
<1>6. ASSUME Claim(i, "rollback") # id PROVE FALSE
  <2>1. <<i, "source">> \in Claims /\ claims[<<i, "source">>] = id
        /\ claims[<<i, "rollback">>] # id
    BY <1>1, <1>6, SlotsAreClaims DEF Claim, ClaimKinds
  <2>2. {c \in Claims : claims[c] = id} = {<<i, "source">>}
    BY <1>5, <2>1
  <2>3. Links(id) = 2
    BY <1>3, <1>4, <2>2 DEF Links
  <2> QED  BY <1>2, <1>3, <2>3
<1> QED  BY <1>6

LEMMA AbortsKeep ==
  ASSUME MigrationInv, NEW i \in Steps, AbortStep(i)
  PROVE  MigrationInv' /\ NamesStay
<1>1. /\ i \in 1 .. Count /\ program \in Programs /\ Count \in Nat /\ journal.inflight = i
      /\ Generation(journal) /\ journal.inflight # None /\ journal.dir = "rollback"
  <2>1. journal.inflight = i /\ journal.dir = "rollback"
    BY DEF AbortStep, AbortDisplaced, AbortJournaled, AbortMkdir, AbortCreate,
           AbortReplaceUntaken, AbortReplaceTaken, AbortMoveUntaken, AbortMoveTaken,
           Aborting, Aborts, InFlight
  <2> QED  BY <2>1, StepInFlight
<1>2. /\ Target(i) \in StepPaths(i) /\ Taken(i) \in StepPaths(i) /\ StepPaths(i) \subseteq Paths
      /\ Kind(i) = "move" => Source(i) \in StepPaths(i) /\ Taken(i) = Source(i)
      /\ Kind(i) # "move" => Taken(i) = Target(i)
  BY <1>1, ProgramShape DEF StepPaths, Taken
<1>3. Holds(i, "publish") => Claim(i, "publish") = Image(i)
  BY DEF MigrationInv, OwnInv, Holds, Claim
<1>4. ASSUME NEW kinds, AbortReceipts(i, kinds) PROVE MigrationInv' /\ NamesStay
  BY <1>4, ReceiptKeeps DEF AbortReceipts
<1>5. CASE AbortDisplaced(i)
  BY <1>5, ConflictKeeps DEF AbortDisplaced
<1>6. CASE AbortJournaled(i)
  <2> PICK g : g = NextAbortedApply(journal)
    OBVIOUS
  <2>1. Generation(g) /\ g.dir = journal.dir
    BY <1>1, NextGenerations
  <2> QED  BY <1>6, <2>1, AppendKeeps, AbandonKeeps, ConflictKeeps DEF AbortJournaled
<1>7. CASE AbortMkdir(i)
  <2>1. Kind(i) = "mkdir" /\ at # "checked" /\ Image(i) \notin edited
    BY <1>1, <1>7 DEF AbortMkdir, Aborting, MigrationInv, UnseenInv
  <2> QED
    BY <1>1, <1>3, <1>4, <1>7, <2>1, RemovedKeeps DEF AbortMkdir, ClaimKinds
<1>8. CASE AbortCreate(i)
  <2>1. at # "checked"
    BY <1>8 DEF AbortCreate, Aborting
  <2> QED
    BY <1>1, <1>2, <1>3, <1>4, <1>8, <2>1, AbandonKeeps, CheckedKeeps, RemovedKeeps
    DEF AbortCreate, ClaimKinds
<1>9. CASE AbortReplaceUntaken(i)
  <2>1. /\ at # "checked"
        /\ Holds(i, "publish") => Image(i) \notin edited
    BY <1>1, <1>9 DEF AbortReplaceUntaken, Aborting, MigrationInv, UnseenInv, Unseen
  <2> QED
    BY <1>1, <1>3, <1>4, <1>9, <2>1, ConflictKeeps, RemovedKeeps
    DEF AbortReplaceUntaken, ClaimKinds
<1>10. CASE AbortReplaceTaken(i)
  <2>1. /\ at # "checked" /\ Kind(i) = "replace" /\ Holds(i, "source")
    BY <1>10 DEF AbortReplaceTaken, Aborting
  <2>2. CASE Conflict(i) \/ Abandon
    BY <2>2, ConflictKeeps, AbandonKeeps
  <2>3. CASE CheckLeaf(i, Target(i), "rollback", Claim(i, "publish")) /\ ~ Holds(i, "rollback")
    BY <1>1, <1>2, <2>3, CheckedKeeps
  <2>4. CASE Holds(i, "publish") /\ Claim(i, "publish") \notin edited /\ RemoveClaim(i, "publish")
    BY <1>1, <1>3, <2>1, <2>4, RemovedKeeps DEF ClaimKinds
  <2>5. CASE /\ ~ Holds(i, "publish") /\ ~ Present(Target(i)) /\ Claim(i, "source") = Before(i)
             /\ RenameVisible(i, "source", Target(i))
    <3> PICK id : id = Claim(i, "source")
      OBVIOUS
    <3>1. /\ claims[<<i, "source">>] = id /\ id # None /\ ~ Present(Target(i)) /\ id = Before(i)
          /\ tree' = [tree EXCEPT ![Target(i)] = id]
          /\ claims' = [claims EXCEPT ![<<i, "source">>] = None] /\ at' # "checked"
          /\ UNCHANGED <<program, journal, edited, staged, carried, discarded, actions, proc>>
      BY <2>1, <2>5 DEF RenameVisible, Rests, userVars, Holds, Claim
    <3> QED  BY <1>1, <1>2, <2>1, <2>5, <3>1, VisibleKeeps DEF ClaimKinds
  <2>6. CASE /\ ~ Holds(i, "publish") /\ Claim(i, "source") = Before(i)
             /\ Shows(Target(i), Before(i)) /\ RemoveClaim(i, "source")
    BY <1>1, <1>2, <2>1, <2>6, RemovedKeeps DEF ClaimKinds, Shows
  <2>7. \/ Conflict(i) \/ Abandon
        \/ CheckLeaf(i, Target(i), "rollback", Claim(i, "publish")) /\ ~ Holds(i, "rollback")
        \/ Holds(i, "publish") /\ Claim(i, "publish") \notin edited /\ RemoveClaim(i, "publish")
        \/ /\ ~ Holds(i, "publish") /\ ~ Present(Target(i)) /\ Claim(i, "source") = Before(i)
           /\ RenameVisible(i, "source", Target(i))
        \/ /\ ~ Holds(i, "publish") /\ Claim(i, "source") = Before(i)
           /\ Shows(Target(i), Before(i)) /\ RemoveClaim(i, "source")
    BY <1>10 DEF AbortReplaceTaken, ExactClaim
  <2> QED  BY <2>2, <2>3, <2>4, <2>5, <2>6, <2>7
<1>11. CASE AbortMoveUntaken(i)
  BY <1>4, <1>11, AbandonKeeps, ConflictKeeps DEF AbortMoveUntaken
<1>12. CASE AbortMoveTaken(i)
  <2>1. at # "checked" /\ Kind(i) = "move" /\ Holds(i, "source")
    BY <1>12 DEF AbortMoveTaken, Aborting
  <2>2. CASE Conflict(i) \/ Abandon
    BY <2>2, ConflictKeeps, AbandonKeeps
  <2>3. CASE CheckLeaf(i, Target(i), "rollback", Before(i)) /\ ~ Holds(i, "rollback")
    BY <1>1, <1>2, <2>3, CheckedKeeps
  <2>4. CASE /\ Claim(i, "source") = Before(i) /\ ~ Present(Source(i))
             /\ LinkVisible(i, "source", Source(i)) /\ UNCHANGED at
    <3> PICK id : id = Claim(i, "source")
      OBVIOUS
    <3>1. /\ claims[<<i, "source">>] = id /\ id # None /\ ~ Present(Source(i)) /\ id = Before(i)
          /\ tree' = [tree EXCEPT ![Source(i)] = id] /\ claims' = claims /\ at' # "checked"
          /\ UNCHANGED <<program, journal, edited, staged, carried, discarded, actions, proc>>
      BY <2>1, <2>4 DEF LinkVisible, Rests, private, userVars, Holds, Claim
    <3> QED  BY <1>1, <1>2, <2>1, <3>1, VisibleKeeps DEF ClaimKinds
  <2>5. CASE /\ Claim(i, "source") = Before(i) /\ tree[Source(i)] = Before(i)
             /\ tree[Target(i)] # Before(i) /\ Holds(i, "rollback")
             /\ Links(Before(i)) = 2 + Cardinality(HeldKinds(i) \cap {"rollback"})
             /\ RemoveClaim(i, "rollback")
    <3>1. Claim(i, "rollback") = Before(i)
      BY <1>1, <2>1, <2>5, ThirdName
    <3>2. Source(i) \in Paths /\ tree[Source(i)] = Claim(i, "rollback")
      BY <1>2, <2>1, <2>5, <3>1
    <3> QED  BY <1>1, <2>1, <2>5, <3>2, RemovedKeeps DEF ClaimKinds
  <2>6. CASE /\ Claim(i, "source") = Before(i) /\ tree[Source(i)] = Before(i)
             /\ RemoveClaim(i, "source")
    <3>1. Source(i) \in Paths /\ tree[Source(i)] = Claim(i, "source")
      BY <1>2, <2>1, <2>6
    <3> QED  BY <1>1, <2>1, <2>6, <3>1, RemovedKeeps DEF ClaimKinds
  <2>7. \/ Conflict(i) \/ Abandon
        \/ CheckLeaf(i, Target(i), "rollback", Before(i)) /\ ~ Holds(i, "rollback")
        \/ /\ Claim(i, "source") = Before(i) /\ ~ Present(Source(i))
           /\ LinkVisible(i, "source", Source(i)) /\ UNCHANGED at
        \/ /\ Claim(i, "source") = Before(i) /\ tree[Source(i)] = Before(i)
           /\ tree[Target(i)] # Before(i) /\ Holds(i, "rollback")
           /\ Links(Before(i)) = 2 + Cardinality(HeldKinds(i) \cap {"rollback"})
           /\ RemoveClaim(i, "rollback")
        \/ /\ Claim(i, "source") = Before(i) /\ tree[Source(i)] = Before(i)
           /\ RemoveClaim(i, "source")
    <3>1. Before(i) # None /\ (Shows(Target(i), Before(i)) <=> tree[Target(i)] = Before(i)
                                                                /\ Before(i) \notin edited)
      BY <1>1, <1>2, InodesDiffer DEF Shows, Before
    <3> QED  BY <1>12, <3>1 DEF AbortMoveTaken, Shows
  <2> QED  BY <2>2, <2>3, <2>4, <2>5, <2>6, <2>7
<1> QED  BY <1>5, <1>6, <1>7, <1>8, <1>9, <1>10, <1>11, <1>12 DEF AbortStep

LEMMA RollbackKeeps ==
  ASSUME MigrationInv, RollbackNext
  PROVE  MigrationInv' /\ NamesStay
BY RollbackLoopKeeps, InversesKeep, AbortsKeep DEF RollbackNext

-----------------------------------------------------------------------------
(* The theorems.                                                           *)

LEMMA FinishKeeps ==
  ASSUME MigrationInv, FinishPublication
  PROVE  MigrationInv' /\ NamesStay
<1>1. CASE /\ \E slot : owned' = owned \ {slot}
           /\ UNCHANGED <<journal, files, claims, staged, receipt, at>> /\ Rests
  <2>1. NamesUnchanged /\ UNCHANGED <<journal, staged, proc, aim, at>>
    BY <1>1 DEF Rests, NamesUnchanged, files, userVars
  <2> QED  BY <2>1, StagesRest, RestIsQuiet, QuietKeeps DEF MigrationInv
<1>2. CASE AppendGeneration(NextPublicationCleared(journal))
  <2> PICK g : g = NextPublicationCleared(journal)
    OBVIOUS
  <2>1. Generation(g) /\ g.dir = journal.dir
    BY NextGenerations, ProgramShape DEF MigrationInv, JournalInv
  <2> QED  BY <1>2, <2>1, AppendKeeps
<1> QED  BY <1>1, <1>2 DEF FinishPublication

LEMMA CommandsKeep ==
  ASSUME MigrationInv, Prepare \/ Recover \/ Rollback \/ Crash
  PROVE  MigrationInv' /\ NamesStay
<1>1. CASE Prepare
  <2>1. NamesUnchanged /\ UNCHANGED <<staged, at, aim>> /\ journal' = Prepared /\ proc' = "apply"
    BY <1>1 DEF Prepare, StartsAs, NamesUnchanged, files, private, userVars
  <2>2. Count \in Nat /\ program \in Programs
    BY ProgramShape DEF MigrationInv, JournalInv
  <2>3. Generation(journal)' /\ journal'.dir = "apply"
    <3>1. Count' = Count
      BY <2>1, ProgramStays DEF NamesUnchanged
    <3> QED  BY <2>1, <2>2, <3>1 DEF Generation, GenerationFields, Prepared
  <2>4. journal.dir = "apply"
    BY <1>1 DEF Prepare, Begun, MigrationInv, JournalInv, Generation
  <2>5. JournalGoesOn
    BY <2>1, <2>2, <2>3, <2>4 DEF JournalGoesOn, JournalInv, NamesUnchanged
  <2>6. Quiet
    BY <2>1, <2>5, StagesRest DEF Quiet, MigrationInv
  <2> QED  BY <2>6, QuietKeeps
<1>2. CASE Recover \/ Rollback
  <2>1. NamesUnchanged /\ UNCHANGED <<journal, staged, at, aim>>
    BY <1>2 DEF Recover, Rollback, Opens, StartsAs, NamesUnchanged, files, private, userVars
  <2>2. proc' = "apply" => journal.dir = "apply"
    BY <1>2 DEF Recover, Rollback, StartsAs
  <2>3. JournalGoesOn
    BY <2>1, <2>2
    DEF JournalGoesOn, JournalInv, MigrationInv, NamesUnchanged, Generation, GenerationFields, Count
  <2>4. Quiet
    BY <2>1, <2>3, StagesRest DEF Quiet, MigrationInv
  <2> QED  BY <2>4, QuietKeeps
<1>3. CASE Crash
  <2>1. NamesUnchanged /\ UNCHANGED <<journal, staged>> /\ proc' = "idle" /\ at' = "top"
    BY <1>3 DEF Crash, NamesUnchanged, files, private, userVars
  <2>2. Quiet
    BY <2>1, GenerationStays, StagesRest DEF Quiet, MigrationInv, NamesUnchanged
  <2> QED  BY <2>2, QuietKeeps
<1> QED  BY <1>1, <1>2, <1>3

LEMMA MigrationInit ==
  ASSUME Init
  PROVE  MigrationInv
<1>1. Count \in Nat /\ program \in Programs
  BY ProgramShape DEF Init
<1>2. JournalInv
  <2>1. journal = [Prepared EXCEPT !.phase = "absent"]
    BY DEF Init, Absent
  <2>2. Generation(journal)
    BY <1>1, <2>1 DEF Generation, GenerationFields, Prepared
  <2> QED  BY <1>1, <2>2 DEF Init, JournalInv
<1>3. FilesInv
  <2>1. tree \in [Paths -> Ids]
    BY InodesDiffer DEF Init, Ids
  <2> QED  BY <2>1, MigrationAssumption DEF Init, FilesInv, Ids
<1>4. \A i \in Steps : \A k \in ClaimKinds : claims[<<i, k>>] = None /\ staged[<<i, k>>] = None
  BY SlotsAreClaims DEF Init
<1>5. OwnInv
  BY <1>4 DEF OwnInv, ClaimKinds
<1>6. \A p \in Paths : tree[p] = IF p \in Initial THEN Original(p) ELSE None
  BY DEF Init
<1>7. PlaceInv
  <2>1. \A c \in Claims : claims[c] = None
    BY DEF Init
  <2> QED  BY <1>6, <2>1, InodesDiffer DEF PlaceInv
<1>8. UnseenInv
  <2>1. ASSUME NEW i \in 1 .. Count PROVE Unseen(Image(i))
    <3>1. i \in Steps
      BY <1>1, ProgramShape
    <3>2. \A p \in Paths : tree[p] # Image(i)
      BY <1>6, <3>1, InodesDiffer
    <3> QED  BY <3>2 DEF Unseen, PathNames, Init
  <2> QED  BY <2>1 DEF UnseenInv, Unseen
<1>9. AimInv
  BY DEF Init, AimInv
<1> QED  BY <1>2, <1>3, <1>5, <1>7, <1>8, <1>9 DEF MigrationInv

LEMMA MigrationStep ==
  ASSUME MigrationInv, [Next]_vars
  PROVE  MigrationInv' /\ [NamesStay]_vars
<1>1. CASE Prepare \/ Recover \/ Rollback \/ Crash
  BY <1>1, CommandsKeep
<1>2. CASE ApplyNext
  BY <1>2, ApplyKeeps
<1>3. CASE RollbackNext
  BY <1>3, RollbackKeeps
<1>4. CASE RenameIntoClaim
  BY <1>4, TakenKeeps
<1>5. CASE FinishPublication
  BY <1>5, FinishKeeps
<1>6. CASE UserActs
  BY <1>6, PeopleKeep
<1>7. CASE UNCHANGED vars
  <2>1. NamesUnchanged /\ UNCHANGED <<journal, staged, proc, at, aim>>
    BY <1>7 DEF vars, NamesUnchanged, files, private, userVars
  <2>2. Quiet
    BY <2>1, StagesRest, RestIsQuiet DEF MigrationInv
  <2> QED  BY <1>7, <2>2, QuietKeeps
<1> QED  BY <1>1, <1>2, <1>3, <1>4, <1>5, <1>6, <1>7 DEF Next, Works, PeopleWork

\* What the transaction may rely on about names, copies and its journal, at every step.
THEOREM MigrationInvariance == Spec => []MigrationInv
<1>1. Init => MigrationInv
  BY MigrationInit
<1>2. MigrationInv /\ [Next]_vars => MigrationInv'
  BY MigrationStep
<1> QED  BY <1>1, <1>2, PTL DEF Spec

\* A migration never drops the last name of anything but an unedited copy it made to
\* publish: not of a file that was there, of one that people made or edited, nor of one
\* it restored (remove_claim and the renames of migration_filesystem.rs).
THEOREM NamesAlwaysStay == Spec => [][NamesStay]_vars
<1>1. MigrationInv /\ [Next]_vars => [NamesStay]_vars
  BY MigrationStep
<1> QED  BY <1>1, MigrationInvariance, PTL DEF Spec

LEMMA NamesAreFinite ==
  \A id : IsFiniteSet(PathNames(id)) /\ IsFiniteSet(ClaimNames(id))
<1>1. IsFiniteSet(Steps)
  BY FS_Interval, MigrationAssumption DEF Steps
<1>2. IsFiniteSet(ClaimKinds)
  <2>1. IsFiniteSet({"publish", "source"}) /\ IsFiniteSet({"rollback", "restore"})
    <3>1. /\ IsFiniteSet({"publish"}) /\ IsFiniteSet({"rollback"})
          /\ {"publish"} \cup {"source"} = {"publish", "source"}
          /\ {"rollback"} \cup {"restore"} = {"rollback", "restore"}
      BY FS_Singleton
    <3> QED  BY <3>1, FS_AddElement
  <2>2. ClaimKinds = {"publish", "source"} \cup {"rollback", "restore"}
    BY DEF ClaimKinds
  <2> QED  BY <2>1, <2>2, FS_Union
<1>3. IsFiniteSet(Claims)
  BY <1>1, <1>2, FS_Product DEF Claims
<1>4. ASSUME NEW id PROVE IsFiniteSet(PathNames(id)) /\ IsFiniteSet(ClaimNames(id))
  BY <1>3, MigrationAssumption, FS_Subset DEF PathNames, ClaimNames
<1> QED  BY <1>4

LEMMA LinksCountNames ==
  ASSUME NEW id, Named(id)
  PROVE  Links(id) > 0
<1>1. /\ Cardinality(PathNames(id)) \in Nat /\ Cardinality(ClaimNames(id)) \in Nat
      /\ PathNames(id) # {} => Cardinality(PathNames(id)) # 0
      /\ ClaimNames(id) # {} => Cardinality(ClaimNames(id)) # 0
  BY NamesAreFinite, FS_CardinalityType, FS_EmptySet
<1>2. Links(id) = Cardinality(PathNames(id)) + Cardinality(ClaimNames(id))
  BY DEF Links, PathNames, ClaimNames
<1> QED  BY <1>1, <1>2 DEF Named

\* What NoByteLost says, of names instead of their number.
BytesNamed ==
  \A id \in Inodes :
    (id \in edited \/ id \in {Original(p) : p \in Initial}) /\ id \notin discarded \cup carried
    => Named(id)

\* Bytes that are a person's, by origin or by an edit, have a name until a person
\* removes them, however the migration is interrupted and undone.
THEOREM NoByteIsLost == Spec => []NoByteLost
<1>1. Init => BytesNamed
  <2>1. ASSUME Init, NEW p \in Initial PROVE Named(Original(p))
    <3>1. p \in Paths /\ tree[p] = Original(p)
      BY <2>1, MigrationAssumption DEF Init
    <3> QED  BY <3>1 DEF Named, PathNames
  <2> QED  BY <2>1 DEF BytesNamed, Init
<1>2. BytesNamed /\ [NamesStay]_vars => BytesNamed'
  <2> SUFFICES ASSUME BytesNamed, [NamesStay]_vars PROVE BytesNamed'
    OBVIOUS
  <2>1. CASE UNCHANGED vars
    BY <2>1 DEF BytesNamed, Named, PathNames, ClaimNames, vars, files, private, userVars,
                Inodes, Steps, Claims, Original
  <2>2. CASE NamesStay
    <3> SUFFICES ASSUME NEW id \in Inodes,
                        id \in edited' \/ id \in {Original(p) : p \in Initial},
                        id \notin discarded' \cup carried'
                 PROVE  Named(id)'
      BY DEF BytesNamed, Inodes, Original, Steps
    <3>1. CASE id \in edited' \ edited
      BY <2>2, <3>1 DEF NamesStay
    <3>2. CASE id \in edited \/ id \in {Original(p) : p \in Initial}
      <4>1. Named(id)
        BY <2>2, <3>2 DEF BytesNamed, NamesStay
      <4>2. id \in {Original(p) : p \in Initial} => \A i \in Steps : id # Image(i)
        BY InodesDiffer
      <4> QED  BY <2>2, <4>1, <4>2 DEF NamesStay
    <3> QED  BY <3>1, <3>2
  <2> QED  BY <2>1, <2>2
<1>3. BytesNamed => NoByteLost
  BY LinksCountNames DEF BytesNamed, NoByteLost
<1> QED  BY <1>1, <1>2, <1>3, NamesAlwaysStay, PTL DEF Spec

-----------------------------------------------------------------------------
(* What a migration leaves behind: the inductive invariant.                *)

\* A path that is as it was before, as its step publishes it, or given back.
AsBefore(p) ==
  IF p \in Initial THEN tree[p] = Original(p) /\ Original(p) \notin edited ELSE ~ Present(p)
AsPublished(i, p) == tree[p] = IF p = Target(i) THEN Publishes(i) ELSE None
AsRestored(i, p) ==
  IF p = Taken(i) /\ Kind(i) \in {"replace", "move"}
  THEN tree[p] = Restore(i) /\ Restore(i) \notin edited ELSE ~ Present(p)
\* The inode a move takes is not seen at its target.
Apart(i) == Kind(i) = "move" => tree[Target(i)] # Before(i)

\* Where a generation has a step: not begun, in flight without a receipt, or done.
Ahead(g, i) == i > Receipts(g) /\ i \notin {g.inflight, g.aborted}
Starting(g, i) == g.inflight = i /\ ~ HasReceipt(g, i)
Done(g, i) ==
  HasReceipt(g, i) /\ ~ Inverted(g, i) /\ ~ (g.dir = "rollback" /\ g.inflight = i)

\* The cursor, the receipts and the two steps a generation names fit together.
Tally(g) ==
  /\ g.applied \in Seq(Ids)
  /\ g.dir = "apply" =>
       g.cursor = Receipts(g) /\ g.aborted = None /\ g.inflight \in {None, g.cursor + 1}
  /\ g.dir = "rollback" =>
       /\ g.cursor <= Receipts(g) /\ g.inflight \in {None, g.cursor, Receipts(g) + 1}
       /\ g.inflight = Receipts(g) + 1 => g.aborted = None /\ g.cursor = Receipts(g)
  /\ g.aborted \in {None, Receipts(g) + 1} /\ g.aborted \in {None} \cup 1 .. Count
  /\ g.phase = "absent" => g.cursor = 0 /\ g.inflight = None
  /\ g.phase = "applied" => g.dir = "apply" /\ g.cursor = Count /\ g.inflight = None
  /\ g.phase = "rolled_back" => g.dir = "rollback" /\ g.cursor = 0 /\ g.inflight = None

\* The private receipts say what the generation says, or are one step ahead of it.
Recorded(g, i) ==
  /\ receipt["rollback"][i] # None =>
       g.dir = "rollback" /\ HasReceipt(g, i) /\ (Inverted(g, i) \/ g.inflight = i)
  /\ Inverted(g, i) => receipt["rollback"][i] # None
  /\ receipt["abort"][i] # None =>
       g.dir = "rollback" /\ i = Receipts(g) + 1 /\ i \in {g.inflight, g.aborted}
  /\ g.aborted = i => receipt["abort"][i] # None
RecordInv ==
  /\ DOMAIN receipt = {"apply", "rollback", "abort"}
  /\ \A d \in DOMAIN receipt : DOMAIN receipt[d] = Steps
  /\ \A i \in 1 .. Count : receipt["apply"][i] \in {None, Publishes(i)} /\ Recorded(journal, i)

\* The program fits the folder it was prepared for.
FitsInv ==
  /\ touched \subseteq Paths
  /\ ~ Begun => proc = "idle" /\ touched = {}
  /\ Begun =>
       \A i \in 1 .. Count :
         /\ Kind(i) \in {"replace", "move"} => Taken(i) \in Initial
         /\ Kind(i) # "replace" => Target(i) \notin Initial

\* A path nobody touched is what its step's place in the journal says it is.
SettledAt(g, i, p) ==
  /\ Ahead(g, i) \/ receipt["abort"][i] # None => AsBefore(p)
  /\ Done(g, i) => AsPublished(i, p)
  /\ receipt["rollback"][i] # None => AsRestored(i, p)
SettledInv ==
  /\ \A p \in Paths : Untouched(p) =>
       /\ (\A i \in 1 .. Count : p \notin StepPaths(i)) => AsBefore(p)
       /\ \A i \in 1 .. Count : p \in StepPaths(i) => SettledAt(journal, i, p)
  /\ \A i \in 1 .. Count : Ahead(journal, i) \/ receipt["abort"][i] # None => Apart(i)

\* What the step in flight may have published, and what it still holds.
Flying(g, i) ==
  /\ Untouched(Target(i)) /\ Kind(i) # "replace" => tree[Target(i)] \in {None, Publishes(i)}
  /\ Untouched(Target(i)) /\ Kind(i) = "mkdir" /\ Present(Target(i)) =>
       g.dir = "apply" /\ receipt["apply"][i] # None /\ ~ Holds(i, "publish")
  /\ Kind(i) = "create" /\ tree[Target(i)] = Image(i) => Holds(i, "publish")
FlightInv == \A i \in 1 .. Count : Starting(journal, i) => Flying(journal, i)

\* What the running command knows of the step in flight from its own last call.
Knows(g, i) ==
  /\ at \in {"published", "receipted"} /\ g.dir = "apply" =>
       \A p \in StepPaths(i) : Untouched(p) => AsPublished(i, p)
  /\ at = "published" /\ g.dir = "rollback" /\ Kind(i) = "move" =>
       (Untouched(Target(i)) => ~ Present(Target(i)))
  /\ at = "receipted" /\ g.dir = "rollback" /\ HasReceipt(g, i) => receipt["rollback"][i] # None
  /\ at = "claimed" /\ g.dir = "apply" /\ Kind(i) = "move" =>
       (Untouched(Source(i)) => ~ Present(Source(i)))
Takes(g, i) ==
  /\ aim.path \in StepPaths(i) /\ g.inflight = i
  /\ g.dir = "apply" => aim.path = Taken(i)
  /\ receipt["rollback"][i] = None /\ receipt["abort"][i] = None
  /\ Children(aim.path) \subseteq touched
WorkInv ==
  /\ proc = "idle" => at = "top"
  /\ \A i \in 1 .. Count : journal.inflight = i => Knows(journal, i)
  /\ at = "checked" => \E i \in 1 .. Count : Takes(journal, i)

RestorePlace == \A i \in 1 .. Count, q \in Paths : tree[q] = Restore(i) => q = Taken(i)

EndsInv ==
  Tally(journal) /\ RecordInv /\ FitsInv /\ SettledInv /\ FlightInv /\ WorkInv /\ RestorePlace

-----------------------------------------------------------------------------
(* The generations.                                                        *)

\* Where the steps are when only what a generation says of its work goes on.
SameTurn(g, h) ==
  h.dir = g.dir /\ h.cursor = g.cursor /\ h.inflight = g.inflight
  /\ h.applied = g.applied /\ h.aborted = g.aborted

LEMMA TallyTypes ==
  ASSUME NEW g, Generation(g), Tally(g), Count \in Nat
  PROVE  /\ Receipts(g) \in Nat /\ g.cursor \in Nat /\ None \notin Nat
         /\ g.dir \in {"apply", "rollback"} /\ g.inflight \in {None} \cup 1 .. Count
         /\ \A i \in 1 .. Count : i \in Nat /\ i > 0 /\ (HasReceipt(g, i) <=> i <= Receipts(g))
BY InodesDiffer DEF Generation, Tally, Receipts, HasReceipt

LEMMA SameTurnTallies ==
  ASSUME NEW g, NEW h, Tally(g), SameTurn(g, h), h.phase \in {g.phase, "conflicted"}
  PROVE  /\ Tally(h) /\ Receipts(h) = Receipts(g)
         /\ \A i : /\ Ahead(h, i) <=> Ahead(g, i)
                   /\ Starting(h, i) <=> Starting(g, i)
                   /\ Done(h, i) <=> Done(g, i)
                   /\ Inverted(h, i) <=> Inverted(g, i)
                   /\ HasReceipt(h, i) <=> HasReceipt(g, i)
                   /\ Recorded(g, i) => Recorded(h, i)
<1>1. Receipts(h) = Receipts(g)
  BY DEF SameTurn, Receipts
<1>2. Tally(h)
  BY <1>1 DEF Tally, SameTurn
<1>3. \A i : /\ HasReceipt(h, i) <=> HasReceipt(g, i)
             /\ Inverted(h, i) <=> Inverted(g, i)
  BY <1>1 DEF HasReceipt, Inverted, SameTurn
<1>4. \A i : /\ Ahead(h, i) <=> Ahead(g, i)
             /\ Starting(h, i) <=> Starting(g, i)
             /\ Done(h, i) <=> Done(g, i)
             /\ Recorded(g, i) => Recorded(h, i)
  BY <1>1, <1>3 DEF Ahead, Starting, Done, Recorded, SameTurn
<1> QED  BY <1>1, <1>2, <1>3, <1>4

LEMMA IntentTallies ==
  ASSUME NEW g, NEW h, Generation(g), Tally(g), Count \in Nat,
         g.dir = "apply", CanIntend(g), h = NextApplyIntent(g)
  PROVE  /\ Tally(h) /\ h.dir = "apply"
         /\ \A i \in 1 .. Count :
              /\ Ahead(h, i) => Ahead(g, i)
              /\ Done(h, i) => Done(g, i)
              /\ Starting(h, i) => Ahead(g, i)
              /\ Recorded(g, i) => Recorded(h, i)
<1>1. /\ h.dir = "apply" /\ h.cursor = g.cursor /\ h.applied = g.applied
      /\ h.aborted = g.aborted /\ h.inflight = g.cursor + 1 /\ h.phase = "applying"
      /\ g.inflight = None /\ g.cursor < Count
  BY DEF NextApplyIntent, CanIntend, Generation, GenerationFields
<1>2. /\ Receipts(h) = Receipts(g) /\ g.cursor = Receipts(g) /\ Receipts(g) \in Nat
      /\ g.aborted = None
  BY <1>1, TallyTypes DEF Receipts, Tally
<1>3. Tally(h)
  BY <1>1, <1>2 DEF Tally
<1>4. ASSUME NEW i \in 1 .. Count
      PROVE  /\ Ahead(h, i) => Ahead(g, i)
             /\ Done(h, i) => Done(g, i)
             /\ Starting(h, i) => Ahead(g, i)
  BY <1>1, <1>2, InodesDiffer DEF Ahead, Done, Starting, HasReceipt, Inverted
<1>5. ASSUME NEW i \in 1 .. Count, Recorded(g, i)
      PROVE  Recorded(h, i)
  BY <1>1, <1>2, <1>5, InodesDiffer DEF Recorded, HasReceipt, Inverted
<1> QED  BY <1>1, <1>3, <1>4, <1>5

LEMMA ReceiptTallies ==
  ASSUME NEW g, NEW h, NEW id \in Ids, Generation(g), Tally(g), Count \in Nat,
         g.dir = "apply", g.inflight # None, h = NextApplyReceipt(g, id)
  PROVE  /\ Tally(h) /\ h.dir = "apply"
         /\ \A i \in 1 .. Count :
              /\ Ahead(h, i) => Ahead(g, i)
              /\ Done(h, i) => Done(g, i) \/ i = g.inflight
              /\ ~ Starting(h, i)
              /\ Recorded(g, i) => Recorded(h, i)
<1>1. /\ h.dir = "apply" /\ h.cursor = g.inflight /\ h.applied = Append(g.applied, id)
      /\ h.aborted = g.aborted /\ h.inflight = None /\ h.phase = "applying"
  BY DEF NextApplyReceipt, Generation, GenerationFields
<1>2. /\ g.cursor = Receipts(g) /\ Receipts(g) \in Nat /\ g.aborted = None
      /\ g.inflight = g.cursor + 1 /\ g.inflight \in 1 .. Count
      /\ g.applied \in Seq(Ids)
  BY TallyTypes DEF Tally
<1>3. Receipts(h) = Receipts(g) + 1 /\ h.applied \in Seq(Ids)
  BY <1>1, <1>2 DEF Receipts
<1>4. Tally(h)
  BY <1>1, <1>2, <1>3 DEF Tally
<1>5. ASSUME NEW i \in 1 .. Count
      PROVE  /\ Ahead(h, i) => Ahead(g, i)
             /\ Done(h, i) => Done(g, i) \/ i = g.inflight
             /\ ~ Starting(h, i)
  BY <1>1, <1>2, <1>3, InodesDiffer DEF Ahead, Done, Starting, HasReceipt, Inverted
<1>6. ASSUME NEW i \in 1 .. Count, Recorded(g, i)
      PROVE  Recorded(h, i)
  BY <1>1, <1>2, <1>3, <1>6, InodesDiffer DEF Recorded, HasReceipt, Inverted
<1> QED  BY <1>1, <1>4, <1>5, <1>6

LEMMA FinishTallies ==
  ASSUME NEW g, NEW h, Generation(g), Tally(g), Count \in Nat,
         g.dir = "apply", CanFinish(g), h = NextApplied(g)
  PROVE  SameTurn(g, h) /\ Tally(h)
<1>1. SameTurn(g, h) /\ h.phase = "applied"
  BY DEF NextApplied, Generation, GenerationFields, SameTurn
<1>2. Receipts(h) = Receipts(g)
  BY <1>1 DEF SameTurn, Receipts
<1> QED  BY <1>1, <1>2 DEF Tally, SameTurn, CanFinish

LEMMA RequestTallies ==
  ASSUME NEW g, NEW h, Generation(g), Tally(g), Count \in Nat,
         CanRequestRollback(g), h = NextRollbackRequested(g)
  PROVE  /\ Tally(h) /\ h.dir = "rollback" /\ g.dir = "apply"
         /\ \A i \in 1 .. Count :
              /\ Ahead(h, i) => Ahead(g, i)
              /\ Done(h, i) => Done(g, i)
              /\ Starting(h, i) => Starting(g, i)
              /\ Recorded(g, i) => Recorded(h, i)
<1>1. /\ h.dir = "rollback" /\ h.cursor = g.cursor /\ h.applied = g.applied /\ g.dir = "apply"
      /\ h.aborted = g.aborted /\ h.inflight = g.inflight /\ h.phase = "rollback_requested"
  BY DEF NextRollbackRequested, CanRequestRollback, Generation, GenerationFields
<1>2. /\ Receipts(h) = Receipts(g) /\ g.cursor = Receipts(g) /\ Receipts(g) \in Nat
      /\ g.aborted = None /\ g.inflight \in {None, g.cursor + 1}
  BY <1>1, TallyTypes DEF Receipts, Tally
<1>3. Tally(h)
  BY <1>1, <1>2 DEF Tally
<1>4. ASSUME NEW i \in 1 .. Count
      PROVE  /\ Ahead(h, i) => Ahead(g, i)
             /\ Done(h, i) => Done(g, i)
             /\ Starting(h, i) => Starting(g, i)
  BY <1>1, <1>2, InodesDiffer DEF Ahead, Done, Starting, HasReceipt, Inverted
<1>5. ASSUME NEW i \in 1 .. Count, Recorded(g, i)
      PROVE  Recorded(h, i)
  BY <1>1, <1>2, <1>5, InodesDiffer DEF Recorded, HasReceipt, Inverted
<1> QED  BY <1>1, <1>3, <1>4, <1>5

LEMMA AbortTallies ==
  ASSUME NEW g, NEW h, Generation(g), Tally(g), Count \in Nat,
         CanAbort(g), h = NextAbortedApply(g), receipt["abort"][g.inflight] # None
  PROVE  /\ Tally(h) /\ h.dir = "rollback"
         /\ \A i \in 1 .. Count :
              /\ Ahead(h, i) => Ahead(g, i)
              /\ Done(h, i) => Done(g, i)
              /\ ~ Starting(h, i)
              /\ Recorded(g, i) => Recorded(h, i)
<1>1. /\ h.dir = "rollback" /\ h.cursor = g.cursor /\ h.applied = g.applied /\ g.dir = "rollback"
      /\ h.aborted = g.inflight /\ h.inflight = None /\ h.phase = "rollback_requested"
      /\ g.inflight = g.cursor + 1 /\ ~ HasReceipt(g, g.inflight) /\ g.aborted = None
  BY DEF NextAbortedApply, CanAbort, Generation, GenerationFields
<1>2. /\ Receipts(h) = Receipts(g) /\ Receipts(g) \in Nat /\ g.cursor \in Nat
      /\ g.cursor <= Receipts(g) /\ g.inflight \in {None, g.cursor, Receipts(g) + 1}
      /\ g.inflight \in {None} \cup 1 .. Count /\ None \notin Nat
  BY <1>1, TallyTypes DEF Receipts, Tally
<1>3. g.inflight = Receipts(g) + 1 /\ g.inflight \in 1 .. Count /\ g.cursor = Receipts(g)
  BY <1>1, <1>2
<1>4. Tally(h)
  BY <1>1, <1>2, <1>3 DEF Tally
<1>5. ASSUME NEW i \in 1 .. Count
      PROVE  /\ Ahead(h, i) => Ahead(g, i)
             /\ Done(h, i) => Done(g, i)
             /\ ~ Starting(h, i)
  BY <1>1, <1>2, <1>3 DEF Ahead, Done, Starting, HasReceipt, Inverted
<1>6. ASSUME NEW i \in 1 .. Count, Recorded(g, i)
      PROVE  Recorded(h, i)
  BY <1>1, <1>2, <1>3, <1>6 DEF Recorded, HasReceipt, Inverted
<1> QED  BY <1>1, <1>4, <1>5, <1>6

LEMMA UndoTallies ==
  ASSUME NEW g, NEW h, Generation(g), Tally(g), Count \in Nat,
         CanIntendRollback(g), h = NextRollbackIntent(g)
  PROVE  /\ Tally(h) /\ h.dir = "rollback"
         /\ \A i \in 1 .. Count :
              /\ Ahead(h, i) => Ahead(g, i)
              /\ Done(h, i) => Done(g, i)
              /\ ~ Starting(h, i)
              /\ Recorded(g, i) => Recorded(h, i)
<1>1. /\ h.dir = "rollback" /\ h.cursor = g.cursor /\ h.applied = g.applied /\ g.dir = "rollback"
      /\ h.aborted = g.aborted /\ h.inflight = g.cursor /\ h.phase = "rolling_back"
      /\ g.inflight = None /\ g.cursor > 0
  BY DEF NextRollbackIntent, CanIntendRollback, Generation, GenerationFields
<1>2. /\ Receipts(h) = Receipts(g) /\ Receipts(g) \in Nat /\ g.cursor \in Nat
      /\ g.cursor <= Receipts(g) /\ None \notin Nat
      /\ g.aborted \in {None, Receipts(g) + 1}
  BY <1>1, TallyTypes DEF Receipts, Tally
<1>3. Tally(h)
  BY <1>1, <1>2 DEF Tally
<1>4. ASSUME NEW i \in 1 .. Count
      PROVE  /\ Ahead(h, i) => Ahead(g, i)
             /\ Done(h, i) => Done(g, i)
             /\ ~ Starting(h, i)
  BY <1>1, <1>2 DEF Ahead, Done, Starting, HasReceipt, Inverted
<1>5. ASSUME NEW i \in 1 .. Count, Recorded(g, i)
      PROVE  Recorded(h, i)
  BY <1>1, <1>2, <1>5 DEF Recorded, HasReceipt, Inverted
<1> QED  BY <1>1, <1>3, <1>4, <1>5

LEMMA InverseTallies ==
  ASSUME NEW g, NEW h, NEW id, Generation(g), Tally(g), Count \in Nat, g.dir = "rollback",
         g.inflight \in 1 .. Count, HasReceipt(g, g.inflight),
         receipt["rollback"][g.inflight] # None, h = NextRollbackReceipt(g, id)
  PROVE  /\ Tally(h) /\ h.dir = "rollback"
         /\ \A i \in 1 .. Count :
              /\ Ahead(h, i) => Ahead(g, i)
              /\ Done(h, i) => Done(g, i)
              /\ ~ Starting(h, i)
              /\ Recorded(g, i) => Recorded(h, i)
<1>1. /\ h.dir = "rollback" /\ h.cursor = g.inflight - 1 /\ h.applied = g.applied
      /\ h.aborted = g.aborted /\ h.inflight = None /\ h.phase = "rolling_back"
  BY DEF NextRollbackReceipt, Generation, GenerationFields
<1>2. /\ Receipts(h) = Receipts(g) /\ Receipts(g) \in Nat /\ g.cursor \in Nat
      /\ g.cursor <= Receipts(g) /\ None \notin Nat
      /\ g.inflight \in {None, g.cursor, Receipts(g) + 1} /\ g.inflight <= Receipts(g)
      /\ g.aborted \in {None, Receipts(g) + 1}
  BY <1>1, TallyTypes DEF Receipts, Tally
<1>3. g.inflight = g.cursor
  BY <1>2
<1>4. Tally(h)
  BY <1>1, <1>2, <1>3 DEF Tally
<1>5. ASSUME NEW i \in 1 .. Count
      PROVE  /\ Ahead(h, i) => Ahead(g, i)
             /\ Done(h, i) => Done(g, i)
             /\ ~ Starting(h, i)
  BY <1>1, <1>2, <1>3 DEF Ahead, Done, Starting, HasReceipt, Inverted
<1>6. ASSUME NEW i \in 1 .. Count, Recorded(g, i)
      PROVE  Recorded(h, i)
  BY <1>1, <1>2, <1>3, <1>6 DEF Recorded, HasReceipt, Inverted
<1> QED  BY <1>1, <1>4, <1>5, <1>6

LEMMA EndTallies ==
  ASSUME NEW g, NEW h, Generation(g), Tally(g), Count \in Nat,
         CanFinishRollback(g), h = NextRolledBack(g)
  PROVE  SameTurn(g, h) /\ Tally(h)
<1>1. SameTurn(g, h) /\ h.phase = "rolled_back"
  BY DEF NextRolledBack, Generation, GenerationFields, SameTurn
<1>2. Receipts(h) = Receipts(g)
  BY <1>1 DEF SameTurn, Receipts
<1> QED  BY <1>1, <1>2 DEF Tally, SameTurn, CanFinishRollback

-----------------------------------------------------------------------------
(* What the invariant says of a step, by what the step changes.            *)

SameFiles == UNCHANGED <<program, tree, edited, touched>>

LEMMA EndsTypes ==
  ASSUME MigrationInv, EndsInv
  PROVE  /\ program \in Programs /\ Count \in Nat /\ 1 .. Count \subseteq Steps
         /\ Generation(journal) /\ Tally(journal)
         /\ tree \in [Paths -> Ids] /\ claims \in [Claims -> Ids]
         /\ \A i \in 1 .. Count : i \in Nat /\ i > 0 /\ i # None
<1>1. program \in Programs /\ Generation(journal) /\ Tally(journal)
  BY DEF MigrationInv, JournalInv, EndsInv
<1>2. Count \in Nat /\ 1 .. Count \subseteq Steps
  BY <1>1, ProgramShape
<1> QED  BY <1>1, <1>2, InodesDiffer DEF MigrationInv, FilesInv

\* The parts of the invariant about files, for files that stay.
LEMMA FilesStayAs ==
  ASSUME SameFiles
  PROVE  /\ Count' = Count
         /\ \A p : AsBefore(p)' <=> AsBefore(p)
         /\ \A p : Untouched(p)' <=> Untouched(p)
         /\ \A i, p : AsPublished(i, p)' <=> AsPublished(i, p)
         /\ \A i, p : AsRestored(i, p)' <=> AsRestored(i, p)
         /\ \A i : Apart(i)' <=> Apart(i)
         /\ \A i : /\ Kind(i)' = Kind(i) /\ Target(i)' = Target(i) /\ Source(i)' = Source(i)
                   /\ Taken(i)' = Taken(i) /\ StepPaths(i)' = StepPaths(i)
                   /\ Publishes(i)' = Publishes(i)
         /\ \A p : Children(p)' = Children(p)
         /\ \A p : Present(p)' <=> Present(p)
<1>1. \A i : /\ Kind(i)' = Kind(i) /\ Target(i)' = Target(i) /\ Source(i)' = Source(i)
  BY DEF SameFiles, Kind, Target, Source
<1>2. \A i : /\ Taken(i)' = Taken(i) /\ StepPaths(i)' = StepPaths(i)
             /\ Before(i)' = Before(i)
  BY <1>1 DEF Taken, StepPaths, Before, Original
<1>3. \A i : Publishes(i)' = Publishes(i)
  BY <1>1, <1>2 DEF Publishes, Image
<1>4. \A p : Present(p)' <=> Present(p)
  BY DEF SameFiles, Present
<1>5. \A p : Children(p)' = Children(p)
  BY <1>4 DEF Children
<1>6. \A p : AsBefore(p)' <=> AsBefore(p)
  BY <1>4 DEF SameFiles, AsBefore, Original
<1>7. \A p : Untouched(p)' <=> Untouched(p)
  BY DEF SameFiles, Untouched
<1>8. \A i, p : AsPublished(i, p)' <=> AsPublished(i, p)
  BY <1>1, <1>3 DEF SameFiles, AsPublished
<1>9. \A i, p : AsRestored(i, p)' <=> AsRestored(i, p)
  BY <1>1, <1>2, <1>4 DEF SameFiles, AsRestored, Restore
<1>10. \A i : Apart(i)' <=> Apart(i)
  BY <1>1, <1>2 DEF SameFiles, Apart
<1>11. Count' = Count
  BY DEF SameFiles, Count
<1> QED  BY <1>1, <1>2, <1>3, <1>4, <1>5, <1>6, <1>7, <1>8, <1>9, <1>10, <1>11

\* The generation goes on; files, claims and receipts stay.
LEMMA TurnEnds ==
  ASSUME MigrationInv, EndsInv, SameFiles, UNCHANGED <<receipt, claims>>,
         NEW h, journal' = h, Tally(h), Begun, h.phase # "absent",
         \A i \in 1 .. Count :
           /\ Ahead(h, i) => Ahead(journal, i)
           /\ Done(h, i) => \/ Done(journal, i)
                            \/ \A p \in StepPaths(i) : Untouched(p) => AsPublished(i, p)
           /\ Starting(h, i) => Flying(h, i)
           /\ Recorded(h, i),
         \/ at' = "top"
         \/ at' = "staged"
         \/ UNCHANGED <<at, aim>> /\ SameTurn(journal, h),
         proc' = "idle" => at' = "top"
  PROVE  EndsInv'
<1>1. /\ Count' = Count /\ program \in Programs
      /\ \A i \in 1 .. Count : Kind(i)' = Kind(i) /\ StepPaths(i)' = StepPaths(i)
  BY EndsTypes, FilesStayAs
<1>2. Tally(journal)'
  BY <1>1 DEF Tally, Receipts, Ids, Inodes, Steps, Original, Image, Restore, Users
<1>3. RecordInv'
  <2>1. ASSUME NEW i \in 1 .. Count PROVE Recorded(journal, i)'
    BY DEF Recorded, HasReceipt, Inverted, Receipts
  <2>2. ASSUME NEW i \in 1 .. Count PROVE receipt'["apply"][i] \in {None, Publishes(i)'}
    BY FilesStayAs DEF EndsInv, RecordInv
  <2> QED  BY <1>1, <2>1, <2>2 DEF EndsInv, RecordInv, Steps
<1>4. FitsInv'
  BY <1>1, FilesStayAs DEF EndsInv, FitsInv, Begun, SameFiles
<1>5. \A i : /\ Ahead(journal, i)' <=> Ahead(h, i)
             /\ Done(journal, i)' <=> Done(h, i)
             /\ Starting(journal, i)' <=> Starting(h, i)
  BY DEF Ahead, Done, Starting, HasReceipt, Inverted, Receipts
<1>6. SettledInv'
  <2>1. ASSUME NEW p \in Paths, Untouched(p)', \A i \in 1 .. Count : p \notin StepPaths(i)
        PROVE  AsBefore(p)'
    BY <2>1, FilesStayAs DEF EndsInv, SettledInv
  <2>2. ASSUME NEW p \in Paths, Untouched(p)', NEW i \in 1 .. Count, p \in StepPaths(i)
        PROVE  SettledAt(journal, i, p)'
    <3>1. Untouched(p) /\ SettledAt(journal, i, p)
      BY <2>2, FilesStayAs DEF EndsInv, SettledInv
    <3>2. Ahead(h, i) \/ receipt["abort"][i] # None => AsBefore(p)
      BY <3>1 DEF SettledAt
    <3>3. Done(h, i) => AsPublished(i, p)
      BY <2>2, <3>1 DEF SettledAt
    <3>4. receipt["rollback"][i] # None => AsRestored(i, p)
      BY <3>1 DEF SettledAt
    <3> QED  BY <1>5, <3>2, <3>3, <3>4, FilesStayAs DEF SettledAt
  <2>3. ASSUME NEW i \in 1 .. Count, Ahead(h, i) \/ receipt["abort"][i] # None PROVE Apart(i)'
    BY <2>3, FilesStayAs DEF EndsInv, SettledInv
  <2> QED  BY <1>1, <1>5, <2>1, <2>2, <2>3 DEF SettledInv
<1>7. FlightInv'
  <2>1. ASSUME NEW i \in 1 .. Count, Flying(h, i) PROVE Flying(journal, i)'
    BY <2>1, FilesStayAs DEF Flying, SameFiles, Holds, Claim, Image
  <2> QED  BY <1>1, <1>5, <2>1 DEF FlightInv
<1>8. WorkInv'
  <2>1. CASE at' \in {"top", "staged"}
    BY <2>1 DEF WorkInv, Knows
  <2>2. CASE UNCHANGED <<at, aim>> /\ SameTurn(journal, h)
    <3>1. Receipts(h) = Receipts(journal)
      BY <2>2 DEF SameTurn, Receipts
    <3>2. ASSUME NEW i \in 1 .. Count, journal'.inflight = i PROVE Knows(journal, i)'
      <4>1. Knows(journal, i)
        BY <2>2, <3>2 DEF EndsInv, WorkInv, SameTurn
      <4>2. /\ \A p \in StepPaths(i) : Untouched(p) => (AsPublished(i, p)' <=> AsPublished(i, p))
            /\ HasReceipt(journal, i)' <=> HasReceipt(journal, i)
        BY <3>1, FilesStayAs DEF HasReceipt, Receipts
      <4> QED  BY <2>2, <4>1, <4>2, FilesStayAs DEF Knows, SameTurn
    <3>3. ASSUME NEW i \in 1 .. Count, Takes(journal, i) PROVE Takes(journal, i)'
      BY <2>2, <3>3, FilesStayAs DEF Takes, SameTurn, SameFiles
    <3> QED  BY <1>1, <2>2, <3>2, <3>3 DEF EndsInv, WorkInv
  <2> QED  BY <2>1, <2>2
<1>9. RestorePlace'
  BY <1>1, FilesStayAs DEF EndsInv, RestorePlace, SameFiles, Restore
<1> QED  BY <1>2, <1>3, <1>4, <1>6, <1>7, <1>8, <1>9 DEF EndsInv

\* Nothing but the loop around the steps goes on.
LEMMA SteadyEnds ==
  ASSUME MigrationInv, EndsInv, SameFiles, UNCHANGED <<receipt, claims>>, Begun,
         SameTurn(journal, journal'), journal'.phase \in {journal.phase, "conflicted"},
         at' = "top" \/ at' = "staged" \/ UNCHANGED <<at, aim>>,
         proc' = "idle" => at' = "top"
  PROVE  EndsInv'
<1> PICK h : h = journal'
  OBVIOUS
<1>1. Tally(journal) /\ h.phase # "absent"
  BY DEF EndsInv, Begun
<1>2. /\ Tally(h)
      /\ \A i \in 1 .. Count :
           /\ Ahead(h, i) <=> Ahead(journal, i)
           /\ Starting(h, i) <=> Starting(journal, i)
           /\ Done(h, i) <=> Done(journal, i)
           /\ Recorded(h, i)
  BY <1>1, SameTurnTallies DEF EndsInv, RecordInv
<1>3. ASSUME NEW i \in 1 .. Count, Starting(h, i) PROVE Flying(h, i)
  BY <1>2, <1>3 DEF EndsInv, FlightInv, Flying, SameTurn
<1> QED  BY <1>1, <1>2, <1>3, TurnEnds

\* A private receipt of the step in flight is written.
LEMMA ReceiptEnds ==
  ASSUME MigrationInv, EndsInv, SameFiles, UNCHANGED <<journal, claims, aim, proc>>,
         proc # "idle", NEW d \in {"apply", "rollback", "abort"}, NEW i \in 1 .. Count, NEW r,
         r # None, journal.inflight = i, receipt' = [receipt EXCEPT ![d][i] = r],
         d = "apply" => r = Publishes(i),
         d = "rollback" =>
           /\ journal.dir = "rollback" /\ HasReceipt(journal, i)
           /\ \A p \in StepPaths(i) : Untouched(p) => AsRestored(i, p),
         d = "abort" =>
           /\ journal.dir = "rollback" /\ ~ HasReceipt(journal, i) /\ Apart(i)
           /\ \A p \in StepPaths(i) : Untouched(p) => AsBefore(p),
         \/ at' = at /\ at \in {"top", "claimed"} /\ d = "apply"
         \/ /\ at' = "receipted"
            /\ journal.dir = "apply" => at = "published"
            /\ journal.dir = "rollback" /\ HasReceipt(journal, i) => d = "rollback"
  PROVE  EndsInv'
<1>1. /\ Count' = Count /\ program \in Programs /\ 1 .. Count \subseteq Steps
      /\ Generation(journal) /\ Tally(journal) /\ Count \in Nat
      /\ i \in Nat /\ i # None /\ Begun
  BY EndsTypes, FilesStayAs DEF EndsInv, FitsInv
<1>2. /\ DOMAIN receipt = {"apply", "rollback", "abort"}
      /\ \A x \in DOMAIN receipt : DOMAIN receipt[x] = Steps
      /\ \A j \in 1 .. Count :
           receipt["apply"][j] \in {None, Publishes(j)} /\ Recorded(journal, j)
  BY DEF EndsInv, RecordInv
<1>3. /\ DOMAIN receipt' = {"apply", "rollback", "abort"}
      /\ \A x \in DOMAIN receipt' : DOMAIN receipt'[x] = Steps
      /\ \A x \in {"apply", "rollback", "abort"}, j \in 1 .. Count :
           receipt'[x][j] = IF x = d /\ j = i THEN r ELSE receipt[x][j]
  BY <1>1, <1>2
<1>4. journal.dir = "rollback" /\ ~ HasReceipt(journal, i) => i = Receipts(journal) + 1
  BY <1>1, TallyTypes DEF Tally
<1>5. \A j : /\ Ahead(journal, j)' <=> Ahead(journal, j)
             /\ Done(journal, j)' <=> Done(journal, j)
             /\ Starting(journal, j)' <=> Starting(journal, j)
             /\ HasReceipt(journal, j)' <=> HasReceipt(journal, j)
             /\ Inverted(journal, j)' <=> Inverted(journal, j)
  BY DEF Ahead, Done, Starting, HasReceipt, Inverted, Receipts
<1>6. Tally(journal)'
  BY <1>1 DEF Tally, Receipts, Ids, Inodes, Steps, Original, Image, Restore, Users
<1>7. RecordInv'
  <2>1. ASSUME NEW j \in 1 .. Count PROVE receipt'["apply"][j] \in {None, Publishes(j)'}
    BY <1>2, <1>3, FilesStayAs
  <2>2. ASSUME NEW j \in 1 .. Count PROVE Recorded(journal, j)'
    <3>1. CASE j = i
      BY <1>2, <1>3, <1>4, <1>5, <3>1 DEF Recorded, Receipts
    <3>2. CASE j # i
      BY <1>2, <1>3, <1>5, <3>2 DEF Recorded, Receipts
    <3> QED  BY <3>1, <3>2
  <2> QED  BY <1>1, <1>3, <2>1, <2>2 DEF RecordInv, Steps
<1>8. FitsInv'
  BY <1>1, FilesStayAs DEF EndsInv, FitsInv, Begun, SameFiles
<1>9. SettledInv'
  <2>1. ASSUME NEW p \in Paths, Untouched(p)', \A j \in 1 .. Count : p \notin StepPaths(j)
        PROVE  AsBefore(p)'
    BY <2>1, FilesStayAs DEF EndsInv, SettledInv
  <2>2. ASSUME NEW p \in Paths, Untouched(p)', NEW j \in 1 .. Count, p \in StepPaths(j)
        PROVE  SettledAt(journal, j, p)'
    <3>1. Untouched(p) /\ SettledAt(journal, j, p)
      BY <2>2, FilesStayAs DEF EndsInv, SettledInv
    <3>2. Ahead(journal, j) \/ receipt'["abort"][j] # None => AsBefore(p)
      BY <1>3, <2>2, <3>1 DEF SettledAt
    <3>3. receipt'["rollback"][j] # None => AsRestored(j, p)
      BY <1>3, <2>2, <3>1 DEF SettledAt
    <3> QED  BY <1>5, <3>1, <3>2, <3>3, FilesStayAs DEF SettledAt
  <2>3. ASSUME NEW j \in 1 .. Count, Ahead(journal, j) \/ receipt'["abort"][j] # None
        PROVE  Apart(j)'
    BY <1>3, <2>3, FilesStayAs DEF EndsInv, SettledInv
  <2> QED  BY <1>1, <1>5, <2>1, <2>2, <2>3, FilesStayAs DEF SettledInv
<1>10. FlightInv'
  <2>1. ASSUME NEW j \in 1 .. Count, Flying(journal, j) PROVE Flying(journal, j)'
    BY <1>3, <2>1, FilesStayAs DEF Flying, SameFiles, Holds, Claim, Image
  <2> QED  BY <1>1, <1>5, <2>1 DEF EndsInv, FlightInv
<1>11. WorkInv'
  <2>1. Knows(journal, i)
    BY DEF EndsInv, WorkInv
  <2>2. Knows(journal, i)'
    BY <1>3, <1>5, <2>1, FilesStayAs DEF Knows
  <2> QED  BY <1>1, <2>2 DEF WorkInv
<1>12. RestorePlace'
  BY <1>1, FilesStayAs DEF EndsInv, RestorePlace, SameFiles, Restore
<1> QED  BY <1>6, <1>7, <1>8, <1>9, <1>10, <1>11, <1>12 DEF EndsInv

\* Claims change, or a leaf is looked at before it is taken.
LEMMA ClaimEnds ==
  ASSUME MigrationInv, EndsInv, SameFiles, UNCHANGED <<journal, receipt, proc>>,
         proc # "idle", NEW i \in 1 .. Count, journal.inflight = i,
         Starting(journal, i) => Flying(journal, i)',
         \/ at' = at /\ at \in {"top", "claimed"}
         \/ at' = "claimed" /\ (journal.dir = "apply" => Kind(i) # "move")
         \/ at' = "checked" /\ Takes(journal, i)'
  PROVE  EndsInv'
<1>1. /\ Count' = Count /\ program \in Programs /\ Tally(journal) /\ Begun
  BY EndsTypes, FilesStayAs DEF EndsInv, FitsInv
<1>2. \A j : /\ Ahead(journal, j)' <=> Ahead(journal, j)
             /\ Done(journal, j)' <=> Done(journal, j)
             /\ Starting(journal, j)' <=> Starting(journal, j)
             /\ HasReceipt(journal, j)' <=> HasReceipt(journal, j)
             /\ Inverted(journal, j)' <=> Inverted(journal, j)
  BY DEF Ahead, Done, Starting, HasReceipt, Inverted, Receipts
<1>3. Tally(journal)'
  BY <1>1 DEF Tally, Receipts, Ids, Inodes, Steps, Original, Image, Restore, Users
<1>4. RecordInv'
  <2>1. ASSUME NEW j \in 1 .. Count
        PROVE  receipt'["apply"][j] \in {None, Publishes(j)'} /\ Recorded(journal, j)'
    BY <1>2, FilesStayAs DEF EndsInv, RecordInv, Recorded, Receipts
  <2> QED  BY <1>1, <2>1 DEF EndsInv, RecordInv, Steps
<1>5. FitsInv'
  BY <1>1, FilesStayAs DEF EndsInv, FitsInv, Begun, SameFiles
<1>6. SettledInv'
  <2>1. ASSUME NEW p \in Paths, NEW j \in 1 .. Count
        PROVE  SettledAt(journal, j, p)' <=> SettledAt(journal, j, p)
    BY <1>2, FilesStayAs DEF SettledAt
  <2> QED  BY <1>1, <1>2, <2>1, FilesStayAs DEF EndsInv, SettledInv
<1>7. FlightInv'
  BY <1>1, <1>2 DEF FlightInv, Starting
<1>8. WorkInv'
  <2>1. Knows(journal, i)
    BY DEF EndsInv, WorkInv
  <2>2. Knows(journal, i)'
    BY <1>2, <2>1, FilesStayAs DEF Knows
  <2> QED  BY <1>1, <2>2 DEF WorkInv
<1>9. RestorePlace'
  BY <1>1, FilesStayAs DEF EndsInv, RestorePlace, SameFiles, Restore
<1> QED  BY <1>3, <1>4, <1>5, <1>6, <1>7, <1>8, <1>9 DEF EndsInv

\* The step in flight is neither ahead nor done.
LEMMA InFlightIsOpen ==
  ASSUME MigrationInv, EndsInv, NEW i \in 1 .. Count, journal.inflight = i
  PROVE  /\ ~ Ahead(journal, i) /\ ~ Done(journal, i)
         /\ journal.dir = "apply" => Starting(journal, i)
<1>1. /\ Tally(journal) /\ Receipts(journal) \in Nat /\ i \in Nat /\ i # None
      /\ journal.dir \in {"apply", "rollback"}
  BY EndsTypes, TallyTypes
<1> QED  BY <1>1 DEF Ahead, Done, Starting, HasReceipt, Tally

LEMMA ProgramKeeps ==
  ASSUME UNCHANGED program
  PROVE  /\ Count' = Count
         /\ \A i : /\ Kind(i)' = Kind(i) /\ Target(i)' = Target(i) /\ Source(i)' = Source(i)
                   /\ Taken(i)' = Taken(i) /\ StepPaths(i)' = StepPaths(i)
                   /\ Before(i)' = Before(i) /\ Publishes(i)' = Publishes(i)
<1>1. Count' = Count /\ \A i : Kind(i)' = Kind(i) /\ Target(i)' = Target(i) /\ Source(i)' = Source(i)
  BY DEF Count, Kind, Target, Source
<1>2. \A i : Taken(i)' = Taken(i) /\ StepPaths(i)' = StepPaths(i)
  BY <1>1 DEF Taken, StepPaths
<1>3. \A i : Before(i)' = Before(i) /\ Publishes(i)' = Publishes(i)
  BY <1>1, <1>2 DEF Before, Publishes, Original, Image
<1> QED  BY <1>1, <1>2, <1>3

\* Leaves of the step in flight, and of what people work on, may move.
LEMMA MovedSettle ==
  ASSUME MigrationInv, EndsInv, NEW i \in 1 .. Count, journal.inflight = i,
         UNCHANGED <<program, journal, edited, touched, receipt>>,
         receipt["rollback"][i] = None, receipt["abort"][i] = None,
         \A p \in Paths : tree'[p] = tree[p] \/ p \in StepPaths(i) \/ ~ Untouched(p),
         \A j \in 1 .. Count : j # i => tree'[Target(j)] \in {tree[Target(j)], None}
  PROVE  SettledInv'
<1>1. /\ program \in Programs /\ ~ Ahead(journal, i) /\ ~ Done(journal, i)
      /\ \A p : Untouched(p)' <=> Untouched(p)
  BY EndsTypes, InFlightIsOpen DEF Untouched
<1>2. \A j : /\ Ahead(journal, j)' <=> Ahead(journal, j)
             /\ Done(journal, j)' <=> Done(journal, j)
  BY DEF Ahead, Done, HasReceipt, Inverted, Receipts
<1>3. ASSUME NEW p \in Paths, tree'[p] = tree[p]
      PROVE  /\ AsBefore(p) => AsBefore(p)'
             /\ \A j : AsPublished(j, p) => AsPublished(j, p)'
             /\ \A j : AsRestored(j, p) => AsRestored(j, p)'
  BY <1>3, ProgramKeeps DEF AsBefore, AsPublished, AsRestored, Present, Original, Restore
<1>4. ASSUME NEW p \in Paths, Untouched(p)', \A j \in 1 .. Count : p \notin StepPaths(j)
      PROVE  AsBefore(p)'
  BY <1>1, <1>3, <1>4 DEF EndsInv, SettledInv
<1>5. ASSUME NEW p \in Paths, Untouched(p)', NEW j \in 1 .. Count, p \in StepPaths(j)
      PROVE  SettledAt(journal, j, p)'
  <2>1. SettledAt(journal, j, p)
    BY <1>1, <1>5 DEF EndsInv, SettledInv
  <2>2. CASE j = i
    BY <1>1, <1>2, <2>2 DEF SettledAt
  <2>3. CASE j # i
    <3>1. tree'[p] = tree[p]
      BY <1>1, <1>5, <2>3, OneStep
    <3> QED  BY <1>2, <1>3, <2>1, <3>1 DEF SettledAt
  <2> QED  BY <2>2, <2>3
<1>6. ASSUME NEW j \in 1 .. Count, Ahead(journal, j) \/ receipt["abort"][j] # None
      PROVE  Apart(j)'
  <2>1. j # i /\ Apart(j)
    BY <1>1, <1>6 DEF EndsInv, SettledInv
  <2>2. Kind(j) = "move" => Before(j) # None
    BY <1>1, ProgramShape, InodesDiffer DEF Before, Taken
  <2> QED  BY <2>1, <2>2, ProgramKeeps DEF Apart
<1> QED  BY <1>2, <1>4, <1>5, <1>6, ProgramKeeps DEF SettledInv

LEMMA MovedEnds ==
  ASSUME MigrationInv, EndsInv, NEW i \in 1 .. Count, journal.inflight = i, proc # "idle",
         UNCHANGED <<program, journal, edited, touched, receipt>>,
         receipt["rollback"][i] = None, receipt["abort"][i] = None,
         \A p \in Paths : tree'[p] = tree[p] \/ p \in StepPaths(i) \/ ~ Untouched(p),
         \A j \in 1 .. Count : j # i => tree'[Target(j)] \in {tree[Target(j)], None},
         \A j \in 1 .. Count, q \in Paths : tree'[q] = Restore(j) => q = Taken(j),
         Starting(journal, i) => Flying(journal, i)', Knows(journal, i)', at' # "checked",
         proc' = "idle" => at' = "top"
  PROVE  EndsInv'
<1>1. program \in Programs /\ Tally(journal) /\ Begun
  BY EndsTypes DEF EndsInv, FitsInv
<1>2. \A j : /\ Ahead(journal, j)' <=> Ahead(journal, j)
             /\ Done(journal, j)' <=> Done(journal, j)
             /\ Starting(journal, j)' <=> Starting(journal, j)
             /\ HasReceipt(journal, j)' <=> HasReceipt(journal, j)
             /\ Inverted(journal, j)' <=> Inverted(journal, j)
  BY DEF Ahead, Done, Starting, HasReceipt, Inverted, Receipts
<1>3. Tally(journal)'
  BY <1>1, ProgramKeeps DEF Tally, Receipts, Ids, Inodes, Steps, Original, Image, Restore, Users
<1>4. RecordInv'
  <2>1. ASSUME NEW j \in 1 .. Count
        PROVE  receipt'["apply"][j] \in {None, Publishes(j)'} /\ Recorded(journal, j)'
    BY <1>2, ProgramKeeps DEF EndsInv, RecordInv, Recorded, Receipts
  <2> QED  BY <2>1, ProgramKeeps DEF EndsInv, RecordInv, Steps
<1>5. FitsInv'
  BY <1>1, ProgramKeeps DEF EndsInv, FitsInv, Begun
<1>6. SettledInv'
  BY MovedSettle
<1>7. FlightInv'
  BY <1>2, ProgramKeeps DEF FlightInv, Starting
<1>8. WorkInv'
  BY ProgramKeeps DEF WorkInv
<1>9. RestorePlace'
  BY ProgramKeeps DEF RestorePlace, Restore
<1> QED  BY <1>3, <1>4, <1>5, <1>6, <1>7, <1>8, <1>9 DEF EndsInv

\* A leaf of the step in flight becomes visible.
LEMMA VisibleEnds ==
  ASSUME MigrationInv, EndsInv, NEW i \in 1 .. Count, NEW path \in StepPaths(i), NEW id,
         journal.inflight = i, proc # "idle", tree' = [tree EXCEPT ![path] = id],
         UNCHANGED <<program, journal, edited, touched, receipt, proc>>,
         receipt["rollback"][i] = None, receipt["abort"][i] = None,
         \A j \in 1 .. Count : id = Restore(j) => path = Taken(j),
         Starting(journal, i) => Flying(journal, i)', Knows(journal, i)', at' # "checked"
  PROVE  EndsInv'
<1>1. /\ program \in Programs /\ path \in Paths /\ tree \in [Paths -> Ids]
      /\ \A j \in 1 .. Count : Target(j) \in Paths /\ Target(j) \in StepPaths(j)
  BY EndsTypes, ProgramShape
<1>2. \A q \in Paths : tree'[q] = IF q = path THEN id ELSE tree[q]
  BY <1>1
<1>3. \A j \in 1 .. Count : j # i => tree'[Target(j)] = tree[Target(j)]
  BY <1>1, <1>2, OneStep
<1>4. \A j \in 1 .. Count, q \in Paths : tree'[q] = Restore(j) => q = Taken(j)
  BY <1>2 DEF EndsInv, RestorePlace
<1> QED  BY <1>2, <1>3, <1>4, MovedEnds DEF EndsInv, WorkInv

\* What was checked goes into its claim, whatever it is by now.
LEMMA TakenEnds ==
  ASSUME MigrationInv, EndsInv, RenameIntoClaim
  PROVE  EndsInv'
<1>1. PICK i \in 1 .. Count : Takes(journal, i)
  BY DEF RenameIntoClaim, EndsInv, WorkInv
<1>2. PICK path, gone : path = aim.path /\ gone = Children(path)
  OBVIOUS
<1>3. /\ program \in Programs /\ path \in Paths /\ tree \in [Paths -> Ids] /\ path \in StepPaths(i)
      /\ gone \subseteq touched /\ gone \subseteq Paths
      /\ \A j \in 1 .. Count : Target(j) \in Paths /\ Target(j) \in StepPaths(j)
  BY <1>1, <1>2, EndsTypes, ProgramShape DEF Takes, Children
<1>4. /\ tree' = [p \in Paths |-> IF p = path \/ p \in gone THEN None ELSE tree[p]]
      /\ UNCHANGED <<program, journal, edited, touched, receipt>> /\ proc # "idle"
      /\ claims' = claims \/ claims' = [claims EXCEPT ![aim.claim] = tree[path]]
      /\ at' \in {"claimed", "top"} /\ (proc' = "idle" => at' = "top")
  BY <1>2 DEF RenameIntoClaim, userVars
<1>5. \A p \in Paths : tree'[p] = IF p = path \/ p \in gone THEN None ELSE tree[p]
  BY <1>4
<1>6. \A p \in gone : ~ Untouched(p)
  BY <1>3 DEF Untouched
<1>7. \A p \in Paths : tree'[p] = tree[p] \/ p \in StepPaths(i) \/ ~ Untouched(p)
  BY <1>3, <1>5, <1>6
<1>8. \A j \in 1 .. Count : j # i => tree'[Target(j)] \in {tree[Target(j)], None}
  BY <1>3, <1>5
<1>9. \A j \in 1 .. Count, q \in Paths : tree'[q] = Restore(j) => q = Taken(j)
  <2>1. \A j \in 1 .. Count : Restore(j) # None
    BY EndsTypes, InodesDiffer
  <2> QED  BY <1>5, <2>1 DEF EndsInv, RestorePlace
<1>10. Starting(journal, i) => Flying(journal, i)'
  <2> SUFFICES ASSUME Starting(journal, i) PROVE Flying(journal, i)'
    OBVIOUS
  <2>1. Flying(journal, i) /\ Untouched(Target(i))' = Untouched(Target(i))
    BY <1>4, ProgramKeeps DEF EndsInv, FlightInv, Untouched
  <2>2. tree'[Target(i)] = None \/ tree'[Target(i)] = tree[Target(i)]
    BY <1>3, <1>5
  <2>3. Image(i) # None
    BY EndsTypes, InodesDiffer
  <2>4. Holds(i, "publish")' <=> Holds(i, "publish")
    <3>1. PICK j \in 1 .. Count, k \in {"source", "rollback"} : aim.claim = <<j, k>>
      BY DEF MigrationInv, AimInv, RenameIntoClaim
    <3>2. i \in Steps /\ claims \in [Claims -> Ids]
      BY EndsTypes
    <3>3. <<i, "publish">> \in Claims /\ <<i, "publish">> # <<j, k>>
      BY <3>2, SlotsAreClaims DEF ClaimKinds
    <3>4. claims'[<<i, "publish">>] = claims[<<i, "publish">>]
      BY <1>4, <3>1, <3>2, <3>3
    <3> QED  BY <3>4 DEF Holds, Claim
  <2> QED  BY <1>4, <2>1, <2>2, <2>3, <2>4, ProgramKeeps DEF Flying, Present, Image
<1>11. Knows(journal, i)'
  <2>1. at' = "claimed" /\ journal.dir = "apply" /\ Kind(i) = "move" => ~ Present(Source(i))'
    <3> SUFFICES ASSUME journal.dir = "apply", Kind(i) = "move" PROVE tree'[Source(i)] = None
      BY ProgramKeeps, <1>4 DEF Present
    <3>1. path = Source(i)
      BY <1>1, <1>2 DEF Takes, Taken
    <3> QED  BY <1>3, <1>5, <3>1
  <2> QED  BY <1>4, <2>1, ProgramKeeps DEF Knows
<1> QED  BY <1>1, <1>4, <1>7, <1>8, <1>9, <1>10, <1>11, MovedEnds DEF Takes

\* What people change is touched from then on, and the rest keeps its place.
LEMMA TouchedSettles ==
  ASSUME MigrationInv, EndsInv, Begun, NEW p \in Paths, UNCHANGED <<program, journal, receipt>>,
         touched' = touched \cup {p}, edited' = edited \/ edited' = edited \cup {tree[p]},
         \A q \in Paths : q # p => tree'[q] = tree[q],
         tree'[p] = tree[p] \/ \A j \in Paths : tree'[p] # Original(j)
  PROVE  SettledInv'
<1>1. /\ program \in Programs
      /\ \A q : Untouched(q)' => q # p /\ Untouched(q)
  BY EndsTypes DEF Untouched
<1>2. \A j : /\ Ahead(journal, j)' <=> Ahead(journal, j)
             /\ Done(journal, j)' <=> Done(journal, j)
  BY DEF Ahead, Done, HasReceipt, Inverted, Receipts
<1>3. ASSUME NEW q \in Paths, Untouched(q)', AsBefore(q),
             \A i \in 1 .. Count : q \in StepPaths(i) => Apart(i)
      PROVE  AsBefore(q)'
  <2>1. q # p /\ tree'[q] = tree[q]
    BY <1>1, <1>3
  <2>2. ~ (q \in Initial /\ tree[p] = Original(q))
    <3> SUFFICES ASSUME q \in Initial, tree[p] = Original(q) PROVE FALSE
      OBVIOUS
    <3>1. PICK i \in 1 .. Count : q \in StepPaths(i) /\ p \in StepPaths(i)
      BY <2>1 DEF MigrationInv, PlaceInv
    <3>2. Kind(i) = "move"
      BY <2>1, <3>1 DEF StepPaths
    <3>3. Target(i) \notin Initial
      BY <3>2 DEF EndsInv, FitsInv
    <3>4. q = Source(i) /\ p = Target(i)
      BY <2>1, <3>1, <3>2, <3>3 DEF StepPaths
    <3>5. tree[Target(i)] # Original(Source(i))
      BY <1>3, <3>1, <3>2 DEF Apart, Before, Taken
    <3> QED  BY <3>4, <3>5
  <2> QED  BY <1>3, <2>1, <2>2, ProgramKeeps DEF AsBefore, Present, Original
<1>4. ASSUME NEW q \in Paths, Untouched(q)', \A i \in 1 .. Count : q \notin StepPaths(i)
      PROVE  AsBefore(q)'
  BY <1>1, <1>3, <1>4 DEF EndsInv, SettledInv
<1>5. ASSUME NEW q \in Paths, Untouched(q)', NEW i \in 1 .. Count, q \in StepPaths(i)
      PROVE  SettledAt(journal, i, q)'
  <2>1. SettledAt(journal, i, q) /\ q # p /\ tree'[q] = tree[q]
    BY <1>1, <1>5 DEF EndsInv, SettledInv
  <2>2. Ahead(journal, i) \/ receipt["abort"][i] # None => AsBefore(q)'
    <3> SUFFICES ASSUME Ahead(journal, i) \/ receipt["abort"][i] # None PROVE AsBefore(q)'
      OBVIOUS
    <3>1. AsBefore(q) /\ Apart(i)
      BY <2>1 DEF SettledAt, EndsInv, SettledInv
    <3>2. \A j \in 1 .. Count : q \in StepPaths(j) => j = i
      BY <1>1, <1>5, OneStep
    <3> QED  BY <1>3, <1>5, <3>1, <3>2
  <2>3. Done(journal, i) => AsPublished(i, q)'
    BY <2>1, ProgramKeeps DEF SettledAt, AsPublished
  <2>4. receipt["rollback"][i] # None => AsRestored(i, q)'
    <3> SUFFICES ASSUME receipt["rollback"][i] # None PROVE AsRestored(i, q)'
      OBVIOUS
    <3>1. AsRestored(i, q)
      BY <2>1 DEF SettledAt
    <3>2. tree[p] = Restore(i) => p = Taken(i)
      BY DEF EndsInv, RestorePlace
    <3> QED  BY <2>1, <3>1, <3>2, ProgramKeeps DEF AsRestored, Present, Restore
  <2> QED  BY <1>2, <2>2, <2>3, <2>4 DEF SettledAt
<1>6. ASSUME NEW i \in 1 .. Count, Ahead(journal, i) \/ receipt["abort"][i] # None
      PROVE  Apart(i)'
  <2>1. Apart(i) /\ Target(i) \in Paths /\ (Kind(i) = "move" => Source(i) \in Paths)
    BY <1>1, <1>6, ProgramShape DEF EndsInv, SettledInv
  <2> QED  BY <2>1, ProgramKeeps DEF Apart, Before, Taken
<1> QED  BY <1>2, <1>4, <1>5, <1>6, ProgramKeeps DEF SettledInv

LEMMA TouchedEnds ==
  ASSUME MigrationInv, EndsInv, Begun, NEW p \in Paths,
         UNCHANGED <<program, journal, receipt, claims, proc, at, aim>>,
         touched' = touched \cup {p}, edited' = edited \/ edited' = edited \cup {tree[p]},
         \A q \in Paths : q # p => tree'[q] = tree[q],
         \/ tree'[p] = tree[p]
         \/ tree'[p] = None
         \/ \E n \in 1 .. MaxUserActions : tree'[p] = Users(n)
  PROVE  EndsInv'
<1>1. /\ program \in Programs /\ Tally(journal)
      /\ \A q : Untouched(q)' => q # p /\ Untouched(q)
      /\ \A i \in 1 .. Count : StepPaths(i) \subseteq Paths /\ Target(i) \in Paths /\ i \in Steps
      /\ \A i \in 1 .. Count : Kind(i) = "move" => Source(i) \in Paths
  BY EndsTypes, ProgramShape DEF Untouched
<1>2. \A j : /\ Ahead(journal, j)' <=> Ahead(journal, j)
             /\ Done(journal, j)' <=> Done(journal, j)
             /\ Starting(journal, j)' <=> Starting(journal, j)
             /\ HasReceipt(journal, j)' <=> HasReceipt(journal, j)
             /\ Inverted(journal, j)' <=> Inverted(journal, j)
  BY DEF Ahead, Done, Starting, HasReceipt, Inverted, Receipts
<1>3. \/ tree'[p] = tree[p]
      \/ /\ \A q \in Paths : tree'[p] # Original(q)
         /\ \A i \in Steps : tree'[p] # Image(i) /\ tree'[p] # Restore(i)
  <2>1. \A n, i : Users(n) # Restore(i)
    BY DEF Users, Restore
  <2> QED  BY <2>1, InodesDiffer
<1>4. Tally(journal)'
  BY <1>1, ProgramKeeps DEF Tally, Receipts, Ids, Inodes, Steps, Original, Image, Restore, Users
<1>5. RecordInv'
  <2>1. ASSUME NEW j \in 1 .. Count
        PROVE  receipt'["apply"][j] \in {None, Publishes(j)'} /\ Recorded(journal, j)'
    BY <1>2, ProgramKeeps DEF EndsInv, RecordInv, Recorded, Receipts
  <2> QED  BY <2>1, ProgramKeeps DEF EndsInv, RecordInv, Steps
<1>6. FitsInv'
  BY <1>1, ProgramKeeps DEF EndsInv, FitsInv, Begun
<1>7. SettledInv'
  BY <1>3, TouchedSettles
<1>8. FlightInv'
  <2>1. ASSUME NEW i \in 1 .. Count, Flying(journal, i) PROVE Flying(journal, i)'
    <3>1. Holds(i, "publish")' <=> Holds(i, "publish")
      BY DEF Holds, Claim
    <3>2. Untouched(Target(i))' => Untouched(Target(i)) /\ tree'[Target(i)] = tree[Target(i)]
      BY <1>1, ProgramKeeps
    <3>3. tree'[Target(i)] = Image(i) => tree[Target(i)] = Image(i)
      BY <1>1, <1>3
    <3> QED  BY <2>1, <3>1, <3>2, <3>3, ProgramKeeps DEF Flying, Present, Image
  <2> QED  BY <1>2, <2>1, ProgramKeeps DEF EndsInv, FlightInv
<1>9. WorkInv'
  <2>1. ASSUME NEW i \in 1 .. Count, Knows(journal, i) PROVE Knows(journal, i)'
    <3>1. \A q \in StepPaths(i) : Untouched(q)' => Untouched(q) /\ tree'[q] = tree[q]
      BY <1>1
    <3>2. Target(i) \in StepPaths(i) /\ (Kind(i) = "move" => Source(i) \in StepPaths(i))
      BY DEF StepPaths
    <3> QED  BY <1>2, <2>1, <3>1, <3>2, ProgramKeeps DEF Knows, AsPublished, Present
  <2>2. Children(aim.path)' \subseteq Children(aim.path) \cup {p}
    BY DEF Children, Present
  <2>3. ASSUME NEW i \in 1 .. Count, Takes(journal, i) PROVE Takes(journal, i)'
    BY <2>2, <2>3, ProgramKeeps DEF Takes
  <2> QED  BY <2>1, <2>3, ProgramKeeps DEF EndsInv, WorkInv
<1>10. RestorePlace'
  <2>1. \A j \in 1 .. Count, q \in Paths : tree'[q] = Restore(j) => q = Taken(j)
    BY <1>1, <1>3 DEF EndsInv, RestorePlace
  <2> QED  BY <2>1, ProgramKeeps DEF RestorePlace, Restore
<1> QED  BY <1>4, <1>5, <1>6, <1>7, <1>8, <1>9, <1>10 DEF EndsInv

LEMMA PeopleEnd ==
  ASSUME MigrationInv, EndsInv, Begun, UserActs
  PROVE  EndsInv'
<1>1. PICK p \in Paths : UserEdits(p) \/ UserReplaces(p) \/ UserCreates(p) \/ UserDeletes(p)
  BY DEF UserActs
<1>2. /\ UNCHANGED <<program, journal, receipt, claims, proc, at, aim>>
      /\ touched' = touched \cup {p} /\ actions < MaxUserActions
  BY <1>1 DEF UserEdits, UserReplaces, UserCreates, UserDeletes, ByPeople, private, Acts
<1>3. actions + 1 \in 1 .. MaxUserActions /\ tree \in [Paths -> Ids]
  BY <1>2, MigrationAssumption DEF MigrationInv, FilesInv
<1>4. CASE UserEdits(p)
  BY <1>2, <1>4, TouchedEnds DEF UserEdits
<1>5. ASSUME NEW id, Settles(p, id), UNCHANGED edited, id = None \/ id = Users(actions + 1)
      PROVE  EndsInv'
  <2>1. tree'[p] = id /\ \A q \in Paths : q # p => tree'[q] = tree[q]
    BY <1>3, <1>5 DEF Settles
  <2> QED  BY <1>2, <1>3, <1>5, <2>1, TouchedEnds
<1> QED  BY <1>1, <1>4, <1>5 DEF UserReplaces, UserCreates, UserDeletes

-----------------------------------------------------------------------------
(* Commands.                                                               *)

\* Before the transaction begins the whole folder is as it was.
LEMMA NotBegun ==
  ASSUME MigrationInv, EndsInv, ~ Begun
  PROVE  /\ journal.dir = "apply" /\ at = "top" /\ touched = {}
         /\ \A i \in 1 .. Count : Ahead(journal, i)
         /\ \A i \in 1 .. Count : receipt["rollback"][i] = None /\ receipt["abort"][i] = None
         /\ \A p \in Paths : AsBefore(p)
         /\ \A i \in 1 .. Count : Apart(i)
<1>1. /\ Generation(journal) /\ Tally(journal) /\ journal.phase = "absent" /\ program \in Programs
      /\ \A i \in 1 .. Count : i \in Nat /\ i > 0 /\ i # None
      /\ touched = {} /\ at = "top"
  BY EndsTypes DEF Begun, EndsInv, FitsInv, WorkInv
<1>2. /\ journal.dir = "apply" /\ journal.cursor = 0 /\ journal.inflight = None
      /\ Receipts(journal) = 0 /\ journal.aborted = None
  BY <1>1 DEF Generation, Tally
<1>3. \A i \in 1 .. Count : Ahead(journal, i)
  BY <1>1, <1>2 DEF Ahead
<1>4. \A i \in 1 .. Count : receipt["rollback"][i] = None /\ receipt["abort"][i] = None
  BY <1>2 DEF EndsInv, RecordInv, Recorded
<1>5. ASSUME NEW p \in Paths PROVE AsBefore(p)
  <2>1. Untouched(p)
    BY <1>1 DEF Untouched
  <2>2. \A i \in 1 .. Count : p \in StepPaths(i) => AsBefore(p)
    BY <1>3, <2>1 DEF EndsInv, SettledInv, SettledAt
  <2> QED  BY <2>1, <2>2 DEF EndsInv, SettledInv
<1>6. \A i \in 1 .. Count : Apart(i)
  BY <1>3 DEF EndsInv, SettledInv
<1> QED  BY <1>1, <1>2, <1>3, <1>4, <1>5, <1>6

LEMMA PrepareEnds ==
  ASSUME MigrationInv, EndsInv, Prepare
  PROVE  EndsInv'
<1> PICK h : h = Prepared
  OBVIOUS
<1>1. /\ SameFiles /\ UNCHANGED <<receipt, claims, at, aim>> /\ journal' = h /\ proc' = "apply"
      /\ PreparedEnvironment /\ ~ Begun
  BY DEF Prepare, StartsAs, SameFiles, files, private, userVars
<1>2. /\ h.dir = "apply" /\ h.phase = "prepared" /\ h.cursor = 0 /\ h.inflight = None
      /\ h.applied = <<>> /\ h.aborted = None /\ Receipts(h) = 0
  BY DEF Prepared, Receipts
<1>3. /\ program \in Programs /\ Count' = Count /\ at' = "top"
      /\ \A i \in 1 .. Count : i \in Nat /\ i > 0 /\ i # None /\ i \in Steps
  BY <1>1, EndsTypes, FilesStayAs, NotBegun
<1>4. \A i \in 1 .. Count : Ahead(h, i) /\ ~ Done(h, i) /\ ~ Starting(h, i)
  BY <1>2, <1>3 DEF Ahead, Done, Starting, HasReceipt
<1>5. Tally(h)
  BY <1>2 DEF Tally
<1>6. Tally(journal)'
  BY <1>1, <1>3, <1>5 DEF Tally, Receipts, Ids, Inodes, Steps, Original, Image, Restore, Users
<1>7. RecordInv'
  <2>1. ASSUME NEW i \in 1 .. Count PROVE Recorded(h, i)
    BY <1>1, <1>2, <1>3, NotBegun DEF Recorded, Inverted
  <2>2. ASSUME NEW i \in 1 .. Count
        PROVE  receipt'["apply"][i] \in {None, Publishes(i)'} /\ Recorded(journal, i)'
    BY <1>1, <2>1, FilesStayAs
    DEF EndsInv, RecordInv, Recorded, Receipts, HasReceipt, Inverted
  <2> QED  BY <1>1, <1>3, <2>2 DEF EndsInv, RecordInv, Steps
<1>8. FitsInv'
  <2>1. Begun'
    BY <1>1, <1>2 DEF Begun
  <2>2. ASSUME NEW i \in 1 .. Count
        PROVE  /\ Kind(i) \in {"replace", "move"} => Taken(i) \in Initial
               /\ Kind(i) # "replace" => Target(i) \notin Initial
    <3>1. Taken(i) \in Paths /\ Target(i) \in Paths
      BY <1>3, ProgramShape
    <3>2. AsBefore(Taken(i)) /\ AsBefore(Target(i))
      BY <1>1, <3>1, NotBegun
    <3>3. Kind(i) \in {"replace", "move"} => Present(Taken(i))
      BY <1>1 DEF PreparedEnvironment, ExactAt, Shows, Present
    <3>4. Kind(i) # "replace" => ~ Present(Target(i))
      BY <1>1 DEF PreparedEnvironment
    <3>5. Original(Target(i)) # None
      BY <3>1, InodesDiffer
    <3> QED  BY <3>2, <3>3, <3>4, <3>5 DEF AsBefore, Present
  <2> QED  BY <1>1, <1>3, <2>1, <2>2, FilesStayAs DEF EndsInv, FitsInv, SameFiles
<1>9. \A i \in 1 .. Count :
        /\ ~ Done(journal, i)' /\ ~ Starting(journal, i)'
  BY <1>1, <1>4 DEF Done, Starting, HasReceipt, Inverted, Receipts
<1>10. SettledInv'
  <2>1. \A p \in Paths : AsBefore(p)'
    BY <1>1, NotBegun, FilesStayAs
  <2>2. \A i \in 1 .. Count : Apart(i)' /\ receipt'["rollback"][i] = None
    BY <1>1, NotBegun, FilesStayAs
  <2> QED  BY <1>3, <1>9, <2>1, <2>2 DEF SettledInv, SettledAt
<1>11. FlightInv'
  BY <1>3, <1>9 DEF FlightInv
<1>12. WorkInv'
  BY <1>1, <1>3 DEF WorkInv, Knows
<1>13. RestorePlace'
  BY <1>1, <1>3, FilesStayAs DEF EndsInv, RestorePlace, SameFiles, Restore
<1> QED  BY <1>6, <1>7, <1>8, <1>10, <1>11, <1>12, <1>13 DEF EndsInv

LEMMA SameTurnHolds == \A g : SameTurn(g, g)
BY DEF SameTurn

LEMMA CommandsEnd ==
  ASSUME MigrationInv, EndsInv, Recover \/ Rollback \/ Crash
  PROVE  EndsInv'
<1>1. /\ SameFiles /\ UNCHANGED <<receipt, claims, journal>> /\ Begun
      /\ at' = "top" \/ UNCHANGED <<at, aim>>
  <2>1. proc # "idle" => Begun
    BY DEF EndsInv, FitsInv
  <2> QED
    BY <2>1 DEF Recover, Rollback, Crash, Opens, StartsAs, SameFiles, files, private, userVars
<1>2. proc' = "idle" => at' = "top"
  BY DEF Recover, Rollback, Crash, StartsAs
<1> QED  BY <1>1, <1>2, SteadyEnds, SameTurnHolds

\* A command that gives up, and one that records a conflict first.
LEMMA GivesUpEnds ==
  ASSUME MigrationInv, EndsInv, proc # "idle", Abandon \/ \E i : Conflict(i)
  PROVE  EndsInv'
<1>1. /\ SameFiles /\ UNCHANGED <<receipt, claims>> /\ Begun /\ at' = "top"
  BY DEF EndsInv, FitsInv, Abandon, Conflict, SameFiles, files, private, userVars
<1>2. SameTurn(journal, journal') /\ journal'.phase \in {journal.phase, "conflicted"}
  <2>1. CASE Abandon
    BY <2>1, SameTurnHolds DEF Abandon
  <2>2. ASSUME NEW seen, journal' = NextConflicted(journal, seen)
        PROVE  SameTurn(journal, journal') /\ journal'.phase \in {journal.phase, "conflicted"}
    <3>1. DOMAIN journal = GenerationFields
      BY EndsTypes DEF Generation
    <3> QED  BY <2>2, <3>1 DEF NextConflicted, SameTurn, GenerationFields
  <2>3. CASE \E i : Conflict(i)
    BY <2>2, <2>3 DEF Conflict
  <2> QED  BY <2>1, <2>2, <2>3
<1> QED  BY <1>1, <1>2, SteadyEnds

\* Publications are staged, bound and cleared beside what is promised.
LEMMA PublicationFinishEnds ==
  ASSUME MigrationInv, EndsInv, proc # "idle", FinishPublication
  PROVE  EndsInv'
<1>1. /\ SameFiles /\ UNCHANGED <<receipt, claims, proc>> /\ Begun
      /\ at' = "top" \/ UNCHANGED <<at, aim>>
  BY DEF EndsInv, FitsInv, FinishPublication, AppendGeneration, SameFiles, files, private, userVars,
         Rests
<1>2. SameTurn(journal, journal') /\ journal'.phase = journal.phase
  <2>1. DOMAIN journal = GenerationFields
    BY EndsTypes DEF Generation
  <2>2. journal' = journal \/ journal' = NextPublicationCleared(journal)
    BY DEF FinishPublication, AppendGeneration
  <2> QED  BY <2>1, <2>2, SameTurnHolds DEF NextPublicationCleared, SameTurn, GenerationFields
<1>3. proc' # "idle"
  BY <1>1
<1> QED  BY <1>1, <1>2, <1>3, SteadyEnds

LEMMA PreparedEnds ==
  ASSUME MigrationInv, EndsInv, proc # "idle", NEW i \in 1 .. Count, journal.inflight = i,
         NEW k \in ClaimKinds, NEW id,
         \/ k = "publish" /\ Kind(i) \in {"create", "replace"}
         \/ k = "restore" /\ journal.dir = "rollback",
         PreparePublication(i, k, id)
  PROVE  EndsInv'
<1>1. SameFiles /\ UNCHANGED <<receipt, proc>> /\ Begun
  BY DEF EndsInv, FitsInv, PreparePublication, StagePublication, BindPublication,
         InstallPublication, SameFiles, files, private, userVars, Rests
<1>2. CASE StagePublication(i, k, id)
  BY <1>1, <1>2, SteadyEnds, SameTurnHolds DEF StagePublication
<1>3. CASE BindPublication(i, k)
  <2>1. DOMAIN journal = GenerationFields
    BY EndsTypes DEF Generation
  <2>2. SameTurn(journal, journal') /\ journal'.phase = journal.phase
    BY <1>3, <2>1 DEF BindPublication, NextPublicationBound, SameTurn, GenerationFields
  <2>3. UNCHANGED <<receipt, claims, at, aim>>
    BY <1>3 DEF BindPublication, private, Rests
  <2> QED  BY <1>1, <2>2, <2>3, SteadyEnds
<1>4. CASE InstallPublication(i, k)
  <2>1. /\ claims' = [claims EXCEPT ![<<i, k>>] = staged[<<i, k>>]] /\ staged[<<i, k>>] # None
        /\ at' = "claimed" /\ UNCHANGED journal
    BY <1>4 DEF InstallPublication
  <2>2. i \in Steps /\ <<i, k>> \in Claims /\ <<i, "publish">> \in Claims /\ claims \in [Claims -> Ids]
    BY EndsTypes, SlotsAreClaims DEF ClaimKinds
  <2>3. /\ Holds(i, "publish") => Holds(i, "publish")'
        /\ k # "publish" => (Holds(i, "publish")' <=> Holds(i, "publish"))
    BY <2>1, <2>2, SlotsAreClaims DEF Holds, Claim
  <2>4. Starting(journal, i) => Flying(journal, i)'
    BY <1>1, <2>1, <2>3, FilesStayAs DEF EndsInv, FlightInv, Flying, SameFiles, Image
  <2>5. journal.dir = "apply" => Kind(i) # "move"
    BY <2>1
  <2> QED  BY <1>1, <2>1, <2>4, <2>5, ClaimEnds
<1> QED  BY <1>2, <1>3, <1>4 DEF PreparePublication

-----------------------------------------------------------------------------
(* Forward.                                                                *)

LEMMA AppendGoesOn ==
  ASSUME MigrationInv, EndsInv, proc # "idle", NEW h, AppendGeneration(h)
  PROVE  /\ SameFiles /\ UNCHANGED <<receipt, claims, proc>> /\ Begun
         /\ journal' = h /\ at' = "top"
BY DEF EndsInv, FitsInv, AppendGeneration, SameFiles, files, private, userVars, Rests

LEMMA IntentEnds ==
  ASSUME MigrationInv, EndsInv, ApplyIntent
  PROVE  EndsInv'
<1> PICK h : h = NextApplyIntent(journal)
  OBVIOUS
<1>1. /\ proc # "idle" /\ CanIntend(journal) /\ AppendGeneration(h) /\ journal.dir = "apply"
      /\ h.phase = "applying" /\ Begun
  <2>1. h.phase = "applying"
    BY EndsTypes DEF NextApplyIntent, Generation, GenerationFields
  <2> QED  BY <2>1, AppendGoesOn DEF ApplyIntent, Applying, MigrationInv, JournalInv
<1>2. /\ Tally(h)
      /\ \A i \in 1 .. Count :
           /\ Ahead(h, i) => Ahead(journal, i)
           /\ Done(h, i) => Done(journal, i)
           /\ Starting(h, i) => Ahead(journal, i)
           /\ Recorded(h, i)
  BY <1>1, EndsTypes, IntentTallies DEF EndsInv, RecordInv
<1>3. ASSUME NEW i \in 1 .. Count, Ahead(journal, i) PROVE Flying(h, i)
  <2>1. /\ program \in Programs /\ i \in Steps /\ Target(i) \in Paths /\ Target(i) \in StepPaths(i)
        /\ Kind(i) # "replace" => Target(i) \notin Initial
    BY <1>1, EndsTypes, ProgramShape DEF EndsInv, FitsInv
  <2>2. Untouched(Target(i)) /\ Kind(i) # "replace" => ~ Present(Target(i))
    BY <1>3, <2>1 DEF EndsInv, SettledInv, SettledAt, AsBefore
  <2>3. Kind(i) = "create" /\ tree[Target(i)] = Image(i) => Holds(i, "publish")
    BY <1>1, <2>1 DEF MigrationInv, UnseenInv, Unseen, PathNames
  <2> QED  BY <2>2, <2>3 DEF Flying, Present
<1> QED  BY <1>1, <1>2, <1>3, AppendGoesOn, TurnEnds

LEMMA LastTurnEnds ==
  ASSUME MigrationInv, EndsInv, proc # "idle", NEW h, AppendGeneration(h),
         SameTurn(journal, h), Tally(h), h.phase # "absent"
  PROVE  EndsInv'
<1>1. Receipts(h) = Receipts(journal)
  BY DEF SameTurn, Receipts
<1>2. \A i \in 1 .. Count :
        /\ Ahead(h, i) => Ahead(journal, i)
        /\ Done(h, i) => Done(journal, i)
        /\ Starting(h, i) => Flying(h, i)
        /\ Recorded(h, i)
  BY <1>1
  DEF Ahead, Done, Starting, Recorded, HasReceipt, Inverted, SameTurn, EndsInv, RecordInv,
      FlightInv, Flying
<1> QED  BY <1>2, AppendGoesOn, TurnEnds

LEMMA ApplyLoopEnds ==
  ASSUME MigrationInv, EndsInv, ApplyIntent \/ PreparedDrifted \/ ApplyFinish \/ ApplyVerifies
  PROVE  EndsInv'
<1>1. CASE ApplyIntent
  BY <1>1, IntentEnds
<1>2. CASE PreparedDrifted
  BY <1>2, GivesUpEnds DEF PreparedDrifted, Applying
<1>3. CASE ApplyFinish
  <2> PICK h : h = NextApplied(journal)
    OBVIOUS
  <2>1. /\ proc # "idle" /\ CanFinish(journal) /\ AppendGeneration(h) /\ journal.dir = "apply"
    BY <1>3 DEF ApplyFinish, Applying, MigrationInv, JournalInv
  <2>2. SameTurn(journal, h) /\ Tally(h) /\ h.phase = "applied"
    BY <2>1, EndsTypes, FinishTallies DEF NextApplied, Generation, GenerationFields
  <2> QED  BY <2>1, <2>2, LastTurnEnds
<1>4. CASE ApplyVerifies
  <2>1. CASE Abandon \/ \E i : Conflict(i)
    BY <1>4, <2>1, GivesUpEnds DEF ApplyVerifies, Applying
  <2>2. CASE /\ plan' = "verified" /\ proc' = "idle" /\ at' = "top"
             /\ UNCHANGED <<program, journal, files, private, userVars, aim>>
    <3>1. SameFiles /\ UNCHANGED <<receipt, claims, journal>> /\ Begun
      BY <1>4, <2>2 DEF EndsInv, FitsInv, ApplyVerifies, Applying, SameFiles, files, private, userVars
    <3> QED  BY <2>2, <3>1, SteadyEnds, SameTurnHolds
  <2> QED  BY <1>4, <2>1, <2>2 DEF ApplyVerifies
<1> QED  BY <1>1, <1>2, <1>3, <1>4

\* The journal takes a receipt up once its step is visible.
LEMMA ReceivedEnds ==
  ASSUME MigrationInv, EndsInv, proc # "idle", NEW i \in 1 .. Count, journal.inflight = i,
         journal.dir = "apply", \A p \in StepPaths(i) : Untouched(p) => AsPublished(i, p),
         AppendGeneration(NextApplyReceipt(journal, receipt["apply"][i]))
  PROVE  EndsInv'
<1> PICK h, id : id = receipt["apply"][i] /\ h = NextApplyReceipt(journal, id)
  OBVIOUS
<1>1. AppendGeneration(h) /\ h.phase = "applying"
  BY EndsTypes DEF NextApplyReceipt, Generation, GenerationFields
<1>2. id \in Ids
  <2>1. i \in Steps /\ Taken(i) \in Paths /\ id \in {None, Publishes(i)}
    BY EndsTypes, ProgramShape DEF EndsInv, RecordInv
  <2> QED  BY <2>1, InodesDiffer DEF Ids, Publishes, Before
<1>3. /\ Tally(h)
      /\ \A j \in 1 .. Count :
           /\ Ahead(h, j) => Ahead(journal, j)
           /\ Done(h, j) => Done(journal, j) \/ j = i
           /\ ~ Starting(h, j)
           /\ Recorded(h, j)
  BY <1>2, EndsTypes, ReceiptTallies DEF EndsInv, RecordInv
<1> QED  BY <1>1, <1>3, AppendGoesOn, TurnEnds

\* What a receipt shows on the visible tree is what the step publishes.
LEMMA VisibleIsPublished ==
  ASSUME MigrationInv, EndsInv, NEW i \in 1 .. Count, receipt["apply"][i] # None, AppliedVisible(i)
  PROVE  \A p \in StepPaths(i) : AsPublished(i, p)
<1>1. receipt["apply"][i] = Publishes(i)
  BY DEF EndsInv, RecordInv
<1>2. tree[Target(i)] = Publishes(i)
  BY <1>1 DEF AppliedVisible, ExactAt, Shows
<1>3. Kind(i) = "move" => tree[Source(i)] = None
  BY DEF AppliedVisible, Present
<1> QED  BY <1>2, <1>3 DEF AsPublished, StepPaths

LEMMA ApplyReceiptsEnd ==
  ASSUME MigrationInv, EndsInv, NEW i \in Steps,
         \/ ApplyReceiptJournaled(i) \/ ApplyReceiptVerified(i) \/ ApplyReceiptPersists(i)
         \/ Displaced(i)
  PROVE  EndsInv'
<1>1. /\ i \in 1 .. Count /\ journal.inflight = i /\ proc # "idle" /\ journal.dir = "apply"
      /\ Knows(journal, i)
  <2>1. journal.inflight = i /\ proc = "apply"
    BY DEF ApplyReceiptJournaled, ApplyReceiptVerified, ApplyReceiptPersists, Displaced, InApply,
           Applying
  <2> QED  BY <2>1, StepInFlight DEF MigrationInv, JournalInv, EndsInv, WorkInv
<1>2. CASE ApplyReceiptJournaled(i)
  BY <1>1, <1>2, ReceivedEnds DEF ApplyReceiptJournaled, Knows
<1>3. CASE ApplyReceiptVerified(i)
  <2>1. CASE Abandon \/ Conflict(i)
    BY <1>1, <2>1, GivesUpEnds
  <2>2. CASE AppliedVisible(i) /\ AppendGeneration(NextApplyReceipt(journal, receipt["apply"][i]))
    BY <1>1, <1>3, <2>2, VisibleIsPublished, ReceivedEnds DEF ApplyReceiptVerified
  <2> QED  BY <1>3, <2>1, <2>2 DEF ApplyReceiptVerified
<1>4. CASE ApplyReceiptPersists(i)
  <2>1. CASE Conflict(i)
    BY <1>1, <2>1, GivesUpEnds
  <2>2. CASE PersistReceipt("apply", i, Publishes(i))
    <3>1. /\ SameFiles /\ UNCHANGED <<journal, claims, aim, proc>> /\ at' = "receipted"
          /\ at = "published" /\ receipt' = [receipt EXCEPT !["apply"][i] = Publishes(i)]
      BY <1>4, <2>2 DEF ApplyReceiptPersists, PersistReceipt, SameFiles, files, userVars, Rests
    <3>2. Publishes(i) # None
      BY <1>1, EndsTypes, ProgramShape, InodesDiffer DEF Publishes, Before
    <3> QED  BY <1>1, <3>1, <3>2, ReceiptEnds
  <2> QED  BY <1>4, <2>1, <2>2 DEF ApplyReceiptPersists
<1>5. CASE Displaced(i)
  BY <1>1, <1>5, GivesUpEnds DEF Displaced
<1> QED  BY <1>2, <1>3, <1>4, <1>5

LEMMA NoneUndone ==
  ASSUME EndsInv, journal.dir = "apply", NEW i \in 1 .. Count
  PROVE  receipt["rollback"][i] = None /\ receipt["abort"][i] = None
BY DEF EndsInv, RecordInv, Recorded

\* Only a directory has anything below it.
LEMMA FilesHoldNothing ==
  ASSUME program \in Programs, NEW i \in 1 .. Count, Kind(i) # "mkdir", NEW p \in StepPaths(i)
  PROVE  Children(p) = {}
<1>1. program \in Seq(Operations) /\ program[i] \in Operations
  BY ProgramsAssumption DEF Count
<1>2. Kind(i) = "move" => Source(i) \in Paths \ Dirs
  BY <1>1, ProgramsAssumption DEF Kind, Source, Count
<1>3. p \in Paths \ Dirs
  BY <1>2, ProgramShape DEF StepPaths
<1> QED  BY <1>3, MigrationAssumption DEF Children

\* A leaf is looked at before it is taken.
LEMMA CheckedEnds ==
  ASSUME MigrationInv, EndsInv, proc # "idle", NEW i \in 1 .. Count, journal.inflight = i,
         NEW path \in StepPaths(i), journal.dir = "apply" => path = Taken(i),
         receipt["rollback"][i] = None, receipt["abort"][i] = None,
         Kind(i) = "mkdir" => Children(path) = {},
         NEW k, NEW id, CheckLeaf(i, path, k, id)
  PROVE  EndsInv'
<1>1. /\ SameFiles /\ UNCHANGED <<journal, receipt, claims, proc>>
      /\ at' = "checked" /\ aim'.path = path
  BY DEF CheckLeaf, SameFiles, files, private, userVars
<1>2. Starting(journal, i) => Flying(journal, i)'
  BY <1>1, FilesStayAs DEF EndsInv, FlightInv, Flying, SameFiles, Holds, Claim, Image
<1>3. Children(path) = {}
  BY EndsTypes, FilesHoldNothing
<1>4. Children(aim.path)' = {}
  BY <1>1, <1>3, FilesStayAs
<1>5. Takes(journal, i)'
  BY <1>1, <1>4, FilesStayAs DEF Takes
<1> QED  BY <1>1, <1>2, <1>5, ClaimEnds

LEMMA MkdirEnds ==
  ASSUME MigrationInv, EndsInv, NEW i \in Steps, MkdirPrepare(i) \/ MkdirReceipt(i) \/ MkdirPublish(i)
  PROVE  EndsInv'
<1>1. /\ i \in 1 .. Count /\ journal.inflight = i /\ proc # "idle" /\ journal.dir = "apply"
      /\ Kind(i) = "mkdir" /\ StepPaths(i) = {Target(i)} /\ Publishes(i) = Image(i)
      /\ program \in Programs /\ claims \in [Claims -> Ids] /\ <<i, "publish">> \in Claims
      /\ Starting(journal, i) /\ Flying(journal, i) /\ Image(i) # None
  <2>1. journal.inflight = i /\ proc = "apply" /\ Kind(i) = "mkdir"
    BY DEF MkdirPrepare, MkdirReceipt, MkdirPublish, Runs, InApply, Applying
  <2>2. i \in 1 .. Count /\ journal.dir = "apply"
    BY <2>1, StepInFlight DEF MigrationInv, JournalInv
  <2> QED
    <3>1. StepPaths(i) = {Target(i)} /\ Publishes(i) = Image(i)
      BY <2>1 DEF StepPaths, Publishes
    <3>2. program \in Programs /\ claims \in [Claims -> Ids] /\ <<i, "publish">> \in Claims
      BY EndsTypes, SlotsAreClaims DEF ClaimKinds
    <3>3. Starting(journal, i) /\ Flying(journal, i)
      BY <2>1, <2>2, InFlightIsOpen DEF EndsInv, FlightInv
    <3> QED  BY <2>1, <2>2, <3>1, <3>2, <3>3, InodesDiffer
<1>2. receipt["rollback"][i] = None /\ receipt["abort"][i] = None
  BY <1>1, NoneUndone
<1>3. CASE MkdirPrepare(i)
  <2>1. /\ SameFiles /\ UNCHANGED <<journal, receipt, proc, at>> /\ at \in {"top", "claimed"}
        /\ receipt["apply"][i] = None
    BY <1>3 DEF MkdirPrepare, Runs, SameFiles, files, userVars, Rests
  <2>2. Flying(journal, i)'
    BY <1>1, <2>1, FilesStayAs DEF Flying, SameFiles
  <2> QED  BY <1>1, <2>1, <2>2, ClaimEnds
<1>4. CASE MkdirReceipt(i)
  <2>1. /\ SameFiles /\ UNCHANGED <<journal, claims, proc, at, aim>> /\ at \in {"top", "claimed"}
        /\ receipt' = [receipt EXCEPT !["apply"][i] = Claim(i, "publish")]
    BY <1>4 DEF MkdirReceipt, Runs, SameFiles, files, userVars, Rests
  <2>2. Claim(i, "publish") = Image(i)
    BY <1>4 DEF MkdirReceipt, Holds, Claim, MigrationInv, OwnInv
  <2> QED  BY <1>1, <2>1, <2>2, ReceiptEnds
<1>5. CASE MkdirPublish(i)
  <2>1. CASE Abandon \/ Conflict(i)
    BY <1>1, <2>1, GivesUpEnds
  <2>2. CASE /\ tree[Target(i)] = receipt["apply"][i]
             /\ AppendGeneration(NextApplyReceipt(journal, receipt["apply"][i]))
    <3>1. receipt["apply"][i] = Publishes(i)
      BY <1>1, <1>5 DEF MkdirPublish, EndsInv, RecordInv
    <3> QED  BY <1>1, <2>2, <3>1, ReceivedEnds DEF AsPublished
  <2>3. CASE Holds(i, "publish") /\ RenameVisible(i, "publish", Target(i))
    <3>1. Claim(i, "publish") = Image(i)
      BY <2>3 DEF Holds, Claim, MigrationInv, OwnInv
    <3>2. /\ tree' = [tree EXCEPT ![Target(i)] = Image(i)]
          /\ claims' = [claims EXCEPT ![<<i, "publish">>] = None]
          /\ UNCHANGED <<program, journal, edited, touched, receipt, proc, at>>
      BY <2>3, <3>1 DEF RenameVisible, Rests, userVars
    <3>3. at = "top" /\ receipt["apply"][i] # None
      BY <1>5 DEF MkdirPublish
    <3>4. Target(i) \in Paths /\ tree \in [Paths -> Ids]
      BY EndsTypes, ProgramShape, <1>1
    <3>5. tree'[Target(i)] = Image(i) /\ ~ Holds(i, "publish")'
      BY <1>1, <3>2, <3>4 DEF Holds, Claim
    <3>6. Flying(journal, i)'
      BY <1>1, <3>2, <3>3, <3>5, ProgramKeeps DEF Flying
    <3>7. Knows(journal, i)'
      BY <3>2, <3>3 DEF Knows
    <3>8. \A j \in 1 .. Count : Image(i) # Restore(j)
      BY DEF Image, Restore
    <3>9. i \in 1 .. Count /\ Target(i) \in StepPaths(i) /\ journal.inflight = i /\ proc # "idle"
      BY <1>1
    <3>10. at' # "checked" /\ UNCHANGED <<program, journal, edited, touched, receipt, proc>>
      BY <3>2, <3>3
    <3>11. \A j \in 1 .. Count : Image(i) = Restore(j) => Target(i) = Taken(j)
      BY <3>8
    <3> QED  BY <1>2, <3>2, <3>6, <3>7, <3>9, <3>10, <3>11, VisibleEnds
  <2> QED  BY <1>5, <2>1, <2>2, <2>3 DEF MkdirPublish
<1> QED  BY <1>3, <1>4, <1>5

\* The leaf of a step is published at its target.
LEMMA PublishedEnds ==
  ASSUME MigrationInv, EndsInv, proc # "idle", NEW i \in 1 .. Count, journal.inflight = i,
         journal.dir = "apply", Kind(i) # "mkdir", NEW k, Claim(i, k) = Publishes(i),
         Kind(i) = "create" => Holds(i, "publish"),
         Kind(i) = "move" => (Untouched(Source(i)) => ~ Present(Source(i))),
         Publish(i, k, Target(i))
  PROVE  EndsInv'
<1>1. /\ receipt["rollback"][i] = None /\ receipt["abort"][i] = None
      /\ program \in Programs /\ Target(i) \in Paths /\ Target(i) \in StepPaths(i)
      /\ tree \in [Paths -> Ids] /\ Publishes(i) # None
      /\ \A j \in 1 .. Count : Publishes(i) # Restore(j)
      /\ Kind(i) = "move" => Source(i) \in Paths /\ Source(i) # Target(i)
  <2>1. program \in Programs /\ 1 .. Count \subseteq Steps /\ tree \in [Paths -> Ids]
    BY EndsTypes
  <2>2. /\ Target(i) \in Paths /\ Target(i) \in StepPaths(i) /\ Taken(i) \in Paths
        /\ Kind(i) = "move" => Source(i) \in Paths /\ Source(i) # Target(i)
    BY <2>1, ProgramShape
  <2>3. Publishes(i) # None /\ \A j \in 1 .. Count : Publishes(i) # Restore(j)
    BY <2>1, <2>2, InodesDiffer DEF Publishes, Before
  <2> QED BY <2>1, <2>2, <2>3, NoneUndone
<1>2. ASSUME UNCHANGED <<program, journal, edited, touched, receipt, proc, claims>>,
             at' = "published", tree'[Target(i)] = Publishes(i),
             \A q \in Paths : q # Target(i) => tree'[q] = tree[q]
      PROVE  Flying(journal, i)' /\ Knows(journal, i)'
  <2>1. Flying(journal, i)'
    BY <1>2, ProgramKeeps DEF Flying, Holds, Claim
  <2>2. ASSUME NEW p \in StepPaths(i), Untouched(p)' PROVE AsPublished(i, p)'
    <3>1. CASE p = Target(i)
      BY <1>2, <3>1, ProgramKeeps DEF AsPublished
    <3>2. CASE p # Target(i)
      <4>1. p = Source(i) /\ Kind(i) = "move" /\ Untouched(p)
        BY <1>2, <2>2, <3>2 DEF StepPaths, Untouched
      <4> QED  BY <1>1, <1>2, <3>2, <4>1, ProgramKeeps DEF AsPublished, Present
    <3> QED  BY <3>1, <3>2
  <2> QED  BY <1>2, <2>1, <2>2, ProgramKeeps DEF Knows
<1>3. CASE at' = "published" /\ LinkVisible(i, k, Target(i))
  <2>1. /\ tree' = [tree EXCEPT ![Target(i)] = Publishes(i)] /\ at' = "published"
        /\ UNCHANGED <<program, journal, edited, touched, receipt, proc, claims>>
    BY <1>3 DEF LinkVisible, private, Rests, userVars
  <2>2. Flying(journal, i)' /\ Knows(journal, i)'
    BY <1>1, <1>2, <2>1
  <2> PICK id : id = Publishes(i)
    OBVIOUS
  <2>3. PICK path \in StepPaths(i) : path = Target(i)
    BY <1>1
  <2>4. tree' = [tree EXCEPT ![path] = id]
    BY <2>1, <2>3
  <2>5. \A j \in 1 .. Count : id = Restore(j) => path = Taken(j)
    BY <1>1, <2>3
  <2>6. /\ UNCHANGED <<program, journal, edited, touched, receipt, proc>> /\ at' # "checked"
        /\ receipt["rollback"][i] = None /\ receipt["abort"][i] = None
        /\ Starting(journal, i) => Flying(journal, i)'
    BY <1>1, <2>1, <2>2
  <2> QED  BY <2>2, <2>4, <2>5, <2>6, VisibleEnds
<1>4. CASE Shows(Target(i), Claim(i, k)) /\ at' = "published" /\ UNCHANGED <<journal, files, private>> /\ Rests
  <2>1. /\ UNCHANGED <<program, journal, tree, edited, touched, receipt, proc, claims>>
        /\ at' = "published" /\ tree[Target(i)] = Publishes(i)
    BY <1>4 DEF files, private, Rests, userVars, Shows
  <2>2. Flying(journal, i)' /\ Knows(journal, i)'
    BY <1>2, <2>1
  <2>3. \A j \in 1 .. Count, q \in Paths : tree'[q] = Restore(j) => q = Taken(j)
    BY <2>1 DEF EndsInv, RestorePlace
  <2> QED  BY <1>1, <2>1, <2>2, <2>3, MovedEnds
<1>5. CASE Conflict(i)
  BY <1>5, GivesUpEnds
<1> QED  BY <1>3, <1>4, <1>5 DEF Publish

LEMMA ApplyFilesEnd ==
  ASSUME MigrationInv, EndsInv, NEW i \in Steps,
         \/ ImagePrepared(i) \/ CreatePublishes(i)
         \/ ReplaceTakesSource(i) \/ ReplacePublishes(i)
         \/ MoveTakesSource(i) \/ MovePublishes(i)
  PROVE  EndsInv'
<1>1. /\ i \in 1 .. Count /\ journal.inflight = i /\ proc # "idle" /\ journal.dir = "apply"
      /\ receipt["rollback"][i] = None /\ receipt["abort"][i] = None /\ Knows(journal, i)
      /\ Target(i) \in StepPaths(i) /\ Taken(i) \in StepPaths(i)
  <2>1. journal.inflight = i /\ proc = "apply"
    BY DEF ImagePrepared, CreatePublishes, ReplaceTakesSource, ReplacePublishes, MoveTakesSource,
           MovePublishes, Runs, InApply, Applying
  <2>2. i \in 1 .. Count /\ journal.dir = "apply"
    BY <2>1, StepInFlight DEF MigrationInv, JournalInv
  <2>3. Target(i) \in StepPaths(i) /\ Taken(i) \in StepPaths(i)
    BY <2>2, EndsTypes, ProgramShape
  <2> QED  BY <2>1, <2>2, <2>3, NoneUndone DEF EndsInv, WorkInv
<1>2. Holds(i, "publish") => Claim(i, "publish") = Image(i)
  BY DEF Holds, Claim, MigrationInv, OwnInv
<1>3. CASE ImagePrepared(i)
  BY <1>1, <1>3, PreparedEnds DEF ImagePrepared, ClaimKinds
<1>4. CASE CreatePublishes(i)
  <2>1. CASE Abandon
    BY <1>1, <2>1, GivesUpEnds
  <2>2. CASE Publish(i, "publish", Target(i))
    <3>1. Kind(i) = "create" /\ Holds(i, "publish") /\ Publishes(i) = Image(i)
      BY <1>4 DEF CreatePublishes, Publishes
    <3> QED  BY <1>1, <1>2, <2>2, <3>1, PublishedEnds
  <2> QED  BY <1>4, <2>1, <2>2 DEF CreatePublishes
<1>5. CASE ReplaceTakesSource(i)
  <2>1. CASE Conflict(i)
    BY <1>1, <2>1, GivesUpEnds
  <2>2. CASE CheckLeaf(i, Target(i), "source", Before(i))
    <3>1. Kind(i) = "replace" /\ Target(i) = Taken(i)
      BY <1>5 DEF ReplaceTakesSource, Taken
    <3>2. PICK path \in StepPaths(i) : path = Target(i)
      BY <1>1
    <3> QED  BY <1>1, <2>2, <3>1, <3>2, CheckedEnds
  <2> QED  BY <1>5, <2>1, <2>2 DEF ReplaceTakesSource
<1>6. CASE ReplacePublishes(i)
  <2>1. CASE Abandon
    BY <1>1, <2>1, GivesUpEnds
  <2>2. CASE Publish(i, "publish", Target(i))
    <3>1. Kind(i) = "replace" /\ Holds(i, "publish") /\ Publishes(i) = Image(i)
      BY <1>6 DEF ReplacePublishes, Publishes
    <3> QED  BY <1>1, <1>2, <2>2, <3>1, PublishedEnds
  <2> QED  BY <1>6, <2>1, <2>2 DEF ReplacePublishes
<1>7. CASE MoveTakesSource(i)
  <2>1. CASE Abandon \/ Conflict(i)
    BY <1>1, <2>1, GivesUpEnds
  <2>2. CASE CheckLeaf(i, Source(i), "source", Before(i))
    <3>1. Kind(i) = "move" /\ Source(i) = Taken(i)
      BY <1>7 DEF MoveTakesSource, Taken
    <3>2. PICK path \in StepPaths(i) : path = Source(i)
      BY <1>1, <3>1
    <3> QED  BY <1>1, <2>2, <3>1, <3>2, CheckedEnds
  <2> QED  BY <1>7, <2>1, <2>2 DEF MoveTakesSource
<1>8. CASE MovePublishes(i)
  <2>1. CASE Abandon \/ Conflict(i)
    BY <1>1, <2>1, GivesUpEnds
  <2>2. CASE Publish(i, "source", Target(i)) /\ ~ (at = "top" /\ Present(Source(i)))
    <3>1. /\ Claim(i, "source") = Before(i) \/ Abandon
          /\ Publishes(i) = Before(i) \/ Abandon
      BY <1>8 DEF MovePublishes, ExactClaim, Publishes
    <3>2. Kind(i) = "move" /\ at \in {"top", "claimed"}
      BY <1>8 DEF MovePublishes, Runs
    <3>3. Untouched(Source(i)) => ~ Present(Source(i))
      BY <1>1, <2>2, <3>2 DEF Knows
    <3> QED  BY <1>1, <2>1, <2>2, <3>1, <3>2, <3>3, PublishedEnds
  <2> QED  BY <1>8, <2>1, <2>2 DEF MovePublishes
<1> QED  BY <1>3, <1>4, <1>5, <1>6, <1>7, <1>8

LEMMA ApplyEnds ==
  ASSUME MigrationInv, EndsInv, ApplyNext
  PROVE  EndsInv'
BY ApplyLoopEnds, ApplyReceiptsEnd, MkdirEnds, ApplyFilesEnd DEF ApplyNext, ApplyStep

-----------------------------------------------------------------------------
(* Backward.                                                               *)

LEMMA RequestEnds ==
  ASSUME MigrationInv, EndsInv, RequestRollback
  PROVE  EndsInv'
<1> PICK h : h = NextRollbackRequested(journal)
  OBVIOUS
<1>1. /\ proc # "idle" /\ CanRequestRollback(journal) /\ AppendGeneration(h)
      /\ h.phase = "rollback_requested"
  BY EndsTypes
  DEF RequestRollback, RollingBack, NextRollbackRequested, Generation, GenerationFields
<1>2. /\ Tally(h) /\ h.dir = "rollback" /\ journal.dir = "apply"
      /\ \A i \in 1 .. Count :
           /\ Ahead(h, i) => Ahead(journal, i)
           /\ Done(h, i) => Done(journal, i)
           /\ Starting(h, i) => Starting(journal, i)
           /\ Recorded(h, i)
  BY <1>1, EndsTypes, RequestTallies DEF EndsInv, RecordInv
<1>3. ASSUME NEW i \in 1 .. Count, Starting(journal, i) PROVE Flying(h, i)
  <2>1. journal.inflight = i /\ i # None /\ Flying(journal, i)
    BY <1>3, EndsTypes DEF Starting, EndsInv, FlightInv
  <2>2. receipt["apply"][i] = None \/ Prepublication(i)
    BY <2>1 DEF RequestRollback
  <2>3. ~ (Untouched(Target(i)) /\ Kind(i) = "mkdir" /\ Present(Target(i)))
    BY <2>1, <2>2 DEF Flying, Prepublication, Holds
  <2> QED  BY <2>1, <2>3 DEF Flying
<1> QED  BY <1>1, <1>2, <1>3, AppendGoesOn, TurnEnds

LEMMA RollbackLoopEnds ==
  ASSUME MigrationInv, EndsInv,
         \/ PromoteReceipt \/ RequestRollback \/ ScopeLost
         \/ RollbackIntent \/ RollbackFinish \/ RollbackDone
  PROVE  EndsInv'
<1>1. CASE PromoteReceipt
  <2> PICK i : i = journal.inflight
    OBVIOUS
  <2>1. /\ i \in 1 .. Count /\ proc # "idle" /\ journal.dir = "apply" /\ receipt["apply"][i] # None
    BY <1>1, EndsTypes DEF PromoteReceipt, RollingBack, Generation
  <2>2. CASE Abandon \/ Conflict(i)
    BY <2>1, <2>2, GivesUpEnds
  <2>3. CASE AppliedVisible(i) /\ AppendGeneration(NextApplyReceipt(journal, receipt["apply"][i]))
    BY <2>1, <2>3, VisibleIsPublished, ReceivedEnds
  <2> QED  BY <1>1, <2>2, <2>3 DEF PromoteReceipt
<1>2. CASE RequestRollback
  BY <1>2, RequestEnds
<1>3. CASE ScopeLost
  BY <1>3, GivesUpEnds DEF ScopeLost, RollingBack
<1>4. CASE RollbackIntent
  <2> PICK h : h = NextRollbackIntent(journal)
    OBVIOUS
  <2>1. /\ proc # "idle" /\ CanIntendRollback(journal) /\ AppendGeneration(h)
        /\ h.phase = "rolling_back"
    BY <1>4, EndsTypes
    DEF RollbackIntent, RollingBack, NextRollbackIntent, Generation, GenerationFields
  <2>2. /\ Tally(h)
        /\ \A i \in 1 .. Count :
             /\ Ahead(h, i) => Ahead(journal, i)
             /\ Done(h, i) => Done(journal, i)
             /\ ~ Starting(h, i)
             /\ Recorded(h, i)
    BY <2>1, EndsTypes, UndoTallies DEF EndsInv, RecordInv
  <2> QED  BY <2>1, <2>2, AppendGoesOn, TurnEnds
<1>5. CASE RollbackFinish
  <2> PICK h : h = NextRolledBack(journal)
    OBVIOUS
  <2>1. proc # "idle" /\ CanFinishRollback(journal) /\ AppendGeneration(h)
    BY <1>5 DEF RollbackFinish, RollingBack
  <2>2. SameTurn(journal, h) /\ Tally(h) /\ h.phase = "rolled_back"
    BY <2>1, EndsTypes, EndTallies DEF NextRolledBack, Generation, GenerationFields
  <2> QED  BY <2>1, <2>2, LastTurnEnds
<1>6. CASE RollbackDone
  <2>1. CASE Abandon
    BY <1>6, <2>1, GivesUpEnds DEF RollbackDone, RollingBack
  <2>2. CASE /\ plan' = "rolled_back" /\ proc' = "idle" /\ at' = "top"
             /\ UNCHANGED <<program, journal, files, private, userVars, aim>>
    <3>1. SameFiles /\ UNCHANGED <<receipt, claims, journal>> /\ Begun
      BY <1>6, <2>2
      DEF EndsInv, FitsInv, RollbackDone, RollingBack, SameFiles, files, private, userVars
    <3> QED  BY <2>2, <3>1, SteadyEnds, SameTurnHolds
  <2> QED  BY <1>6, <2>1, <2>2 DEF RollbackDone
<1> QED  BY <1>1, <1>2, <1>3, <1>4, <1>5, <1>6

\* An undone step is receipted once what it gives back is visible.
LEMMA ReceiptedEnds ==
  ASSUME MigrationInv, EndsInv, proc # "idle", NEW i \in 1 .. Count, journal.inflight = i,
         journal.dir = "rollback", HasReceipt(journal, i), NEW id \in Ids, Receipted(i, id),
         \A p \in StepPaths(i) : Untouched(p) => AsRestored(i, p)
  PROVE  EndsInv'
<1> PICK r : r = [after |-> id]
  OBVIOUS
<1>1. r # None
  BY NoneIsNoRecord DEF UndoneReceipt, Ids
<1>2. /\ SameFiles /\ UNCHANGED <<journal, claims, aim, proc>> /\ at' = "receipted"
      /\ receipt' = [receipt EXCEPT !["rollback"][i] = r]
  BY DEF Receipted, PersistReceipt, SameFiles, files, userVars, Rests
<1> QED  BY <1>1, <1>2, ReceiptEnds

LEMMA InvertedEnds ==
  ASSUME MigrationInv, EndsInv, proc # "idle", NEW i \in 1 .. Count, journal.inflight = i,
         journal.dir = "rollback", HasReceipt(journal, i), receipt["rollback"][i] # None,
         AppendGeneration(NextRollbackReceipt(journal, receipt["rollback"][i].after))
  PROVE  EndsInv'
<1> PICK h, id : id = receipt["rollback"][i].after /\ h = NextRollbackReceipt(journal, id)
  OBVIOUS
<1>1. AppendGeneration(h) /\ h.phase = "rolling_back"
  BY EndsTypes DEF NextRollbackReceipt, Generation, GenerationFields
<1>2. /\ Tally(h)
      /\ \A j \in 1 .. Count :
           /\ Ahead(h, j) => Ahead(journal, j)
           /\ Done(h, j) => Done(journal, j)
           /\ ~ Starting(h, j)
           /\ Recorded(h, j)
  BY EndsTypes, InverseTallies DEF EndsInv, RecordInv
<1> QED  BY <1>1, <1>2, AppendGoesOn, TurnEnds

\* A directory is kept for what people did below it.
LEMMA KeptIsTouched ==
  ASSUME MigrationInv, EndsInv, proc # "idle", NEW i \in 1 .. Count, KeptFor(i) # {}
  PROVE  ~ Untouched(Target(i))
<1>1. PICK a \in {journal.aborted} \ {None} :
        /\ Kind(a) \in {"mkdir", "create"} /\ Target(i) \in Beneath[Target(a)] /\ Present(Target(a))
  BY DEF KeptFor
<1>2. a \in 1 .. Count /\ program \in Programs /\ Begun
  BY <1>1, EndsTypes DEF Tally, EndsInv, FitsInv
<1>3. Target(a) \in Paths /\ Target(i) \in Paths /\ Target(a) \in StepPaths(a)
  BY <1>2, ProgramShape
<1>4. receipt["abort"][a] # None /\ Target(a) \notin Initial
  BY <1>1, <1>2 DEF EndsInv, RecordInv, Recorded, FitsInv
<1>5. ~ Untouched(Target(a))
  <2> SUFFICES ASSUME Untouched(Target(a)) PROVE FALSE
    OBVIOUS
  <2>1. AsBefore(Target(a))
    BY <1>2, <1>3, <1>4 DEF EndsInv, SettledInv, SettledAt
  <2> QED  BY <1>1, <1>4, <2>1 DEF AsBefore
<1>6. PICK q \in touched : q = Target(a) \/ Target(a) \in Beneath[q]
  BY <1>5 DEF Untouched
<1>7. q \in Paths
  BY DEF EndsInv, FitsInv
<1>8. Target(i) \in Beneath[q]
  BY <1>1, <1>3, <1>6, <1>7, BeneathGoesUp
<1> QED  BY <1>8 DEF Untouched

LEMMA RestoredEnds ==
  ASSUME MigrationInv, EndsInv, proc # "idle", NEW i \in 1 .. Count, journal.inflight = i,
         journal.dir = "rollback", HasReceipt(journal, i), receipt["rollback"][i] = None,
         receipt["abort"][i] = None, Kind(i) \in {"replace", "move"},
         Kind(i) = "move" => ~ Present(Target(i)),
         Claim(i, "restore") = Restore(i), Publish(i, "restore", Taken(i))
  PROVE  EndsInv'
<1>1. /\ program \in Programs /\ Taken(i) \in Paths /\ Taken(i) \in StepPaths(i) /\ i \in Steps
      /\ tree \in [Paths -> Ids] /\ Target(i) \in Paths
      /\ Kind(i) = "move" => Taken(i) # Target(i)
      /\ ~ Starting(journal, i)
  BY EndsTypes, ProgramShape DEF Starting, Taken
<1>2. \A j : Restore(i) = Restore(j) => i = j
  BY DEF Restore
<1>3. ASSUME UNCHANGED <<program, journal, touched>>, at' = "published",
             \A q \in Paths : q # Taken(i) => tree'[q] = tree[q]
      PROVE  Knows(journal, i)'
  BY <1>1, <1>3, ProgramKeeps DEF Knows, Present
<1>4. CASE at' = "published" /\ LinkVisible(i, "restore", Taken(i))
  <2>1. /\ tree' = [tree EXCEPT ![Taken(i)] = Restore(i)] /\ at' = "published"
        /\ UNCHANGED <<program, journal, edited, touched, receipt, proc>>
    BY <1>4 DEF LinkVisible, private, Rests, userVars
  <2> PICK id : id = Restore(i)
    OBVIOUS
  <2>2. PICK path \in StepPaths(i) : path = Taken(i)
    BY <1>1
  <2>3. tree' = [tree EXCEPT ![path] = id]
    BY <2>1, <2>2
  <2>4. \A j \in 1 .. Count : id = Restore(j) => path = Taken(j)
    BY <1>2, <2>2
  <2>5. Knows(journal, i)'
    BY <1>1, <1>3, <2>1
  <2>6. /\ UNCHANGED <<program, journal, edited, touched, receipt, proc>> /\ at' # "checked"
        /\ Starting(journal, i) => Flying(journal, i)'
    BY <1>1, <2>1
  <2> QED  BY <2>3, <2>4, <2>5, <2>6, VisibleEnds
<1>5. CASE at' = "published" /\ UNCHANGED <<journal, files, private>> /\ Rests
  <2>1. /\ UNCHANGED <<program, journal, tree, edited, touched, receipt, proc>> /\ at' = "published"
    BY <1>5 DEF files, private, Rests, userVars
  <2>2. Knows(journal, i)'
    BY <1>3, <2>1
  <2>3. \A j \in 1 .. Count, q \in Paths : tree'[q] = Restore(j) => q = Taken(j)
    BY <2>1 DEF EndsInv, RestorePlace
  <2> QED  BY <1>1, <2>1, <2>2, <2>3, MovedEnds
<1>6. CASE Conflict(i)
  BY <1>6, GivesUpEnds
<1> QED  BY <1>4, <1>5, <1>6 DEF Publish

LEMMA InvertsMkdirEnds ==
  ASSUME MigrationInv, EndsInv, proc # "idle", NEW i \in 1 .. Count, journal.inflight = i,
         journal.dir = "rollback", HasReceipt(journal, i), receipt["abort"][i] = None,
         ReceiptIdentity(journal, i) \in Ids, InvertMkdir(i) \/ InvertCreate(i)
  PROVE  EndsInv'
<1> PICK id : id = ReceiptIdentity(journal, i)
  OBVIOUS
<1>1. /\ receipt["rollback"][i] = None /\ StepPaths(i) = {Target(i)} /\ None \in Ids
      /\ Kind(i) \in {"mkdir", "create"}
  BY DEF InvertMkdir, InvertCreate, Inverting, StepPaths, Ids
<1>2. PICK path \in StepPaths(i) : path = Target(i)
  BY <1>1
<1>3. CASE Abandon \/ Conflict(i)
  BY <1>3, GivesUpEnds
<1>4. CASE Receipted(i, id) /\ KeptFor(i) # {}
  <2>1. \A p \in StepPaths(i) : ~ Untouched(p)
    BY <1>1, <1>4, KeptIsTouched
  <2> QED  BY <1>4, <2>1, ReceiptedEnds
<1>5. CASE Receipted(i, None) /\ ~ Present(Target(i))
  <2>1. \A p \in StepPaths(i) : AsRestored(i, p)
    BY <1>1, <1>5 DEF AsRestored
  <2> QED  BY <1>1, <1>5, <2>1, ReceiptedEnds
<1>6. CASE /\ CheckLeaf(i, path, "rollback", id)
           /\ Kind(i) = "mkdir" => Children(path) = {}
  BY <1>1, <1>6, CheckedEnds
<1>7. CASE InvertMkdir(i)
  BY <1>2, <1>3, <1>4, <1>5, <1>6, <1>7 DEF InvertMkdir
<1>8. CASE InvertCreate(i)
  <2>1. Kind(i) # "mkdir"
    BY <1>8 DEF InvertCreate
  <2> QED  BY <1>2, <1>3, <1>5, <1>6, <1>8, <2>1 DEF InvertCreate
<1> QED  BY <1>7, <1>8

LEMMA RestoresEnd ==
  ASSUME MigrationInv, EndsInv, proc # "idle", NEW i \in 1 .. Count, journal.inflight = i,
         journal.dir = "rollback", HasReceipt(journal, i), receipt["abort"][i] = None,
         \/ RestorePrepared(i) \/ RestorePublishes(i) \/ RestoreFound(i) \/ RestoreReceipted(i)
  PROVE  EndsInv'
<1>1. /\ Claim(i, "restore") \in {None, Restore(i)} /\ Restore(i) \in Ids /\ Restore(i) # None
      /\ Knows(journal, i)
  <2>1. i \in Steps
    BY EndsTypes
  <2> QED  BY <2>1, InodesDiffer DEF Claim, MigrationInv, OwnInv, Ids, EndsInv, WorkInv
<1>2. CASE Abandon \/ Conflict(i)
  BY <1>2, GivesUpEnds
<1>3. CASE RestorePrepared(i)
  BY <1>3, PreparedEnds DEF RestorePrepared, ClaimKinds
<1>4. CASE RestorePublishes(i) /\ Publish(i, "restore", Taken(i))
  <2>1. /\ Kind(i) \in {"replace", "move"}
        /\ Kind(i) = "move" => ~ Present(Target(i))
        /\ receipt["rollback"][i] = None /\ Holds(i, "restore")
    BY <1>4 DEF RestorePublishes, Restores, Inverting
  <2> QED  BY <1>1, <1>4, <2>1, RestoredEnds DEF Holds
<1>5. ASSUME Receipted(i, Restore(i)), tree[Taken(i)] = Restore(i), Restore(i) \notin edited,
             Kind(i) \in {"replace", "move"},
             Kind(i) = "move" => (Untouched(Target(i)) => ~ Present(Target(i)))
      PROVE  EndsInv'
  <2>1. \A p \in StepPaths(i) : Untouched(p) => AsRestored(i, p)
    BY <1>5 DEF AsRestored, StepPaths, Taken
  <2> QED  BY <1>1, <1>5, <2>1, ReceiptedEnds
<1>6. CASE /\ RestoreFound(i) /\ Receipted(i, Claim(i, "restore"))
           /\ Holds(i, "restore") /\ ExactAt(Taken(i), Claim(i, "restore"), 2)
  <2>1. Claim(i, "restore") = Restore(i)
    BY <1>1, <1>6 DEF Holds
  <2>2. tree[Taken(i)] = Restore(i) /\ Restore(i) \notin edited
    BY <1>6, <2>1 DEF ExactAt, Shows
  <2>3. /\ Kind(i) \in {"replace", "move"}
        /\ Kind(i) = "move" => ~ Present(Target(i))
    BY <1>6 DEF RestoreFound, Restores
  <2> QED  BY <1>5, <1>6, <2>1, <2>2, <2>3
<1>7. CASE RestoreReceipted(i) /\ Receipted(i, Restore(i)) /\ ExactAt(Taken(i), Restore(i), 2)
  <2>1. Kind(i) \in {"replace", "move"} /\ at = "published"
    BY <1>7 DEF RestoreReceipted
  <2>2. Kind(i) = "move" => (Untouched(Target(i)) => ~ Present(Target(i)))
    BY <1>1, <2>1 DEF Knows
  <2> QED  BY <1>5, <1>7, <2>1, <2>2 DEF ExactAt, Shows
<1>8. CASE RestorePublishes(i)
  BY <1>2, <1>4, <1>8 DEF RestorePublishes
<1>9. CASE RestoreFound(i)
  BY <1>2, <1>6, <1>9 DEF RestoreFound
<1>10. CASE RestoreReceipted(i)
  BY <1>2, <1>7, <1>10 DEF RestoreReceipted
<1> QED  BY <1>3, <1>8, <1>9, <1>10

LEMMA InversesEnd ==
  ASSUME MigrationInv, EndsInv, NEW i \in Steps, RollbackStep(i)
  PROVE  EndsInv'
<1>1. journal.inflight = i /\ proc # "idle" /\ journal.dir = "rollback" /\ HasReceipt(journal, i)
  BY DEF RollbackStep, InverseDisplaced, InverseJournaled, InverseVerified, InvertMkdir,
         InvertCreate, TakesPublished, RestoreRefused, RestorePrepared, RestorePublishes,
         RestoreFound, RestoreReceipted, Restores, Inverting, Inverts, InFlight, RollingBack
<1>2. i \in 1 .. Count /\ Tally(journal) /\ Receipts(journal) \in Nat /\ i <= Receipts(journal)
  BY <1>1, StepInFlight, EndsTypes, TallyTypes
<1>3. receipt["abort"][i] = None /\ Knows(journal, i)
  BY <1>1, <1>2 DEF EndsInv, RecordInv, Recorded, WorkInv
<1>4. ReceiptIdentity(journal, i) \in Ids
  BY <1>1, <1>2 DEF Tally, ReceiptIdentity, Receipts, HasReceipt
<1>5. Target(i) \in StepPaths(i)
  BY <1>2, EndsTypes, ProgramShape
<1>6. CASE Abandon \/ Conflict(i)
  BY <1>1, <1>6, GivesUpEnds
<1>7. CASE InverseJournaled(i)
  <2>1. receipt["rollback"][i] # None
    BY <1>1, <1>3, <1>7 DEF InverseJournaled, Knows
  <2> QED  BY <1>1, <1>2, <1>7, <2>1, InvertedEnds DEF InverseJournaled
<1>8. CASE InverseVerified(i)
  BY <1>1, <1>2, <1>6, <1>8, InvertedEnds DEF InverseVerified
<1>9. CASE InvertMkdir(i) \/ InvertCreate(i)
  BY <1>1, <1>2, <1>3, <1>4, <1>9, InvertsMkdirEnds
<1>10. CASE TakesPublished(i)
  <2> PICK id : id = ReceiptIdentity(journal, i)
    OBVIOUS
  <2> PICK path \in StepPaths(i) : path = Target(i)
    BY <1>5
  <2>1. Kind(i) # "mkdir" /\ receipt["rollback"][i] = None
    BY <1>10 DEF TakesPublished, Inverting
  <2>2. CASE CheckLeaf(i, path, "rollback", id)
    BY <1>1, <1>2, <1>3, <2>1, <2>2, CheckedEnds
  <2> QED  BY <1>6, <1>10, <2>2 DEF TakesPublished
<1>11. CASE InverseDisplaced(i) \/ RestoreRefused(i)
  BY <1>6, <1>11 DEF InverseDisplaced, RestoreRefused
<1>12. CASE RestorePrepared(i) \/ RestorePublishes(i) \/ RestoreFound(i) \/ RestoreReceipted(i)
  BY <1>1, <1>2, <1>3, <1>12, RestoresEnd
<1> QED  BY <1>7, <1>8, <1>9, <1>10, <1>11, <1>12 DEF RollbackStep

-----------------------------------------------------------------------------
(* Aborting.                                                               *)

\* What the number of names of a visible inode says of where they are.
LEMMA NamesCounted ==
  ASSUME NEW id, NEW p \in Paths, tree[p] = id
  PROVE  /\ Links(id) = 1 => /\ \A q \in Paths : tree[q] = id => q = p
                             /\ \A c \in Claims : claims[c] # id
         /\ Links(id) = 2 => \A c, d \in Claims : claims[c] = id /\ claims[d] = id => c = d
<1> PICK n, m : n = Cardinality(PathNames(id)) /\ m = Cardinality(ClaimNames(id))
  OBVIOUS
<1>1. /\ IsFiniteSet(PathNames(id)) /\ IsFiniteSet(ClaimNames(id)) /\ n \in Nat /\ m \in Nat
      /\ Links(id) = n + m
  BY NamesAreFinite, FS_CardinalityType DEF Links, PathNames, ClaimNames
<1>2. p \in PathNames(id)
  BY DEF PathNames
<1>3. n # 0
  BY <1>1, <1>2, FS_EmptySet
<1>4. CASE Links(id) = 1
  <2>1. n = 1 /\ m = 0
    BY <1>1, <1>3, <1>4
  <2>2. ClaimNames(id) = {} /\ \E x : PathNames(id) = {x}
    BY <1>1, <2>1, FS_EmptySet, FS_Singleton
  <2> QED  BY <1>2, <1>4, <2>2 DEF PathNames, ClaimNames
<1>5. CASE Links(id) = 2
  <2>1. m \in {0, 1}
    BY <1>1, <1>3, <1>5
  <2>2. ClaimNames(id) = {} \/ \E x : ClaimNames(id) = {x}
    BY <1>1, <2>1, FS_EmptySet, FS_Singleton
  <2> QED  BY <1>5, <2>2 DEF ClaimNames
<1> QED  BY <1>4, <1>5

\* An aborted step is receipted once what it touched is as it was.
LEMMA AbortedEnds ==
  ASSUME MigrationInv, EndsInv, proc # "idle", NEW i \in 1 .. Count, journal.inflight = i,
         journal.dir = "rollback", ~ HasReceipt(journal, i), NEW kinds \in SUBSET ClaimKinds,
         AbortReceipts(i, kinds), Apart(i), \A p \in StepPaths(i) : Untouched(p) => AsBefore(p)
  PROVE  EndsInv'
<1> PICK r : r = [claims |-> kinds]
  OBVIOUS
<1>1. r # None
  BY NoneIsNoRecord DEF AbortReceipt
<1>2. /\ SameFiles /\ UNCHANGED <<journal, claims, aim, proc>> /\ at' = "receipted"
      /\ receipt' = [receipt EXCEPT !["abort"][i] = r]
  BY DEF AbortReceipts, PersistReceipt, SameFiles, files, userVars, Rests
<1> QED  BY <1>1, <1>2, ReceiptEnds

LEMMA AbortTurnEnds ==
  ASSUME MigrationInv, EndsInv, proc # "idle", NEW i \in 1 .. Count, journal.inflight = i,
         receipt["abort"][i] # None, CanAbort(journal), AppendGeneration(NextAbortedApply(journal))
  PROVE  EndsInv'
<1> PICK h : h = NextAbortedApply(journal)
  OBVIOUS
<1>1. AppendGeneration(h) /\ h.phase = "rollback_requested"
  BY EndsTypes DEF NextAbortedApply, Generation, GenerationFields
<1>2. /\ Tally(h)
      /\ \A j \in 1 .. Count :
           /\ Ahead(h, j) => Ahead(journal, j)
           /\ Done(h, j) => Done(journal, j)
           /\ ~ Starting(h, j)
           /\ Recorded(h, j)
  BY EndsTypes, AbortTallies DEF EndsInv, RecordInv
<1> QED  BY <1>1, <1>2, AppendGoesOn, TurnEnds

LEMMA ClearedEnds ==
  ASSUME MigrationInv, EndsInv, proc # "idle", NEW i \in 1 .. Count, journal.inflight = i,
         journal.dir = "rollback", at \in {"top", "claimed"}, NEW k, RemoveClaim(i, k),
         Kind(i) = "create" => tree[Target(i)] # Image(i)
  PROVE  EndsInv'
<1>1. SameFiles /\ UNCHANGED <<journal, receipt, proc, at>>
  BY DEF RemoveClaim, SameFiles, files, userVars, Rests
<1>2. Starting(journal, i) => Flying(journal, i)'
  BY <1>1, FilesStayAs DEF EndsInv, FlightInv, Flying, SameFiles, Image
<1> QED  BY <1>1, <1>2, ClaimEnds

\* The step whose apply is being aborted.
LEMMA AbortedStep ==
  ASSUME MigrationInv, EndsInv, NEW i \in Steps, Aborts(i)
  PROVE  /\ i \in 1 .. Count /\ journal.inflight = i /\ proc # "idle" /\ journal.dir = "rollback"
         /\ ~ HasReceipt(journal, i) /\ receipt["rollback"][i] = None /\ Flying(journal, i)
         /\ Target(i) \in StepPaths(i) /\ Taken(i) \in StepPaths(i) /\ StepPaths(i) \subseteq Paths
         /\ Kind(i) # "replace" => Target(i) \notin Initial
         /\ Kind(i) \in {"replace", "move"} => Taken(i) \in Initial
         /\ Claim(i, "publish") \in {None, Image(i)} /\ Image(i) # None /\ Image(i) \in Inodes
<1>1. /\ i \in 1 .. Count /\ program \in Programs /\ journal.inflight = i /\ proc # "idle"
      /\ journal.dir = "rollback" /\ ~ HasReceipt(journal, i)
  BY StepInFlight DEF Aborts, InFlight, RollingBack
<1>2. receipt["rollback"][i] = None /\ Flying(journal, i)
  BY <1>1 DEF EndsInv, RecordInv, Recorded, FlightInv, Starting
<1>3. /\ Kind(i) # "replace" => Target(i) \notin Initial
      /\ Kind(i) \in {"replace", "move"} => Taken(i) \in Initial
  BY <1>1 DEF EndsInv, FitsInv
<1>4. Claim(i, "publish") \in {None, Image(i)} /\ Image(i) # None /\ Image(i) \in Inodes
  BY InodesDiffer DEF MigrationInv, OwnInv, Claim
<1> QED  BY <1>1, <1>2, <1>3, <1>4, ProgramShape

LEMMA AbortedCreationsEnd ==
  ASSUME MigrationInv, EndsInv, NEW i \in Steps, AbortMkdir(i) \/ AbortCreate(i)
  PROVE  EndsInv'
<1>1. /\ Aborts(i) /\ at \in {"top", "claimed"} /\ receipt["abort"][i] = None
      /\ Kind(i) \in {"mkdir", "create"} /\ Apart(i) /\ StepPaths(i) = {Target(i)}
  BY DEF AbortMkdir, AbortCreate, Aborting, Apart, StepPaths
<1>2. /\ i \in 1 .. Count /\ journal.inflight = i /\ proc # "idle" /\ journal.dir = "rollback"
      /\ ~ HasReceipt(journal, i) /\ receipt["rollback"][i] = None /\ Flying(journal, i)
      /\ Target(i) \in StepPaths(i) /\ Target(i) \in Paths /\ Target(i) \notin Initial
      /\ Claim(i, "publish") \in {None, Image(i)} /\ Image(i) # None
  BY <1>1, AbortedStep
<1>3. ASSUME Untouched(Target(i)) => ~ Present(Target(i)),
             NEW kinds \in SUBSET ClaimKinds, AbortReceipts(i, kinds)
      PROVE  EndsInv'
  <2>1. \A p \in StepPaths(i) : Untouched(p) => AsBefore(p)
    BY <1>1, <1>2, <1>3 DEF AsBefore
  <2> QED  BY <1>1, <1>2, <1>3, <2>1, AbortedEnds
<1>4. CASE AbortMkdir(i)
  <2>1. Untouched(Target(i)) => ~ Present(Target(i))
    BY <1>2, <1>4 DEF Flying, AbortMkdir
  <2>2. HeldKinds(i) \in SUBSET ClaimKinds
    BY DEF HeldKinds
  <2>3. CASE AbortReceipts(i, HeldKinds(i))
    BY <1>3, <2>1, <2>2, <2>3
  <2>4. CASE RemoveClaim(i, "publish")
    BY <1>1, <1>2, <1>4, <2>4, ClearedEnds DEF AbortMkdir
  <2> QED  BY <1>4, <2>3, <2>4 DEF AbortMkdir
<1>5. CASE AbortCreate(i)
  <2> PICK id : id = Claim(i, "publish")
    OBVIOUS
  <2> PICK path \in StepPaths(i) : path = Target(i)
    BY <1>2
  <2>1. Kind(i) = "create" /\ Publishes(i) = Image(i)
    BY <1>5 DEF AbortCreate, Publishes
  <2>2. tree[Target(i)] # Image(i) => (Untouched(Target(i)) => ~ Present(Target(i)))
    BY <1>2, <2>1 DEF Flying, Present
  <2>3. CASE ~ Holds(i, "publish") /\ AbortReceipts(i, {})
    <3>1. tree[Target(i)] # Image(i)
      BY <1>2, <2>1, <2>3 DEF Flying
    <3>2. {} \in SUBSET ClaimKinds
      OBVIOUS
    <3> QED  BY <1>3, <2>2, <2>3, <3>1, <3>2
  <2>4. CASE Abandon
    BY <1>2, <2>4, GivesUpEnds
  <2>5. CASE /\ Holds(i, "publish") /\ Claim(i, "rollback") = id /\ Links(id) = 2
             /\ AbortReceipts(i, {"publish", "rollback"})
    <3>1. id = Image(i) /\ claims[<<i, "publish">>] = id /\ claims[<<i, "rollback">>] = id
      BY <1>2, <2>5 DEF Holds, Claim
    <3>2. /\ <<i, "publish">> \in Claims /\ <<i, "rollback">> \in Claims
          /\ <<i, "publish">> # <<i, "rollback">>
      BY SlotsAreClaims DEF ClaimKinds
    <3>3. tree[Target(i)] # Image(i)
      BY <1>2, <2>5, <3>1, <3>2, NamesCounted
    <3>4. {"publish", "rollback"} \in SUBSET ClaimKinds
      BY DEF ClaimKinds
    <3> QED  BY <1>3, <2>2, <2>5, <3>3, <3>4
  <2>6. CASE CheckLeaf(i, path, "rollback", id)
    <3>1. Kind(i) # "mkdir" /\ journal.dir # "apply"
      BY <1>2, <2>1
    <3> QED  BY <1>1, <1>2, <2>6, <3>1, CheckedEnds
  <2>7. CASE /\ Holds(i, "publish") /\ id \notin edited /\ ~ Shows(Target(i), id)
             /\ RemoveClaim(i, "publish")
    <3>1. tree[Target(i)] # Image(i)
      BY <1>2, <2>7 DEF Holds, Shows
    <3> QED  BY <1>1, <1>2, <2>7, <3>1, ClearedEnds
  <2> QED  BY <1>5, <2>3, <2>4, <2>5, <2>6, <2>7 DEF AbortCreate
<1> QED  BY <1>4, <1>5

\* An aborted replacement or move has its own inode put back.
LEMMA OriginalEnds ==
  ASSUME MigrationInv, EndsInv, proc # "idle", NEW i \in 1 .. Count, journal.inflight = i,
         journal.dir = "rollback", receipt["rollback"][i] = None, receipt["abort"][i] = None,
         Flying(journal, i), at \in {"top", "claimed"}, NEW path \in StepPaths(i), NEW id,
         path = Target(i) => Kind(i) = "replace", Kind(i) \in {"replace", "move"},
         id = Original(path), tree' = [tree EXCEPT ![path] = id],
         UNCHANGED <<program, journal, edited, touched, receipt, proc, at>>
  PROVE  EndsInv'
<1>1. Kind(i) # "replace" => tree'[Target(i)] = tree[Target(i)]
  OBVIOUS
<1>2. Flying(journal, i)'
  BY <1>1, ProgramKeeps DEF Flying, Untouched
<1>3. Knows(journal, i)'
  BY ProgramKeeps DEF Knows
<1>4. \A j \in 1 .. Count : id = Restore(j) => path = Taken(j)
  BY InodesDiffer
<1>5. at' # "checked" /\ (Starting(journal, i) => Flying(journal, i)')
  BY <1>2
<1> QED  BY <1>3, <1>4, <1>5, VisibleEnds

LEMMA AbortedReplacementsEnd ==
  ASSUME MigrationInv, EndsInv, NEW i \in Steps, AbortReplaceUntaken(i) \/ AbortReplaceTaken(i)
  PROVE  EndsInv'
<1>1. /\ Aborts(i) /\ at \in {"top", "claimed"} /\ receipt["abort"][i] = None
      /\ Kind(i) = "replace" /\ Apart(i) /\ StepPaths(i) = {Target(i)} /\ Taken(i) = Target(i)
      /\ Before(i) = Original(Target(i))
  BY DEF AbortReplaceUntaken, AbortReplaceTaken, Aborting, Apart, StepPaths, Taken, Before
<1>2. /\ i \in 1 .. Count /\ journal.inflight = i /\ proc # "idle" /\ journal.dir = "rollback"
      /\ ~ HasReceipt(journal, i) /\ receipt["rollback"][i] = None /\ Flying(journal, i)
      /\ Target(i) \in StepPaths(i) /\ Target(i) \in Paths /\ Target(i) \in Initial
  BY <1>1, AbortedStep
<1>3. CASE Abandon \/ Conflict(i)
  BY <1>2, <1>3, GivesUpEnds
<1>4. ASSUME NEW k, RemoveClaim(i, k) PROVE EndsInv'
  BY <1>1, <1>2, <1>4, ClearedEnds
<1>5. CASE GivenBack(i) /\ AbortReceipts(i, HeldKinds(i))
  <2>1. \A p \in StepPaths(i) : AsBefore(p)
    BY <1>1, <1>2, <1>5 DEF GivenBack, ExactAt, Shows, AsBefore
  <2>2. HeldKinds(i) \in SUBSET ClaimKinds
    BY DEF HeldKinds
  <2> QED  BY <1>1, <1>2, <1>5, <2>1, <2>2, AbortedEnds
<1>6. CASE CheckLeaf(i, Target(i), "rollback", Claim(i, "publish"))
  <2> PICK id : id = Claim(i, "publish")
    OBVIOUS
  <2> PICK path \in StepPaths(i) : path = Target(i)
    BY <1>2
  <2>1. CheckLeaf(i, path, "rollback", id) /\ Kind(i) # "mkdir" /\ journal.dir # "apply"
    BY <1>1, <1>2, <1>6
  <2> QED  BY <1>1, <1>2, <2>1, CheckedEnds
<1>7. CASE Claim(i, "source") = Before(i) /\ RenameVisible(i, "source", Target(i))
  <2> PICK path \in StepPaths(i) : path = Target(i)
    BY <1>2
  <2> PICK id : id = Original(path)
    OBVIOUS
  <2>1. /\ tree' = [tree EXCEPT ![path] = id]
        /\ UNCHANGED <<program, journal, edited, touched, receipt, proc, at>>
    BY <1>1, <1>7 DEF RenameVisible, Rests, userVars
  <2> QED  BY <1>1, <1>2, <2>1, OriginalEnds
<1>8. CASE AbortReplaceUntaken(i)
  BY <1>3, <1>4, <1>5, <1>8 DEF AbortReplaceUntaken
<1>9. CASE AbortReplaceTaken(i)
  <2>1. \/ Conflict(i) \/ Abandon \/ RemoveClaim(i, "publish") \/ RemoveClaim(i, "source")
        \/ CheckLeaf(i, Target(i), "rollback", Claim(i, "publish"))
        \/ Claim(i, "source") = Before(i) /\ RenameVisible(i, "source", Target(i))
    BY <1>9 DEF AbortReplaceTaken, ExactClaim
  <2> QED  BY <1>3, <1>4, <1>6, <1>7, <2>1
<1> QED  BY <1>8, <1>9

LEMMA AbortedMovesEnd ==
  ASSUME MigrationInv, EndsInv, NEW i \in Steps, AbortMoveUntaken(i) \/ AbortMoveTaken(i)
  PROVE  EndsInv'
<1>1. /\ Aborts(i) /\ at \in {"top", "claimed"} /\ receipt["abort"][i] = None
      /\ Kind(i) = "move" /\ StepPaths(i) = {Source(i), Target(i)} /\ Taken(i) = Source(i)
      /\ Before(i) = Original(Source(i)) /\ Publishes(i) = Before(i)
  BY DEF AbortMoveUntaken, AbortMoveTaken, Aborting, StepPaths, Taken, Before, Publishes
<1>2. /\ i \in 1 .. Count /\ journal.inflight = i /\ proc # "idle" /\ journal.dir = "rollback"
      /\ ~ HasReceipt(journal, i) /\ receipt["rollback"][i] = None /\ Flying(journal, i)
      /\ Source(i) \in StepPaths(i) /\ Source(i) \in Paths /\ Source(i) \in Initial
      /\ Target(i) \in StepPaths(i) /\ Target(i) \in Paths /\ Target(i) \notin Initial
  BY <1>1, AbortedStep
<1>3. Source(i) # Target(i)
  BY <1>1, <1>2, EndsTypes, ProgramShape
<1>4. CASE Abandon \/ Conflict(i)
  BY <1>2, <1>4, GivesUpEnds
<1>5. ASSUME NEW k, RemoveClaim(i, k) PROVE EndsInv'
  BY <1>1, <1>2, <1>5, ClearedEnds
<1>6. CASE GivenBack(i) /\ AbortReceipts(i, {})
  <2>1. /\ tree[Source(i)] = Before(i) /\ Before(i) \notin edited /\ Before(i) # None
        /\ Links(Before(i)) = 1
    BY <1>1, <1>6 DEF GivenBack, ExactAt, Shows
  <2>2. tree[Target(i)] # Before(i)
    BY <1>2, <1>3, <2>1, NamesCounted
  <2>3. Untouched(Target(i)) => ~ Present(Target(i))
    BY <1>1, <1>2, <2>2 DEF Flying, Present
  <2>4. \A p \in StepPaths(i) : Untouched(p) => AsBefore(p)
    BY <1>1, <1>2, <2>1, <2>3 DEF AsBefore
  <2>5. Apart(i) /\ {} \in SUBSET ClaimKinds
    BY <2>2 DEF Apart
  <2> QED  BY <1>1, <1>2, <1>6, <2>4, <2>5, AbortedEnds
<1>7. CASE CheckLeaf(i, Target(i), "rollback", Before(i))
  <2> PICK id : id = Before(i)
    OBVIOUS
  <2> PICK path \in StepPaths(i) : path = Target(i)
    BY <1>2
  <2>1. CheckLeaf(i, path, "rollback", id) /\ Kind(i) # "mkdir" /\ journal.dir # "apply"
    BY <1>1, <1>2, <1>7
  <2> QED  BY <1>1, <1>2, <2>1, CheckedEnds
<1>8. CASE Claim(i, "source") = Before(i) /\ LinkVisible(i, "source", Source(i)) /\ UNCHANGED at
  <2> PICK path \in StepPaths(i) : path = Source(i)
    BY <1>2
  <2> PICK id : id = Original(path)
    OBVIOUS
  <2>1. /\ tree' = [tree EXCEPT ![path] = id]
        /\ UNCHANGED <<program, journal, edited, touched, receipt, proc, at>>
    BY <1>1, <1>8 DEF LinkVisible, Rests, private, userVars
  <2> QED  BY <1>1, <1>2, <1>3, <2>1, OriginalEnds
<1>9. CASE AbortMoveUntaken(i)
  BY <1>4, <1>6, <1>9 DEF AbortMoveUntaken
<1>10. CASE AbortMoveTaken(i)
  <2>1. \/ Conflict(i) \/ Abandon \/ RemoveClaim(i, "rollback") \/ RemoveClaim(i, "source")
        \/ CheckLeaf(i, Target(i), "rollback", Before(i))
        \/ /\ Claim(i, "source") = Before(i)
           /\ LinkVisible(i, "source", Source(i)) /\ UNCHANGED at
    BY <1>10 DEF AbortMoveTaken
  <2> QED  BY <1>4, <1>5, <1>7, <1>8, <2>1
<1> QED  BY <1>9, <1>10

LEMMA AbortsEnd ==
  ASSUME MigrationInv, EndsInv, NEW i \in Steps, AbortStep(i)
  PROVE  EndsInv'
<1>1. CASE AbortDisplaced(i)
  <2>1. proc # "idle"
    BY <1>1, AbortedStep DEF AbortDisplaced
  <2> QED  BY <1>1, <2>1, GivesUpEnds DEF AbortDisplaced
<1>2. CASE AbortJournaled(i)
  <2>1. i \in 1 .. Count /\ journal.inflight = i /\ proc # "idle" /\ receipt["abort"][i] # None
    BY <1>2, AbortedStep DEF AbortJournaled
  <2>2. CASE Abandon \/ Conflict(i)
    BY <2>1, <2>2, GivesUpEnds
  <2>3. CASE CanAbort(journal) /\ AppendGeneration(NextAbortedApply(journal))
    BY <2>1, <2>3, AbortTurnEnds
  <2> QED  BY <1>2, <2>2, <2>3 DEF AbortJournaled
<1>3. CASE AbortMkdir(i) \/ AbortCreate(i)
  BY <1>3, AbortedCreationsEnd
<1>4. CASE AbortReplaceUntaken(i) \/ AbortReplaceTaken(i)
  BY <1>4, AbortedReplacementsEnd
<1>5. CASE AbortMoveUntaken(i) \/ AbortMoveTaken(i)
  BY <1>5, AbortedMovesEnd
<1> QED  BY <1>1, <1>2, <1>3, <1>4, <1>5 DEF AbortStep

LEMMA RollbackEnds ==
  ASSUME MigrationInv, EndsInv, RollbackNext
  PROVE  EndsInv'
BY RollbackLoopEnds, InversesEnd, AbortsEnd DEF RollbackNext

-----------------------------------------------------------------------------
(* The end.                                                                *)

LEMMA EndsInit ==
  ASSUME Init
  PROVE  EndsInv
<1> PICK g : g = journal
  OBVIOUS
<1>1. /\ g.dir = "apply" /\ g.phase = "absent" /\ g.cursor = 0 /\ g.inflight = None
      /\ g.applied = <<>> /\ g.aborted = None /\ Receipts(g) = 0 /\ ~ Begun
  BY DEF Init, Absent, Prepared, Receipts, Begun
<1>2. /\ program \in Programs /\ Count \in Nat /\ 1 .. Count \subseteq Steps
      /\ \A i \in 1 .. Count : i \in Nat /\ i > 0 /\ i # None
  BY ProgramShape, InodesDiffer DEF Init
<1>3. Tally(journal)
  BY <1>1 DEF Tally
<1>4. \A i \in 1 .. Count : ~ Done(g, i) /\ ~ Starting(g, i) /\ ~ Inverted(g, i)
  BY <1>1, <1>2 DEF Done, Starting, HasReceipt, Inverted
<1>5. /\ DOMAIN receipt = {"apply", "rollback", "abort"}
      /\ \A d \in DOMAIN receipt : DOMAIN receipt[d] = Steps
      /\ \A d \in DOMAIN receipt, i \in 1 .. Count : receipt[d][i] = None
  BY <1>2 DEF Init
<1>6. RecordInv
  BY <1>1, <1>2, <1>4, <1>5 DEF RecordInv, Recorded
<1>7. FitsInv
  BY <1>1 DEF Init, FitsInv
<1>8. SettledInv
  <2>1. ASSUME NEW p \in Paths PROVE AsBefore(p)
    BY DEF Init, AsBefore, Present
  <2>2. ASSUME NEW i \in 1 .. Count PROVE Apart(i)
    <3>1. ASSUME Kind(i) = "move" PROVE tree[Target(i)] # Before(i)
      <4>1. Target(i) \in Paths /\ Source(i) \in Paths /\ Source(i) # Target(i)
            /\ Before(i) = Original(Source(i))
        BY <1>2, <3>1, ProgramShape DEF Before, Taken
      <4> QED  BY <4>1, InodesDiffer DEF Init
    <3> QED  BY <3>1 DEF Apart
  <2> QED  BY <1>4, <1>5, <2>1, <2>2 DEF SettledInv, SettledAt
<1>9. FlightInv
  BY <1>4 DEF FlightInv
<1>10. WorkInv
  BY <1>1, <1>2 DEF Init, WorkInv
<1>11. RestorePlace
  <2>1. ASSUME NEW i \in 1 .. Count, NEW q \in Paths PROVE tree[q] # Restore(i)
    BY <1>2, InodesDiffer DEF Init
  <2> QED  BY <2>1 DEF RestorePlace
<1> QED  BY <1>3, <1>6, <1>7, <1>8, <1>9, <1>10, <1>11 DEF EndsInv

\* Nothing goes on.
LEMMA NothingEnds ==
  ASSUME EndsInv, UNCHANGED vars
  PROVE  EndsInv'
<1>1. SameFiles /\ UNCHANGED <<journal, receipt, claims, at, aim, proc>>
  BY DEF vars, SameFiles, files, private, userVars
<1>2. \A i : /\ Ahead(journal, i)' <=> Ahead(journal, i)
             /\ Done(journal, i)' <=> Done(journal, i)
             /\ Starting(journal, i)' <=> Starting(journal, i)
             /\ HasReceipt(journal, i)' <=> HasReceipt(journal, i)
             /\ Inverted(journal, i)' <=> Inverted(journal, i)
  BY <1>1 DEF Ahead, Done, Starting, HasReceipt, Inverted, Receipts
<1>3. Tally(journal)'
  BY <1>1, FilesStayAs
  DEF EndsInv, Tally, Receipts, Ids, Inodes, Steps, Original, Image, Restore, Users
<1>4. RecordInv'
  <2>1. ASSUME NEW i \in 1 .. Count
        PROVE  receipt'["apply"][i] \in {None, Publishes(i)'} /\ Recorded(journal, i)'
    BY <1>1, <1>2, FilesStayAs DEF EndsInv, RecordInv, Recorded, Receipts
  <2> QED  BY <1>1, <2>1, FilesStayAs DEF EndsInv, RecordInv, Steps
<1>5. FitsInv'
  BY <1>1, FilesStayAs DEF EndsInv, FitsInv, Begun, SameFiles
<1>6. SettledInv'
  <2>1. ASSUME NEW p \in Paths, NEW i \in 1 .. Count
        PROVE  SettledAt(journal, i, p)' <=> SettledAt(journal, i, p)
    BY <1>1, <1>2, FilesStayAs DEF SettledAt
  <2> QED  BY <1>1, <1>2, <2>1, FilesStayAs DEF EndsInv, SettledInv
<1>7. FlightInv'
  <2>1. ASSUME NEW i \in 1 .. Count, Flying(journal, i) PROVE Flying(journal, i)'
    BY <1>1, <2>1, FilesStayAs DEF Flying, SameFiles, Holds, Claim, Image
  <2> QED  BY <1>1, <1>2, <2>1, FilesStayAs DEF EndsInv, FlightInv
<1>8. WorkInv'
  <2>1. ASSUME NEW i \in 1 .. Count, Knows(journal, i) PROVE Knows(journal, i)'
    BY <1>1, <1>2, <2>1, FilesStayAs DEF Knows
  <2>2. ASSUME NEW i \in 1 .. Count, Takes(journal, i) PROVE Takes(journal, i)'
    BY <1>1, <2>2, FilesStayAs DEF Takes, SameFiles
  <2> QED  BY <1>1, <2>1, <2>2, FilesStayAs DEF EndsInv, WorkInv
<1>9. RestorePlace'
  BY <1>1, FilesStayAs DEF EndsInv, RestorePlace, SameFiles, Restore
<1> QED  BY <1>3, <1>4, <1>5, <1>6, <1>7, <1>8, <1>9 DEF EndsInv

LEMMA EndsStep ==
  ASSUME MigrationInv, EndsInv, [Next]_vars
  PROVE  EndsInv'
<1>1. CASE Prepare
  BY <1>1, PrepareEnds
<1>2. CASE Recover \/ Rollback \/ Crash
  BY <1>2, CommandsEnd
<1>3. CASE ApplyNext
  BY <1>3, ApplyEnds
<1>4. CASE RollbackNext
  BY <1>4, RollbackEnds
<1>5. CASE RenameIntoClaim
  BY <1>5, TakenEnds
<1>6. CASE proc # "idle" /\ FinishPublication
  BY <1>6, PublicationFinishEnds
<1>7. CASE Begun /\ UserActs
  BY <1>7, PeopleEnd
<1>8. CASE UNCHANGED vars
  BY <1>8, NothingEnds
<1> QED  BY <1>1, <1>2, <1>3, <1>4, <1>5, <1>6, <1>7, <1>8 DEF Next, Works, PeopleWork

LEMMA EndsRestored ==
  ASSUME MigrationInv, EndsInv
  PROVE  RolledBackRestores
<1> SUFFICES ASSUME journal.phase = "rolled_back", NEW p \in Paths, Untouched(p)
             PROVE  IF p \in Initial THEN tree[p] \in RestoredTo(p) /\ tree[p] \notin edited
                    ELSE ~ Present(p)
  BY DEF RolledBackRestores
<1>1. /\ journal.dir = "rollback" /\ journal.cursor = 0 /\ journal.inflight = None /\ Begun
      /\ program \in Programs /\ Receipts(journal) \in Nat
      /\ \A i \in 1 .. Count : i \in Nat /\ i > 0 /\ i # None
      /\ \A i \in 1 .. Count : HasReceipt(journal, i) <=> i <= Receipts(journal)
  BY EndsTypes, TallyTypes DEF EndsInv, Tally, Begun
<1>2. CASE AsBefore(p)
  BY <1>2 DEF AsBefore, RestoredTo
<1>3. CASE \E i \in 1 .. Count : p \in StepPaths(i)
  <2> PICK i \in 1 .. Count : p \in StepPaths(i)
    BY <1>3
  <2>1. SettledAt(journal, i, p) /\ Recorded(journal, i)
    BY DEF EndsInv, SettledInv, RecordInv
  <2>2. CASE HasReceipt(journal, i)
    <3>1. AsRestored(i, p)
      BY <1>1, <2>1, <2>2 DEF Inverted, HasReceipt, Recorded, SettledAt
    <3>2. /\ Kind(i) \in {"replace", "move"} => Taken(i) \in Initial
          /\ Kind(i) # "replace" => Target(i) \notin Initial
          /\ Kind(i) \in {"mkdir", "create", "replace", "move"}
      BY <1>1, ProgramShape DEF EndsInv, FitsInv
    <3>3. CASE p = Taken(i) /\ Kind(i) \in {"replace", "move"}
      BY <3>1, <3>2, <3>3 DEF AsRestored, RestoredTo
    <3>4. CASE ~ (p = Taken(i) /\ Kind(i) \in {"replace", "move"})
      <4>1. p = Target(i) /\ Kind(i) # "replace"
        BY <3>2, <3>4 DEF StepPaths, Taken
      <4> QED  BY <3>1, <3>2, <3>4, <4>1 DEF AsRestored
    <3> QED  BY <3>3, <3>4
  <2>3. CASE ~ HasReceipt(journal, i)
    <3>1. Ahead(journal, i) \/ journal.aborted = i
      BY <1>1, <2>3 DEF Ahead
    <3> QED  BY <1>2, <2>1, <3>1 DEF Recorded, SettledAt
  <2> QED  BY <2>2, <2>3
<1>4. CASE \A i \in 1 .. Count : p \notin StepPaths(i)
  BY <1>2, <1>4 DEF EndsInv, SettledInv
<1> QED  BY <1>3, <1>4

LEMMA EndsApplied ==
  ASSUME MigrationInv, EndsInv
  PROVE  AppliedHolds
<1> SUFFICES ASSUME journal.phase = "applied", NEW p \in Paths, Untouched(p)
             PROVE  tree[p] = Outcome(p)
  BY DEF AppliedHolds
<1>1. /\ journal.dir = "apply" /\ journal.cursor = Count /\ Receipts(journal) = Count
      /\ program \in Programs
      /\ \A i \in 1 .. Count : HasReceipt(journal, i) <=> i <= Receipts(journal)
  BY EndsTypes, TallyTypes DEF EndsInv, Tally
<1>2. Count \in Nat /\ \A i \in 1 .. Count : Done(journal, i)
  BY <1>1, EndsTypes DEF Done, Inverted
<1> DEFINE on == {k \in 1 .. Count : p \in StepPaths(k)}
<1>3. CASE on = {}
  <2>1. AsBefore(p)
    BY <1>3 DEF EndsInv, SettledInv
  <2> QED  BY <1>3, <2>1 DEF AsBefore, Outcome, Present
<1>4. CASE on # {}
  <2> DEFINE k == CHOOSE k \in on : TRUE
  <2>1. k \in 1 .. Count /\ p \in StepPaths(k)
    BY <1>4
  <2>2. AsPublished(k, p)
    BY <1>2, <2>1 DEF EndsInv, SettledInv, SettledAt
  <2>3. Outcome(p) = IF p = Target(k) THEN Publishes(k) ELSE None
    BY <1>4 DEF Outcome
  <2> QED  BY <2>2, <2>3 DEF AsPublished
<1> QED  BY <1>3, <1>4

\* However often it is interrupted, and whatever people do meanwhile, a migration that
\* ends has applied its whole program, or restored what was there before it, at every
\* path where people changed neither the path nor anything below it
\* (execute_transaction_v1_apply_with_hook and its rollback counterpart).
THEOREM EndsAlwaysAsPromised == Spec => []EndsAsPromised
<1>1. Init => EndsInv
  BY EndsInit
<1>2. MigrationInv /\ EndsInv /\ [Next]_vars => EndsInv'
  BY EndsStep
<1>3. MigrationInv /\ EndsInv => EndsAsPromised
  BY EndsRestored, EndsApplied DEF EndsAsPromised
<1> QED  BY <1>1, <1>2, <1>3, MigrationInvariance, PTL DEF Spec

-----------------------------------------------------------------------------
(* What opening a transaction may rely on: the inductive invariant.  While *)
(* it applies and nobody interferes, every private artifact is accounted   *)
(* for by the generation, or belongs to a stage it was not yet told of.    *)

\* The stage, its record of ownership and the binding come and go in their order.
BindingOpen ==
  /\ \A c \in Claims : staged[c] # None => c \in owned
  /\ ~ Begun => owned = {}
  /\ journal.pub = None /\ proc # "idle" /\ at # "staged" => owned = {}
  /\ at = "staged" =>
       LET slot == <<journal.inflight, "publish">> IN
       owned = {slot} /\ staged[slot] # None /\ claims[slot] = None
       /\ Kind(journal.inflight) \in {"create", "replace"}
  /\ journal.pub # None =>
       LET bound == journal.pub IN
       /\ bound.dir = "apply" /\ bound.kind = "publish" /\ bound.step \in 1 .. Count
       /\ Kind(bound.step) \in {"create", "replace"} /\ owned \subseteq {Slot(bound)}
       /\ bound.step = journal.inflight \/ HasReceipt(journal, bound.step)
       /\ Slot(bound) \notin owned => HasReceipt(journal, bound.step)
       /\ Slot(bound) \in owned => ((claims[Slot(bound)] = None) <=> (staged[Slot(bound)] # None))
ReceiptsOpen ==
  \A i \in 1 .. Count :
    /\ HasReceipt(journal, i) =>
         receipt["apply"][i] # None /\ receipt["apply"][i] = ReceiptIdentity(journal, i)
    /\ receipt["apply"][i] # None => HasReceipt(journal, i) \/ journal.inflight = i
\* A directory leaves its claim for good before the journal takes up its receipt.
ClaimsOpen ==
  \A i \in 1 .. Count :
    /\ HeldKinds(i) \subseteq ApplyKinds(i)
    /\ HeldKinds(i) # {} =>
         journal.inflight = i \/ (HasReceipt(journal, i) /\ Kind(i) # "mkdir")
    /\ receipt["apply"][i] # None /\ Kind(i) # "mkdir" => ApplyKinds(i) \subseteq HeldKinds(i)
CallOpen ==
  LET i == journal.inflight IN
  /\ at # "top" => proc = "apply" /\ i # None
  /\ at \in {"published", "receipted"} => Kind(i) # "mkdir" /\ ApplyKinds(i) \subseteq HeldKinds(i)
  /\ at = "receipted" => receipt["apply"][i] # None
  /\ at = "checked" => Kind(i) \in {"replace", "move"} /\ aim.claim = <<i, "source">>

OpenParts == edited = {} /\ BindingOpen /\ ReceiptsOpen /\ ClaimsOpen /\ CallOpen
OpenInv == journal.dir = "apply" /\ touched = {} => OpenParts

\* Where a transaction that applies stands: the first steps have receipts, at most the
\* next one is in flight, and nothing was undone or aborted.
LEMMA AppliesTypes ==
  ASSUME MigrationInv, EndsInv, journal.dir = "apply"
  PROVE  /\ program \in Programs /\ Count \in Nat /\ 1 .. Count \subseteq Steps
         /\ DOMAIN journal = GenerationFields /\ Receipts(journal) \in Nat
         /\ journal.inflight \in {None, Receipts(journal) + 1} /\ journal.inflight \in {None} \cup 1 .. Count
         /\ None \notin 1 .. Count /\ journal.aborted = None /\ journal.cursor = Receipts(journal)
         /\ \A i \in 1 .. Count : /\ receipt["rollback"][i] = None /\ receipt["abort"][i] = None
                                  /\ HasReceipt(journal, i) <=> i <= Receipts(journal)
                                  /\ HasReceipt(journal, i) => journal.inflight # i
         /\ DOMAIN receipt = {"apply", "rollback", "abort"}
         /\ \A d \in DOMAIN receipt : DOMAIN receipt[d] = Steps
<1>1. Generation(journal) /\ Tally(journal) /\ program \in Programs /\ RecordInv
  BY DEF MigrationInv, JournalInv, EndsInv
<1>2. Count \in Nat /\ 1 .. Count \subseteq Steps
  BY <1>1, ProgramShape
<1>3. /\ Receipts(journal) \in Nat /\ journal.inflight \in {None} \cup 1 .. Count
      /\ None \notin Nat
      /\ \A i \in 1 .. Count : i \in Nat /\ i > 0 /\ (HasReceipt(journal, i) <=> i <= Receipts(journal))
  BY <1>1, <1>2, TallyTypes
<1>4. /\ journal.cursor = Receipts(journal) /\ journal.aborted = None
      /\ journal.inflight \in {None, Receipts(journal) + 1}
  BY <1>1 DEF Tally
<1>5. \A i \in 1 .. Count : receipt["rollback"][i] = None /\ receipt["abort"][i] = None
  BY <1>1 DEF RecordInv, Recorded
<1>6. DOMAIN journal = GenerationFields
  BY <1>1 DEF Generation
<1>7. None \notin 1 .. Count /\ \A i \in 1 .. Count : HasReceipt(journal, i) => journal.inflight # i
  BY <1>2, <1>3, <1>4
<1> QED  BY <1>1, <1>2, <1>3, <1>4, <1>5, <1>6, <1>7 DEF RecordInv

LEMMA ClaimKindsOfSteps ==
  ASSUME NEW i \in Steps
  PROVE  /\ <<i, "publish">> \in Claims /\ <<i, "source">> \in Claims
         /\ \A k \in ClaimKinds : <<i, k>> \in Claims
         /\ \A k : k \in HeldKinds(i) <=> k \in ClaimKinds /\ claims[<<i, k>>] # None
         /\ "publish" \in ClaimKinds /\ "source" \in ClaimKinds
         /\ Kind(i) \in {"create", "replace"} => "publish" \in ApplyKinds(i)
         /\ Kind(i) \in {"mkdir", "create"} => ApplyKinds(i) = {"publish"}
         /\ Kind(i) = "replace" => ApplyKinds(i) = {"publish", "source"}
         /\ Kind(i) = "move" => ApplyKinds(i) = {"source"}
<1>1. /\ Kind(i) \in {"mkdir", "create"} => ApplyKinds(i) = {"publish"}
      /\ Kind(i) = "replace" => ApplyKinds(i) = {"publish", "source"}
      /\ Kind(i) = "move" => ApplyKinds(i) = {"source"}
  BY DEF ApplyKinds
<1> QED  BY <1>1 DEF Claims, ClaimKinds, HeldKinds, Holds, Claim

\* While it is reopened: a transaction whose stage is not a stranded one is admitted.
LEMMA OpenIsAdmitted ==
  ASSUME MigrationInv, EndsInv, OpenParts, proc = "idle", Begun, journal.dir = "apply",
         journal.pub # None \/ Artifacts = {}
  PROVE  ReopenOK
<1>1. ActivePublicationAdmitted
  <2>1. CASE journal.pub = None
    BY <2>1 DEF ActivePublicationAdmitted
  <2>2. CASE journal.pub # None
    <3> DEFINE b == journal.pub
               slot == Slot(b)
    <3>1. /\ b.dir = "apply" /\ b.kind = "publish" /\ b.step \in 1 .. Count
          /\ Kind(b.step) \in {"create", "replace"} /\ owned \subseteq {slot}
          /\ slot \notin owned => HasReceipt(journal, b.step)
          /\ slot \in owned => ((claims[slot] = None) <=> (staged[slot] # None))
          /\ \A c \in Claims : staged[c] # None => c \in owned
          /\ edited = {}
      BY <2>2 DEF OpenParts, BindingOpen
    <3>2. /\ b.step \in Steps /\ journal.aborted = None /\ None \notin 1 .. Count
          /\ receipt["abort"][b.step] = None
      BY <3>1, AppliesTypes
    <3>3. PublicationReceipted(journal, b) <=> HasReceipt(journal, b.step)
      BY <3>1, <3>2 DEF PublicationReceipted
    <3>4. Artifacts \subseteq {slot}
      BY <3>1 DEF Artifacts
    <3>5. PublicationReceipted(journal, b) \/ receipt[b.dir][b.step] # None =>
            claims[slot] # None
      <4>1. PublicationReceipted(journal, b) \/ receipt[b.dir][b.step] # None =>
              receipt["apply"][b.step] # None
        BY <3>1, <3>3 DEF OpenParts, ReceiptsOpen
      <4>2. receipt["apply"][b.step] # None => "publish" \in HeldKinds(b.step)
        BY <3>1, <3>2, ClaimKindsOfSteps DEF OpenParts, ClaimsOpen
      <4> QED  BY <3>1, <3>2, <4>1, <4>2, ClaimKindsOfSteps DEF Slot
    <3>6. slot \in owned =>
            IF PublicationReceipted(journal, b) \/ receipt[b.dir][b.step] # None
            THEN ReceiptedPublication(slot) ELSE ReconciledPublication(slot)
      BY <3>1, <3>5 DEF ReceiptedPublication, ReconciledPublication
    <3> QED  BY <2>2, <3>1, <3>2, <3>3, <3>4, <3>6 DEF ActivePublicationAdmitted
  <2> QED  BY <2>1, <2>2
<1>2. journaledInverse(journal) = {} /\ ReceiptsOf("rollback") = {} /\ ReceiptsOf("abort") = {}
      /\ journal.aborted = None
  BY AppliesTypes DEF journaledInverse, ReceiptsOf, Inverted
<1>3. /\ 1 .. Receipts(journal) \subseteq 1 .. Count
      /\ \A i \in 1 .. Receipts(journal) : i \in 1 .. Count /\ HasReceipt(journal, i)
  <2>1. Receipts(journal) <= Count
    BY DEF MigrationInv, JournalInv, Generation, EndsInv, Tally
  <2> QED  BY <2>1, AppliesTypes DEF HasReceipt
<1>4. ReceiptSetAdmitted
  <2>1. Accounted("apply", journaledApply(journal), AheadApply(journal))
    <3>1. AheadApply(journal) = {journal.inflight} \ {None}
      BY DEF AheadApply, InFlightStep
    <3>2. ReceiptsOf("apply") \subseteq journaledApply(journal) \cup AheadApply(journal)
      BY <3>1, AppliesTypes DEF ReceiptsOf, OpenParts, ReceiptsOpen, journaledApply, HasReceipt
    <3>3. journaledApply(journal) \subseteq ReceiptsOf("apply")
      BY <1>3 DEF ReceiptsOf, OpenParts, ReceiptsOpen, journaledApply
    <3> QED  BY <3>2, <3>3 DEF Accounted
  <2>2. Accounted("rollback", journaledInverse(journal), AheadInverse(journal))
    BY <1>2 DEF Accounted
  <2>3. Accounted("abort", {journal.aborted} \ {None}, AheadAbort(journal))
    BY <1>2 DEF Accounted
  <2>4. \A i \in journaledApply(journal) : receipt["apply"][i] = ReceiptIdentity(journal, i)
    BY <1>3 DEF OpenParts, ReceiptsOpen, journaledApply
  <2> QED  BY <1>2, <2>1, <2>2, <2>3, <2>4 DEF ReceiptSetAdmitted
<1>5. ClaimSetAdmitted
  <2> SUFFICES ASSUME NEW i \in 1 .. Count
               PROVE  /\ HeldKinds(i) \subseteq ApplyClaimsAllowed(journal, i)
                                       \cup InverseClaimsAllowed(journal, i)
                                       \cup AbortClaims(i) \cup ActiveKind(journal, i)
                      /\ ApplyClaimsRequired(journal, i) \cup InverseClaimsRequired(journal, i)
                           \cup AbortClaims(i) \subseteq HeldKinds(i)
    BY DEF ClaimSetAdmitted
  <2>1. i \in Steps /\ receipt["rollback"][i] = None /\ receipt["abort"][i] = None
        /\ ~ Inverted(journal, i) /\ None \notin 1 .. Count
        /\ (HasReceipt(journal, i) => journal.inflight # i)
    BY AppliesTypes DEF Inverted
  <2>2. InverseClaimsRequired(journal, i) = {} /\ AbortClaims(i) = {}
    BY <2>1 DEF InverseClaimsRequired, AbortClaims
  <2>3. /\ HeldKinds(i) \subseteq ApplyKinds(i)
        /\ HeldKinds(i) # {} =>
             journal.inflight = i \/ (HasReceipt(journal, i) /\ Kind(i) # "mkdir")
        /\ receipt["apply"][i] # None /\ Kind(i) # "mkdir" => ApplyKinds(i) \subseteq HeldKinds(i)
        /\ HasReceipt(journal, i) => receipt["apply"][i] # None
    BY DEF OpenParts, ClaimsOpen, ReceiptsOpen
  <2>4. HeldKinds(i) # {} => ApplyClaimsAllowed(journal, i) = ApplyKinds(i)
    BY <2>1, <2>3 DEF ApplyClaimsAllowed, InFlightStep, journaledApply, HasReceipt
  <2>5. ApplyClaimsRequired(journal, i) \subseteq HeldKinds(i)
    BY <2>3 DEF ApplyClaimsRequired
  <2> QED  BY <2>2, <2>3, <2>4, <2>5
<1>6. DirectoriesAccountedFor /\ AbortAccountedFor
  BY <1>2 DEF DirectoriesAccountedFor, AbortAccountedFor
<1> QED  BY <1>1, <1>4, <1>5, <1>6 DEF ReopenOK

-----------------------------------------------------------------------------
(* What a step leaves of it.                                               *)

\* The files a transaction keeps to itself, and whether people edited one.
SameClaims == UNCHANGED <<program, claims, edited>>
SamePrivate == SameClaims /\ UNCHANGED <<staged, owned, receipt>>

LEMMA ClaimsStayAs ==
  ASSUME SameClaims
  PROVE  /\ Count' = Count
         /\ \A i : /\ Kind(i)' = Kind(i) /\ ApplyKinds(i)' = ApplyKinds(i)
                   /\ HeldKinds(i)' = HeldKinds(i)
         /\ \A b : Slot(b)' = Slot(b)
<1>1. Count' = Count /\ \A i : Kind(i)' = Kind(i)
  BY ProgramStays DEF SameClaims
<1>2. \A i : ApplyKinds(i)' = ApplyKinds(i)
  BY <1>1 DEF ApplyKinds
<1>3. \A i : HeldKinds(i)' = HeldKinds(i)
  BY DEF SameClaims, HeldKinds, Holds, Claim, ClaimKinds
<1> QED  BY <1>1, <1>2, <1>3 DEF Slot

LEMMA TurnStaysAs ==
  ASSUME SameTurn(journal, journal')
  PROVE  /\ \A i : /\ HasReceipt(journal, i)' <=> HasReceipt(journal, i)
                   /\ ReceiptIdentity(journal, i)' = ReceiptIdentity(journal, i)
         /\ journal'.inflight = journal.inflight /\ journal'.dir = journal.dir
BY DEF SameTurn, HasReceipt, Receipts, ReceiptIdentity

\* The private files stay, and what the generation says of the steps and the binding:
\* the command gives up, or starts, or goes on from the top.
LEMMA SteadyOpens ==
  ASSUME MigrationInv, EndsInv, OpenParts, journal.dir = "apply", SamePrivate,
         SameTurn(journal, journal'), journal'.pub = journal.pub, at' = "top", Begun',
         journal.pub = None => owned = {} \/ proc' = "idle"
  PROVE  OpenParts'
<1>1. SameClaims /\ UNCHANGED <<staged, owned, receipt>>
  BY DEF SamePrivate
<1>2. BindingOpen'
  BY <1>1, ClaimsStayAs, TurnStaysAs DEF OpenParts, BindingOpen, SameClaims
<1>3. ReceiptsOpen'
  BY <1>1, ClaimsStayAs, TurnStaysAs DEF OpenParts, ReceiptsOpen
<1>4. ClaimsOpen'
  BY <1>1, ClaimsStayAs, TurnStaysAs DEF OpenParts, ClaimsOpen
<1>5. CallOpen' /\ edited' = {}
  BY <1>1 DEF CallOpen, OpenParts, SameClaims
<1> QED  BY <1>2, <1>3, <1>4, <1>5 DEF OpenParts

\* A running command whose transaction has no binding has no stage but the one it is making.
LEMMA NothingOwned ==
  ASSUME MigrationInv, EndsInv, OpenParts, journal.dir = "apply", proc # "idle", at # "staged"
  PROVE  journal.pub = None => owned = {}
BY DEF OpenParts, BindingOpen

\* Unless it has to be finished first, the binding is that of the step in flight.
LEMMA BoundInFlight ==
  ASSUME MigrationInv, EndsInv, OpenParts, journal.dir = "apply", ~ FinishesPublication,
         journal.pub # None
  PROVE  journal.pub.step = journal.inflight /\ journal.pub.step \in 1 .. Count
         /\ ~ HasReceipt(journal, journal.pub.step)
BY DEF OpenParts, BindingOpen, FinishesPublication, PublicationReceipted

LEMMA GivesUpOpens ==
  ASSUME MigrationInv, EndsInv, OpenParts, journal.dir = "apply", proc # "idle",
         Abandon \/ \E i : Conflict(i)
  PROVE  OpenParts'
<1>1. /\ SamePrivate /\ at' = "top" /\ proc' = "idle" /\ Begun
  BY DEF EndsInv, FitsInv, Abandon, Conflict, SamePrivate, SameClaims, files, private
<1>2. /\ SameTurn(journal, journal') /\ journal'.pub = journal.pub
      /\ journal'.phase \in {journal.phase, "conflicted"}
  <2>1. CASE Abandon
    BY <2>1, SameTurnHolds DEF Abandon
  <2>2. ASSUME NEW seen, journal' = NextConflicted(journal, seen)
        PROVE  /\ SameTurn(journal, journal') /\ journal'.pub = journal.pub
               /\ journal'.phase \in {journal.phase, "conflicted"}
    <3>1. DOMAIN journal = GenerationFields
      BY AppliesTypes
    <3> QED  BY <2>2, <3>1 DEF NextConflicted, SameTurn, GenerationFields
  <2>3. CASE \E i : Conflict(i)
    BY <2>2, <2>3 DEF Conflict
  <2> QED  BY <2>1, <2>2, <2>3
<1>3. Begun'
  BY <1>1, <1>2 DEF Begun
<1> QED  BY <1>1, <1>2, <1>3, SteadyOpens

\* The journal takes up the receipt of the step in flight, which has left its claim if it
\* made a directory.
LEMMA ReceivedOpens ==
  ASSUME MigrationInv, EndsInv, OpenParts, journal.dir = "apply", proc # "idle", at # "staged",
         NEW i \in 1 .. Count, journal.inflight = i, receipt["apply"][i] # None,
         Kind(i) = "mkdir" => ~ Holds(i, "publish"),
         AppendGeneration(NextApplyReceipt(journal, receipt["apply"][i]))
  PROVE  OpenParts'
<1>1. SameClaims /\ UNCHANGED <<staged, owned, receipt, proc>> /\ at' = "top" /\ Begun
      /\ journal' = NextApplyReceipt(journal, receipt["apply"][i])
  BY DEF EndsInv, FitsInv, AppendGeneration, SameClaims, files, private, Rests
<1>2. /\ DOMAIN journal = GenerationFields /\ Receipts(journal) \in Nat /\ Count \in Nat
      /\ i = Receipts(journal) + 1 /\ i \in Steps
      /\ \A k \in 1 .. Count : HasReceipt(journal, k) <=> k <= Receipts(journal)
      /\ journal.applied \in Seq(Ids)
  BY AppliesTypes DEF EndsInv, Tally
<1>3. /\ journal'.applied = Append(journal.applied, receipt["apply"][i])
      /\ journal'.inflight = None /\ journal'.pub = journal.pub /\ journal'.phase = "applying"
  BY <1>1, <1>2 DEF NextApplyReceipt, GenerationFields
<1>4. \A k \in 1 .. Count :
        /\ HasReceipt(journal, k)' <=> HasReceipt(journal, k) \/ k = i
        /\ HasReceipt(journal, k) => ReceiptIdentity(journal, k)' = ReceiptIdentity(journal, k)
        /\ ReceiptIdentity(journal, i)' = receipt["apply"][i]
  <2>1. /\ Len(journal'.applied) = Receipts(journal) + 1
        /\ journal'.applied[i] = receipt["apply"][i]
        /\ \A k \in 1 .. Receipts(journal) : journal'.applied[k] = journal.applied[k]
    BY <1>2, <1>3 DEF Receipts
  <2> QED  BY <1>2, <2>1 DEF HasReceipt, Receipts, ReceiptIdentity
<1>5. BindingOpen'
  <2>1. journal.pub = None => owned = {}
    BY NothingOwned
  <2>2. \A k : Kind(k)' = Kind(k)
    BY <1>1, ClaimsStayAs
  <2>3. ASSUME journal.pub # None
        PROVE  HasReceipt(journal', journal.pub.step) /\ journal.pub.step \in 1 .. Count'
    <3>1. /\ journal.pub.step \in 1 .. Count
          /\ journal.pub.step = i \/ HasReceipt(journal, journal.pub.step)
      BY <2>3 DEF OpenParts, BindingOpen
    <3> QED  BY <1>1, <1>4, <3>1, ClaimsStayAs
  <2>4. journal'.phase # "absent" /\ at' # "staged"
    BY <1>1, <1>3
  <2> QED
    BY <1>1, <1>3, <2>1, <2>2, <2>3, <2>4, ClaimsStayAs
    DEF OpenParts, BindingOpen, SameClaims, Begun
<1>6. ReceiptsOpen'
  BY <1>1, <1>2, <1>3, <1>4, ClaimsStayAs DEF OpenParts, ReceiptsOpen
<1>7. ClaimsOpen'
  <2>1. Kind(i) = "mkdir" => HeldKinds(i) = {}
    BY <1>2, ClaimKindsOfSteps DEF OpenParts, ClaimsOpen, Holds, Claim
  <2> QED  BY <1>1, <1>3, <1>4, <2>1, ClaimsStayAs DEF OpenParts, ClaimsOpen
<1>8. CallOpen' /\ edited' = {}
  BY <1>1 DEF CallOpen, OpenParts, SameClaims
<1> QED  BY <1>5, <1>6, <1>7, <1>8 DEF OpenParts

\* A directory that is seen where it belongs has left its claim.
LEMMA SeenHasLeft ==
  ASSUME MigrationInv, EndsInv, journal.dir = "apply", touched = {}, NEW i \in 1 .. Count,
         journal.inflight = i, Kind(i) = "mkdir", tree[Target(i)] # None
  PROVE  ~ Holds(i, "publish")
<1>1. Starting(journal, i)
  BY AppliesTypes DEF Starting
<1>2. Flying(journal, i)
  BY <1>1 DEF EndsInv, FlightInv
<1>3. Untouched(Target(i))
  BY DEF Untouched
<1> QED  BY <1>2, <1>3 DEF Flying, Present

\* A claim of the step in flight is filled, that of its own image or that of its source.
LEMMA FilledOpens ==
  ASSUME MigrationInv, EndsInv, OpenParts, journal.dir = "apply", proc # "idle",
         NEW i \in 1 .. Count, journal.inflight = i,
         NEW k \in ApplyKinds(i), k \in ClaimKinds, NEW id, id # None,
         claims' = [claims EXCEPT ![<<i, k>>] = id], UNCHANGED <<program, edited>>
  PROVE  /\ \A j : Kind(j)' = Kind(j) /\ ApplyKinds(j)' = ApplyKinds(j)
         /\ Count' = Count
         /\ ClaimsOpen
         /\ \A j \in 1 .. Count : HeldKinds(j)' = IF j = i THEN HeldKinds(j) \cup {k} ELSE HeldKinds(j)
         /\ \A j \in 1 .. Count :
              j # i \/ k # "publish" => claims'[<<j, "publish">>] = claims[<<j, "publish">>]
<1>1. Count' = Count /\ \A j : Kind(j)' = Kind(j)
  BY ProgramStays
<1>2. i \in Steps /\ 1 .. Count \subseteq Steps /\ claims \in [Claims -> Ids]
  BY AppliesTypes DEF MigrationInv, FilesInv
<1>3. \A j \in 1 .. Count : HeldKinds(j)' = IF j = i THEN HeldKinds(j) \cup {k} ELSE HeldKinds(j)
  <2> SUFFICES ASSUME NEW j \in 1 .. Count, NEW l \in ClaimKinds
               PROVE  Holds(j, l)' <=> Holds(j, l) \/ (j = i /\ l = k)
    BY DEF HeldKinds, ClaimKinds
  <2>1. <<j, l>> \in Claims /\ (<<j, l>> = <<i, k>> <=> j = i /\ l = k)
    BY <1>2, ClaimKindsOfSteps
  <2> QED  BY <1>2, <2>1 DEF Holds, Claim
<1>4. ASSUME NEW j \in 1 .. Count, j # i \/ k # "publish"
      PROVE  claims'[<<j, "publish">>] = claims[<<j, "publish">>]
  <2>1. <<j, "publish">> \in Claims /\ <<j, "publish">> # <<i, k>>
    BY <1>2, <1>4, ClaimKindsOfSteps
  <2> QED  BY <1>2, <2>1
<1> QED  BY <1>1, <1>3, <1>4 DEF ApplyKinds, OpenParts

\* A claim is filled where no publication is under way.
LEMMA ClaimOpens ==
  ASSUME MigrationInv, EndsInv, OpenParts, journal.dir = "apply", proc # "idle", at # "staged",
         NEW i \in 1 .. Count, journal.inflight = i,
         NEW k \in ApplyKinds(i), k \in ClaimKinds, NEW id, id # None,
         k = "publish" => Kind(i) = "mkdir", claims' = [claims EXCEPT ![<<i, k>>] = id],
         UNCHANGED <<program, edited, journal, staged, owned, receipt>>,
         at' \in {"top", "claimed"}, proc' = "apply" \/ at' = "top"
  PROVE  OpenParts'
<1>1. /\ \A j : Kind(j)' = Kind(j) /\ ApplyKinds(j)' = ApplyKinds(j)
      /\ Count' = Count
      /\ ClaimsOpen
      /\ \A j \in 1 .. Count : HeldKinds(j)' = IF j = i THEN HeldKinds(j) \cup {k} ELSE HeldKinds(j)
      /\ \A j \in 1 .. Count :
           j # i \/ k # "publish" => claims'[<<j, "publish">>] = claims[<<j, "publish">>]
  BY FilledOpens
<1>2. /\ Begun /\ None \notin 1 .. Count /\ (journal.pub = None => owned = {})
      /\ \A j \in 1 .. Count : HasReceipt(journal, j) => j # i
  BY NothingOwned, AppliesTypes DEF EndsInv, FitsInv
<1>3. BindingOpen'
  <2>1. journal.pub # None =>
          /\ Slot(journal.pub)' = Slot(journal.pub)
          /\ claims'[Slot(journal.pub)] = claims[Slot(journal.pub)]
    BY <1>1 DEF OpenParts, BindingOpen, Slot
  <2> QED  BY <1>1, <1>2, <2>1 DEF OpenParts, BindingOpen, Begun
<1>4. ReceiptsOpen'
  BY <1>1 DEF OpenParts, ReceiptsOpen, HasReceipt, ReceiptIdentity, Receipts
<1>5. ClaimsOpen'
  BY <1>1, <1>2 DEF ClaimsOpen, HasReceipt, Receipts
<1>6. CallOpen' /\ edited' = {}
  BY <1>2 DEF CallOpen, OpenParts
<1> QED  BY <1>3, <1>4, <1>5, <1>6 DEF OpenParts

\* Only what the running command knows goes on.
LEMMA CallGoesOn ==
  ASSUME MigrationInv, EndsInv, OpenParts, journal.dir = "apply", SamePrivate,
         UNCHANGED <<journal, proc>>, proc # "idle", at # "staged", at' # "staged", CallOpen'
  PROVE  OpenParts'
<1>1. SameClaims /\ UNCHANGED <<staged, owned, receipt>> /\ SameTurn(journal, journal')
  BY SameTurnHolds DEF SamePrivate
<1>2. BindingOpen'
  BY <1>1, ClaimsStayAs DEF OpenParts, BindingOpen, SameClaims, Begun, HasReceipt, Receipts
<1>3. ReceiptsOpen'
  BY <1>1, ClaimsStayAs, TurnStaysAs DEF OpenParts, ReceiptsOpen
<1>4. ClaimsOpen'
  BY <1>1, ClaimsStayAs, TurnStaysAs DEF OpenParts, ClaimsOpen
<1> QED  BY <1>1, <1>2, <1>3, <1>4 DEF OpenParts, SameClaims

\* A step that has all its claims publishes.
LEMMA PublishOpens ==
  ASSUME MigrationInv, EndsInv, OpenParts, proc = "apply", journal.dir = "apply", at # "staged",
         NEW i \in 1 .. Count, journal.inflight = i, Kind(i) # "mkdir",
         ApplyKinds(i) \subseteq HeldKinds(i), NEW k, NEW p, Publish(i, k, p)
  PROVE  OpenParts'
<1>1. CASE Conflict(i)
  BY <1>1, GivesUpOpens
<1>2. CASE ~ Conflict(i)
  <2>1. /\ SamePrivate /\ UNCHANGED <<journal, proc>> /\ at' = "published"
    BY <1>2 DEF Publish, LinkVisible, SamePrivate, SameClaims, files, private, Rests
  <2>2. CallOpen'
    BY <2>1, ClaimsStayAs, AppliesTypes DEF CallOpen, SamePrivate
  <2> QED  BY <2>1, <2>2, CallGoesOn
<1> QED  BY <1>1, <1>2

LEMMA LooksOpens ==
  ASSUME MigrationInv, EndsInv, OpenParts, proc = "apply", journal.dir = "apply", at # "staged",
         NEW i \in 1 .. Count, journal.inflight = i, Kind(i) \in {"replace", "move"},
         NEW p, NEW id, CheckLeaf(i, p, "source", id)
  PROVE  OpenParts'
<1>1. /\ SamePrivate /\ UNCHANGED <<journal, proc>> /\ at' = "checked"
      /\ aim' = [path |-> p, claim |-> <<i, "source">>, id |-> id]
  BY DEF CheckLeaf, SamePrivate, SameClaims, files, private
<1>2. CallOpen'
  BY <1>1, ClaimsStayAs, AppliesTypes DEF CallOpen, SamePrivate
<1> QED  BY <1>1, <1>2, CallGoesOn

\* The loop around the steps.
LEMMA LoopOpens ==
  ASSUME MigrationInv, EndsInv, OpenParts, journal.dir = "apply",
         ApplyIntent \/ PreparedDrifted \/ ApplyFinish \/ ApplyVerifies
  PROVE  OpenParts'
<1>1. proc = "apply" /\ ~ FinishesPublication /\ (journal.inflight = None => at = "top")
  BY DEF ApplyIntent, PreparedDrifted, ApplyFinish, ApplyVerifies, Applying, OpenParts, CallOpen
<1>2. /\ DOMAIN journal = GenerationFields /\ Count \in Nat /\ Begun
      /\ Receipts(journal) \in Nat /\ journal.cursor = Receipts(journal) /\ None \notin 1 .. Count
  BY <1>1, AppliesTypes DEF EndsInv, FitsInv
<1>3. CASE ApplyIntent
  <2>1. /\ journal' = NextApplyIntent(journal) /\ at' = "top" /\ SamePrivate /\ UNCHANGED proc
        /\ journal.inflight = None
    BY <1>3 DEF ApplyIntent, AppendGeneration, CanIntend, SamePrivate, SameClaims, files, private, Rests
  <2>2. /\ journal'.phase = "applying" /\ journal'.inflight = journal.cursor + 1
        /\ \A f \in {"dir", "cursor", "pub", "applied", "inverse", "aborted"} : journal'[f] = journal[f]
    BY <1>2, <2>1 DEF NextApplyIntent, GenerationFields
  <2>3. journal.pub = None
    BY <1>1, <1>2, <2>1, BoundInFlight
  <2>4. owned = {}
    BY <1>1, <2>1, <2>3, NothingOwned
  <2>5. SameClaims /\ UNCHANGED <<staged, owned, receipt>>
    BY <2>1 DEF SamePrivate
  <2>6. \A i : /\ HasReceipt(journal, i)' <=> HasReceipt(journal, i)
               /\ ReceiptIdentity(journal, i)' = ReceiptIdentity(journal, i)
    BY <2>2 DEF HasReceipt, Receipts, ReceiptIdentity
  <2>7. BindingOpen'
    BY <2>1, <2>2, <2>3, <2>4, <2>5 DEF OpenParts, BindingOpen
  <2>8. ReceiptsOpen' /\ ClaimsOpen'
    BY <1>2, <2>1, <2>5, <2>6, ClaimsStayAs DEF OpenParts, ReceiptsOpen, ClaimsOpen
  <2>9. CallOpen' /\ edited' = {}
    BY <2>1, <2>5 DEF CallOpen, OpenParts, SameClaims
  <2> QED  BY <2>7, <2>8, <2>9 DEF OpenParts
<1>4. CASE PreparedDrifted
  BY <1>1, <1>4, GivesUpOpens DEF PreparedDrifted
<1>5. CASE ApplyFinish
  <2>1. /\ journal' = NextApplied(journal) /\ at' = "top" /\ SamePrivate /\ UNCHANGED proc
        /\ journal.inflight = None
    BY <1>5 DEF ApplyFinish, AppendGeneration, CanFinish, SamePrivate, SameClaims, files, private, Rests
  <2>2. SameTurn(journal, journal') /\ journal'.pub = journal.pub /\ journal'.phase = "applied"
    BY <1>2, <2>1 DEF NextApplied, SameTurn, GenerationFields
  <2>3. journal.pub = None => owned = {}
    BY <1>1, <2>1, NothingOwned
  <2> QED  BY <2>1, <2>2, <2>3, SteadyOpens DEF Begun
<1>6. CASE ApplyVerifies
  <2>1. CASE Abandon \/ \E i : Conflict(i)
    BY <1>1, <2>1, GivesUpOpens
  <2>2. CASE ~ (Abandon \/ \E i : Conflict(i))
    <3>1. SamePrivate /\ UNCHANGED journal /\ proc' = "idle" /\ at' = "top"
      BY <1>6, <2>2 DEF ApplyVerifies, SamePrivate, SameClaims, files, private
    <3> QED  BY <1>2, <3>1, SteadyOpens, SameTurnHolds DEF Begun
  <2> QED  BY <2>1, <2>2
<1> QED  BY <1>3, <1>4, <1>5, <1>6

LEMMA MkdirOpens ==
  ASSUME MigrationInv, EndsInv, OpenParts, journal.dir = "apply", touched = {},
         NEW i \in 1 .. Count, MkdirPrepare(i) \/ MkdirReceipt(i) \/ MkdirPublish(i)
  PROVE  OpenParts'
<1>1. /\ proc = "apply" /\ at \in {"top", "claimed"} /\ journal.inflight = i /\ Kind(i) = "mkdir"
      /\ ~ FinishesPublication
  BY DEF MkdirPrepare, MkdirReceipt, MkdirPublish, Runs, InApply, Applying
<1>2. i \in Steps /\ Begun /\ (journal.pub = None => owned = {}) /\ None \notin 1 .. Count
      /\ (\A k \in 1 .. Count : HasReceipt(journal, k) => k # i)
  BY <1>1, AppliesTypes, NothingOwned DEF EndsInv, FitsInv
<1>3. "publish" \in ApplyKinds(i) /\ "publish" \in ClaimKinds /\ ApplyKinds(i) = {"publish"}
  BY <1>1, <1>2, ClaimKindsOfSteps
<1>4. CASE MkdirPrepare(i)
  <2>1. /\ claims' = [claims EXCEPT ![<<i, "publish">>] = Image(i)]
        /\ UNCHANGED <<program, edited, journal, staged, owned, receipt, at, proc>>
    BY <1>4 DEF MkdirPrepare, Rests, files
  <2>2. Image(i) # None
    BY <1>2, InodesDiffer
  <2> QED  BY <1>1, <1>3, <2>1, <2>2, ClaimOpens
<1>5. CASE MkdirReceipt(i)
  <2>1. /\ receipt' = [receipt EXCEPT !["apply"][i] = Claim(i, "publish")]
        /\ SameClaims /\ UNCHANGED <<journal, staged, owned, at, proc>>
    BY <1>5 DEF MkdirReceipt, SameClaims, Rests, files
  <2>2. \A k \in 1 .. Count : k # i => receipt'["apply"][k] = receipt["apply"][k]
    BY <1>2, <2>1, AppliesTypes
  <2>3. BindingOpen'
    BY <1>1, <2>1, ClaimsStayAs DEF OpenParts, BindingOpen, SameClaims, Begun, HasReceipt, Receipts
  <2>4. ReceiptsOpen'
    BY <1>1, <1>2, <2>1, <2>2, ClaimsStayAs
    DEF OpenParts, ReceiptsOpen, HasReceipt, Receipts, ReceiptIdentity
  <2>5. ClaimsOpen'
    BY <1>1, <2>1, <2>2, ClaimsStayAs DEF OpenParts, ClaimsOpen, HasReceipt, Receipts
  <2>6. CallOpen' /\ edited' = {}
    BY <1>1, <2>1 DEF CallOpen, OpenParts, SameClaims
  <2> QED  BY <2>3, <2>4, <2>5, <2>6 DEF OpenParts
<1>6. CASE MkdirPublish(i)
  <2>1. at = "top" /\ receipt["apply"][i] # None
    BY <1>6 DEF MkdirPublish
  <2>2. CASE Abandon \/ Conflict(i)
    BY <1>1, <2>2, GivesUpOpens
  <2>3. CASE AppendGeneration(NextApplyReceipt(journal, receipt["apply"][i])) /\ Present(Target(i))
    <3>1. ~ Holds(i, "publish")
      BY <1>1, <2>3, SeenHasLeft DEF Present
    <3> QED  BY <1>1, <2>1, <2>3, <3>1, ReceivedOpens
  <2>4. CASE RenameVisible(i, "publish", Target(i))
    <3>1. /\ claims' = [claims EXCEPT ![<<i, "publish">>] = None]
          /\ UNCHANGED <<program, edited, journal, staged, owned, receipt, at, proc>>
      BY <2>4 DEF RenameVisible, Rests
    <3>2. Count' = Count /\ (\A k : Kind(k)' = Kind(k)) /\ \A k : ApplyKinds(k)' = ApplyKinds(k)
      BY <3>1, ProgramStays DEF ApplyKinds
    <3>3. claims \in [Claims -> Ids] /\ \A k \in 1 .. Count : k \in Steps
      BY AppliesTypes DEF MigrationInv, FilesInv
    <3>4. \A c \in Claims : c # <<i, "publish">> => claims'[c] = claims[c]
      BY <3>1, <3>3
    <3>5. \A k \in 1 .. Count :
            /\ HeldKinds(k)' \subseteq HeldKinds(k) /\ (k # i => HeldKinds(k)' = HeldKinds(k))
            /\ k # i => claims'[<<k, "publish">>] = claims[<<k, "publish">>]
      <4> SUFFICES ASSUME NEW k \in 1 .. Count, NEW l \in ClaimKinds
                   PROVE  /\ Holds(k, l)' => Holds(k, l)
                          /\ k # i => (Holds(k, l)' <=> Holds(k, l))
                          /\ k # i => claims'[<<k, "publish">>] = claims[<<k, "publish">>]
        BY ClaimKindsOfSteps DEF HeldKinds, ClaimKinds
      <4>1. /\ <<k, l>> \in Claims /\ <<k, "publish">> \in Claims
            /\ (k # i => <<k, l>> # <<i, "publish">> /\ <<k, "publish">> # <<i, "publish">>)
        BY <3>3, ClaimKindsOfSteps
      <4>2. <<k, l>> = <<i, "publish">> => claims'[<<k, l>>] = None
        BY <3>1, <3>3, <4>1
      <4> QED  BY <3>4, <4>1, <4>2 DEF Holds, Claim
    <3>6. BindingOpen'
      <4>1. journal.pub # None =>
              /\ Slot(journal.pub)' = Slot(journal.pub)
              /\ claims'[Slot(journal.pub)] = claims[Slot(journal.pub)]
        BY <1>1, <3>1, <3>5 DEF OpenParts, BindingOpen, Slot
      <4> QED  BY <1>2, <2>1, <3>1, <3>2, <4>1 DEF OpenParts, BindingOpen, Begun, HasReceipt, Receipts
    <3>7. ReceiptsOpen'
      BY <3>1, <3>2 DEF OpenParts, ReceiptsOpen, HasReceipt, ReceiptIdentity, Receipts
    <3>8. ClaimsOpen'
      BY <1>1, <3>1, <3>2, <3>5 DEF OpenParts, ClaimsOpen, HasReceipt, Receipts
    <3>9. CallOpen' /\ edited' = {}
      BY <2>1, <3>1 DEF CallOpen, OpenParts
    <3> QED  BY <3>6, <3>7, <3>8, <3>9 DEF OpenParts
  <2> QED  BY <1>6, <2>2, <2>3, <2>4 DEF MkdirPublish
<1> QED  BY <1>4, <1>5, <1>6

\* The stage, the generation that binds it, and its installation.
LEMMA ImageOpens ==
  ASSUME MigrationInv, EndsInv, OpenParts, journal.dir = "apply",
         NEW i \in 1 .. Count, ImagePrepared(i)
  PROVE  OpenParts'
<1> DEFINE slot == <<i, "publish">>
<1>1. /\ proc = "apply" /\ journal.inflight = i /\ Kind(i) \in {"create", "replace"}
      /\ ~ FinishesPublication /\ claims[slot] = None
      /\ PreparePublication(i, "publish", Image(i))
  BY DEF ImagePrepared, Runs, InApply, Applying, PreparePublication, Holds, Claim
<1>2. /\ i \in Steps /\ Begun /\ None \notin 1 .. Count /\ slot \in Claims
      /\ "publish" \in ApplyKinds(i) /\ "publish" \in ClaimKinds
      /\ \A k \in 1 .. Count : HasReceipt(journal, k) => k # i
      /\ claims \in [Claims -> Ids] /\ staged \in [Claims -> Ids]
      /\ DOMAIN journal = GenerationFields
  BY <1>1, AppliesTypes, ClaimKindsOfSteps DEF EndsInv, FitsInv, MigrationInv, FilesInv
<1>3. CASE StagePublication(i, "publish", Image(i))
  <2>1. /\ staged' = [staged EXCEPT ![slot] = Image(i)] /\ owned' = owned \cup {slot}
        /\ at' = "staged" /\ at # "staged" /\ journal.pub = None
        /\ SameClaims /\ UNCHANGED <<journal, receipt, proc>>
    BY <1>3 DEF StagePublication, SameClaims, files, Rests
  <2>2. owned = {} /\ Image(i) # None
    BY <1>1, <1>2, <2>1, NothingOwned, InodesDiffer
  <2>3. BindingOpen'
    <3>1. \A c \in Claims : staged'[c] # None => c \in owned'
      BY <1>2, <2>1, <2>2 DEF OpenParts, BindingOpen
    <3>2. owned' = {slot} /\ staged'[slot] # None /\ claims'[slot] = None
      BY <1>1, <1>2, <2>1, <2>2 DEF SameClaims
    <3> QED  BY <1>1, <1>2, <2>1, <3>1, <3>2, ClaimsStayAs DEF BindingOpen, Begun
  <2>4. ReceiptsOpen' /\ ClaimsOpen'
    BY <2>1, ClaimsStayAs
    DEF OpenParts, ReceiptsOpen, ClaimsOpen, HasReceipt, Receipts, ReceiptIdentity
  <2>5. CallOpen' /\ edited' = {}
    BY <1>1, <1>2, <2>1 DEF CallOpen, OpenParts, SameClaims
  <2> QED  BY <2>3, <2>4, <2>5 DEF OpenParts
<1>4. CASE BindPublication(i, "publish")
  <2> DEFINE bound == [step |-> i, dir |-> journal.dir, kind |-> "publish"]
  <2>1. /\ journal' = NextPublicationBound(journal, bound) /\ at = "staged"
        /\ SamePrivate /\ UNCHANGED <<at, proc>>
    BY <1>4 DEF BindPublication, SamePrivate, SameClaims, files, private, Rests
  <2>2. /\ journal'.pub = bound /\ SameTurn(journal, journal') /\ journal'.phase = journal.phase
    BY <1>2, <2>1 DEF NextPublicationBound, SameTurn, GenerationFields
  <2>3. SameClaims /\ UNCHANGED <<staged, owned, receipt>>
    BY <2>1 DEF SamePrivate
  <2>4. owned = {slot} /\ staged[slot] # None /\ Slot(bound) = slot
    BY <1>1, <2>1 DEF OpenParts, BindingOpen, Slot
  <2>5. BindingOpen'
    <3>1. journal'.inflight = i /\ claims'[slot] = None /\ owned' = {slot} /\ staged'[slot] # None
      BY <1>1, <2>2, <2>3, <2>4 DEF SameTurn, SameClaims
    <3>2. Slot(journal.pub)' = slot
      BY <2>2 DEF Slot
    <3>3. \A c \in Claims : staged'[c] # None => c \in owned'
      BY <2>3 DEF OpenParts, BindingOpen
    <3>4. Count' = Count /\ Kind(i)' = Kind(i)
      BY <2>3, ClaimsStayAs
    <3>5. Begun'
      BY <1>2, <2>2 DEF Begun
    <3>6. /\ journal'.pub.dir = "apply" /\ journal'.pub.kind = "publish" /\ journal'.pub.step = i
      BY <2>2
    <3> QED
      BY <1>1, <1>2, <2>1, <3>1, <3>2, <3>3, <3>4, <3>5, <3>6 DEF BindingOpen
  <2>6. ReceiptsOpen' /\ ClaimsOpen'
    BY <2>2, <2>3, ClaimsStayAs, TurnStaysAs DEF OpenParts, ReceiptsOpen, ClaimsOpen
  <2>7. CallOpen' /\ edited' = {}
    BY <1>1, <1>2, <2>1, <2>2, <2>3 DEF CallOpen, OpenParts, SameClaims, SameTurn
  <2> QED  BY <2>5, <2>6, <2>7 DEF OpenParts
<1>5. CASE InstallPublication(i, "publish")
  <2>1. /\ claims' = [claims EXCEPT ![slot] = staged[slot]] /\ staged[slot] # None
        /\ staged' = [staged EXCEPT ![slot] = None] /\ at' = "claimed" /\ journal.pub # None
        /\ UNCHANGED <<program, edited, journal, owned, receipt, proc>>
    BY <1>5 DEF InstallPublication, files, Rests
  <2>2. journal.pub.step = i /\ journal.pub.kind = "publish" /\ Slot(journal.pub) = slot
    BY <1>1, <2>1, BoundInFlight DEF OpenParts, BindingOpen, Slot
  <2>3. /\ \A j : Kind(j)' = Kind(j) /\ ApplyKinds(j)' = ApplyKinds(j)
        /\ Count' = Count
        /\ ClaimsOpen
        /\ \A j \in 1 .. Count :
             HeldKinds(j)' = IF j = i THEN HeldKinds(j) \cup {"publish"} ELSE HeldKinds(j)
    BY <1>1, <1>2, <2>1, FilledOpens
  <2>4. BindingOpen'
    <3>1. \A c \in Claims : staged'[c] # None => c \in owned'
      BY <1>2, <2>1 DEF OpenParts, BindingOpen
    <3>2. claims'[slot] # None /\ staged'[slot] = None /\ Slot(journal.pub)' = slot
      BY <1>2, <2>1, <2>2 DEF Slot
    <3> QED
      BY <1>2, <2>1, <2>2, <2>3, <3>1, <3>2
      DEF OpenParts, BindingOpen, Begun, HasReceipt, Receipts
  <2>5. ReceiptsOpen'
    BY <2>1, <2>3 DEF OpenParts, ReceiptsOpen, HasReceipt, ReceiptIdentity, Receipts
  <2>6. ClaimsOpen'
    BY <1>1, <1>2, <2>1, <2>3 DEF ClaimsOpen, HasReceipt, Receipts
  <2>7. CallOpen' /\ edited' = {}
    BY <1>1, <1>2, <2>1 DEF CallOpen, OpenParts
  <2> QED  BY <2>4, <2>5, <2>6, <2>7 DEF OpenParts
<1> QED  BY <1>1, <1>3, <1>4, <1>5 DEF PreparePublication

\* A private receipt is written of what was published, and the journal told of it.
LEMMA ReceiptsOpens ==
  ASSUME MigrationInv, EndsInv, OpenParts, journal.dir = "apply", NEW i \in 1 .. Count,
         ApplyReceiptJournaled(i) \/ ApplyReceiptVerified(i) \/ ApplyReceiptPersists(i)
         \/ Displaced(i)
  PROVE  OpenParts'
<1>1. proc = "apply" /\ journal.inflight = i /\ at # "staged"
  BY DEF ApplyReceiptJournaled, ApplyReceiptVerified, ApplyReceiptPersists, Displaced, InApply, Applying
<1>2. CASE Abandon \/ Conflict(i)
  BY <1>1, <1>2, GivesUpOpens
<1>3. CASE AppendGeneration(NextApplyReceipt(journal, receipt["apply"][i])) /\ receipt["apply"][i] # None
           /\ Kind(i) # "mkdir"
  BY <1>1, <1>3, ReceivedOpens
<1>4. CASE at = "published" /\ PersistReceipt("apply", i, Publishes(i))
  <2>1. /\ receipt' = [receipt EXCEPT !["apply"][i] = Publishes(i)] /\ at' = "receipted"
        /\ SameClaims /\ UNCHANGED <<journal, staged, owned, proc>>
    BY <1>4 DEF PersistReceipt, SameClaims, Rests, files
  <2>2. /\ i \in Steps /\ Begun /\ (journal.pub = None => owned = {}) /\ None \notin 1 .. Count
        /\ program \in Programs
        /\ (\A k \in 1 .. Count : HasReceipt(journal, k) => k # i)
    BY <1>1, AppliesTypes, NothingOwned DEF EndsInv, FitsInv
  <2>3. Publishes(i) # None
    BY <2>2, InodesDiffer, ProgramShape DEF Publishes, Before
  <2>4. /\ receipt'["apply"][i] = Publishes(i)
        /\ \A k \in 1 .. Count : k # i => receipt'["apply"][k] = receipt["apply"][k]
    BY <2>1, <2>2, AppliesTypes
  <2>5. Kind(i) # "mkdir" /\ ApplyKinds(i) \subseteq HeldKinds(i)
    BY <1>1, <1>4 DEF OpenParts, CallOpen
  <2>6. BindingOpen'
    BY <1>1, <2>1, <2>2, ClaimsStayAs
    DEF OpenParts, BindingOpen, SameClaims, Begun, HasReceipt, Receipts
  <2>7. ReceiptsOpen'
    BY <1>1, <2>1, <2>2, <2>4, ClaimsStayAs
    DEF OpenParts, ReceiptsOpen, HasReceipt, Receipts, ReceiptIdentity
  <2>8. ClaimsOpen'
    BY <2>1, <2>4, <2>5, ClaimsStayAs DEF OpenParts, ClaimsOpen, HasReceipt, Receipts
  <2>9. CallOpen' /\ edited' = {}
    BY <1>1, <2>1, <2>2, <2>3, <2>4, <2>5, ClaimsStayAs DEF CallOpen, OpenParts, SameClaims
  <2> QED  BY <2>6, <2>7, <2>8, <2>9 DEF OpenParts
<1>5. ApplyReceiptJournaled(i) => receipt["apply"][i] # None /\ Kind(i) # "mkdir"
  BY <1>1 DEF ApplyReceiptJournaled, OpenParts, CallOpen
<1> QED
  BY <1>2, <1>3, <1>4, <1>5
  DEF ApplyReceiptJournaled, ApplyReceiptVerified, ApplyReceiptPersists, Displaced

\* A step that publishes has all its claims, and one that takes its source is no directory.
LEMMA FilesOpen ==
  ASSUME MigrationInv, EndsInv, OpenParts, journal.dir = "apply", NEW i \in 1 .. Count,
         \/ CreatePublishes(i) \/ ReplaceTakesSource(i) \/ ReplacePublishes(i)
         \/ MoveTakesSource(i) \/ MovePublishes(i)
  PROVE  OpenParts'
<1>1. proc = "apply" /\ journal.inflight = i /\ at # "staged" /\ i \in Steps
  BY AppliesTypes
  DEF CreatePublishes, ReplaceTakesSource, ReplacePublishes, MoveTakesSource, MovePublishes,
      Runs, InApply, Applying
<1>2. CASE Abandon \/ Conflict(i)
  BY <1>1, <1>2, GivesUpOpens
<1>3. CASE \E p, id : CheckLeaf(i, p, "source", id) /\ Kind(i) \in {"replace", "move"}
  BY <1>1, <1>3, LooksOpens
<1>4. ASSUME NEW k, NEW p, Publish(i, k, p), Kind(i) \in {"create", "replace", "move"},
             Kind(i) \in {"create", "replace"} => Holds(i, "publish"),
             Kind(i) \in {"replace", "move"} => Holds(i, "source")
      PROVE  OpenParts'
  <2>1. ApplyKinds(i) \subseteq HeldKinds(i)
    BY <1>1, <1>4, ClaimKindsOfSteps DEF Holds, Claim
  <2> QED  BY <1>1, <1>4, <2>1, PublishOpens
<1>5. CASE CreatePublishes(i)
  BY <1>2, <1>4, <1>5 DEF CreatePublishes
<1>6. CASE ReplaceTakesSource(i)
  BY <1>2, <1>3, <1>6 DEF ReplaceTakesSource
<1>7. CASE ReplacePublishes(i)
  BY <1>2, <1>4, <1>7 DEF ReplacePublishes
<1>8. CASE MoveTakesSource(i)
  BY <1>2, <1>3, <1>8 DEF MoveTakesSource
<1>9. CASE MovePublishes(i)
  BY <1>2, <1>4, <1>9 DEF MovePublishes
<1> QED  BY <1>5, <1>6, <1>7, <1>8, <1>9

\* A command that applies has a journal that does.
LEMMA AppliesFirst ==
  ASSUME MigrationInv, ApplyNext
  PROVE  journal.dir = "apply"
<1>1. proc = "apply"
  BY DEF ApplyNext, ApplyIntent, PreparedDrifted, ApplyFinish, ApplyVerifies, ApplyStep,
         ApplyReceiptJournaled, ApplyReceiptVerified, ApplyReceiptPersists, Displaced,
         MkdirPrepare, MkdirReceipt, MkdirPublish, ImagePrepared, CreatePublishes,
         ReplaceTakesSource, ReplacePublishes, MoveTakesSource, MovePublishes, Runs, InApply, Applying
<1> QED  BY <1>1 DEF MigrationInv, JournalInv

LEMMA ApplyOpens ==
  ASSUME MigrationInv, EndsInv, OpenParts, touched = {}, ApplyNext
  PROVE  OpenParts'
<1>1. journal.dir = "apply"
  BY AppliesFirst
<1>2. CASE ApplyIntent \/ PreparedDrifted \/ ApplyFinish \/ ApplyVerifies
  BY <1>1, <1>2, LoopOpens
<1>3. ASSUME NEW i \in Steps, ApplyStep(i) PROVE OpenParts'
  <2>1. i \in 1 .. Count
    <3>1. journal.inflight = i
      BY <1>3
      DEF ApplyStep, ApplyReceiptJournaled, ApplyReceiptVerified, ApplyReceiptPersists, Displaced,
          MkdirPrepare, MkdirReceipt, MkdirPublish, ImagePrepared, CreatePublishes,
          ReplaceTakesSource, ReplacePublishes, MoveTakesSource, MovePublishes, Runs, InApply
    <3>2. i # None
      BY InodesDiffer DEF Steps
    <3> QED  BY <1>1, <3>1, <3>2, AppliesTypes
  <2> QED  BY <1>1, <1>3, <2>1, ReceiptsOpens, MkdirOpens, ImageOpens, FilesOpen DEF ApplyStep
<1> QED  BY <1>2, <1>3 DEF ApplyNext

\* The file at the checked path goes into the claim of the step's source.
LEMMA TakenOpens ==
  ASSUME MigrationInv, EndsInv, OpenParts, journal.dir = "apply", RenameIntoClaim
  PROVE  OpenParts'
<1> PICK i : i = journal.inflight
  OBVIOUS
<1>1. /\ proc = "apply" /\ at = "checked" /\ i # None /\ Kind(i) \in {"replace", "move"}
      /\ aim.claim = <<i, "source">>
  BY DEF RenameIntoClaim, OpenParts, CallOpen
<1>2. i \in 1 .. Count /\ i \in Steps /\ Begun
  BY <1>1, AppliesTypes DEF EndsInv, FitsInv
<1>3. "source" \in ApplyKinds(i) /\ "source" \in ClaimKinds
  BY <1>1, <1>2, ClaimKindsOfSteps
<1>4. /\ UNCHANGED <<program, edited, journal, staged, owned, receipt>>
      /\ at' \in {"top", "claimed"} /\ proc' \in {"apply", "idle"}
      /\ at' = "claimed" => proc' = "apply"
      /\ proc' = "apply" => at' = "claimed"
  BY <1>1 DEF RenameIntoClaim
<1>5. CASE Present(aim.path)
  <2>1. claims' = [claims EXCEPT ![<<i, "source">>] = tree[aim.path]] /\ tree[aim.path] # None
    BY <1>1, <1>5 DEF RenameIntoClaim, Present
  <2> QED  BY <1>1, <1>2, <1>3, <1>4, <2>1, ClaimOpens
<1>6. CASE ~ Present(aim.path)
  <2>1. SamePrivate
    BY <1>4, <1>6 DEF RenameIntoClaim, SamePrivate, SameClaims
  <2>2. CASE proc' = "apply"
    <3>1. CallOpen'
      BY <1>1, <1>2, <1>4, <2>2 DEF CallOpen
    <3> QED  BY <1>1, <1>4, <2>1, <2>2, <3>1, CallGoesOn
  <2>3. CASE proc' = "idle"
    BY <1>2, <1>4, <2>1, <2>3, SteadyOpens, SameTurnHolds DEF Begun
  <2> QED  BY <1>4, <2>2, <2>3
<1> QED  BY <1>5, <1>6

\* What a publication leaves goes in the order of its record, then its binding.
LEMMA FinishOpens ==
  ASSUME MigrationInv, EndsInv, OpenParts, journal.dir = "apply", proc # "idle",
         FinishPublication
  PROVE  OpenParts'
<1> DEFINE slot == <<journal.pub.step, journal.pub.kind>>
<1>1. /\ journal.pub # None /\ HasReceipt(journal, journal.pub.step)
      /\ journal.pub.step \in 1 .. Count /\ journal.pub.kind = "publish" /\ journal.pub.dir = "apply"
      /\ Kind(journal.pub.step) \in {"create", "replace"} /\ owned \subseteq {slot}
      /\ slot \in owned => ((claims[slot] = None) <=> (staged[slot] # None))
  <2>1. journal.pub # None /\ PublicationReceipted(journal, journal.pub)
    BY DEF FinishPublication, FinishesPublication
  <2>2. /\ journal.pub.step \in 1 .. Count /\ journal.pub.dir = "apply"
        /\ journal.pub.kind = "publish"
        /\ Kind(journal.pub.step) \in {"create", "replace"} /\ owned \subseteq {slot}
        /\ slot \in owned => ((claims[slot] = None) <=> (staged[slot] # None))
    BY <2>1 DEF OpenParts, BindingOpen, Slot
  <2>3. journal.aborted # journal.pub.step
    BY <2>2, AppliesTypes
  <2> QED  BY <2>1, <2>2, <2>3 DEF PublicationReceipted
<1>2. /\ journal.pub.step \in Steps /\ Begun /\ DOMAIN journal = GenerationFields
      /\ journal.pub.step # journal.inflight
  BY <1>1, AppliesTypes DEF EndsInv, FitsInv
<1>3. slot \in owned => staged[slot] = None
  <2>1. "publish" \in HeldKinds(journal.pub.step)
    BY <1>1, <1>2, ClaimKindsOfSteps DEF OpenParts, ReceiptsOpen, ClaimsOpen
  <2> QED  BY <1>1, <1>2, <2>1, ClaimKindsOfSteps
<1>4. at # "staged"
  <2>1. at = "staged" =>
          /\ owned = {<<journal.inflight, "publish">>}
          /\ <<journal.inflight, "publish">> # slot
    BY <1>2 DEF OpenParts, BindingOpen
  <2> QED  BY <1>1, <2>1
<1>5. \A c \in Claims : staged[c] = None
  BY <1>1, <1>3 DEF OpenParts, BindingOpen
<1>6. SameClaims /\ UNCHANGED <<staged, receipt, proc>>
  BY DEF FinishPublication, AppendGeneration, SameClaims, files, private, Rests
<1>7. CASE slot \in owned
  <2>1. owned' = owned \ {slot} /\ UNCHANGED <<journal, at, aim>>
    BY <1>7 DEF FinishPublication, Rests
  <2>2. owned' = {}
    BY <1>1, <2>1
  <2>3. BindingOpen'
    BY <1>1, <1>2, <1>4, <1>5, <1>6, <2>1, <2>2, ClaimsStayAs
    DEF BindingOpen, Slot, HasReceipt, Receipts
  <2>4. ReceiptsOpen' /\ ClaimsOpen'
    BY <1>6, <2>1, ClaimsStayAs
    DEF OpenParts, ReceiptsOpen, ClaimsOpen, HasReceipt, Receipts, ReceiptIdentity
  <2>5. CallOpen' /\ edited' = {}
    BY <1>6, <2>1, ClaimsStayAs DEF CallOpen, OpenParts, SameClaims
  <2> QED  BY <2>3, <2>4, <2>5 DEF OpenParts
<1>8. CASE slot \notin owned
  <2>1. /\ journal' = NextPublicationCleared(journal) /\ at' = "top" /\ UNCHANGED owned
    BY <1>8 DEF FinishPublication, AppendGeneration, private
  <2>2. /\ journal'.pub = None /\ SameTurn(journal, journal')
    BY <1>2, <2>1 DEF NextPublicationCleared, SameTurn, GenerationFields
  <2>3. owned' = {}
    BY <1>1, <1>8, <2>1
  <2>4. BindingOpen'
    BY <1>5, <1>6, <2>1, <2>2, <2>3 DEF BindingOpen
  <2>5. ReceiptsOpen' /\ ClaimsOpen'
    BY <1>6, <2>2, ClaimsStayAs, TurnStaysAs DEF OpenParts, ReceiptsOpen, ClaimsOpen
  <2>6. CallOpen' /\ edited' = {}
    BY <1>6, <2>1 DEF CallOpen, OpenParts, SameClaims
  <2> QED  BY <2>4, <2>5, <2>6 DEF OpenParts
<1> QED  BY <1>7, <1>8

\* A command that is to roll back takes up a receipt first.
LEMMA PromoteOpens ==
  ASSUME MigrationInv, EndsInv, OpenParts, touched = {}, PromoteReceipt
  PROVE  OpenParts'
<1> PICK i : i = journal.inflight
  OBVIOUS
<1>1. /\ proc = "rollback" /\ journal.dir = "apply" /\ i # None /\ receipt["apply"][i] # None
      /\ at # "staged"
  BY DEF PromoteReceipt, RollingBack, OpenParts, CallOpen
<1>2. i \in 1 .. Count
  BY <1>1, AppliesTypes
<1>3. CASE Abandon \/ Conflict(i)
  BY <1>1, <1>3, GivesUpOpens
<1>4. CASE AppliedVisible(i) /\ AppendGeneration(NextApplyReceipt(journal, receipt["apply"][i]))
  <2>1. Kind(i) = "mkdir" => ~ Holds(i, "publish")
    BY <1>1, <1>2, <1>4, SeenHasLeft DEF AppliedVisible
  <2> QED  BY <1>1, <1>2, <1>4, <2>1, ReceivedOpens
<1> QED  BY <1>3, <1>4 DEF PromoteReceipt

\* Commands begin and die: one that begins has been admitted.
LEMMA CommandsOpen ==
  ASSUME MigrationInv, EndsInv, OpenParts, journal.dir = "apply",
         Prepare \/ Recover \/ Rollback \/ Crash
  PROVE  OpenParts'
<1>1. SamePrivate
  BY DEF Prepare, Recover, Rollback, Opens, Crash, StartsAs, SamePrivate, SameClaims, files, private
<1>2. CASE Prepare
  <2>1. /\ proc = "idle" /\ journal.phase = "absent" /\ journal' = Prepared /\ UNCHANGED <<at, aim>>
    BY <1>2 DEF Prepare, StartsAs, Begun
  <2>2. /\ at = "top" /\ owned = {} /\ journal.inflight = None /\ Receipts(journal) = 0
        /\ \A i \in 1 .. Count : ~ HasReceipt(journal, i)
    <3>1. journal.cursor = 0 /\ journal.inflight = None
      BY <2>1 DEF EndsInv, Tally
    <3> QED
      BY <2>1, <3>1, AppliesTypes DEF EndsInv, WorkInv, OpenParts, BindingOpen, Begun, HasReceipt
  <2>3. journal.pub = None
    BY <2>2 DEF OpenParts, BindingOpen
  <2>4. /\ journal'.inflight = None /\ journal'.pub = None /\ journal'.phase = "prepared"
        /\ journal'.applied = <<>>
    BY <2>1 DEF Prepared
  <2>5. \A i \in 1 .. Count : ~ HasReceipt(journal, i)'
    BY <2>4 DEF HasReceipt, Receipts
  <2>6. SameClaims /\ UNCHANGED <<staged, owned, receipt>>
    BY <1>1 DEF SamePrivate
  <2>7. BindingOpen'
    BY <2>1, <2>2, <2>4, <2>6 DEF OpenParts, BindingOpen
  <2>8. None \notin 1 .. Count
    BY AppliesTypes
  <2>9. ReceiptsOpen' /\ ClaimsOpen'
    BY <2>2, <2>5, <2>6, <2>8, ClaimsStayAs DEF OpenParts, ReceiptsOpen, ClaimsOpen
  <2>10. CallOpen' /\ edited' = {}
    BY <2>1, <2>2, <2>6 DEF CallOpen, OpenParts, SameClaims
  <2> QED  BY <2>7, <2>9, <2>10 DEF OpenParts
<1>3. CASE Recover \/ Rollback
  <2>1. /\ proc = "idle" /\ Begun /\ ReopenOK /\ UNCHANGED <<journal, at>>
    BY <1>3 DEF Recover, Rollback, Opens, StartsAs
  <2>2. at = "top"
    BY <2>1 DEF EndsInv, WorkInv
  <2>3. journal.pub = None => owned = {}
    BY <2>1 DEF ReopenOK, ActivePublicationAdmitted, Artifacts
  <2> QED  BY <1>1, <2>1, <2>2, <2>3, SteadyOpens, SameTurnHolds DEF Begun
<1>4. CASE Crash
  <2>1. /\ UNCHANGED journal /\ at' = "top" /\ proc' = "idle" /\ Begun
    BY <1>4 DEF Crash, EndsInv, FitsInv
  <2> QED  BY <1>1, <2>1, SteadyOpens, SameTurnHolds DEF Begun
<1> QED  BY <1>2, <1>3, <1>4

LEMMA OpenInit ==
  ASSUME Init
  PROVE  OpenInv
<1>1. /\ journal.inflight = None /\ journal.pub = None /\ journal.applied = <<>>
      /\ journal.phase = "absent"
  BY DEF Init, Absent, Prepared
<1>2. /\ edited = {} /\ owned = {} /\ at = "top"
      /\ \A c \in Claims : claims[c] = None /\ staged[c] = None
      /\ \A i \in Steps : receipt["apply"][i] = None
  BY DEF Init
<1>3. 1 .. Count \subseteq Steps
  BY ProgramShape DEF Init
<1>4. \A i \in 1 .. Count : HeldKinds(i) = {} /\ ~ HasReceipt(journal, i)
  <2> SUFFICES ASSUME NEW i \in 1 .. Count PROVE HeldKinds(i) = {} /\ ~ HasReceipt(journal, i)
    OBVIOUS
  <2>1. i \in Steps
    BY <1>3
  <2>2. \A k : k \notin HeldKinds(i)
    BY <1>2, <2>1, ClaimKindsOfSteps
  <2> QED  BY <1>1, <2>2 DEF HasReceipt, Receipts
<1>5. BindingOpen /\ CallOpen
  BY <1>1, <1>2 DEF BindingOpen, CallOpen
<1>6. ReceiptsOpen /\ ClaimsOpen
  BY <1>2, <1>3, <1>4 DEF ReceiptsOpen, ClaimsOpen
<1> QED  BY <1>2, <1>5, <1>6 DEF OpenInv, OpenParts

\* A transaction that goes back never applies again.
LEMMA TurnsOnce ==
  ASSUME MigrationInv, RollbackNext, journal.dir = "rollback"
  PROVE  journal'.dir = "rollback"
<1>1. Generation(journal) /\ Count \in Nat
  BY ProgramShape DEF MigrationInv, JournalInv
<1>2. ASSUME NEW i, Conflict(i) PROVE journal'.dir = "rollback"
  BY <1>1, <1>2, NextGenerations DEF Conflict
<1>3. ASSUME NEW g, g.dir = "rollback", AppendGeneration(g) PROVE journal'.dir = "rollback"
  BY <1>3 DEF AppendGeneration
<1>4. Abandon => UNCHANGED journal
  BY DEF Abandon
<1>5. ASSUME NEW i, NEW p, NEW k, NEW id,
             \/ CheckLeaf(i, p, k, id) \/ RemoveClaim(i, k) \/ RenameVisible(i, k, p)
             \/ LinkVisible(i, k, p) \/ Receipted(i, id) \/ AbortReceipts(i, id)
      PROVE  UNCHANGED journal
  BY <1>5
  DEF CheckLeaf, RemoveClaim, RenameVisible, LinkVisible, Receipted, AbortReceipts, PersistReceipt
<1>6. ASSUME NEW i, NEW p, NEW k, Publish(i, k, p) PROVE journal'.dir = "rollback"
  BY <1>2, <1>6 DEF Publish, LinkVisible
<1>7. ASSUME NEW i, NEW k, NEW id, PreparePublication(i, k, id) PROVE journal'.dir = "rollback"
  <2>1. BindPublication(i, k) => journal'.dir = journal.dir
    <3>1. \A b : NextPublicationBound(journal, b).dir = journal.dir
      BY <1>1, NextGenerations
    <3> QED  BY <3>1 DEF BindPublication
  <2> QED  BY <1>7, <2>1 DEF PreparePublication, StagePublication, InstallPublication
<1>8. CASE PromoteReceipt \/ RequestRollback
  BY <1>8 DEF PromoteReceipt, RequestRollback, CanRequestRollback
<1>9. CASE ScopeLost \/ RollbackDone
  BY <1>2, <1>4, <1>9 DEF ScopeLost, RollbackDone
<1>10. CASE RollbackIntent
  <2>1. NextRollbackIntent(journal).dir = journal.dir
    BY <1>1, <1>10, NextGenerations DEF RollbackIntent, CanIntendRollback
  <2> QED  BY <1>3, <1>10, <2>1 DEF RollbackIntent
<1>11. CASE RollbackFinish
  <2>1. NextRolledBack(journal).dir = journal.dir
    BY <1>1, NextGenerations
  <2>2. AppendGeneration(NextRolledBack(journal))
    BY <1>11 DEF RollbackFinish
  <2> QED  BY <1>3, <2>1, <2>2
<1>12. ASSUME NEW i \in Steps, RollbackStep(i) PROVE journal'.dir = "rollback"
  <2>1. ASSUME Inverts(i), NEW id
        PROVE  NextRollbackReceipt(journal, id).dir = journal.dir
    <3>1. journal.inflight # None
      BY <2>1, InodesDiffer DEF Inverts, InFlight, Steps
    <3> QED  BY <1>1, <3>1, NextGenerations
  <2>2. CASE InverseDisplaced(i) \/ InverseJournaled(i) \/ InverseVerified(i)
    BY <1>2, <1>3, <1>4, <2>1, <2>2 DEF InverseDisplaced, InverseJournaled, InverseVerified
  <2>3. CASE InvertMkdir(i) \/ InvertCreate(i)
    BY <1>2, <1>4, <1>5, <2>3 DEF InvertMkdir, InvertCreate
  <2>4. CASE TakesPublished(i) \/ RestoreRefused(i) \/ RestoreFound(i) \/ RestoreReceipted(i)
    BY <1>2, <1>4, <1>5, <2>4 DEF TakesPublished, RestoreRefused, RestoreFound, RestoreReceipted
  <2>5. CASE RestorePrepared(i) \/ RestorePublishes(i)
    BY <1>4, <1>6, <1>7, <2>5 DEF RestorePrepared, RestorePublishes
  <2> QED  BY <1>12, <2>2, <2>3, <2>4, <2>5 DEF RollbackStep
<1>13. ASSUME NEW i \in Steps, AbortStep(i) PROVE journal'.dir = "rollback"
  <2>1. NextAbortedApply(journal).dir = journal.dir
    BY <1>1, NextGenerations
  <2>2. CASE AbortDisplaced(i) \/ AbortJournaled(i)
    BY <1>2, <1>3, <1>4, <2>1, <2>2 DEF AbortDisplaced, AbortJournaled
  <2>3. CASE AbortMkdir(i) \/ AbortCreate(i)
    BY <1>4, <1>5, <2>3 DEF AbortMkdir, AbortCreate
  <2>4. CASE AbortReplaceUntaken(i) \/ AbortReplaceTaken(i)
    BY <1>2, <1>4, <1>5, <2>4 DEF AbortReplaceUntaken, AbortReplaceTaken
  <2>5. CASE AbortMoveUntaken(i) \/ AbortMoveTaken(i)
    BY <1>2, <1>4, <1>5, <2>5 DEF AbortMoveUntaken, AbortMoveTaken
  <2> QED  BY <1>13, <2>2, <2>3, <2>4, <2>5 DEF AbortStep
<1> QED  BY <1>8, <1>9, <1>10, <1>11, <1>12, <1>13 DEF RollbackNext

\* Of the steps of a rollback only the one that takes up a receipt leaves it applying.
LEMMA RollbackOpens ==
  ASSUME MigrationInv, EndsInv, OpenInv, touched = {}, RollbackNext, journal'.dir = "apply"
  PROVE  OpenParts'
<1>1. Generation(journal) /\ Count \in Nat
  BY ProgramShape DEF MigrationInv, JournalInv
<1>2. journal.dir = "apply"
  BY <1>1, TurnsOnce DEF Generation
<1>3. ~ RequestRollback
  BY <1>1, NextGenerations DEF RequestRollback, AppendGeneration
<1>4. PromoteReceipt
  <2>1. ~ (ScopeLost \/ RollbackIntent \/ RollbackFinish)
    BY <1>2 DEF ScopeLost, RollbackIntent, RollbackFinish, CanIntendRollback, CanFinishRollback
  <2>2. ~ RollbackDone
    BY <1>2 DEF RollbackDone, EndsInv, Tally
  <2>3. \A i \in Steps : ~ (RollbackStep(i) \/ AbortStep(i))
    BY <1>2
    DEF RollbackStep, InverseDisplaced, InverseJournaled, InverseVerified, InvertMkdir,
        InvertCreate, TakesPublished, RestoreRefused, RestorePrepared, RestorePublishes,
        RestoreFound, RestoreReceipted, Restores, Inverting, Inverts, InFlight,
        AbortStep, AbortDisplaced, AbortJournaled, AbortMkdir, AbortCreate, AbortReplaceUntaken,
        AbortReplaceTaken, AbortMoveUntaken, AbortMoveTaken, Aborting, Aborts
  <2> QED  BY <1>3, <2>1, <2>2, <2>3 DEF RollbackNext
<1> QED  BY <1>2, <1>4, PromoteOpens DEF OpenInv

\* Commands leave what people touched as it is.
LEMMA TouchedRests ==
  ASSUME ApplyNext \/ RollbackNext \/ RenameIntoClaim \/ FinishPublication
  PROVE  UNCHANGED touched
<1>1. ASSUME NEW i, Conflict(i) PROVE UNCHANGED touched
  BY <1>1 DEF Conflict, userVars
<1>2. ASSUME NEW g, AppendGeneration(g) PROVE UNCHANGED touched
  BY <1>2 DEF AppendGeneration, Rests, userVars
<1>3. Abandon => UNCHANGED touched
  BY DEF Abandon, userVars
<1>4. ASSUME NEW i, NEW p, NEW k, NEW id,
             \/ CheckLeaf(i, p, k, id) \/ RemoveClaim(i, k) \/ RenameVisible(i, k, p)
             \/ LinkVisible(i, k, p) \/ Receipted(i, id) \/ AbortReceipts(i, id)
             \/ PersistReceipt("apply", i, id)
      PROVE  UNCHANGED touched
  BY <1>4
  DEF CheckLeaf, RemoveClaim, RenameVisible, LinkVisible, Receipted, AbortReceipts,
      PersistReceipt, Rests, userVars
<1>5. ASSUME NEW i, NEW p, NEW k, Publish(i, k, p) PROVE UNCHANGED touched
  BY <1>1, <1>5 DEF Publish, LinkVisible, Rests, userVars
<1>6. ASSUME NEW i, NEW k, NEW id, PreparePublication(i, k, id) PROVE UNCHANGED touched
  BY <1>6
  DEF PreparePublication, StagePublication, BindPublication, InstallPublication, Rests, userVars
<1>7. CASE RenameIntoClaim \/ FinishPublication
  BY <1>2, <1>7 DEF RenameIntoClaim, FinishPublication, Rests, userVars
<1>8. CASE ApplyIntent \/ PreparedDrifted \/ ApplyFinish \/ ApplyVerifies
  BY <1>1, <1>2, <1>3, <1>8
  DEF ApplyIntent, PreparedDrifted, ApplyFinish, ApplyVerifies, userVars
<1>9. ASSUME NEW i, ApplyStep(i) PROVE UNCHANGED touched
  <2>1. CASE \/ ApplyReceiptJournaled(i) \/ ApplyReceiptVerified(i) \/ ApplyReceiptPersists(i)
             \/ Displaced(i)
    BY <1>1, <1>2, <1>3, <1>4, <2>1
    DEF ApplyReceiptJournaled, ApplyReceiptVerified, ApplyReceiptPersists, Displaced
  <2>2. CASE MkdirPrepare(i) \/ MkdirReceipt(i) \/ MkdirPublish(i)
    BY <1>1, <1>2, <1>3, <1>4, <2>2 DEF MkdirPrepare, MkdirReceipt, MkdirPublish, Rests, userVars
  <2>3. CASE ImagePrepared(i) \/ CreatePublishes(i) \/ ReplacePublishes(i) \/ MovePublishes(i)
    BY <1>1, <1>3, <1>5, <1>6, <2>3
    DEF ImagePrepared, CreatePublishes, ReplacePublishes, MovePublishes
  <2>4. CASE ReplaceTakesSource(i) \/ MoveTakesSource(i)
    BY <1>1, <1>3, <1>4, <2>4 DEF ReplaceTakesSource, MoveTakesSource
  <2> QED  BY <1>9, <2>1, <2>2, <2>3, <2>4 DEF ApplyStep
<1>10. CASE \/ PromoteReceipt \/ RequestRollback \/ ScopeLost
            \/ RollbackIntent \/ RollbackFinish \/ RollbackDone
  BY <1>1, <1>2, <1>3, <1>10
  DEF PromoteReceipt, RequestRollback, ScopeLost, RollbackIntent, RollbackFinish, RollbackDone, userVars
<1>11. ASSUME NEW i, RollbackStep(i) PROVE UNCHANGED touched
  <2>1. CASE InverseDisplaced(i) \/ InverseJournaled(i) \/ InverseVerified(i)
    BY <1>1, <1>2, <1>3, <2>1 DEF InverseDisplaced, InverseJournaled, InverseVerified
  <2>2. CASE InvertMkdir(i) \/ InvertCreate(i)
    BY <1>1, <1>3, <1>4, <2>2 DEF InvertMkdir, InvertCreate
  <2>3. CASE TakesPublished(i) \/ RestoreRefused(i) \/ RestoreFound(i) \/ RestoreReceipted(i)
    BY <1>1, <1>3, <1>4, <2>3 DEF TakesPublished, RestoreRefused, RestoreFound, RestoreReceipted
  <2>4. CASE RestorePrepared(i) \/ RestorePublishes(i)
    BY <1>3, <1>5, <1>6, <2>4 DEF RestorePrepared, RestorePublishes
  <2> QED  BY <1>11, <2>1, <2>2, <2>3, <2>4 DEF RollbackStep
<1>12. ASSUME NEW i, AbortStep(i) PROVE UNCHANGED touched
  <2>1. CASE AbortDisplaced(i) \/ AbortJournaled(i)
    BY <1>1, <1>2, <1>3, <2>1 DEF AbortDisplaced, AbortJournaled
  <2>2. CASE AbortMkdir(i) \/ AbortCreate(i)
    BY <1>3, <1>4, <2>2 DEF AbortMkdir, AbortCreate
  <2>3. CASE AbortReplaceUntaken(i) \/ AbortReplaceTaken(i)
    BY <1>1, <1>3, <1>4, <2>3 DEF AbortReplaceUntaken, AbortReplaceTaken
  <2>4. CASE AbortMoveUntaken(i) \/ AbortMoveTaken(i)
    BY <1>1, <1>3, <1>4, <2>4 DEF AbortMoveUntaken, AbortMoveTaken
  <2> QED  BY <1>12, <2>1, <2>2, <2>3, <2>4 DEF AbortStep
<1> QED  BY <1>7, <1>8, <1>9, <1>10, <1>11, <1>12 DEF ApplyNext, RollbackNext

LEMMA OpenStep ==
  ASSUME MigrationInv, EndsInv, OpenInv, [Next]_vars
  PROVE  OpenInv'
<1> SUFFICES ASSUME journal'.dir = "apply", touched' = {}
             PROVE  OpenParts'
  BY DEF OpenInv
<1>1. Generation(journal)
  BY DEF MigrationInv, JournalInv
<1>2. CASE Prepare \/ Recover \/ Rollback \/ Crash
  <2>1. UNCHANGED touched
    BY <1>2 DEF Prepare, Recover, Rollback, Crash, StartsAs, userVars
  <2>2. journal.dir = "apply"
    BY <1>1, <1>2 DEF Prepare, Recover, Rollback, Crash, Opens, Begun, Generation
  <2> QED  BY <1>2, <2>1, <2>2, CommandsOpen DEF OpenInv
<1>3. CASE ApplyNext
  <2>1. journal.dir = "apply"
    BY <1>3, AppliesFirst
  <2> QED  BY <1>3, <2>1, TouchedRests, ApplyOpens DEF OpenInv
<1>4. CASE RollbackNext
  BY <1>4, TouchedRests, RollbackOpens
<1>5. CASE RenameIntoClaim
  BY <1>5, TouchedRests, TakenOpens DEF OpenInv, RenameIntoClaim
<1>6. CASE proc # "idle" /\ FinishPublication
  <2>1. journal.dir = "apply"
    <3>1. NextPublicationCleared(journal).dir = journal.dir
      BY <1>1, ProgramShape, NextGenerations DEF MigrationInv, JournalInv
    <3> QED  BY <1>6, <3>1 DEF FinishPublication, AppendGeneration
  <2> QED  BY <1>6, <2>1, TouchedRests, FinishOpens DEF OpenInv
<1>7. CASE UserActs
  <2>1. touched' # {}
    BY <1>7 DEF UserActs, UserEdits, UserReplaces, UserCreates, UserDeletes, Acts
  <2> QED  BY <2>1
<1>8. CASE UNCHANGED vars
  <2>1. /\ SamePrivate /\ UNCHANGED <<journal, proc, at, aim, touched>>
    BY <1>8 DEF vars, SamePrivate, SameClaims, files, private, userVars
  <2>2. OpenParts
    BY <2>1 DEF OpenInv
  <2>3. SameClaims /\ UNCHANGED <<staged, owned, receipt>>
    BY <2>1 DEF SamePrivate
  <2>4. BindingOpen'
    BY <2>1, <2>2, <2>3, ClaimsStayAs
    DEF OpenParts, BindingOpen, SameClaims, Begun, HasReceipt, Receipts
  <2>5. ReceiptsOpen' /\ ClaimsOpen'
    BY <2>1, <2>2, <2>3, ClaimsStayAs, TurnStaysAs, SameTurnHolds
    DEF OpenParts, ReceiptsOpen, ClaimsOpen
  <2>6. CallOpen' /\ edited' = {}
    BY <2>1, <2>2, <2>3, ClaimsStayAs DEF OpenParts, CallOpen, SameClaims
  <2> QED  BY <2>4, <2>5, <2>6 DEF OpenParts
<1> QED  BY <1>2, <1>3, <1>4, <1>5, <1>6, <1>7, <1>8 DEF Next, Works, PeopleWork

\* A transaction that is stranded while it applies, and with which nobody interfered, died
\* between a stage and the generation that binds it: everything else that any number of
\* crashes leaves is admitted when it is opened again (open_transaction_v1_with_artifacts).
THEOREM StrandsOnlyByStage == Spec => []StrandedOnlyByStage
<1>1. Init => OpenInv
  BY OpenInit
<1>2. MigrationInv /\ EndsInv /\ OpenInv /\ [Next]_vars => OpenInv'
  BY OpenStep
<1>3. MigrationInv /\ EndsInv /\ OpenInv => StrandedOnlyByStage
  BY OpenIsAdmitted DEF OpenInv, StrandedOnlyByStage, Stranded
<1>4. Init => EndsInv
  BY EndsInit
<1>5. MigrationInv /\ EndsInv /\ [Next]_vars => EndsInv'
  BY EndsStep
<1> QED  BY <1>1, <1>2, <1>3, <1>4, <1>5, MigrationInvariance, PTL DEF Spec

-----------------------------------------------------------------------------
(* Reorganization plans: what a sealed plan promises whoever carries it out. *)

Plans == INSTANCE Reorganization

\* The tree after n operations is the one after n - 1 with the n-th done to it.
LEMMA TreeByTree ==
  ASSUME NEW tree0, NEW profile, NEW ops, Len(ops) \in Nat
  PROVE  LET t == Plans!After(tree0, profile, ops)
         IN  /\ DOMAIN t = 0 .. Len(ops)
             /\ t[0] = tree0
             /\ \A n \in 1 .. Len(ops) : t[n] = Plans!Done(t[n - 1], profile, ops[n])
<1> DEFINE N == Len(ops)
           D(u, n) == Plans!Done(u, profile, ops[n])
           Grows(f, k) == f = [n \in 0 .. k |-> IF n = 0 THEN tree0 ELSE D(f[n - 1], n)]
           T == {k \in Nat : \E f : Grows(f, k)}
           t == Plans!After(tree0, profile, ops)
<1> HIDE DEF D
<1>1. 0 \in T
  <2>1. Grows([n \in 0 .. 0 |-> tree0], 0)
    OBVIOUS
  <2> QED BY <2>1
<1>2. ASSUME NEW k \in T PROVE k + 1 \in T
  <2>1. PICK f : Grows(f, k)
    OBVIOUS
  <2> DEFINE g == [n \in 0 .. k + 1 |-> IF n = k + 1 THEN D(f[k], k + 1) ELSE f[n]]
  <2>2. \A n \in 0 .. k + 1 : g[n] = IF n = 0 THEN tree0 ELSE D(g[n - 1], n)
    <3> SUFFICES ASSUME NEW n \in 0 .. k + 1
                 PROVE  g[n] = IF n = 0 THEN tree0 ELSE D(g[n - 1], n)
      OBVIOUS
    <3>1. CASE n = k + 1
      <4>1. g[n] = D(f[k], n) /\ n # 0 /\ n - 1 = k
        BY <3>1
      <4>2. g[k] = f[k]
        OBVIOUS
      <4> QED BY <4>1, <4>2
    <3>2. CASE n \in 1 .. k
      <4>1. g[n] = f[n] /\ g[n - 1] = f[n - 1]
        BY <3>2
      <4>2. f[n] = D(f[n - 1], n)
        BY <2>1, <3>2
      <4> QED BY <3>2, <4>1, <4>2
    <3>3. CASE n = 0
      BY <2>1, <3>3
    <3> QED BY <3>1, <3>2, <3>3
  <2>3. Grows(g, k + 1)
    <3>1. g = [n \in 0 .. k + 1 |-> g[n]]
      OBVIOUS
    <3> HIDE DEF g
    <3> QED BY <2>2, <3>1
  <2>4. \E f1 : Grows(f1, k + 1)
    <3> HIDE DEF Grows, g
    <3> QED BY <2>3
  <2>5. k + 1 \in Nat
    OBVIOUS
  <2>6. \A j : j \in T <=> j \in Nat /\ \E f1 : Grows(f1, j)
    <3> HIDE DEF Grows
    <3> QED OBVIOUS
  <2> HIDE DEF T, Grows, g
  <2> QED BY <2>4, <2>5, <2>6
<1>3. T = Nat
  <2>1. T \subseteq Nat
    OBVIOUS
  <2> HIDE DEF T
  <2> QED BY <1>1, <1>2, <2>1, NaturalSets
<1>4. \E f : Grows(f, N)
  BY <1>3
<1>5. t = CHOOSE f : Grows(f, N)
  BY DEF Plans!After, D
<1> HIDE DEF t
<1>6. Grows(t, N)
  <2> HIDE DEF Grows
  <2> QED BY <1>4, <1>5, Zenon
<1>7. /\ DOMAIN t = 0 .. N
      /\ t[0] = tree0
      /\ \A n \in 1 .. N : t[n] = D(t[n - 1], n)
  BY <1>6
<1> QED BY <1>7 DEF t, D

\* What a draft's operations are about: keys, which are paths as the folder tells them apart.
KeysOf(profile, op) == {Plans!Key(profile, p) : p \in Plans!Elements(Plans!OperationPaths(op))}

LEMMA KeysAre ==
  ASSUME NEW profile, NEW op
  PROVE  KeysOf(profile, op) =
           {Plans!Key(profile, op.path)}
           \cup IF op.kind \in Plans!Moves THEN {Plans!Key(profile, op.to)} ELSE {}
<1>1. Plans!Elements(Plans!OperationPaths(op)) =
        {op.path} \cup IF op.kind \in Plans!Moves THEN {op.to} ELSE {}
  <2>1. CASE op.kind \in Plans!Moves
    <3>1. Plans!OperationPaths(op) = <<op.path, op.to>> /\ DOMAIN <<op.path, op.to>> = {1, 2}
      BY <2>1 DEF Plans!OperationPaths
    <3> QED BY <2>1, <3>1 DEF Plans!Elements
  <2>2. CASE op.kind \notin Plans!Moves
    <3>1. Plans!OperationPaths(op) = <<op.path>> /\ DOMAIN <<op.path>> = {1}
      BY <2>2 DEF Plans!OperationPaths
    <3> QED BY <2>2, <3>1 DEF Plans!Elements
  <2> QED BY <2>1, <2>2
<1> QED BY <1>1 DEF KeysOf

\* An operation changes the fact at no other key, and makes the directory it is to make.
LEMMA DoneIsLocal ==
  ASSUME NEW tree0, NEW profile, NEW op
  PROVE  LET done == Plans!Done(tree0, profile, op)
         IN  /\ \A key : key \notin KeysOf(profile, op) =>
                  Plans!FactAt(done, key) = Plans!FactAt(tree0, key)
             /\ op.kind = "create_directory" =>
                  Plans!FactAt(done, Plans!Key(profile, op.path)) = Plans!Directory
<1> DEFINE source == Plans!Key(profile, op.path)
           target == Plans!Key(profile, op.to)
           without == [k \in DOMAIN tree0 \ {source} |-> tree0[k]]
<1> HIDE DEF source, target
<1>1. \A u, key, fact :
        /\ Plans!FactAt(Plans!Set(u, key, fact), key) = fact
        /\ \A k : k # key => Plans!FactAt(Plans!Set(u, key, fact), k) = Plans!FactAt(u, k)
  BY DEF Plans!Set, Plans!FactAt
<1>2. \A k : k # source => Plans!FactAt(without, k) = Plans!FactAt(tree0, k)
  BY DEF Plans!FactAt
<1>3. KeysOf(profile, op) = {source} \cup IF op.kind \in Plans!Moves THEN {target} ELSE {}
  BY KeysAre DEF source, target
<1> HIDE DEF without
<1>4. CASE op.kind \in Plans!Moves
  <2>1. op.kind # "create_directory"
    BY <1>4 DEF Plans!Moves
  <2>2. Plans!Done(tree0, profile, op) = Plans!Set(without, target, tree0[source])
    BY <1>4, <2>1 DEF Plans!Done, source, target, without
  <2> QED BY <1>1, <1>2, <1>3, <1>4, <2>1, <2>2
<1>5. CASE op.kind = "create_directory"
  <2>1. Plans!Done(tree0, profile, op) = Plans!Set(tree0, source, Plans!Directory)
    BY <1>5 DEF Plans!Done, Plans!Moves, source
  <2> QED BY <1>1, <1>3, <2>1 DEF source
<1>6. CASE op.kind \notin Plans!Moves /\ op.kind # "create_directory"
  <2>1. Plans!Done(tree0, profile, op) = Plans!Set(tree0, source, Plans!Written)
    BY <1>6 DEF Plans!Done, source
  <2> QED BY <1>1, <1>3, <1>6, <2>1
<1> QED BY <1>4, <1>5, <1>6

\* What no operation since the m-th is about is as it was after the m-th.
LEMMA OthersFactsStay ==
  ASSUME NEW tree0, NEW profile, NEW ops, Len(ops) \in Nat, NEW m \in 0 .. Len(ops), NEW key,
         NEW n \in m .. Len(ops), \A j \in m + 1 .. n : key \notin KeysOf(profile, ops[j])
  PROVE  Plans!FactAt(Plans!After(tree0, profile, ops)[n], key) =
           Plans!FactAt(Plans!After(tree0, profile, ops)[m], key)
<1> DEFINE t == Plans!After(tree0, profile, ops)
           N == Len(ops)
           T == {k \in Nat : m + k =< n => Plans!FactAt(t[m + k], key) = Plans!FactAt(t[m], key)}
<1>1. \A i \in 1 .. N : t[i] = Plans!Done(t[i - 1], profile, ops[i])
  BY TreeByTree
<1> HIDE DEF t
<1>2. 0 \in T
  OBVIOUS
<1>3. ASSUME NEW k \in T PROVE k + 1 \in T
  <2>1. SUFFICES ASSUME m + k + 1 =< n
                 PROVE  Plans!FactAt(t[m + k + 1], key) = Plans!FactAt(t[m], key)
    OBVIOUS
  <2>2. m + k + 1 \in 1 .. N /\ m + k + 1 \in m + 1 .. n /\ (m + k + 1) - 1 = m + k
    BY <2>1
  <2>3. t[m + k + 1] = Plans!Done(t[m + k], profile, ops[m + k + 1])
    BY <1>1, <2>2
  <2>4. key \notin KeysOf(profile, ops[m + k + 1])
    BY <2>2
  <2>5. Plans!FactAt(t[m + k + 1], key) = Plans!FactAt(t[m + k], key)
    BY <2>3, <2>4, DoneIsLocal
  <2>6. Plans!FactAt(t[m + k], key) = Plans!FactAt(t[m], key)
    BY <2>1
  <2> QED BY <2>5, <2>6
<1>4. T = Nat
  <2>1. T \subseteq Nat
    OBVIOUS
  <2> HIDE DEF T
  <2> QED BY <1>2, <1>3, <2>1, NaturalSets
<1>5. n - m \in Nat /\ m + (n - m) = n
  OBVIOUS
<1>6. n - m \in T
  <2> HIDE DEF T
  <2> QED BY <1>4, <1>5
<1> QED BY <1>5, <1>6 DEF t

\* Every operation of a draft is about keys of its own.
LEMMA KeysAreApart ==
  ASSUME NEW profile, NEW ops, Len(ops) \in Nat, DOMAIN ops = 1 .. Len(ops),
         Plans!PathsAreUnique(profile, ops),
         NEW i \in 1 .. Len(ops), NEW j \in 1 .. Len(ops), i # j
  PROVE  KeysOf(profile, ops[i]) \cap KeysOf(profile, ops[j]) = {}
<1> SUFFICES ASSUME NEW key \in KeysOf(profile, ops[i]), key \in KeysOf(profile, ops[j])
             PROVE  FALSE
  OBVIOUS
<1>1. PICK m \in DOMAIN Plans!OperationPaths(ops[i]) :
        key = Plans!Key(profile, Plans!OperationPaths(ops[i])[m])
  BY DEF KeysOf, Plans!Elements
<1>2. PICK n \in DOMAIN Plans!OperationPaths(ops[j]) :
        key = Plans!Key(profile, Plans!OperationPaths(ops[j])[n])
  BY DEF KeysOf, Plans!Elements
<1> DEFINE u == <<i, m>>
           w == <<j, n>>
           uses == UNION {{<<k, l>> : l \in DOMAIN Plans!OperationPaths(ops[k])} : k \in DOMAIN ops}
<1>3. u \in uses /\ w \in uses
  <2>1. \A k \in DOMAIN ops : \A l \in DOMAIN Plans!OperationPaths(ops[k]) : <<k, l>> \in uses
    OBVIOUS
  <2> HIDE DEF uses
  <2> QED BY <1>1, <1>2, <2>1
<1>4. u[1] = i /\ u[2] = m /\ w[1] = j /\ w[2] = n
  OBVIOUS
<1>5. \A x, y \in uses :
        Plans!Key(profile, Plans!OperationPaths(ops[x[1]])[x[2]])
          = Plans!Key(profile, Plans!OperationPaths(ops[y[1]])[y[2]]) => x = y
  BY DEF Plans!PathsAreUnique
<1> HIDE DEF uses, u, w
<1>6. u = w
  BY <1>1, <1>2, <1>3, <1>4, <1>5
<1> QED BY <1>4, <1>6

\* What an operation requires at its own keys, and what it does not.
LEMMA OwnRequirementsAre ==
  ASSUME NEW profile, NEW op
  PROVE  /\ \A r \in Plans!OwnRequirements(profile, op) : r = <<r[1], r[2]>>
         /\ {r[1] : r \in Plans!OwnRequirements(profile, op)} = KeysOf(profile, op)
         /\ \A r \in Plans!OwnRequirements(profile, op) : r[2].is # "directory"
<1> DEFINE own == <<Plans!Key(profile, op.path), Plans!OwnRequirement(op)>>
           other == <<Plans!Key(profile, op.to), Plans!Absent>>
<1>1. own[1] = Plans!Key(profile, op.path) /\ own[2] = Plans!OwnRequirement(op)
      /\ other[1] = Plans!Key(profile, op.to) /\ other[2] = Plans!Absent
      /\ own = <<own[1], own[2]>> /\ other = <<other[1], other[2]>>
  OBVIOUS
<1>2. Plans!OwnRequirements(profile, op) =
        {own} \cup IF op.kind \in Plans!Moves THEN {other} ELSE {}
  BY DEF Plans!OwnRequirements
<1>3. Plans!OwnRequirement(op).is # "directory" /\ Plans!Absent.is # "directory"
  <2>1. CASE op.kind \in Plans!Creates
    BY <2>1 DEF Plans!OwnRequirement, Plans!Creates, Plans!Absent
  <2>2. CASE op.kind = "move_file"
    BY <2>2 DEF Plans!OwnRequirement, Plans!Creates, Plans!File, Plans!Absent
  <2>3. CASE op.kind = "move_tracked"
    BY <2>3 DEF Plans!OwnRequirement, Plans!Creates, Plans!Tracked, Plans!Absent
  <2>4. CASE op.kind \notin Plans!Creates \cup {"move_file", "move_tracked"}
    BY <2>4 DEF Plans!OwnRequirement, Plans!File, Plans!Absent
  <2> QED BY <2>1, <2>2, <2>3, <2>4
<1> HIDE DEF own, other
<1>4. KeysOf(profile, op) = {own[1]} \cup IF op.kind \in Plans!Moves THEN {other[1]} ELSE {}
  BY <1>1, KeysAre
<1> QED BY <1>1, <1>2, <1>3, <1>4

\* The keys above a path's key are the keys of the paths above it.
LEMMA KeysAbove ==
  ASSUME NEW Names, NEW profile, NEW p \in Seq(Names), NEW a \in Plans!Ancestors(Plans!Key(profile, p))
  PROVE  \E b \in Plans!Ancestors(p) : Plans!Key(profile, b) = a
<1> DEFINE form == IF profile = "case_fold" THEN Fold ELSE Normal
           f == Plans!Spelled(form, p)
           forms == {form[x] : x \in Names}
<1>1. \A q : Plans!Key(profile, q) = Plans!Spelled(form, q)
  BY DEF Plans!Key
<1> HIDE DEF form
<1>2. f = [i \in 1 .. Len(p) |-> form[p[i]]] /\ Len(p) \in Nat
  BY DEF Plans!Spelled
<1>3. f \in Seq(forms) /\ Len(f) = Len(p)
  <2>1. \A i \in 1 .. Len(p) : form[p[i]] \in forms
    OBVIOUS
  <2> HIDE DEF forms, f
  <2> QED BY <1>2, <2>1
<1>4. PICK n \in 1 .. Len(p) - 1 : a = SubSeq(f, 1, n)
  BY <1>1, <1>3 DEF Plans!Ancestors
<1> DEFINE b == SubSeq(p, 1, n)
<1>5. DOMAIN b = 1 .. n /\ \A i \in 1 .. n : b[i] = p[i]
  BY <1>2
<1>6. a = [i \in 1 .. n |-> form[p[i]]]
  <2>1. a = [i \in 1 .. n |-> f[i]]
    <3> HIDE DEF f, forms
    <3> QED BY <1>2, <1>3, <1>4
  <2>2. \A i \in 1 .. n : f[i] = form[p[i]]
    BY <1>2
  <2> HIDE DEF f
  <2> QED BY <2>1, <2>2
<1>7. b \in Plans!Ancestors(p)
  BY DEF Plans!Ancestors
<1> HIDE DEF b
<1>8. Plans!Spelled(form, b) = [i \in 1 .. n |-> form[p[i]]]
  BY <1>5 DEF Plans!Spelled
<1> QED BY <1>1, <1>6, <1>7, <1>8

\* A draft: a list of operations about paths, and facts that say no more of an absent path
\* or of a directory than that.
IsDraft(draft, Names) ==
  /\ draft.operations \in Seq(Plans!Elements(draft.operations))
  /\ \A op \in Plans!Elements(draft.operations) :
       \A p \in Plans!Elements(Plans!OperationPaths(op)) : p \in Seq(Names)
  /\ \A e \in Plans!Elements(draft.scope.closure) :
       e.fact.is \in {"absent", "directory"} => e.fact = [is |-> e.fact.is]

\* What a valid draft requires is so in a tree with the facts of its closure.
LEMMA RequiredIsThere ==
  ASSUME NEW draft, NEW tree0, Plans!ValidDraft(draft),
         Plans!Meets(tree0, draft.profile, draft.scope),
         NEW r \in Plans!Requirements(draft.profile, draft.operations)
  PROVE  \E e \in Plans!Elements(draft.scope.closure) :
           /\ Plans!FactAt(tree0, r[1]) = e.fact
           /\ Plans!Matches(e.fact, r[2])
<1>1. Plans!ValidClosure(draft.profile, draft.scope, draft.operations)
  BY DEF Plans!ValidDraft
<1>2. {Plans!Key(draft.profile, e.path) : e \in Plans!Elements(draft.scope.closure)} =
        {q[1] : q \in Plans!Requirements(draft.profile, draft.operations)}
  BY <1>1 DEF Plans!ValidClosure, Plans!ExactlyOneEach
<1>3. PICK e \in Plans!Elements(draft.scope.closure) : Plans!Key(draft.profile, e.path) = r[1]
  BY <1>2
<1>4. Plans!Matches(e.fact, r[2])
  BY <1>1, <1>3 DEF Plans!ValidClosure
<1>5. Plans!FactAt(tree0, r[1]) = e.fact
  BY <1>3 DEF Plans!Meets
<1> QED BY <1>4, <1>5

\* A directory that must be there before is no key an operation is about.
LEMMA DirectoriesAreNotTouched ==
  ASSUME NEW draft, NEW tree0, Plans!ValidDraft(draft),
         Plans!Meets(tree0, draft.profile, draft.scope),
         NEW op \in Plans!Elements(draft.operations), NEW key,
         Plans!FactAt(tree0, key).is = "directory"
  PROVE  key \notin KeysOf(draft.profile, op)
<1> SUFFICES ASSUME key \in KeysOf(draft.profile, op) PROVE FALSE
  OBVIOUS
<1>1. PICK r \in Plans!OwnRequirements(draft.profile, op) : r[1] = key
  BY OwnRequirementsAre
<1>2. r[2].is # "directory"
  BY OwnRequirementsAre
<1>3. r \in Plans!Requirements(draft.profile, draft.operations)
  BY DEF Plans!Requirements
<1>4. PICK e \in Plans!Elements(draft.scope.closure) :
        Plans!FactAt(tree0, key) = e.fact /\ Plans!Matches(e.fact, r[2])
  BY <1>1, <1>3, RequiredIsThere
<1> QED BY <1>2, <1>4 DEF Plans!Matches

\* Every sealed plan runs through on every tree with the facts of its closure, whatever
\* the names, the folding and the number of operations.
THEOREM PlansAlwaysRun ==
  ASSUME NEW sealed, NEW tree0, NEW Names, Plans!ValidPlan(sealed), IsDraft(sealed.draft, Names)
  PROVE  Plans!PlansRun(sealed, tree0)
<1> DEFINE draft == sealed.draft
           profile == draft.profile
           ops == draft.operations
           N == Len(ops)
           t == Plans!After(tree0, profile, ops)
<1>1. SUFFICES ASSUME Plans!Meets(tree0, profile, draft.scope), NEW n \in 1 .. N
               PROVE  Plans!Ready(t[n - 1], profile, ops[n])
  BY DEF Plans!PlansRun, IsDraft
<1>2. N \in Nat /\ DOMAIN ops = 1 .. N
  BY DEF IsDraft
<1>3. Plans!ValidDraft(draft)
  BY DEF Plans!ValidPlan
<1>4. \A i \in 1 .. N : ops[i] \in Plans!Elements(ops)
  BY <1>2 DEF Plans!Elements
<1>5. \A i \in 1 .. N : t[i] = Plans!Done(t[i - 1], profile, ops[i])
  BY <1>2, TreeByTree
<1>6. t[0] = tree0
  BY <1>2, TreeByTree
<1>7. n - 1 \in 0 .. N /\ 0 \in 0 .. N
  BY <1>2
<1>8. \A key, m : m \in 0 .. n - 1 /\ (\A j \in m + 1 .. n - 1 : key \notin KeysOf(profile, ops[j]))
        => Plans!FactAt(t[n - 1], key) = Plans!FactAt(t[m], key)
  <2> SUFFICES ASSUME NEW key, NEW m \in 0 .. n - 1,
                      \A j \in m + 1 .. n - 1 : key \notin KeysOf(profile, ops[j])
               PROVE  Plans!FactAt(t[n - 1], key) = Plans!FactAt(t[m], key)
    OBVIOUS
  <2>1. PICK last \in m .. Len(ops) : last = n - 1
    BY <1>2
  <2>2. /\ m \in 0 .. Len(ops) /\ Len(ops) \in Nat
        /\ \A j \in m + 1 .. last : key \notin KeysOf(profile, ops[j])
    BY <1>2, <2>1
  <2> HIDE DEF ops, profile, N
  <2>3. Plans!FactAt(Plans!After(tree0, profile, ops)[last], key) =
          Plans!FactAt(Plans!After(tree0, profile, ops)[m], key)
    BY <2>2, OthersFactsStay
  <2> QED BY <2>1, <2>3
<1>9. Plans!ParentsPrecede(profile, ops)
  BY <1>3 DEF Plans!ValidDraft, Plans!ValidClosure
<1>10. \A r \in Plans!OwnRequirements(profile, ops[n]) :
         Plans!Matches(Plans!FactAt(t[n - 1], r[1]), r[2])
  <2> SUFFICES ASSUME NEW r \in Plans!OwnRequirements(profile, ops[n])
               PROVE  Plans!Matches(Plans!FactAt(t[n - 1], r[1]), r[2])
    OBVIOUS
  <2>1. r \in Plans!Requirements(profile, ops)
    BY <1>4 DEF Plans!Requirements
  <2>2. Plans!Matches(Plans!FactAt(tree0, r[1]), r[2])
    BY <1>1, <1>3, <2>1, RequiredIsThere
  <2>3. r[1] \in KeysOf(profile, ops[n])
    BY OwnRequirementsAre
  <2>4. \A j \in 1 .. n - 1 : r[1] \notin KeysOf(profile, ops[j])
    <3> SUFFICES ASSUME NEW j \in 1 .. n - 1 PROVE r[1] \notin KeysOf(profile, ops[j])
      OBVIOUS
    <3>1. j \in 1 .. N /\ j # n /\ Plans!PathsAreUnique(profile, ops)
      BY <1>2, <1>3 DEF Plans!ValidDraft
    <3> QED BY <1>2, <2>3, <3>1, KeysAreApart
  <2>5. Plans!FactAt(t[n - 1], r[1]) = Plans!FactAt(tree0, r[1])
    <3>1. 0 \in 0 .. n - 1 /\ \A j \in 0 + 1 .. n - 1 : r[1] \notin KeysOf(profile, ops[j])
      BY <2>4
    <3>2. Plans!FactAt(t[n - 1], r[1]) = Plans!FactAt(t[0], r[1])
      BY <1>8, <3>1
    <3> QED BY <1>6, <3>2
  <2> QED BY <2>2, <2>5
<1>11. ASSUME NEW p \in Plans!Elements(Plans!OperationPaths(ops[n])),
              NEW above \in Plans!Ancestors(Plans!Key(profile, p))
       PROVE  Plans!FactAt(t[n - 1], above) = Plans!Directory
  <2>1. PICK b \in Plans!Ancestors(p) : Plans!Key(profile, b) = above
    BY <1>4, KeysAbove DEF IsDraft
  <2>2. CASE above \in Plans!CreatedDirectories(profile, ops)
    <3>1. PICK c \in Plans!CreatedAt(profile, ops) : c[1] = above
      BY <2>2 DEF Plans!CreatedDirectories
    <3>2. PICK i \in 1 .. N : /\ ops[i].kind = "create_directory"
                             /\ c = <<Plans!Key(profile, ops[i].path), i>>
      BY <1>2, <3>1 DEF Plans!CreatedAt
    <3>3. c[2] = i /\ above = Plans!Key(profile, ops[i].path)
      BY <3>1, <3>2
    <3>4. i < n
      BY <1>2, <1>9, <2>1, <3>1, <3>3 DEF Plans!ParentsPrecede
    <3>5. Plans!FactAt(t[i], above) = Plans!Directory
      BY <1>5, <3>2, <3>3, DoneIsLocal
    <3>6. above \in KeysOf(profile, ops[i])
      BY <3>3, KeysAre
    <3>7. \A j \in i + 1 .. n - 1 : above \notin KeysOf(profile, ops[j])
      <4> SUFFICES ASSUME NEW j \in i + 1 .. n - 1 PROVE above \notin KeysOf(profile, ops[j])
        OBVIOUS
      <4>1. j \in 1 .. N /\ j # i /\ Plans!PathsAreUnique(profile, ops)
        BY <1>2, <1>3 DEF Plans!ValidDraft
      <4> QED BY <1>2, <3>6, <4>1, KeysAreApart
    <3>8. i \in 0 .. n - 1
      BY <3>4
    <3> QED BY <1>8, <3>5, <3>7, <3>8
  <2>3. CASE above \notin Plans!CreatedDirectories(profile, ops)
    <3> DEFINE r == <<above, Plans!Directory>>
    <3>1. r \in Plans!AncestorRequirements(profile, ops, ops[n])
      BY <2>1, <2>3 DEF Plans!AncestorRequirements
    <3>2. r \in Plans!Requirements(profile, ops)
      BY <1>4, <3>1 DEF Plans!Requirements
    <3>3. PICK e \in Plans!Elements(draft.scope.closure) :
            Plans!FactAt(tree0, above) = e.fact /\ Plans!Matches(e.fact, Plans!Directory)
      <4>1. r[1] = above /\ r[2] = Plans!Directory
        OBVIOUS
      <4> HIDE DEF r
      <4> QED BY <1>1, <1>3, <3>2, <4>1, RequiredIsThere
    <3>4. Plans!FactAt(tree0, above) = Plans!Directory
          /\ Plans!FactAt(tree0, above).is = "directory"
      BY <3>3 DEF IsDraft, Plans!Matches, Plans!Directory
    <3>5. \A j \in 1 .. n - 1 : above \notin KeysOf(profile, ops[j])
      <4> SUFFICES ASSUME NEW j \in 1 .. n - 1 PROVE above \notin KeysOf(profile, ops[j])
        OBVIOUS
      <4>1. ops[j] \in Plans!Elements(ops)
        BY <1>2, <1>4
      <4> QED BY <1>1, <1>3, <3>4, <4>1, DirectoriesAreNotTouched
    <3>6. 0 \in 0 .. n - 1 /\ \A j \in 0 + 1 .. n - 1 : above \notin KeysOf(profile, ops[j])
      BY <3>5
    <3>7. Plans!FactAt(t[n - 1], above) = Plans!FactAt(t[0], above)
      BY <1>8, <3>6
    <3> QED BY <1>6, <3>4, <3>7
  <2> QED BY <2>2, <2>3
<1> QED BY <1>10, <1>11 DEF Plans!Ready

\* A sealed plan leaves every nested Folderbase and the directories above it as they are.
THEOREM BoundariesAlwaysClosed ==
  ASSUME NEW sealed, NEW tree0, NEW Names, Plans!ValidPlan(sealed), IsDraft(sealed.draft, Names)
  PROVE  Plans!BoundariesStayClosed(sealed, tree0)
<1> DEFINE draft == sealed.draft
           profile == draft.profile
           ops == draft.operations
           N == Len(ops)
           t == Plans!After(tree0, profile, ops)
           boundaries == {Plans!Key(profile, b) : b \in Plans!Elements(draft.scope.boundaries)}
           keys == boundaries \cap DOMAIN tree0
<1>1. SUFFICES ASSUME Plans!Tree(tree0), Plans!Meets(tree0, profile, draft.scope),
                      NEW n \in DOMAIN t, NEW k \in DOMAIN tree0,
                      Plans!AtOrAbove(keys, k) \/ Plans!Below(keys, k)
               PROVE  Plans!FactAt(t[n], k) = tree0[k]
  BY DEF Plans!BoundariesStayClosed
<1>2. N \in Nat /\ DOMAIN ops = 1 .. N
  BY DEF IsDraft
<1>3. n \in 0 .. N /\ 0 \in 0 .. N
  BY <1>2, TreeByTree
<1>4. Plans!ValidDraft(draft)
  BY DEF Plans!ValidPlan
<1>5. \A i \in 1 .. N : ops[i] \in Plans!Elements(ops)
  BY <1>2 DEF Plans!Elements
<1>6. ASSUME NEW i \in 1 .. N PROVE k \notin KeysOf(profile, ops[i])
  <2>1. CASE Plans!AtOrAbove(keys, k)
    <3>1. \A p \in Plans!Elements(Plans!OperationPaths(ops[i])) :
            ~ Plans!AtOrAbove(boundaries, Plans!Key(profile, p))
      BY <1>4, <1>5 DEF Plans!ValidDraft, Plans!Confined
    <3>2. Plans!AtOrAbove(boundaries, k)
      BY <2>1 DEF Plans!AtOrAbove
    <3> HIDE DEF boundaries
    <3> QED BY <3>1, <3>2 DEF KeysOf
  <2>2. CASE Plans!Below(keys, k)
    <3>1. PICK b \in DOMAIN tree0 : k \in Plans!Ancestors(b)
      BY <2>2 DEF Plans!Below
    <3>2. tree0[k] = Plans!Directory
      BY <1>1, <3>1 DEF Plans!Tree
    <3>3. Plans!FactAt(tree0, k).is = "directory"
      BY <1>1, <3>2 DEF Plans!FactAt, Plans!Directory
    <3> QED BY <1>1, <1>4, <1>5, <3>3, DirectoriesAreNotTouched
  <2> QED BY <1>1, <2>1, <2>2
<1>7. Plans!FactAt(t[n], k) = Plans!FactAt(t[0], k)
  <2>1. ASSUME NEW m \in 0 .. n, \A j \in m + 1 .. n : k \notin KeysOf(profile, ops[j])
        PROVE  Plans!FactAt(t[n], k) = Plans!FactAt(t[m], k)
    <3>1. n \in m .. Len(ops) /\ m \in 0 .. Len(ops) /\ Len(ops) \in Nat
      BY <1>2, <1>3
    <3> HIDE DEF ops, profile, N
    <3>2. Plans!FactAt(Plans!After(tree0, profile, ops)[n], k) =
            Plans!FactAt(Plans!After(tree0, profile, ops)[m], k)
      BY <2>1, <3>1, OthersFactsStay
    <3> QED BY <3>2
  <2>2. 0 \in 0 .. n /\ \A j \in 0 + 1 .. n : k \notin KeysOf(profile, ops[j])
    BY <1>2, <1>3, <1>6
  <2> QED BY <2>1, <2>2
<1>8. t[0] = tree0
  BY <1>2, TreeByTree
<1> QED BY <1>1, <1>7, <1>8 DEF Plans!FactAt
=============================================================================
