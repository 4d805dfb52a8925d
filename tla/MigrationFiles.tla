---------------------------- MODULE MigrationFiles ----------------------------
(***************************************************************************)
(* The files a migration works on: the visible tree that people keep on    *)
(* changing, and the transaction's private directory of claims, staged     *)
(* publications, ownership records and receipts.  A path and a claim name  *)
(* inodes; a file published from a claim is one inode with two links, and  *)
(* a file taken out of the tree is renamed into its claim, never deleted.  *)
(***************************************************************************)
EXTENDS MigrationJournal, FiniteSets

CONSTANTS
  Paths, Dirs,      \* the visible paths, and those that are directories
  Parent,           \* path -> the directory that holds it, None for the root
  Initial,          \* the paths present before the migration
  EnvPaths,         \* the manifest and the root's ignore policy
  MaxSteps,         \* bound: operations of a program
  MaxUserActions    \* bound: changes people make while it is under way

ASSUME MigrationAssumption ==
  /\ Parent \in [Paths -> Dirs \cup {None}] /\ None \notin Paths
  /\ Dirs \subseteq Paths /\ Initial \subseteq Paths /\ EnvPaths \subseteq Initial \ Dirs
  /\ \A p \in Initial : Parent[p] \in Initial \cup {None}
  /\ MaxSteps \in Nat /\ MaxUserActions \in Nat /\ MaxConflicts \in Nat
  /\ IsFiniteSet(Paths) /\ None \notin Nat

\* Paths are in a tree: whatever holds a path is at a lesser depth.
ASSUME TreeAssumption ==
  \E depth \in [Paths -> 0 .. Cardinality(Paths)] :
    \A p \in Paths : Parent[p] # None => depth[Parent[p]] < depth[p]

VARIABLES
  tree,             \* path -> the inode it names, or None
  edited,           \* inodes whose bytes are not those they were made with
  claims,           \* claim -> the inode it holds, or None
  staged,           \* claim -> its synchronized, not yet installed stage
  owned,            \* claims with an ownership record
  receipt,          \* direction -> step -> the private receipt, or None
  plan,             \* the state in the migration's plan record
  proc, at, aim,    \* the running command, where its step stands, the leaf it takes
  carried,          \* inodes taken along inside a directory
  touched,          \* paths people changed since the program was prepared
  discarded,        \* inodes people removed from a path or overwrote
  actions           \* changes people made

files == <<tree, edited, carried>>
private == <<claims, staged, owned, receipt>>
userVars == <<touched, discarded, actions>>

Steps == 1 .. MaxSteps
ClaimKinds == {"publish", "source", "rollback", "restore"}
Claims == Steps \X ClaimKinds

Original(p) == <<"original", p>>
Image(i) == <<"publish", i>>
Restore(i) == <<"restore", i>>
Users(n) == <<"user", n>>
Inodes ==
  {Original(p) : p \in Paths} \cup {Image(i) : i \in Steps} \cup {Restore(i) : i \in Steps}
  \cup {Users(n) : n \in 1 .. MaxUserActions}

\* The receipt of an undone step and of an aborted one.
UndoneReceipt == [after : Inodes \cup {None}]
AbortReceipt == [claims : SUBSET ClaimKinds]

ASSUME NoneIsNoRecord == None \notin Inodes \cup UndoneReceipt \cup AbortReceipt

Present(p) == tree[p] # None
Children(d) == {p \in Paths : Parent[p] = d /\ Present(p)}
Beneath[p \in Paths] == IF Parent[p] = None THEN {} ELSE {Parent[p]} \cup Beneath[Parent[p]]

Links(id) ==
  Cardinality({p \in Paths : tree[p] = id}) + Cardinality({c \in Claims : claims[c] = id})

\* A visible leaf, or a claim, is the very inode expected, with its bytes and
\* the number of names the transaction knows of.
Shows(p, id) == tree[p] = id /\ id # None /\ id \notin edited
ExactAt(p, id, links) == Shows(p, id) /\ Links(id) = links
Claim(i, kind) == claims[<<i, kind>>]
Holds(i, kind) == Claim(i, kind) # None
ExactClaim(i, kind, id, links) ==
  Claim(i, kind) = id /\ id # None /\ id \notin edited /\ Links(id) = links

-----------------------------------------------------------------------------
(* The program's steps.                                                    *)

Kind(i) == program[i].kind
Target(i) == program[i].target
Source(i) == program[i].source
StepPaths(i) == IF Kind(i) = "move" THEN {Source(i), Target(i)} ELSE {Target(i)}

\* The inode and the leaf a step takes away and gives back.
Taken(i) == IF Kind(i) = "move" THEN Source(i) ELSE Target(i)
Before(i) == Original(Taken(i))
Publishes(i) == IF Kind(i) = "move" THEN Before(i) ELSE Image(i)

Creator(d) == {k \in 1 .. Count : Kind(k) = "mkdir" /\ Target(k) = d}

\* Every directory above a step is the one that was there, or the one the
\* journal says an earlier step created.
ParentHeld(g, d) ==
  IF Creator(d) = {} THEN tree[d] = Original(d)
  ELSE \E k \in Creator(d) : HasReceipt(g, k) /\ tree[d] = ReceiptIdentity(g, k)
ParentsHeld(g, i) == \A p \in StepPaths(i), d \in Dirs : d \in Beneath[p] => ParentHeld(g, d)

\* The state the whole program was compiled against.
PreparedEnvironment ==
  /\ \A e \in EnvPaths : Shows(e, Original(e))
  /\ \A i \in 1 .. Count :
       /\ \A p \in StepPaths(i), d \in Dirs :
            d \in Beneath[p] => tree[d] = IF Creator(d) = {} THEN Original(d) ELSE None
       /\ Kind(i) \in {"replace", "move"} => ExactAt(Taken(i), Before(i), 1)
       /\ Kind(i) # "replace" => ~ Present(Target(i))

-----------------------------------------------------------------------------
(* The environment leaves: what they must be at each point of the journal. *)

InFlightOn(g, e) == g.inflight # None /\ Target(g.inflight) = e

ApplyingLeaf(i, e) ==
  IF ~ Holds(i, "source") THEN Shows(e, Original(e))
  ELSE \/ ~ Present(e) /\ receipt["apply"][i] = None
       \/ Shows(e, Claim(i, "publish"))

RollingBackLeaf(g, i, e) ==
  /\ HasReceipt(g, i)
  /\ CASE receipt["rollback"][i] # None -> Shows(e, receipt["rollback"][i].after)
       [] receipt["rollback"][i] = None /\ Holds(i, "restore") ->
            ~ Present(e) \/ Shows(e, Claim(i, "restore"))
       [] receipt["rollback"][i] = None /\ ~ Holds(i, "restore") ->
            IF Holds(i, "rollback") THEN ~ Present(e) ELSE Shows(e, ReceiptIdentity(g, i))

SettledLeaf(g, e) ==
  LET on == {k \in 1 .. Receipts(g) : Target(k) = e}
  IN  IF on = {} THEN Shows(e, Original(e))
      ELSE \A k \in on : Shows(e, IF Inverted(g, k) THEN RestoredIdentity(g, k)
                                  ELSE ReceiptIdentity(g, k))

EnvironmentHeld(g) ==
  \A e \in EnvPaths :
    IF ~ InFlightOn(g, e) THEN SettledLeaf(g, e)
    ELSE IF g.dir = "apply" THEN ApplyingLeaf(g.inflight, e)
    ELSE RollingBackLeaf(g, g.inflight, e)

Authority(i) == EnvironmentHeld(journal) /\ ParentsHeld(journal, i)

-----------------------------------------------------------------------------
(* People.  A save in place keeps the inode; a save as new replaces it.    *)

Acts(p) == actions < MaxUserActions /\ actions' = actions + 1 /\ touched' = touched \cup {p}
Settles(p, id) == tree' = [tree EXCEPT ![p] = id]
ByPeople == UNCHANGED <<program, journal, private, plan, proc, at, aim, carried>>

UserEdits(p) ==
  /\ Acts(p) /\ Present(p) /\ p \notin Dirs
  /\ edited' = edited \cup {tree[p]}
  /\ UNCHANGED <<tree, discarded>> /\ ByPeople

UserReplaces(p) ==
  /\ Acts(p) /\ Present(p) /\ p \notin Dirs
  /\ Settles(p, Users(actions + 1)) /\ discarded' = discarded \cup {tree[p]}
  /\ UNCHANGED edited /\ ByPeople

UserCreates(p) ==
  /\ Acts(p) /\ ~ Present(p) /\ (Parent[p] # None => Present(Parent[p]))
  /\ Settles(p, Users(actions + 1))
  /\ UNCHANGED <<edited, discarded>> /\ ByPeople

UserDeletes(p) ==
  /\ Acts(p) /\ Present(p) /\ Children(p) = {}
  /\ Settles(p, None) /\ discarded' = discarded \cup {tree[p]}
  /\ UNCHANGED edited /\ ByPeople

UserActs ==
  \E p \in Paths : UserEdits(p) \/ UserReplaces(p) \/ UserCreates(p) \/ UserDeletes(p)

-----------------------------------------------------------------------------
(* The filesystem calls a step is made of.                                 *)

Rests == UNCHANGED <<program, userVars, plan, proc, aim>>

\* A leaf is taken in two calls, a check and then a rename: what is at the path
\* when the rename runs goes into the claim, and is looked at again there.
CheckLeaf(i, path, kind, id) ==
  /\ at' = "checked"
  /\ aim' = [path |-> path, claim |-> <<i, kind>>, id |-> id]
  /\ UNCHANGED <<program, journal, files, private, userVars, plan, proc>>

TakenExactly == tree[aim.path] = aim.id /\ aim.id \notin edited /\ Children(aim.path) = {}

\* (mutant) a leaf that is not the expected one is dropped
RenameIntoClaimOrDrop ==
  /\ proc # "idle" /\ at = "checked"
  /\ claims' = IF TakenExactly THEN [claims EXCEPT ![aim.claim] = tree[aim.path]] ELSE claims
  /\ carried' = carried \cup {tree[p] : p \in Children(aim.path)}
  /\ tree' = [p \in Paths |-> IF p = aim.path \/ p \in Children(aim.path) THEN None ELSE tree[p]]
  /\ IF TakenExactly THEN at' = "claimed" /\ UNCHANGED proc ELSE at' = "top" /\ proc' = "idle"
  /\ aim' = None
  /\ UNCHANGED <<program, journal, userVars, plan, edited, staged, owned, receipt>>
RenameIntoClaim ==
  /\ proc # "idle" /\ at = "checked"
  /\ claims' = IF Present(aim.path) THEN [claims EXCEPT ![aim.claim] = tree[aim.path]] ELSE claims
  /\ carried' = carried \cup {tree[p] : p \in Children(aim.path)}
  /\ tree' = [p \in Paths |-> IF p = aim.path \/ p \in Children(aim.path) THEN None ELSE tree[p]]
  /\ IF TakenExactly THEN at' = "claimed" /\ UNCHANGED proc ELSE at' = "top" /\ proc' = "idle"
  /\ aim' = None
  /\ UNCHANGED <<program, journal, userVars, plan, edited, staged, owned, receipt>>

\* The hard link never replaces a leaf: the step has seen the path absent.
LinkVisible(i, kind, path) ==
  /\ ~ Present(path)
  /\ tree' = [tree EXCEPT ![path] = Claim(i, kind)]
  /\ UNCHANGED <<journal, edited, carried, private>> /\ Rests

\* A directory claim, or a source given back, moves out of its slot.
RenameVisible(i, kind, path) ==
  /\ ~ Present(path)
  /\ tree' = [tree EXCEPT ![path] = Claim(i, kind)]
  /\ claims' = [claims EXCEPT ![<<i, kind>>] = None]
  /\ UNCHANGED <<journal, edited, carried, staged, owned, receipt, at>> /\ Rests

RemoveClaim(i, kind) ==
  /\ claims' = [claims EXCEPT ![<<i, kind>>] = None]
  /\ UNCHANGED <<journal, files, staged, owned, receipt, at>> /\ Rests

PersistReceipt(direction, i, r) ==
  /\ receipt' = [receipt EXCEPT ![direction][i] = r]
  /\ at' = "receipted"
  /\ UNCHANGED <<journal, files, claims, staged, owned>> /\ Rests

\* A generation the journal would refuse is never appended.
AppendGeneration(g) ==
  /\ Accepts(journal, g) /\ journal' = g /\ at' = "top"
  /\ UNCHANGED <<files, private>> /\ Rests

\* A failed step ends the command: a visible leaf that is not what the program
\* expects is recorded, a private artifact that is not leaves everything as it is.
Conflict(i) ==
  /\ journal' = NextConflicted(journal,
                  [step |-> i, leaves |-> {<<p, tree[p], tree[p] \in edited>> :
                                             p \in {q \in StepPaths(i) : Present(q)}}])
  /\ plan' = "conflicted" /\ proc' = "idle" /\ at' = "top" /\ aim' = None
  /\ UNCHANGED <<program, files, private, userVars>>

Abandon ==
  /\ proc' = "idle" /\ at' = "top" /\ aim' = None
  /\ UNCHANGED <<program, journal, files, private, userVars, plan>>

-----------------------------------------------------------------------------
(* A journal-bound publication: the blob is staged beside its claim with   *)
(* an ownership record, the journal is told, and only then it is installed;*)
(* the three are one call, with no look at the tree between them.          *)

StagePublication(i, kind, id) ==
  /\ at \in {"top", "claimed"} /\ journal.pub = None
  /\ staged' = [staged EXCEPT ![<<i, kind>>] = id]
  /\ owned' = owned \cup {<<i, kind>>} /\ at' = "staged"
  /\ UNCHANGED <<journal, files, claims, receipt>> /\ Rests

BindPublication(i, kind) ==
  /\ at = "staged" /\ journal.pub = None
  /\ LET b == [step |-> i, dir |-> journal.dir, kind |-> kind] IN
       /\ CanBind(journal, b) /\ Accepts(journal, NextPublicationBound(journal, b))
       /\ journal' = NextPublicationBound(journal, b)
  /\ UNCHANGED <<files, private, at>> /\ Rests

InstallPublication(i, kind) ==
  /\ journal.pub # None /\ staged[<<i, kind>>] # None
  /\ claims' = [claims EXCEPT ![<<i, kind>>] = staged[<<i, kind>>]]
  /\ staged' = [staged EXCEPT ![<<i, kind>>] = None] /\ at' = "claimed"
  /\ UNCHANGED <<journal, files, owned, receipt>> /\ Rests

PreparePublication(i, kind, id) ==
  /\ ~ Holds(i, kind)
  /\ StagePublication(i, kind, id) \/ BindPublication(i, kind) \/ InstallPublication(i, kind)

\* Once the work has its receipt the ownership record goes, then the binding.
FinishesPublication == journal.pub # None /\ PublicationReceipted(journal, journal.pub)
FinishPublication ==
  LET slot == <<journal.pub.step, journal.pub.kind>> IN
  /\ FinishesPublication
  /\ IF slot \in owned
     THEN /\ owned' = owned \ {slot}
          /\ UNCHANGED <<journal, files, claims, staged, receipt, at>> /\ Rests
     ELSE AppendGeneration(NextPublicationCleared(journal))

=============================================================================
