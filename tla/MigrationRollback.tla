--------------------------- MODULE MigrationRollback ---------------------------
(***************************************************************************)
(* The way back.  A durable request turns the direction once; an apply     *)
(* that was in flight without a receipt is aborted, then the journaled     *)
(* steps are inverted from the last to the first.  What the migration      *)
(* published is taken into a rollback claim, never deleted; a replaced or  *)
(* moved file comes back as a new inode with the snapshot's bytes, while   *)
(* an aborted step gives the very inode back.                              *)
(***************************************************************************)
EXTENDS MigrationApply

RollingBack == proc = "rollback" /\ ~ FinishesPublication
InFlight(i) == RollingBack /\ journal.dir = "rollback" /\ journal.inflight = i

Removed == [after |-> None]

\* A directory apply has its receipt before it publishes: while the claim is
\* still there, the receipt speaks of something that has not happened.
Prepublication(i) == Kind(i) = "mkdir" /\ Claim(i, "publish") = receipt["apply"][i]

-----------------------------------------------------------------------------
(* The loop around the steps.                                              *)

\* A receipt the journal has not taken up is verified and journaled first.
PromoteReceipt ==
  LET i == journal.inflight IN
  /\ RollingBack /\ journal.dir = "apply" /\ i # None
  /\ receipt["apply"][i] # None /\ ~ Prepublication(i)
  /\ IF ~ AppliedVisible(i) THEN Conflict(i)
     ELSE IF ~ AppliedClaims(i) THEN Abandon
     ELSE AppendGeneration(NextApplyReceipt(journal, receipt["apply"][i]))

RequestRollback ==
  /\ RollingBack /\ CanRequestRollback(journal)
  /\ journal.inflight # None =>
       receipt["apply"][journal.inflight] = None \/ Prepublication(journal.inflight)
  /\ AppendGeneration(NextRollbackRequested(journal))

\* Every parent of what is still to undo must be held before anything is undone.
Scope == 1 .. (IF journal.inflight # None /\ journal.inflight > journal.cursor
               THEN journal.inflight ELSE journal.cursor)
ScopeHeld == \A i \in Scope : ParentsHeld(journal, i)
ScopeLost ==
  /\ RollingBack /\ at = "top" /\ journal.dir = "rollback" /\ journal.phase # "rolled_back"
  /\ ~ ScopeHeld
  /\ Conflict(CHOOSE i \in Scope : ~ ParentsHeld(journal, i)
                                   /\ \A k \in Scope : k > i => ParentsHeld(journal, k))

RollbackIntent ==
  /\ RollingBack /\ CanIntendRollback(journal) /\ ScopeHeld
  /\ AppendGeneration(NextRollbackIntent(journal))

RollbackFinish ==
  /\ RollingBack /\ CanFinishRollback(journal) /\ journal.phase # "rolled_back"
  /\ AppendGeneration(NextRolledBack(journal))

RollbackDone ==
  /\ RollingBack /\ journal.phase = "rolled_back"
  /\ IF EnvironmentHeld(journal)
     THEN /\ plan' = "rolled_back" /\ proc' = "idle" /\ at' = "top"
          /\ UNCHANGED <<program, journal, files, private, userVars, aim>>
     ELSE Abandon

-----------------------------------------------------------------------------
(* Inverting a journaled step.                                             *)

\* A user's file that an aborted creation left in place keeps its directory.
KeptFor(i) ==
  {a \in {journal.aborted} \ {None} :
     /\ Kind(a) \in {"mkdir", "create"} /\ Target(i) \in Beneath[Target(a)]
     /\ receipt["abort"][a].claims = {} /\ Present(Target(a))}

InvertedVisible(i) ==
  LET after == receipt["rollback"][i].after IN
  CASE Kind(i) = "mkdir"   -> tree[Target(i)] = after
    [] Kind(i) = "create"  -> ~ Present(Target(i))
    [] Kind(i) = "replace" -> ExactAt(Target(i), after, 2)
    [] Kind(i) = "move"    -> ~ Present(Target(i)) /\ ExactAt(Source(i), after, 2)
InvertedClaims(i) ==
  LET out == ReceiptIdentity(journal, i)
      after == receipt["rollback"][i].after
  IN
  CASE Kind(i) = "mkdir"   -> after = None => Claim(i, "rollback") = out
    [] Kind(i) = "create"  -> ExactClaim(i, "publish", out, 2) /\ ExactClaim(i, "rollback", out, 2)
    [] Kind(i) = "replace" -> /\ ExactClaim(i, "publish", out, 2) /\ ExactClaim(i, "rollback", out, 2)
                              /\ ExactClaim(i, "restore", after, 2)
    [] Kind(i) = "move"    -> /\ ExactClaim(i, "source", out, 2) /\ ExactClaim(i, "rollback", out, 2)
                              /\ ExactClaim(i, "restore", after, 2)

Inverts(i) == InFlight(i) /\ HasReceipt(journal, i) /\ (at = "top" => ScopeHeld)
Inverting(i) == Inverts(i) /\ at \in {"top", "claimed"} /\ receipt["rollback"][i] = None /\ Authority(i)

InverseDisplaced(i) ==
  Inverts(i) /\ at \in {"top", "claimed"} /\ ~ Authority(i) /\ Conflict(i)

InverseJournaled(i) ==
  /\ Inverts(i) /\ at = "receipted"
  /\ AppendGeneration(NextRollbackReceipt(journal, receipt["rollback"][i].after))

InverseVerified(i) ==
  /\ Inverts(i) /\ at = "top" /\ receipt["rollback"][i] # None /\ Authority(i)
  /\ IF ~ InvertedClaims(i) THEN Abandon
     ELSE IF ~ InvertedVisible(i) THEN Conflict(i)
     ELSE AppendGeneration(NextRollbackReceipt(journal, receipt["rollback"][i].after))

Receipted(i, id) == PersistReceipt("rollback", i, [after |-> id])

InvertMkdir(i) ==
  LET id == ReceiptIdentity(journal, i) IN
  /\ Inverting(i) /\ Kind(i) = "mkdir"
  /\ IF KeptFor(i) # {}
     THEN IF tree[Target(i)] = id THEN Receipted(i, id) ELSE Conflict(i)
     ELSE IF ~ Holds(i, "rollback")
     THEN IF tree[Target(i)] = id /\ Children(Target(i)) = {}
          THEN CheckLeaf(i, Target(i), "rollback", id) ELSE Conflict(i)
     ELSE IF Claim(i, "rollback") # id \/ carried # {} THEN Abandon
     ELSE IF Present(Target(i)) THEN Conflict(i) ELSE Receipted(i, None)

\* (mutant) the creation is receipted as undone before it is taken out
InvertCreateEarly(i) ==
  /\ Inverting(i) /\ Kind(i) = "create"
  /\ IF ExactAt(Target(i), ReceiptIdentity(journal, i), 2) THEN Receipted(i, None) ELSE Conflict(i)
InvertCreate(i) ==
  LET id == ReceiptIdentity(journal, i) IN
  /\ Inverting(i) /\ Kind(i) = "create"
  /\ IF ~ Holds(i, "rollback")
     THEN IF ExactAt(Target(i), id, 2)
          THEN CheckLeaf(i, Target(i), "rollback", id) ELSE Conflict(i)
     ELSE IF ~ ExactClaim(i, "rollback", id, 2) THEN Abandon
     ELSE IF Present(Target(i)) THEN Conflict(i) ELSE Receipted(i, None)

\* What a replacement or a move published is taken first; a name somebody put
\* back at the source meanwhile stops a move before it starts.
TakesPublished(i) ==
  LET id == ReceiptIdentity(journal, i) IN
  /\ Inverting(i) /\ Kind(i) \in {"replace", "move"} /\ ~ Holds(i, "rollback")
  /\ IF /\ ExactAt(Target(i), id, 2)
        /\ Kind(i) = "move" => ~ Present(Source(i))
     THEN CheckLeaf(i, Target(i), "rollback", id) ELSE Conflict(i)

\* The command that took it restores the leaf; a later one may find it restored.
FindsRestored(i) == at = "top" /\ Present(Taken(i))
Restores(i) ==
  /\ Inverting(i) /\ Kind(i) \in {"replace", "move"} /\ Holds(i, "rollback")
  /\ ExactClaim(i, "rollback", ReceiptIdentity(journal, i), 2)
  /\ Kind(i) = "move" => ~ Present(Target(i))
RestoreRefused(i) ==
  /\ Inverting(i) /\ Kind(i) \in {"replace", "move"} /\ Holds(i, "rollback")
  /\ IF ~ ExactClaim(i, "rollback", ReceiptIdentity(journal, i), 2) THEN Abandon
     ELSE Kind(i) = "move" /\ Present(Target(i)) /\ Conflict(i)

RestorePrepared(i) ==
  /\ (Restores(i) /\ ~ FindsRestored(i)) \/ (Inverts(i) /\ at = "staged")
  /\ PreparePublication(i, "restore", Restore(i))

RestorePublishes(i) ==
  /\ Restores(i) /\ ~ FindsRestored(i) /\ Holds(i, "restore")
  /\ IF Claim(i, "restore") \in edited THEN Abandon ELSE Publish(i, "restore", Taken(i))

RestoreFound(i) ==
  /\ Restores(i) /\ FindsRestored(i)
  /\ IF ~ Holds(i, "restore") \/ Claim(i, "restore") \in edited THEN Abandon
     ELSE IF ExactAt(Taken(i), Claim(i, "restore"), 2) THEN Receipted(i, Claim(i, "restore"))
     ELSE Conflict(i)

RestoreReceipted(i) ==
  /\ Inverts(i) /\ at = "published" /\ Kind(i) \in {"replace", "move"}
  /\ IF ~ Authority(i) THEN Conflict(i)
     ELSE IF ~ ExactClaim(i, "restore", Restore(i), 2) THEN Abandon
     ELSE IF ~ ExactAt(Taken(i), Restore(i), 2) THEN Conflict(i)
     ELSE Receipted(i, Restore(i))

RollbackStep(i) ==
  \/ InverseDisplaced(i) \/ InverseJournaled(i) \/ InverseVerified(i)
  \/ InvertMkdir(i) \/ InvertCreate(i)
  \/ TakesPublished(i) \/ RestoreRefused(i)
  \/ RestorePrepared(i) \/ RestorePublishes(i) \/ RestoreFound(i) \/ RestoreReceipted(i)

-----------------------------------------------------------------------------
(* Aborting the apply that was in flight: each step looks at what is there *)
(* and undoes one thing, so that a second command continues the first.     *)

Aborts(i) == InFlight(i) /\ ~ HasReceipt(journal, i) /\ (at = "top" => ScopeHeld)
Aborting(i) ==
  /\ Aborts(i) /\ at \in {"top", "claimed"} /\ receipt["abort"][i] = None /\ Authority(i)

AbortDisplaced(i) ==
  Aborts(i) /\ at \in {"top", "claimed"} /\ ~ Authority(i) /\ Conflict(i)

HeldKinds(i) == {k \in ClaimKinds : Holds(i, k)}
AbortReceipts(i, kinds) == PersistReceipt("abort", i, [claims |-> kinds])

\* An aborted replacement or move has its own inode back, under one name.
GivenBack(i) == ExactAt(Taken(i), Before(i), 1)
AbortedClaims(i) ==
  /\ HeldKinds(i) = receipt["abort"][i].claims
  /\ \A k \in HeldKinds(i) : Claim(i, k) \notin edited

AbortJournaled(i) ==
  /\ Aborts(i) /\ receipt["abort"][i] # None
  /\ at = "top" => Authority(i)
  /\ IF at = "receipted" \/ (AbortedClaims(i) /\ (Kind(i) \in {"replace", "move"} => GivenBack(i)))
     THEN CanAbort(journal) /\ AppendGeneration(NextAbortedApply(journal))
     ELSE IF AbortedClaims(i) THEN Conflict(i) ELSE Abandon

AbortMkdir(i) ==
  /\ Aborting(i) /\ Kind(i) = "mkdir"
  /\ IF Holds(i, "publish") /\ Present(Target(i))
     THEN RemoveClaim(i, "publish")
     ELSE AbortReceipts(i, HeldKinds(i))

AbortCreate(i) ==
  LET id == Claim(i, "publish") IN
  /\ Aborting(i) /\ Kind(i) = "create"
  /\ IF ~ Holds(i, "publish") THEN AbortReceipts(i, {})
     ELSE IF id \in edited THEN Abandon
     ELSE IF Holds(i, "rollback")
     THEN IF Claim(i, "rollback") = id /\ Links(id) = 2
          THEN AbortReceipts(i, {"publish", "rollback"}) ELSE Abandon
     ELSE IF Shows(Target(i), id)
     THEN IF Links(id) = 2 THEN CheckLeaf(i, Target(i), "rollback", id) ELSE Abandon
     ELSE IF Links(id) = 1 THEN RemoveClaim(i, "publish") ELSE Abandon

\* The source was never taken, or is back: only private copies are left to clear.
AbortReplaceUntaken(i) ==
  /\ Aborting(i) /\ Kind(i) = "replace" /\ ~ Holds(i, "source")
  /\ IF ~ GivenBack(i) THEN Conflict(i)
     ELSE IF Holds(i, "publish") THEN RemoveClaim(i, "publish")
     ELSE AbortReceipts(i, HeldKinds(i))

AbortReplaceTaken(i) ==
  LET id == Claim(i, "publish")
      original == Shows(Target(i), Before(i))
      replacement == Holds(i, "publish") /\ Shows(Target(i), id)
  IN
  /\ Aborting(i) /\ Kind(i) = "replace" /\ Holds(i, "source")
  /\ IF ~ original /\ ~ replacement /\ Present(Target(i)) THEN Conflict(i)
     ELSE IF \/ ~ ExactClaim(i, "source", Before(i), IF original THEN 2 ELSE 1)
             \/ Holds(i, "publish") /\ id \in edited
             \/ replacement /\ Holds(i, "rollback")
     THEN Abandon
     ELSE IF replacement THEN CheckLeaf(i, Target(i), "rollback", id)
     ELSE IF Holds(i, "publish") THEN RemoveClaim(i, "publish")
     ELSE IF ~ Present(Target(i)) THEN RenameVisible(i, "source", Target(i))
     ELSE RemoveClaim(i, "source")

AbortMoveUntaken(i) ==
  /\ Aborting(i) /\ Kind(i) = "move" /\ ~ Holds(i, "source")
  /\ IF Holds(i, "rollback") \/ Shows(Target(i), Before(i)) THEN Abandon
     ELSE IF ~ GivenBack(i) THEN Conflict(i) ELSE AbortReceipts(i, {})

AbortMoveTaken(i) ==
  LET published == Shows(Target(i), Before(i))
      restored == Shows(Source(i), Before(i))
      names == 2 + Cardinality(HeldKinds(i) \cap {"rollback"})
  IN
  /\ Aborting(i) /\ Kind(i) = "move" /\ Holds(i, "source")
  /\ IF Claim(i, "source") # Before(i) \/ Before(i) \in edited THEN Abandon
     ELSE IF published
     THEN IF Holds(i, "rollback") THEN Conflict(i)
          ELSE IF Links(Before(i)) # 2 THEN Abandon
          ELSE CheckLeaf(i, Target(i), "rollback", Before(i))
     ELSE IF ~ restored
     THEN IF Present(Source(i)) THEN Conflict(i)
          ELSE LinkVisible(i, "source", Source(i)) /\ UNCHANGED at
     ELSE IF Links(Before(i)) # names THEN Abandon
     ELSE IF Holds(i, "rollback") THEN RemoveClaim(i, "rollback")
     ELSE RemoveClaim(i, "source")

AbortStep(i) ==
  \/ AbortDisplaced(i) \/ AbortJournaled(i)
  \/ AbortMkdir(i) \/ AbortCreate(i)
  \/ AbortReplaceUntaken(i) \/ AbortReplaceTaken(i)
  \/ AbortMoveUntaken(i) \/ AbortMoveTaken(i)

RollbackNext ==
  \/ PromoteReceipt \/ RequestRollback \/ ScopeLost
  \/ RollbackIntent \/ RollbackFinish \/ RollbackDone
  \/ \E i \in Steps : RollbackStep(i) \/ AbortStep(i)

=============================================================================
