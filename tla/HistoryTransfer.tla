----------------------------- MODULE HistoryTransfer -----------------------------
(***************************************************************************)
(* The history of one Object handed from a Folderbase to the one nested in   *)
(* it: proposed, approved, then applied under both locks over receipts that   *)
(* say who owns it.  Every durable boundary is a step, and the transfer is    *)
(* recovered from the state its plan was stored in.                          *)
(***************************************************************************)
EXTENDS LocalVersionStore

VARIABLES
  plan,       \* the stored transfer plan, or None
  staged,     \* what the private staging holds: "none", "versions" or "whole"
  incoming    \* Objects with a receipt of arrival

transferVars == <<plan, staged, incoming>>
vars == <<worldVars, storeVars, outgoing, budgets, call, transferVars>>

TransferPlan ==
  [state: {"proposed", "approved", "applying", "verified_destination", "released", "verified", "conflicted"},
   object: ObjectRecord, path: Paths, versions: SUBSET VersionRecord]
ASSUME NoneIsNoRecord == None \notin PendingTransaction \cup TransferPlan

O == plan.object.id
Arrived == [plan.object EXCEPT !.path = plan.path]
Keeps(r) ==
  /\ r.id = O /\ r.path = plan.path /\ IsPrefix(plan.object.versions, r.versions)
  /\ Contains(r.versions, r.current)

Current(r, versions) == CHOOSE v \in versions : v.id = r.current
Holds(st, versions) == versions \subseteq installed[st] /\ {v.content : v \in versions} \subseteq blobs[st]

\* propose_history_transfer takes no lock.
Propose ==
  /\ plan = None /\ marker
  /\ \E r \in objects["parent"] :
       LET versions == {v \in installed["parent"] : v.object = r.id} IN
       /\ r.path \in Inner /\ ToSet(r.versions) = {v.id : v \in versions} /\ Holds("parent", versions)
       /\ file[r.path] # None /\ file[r.path].content = Current(r, versions).content
       /\ ~ Has("nested", r.id) /\ Claimants("nested", r.path) = {}
       /\ plan' = [state |-> "proposed", object |-> r, path |-> r.path, versions |-> versions]
  /\ UNCHANGED <<worldVars, storeVars, outgoing, budgets, call, staged, incoming>>

\* validate_history_transfer_plan and verify_history_transfer_ownership_boundaries
ValidPlan ==
  /\ ToSet(plan.object.versions) = {v.id : v \in plan.versions} /\ \A v \in plan.versions : v.object = O
  /\ Contains(plan.object.versions, plan.object.current)
Owned == ValidPlan /\ marker /\ plan.object.path = plan.path /\ plan.path \in Inner

\* verify_history_transfer_preconditions
Preconditions ==
  /\ Owned /\ plan.object \in objects["parent"] /\ Holds("parent", plan.versions)
  /\ file[plan.path] # None /\ file[plan.path].content = Current(plan.object, plan.versions).content

Stored(state) == plan' = [plan EXCEPT !.state = state]
Quiet == \A st \in Stores : pending[st] = None

Approve ==
  /\ plan # None /\ plan.state = "proposed" /\ call = None /\ Quiet /\ Preconditions
  /\ Stored("approved")
  /\ UNCHANGED <<worldVars, storeVars, outgoing, budgets, call, staged, incoming>>

\* verify_staged_history
StagedWhole == staged = "whole"

\* Apply and recover open both stores, which replays what is pending there.
Blocked(st) ==
  /\ pending[st] # None
  /\ \/ ~ AsRecorded(st, pending[st])
     \/ /\ Publishes(pending[st]) /\ ~ Published(pending[st]) /\ ~ MayPublish(pending[st])
Resumable == plan # None /\ plan.state \in {"approved", "applying", "verified_destination", "released"}
Start ==
  /\ Resumable /\ call = None
  /\ IF Quiet /\ (plan.state = "released" => Owned /\ StagedWhole) /\ (plan.state # "released" => Preconditions)
     THEN /\ call' = [op |-> "transfer", step |-> plan.state, store |-> "nested"]
          /\ IF plan.state = "approved" THEN Stored("applying") ELSE UNCHANGED plan
     ELSE /\ plan.state = "released" /\ (Quiet \/ \E st \in Stores : Blocked(st))
          /\ Stored("conflicted") /\ UNCHANGED call
  /\ UNCHANGED <<worldVars, storeVars, outgoing, budgets, staged, incoming>>

Transferring(step) == call # None /\ call.op = "transfer" /\ call.step = step
Conflict == Stored("conflicted") /\ call' = None

Stage ==
  /\ Transferring("approved") \/ Transferring("applying")
  /\ \/ staged = "none" /\ staged' = "versions" /\ UNCHANGED <<call, plan>>
     \/ staged = "versions" /\ staged' = "whole" /\ UNCHANGED <<call, plan>>
     \/ staged = "whole" /\ Stored("verified_destination") /\ To("verified_destination") /\ UNCHANGED staged
  /\ UNCHANGED <<worldVars, storeVars, outgoing, budgets, incoming>>

\* verify_destination_available_for_transfer
Available(replayed) ==
  /\ \A r \in objects["nested"] : r.id = O => replayed /\ Keeps(r)
  /\ \A r \in Claimants("nested", plan.path) : replayed /\ r.id = O
  /\ Cardinality(Claimants("nested", plan.path)) <= 1

ReleaseUnrecorded ==
  /\ Transferring("verified_destination")
  /\ IF StagedWhole /\ Available(FALSE) THEN To("receipt") /\ UNCHANGED plan ELSE Conflict
  /\ UNCHANGED <<worldVars, storeVars, outgoing, budgets, staged, incoming>>
Release ==
  /\ Transferring("verified_destination")
  /\ IF StagedWhole /\ Available(FALSE)
     THEN outgoing' = outgoing \cup {O} /\ To("receipt") /\ UNCHANGED plan
     ELSE Conflict /\ UNCHANGED outgoing
  /\ UNCHANGED <<worldVars, storeVars, budgets, staged, incoming>>

Released ==
  /\ Transferring("receipt") /\ Stored("released") /\ To("released")
  /\ UNCHANGED <<worldVars, storeVars, outgoing, budgets, staged, incoming>>

Receive ==
  /\ Transferring("released")
  /\ IF StagedWhole /\ Available(TRUE)
     THEN incoming' = incoming \cup {O} /\ To("incoming") /\ UNCHANGED plan
     ELSE Conflict /\ UNCHANGED incoming
  /\ UNCHANGED <<worldVars, storeVars, outgoing, budgets, staged>>

ActivateCurrentVersion ==
  /\ Transferring("incoming") /\ To("versions")
  /\ LET v == Current(plan.object, plan.versions) IN
     /\ installed' = [installed EXCEPT !["nested"] = @ \cup {v}]
     /\ blobs' = [blobs EXCEPT !["nested"] = @ \cup {v.content}]
  /\ UNCHANGED <<worldVars, objects, identity, pending, journal, torn, outgoing, budgets, transferVars>>
ActivateVersions ==
  /\ Transferring("incoming") /\ To("versions")
  /\ installed' = [installed EXCEPT !["nested"] = @ \cup plan.versions]
  /\ blobs' = [blobs EXCEPT !["nested"] = @ \cup {v.content : v \in plan.versions}]
  /\ UNCHANGED <<worldVars, objects, identity, pending, journal, torn, outgoing, budgets, transferVars>>

\* The projection is installed unless an earlier attempt did; then the path is
\* bound to the file it has, which must exist.
ActivateObject ==
  /\ Transferring("versions")
  /\ objects' = IF Has("nested", O) THEN objects ELSE [objects EXCEPT !["nested"] = @ \cup {Arrived}]
  /\ IF file[plan.path] = None THEN Conflict /\ UNCHANGED identity
     ELSE /\ identity' = [identity EXCEPT !["nested"][O] = file[plan.path].ino]
          /\ To("active") /\ UNCHANGED plan
  /\ UNCHANGED <<worldVars, installed, blobs, pending, journal, torn, outgoing, budgets, staged, incoming>>

Verify ==
  /\ Transferring("active") /\ Stored("verified") /\ To("cleanup")
  /\ UNCHANGED <<worldVars, storeVars, outgoing, budgets, staged, incoming>>

\* verify_history_transfer_receipts and verify_incoming_history
Received == O \in incoming \cap outgoing
Arrives == Holds("nested", plan.versions) /\ \E r \in objects["nested"] : Keeps(r) /\ Readable("nested", O)

\* The staging is removed only when receipts and history are in place; recover
\* does so again for a verified plan.
Cleanup ==
  /\ \/ Transferring("cleanup") /\ Fail
     \/ call = None /\ plan # None /\ plan.state = "verified" /\ Quiet /\ UNCHANGED call
  /\ staged # "none" /\ Received /\ Arrives
  /\ staged' = "none"
  /\ UNCHANGED <<worldVars, storeVars, outgoing, budgets, plan, incoming>>

Transfer ==
  \/ Start \/ Stage \/ Release \/ Released \/ Receive
  \/ ActivateVersions \/ ActivateObject \/ Verify \/ Cleanup

Init == StoreInit /\ plan = None /\ staged = "none" /\ incoming = {}

Next ==
  \/ (Calls \/ Steps \/ Die \/ PeopleEdit \/ Nest) /\ UNCHANGED transferVars
  \/ Propose \/ Approve \/ Transfer

\* A call runs on, and somebody opens the store again and resumes a transfer.
Spec ==
  /\ Init /\ [][Next]_vars
  /\ WF_vars(Steps /\ UNCHANGED transferVars) /\ WF_vars(Transfer)
  /\ WF_vars(Reopen /\ UNCHANGED transferVars)

-----------------------------------------------------------------------------
\* Whatever died, what a projection lists is installed with its bytes.
HistoryComplete ==
  \A st \in Stores : \A r \in objects[st] :
    /\ \A i \in DOMAIN r.versions : \E v \in installed[st] :
         v.id = r.versions[i] /\ v.object = r.id /\ v.content \in blobs[st]
    /\ Contains(r.versions, r.current)

\* The journal tells every accepted change once, however often it was replayed:
\* no line twice, and with nothing pending a line for every version captured here.
JournalTellsOnce ==
  \A st \in Stores :
    /\ IsInjective(journal[st])
    /\ pending[st] = None =>
         \A r \in objects[st] : \A v \in ToSet(r.versions) :
           \/ plan # None /\ \E w \in plan.versions : w.id = v
           \/ \E e \in ToSet(journal[st]) : e.what = "captured" /\ e.version = v

\* A save replaces a file only by what it journaled, and the bytes it replaces
\* are a Version of the Object, unless a person wrote after the last check.
SavesKeepPrior ==
  [][\A p \in Paths :
       file[p] # None /\ file'[p] # file[p] /\ edits' = edits /\ file[p] = call.seen =>
         \E v \in installed[Here] : v.object = pending[Here].object.id /\ v.content = file[p].content]_vars

\* A history has one owner: the nested Folderbase has the Object only once the
\* parent is denied it, and by then nothing of it can be lost with the parent.
OneOwner ==
  /\ \A r \in objects["nested"] : plan # None /\ r.id = O => O \in outgoing
  /\ plan # None /\ O \in outgoing => staged = "whole" \/ Holds("nested", plan.versions)

\* What an interrupted call left is finished by the next one when nobody touched
\* the file, except for a save that changes nothing of a file not yet captured;
\* an approved transfer whose Object and file stay as approved is verified or
\* conflicts, wherever it was interrupted.
Poisoned(t) == t.kind = "save" /\ ~ Publishes(t)
Settled(st) ==
  IF pending[st] = None THEN TRUE
  ELSE \/ Poisoned(pending[st]) \/ marker
       \/ {pending[st].object.path, pending[st].publish.path} \cap touched # {}
Approved == IF plan = None THEN FALSE ELSE plan.state = "approved"
Resolved ==
  IF plan = None THEN FALSE
  ELSE plan.state \in {"verified", "conflicted"} \/ ~ Preconditions \/ ~ Quiet
InterruptedWorkResolves ==
  (\A st \in Stores : (pending[st] # None) ~> Settled(st)) /\ (Approved ~> Resolved)

\* LocalVersionStore::open replays durable pending work: a transaction whose file
\* nobody touched since it was written can be replayed.
PendingReplays ==
  \A st \in Stores :
    (pending[st] # None /\ call = None /\ touched = {} /\ ~ marker /\ \A r \in objects[st] : r.id # pending[st].object.id)
      => AsRecorded(st, pending[st])

=============================================================================
