---------------------------- MODULE LocalVersionStore ----------------------------
(***************************************************************************)
(* The Local Version Store of a Folderbase and of one nested in it: Objects,  *)
(* their immutable Versions and blobs, and the journal.  A call holds the     *)
(* store's lock; it writes its intent as a pending transaction and replays it; *)
(* the next call replays what a crash left.  People change files meanwhile.   *)
(***************************************************************************)
EXTENDS Naturals, Sequences, FiniteSets, SequencesExt

CONSTANTS
  Outer, Inner,   \* paths of the parent, and of the folder that becomes nested
  Contents, None,
  Initial,        \* paths with a file, and its content
  MaxIds,         \* bound: identifiers of Objects, Versions and transactions
  MaxEdits,       \* bound: changes by people
  MaxCalls,       \* bound: calls that ask for more than opening the store
  MaxCrashes      \* bound: processes that die

ASSUME StoreAssumption ==
  /\ {MaxIds, MaxEdits, MaxCalls, MaxCrashes} \subseteq Nat
  /\ \A p \in DOMAIN Initial : DOMAIN Initial = {p} /\ p \in Outer \cup Inner /\ Initial[p] \in Contents
  /\ Outer \cap Inner = {} /\ None \notin Outer \cup Inner \cup Contents

Paths == Outer \cup Inner
Stores == {"parent", "nested"}
Ids == 1 .. MaxIds

FileRecord == [ino: Nat, content: Contents]
ObjectRecord == [id: Nat, path: Paths \cup {None}, current: Nat, versions: Seq(Nat)]
VersionRecord == [id: Nat, object: Nat, content: Contents]
Publication ==
  [path: Paths \cup {None}, prior: Contents \cup {None}, content: Contents \cup {None}, ino: Nat \cup {None}]
EventRecord == [what: {"tracked", "captured", "relocated", "restored"}, version: Nat \cup {None}]
PendingTransaction ==
  [id: Nat, kind: {"capture", "save", "relocate", "restore"}, object: ObjectRecord,
   versions: SUBSET VersionRecord, publish: Publication, events: Seq(EventRecord)]

VARIABLES
  file,        \* path -> [ino, content] or None
  marker,      \* the inner folder is a Folderbase of its own
  objects,     \* store -> records of its Objects
  installed,   \* store -> records of its Versions
  blobs,       \* store -> contents it holds
  identity,    \* store -> Object -> inode its path was bound to
  pending,     \* store -> the transaction whose intent is durable, or None
  journal,     \* store -> events of complete lines
  torn,        \* stores whose journal ends in half a line
  outgoing,    \* Objects whose history the parent has handed on
  call,        \* the call that holds the lock, or None
  minted, inodes, edits, calls, crashes,
  touched      \* paths people changed

storeVars == <<objects, installed, blobs, identity, pending, journal, torn>>
worldVars == <<file, marker, inodes, edits, touched>>
budgets == <<minted, calls, crashes>>

Visible(s, p) == s = IF marker /\ p \in Inner THEN "nested" ELSE "parent"
Present(s, p) == Visible(s, p) /\ file[p] # None

Record(s, o) == CHOOSE r \in objects[s] : r.id = o
Has(s, o) == \E r \in objects[s] : r.id = o
\* read_object: denied once the history was handed on or lies behind a boundary.
Readable(s, o) == Has(s, o) /\ (s = "parent" => o \notin outgoing) /\ Visible(s, Record(s, o).path)
HasVersion(s, v) == \E r \in installed[s] : r.id = v
VersionOf(s, v) == CHOOSE r \in installed[s] : r.id = v
\* read_version: the record, and an Object that lists it.
ReadableVersion(s, v) ==
  /\ HasVersion(s, v)
  /\ LET o == VersionOf(s, v).object IN Readable(s, o) /\ Contains(Record(s, o).versions, v)

\* find_object_by_path: at most one Object claims a path, and not a released one.
Claimants(s, p) == {r \in objects[s] : r.path = p}
FindFails(s, p) ==
  Cardinality(Claimants(s, p)) > 1 \/ (s = "parent" /\ \E r \in Claimants(s, p) : r.id \in outgoing)
Existing(s, p) == CHOOSE r \in Claimants(s, p) : TRUE
Tracked(s, p) == Claimants(s, p) # {}

\* A transaction installs versions, then publishes bytes or a projection.
Transaction(kind, object, versions, publish, events) ==
  [id |-> minted + 1, kind |-> kind, object |-> object, versions |-> versions,
   publish |-> publish, events |-> events]
NoPublication == [path |-> None, prior |-> None, content |-> None, ino |-> None]
Event(what, v) == [what |-> what, version |-> v]
EventsOf(t) ==
  [i \in DOMAIN t.events |->
     [transaction |-> t.id, object |-> t.object.id, what |-> t.events[i].what, version |-> t.events[i].version]]

-----------------------------------------------------------------------------
\* repair_incomplete_journal_tail quarantines what an append left.
Mended(s) == torn \ {s}

\* Calls.  A call first replays what is pending; only then does it look.
Begin(op, s, p, arg) ==
  /\ call = None
  /\ IF op = "open" THEN UNCHANGED calls ELSE calls < MaxCalls /\ calls' = calls + 1
  /\ s = "nested" => marker
  /\ call' = [op |-> op, store |-> s, path |-> p, arg |-> arg, seen |-> None, own |-> FALSE,
              step |-> IF pending[s] = None THEN "work" ELSE "check"]
  /\ torn' = Mended(s)
  /\ UNCHANGED <<worldVars, objects, installed, blobs, identity, pending, journal, outgoing, minted, crashes>>

Fail == call' = None
To(step) == call' = [call EXCEPT !.step = step]
Here == call.store
At(step) == call # None /\ call.op # "transfer" /\ call.step = step
Working(op) == At("work") /\ call.op = op

OpenDone == Working("open") /\ Fail /\ UNCHANGED <<worldVars, storeVars, outgoing, budgets>>

\* capture_file and replace_file_versioned hash the file into a blob first.
\* The editor loaded some bytes earlier; other bytes by now refuse the save.
Loaded(p) == call.op = "save" => file[p].content = call.arg.expected
ReadFile ==
  /\ At("work") /\ call.op \in {"capture", "save"}
  /\ LET p == call.path IN
     IF Present(Here, p) /\ ~ FindFails(Here, p) /\ Loaded(p)
     THEN /\ blobs' = [blobs EXCEPT ![Here] = @ \cup {file[p].content} \cup
                         IF call.op = "save" THEN {call.arg.content} ELSE {}]
          /\ call' = [call EXCEPT !.step = "commit", !.seen = file[p]]
     ELSE Fail /\ UNCHANGED blobs
  /\ UNCHANGED <<worldVars, objects, installed, identity, pending, journal, torn, outgoing, budgets>>

\* validate_pending_transaction, before an intent is written and when it is read.
Publishes(t) == t.publish.path # None
ValidTransaction(t) ==
  /\ t.events # <<>> /\ Contains(t.object.versions, t.object.current)
  /\ \A v \in t.versions : v.object = t.object.id /\ Contains(t.object.versions, v.id)
  /\ t.kind = "save" /\ Publishes(t) =>
       /\ t.publish.path = t.object.path /\ t.publish.prior # t.publish.content
       /\ \E v \in t.versions : v.id = t.object.current /\ v.content = t.publish.content
  /\ t.kind = "restore" => t.versions = {} /\ Len(t.events) = 1 /\ t.events[1].what = "restored"

\* commit_transaction: the intent is durable before anything it changes.
Commit(t, ids) ==
  /\ ValidTransaction(t)
  /\ pending' = [pending EXCEPT ![Here] = t] /\ minted' = minted + ids
  /\ call' = [call EXCEPT !.step = "check", !.own = TRUE]
  /\ minted + ids <= MaxIds

Rewrite(s0, r) == {q \in objects[s0] : q.id # r.id} \cup {r}
NewVersion(i, o, c) == [id |-> minted + i, object |-> o, content |-> c]
CurrentContent(r) == VersionOf(Here, r.current).content

\* What the call read is the Object's current version already.
HeldIfTracked(r) == TRUE
Held(r) == CurrentContent(r) = call.seen.content

CommitCapture ==
  /\ At("commit") /\ call.op = "capture"
  /\ LET p == call.path
         known == Tracked(Here, p)
         o == IF known THEN Existing(Here, p).id ELSE minted + 3
         v == NewVersion(2, o, call.seen.content)
         r == IF known
              THEN [Existing(Here, p) EXCEPT !.current = v.id, !.versions = Append(@, v.id)]
              ELSE [id |-> o, path |-> p, current |-> v.id, versions |-> <<v.id>>]
     IN IF known /\ Held(Existing(Here, p))
        THEN \* Unchanged bytes: only the path is bound to the file again.
             /\ identity' = IF file[p] = None THEN identity ELSE [identity EXCEPT ![Here][o] = file[p].ino]
             /\ Fail /\ UNCHANGED <<pending, minted>>
        ELSE /\ Commit(Transaction("capture", r, {v}, NoPublication,
                        (IF known THEN <<>> ELSE <<Event("tracked", None)>>) \o <<Event("captured", v.id)>>),
                       IF known THEN 2 ELSE 3)
             /\ UNCHANGED identity
  /\ UNCHANGED <<worldVars, objects, installed, blobs, journal, torn, outgoing, calls, crashes>>

\* Both sides of a save become Versions, unless the Object has them already.
CommitSave ==
  /\ At("commit") /\ call.op = "save"
  /\ LET p == call.path
         known == Tracked(Here, p)
         o == IF known THEN Existing(Here, p).id ELSE minted + 4
         held == known /\ Held(Existing(Here, p))
         before == IF held THEN VersionOf(Here, Existing(Here, p).current) ELSE NewVersion(2, o, call.seen.content)
         same == call.arg.content = call.seen.content
         after == IF same THEN before ELSE NewVersion(3, o, call.arg.content)
         new == (IF held THEN <<>> ELSE <<before>>) \o (IF same THEN <<>> ELSE <<after>>)
         versions == [i \in DOMAIN new |-> new[i].id]
         r == IF known
              THEN [Existing(Here, p) EXCEPT !.current = after.id, !.versions = @ \o versions]
              ELSE [id |-> o, path |-> p, current |-> after.id, versions |-> versions]
     IN IF new = <<>> THEN Fail /\ UNCHANGED <<pending, minted>>
        ELSE Commit(Transaction("save", r, ToSet(new),
               IF same THEN NoPublication
               ELSE [path |-> p, prior |-> call.seen.content, content |-> call.arg.content, ino |-> call.seen.ino],
               (IF known THEN <<>> ELSE <<Event("tracked", None)>>)
                 \o [i \in DOMAIN new |-> Event("captured", new[i].id)]),
               IF known THEN 3 ELSE 4)
  /\ UNCHANGED <<worldVars, objects, installed, blobs, identity, journal, torn, outgoing, calls, crashes>>

\* record_path_change: the file moved on disk, and it is the very file.
CommitRelocate ==
  /\ Working("relocate")
  /\ LET o == call.arg.object
         p == call.path
         r == Record(Here, o)
     IN IF /\ Present(Here, p) /\ Readable(Here, o) /\ r.path # p
           /\ ~ Present(Here, r.path) /\ Visible(Here, r.path)
           /\ identity[Here][o] = file[p].ino
           /\ HasVersion(Here, r.current) /\ CurrentContent(r) = file[p].content
           /\ ~ FindFails(Here, p) /\ ~ Tracked(Here, p)
        THEN Commit(Transaction("relocate", [r EXCEPT !.path = p], {}, NoPublication,
                                <<Event("relocated", r.current)>>), 1)
        ELSE Fail /\ UNCHANGED <<pending, minted>>
  /\ UNCHANGED <<worldVars, objects, installed, blobs, identity, journal, torn, outgoing, calls, crashes>>

\* restore_version: to a new path; the Object stays where it is.
Free(p) == Visible(Here, p) /\ file[p] = None
CommitRestore ==
  /\ Working("restore")
  /\ LET v == call.arg.version
         p == call.path
     IN IF /\ ReadableVersion(Here, v) /\ VersionOf(Here, v).content \in blobs[Here]
           /\ Free(p)
        THEN Commit(Transaction("restore", Record(Here, VersionOf(Here, v).object), {},
                      [NoPublication EXCEPT !.path = p, !.content = VersionOf(Here, v).content],
                      <<Event("restored", v)>>), 1)
        ELSE Fail /\ UNCHANGED <<pending, minted>>
  /\ UNCHANGED <<worldVars, objects, installed, blobs, identity, journal, torn, outgoing, calls, crashes>>

-----------------------------------------------------------------------------
\* replay_transaction, by the call that wrote the intent or a later one.
\* The bytes a transaction that replaces nothing must find at the Object's path:
\* those of the one version it captured, or of the version it has as current,
\* which must then be installed already.
AsRecorded(s0, t) ==
  t.kind # "restore" =>
    /\ Present(s0, t.object.path)
    /\ ~ Publishes(t) =>
         IF t.kind = "capture"
         THEN \E v \in t.versions : file[t.object.path].content = v.content
         ELSE /\ ReadableVersion(s0, t.object.current)
              /\ file[t.object.path].content = VersionOf(s0, t.object.current).content

ReplayCheck ==
  /\ At("check")
  /\ IF ValidTransaction(pending[Here]) /\ AsRecorded(Here, pending[Here]) THEN To("install") ELSE Fail
  /\ UNCHANGED <<worldVars, storeVars, outgoing, budgets>>

ReplayInstall ==
  /\ At("install")
  /\ LET t == pending[Here] IN
     /\ installed' = [installed EXCEPT ![Here] = @ \cup t.versions]
     /\ To(IF Publishes(t) THEN "publish" ELSE "project")
  /\ UNCHANGED <<worldVars, objects, blobs, identity, pending, journal, torn, outgoing, budgets>>

\* install_or_verify_replacement and install_or_verify_restore: done already,
\* refused, or to do.
PublishedNever(t) == FALSE
Published(t) == file[t.publish.path] # None /\ file[t.publish.path].content = t.publish.content
MayPublish(t) ==
  LET f == file[t.publish.path] IN
  IF t.kind = "restore" THEN f = None
  ELSE f # None /\ f.content = t.publish.prior /\ f.ino = t.publish.ino
Publishable(s0, t) ==
  /\ Visible(s0, t.publish.path) /\ t.publish.content \in blobs[s0]
  /\ t.kind = "restore" => ReadableVersion(s0, t.events[1].version)
ReplayVerify ==
  /\ At("publish")
  /\ LET t == pending[Here] IN
     IF ~ Publishable(Here, t) THEN Fail
     ELSE IF Published(t) THEN To(IF t.kind = "restore" THEN "append" ELSE "project")
     ELSE IF MayPublish(t) THEN call' = [call EXCEPT !.step = "rename", !.seen = file[t.publish.path]]
     ELSE Fail
  /\ UNCHANGED <<worldVars, storeVars, outgoing, budgets>>

\* The final check is adjacent to the rename, not one with it: a person may
\* write in between.  The link of a restore never replaces a file.
PublishNew(t) == file[t.publish.path] = None
PublishOver(t) == t.kind = "save"
ReplayRename ==
  /\ At("rename")
  /\ LET t == pending[Here] IN
     IF PublishNew(t) \/ PublishOver(t)
     THEN /\ inodes' = inodes + 1
          /\ file' = [file EXCEPT ![t.publish.path] = [ino |-> inodes + 1, content |-> t.publish.content]]
          /\ To(IF t.kind = "restore" THEN "append" ELSE "project")
     ELSE Fail /\ UNCHANGED <<file, inodes>>
  /\ UNCHANGED <<marker, edits, touched, storeVars, outgoing, budgets>>

ReplayProject ==
  /\ At("project")
  /\ objects' = [objects EXCEPT ![Here] = Rewrite(Here, pending[Here].object)] /\ To("identity")
  /\ UNCHANGED <<worldVars, installed, blobs, identity, pending, journal, torn, outgoing, budgets>>

ReplayIdentity ==
  /\ At("identity")
  /\ LET r == pending[Here].object IN
     IF file[r.path] = None THEN Fail /\ UNCHANGED identity
     ELSE identity' = [identity EXCEPT ![Here][r.id] = file[r.path].ino] /\ To("append")
  /\ UNCHANGED <<worldVars, objects, installed, blobs, pending, journal, torn, outgoing, budgets>>

\* Events carry identifiers, so a replay appends only those that are missing.
MissingAll(t) == EventsOf(t)
Missing(t) ==
  LET untold == {i \in DOMAIN t.events : ~ Contains(journal[Here], EventsOf(t)[i])}
      Nth(k) == CHOOSE i \in untold : Cardinality({j \in untold : j <= i}) = k
  IN  [k \in 1 .. Cardinality(untold) |-> EventsOf(t)[Nth(k)]]
ReplayAppend ==
  /\ At("append") /\ To("retire")
  /\ journal' = [journal EXCEPT ![Here] = @ \o Missing(pending[Here])]
  /\ UNCHANGED <<worldVars, objects, installed, blobs, identity, pending, torn, outgoing, budgets>>

ReplayRetire ==
  /\ At("retire")
  /\ pending' = [pending EXCEPT ![Here] = None]
  /\ IF call.own THEN Fail ELSE To("work")
  /\ UNCHANGED <<worldVars, objects, installed, blobs, identity, journal, torn, outgoing, budgets>>

\* A process may die anywhere, in an append after some of its lines.
Die ==
  /\ call # None /\ crashes < MaxCrashes /\ crashes' = crashes + 1 /\ call' = None
  /\ IF At("append")
     THEN \E n \in 0 .. Len(Missing(pending[Here])) :
            /\ journal' = [journal EXCEPT ![Here] = @ \o SubSeq(Missing(pending[Here]), 1, n)]
            /\ torn' \in {torn} \cup (IF n < Len(Missing(pending[Here])) THEN {torn \cup {Here}} ELSE {})
     ELSE UNCHANGED <<journal, torn>>
  /\ UNCHANGED <<worldVars, objects, installed, blobs, identity, pending, outgoing, minted, calls>>

\* Opening a store that nothing is left in changes nothing.
Reopen == \E s0 \in Stores : (pending[s0] # None \/ s0 \in torn) /\ Begin("open", s0, None, None)
Calls ==
  \/ Reopen
  \/ \E s0 \in Stores, p \in Paths : Begin("capture", s0, p, None)
  \* save_workspace_text refuses an editor that is stale already.
  \/ \E s0 \in Stores, p \in Paths, c \in Contents :
       file[p] # None /\ Begin("save", s0, p, [expected |-> file[p].content, content |-> c])
  \/ \E s0 \in Stores : \E r \in objects[s0], p \in Paths : Begin("relocate", s0, p, [object |-> r.id])
  \/ \E s0 \in Stores : \E v \in installed[s0], p \in Paths : Begin("restore", s0, p, [version |-> v.id])

Steps ==
  \/ OpenDone \/ ReadFile \/ CommitCapture \/ CommitSave \/ CommitRelocate \/ CommitRestore
  \/ ReplayCheck \/ ReplayInstall \/ ReplayVerify \/ ReplayRename
  \/ ReplayProject \/ ReplayIdentity \/ ReplayAppend \/ ReplayRetire

\* People write, replace, move and delete files, and make the folder a Folderbase.
PeopleEdit ==
  /\ edits < MaxEdits /\ edits' = edits + 1
  /\ \E p \in Paths :
       \/ /\ file[p] # None /\ touched' = touched \cup {p} /\ UNCHANGED inodes
          /\ \E c \in Contents \ {file[p].content} : file' = [file EXCEPT ![p].content = c]
       \/ /\ inodes' = inodes + 1 /\ touched' = touched \cup {p}
          /\ \E c \in Contents : file' = [file EXCEPT ![p] = [ino |-> inodes + 1, content |-> c]]
       \/ /\ file[p] # None /\ UNCHANGED inodes
          /\ \E q \in Paths : /\ file[q] = None /\ touched' = touched \cup {p, q}
                              /\ file' = [file EXCEPT ![p] = None, ![q] = file[p]]
       \/ file[p] # None /\ file' = [file EXCEPT ![p] = None] /\ touched' = touched \cup {p} /\ UNCHANGED inodes
  /\ UNCHANGED <<marker, storeVars, outgoing, call, budgets>>
Nest ==
  /\ ~ marker /\ marker' = TRUE
  /\ UNCHANGED <<file, inodes, edits, touched, storeVars, outgoing, call, budgets>>

StoreInit ==
  /\ file = [p \in Paths |-> IF p \in DOMAIN Initial THEN [ino |-> 1, content |-> Initial[p]] ELSE None]
  /\ marker = FALSE /\ inodes = 1 /\ edits = 0 /\ touched = {}
  /\ objects = [st \in Stores |-> {}] /\ installed = [st \in Stores |-> {}]
  /\ blobs = [st \in Stores |-> {}] /\ identity = [st \in Stores |-> [i \in Ids |-> None]]
  /\ pending = [st \in Stores |-> None] /\ journal = [st \in Stores |-> <<>>] /\ torn = {}
  /\ outgoing = {} /\ call = None /\ minted = 0 /\ calls = 0 /\ crashes = 0

=============================================================================
