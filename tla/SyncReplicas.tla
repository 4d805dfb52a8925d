----------------------------- MODULE SyncReplicas -----------------------------
(***************************************************************************)
(* The sync planner of folderbase-core (sync.rs): replicas that are written *)
(* locally, reconcile with one canonical cloud version per path, and are   *)
(* notified of published versions by events that may be lost, repeated or  *)
(* arrive in any order.                                                    *)
(*                                                                         *)
(* A digest stands for the bytes it was taken of.  Byte counts, content    *)
(* kinds and device names decide only how a conflict is reported and are   *)
(* left out.  An event's identifier is its version's sequence number.      *)
(***************************************************************************)
EXTENDS Naturals, FiniteSets

CONSTANTS
  Devices,      \* the replicas
  Paths,        \* safe relative paths, numbered in the order a sync visits them
  Contents,     \* what a file's bytes can be
  None,         \* the absent base of an entry that was never synchronised
  MaxWrites,    \* bound: local writes
  MaxIdle       \* bound: versions captured before a fruitless sync is left out

ASSUME SyncAssumption ==
  /\ IsFiniteSet(Paths) /\ Paths \subseteq Nat
  /\ None \notin Contents
  /\ MaxWrites \in Nat /\ MaxIdle \in Nat

VARIABLES
  entries,      \* device -> path -> the local bytes and the digest they derive from
  events,       \* every SyncEvent published so far
  appliedEvents,    \* device -> identifiers of the events it has dealt with
  appliedSequences, \* device -> path -> sequence of the version it is based on
  blobs,        \* immutable contents the cloud can materialize
  canonical,    \* path -> the current SyncVersion
  conflicts,    \* recorded conflicts
  sequence,     \* versions captured so far
  writes        \* local writes so far

vars == <<entries, events, appliedEvents, appliedSequences, blobs, canonical, conflicts,
          sequence, writes>>

Entry == [data: Contents, base: Contents \cup {None}]
SyncVersion == [digest: Contents, sequence: Nat \ {0}]
SyncEvent == [path: Paths, version: SyncVersion]
SyncConflict == [path: Paths, local: Contents, remote: Contents]

IsPartial(f, S, T) == DOMAIN f \subseteq S /\ f \in [DOMAIN f -> T]

Empty == [x \in {} |-> None]

Init ==
  /\ entries = [d \in Devices |-> Empty]
  /\ appliedEvents = [d \in Devices |-> {}]
  /\ appliedSequences = [d \in Devices |-> Empty]
  /\ canonical = Empty
  /\ events = {} /\ blobs = {} /\ conflicts = {}
  /\ sequence = 0 /\ writes = 0

Put(f, k, v) == [x \in DOMAIN f \cup {k} |-> IF x = k THEN v ELSE f[x]]

-----------------------------------------------------------------------------
(* A local write keeps the base its entry had.                             *)

Write(d, p) ==
  /\ writes < MaxWrites
  /\ writes' = writes + 1
  /\ \E c \in Contents :
       entries' = [entries EXCEPT ![d] = Put(entries[d], p,
                     [data |-> c,
                      base |-> IF p \in DOMAIN entries[d] THEN entries[d][p].base ELSE None])]
  /\ UNCHANGED <<events, appliedEvents, appliedSequences, blobs, canonical, conflicts, sequence>>

-----------------------------------------------------------------------------
(* What one sync does at each path it visits.                              *)

Local(d) == DOMAIN entries[d]
Remote == DOMAIN canonical
Shared(d) == Local(d) \cap Remote

Clean(e) == e.base = e.data

\* Both sides hold the same bytes, however each came by them.
Unchanged(d) == {p \in Shared(d) : entries[d][p].data = canonical[p].digest}

Differing(d) == Shared(d) \ Unchanged(d)

\* Nothing is there to replace, or only the version the local bytes derive from.
Uploads(d) ==
  (Local(d) \ Remote) \cup {p \in Differing(d) : entries[d][p].base = canonical[p].digest}

\* Mutant: any replica that has synchronised before follows the cloud.
DownloadsOverEdits(d) ==
  (Remote \ Local(d)) \cup
  {p \in Differing(d) : entries[d][p].base \notin {None, canonical[p].digest}}

\* Nothing is there to lose locally.
Downloads(d) ==
  (Remote \ Local(d)) \cup {p \in Differing(d) \ Uploads(d) : Clean(entries[d][p])}

\* Both sides have moved on since the local base.
Conflicting(d) == Differing(d) \ (Uploads(d) \cup Downloads(d))

\* Local bytes that become an immutable version with a sequence number of its own.
Captured(d) == Uploads(d) \cup Conflicting(d)

\* Mutant: the local side of a conflict is reported and not stored.
StoredUploads(d) == {entries[d][p].data : p \in Uploads(d)}

Stored(d) == {entries[d][p].data : p \in Captured(d)}

Ticket(d, p) == sequence + Cardinality({q \in Captured(d) : q <= p})

\* Mutant: a replica that finds the same bytes in the cloud keeps its base.
SyncedEntryKeepingBase(d, p) ==
  IF p \in Uploads(d)
  THEN [data |-> entries[d][p].data, base |-> entries[d][p].data]
  ELSE IF p \in Downloads(d)
  THEN [data |-> canonical[p].digest, base |-> canonical[p].digest]
  ELSE entries[d][p]

SyncedEntry(d, p) ==
  IF p \in Uploads(d)
  THEN [data |-> entries[d][p].data, base |-> entries[d][p].data]
  ELSE IF p \in Downloads(d) \cup Unchanged(d)
  THEN [data |-> canonical[p].digest, base |-> canonical[p].digest]
  ELSE entries[d][p]

Settled(d) == Uploads(d) \cup Downloads(d) \cup Unchanged(d)

Published(d) ==
  {[path |-> p, version |-> [digest |-> entries[d][p].data, sequence |-> Ticket(d, p)]] :
     p \in Uploads(d)}

\* Mutant: one conflict is kept for each path.
RecordedOncePerPath(d) ==
  {[path |-> p, local |-> entries[d][p].data, remote |-> canonical[p].digest] :
     p \in {q \in Conflicting(d) : \A c \in conflicts : c.path # q}}

\* A conflict is recorded once for the same two contents of a path.
Recorded(d) ==
  {[path |-> p, local |-> entries[d][p].data, remote |-> canonical[p].digest] :
     p \in Conflicting(d)}

\* A sync of this replica would at most capture a recorded conflict again.
Idle(d) ==
  /\ Uploads(d) = {} /\ Downloads(d) = {}
  /\ \A p \in Unchanged(d) : /\ Clean(entries[d][p])
                             /\ appliedSequences[d][p] = canonical[p].sequence
  /\ Recorded(d) \subseteq conflicts

\* One call reconciles every path either side knows of.
Sync(d) ==
  /\ Idle(d) => sequence < MaxIdle
  /\ entries' = [entries EXCEPT ![d] = [p \in Local(d) \cup Remote |-> SyncedEntry(d, p)]]
  /\ canonical' =
       [p \in Remote \cup Uploads(d) |->
          IF p \in Uploads(d) THEN [digest |-> entries[d][p].data, sequence |-> Ticket(d, p)]
          ELSE canonical[p]]
  /\ appliedSequences' =
       [appliedSequences EXCEPT ![d] =
          [p \in DOMAIN appliedSequences[d] \cup Settled(d) |->
             IF p \in Settled(d) THEN canonical'[p].sequence ELSE appliedSequences[d][p]]]
  /\ blobs' = blobs \cup Stored(d)
  /\ events' = events \cup Published(d)
  /\ conflicts' = conflicts \cup Recorded(d)
  /\ sequence' = sequence + Cardinality(Captured(d))
  /\ UNCHANGED <<appliedEvents, writes>>

-----------------------------------------------------------------------------
(* Notifications.  An event may reach a replica at any time, any number of *)
(* times, or never.                                                        *)

\* Mutant: only the event's identifier is remembered.
NeverOvertaken(d, e) == FALSE

\* The replica is already based on this version of the path or a later one.
Overtaken(d, e) ==
  /\ e.path \in DOMAIN appliedSequences[d]
  /\ appliedSequences[d][e.path] >= e.version.sequence

CanDownload(d, p) == p \in Local(d) => Clean(entries[d][p])

SkipEvent(d, e) ==
  /\ e.version.sequence \notin appliedEvents[d]
  /\ Overtaken(d, e)
  /\ appliedEvents' = [appliedEvents EXCEPT ![d] = @ \cup {e.version.sequence}]
  /\ UNCHANGED <<entries, events, appliedSequences, blobs, canonical, conflicts, sequence, writes>>

ApplyEvent(d, e) ==
  /\ e.version.sequence \notin appliedEvents[d]
  /\ ~ Overtaken(d, e)
  /\ CanDownload(d, e.path)
  /\ e.version.digest \in blobs
  /\ entries' = [entries EXCEPT ![d] = Put(entries[d], e.path,
                   [data |-> e.version.digest, base |-> e.version.digest])]
  /\ appliedEvents' = [appliedEvents EXCEPT ![d] = @ \cup {e.version.sequence}]
  /\ appliedSequences' =
       [appliedSequences EXCEPT ![d] = Put(appliedSequences[d], e.path, e.version.sequence)]
  /\ UNCHANGED <<events, blobs, canonical, conflicts, sequence, writes>>

Next ==
  \/ \E d \in Devices, p \in Paths : Write(d, p)
  \/ \E d \in Devices : Sync(d)
  \/ \E d \in Devices, e \in events : SkipEvent(d, e) \/ ApplyEvent(d, e)

Spec == Init /\ [][Next]_vars

\* Every replica keeps calling sync; no event ever has to be delivered.
FairSpec == Spec /\ \A d \in Devices : WF_vars(Sync(d))

-----------------------------------------------------------------------------
(* Properties.                                                             *)

\* Every variable holds what its record can hold; a version's sequence number
\* is never zero.
TypeOK ==
  /\ DOMAIN entries = Devices /\ \A d \in Devices : IsPartial(entries[d], Paths, Entry)
  /\ events \subseteq SyncEvent
  /\ appliedEvents \in [Devices -> SUBSET Nat]
  /\ DOMAIN appliedSequences = Devices
  /\ \A d \in Devices : IsPartial(appliedSequences[d], Paths, Nat \ {0})
  /\ blobs \subseteq Contents
  /\ IsPartial(canonical, Paths, SyncVersion)
  /\ conflicts \subseteq SyncConflict
  /\ sequence \in Nat /\ writes \in 0..MaxWrites

\* The digest an entry derives from and the sequence number its replica keeps
\* for that path are of one and the same published version, however syncs,
\* writes and notifications were interleaved.
BaseIsApplied ==
  \A d \in Devices, p \in Paths :
    (p \in Local(d) /\ entries[d][p].base # None) =>
      /\ p \in DOMAIN appliedSequences[d]
      /\ [path |-> p, version |-> [digest   |-> entries[d][p].base,
                                   sequence |-> appliedSequences[d][p]]] \in events

\* Whatever a version, a conflict or a base names can be materialized, so no
\* sync and no notification ever fails for a missing blob.
Materializable ==
  /\ \A p \in Remote : canonical[p].digest \in blobs
  /\ \A e \in events : e.version.digest \in blobs
  /\ \A c \in conflicts : c.local \in blobs /\ c.remote \in blobs

\* Bytes that a replica holds are replaced by a sync or a notification only
\* when they are a version that was published at that path: an unpublished
\* edit is never lost, conflicts and late notifications included.
EditsSurvive ==
  [][\A d \in Devices, p \in Paths :
       (p \in Local(d) /\ writes' = writes /\ entries'[d][p].data # entries[d][p].data) =>
         \E e \in events : e.path = p /\ e.version.digest = entries[d][p].data]_vars

\* No reordered, repeated or late notification takes a replica back to an
\* older version of a path, and no sync makes an older version canonical.
NeverBackwards ==
  [][/\ \A d \in Devices, p \in Paths :
          p \in DOMAIN appliedSequences[d] =>
            /\ p \in DOMAIN appliedSequences'[d]
            /\ appliedSequences[d][p] <= appliedSequences'[d][p]
     /\ \A p \in Remote : p \in Remote' /\ canonical[p].sequence <= canonical'[p].sequence]_vars

\* Once the users stop writing, each replica holds the canonical bytes of every
\* path, or the cloud has recorded how exactly its bytes and the canonical ones
\* conflict.
Converged(d) ==
  \A p \in Local(d) \cup Remote :
    /\ p \in Shared(d)
    /\ \/ entries[d][p].data = canonical[p].digest
       \/ [path |-> p, local |-> entries[d][p].data, remote |-> canonical[p].digest] \in conflicts

EventuallyConverged == <>[](\A d \in Devices : Converged(d))
===============================================================================
