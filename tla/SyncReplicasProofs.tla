-------------------------- MODULE SyncReplicasProofs --------------------------
(***************************************************************************)
(* What synchronisation guarantees for every number of replicas, paths,    *)
(* contents, writes and notifications: an unpublished edit survives, no    *)
(* replica and no path goes backwards, and every name can be materialized. *)
(***************************************************************************)
EXTENDS SyncReplicas, FiniteSetTheorems, TLAPS

\* The canonical version of a path is the newest one published there, and no
\* replica is ahead of it.
Ordered ==
  /\ \A p \in Remote : /\ canonical[p].sequence <= sequence
                       /\ [path |-> p, version |-> canonical[p]] \in events
  /\ \A e \in events : e.path \in Remote /\ e.version.sequence <= canonical[e.path].sequence
  /\ \A d \in Devices : \A p \in DOMAIN appliedSequences[d] :
       p \in Remote /\ appliedSequences[d][p] <= canonical[p].sequence

SyncInv == TypeOK /\ BaseIsApplied /\ Materializable /\ Ordered

-----------------------------------------------------------------------------
(* Types of the parts of a sync.                                           *)

\* The bytes and the base of an entry, and the fields of a canonical version.
LEMMA Parts ==
  ASSUME TypeOK, NEW d \in Devices
  PROVE  /\ Local(d) \subseteq Paths /\ Remote \subseteq Paths
         /\ \A p \in Local(d) : /\ entries[d][p] \in Entry
                                /\ entries[d][p].data \in Contents
                                /\ entries[d][p].base \in Contents \cup {None}
         /\ \A p \in Remote : /\ canonical[p] \in SyncVersion
                              /\ canonical[p].digest \in Contents
                              /\ canonical[p].sequence \in Nat \ {0}
         /\ \A p \in DOMAIN appliedSequences[d] : /\ p \in Paths
                                                  /\ appliedSequences[d][p] \in Nat \ {0}
BY DEF TypeOK, IsPartial, Local, Remote, Entry, SyncVersion

\* Which sides know the paths of each branch.
LEMMA Branches ==
  ASSUME NEW d \in Devices
  PROVE  /\ Uploads(d) \subseteq Local(d)
         /\ Downloads(d) \subseteq Remote
         /\ Unchanged(d) \subseteq Shared(d)
         /\ Conflicting(d) \subseteq Shared(d)
         /\ Captured(d) \subseteq Local(d)
         /\ Shared(d) \subseteq Local(d) /\ Shared(d) \subseteq Remote
         /\ Captured(d) = Uploads(d) \cup Conflicting(d)
         /\ \A p \in Uploads(d) : p \notin Downloads(d) \cup Unchanged(d)
         /\ Local(d) \cup Remote = Settled(d) \cup Conflicting(d)
         /\ \A p \in Conflicting(d) : p \notin Settled(d)
BY DEF Local, Remote, Shared, Unchanged, Differing, Uploads, Downloads, Conflicting, Captured,
       Settled

\* A version captured by a sync gets a number above all earlier ones.
LEMMA TicketIsNew ==
  ASSUME TypeOK, NEW d \in Devices
  PROVE  /\ Cardinality(Captured(d)) \in Nat
         /\ \A p \in Captured(d) : /\ Ticket(d, p) \in Nat \ {0}
                                   /\ sequence < Ticket(d, p)
                                   /\ Ticket(d, p) <= sequence + Cardinality(Captured(d))
<1>1. Captured(d) \subseteq Paths
  BY Parts, Branches
<1>2. IsFiniteSet(Captured(d)) /\ Cardinality(Captured(d)) \in Nat
  BY <1>1, SyncAssumption, FS_Subset, FS_CardinalityType
<1>3. ASSUME NEW p \in Captured(d)
      PROVE  /\ Ticket(d, p) \in Nat \ {0}
             /\ sequence < Ticket(d, p)
             /\ Ticket(d, p) <= sequence + Cardinality(Captured(d))
  <2> DEFINE upTo == {q \in Captured(d) : q <= p}
  <2>0. p \in Nat
    BY <1>1, SyncAssumption
  <2>1. p \in upTo
    BY <2>0
  <2>2. IsFiniteSet(upTo) /\ Cardinality(upTo) <= Cardinality(Captured(d))
    BY <1>2, FS_Subset
  <2>3. Cardinality(upTo) \in Nat /\ Cardinality(upTo) # 0
    BY <2>1, <2>2, FS_CardinalityType, FS_EmptySet
  <2>4. sequence \in Nat /\ Ticket(d, p) = sequence + Cardinality(upTo)
    BY DEF TypeOK, Ticket
  <2>5. QED
    BY <1>2, <2>2, <2>3, <2>4
<1>4. QED
  BY <1>2, <1>3

\* The entry a sync leaves behind is an entry.
LEMMA SyncedEntryTyped ==
  ASSUME TypeOK, NEW d \in Devices, NEW p \in Local(d) \cup Remote
  PROVE  SyncedEntry(d, p) \in Entry
<1>1. CASE p \in Settled(d)
  BY <1>1, Parts, Branches DEF SyncedEntry, Settled, Entry
<1>2. CASE p \in Conflicting(d)
  BY <1>2, Parts, Branches DEF SyncedEntry, Settled
<1>3. QED
  BY <1>1, <1>2, Branches

-----------------------------------------------------------------------------
(* The steps.                                                              *)

\* A replica starts with nothing, and so does the cloud.
LEMMA InitSynced == Init => SyncInv
BY SyncAssumption
DEF Init, Empty, SyncInv, TypeOK, IsPartial, BaseIsApplied, Materializable, Ordered, Local, Remote

\* A write keeps the base its entry had and publishes nothing.
LEMMA WriteSynced ==
  ASSUME SyncInv, NEW d \in Devices, NEW p \in Paths, Write(d, p)
  PROVE  SyncInv'
<1> PICK c \in Contents :
      entries' = [entries EXCEPT ![d] = Put(entries[d], p,
                    [data |-> c,
                     base |-> IF p \in Local(d) THEN entries[d][p].base ELSE None])]
  BY DEF Write, Local
<1>1. ASSUME NEW b \in Devices
      PROVE  /\ IsPartial(entries'[b], Paths, Entry)
             /\ \A q \in DOMAIN entries'[b] :
                  entries'[b][q].base # None =>
                    q \in Local(b) /\ entries'[b][q].base = entries[b][q].base
  BY Parts DEF SyncInv, TypeOK, IsPartial, Put, Entry, Local
<1>2. TypeOK'
  <2>1. DOMAIN entries' = Devices /\ \A b \in Devices : IsPartial(entries'[b], Paths, Entry)
    BY <1>1 DEF SyncInv, TypeOK
  <2>2. writes' \in 0..MaxWrites
    BY SyncAssumption DEF SyncInv, TypeOK, Write
  <2>3. QED
    BY <2>1, <2>2 DEF SyncInv, TypeOK, IsPartial, Write
<1>3. BaseIsApplied'
  BY <1>1 DEF SyncInv, BaseIsApplied, Local, Write
<1>4. Materializable' /\ Ordered'
  BY DEF SyncInv, Materializable, Ordered, Remote, Write
<1>5. QED
  BY <1>2, <1>3, <1>4 DEF SyncInv

\* A notification of a version that was overtaken is only remembered.
LEMMA SkipEventSynced ==
  ASSUME SyncInv, NEW d \in Devices, NEW e \in events, SkipEvent(d, e)
  PROVE  SyncInv'
<1>1. e.version.sequence \in Nat
  BY DEF SyncInv, TypeOK, SyncEvent, SyncVersion
<1>2. TypeOK'
  BY <1>1 DEF SyncInv, TypeOK, IsPartial, SkipEvent
<1>3. QED
  BY <1>2 DEF SyncInv, BaseIsApplied, Materializable, Ordered, Local, Remote, SkipEvent

\* A notification that is applied brings a published version and its number.
LEMMA ApplyEventSynced ==
  ASSUME SyncInv, NEW d \in Devices, NEW e \in events, ApplyEvent(d, e)
  PROVE  SyncInv'
<1>1. /\ e \in SyncEvent /\ e.path \in Paths /\ e.version \in SyncVersion
      /\ e.version.digest \in Contents /\ e.version.sequence \in Nat \ {0}
      /\ e = [path |-> e.path, version |-> [digest   |-> e.version.digest,
                                           sequence |-> e.version.sequence]]
  BY DEF SyncInv, TypeOK, SyncEvent, SyncVersion
<1>2. ASSUME NEW b \in Devices
      PROVE  /\ IsPartial(entries'[b], Paths, Entry)
             /\ IsPartial(appliedSequences'[b], Paths, Nat \ {0})
             /\ \A q \in DOMAIN entries'[b] :
                  \/ b = d /\ q = e.path /\ entries'[b][q].base = e.version.digest
                  \/ q \in Local(b) /\ entries'[b][q] = entries[b][q] /\ ~ (b = d /\ q = e.path)
             /\ \A q \in DOMAIN appliedSequences'[b] :
                  \/ b = d /\ q = e.path
                  \/ /\ q \in DOMAIN appliedSequences[b]
                     /\ appliedSequences'[b][q] = appliedSequences[b][q]
  BY <1>1 DEF SyncInv, TypeOK, IsPartial, Put, Entry, Local, ApplyEvent
<1>3. TypeOK'
  BY <1>1, <1>2 DEF SyncInv, TypeOK, IsPartial, ApplyEvent
<1>4. e.path \in DOMAIN appliedSequences'[d] /\ appliedSequences'[d][e.path] = e.version.sequence
  BY DEF SyncInv, TypeOK, IsPartial, ApplyEvent, Put
<1>5. ASSUME NEW b \in Devices, NEW q \in DOMAIN appliedSequences[b], ~ (b = d /\ q = e.path)
      PROVE  q \in DOMAIN appliedSequences'[b] /\ appliedSequences'[b][q] = appliedSequences[b][q]
  BY <1>5 DEF SyncInv, TypeOK, ApplyEvent, Put
<1>6. ASSUME NEW b \in Devices, NEW q \in Paths, q \in DOMAIN entries'[b],
             entries'[b][q].base # None
      PROVE  /\ q \in DOMAIN appliedSequences'[b]
             /\ [path |-> q, version |-> [digest   |-> entries'[b][q].base,
                                         sequence |-> appliedSequences'[b][q]]] \in events'
  <2>1. CASE b = d /\ q = e.path
    BY <1>1, <1>2, <1>4, <1>6, <2>1 DEF ApplyEvent
  <2>2. CASE ~ (b = d /\ q = e.path)
    <3>1. q \in Local(b) /\ entries'[b][q] = entries[b][q]
      BY <1>2, <1>6, <2>2
    <3>2. /\ q \in DOMAIN appliedSequences[b]
          /\ [path |-> q, version |-> [digest   |-> entries[b][q].base,
                                      sequence |-> appliedSequences[b][q]]] \in events
      BY <1>6, <3>1 DEF SyncInv, BaseIsApplied
    <3>3. q \in DOMAIN appliedSequences'[b] /\ appliedSequences'[b][q] = appliedSequences[b][q]
      BY <1>5, <2>2, <3>2
    <3>4. QED
      BY <3>1, <3>2, <3>3 DEF ApplyEvent
  <2>3. QED
    BY <2>1, <2>2
<1>7. Materializable' /\ Ordered'
  BY <1>2, <1>4 DEF SyncInv, Materializable, Ordered, Remote, ApplyEvent
<1>8. QED
  BY <1>3, <1>6, <1>7 DEF SyncInv, BaseIsApplied, Local

\* The entries after a sync.
LEMMA EntriesAfter ==
  ASSUME SyncInv, NEW d \in Devices, Sync(d)
  PROVE  /\ DOMAIN entries' = Devices
         /\ \A b \in Devices \ {d} : entries'[b] = entries[b]
         /\ entries'[d] = [p \in Local(d) \cup Remote |-> SyncedEntry(d, p)]
         /\ DOMAIN entries'[d] = Settled(d) \cup Conflicting(d)
         /\ \A p \in Settled(d) \cup Conflicting(d) : entries'[d][p] = SyncedEntry(d, p)
BY Branches DEF SyncInv, TypeOK, Sync

\* The sequence numbers the replica keeps after a sync.
LEMMA SequencesAfter ==
  ASSUME SyncInv, NEW d \in Devices, Sync(d)
  PROVE  /\ DOMAIN appliedSequences' = Devices
         /\ \A b \in Devices \ {d} : appliedSequences'[b] = appliedSequences[b]
         /\ DOMAIN appliedSequences'[d] = DOMAIN appliedSequences[d] \cup Settled(d)
         /\ \A p \in Settled(d) : appliedSequences'[d][p] = canonical'[p].sequence
         /\ \A p \in DOMAIN appliedSequences[d] :
              p \notin Settled(d) => appliedSequences'[d][p] = appliedSequences[d][p]
BY DEF SyncInv, TypeOK, Sync

\* The canonical versions after a sync.
LEMMA CanonicalAfter ==
  ASSUME SyncInv, NEW d \in Devices, Sync(d)
  PROVE  /\ Remote' = Remote \cup Uploads(d)
         /\ Settled(d) \subseteq Remote'
         /\ \A p \in Uploads(d) :
              canonical'[p] = [digest |-> entries[d][p].data, sequence |-> Ticket(d, p)]
         /\ \A p \in Remote : p \notin Uploads(d) => canonical'[p] = canonical[p]
BY Branches DEF Sync, Remote, Settled

\* The version that is canonical after a sync is a version, and no older.
LEMMA SyncAdvances ==
  ASSUME SyncInv, NEW d \in Devices, Sync(d)
  PROVE  /\ IsPartial(canonical', Paths, SyncVersion)
         /\ sequence' \in Nat /\ sequence <= sequence'
         /\ \A p \in Remote' : /\ canonical'[p].sequence <= sequence'
                               /\ [path |-> p, version |-> canonical'[p]] \in events'
         /\ \A p \in Remote : canonical[p].sequence <= canonical'[p].sequence
<1>1. sequence \in Nat /\ sequence' = sequence + Cardinality(Captured(d))
  BY DEF SyncInv, TypeOK, Sync
<1>2. sequence' \in Nat /\ sequence <= sequence'
  BY <1>1, TicketIsNew DEF SyncInv
<1>3. ASSUME NEW p \in Uploads(d)
      PROVE  /\ canonical'[p] \in SyncVersion
             /\ canonical'[p].sequence <= sequence'
             /\ sequence < canonical'[p].sequence
             /\ [path |-> p, version |-> canonical'[p]] \in events'
  <2>1. p \in Captured(d) /\ p \in Local(d) /\ entries[d][p].data \in Contents
    BY Parts, Branches DEF SyncInv
  <2>2. canonical'[p] = [digest |-> entries[d][p].data, sequence |-> Ticket(d, p)]
    BY CanonicalAfter
  <2>3. /\ Ticket(d, p) \in Nat \ {0} /\ sequence < Ticket(d, p)
        /\ Ticket(d, p) <= sequence'
    BY <1>1, <2>1, TicketIsNew DEF SyncInv
  <2>4. [path |-> p, version |-> canonical'[p]] \in Published(d)
    BY <2>2 DEF Published
  <2>5. QED
    BY <2>1, <2>2, <2>3, <2>4 DEF SyncVersion, Sync
<1>4. ASSUME NEW p \in Remote \ Uploads(d)
      PROVE  /\ canonical'[p] \in SyncVersion
             /\ canonical'[p].sequence <= sequence'
             /\ canonical'[p] = canonical[p]
             /\ [path |-> p, version |-> canonical'[p]] \in events'
  <2>1. canonical'[p] = canonical[p] /\ canonical[p] \in SyncVersion
    BY Parts, CanonicalAfter DEF SyncInv
  <2>2. canonical[p].sequence <= sequence /\ [path |-> p, version |-> canonical[p]] \in events
    BY DEF SyncInv, Ordered
  <2>3. canonical[p].sequence \in Nat
    BY Parts DEF SyncInv
  <2>4. QED
    BY <1>1, <1>2, <2>1, <2>2, <2>3 DEF Sync
<1>5. Remote' = Remote \cup Uploads(d) /\ Remote' \subseteq Paths
  <2>1. Remote' = Remote \cup Uploads(d)
    BY CanonicalAfter
  <2>2. Remote \subseteq Paths /\ Uploads(d) \subseteq Paths
    BY Parts, Branches DEF SyncInv
  <2>3. QED
    BY <2>1, <2>2
<1>6. \A p \in Remote : canonical[p].sequence \in Nat /\ canonical[p].sequence <= sequence
  BY Parts DEF SyncInv, Ordered
<1>7. \A p \in Remote' : canonical'[p].sequence \in Nat
  BY <1>3, <1>4, <1>5 DEF SyncVersion
<1>8. \A p \in Remote : canonical[p].sequence <= canonical'[p].sequence
  <2>1. ASSUME NEW p \in Remote PROVE canonical[p].sequence <= canonical'[p].sequence
    <3>1. CASE p \in Uploads(d)
      <4>1. sequence < canonical'[p].sequence /\ canonical'[p].sequence \in Nat
        BY <1>3, <1>5, <1>7, <3>1
      <4>2. canonical[p].sequence \in Nat /\ canonical[p].sequence <= sequence
        BY <1>6, <2>1
      <4>3. QED
        BY <1>1, <4>1, <4>2
    <3>2. CASE p \notin Uploads(d)
      <4>1. canonical'[p] = canonical[p] /\ canonical[p].sequence \in Nat
        BY <1>4, <1>6, <2>1, <3>2
      <4>2. QED
        BY <4>1
    <3>3. QED
      BY <3>1, <3>2
  <2>2. QED
    BY <2>1
<1>9. IsPartial(canonical', Paths, SyncVersion)
  <2>1. canonical' = [p \in Remote' |-> canonical'[p]]
    BY DEF Sync, Remote
  <2>2. \A p \in Remote' : canonical'[p] \in SyncVersion
    BY <1>3, <1>4, <1>5
  <2>3. QED
    BY <1>5, <2>1, <2>2 DEF IsPartial, Remote
<1>10. QED
  BY <1>2, <1>3, <1>4, <1>5, <1>8, <1>9

\* What a sync stores, publishes and records is well typed and stored.
LEMMA SyncTyped ==
  ASSUME SyncInv, NEW d \in Devices, Sync(d)
  PROVE  TypeOK' /\ Materializable'
<1>1. \A p \in Local(d) : p \in Paths /\ entries[d][p].data \in Contents
  BY Parts DEF SyncInv
<1>2. DOMAIN entries' = Devices /\ \A b \in Devices : IsPartial(entries'[b], Paths, Entry)
  <2>1. IsPartial(entries'[d], Paths, Entry)
    <3>1. \A p \in Local(d) \cup Remote : p \in Paths /\ SyncedEntry(d, p) \in Entry
      BY SyncedEntryTyped, Parts DEF SyncInv
    <3>2. QED
      BY <3>1, EntriesAfter DEF IsPartial
  <2>2. \A b \in Devices \ {d} : IsPartial(entries'[b], Paths, Entry)
    BY EntriesAfter DEF SyncInv, TypeOK
  <2>3. DOMAIN entries' = Devices
    BY EntriesAfter
  <2>4. QED
    BY <2>1, <2>2, <2>3
<1>3. DOMAIN appliedSequences' = Devices
      /\ \A b \in Devices : IsPartial(appliedSequences'[b], Paths, Nat \ {0})
  <2>1. \A p \in Settled(d) : p \in Remote' /\ p \in Paths
    <3>1. Settled(d) \subseteq Local(d) \cup Remote
      BY Branches
    <3>2. QED
      BY <3>1, CanonicalAfter, Parts DEF SyncInv
  <2>2. \A p \in Settled(d) : canonical'[p].sequence \in Nat \ {0}
    BY <2>1, SyncAdvances DEF IsPartial, SyncVersion, Remote
  <2>3. DOMAIN appliedSequences'[d] \subseteq Paths
    BY <2>1, SequencesAfter, Parts DEF SyncInv
  <2>4. \A p \in DOMAIN appliedSequences'[d] : appliedSequences'[d][p] \in Nat \ {0}
    <3>1. \A p \in DOMAIN appliedSequences[d] : appliedSequences[d][p] \in Nat \ {0}
      BY Parts DEF SyncInv
    <3>2. QED
      BY <2>2, <3>1, SequencesAfter
  <2>5. appliedSequences'[d] = [p \in DOMAIN appliedSequences'[d] |-> appliedSequences'[d][p]]
    BY DEF SyncInv, TypeOK, Sync
  <2>6. IsPartial(appliedSequences'[d], Paths, Nat \ {0})
    BY <2>3, <2>4, <2>5 DEF IsPartial
  <2>7. \A b \in Devices \ {d} : IsPartial(appliedSequences'[b], Paths, Nat \ {0})
    BY SequencesAfter DEF SyncInv, TypeOK
  <2>8. DOMAIN appliedSequences' = Devices
    BY SequencesAfter
  <2>9. QED
    BY <2>6, <2>7, <2>8
<1>4. events' \subseteq SyncEvent /\ \A e \in events' : e.version.digest \in blobs'
  <2>1. ASSUME NEW e \in Published(d)
        PROVE  e \in SyncEvent /\ e.version.digest \in Stored(d)
    <3>1. PICK p \in Uploads(d) :
            e = [path |-> p, version |-> [digest |-> entries[d][p].data, sequence |-> Ticket(d, p)]]
      BY <2>1 DEF Published
    <3>2. p \in Captured(d) /\ p \in Local(d)
      BY Branches
    <3>3. Ticket(d, p) \in Nat \ {0}
      BY <3>2, TicketIsNew DEF SyncInv
    <3>4. QED
      BY <1>1, <3>1, <3>2, <3>3 DEF SyncEvent, SyncVersion, Stored
  <2>2. QED
    BY <2>1 DEF SyncInv, TypeOK, Materializable, Sync
<1>5. conflicts' \subseteq SyncConflict
      /\ \A c \in conflicts' : c.local \in blobs' /\ c.remote \in blobs'
  <2>1. ASSUME NEW c \in Recorded(d)
        PROVE  c \in SyncConflict /\ c.local \in Stored(d) /\ c.remote \in blobs
    <3>1. PICK p \in Conflicting(d) :
            c = [path |-> p, local |-> entries[d][p].data, remote |-> canonical[p].digest]
      BY <2>1 DEF Recorded
    <3>2. p \in Captured(d) /\ p \in Local(d) /\ p \in Remote
      BY Branches
    <3>3. QED
      BY <1>1, <3>1, <3>2, Parts DEF SyncInv, SyncConflict, Stored, Materializable
  <2>2. QED
    BY <2>1 DEF SyncInv, TypeOK, Materializable, Sync
<1>6. blobs' \subseteq Contents
  BY <1>1, Branches DEF SyncInv, TypeOK, Sync, Stored
<1>7. \A p \in Remote' : canonical'[p].digest \in blobs'
  <2>1. \A p \in Remote' : [path |-> p, version |-> canonical'[p]] \in events'
    BY SyncAdvances
  <2>2. QED
    BY <1>4, <2>1
<1>8. TypeOK'
  BY <1>2, <1>3, <1>4, <1>5, <1>6, SyncAdvances DEF SyncInv, TypeOK, Sync
<1>9. QED
  BY <1>4, <1>5, <1>7, <1>8 DEF Materializable

\* After a sync every base it settled is the canonical version it settled on.
LEMMA SyncBases ==
  ASSUME SyncInv, NEW d \in Devices, Sync(d)
  PROVE  BaseIsApplied'
<1> SUFFICES ASSUME NEW b \in Devices, NEW p \in Paths, p \in DOMAIN entries'[b],
                    entries'[b][p].base # None
             PROVE  /\ p \in DOMAIN appliedSequences'[b]
                    /\ [path |-> p, version |-> [digest   |-> entries'[b][p].base,
                                                sequence |-> appliedSequences'[b][p]]] \in events'
  BY DEF BaseIsApplied, Local
<1>1. events \subseteq events'
  BY DEF Sync
<1>2. CASE b # d
  <2>1. entries'[b] = entries[b] /\ appliedSequences'[b] = appliedSequences[b]
    BY <1>2, EntriesAfter, SequencesAfter
  <2>2. QED
    BY <1>1, <2>1 DEF SyncInv, BaseIsApplied, Local
<1>3. CASE b = d /\ p \in Settled(d)
  <2>1. p \in Remote' /\ canonical'[p] \in SyncVersion
        /\ [path |-> p, version |-> canonical'[p]] \in events'
    BY <1>3, CanonicalAfter, SyncAdvances DEF IsPartial, Remote
  <2>2. canonical'[p] = [digest |-> canonical'[p].digest, sequence |-> canonical'[p].sequence]
    BY <2>1 DEF SyncVersion
  <2>3. entries'[d][p].base = canonical'[p].digest
    <3>1. entries'[d][p] = SyncedEntry(d, p)
      BY <1>3, EntriesAfter
    <3>2. CASE p \in Uploads(d)
      <4>1. canonical'[p] = [digest |-> entries[d][p].data, sequence |-> Ticket(d, p)]
        BY <3>2, CanonicalAfter
      <4>2. SyncedEntry(d, p) = [data |-> entries[d][p].data, base |-> entries[d][p].data]
        BY <3>2 DEF SyncedEntry
      <4>3. QED
        BY <3>1, <4>1, <4>2
    <3>3. CASE p \notin Uploads(d)
      <4>1. p \in Downloads(d) \cup Unchanged(d) /\ p \in Remote
        BY <1>3, <3>3, Branches DEF Settled
      <4>2. canonical'[p] = canonical[p]
        BY <3>3, <4>1, CanonicalAfter
      <4>3. QED
        BY <3>1, <3>3, <4>1, <4>2 DEF SyncedEntry
    <3>4. QED
      BY <3>2, <3>3
  <2>4. QED
    BY <1>3, <2>1, <2>2, <2>3, SequencesAfter
<1>4. CASE b = d /\ p \notin Settled(d)
  <2>1. p \in Conflicting(d) /\ p \in Local(d)
    BY <1>4, EntriesAfter, Branches
  <2>2. entries'[d][p] = entries[d][p]
    BY <1>4, <2>1, EntriesAfter DEF SyncedEntry, Settled
  <2>3. p \in DOMAIN appliedSequences[d]
        /\ [path |-> p, version |-> [digest   |-> entries[d][p].base,
                                    sequence |-> appliedSequences[d][p]]] \in events
    BY <1>4, <2>1, <2>2 DEF SyncInv, BaseIsApplied
  <2>4. QED
    BY <1>1, <1>4, <2>2, <2>3, SequencesAfter
<1>5. QED
  BY <1>2, <1>3, <1>4

\* No replica is ahead of the canonical version after a sync.
LEMMA SyncOrdered ==
  ASSUME SyncInv, NEW d \in Devices, Sync(d)
  PROVE  Ordered'
<1>1. \A p \in Remote : /\ p \in Remote' /\ canonical[p].sequence <= canonical'[p].sequence
                        /\ canonical[p].sequence \in Nat
  BY SyncAdvances, CanonicalAfter, Parts DEF SyncInv
<1>2. \A p \in Remote' : canonical'[p].sequence \in Nat
  BY SyncAdvances DEF IsPartial, SyncVersion, Remote
<1>3. ASSUME NEW e \in events'
      PROVE  e.path \in Remote' /\ e.version.sequence <= canonical'[e.path].sequence
  <2>1. CASE e \in events
    <3>1. e.version.sequence \in Nat
      BY <2>1 DEF SyncInv, TypeOK, SyncEvent, SyncVersion
    <3>2. e.path \in Remote /\ e.version.sequence <= canonical[e.path].sequence
      BY <2>1 DEF SyncInv, Ordered
    <3>3. QED
      BY <1>1, <1>2, <3>1, <3>2
  <2>2. CASE e \in Published(d)
    <3>1. PICK p \in Uploads(d) :
            e = [path |-> p, version |-> [digest |-> entries[d][p].data, sequence |-> Ticket(d, p)]]
      BY <2>2 DEF Published
    <3>2. canonical'[p] = [digest |-> entries[d][p].data, sequence |-> Ticket(d, p)]
          /\ p \in Remote'
      BY CanonicalAfter
    <3>3. Ticket(d, p) \in Nat
      BY <1>2, <3>2
    <3>4. QED
      BY <3>1, <3>2, <3>3
  <2>3. QED
    BY <2>1, <2>2 DEF Sync
<1>4. ASSUME NEW b \in Devices, NEW p \in DOMAIN appliedSequences'[b]
      PROVE  p \in Remote' /\ appliedSequences'[b][p] <= canonical'[p].sequence
  <2>1. CASE b = d /\ p \in Settled(d)
    <3>1. p \in Remote' /\ appliedSequences'[b][p] = canonical'[p].sequence
      BY <2>1, SequencesAfter, CanonicalAfter
    <3>2. QED
      BY <1>2, <3>1
  <2>2. CASE ~ (b = d /\ p \in Settled(d))
    <3>1. p \in DOMAIN appliedSequences[b] /\ appliedSequences'[b][p] = appliedSequences[b][p]
      BY <2>2, SequencesAfter
    <3>2. p \in Remote /\ appliedSequences[b][p] <= canonical[p].sequence
      BY <3>1 DEF SyncInv, Ordered
    <3>3. appliedSequences[b][p] \in Nat
      BY <3>1, Parts DEF SyncInv
    <3>4. QED
      BY <1>1, <1>2, <3>1, <3>2, <3>3
  <2>3. QED
    BY <2>1, <2>2
<1>5. QED
  BY <1>3, <1>4, SyncAdvances DEF Ordered

\* The invariant is inductive.
LEMMA NextSynced == SyncInv /\ [Next]_vars => SyncInv'
<1>1. ASSUME SyncInv, NEW d \in Devices, Sync(d)
      PROVE  SyncInv'
  BY <1>1, SyncTyped, SyncBases, SyncOrdered DEF SyncInv
<1>2. SyncInv /\ UNCHANGED vars => SyncInv'
  BY DEF vars, SyncInv, TypeOK, IsPartial, BaseIsApplied, Materializable, Ordered, Local, Remote
<1>3. QED
  BY <1>1, <1>2, WriteSynced, SkipEventSynced, ApplyEventSynced DEF Next

\* In every reachable state each base is a published version with the number its
\* replica keeps, everything named is stored and no replica is ahead of the cloud.
THEOREM SyncInvariance == Spec => []SyncInv
BY InitSynced, NextSynced, PTL DEF Spec

\* The bookkeeping of every replica names published versions.
THEOREM BaseIsAlwaysApplied == Spec => []BaseIsApplied
<1>1. SyncInv => BaseIsApplied
  BY DEF SyncInv
<1>2. QED
  BY <1>1, SyncInvariance, PTL

\* No sync and no notification ever meets a missing blob.
THEOREM AlwaysMaterializable == Spec => []Materializable
<1>1. SyncInv => Materializable
  BY DEF SyncInv
<1>2. QED
  BY <1>1, SyncInvariance, PTL

-----------------------------------------------------------------------------
(* What a step may never do.                                               *)

\* A sync settles a path on the canonical version, which no replica is ahead
\* of, and a notification is applied only when it is newer.
LEMMA StepsForward ==
  SyncInv /\ [Next]_vars =>
    /\ \A d \in Devices, p \in Paths :
         p \in DOMAIN appliedSequences[d] =>
           /\ p \in DOMAIN appliedSequences'[d]
           /\ appliedSequences[d][p] <= appliedSequences'[d][p]
    /\ \A p \in Remote : p \in Remote' /\ canonical[p].sequence <= canonical'[p].sequence
<1> SUFFICES ASSUME SyncInv, [Next]_vars
             PROVE  /\ \A d \in Devices : \A p \in DOMAIN appliedSequences[d] :
                         /\ p \in DOMAIN appliedSequences'[d]
                         /\ appliedSequences[d][p] <= appliedSequences'[d][p]
                    /\ \A p \in Remote : /\ p \in Remote'
                                         /\ canonical[p].sequence <= canonical'[p].sequence
  OBVIOUS
<1>1. /\ \A d \in Devices : \A p \in DOMAIN appliedSequences[d] :
           /\ appliedSequences[d][p] \in Nat
           /\ p \in Remote /\ appliedSequences[d][p] <= canonical[p].sequence
      /\ \A p \in Remote : canonical[p].sequence \in Nat
  BY DEF SyncInv, TypeOK, IsPartial, SyncVersion, Ordered, Remote
<1>2. ASSUME NEW d \in Devices, Sync(d)
      PROVE  /\ \A b \in Devices : \A p \in DOMAIN appliedSequences[b] :
                  /\ p \in DOMAIN appliedSequences'[b]
                  /\ appliedSequences[b][p] <= appliedSequences'[b][p]
             /\ \A p \in Remote : /\ p \in Remote'
                                  /\ canonical[p].sequence <= canonical'[p].sequence
  <2>1. \A p \in Remote : p \in Remote' /\ canonical[p].sequence <= canonical'[p].sequence
    BY <1>2, SyncAdvances, CanonicalAfter
  <2>2. \A p \in Remote' : canonical'[p].sequence \in Nat
    BY <1>2, SyncAdvances DEF IsPartial, SyncVersion, Remote
  <2>3. ASSUME NEW b \in Devices, NEW p \in DOMAIN appliedSequences[b]
        PROVE  /\ p \in DOMAIN appliedSequences'[b]
               /\ appliedSequences[b][p] <= appliedSequences'[b][p]
    <3>1. CASE b = d /\ p \in Settled(d)
      <4>1. p \in DOMAIN appliedSequences'[b] /\ appliedSequences'[b][p] = canonical'[p].sequence
        BY <1>2, <3>1, SequencesAfter
      <4>2. QED
        BY <1>1, <2>1, <2>2, <4>1
    <3>2. CASE ~ (b = d /\ p \in Settled(d))
      <4>1. p \in DOMAIN appliedSequences'[b] /\ appliedSequences'[b][p] = appliedSequences[b][p]
        BY <1>2, <3>2, SequencesAfter
      <4>2. QED
        BY <1>1, <4>1
    <3>3. QED
      BY <3>1, <3>2
  <2>4. QED
    BY <2>1, <2>3
<1>3. ASSUME NEW d \in Devices, NEW e \in events, ApplyEvent(d, e)
      PROVE  \A b \in Devices : \A p \in DOMAIN appliedSequences[b] :
               /\ p \in DOMAIN appliedSequences'[b]
               /\ appliedSequences[b][p] <= appliedSequences'[b][p]
  <2> SUFFICES ASSUME NEW b \in Devices, NEW p \in DOMAIN appliedSequences[b]
               PROVE  /\ p \in DOMAIN appliedSequences'[b]
                      /\ appliedSequences[b][p] <= appliedSequences'[b][p]
    OBVIOUS
  <2>1. CASE b = d /\ p = e.path
    <3>1. e.version.sequence \in Nat /\ ~ (appliedSequences[d][p] >= e.version.sequence)
      BY <1>3, <2>1 DEF SyncInv, TypeOK, SyncEvent, SyncVersion, ApplyEvent, Overtaken
    <3>2. p \in DOMAIN appliedSequences'[d] /\ appliedSequences'[d][p] = e.version.sequence
      BY <1>3, <2>1 DEF SyncInv, TypeOK, ApplyEvent, Put
    <3>3. QED
      BY <1>1, <2>1, <3>1, <3>2
  <2>2. CASE ~ (b = d /\ p = e.path)
    <3>1. p \in DOMAIN appliedSequences'[b] /\ appliedSequences'[b][p] = appliedSequences[b][p]
      BY <1>3, <2>2 DEF SyncInv, TypeOK, ApplyEvent, Put
    <3>2. QED
      BY <1>1, <3>1
  <2>3. QED
    BY <2>1, <2>2
<1>4. CASE \E d \in Devices, p \in Paths : Write(d, p)
  BY <1>1, <1>4 DEF Write, Remote
<1>5. CASE \E d \in Devices, e \in events : SkipEvent(d, e)
  BY <1>1, <1>5 DEF SkipEvent, Remote
<1>6. CASE \E d \in Devices, e \in events : ApplyEvent(d, e)
  <2>1. PICK d \in Devices, e \in events : ApplyEvent(d, e)
    BY <1>6
  <2>2. canonical' = canonical
    BY <2>1 DEF ApplyEvent
  <2>3. \A p \in Remote : p \in Remote' /\ canonical[p].sequence <= canonical'[p].sequence
    BY <1>1, <2>2 DEF Remote
  <2>4. QED
    BY <1>3, <2>1, <2>3
<1>7. CASE UNCHANGED vars
  BY <1>1, <1>7 DEF vars, Remote
<1>8. QED
  BY <1>2, <1>4, <1>5, <1>6, <1>7 DEF Next

\* No notification takes a replica back and no sync takes a path back.
THEOREM NeverGoesBackwards == Spec => NeverBackwards
BY SyncInvariance, StepsForward, PTL DEF Spec, NeverBackwards

\* Bytes are replaced where nothing was published only by the write of a user:
\* a download and a notification both ask that the local bytes be their base.
LEMMA CleanIsPublished ==
  ASSUME SyncInv, NEW d \in Devices, NEW p \in Local(d), Clean(entries[d][p])
  PROVE  \E e \in events : e.path = p /\ e.version.digest = entries[d][p].data
<1>1. p \in Paths /\ entries[d][p].data \in Contents
  BY Parts DEF SyncInv
<1>2. entries[d][p].base = entries[d][p].data /\ entries[d][p].base # None
  BY <1>1, SyncAssumption DEF Clean
<1>3. [path |-> p, version |-> [digest   |-> entries[d][p].base,
                                sequence |-> appliedSequences[d][p]]] \in events
  BY <1>1, <1>2 DEF SyncInv, BaseIsApplied
<1>4. QED
  BY <1>2, <1>3

\* What a sync or a notification replaces was published at its path.
LEMMA StepsKeepEdits ==
  SyncInv /\ [Next]_vars =>
    \A d \in Devices, p \in Paths :
      (p \in Local(d) /\ writes' = writes /\ entries'[d][p].data # entries[d][p].data) =>
        \E e \in events : e.path = p /\ e.version.digest = entries[d][p].data
<1> SUFFICES ASSUME SyncInv, [Next]_vars, NEW d \in Devices, NEW p \in Local(d),
                    writes' = writes, entries'[d][p].data # entries[d][p].data
             PROVE  \E e \in events : e.path = p /\ e.version.digest = entries[d][p].data
  OBVIOUS
<1>1. CASE Sync(d)
  <2>1. p \in Downloads(d)
    <3>1. entries'[d][p] = SyncedEntry(d, p)
      BY <1>1, EntriesAfter, Branches
    <3>2. p \notin Unchanged(d)
      BY <3>1 DEF SyncedEntry, Unchanged, Uploads, Differing, Local, Shared
    <3>3. QED
      BY <3>1, <3>2 DEF SyncedEntry
  <2>2. Clean(entries[d][p])
    BY <2>1 DEF Downloads
  <2>3. QED
    BY <2>2, CleanIsPublished
<1>2. ASSUME NEW b \in Devices, Sync(b), b # d
      PROVE  FALSE
  BY <1>2, EntriesAfter
<1>3. ASSUME NEW e \in events, ApplyEvent(d, e)
      PROVE  \E f \in events : f.path = p /\ f.version.digest = entries[d][p].data
  <2>1. p = e.path
    BY <1>3 DEF SyncInv, TypeOK, ApplyEvent, Put, Local
  <2>2. Clean(entries[d][p])
    BY <1>3, <2>1 DEF ApplyEvent, CanDownload
  <2>3. QED
    BY <2>2, CleanIsPublished
<1>4. ASSUME NEW b \in Devices, NEW e \in events, ApplyEvent(b, e), b # d
      PROVE  FALSE
  BY <1>4 DEF SyncInv, TypeOK, ApplyEvent
<1>5. ASSUME NEW b \in Devices, NEW q \in Paths, Write(b, q)
      PROVE  FALSE
  BY <1>5 DEF SyncInv, TypeOK, Write
<1>6. ASSUME NEW b \in Devices, NEW e \in events, SkipEvent(b, e)
      PROVE  FALSE
  BY <1>6 DEF SkipEvent
<1>7. CASE UNCHANGED vars
  BY <1>7 DEF vars
<1>8. QED
  BY <1>1, <1>2, <1>3, <1>4, <1>5, <1>6, <1>7 DEF Next

\* An unpublished edit is never lost, conflicts and late notifications included.
THEOREM EditsAlwaysSurvive == Spec => EditsSurvive
BY SyncInvariance, StepsKeepEdits, PTL DEF Spec, EditsSurvive
===============================================================================
