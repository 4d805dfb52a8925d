-------------------------- MODULE HistoryTransferProofs --------------------------
(***************************************************************************)
(* Safety of the Local Version Store and of the transfer of a history, for *)
(* every set of paths and contents and every bound: whatever dies, what a  *)
(* projection lists is installed with its bytes, the journal tells of it   *)
(* once, a save replaces only bytes that are a Version, a history has one  *)
(* owner, and a store takes nothing back.                                  *)
(***************************************************************************)
EXTENDS HistoryTransfer, SequenceTheorems, FiniteSetTheorems, TLAPS

-----------------------------------------------------------------------------
(* The invariant of the two stores.                                        *)

\* Every version that is listed is a version of o among vs and has its bytes in bs.
ListedFor(versions, o, vs, bs) ==
  \A i \in DOMAIN versions : \E v \in vs : v.id = versions[i] /\ v.object = o /\ v.content \in bs
Listed(r, vs, bs) == ListedFor(r.versions, r.id, vs, bs)
Whole(r, vs, bs) == Listed(r, vs, bs) /\ Contains(r.versions, r.current)

\* What a durable intent needs to be replayed: its projection lists versions
\* that are installed or come with it, and so is what a save replaces.
Sound(t, vs, bs) ==
  /\ Whole(t.object, vs \cup t.versions, bs)
  /\ t.kind = "save" /\ Publishes(t) =>
       \E v \in vs \cup t.versions : v.object = t.object.id /\ v.content = t.publish.prior

Intent(st) == IF pending[st] = None THEN {} ELSE {pending[st]}
\* The records and versions of a store, those of its intent included.
Records(st) == objects[st] \cup {t.object : t \in Intent(st)}
Versions(st) == installed[st] \cup UNION {t.versions : t \in Intent(st)}

StoresTyped ==
  /\ objects \in [Stores -> SUBSET ObjectRecord]
  /\ installed \in [Stores -> SUBSET VersionRecord]
  /\ blobs \in [Stores -> SUBSET Contents]
  /\ pending \in [Stores -> PendingTransaction \cup {None}]
  /\ minted \in Nat

\* Identifiers are minted once, for an Object as for a Version.
Minted ==
  /\ \A st \in Stores : \A r \in Records(st) : r.id <= minted
  /\ \A st \in Stores : \A v \in Versions(st) : v.id <= minted
  /\ \A st, su \in Stores : \A v \in Versions(st), w \in Versions(su) : v.id = w.id => v = w

StoreInv ==
  /\ StoresTyped
  /\ \A st \in Stores : \A r \in objects[st] : Whole(r, installed[st], blobs[st])
  /\ \A st \in Stores : \A t \in Intent(st) : Sound(t, installed[st], blobs[st])
  /\ Minted

-----------------------------------------------------------------------------
(* The invariant of the transfer.                                          *)

\* An Object that both stores know is the one the plan hands over, and the
\* parent is denied it.
PlanInv ==
  /\ plan = None => outgoing = {}
  /\ plan # None =>
       /\ plan \in TransferPlan /\ ValidPlan
       /\ plan.versions \subseteq installed["parent"]
       /\ \E q \in objects["parent"] : q.id = O
       /\ plan.state = "released" => O \in outgoing
       /\ O \in outgoing => staged = "whole" \/ Holds("nested", plan.versions)

OwnerInv ==
  \A r \in Records("nested"), q \in Records("parent") :
    r.id = q.id => plan # None /\ r.id = O /\ O \in outgoing

-----------------------------------------------------------------------------
(* The invariant of the call that holds the lock, and of the files.        *)

EditArg == [expected: Contents, content: Contents]
StoreCall ==
  [op: {"open", "capture", "save", "relocate", "restore"}, store: Stores, path: Paths \cup {None},
   arg: {None} \cup EditArg \cup [object: Nat] \cup [version: Nat],
   seen: FileRecord \cup {None}, own: BOOLEAN,
   step: {"work", "commit", "check", "install", "publish", "rename", "project", "identity", "append", "retire"}]
TransferSteps ==
  {"approved", "applying", "verified_destination", "receipt", "released", "incoming", "versions", "active", "cleanup"}
TransferCall == [op: {"transfer"}, step: TransferSteps, store: {"nested"}]

HandedSteps == {"receipt", "released", "incoming", "versions", "active", "cleanup"}
ReplaySteps == {"check", "install", "publish", "rename", "project", "identity", "append", "retire"}
InstalledSteps == {"publish", "rename", "project"}

TransferInv(c) ==
  /\ plan # None
  /\ c.step \in HandedSteps => O \in outgoing
  /\ c.step = "versions" => Holds("nested", plan.versions)

StoreCallInv(c) ==
  /\ c.op # "open" => c.path \in Paths
  /\ c.op = "save" => c.arg \in EditArg
  /\ c.step = "commit" =>
       /\ c.op \in {"capture", "save"} /\ c.seen \in FileRecord /\ c.seen.content \in blobs[c.store]
       /\ c.op = "save" => c.arg.content \in blobs[c.store]
  /\ c.step \in ReplaySteps => pending[c.store] # None
  /\ c.step \in InstalledSteps => pending[c.store].versions \subseteq installed[c.store]
  /\ c.step \in {"publish", "rename"} => Publishes(pending[c.store])
  /\ c.step = "rename" =>
       /\ pending[c.store].publish.content \in blobs[c.store]
       /\ pending[c.store].kind = "save" => c.seen.content = pending[c.store].publish.prior

CallInv ==
  call # None =>
    \/ call \in TransferCall /\ TransferInv(call)
    \/ call \in StoreCall /\ StoreCallInv(call)

FilesTyped == file \in [Paths -> FileRecord \cup {None}] /\ inodes \in Nat /\ edits \in Nat

TransferSafety == StoreInv /\ PlanInv /\ OwnerInv /\ CallInv /\ FilesTyped

-----------------------------------------------------------------------------
(* The invariant of the journal.                                           *)

LineRecord ==
  [transaction: Nat, object: Nat, what: {"tracked", "captured", "relocated", "restored"}, version: Nat \cup {None}]

\* A version captured is told of: by a line of the journal, or by an intent to be.
ToldOf(st, v) == \E i \in DOMAIN journal[st] : journal[st][i].what = "captured" /\ journal[st][i].version = v
Tells(t, v) == \E i \in DOMAIN t.events : t.events[i].what = "captured" /\ t.events[i].version = v
HandedOver(v) == plan # None /\ \E w \in plan.versions : w.id = v
Accounted(st, v) == HandedOver(v) \/ ToldOf(st, v) \/ \E t \in Intent(st) : Tells(t, v)

TellingInv(st) ==
  /\ IsInjective(journal[st])
  /\ \A t \in Intent(st) : IsInjective(t.events)
  /\ \A r \in Records(st) : \A v \in ToSet(r.versions) : Accounted(st, v)

AllTold(st, t) == \A i \in DOMAIN t.events : Contains(journal[st], EventsOf(t)[i])

\* Nothing is pending where a call does its own work, and its intent has been
\* told of when it is retired.
RetiringInv ==
  call # None /\ call.op # "transfer" =>
    /\ call.step \in {"work", "commit"} => pending[call.store] = None
    /\ call.step = "retire" => AllTold(call.store, pending[call.store])

JournalInv ==
  /\ journal \in [Stores -> Seq(LineRecord)]
  /\ \A st \in Stores : TellingInv(st)
  /\ RetiringInv

\* An intent tells of every version its Object did not list before, once.
Intended(t) ==
  /\ IsInjective(t.events)
  /\ \A v \in ToSet(t.object.versions) :
       (\E r \in objects[Here] : v \in ToSet(r.versions)) \/ Tells(t, v)
\* It is of a new Object, or adds versions to the record of one that was not handed on.
Lengthens(t) ==
  \/ minted < t.object.id
  \/ \E r \in objects[Here] :
       /\ r.id = t.object.id /\ IsPrefix(r.versions, t.object.versions)
       /\ (call.step = "commit" /\ r.path = call.path) \/ (Here = "parent" => r.id \notin outgoing)
CommitsTold ==
  \/ call' = None /\ UNCHANGED pending
  \/ \E t \in PendingTransaction, ids \in Nat : Commit(t, ids) /\ Intended(t) /\ Lengthens(t)

-----------------------------------------------------------------------------
(* Lemmas about the records.                                               *)

\* Sequences that agree as far as the shorter goes.
LEMMA PrefixIs ==
  ASSUME NEW A, NEW s \in Seq(A), NEW t \in Seq(A), Len(s) <= Len(t), \A i \in 1 .. Len(s) : t[i] = s[i]
  PROVE  IsPrefix(s, t)
<1>1. SubSeq(s, 1, Len(s)) = s
  OBVIOUS
<1>2. SubSeq(t, 1, Len(s)) = s
  OBVIOUS
<1> QED BY <1>1, <1>2 DEF IsPrefix

\* A sequence begins what it is joined to the front of, and itself.
LEMMA PrefixJoined ==
  ASSUME NEW A, NEW s \in Seq(A), NEW t \in Seq(A)
  PROVE  IsPrefix(s, s \o t) /\ IsPrefix(s, s)
<1>1. s \o t \in Seq(A) /\ Len(s) <= Len(s \o t) /\ \A i \in 1 .. Len(s) : (s \o t)[i] = s[i]
  OBVIOUS
<1>2. Len(s) <= Len(s) /\ \A i \in 1 .. Len(s) : s[i] = s[i]
  OBVIOUS
<1> QED BY <1>1, <1>2, PrefixIs

\* More versions and more bytes leave a whole record whole.
LEMMA WholeGrows ==
  ASSUME NEW r, NEW vs, NEW ws, NEW bs, NEW cs, Whole(r, vs, bs), vs \subseteq ws, bs \subseteq cs
  PROVE  Whole(r, ws, cs)
BY DEF Whole, Listed, ListedFor

\* More versions and more bytes leave a sound intent sound.
LEMMA SoundGrows ==
  ASSUME NEW t, NEW vs, NEW ws, NEW bs, NEW cs, Sound(t, vs, bs), vs \subseteq ws, bs \subseteq cs
  PROVE  Sound(t, ws, cs)
<1>1. Whole(t.object, ws \cup t.versions, cs)
  BY WholeGrows DEF Sound
<1>2. QED
  BY <1>1 DEF Sound

\* Installing what a store already knows and adding bytes keeps the stores' invariant.
LEMMA StoresGrow ==
  ASSUME StoreInv,
         installed' \in [Stores -> SUBSET VersionRecord], blobs' \in [Stores -> SUBSET Contents],
         \A st \in Stores : installed[st] \subseteq installed'[st] /\ blobs[st] \subseteq blobs'[st],
         \A st \in Stores : \A v \in installed'[st] : \E su \in Stores : v \in Versions(su),
         UNCHANGED <<objects, pending, minted>>
  PROVE  StoreInv'
<1>1. StoresTyped'
  BY DEF StoreInv, StoresTyped
<1>2. \A st \in Stores : \A r \in objects'[st] : Whole(r, installed'[st], blobs'[st])
  BY WholeGrows DEF StoreInv
<1>3. \A st \in Stores : \A t \in Intent(st)' : Sound(t, installed'[st], blobs'[st])
  BY SoundGrows DEF StoreInv, Intent
<1>4. \A st \in Stores : Records(st)' = Records(st)
  BY DEF Records, Intent
<1>5. \A st \in Stores : \A v \in Versions(st)' : \E su \in Stores : v \in Versions(su)
  BY DEF Versions, Intent
<1>6. Minted'
  <2>1. \A st \in Stores : \A r \in Records(st)' : r.id <= minted'
    BY <1>4 DEF StoreInv, Minted
  <2>2. \A st \in Stores : \A v \in Versions(st)' : v.id <= minted'
    BY <1>5 DEF StoreInv, Minted
  <2>3. \A st, su \in Stores : \A v \in Versions(st)', w \in Versions(su)' : v.id = w.id => v = w
    BY <1>5 DEF StoreInv, Minted
  <2>4. QED
    BY <2>1, <2>2, <2>3 DEF Minted
<1>7. QED
  BY <1>1, <1>2, <1>3, <1>6 DEF StoreInv

\* What changes nothing of the stores keeps their invariant.
LEMMA StoresKept ==
  ASSUME StoreInv, UNCHANGED <<objects, installed, blobs, pending, minted>>
  PROVE  StoreInv'
<1>1. \A st \in Stores : installed[st] \subseteq installed'[st] /\ blobs[st] \subseteq blobs'[st]
  OBVIOUS
<1>2. \A st \in Stores : \A v \in installed'[st] : \E su \in Stores : v \in Versions(su)
  BY DEF Versions
<1>3. installed' \in [Stores -> SUBSET VersionRecord] /\ blobs' \in [Stores -> SUBSET Contents]
  BY DEF StoreInv, StoresTyped
<1>4. QED
  BY <1>1, <1>2, <1>3, StoresGrow

-----------------------------------------------------------------------------
(* Intents.                                                                *)

\* The call of a step of the store is a store's call.
LEMMA StoreCalls ==
  ASSUME CallInv, call # None, call.op # "transfer"
  PROVE  call \in StoreCall /\ StoreCallInv(call) /\ Here \in Stores
BY DEF CallInv, TransferCall, StoreCall, Here

\* A durable intent that lists what is installed or comes with it, under fresh
\* identifiers, keeps the stores' invariant and nobody's ownership changes.
LEMMA CommitKeeps ==
  ASSUME StoreInv, OwnerInv, CallInv, call # None, call.op # "transfer",
         NEW t \in PendingTransaction, NEW ids \in Nat, Commit(t, ids),
         Listed(t.object, installed[Here] \cup t.versions, blobs[Here]),
         t.kind = "save" /\ Publishes(t) =>
           \E v \in installed[Here] \cup t.versions : v.object = t.object.id /\ v.content = t.publish.prior,
         \A v \in t.versions : minted < v.id /\ v.id <= minted + ids,
         \A v, w \in t.versions : v.id = w.id => v = w,
         \/ \E r \in objects[Here] : r.id = t.object.id
         \/ minted < t.object.id /\ t.object.id <= minted + ids,
         UNCHANGED <<objects, installed, blobs, plan, outgoing, staged>>
  PROVE  StoreInv' /\ OwnerInv' /\ CallInv'
<1>0. call \in StoreCall /\ StoreCallInv(call) /\ Here \in Stores
  BY StoreCalls
<1>s. PICK s \in Stores : s = Here
  BY <1>0
<1>1. /\ pending' = [pending EXCEPT ![s] = t] /\ minted' = minted + ids
      /\ call' = [call EXCEPT !.step = "check", !.own = TRUE] /\ ValidTransaction(t)
  BY <1>s DEF Commit
<1>2. t # None
  BY NoneIsNoRecord
<1>3. StoresTyped'
  BY <1>s, <1>1 DEF StoreInv, StoresTyped
<1>p. /\ pending'[s] = t
      /\ \A st \in Stores \ {s} : pending'[st] = pending[st]
  BY <1>s, <1>1 DEF StoreInv, StoresTyped
<1>4. /\ Intent(s)' = {t}
      /\ \A st \in Stores \ {s} : Intent(st)' = Intent(st)
  BY <1>p, <1>2 DEF Intent
<1>5. \A st \in Stores : \A r \in objects'[st] : Whole(r, installed'[st], blobs'[st])
  BY DEF StoreInv
<1>6. \A st \in Stores : \A u \in Intent(st)' : Sound(u, installed'[st], blobs'[st])
  <2>1. Sound(t, installed[s], blobs[s])
    BY <1>s, <1>1 DEF Sound, Whole, ValidTransaction
  <2>2. QED
    BY <2>1, <1>4 DEF StoreInv
<1>7. /\ Records(s)' = objects[s] \cup {t.object}
      /\ \A st \in Stores \ {s} : Records(st)' = Records(st)
  BY <1>4 DEF Records
<1>8. /\ Versions(s)' = installed[s] \cup t.versions
      /\ \A st \in Stores \ {s} : Versions(st)' = Versions(st)
  BY <1>4 DEF Versions
<1>9. /\ \A st \in Stores : \A r \in Records(st) : r.id \in Nat
      /\ \A st \in Stores : \A v \in Versions(st) : v.id \in Nat
      /\ t.object.id \in Nat /\ \A v \in t.versions : v.id \in Nat
      /\ minted \in Nat
  BY DEF StoreInv, StoresTyped, Records, Versions, Intent, PendingTransaction, ObjectRecord, VersionRecord
<1>r. \A st \in Stores : objects[st] \subseteq Records(st) /\ installed[st] \subseteq Versions(st)
  BY DEF Records, Versions
<1>m. /\ \A st \in Stores : \A r \in Records(st) : r.id <= minted
      /\ \A st \in Stores : \A v \in Versions(st) : v.id <= minted
      /\ \A st, su \in Stores : \A v \in Versions(st), w \in Versions(su) : v.id = w.id => v = w
  BY DEF StoreInv, Minted
<1>10. Minted'
  <2>1. \A st \in Stores : \A r \in Records(st)' : r.id <= minted'
    <3>1. t.object.id <= minted + ids
      BY <1>s, <1>r, <1>m, <1>9
    <3>2. \A st \in Stores : \A r \in Records(st) : r.id <= minted + ids
      BY <1>m, <1>9
    <3>3. QED
      BY <3>1, <3>2, <1>1, <1>7, <1>r
  <2>2. \A st \in Stores : \A v \in Versions(st)' : v.id <= minted'
    <3>1. \A st \in Stores : \A v \in Versions(st) : v.id <= minted + ids
      BY <1>m, <1>9
    <3>2. QED
      BY <3>1, <1>1, <1>8, <1>r
  <2>3. \A st, su \in Stores : \A v \in Versions(st)', w \in Versions(su)' : v.id = w.id => v = w
    <3>1. \A su \in Stores : \A v \in t.versions, w \in Versions(su) : v.id # w.id
      BY <1>9, <1>m
    <3>2. \A su \in Stores : \A v \in Versions(su)' : v \in t.versions \/ v \in Versions(su)
      BY <1>8, <1>r
    <3>3. QED
      BY <3>1, <3>2, <1>m
  <2>4. QED
    BY <2>1, <2>2, <2>3 DEF Minted
<1>11. OwnerInv'
  <2>1. \A st \in Stores : \A r \in Records(st)' :
          \/ \E q \in Records(st) : q.id = r.id
          \/ r.id > minted /\ r.id \in Nat /\ st = s
    BY <1>s, <1>7, <1>9, <1>r
  <2>2. \A r \in Records("nested")', q \in Records("parent")' :
          r.id = q.id => \E a \in Records("nested"), b \in Records("parent") : a.id = r.id /\ b.id = q.id
    <3> SUFFICES ASSUME NEW r \in Records("nested")', NEW q \in Records("parent")', r.id = q.id
                 PROVE  \E a \in Records("nested"), b \in Records("parent") : a.id = r.id /\ b.id = q.id
      OBVIOUS
    <3>1. "nested" \in Stores /\ "parent" \in Stores
      BY DEF Stores
    <3>2. \A st \in Stores : \A a \in Records(st) : ~ a.id > minted
      BY <1>m, <1>9
    <3>3. QED
      BY <3>1, <3>2, <2>1
  <2>3. QED
    BY <2>2 DEF OwnerInv, O
<1>12. CallInv'
  <2>1. call' \in StoreCall
    BY <1>0, <1>1 DEF StoreCall
  <2>2. pending'[call'.store] = t
    BY <1>0, <1>s, <1>p, <1>1 DEF StoreCall, Here
  <2>3. call'.step = "check" /\ call'.op = call.op /\ call'.path = call.path /\ call'.arg = call.arg
    BY <1>0, <1>1 DEF StoreCall
  <2>4. StoreCallInv(call)'
    BY <1>0, <1>2, <2>2, <2>3 DEF StoreCallInv, InstalledSteps
  <2>5. QED
    BY <2>1, <2>4 DEF CallInv
<1>13. QED
  BY <1>3, <1>5, <1>6, <1>10, <1>11, <1>12 DEF StoreInv

\* A list with one more version is listed by what listed it and that version.
LEMMA Extended ==
  ASSUME NEW vs, NEW bs, NEW o, NEW s \in Seq(Nat), ListedFor(s, o, vs, bs),
         NEW v, v.id \in Nat, v.object = o, v.content \in bs
  PROVE  /\ Append(s, v.id) \in Seq(Nat)
         /\ ListedFor(Append(s, v.id), o, vs \cup {v}, bs)
<1>1. /\ Append(s, v.id) \in Seq(Nat) /\ DOMAIN Append(s, v.id) = 1 .. Len(s) + 1
      /\ \A i \in DOMAIN s : Append(s, v.id)[i] = s[i]
      /\ Append(s, v.id)[Len(s) + 1] = v.id
  OBVIOUS
<1>2. \A i \in DOMAIN Append(s, v.id) : i \in DOMAIN s \/ i = Len(s) + 1
  BY <1>1
<1>3. QED
  BY <1>1, <1>2 DEF ListedFor

\* Steps that change no record change no owner, and a call that ends holds nothing.
LEMMA OwnersKept ==
  ASSUME OwnerInv, UNCHANGED <<objects, pending, plan, outgoing>>
  PROVE  OwnerInv'
BY DEF OwnerInv, Records, Intent, O

\* With no call there is nothing for it to rely on.
LEMMA CallEnds == ASSUME call' = None PROVE CallInv'
BY DEF CallInv

\* No publication, and publication of bytes at a path, are publications.
LEMMA PublicationTyped ==
  /\ NoPublication \in Publication
  /\ \A p \in Paths, prior \in Contents \cup {None}, c \in Contents, ino \in Nat \cup {None} :
       [path |-> p, prior |-> prior, content |-> c, ino |-> ino] \in Publication
BY DEF NoPublication, Publication

\* The events of a capture or a save are all different, and each is told.
LEMMA ToldInOrder ==
  ASSUME NEW first \in {<<>>, <<Event("tracked", None)>>}, NEW told \in Seq(EventRecord), IsInjective(told),
         \A i \in DOMAIN told : told[i].what = "captured"
  PROVE  /\ IsInjective(first \o told)
         /\ \A i \in DOMAIN told : \E k \in DOMAIN (first \o told) : (first \o told)[k] = told[i]
<1>0. DOMAIN told = 1 .. Len(told) /\ Len(told) \in Nat
  OBVIOUS
<1>1. CASE first = <<>>
  <2>1. first \o told = told
    BY <1>1
  <2>2. QED
    BY <2>1
<1>2. CASE first = <<Event("tracked", None)>>
  <2>1. PICK e : e = Event("tracked", None)
    OBVIOUS
  <2>2. e \in EventRecord /\ e.what = "tracked"
    BY <2>1 DEF Event, EventRecord
  <2>3. PICK l : l = <<e>> \o told
    OBVIOUS
  <2>4. l \in Seq(EventRecord) /\ DOMAIN l = 1 .. Len(told) + 1 /\ l[1] = e
    BY <2>2, <2>3
  <2>5. \A i \in 1 .. Len(told) : l[i + 1] = told[i]
    BY <2>2, <2>3
  <2>6. \A i \in 2 .. Len(told) + 1 : i - 1 \in 1 .. Len(told) /\ l[i] = told[i - 1]
    <3> TAKE i \in 2 .. Len(told) + 1
    <3>1. i - 1 \in 1 .. Len(told) /\ (i - 1) + 1 = i
      BY <1>0
    <3>2. QED
      BY <2>5, <3>1
  <2>7. \A i \in 2 .. Len(told) + 1 : l[i] # e
    BY <1>0, <2>2, <2>6
  <2>8. IsInjective(l)
    <3> SUFFICES ASSUME NEW i \in 1 .. Len(told) + 1, NEW j \in 1 .. Len(told) + 1, l[i] = l[j] PROVE i = j
      BY <2>4 DEF IsInjective
    <3>1. CASE i = 1 \/ j = 1
      BY <1>0, <2>4, <2>7, <3>1
    <3>2. CASE i # 1 /\ j # 1
      <4>1. i \in 2 .. Len(told) + 1 /\ j \in 2 .. Len(told) + 1
        BY <1>0, <3>2
      <4>2. told[i - 1] = told[j - 1] /\ i - 1 \in DOMAIN told /\ j - 1 \in DOMAIN told
        BY <1>0, <2>6, <4>1
      <4>3. i - 1 = j - 1
        BY <4>2 DEF IsInjective
      <4>4. QED
        BY <1>0, <4>3
    <3>3. QED
      BY <3>1, <3>2
  <2>9. \A i \in DOMAIN told : i + 1 \in DOMAIN l /\ l[i + 1] = told[i]
    BY <1>0, <2>4, <2>5
  <2>10. first \o told = l
    BY <1>2, <2>1, <2>3
  <2>11. QED
    BY <2>8, <2>9, <2>10
<1>3. QED
  BY <1>1, <1>2

\* A capture that commits lists what its Object listed and the version of the
\* bytes it hashed.
LEMMA CaptureCommits ==
  ASSUME StoreInv, OwnerInv, CallInv, CommitCapture, UNCHANGED <<plan, outgoing, staged>>
  PROVE  StoreInv' /\ OwnerInv' /\ CallInv' /\ CommitsTold
<1>0. /\ call # None /\ call.op # "transfer" /\ call.step = "commit" /\ call.op = "capture"
      /\ UNCHANGED <<objects, installed, blobs>>
  BY DEF CommitCapture, At
<1>1. call \in StoreCall /\ StoreCallInv(call) /\ Here \in Stores
  BY <1>0, StoreCalls
<1>s. PICK s \in Stores : s = Here
  BY <1>1
<1>p. PICK p \in Paths : p = call.path
  BY <1>0, <1>1 DEF StoreCallInv
<1>c. PICK c \in blobs[s] : c = call.seen.content
  BY <1>0, <1>1, <1>s DEF StoreCallInv, Here
<1>n. PICK n \in Nat : n = minted
  BY DEF StoreInv, StoresTyped
<1>T. c \in Contents
  BY <1>s, <1>c DEF StoreInv, StoresTyped
<1>2. CASE Tracked(s, p)
  <2>1. PICK e : e = Existing(s, p)
    OBVIOUS
  <2>2. e \in objects[s]
    BY <1>2, <2>1 DEF Existing, Tracked, Claimants
  <2>3. e \in ObjectRecord /\ Whole(e, installed[s], blobs[s])
    BY <2>2, <1>s DEF StoreInv, StoresTyped
  <2>4. CASE Held(e)
    <3>1. call' = None /\ UNCHANGED <<pending, minted>>
      BY <1>2, <2>1, <2>4, <1>s, <1>p DEF CommitCapture, Fail
    <3>2. QED
      BY <3>1, <1>0, StoresKept, OwnersKept, CallEnds DEF CommitsTold
  <2>5. CASE ~ Held(e)
    <3>1. PICK v : v = [id |-> n + 2, object |-> e.id, content |-> c]
      OBVIOUS
    <3>2. PICK r : r = [e EXCEPT !.current = v.id, !.versions = Append(@, v.id)]
      OBVIOUS
    <3>3. PICK t : t = Transaction("capture", r, {v}, NoPublication, <<>> \o <<Event("captured", v.id)>>)
      OBVIOUS
    <3>4. Commit(t, 2)
      BY <1>2, <2>1, <2>5, <1>s, <1>p, <1>c, <1>n, <3>1, <3>2, <3>3 DEF CommitCapture, NewVersion
    <3>5. v \in VersionRecord /\ v.id = n + 2 /\ v.object = e.id /\ v.content = c
      BY <2>3, <3>1, <1>T DEF VersionRecord, ObjectRecord
    <3>6. r \in ObjectRecord /\ r.id = e.id /\ Listed(r, installed[s] \cup {v}, blobs[s])
      <4>1. e.versions \in Seq(Nat) /\ ListedFor(e.versions, e.id, installed[s], blobs[s])
        BY <2>3 DEF ObjectRecord, Whole, Listed
      <4>2. PICK vs, bs, o : vs = installed[s] /\ bs = blobs[s] /\ o = e.id
        OBVIOUS
      <4>3. Append(e.versions, v.id) \in Seq(Nat) /\ ListedFor(Append(e.versions, v.id), o, vs \cup {v}, bs)
        <5>1. ListedFor(e.versions, o, vs, bs) /\ v.id \in Nat /\ v.object = o /\ v.content \in bs
          BY <4>1, <4>2, <3>5, <1>c
        <5>2. QED
          BY <4>1, <5>1, Extended
      <4>4. r \in ObjectRecord /\ r.id = e.id /\ r.versions = Append(e.versions, v.id)
        <5>1. v.id \in Nat
          BY <3>5
        <5>2. r \in [id: Nat, path: Paths \cup {None}, current: Nat, versions: Seq(Nat)]
          BY <2>3, <3>2, <4>3, <5>1 DEF ObjectRecord
        <5>3. QED
          BY <2>3, <3>2, <5>2 DEF ObjectRecord
      <4>5. QED
        BY <4>2, <4>3, <4>4 DEF Listed
    <3>7. t \in PendingTransaction /\ t.kind = "capture" /\ t.object = r /\ t.versions = {v}
      <4>1. <<>> \o <<Event("captured", v.id)>> \in Seq(EventRecord)
        <5>1. Event("captured", v.id) \in EventRecord
          BY <3>5 DEF Event, EventRecord
        <5>2. QED
          BY <5>1
      <4>2. QED
        BY <3>3, <3>5, <3>6, <4>1, PublicationTyped DEF Transaction, PendingTransaction, StoreInv, StoresTyped
    <3>8. \A w \in t.versions : minted < w.id /\ w.id <= minted + 2
      BY <3>5, <3>7, <1>n
    <3>9. Intended(t)
      <4>1. PICK told : told = <<Event("captured", v.id)>>
        OBVIOUS
      <4>2. told \in Seq(EventRecord) /\ IsInjective(told) /\ DOMAIN told = {1} /\ told[1] = Event("captured", v.id)
        BY <4>1, <3>5 DEF Event, EventRecord, IsInjective
      <4>3. t.events = <<>> \o told
        BY <3>3, <4>1 DEF Transaction
      <4>4. IsInjective(t.events) /\ Tells(t, v.id)
        BY <4>2, <4>3, ToldInOrder DEF Tells, Event
      <4>5. \A x \in ToSet(r.versions) : x = v.id \/ x \in ToSet(e.versions)
        <5>1. e.versions \in Seq(Nat) /\ v.id \in Nat /\ r.versions = Append(e.versions, v.id)
          BY <2>3, <3>2, <3>5 DEF ObjectRecord
        <5>2. QED
          BY <5>1 DEF ToSet
      <4>6. QED
        BY <1>s, <2>2, <3>7, <4>4, <4>5 DEF Intended
    <3>10. StoreInv' /\ OwnerInv' /\ CallInv'
      BY <1>0, <1>s, <2>2, <3>4, <3>6, <3>7, <3>8, CommitKeeps
    <3>11. Lengthens(t)
      <4>1. e.path = call.path
        BY <1>2, <1>p, <2>1 DEF Existing, Tracked, Claimants
      <4>2. e.versions \in Seq(Nat) /\ <<v.id>> \in Seq(Nat) /\ r.versions = e.versions \o <<v.id>>
        <5>1. e.versions \in Seq(Nat) /\ v.id \in Nat
          BY <2>3, <3>5 DEF ObjectRecord
        <5>2. r.versions = Append(e.versions, v.id)
          BY <2>3, <3>2 DEF ObjectRecord
        <5>3. e.versions \o <<v.id>> = Append(e.versions, v.id) /\ <<v.id>> \in Seq(Nat)
          BY <5>1
        <5>4. QED
          BY <5>1, <5>2, <5>3
      <4>3. IsPrefix(e.versions, r.versions)
        BY <4>2, PrefixJoined
      <4>4. QED
        BY <1>0, <1>s, <2>2, <3>6, <3>7, <4>1, <4>3 DEF Lengthens
    <3>12. QED
      BY <3>4, <3>7, <3>9, <3>10, <3>11 DEF CommitsTold
  <2>6. QED
    BY <2>4, <2>5
<1>3. CASE ~ Tracked(s, p)
  <2>1. PICK v : v = [id |-> n + 2, object |-> n + 3, content |-> c]
    OBVIOUS
  <2>2. PICK r : r = [id |-> n + 3, path |-> p, current |-> v.id, versions |-> <<v.id>>]
    OBVIOUS
  <2>3. PICK t : t = Transaction("capture", r, {v}, NoPublication,
                       <<Event("tracked", None)>> \o <<Event("captured", v.id)>>)
    OBVIOUS
  <2>4. Commit(t, 3)
    BY <1>3, <1>s, <1>p, <1>c, <1>n, <2>1, <2>2, <2>3 DEF CommitCapture, NewVersion
  <2>5. v \in VersionRecord /\ v.id = n + 2 /\ v.object = n + 3 /\ v.content = c
    BY <2>1, <1>T DEF VersionRecord
  <2>6. r \in ObjectRecord /\ r.id = n + 3 /\ Listed(r, installed[s] \cup {v}, blobs[s])
    <3>1. <<v.id>> \in Seq(Nat)
      BY <2>5
    <3>2. r \in ObjectRecord /\ r.id = n + 3 /\ r.versions = <<v.id>>
      BY <2>2, <2>5, <3>1 DEF ObjectRecord
    <3>3. QED
      BY <2>5, <3>2, <1>c DEF Listed, ListedFor
  <2>7. /\ t \in PendingTransaction /\ t.kind = "capture" /\ t.object = r /\ t.versions = {v}
    <3>1. <<Event("tracked", None)>> \o <<Event("captured", v.id)>> \in Seq(EventRecord)
      <4>1. Event("tracked", None) \in EventRecord /\ Event("captured", v.id) \in EventRecord
        BY <2>5 DEF Event, EventRecord
      <4>2. QED
        BY <4>1
    <3>2. QED
      BY <2>3, <2>5, <2>6, <3>1, PublicationTyped DEF Transaction, PendingTransaction, StoreInv, StoresTyped
  <2>8. /\ \A w \in t.versions : minted < w.id /\ w.id <= minted + 3
        /\ minted < t.object.id /\ t.object.id <= minted + 3
    BY <2>5, <2>6, <2>7, <1>n
  <2>9. Intended(t)
    <3>1. PICK told : told = <<Event("captured", v.id)>>
      OBVIOUS
    <3>2. told \in Seq(EventRecord) /\ IsInjective(told) /\ DOMAIN told = {1} /\ told[1] = Event("captured", v.id)
      BY <3>1, <2>5 DEF Event, EventRecord, IsInjective
    <3>3. t.events = <<Event("tracked", None)>> \o told
      BY <2>3, <3>1 DEF Transaction
    <3>4. IsInjective(t.events) /\ Tells(t, v.id)
      BY <3>2, <3>3, ToldInOrder DEF Tells, Event
    <3>5. \A x \in ToSet(r.versions) : x = v.id
      BY <2>2 DEF ToSet
    <3>6. QED
      BY <2>7, <3>4, <3>5 DEF Intended
  <2>10. StoreInv' /\ OwnerInv' /\ CallInv'
    BY <1>0, <1>s, <2>4, <2>6, <2>7, <2>8, CommitKeeps
  <2>11. QED
    BY <2>4, <2>7, <2>8, <2>9, <2>10 DEF CommitsTold, Lengthens
<1>4. QED
  BY <1>2, <1>3

\* Joining one or two versions to a list is appending them.
LEMMA JoinedIsAppended ==
  ASSUME NEW s \in Seq(Nat), NEW i \in Nat, NEW j \in Nat
  PROVE  s \o <<i>> = Append(s, i) /\ s \o <<i, j>> = Append(Append(s, i), j)
OBVIOUS

\* Two lists of one element joined are the list of both.
LEMMA PairJoined ==
  ASSUME NEW S, NEW x \in S, NEW y \in S
  PROVE  <<x>> \o <<y>> = <<x, y>>
<1>1. PICK s, t : s = <<x>> \o <<y>> /\ t = <<x, y>>
  OBVIOUS
<1>2. <<x>> \in Seq(S) /\ <<y>> \in Seq(S)
  OBVIOUS
<1>3. s \in Seq(S) /\ Len(s) = 2 /\ s[1] = x /\ s[2] = y
  BY <1>1, <1>2
<1>4. t \in Seq(S) /\ Len(t) = 2 /\ t[1] = x /\ t[2] = y
  BY <1>1
<1>5. \A i \in 1 .. Len(s) : s[i] = t[i]
  BY <1>3, <1>4
<1>6. QED
  BY <1>1, <1>3, <1>4, <1>5, SeqEqual

\* The version a whole record has as its current one is installed, and is its own.
LEMMA CurrentIsInstalled ==
  ASSUME StoreInv, NEW s \in Stores, NEW e \in objects[s]
  PROVE  VersionOf(s, e.current) \in installed[s] /\ VersionOf(s, e.current).object = e.id
<1>1. Whole(e, installed[s], blobs[s]) /\ e.versions \in Seq(Nat)
  BY DEF StoreInv, StoresTyped, ObjectRecord
<1>2. PICK v \in installed[s] : v.id = e.current /\ v.object = e.id
  BY <1>1 DEF Whole, Listed, ListedFor, Contains
<1>3. PICK w : w = VersionOf(s, e.current)
  OBVIOUS
<1>4. w \in installed[s] /\ w.id = e.current
  BY <1>2, <1>3 DEF VersionOf
<1>5. w = v
  BY <1>2, <1>4 DEF StoreInv, Minted, Versions
<1>6. QED
  BY <1>2, <1>3, <1>5

\* A save that commits lists what its Object listed and the Versions of both its
\* sides; the bytes it will replace are a Version of the Object.
LEMMA SaveCommits ==
  ASSUME StoreInv, OwnerInv, CallInv, CommitSave, UNCHANGED <<plan, outgoing, staged>>
  PROVE  StoreInv' /\ OwnerInv' /\ CallInv' /\ CommitsTold
<1>0. /\ call # None /\ call.op # "transfer" /\ call.step = "commit" /\ call.op = "save"
      /\ UNCHANGED <<objects, installed, blobs>>
  BY DEF CommitSave, At
<1>1. call \in StoreCall /\ StoreCallInv(call) /\ Here \in Stores
  BY <1>0, StoreCalls
<1>s. PICK s \in Stores : s = Here
  BY <1>1
<1>p. PICK p \in Paths : p = call.path
  BY <1>0, <1>1 DEF StoreCallInv
<1>c. PICK c \in blobs[s], d \in blobs[s], ino \in Nat :
        c = call.seen.content /\ d = call.arg.content /\ ino = call.seen.ino
  BY <1>0, <1>1, <1>s DEF StoreCallInv, Here, FileRecord
<1>n. PICK n \in Nat : n = minted
  BY DEF StoreInv, StoresTyped
<1>T. c \in Contents /\ d \in Contents
  BY <1>s, <1>c DEF StoreInv, StoresTyped
<1> DEFINE
  Path == call.path
  Known == Tracked(Here, Path)
  Obj == IF Known THEN Existing(Here, Path).id ELSE minted + 4
  Kept == Known /\ Held(Existing(Here, Path))
  Before == IF Kept THEN VersionOf(Here, Existing(Here, Path).current) ELSE NewVersion(2, Obj, call.seen.content)
  Same == call.arg.content = call.seen.content
  After == IF Same THEN Before ELSE NewVersion(3, Obj, call.arg.content)
  New == (IF Kept THEN <<>> ELSE <<Before>>) \o (IF Same THEN <<>> ELSE <<After>>)
  Ids3 == [i \in DOMAIN New |-> New[i].id]
  Rec == IF Known
         THEN [Existing(Here, Path) EXCEPT !.current = After.id, !.versions = @ \o Ids3]
         ELSE [id |-> Obj, path |-> Path, current |-> After.id, versions |-> Ids3]
  Pub == IF Same THEN NoPublication
         ELSE [path |-> Path, prior |-> call.seen.content, content |-> call.arg.content, ino |-> call.seen.ino]
  Told == (IF Known THEN <<>> ELSE <<Event("tracked", None)>>)
            \o [i \in DOMAIN New |-> Event("captured", New[i].id)]
<1>C. IF New = <<>> THEN Fail /\ UNCHANGED <<pending, minted>>
      ELSE Commit(Transaction("save", Rec, ToSet(New), Pub, Told), IF Known THEN 3 ELSE 4)
  BY DEF CommitSave
<1>e. PICK e : e = Existing(Here, Path)
  OBVIOUS
<1>e1. e = Existing(s, p)
  BY <1>e, <1>s, <1>p
<1>k. PICK known \in BOOLEAN : known <=> Known
  OBVIOUS
<1>k1. known <=> Tracked(s, p)
  BY <1>k, <1>s, <1>p
<1> HIDE DEF Known
<1>o. PICK o : o = Obj
  OBVIOUS
<1>o1. o = IF known THEN e.id ELSE n + 4
  BY <1>o, <1>e, <1>k, <1>n
<1> HIDE DEF Obj
<1>h. PICK held \in BOOLEAN : held <=> Kept
  OBVIOUS
<1>h1. held <=> (known /\ Held(e))
  BY <1>h, <1>k, <1>e
<1> HIDE DEF Kept
<1>b. PICK b : b = Before
  OBVIOUS
<1>b1. b = IF held THEN VersionOf(s, e.current) ELSE [id |-> n + 2, object |-> o, content |-> c]
  BY <1>b, <1>h, <1>e, <1>o, <1>s, <1>c, <1>n DEF NewVersion
<1> HIDE DEF Before
<1>a. PICK a : a = After
  OBVIOUS
<1>a1. a = IF d = c THEN b ELSE [id |-> n + 3, object |-> o, content |-> d]
  BY <1>a, <1>b, <1>o, <1>c, <1>n DEF NewVersion
<1> HIDE DEF After
<1>w. PICK new : new = New
  OBVIOUS
<1>w1. new = (IF held THEN <<>> ELSE <<b>>) \o (IF d = c THEN <<>> ELSE <<a>>)
  BY <1>w, <1>h, <1>b, <1>a, <1>c
<1> HIDE DEF New
<1>v. PICK versions : versions = Ids3
  OBVIOUS
<1>v1. versions = [i \in DOMAIN new |-> new[i].id]
  BY <1>v, <1>w
<1> HIDE DEF Ids3
<1>r. PICK r : r = Rec
  OBVIOUS
<1>r1. r = IF known
           THEN [e EXCEPT !.current = a.id, !.versions = @ \o versions]
           ELSE [id |-> o, path |-> p, current |-> a.id, versions |-> versions]
  BY <1>r, <1>k, <1>e, <1>a, <1>v, <1>o, <1>p
<1> HIDE DEF Rec
<1>y. PICK publish : publish = Pub
  OBVIOUS
<1>y1. publish = IF d = c THEN NoPublication ELSE [path |-> p, prior |-> c, content |-> d, ino |-> ino]
  BY <1>y, <1>c, <1>p
<1> HIDE DEF Pub
<1>z. PICK events : events = Told
  OBVIOUS
<1>z1. events = (IF known THEN <<>> ELSE <<Event("tracked", None)>>)
                  \o [i \in DOMAIN new |-> Event("captured", new[i].id)]
  BY <1>z, <1>k, <1>w
<1> HIDE DEF Told
<1>t. PICK t : t = Transaction("save", r, ToSet(new), publish, events)
  OBVIOUS
<1>i. PICK ids \in {3, 4} : ids = IF known THEN 3 ELSE 4
  BY <1>k
<1>2. IF new = <<>> THEN Fail /\ UNCHANGED <<pending, minted>> ELSE Commit(t, ids)
  BY <1>C, <1>k, <1>w, <1>r, <1>y, <1>z, <1>t, <1>i
<1>3. CASE new = <<>>
  BY <1>0, <1>2, <1>3, StoresKept, OwnersKept, CallEnds DEF Fail, CommitsTold
<1>4. CASE new # <<>>
  <2>1. known => e \in objects[s] /\ e \in ObjectRecord /\ Whole(e, installed[s], blobs[s])
    <3>1. known => e \in objects[s]
      BY <1>k1, <1>e1 DEF Existing, Tracked, Claimants
    <3>2. QED
      BY <3>1 DEF StoreInv, StoresTyped
  <2>2. o \in Nat /\ (known => o = e.id)
    BY <2>1, <1>o1, <1>n, <1>k DEF ObjectRecord
  <2>3. /\ b \in VersionRecord /\ b.object = o /\ b.content = c
        /\ held => b \in installed[s]
        /\ ~ held => b.id = n + 2
    <3>1. CASE held
      <4>1. b \in installed[s] /\ b.object = e.id
        BY <3>1, <1>h1, <1>b1, <2>1, CurrentIsInstalled
      <4>2. b.content = c
        BY <3>1, <1>h1, <1>b1, <1>s, <1>c DEF Held, CurrentContent
      <4>3. QED
        BY <3>1, <4>1, <4>2, <2>2, <1>h1 DEF StoreInv, StoresTyped
    <3>2. CASE ~ held
      BY <3>2, <1>b1, <1>T, <2>2 DEF VersionRecord
    <3>3. QED
      BY <3>1, <3>2, <1>h
  <2>4. /\ a \in VersionRecord /\ a.object = o /\ a.content \in blobs[s]
        /\ d = c => a = b
        /\ d # c => a.id = n + 3 /\ a.content = d
    BY <2>2, <2>3, <1>a1, <1>c, <1>T DEF VersionRecord
  <2>5. \/ held /\ d # c /\ new = <<a>>
        \/ ~ held /\ d = c /\ new = <<b>>
        \/ ~ held /\ d # c /\ new = <<b, a>>
    <3>1. CASE held /\ d = c
      BY <3>1, <1>4, <1>w1
    <3>2. CASE held /\ d # c
      <4>1. new = <<>> \o <<a>>
        BY <3>2, <1>w1
      <4>2. QED
        BY <3>2, <4>1
    <3>3. CASE ~ held /\ d = c
      <4>1. new = <<b>> \o <<>>
        BY <3>3, <1>w1
      <4>2. QED
        BY <3>3, <4>1
    <3>4. CASE ~ held /\ d # c
      <4>1. new = <<b>> \o <<a>>
        BY <3>4, <1>w1
      <4>2. QED
        BY <3>4, <4>1, <2>3, <2>4, PairJoined
    <3>5. QED
      BY <3>1, <3>2, <3>3, <3>4, <1>h
  <2>6. /\ \A x \in ToSet(new) : x \in VersionRecord /\ n < x.id /\ x.id <= n + 3
        /\ \A x, y \in ToSet(new) : x.id = y.id => x = y
        /\ ToSet(new) \cup installed[s] = {a, b} \cup installed[s]
        /\ new \in Seq(VersionRecord)
    <3>1. new = <<a>> => ToSet(new) = {a}
      BY DEF ToSet
    <3>2. new = <<b>> => ToSet(new) = {b}
      BY DEF ToSet
    <3>3. new = <<b, a>> => ToSet(new) = {a, b}
      BY DEF ToSet
    <3>4. new \in Seq(VersionRecord)
      <4>1. <<a>> \in Seq(VersionRecord) /\ <<b>> \in Seq(VersionRecord) /\ <<b, a>> \in Seq(VersionRecord)
        BY <2>3, <2>4
      <4>2. QED
        BY <2>5, <4>1
    <3>5. ToSet(new) \cup installed[s] = {a, b} \cup installed[s]
      BY <2>3, <2>4, <2>5, <3>1, <3>2, <3>3
    <3>6. \A x \in ToSet(new) : x \in VersionRecord /\ n < x.id /\ x.id <= n + 3
      BY <2>3, <2>4, <2>5, <3>1, <3>2, <3>3, <1>n
    <3>7. \A x, y \in ToSet(new) : x.id = y.id => x = y
      BY <2>3, <2>4, <2>5, <3>1, <3>2, <3>3, <1>n
    <3>8. QED
      BY <3>4, <3>5, <3>6, <3>7
  <2>a. PICK old : old = IF known THEN e.versions ELSE <<>>
    OBVIOUS
  <2>7. old \in Seq(Nat) /\ (known => old = e.versions) /\ (~ known => old = <<>>)
    BY <2>1, <2>a, <1>k DEF ObjectRecord
  <2>8. old \o versions \in Seq(Nat) /\ ListedFor(old \o versions, o, installed[s] \cup {a, b}, blobs[s])
    <3>1. PICK vs, bs : vs = installed[s] /\ bs = blobs[s]
      OBVIOUS
    <3>2. ListedFor(old, o, vs, bs)
      BY <2>1, <2>2, <2>7, <3>1 DEF Whole, Listed, ListedFor
    <3>3. a.id \in Nat /\ b.id \in Nat /\ a.content \in bs /\ b.content \in bs
      BY <2>3, <2>4, <3>1, <1>c DEF VersionRecord
    <3>4. ASSUME NEW x, x.id \in Nat, x.object = o, x.content \in bs, versions = <<x.id>>, x \in {a, b}
          PROVE  old \o versions \in Seq(Nat) /\ ListedFor(old \o versions, o, vs \cup {a, b}, bs)
      <4>1. old \o versions = Append(old, x.id)
        BY <3>4, JoinedIsAppended
      <4>2. Append(old, x.id) \in Seq(Nat) /\ ListedFor(Append(old, x.id), o, vs \cup {x}, bs)
        BY <2>7, <3>2, <3>4, Extended
      <4>3. QED
        BY <4>1, <4>2, <3>4 DEF ListedFor
    <3>5. CASE versions = <<b.id, a.id>>
      <4>1. old \o versions = Append(Append(old, b.id), a.id)
        BY <3>3, <3>5, JoinedIsAppended
      <4>2. Append(old, b.id) \in Seq(Nat) /\ ListedFor(Append(old, b.id), o, vs \cup {b}, bs)
        BY <2>7, <3>2, <3>3, <2>3, Extended
      <4>3. /\ Append(Append(old, b.id), a.id) \in Seq(Nat)
            /\ ListedFor(Append(Append(old, b.id), a.id), o, (vs \cup {b}) \cup {a}, bs)
        BY <4>2, <3>3, <2>4, Extended
      <4>4. QED
        BY <4>1, <4>3, <3>1 DEF ListedFor
    <3>6. versions \in {<<a.id>>, <<b.id>>, <<b.id, a.id>>}
      BY <2>5, <1>v1
    <3>7. QED
      BY <3>1, <3>3, <3>4, <3>5, <3>6, <2>3, <2>4
  <2>9. r \in ObjectRecord /\ r.id = o /\ r.versions = old \o versions
    <3>1. CASE known
      <4>1. r = [e EXCEPT !.current = a.id, !.versions = old \o versions]
        BY <3>1, <1>r1, <2>7
      <4>2. a.id \in Nat
        BY <2>4 DEF VersionRecord
      <4>3. r \in [id: Nat, path: Paths \cup {None}, current: Nat, versions: Seq(Nat)]
        BY <3>1, <2>1, <2>8, <4>1, <4>2 DEF ObjectRecord
      <4>4. QED
        BY <3>1, <2>1, <2>2, <4>1, <4>3 DEF ObjectRecord
    <3>2. CASE ~ known
      <4>1. versions \in Seq(Nat) /\ old \o versions = versions
        <5>1. versions \in Seq(Nat)
          <6>1. \A i \in 1 .. Len(new) : new[i].id \in Nat
            <7>1. \A i \in 1 .. Len(new) : new[i] \in VersionRecord
              BY <2>6
            <7>2. QED
              BY <7>1 DEF VersionRecord
          <6>2. versions \in [1 .. Len(new) -> Nat]
            BY <2>6, <6>1, <1>v1
          <6>3. QED
            BY <2>6, <6>2
        <5>2. QED
          BY <3>2, <2>7, <5>1
      <4>2. a.id \in Nat
        BY <2>4 DEF VersionRecord
      <4>3. QED
        BY <3>2, <1>r1, <2>2, <4>1, <4>2 DEF ObjectRecord
    <3>3. QED
      BY <3>1, <3>2, <1>k
  <2>10. Listed(r, installed[s] \cup ToSet(new), blobs[s])
    BY <2>6, <2>8, <2>9 DEF Listed, ListedFor
  <2>11. publish \in Publication
    BY <1>y1, <1>T, PublicationTyped
  <2>12. events \in Seq(EventRecord)
    <3>1. Event("tracked", None) \in EventRecord /\ \A x \in VersionRecord : Event("captured", x.id) \in EventRecord
      BY DEF Event, EventRecord, VersionRecord
    <3>2. [i \in DOMAIN new |-> Event("captured", new[i].id)] \in Seq(EventRecord)
      <4>1. \A i \in 1 .. Len(new) : Event("captured", new[i].id) \in EventRecord
        BY <3>1, <2>6
      <4>2. [i \in DOMAIN new |-> Event("captured", new[i].id)] \in [1 .. Len(new) -> EventRecord]
        BY <2>6, <4>1
      <4>3. QED
        BY <2>6, <4>2
    <3>3. PICK told : told = [i \in DOMAIN new |-> Event("captured", new[i].id)]
      OBVIOUS
    <3>4. known => events = <<>> \o told
      BY <3>3, <1>z1
    <3>5. ~ known => events = <<Event("tracked", None)>> \o told
      BY <3>3, <1>z1
    <3>6. told \in Seq(EventRecord) /\ <<Event("tracked", None)>> \in Seq(EventRecord)
      BY <3>1, <3>2, <3>3
    <3>7. CASE known
      BY <3>4, <3>6, <3>7
    <3>8. CASE ~ known
      BY <3>5, <3>6, <3>8
    <3>9. QED
      BY <3>7, <3>8
  <2>13. /\ t \in PendingTransaction /\ t.kind = "save" /\ t.object = r /\ t.versions = ToSet(new)
         /\ t.publish = publish
    BY <1>t, <2>6, <2>9, <2>11, <2>12 DEF Transaction, PendingTransaction, StoreInv, StoresTyped
  <2>14. Publishes(t) => \E x \in installed[s] \cup t.versions : x.object = r.id /\ x.content = t.publish.prior
    <3>1. Publishes(t) => t.publish.prior = c
      BY <2>13, <1>y1 DEF Publishes, NoPublication
    <3>2. b \in installed[s] \cup t.versions
      BY <2>3, <2>5, <2>13 DEF ToSet
    <3>3. QED
      BY <3>1, <3>2, <2>3, <2>9
  <2>15. /\ \A x \in t.versions : minted < x.id /\ x.id <= minted + ids
         /\ \A x, y \in t.versions : x.id = y.id => x = y
    BY <2>6, <2>13, <1>n, <1>i DEF VersionRecord
  <2>16. \/ \E q \in objects[Here] : q.id = t.object.id
         \/ minted < t.object.id /\ t.object.id <= minted + ids
    BY <2>1, <2>9, <2>13, <1>o1, <1>i, <1>n, <1>s, <1>k
  <2>17. Commit(t, ids)
    BY <1>2, <1>4
  <2>18. Intended(t)
    <3>1. PICK told : told = [i \in DOMAIN new |-> Event("captured", new[i].id)]
      OBVIOUS
    <3>2. new \in Seq(VersionRecord) /\ DOMAIN new = 1 .. Len(new) /\ Len(new) \in Nat
      BY <2>6
    <3>3. DOMAIN told = DOMAIN new /\ \A i \in DOMAIN new : told[i] = Event("captured", new[i].id)
      BY <3>1
    <3>4. \A i \in DOMAIN new : told[i] \in EventRecord /\ told[i].what = "captured" /\ told[i].version = new[i].id
      <4>1. \A x \in VersionRecord :
              /\ Event("captured", x.id) \in EventRecord
              /\ Event("captured", x.id).what = "captured" /\ Event("captured", x.id).version = x.id
        BY DEF Event, EventRecord, VersionRecord
      <4>2. \A i \in DOMAIN new : new[i] \in VersionRecord
        BY <3>2
      <4>3. QED
        BY <3>3, <4>1, <4>2
    <3>5. told \in Seq(EventRecord)
      <4>1. told \in [1 .. Len(new) -> EventRecord]
        BY <3>1, <3>2, <3>4
      <4>2. QED
        BY <3>2, <4>1
    <3>6. IsInjective(told)
      <4>1. \A i, j \in DOMAIN new : new[i] = new[j] => i = j
        <5>1. ~ held /\ d # c => a # b
          BY <2>3, <2>4, <1>n
        <5>2. QED
          BY <2>5, <5>1
      <4>2. \A i, j \in DOMAIN new : new[i].id = new[j].id => i = j
        BY <2>6, <4>1 DEF ToSet
      <4>3. QED
        BY <3>3, <3>4, <4>2 DEF IsInjective
    <3>7. PICK first \in {<<>>, <<Event("tracked", None)>>} : events = first \o told
      BY <1>z1, <3>1
    <3>8. IsInjective(events) /\ \A i \in DOMAIN new : \E k \in DOMAIN events : events[k] = told[i]
      <4>1. \A i \in DOMAIN told : told[i].what = "captured"
        BY <3>3, <3>4
      <4>2. IsInjective(first \o told) /\ \A i \in DOMAIN told : \E k \in DOMAIN (first \o told) : (first \o told)[k] = told[i]
        BY <3>5, <3>6, <4>1, ToldInOrder
      <4>3. QED
        BY <3>3, <3>7, <4>2
    <3>9. t.events = events
      BY <1>t DEF Transaction
    <3>10. \A i \in DOMAIN new : Tells(t, new[i].id)
      BY <3>4, <3>8, <3>9 DEF Tells
    <3>11. \A x \in ToSet(r.versions) : (\E i \in DOMAIN new : x = new[i].id) \/ (known /\ x \in ToSet(e.versions))
      <4>1. versions \in Seq(Nat) /\ DOMAIN versions = DOMAIN new /\ \A i \in DOMAIN new : versions[i] = new[i].id
        <5>1. \A i \in 1 .. Len(new) : new[i].id \in Nat
          <6>1. \A i \in 1 .. Len(new) : new[i] \in VersionRecord
            BY <3>2
          <6>2. QED
            BY <6>1 DEF VersionRecord
        <5>2. versions \in [1 .. Len(new) -> Nat]
          BY <3>2, <5>1, <1>v1
        <5>3. QED
          BY <3>2, <5>2, <1>v1
      <4>2. \A x \in ToSet(old \o versions) : x \in ToSet(old) \/ x \in ToSet(versions)
        <5> SUFFICES ASSUME NEW k \in DOMAIN (old \o versions)
                     PROVE  (old \o versions)[k] \in ToSet(old) \/ (old \o versions)[k] \in ToSet(versions)
          BY DEF ToSet
        <5>1. CASE k <= Len(old)
          BY <2>7, <4>1, <5>1 DEF ToSet
        <5>2. CASE k > Len(old)
          BY <2>7, <4>1, <5>2 DEF ToSet
        <5>3. QED
          BY <2>7, <4>1, <5>1, <5>2
      <4>3. ToSet(old) = {} \/ (known /\ ToSet(old) = ToSet(e.versions))
        BY <2>7, <1>k DEF ToSet
      <4>4. QED
        <5>1. \A x \in ToSet(versions) : \E i \in DOMAIN new : x = new[i].id
          BY <4>1 DEF ToSet
        <5>2. QED
          BY <2>9, <4>2, <4>3, <5>1
    <3>12. QED
      BY <1>s, <2>1, <2>13, <3>8, <3>9, <3>10, <3>11 DEF Intended
  <2>19. StoreInv' /\ OwnerInv' /\ CallInv'
    BY <1>0, <1>s, <1>i, <2>10, <2>13, <2>14, <2>15, <2>16, <2>17, CommitKeeps
  <2>20. Lengthens(t)
    <3>1. CASE known
      <4>1. e.path = call.path
        BY <1>k1, <1>e1, <1>p, <3>1 DEF Existing, Tracked, Claimants
      <4>2. versions \in Seq(Nat)
        <5>1. new \in Seq(VersionRecord) /\ \A i \in 1 .. Len(new) : new[i] \in VersionRecord
          BY <2>6
        <5>2. \A i \in 1 .. Len(new) : new[i].id \in Nat
          BY <5>1 DEF VersionRecord
        <5>3. versions \in [1 .. Len(new) -> Nat]
          BY <5>1, <5>2, <1>v1
        <5>4. QED
          BY <5>1, <5>3
      <4>3. IsPrefix(e.versions, r.versions)
        BY <2>7, <2>9, <3>1, <4>2, PrefixJoined
      <4>4. QED
        BY <1>0, <1>s, <2>1, <2>2, <2>9, <2>13, <3>1, <4>1, <4>3 DEF Lengthens
    <3>2. CASE ~ known
      BY <1>n, <1>o1, <2>9, <2>13, <3>2 DEF Lengthens
    <3>3. QED
      BY <3>1, <3>2
  <2>21. QED
    BY <1>i, <2>13, <2>17, <2>18, <2>19, <2>20 DEF CommitsTold
<1>5. QED
  BY <1>3, <1>4

\* A relocation lists what the record lists.
LEMMA RelocateCommits ==
  ASSUME StoreInv, OwnerInv, CallInv, CommitRelocate, UNCHANGED <<plan, outgoing, staged>>
  PROVE  StoreInv' /\ OwnerInv' /\ CallInv' /\ CommitsTold
<1>0. /\ call # None /\ call.op # "transfer" /\ call.op = "relocate"
      /\ UNCHANGED <<objects, installed, blobs>>
  BY DEF CommitRelocate, Working, At
<1>1. call \in StoreCall /\ StoreCallInv(call) /\ Here \in Stores
  BY <1>0, StoreCalls
<1>s. PICK s \in Stores : s = Here
  BY <1>1
<1>p. PICK p \in Paths : p = call.path
  BY <1>0, <1>1 DEF StoreCallInv
<1>r. PICK r : r = Record(Here, call.arg.object)
  OBVIOUS
<1>q. PICK q : q = [r EXCEPT !.path = p]
  OBVIOUS
<1>t. PICK t : t = Transaction("relocate", q, {}, NoPublication, <<Event("relocated", r.current)>>)
  OBVIOUS
<1>2. CASE Readable(Here, call.arg.object) /\ Commit(t, 1)
  <2>1. r \in objects[s]
    BY <1>2, <1>r, <1>s DEF Readable, Has, Record
  <2>2. r \in ObjectRecord /\ Whole(r, installed[s], blobs[s])
    BY <2>1 DEF StoreInv, StoresTyped
  <2>3. q \in ObjectRecord /\ q.id = r.id /\ q.versions = r.versions
    BY <2>2, <1>q DEF ObjectRecord
  <2>4. <<Event("relocated", r.current)>> \in Seq(EventRecord)
    <3>1. Event("relocated", r.current) \in EventRecord
      BY <2>2 DEF Event, EventRecord, ObjectRecord
    <3>2. QED
      BY <3>1
  <2>5. t \in PendingTransaction /\ t.kind = "relocate" /\ t.object = q /\ t.versions = {}
    BY <1>t, <2>3, <2>4, PublicationTyped DEF Transaction, PendingTransaction, StoreInv, StoresTyped
  <2>6. Listed(t.object, installed[s] \cup t.versions, blobs[s])
    BY <2>2, <2>3, <2>5 DEF Whole, Listed, ListedFor
  <2>7. Intended(t)
    <3>1. t.events = <<Event("relocated", r.current)>>
      BY <1>t DEF Transaction
    <3>2. IsInjective(t.events)
      BY <3>1 DEF IsInjective
    <3>3. QED
      BY <1>s, <2>1, <2>3, <2>5, <3>2 DEF Intended
  <2>8. StoreInv' /\ OwnerInv' /\ CallInv'
    BY <1>0, <1>2, <1>s, <2>1, <2>3, <2>5, <2>6, CommitKeeps
  <2>9. Lengthens(t)
    <3>1. r.id = call.arg.object /\ IsPrefix(r.versions, q.versions)
      <4>1. r.id = call.arg.object
        BY <1>2, <1>r DEF Readable, Has, Record
      <4>2. r.versions \in Seq(Nat)
        BY <2>2 DEF ObjectRecord
      <4>3. QED
        BY <2>3, <4>1, <4>2, PrefixJoined
    <3>2. QED
      BY <1>2, <1>s, <2>1, <2>3, <2>5, <3>1 DEF Lengthens, Readable
  <2>10. QED
    BY <1>2, <2>5, <2>7, <2>8, <2>9 DEF CommitsTold
<1>3. CASE Fail /\ UNCHANGED <<pending, minted>>
  BY <1>0, <1>3, StoresKept, OwnersKept, CallEnds DEF Fail, CommitsTold
<1>4. QED
  BY <1>2, <1>3, <1>r, <1>q, <1>t, <1>p DEF CommitRelocate

\* A restore lists what the record lists: the Object stays where it is.
LEMMA RestoreCommits ==
  ASSUME StoreInv, OwnerInv, CallInv, CommitRestore, UNCHANGED <<plan, outgoing, staged>>
  PROVE  StoreInv' /\ OwnerInv' /\ CallInv' /\ CommitsTold
<1>0. /\ call # None /\ call.op # "transfer" /\ call.op = "restore"
      /\ UNCHANGED <<objects, installed, blobs>>
  BY DEF CommitRestore, Working, At
<1>1. call \in StoreCall /\ StoreCallInv(call) /\ Here \in Stores
  BY <1>0, StoreCalls
<1>s. PICK s \in Stores : s = Here
  BY <1>1
<1>p. PICK p \in Paths : p = call.path
  BY <1>0, <1>1 DEF StoreCallInv
<1>v. PICK v : v = call.arg.version
  OBVIOUS
<1>w. PICK w : w = VersionOf(s, v)
  OBVIOUS
<1>r. PICK r : r = Record(s, w.object)
  OBVIOUS
<1>y. PICK publish : publish = [NoPublication EXCEPT !.path = p, !.content = w.content]
  OBVIOUS
<1>t. PICK t : t = Transaction("restore", r, {}, publish, <<Event("restored", v)>>)
  OBVIOUS
<1>2. CASE ReadableVersion(s, v) /\ w.content \in blobs[s] /\ Commit(t, 1)
  <2>1. r \in objects[s]
    BY <1>2, <1>r, <1>w DEF ReadableVersion, Readable, Has, Record
  <2>2. r \in ObjectRecord /\ Whole(r, installed[s], blobs[s])
    BY <2>1 DEF StoreInv, StoresTyped
  <2>3. v \in Nat
    <3>1. w \in installed[s] /\ w.id = v
      BY <1>2, <1>w DEF ReadableVersion, HasVersion, VersionOf
    <3>2. QED
      BY <3>1 DEF StoreInv, StoresTyped, VersionRecord
  <2>4. <<Event("restored", v)>> \in Seq(EventRecord)
    <3>1. Event("restored", v) \in EventRecord
      BY <2>3 DEF Event, EventRecord
    <3>2. QED
      BY <3>1
  <2>5. publish \in Publication
    BY <1>2, <1>y DEF NoPublication, Publication, StoreInv, StoresTyped
  <2>6. t \in PendingTransaction /\ t.kind = "restore" /\ t.object = r /\ t.versions = {}
    BY <1>t, <2>2, <2>4, <2>5 DEF Transaction, PendingTransaction, StoreInv, StoresTyped
  <2>7. Listed(t.object, installed[s] \cup t.versions, blobs[s])
    BY <2>2, <2>6 DEF Whole, Listed, ListedFor
  <2>8. Intended(t)
    <3>1. t.events = <<Event("restored", v)>>
      BY <1>t DEF Transaction
    <3>2. IsInjective(t.events)
      BY <3>1 DEF IsInjective
    <3>3. QED
      BY <1>s, <2>1, <2>6, <3>2 DEF Intended
  <2>9. StoreInv' /\ OwnerInv' /\ CallInv'
    BY <1>0, <1>2, <1>s, <2>1, <2>6, <2>7, CommitKeeps
  <2>10. Lengthens(t)
    <3>1. r.id = w.object /\ Readable(s, w.object)
      BY <1>2, <1>r, <1>w DEF ReadableVersion, Readable, Has, Record
    <3>2. IsPrefix(r.versions, r.versions)
      <4>1. r.versions \in Seq(Nat)
        BY <2>2 DEF ObjectRecord
      <4>2. QED
        BY <4>1, PrefixJoined
    <3>3. QED
      BY <1>s, <2>1, <2>6, <3>1, <3>2 DEF Lengthens, Readable
  <2>11. QED
    BY <1>2, <2>6, <2>8, <2>9, <2>10 DEF CommitsTold
<1>3. CASE Fail /\ UNCHANGED <<pending, minted>>
  BY <1>0, <1>3, StoresKept, OwnersKept, CallEnds DEF Fail, CommitsTold
<1>4. QED
  BY <1>2, <1>3, <1>s, <1>v, <1>w, <1>r, <1>y, <1>t, <1>p DEF CommitRestore

-----------------------------------------------------------------------------
(* Replay.                                                                 *)

\* Projecting a sound intent whose versions are installed keeps the stores whole.
LEMMA ProjectKeeps ==
  ASSUME StoreInv, OwnerInv, CallInv, ReplayProject, UNCHANGED <<plan, outgoing, staged>>
  PROVE  StoreInv' /\ OwnerInv' /\ \A q \in objects["parent"] : \E r \in objects'["parent"] : r.id = q.id
<1>0. /\ call # None /\ call.op # "transfer" /\ call.step = "project"
      /\ UNCHANGED <<installed, blobs, pending, minted>>
  BY DEF ReplayProject, At, budgets
<1>1. call \in StoreCall /\ StoreCallInv(call) /\ Here \in Stores
  BY <1>0, StoreCalls
<1>s. PICK s \in Stores : s = Here
  BY <1>1
<1>t. PICK t : t = pending[s]
  OBVIOUS
<1>2. t # None /\ t \in Intent(s) /\ t.versions \subseteq installed[s] /\ t \in PendingTransaction
  BY <1>0, <1>1, <1>s, <1>t DEF StoreCallInv, ReplaySteps, InstalledSteps, Intent, Here, StoreInv, StoresTyped
<1>3. objects' = [objects EXCEPT ![s] = Rewrite(s, t.object)]
  BY <1>s, <1>t DEF ReplayProject
<1>4. /\ objects'[s] = {q \in objects[s] : q.id # t.object.id} \cup {t.object}
      /\ \A st \in Stores \ {s} : objects'[st] = objects[st]
  BY <1>3 DEF Rewrite, StoreInv, StoresTyped
<1>5. t.object \in ObjectRecord
  BY <1>2 DEF PendingTransaction
<1>6. StoresTyped'
  BY <1>0, <1>3, <1>4, <1>5 DEF StoreInv, StoresTyped
<1>7. Whole(t.object, installed[s], blobs[s])
  <2>1. installed[s] \cup t.versions = installed[s]
    BY <1>2
  <2>2. Sound(t, installed[s], blobs[s])
    BY <1>2 DEF StoreInv
  <2>3. QED
    BY <2>1, <2>2 DEF Sound
<1>8. \A st \in Stores : \A r \in objects'[st] : Whole(r, installed'[st], blobs'[st])
  BY <1>0, <1>4, <1>7 DEF StoreInv
<1>9. \A st \in Stores : Intent(st)' = Intent(st) /\ Versions(st)' = Versions(st)
  BY <1>0 DEF Intent, Versions
<1>10. \A st \in Stores : \A u \in Intent(st)' : Sound(u, installed'[st], blobs'[st])
  BY <1>0, <1>9 DEF StoreInv
<1>11. \A st \in Stores : \A r \in Records(st)' : r \in Records(st)
  BY <1>2, <1>4, <1>9 DEF Records
<1>12. Minted'
  BY <1>0, <1>9, <1>11 DEF StoreInv, Minted
<1>13. OwnerInv'
  BY <1>11 DEF OwnerInv, O, Stores
<1>14. \A q \in objects["parent"] : \E r \in objects'["parent"] : r.id = q.id
  BY <1>4 DEF Stores
<1>15. QED
  BY <1>6, <1>8, <1>10, <1>12, <1>13, <1>14 DEF StoreInv

\* Retiring an intent forgets only what it would have added.
LEMMA RetireKeeps ==
  ASSUME StoreInv, OwnerInv, NEW s \in Stores, pending' = [pending EXCEPT ![s] = None],
         UNCHANGED <<objects, installed, blobs, minted, plan, outgoing>>
  PROVE  StoreInv' /\ OwnerInv'
<1>1. pending'[s] = None /\ \A st \in Stores \ {s} : pending'[st] = pending[st]
  BY DEF StoreInv, StoresTyped
<1>2. StoresTyped'
  BY DEF StoreInv, StoresTyped
<1>3. \A st \in Stores : Intent(st)' \subseteq Intent(st)
  BY <1>1 DEF Intent
<1>4. \A st \in Stores : Records(st)' \subseteq Records(st) /\ Versions(st)' \subseteq Versions(st)
  BY <1>3 DEF Records, Versions
<1>5. Minted'
  BY <1>4 DEF StoreInv, Minted
<1>6. OwnerInv'
  BY <1>4 DEF OwnerInv, O, Stores
<1>7. QED
  BY <1>2, <1>3, <1>5, <1>6 DEF StoreInv

-----------------------------------------------------------------------------
(* The steps of a store.                                                   *)

\* Stores that only grow keep what the transfer relies on.
LEMMA PlanKept ==
  ASSUME PlanInv, UNCHANGED <<plan, outgoing, staged>>,
         \A st \in Stores : installed[st] \subseteq installed'[st] /\ blobs[st] \subseteq blobs'[st],
         \A q \in objects["parent"] : \E r \in objects'["parent"] : r.id = q.id
  PROVE  PlanInv'
<1>1. Holds("nested", plan.versions) => Holds("nested", plan.versions)'
  BY DEF Holds, Stores
<1>2. plan # None /\ plan.versions \subseteq installed["parent"] => plan.versions \subseteq installed'["parent"]
  BY DEF Stores
<1>3. ValidPlan <=> ValidPlan'
  BY DEF ValidPlan, O
<1>4. QED
  BY <1>1, <1>2, <1>3 DEF PlanInv, O

\* A call keeps its facts while what they are about stays.
LEMMA CallKept ==
  ASSUME CallInv, UNCHANGED <<call, installed, blobs, pending, plan, outgoing>>
  PROVE  CallInv'
BY DEF CallInv, TransferInv, StoreCallInv, O, Holds

\* A call that goes on with facts of its next step.
LEMMA CallMoves ==
  ASSUME CallInv, call # None, call.op # "transfer",
         call' \in StoreCall, call'.op = call.op, call'.store = call.store, call'.path = call.path,
         call'.arg = call.arg, call'.step \notin {"commit", "rename"} \cup InstalledSteps,
         call'.step \in ReplaySteps => pending'[call.store] # None
  PROVE  CallInv'
<1>1. call \in StoreCall /\ StoreCallInv(call)
  BY StoreCalls
<1>2. StoreCallInv(call)'
  BY <1>1 DEF StoreCallInv, InstalledSteps
<1>3. QED
  BY <1>2 DEF CallInv

\* A call begins with a look at what is pending.
LEMMA BeginKeeps ==
  ASSUME NEW op \in {"open", "capture", "save", "relocate", "restore"}, NEW s \in Stores,
         NEW p \in Paths \cup {None}, NEW arg \in {None} \cup EditArg \cup [object: Nat] \cup [version: Nat],
         op # "open" => p \in Paths, op = "save" => arg \in EditArg, Begin(op, s, p, arg)
  PROVE  CallInv'
<1>1. PICK first \in {"work", "check"} : first = IF pending[s] = None THEN "work" ELSE "check"
  OBVIOUS
<1>2. call' = [op |-> op, store |-> s, path |-> p, arg |-> arg, seen |-> None, own |-> FALSE, step |-> first]
  BY <1>1 DEF Begin
<1>3. call' \in StoreCall
  BY <1>2 DEF StoreCall
<1>4. pending' = pending
  BY DEF Begin
<1>5. StoreCallInv(call)'
  BY <1>1, <1>2, <1>4 DEF StoreCallInv, ReplaySteps, InstalledSteps
<1>6. QED
  BY <1>3, <1>5 DEF CallInv

\* Hashing a file adds its bytes, and those that will replace it, to the blobs.
LEMMA ReadKeeps ==
  ASSUME StoreInv, CallInv, FilesTyped, ReadFile
  PROVE  /\ StoreInv' /\ CallInv'
         /\ \A st \in Stores : blobs[st] \subseteq blobs'[st]
<1>0. /\ call # None /\ call.op \in {"capture", "save"} /\ call.op # "transfer"
      /\ UNCHANGED <<objects, installed, pending, minted>>
  BY DEF ReadFile, At, budgets
<1>1. call \in StoreCall /\ StoreCallInv(call) /\ Here \in Stores
  BY <1>0, StoreCalls
<1>s. PICK s \in Stores : s = Here
  BY <1>1
<1>p. PICK p \in Paths : p = call.path
  BY <1>0, <1>1 DEF StoreCallInv
<1>2. CASE Fail /\ UNCHANGED blobs
  BY <1>0, <1>2, StoresKept, CallEnds DEF Fail
<1>3. CASE ~ (Fail /\ UNCHANGED blobs)
  <2>1. PICK more : more = {file[p].content} \cup IF call.op = "save" THEN {call.arg.content} ELSE {}
    OBVIOUS
  <2>2. /\ file[p] # None
        /\ blobs' = [blobs EXCEPT ![s] = @ \cup more]
        /\ call' = [call EXCEPT !.step = "commit", !.seen = file[p]]
    BY <1>3, <1>s, <1>p, <2>1 DEF ReadFile, Present
  <2>3. file[p] \in FileRecord /\ file[p].content \in Contents
    BY <2>2 DEF FilesTyped, FileRecord
  <2>4. call.op = "save" => call.arg.content \in Contents
    BY <1>1 DEF StoreCallInv, EditArg
  <2>5. more \subseteq Contents /\ file[p].content \in more /\ (call.op = "save" => call.arg.content \in more)
    BY <2>1, <2>3, <2>4
  <2>6. /\ blobs'[s] = blobs[s] \cup more /\ \A st \in Stores : blobs[st] \subseteq blobs'[st]
        /\ blobs' \in [Stores -> SUBSET Contents]
    BY <2>2, <2>5 DEF StoreInv, StoresTyped
  <2>7. StoreInv'
    <3>1. installed' \in [Stores -> SUBSET VersionRecord]
      BY <1>0 DEF StoreInv, StoresTyped
    <3>2. \A st \in Stores : \A v \in installed'[st] : \E su \in Stores : v \in Versions(su)
      BY <1>0 DEF Versions
    <3>3. QED
      BY <1>0, <2>6, <3>1, <3>2, StoresGrow
  <2>8. CallInv'
    <3>1. /\ call' \in StoreCall /\ call'.step = "commit" /\ call'.seen = file[p] /\ call'.op = call.op
          /\ call'.store = s /\ call'.path = call.path /\ call'.arg = call.arg
      BY <1>1, <1>s, <2>2, <2>3 DEF StoreCall, Here
    <3>2. StoreCallInv(call)'
      BY <1>0, <1>1, <2>3, <2>5, <2>6, <3>1 DEF StoreCallInv, ReplaySteps, InstalledSteps
    <3>3. QED
      BY <3>1, <3>2 DEF CallInv
  <2>9. QED
    BY <2>6, <2>7, <2>8
<1>4. QED
  BY <1>2, <1>3, <1>0

\* Installing the versions of an intent installs what the store knew of.
LEMMA InstallKeeps ==
  ASSUME StoreInv, CallInv, ReplayInstall
  PROVE  /\ StoreInv' /\ CallInv'
         /\ \A st \in Stores : installed[st] \subseteq installed'[st]
<1>0. /\ call # None /\ call.op # "transfer" /\ call.step = "install"
      /\ UNCHANGED <<objects, blobs, pending, minted>>
  BY DEF ReplayInstall, At, budgets
<1>1. call \in StoreCall /\ StoreCallInv(call) /\ Here \in Stores
  BY <1>0, StoreCalls
<1>s. PICK s \in Stores : s = Here
  BY <1>1
<1>t. PICK t : t = pending[s]
  OBVIOUS
<1>2. t # None /\ t \in Intent(s) /\ t \in PendingTransaction
  BY <1>0, <1>1, <1>s, <1>t DEF StoreCallInv, ReplaySteps, Intent, Here, StoreInv, StoresTyped
<1>3. t.versions \subseteq VersionRecord
  BY <1>2 DEF PendingTransaction
<1>4. installed' = [installed EXCEPT ![s] = @ \cup t.versions]
  BY <1>s, <1>t DEF ReplayInstall
<1>5. /\ installed' \in [Stores -> SUBSET VersionRecord]
      /\ installed'[s] = installed[s] \cup t.versions
      /\ \A st \in Stores \ {s} : installed'[st] = installed[st]
  BY <1>3, <1>4 DEF StoreInv, StoresTyped
<1>6. \A st \in Stores : \A v \in installed'[st] : \E su \in Stores : v \in Versions(su)
  BY <1>2, <1>5 DEF Versions
<1>7. StoreInv'
  <2>1. blobs' \in [Stores -> SUBSET Contents]
    BY <1>0 DEF StoreInv, StoresTyped
  <2>2. \A st \in Stores : installed[st] \subseteq installed'[st] /\ blobs[st] \subseteq blobs'[st]
    BY <1>0, <1>5
  <2>3. QED
    BY <1>0, <1>5, <1>6, <2>1, <2>2, StoresGrow
<1>8. CallInv'
  <2>1. PICK next \in {"publish", "project"} : next = IF Publishes(t) THEN "publish" ELSE "project"
    OBVIOUS
  <2>2. call' = [call EXCEPT !.step = next]
    BY <1>s, <1>t, <2>1 DEF ReplayInstall, To
  <2>3. /\ call' \in StoreCall /\ call'.step = next /\ call'.op = call.op /\ call'.store = s
        /\ call'.path = call.path /\ call'.arg = call.arg
    BY <1>1, <1>s, <2>2 DEF StoreCall, Here
  <2>4. StoreCallInv(call)'
    BY <1>0, <1>1, <1>2, <1>t, <1>5, <2>1, <2>3 DEF StoreCallInv, Publishes
  <2>5. QED
    BY <2>3, <2>4 DEF CallInv
<1>9. QED
  BY <1>5, <1>7, <1>8

\* Verification goes on to the rename only over the bytes the intent names.
LEMMA VerifyKeeps ==
  ASSUME StoreInv, CallInv, FilesTyped, ReplayVerify
  PROVE  CallInv'
<1>0. /\ call # None /\ call.op # "transfer" /\ call.step = "publish"
      /\ UNCHANGED <<installed, blobs, pending>>
  BY DEF ReplayVerify, At, storeVars
<1>1. call \in StoreCall /\ StoreCallInv(call) /\ Here \in Stores
  BY <1>0, StoreCalls
<1>s. PICK s \in Stores : s = Here
  BY <1>1
<1>t. PICK t : t = pending[s]
  OBVIOUS
<1>2. t # None /\ t \in PendingTransaction /\ Publishes(t) /\ t.versions \subseteq installed[s]
  BY <1>0, <1>1, <1>s, <1>t DEF StoreCallInv, ReplaySteps, InstalledSteps, Here, StoreInv, StoresTyped
<1>3. CASE Fail
  BY <1>3, CallEnds DEF Fail
<1>4. CASE \E next \in {"append", "project"} : To(next)
  <2>1. PICK next \in {"append", "project"} : call' = [call EXCEPT !.step = next]
    BY <1>4 DEF To
  <2>2. /\ call' \in StoreCall /\ call'.step = next /\ call'.op = call.op /\ call'.store = s
        /\ call'.path = call.path /\ call'.arg = call.arg
    BY <1>1, <1>s, <2>1 DEF StoreCall, Here
  <2>3. StoreCallInv(call)'
    BY <1>0, <1>1, <1>2, <1>t, <2>2 DEF StoreCallInv
  <2>4. QED
    BY <2>2, <2>3 DEF CallInv
<1>5. CASE Publishable(s, t) /\ MayPublish(t) /\ call' = [call EXCEPT !.step = "rename", !.seen = file[t.publish.path]]
  <2>1. file[t.publish.path] \in FileRecord \cup {None}
    <3>1. t.publish.path \in Paths
      BY <1>2 DEF Publishes, PendingTransaction, Publication
    <3>2. QED
      BY <3>1 DEF FilesTyped
  <2>2. /\ call' \in StoreCall /\ call'.step = "rename" /\ call'.op = call.op /\ call'.store = s
        /\ call'.path = call.path /\ call'.arg = call.arg /\ call'.seen = file[t.publish.path]
    BY <1>1, <1>s, <1>5, <2>1 DEF StoreCall, Here
  <2>3. t.publish.content \in blobs[s]
    BY <1>5 DEF Publishable
  <2>4. t.kind = "save" => file[t.publish.path].content = t.publish.prior
    BY <1>5 DEF MayPublish
  <2>5. StoreCallInv(call)'
    BY <1>0, <1>1, <1>2, <1>t, <2>2, <2>3, <2>4 DEF StoreCallInv
  <2>6. QED
    BY <2>2, <2>5 DEF CallInv
<1>6. QED
  BY <1>3, <1>4, <1>5, <1>s, <1>t DEF ReplayVerify

\* What is published is a file with bytes of the store.
LEMMA RenameKeeps ==
  ASSUME StoreInv, CallInv, FilesTyped, ReplayRename
  PROVE  CallInv' /\ FilesTyped'
<1>0. /\ call # None /\ call.op # "transfer" /\ call.step = "rename"
      /\ UNCHANGED <<installed, blobs, pending, edits>>
  BY DEF ReplayRename, At, storeVars
<1>1. call \in StoreCall /\ StoreCallInv(call) /\ Here \in Stores
  BY <1>0, StoreCalls
<1>s. PICK s \in Stores : s = Here
  BY <1>1
<1>t. PICK t : t = pending[s]
  OBVIOUS
<1>2. /\ t # None /\ t \in PendingTransaction /\ Publishes(t) /\ t.versions \subseteq installed[s]
      /\ t.publish.content \in Contents
  <2>1. pending[s] # None /\ Publishes(pending[s]) /\ pending[s].versions \subseteq installed[s]
    BY <1>0, <1>1, <1>s DEF StoreCallInv, ReplaySteps, InstalledSteps, Here
  <2>2. pending[s].publish.content \in blobs[s]
    BY <1>0, <1>1, <1>s DEF StoreCallInv, Here
  <2>3. QED
    BY <1>t, <2>1, <2>2 DEF StoreInv, StoresTyped
<1>3. CASE Fail /\ UNCHANGED <<file, inodes>>
  BY <1>0, <1>3, CallEnds DEF Fail, FilesTyped
<1>4. CASE ~ (Fail /\ UNCHANGED <<file, inodes>>)
  <2>1. PICK next \in {"append", "project"} : next = IF t.kind = "restore" THEN "append" ELSE "project"
    OBVIOUS
  <2>2. /\ inodes' = inodes + 1
        /\ file' = [file EXCEPT ![t.publish.path] = [ino |-> inodes + 1, content |-> t.publish.content]]
        /\ call' = [call EXCEPT !.step = next]
    BY <1>4, <1>s, <1>t, <2>1 DEF ReplayRename, To
  <2>3. /\ call' \in StoreCall /\ call'.step = next /\ call'.op = call.op /\ call'.store = s
        /\ call'.path = call.path /\ call'.arg = call.arg
    BY <1>1, <1>s, <2>2 DEF StoreCall, Here
  <2>4. StoreCallInv(call)'
    BY <1>0, <1>1, <1>2, <1>t, <2>3 DEF StoreCallInv
  <2>5. FilesTyped'
    <3>1. PICK new : new = [ino |-> inodes + 1, content |-> t.publish.content]
      OBVIOUS
    <3>2. new \in FileRecord /\ inodes' \in Nat /\ edits' \in Nat
      BY <1>0, <1>2, <2>2, <3>1 DEF FilesTyped, FileRecord
    <3>3. file' = [file EXCEPT ![t.publish.path] = new]
      BY <2>2, <3>1
    <3>4. QED
      BY <3>2, <3>3 DEF FilesTyped
  <2>6. QED
    BY <2>3, <2>4, <2>5 DEF CallInv
<1>5. QED
  BY <1>3, <1>4

\* The other steps of a replay: they go on, or the call ends.
LEMMA OthersKeep ==
  ASSUME StoreInv, CallInv, \/ ReplayCheck \/ ReplayProject \/ ReplayIdentity \/ ReplayAppend \/ ReplayRetire
  PROVE  CallInv'
<1>1. call # None /\ call.op # "transfer"
  BY DEF ReplayCheck, ReplayProject, ReplayIdentity, ReplayAppend, ReplayRetire, At
<1>2. call \in StoreCall /\ StoreCallInv(call) /\ Here \in Stores
  BY <1>1, StoreCalls
<1>3. CASE Fail
  BY <1>3, CallEnds DEF Fail
<1>4. CASE ~ Fail
  <2>1. PICK next \in {"install", "identity", "append", "retire", "work"} :
          call' = [call EXCEPT !.step = next] /\ (next # "work" => pending' = pending /\ call.step \in ReplaySteps)
    BY <1>4 DEF ReplayCheck, ReplayProject, ReplayIdentity, ReplayAppend, ReplayRetire, To, At, ReplaySteps, storeVars
  <2>2. /\ call' \in StoreCall /\ call'.step = next /\ call'.op = call.op /\ call'.store = call.store
        /\ call'.path = call.path /\ call'.arg = call.arg
    BY <1>2, <2>1 DEF StoreCall
  <2>3. call'.step \in ReplaySteps => pending'[call.store] # None
    BY <1>2, <2>1, <2>2 DEF StoreCallInv, ReplaySteps
  <2>4. QED
    BY <1>1, <2>1, <2>2, <2>3, CallMoves DEF InstalledSteps
<1>5. QED
  BY <1>3, <1>4

\* People write files, never a store.
LEMMA PeopleKeep ==
  ASSUME FilesTyped, PeopleEdit
  PROVE  FilesTyped'
<1>1. PICK p \in Paths :
        \/ /\ file[p] # None /\ UNCHANGED inodes
           /\ \E c \in Contents \ {file[p].content} : file' = [file EXCEPT ![p].content = c]
        \/ /\ inodes' = inodes + 1
           /\ \E c \in Contents : file' = [file EXCEPT ![p] = [ino |-> inodes + 1, content |-> c]]
        \/ /\ file[p] # None /\ UNCHANGED inodes
           /\ \E q \in Paths : file[q] = None /\ file' = [file EXCEPT ![p] = None, ![q] = file[p]]
        \/ file[p] # None /\ file' = [file EXCEPT ![p] = None] /\ UNCHANGED inodes
  BY DEF PeopleEdit
<1>e. edits' \in Nat
  BY DEF PeopleEdit, FilesTyped
<1>2. CASE file[p] # None /\ UNCHANGED inodes /\ \E c \in Contents \ {file[p].content} : file' = [file EXCEPT ![p].content = c]
  BY <1>e, <1>2 DEF FilesTyped, FileRecord
<1>3. CASE inodes' = inodes + 1 /\ \E c \in Contents : file' = [file EXCEPT ![p] = [ino |-> inodes + 1, content |-> c]]
  BY <1>e, <1>3 DEF FilesTyped, FileRecord
<1>4. CASE UNCHANGED inodes /\ \E q \in Paths : file' = [file EXCEPT ![p] = None, ![q] = file[p]]
  BY <1>e, <1>4 DEF FilesTyped
<1>5. CASE file' = [file EXCEPT ![p] = None] /\ UNCHANGED inodes
  BY <1>e, <1>5 DEF FilesTyped
<1>6. QED
  BY <1>1, <1>2, <1>3, <1>4, <1>5

\* Every step that is not the transfer's.
LEMMA StoreStepsKeep ==
  ASSUME TransferSafety, Calls \/ Steps \/ Die \/ PeopleEdit \/ Nest, UNCHANGED transferVars
  PROVE  TransferSafety'
<1>0. StoreInv /\ PlanInv /\ OwnerInv /\ CallInv /\ FilesTyped /\ UNCHANGED <<plan, staged, incoming>>
  BY DEF TransferSafety, transferVars
<1> DEFINE Quietly == UNCHANGED <<objects, installed, blobs, pending, minted, outgoing>>
<1>1. ASSUME Quietly
      PROVE  StoreInv' /\ OwnerInv' /\ PlanInv'
  BY <1>0, <1>1, StoresKept, OwnersKept, PlanKept
<1>2. CASE Calls
  <2>1. PICK op \in {"open", "capture", "save", "relocate", "restore"}, s \in Stores,
             p \in Paths \cup {None}, arg \in {None} \cup EditArg \cup [object: Nat] \cup [version: Nat] :
          (op # "open" => p \in Paths) /\ (op = "save" => arg \in EditArg) /\ Begin(op, s, p, arg)
    <3>1. CASE Reopen
      BY <3>1 DEF Reopen
    <3>2. CASE \E s0 \in Stores, p \in Paths : Begin("capture", s0, p, None)
      BY <3>2
    <3>3. CASE \E s0 \in Stores, p \in Paths, c \in Contents :
                 file[p] # None /\ Begin("save", s0, p, [expected |-> file[p].content, content |-> c])
      BY <1>0, <3>3 DEF EditArg, FilesTyped, FileRecord
    <3>4. CASE \E s0 \in Stores : \E r \in objects[s0], p \in Paths : Begin("relocate", s0, p, [object |-> r.id])
      BY <1>0, <3>4 DEF StoreInv, StoresTyped, ObjectRecord
    <3>5. CASE \E s0 \in Stores : \E v \in installed[s0], p \in Paths : Begin("restore", s0, p, [version |-> v.id])
      BY <1>0, <3>5 DEF StoreInv, StoresTyped, VersionRecord
    <3>6. QED
      BY <1>2, <3>1, <3>2, <3>3, <3>4, <3>5 DEF Calls
  <2>2. CallInv'
    BY <2>1, BeginKeeps
  <2>3. Quietly /\ FilesTyped'
    BY <1>0, <2>1 DEF Begin, worldVars, FilesTyped
  <2>4. QED
    BY <1>1, <2>2, <2>3 DEF TransferSafety
<1>3. CASE Die
  <2>1. Quietly /\ FilesTyped' /\ call' = None
    BY <1>0, <1>3 DEF Die, worldVars, FilesTyped
  <2>2. QED
    BY <1>1, <2>1, CallEnds DEF TransferSafety
<1>4. CASE PeopleEdit \/ Nest
  <2>1. Quietly /\ call' = call
    BY <1>4 DEF PeopleEdit, Nest, storeVars, budgets
  <2>2. FilesTyped'
    BY <1>0, <1>4, PeopleKeep DEF Nest, FilesTyped
  <2>3. CallInv'
    BY <1>0, <2>1, CallKept
  <2>4. QED
    BY <1>1, <2>1, <2>2, <2>3 DEF TransferSafety
<1>5. CASE Steps
  <2>1. outgoing' = outgoing
    BY <1>5 DEF Steps, OpenDone, ReadFile, CommitCapture, CommitSave, CommitRelocate, CommitRestore,
       ReplayCheck, ReplayInstall, ReplayVerify, ReplayRename, ReplayProject, ReplayIdentity, ReplayAppend, ReplayRetire
  <2>2. CASE OpenDone \/ ReplayCheck \/ ReplayVerify \/ ReplayRename \/ ReplayIdentity \/ ReplayAppend
    <3>1. Quietly
      BY <2>2 DEF OpenDone, ReplayCheck, ReplayVerify, ReplayRename, ReplayIdentity, ReplayAppend, storeVars, budgets
    <3>2. CallInv'
      BY <1>0, <2>2, CallEnds, VerifyKeeps, RenameKeeps, OthersKeep DEF OpenDone, Fail
    <3>3. FilesTyped'
      BY <1>0, <2>2, RenameKeeps
         DEF OpenDone, ReplayCheck, ReplayVerify, ReplayIdentity, ReplayAppend, worldVars, FilesTyped
    <3>4. QED
      BY <1>1, <3>1, <3>2, <3>3 DEF TransferSafety
  <2>3. CASE CommitCapture \/ CommitSave \/ CommitRelocate \/ CommitRestore
    <3>1. StoreInv' /\ OwnerInv' /\ CallInv'
      BY <1>0, <2>1, <2>3, CaptureCommits, SaveCommits, RelocateCommits, RestoreCommits
    <3>2. UNCHANGED <<objects, installed, blobs>> /\ FilesTyped'
      BY <1>0, <2>3 DEF CommitCapture, CommitSave, CommitRelocate, CommitRestore, worldVars, FilesTyped
    <3>3. PlanInv'
      BY <1>0, <2>1, <3>2, PlanKept
    <3>4. QED
      BY <3>1, <3>2, <3>3 DEF TransferSafety
  <2>4. CASE ReadFile
    <3>1. StoreInv' /\ CallInv' /\ \A st \in Stores : blobs[st] \subseteq blobs'[st]
      BY <1>0, <2>4, ReadKeeps
    <3>2. UNCHANGED <<objects, installed, pending>> /\ FilesTyped'
      BY <1>0, <2>4 DEF ReadFile, worldVars, FilesTyped
    <3>3. PlanInv' /\ OwnerInv'
      BY <1>0, <2>1, <3>1, <3>2, PlanKept, OwnersKept
    <3>4. QED
      BY <3>1, <3>2, <3>3 DEF TransferSafety
  <2>5. CASE ReplayInstall
    <3>1. StoreInv' /\ CallInv' /\ \A st \in Stores : installed[st] \subseteq installed'[st]
      BY <1>0, <2>5, InstallKeeps
    <3>2. UNCHANGED <<objects, blobs, pending>> /\ FilesTyped'
      BY <1>0, <2>5 DEF ReplayInstall, worldVars, FilesTyped
    <3>3. PlanInv' /\ OwnerInv'
      BY <1>0, <2>1, <3>1, <3>2, PlanKept, OwnersKept
    <3>4. QED
      BY <3>1, <3>2, <3>3 DEF TransferSafety
  <2>6. CASE ReplayProject
    <3>1. StoreInv' /\ OwnerInv' /\ \A q \in objects["parent"] : \E r \in objects'["parent"] : r.id = q.id
      BY <1>0, <2>1, <2>6, ProjectKeeps
    <3>2. UNCHANGED <<installed, blobs>> /\ FilesTyped'
      BY <1>0, <2>6 DEF ReplayProject, worldVars, FilesTyped
    <3>3. PlanInv' /\ CallInv'
      BY <1>0, <2>1, <2>6, <3>1, <3>2, PlanKept, OthersKeep
    <3>4. QED
      BY <3>1, <3>2, <3>3 DEF TransferSafety
  <2>7. CASE ReplayRetire
    <3>1. call # None /\ call.op # "transfer" /\ UNCHANGED <<objects, installed, blobs, minted>> /\ FilesTyped'
      BY <1>0, <2>7 DEF ReplayRetire, At, budgets, worldVars, FilesTyped
    <3>2. PICK s \in Stores : pending' = [pending EXCEPT ![s] = None]
      BY <1>0, <2>7, <3>1, StoreCalls DEF ReplayRetire
    <3>3. StoreInv' /\ OwnerInv'
      BY <1>0, <2>1, <3>1, <3>2, RetireKeeps
    <3>4. PlanInv' /\ CallInv'
      BY <1>0, <2>1, <2>7, <3>1, PlanKept, OthersKeep
    <3>5. QED
      BY <3>1, <3>3, <3>4 DEF TransferSafety
  <2>8. QED
    BY <1>5, <2>2, <2>3, <2>4, <2>5, <2>6, <2>7 DEF Steps
<1>6. QED
  BY <1>2, <1>3, <1>4, <1>5

-----------------------------------------------------------------------------
(* The steps of the transfer.                                              *)

\* A plan is made of an Object the nested Folderbase does not have, with every
\* version of it.
LEMMA ProposeKeeps ==
  ASSUME TransferSafety, Propose
  PROVE  TransferSafety'
<1>0. StoreInv /\ PlanInv /\ OwnerInv /\ CallInv /\ FilesTyped
  BY DEF TransferSafety
<1>1. UNCHANGED <<objects, installed, blobs, pending, minted, outgoing, call, file, inodes, edits>> /\ plan = None
  BY DEF Propose, storeVars, worldVars, budgets
<1>2. PICK r \in objects["parent"] :
        LET versions == {v \in installed["parent"] : v.object = r.id} IN
        /\ r.path \in Inner /\ ToSet(r.versions) = {v.id : v \in versions}
        /\ plan' = [state |-> "proposed", object |-> r, path |-> r.path, versions |-> versions]
  BY DEF Propose
<1>3. PICK versions : versions = {v \in installed["parent"] : v.object = r.id}
  OBVIOUS
<1>4. /\ ToSet(r.versions) = {v.id : v \in versions} /\ r.path \in Paths
      /\ plan' = [state |-> "proposed", object |-> r, path |-> r.path, versions |-> versions]
  BY <1>2, <1>3 DEF Paths
<1>5. r \in ObjectRecord /\ Contains(r.versions, r.current) /\ versions \subseteq VersionRecord
  BY <1>0, <1>3 DEF StoreInv, StoresTyped, Whole, Stores
<1>6. /\ plan' \in TransferPlan /\ plan'.object = r /\ plan'.versions = versions /\ plan'.state = "proposed"
  BY <1>4, <1>5 DEF TransferPlan
<1>7. outgoing' = {}
  BY <1>0, <1>1 DEF PlanInv
<1>8. ValidPlan'
  BY <1>3, <1>4, <1>5, <1>6 DEF ValidPlan, O
<1>9. PlanInv'
  BY <1>1, <1>3, <1>6, <1>7, <1>8 DEF PlanInv, O
<1>10. OwnerInv'
  BY <1>0, <1>1 DEF OwnerInv, Records, Intent
<1>11. StoreInv'
  BY <1>0, <1>1, StoresKept
<1>12. CallInv'
  BY <1>0, <1>1 DEF CallInv, TransferInv, StoreCallInv
<1>13. QED
  BY <1>0, <1>1, <1>9, <1>10, <1>11, <1>12 DEF TransferSafety, FilesTyped

\* A plan stored in another state is the same plan.
LEMMA StoredKeeps ==
  ASSUME plan \in TransferPlan, plan # None,
         NEW state \in {"proposed", "approved", "applying", "verified_destination", "released", "verified", "conflicted"},
         Stored(state)
  PROVE  /\ plan' \in TransferPlan /\ plan' # None /\ plan'.state = state /\ plan'.object = plan.object
         /\ plan'.path = plan.path /\ plan'.versions = plan.versions
<1>1. /\ plan' \in TransferPlan /\ plan'.state = state /\ plan'.object = plan.object
      /\ plan'.path = plan.path /\ plan'.versions = plan.versions
  BY DEF Stored, TransferPlan
<1>2. QED
  BY <1>1, NoneIsNoRecord

\* What the steps of a transfer that only move plan, staging and receipts rely on.
LEMMA TransferMoves ==
  ASSUME TransferSafety, plan # None,
         UNCHANGED <<objects, installed, blobs, pending, minted, file, inodes, edits>>,
         \/ plan' = plan
         \/ \E state \in {"proposed", "approved", "applying", "verified_destination", "verified", "conflicted"} : Stored(state)
         \/ Stored("released") /\ O \in outgoing,
         outgoing \subseteq outgoing',
         outgoing' \subseteq outgoing \cup {O},
         O \in outgoing' => staged' = "whole" \/ Holds("nested", plan.versions)
  PROVE  StoreInv' /\ PlanInv' /\ OwnerInv' /\ FilesTyped' /\ plan' # None /\ O' = O
<1>0. StoreInv /\ PlanInv /\ OwnerInv /\ FilesTyped
  BY DEF TransferSafety
<1>1. plan \in TransferPlan
  BY <1>0 DEF PlanInv
<1>2. /\ plan' \in TransferPlan /\ plan' # None /\ plan'.object = plan.object
      /\ plan'.path = plan.path /\ plan'.versions = plan.versions
      /\ plan'.state = "released" => plan'.state = plan.state \/ O \in outgoing
  <2>1. CASE plan' = plan
    BY <2>1, <1>1
  <2>2. CASE \E state \in {"proposed", "approved", "applying", "verified_destination", "verified", "conflicted"} : Stored(state)
    BY <2>2, <1>1, StoredKeeps
  <2>3. CASE Stored("released") /\ O \in outgoing
    BY <2>3, <1>1, StoredKeeps
  <2>4. QED
    BY <2>1, <2>2, <2>3
<1>3. O' = O
  BY <1>2 DEF O
<1>4. ValidPlan'
  BY <1>0, <1>2, <1>3 DEF ValidPlan, PlanInv
<1>5. Holds("nested", plan.versions) => Holds("nested", plan.versions)'
  BY <1>2 DEF Holds
<1>6. PlanInv'
  BY <1>0, <1>2, <1>3, <1>4, <1>5 DEF PlanInv
<1>7. OwnerInv'
  BY <1>0, <1>2, <1>3 DEF OwnerInv, Records, Intent
<1>8. QED
  BY <1>0, <1>2, <1>3, <1>6, <1>7, StoresKept DEF FilesTyped

\* A step of a transfer call goes on with what its next step relies on.
LEMMA TransferGoesOn ==
  ASSUME call \in TransferCall, NEW step \in TransferSteps, call' = [call EXCEPT !.step = step],
         plan' # None, step \in HandedSteps => O' \in outgoing',
         step = "versions" => Holds("nested", plan.versions)'
  PROVE  CallInv'
<1>1. call' \in TransferCall /\ call'.step = step
  BY DEF TransferCall
<1>2. TransferInv(call)'
  BY <1>1 DEF TransferInv
<1>3. QED
  BY <1>1, <1>2 DEF CallInv

\* Approval, the start of a call, staging, receipts and the last steps.
LEMMA TransferStepsKeep ==
  ASSUME TransferSafety, Approve \/ Start \/ Stage \/ Release \/ Released \/ Receive \/ Verify \/ Cleanup
  PROVE  TransferSafety'
<1>0. StoreInv /\ PlanInv /\ OwnerInv /\ CallInv /\ FilesTyped
  BY DEF TransferSafety
<1>1. UNCHANGED <<objects, installed, blobs, pending, minted, file, inodes, edits>>
  BY DEF Approve, Start, Stage, Release, Released, Receive, Verify, Cleanup, storeVars, worldVars, budgets
<1>2. plan # None
  <2>1. CASE Approve \/ Start
    BY <2>1 DEF Approve, Start, Resumable
  <2>2. CASE Stage \/ Release \/ Released \/ Receive \/ Verify
    <3>1. call # None /\ call.op = "transfer"
      BY <2>2 DEF Stage, Release, Released, Receive, Verify, Transferring
    <3>2. QED
      BY <1>0, <3>1 DEF CallInv, TransferInv, StoreCall
  <2>3. CASE Cleanup
    <3>1. CASE call = None
      BY <2>3, <3>1 DEF Cleanup, Transferring
    <3>2. CASE Transferring("cleanup")
      BY <1>0, <3>2 DEF Transferring, CallInv, TransferInv, StoreCall
    <3>3. QED
      BY <2>3, <3>1, <3>2 DEF Cleanup
  <2>4. QED
    BY <2>1, <2>2, <2>3
<1>3. ASSUME call # None, call.op = "transfer"
      PROVE  call \in TransferCall /\ TransferInv(call)
  BY <1>0, <1>3 DEF CallInv, StoreCall
<1> DEFINE
  Moved == \/ plan' = plan
           \/ \E state \in {"proposed", "approved", "applying", "verified_destination", "verified", "conflicted"} : Stored(state)
           \/ Stored("released") /\ O \in outgoing
  Owned2 == /\ outgoing \subseteq outgoing' /\ outgoing' \subseteq outgoing \cup {O}
            /\ O \in outgoing' => staged' = "whole" \/ Holds("nested", plan.versions)
<1>4. ASSUME Moved, Owned2
      PROVE  StoreInv' /\ PlanInv' /\ OwnerInv' /\ FilesTyped' /\ plan' # None /\ O' = O
  BY <1>1, <1>2, <1>4, TransferMoves
<1>5. O \in outgoing => staged = "whole" \/ Holds("nested", plan.versions)
  BY <1>0, <1>2 DEF PlanInv
<1>6. CASE Approve
  <2>1. Moved /\ Owned2 /\ call' = None
    BY <1>5, <1>6 DEF Approve
  <2>2. QED
    BY <1>4, <2>1, CallEnds DEF TransferSafety
<1>7. CASE Start
  <2>1. Moved /\ Owned2
    BY <1>5, <1>7 DEF Start
  <2>2. CallInv'
    <3>1. CASE UNCHANGED call
      BY <1>7, <3>1, CallEnds DEF Start
    <3>2. CASE call' = [op |-> "transfer", step |-> plan.state, store |-> "nested"] /\ plan.state \in {"approved", "applying", "verified_destination", "released"}
      <4>1. call' \in TransferCall /\ call'.step = plan.state
        BY <3>2 DEF TransferCall, TransferSteps
      <4>2. plan.state = "released" => O' \in outgoing'
        BY <1>0, <1>2, <1>4, <1>7, <2>1 DEF PlanInv, Start
      <4>3. TransferInv(call)'
        BY <3>2, <4>1, <4>2, <1>4, <2>1 DEF TransferInv, HandedSteps
      <4>4. QED
        BY <4>1, <4>3 DEF CallInv
    <3>3. QED
      BY <1>7, <3>1, <3>2 DEF Start, Resumable
  <2>3. QED
    BY <1>4, <2>1, <2>2 DEF TransferSafety
<1>8. CASE Stage
  <2>1. call # None /\ call.op = "transfer"
    BY <1>8 DEF Stage, Transferring
  <2>2. Moved /\ Owned2
    BY <1>5, <1>8 DEF Stage
  <2>3. CallInv'
    <3>1. CASE UNCHANGED call
      BY <1>3, <1>4, <2>1, <2>2, <3>1, <1>1, <1>8 DEF Stage, Transferring, CallInv, TransferInv, HandedSteps
    <3>2. CASE To("verified_destination")
      BY <1>3, <1>4, <2>1, <2>2, <3>2, TransferGoesOn DEF To, HandedSteps, TransferSteps
    <3>3. QED
      BY <1>8, <3>1, <3>2 DEF Stage
  <2>4. QED
    BY <1>4, <2>2, <2>3 DEF TransferSafety
<1>9. CASE Release
  <2>1. call # None /\ call.op = "transfer"
    BY <1>9 DEF Release, Transferring
  <2>2. CASE StagedWhole /\ outgoing' = outgoing \cup {O} /\ To("receipt") /\ plan' = plan
    <3>1. Moved /\ Owned2
      BY <1>9, <2>2 DEF Release, StagedWhole
    <3>2. O' \in outgoing' /\ plan' # None
      BY <1>4, <2>2, <3>1
    <3>3. CallInv'
      BY <1>3, <2>1, <2>2, <3>2, TransferGoesOn DEF To, TransferSteps
    <3>4. QED
      BY <1>4, <3>1, <3>3 DEF TransferSafety
  <2>3. CASE Conflict /\ outgoing' = outgoing
    <3>1. Moved /\ Owned2 /\ call' = None
      BY <1>5, <1>9, <2>3 DEF Release, Conflict
    <3>2. QED
      BY <1>4, <3>1, CallEnds DEF TransferSafety
  <2>4. QED
    BY <1>9, <2>2, <2>3 DEF Release
<1>10. CASE Released
  <2>1. call # None /\ call.op = "transfer" /\ call.step = "receipt"
    BY <1>10 DEF Released, Transferring
  <2>2. O \in outgoing
    BY <1>3, <2>1 DEF TransferInv, HandedSteps
  <2>3. Moved /\ Owned2
    BY <1>5, <1>10, <2>2 DEF Released
  <2>4. O' \in outgoing' /\ plan' # None /\ To("released")
    BY <1>4, <2>2, <2>3, <1>10 DEF Released
  <2>5. CallInv'
    BY <1>3, <2>1, <2>4, TransferGoesOn DEF To, TransferSteps
  <2>6. QED
    BY <1>4, <2>3, <2>5 DEF TransferSafety
<1>11. CASE Receive \/ Verify
  <2>1. call # None /\ call.op = "transfer" /\ call.step \in HandedSteps
    BY <1>11 DEF Receive, Verify, Transferring, HandedSteps
  <2>2. O \in outgoing
    BY <1>3, <2>1 DEF TransferInv
  <2>3. Moved /\ Owned2
    BY <1>5, <1>11 DEF Receive, Verify, Conflict
  <2>4. O' \in outgoing' /\ plan' # None
    BY <1>4, <2>2, <2>3
  <2>5. CallInv'
    <3>1. CASE Conflict
      BY <3>1, CallEnds DEF Conflict
    <3>2. CASE \E step \in {"incoming", "cleanup"} : To(step)
      BY <1>3, <2>1, <2>4, <3>2, TransferGoesOn DEF To, TransferSteps
    <3>3. QED
      BY <1>11, <3>1, <3>2 DEF Receive, Verify
  <2>6. QED
    BY <1>4, <2>3, <2>5 DEF TransferSafety
<1>12. CASE Cleanup
  <2>1. Moved /\ Owned2 /\ call' = None
    <3>1. call' = None /\ plan' = plan /\ outgoing' = outgoing /\ Arrives
      BY <1>12 DEF Cleanup, Fail
    <3>2. QED
      BY <3>1 DEF Arrives
  <2>2. QED
    BY <1>4, <2>1, CallEnds DEF TransferSafety
<1>13. QED
  BY <1>6, <1>7, <1>8, <1>9, <1>10, <1>11, <1>12

\* The versions of the plan are installed with their bytes.
LEMMA ActivateVersionsKeeps ==
  ASSUME TransferSafety, ActivateVersions
  PROVE  TransferSafety'
<1>0. StoreInv /\ PlanInv /\ OwnerInv /\ CallInv /\ FilesTyped
  BY DEF TransferSafety
<1>1. /\ UNCHANGED <<objects, pending, minted, outgoing, plan, staged, file, inodes, edits>>
      /\ call # None /\ call.op = "transfer" /\ call.step = "incoming" /\ call' = [call EXCEPT !.step = "versions"]
  BY DEF ActivateVersions, worldVars, budgets, transferVars, Transferring, To
<1>2. call \in TransferCall /\ plan # None /\ O \in outgoing
  BY <1>0, <1>1 DEF CallInv, TransferInv, StoreCall, HandedSteps
<1>3. plan.versions \subseteq VersionRecord /\ plan.versions \subseteq installed["parent"]
  BY <1>0, <1>2 DEF PlanInv, TransferPlan
<1>4. PICK vs, cs : vs = plan.versions /\ cs = {v.content : v \in plan.versions}
  OBVIOUS
<1>5. cs \subseteq Contents
  BY <1>3, <1>4 DEF VersionRecord
<1>6. /\ installed' = [installed EXCEPT !["nested"] = @ \cup vs]
      /\ blobs' = [blobs EXCEPT !["nested"] = @ \cup cs]
  BY <1>4 DEF ActivateVersions
<1>7. "nested" \in Stores /\ "parent" \in Stores
  BY DEF Stores
<1>8. /\ installed' \in [Stores -> SUBSET VersionRecord] /\ blobs' \in [Stores -> SUBSET Contents]
      /\ installed'["nested"] = installed["nested"] \cup vs /\ blobs'["nested"] = blobs["nested"] \cup cs
      /\ \A st \in Stores \ {"nested"} : installed'[st] = installed[st] /\ blobs'[st] = blobs[st]
  BY <1>0, <1>3, <1>4, <1>5, <1>6, <1>7 DEF StoreInv, StoresTyped
<1>9. \A st \in Stores : installed[st] \subseteq installed'[st] /\ blobs[st] \subseteq blobs'[st]
  BY <1>8
<1>10. \A st \in Stores : \A v \in installed'[st] : \E su \in Stores : v \in Versions(su)
  BY <1>3, <1>4, <1>7, <1>8 DEF Versions
<1>11. StoreInv'
  BY <1>0, <1>1, <1>8, <1>9, <1>10, StoresGrow
<1>12. PlanInv' /\ OwnerInv' /\ FilesTyped'
  BY <1>0, <1>1, <1>9, PlanKept, OwnersKept DEF FilesTyped
<1>13. Holds("nested", plan.versions)'
  BY <1>1, <1>4, <1>8 DEF Holds
<1>14. CallInv'
  <2>1. O' \in outgoing' /\ plan' # None
    BY <1>1, <1>2 DEF O
  <2>2. QED
    BY <1>1, <1>2, <1>13, <2>1, TransferGoesOn DEF TransferSteps
<1>15. QED
  BY <1>11, <1>12, <1>14 DEF TransferSafety

\* The Object arrives when the parent is denied it and every version of it has.
LEMMA ActivateObjectKeeps ==
  ASSUME TransferSafety, ActivateObject
  PROVE  TransferSafety'
<1>0. StoreInv /\ PlanInv /\ OwnerInv /\ CallInv /\ FilesTyped
  BY DEF TransferSafety
<1>1. /\ UNCHANGED <<installed, blobs, pending, minted, outgoing, staged, file, inodes, edits>>
      /\ call # None /\ call.op = "transfer" /\ call.step = "versions"
  BY DEF ActivateObject, worldVars, budgets, Transferring
<1>2. call \in TransferCall /\ plan # None /\ O \in outgoing /\ Holds("nested", plan.versions)
  BY <1>0, <1>1 DEF CallInv, TransferInv, StoreCall, HandedSteps
<1>3. plan \in TransferPlan /\ ValidPlan
  BY <1>0, <1>2 DEF PlanInv
<1>4. PICK r : r = Arrived
  OBVIOUS
<1>5. r \in ObjectRecord /\ r.id = O /\ r.versions = plan.object.versions /\ r.current = plan.object.current
  <2>1. plan.object \in ObjectRecord /\ plan.path \in Paths
    BY <1>3 DEF TransferPlan
  <2>2. QED
    BY <1>4, <2>1 DEF Arrived, ObjectRecord, O
<1>6. Whole(r, installed["nested"], blobs["nested"])
  <2>1. Contains(r.versions, r.current)
    BY <1>3, <1>5 DEF ValidPlan
  <2>2. \A i \in DOMAIN r.versions : \E v \in plan.versions : v.id = r.versions[i] /\ v.object = O
    <3>1. \A i \in DOMAIN r.versions : r.versions[i] \in ToSet(r.versions)
      BY DEF ToSet
    <3>2. QED
      BY <1>3, <1>5, <3>1 DEF ValidPlan
  <2>3. \A v \in plan.versions : v \in installed["nested"] /\ v.content \in blobs["nested"]
    BY <1>2 DEF Holds
  <2>4. QED
    BY <1>5, <2>1, <2>2, <2>3 DEF Whole, Listed, ListedFor
<1>7. "nested" \in Stores /\ "parent" \in Stores /\ Stores \ {"nested"} = {"parent"}
  BY DEF Stores
<1>8. /\ objects' \in [Stores -> SUBSET ObjectRecord]
      /\ objects["nested"] \subseteq objects'["nested"] /\ objects'["nested"] \subseteq objects["nested"] \cup {r}
      /\ objects'["parent"] = objects["parent"]
  <2>1. objects' \in {objects, [objects EXCEPT !["nested"] = @ \cup {r}]}
    BY <1>4 DEF ActivateObject
  <2>2. QED
    BY <2>1, <1>0, <1>5, <1>7 DEF StoreInv, StoresTyped
<1>9. \A st \in Stores : \A q \in objects'[st] : Whole(q, installed'[st], blobs'[st])
  BY <1>0, <1>1, <1>6, <1>7, <1>8 DEF StoreInv
<1>10. \A st \in Stores : Intent(st)' = Intent(st) /\ Versions(st)' = Versions(st)
  BY <1>1 DEF Intent, Versions
<1>11. \A st \in Stores : \A t \in Intent(st)' : Sound(t, installed'[st], blobs'[st])
  BY <1>0, <1>1, <1>10 DEF StoreInv
<1>12. Records("nested")' \subseteq Records("nested") \cup {r} /\ Records("parent")' = Records("parent")
  BY <1>7, <1>8, <1>10 DEF Records
<1>13. r.id <= minted
  <2>1. PICK q \in objects["parent"] : q.id = O
    BY <1>0, <1>2 DEF PlanInv
  <2>2. q.id <= minted
    BY <1>0, <1>7 DEF StoreInv, Minted, Records
  <2>3. QED
    BY <1>5, <2>1, <2>2
<1>14. Minted'
  <2>1. \A st \in Stores : \A q \in Records(st)' : q.id <= minted'
    BY <1>0, <1>1, <1>7, <1>12, <1>13 DEF StoreInv, Minted
  <2>2. QED
    BY <2>1, <1>0, <1>1, <1>10 DEF StoreInv, Minted
<1>15. StoreInv'
  BY <1>0, <1>1, <1>8, <1>9, <1>11, <1>14 DEF StoreInv, StoresTyped
<1>16. CASE Conflict
  <2>1. plan' # None /\ plan'.state = "conflicted" /\ O' = O /\ plan' \in TransferPlan
        /\ plan'.object = plan.object /\ plan'.path = plan.path /\ plan'.versions = plan.versions
    BY <1>2, <1>3, <1>16, StoredKeeps DEF Conflict, O
  <2>2. PlanInv'
    BY <1>0, <1>1, <1>2, <1>8, <2>1 DEF PlanInv, ValidPlan, Holds
  <2>3. OwnerInv'
    BY <1>0, <1>1, <1>2, <1>5, <1>12, <2>1 DEF OwnerInv
  <2>4. QED
    BY <1>0, <1>1, <1>15, <1>16, <2>2, <2>3, CallEnds DEF TransferSafety, FilesTyped, Conflict
<1>17. CASE call' = [call EXCEPT !.step = "active"] /\ plan' = plan
  <2>1. O' = O
    BY <1>17 DEF O
  <2>2. PlanInv'
    BY <1>0, <1>1, <1>8, <1>7, <1>17, PlanKept
  <2>3. OwnerInv'
    BY <1>0, <1>1, <1>2, <1>5, <1>12, <1>17, <2>1 DEF OwnerInv
  <2>4. CallInv'
    BY <1>1, <1>2, <1>17, <2>1, TransferGoesOn DEF TransferSteps
  <2>5. QED
    BY <1>0, <1>1, <1>15, <2>2, <2>3, <2>4 DEF TransferSafety, FilesTyped
<1>18. QED
  BY <1>16, <1>17 DEF ActivateObject, To

-----------------------------------------------------------------------------
(* The theorems.                                                           *)

\* Empty stores, no plan and no call.
LEMMA InitSafe == Init => TransferSafety
<1> SUFFICES ASSUME Init PROVE TransferSafety
  OBVIOUS
<1>1. StoreInv
  <2>1. StoresTyped
    BY DEF Init, StoreInit, StoresTyped
  <2>2. \A st \in Stores : objects[st] = {} /\ installed[st] = {} /\ Intent(st) = {}
    BY DEF Init, StoreInit, Intent
  <2>3. QED
    BY <2>1, <2>2 DEF StoreInv, Minted, Records, Versions
<1>2. FilesTyped
  BY StoreAssumption DEF Init, StoreInit, FilesTyped, FileRecord, Paths
<1>3. PlanInv /\ CallInv
  BY DEF Init, StoreInit, PlanInv, CallInv
<1>4. OwnerInv
  BY DEF Init, StoreInit, OwnerInv, Records, Intent, Stores
<1>5. QED
  BY <1>1, <1>2, <1>3, <1>4 DEF TransferSafety

\* Every step keeps the invariant.
LEMMA NextSafe == TransferSafety /\ [Next]_vars => TransferSafety'
<1> SUFFICES ASSUME TransferSafety, [Next]_vars PROVE TransferSafety'
  OBVIOUS
<1>1. CASE UNCHANGED vars
  <2>1. UNCHANGED <<objects, installed, blobs, pending, minted, outgoing, plan, staged, call, file, inodes, edits>>
    BY <1>1 DEF vars, worldVars, storeVars, budgets, transferVars
  <2>2. StoreInv' /\ OwnerInv' /\ PlanInv' /\ CallInv' /\ FilesTyped'
    BY <2>1, StoresKept, OwnersKept, PlanKept, CallKept DEF TransferSafety, FilesTyped
  <2>3. QED
    BY <2>2 DEF TransferSafety
<1>2. QED
  BY <1>1, StoreStepsKeep, ProposeKeeps, TransferStepsKeep, ActivateVersionsKeeps, ActivateObjectKeeps
     DEF Next, Transfer

\* The stores, their intents, the plan and the call fit together, always.
THEOREM TransferInvariance == Spec => []TransferSafety
<1>1. Init => TransferSafety
  BY InitSafe
<1>2. TransferSafety /\ [Next]_vars => TransferSafety'
  BY NextSafe
<1>3. QED
  BY <1>1, <1>2, PTL DEF Spec

\* Whatever a projection lists is installed with its bytes, wherever the calls of
\* LocalVersionStore or a transfer were interrupted.
THEOREM HistoryIsComplete == Spec => []HistoryComplete
<1>1. TransferSafety => HistoryComplete
  BY DEF TransferSafety, StoreInv, HistoryComplete, Whole, Listed, ListedFor
<1>2. QED
  BY <1>1, TransferInvariance, PTL

\* The nested Folderbase has a transferred Object only once the parent is denied
\* it, and by then its history is staged whole or installed there.
THEOREM OneOwnerAlways == Spec => []OneOwner
<1>1. TransferSafety => OneOwner
  <2> SUFFICES ASSUME TransferSafety PROVE OneOwner
    OBVIOUS
  <2>1. ASSUME NEW r \in objects["nested"], plan # None, r.id = O
        PROVE  O \in outgoing
    <3>1. PICK q \in objects["parent"] : q.id = O
      BY <2>1 DEF TransferSafety, PlanInv
    <3>2. r \in Records("nested") /\ q \in Records("parent")
      BY DEF Records
    <3>3. QED
      BY <2>1, <3>1, <3>2 DEF TransferSafety, OwnerInv
  <2>2. plan # None /\ O \in outgoing => staged = "whole" \/ Holds("nested", plan.versions)
    BY DEF TransferSafety, PlanInv
  <2>3. QED
    BY <2>1, <2>2 DEF OneOwner
<1>2. QED
  BY <1>1, TransferInvariance, PTL

\* A save replaces bytes only of a file it journaled, and unless somebody wrote
\* after the last check those bytes are an installed Version of the Object.
THEOREM SavesAlwaysKeepPrior == Spec => SavesKeepPrior
<1> DEFINE Kept ==
  \A p \in Paths :
    file[p] # None /\ file'[p] # file[p] /\ edits' = edits /\ file[p] = call.seen =>
      \E v \in installed[Here] : v.object = pending[Here].object.id /\ v.content = file[p].content
<1>1. ASSUME TransferSafety, [Next]_vars
      PROVE  Kept
  <2> SUFFICES ASSUME NEW p \in Paths, file[p] # None, file'[p] # file[p], edits' = edits, file[p] = call.seen
               PROVE  \E v \in installed[Here] : v.object = pending[Here].object.id /\ v.content = file[p].content
    OBVIOUS
  <2>1. ReplayRename
    <3>1. ~ UNCHANGED file
      OBVIOUS
    <3>2. ~ PeopleEdit
      BY <1>1 DEF PeopleEdit, TransferSafety, FilesTyped
    <3>3. CASE Calls
      BY <3>1, <3>3 DEF Calls, Reopen, Begin, worldVars
    <3>4. CASE Steps
      BY <3>1, <3>4 DEF Steps, OpenDone, ReadFile, CommitCapture, CommitSave, CommitRelocate, CommitRestore,
         ReplayCheck, ReplayInstall, ReplayVerify, ReplayProject, ReplayIdentity, ReplayAppend, ReplayRetire, worldVars
    <3>5. CASE Die \/ Nest \/ Propose \/ Approve \/ UNCHANGED vars
      BY <3>1, <3>5 DEF Die, Nest, Propose, Approve, vars, worldVars
    <3>6. CASE Transfer
      BY <3>1, <3>6 DEF Transfer, Start, Stage, Release, Released, Receive, ActivateVersions, ActivateObject,
         Verify, Cleanup, worldVars
    <3>7. QED
      BY <1>1, <3>2, <3>3, <3>4, <3>5, <3>6 DEF Next
  <2>2. call # None /\ call.op # "transfer" /\ call.step = "rename"
    BY <2>1 DEF ReplayRename, At
  <2>3. call \in StoreCall /\ StoreCallInv(call) /\ Here \in Stores
    BY <1>1, <2>2, StoreCalls DEF TransferSafety
  <2>4. PICK s, t : s \in Stores /\ s = Here /\ t = pending[s]
    BY <2>3
  <2>5. /\ t # None /\ Publishes(t) /\ t.versions \subseteq installed[s]
        /\ t.kind = "save" => call.seen.content = t.publish.prior
    BY <2>2, <2>3, <2>4 DEF StoreCallInv, ReplaySteps, InstalledSteps, Here
  <2>6. p = t.publish.path /\ t.kind = "save"
    <3>1. /\ PublishNew(t) \/ PublishOver(t)
          /\ file' = [file EXCEPT ![t.publish.path] = [ino |-> inodes + 1, content |-> t.publish.content]]
      BY <2>1, <2>4 DEF ReplayRename
    <3>2. p = t.publish.path
      BY <1>1, <3>1 DEF TransferSafety, FilesTyped
    <3>3. QED
      BY <1>1, <3>1, <3>2 DEF PublishNew, PublishOver
  <2>7. Sound(t, installed[s], blobs[s])
    BY <1>1, <2>4, <2>5 DEF TransferSafety, StoreInv, Intent
  <2>8. \E v \in installed[s] : v.object = t.object.id /\ v.content = file[p].content
    BY <2>5, <2>6, <2>7 DEF Sound
  <2>9. QED
    BY <2>4, <2>8
<1>2. [][Next]_vars /\ []TransferSafety => SavesKeepPrior
  <2>1. TransferSafety /\ [Next]_vars => [Kept]_vars
    BY <1>1
  <2>2. QED
    BY <2>1, PTL DEF SavesKeepPrior
<1>3. QED
  BY <1>2, TransferInvariance, PTL DEF Spec

-----------------------------------------------------------------------------
(* What an append adds.                                                    *)

\* The members of a bounded set of numbers, counted from the least, have each
\* place once.
LEMMA Placed ==
  ASSUME NEW n \in Nat, NEW S \in SUBSET (1 .. n)
  PROVE  /\ Cardinality(S) \in Nat
         /\ \A k \in 1 .. Cardinality(S) : \E i \in S : Cardinality({j \in S : j <= i}) = k
         /\ \A i \in S : Cardinality({j \in S : j <= i}) \in 1 .. Cardinality(S)
         /\ \A i, h \in S :
              Cardinality({j \in S : j <= i}) = Cardinality({j \in S : j <= h}) => i = h
<1> DEFINE Below(i) == {j \in S : j <= i}
           place == [i \in S |-> Cardinality(Below(i))]
<1>1. IsFiniteSet(S) /\ Cardinality(S) \in Nat
  <2>1. IsFiniteSet(1 .. n)
    BY FS_Interval
  <2>2. QED
    BY <2>1, FS_Subset, FS_CardinalityType
<1>2. \A i \in S : IsFiniteSet(Below(i)) /\ Cardinality(Below(i)) \in Nat /\ Cardinality(Below(i)) <= Cardinality(S)
  <2> TAKE i \in S
  <2>1. Below(i) \in SUBSET S
    OBVIOUS
  <2>2. QED
    BY <1>1, <2>1, FS_Subset, FS_CardinalityType
<1>3. \A i \in S : Cardinality(Below(i)) # 0
  <2> TAKE i \in S
  <2>1. i \in Below(i)
    OBVIOUS
  <2>2. QED
    BY <1>2, <2>1, FS_EmptySet
<1>4. \A i, j \in S : i < j => Cardinality(Below(i)) # Cardinality(Below(j))
  <2> SUFFICES ASSUME NEW i \in S, NEW j \in S, i < j PROVE Cardinality(Below(i)) # Cardinality(Below(j))
    OBVIOUS
  <2>0. i \in Nat /\ j \in Nat /\ \A x \in S : x \in Nat
    OBVIOUS
  <2>a. \A h \in S : \A x : x \in Below(h) <=> x \in S /\ x <= h
    OBVIOUS
  <2> HIDE DEF Below
  <2>1. Below(i) \in SUBSET Below(j) /\ j \in Below(j) /\ j \notin Below(i)
    <3>1. PICK B, C : B = Below(i) /\ C = Below(j)
      OBVIOUS
    <3>2. (\A x \in B : x \in S /\ x <= i) /\ \A x \in S : x <= j => x \in C
      BY <2>a, <3>1
    <3>a. j <= j /\ ~ (j <= i) /\ \A x \in S : x <= i => x <= j
      BY <2>0
    <3>3. j \in C /\ j \notin B
      BY <3>2, <3>a
    <3>4. B \in SUBSET C
      BY <3>2, <3>a
    <3>5. Below(i) \in SUBSET Below(j)
      BY <3>1, <3>4, Zenon
    <3>6. j \in Below(j) /\ j \notin Below(i)
      BY <3>1, <3>3, Zenon
    <3>7. QED
      BY <3>5, <3>6
  <2>2. Cardinality(Below(j)) = Cardinality(Below(i)) => Below(j) = Below(i)
    BY <1>2, <2>1, FS_Subset
  <2>3. QED
    BY <2>1, <2>2
<1> HIDE DEF Below
<1>5. place \in Injection(S, 1 .. Cardinality(S))
  <2>1. place \in [S -> 1 .. Cardinality(S)]
    BY <1>1, <1>2, <1>3
  <2>2. \A i, j \in S : place[i] = place[j] => i = j
    BY <1>4
  <2>3. QED
    BY <2>1, <2>2 DEF Injection, IsInjective
<1>6. place \in Surjection(S, 1 .. Cardinality(S))
  <2>1. IsFiniteSet(1 .. Cardinality(S)) /\ Cardinality(1 .. Cardinality(S)) = Cardinality(S)
    BY <1>1, FS_Interval
  <2>2. QED
    BY <1>5, <2>1, FS_Injection
<1>7. \A k \in 1 .. Cardinality(S) : \E i \in S : place[i] = k
  BY <1>6 DEF Surjection
<1>8. \A i \in S : place[i] = Cardinality({j \in S : j <= i})
  BY DEF Below
<1>9. \A i \in S : place[i] \in 1 .. Cardinality(S)
  BY <1>1, <1>2, <1>3
<1>10. \A i, h \in S : place[i] = place[h] => i = h
  BY <1>5 DEF Injection, IsInjective
<1> HIDE DEF place
<1>11. QED
  BY <1>1, <1>7, <1>8, <1>9, <1>10

\* The lines of an intent are lines, and no two of them are alike.
LEMMA LinesOfIntent ==
  ASSUME NEW t \in PendingTransaction, IsInjective(t.events)
  PROVE  /\ EventsOf(t) \in Seq(LineRecord) /\ DOMAIN EventsOf(t) = DOMAIN t.events
         /\ DOMAIN t.events = 1 .. Len(t.events) /\ Len(t.events) \in Nat
         /\ IsInjective(EventsOf(t))
         /\ \A i \in DOMAIN t.events : EventsOf(t)[i].what = t.events[i].what /\ EventsOf(t)[i].version = t.events[i].version
<1>1. t.events \in Seq(EventRecord) /\ t.id \in Nat /\ t.object.id \in Nat
  BY DEF PendingTransaction, ObjectRecord
<1>2. Len(t.events) \in Nat /\ DOMAIN t.events = 1 .. Len(t.events)
  BY <1>1
<1>3. \A i \in DOMAIN t.events :
        EventsOf(t)[i] = [transaction |-> t.id, object |-> t.object.id, what |-> t.events[i].what, version |-> t.events[i].version]
  BY DEF EventsOf
<1>4. DOMAIN EventsOf(t) = DOMAIN t.events
  BY DEF EventsOf
<1>5. \A i \in DOMAIN t.events : t.events[i] \in EventRecord
  BY <1>1
<1>6. \A i \in DOMAIN t.events :
        /\ EventsOf(t)[i].what = t.events[i].what /\ EventsOf(t)[i].version = t.events[i].version
        /\ EventsOf(t)[i] \in LineRecord
  <2> TAKE i \in DOMAIN t.events
  <2>1. PICK e : e = t.events[i]
    OBVIOUS
  <2>2. PICK n, o : n = t.id /\ o = t.object.id
    OBVIOUS
  <2>3. PICK l : l = EventsOf(t)[i]
    OBVIOUS
  <2>4. l = [transaction |-> n, object |-> o, what |-> e.what, version |-> e.version]
    BY <1>3, <2>1, <2>2, <2>3
  <2>5. l.what = e.what /\ l.version = e.version /\ l \in LineRecord
    BY <1>1, <1>5, <2>1, <2>2, <2>4 DEF LineRecord, EventRecord
  <2>6. QED
    BY <2>1, <2>3, <2>5
<1>7. EventsOf(t) \in [1 .. Len(t.events) -> LineRecord]
  BY <1>2, <1>6 DEF EventsOf
<1>8. EventsOf(t) \in Seq(LineRecord)
  BY <1>2, <1>7
<1>9. IsInjective(EventsOf(t))
  <2> SUFFICES ASSUME NEW i \in DOMAIN t.events, NEW j \in DOMAIN t.events, EventsOf(t)[i] = EventsOf(t)[j]
               PROVE  i = j
    BY <1>4 DEF IsInjective
  <2>1. PICK e, f : e = t.events[i] /\ f = t.events[j]
    OBVIOUS
  <2>2. e.what = f.what /\ e.version = f.version
    BY <1>6, <2>1
  <2>3. e = f
    BY <1>5, <2>1, <2>2 DEF EventRecord
  <2>4. QED
    BY <2>1, <2>3 DEF IsInjective
<1>10. QED
  BY <1>2, <1>4, <1>6, <1>8, <1>9

\* What an append adds is exactly the lines of the intent that the journal lacks.
LEMMA MissingLines ==
  ASSUME NEW t \in PendingTransaction, IsInjective(t.events)
  PROVE  /\ Missing(t) \in Seq(LineRecord) /\ IsInjective(Missing(t))
         /\ \A k \in DOMAIN Missing(t) : ~ Contains(journal[Here], Missing(t)[k])
         /\ \A i \in DOMAIN t.events :
              \/ Contains(journal[Here], EventsOf(t)[i])
              \/ \E k \in DOMAIN Missing(t) : Missing(t)[k] = EventsOf(t)[i]
<1> DEFINE untold == {i \in DOMAIN t.events : ~ Contains(journal[Here], EventsOf(t)[i])}
           place(i) == Cardinality({j \in untold : j <= i})
           Nth(k) == CHOOSE i \in untold : place(i) = k
<1>1. Missing(t) = [k \in 1 .. Cardinality(untold) |-> EventsOf(t)[Nth(k)]]
  BY DEF Missing
<1>u. untold \subseteq DOMAIN t.events /\ \A i \in DOMAIN t.events : i \in untold <=> ~ Contains(journal[Here], EventsOf(t)[i])
  OBVIOUS
<1> HIDE DEF untold
<1>2. /\ Cardinality(untold) \in Nat
      /\ \A k \in 1 .. Cardinality(untold) : \E i \in untold : place(i) = k
      /\ \A i \in untold : place(i) \in 1 .. Cardinality(untold)
  <2>1. Len(t.events) \in Nat /\ untold \in SUBSET (1 .. Len(t.events))
    BY <1>u, LinesOfIntent
  <2>2. QED
    BY <2>1, Placed
<1> HIDE DEF place
<1>3. \A k \in 1 .. Cardinality(untold) : Nth(k) \in untold /\ place(Nth(k)) = k
  BY <1>2
<1>4. \A i \in untold : place(i) \in 1 .. Cardinality(untold) /\ Nth(place(i)) = i
  BY <1>2, <1>3
<1> HIDE DEF Nth
<1>5. DOMAIN Missing(t) = 1 .. Cardinality(untold) /\ \A k \in 1 .. Cardinality(untold) : Missing(t)[k] = EventsOf(t)[Nth(k)]
  BY <1>1
<1>6. Missing(t) \in Seq(LineRecord)
  <2>1. \A k \in 1 .. Cardinality(untold) : EventsOf(t)[Nth(k)] \in LineRecord
    BY <1>3, <1>u, LinesOfIntent
  <2>2. Missing(t) \in [1 .. Cardinality(untold) -> LineRecord]
    BY <1>1, <2>1
  <2>3. QED
    BY <1>2, <2>2
<1>7. IsInjective(Missing(t))
  <2> SUFFICES ASSUME NEW k \in 1 .. Cardinality(untold), NEW m \in 1 .. Cardinality(untold),
                      Missing(t)[k] = Missing(t)[m]
               PROVE  k = m
    BY <1>5 DEF IsInjective
  <2>1. EventsOf(t)[Nth(k)] = EventsOf(t)[Nth(m)]
    BY <1>5
  <2>2. Nth(k) = Nth(m)
    BY <2>1, <1>3, <1>u, LinesOfIntent DEF IsInjective
  <2>3. QED
    BY <2>2, <1>3
<1>8. \A k \in DOMAIN Missing(t) : ~ Contains(journal[Here], Missing(t)[k])
  BY <1>3, <1>5, <1>u
<1>9. \A i \in untold : \E k \in DOMAIN Missing(t) : Missing(t)[k] = EventsOf(t)[i]
  BY <1>4, <1>5
<1>10. QED
  BY <1>6, <1>7, <1>8, <1>9, <1>u

\* Adding some of the lines the journal lacks, in their order, repeats none.
LEMMA Appended ==
  ASSUME NEW j \in Seq(LineRecord), IsInjective(j), NEW m \in Seq(LineRecord), IsInjective(m),
         \A k \in DOMAIN m : ~ Contains(j, m[k]), NEW n \in 0 .. Len(m)
  PROVE  /\ j \o SubSeq(m, 1, n) \in Seq(LineRecord) /\ IsInjective(j \o SubSeq(m, 1, n))
         /\ DOMAIN j \subseteq DOMAIN (j \o SubSeq(m, 1, n))
         /\ \A i \in DOMAIN j : (j \o SubSeq(m, 1, n))[i] = j[i]
<1>1. PICK s : s = SubSeq(m, 1, n)
  OBVIOUS
<1>2. s \in Seq(LineRecord) /\ Len(s) = n /\ \A i \in 1 .. n : s[i] = m[i]
  BY <1>1
<1>3. PICK l : l = j \o s
  OBVIOUS
<1>4. l \in Seq(LineRecord) /\ Len(l) = Len(j) + n /\ \A i \in 1 .. Len(j) : l[i] = j[i]
  <2>1. j \o s \in Seq(LineRecord)
    BY <1>2
  <2>2. Len(j \o s) = Len(j) + Len(s)
    BY <1>2
  <2>3. \A i \in 1 .. Len(j) : (j \o s)[i] = j[i]
    BY <1>2
  <2>4. QED
    BY <1>2, <1>3, <2>1, <2>2, <2>3
<1>5. \A i \in Len(j) + 1 .. Len(j) + n : i - Len(j) \in 1 .. n /\ l[i] = m[i - Len(j)]
  BY <1>2, <1>3
<1>6. DOMAIN j = 1 .. Len(j) /\ DOMAIN l = 1 .. Len(j) + n /\ DOMAIN m = 1 .. Len(m) /\ Len(j) \in Nat /\ Len(m) \in Nat
  BY <1>4
<1>7. IsInjective(l)
  <2> SUFFICES ASSUME NEW a \in 1 .. Len(j) + n, NEW b \in 1 .. Len(j) + n, l[a] = l[b]
               PROVE  a = b
    BY <1>6 DEF IsInjective
  <2>1. CASE a <= Len(j) /\ b <= Len(j)
    <3>1. a \in DOMAIN j /\ b \in DOMAIN j /\ j[a] = j[b]
      BY <1>4, <1>6, <2>1
    <3>2. QED
      BY <3>1 DEF IsInjective
  <2>2. CASE a > Len(j) /\ b > Len(j)
    <3>1. a - Len(j) \in 1 .. n /\ b - Len(j) \in 1 .. n /\ m[a - Len(j)] = m[b - Len(j)]
      BY <1>5, <1>6, <2>2
    <3>2. a - Len(j) \in DOMAIN m /\ b - Len(j) \in DOMAIN m
      BY <1>6, <3>1
    <3>3. a - Len(j) = b - Len(j)
      BY <3>1, <3>2 DEF IsInjective
    <3>4. QED
      BY <3>3, <1>6
  <2>3. ASSUME NEW x \in 1 .. Len(j), NEW y \in Len(j) + 1 .. Len(j) + n PROVE l[x] # l[y]
    <3>1. l[x] = j[x] /\ l[y] = m[y - Len(j)] /\ y - Len(j) \in DOMAIN m
      BY <1>4, <1>5, <1>6
    <3>2. ~ Contains(j, m[y - Len(j)])
      BY <3>1
    <3>3. QED
      BY <3>1, <3>2 DEF Contains
  <2>4. QED
    BY <2>1, <2>2, <2>3, <1>6
<1>8. QED
  BY <1>1, <1>3, <1>4, <1>6, <1>7

-----------------------------------------------------------------------------
(* The journal tells of everything, once.                                  *)

\* What a step must show: lines stay and none is told twice, an intent stays or
\* was told of, and every listed version was listed before or is accounted for.
LEMMA TellingMoves ==
  ASSUME JournalInv, journal' \in [Stores -> Seq(LineRecord)],
         \A v : HandedOver(v) => HandedOver(v)',
         \A st \in Stores : IsInjective(journal'[st]) /\ \A v : ToldOf(st, v) => ToldOf(st, v)',
         \A st \in Stores : \A t \in Intent(st)' : IsInjective(t.events),
         \A st \in Stores : \A t \in Intent(st) : t \in Intent(st)' \/ \A v : Tells(t, v) => ToldOf(st, v)',
         \A st \in Stores : \A r \in Records(st)' : \A v \in ToSet(r.versions) :
           (\E q \in Records(st) : v \in ToSet(q.versions)) \/ Accounted(st, v)'
  PROVE  journal' \in [Stores -> Seq(LineRecord)] /\ \A st \in Stores : TellingInv(st)'
<1>1. \A st \in Stores : \A v : Accounted(st, v) => Accounted(st, v)'
  <2> SUFFICES ASSUME NEW st \in Stores, NEW v, Accounted(st, v) PROVE Accounted(st, v)'
    OBVIOUS
  <2>1. CASE HandedOver(v)
    BY <2>1 DEF Accounted
  <2>2. CASE ToldOf(st, v)
    BY <2>2 DEF Accounted
  <2>3. CASE \E t \in Intent(st) : Tells(t, v)
    BY <2>3 DEF Accounted, Tells
  <2>4. QED
    BY <2>1, <2>2, <2>3 DEF Accounted
<1>2. \A st \in Stores : \A r \in Records(st)' : \A v \in ToSet(r.versions) : Accounted(st, v)'
  BY <1>1 DEF JournalInv, TellingInv
<1>3. QED
  BY <1>2 DEF TellingInv

\* A step that changes neither records nor intents nor lines.
LEMMA TellingKept ==
  ASSUME JournalInv, UNCHANGED <<objects, pending, journal>>, \A v : HandedOver(v) => HandedOver(v)'
  PROVE  journal' \in [Stores -> Seq(LineRecord)] /\ \A st \in Stores : TellingInv(st)'
<1>1. \A st \in Stores : Intent(st)' = Intent(st) /\ Records(st)' = Records(st)
  BY DEF Intent, Records
<1>2. journal' \in [Stores -> Seq(LineRecord)] /\ \A st \in Stores : IsInjective(journal'[st])
  BY DEF JournalInv, TellingInv
<1>3. \A st \in Stores : \A v : ToldOf(st, v) => ToldOf(st, v)'
  BY DEF ToldOf
<1>4. \A st \in Stores : \A t \in Intent(st)' : IsInjective(t.events)
  BY <1>1 DEF JournalInv, TellingInv
<1>5. QED
  BY <1>1, <1>2, <1>3, <1>4, TellingMoves

\* A step of a call that goes on with nothing of its own to do, or ends.
LEMMA RetiringKept ==
  ASSUME RetiringInv,
         \/ call' = None
         \/ call'.op = "transfer"
         \/ call'.step \notin {"work", "commit", "retire"}
         \/ UNCHANGED <<call, pending, journal>>
  PROVE  RetiringInv'
BY DEF RetiringInv, AllTold

\* A plan, once there, keeps its versions.
LEMMA PlanStays ==
  ASSUME TransferSafety, [Next]_vars
  PROVE  \A v : HandedOver(v) => HandedOver(v)'
<1> DEFINE States == {"proposed", "approved", "applying", "verified_destination", "released", "verified", "conflicted"}
<1>1. plan' = plan \/ plan = None \/ \E state \in States : Stored(state)
  BY DEF Next, vars, transferVars, Propose, Approve, Transfer, Start, Stage, Release, Released, Receive,
     ActivateVersions, ActivateObject, Verify, Cleanup, Conflict
<1>2. plan = None \/ plan \in TransferPlan
  BY DEF TransferSafety, PlanInv
<1>3. ASSUME plan \in TransferPlan, NEW state \in States, Stored(state)
      PROVE  plan'.versions = plan.versions /\ plan' # None
  <2>1. plan'.versions = plan.versions /\ plan' \in TransferPlan
    BY <1>3 DEF Stored, TransferPlan
  <2>2. QED
    BY <2>1, NoneIsNoRecord
<1>4. QED
  BY <1>1, <1>2, <1>3 DEF HandedOver

\* An append, or what a death left of it, adds lines and repeats none; a whole
\* one leaves nothing of its intent untold.
LEMMA JournalGrows ==
  ASSUME JournalInv, StoreInv, NEW s \in Stores, s = Here, NEW t \in Intent(s), NEW n \in 0 .. Len(Missing(t)),
         journal' = [journal EXCEPT ![s] = @ \o SubSeq(Missing(t), 1, n)]
  PROVE  /\ journal' \in [Stores -> Seq(LineRecord)]
         /\ \A st \in Stores : IsInjective(journal'[st]) /\ \A v : ToldOf(st, v) => ToldOf(st, v)'
         /\ Len(Missing(t)) \in Nat
         /\ n = Len(Missing(t)) => AllTold(s, t)'
<1>1. t \in PendingTransaction /\ IsInjective(t.events)
  BY DEF Intent, StoreInv, StoresTyped, JournalInv, TellingInv
<1>2. PICK j, m : j = journal[s] /\ m = Missing(t)
  OBVIOUS
<1>3. /\ m \in Seq(LineRecord) /\ IsInjective(m) /\ \A k \in DOMAIN m : ~ Contains(j, m[k])
      /\ \A i \in DOMAIN t.events : Contains(j, EventsOf(t)[i]) \/ \E k \in DOMAIN m : m[k] = EventsOf(t)[i]
  BY <1>1, <1>2, MissingLines
<1>4. j \in Seq(LineRecord) /\ IsInjective(j) /\ n \in 0 .. Len(m)
  BY <1>2 DEF JournalInv, TellingInv
<1>5. PICK l : l = j \o SubSeq(m, 1, n)
  OBVIOUS
<1>6. l \in Seq(LineRecord) /\ IsInjective(l) /\ DOMAIN j \subseteq DOMAIN l /\ \A i \in DOMAIN j : l[i] = j[i]
  BY <1>3, <1>4, <1>5, Appended
<1>7. journal'[s] = l /\ \A st \in Stores \ {s} : journal'[st] = journal[st]
  BY <1>2, <1>5 DEF JournalInv
<1>8. journal' \in [Stores -> Seq(LineRecord)]
  BY <1>2, <1>5, <1>6 DEF JournalInv
<1>9. \A st \in Stores : IsInjective(journal'[st])
  BY <1>6, <1>7 DEF JournalInv, TellingInv
<1>10. \A st \in Stores : \A v : ToldOf(st, v) => ToldOf(st, v)'
  BY <1>2, <1>6, <1>7 DEF ToldOf
<1>11. ASSUME n = Len(m) PROVE AllTold(s, t)'
  <2>1. Len(m) \in Nat /\ Len(j) \in Nat /\ DOMAIN m = 1 .. Len(m) /\ DOMAIN j = 1 .. Len(j)
    BY <1>3, <1>4
  <2>2. SubSeq(m, 1, n) = m
    BY <1>3, <1>11
  <2>3. l = j \o m
    BY <1>5, <2>2
  <2>4. Len(l) = Len(j) + Len(m) /\ \A k \in 1 .. Len(m) : l[k + Len(j)] = m[k]
    BY <1>3, <1>4, <2>3
  <2>5. \A i \in 1 .. Len(j) : i \in 1 .. Len(l) /\ l[i] = j[i]
    BY <1>6, <2>1, <2>4
  <2>6. \A k \in 1 .. Len(m) : k + Len(j) \in 1 .. Len(l)
    BY <2>1, <2>4
  <2>7. \A e : Contains(j, e) => Contains(l, e)
    BY <2>5 DEF Contains
  <2>8. \A k \in DOMAIN m : Contains(l, m[k])
    BY <2>1, <2>4, <2>6 DEF Contains
  <2>9. \A i \in DOMAIN t.events : Contains(l, EventsOf(t)[i])
    BY <1>3, <2>7, <2>8
  <2>10. QED
    BY <1>7, <2>9 DEF AllTold
<1>12. Len(m) \in Nat
  BY <1>3
<1>13. QED
  BY <1>2, <1>8, <1>9, <1>10, <1>11, <1>12

\* A step that makes an intent durable accounts for what it will list.
LEMMA CommitTells ==
  ASSUME TransferSafety, JournalInv, call # None, call.op # "transfer", call.step \in {"work", "commit"},
         CommitsTold, UNCHANGED <<objects, journal>>, \A v : HandedOver(v) => HandedOver(v)'
  PROVE  JournalInv'
<1>0. StoreInv /\ CallInv
  BY DEF TransferSafety
<1>1. call \in StoreCall /\ Here \in Stores
  BY <1>0, StoreCalls
<1>s. PICK s \in Stores : s = Here
  BY <1>1
<1>2. CASE call' = None /\ UNCHANGED pending
  BY <1>2, TellingKept, RetiringKept DEF JournalInv
<1>3. ASSUME NEW t \in PendingTransaction, NEW ids \in Nat, Commit(t, ids), Intended(t)
      PROVE  JournalInv'
  <2>1. pending' = [pending EXCEPT ![s] = t] /\ call' = [call EXCEPT !.step = "check", !.own = TRUE]
    BY <1>s, <1>3 DEF Commit
  <2>2. pending[s] = None
    BY <1>s DEF JournalInv, RetiringInv, Here
  <2>3. pending'[s] = t /\ \A st \in Stores \ {s} : pending'[st] = pending[st]
    BY <1>0, <2>1 DEF StoreInv, StoresTyped
  <2>4. t # None
    BY NoneIsNoRecord
  <2>5. /\ Intent(s)' = {t} /\ Intent(s) = {}
        /\ \A st \in Stores \ {s} : Intent(st)' = Intent(st)
    BY <2>2, <2>3, <2>4 DEF Intent
  <2>6. /\ Records(s)' = Records(s) \cup {t.object}
        /\ \A st \in Stores \ {s} : Records(st)' = Records(st)
    BY <2>5 DEF Records
  <2>7. \A st \in Stores : \A u \in Intent(st)' : IsInjective(u.events)
    BY <1>3, <2>5 DEF Intended, JournalInv, TellingInv
  <2>8. \A st \in Stores : \A u \in Intent(st) : u \in Intent(st)'
    BY <2>5
  <2>9. \A v \in ToSet(t.object.versions) :
          (\E q \in Records(s) : v \in ToSet(q.versions)) \/ Accounted(s, v)'
    <3> SUFFICES ASSUME NEW v \in ToSet(t.object.versions)
                 PROVE  (\E q \in Records(s) : v \in ToSet(q.versions)) \/ Accounted(s, v)'
      OBVIOUS
    <3>1. CASE \E r \in objects[Here] : v \in ToSet(r.versions)
      BY <1>s, <3>1 DEF Records
    <3>2. CASE Tells(t, v)
      <4>1. Tells(t, v)'
        BY <3>2 DEF Tells
      <4>2. QED
        BY <2>5, <4>1 DEF Accounted
    <3>3. QED
      BY <1>3, <3>1, <3>2 DEF Intended
  <2>10. \A st \in Stores : \A r \in Records(st)' : \A v \in ToSet(r.versions) :
           (\E q \in Records(st) : v \in ToSet(q.versions)) \/ Accounted(st, v)'
    BY <2>6, <2>9
  <2>11. journal' \in [Stores -> Seq(LineRecord)]
         /\ \A st \in Stores : IsInjective(journal'[st]) /\ \A v : ToldOf(st, v) => ToldOf(st, v)'
    BY DEF JournalInv, TellingInv, ToldOf
  <2>12. call'.step = "check"
    BY <1>1, <2>1 DEF StoreCall
  <2>13. RetiringInv'
    BY <2>12, RetiringKept DEF JournalInv
  <2>14. QED
    BY <2>7, <2>8, <2>10, <2>11, <2>13, TellingMoves DEF JournalInv
<1>4. QED
  BY <1>2, <1>3 DEF CommitsTold

\* The projection of an intent lists nothing the intent did not.
LEMMA ProjectTells ==
  ASSUME TransferSafety, JournalInv, ReplayProject, \A v : HandedOver(v) => HandedOver(v)'
  PROVE  JournalInv'
<1>0. StoreInv /\ CallInv /\ call # None /\ call.op # "transfer" /\ call.step = "project"
      /\ UNCHANGED <<pending, journal>>
  BY DEF TransferSafety, ReplayProject, At, budgets
<1>1. call \in StoreCall /\ StoreCallInv(call) /\ Here \in Stores
  BY <1>0, StoreCalls
<1>s. PICK s \in Stores : s = Here
  BY <1>1
<1>2. pending[s] \in Intent(s)
  BY <1>0, <1>1, <1>s DEF StoreCallInv, ReplaySteps, Intent, Here
<1>3. objects' = [objects EXCEPT ![s] = Rewrite(s, pending[s].object)] /\ To("identity")
  BY <1>s DEF ReplayProject
<1>4. /\ objects'[s] \subseteq objects[s] \cup {pending[s].object}
      /\ \A st \in Stores \ {s} : objects'[st] = objects[st]
  BY <1>0, <1>3 DEF Rewrite, StoreInv, StoresTyped
<1>5. \A st \in Stores : Intent(st)' = Intent(st)
  BY <1>0 DEF Intent
<1>6. \A st \in Stores : Records(st)' \subseteq Records(st)
  BY <1>2, <1>4, <1>5 DEF Records
<1>7. journal' \in [Stores -> Seq(LineRecord)]
      /\ \A st \in Stores : IsInjective(journal'[st]) /\ \A v : ToldOf(st, v) => ToldOf(st, v)'
  BY <1>0 DEF JournalInv, TellingInv, ToldOf
<1>8. \A st \in Stores : \A t \in Intent(st)' : IsInjective(t.events)
  BY <1>5 DEF JournalInv, TellingInv
<1>9. call'.step = "identity"
  BY <1>1, <1>3 DEF To, StoreCall
<1>10. RetiringInv'
  BY <1>9, RetiringKept DEF JournalInv
<1>11. QED
  BY <1>5, <1>6, <1>7, <1>8, <1>10, TellingMoves DEF JournalInv

\* An append tells of all the intent has.
LEMMA AppendTells ==
  ASSUME TransferSafety, JournalInv, ReplayAppend, \A v : HandedOver(v) => HandedOver(v)'
  PROVE  JournalInv'
<1>0. StoreInv /\ CallInv /\ call # None /\ call.op # "transfer" /\ call.step = "append"
      /\ UNCHANGED <<objects, pending>>
  BY DEF TransferSafety, ReplayAppend, At, budgets
<1>1. call \in StoreCall /\ StoreCallInv(call) /\ Here \in Stores
  BY <1>0, StoreCalls
<1>s. PICK s \in Stores : s = Here
  BY <1>1
<1>t. PICK t : t = pending[s]
  OBVIOUS
<1>2. t \in Intent(s) /\ t \in PendingTransaction
  BY <1>0, <1>1, <1>s, <1>t DEF StoreCallInv, ReplaySteps, Intent, Here, StoreInv, StoresTyped
<1>3. journal' = [journal EXCEPT ![s] = @ \o Missing(t)] /\ To("retire")
  BY <1>s, <1>t DEF ReplayAppend
<1>4. IsInjective(t.events)
  BY <1>2 DEF JournalInv, TellingInv
<1>5. PICK m : m = Missing(t)
  OBVIOUS
<1>6. m \in Seq(LineRecord)
  BY <1>2, <1>4, <1>5, MissingLines
<1>7. Len(m) \in 0 .. Len(m) /\ SubSeq(m, 1, Len(m)) = m
  BY <1>6
<1>8. journal' = [journal EXCEPT ![s] = @ \o SubSeq(Missing(t), 1, Len(Missing(t)))]
  BY <1>3, <1>5, <1>7
<1>9. /\ journal' \in [Stores -> Seq(LineRecord)]
      /\ \A st \in Stores : IsInjective(journal'[st]) /\ \A v : ToldOf(st, v) => ToldOf(st, v)'
      /\ AllTold(s, t)'
  BY <1>0, <1>2, <1>5, <1>7, <1>8, <1>s, JournalGrows
<1>10. \A st \in Stores : Intent(st)' = Intent(st) /\ Records(st)' = Records(st)
  BY <1>0 DEF Intent, Records
<1>11. \A st \in Stores : \A u \in Intent(st)' : IsInjective(u.events)
  BY <1>10 DEF JournalInv, TellingInv
<1>12. call'.step = "retire" /\ call'.store = s
  BY <1>1, <1>3, <1>s DEF To, StoreCall, Here
<1>13. pending'[s] = t
  BY <1>0, <1>t
<1>14. RetiringInv'
  BY <1>9, <1>12, <1>13 DEF RetiringInv, AllTold
<1>15. QED
  BY <1>9, <1>10, <1>11, <1>14, TellingMoves DEF JournalInv

\* An intent is retired when it was told of.
LEMMA RetireTells ==
  ASSUME TransferSafety, JournalInv, ReplayRetire, \A v : HandedOver(v) => HandedOver(v)'
  PROVE  JournalInv'
<1>0. StoreInv /\ CallInv /\ call # None /\ call.op # "transfer" /\ call.step = "retire"
      /\ UNCHANGED <<objects, journal>>
  BY DEF TransferSafety, ReplayRetire, At, budgets
<1>1. call \in StoreCall /\ StoreCallInv(call) /\ Here \in Stores
  BY <1>0, StoreCalls
<1>s. PICK s \in Stores : s = Here
  BY <1>1
<1>t. PICK t : t = pending[s]
  OBVIOUS
<1>2. t \in Intent(s) /\ t \in PendingTransaction /\ Intent(s) = {t}
  BY <1>0, <1>1, <1>s, <1>t DEF StoreCallInv, ReplaySteps, Intent, Here, StoreInv, StoresTyped
<1>3. pending' = [pending EXCEPT ![s] = None]
  BY <1>s DEF ReplayRetire
<1>4. pending'[s] = None /\ \A st \in Stores \ {s} : pending'[st] = pending[st]
  BY <1>0, <1>3 DEF StoreInv, StoresTyped
<1>5. Intent(s)' = {} /\ \A st \in Stores \ {s} : Intent(st)' = Intent(st)
  BY <1>4 DEF Intent
<1>6. \A st \in Stores : Records(st)' \subseteq Records(st)
  BY <1>0, <1>5 DEF Records
<1>7. journal' \in [Stores -> Seq(LineRecord)]
      /\ \A st \in Stores : IsInjective(journal'[st]) /\ \A v : ToldOf(st, v) => ToldOf(st, v)'
  BY <1>0 DEF JournalInv, TellingInv, ToldOf
<1>8. \A st \in Stores : \A u \in Intent(st)' : IsInjective(u.events)
  BY <1>5 DEF JournalInv, TellingInv
<1>9. \A v : Tells(t, v) => ToldOf(s, v)'
  <2> SUFFICES ASSUME NEW v, NEW i \in DOMAIN t.events, t.events[i].what = "captured", t.events[i].version = v
               PROVE  ToldOf(s, v)'
    BY DEF Tells
  <2>1. IsInjective(t.events)
    BY <1>2 DEF JournalInv, TellingInv
  <2>2. EventsOf(t)[i].what = "captured" /\ EventsOf(t)[i].version = v
    BY <1>2, <2>1, LinesOfIntent
  <2>3. AllTold(s, t)
    BY <1>0, <1>s, <1>t DEF JournalInv, RetiringInv, Here
  <2>4. PICK k \in 1 .. Len(journal[s]) : journal[s][k] = EventsOf(t)[i]
    BY <2>3 DEF AllTold, Contains
  <2>5. k \in DOMAIN journal[s]
    BY <2>4 DEF JournalInv
  <2>6. QED
    BY <1>0, <2>2, <2>4, <2>5 DEF ToldOf
<1>10. \A st \in Stores : \A u \in Intent(st) : u \in Intent(st)' \/ \A v : Tells(u, v) => ToldOf(st, v)'
  BY <1>2, <1>5, <1>9
<1>11. RetiringInv'
  <2>1. CASE call' = None
    BY <2>1 DEF RetiringInv
  <2>2. CASE call' = [call EXCEPT !.step = "work"]
    <3>1. call'.step = "work" /\ call'.store = s
      BY <1>1, <1>s, <2>2 DEF StoreCall, Here
    <3>2. QED
      BY <1>4, <3>1 DEF RetiringInv
  <2>3. QED
    BY <2>1, <2>2 DEF ReplayRetire, Fail, To
<1>12. QED
  BY <1>6, <1>7, <1>8, <1>10, <1>11, TellingMoves DEF JournalInv

\* A death in an append leaves some of the lines.
LEMMA DieTells ==
  ASSUME TransferSafety, JournalInv, Die, \A v : HandedOver(v) => HandedOver(v)'
  PROVE  JournalInv'
<1>0. StoreInv /\ CallInv /\ call' = None /\ UNCHANGED <<objects, pending>>
  BY DEF TransferSafety, Die
<1>1. RetiringInv'
  BY <1>0 DEF RetiringInv
<1>2. CASE ~ At("append")
  BY <1>0, <1>1, <1>2, TellingKept DEF Die, JournalInv
<1>3. CASE At("append")
  <2>1. call # None /\ call.op # "transfer" /\ call.step = "append"
    BY <1>3 DEF At
  <2>2. call \in StoreCall /\ StoreCallInv(call) /\ Here \in Stores
    BY <1>0, <2>1, StoreCalls
  <2>3. PICK s \in Stores : s = Here
    BY <2>2
  <2>4. PICK t : t = pending[s]
    OBVIOUS
  <2>5. t \in Intent(s)
    BY <2>1, <2>2, <2>3, <2>4 DEF StoreCallInv, ReplaySteps, Intent, Here
  <2>6. PICK n \in 0 .. Len(Missing(t)) : journal' = [journal EXCEPT ![s] = @ \o SubSeq(Missing(t), 1, n)]
    BY <1>3, <2>3, <2>4 DEF Die
  <2>7. /\ journal' \in [Stores -> Seq(LineRecord)]
        /\ \A st \in Stores : IsInjective(journal'[st]) /\ \A v : ToldOf(st, v) => ToldOf(st, v)'
    BY <1>0, <2>3, <2>5, <2>6, JournalGrows
  <2>8. \A st \in Stores : Intent(st)' = Intent(st) /\ Records(st)' = Records(st)
    BY <1>0 DEF Intent, Records
  <2>9. \A st \in Stores : \A u \in Intent(st)' : IsInjective(u.events)
    BY <2>8 DEF JournalInv, TellingInv
  <2>10. QED
    BY <1>1, <2>7, <2>8, <2>9, TellingMoves DEF JournalInv
<1>4. QED
  BY <1>2, <1>3

\* Every step of a store's call, and people's.
LEMMA StoreStepsTell ==
  ASSUME TransferSafety, JournalInv, Calls \/ Steps \/ Die \/ PeopleEdit \/ Nest, UNCHANGED transferVars,
         \A v : HandedOver(v) => HandedOver(v)'
  PROVE  JournalInv'
<1>0. StoreInv /\ OwnerInv /\ CallInv /\ PlanInv /\ UNCHANGED <<plan, staged>>
  BY DEF TransferSafety, transferVars
<1>1. ASSUME UNCHANGED <<objects, pending, journal>>, RetiringInv' PROVE JournalInv'
  BY <1>1, TellingKept DEF JournalInv
<1>2. CASE Calls
  <2>1. PICK op, s, p, arg :
          op \in {"open", "capture", "save", "relocate", "restore"} /\ s \in Stores /\ Begin(op, s, p, arg)
    BY <1>2 DEF Calls, Reopen
  <2>2. PICK first \in {"work", "check"} : first = IF pending[s] = None THEN "work" ELSE "check"
    OBVIOUS
  <2>3. call' = [op |-> op, store |-> s, path |-> p, arg |-> arg, seen |-> None, own |-> FALSE, step |-> first]
    BY <2>1, <2>2 DEF Begin
  <2>4. UNCHANGED <<objects, pending, journal>>
    BY <2>1 DEF Begin
  <2>5. RetiringInv'
    BY <2>2, <2>3, <2>4 DEF RetiringInv
  <2>6. QED
    BY <1>1, <2>4, <2>5
<1>3. CASE Die
  BY <1>3, DieTells
<1>4. CASE PeopleEdit \/ Nest
  <2>1. UNCHANGED <<objects, pending, journal, call>>
    BY <1>4 DEF PeopleEdit, Nest, storeVars
  <2>2. QED
    BY <1>1, <2>1, RetiringKept DEF JournalInv
<1>5. CASE Steps
  <2>1. CASE OpenDone
    BY <1>1, <2>1, RetiringKept DEF OpenDone, Fail, storeVars, JournalInv
  <2>2. CASE ReadFile
    <3>1. UNCHANGED <<objects, pending, journal>> /\ call # None /\ call.op # "transfer" /\ call.step = "work"
      BY <2>2 DEF ReadFile, At
    <3>2. call \in StoreCall
      BY <1>0, <3>1, StoreCalls
    <3>3. pending[call.store] = None
      BY <3>1 DEF JournalInv, RetiringInv
    <3>4. CASE call' = None
      BY <1>1, <3>1, <3>4 DEF RetiringInv
    <3>5. CASE call' = [call EXCEPT !.step = "commit", !.seen = file[call.path]]
      <4>1. call'.step = "commit" /\ call'.store = call.store
        BY <3>2, <3>5 DEF StoreCall
      <4>2. RetiringInv'
        BY <3>1, <3>3, <4>1 DEF RetiringInv
      <4>3. QED
        BY <1>1, <3>1, <4>2
    <3>6. QED
      BY <2>2, <3>4, <3>5 DEF ReadFile, Fail
  <2>3. CASE CommitCapture \/ CommitSave \/ CommitRelocate \/ CommitRestore
    <3>1. outgoing' = outgoing /\ UNCHANGED <<objects, journal>>
      BY <2>3 DEF CommitCapture, CommitSave, CommitRelocate, CommitRestore
    <3>2. CommitsTold
      BY <1>0, <2>3, <3>1, CaptureCommits, SaveCommits, RelocateCommits, RestoreCommits
    <3>3. call # None /\ call.op # "transfer" /\ call.step \in {"work", "commit"}
      BY <2>3 DEF CommitCapture, CommitSave, CommitRelocate, CommitRestore, Working, At
    <3>4. QED
      BY <3>1, <3>2, <3>3, CommitTells
  <2>4. CASE ReplayCheck \/ ReplayInstall \/ ReplayVerify \/ ReplayRename \/ ReplayIdentity
    <3>1. UNCHANGED <<objects, pending, journal>> /\ call # None /\ call.op # "transfer"
      BY <2>4 DEF ReplayCheck, ReplayInstall, ReplayVerify, ReplayRename, ReplayIdentity, storeVars, At
    <3>2. call \in StoreCall
      BY <1>0, <3>1, StoreCalls
    <3>3. \/ call' = None
          \/ \E next \in {"install", "publish", "project", "append"} : call' = [call EXCEPT !.step = next]
          \/ call' = [call EXCEPT !.step = "rename", !.seen = file[pending[Here].publish.path]]
      BY <2>4 DEF ReplayCheck, ReplayInstall, ReplayVerify, ReplayRename, ReplayIdentity, To, Fail
    <3>4. call' = None \/ call'.step \in {"install", "publish", "project", "append", "rename"}
      BY <3>2, <3>3 DEF StoreCall
    <3>5. QED
      BY <1>1, <3>1, <3>4, RetiringKept DEF JournalInv
  <2>5. CASE ReplayProject
    BY <2>5, ProjectTells
  <2>6. CASE ReplayAppend
    BY <2>6, AppendTells
  <2>7. CASE ReplayRetire
    BY <2>7, RetireTells
  <2>8. QED
    BY <1>5, <2>1, <2>2, <2>3, <2>4, <2>5, <2>6, <2>7 DEF Steps
<1>6. QED
  BY <1>2, <1>3, <1>4, <1>5

\* Every step of a transfer: what arrives was told of where it comes from.
LEMMA TransferTells ==
  ASSUME TransferSafety, JournalInv, Propose \/ Approve \/ Transfer, \A v : HandedOver(v) => HandedOver(v)'
  PROVE  JournalInv'
<1>0. StoreInv /\ CallInv /\ PlanInv /\ UNCHANGED <<pending, journal>>
  BY DEF TransferSafety, Propose, Approve, Transfer, Start, Stage, Release, Released, Receive,
     ActivateVersions, ActivateObject, Verify, Cleanup, storeVars
<1>1. RetiringInv'
  <2>1. \/ call' = None \/ call' = call
        \/ \E step : call' = [op |-> "transfer", step |-> step, store |-> "nested"]
        \/ call # None /\ call.op = "transfer" /\ \E step : To(step)
    BY DEF Propose, Approve, Transfer, Start, Stage, Release, Released, Receive,
       ActivateVersions, ActivateObject, Verify, Cleanup, Conflict, Transferring, Fail
  <2>2. CASE call # None /\ call.op = "transfer" /\ \E step : To(step)
    <3>1. call \in TransferCall
      BY <1>0, <2>2 DEF CallInv, StoreCall
    <3>2. call'.op = "transfer"
      BY <2>2, <3>1 DEF To, TransferCall
    <3>3. QED
      BY <3>2, RetiringKept DEF JournalInv
  <2>3. QED
    BY <1>0, <2>1, <2>2, RetiringKept DEF JournalInv
<1>2. CASE UNCHANGED objects
  BY <1>0, <1>1, <1>2, TellingKept DEF JournalInv
<1>3. CASE ActivateObject /\ ~ Has("nested", O)
  <2>1. plan # None /\ plan \in TransferPlan /\ ValidPlan
    BY <1>0, <1>3 DEF ActivateObject, Transferring, CallInv, TransferInv, StoreCall, PlanInv
  <2>2. /\ objects'["nested"] = objects["nested"] \cup {Arrived}
        /\ \A st \in Stores \ {"nested"} : objects'[st] = objects[st]
    <3>1. objects' = [objects EXCEPT !["nested"] = @ \cup {Arrived}] /\ "nested" \in Stores
      BY <1>3 DEF ActivateObject, Stores
    <3>2. objects \in [Stores -> SUBSET ObjectRecord]
      BY <1>0 DEF StoreInv, StoresTyped
    <3>3. QED
      BY <3>1, <3>2
  <2>3. Arrived.versions = plan.object.versions
    BY <2>1 DEF Arrived, TransferPlan, ObjectRecord
  <2>4. \A v \in ToSet(Arrived.versions) : HandedOver(v)
    <3>1. ToSet(Arrived.versions) = {w.id : w \in plan.versions}
      BY <2>1, <2>3 DEF ValidPlan
    <3>2. QED
      BY <2>1, <3>1 DEF HandedOver
  <2>5. \A st \in Stores : Intent(st)' = Intent(st)
    BY <1>0 DEF Intent
  <2>6. \A st \in Stores : \A r \in Records(st)' : r \in Records(st) \/ r = Arrived
    BY <2>2, <2>5 DEF Records
  <2>7. journal' \in [Stores -> Seq(LineRecord)]
        /\ \A st \in Stores : IsInjective(journal'[st]) /\ \A v : ToldOf(st, v) => ToldOf(st, v)'
    BY <1>0 DEF JournalInv, TellingInv, ToldOf
  <2>8. \A st \in Stores : \A t \in Intent(st)' : IsInjective(t.events)
    BY <2>5 DEF JournalInv, TellingInv
  <2>9. \A st \in Stores : \A r \in Records(st)' : \A v \in ToSet(r.versions) :
          (\E q \in Records(st) : v \in ToSet(q.versions)) \/ Accounted(st, v)'
    BY <2>4, <2>6 DEF Accounted
  <2>10. QED
    BY <1>1, <2>5, <2>7, <2>8, <2>9, TellingMoves DEF JournalInv
<1>4. QED
  BY <1>2, <1>3 DEF Propose, Approve, Transfer, Start, Stage, Release, Released, Receive,
     ActivateVersions, ActivateObject, Verify, Cleanup, storeVars

\* The journal's invariant, on top of that of stores and transfer.
LEMMA JournalAlwaysTells == Spec => []JournalInv
<1>1. Init => JournalInv
  <2> SUFFICES ASSUME Init PROVE JournalInv
    OBVIOUS
  <2>1. /\ journal = [st \in Stores |-> <<>>] /\ pending = [st \in Stores |-> None]
        /\ objects = [st \in Stores |-> {}] /\ call = None
    BY DEF Init, StoreInit
  <2>2. journal \in [Stores -> Seq(LineRecord)] /\ \A st \in Stores : IsInjective(journal[st])
    BY <2>1 DEF IsInjective
  <2>3. \A st \in Stores : Intent(st) = {} /\ Records(st) = {}
    BY <2>1 DEF Intent, Records
  <2>4. QED
    BY <2>1, <2>2, <2>3 DEF JournalInv, TellingInv, RetiringInv
<1>2. TransferSafety /\ JournalInv /\ [Next]_vars => JournalInv'
  <2> SUFFICES ASSUME TransferSafety, JournalInv, [Next]_vars PROVE JournalInv'
    OBVIOUS
  <2>1. \A v : HandedOver(v) => HandedOver(v)'
    BY PlanStays
  <2>2. CASE UNCHANGED vars
    <3>1. UNCHANGED <<objects, pending, journal, call>>
      BY <2>2 DEF vars, storeVars
    <3>2. QED
      BY <2>1, <3>1, TellingKept, RetiringKept DEF JournalInv
  <2>3. QED
    BY <2>1, <2>2, StoreStepsTell, TransferTells DEF Next
<1>3. QED
  BY <1>1, <1>2, TransferInvariance, PTL DEF Spec

\* No line of a journal repeats, however often an intent was replayed; and once
\* nothing is pending every version captured in a store has its line.
THEOREM EveryChangeToldOnce == Spec => []JournalTellsOnce
<1>1. TransferSafety /\ JournalInv => JournalTellsOnce
  <2> SUFFICES ASSUME TransferSafety, JournalInv PROVE JournalTellsOnce
    OBVIOUS
  <2>1. ASSUME NEW st \in Stores, pending[st] = None, NEW r \in objects[st], NEW v \in ToSet(r.versions)
        PROVE  \/ plan # None /\ \E w \in plan.versions : w.id = v
               \/ \E e \in ToSet(journal[st]) : e.what = "captured" /\ e.version = v
    <3>1. Intent(st) = {} /\ r \in Records(st)
      BY <2>1 DEF Intent, Records
    <3>2. HandedOver(v) \/ ToldOf(st, v)
      BY <3>1 DEF JournalInv, TellingInv, Accounted
    <3>3. QED
      BY <3>2 DEF HandedOver, ToldOf, ToSet
  <2>2. \A st \in Stores : IsInjective(journal[st])
    BY DEF JournalInv, TellingInv
  <2>3. QED
    BY <2>1, <2>2 DEF JournalTellsOnce
<1>2. QED
  BY <1>1, TransferInvariance, JournalAlwaysTells, PTL

-----------------------------------------------------------------------------
(* Histories only grow.                                                    *)

UniqueRecords == \A st \in Stores : \A q, r \in objects[st] : q.id = r.id => q = r

\* An intent adds versions to the record it will replace, and the parent is not
\* denied that Object.
Extends(st, t) ==
  /\ \A r \in objects[st] : r.id = t.object.id => IsPrefix(r.versions, t.object.versions)
  /\ st = "parent" => t.object.id \notin outgoing
IntentsExtend == \A st \in Stores : \A t \in Intent(st) : Extends(st, t)

\* While a transfer runs nothing is pending.
TransfersAlone == call # None /\ call.op = "transfer" => Quiet

\* What a call found of its path still holds when it commits.
CommitFinds == call # None /\ call.op # "transfer" /\ call.step = "commit" => ~ FindFails(Here, call.path)

OutgoingKnown == \A o \in outgoing : \E r \in objects["parent"] : r.id = o

GrowthInv == UniqueRecords /\ IntentsExtend /\ TransfersAlone /\ CommitFinds /\ OutgoingKnown

\* What a step may do to a store: its versions, bytes and lines stay, a record gets
\* more versions at its end, and one the parent handed on stays as it was.
OnlyGrows(st) ==
  /\ installed[st] \subseteq installed'[st] /\ blobs[st] \subseteq blobs'[st]
  /\ IsPrefix(journal[st], journal'[st])
  /\ \A r \in objects[st] : \E n \in objects'[st] :
       /\ n.id = r.id /\ IsPrefix(r.versions, n.versions)
       /\ st = "parent" /\ r.id \in outgoing => n = r

\* No call, crash, replay or transfer takes back what a store has, and once a history
\* was handed on nothing is added to it in the parent.
HistoriesOnlyGrow ==
  [][/\ \A st \in Stores : OnlyGrows(st)
     /\ outgoing \subseteq outgoing' /\ incoming \subseteq incoming']_vars

\* The steps that write each part of a store.
LEMMA StoreWriters ==
  ASSUME [Next]_vars
  PROVE  /\ installed' = installed \/ ReplayInstall \/ ActivateVersions
         /\ blobs' = blobs \/ ReadFile \/ ActivateVersions
         /\ journal' = journal \/ ReplayAppend \/ (Die /\ At("append"))
         /\ objects' = objects \/ ReplayProject \/ (ActivateObject /\ ~ Has("nested", O))
         /\ outgoing' = outgoing \/ Release
         /\ incoming' = incoming \/ Receive
         /\ \/ pending' = pending
            \/ (CommitCapture \/ CommitSave \/ CommitRelocate \/ CommitRestore) /\ UNCHANGED transferVars
            \/ ReplayRetire
<1>1. CASE Calls /\ UNCHANGED transferVars
  BY <1>1 DEF Calls, Reopen, Begin, transferVars
<1>2. CASE Steps /\ UNCHANGED transferVars
  BY <1>2 DEF Steps, OpenDone, ReadFile, CommitCapture, CommitSave, CommitRelocate, CommitRestore,
     ReplayCheck, ReplayInstall, ReplayVerify, ReplayRename, ReplayProject, ReplayIdentity, ReplayAppend,
     ReplayRetire, storeVars, transferVars
<1>3. CASE (Die \/ PeopleEdit \/ Nest) /\ UNCHANGED transferVars
  BY <1>3 DEF Die, PeopleEdit, Nest, storeVars, transferVars
<1>4. CASE Propose \/ Approve \/ UNCHANGED vars
  BY <1>4 DEF Propose, Approve, vars, storeVars, transferVars
<1>5. CASE Transfer
  <2>1. CASE Start \/ Stage \/ Released \/ Verify \/ Cleanup
    BY <2>1 DEF Start, Stage, Released, Verify, Cleanup, storeVars
  <2>2. CASE Release \/ Receive
    BY <2>2 DEF Release, Receive, storeVars
  <2>3. CASE ActivateVersions
    BY <2>3 DEF ActivateVersions, transferVars
  <2>4. CASE ActivateObject
    BY <2>4 DEF ActivateObject
  <2> QED BY <1>5, <2>1, <2>2, <2>3, <2>4 DEF Transfer
<1> QED
  BY <1>1, <1>2, <1>3, <1>4, <1>5 DEF Next

\* The journal of a store keeps its lines.
LEMMA LinesStay ==
  ASSUME TransferSafety, JournalInv, [Next]_vars
  PROVE  \A st \in Stores : IsPrefix(journal[st], journal'[st])
<1>0. journal \in [Stores -> Seq(LineRecord)]
  BY DEF JournalInv
<1>1. CASE journal' = journal
  BY <1>0, <1>1, PrefixJoined
<1>2. ASSUME At("append"),
             \E m : /\ m = Missing(pending[Here]) \/ \E n \in 0 .. Len(Missing(pending[Here])) :
                         m = SubSeq(Missing(pending[Here]), 1, n)
                    /\ journal' = [journal EXCEPT ![Here] = @ \o m]
      PROVE  \A st \in Stores : IsPrefix(journal[st], journal'[st])
  <2>1. call # None /\ call.op # "transfer" /\ call.step = "append"
    BY <1>2 DEF At
  <2>2. Here \in Stores /\ pending[Here] \in Intent(Here)
    BY <2>1, StoreCalls DEF TransferSafety, StoreCallInv, ReplaySteps, Intent, Here
  <2>3. pending[Here] \in PendingTransaction /\ IsInjective(pending[Here].events)
    BY <2>2 DEF TransferSafety, StoreInv, StoresTyped, Intent, JournalInv, TellingInv
  <2>4. PICK w : w = Missing(pending[Here])
    OBVIOUS
  <2>5. w \in Seq(LineRecord)
    BY <2>3, <2>4, MissingLines
  <2>6. PICK m : /\ m = w \/ \E n \in 0 .. Len(w) : m = SubSeq(w, 1, n)
                 /\ journal' = [journal EXCEPT ![Here] = @ \o m]
    BY <1>2, <2>4
  <2>7. m \in Seq(LineRecord)
    BY <2>5, <2>6
  <2>8. \A st \in Stores : journal'[st] = journal[st] \/ journal'[st] = journal[st] \o m
    BY <1>0, <2>2, <2>6
  <2>9. \A st \in Stores : IsPrefix(journal[st], journal[st] \o m) /\ IsPrefix(journal[st], journal[st])
    BY <1>0, <2>7, PrefixJoined
  <2> QED BY <2>8, <2>9
<1>3. CASE ReplayAppend
  BY <1>2, <1>3 DEF ReplayAppend
<1>4. CASE Die /\ At("append")
  BY <1>2, <1>4 DEF Die
<1> QED
  BY <1>1, <1>3, <1>4, StoreWriters

\* A record only gets more versions, and one that was handed on stays as it was.
LEMMA RecordsStay ==
  ASSUME TransferSafety, GrowthInv, [Next]_vars
  PROVE  \A st \in Stores : \A r \in objects[st] : \E n \in objects'[st] :
           /\ n.id = r.id /\ IsPrefix(r.versions, n.versions)
           /\ st = "parent" /\ r.id \in outgoing => n = r
<1>0. /\ objects \in [Stores -> SUBSET ObjectRecord]
      /\ \A st \in Stores : \A r \in objects[st] : r.versions \in Seq(Nat)
  BY DEF TransferSafety, StoreInv, StoresTyped, ObjectRecord
<1>1. \A st \in Stores : \A r \in objects[st] : IsPrefix(r.versions, r.versions)
  BY <1>0, PrefixJoined
<1>2. CASE \A st \in Stores : objects[st] \subseteq objects'[st]
  BY <1>1, <1>2
<1>3. CASE ReplayProject
  <2>1. call # None /\ call.op # "transfer" /\ call.step = "project"
    BY <1>3 DEF ReplayProject, At
  <2>2. PICK s \in Stores : s = Here
    BY <2>1, StoreCalls DEF TransferSafety
  <2>3. PICK t : t = pending[s]
    OBVIOUS
  <2>4. t \in Intent(s)
    BY <2>1, <2>2, <2>3, StoreCalls DEF TransferSafety, StoreCallInv, ReplaySteps, Intent, Here
  <2>5. Extends(s, t)
    BY <2>4 DEF GrowthInv, IntentsExtend
  <2>6. /\ objects'[s] = {q \in objects[s] : q.id # t.object.id} \cup {t.object}
        /\ \A st \in Stores \ {s} : objects'[st] = objects[st]
    BY <1>0, <1>3, <2>2, <2>3 DEF ReplayProject, Rewrite
  <2>7. ASSUME NEW r \in objects[s]
        PROVE  \E n \in objects'[s] : /\ n.id = r.id /\ IsPrefix(r.versions, n.versions)
                                      /\ s = "parent" /\ r.id \in outgoing => n = r
    <3>1. CASE r.id = t.object.id
      BY <2>5, <2>6, <3>1 DEF Extends
    <3>2. CASE r.id # t.object.id
      BY <1>1, <2>6, <3>2
    <3> QED BY <3>1, <3>2
  <2> QED BY <1>1, <2>6, <2>7
<1>4. CASE ActivateObject /\ ~ Has("nested", O)
  <2>1. objects' = [objects EXCEPT !["nested"] = @ \cup {Arrived}]
    BY <1>4 DEF ActivateObject
  <2>2. \A st \in Stores : objects[st] \subseteq objects'[st]
    BY <1>0, <2>1
  <2> QED BY <1>2, <2>2
<1> QED
  BY <1>2, <1>3, <1>4, StoreWriters

\* What a step does to the stores.
LEMMA StoresOnlyGrow ==
  ASSUME TransferSafety, JournalInv, GrowthInv, [Next]_vars
  PROVE  /\ \A st \in Stores : OnlyGrows(st)
         /\ outgoing \subseteq outgoing' /\ incoming \subseteq incoming'
<1>0. installed \in [Stores -> SUBSET VersionRecord] /\ blobs \in [Stores -> SUBSET Contents]
  BY DEF TransferSafety, StoreInv, StoresTyped
<1>1. \A st \in Stores : installed[st] \subseteq installed'[st]
  BY <1>0, StoreWriters DEF ReplayInstall, ActivateVersions
<1>2. \A st \in Stores : blobs[st] \subseteq blobs'[st]
  BY <1>0, StoreWriters DEF ReadFile, ActivateVersions
<1>3. outgoing \subseteq outgoing' /\ incoming \subseteq incoming'
  BY StoreWriters DEF Release, Receive
<1> QED
  BY <1>1, <1>2, <1>3, LinesStay, RecordsStay DEF OnlyGrows

-----------------------------------------------------------------------------
(* The invariant holds.                                                    *)

\* Nothing has a number that is not yet minted.
LEMMA FreshIsNew ==
  ASSUME TransferSafety, GrowthInv, Here \in Stores, NEW o \in Nat, minted < o
  PROVE  o \notin outgoing /\ \A r \in objects[Here] : r.id # o
<1>1. \A st \in Stores : \A r \in objects[st] : r.id \in Nat /\ r.id <= minted
  BY DEF TransferSafety, StoreInv, StoresTyped, Minted, Records, ObjectRecord
<1>2. "parent" \in Stores /\ minted \in Nat
  BY DEF Stores, TransferSafety, StoreInv, StoresTyped
<1>3. \A r \in objects[Here] : r.id # o
  BY <1>1, <1>2
<1>4. \A r \in objects["parent"] : r.id # o
  BY <1>1, <1>2
<1> QED BY <1>3, <1>4 DEF GrowthInv, OutgoingKnown

\* An intent that lengthens a record extends it: the record is the only one, and what
\* a capture or a save found at its path was not handed on.
LEMMA LengthensExtends ==
  ASSUME TransferSafety, GrowthInv, call # None, call.op # "transfer", NEW t, t.object.id \in Nat, Lengthens(t)
  PROVE  Extends(Here, t)
<1>1. Here \in Stores
  BY StoreCalls DEF TransferSafety
<1>2. CASE minted < t.object.id
  BY <1>1, <1>2, FreshIsNew DEF Extends
<1>3. CASE ~ (minted < t.object.id)
  <2>1. PICK r \in objects[Here] :
          /\ r.id = t.object.id /\ IsPrefix(r.versions, t.object.versions)
          /\ (call.step = "commit" /\ r.path = call.path) \/ (Here = "parent" => r.id \notin outgoing)
    BY <1>3 DEF Lengthens
  <2>2. \A q \in objects[Here] : q.id = r.id => q = r
    BY <1>1, <2>1 DEF GrowthInv, UniqueRecords
  <2>3. Here = "parent" => r.id \notin outgoing
    BY <2>1 DEF GrowthInv, CommitFinds, FindFails, Claimants
  <2> QED BY <2>1, <2>2, <2>3 DEF Extends
<1> QED BY <1>2, <1>3

\* The call of a store stays one as it goes on, and only reading leads to a commit.
LEMMA StepsCall ==
  ASSUME CallInv, Steps
  PROVE  call' # None => call'.op # "transfer" /\ (call'.step = "commit" => ReadFile)
<1>0. call # None /\ call.op # "transfer"
  BY DEF Steps, OpenDone, ReadFile, CommitCapture, CommitSave, CommitRelocate, CommitRestore,
     ReplayCheck, ReplayInstall, ReplayVerify, ReplayRename, ReplayProject, ReplayIdentity, ReplayAppend,
     ReplayRetire, Working, At
<1>1. call \in StoreCall
  BY <1>0, StoreCalls
<1>2. \A step : [call EXCEPT !.step = step].op = call.op /\ [call EXCEPT !.step = step].step = step
  BY <1>1 DEF StoreCall
<1>3. CASE OpenDone \/ ReadFile
  BY <1>0, <1>1, <1>3 DEF OpenDone, ReadFile, Fail, StoreCall
<1>4. CASE CommitCapture \/ CommitSave \/ CommitRelocate \/ CommitRestore
  <2>1. call' = None \/ call' = [call EXCEPT !.step = "check", !.own = TRUE]
    BY <1>4 DEF CommitCapture, CommitSave, CommitRelocate, CommitRestore, Commit, Fail
  <2> QED BY <1>0, <1>1, <2>1 DEF StoreCall
<1>5. CASE ReplayCheck \/ ReplayInstall \/ ReplayRename \/ ReplayProject \/ ReplayIdentity \/ ReplayAppend \/ ReplayRetire
  <2>1. call' = None \/ \E step \in ReplaySteps \cup {"work"} : call' = [call EXCEPT !.step = step]
    BY <1>5 DEF ReplayCheck, ReplayInstall, ReplayRename, ReplayProject, ReplayIdentity, ReplayAppend, ReplayRetire,
       To, Fail, ReplaySteps
  <2> QED BY <1>0, <1>2, <2>1 DEF ReplaySteps
<1>6. CASE ReplayVerify
  BY <1>0, <1>1, <1>6 DEF ReplayVerify, To, Fail, StoreCall
<1> QED BY <1>3, <1>4, <1>5, <1>6 DEF Steps

\* A transfer begins where nothing is pending, and stays alone.
LEMMA TransfersStayAlone ==
  ASSUME TransferSafety, GrowthInv, [Next]_vars
  PROVE  TransfersAlone'
<1> SUFFICES ASSUME call' # None, call'.op = "transfer" PROVE Quiet'
  BY DEF TransfersAlone
<1>0. call # None => call \in TransferCall \/ call \in StoreCall
  BY DEF TransferSafety, CallInv
<1>1. CASE Calls /\ UNCHANGED transferVars
  BY <1>1 DEF Calls, Reopen, Begin
<1>2. CASE Steps /\ UNCHANGED transferVars
  BY <1>2, StepsCall DEF TransferSafety
<1>3. CASE (Die \/ PeopleEdit \/ Nest) /\ UNCHANGED transferVars
  BY <1>3 DEF Die, PeopleEdit, Nest, storeVars, GrowthInv, TransfersAlone, Quiet
<1>4. CASE Propose \/ Approve \/ UNCHANGED vars
  BY <1>4 DEF Propose, Approve, vars, storeVars, GrowthInv, TransfersAlone, Quiet
<1>5. CASE Transfer
  <2>1. pending' = pending
    BY <1>5 DEF Transfer, Start, Stage, Released, Verify, Cleanup, Release, Receive, ActivateVersions,
       ActivateObject, storeVars
  <2>2. Quiet
    BY <1>5 DEF Transfer, Start, Stage, Released, Verify, Cleanup, Release, Receive, ActivateVersions,
       ActivateObject, Transferring, GrowthInv, TransfersAlone
  <2> QED BY <2>1, <2>2 DEF Quiet
<1> QED
  BY <1>1, <1>2, <1>3, <1>4, <1>5 DEF Next

\* Only a call that read its file goes on to commit, and it found its path fit.
LEMMA CommitsStillFind ==
  ASSUME TransferSafety, GrowthInv, [Next]_vars
  PROVE  CommitFinds'
<1> SUFFICES ASSUME call' # None, call'.op # "transfer", call'.step = "commit" PROVE ~ FindFails(Here, call.path)'
  BY DEF CommitFinds
<1>0. call # None => call \in TransferCall \/ call \in StoreCall
  BY DEF TransferSafety, CallInv
<1>1. CASE Calls /\ UNCHANGED transferVars
  BY <1>1 DEF Calls, Reopen, Begin
<1>2. CASE ReadFile
  <2>1. /\ call \in StoreCall /\ ~ FindFails(Here, call.path) /\ UNCHANGED <<objects, outgoing>>
        /\ call' = [call EXCEPT !.step = "commit", !.seen = file[call.path]]
    BY <1>0, <1>2 DEF ReadFile, At, Fail, TransferCall
  <2>2. call'.store = call.store /\ call'.path = call.path
    BY <2>1 DEF StoreCall
  <2> QED BY <2>1, <2>2 DEF FindFails, Claimants, Here
<1>3. CASE Steps /\ ~ ReadFile
  BY <1>3, StepsCall DEF TransferSafety
<1>4. CASE UNCHANGED <<call, objects, outgoing>>
  BY <1>4 DEF GrowthInv, CommitFinds, FindFails, Claimants, Here
<1>5. CASE Die
  BY <1>5 DEF Die
<1>6. CASE PeopleEdit \/ Nest \/ Propose \/ Approve \/ UNCHANGED vars
  BY <1>4, <1>6 DEF PeopleEdit, Nest, Propose, Approve, vars, storeVars
<1>7. CASE Transfer
  <2>1. call' = None \/ call'.op = "transfer"
    <3>1. CASE Start
      BY <3>1 DEF Start
    <3>2. CASE Stage \/ Released \/ Verify
      BY <1>0, <3>2 DEF Stage, Released, Verify, Transferring, To, TransferCall, StoreCall
    <3>3. CASE Release \/ Receive
      BY <1>0, <3>3 DEF Release, Receive, Transferring, Conflict, To, TransferCall, StoreCall
    <3>4. CASE ActivateVersions \/ ActivateObject
      BY <1>0, <3>4 DEF ActivateVersions, ActivateObject, Transferring, Conflict, To, TransferCall, StoreCall
    <3>5. CASE Cleanup
      BY <3>5 DEF Cleanup, Fail
    <3> QED BY <1>7, <3>1, <3>2, <3>3, <3>4, <3>5 DEF Transfer
  <2> QED BY <2>1
<1> QED
  BY <1>1, <1>2, <1>3, <1>5, <1>6, <1>7 DEF Next

\* A record has an id of its own in its store.
LEMMA RecordsStayUnique ==
  ASSUME TransferSafety, GrowthInv, [Next]_vars
  PROVE  UniqueRecords'
<1>0. objects \in [Stores -> SUBSET ObjectRecord]
  BY DEF TransferSafety, StoreInv, StoresTyped
<1>1. CASE objects' = objects
  BY <1>1 DEF GrowthInv, UniqueRecords
<1>2. CASE ReplayProject
  <2>1. call # None /\ call.op # "transfer"
    BY <1>2 DEF ReplayProject, At
  <2>2. PICK s \in Stores : s = Here
    BY <2>1, StoreCalls DEF TransferSafety
  <2>3. PICK t : t = pending[s]
    OBVIOUS
  <2>4. /\ objects'[s] = {q \in objects[s] : q.id # t.object.id} \cup {t.object}
        /\ \A st \in Stores \ {s} : objects'[st] = objects[st]
    BY <1>0, <1>2, <2>2, <2>3 DEF ReplayProject, Rewrite
  <2> QED BY <2>4 DEF GrowthInv, UniqueRecords
<1>3. CASE ActivateObject /\ ~ Has("nested", O)
  <2>1. objects' = [objects EXCEPT !["nested"] = @ \cup {Arrived}]
    BY <1>3 DEF ActivateObject
  <2>2. Arrived.id = O
    <3>1. plan.object \in ObjectRecord
      BY <1>3 DEF ActivateObject, Transferring, TransferSafety, CallInv, TransferInv, StoreCall, PlanInv, TransferPlan
    <3> QED BY <3>1 DEF Arrived, O, ObjectRecord
  <2>3. /\ objects'["nested"] = objects["nested"] \cup {Arrived}
        /\ \A st \in Stores \ {"nested"} : objects'[st] = objects[st]
    BY <1>0, <2>1 DEF Stores
  <2>4. \A q \in objects["nested"] : q.id # O
    BY <1>3 DEF Has
  <2> QED BY <2>2, <2>3, <2>4 DEF GrowthInv, UniqueRecords
<1> QED
  BY <1>1, <1>2, <1>3, StoreWriters

\* What is pending still extends what is there.
LEMMA IntentsStillExtend ==
  ASSUME TransferSafety, GrowthInv, [Next]_vars
  PROVE  IntentsExtend'
<1>0. /\ objects \in [Stores -> SUBSET ObjectRecord]
      /\ pending \in [Stores -> PendingTransaction \cup {None}]
  BY DEF TransferSafety, StoreInv, StoresTyped
<1>1. CASE UNCHANGED <<pending, objects, outgoing>>
  BY <1>1 DEF GrowthInv, IntentsExtend, Intent, Extends
<1>2. ASSUME pending' = pending, Quiet PROVE IntentsExtend'
  BY <1>2 DEF IntentsExtend, Intent, Quiet
<1>3. CASE (CommitCapture \/ CommitSave \/ CommitRelocate \/ CommitRestore) /\ UNCHANGED transferVars
  <2>1. UNCHANGED <<objects, outgoing, plan, staged>> /\ call # None /\ call.op # "transfer"
    BY <1>3 DEF CommitCapture, CommitSave, CommitRelocate, CommitRestore, Working, At, transferVars
  <2>2. PICK s \in Stores : s = Here
    BY <2>1, StoreCalls DEF TransferSafety
  <2>3. CommitsTold
    BY <1>3, <2>1, CaptureCommits, SaveCommits, RelocateCommits, RestoreCommits DEF TransferSafety
  <2>4. CASE UNCHANGED pending
    BY <1>1, <2>1, <2>4
  <2>5. CASE ~ UNCHANGED pending
    <3>1. PICK t \in PendingTransaction : pending' = [pending EXCEPT ![s] = t] /\ Lengthens(t)
      BY <2>2, <2>3, <2>5 DEF CommitsTold, Commit
    <3>2. t.object.id \in Nat
      BY <3>1 DEF PendingTransaction, ObjectRecord
    <3>3. Extends(s, t)
      BY <2>1, <2>2, <3>1, <3>2, LengthensExtends
    <3>4. \A st \in Stores : \A u \in Intent(st)' : u \in Intent(st) \/ (st = s /\ u = t)
      BY <1>0, <3>1 DEF Intent
    <3> QED BY <2>1, <3>3, <3>4 DEF GrowthInv, IntentsExtend, Extends
  <2> QED BY <2>4, <2>5
<1>4. CASE ReplayRetire
  <2>1. UNCHANGED <<objects, outgoing>> /\ pending' = [pending EXCEPT ![Here] = None]
    BY <1>4 DEF ReplayRetire
  <2>2. \A st \in Stores : Intent(st)' \subseteq Intent(st)
    BY <1>0, <2>1 DEF Intent
  <2> QED BY <2>1, <2>2 DEF GrowthInv, IntentsExtend, Extends
<1>5. CASE ReplayProject
  <2>1. /\ call # None /\ call.op # "transfer" /\ call.step = "project"
        /\ UNCHANGED <<pending, outgoing>>
    BY <1>5 DEF ReplayProject, At
  <2>2. PICK s \in Stores : s = Here
    BY <2>1, StoreCalls DEF TransferSafety
  <2>3. PICK t : t = pending[s]
    OBVIOUS
  <2>4. /\ objects'[s] = {q \in objects[s] : q.id # t.object.id} \cup {t.object}
        /\ \A st \in Stores \ {s} : objects'[st] = objects[st]
    BY <1>0, <1>5, <2>2, <2>3 DEF ReplayProject, Rewrite
  <2>5. ASSUME NEW st \in Stores, NEW u \in Intent(st)' PROVE Extends(st, u)'
    <3>1. u \in Intent(st) /\ Extends(st, u)
      BY <2>1, <2>5 DEF Intent, GrowthInv, IntentsExtend
    <3>2. CASE st # s
      BY <2>1, <2>4, <3>1, <3>2 DEF Extends
    <3>3. CASE st = s
      <4>1. u = t /\ u \in PendingTransaction
        BY <1>0, <2>3, <3>1, <3>3 DEF Intent
      <4>2. u.object.versions \in Seq(Nat)
        BY <4>1 DEF PendingTransaction, ObjectRecord
      <4>3. IsPrefix(u.object.versions, u.object.versions)
        BY <4>2, PrefixJoined
      <4> QED BY <2>1, <2>4, <3>1, <3>3, <4>1, <4>3 DEF Extends
    <3> QED BY <3>2, <3>3
  <2> QED BY <2>5 DEF IntentsExtend
<1>6. CASE Release \/ ActivateObject
  <2>1. pending' = pending /\ Quiet
    BY <1>6 DEF Release, ActivateObject, Transferring, storeVars, GrowthInv, TransfersAlone
  <2> QED BY <1>2, <2>1
<1> QED
  BY <1>1, <1>3, <1>4, <1>5, <1>6, StoreWriters

\* What the parent handed on it still has a record of.
LEMMA OutgoingStaysKnown ==
  ASSUME TransferSafety, GrowthInv, [Next]_vars
  PROVE  OutgoingKnown'
<1>1. \A r \in objects["parent"] : \E n \in objects'["parent"] : n.id = r.id
  BY RecordsStay DEF Stores
<1>2. \A o \in outgoing' : o \in outgoing \/ \E r \in objects["parent"] : r.id = o
  <2>1. CASE outgoing' = outgoing
    BY <2>1
  <2>2. CASE Release
    <3>1. plan # None /\ outgoing' \subseteq outgoing \cup {O}
      BY <2>2 DEF Release, Transferring, TransferSafety, CallInv, TransferInv, StoreCall
    <3> QED BY <3>1 DEF TransferSafety, PlanInv
  <2> QED BY <2>1, <2>2, StoreWriters
<1> QED BY <1>1, <1>2 DEF OutgoingKnown, GrowthInv

\* Every step keeps it.
LEMMA GrowthKept ==
  ASSUME TransferSafety, GrowthInv, [Next]_vars
  PROVE  GrowthInv'
BY RecordsStayUnique, IntentsStillExtend, TransfersStayAlone, CommitsStillFind, OutgoingStaysKnown DEF GrowthInv

\* Whatever is called, dies, is replayed or handed over, a store only gains: lines,
\* bytes and Versions stay, a list of Versions gets longer at its end, and what the
\* parent handed on is not written there again.
THEOREM HistoriesOnlyEverGrow == Spec => HistoriesOnlyGrow
<1>1. Init => GrowthInv
  <2> SUFFICES ASSUME Init PROVE GrowthInv
    OBVIOUS
  <2>1. /\ objects = [st \in Stores |-> {}] /\ pending = [st \in Stores |-> None]
        /\ outgoing = {} /\ call = None
    BY DEF Init, StoreInit
  <2> QED BY <2>1 DEF GrowthInv, UniqueRecords, IntentsExtend, Intent, TransfersAlone, CommitFinds, OutgoingKnown
<1>2. TransferSafety /\ GrowthInv /\ [Next]_vars => GrowthInv'
  BY GrowthKept
<1>3. TransferSafety /\ JournalInv /\ GrowthInv /\ [Next]_vars =>
        [/\ \A st \in Stores : OnlyGrows(st)
         /\ outgoing \subseteq outgoing' /\ incoming \subseteq incoming']_vars
  BY StoresOnlyGrow
<1> QED
  BY <1>1, <1>2, <1>3, TransferInvariance, JournalAlwaysTells, PTL DEF Spec, HistoriesOnlyGrow

=============================================================================
