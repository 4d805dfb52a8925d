---------------------------- MODULE ChunkTransfer ----------------------------
(* One Object Version carried chunk by chunk from the store that owns it into a*)
(* checkpoint directory that several receiver processes share, and from there  *)
(* to a file.  Whatever carries the chunks may lose, repeat, cut and garble    *)
(* them; a process may die at any step.  Its manifest lists the chunks a       *)
(* rolling hash cuts its bytes into; the plan of given bytes is the only       *)
(* manifest that verifies them, so two sides that know it need no other        *)
(* agreement on chunk boundaries.                                              *)
EXTENDS Integers, Sequences, SequencesExt, FiniteSets

CONSTANTS
  MinimumChunk, AverageChunk, MaximumChunk,   \* profile_parameters
  Bits, Multiplier,                           \* the rolling hash: its width and factor
  MaxDescriptors, MaxObject                   \* bounds on a manifest

ASSUME ChunkManifestAssumption ==
  /\ MinimumChunk \in Nat \ {0} /\ MaximumChunk \in Nat /\ MinimumChunk <= MaximumChunk
  /\ AverageChunk \in Nat \ {0} /\ Bits \in Nat \ {0} /\ Multiplier \in Nat

RotateLeft(x) == ((2 * x) % (2 ^ Bits)) + (x \div (2 ^ (Bits - 1)))
Roll(rolling, byte) == (RotateLeft(rolling) + byte * Multiplier) % (2 ^ Bits)
Boundary(length, rolling) ==
  \/ length >= MinimumChunk /\ rolling % AverageChunk = 0
  \/ length >= MaximumChunk

(* plan_streamed_manifest: one pass; a boundary closes the chunk and restarts  *)
(* the hash, and what is left at the end is the last chunk however short.      *)
Cut(state, byte) ==
  LET rolling == Roll(state.rolling, byte)
      open == Append(state.open, byte)
  IN  IF Boundary(Len(open), rolling)
      THEN [chunks |-> Append(state.chunks, open), open |-> <<>>, rolling |-> 0]
      ELSE [chunks |-> state.chunks, open |-> open, rolling |-> rolling]
ChunksIn(bytes) ==
  LET after[i \in 0..Len(bytes)] ==        \* the one state the scan is in after i bytes
        IF i = 0 THEN {[chunks |-> <<>>, open |-> <<>>, rolling |-> 0]}
        ELSE {Cut(state, bytes[i]) : state \in after[i - 1]}
      last == CHOOSE state \in after[Len(bytes)] : TRUE
  IN  IF last.open = <<>> THEN last.chunks ELSE Append(last.chunks, last.open)

(* A descriptor carries position, extent and digest; the digest is the bytes.  *)
OffsetOf(chunks, i) == Len(FlattenSeq(SubSeq(chunks, 1, i - 1)))
Described(chunks) ==
  [i \in DOMAIN chunks |-> [index |-> i - 1, offset |-> OffsetOf(chunks, i),
                            bytes |-> Len(chunks[i]), digest |-> chunks[i]]]
Planned(bytes) ==
  [object |-> bytes, bytes |-> Len(bytes), chunks |-> Described(ChunksIn(bytes))]

(* ChunkManifest::validate: sequential, contiguous, within the profile; only   *)
(* the last chunk may be short, and only the empty Object has none.            *)
Valid(m) ==
  /\ Len(m.chunks) <= MaxDescriptors /\ m.bytes <= MaxObject
  /\ \A i \in DOMAIN m.chunks :
       LET c == m.chunks[i]
       IN  /\ c.index = i - 1
           /\ c.bytes \in 1..MaximumChunk
           /\ i < Len(m.chunks) => c.bytes >= MinimumChunk
           /\ c.offset = IF i = 1 THEN 0 ELSE m.chunks[i - 1].offset + m.chunks[i - 1].bytes
  /\ m.bytes = IF m.chunks = <<>> THEN 0
               ELSE m.chunks[Len(m.chunks)].offset + m.chunks[Len(m.chunks)].bytes
  /\ m.bytes = 0 => m.object = <<>>

(* verify_object plans what it reads and compares length, digest and every     *)
(* descriptor; it stops and refuses one byte after what the manifest allows.   *)
Verifies(m, read) ==
  /\ Valid(m)
  /\ Planned(read) = m

(* copy_exact_chunk: the bytes of one descriptor, no fewer, none trailing.     *)
ExactChunk(descriptor, read) ==
  /\ Len(read) = descriptor.bytes
  /\ read = descriptor.digest

(* The bytes of the descriptors in order; chunks_for cuts an Object the same.  *)
Assembled(files) == FlattenSeq(files)
ChunkOf(bytes, descriptor) ==
  SubSeq(bytes, descriptor.offset + 1, descriptor.offset + descriptor.bytes)

-----------------------------------------------------------------------------
CONSTANTS
  Receivers,
  Objects        \* the contents of an Object that may be transferred

VARIABLES
  object,        \* the bytes of the Object Version
  manifest,      \* the manifest its source planned, known to the receivers
  source,        \* [blob, id, owned, bound]: its blob and the open transfer
  wire,          \* chunks that left the source
  checkpoint,    \* how far its creation got: "none" .. "whole"
  chunkFile,     \* index -> the installed chunk, {} or {bytes}
  part,          \* index -> a staged chunk in the checkpoint
  lease,         \* the receiver that holds the checkpoint lock, or "none"
  target,        \* the destination: {}, or {bytes}
  receiver       \* receiver -> what it is doing

transferVars ==
  <<object, manifest, source, wire, checkpoint, chunkFile, part, lease, target, receiver>>

Indices == DOMAIN manifest.chunks
Chunk(i) == manifest.chunks[i]
Foreign == <<"theirs">>
Doing(at, index, read, copy) == [at |-> at, index |-> index, read |-> read, copy |-> copy]
Resting == Doing("idle", 0, <<>>, <<>>)
Does(r, at) == receiver[r].at = at
Turn(r, at) == receiver' = [receiver EXCEPT ![r].at = at]
Rest(r) == receiver' = [receiver EXCEPT ![r] = Doing("open", 0, <<>>, <<>>)]

-----------------------------------------------------------------------------
(* The source binds the blob it planned: its file, its stamp and its owner.    *)
Binding == [id |-> source.id, owned |-> source.owned]
OpenSource ==
  /\ source.bound = {}
  /\ source.owned
  /\ source.blob = object
  /\ source' = [source EXCEPT !.bound = {Binding}]
  /\ UNCHANGED <<object, manifest, wire, checkpoint, chunkFile, part, lease, target, receiver>>

(* copy_chunk verifies the binding, streams the bytes as it reads them and     *)
(* verifies again: what a failed copy streamed has left all the same, and      *)
(* reaches the receiver as one more garbled chunk.                             *)
CopyChunk(i) ==
  /\ source.bound = {Binding}
  /\ [index |-> i, bytes |-> ChunkOf(source.blob, Chunk(i))] \notin wire
  /\ wire' = wire \union {[index |-> i, bytes |-> ChunkOf(source.blob, Chunk(i))]}
  /\ UNCHANGED <<object, manifest, source, checkpoint, chunkFile, part, lease, target, receiver>>

-----------------------------------------------------------------------------
(* A checkpoint is made in order: directory, chunk directory, manifest, lock.  *)
(* What a dead creation left can be neither created again nor opened.          *)
CreateStep(r) ==
  /\ CASE Does(r, "idle") /\ checkpoint = "none" -> checkpoint' = "directory" /\ Turn(r, "chunks")
       [] Does(r, "chunks") -> checkpoint' = "chunks" /\ Turn(r, "manifest")
       [] Does(r, "manifest") -> checkpoint' = "manifest" /\ Turn(r, "lock")
       [] Does(r, "lock") -> checkpoint' = "whole" /\ Rest(r)
       [] OTHER -> FALSE
  /\ UNCHANGED <<object, manifest, source, wire, chunkFile, part, lease, target>>
OpenCheckpoint(r) ==
  /\ Does(r, "idle") /\ checkpoint = "whole"
  /\ \A i \in Indices : \A bytes \in chunkFile[i] : ExactChunk(Chunk(i), bytes)
  /\ Rest(r)
  /\ UNCHANGED <<object, manifest, source, wire, checkpoint, chunkFile, part, lease, target>>

Missing == {i \in Indices : chunkFile[i] = {}}
Take(r) == lease = "none" /\ lease' = r

(* accept_chunk_from: under the lock, stale parts are reclaimed, the chunk is  *)
(* staged, checked, linked under its final name and its part removed.          *)
AcceptBegin(r, i, read) ==
  /\ Does(r, "open")
  /\ Take(r)
  /\ part' = [j \in Indices |-> {}]
  /\ receiver' = [receiver EXCEPT ![r] = Doing("stage", i, read, <<>>)]
  /\ UNCHANGED <<object, manifest, source, wire, checkpoint, chunkFile, target>>
StageChunk(r) ==
  /\ Does(r, "stage")
  /\ LET m == receiver[r]
     IN  /\ part' = [part EXCEPT ![m.index] = {m.read}]
         /\ Turn(r, IF ExactChunk(Chunk(m.index), m.read) THEN "link" ELSE "discard")
  /\ UNCHANGED <<object, manifest, source, wire, checkpoint, chunkFile, lease, target>>
LinkChunk(r) ==
  /\ Does(r, "link")
  /\ LET i == receiver[r].index
     IN  chunkFile' = [chunkFile EXCEPT ![i] = IF @ = {} THEN part[i] ELSE @]
  /\ Turn(r, "discard")
  /\ UNCHANGED <<object, manifest, source, wire, checkpoint, part, lease, target>>
DiscardPart(r) ==
  /\ Does(r, "discard")
  /\ part' = [part EXCEPT ![receiver[r].index] = {}]
  /\ lease' = "none"
  /\ Rest(r)
  /\ UNCHANGED <<object, manifest, source, wire, checkpoint, chunkFile, target>>

(* materialize_to: with every chunk there and nothing at the destination, the  *)
(* Object is assembled and verified in a private directory and linked.         *)
MaterializeBegin(r) ==
  /\ Does(r, "open")
  /\ Take(r)
  /\ Turn(r, IF Missing = {} /\ target = {} THEN "assemble" ELSE "release")
  /\ UNCHANGED <<object, manifest, source, wire, checkpoint, chunkFile, part, target>>
AssembleInPlace(r) ==    \* a wrong variant: assembled at the destination itself
  /\ Does(r, "assemble")
  /\ LET next == receiver[r].index + 1
         copy == receiver[r].copy \o Assembled(SetToSeq(chunkFile[next]))
     IN  IF next <= Len(manifest.chunks) /\ target \in {{}, {receiver[r].copy}}
         THEN /\ receiver' = [receiver EXCEPT ![r] = Doing("assemble", next, <<>>, copy)]
              /\ target' = {copy}
         ELSE Turn(r, "release") /\ UNCHANGED target
  /\ UNCHANGED <<object, manifest, source, wire, checkpoint, chunkFile, part, lease>>
AssembleChunk(r) ==
  /\ Does(r, "assemble")
  /\ LET m == receiver[r]
         next == m.index + 1
     IN  IF m.index < Len(manifest.chunks)
         THEN receiver' = [receiver EXCEPT ![r] =
                Doing("assemble", next, m.read, m.copy \o Assembled(SetToSeq(chunkFile[next])))]
         ELSE Turn(r, IF Verifies(manifest, m.copy) THEN "install" ELSE "release")
  /\ UNCHANGED <<object, manifest, source, wire, checkpoint, chunkFile, part, lease, target>>
Install(r) ==
  /\ Does(r, "install")
  /\ target' = IF target = {} THEN {receiver[r].copy} ELSE target
  /\ Turn(r, "release")
  /\ UNCHANGED <<object, manifest, source, wire, checkpoint, chunkFile, part, lease>>
Release(r) ==
  /\ Does(r, "release")
  /\ lease' = "none"
  /\ Rest(r)
  /\ UNCHANGED <<object, manifest, source, wire, checkpoint, chunkFile, part, target>>

ReceiverStep(r) ==
  \/ CreateStep(r) \/ OpenCheckpoint(r)
  \/ StageChunk(r) \/ LinkChunk(r) \/ DiscardPart(r)
  \/ AssembleChunk(r) \/ Install(r) \/ Release(r)

(* A driver asks for what is missing and takes a chunk as it arrives; once     *)
(* nothing is missing it materializes.                                         *)
Drive(r) ==
  \/ \E m \in wire : m.index \in Missing /\ AcceptBegin(r, m.index, m.bytes)
  \/ Missing = {} /\ target = {} /\ MaterializeBegin(r)
TransferStep(r) == ReceiverStep(r) \/ Drive(r)
SourceStep == OpenSource \/ \E i \in Indices : CopyChunk(i)

(* What may go wrong on the way: a chunk again, cut short, too long or garbled *)
(* into another; a materialization too early or once more.                     *)
Garbled(m) ==
  {m.bytes, SubSeq(m.bytes, 1, Len(m.bytes) - 1), Append(m.bytes, 0)}
    \union {n.bytes : n \in wire}
Misdeliver(r) ==
  \/ \E m \in wire : \E read \in Garbled(m) : AcceptBegin(r, m.index, read)
  \/ MaterializeBegin(r)
ReceiverDies(r) ==
  /\ receiver[r] # Resting
  /\ receiver' = [receiver EXCEPT ![r] = Resting]
  /\ lease' = IF lease = r THEN "none" ELSE lease
  /\ UNCHANGED <<object, manifest, source, wire, checkpoint, chunkFile, part, target>>
(* The store may hand the Object to another Folderbase, the blob may be written*)
(* over, and anybody may put a file at the destination or take one away.       *)
SourceChanges ==
  /\ \/ source.owned /\ source' = [source EXCEPT !.owned = FALSE]
     \/ source' = [source EXCEPT !.id = @ + 1]
     \/ source.blob # <<>> /\ source' = [source EXCEPT !.blob = Append(Tail(@), 7), !.id = @ + 1]
  /\ UNCHANGED <<object, manifest, wire, checkpoint, chunkFile, part, lease, target, receiver>>
TargetChanges ==
  /\ target' = IF target = {} THEN {Foreign} ELSE {}
  /\ UNCHANGED <<object, manifest, source, wire, checkpoint, chunkFile, part, lease, receiver>>

TransferInit ==
  /\ object \in Objects /\ manifest = Planned(object)
  /\ source = [blob |-> object, id |-> 1, owned |-> TRUE, bound |-> {}]
  /\ wire = {}
  /\ checkpoint = "none"
  /\ chunkFile = [i \in Indices |-> {}]
  /\ part = [i \in Indices |-> {}]
  /\ lease = "none"
  /\ target = {}
  /\ receiver = [r \in Receivers |-> Resting]
TransferFairness ==
  /\ WF_transferVars(SourceStep)
  /\ \A r \in Receivers : WF_transferVars(TransferStep(r))

-----------------------------------------------------------------------------
(* Whatever arrived, in whatever order and through whatever crashes, a file    *)
(* Core puts at the destination is the Object, byte for byte.                  *)
DeliveredWhole == target \in {{}, {Foreign}, {object}}
=============================================================================
