------------------------------- MODULE Delivery -------------------------------
(* The two ways content reaches another place: an Object carried chunk by      *)
(* chunk, and a whole root rebuilt from a package.  They share the manifests   *)
(* and no state; a behaviour shows one scene of one of them.                   *)
EXTENDS RootReconstruction, ChunkTransfer

CONSTANTS
  Scenes         \* [callers, receivers, faults, deaths]: who is at work and the bounds
ASSUME ScenesAssumption ==
  \A s \in Scenes : s.callers \subseteq Callers /\ s.receivers \subseteq Receivers

VARIABLES
  scene,         \* one of Scenes
  faults,        \* history: what people and the network did
  deaths         \* history: the processes that died

bounds == <<scene, faults, deaths>>
deliveryVars == <<reconstructVars, transferVars, bounds>>

Reconstruct(p) ==
  /\ p \in scene.callers
  /\ ReconstructStep(p)
  /\ UNCHANGED <<transferVars, bounds>>
Transfer ==
  /\ scene.receivers # {}
  /\ SourceStep \/ \E r \in scene.receivers : TransferStep(r)
  /\ UNCHANGED <<reconstructVars, bounds>>

Disturb ==
  /\ faults < scene.faults
  /\ faults' = faults + 1
  /\ \/ scene.callers # {} /\ PeopleMeddle /\ UNCHANGED transferVars
     \/ /\ scene.receivers # {}
        /\ SourceChanges \/ TargetChanges \/ \E r \in scene.receivers : Misdeliver(r)
        /\ UNCHANGED reconstructVars
  /\ UNCHANGED <<scene, deaths>>
Death ==
  /\ deaths < scene.deaths
  /\ deaths' = deaths + 1
  /\ \/ (\E p \in scene.callers : CallerDies(p)) /\ UNCHANGED transferVars
     \/ (\E r \in scene.receivers : ReceiverDies(r)) /\ UNCHANGED reconstructVars
  /\ UNCHANGED <<scene, faults>>

(* A package that can be carried out: planned, apart from the destination, one *)
(* mode for each Object Version, and of a Version whose own manifest fits.     *)
Sound(k) ==
  /\ Plannable(k) /\ k.apart
  /\ FidelityAgrees(Version, Indexes[k.index].fidelity)
  /\ Version.root.fits
DeliveryInit ==
  /\ ReconstructInit /\ TransferInit
  /\ scene \in Scenes
  /\ scene.receivers = {} => object = <<>>
  /\ Cardinality(scene.callers) # 1 => Sound(package)
  /\ faults = 0 /\ deaths = 0
DeliveryNext == (\E p \in Callers : Reconstruct(p)) \/ Transfer \/ Disturb \/ Death

(* Callers and receivers keep making their calls, the source keeps answering.  *)
(* A scene has callers or receivers, so one condition serves for both.         *)
DeliveryFairness ==
  \A p \in Callers : WF_deliveryVars(Reconstruct(p) \/ Transfer)
DeliverySpec == DeliveryInit /\ [][DeliveryNext]_deliveryVars /\ DeliveryFairness

-----------------------------------------------------------------------------
(* No step of Core changes what a destination holds: not the name of a root    *)
(* nor a visible file of a published one (root_reconstruction.rs publishes by  *)
(* a rename that replaces nothing), unless two calls of one operation held that*)
(* directory at once; not an accepted chunk and not a materialized file        *)
(* (transfer_receiver.rs links them).                                          *)
CoreStep == Transfer \/ \E p \in Callers : Reconstruct(p)
DestinationsAreLeftAlone ==
  [][CoreStep =>
       /\ root # 0 => root' = root
       /\ (root > 0 /\ ~Shared(root)) => tree'[root].file = tree[root].file
       /\ target # {} => target' = target
       /\ \A i \in Indices : chunkFile[i] # {} => chunkFile'[i] = chunkFile[i]]_deliveryVars

(* Repeated calls finish an interrupted reconstruction, whatever step a process*)
(* died at: the root is published and its ownership records are retired, or a  *)
(* record was cut short, people interfered, or two calls of one operation run  *)
(* at once.  A transfer delivers its Object however often it is interrupted,   *)
(* cut or garbled, unless its source changed or a checkpoint was left half made*)
Rivals == \E p, q \in scene.callers : p # q /\ Op(p) = Op(q)
Rebuilt == Settled \/ CutShort \/ faults > 0 \/ Rivals \/ ~Sound(package)
SourceIsBound == source.bound \in {{}, {Binding}} /\ source.owned /\ source.blob = object
Orphaned ==
  checkpoint \notin {"none", "whole"} /\ \A r \in Receivers : Does(r, "idle")
Delivered == target # {} \/ ~SourceIsBound \/ Orphaned
DeliveryCompletes ==
  <>[](IF scene.callers # {} THEN Rebuilt ELSE Delivered)
=============================================================================
