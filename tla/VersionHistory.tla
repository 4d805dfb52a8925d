---------------------------- MODULE VersionHistory ----------------------------
(***************************************************************************)
(* What Core promises of its history, with no journal, lock, crash or      *)
(* workspace in sight: complete versions are published once and never      *)
(* change, a version is published only over published parents, and the     *)
(* Local Head names a published version and moves one parent edge at a     *)
(* time: forward when a version is committed, back when a restore that     *)
(* committed cannot prove its publication.                                 *)
(***************************************************************************)
CONSTANT Absent

VARIABLES
  published,    \* version identifier -> its immutable record
  current       \* the identifier Local Head names, or Absent

history == <<published, current>>

Init ==
  /\ published = [id \in {} |-> Absent]
  /\ current = Absent

\* One new record appears, whatever its content, over published parents.
Install ==
  \E id \in DOMAIN published' \ DOMAIN published :
    /\ published'[id].parents \subseteq DOMAIN published
    /\ published' = [x \in DOMAIN published \cup {id} |->
                       IF x = id THEN published'[id] ELSE published[x]]
    /\ UNCHANGED current

ParentsOfChild == IF current = Absent THEN {} ELSE {current}

Advance(id) ==
  /\ id \in DOMAIN published
  /\ published[id].parents = ParentsOfChild
  /\ current' = id
  /\ UNCHANGED published

Retract(id) ==
  /\ current # Absent
  /\ id \in published[current].parents
  /\ current' = id
  /\ UNCHANGED published

Next ==
  \/ Install
  \/ \E id \in DOMAIN published : Advance(id)
  \/ \E id \in DOMAIN published : Retract(id)

Spec == Init /\ [][Next]_history
===============================================================================
