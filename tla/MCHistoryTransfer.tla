---------------------------- MODULE MCHistoryTransfer ----------------------------
(***************************************************************************)
(* One file in the folder that becomes nested, one free path outside it.     *)
(***************************************************************************)
EXTENDS HistoryTransfer

CONSTANTS outer, nested, c1, c2

MCInitial == [x \in {nested} |-> c1]
=============================================================================
