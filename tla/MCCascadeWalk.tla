---------------------------- MODULE MCCascadeWalk ----------------------------
(* Every graph of up to three load points, cycles and unknown parents too. *)
EXTENDS CascadeWalk

IdOrder == <<"p1", "p2", "p3">>

IdsInOrder(ids) == SelectSeq(IdOrder, LAMBDA id : id \in ids)
=============================================================================
