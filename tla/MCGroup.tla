------------------------------ MODULE MCGroup ------------------------------
(* Instances of Group for TLC: the partitions are model values. *)
EXTENDS Group

CONSTANTS p1, p2
=============================================================================
