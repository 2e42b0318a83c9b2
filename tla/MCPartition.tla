---------------------------- MODULE MCPartition ----------------------------
(* Instances of Partition for TLC. *)
EXTENDS Partition, TLC

CONSTANTS w1, w2, c1, c2

Symmetric == Permutations(Worker) \cup Permutations(Consumer)
=============================================================================
