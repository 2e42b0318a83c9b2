--------------------------- MODULE MCSyncProducer ---------------------------
(* Instances of SyncProducer for TLC; a size is a megabyte. *)
EXTENDS SyncProducer, TLC

CONSTANTS c1, r1, r2, r3

Symmetric == Permutations(Reset)

\* A small one, one of two groups that are small enough each but not together,
\* one with a value that is too long, one that is just small enough.
Batches == {<<<<1>>>>, <<<<8, 8>>, <<8>>>>, <<<<2>>, <<11>>>>, <<<<8>>, <<8, 1>>>>}
=============================================================================
