---------------------------- MODULE MCProducer ----------------------------
(* Instances of Producer for TLC: the calls are model values, their topics, *)
(* sizes and counts are given here.                                         *)
EXTENDS Producer, TLC

CONSTANTS c1, c2, c3, t1, t2

WireSizes == [c \in Call |-> SizeOf[c] + 1]
OneTopic == [c \in Call |-> t1]
TwoTopics == [c \in Call |-> IF c = c1 THEN t1 ELSE t2]
MixedSizes == c1 :> 3 @@ c2 :> 1 @@ c3 :> 4
Restricted(f) == [c \in Call |-> f[c]]
Sizes == Restricted(MixedSizes)
Single == [c \in Call |-> 1]
Forever == -1
=============================================================================
