---------------------------- MODULE MCLocalQueue ----------------------------
(* Instances of LocalQueue for TLC.                                        *)
EXTENDS LocalQueue, TLC

CONSTANTS w1, w2, w3, t1, t2, t3, t4, t5, t6

(* One worker spawns everything, the others can only get work from it.     *)
FiveTasks == [w \in Workers |-> IF w = w1 THEN <<t1, t2, t3, t4, t5>> ELSE <<>>]
SixTasks  == [w \in Workers |-> IF w = w1 THEN <<t1, t2, t3, t4, t5, t6>> ELSE <<>>]

(* The workers that spawn nothing are interchangeable.                     *)
Symmetry == Permutations(Workers \ {w1})
=============================================================================
