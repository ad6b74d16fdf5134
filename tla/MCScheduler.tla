----------------------------- MODULE MCScheduler -----------------------------
(* Instances of Scheduler for TLC.                                         *)
EXTENDS Scheduler, TLC

Symmetry == Permutations(Workers)

(* push_back_or_overflow of one task, for a ring of c slots with its       *)
(* contents and what a thief is taking out of it, as the code has it.      *)
PushOne(c, q, taken, spilt) ==
  IF q.local + taken < c
  THEN [q EXCEPT !.local = @ + 1]
  ELSE [local |-> q.local - spilt, shared |-> q.shared + spilt + 1]

(* PushTasks states the outcome of k pushes in a row in closed form.  It   *)
(* is the outcome of k times PushOne, and no other length of the ring fits *)
(* its condition, with and without a thief.                                *)
ASSUME PushTasksIsIteratedPush ==
  \A c \in {2, 4, 8} : \A spilt \in {0, c \div 2}, taken \in 0 .. c \div 2,
    start \in 0 .. c, k \in 0 .. 2 * c + 1 :
    start + taken <= c /\ (spilt > 0 => taken = 0) =>
      LET q[i \in 0 .. k] ==
            IF i = 0 THEN [local |-> start, shared |-> 0]
                     ELSE PushOne(c, q[i - 1], taken, spilt)
          fits == {moved \in {overflows * (spilt + 1) : overflows \in 0 .. k} :
                     LET kept == start + k - moved
                     IN  /\ kept + taken <= c
                         /\ moved > 0 => kept + taken >= c - spilt}
      IN  fits = {q[k].shared} /\ q[k].local = start + k - q[k].shared
=============================================================================
