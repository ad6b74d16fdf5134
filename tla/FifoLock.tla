------------------------------ MODULE FifoLock ------------------------------
(***************************************************************************)
(* What sync::Mutex promises: at most one coroutine owns the lock, those   *)
(* that find it taken queue up in the order of their arrival, and whoever  *)
(* releases it hands it to the first of them.  A lock that is handed over  *)
(* is never free in between, so nobody overtakes the queue.                *)
(***************************************************************************)
EXTENDS Sequences

CONSTANTS Coroutines, Nobody

VARIABLES owner,    \* who may be in its critical section
          waiting   \* the suspended coroutines, first come first

Init ==
  /\ owner = Nobody
  /\ waiting = <<>>

(* The lock is free: p takes it without suspending.                        *)
Acquire(p) ==
  /\ owner = Nobody
  /\ owner' = p
  /\ UNCHANGED waiting

(* The lock is taken: p suspends behind the others.                        *)
Enqueue(p) ==
  /\ owner # Nobody
  /\ \A i \in DOMAIN waiting : waiting[i] # p
  /\ waiting' = Append(waiting, p)
  /\ UNCHANGED owner

(* Nobody waits: the lock becomes free.                                    *)
Free(p) ==
  /\ owner = p
  /\ waiting = <<>>
  /\ owner' = Nobody
  /\ UNCHANGED waiting

(* The first coroutine that waits is scheduled, and owns the lock.         *)
HandOver(p) ==
  /\ owner = p
  /\ waiting # <<>>
  /\ owner' = Head(waiting)
  /\ waiting' = Tail(waiting)

Next == \E p \in Coroutines : Acquire(p) \/ Enqueue(p) \/ Free(p) \/ HandOver(p)

Spec == Init /\ [][Next]_<<owner, waiting>>
=============================================================================
