-------------------------------- MODULE Mutex --------------------------------
(***************************************************************************)
(* sync/mutex.hpp, used by coroutines that run on several threads.         *)
(*                                                                         *)
(* state_ is one atomic word: `this` when the mutex is unlocked, nullptr   *)
(* when it is locked and nobody has queued, else the Awaiter queued last,  *)
(* whose next_ leads to the one before it.  Here held and lifo stand for   *)
(* what the word and the list behind it say, and State for the word a      *)
(* compare-exchange sees: it tells two lists with the same head not apart. *)
(* fifo is fifo_awaiters_, the list of the lock's owner alone.             *)
(*                                                                         *)
(* One action is one access to state_, with what the thread does next to   *)
(* memory that is its own.  The orderings of the accesses are taken as     *)
(* sequentially consistent.                                                *)
(*                                                                         *)
(* No action uses LockFreeUnchecked, LockQueueStoresNext,                  *)
(* UnlockFreeUnchecked, UnlockTakeReleases, UnlockTakeUnordered and        *)
(* HandOverKeepsHead: each is a faulty variant of the definition after it, *)
(* for mutation testing.                                                   *)
(***************************************************************************)
EXTENDS Naturals, Sequences

CONSTANTS Coroutines,  \* the coroutines that use the mutex
          Nobody,
          Unlocked,    \* unlocking_state(): `this`
          Locked       \* locking_state(): nullptr

ASSUME NamesDistinct ==
  /\ Nobody \notin Coroutines
  /\ Unlocked \notin Coroutines
  /\ Locked \notin Coroutines
  /\ Unlocked # Locked

VARIABLES
  held,   \* state_ # unlocking_state()
  lifo,   \* the awaiters reachable from state_, youngest first
  fifo,   \* the awaiters reachable from fifo_awaiters_, oldest first
  pc,     \* pc[p]: where coroutine p is
  seen    \* seen[p]: the local variable `state` of p's await_suspend, unlock

vars == <<held, lifo, fifo, pc, seen>>

Words == Coroutines \cup {Unlocked, Locked}

(* The value of the atomic word.                                           *)
State == IF ~held THEN Unlocked ELSE IF lifo = <<>> THEN Locked ELSE Head(lifo)

Reversed(s) == [i \in 1 .. Len(s) |-> s[Len(s) + 1 - i]]

Init ==
  /\ held = FALSE
  /\ lifo = <<>>
  /\ fifo = <<>>
  /\ pc = [p \in Coroutines |-> "outside"]
  /\ seen = [p \in Coroutines |-> Unlocked]

-----------------------------------------------------------------------------
Goto(p, label) == pc' = [pc EXCEPT ![p] = label]
See(p, word)   == seen' = [seen EXCEPT ![p] = word]

(* co_await lock(): load the word.                                         *)
LockLoad(p) ==
  /\ pc[p] = "outside"
  /\ See(p, State)
  /\ Goto(p, "locking")
  /\ UNCHANGED <<held, lifo, fifo>>

(* The word said unlocked and still does: take the lock, do not suspend.   *)
LockFreeUnchecked(p) ==
  /\ pc[p] = "locking"
  /\ seen[p] = Unlocked
  /\ held' = TRUE
  /\ Goto(p, "inside")
  /\ UNCHANGED <<lifo, fifo, seen>>

LockFree(p) ==
  /\ pc[p] = "locking"
  /\ seen[p] = Unlocked
  /\ State = seen[p]
  /\ held' = TRUE
  /\ Goto(p, "inside")
  /\ UNCHANGED <<lifo, fifo, seen>>

(* The word named the list of waiters and still does: become its head, and *)
(* suspend.                                                                *)
LockQueueStoresNext(p) ==
  /\ pc[p] = "locking"
  /\ seen[p] # Unlocked
  /\ State = seen[p]
  /\ lifo' = <<seen[p]>> \o lifo
  /\ Goto(p, "waiting")
  /\ UNCHANGED <<held, fifo, seen>>

LockQueue(p) ==
  /\ pc[p] = "locking"
  /\ seen[p] # Unlocked
  /\ State = seen[p]
  /\ lifo' = <<p>> \o lifo
  /\ Goto(p, "waiting")
  /\ UNCHANGED <<held, fifo, seen>>

(* The word has changed: the compare-exchange reloads it.                  *)
LockRetry(p) ==
  /\ pc[p] = "locking"
  /\ State # seen[p]
  /\ See(p, State)
  /\ UNCHANGED <<held, lifo, fifo, pc>>

-----------------------------------------------------------------------------
(* unlock(): an ordered waiter is known, or look at the word.              *)
UnlockLook(p) ==
  /\ pc[p] = "inside"
  /\ IF fifo # <<>>
     THEN Goto(p, "handing") /\ UNCHANGED seen
     ELSE See(p, State) /\ Goto(p, "unlocking")
  /\ UNCHANGED <<held, lifo, fifo>>

(* Nobody had queued and nobody has since: release.                        *)
UnlockFreeUnchecked(p) ==
  /\ pc[p] = "unlocking"
  /\ seen[p] = Locked
  /\ held' = FALSE
  /\ Goto(p, "outside")
  /\ UNCHANGED <<lifo, fifo, seen>>

UnlockFree(p) ==
  /\ pc[p] = "unlocking"
  /\ seen[p] = Locked
  /\ State = Locked
  /\ held' = FALSE
  /\ Goto(p, "outside")
  /\ UNCHANGED <<lifo, fifo, seen>>

(* Take the list of waiters out of the word and reverse it.  The list is   *)
(* then private to the owner.                                              *)
UnlockTakeReleases(p) ==
  /\ pc[p] = "unlocking"
  /\ ~(seen[p] = Locked /\ State = Locked)
  /\ held' = FALSE
  /\ lifo' = <<>>
  /\ fifo' = Reversed(lifo)
  /\ Goto(p, "handing")
  /\ UNCHANGED seen

UnlockTakeUnordered(p) ==
  /\ pc[p] = "unlocking"
  /\ ~(seen[p] = Locked /\ State = Locked)
  /\ held' = TRUE
  /\ lifo' = <<>>
  /\ fifo' = lifo
  /\ Goto(p, "handing")
  /\ UNCHANGED seen

UnlockTake(p) ==
  /\ pc[p] = "unlocking"
  /\ ~(seen[p] = Locked /\ State = Locked)
  /\ held' = TRUE
  /\ lifo' = <<>>
  /\ fifo' = Reversed(lifo)
  /\ Goto(p, "handing")
  /\ UNCHANGED seen

(* Schedule the first waiter, which owns the mutex from then on.  It goes  *)
(* to the scheduler's slot that no other worker can steal from, so it does *)
(* not run before fifo_awaiters_ has been advanced.                        *)
HandOverKeepsHead(p) ==
  /\ pc[p] = "handing"
  /\ fifo # <<>>
  /\ pc' = [pc EXCEPT ![p] = "outside", ![Head(fifo)] = "inside"]
  /\ UNCHANGED <<held, lifo, fifo, seen>>

HandOver(p) ==
  /\ pc[p] = "handing"
  /\ fifo # <<>>
  /\ pc' = [pc EXCEPT ![p] = "outside", ![Head(fifo)] = "inside"]
  /\ fifo' = Tail(fifo)
  /\ UNCHANGED <<held, lifo, seen>>

-----------------------------------------------------------------------------
(* try_lock(): load the word and exchange it for "locked", whatever it is. *)
TryLoad(p) ==
  /\ pc[p] = "outside"
  /\ See(p, State)
  /\ Goto(p, "trying")
  /\ UNCHANGED <<held, lifo, fifo>>

TryExchange(p) ==
  /\ pc[p] = "trying"
  /\ IF State = seen[p]
     THEN held' = TRUE /\ lifo' = <<>> /\ Goto(p, "inside")
     ELSE Goto(p, "outside") /\ UNCHANGED <<held, lifo>>
  /\ UNCHANGED <<fifo, seen>>

-----------------------------------------------------------------------------
Lock(p)   == LockLoad(p) \/ LockFree(p) \/ LockQueue(p) \/ LockRetry(p)
Unlock(p) == UnlockLook(p) \/ UnlockFree(p) \/ UnlockTake(p) \/ HandOver(p)

(* Clients that lock with co_await lock() or std::adopt_lock, as all of    *)
(* src/ does ...                                                           *)
Next == \E p \in Coroutines : Lock(p) \/ Unlock(p)
Spec == Init /\ [][Next]_vars

(* ... and clients that also call try_lock.                                *)
TryNext == \E p \in Coroutines : Lock(p) \/ Unlock(p) \/ TryLoad(p) \/ TryExchange(p)
TrySpec == Init /\ [][TryNext]_vars

(* Every critical section ends, and no thread is preempted for ever inside *)
(* lock() or unlock().  Nobody has to ask for the lock.                    *)
Fairness ==
  \A p \in Coroutines :
    /\ WF_vars(LockFree(p) \/ LockQueue(p) \/ LockRetry(p))
    /\ WF_vars(Unlock(p))

FairSpec == Spec /\ Fairness

-----------------------------------------------------------------------------
Owning == {"inside", "unlocking", "handing"}
Listed(p, list) == {i \in DOMAIN list : list[i] = p}

(* Type invariant of the word, the two lists and the threads' registers.   *)
TypeOK ==
  /\ held \in BOOLEAN
  /\ lifo \in Seq(Coroutines)
  /\ fifo \in Seq(Coroutines)
  /\ pc \in [Coroutines -> {"outside", "locking", "waiting", "inside",
                           "unlocking", "handing", "trying"}]
  /\ seen \in [Coroutines -> Words]

(* No two coroutines are between a lock() that returned and the end of     *)
(* their unlock(), although ownership is passed on without the word ever   *)
(* saying unlocked (mutex.hpp:80-108).                                     *)
MutualExclusion ==
  \A p, q \in Coroutines : pc[p] \in Owning /\ pc[q] \in Owning => p = q

(* The assertion at the start of unlock (mutex.hpp:81): the mutex is not   *)
(* unlocked when a coroutine that holds it comes to release it.            *)
UnlockedOnlyWhenHeld == \A p \in Coroutines : pc[p] = "inside" => held

(* The assertions inside unlock (mutex.hpp:98, 105): the exchange finds at *)
(* least one awaiter, and there is one to hand the lock to.                *)
HandOverFindsWaiter ==
  \A p \in Coroutines :
    /\ pc[p] = "unlocking" /\ State # Locked => held /\ lifo # <<>>
    /\ pc[p] = "unlocking" /\ seen[p] # Locked => held /\ lifo # <<>>
    /\ pc[p] = "handing" => fifo # <<>>

(* A suspended coroutine is in one of the two lists, once, and only such   *)
(* coroutines are: none is dropped between the compare-exchange of an      *)
(* arriving waiter and the exchange and reversal of an unlock, and no      *)
(* awaiter that was resumed is still linked.                               *)
WaitersListed ==
  \A p \in Coroutines :
    LET at == Listed(p, fifo \o lifo)
    IN  IF pc[p] = "waiting" THEN \E i \in at : at = {i} ELSE at = {}

(* Somebody is in charge as long as the word is not unlocked: a waiter is  *)
(* never left behind with nobody to wake it up, and a mutex nobody uses is *)
(* in the state its destructor asserts (mutex.hpp:54-57).                  *)
SomebodyInCharge ==
  IF \E p \in Coroutines : pc[p] \in Owning
  THEN held
  ELSE ~held /\ lifo = <<>> /\ fifo = <<>>

Owner == IF \E p \in Coroutines : pc[p] \in Owning
         THEN CHOOSE p \in Coroutines : pc[p] \in Owning
         ELSE Nobody

Fifo == INSTANCE FifoLock WITH owner <- Owner, waiting <- fifo \o Reversed(lifo)

(* The mutex is a fair lock: it is handed over in the order in which the   *)
(* waiters' compare-exchanges succeeded, across the switch from one        *)
(* ordered list to the next, and nobody barges in (mutex.hpp:18-40,80-108).*)
ImplementsFifoLock == Fifo!Spec

(* A coroutine that has suspended gets the lock.                           *)
WaiterIsServed == \A p \in Coroutines : pc[p] = "waiting" ~> pc[p] = "inside"
=============================================================================
