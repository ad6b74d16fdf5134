---------------------------- MODULE SharedMutex ----------------------------
(***************************************************************************)
(* sync/shared_mutex.hpp and, inside it, sync/condition_variable.hpp.      *)
(*                                                                         *)
(* mutex_ is modelled by the line of those who have called lock() and not  *)
(* been unlocked, the owner first, and by granted, those whose lock()      *)
(* returned: unlock() takes the head off, whoever calls it, and grants the *)
(* next.  On an unlocked mutex its assertion (mutex.hpp:81) fails.  What a *)
(* coroutine does between its lock and its unlock is one step; so is the   *)
(* ConditionVariable's Awaiter, which links itself and unlocks.  A list    *)
(* of awaiters is kept youngest first, as head and next_ keep it.          *)
(*                                                                         *)
(* WriterNext has the operations of writers; SharedNext those of readers   *)
(* too, whose lock_shared unlocks twice and fails the assertion at once.   *)
(*                                                                         *)
(* No action uses EnterOnce and WriterLeavesQuietly: each is a faulty      *)
(* variant of the next definition, for mutation testing.                   *)
(***************************************************************************)
EXTENDS Naturals, Sequences, SequencesExt

CONSTANTS Writers, Readers

Sharers == Writers \cup Readers

VARIABLES
  asking,      \* mutex_: who has called lock(), the owner first
  granted,     \* whose lock() has returned
  failed,      \* the assertion in Mutex::unlock has failed
  writing,     \* WRITER_FLAG of state_
  reading,     \* the readers counted in state_
  cond,        \* awaiters of cond_
  writerCond,  \* awaiters of writer_cond_
  doing        \* doing[c]: where coroutine c is

sharedVars == <<asking, granted, failed, writing, reading, cond, writerCond, doing>>

SharedInit ==
  /\ asking = <<>> /\ granted = {} /\ failed = FALSE
  /\ writing = FALSE /\ reading = 0
  /\ cond = <<>> /\ writerCond = <<>>
  /\ doing = [c \in Sharers |-> "outside"]

(* co_await mutex_.lock(), at the start of an operation or after a wait.   *)
Ask(c, from, operation) ==
  /\ ~failed /\ doing[c] = from
  /\ asking' = Append(asking, c)
  /\ granted' = IF asking = <<>> THEN {c} \cup granted ELSE granted
  /\ doing' = [doing EXCEPT ![c] = operation]
  /\ UNCHANGED <<failed, writing, reading, cond, writerCond>>

InMutex(c, operation) == ~failed /\ doing[c] = operation /\ c \in granted

Unlock(c) ==
  /\ failed' = (asking = <<>>)
  /\ asking' = IF asking = <<>> THEN <<>> ELSE Tail(asking)
  /\ granted' = (granted \ {c}) \cup (IF asking' = <<>> THEN {} ELSE {Head(asking')})

Then(c, place, woken, wokenDo) ==
  doing' = [d \in Sharers |-> IF d = c THEN place ELSE IF d \in woken THEN wokenDo ELSE doing[d]]

-----------------------------------------------------------------------------
(* lock(), behind its lock of mutex_: waits while there is a writer, sets  *)
(* the flag, waits while there are readers.                                *)
WaitForWriter(c) ==
  /\ InMutex(c, "lock") /\ writing
  /\ cond' = <<c>> \o cond
  /\ Then(c, "in cond", {}, "")
  /\ Unlock(c)
  /\ UNCHANGED <<writing, reading, writerCond>>

EnterOnce(c) ==
  /\ InMutex(c, "lock") /\ reading = 0
  /\ writing' = TRUE
  /\ Then(c, "writing", {}, "")
  /\ Unlock(c)
  /\ UNCHANGED <<reading, cond, writerCond>>

Enter(c) ==
  /\ InMutex(c, "lock") /\ ~writing /\ reading = 0
  /\ writing' = TRUE
  /\ Then(c, "writing", {}, "")
  /\ Unlock(c)
  /\ UNCHANGED <<reading, cond, writerCond>>

(* unlock(): its assertion is that state_ is WRITER_FLAG.                  *)
WriterLeavesQuietly(c) ==
  /\ InMutex(c, "unlock") /\ writing /\ reading = 0
  /\ writing' = FALSE
  /\ Then(c, "outside", {}, "")
  /\ Unlock(c)
  /\ UNCHANGED <<reading, cond, writerCond>>

WriterLeaves(c) ==
  /\ InMutex(c, "unlock") /\ writing /\ reading = 0
  /\ writing' = FALSE
  /\ cond' = <<>>
  /\ Then(c, "outside", ToSet(cond), "woken")
  /\ Unlock(c)
  /\ UNCHANGED <<reading, writerCond>>

WriterStep(c) ==
  \/ Ask(c, "writing", "unlock") \/ Ask(c, "woken", "lock")
  \/ WaitForWriter(c) \/ Enter(c) \/ WriterLeaves(c)

WriterNext == \E c \in Writers : Ask(c, "outside", "lock") \/ WriterStep(c)

-----------------------------------------------------------------------------
(* The part of lock() that only readers bring about.                       *)
WaitForReaders(c) ==
  /\ \/ InMutex(c, "lock") /\ ~writing
     \/ InMutex(c, "drain")
  /\ reading > 0
  /\ writing' = TRUE
  /\ writerCond' = <<c>> \o writerCond
  /\ Then(c, "in writerCond", {}, "")
  /\ Unlock(c)
  /\ UNCHANGED <<reading, cond>>

EnterDrained(c) ==
  /\ InMutex(c, "drain") /\ reading = 0
  /\ Then(c, "writing", {}, "")
  /\ Unlock(c)
  /\ UNCHANGED <<writing, reading, cond, writerCond>>

(* lock_shared(): waits while there is a writer, counts itself, unlocks,   *)
(* and unlocks again when its lock_guard goes.                             *)
WaitToRead(c) ==
  /\ InMutex(c, "lock_shared") /\ writing
  /\ cond' = <<c>> \o cond
  /\ Then(c, "in cond", {}, "")
  /\ Unlock(c)
  /\ UNCHANGED <<writing, reading, writerCond>>

EnterShared(c) ==
  /\ InMutex(c, "lock_shared") /\ ~writing
  /\ reading' = reading + 1
  /\ Then(c, "unlock again", {}, "")
  /\ Unlock(c)
  /\ UNCHANGED <<writing, cond, writerCond>>

UnlockAgain(c) ==
  /\ ~failed /\ doing[c] = "unlock again"
  /\ Then(c, "reading", {}, "")
  /\ Unlock(c)
  /\ UNCHANGED <<writing, reading, cond, writerCond>>

(* unlock_shared(): the last reader wakes the writer that waits for it.    *)
(* (2^63 - 1 readers at once are not reached.)                             *)
ReaderLeaves(c) ==
  /\ InMutex(c, "unlock_shared")
  /\ reading' = reading - 1
  /\ IF writing /\ reading = 1 /\ writerCond # <<>>
     THEN writerCond' = Tail(writerCond) /\ Then(c, "outside", {Head(writerCond)}, "drained")
     ELSE UNCHANGED writerCond /\ Then(c, "outside", {}, "")
  /\ Unlock(c)
  /\ UNCHANGED <<writing, cond>>

SharedNext ==
  \/ WriterNext
  \/ \E c \in Writers : WaitForReaders(c) \/ EnterDrained(c) \/ Ask(c, "drained", "drain")
  \/ \E c \in Readers :
       \/ Ask(c, "outside", "lock_shared") \/ Ask(c, "woken", "lock_shared")
       \/ Ask(c, "reading", "unlock_shared")
       \/ WaitToRead(c) \/ EnterShared(c) \/ UnlockAgain(c) \/ ReaderLeaves(c)

(* A writer that has begun to lock goes on, and one that is in leaves.     *)
WriterFairness == \A c \in Writers : WF_sharedVars(WriterStep(c))

SharedSpec == SharedInit /\ [][SharedNext]_sharedVars

-----------------------------------------------------------------------------
(* At most one coroutine is between the end of lock() and unlock(), and    *)
(* then the flag is set (shared_mutex.hpp:19-21, condition_variable.hpp:   *)
(* 74-77: the predicate is looked at again behind every wait).             *)
OneWriter ==
  \A c, d \in Writers :
    doing[c] \in {"writing", "unlock"} =>
      writing /\ (doing[d] \in {"writing", "unlock"} => c = d)

(* While a writer wants in, some writer gets in: no notification is lost   *)
(* between a predicate that fails and the Awaiter that links itself, nor   *)
(* between unlock's notify_all and the wait of one that was woken.         *)
SomeWriterEnters ==
  \A c \in Writers :
    (doing[c] \in {"lock", "in cond", "woken"}) ~> (\E d \in Writers : doing[d] = "writing")

(* The assertion of mutex.hpp:81: whoever unlocks finds the mutex locked.  *)
UnlocksLockedMutex == ~failed
=============================================================================
