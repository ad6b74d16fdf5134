------------------------------- MODULE Timer -------------------------------
(***************************************************************************)
(* runtime/timer: a worker's hierarchical timer wheel (timer.hpp,          *)
(* level.hpp).  Times are milliseconds since the wheel was made.           *)
(*                                                                         *)
(* A wheel belongs to one thread, so each of its methods is one step,      *)
(* except that handle_expired_entries is one step per turn of its loop,    *)
(* with the time it began at in now.  The code has 6 levels of 64 slots    *)
(* and finds the level of an entry from the highest bit in which two times *)
(* differ; here it is the highest digit to the base Mult.  A slot's bit in *)
(* occupied_ is set exactly when its list is not empty.  The order inside  *)
(* a slot is left out.  The clock is taken not to go back.                 *)
(*                                                                         *)
(* No action uses LowerFromElapsed and DueBySlot: each is a faulty variant *)
(* of the next definition, for mutation testing.                           *)
(***************************************************************************)
EXTENDS Naturals, FiniteSets, FiniteSetsExt

CONSTANTS
  Entries,  \* what can be in the wheel at one time
  Mult,     \* LEVEL_MULT, slots per level
  Levels,   \* NUM_LEVELS
  MaxTime   \* bound on time

ASSUME TimerAssumption ==
  Mult \in Nat \ {0, 1} /\ Levels \in Nat \ {0} /\ MaxTime \in Nat

VARIABLES
  elapsed,  \* elapsed_
  now,      \* now in handle_expired_entries, Idle outside of it
  when,     \* when[e]: expiration_time_ - start_time_ of entry e
  place,    \* place[e]: the level and slot e is in, <<>> if in none
  pending,  \* pending_
  live      \* entries whose data_ or handle_ is not null

timerVars == <<elapsed, now, when, place, pending, live>>

Idle == MaxTime + 1

TimerInit ==
  /\ elapsed = 0 /\ now = Idle
  /\ when = [e \in Entries |-> 0]
  /\ place = [e \in Entries |-> <<>>]
  /\ pending = {} /\ live = {}

SlotRange[level \in Nat] == IF level = 0 THEN 1 ELSE SlotRange[level - 1] * Mult
LevelRange(level) == SlotRange[level + 1]
SlotFor(level, w) == (w \div SlotRange[level]) % Mult

LevelFor(from, w) ==
  Max({0} \cup {l \in 0 .. Levels - 1 : from \div SlotRange[l] # w \div SlotRange[l]})

Occupied(level) == {s \in 0 .. Mult - 1 : \E e \in Entries : place[e] = <<level, s>>}

(* Level::next_expiration: the first occupied slot from the one elapsed_   *)
(* is in, and the next time at which that slot begins.                     *)
NextDue(level) ==
  LET nowSlot == elapsed \div SlotRange[level]
      slot == (nowSlot + Min({z \in 0 .. Mult - 1 : (nowSlot + z) % Mult \in Occupied(level)})) % Mult
      due  == (elapsed - (elapsed % LevelRange(level))) + slot * SlotRange[level]
  IN [level |-> level, slot |-> slot,
      deadline |-> IF due <= elapsed THEN due + LevelRange(level) ELSE due]

(* Timer::next_expiration: the lowest level that has an entry.             *)
UsedLevels == {l \in 0 .. Levels - 1 : Occupied(l) # {}}
NextExpiration == NextDue(Min(UsedLevels))

-----------------------------------------------------------------------------
(* insert(), which refuses a time that has passed.                         *)
Insert(e) ==
  /\ now = Idle /\ place[e] = <<>>
  /\ \E w \in elapsed + 1 .. MaxTime :
       LET level == LevelFor(elapsed, w)
       IN /\ when' = [when EXCEPT ![e] = w]
          /\ place' = [place EXCEPT ![e] = <<level, SlotFor(level, w)>>]
  /\ live' = live \cup {e}
  /\ UNCHANGED <<elapsed, now, pending>>

(* remove() of an I/O operation's entry, which only forgets its data_.     *)
RemoveEntry(e) ==
  /\ now = Idle /\ e \in live
  /\ live' = live \ {e}
  /\ UNCHANGED <<elapsed, now, when, place, pending>>

BeginHandling ==
  /\ now = Idle
  /\ now' \in elapsed .. MaxTime
  /\ UNCHANGED <<elapsed, when, place, pending, live>>

(* One turn of the loop: the pending entries are executed, and the slot    *)
(* that is due next is emptied into pending_, or into lower levels as far  *)
(* as its entries are due later.                                           *)
DueBySlot(next) == {e \in Entries : place[e] = <<next.level, next.slot>>}

Due(next) ==
  {e \in Entries : place[e] = <<next.level, next.slot>>
                     /\ (next.level = 0 \/ when[e] <= next.deadline)}

(* Where an entry that is due later goes, the time being the deadline.     *)
LowerFromElapsed(next, w) ==
  LET level == LevelFor(elapsed, w) IN <<level, SlotFor(level, w)>>

Lower(next, w) ==
  LET level == LevelFor(next.deadline, w) IN <<level, SlotFor(level, w)>>

Handle ==
  /\ now # Idle /\ UsedLevels # {} /\ NextExpiration.deadline <= now
  /\ LET next == NextExpiration
         due  == Due(next)
     IN /\ pending' = due
        /\ place' = [e \in Entries |->
             IF place[e] # <<next.level, next.slot>> THEN place[e]
             ELSE IF e \in due THEN <<>>
             ELSE Lower(next, when[e])]
        /\ elapsed' = next.deadline
  /\ live' = live \ pending
  /\ UNCHANGED <<now, when>>

EndHandling ==
  /\ now # Idle /\ (UsedLevels # {} => NextExpiration.deadline > now)
  /\ pending' = {} /\ live' = live \ pending
  /\ elapsed' = now /\ now' = Idle
  /\ UNCHANGED <<when, place>>

TimerNext ==
  \/ \E e \in Entries : Insert(e) \/ RemoveEntry(e)
  \/ BeginHandling \/ Handle \/ EndHandling

TimerSpec == TimerInit /\ [][TimerNext]_timerVars

-----------------------------------------------------------------------------
(* Nothing expires before its time, and when handle_expired_entries        *)
(* returns nothing is left whose time has come (timer.hpp:112-116), through*)
(* every cascade and wrap of the levels.                                   *)
ExpiresOnTime ==
  /\ \A e \in pending : when[e] <= now
  /\ now = Idle => \A e \in live : place[e] # <<>> /\ when[e] > elapsed

(* next_expiration, by which a worker chooses how long to wait, is in the  *)
(* future and not after the earliest entry.                                *)
WakesInTime ==
  now = Idle /\ live # {} =>
    /\ UsedLevels # {} /\ NextExpiration.deadline > elapsed
    /\ \A e \in live : NextExpiration.deadline <= when[e]
=============================================================================
