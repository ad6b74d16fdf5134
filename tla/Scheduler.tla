------------------------------ MODULE Scheduler ------------------------------
(***************************************************************************)
(* The multi_thread scheduler: Worker::run, the Idle bookkeeping of who    *)
(* works, searches and sleeps, and the eventfd each worker is woken with.  *)
(*                                                                         *)
(* Tasks are counted, not named: LocalQueue tells them apart and shows the *)
(* queues keep each exactly once.  A queue's operation is one step here,   *)
(* except that a thief holds its victim's slots until it has copied them.  *)
(* Idle's packed counter is read and changed with and without Idle's       *)
(* mutex, so each access to it is a step of its own.                       *)
(*                                                                         *)
(* Actors are the workers and Main, the thread that owns the runtime and   *)
(* schedules tasks from outside.  Any of them may be in wake_up_one.  All  *)
(* workers have been constructed, and none has started.                    *)
(*                                                                         *)
(* No action uses RemoveAlwaysCounts, ParkLooksNowhere, DestroyAtOnce,     *)
(* RemoveNeverSearches, NotifyRecheckNot, NotifyCommitMixesUp,             *)
(* ScheduleRemoteSilently and SleepUnchecked: each is a faulty variant of  *)
(* the definition after it, for mutation testing.                          *)
(***************************************************************************)
EXTENDS Integers, FiniteSets

CONSTANTS Workers,
          Main,
          Nobody,
          Capacity,   \* LOCAL_QUEUE_CAPACITY
          Fuel        \* how many tasks are spawned and I/Os started in a run

ASSUME ActorsDistinct ==
  /\ IsFiniteSet(Workers) /\ Workers # {}
  /\ Main \notin Workers
  /\ Nobody \notin Workers \cup {Main}

ASSUME SizesPositive ==
  /\ Capacity \in Nat /\ Capacity > 0 /\ Capacity % 2 = 0
  /\ Fuel \in Nat

VARIABLES
  working, searching, \* IdleState::state_
  sleepers,           \* sleeping_workers
  holder,             \* who holds Idle's mutex_ between two steps
  lifo,               \* lifo[w]: lifo_slot_.has_value()
  queue,              \* queue[w]: local_queue_.size()
  thief,              \* thief[w]: who is copying tasks out of w's ring
  global,             \* global_queue_.size()
  closed,             \* is_closed_
  flag,               \* flag[w]: is_searching_
  down,               \* down[w]: is_shutdown_
  wake,               \* wake[w]: w's eventfd was written and its poll has not seen it
  io,                 \* io[w]: operations submitted to w's io_uring, not completed
  pc,                 \* pc[a]: where actor a is
  after,              \* after[a]: where a goes on after wake_up_one
  target,             \* target[a]: the worker whose eventfd a is about to write
  left,               \* left[a]: the workers a's loop has not visited yet
  n,                  \* n[w]: the local variable n of next_task, of steal_into
  fuel                \* how many tasks the program may still make

idle    == <<working, searching, sleepers, holder>>
queues  == <<lifo, queue, thief, global>>
drivers == <<wake, io>>
locals  == <<after, target, left, n>>
vars == <<idle, queues, closed, flag, down, drivers, pc, locals, fuel>>

Actors == Workers \cup {Main}
N == Cardinality(Workers)

Smaller(a, b) == IF a < b THEN a ELSE b

Init ==
  /\ working = N /\ searching = 0
  /\ sleepers = {}
  /\ holder = Nobody
  /\ lifo  = [w \in Workers |-> FALSE]
  /\ queue = [w \in Workers |-> 0]
  /\ thief = [w \in Workers |-> Nobody]
  /\ global = 0
  /\ closed = FALSE
  /\ flag = [w \in Workers |-> FALSE]
  /\ down = [w \in Workers |-> FALSE]
  /\ wake = [w \in Workers |-> FALSE]
  /\ io   = [w \in Workers |-> 0]
  /\ pc     = [a \in Actors |-> IF a = Main THEN "outside" ELSE "top"]
  /\ after  = [a \in Actors |-> "outside"]
  /\ target = [a \in Actors |-> Nobody]
  /\ left   = [a \in Actors |-> {}]
  /\ n      = [w \in Workers |-> 0]
  /\ fuel = Fuel

-----------------------------------------------------------------------------
Goto(a, label) == pc' = [pc EXCEPT ![a] = label]

(* wake_up_one() called by a, which goes on at label when it returns.      *)
WakeUpOneThen(a, label) ==
  /\ Goto(a, "notify")
  /\ after' = [after EXCEPT ![a] = label]

Return(a) ==
  /\ Goto(a, after[a])
  /\ after' = [after EXCEPT ![a] = "outside"]

HasTask(w) == lifo[w] \/ queue[w] > 0

(* remaining_slots(): what a thief copies still takes room.                *)
Stolen(w) == IF thief[w] = Nobody THEN 0 ELSE n[thief[w]]
Room(w)   == Capacity - queue[w] - Stolen(w)

(* What GlobalQueue holds after k more tasks: a closed one drops them.     *)
Accepted(g, k) == IF closed THEN g ELSE g + k

(* push_back_or_overflow by w: a task that finds no room goes to the global *)
(* queue, and takes half the ring along unless a thief is at work.         *)
Spilt(w) == IF thief[w] = Nobody THEN Capacity \div 2 ELSE 0

(* w pushes k tasks.  Each time the ring is full one of them overflows, so *)
(* as many do as keep the ring between what a spill leaves and full.       *)
PushTasks(w, k) ==
  \E overflows \in 0 .. k :
    LET moved == overflows * (Spilt(w) + 1)
        kept  == queue[w] + k - moved
    IN  /\ kept + Stolen(w) <= Capacity
        /\ overflows > 0 => kept + Stolen(w) >= Capacity - Spilt(w)
        /\ queue' = [queue EXCEPT ![w] = kept]
        /\ global' = Accepted(global, moved)

-----------------------------------------------------------------------------
(* wake_up_one: is nobody searching, and somebody not working?             *)
ShouldWakeUp == searching = 0 /\ working < N

(* worker_to_notify() looks without the mutex first ...                    *)
NotifyLook(a) ==
  /\ pc[a] = "notify"
  /\ IF ShouldWakeUp
     THEN Goto(a, "recheck") /\ UNCHANGED after
     ELSE Return(a)
  /\ UNCHANGED <<idle, queues, closed, flag, down, drivers, target, left, n, fuel>>

(* ... and again with it.                                                  *)
NotifyRecheckNot(a) ==
  /\ pc[a] = "recheck"
  /\ holder = Nobody
  /\ Goto(a, "commit")
  /\ holder' = a
  /\ UNCHANGED <<working, searching, sleepers, queues, closed, flag, down, drivers,
                 after, target, left, n, fuel>>

NotifyRecheck(a) ==
  /\ pc[a] = "recheck"
  /\ holder = Nobody
  /\ IF ShouldWakeUp
     THEN Goto(a, "commit") /\ holder' = a /\ UNCHANGED after
     ELSE Return(a) /\ UNCHANGED holder
  /\ UNCHANGED <<working, searching, sleepers, queues, closed, flag, down, drivers,
                 target, left, n, fuel>>

(* The sleeper that is first in the hash set works and searches from now on. *)
NotifyCommitMixesUp(a) ==
  /\ pc[a] = "commit"
  /\ \E w, first \in sleepers :
       /\ sleepers' = sleepers \ {w}
       /\ target' = [target EXCEPT ![a] = first]
  /\ working' = working + 1
  /\ searching' = searching + 1
  /\ holder' = Nobody
  /\ Goto(a, "signal")
  /\ UNCHANGED <<queues, closed, flag, down, drivers, after, left, n, fuel>>

NotifyCommit(a) ==
  /\ pc[a] = "commit"
  /\ \E w \in sleepers :
       /\ sleepers' = sleepers \ {w}
       /\ target' = [target EXCEPT ![a] = w]
  /\ working' = working + 1
  /\ searching' = searching + 1
  /\ holder' = Nobody
  /\ Goto(a, "signal")
  /\ UNCHANGED <<queues, closed, flag, down, drivers, after, left, n, fuel>>

(* Write the chosen worker's eventfd.                                      *)
Signal(a) ==
  /\ pc[a] = "signal"
  /\ wake' = [wake EXCEPT ![target[a]] = TRUE]
  /\ target' = [target EXCEPT ![a] = Nobody]
  /\ Return(a)
  /\ UNCHANGED <<idle, queues, closed, flag, down, io, left, n, fuel>>

Notify(a) == NotifyLook(a) \/ NotifyRecheck(a) \/ NotifyCommit(a) \/ Signal(a)

-----------------------------------------------------------------------------
(* run(): the loop ends, or a tick begins.  Every io_interval ticks the    *)
(* worker polls its driver and looks whether the runtime was closed, every *)
(* global_queue_interval ticks it prefers the global queue.                *)
Tick(w) ==
  /\ pc[w] = "top"
  /\ \/ down[w] /\ Goto(w, "leaving")
     \/ ~down[w] /\ \E label \in {"maintenance", "next"} : Goto(w, label)
  /\ UNCHANGED <<idle, queues, closed, flag, down, drivers, locals, fuel>>

CheckShutdown(w) == down' = [down EXCEPT ![w] = @ \/ closed]

Maintain(w) ==
  /\ pc[w] = "check"
  /\ CheckShutdown(w)
  /\ Goto(w, "next")
  /\ UNCHANGED <<idle, queues, closed, flag, drivers, locals, fuel>>

(* poll(): events operations have completed, their tasks are pushed to w's *)
(* queue, and an eventfd that was written may be seen.  With more than one *)
(* task, a worker that does not search wakes another.                      *)
Poll(w) ==
  /\ pc[w] \in {"maintenance", "poll"}
  /\ \E events \in 0 .. io[w], woken \in BOOLEAN :
       LET some == IF pc[w] = "poll" THEN "top" ELSE "check"
           none == IF pc[w] = "poll" THEN "sleep" ELSE "check"
       IN  /\ woken => wake[w]
           /\ wake' = [wake EXCEPT ![w] = @ /\ ~woken]
           /\ io' = [io EXCEPT ![w] = @ - events]
           /\ PushTasks(w, events)
           /\ \/ ~woken /\ events = 0 /\ Goto(w, none) /\ UNCHANGED after
              \/ /\ woken \/ events > 0
                 /\ IF ~flag[w] /\ queue'[w] > 1
                    THEN WakeUpOneThen(w, some)
                    ELSE Goto(w, some) /\ UNCHANGED after
  /\ UNCHANGED <<idle, lifo, thief, closed, flag, down, target, left, n, fuel>>

-----------------------------------------------------------------------------
(* next_remote_task(), when there is one.                                  *)
TakeRemote(w) ==
  /\ global > 0
  /\ global' = global - 1
  /\ Goto(w, "start")
  /\ UNCHANGED <<lifo, queue, thief>>

(* next_local_task(), when there is one.                                   *)
TakeLocal(w) ==
  /\ HasTask(w)
  /\ IF lifo[w]
     THEN lifo' = [lifo EXCEPT ![w] = FALSE] /\ UNCHANGED queue
     ELSE queue' = [queue EXCEPT ![w] = @ - 1] /\ UNCHANGED lifo
  /\ Goto(w, "start")
  /\ UNCHANGED <<thief, global>>

(* next_task(): on some ticks the global queue's turn comes first, so one  *)
(* with tasks may be asked whatever w holds.  Otherwise w asks it when it  *)
(* has nothing left, for a share of what it holds and w's ring has room    *)
(* for (none when all slots are being stolen: then it takes one task).     *)
Fetchable(w) == Smaller(Room(w), Capacity \div 2)

NextTask(w) ==
  /\ pc[w] = "next"
  /\ \/ TakeRemote(w) /\ UNCHANGED n
     \/ TakeLocal(w) /\ UNCHANGED n
     \/ /\ ~HasTask(w) /\ global > 0 /\ Fetchable(w) > 0
        /\ n' = [n EXCEPT ![w] = Smaller(global \div N + 1, Fetchable(w))]
        /\ Goto(w, "fetch")
        /\ UNCHANGED queues
     \/ /\ ~HasTask(w) /\ global = 0
        /\ Goto(w, "search")
        /\ UNCHANGED <<queues, n>>
  /\ UNCHANGED <<idle, closed, flag, down, drivers, after, target, left, fuel>>

(* pop_n() and push_batch(): run the first task, queue the others.         *)
Fetch(w) ==
  /\ pc[w] = "fetch"
  /\ n' = [n EXCEPT ![w] = 0]
  /\ LET got == Smaller(n[w], global)
     IN  IF got = 0
         THEN Goto(w, "search") /\ UNCHANGED <<queue, global>>
         ELSE /\ global' = global - got
              /\ queue' = [queue EXCEPT ![w] = @ + got - 1]
              /\ Goto(w, "start")
  /\ UNCHANGED <<idle, lifo, thief, closed, flag, down, drivers, after, target, left,
                 fuel>>

-----------------------------------------------------------------------------
(* transition_to_searching(): half the workers may search, by a count that *)
(* is read in one step and changed in the next.                            *)
ToSearching(w) ==
  /\ pc[w] = "search"
  /\ \/ /\ flag[w]
        /\ Goto(w, "scan")
        /\ left' = [left EXCEPT ![w] = Workers \ {w}]
     \/ ~flag[w] /\ 2 * searching >= N /\ Goto(w, "poll") /\ UNCHANGED left
     \/ ~flag[w] /\ 2 * searching < N /\ Goto(w, "join") /\ UNCHANGED left
  /\ UNCHANGED <<idle, queues, closed, flag, down, drivers, after, target, n, fuel>>

JoinSearch(w) ==
  /\ pc[w] = "join"
  /\ searching' = searching + 1
  /\ flag' = [flag EXCEPT ![w] = TRUE]
  /\ left' = [left EXCEPT ![w] = Workers \ {w}]
  /\ Goto(w, "scan")
  /\ UNCHANGED <<working, sleepers, holder, queues, closed, down, drivers, after,
                 target, n, fuel>>

(* steal_task(): claim half of what the next victim v has.  A thief with a *)
(* half-full ring, or a victim another thief is at, gives nothing.         *)
Stealable(w, v) ==
  IF thief[v] # Nobody \/ 2 * (Capacity - Room(w)) > Capacity
  THEN 0 ELSE queue[v] - queue[v] \div 2

Steal(w, v) ==
  /\ pc[w] = "scan"
  /\ v \in left[w]
  /\ LET k == Stealable(w, v)
     IN  /\ left' = [left EXCEPT ![w] = IF k = 0 THEN @ \ {v} ELSE {}]
         /\ IF k = 0
            THEN UNCHANGED <<queue, thief, n, pc>>
            ELSE /\ queue' = [queue EXCEPT ![v] = @ - k]
                 /\ thief' = [thief EXCEPT ![v] = w]
                 /\ n' = [n EXCEPT ![w] = k]
                 /\ Goto(w, "steal")
  /\ UNCHANGED <<idle, lifo, global, closed, flag, down, drivers, after, target, fuel>>

(* The slots are copied: release the victim, run one task, keep the others. *)
StealDone(w) ==
  /\ pc[w] = "steal"
  /\ thief' = [v \in Workers |-> IF thief[v] = w THEN Nobody ELSE thief[v]]
  /\ queue' = [queue EXCEPT ![w] = @ + n[w] - 1]
  /\ n' = [n EXCEPT ![w] = 0]
  /\ Goto(w, "start")
  /\ UNCHANGED <<idle, lifo, global, closed, flag, down, drivers, after, target, left,
                 fuel>>

(* No victim is left: ask the global queue once more.                      *)
LastLook(w) ==
  /\ pc[w] = "scan"
  /\ left[w] = {}
  /\ \/ TakeRemote(w)
     \/ global = 0 /\ Goto(w, "poll") /\ UNCHANGED queues
  /\ UNCHANGED <<idle, closed, flag, down, drivers, locals, fuel>>

-----------------------------------------------------------------------------
(* sleep(): has the runtime been closed?  has_task() is false here unless  *)
(* something was pushed since next_task() looked.                          *)
SleepUnchecked(w) ==
  /\ pc[w] = "sleep"
  /\ Goto(w, IF HasTask(w) THEN "top" ELSE "park")
  /\ UNCHANGED <<idle, queues, closed, flag, down, drivers, locals, fuel>>

Sleep(w) ==
  /\ pc[w] = "sleep"
  /\ CheckShutdown(w)
  /\ Goto(w, IF HasTask(w) THEN "top" ELSE "park")
  /\ UNCHANGED <<idle, queues, closed, flag, drivers, locals, fuel>>

(* transition_to_sleeping(): the last searcher must look for work once it  *)
(* is listed, as whoever added work meanwhile left it to the searchers.    *)
ParkLooksNowhere(w) ==
  /\ pc[w] = "park"
  /\ holder = Nobody
  /\ working' = working - 1
  /\ searching' = IF flag[w] THEN searching - 1 ELSE searching
  /\ sleepers' = sleepers \cup {w}
  /\ flag' = [flag EXCEPT ![w] = FALSE]
  /\ Goto(w, "wait")
  /\ UNCHANGED <<holder, queues, closed, down, drivers, after, target, left, n, fuel>>

Park(w) ==
  /\ pc[w] = "park"
  /\ holder = Nobody
  /\ working' = working - 1
  /\ searching' = IF flag[w] THEN searching - 1 ELSE searching
  /\ sleepers' = sleepers \cup {w}
  /\ flag' = [flag EXCEPT ![w] = FALSE]
  /\ IF flag[w] /\ searching = 1
     THEN Goto(w, "pending") /\ left' = [left EXCEPT ![w] = Workers]
     ELSE Goto(w, "wait") /\ UNCHANGED left
  /\ UNCHANGED <<holder, queues, closed, down, drivers, after, target, n, fuel>>

(* wake_up_if_work_pending(): wake the owner of the first queue that is    *)
(* not empty, or any sleeper when only the global queue is not.            *)
LookAtQueue(w, v) ==
  /\ pc[w] = "pending"
  /\ v \in left[w]
  /\ IF queue[v] > 0
     THEN /\ target' = [target EXCEPT ![w] = v]
          /\ left' = [left EXCEPT ![w] = {}]
          /\ Goto(w, "signal")
          /\ after' = [after EXCEPT ![w] = "wait"]
     ELSE left' = [left EXCEPT ![w] = @ \ {v}] /\ UNCHANGED <<target, pc, after>>
  /\ UNCHANGED <<idle, queues, closed, flag, down, drivers, n, fuel>>

LookAtGlobal(w) ==
  /\ pc[w] = "pending"
  /\ left[w] = {}
  /\ IF global > 0 THEN WakeUpOneThen(w, "wait") ELSE Goto(w, "wait") /\ UNCHANGED after
  /\ UNCHANGED <<idle, queues, closed, flag, down, drivers, target, left, n, fuel>>

-----------------------------------------------------------------------------
(* Driver::wait: io_uring returns when the eventfd was written, an         *)
(* operation completes or a timer is due, and the driver is polled.        *)
(* shutdown: sleep()'s loop ends without waiting.                          *)
Shutdown(w) ==
  /\ pc[w] = "wait"
  /\ down[w]
  /\ Goto(w, "top")
  /\ UNCHANGED <<idle, queues, closed, flag, down, drivers, locals, fuel>>

WaitReturns(w) ==
  /\ pc[w] = "wait"
  /\ ~down[w]
  /\ wake' = [wake EXCEPT ![w] = FALSE]
  /\ \E events \in 0 .. io[w] :
       /\ io' = [io EXCEPT ![w] = @ - events]
       /\ PushTasks(w, events)
  /\ Goto(w, "woken")
  /\ UNCHANGED <<idle, lifo, thief, closed, flag, down, locals, fuel>>

WaitForWaker(w)  == wake[w] /\ WaitReturns(w)
WaitForEvents(w) == ~wake[w] /\ WaitReturns(w)

(* check_shutdown(), then transition_from_sleeping(): has_task()?          *)
Woken(w) ==
  /\ pc[w] = "woken"
  /\ CheckShutdown(w)
  /\ Goto(w, IF HasTask(w) THEN "remove" ELSE "contains")
  /\ UNCHANGED <<idle, queues, closed, flag, drivers, locals, fuel>>

(* There is a task to run: a worker that woke by itself does not search,   *)
(* one that was chosen by wake_up_one is counted as searching already.     *)
RemoveNeverSearches(w) ==
  /\ pc[w] = "remove"
  /\ holder = Nobody
  /\ sleepers' = sleepers \ {w}
  /\ working' = IF w \in sleepers THEN working + 1 ELSE working
  /\ flag' = [flag EXCEPT ![w] = FALSE]
  /\ Goto(w, "top")
  /\ UNCHANGED <<searching, holder, queues, closed, down, drivers, locals, fuel>>

RemoveAlwaysCounts(w) ==
  /\ pc[w] = "remove"
  /\ holder = Nobody
  /\ sleepers' = sleepers \ {w}
  /\ working' = working + 1
  /\ flag' = [flag EXCEPT ![w] = w \notin sleepers]
  /\ Goto(w, "top")
  /\ UNCHANGED <<searching, holder, queues, closed, down, drivers, locals, fuel>>

Remove(w) ==
  /\ pc[w] = "remove"
  /\ holder = Nobody
  /\ sleepers' = sleepers \ {w}
  /\ working' = IF w \in sleepers THEN working + 1 ELSE working
  /\ flag' = [flag EXCEPT ![w] = w \notin sleepers]
  /\ Goto(w, "top")
  /\ UNCHANGED <<searching, holder, queues, closed, down, drivers, locals, fuel>>

(* There is none: search if chosen, else wait again.                       *)
Contains(w) ==
  /\ pc[w] = "contains"
  /\ holder = Nobody
  /\ flag' = [flag EXCEPT ![w] = w \notin sleepers]
  /\ Goto(w, IF w \in sleepers THEN "wait" ELSE "top")
  /\ UNCHANGED <<idle, queues, closed, down, drivers, locals, fuel>>

-----------------------------------------------------------------------------
(* transition_from_searching(): the last searcher to find work wakes a     *)
(* worker to search in its stead.                                          *)
Start(w) ==
  /\ pc[w] = "start"
  /\ flag' = [flag EXCEPT ![w] = FALSE]
  /\ searching' = IF flag[w] THEN searching - 1 ELSE searching
  /\ IF flag[w] /\ searching = 1
     THEN WakeUpOneThen(w, "run")
     ELSE Goto(w, "run") /\ UNCHANGED after
  /\ UNCHANGED <<working, sleepers, holder, queues, closed, down, drivers, target,
                 left, n, fuel>>

(* The running task schedules another on this worker: it takes the LIFO    *)
(* slot, whose task, if any, moves to the queue.                           *)
Spawn(w) ==
  /\ pc[w] = "run"
  /\ fuel > 0
  /\ fuel' = fuel - 1
  /\ lifo' = [lifo EXCEPT ![w] = TRUE]
  /\ IF lifo[w]
     THEN PushTasks(w, 1) /\ WakeUpOneThen(w, "run")
     ELSE UNCHANGED <<queue, global, pc, after>>
  /\ UNCHANGED <<idle, thief, closed, flag, down, drivers, target, left, n>>

(* It starts an operation and suspends until that completes, or it ends.   *)
StartIo(w) ==
  /\ pc[w] = "run"
  /\ fuel > 0
  /\ fuel' = fuel - 1
  /\ io' = [io EXCEPT ![w] = @ + 1]
  /\ Goto(w, "top")
  /\ UNCHANGED <<idle, queues, closed, flag, down, wake, locals>>

Finish(w) ==
  /\ pc[w] = "run"
  /\ Goto(w, "top")
  /\ UNCHANGED <<idle, queues, closed, flag, down, drivers, locals, fuel>>

(* The main task closes the runtime as it ends, then writes every worker's *)
(* eventfd.                                                                *)
Close(w) ==
  /\ pc[w] = "run"
  /\ ~closed
  /\ closed' = TRUE
  /\ left' = [left EXCEPT ![w] = Workers]
  /\ Goto(w, "close")
  /\ UNCHANGED <<idle, queues, flag, down, drivers, after, target, n, fuel>>

WakeUpAll(w) ==
  /\ pc[w] = "close"
  /\ \/ \E v \in left[w] :
          /\ wake' = [wake EXCEPT ![v] = TRUE]
          /\ left' = [left EXCEPT ![w] = @ \ {v}]
          /\ UNCHANGED pc
     \/ left[w] = {} /\ Goto(w, "top") /\ UNCHANGED <<wake, left>>
  /\ UNCHANGED <<idle, queues, closed, flag, down, io, after, target, n, fuel>>

(* ~Worker: shutdown_.arrive_and_wait() holds every worker until all have  *)
(* left run().                                                             *)
DestroyAtOnce(w) ==
  /\ pc[w] = "leaving"
  /\ Goto(w, "gone")
  /\ UNCHANGED <<idle, queues, closed, flag, down, drivers, locals, fuel>>

Destroy(w) ==
  /\ pc[w] = "leaving"
  /\ \A v \in Workers : pc[v] \in {"leaving", "gone"}
  /\ Goto(w, "gone")
  /\ UNCHANGED <<idle, queues, closed, flag, down, drivers, locals, fuel>>

(* Main schedules a task: schedule_remote().                               *)
ScheduleRemoteSilently ==
  /\ pc[Main] = "outside"
  /\ fuel > 0
  /\ fuel' = fuel - 1
  /\ global' = Accepted(global, 1)
  /\ UNCHANGED <<idle, lifo, queue, thief, closed, flag, down, drivers, pc, locals>>

ScheduleRemote ==
  /\ pc[Main] = "outside"
  /\ fuel > 0
  /\ fuel' = fuel - 1
  /\ global' = Accepted(global, 1)
  /\ WakeUpOneThen(Main, "outside")
  /\ UNCHANGED <<idle, lifo, queue, thief, closed, flag, down, drivers, target, left, n>>

(* schedule_remote_batch(), with as many tasks as it says.                 *)
ScheduleRemoteBatch ==
  /\ pc[Main] = "outside"
  /\ \E k \in 2 .. fuel : fuel' = fuel - k /\ global' = Accepted(global, k)
  /\ WakeUpOneThen(Main, "outside")
  /\ UNCHANGED <<idle, lifo, queue, thief, closed, flag, down, drivers, target, left, n>>

-----------------------------------------------------------------------------
(* The steps worker w takes by itself; what a task does is one of them.    *)
WorkerStep(w) ==
  \/ Notify(w)
  \/ Tick(w) \/ Maintain(w) \/ Poll(w)
  \/ NextTask(w) \/ Fetch(w)
  \/ ToSearching(w) \/ JoinSearch(w) \/ LastLook(w) \/ StealDone(w)
  \/ \E v \in Workers : Steal(w, v) \/ LookAtQueue(w, v)
  \/ Sleep(w) \/ Park(w) \/ LookAtGlobal(w)
  \/ Shutdown(w) \/ WaitForWaker(w) \/ Woken(w) \/ Remove(w) \/ Contains(w)
  \/ Start(w) \/ Spawn(w) \/ StartIo(w) \/ Finish(w) \/ Close(w) \/ WakeUpAll(w)
  \/ Destroy(w)

(* Everyone has left.                                                      *)
Terminated ==
  /\ \A w \in Workers : pc[w] = "gone"
  /\ pc[Main] = "outside"
  /\ UNCHANGED vars

Next ==
  \/ \E w \in Workers : WorkerStep(w) \/ WaitForEvents(w)
  \/ Notify(Main) \/ ScheduleRemote \/ ScheduleRemoteBatch
  \/ Terminated

Spec == Init /\ [][Next]_vars

(* The operating system runs every thread.  It need not complete an        *)
(* operation, let a timer expire, nor Main schedule anything.              *)
FairSpec ==
  /\ Spec
  /\ \A w \in Workers : WF_vars(WorkerStep(w))
  /\ WF_vars(Notify(Main))

-----------------------------------------------------------------------------
WorkerLabels ==
  {"top", "maintenance", "check", "next", "fetch", "search", "join", "scan", "steal",
   "poll", "sleep", "park", "pending", "wait", "woken", "remove", "contains", "start",
   "run", "close", "leaving", "gone"}
NotifyLabels == {"notify", "recheck", "commit", "signal"}

(* The variables hold what the code's types allow, the counter never goes  *)
(* below zero nor past the workers, and a ring never holds more than its   *)
(* capacity, what a thief is copying included.                             *)
TypeOK ==
  /\ working \in 0 .. N /\ searching \in 0 .. N
  /\ sleepers \subseteq Workers
  /\ holder \in Actors \cup {Nobody}
  /\ lifo \in [Workers -> BOOLEAN]
  /\ queue \in [Workers -> 0 .. Capacity]
  /\ thief \in [Workers -> Workers \cup {Nobody}]
  /\ \A w \in Workers : Room(w) >= 0
  /\ global \in Nat
  /\ closed \in BOOLEAN
  /\ flag \in [Workers -> BOOLEAN]
  /\ down \in [Workers -> BOOLEAN]
  /\ wake \in [Workers -> BOOLEAN]
  /\ io \in [Workers -> 0 .. Fuel]
  /\ pc \in [Actors -> WorkerLabels \cup NotifyLabels \cup {"outside"}]
  /\ after \in [Actors -> WorkerLabels \cup {"outside"}]
  /\ target \in [Actors -> Workers \cup {Nobody}]
  /\ left \in [Actors -> SUBSET Workers]
  /\ n \in [Workers -> 0 .. Capacity]
  /\ fuel \in 0 .. Fuel

(* Where a worker is between transition_to_sleeping and -from_sleeping.    *)
Parked(w) ==
  \/ pc[w] \in {"pending", "wait", "woken", "remove", "contains"}
  \/ pc[w] \in NotifyLabels /\ after[w] = "wait"

(* Idle's packed counter agrees with what it counts, although it changes   *)
(* partly without the mutex and a worker chosen by wake_up_one is counted  *)
(* as searching long before it sets its own flag: whoever is not listed as *)
(* sleeping works, and who searches has the flag or was chosen.  (A worker *)
(* chosen after close() may leave without ever searching.)                 *)
IdleCounts ==
  /\ working + Cardinality(sleepers) = N
  /\ ~closed => searching = Cardinality({w \in Workers :
                                flag[w] \/ (Parked(w) /\ w \notin sleepers)})

(* worker_to_notify dereferences sleeping_workers.begin(): the set is not  *)
(* empty when it does, whatever happened to the searchers since the look.  *)
SleeperToWake == \A a \in Actors : pc[a] = "commit" => sleepers # {}

(* A worker taken off the list of sleepers is woken: its eventfd has been  *)
(* written, or the one who chose it is about to write it.  Nobody else     *)
(* could, as it is no longer listed.                                       *)
ChosenIsWoken ==
  \A w \in Workers :
    pc[w] = "wait" /\ w \notin sleepers =>
      wake[w] \/ \E a \in Actors : pc[a] = "signal" /\ target[a] = w

(* No wake-up is lost: no worker waits for events while its own queue or   *)
(* LIFO slot has a task, and when every worker waits, no eventfd is written *)
(* and Main is not about to choose one, then no task is queued anywhere    *)
(* and the runtime is not closed.                                          *)
Asleep(w) == pc[w] = "wait" /\ ~down[w] /\ ~wake[w]
Queued    == global > 0 \/ \E w \in Workers : HasTask(w)

NoLostWakeup ==
  /\ \A w \in Workers : pc[w] = "wait" => down[w] \/ ~HasTask(w)
  /\ (\A w \in Workers : Asleep(w)) /\ pc[Main] = "outside" => ~Queued /\ ~closed

(* No worker writes the eventfd of one that is destroyed, which is what    *)
(* the latch in ~Worker is for.                                            *)
WakesLiveWorkers ==
  \A w \in Workers :
    /\ pc[w] = "signal" => pc[target[w]] # "gone"
    /\ pc[w] = "close" => \A v \in left[w] : pc[v] # "gone"

(* Queued tasks are all taken to be run, unless the runtime is closed.     *)
QueuedTasksRun == Queued ~> (closed \/ ~Queued)

(* After close() every worker leaves run() and is destroyed.               *)
ClosedRuntimeStops == closed ~> \A w \in Workers : pc[w] = "gone"
=============================================================================
