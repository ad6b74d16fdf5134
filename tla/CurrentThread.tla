--------------------------- MODULE CurrentThread ---------------------------
(***************************************************************************)
(* The single-threaded scheduler (scheduler/current_thread) and the signal *)
(* handlers that interrupt its thread (signal/kind.hpp, signal.hpp).       *)
(*                                                                         *)
(* Everything runs on the thread of block_on; what interleaves is the      *)
(* kernel and, wherever the signal is not masked, the handler, which runs  *)
(* to its end in one step.  If it wants a std::mutex that the worker it    *)
(* interrupted holds, it waits for itself: stuck.  Driver::poll is one     *)
(* step here (Driver has its parts).  One kind of signal is modelled.      *)
(* tick_ is kept modulo the two intervals, which are always the defaults   *)
(* of Config: the constructor does not copy its argument to config_.       *)
(* Nobody closes the global queue, so its closed_ is left out.             *)
(*                                                                         *)
(* No action uses MaskNot: it is a faulty variant of the next definition,  *)
(* for mutation testing.                                                   *)
(***************************************************************************)
EXTENDS Naturals, Sequences, SequencesExt

CONSTANTS
  Tasks, MainTask,
  IoInterval, GlobalInterval  \* config_.io_interval, config_.global_queue_interval

ASSUME CurrentThreadAssumption ==
  MainTask \in Tasks /\ {IoInterval, GlobalInterval} \subseteq Nat \ {0}

VARIABLES
  pc,               \* where the worker is
  tick,             \* tick_
  current,          \* the task that runs
  lifo, local, global,  \* lifo_slot_ (at most one), local_queue_, global_queue_
  inIo, completed,  \* tasks whose operation the kernel has, and has completed
  fresh,            \* tasks not spawned yet
  listening,        \* s_handles
  held,             \* the mutex the worker holds
  handler,          \* the signal's handler: "none", "installed" or "masked"
  eventfd,          \* written and not read since
  isShutdown,       \* is_shutdown_
  stuck             \* the mutex whose owner the handler has interrupted

threadVars == <<pc, tick, current, lifo, local, global, inIo, completed, fresh,
                listening, held, handler, eventfd, isShutdown, stuck>>

tasksVars  == <<inIo, completed, fresh, listening>>
signalVars == <<held, handler, stuck>>

ThreadInit ==
  /\ pc = "start" /\ tick = 0 /\ current = MainTask
  /\ lifo = <<>> /\ local = <<>> /\ global = <<>>
  /\ inIo = {} /\ completed = <<>> /\ fresh = Tasks \ {MainTask} /\ listening = <<>>
  /\ held = "none" /\ handler = "none" /\ stuck = "no"
  /\ eventfd = FALSE /\ isShutdown = FALSE

At(place) == pc = place /\ stuck = "no"

(* schedule_remote and schedule_remote_batch, which wake the worker up.    *)
Pushed(tasks) == global \o tasks

ScheduleRemote(tasks) == global' = Pushed(tasks) /\ eventfd' = TRUE

(* block_on schedules the main task and calls run().                       *)
BlockOn ==
  /\ At("start") /\ pc' = "top" /\ ScheduleRemote(<<MainTask>>)
  /\ UNCHANGED <<tick, current, lifo, local, tasksVars, signalVars, isShutdown>>

(* The head of Worker::run's loop.                                         *)
TopOfLoop ==
  /\ At("top")
  /\ IF isShutdown THEN pc' = "end" /\ UNCHANGED tick
     ELSE /\ tick' = (tick + 1) % (IoInterval * GlobalInterval)
          /\ pc' = IF tick' % IoInterval = 0 THEN "maintenance" ELSE "next"
  /\ UNCHANGED <<current, lifo, local, global, tasksVars, signalVars, eventfd, isShutdown>>

(* Driver::poll: completed operations' tasks are pushed, the eventfd read. *)
Ready == completed # <<>> \/ eventfd

DriverPoll ==
  /\ local' = local \o completed /\ completed' = <<>> /\ eventfd' = FALSE
  /\ UNCHANGED <<tick, current, lifo, global, inIo, fresh, listening, handler, isShutdown, stuck>>

Maintenance == At("maintenance") /\ DriverPoll /\ pc' = "next" /\ UNCHANGED held

(* next_task(), on either side of the global queue's lock.                 *)
TakeLocal ==
  IF lifo # <<>> THEN pc' = "run" /\ current' = lifo[1] /\ lifo' = <<>> /\ UNCHANGED local
  ELSE IF local # <<>> THEN pc' = "run" /\ current' = Head(local) /\ local' = Tail(local) /\ UNCHANGED lifo
  ELSE pc' = "poll" /\ UNCHANGED <<current, lifo, local>>

NextTask ==
  /\ At("next")
  /\ IF tick % GlobalInterval = 0
     THEN pc' = "pop" /\ held' = "queue" /\ UNCHANGED <<current, lifo, local>>
     ELSE IF lifo # <<>> \/ local # <<>> THEN TakeLocal /\ UNCHANGED held
     ELSE pc' = "pop_all" /\ held' = "queue" /\ UNCHANGED <<current, lifo, local>>
  /\ UNCHANGED <<tick, global, tasksVars, handler, stuck, eventfd, isShutdown>>

Pop ==
  /\ At("pop") /\ held' = "none"
  /\ IF global # <<>>
     THEN /\ pc' = "run" /\ current' = Head(global) /\ global' = Tail(global)
          /\ UNCHANGED <<lifo, local>>
     ELSE TakeLocal /\ UNCHANGED global
  /\ UNCHANGED <<tick, tasksVars, handler, stuck, eventfd, isShutdown>>

PopAll ==
  /\ At("pop_all") /\ held' = "none"
  /\ IF global # <<>>
     THEN pc' = "run" /\ current' = Head(global) /\ local' = local \o Tail(global)
     ELSE pc' = "poll" /\ UNCHANGED <<current, local>>
  /\ global' = <<>>
  /\ UNCHANGED <<tick, lifo, tasksVars, handler, stuck, eventfd, isShutdown>>

(* poll() finds something, or the worker sleeps until there is something,  *)
(* and then looks at its queues.                                           *)
PollOnce == At("poll") /\ DriverPoll /\ pc' = (IF Ready THEN "top" ELSE "sleep") /\ UNCHANGED held

Wait ==
  /\ At("sleep") /\ Ready
  /\ DriverPoll
  /\ IF local' # <<>> THEN pc' = "top" /\ UNCHANGED held ELSE pc' = "empty" /\ held' = "queue"

LookAtGlobalQueue ==
  /\ At("empty") /\ held' = "none"
  /\ pc' = IF global # <<>> THEN "top" ELSE "sleep"
  /\ UNCHANGED <<tick, current, lifo, local, global, tasksVars, handler, stuck, eventfd, isShutdown>>

-----------------------------------------------------------------------------
(* The task runs: it ends (the main task closes the runtime), spawns,      *)
(* awaits an operation, or a signal.                                       *)
Finish ==
  /\ At("run") /\ pc' = "top"
  /\ IF current = MainTask THEN isShutdown' = TRUE /\ eventfd' = TRUE
     ELSE UNCHANGED <<isShutdown, eventfd>>
  /\ UNCHANGED <<tick, current, lifo, local, global, tasksVars, signalVars>>

SpawnTask(t) ==
  /\ At("run") /\ t \in fresh /\ fresh' = fresh \ {t}
  /\ local' = local \o lifo /\ lifo' = <<t>>
  /\ UNCHANGED <<pc, tick, current, global, inIo, completed, listening, signalVars, eventfd, isShutdown>>

AwaitIo ==
  /\ At("run") /\ pc' = "top" /\ inIo' = inIo \cup {current}
  /\ UNCHANGED <<tick, current, lifo, local, global, completed, fresh, listening, signalVars, eventfd, isShutdown>>

(* Signal::recv: the handler is installed, the signal masked, the task put *)
(* in the list under s_mutex, the signal unmasked.                         *)
Listen ==
  /\ At("run") /\ pc' = "mask" /\ handler' = "installed"
  /\ UNCHANGED <<tick, current, lifo, local, global, tasksVars, held, stuck, eventfd, isShutdown>>

MaskNot ==
  /\ At("mask") /\ pc' = "register"
  /\ UNCHANGED <<tick, current, lifo, local, global, tasksVars, signalVars, eventfd, isShutdown>>

Mask ==
  /\ At("mask") /\ pc' = "register" /\ handler' = "masked"
  /\ UNCHANGED <<tick, current, lifo, local, global, tasksVars, held, stuck, eventfd, isShutdown>>

LockSignals ==
  /\ At("register") /\ held = "none" /\ held' = "signals"
  /\ UNCHANGED <<pc, tick, current, lifo, local, global, tasksVars, handler, stuck, eventfd, isShutdown>>

Register ==
  /\ At("register") /\ held = "signals" /\ held' = "none"
  /\ listening' = Append(listening, current) /\ pc' = "unmask"
  /\ UNCHANGED <<tick, current, lifo, local, global, inIo, completed, fresh, handler, stuck, eventfd, isShutdown>>

Unmask ==
  /\ At("unmask") /\ pc' = "top" /\ handler' = "installed"
  /\ UNCHANGED <<tick, current, lifo, local, global, tasksVars, held, stuck, eventfd, isShutdown>>

WorkerRuns ==
  \/ TopOfLoop \/ Maintenance \/ NextTask \/ Pop \/ PopAll \/ PollOnce \/ Wait \/ LookAtGlobalQueue
  \/ Finish \/ AwaitIo \/ Listen \/ Mask \/ LockSignals \/ Register \/ Unmask
  \/ \E t \in Tasks : SpawnTask(t)

(* The kernel completes an operation.                                      *)
CompleteIo(t) ==
  /\ stuck = "no" /\ t \in inIo
  /\ inIo' = inIo \ {t} /\ completed' = Append(completed, t)
  /\ UNCHANGED <<pc, tick, current, lifo, local, global, fresh, listening, signalVars, eventfd, isShutdown>>

(* notify_all: takes the list under s_mutex, pushes it to the global queue *)
(* under that queue's mutex, and wakes the worker up.                      *)
HandleSignal ==
  /\ stuck = "no" /\ handler = "installed" /\ pc # "end"
  /\ IF held = "signals" THEN stuck' = "signals" /\ UNCHANGED <<listening, global, eventfd>>
     ELSE /\ listening' = <<>>
          /\ IF held = "queue" THEN stuck' = "queue" /\ UNCHANGED <<global, eventfd>>
             ELSE ScheduleRemote(listening) /\ UNCHANGED stuck
  /\ UNCHANGED <<pc, tick, current, lifo, local, inIo, completed, fresh, held, handler, isShutdown>>

ThreadNext == BlockOn \/ WorkerRuns \/ HandleSignal \/ \E t \in Tasks : CompleteIo(t)

-----------------------------------------------------------------------------
(* A task that is scheduled, by a spawn, a completion or a signal handler  *)
(* that interrupts the worker anywhere, is run, unless the runtime is      *)
(* closed or the handler interrupted the worker inside the global queue's  *)
(* mutex (queue.hpp:38, 53, 74), which kind.hpp does not keep it from; it  *)
(* is kept from s_mutex (kind.hpp:76-84).                                  *)
ScheduledTaskRuns ==
  \A t \in Tasks :
    (t \in ToSet(lifo \o local \o global \o completed))
      ~> ((pc = "run" /\ current = t) \/ isShutdown \/ stuck = "queue")
=============================================================================
