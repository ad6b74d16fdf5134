--------------------------- MODULE SchedulerProofs ---------------------------
(***************************************************************************)
(* What Idle's bookkeeping guarantees for any number of workers, whatever  *)
(* the queues and drivers do: IdleCounts, SleeperToWake and ChosenIsWoken. *)
(*                                                                         *)
(* None of them is inductive.  That a worker which goes to sleep was not   *)
(* listed already, and that one taken off the list had cleared its flag,   *)
(* rests on where listed workers can be (Listing, ParkedIsQuiet); that a   *)
(* sleeper is left when one is chosen rests on the mutex, which keeps the  *)
(* count of working workers still between recheck and commit (Committing). *)
(* That a chosen worker is woken rests on Chosen, which follows it from    *)
(* when it is listed and not only from when it waits.                      *)
(***************************************************************************)
EXTENDS Scheduler, FiniteSetTheorems, TLAPS

Labels == WorkerLabels \cup NotifyLabels \cup {"outside"}

(* Where an actor goes on after wake_up_one.                               *)
Returns == {"outside", "top", "check", "run", "wait"}

Typed ==
  /\ working \in Int /\ searching \in Int
  /\ sleepers \subseteq Workers
  /\ flag \in [Workers -> BOOLEAN]
  /\ down \in [Workers -> BOOLEAN]
  /\ closed \in BOOLEAN
  /\ pc \in [Actors -> Labels]
  /\ after \in [Actors -> Returns]

(* A listed worker is parked, or leaves because the runtime was closed.    *)
Listing ==
  \A w \in sleepers : Parked(w) \/ (down[w] /\ pc[w] \in {"top", "leaving", "gone"})

(* A worker that is parked, or about to join the searchers, has no flag.   *)
ParkedIsQuiet == \A w \in Workers : Parked(w) \/ pc[w] = "join" => ~flag[w]

DownIsClosed == \A w \in Workers : down[w] => closed

(* Whoever is about to choose a sleeper holds the mutex, and not everybody *)
(* works.                                                                  *)
Committing == \A a \in Actors : pc[a] = "commit" => holder = a /\ working < N

(* Whom the number of searching workers counts.                            *)
Searchers == {w \in Workers : flag[w] \/ (Parked(w) /\ w \notin sleepers)}

Counted ==
  /\ working + Cardinality(sleepers) = N
  /\ ~closed => searching = Cardinality(Searchers)

Phases == Typed /\ Listing /\ ParkedIsQuiet /\ DownIsClosed /\ Committing

IdleInv == Phases /\ Counted

-----------------------------------------------------------------------------
(* Most steps leave Idle and the flags alone and move one actor.           *)
Quiet ==
  /\ working' = working /\ searching' = searching /\ sleepers' = sleepers
  /\ closed => closed'
  /\ ~closed' => Searchers' = Searchers

(* Only actor a moves, and down and closed are raised at most.             *)
OnlyMoves(a) ==
  /\ pc' \in [Actors -> Labels] /\ after' \in [Actors -> Returns]
  /\ \A b \in Actors \ {a} : pc'[b] = pc[b] /\ after'[b] = after[b]
  /\ down' \in [Workers -> BOOLEAN] /\ closed' \in BOOLEAN
  /\ \A w \in Workers : (down[w] => down'[w]) /\ (down'[w] => closed')
  /\ closed => closed'

(* Where worker w may be after such a step.                                *)
FitsIn(w) ==
  /\ w \in sleepers => Parked(w)' \/ (down'[w] /\ pc'[w] \in {"top", "leaving", "gone"})
  /\ Parked(w)' \/ pc'[w] = "join" => ~flag[w]
  /\ ~closed' /\ w \notin sleepers => (Parked(w)' <=> Parked(w))

LEMMA Moves ==
  ASSUME Phases, NEW a \in Actors,
         UNCHANGED <<working, searching, sleepers, holder, flag>>,
         OnlyMoves(a), pc'[a] # "commit", a \in Workers => FitsIn(a)
  PROVE  Phases' /\ Quiet
  <1> USE DEF OnlyMoves, FitsIn
  <1>1. \A w \in Workers : w # a => (Parked(w)' <=> Parked(w))
    BY DEF Parked, Actors
  <1>2. Typed'
    BY DEF Phases, Typed
  <1>3. Listing'
    <2> SUFFICES ASSUME NEW w \in sleepers
                 PROVE  Parked(w)' \/ (down'[w] /\ pc'[w] \in {"top", "leaving", "gone"})
      BY DEF Listing
    <2>1. w \in Workers /\ w \in Actors
      BY DEF Phases, Typed, Actors
    <2>2. CASE w = a
      BY <2>1, <2>2
    <2>3. CASE w # a
      BY <1>1, <2>1, <2>3 DEF Phases, Listing
    <2> QED  BY <2>2, <2>3
  <1>4. ParkedIsQuiet'
    BY <1>1 DEF Phases, ParkedIsQuiet, Actors
  <1>5. DownIsClosed' /\ Committing'
    BY DEF Phases, DownIsClosed, Committing, N
  <1>6. ~closed' => Searchers' = Searchers
    BY <1>1 DEF Searchers
  <1> QED  BY <1>2, <1>3, <1>4, <1>5, <1>6 DEF Phases, Quiet

(* The steps of a worker that is not parked and stays so.                  *)
LEMMA Walks ==
  ASSUME Phases, NEW w \in Workers,
         UNCHANGED <<working, searching, sleepers, holder, flag>>,
         OnlyMoves(w), ~Parked(w), pc[w] \notin {"top", "leaving", "gone"},
         ~Parked(w)', pc'[w] \notin {"commit", "join"}
  PROVE  Phases' /\ Quiet
  <1>1. w \notin sleepers
    BY DEF Phases, Listing
  <1>2. FitsIn(w)
    BY <1>1 DEF FitsIn
  <1> QED  BY <1>2, Moves DEF Actors

(* Those of one that is parked and stays so.                               *)
LEMMA Rests ==
  ASSUME Phases, NEW w \in Workers,
         UNCHANGED <<working, searching, sleepers, holder, flag>>,
         OnlyMoves(w), Parked(w), Parked(w)', pc'[w] # "commit"
  PROVE  Phases' /\ Quiet
  <1>1. FitsIn(w)
    BY DEF FitsIn, Phases, ParkedIsQuiet, Parked, NotifyLabels
  <1> QED  BY <1>1, Moves DEF Actors

LEMMA Frame ==
  ASSUME Phases
  PROVE  /\ pc \in [Actors -> Labels] /\ after \in [Actors -> Returns]
         /\ down \in [Workers -> BOOLEAN] /\ closed \in BOOLEAN
         /\ flag \in [Workers -> BOOLEAN]
         /\ \A w \in Workers : w \in Actors /\ (down[w] => closed)
  BY DEF Phases, Typed, DownIsClosed, Actors

-----------------------------------------------------------------------------
(* One lemma per action that leaves Idle and the flags alone.              *)
LEMMA TickInv ==
  ASSUME Phases, NEW w \in Workers, Tick(w)
  PROVE  Phases' /\ Quiet
  <1> USE Frame DEF Tick, Goto, locals, idle
  <1>1. OnlyMoves(w) /\ pc'[w] # "commit"
    BY DEF OnlyMoves, Labels, WorkerLabels
  <1>2. FitsIn(w)
    BY DEF FitsIn, Phases, Listing, Parked, NotifyLabels
  <1> QED  BY <1>1, <1>2, Moves

LEMMA MaintainInv ==
  ASSUME Phases, NEW w \in Workers, Maintain(w)
  PROVE  Phases' /\ Quiet
  <1> USE Frame DEF Maintain, CheckShutdown, Goto, idle, locals
  <1>1. OnlyMoves(w) /\ pc'[w] \notin {"commit", "join"}
    BY DEF OnlyMoves, Labels, WorkerLabels, NotifyLabels, Returns
  <1>2. ~Parked(w) /\ ~Parked(w)'
    BY DEF Parked, NotifyLabels
  <1> QED  BY <1>1, <1>2, Walks

LEMMA PollInv ==
  ASSUME Phases, NEW w \in Workers, Poll(w)
  PROVE  Phases' /\ Quiet
  <1> USE Frame DEF Poll, WakeUpOneThen, PushTasks, Goto, idle, locals
  <1>1. OnlyMoves(w) /\ pc'[w] \notin {"commit", "join"}
    BY DEF OnlyMoves, Labels, WorkerLabels, NotifyLabels, Returns
  <1>2. ~Parked(w) /\ ~Parked(w)'
    BY DEF Parked, NotifyLabels
  <1> QED  BY <1>1, <1>2, Walks

LEMMA NextTaskInv ==
  ASSUME Phases, NEW w \in Workers, NextTask(w)
  PROVE  Phases' /\ Quiet
  <1> USE Frame DEF NextTask, TakeRemote, TakeLocal, Goto, idle, locals
  <1>1. OnlyMoves(w) /\ pc'[w] \notin {"commit", "join"}
    BY DEF OnlyMoves, Labels, WorkerLabels, NotifyLabels, Returns
  <1>2. ~Parked(w) /\ ~Parked(w)'
    BY DEF Parked, NotifyLabels
  <1> QED  BY <1>1, <1>2, Walks

LEMMA FetchInv ==
  ASSUME Phases, NEW w \in Workers, Fetch(w)
  PROVE  Phases' /\ Quiet
  <1> USE Frame DEF Fetch, Goto, idle, locals
  <1>1. OnlyMoves(w) /\ pc'[w] \notin {"commit", "join"}
    BY DEF OnlyMoves, Labels, WorkerLabels, NotifyLabels, Returns
  <1>2. ~Parked(w) /\ ~Parked(w)'
    BY DEF Parked, NotifyLabels
  <1> QED  BY <1>1, <1>2, Walks

LEMMA StealDoneInv ==
  ASSUME Phases, NEW w \in Workers, StealDone(w)
  PROVE  Phases' /\ Quiet
  <1> USE Frame DEF StealDone, Goto, idle, locals
  <1>1. OnlyMoves(w) /\ pc'[w] \notin {"commit", "join"}
    BY DEF OnlyMoves, Labels, WorkerLabels, NotifyLabels, Returns
  <1>2. ~Parked(w) /\ ~Parked(w)'
    BY DEF Parked, NotifyLabels
  <1> QED  BY <1>1, <1>2, Walks

LEMMA LastLookInv ==
  ASSUME Phases, NEW w \in Workers, LastLook(w)
  PROVE  Phases' /\ Quiet
  <1> USE Frame DEF LastLook, TakeRemote, Goto, idle, locals
  <1>1. OnlyMoves(w) /\ pc'[w] \notin {"commit", "join"}
    BY DEF OnlyMoves, Labels, WorkerLabels, NotifyLabels, Returns
  <1>2. ~Parked(w) /\ ~Parked(w)'
    BY DEF Parked, NotifyLabels
  <1> QED  BY <1>1, <1>2, Walks

LEMMA SleepInv ==
  ASSUME Phases, NEW w \in Workers, Sleep(w)
  PROVE  Phases' /\ Quiet
  <1> USE Frame DEF Sleep, CheckShutdown, Goto, idle, locals
  <1>1. OnlyMoves(w) /\ pc'[w] \notin {"commit", "join"}
    BY DEF OnlyMoves, Labels, WorkerLabels, NotifyLabels, Returns
  <1>2. ~Parked(w) /\ ~Parked(w)'
    BY DEF Parked, NotifyLabels
  <1> QED  BY <1>1, <1>2, Walks

LEMMA SpawnInv ==
  ASSUME Phases, NEW w \in Workers, Spawn(w)
  PROVE  Phases' /\ Quiet
  <1> USE Frame DEF Spawn, PushTasks, WakeUpOneThen, Goto, idle, locals
  <1>1. OnlyMoves(w) /\ pc'[w] \notin {"commit", "join"}
    BY DEF OnlyMoves, Labels, WorkerLabels, NotifyLabels, Returns
  <1>2. ~Parked(w) /\ ~Parked(w)'
    BY DEF Parked, NotifyLabels
  <1> QED  BY <1>1, <1>2, Walks

LEMMA StartIoInv ==
  ASSUME Phases, NEW w \in Workers, StartIo(w)
  PROVE  Phases' /\ Quiet
  <1> USE Frame DEF StartIo, Goto, idle, locals
  <1>1. OnlyMoves(w) /\ pc'[w] \notin {"commit", "join"}
    BY DEF OnlyMoves, Labels, WorkerLabels, NotifyLabels, Returns
  <1>2. ~Parked(w) /\ ~Parked(w)'
    BY DEF Parked, NotifyLabels
  <1> QED  BY <1>1, <1>2, Walks

LEMMA FinishInv ==
  ASSUME Phases, NEW w \in Workers, Finish(w)
  PROVE  Phases' /\ Quiet
  <1> USE Frame DEF Finish, Goto, idle, locals
  <1>1. OnlyMoves(w) /\ pc'[w] \notin {"commit", "join"}
    BY DEF OnlyMoves, Labels, WorkerLabels, NotifyLabels, Returns
  <1>2. ~Parked(w) /\ ~Parked(w)'
    BY DEF Parked, NotifyLabels
  <1> QED  BY <1>1, <1>2, Walks

LEMMA CloseInv ==
  ASSUME Phases, NEW w \in Workers, Close(w)
  PROVE  Phases' /\ Quiet
  <1> USE Frame DEF Close, Goto, idle, locals
  <1>1. OnlyMoves(w) /\ pc'[w] \notin {"commit", "join"}
    BY DEF OnlyMoves, Labels, WorkerLabels, NotifyLabels, Returns
  <1>2. ~Parked(w) /\ ~Parked(w)'
    BY DEF Parked, NotifyLabels
  <1> QED  BY <1>1, <1>2, Walks

LEMMA WakeUpAllInv ==
  ASSUME Phases, NEW w \in Workers, WakeUpAll(w)
  PROVE  Phases' /\ Quiet
  <1> USE Frame DEF WakeUpAll, Goto, idle, locals
  <1>1. OnlyMoves(w) /\ pc'[w] \notin {"commit", "join"}
    BY DEF OnlyMoves, Labels, WorkerLabels, NotifyLabels, Returns
  <1>2. ~Parked(w) /\ ~Parked(w)'
    BY DEF Parked, NotifyLabels
  <1> QED  BY <1>1, <1>2, Walks

LEMMA StealInv ==
  ASSUME Phases, NEW w \in Workers, NEW v \in Workers, Steal(w, v)
  PROVE  Phases' /\ Quiet
  <1> USE Frame DEF Steal, Goto, idle, locals
  <1>1. OnlyMoves(w) /\ pc'[w] \notin {"commit", "join"}
    BY DEF OnlyMoves, Labels, WorkerLabels, NotifyLabels, Returns
  <1>2. ~Parked(w) /\ ~Parked(w)'
    BY DEF Parked, NotifyLabels
  <1> QED  BY <1>1, <1>2, Walks

LEMMA LookAtGlobalInv ==
  ASSUME Phases, NEW w \in Workers, LookAtGlobal(w)
  PROVE  Phases' /\ Quiet
  <1> USE Frame DEF LookAtGlobal, WakeUpOneThen, Goto, idle, locals
  <1>1. OnlyMoves(w) /\ pc'[w] \notin {"commit", "join"}
    BY DEF OnlyMoves, Labels, WorkerLabels, NotifyLabels, Returns
  <1>2. Parked(w) /\ Parked(w)'
    BY DEF Parked, NotifyLabels
  <1> QED  BY <1>1, <1>2, Rests

LEMMA WaitReturnsInv ==
  ASSUME Phases, NEW w \in Workers, WaitReturns(w)
  PROVE  Phases' /\ Quiet
  <1> USE Frame DEF WaitReturns, Goto, idle, locals
  <1>1. OnlyMoves(w) /\ pc'[w] \notin {"commit", "join"}
    BY DEF OnlyMoves, Labels, WorkerLabels, NotifyLabels, Returns
  <1>2. Parked(w) /\ Parked(w)'
    BY DEF Parked, NotifyLabels
  <1> QED  BY <1>1, <1>2, Rests

LEMMA WokenInv ==
  ASSUME Phases, NEW w \in Workers, Woken(w)
  PROVE  Phases' /\ Quiet
  <1> USE Frame DEF Woken, CheckShutdown, Goto, idle, locals
  <1>1. OnlyMoves(w) /\ pc'[w] \notin {"commit", "join"}
    BY DEF OnlyMoves, Labels, WorkerLabels, NotifyLabels, Returns
  <1>2. Parked(w) /\ Parked(w)'
    BY DEF Parked, NotifyLabels
  <1> QED  BY <1>1, <1>2, Rests

LEMMA LookAtQueueInv ==
  ASSUME Phases, NEW w \in Workers, NEW v \in Workers, LookAtQueue(w, v)
  PROVE  Phases' /\ Quiet
  <1> USE Frame DEF LookAtQueue, Goto, idle, locals
  <1>1. OnlyMoves(w) /\ pc'[w] \notin {"commit", "join"}
    BY DEF OnlyMoves, Labels, WorkerLabels, NotifyLabels, Returns
  <1>2. Parked(w) /\ Parked(w)'
    BY DEF Parked, NotifyLabels
  <1> QED  BY <1>1, <1>2, Rests

LEMMA ShutdownInv ==
  ASSUME Phases, NEW w \in Workers, Shutdown(w)
  PROVE  Phases' /\ Quiet
  <1> USE Frame DEF Shutdown, Goto, locals, idle
  <1>1. OnlyMoves(w) /\ pc'[w] # "commit"
    BY DEF OnlyMoves, Labels, WorkerLabels
  <1>2. FitsIn(w)
    BY DEF FitsIn, Parked, NotifyLabels
  <1> QED  BY <1>1, <1>2, Moves

LEMMA DestroyInv ==
  ASSUME Phases, NEW w \in Workers, Destroy(w)
  PROVE  Phases' /\ Quiet
  <1> USE Frame DEF Destroy, Goto, locals, idle
  <1>1. OnlyMoves(w) /\ pc'[w] # "commit"
    BY DEF OnlyMoves, Labels, WorkerLabels
  <1>2. FitsIn(w)
    BY DEF FitsIn, Phases, Listing, Parked, NotifyLabels
  <1> QED  BY <1>1, <1>2, Moves

LEMMA ToSearchingInv ==
  ASSUME Phases, NEW w \in Workers, ToSearching(w)
  PROVE  Phases' /\ Quiet
  <1> USE Frame DEF ToSearching, Goto, idle
  <1>1. OnlyMoves(w) /\ pc'[w] # "commit"
    BY DEF OnlyMoves, Labels, WorkerLabels
  <1>2. FitsIn(w)
    BY DEF FitsIn, Phases, Listing, Parked, NotifyLabels
  <1> QED  BY <1>1, <1>2, Moves

LEMMA ScheduleRemoteInv ==
  ASSUME Phases, ScheduleRemote \/ ScheduleRemoteBatch
  PROVE  Phases' /\ Quiet
  <1> USE Frame DEF ScheduleRemote, ScheduleRemoteBatch, WakeUpOneThen, Goto, idle
  <1>1. Main \in Actors /\ Main \notin Workers
    BY ActorsDistinct DEF Actors
  <1>2. OnlyMoves(Main) /\ pc'[Main] # "commit"
    BY <1>1 DEF OnlyMoves, Labels, NotifyLabels, Returns
  <1> QED  BY <1>1, <1>2, Moves

-----------------------------------------------------------------------------
(* wake_up_one.  Returning from it, a parked worker goes back to wait.     *)
LEMMA Returning ==
  ASSUME Phases, NEW a \in Actors, pc[a] \in NotifyLabels, Return(a),
         UNCHANGED <<idle, closed, flag, down>>
  PROVE  Phases' /\ Quiet
  <1> USE Frame DEF Return, Goto, idle
  <1>1. OnlyMoves(a) /\ pc'[a] # "commit"
    BY DEF OnlyMoves, Labels, WorkerLabels, Returns
  <1>2. a \in Workers => FitsIn(a)
    BY DEF FitsIn, Phases, Listing, ParkedIsQuiet, Parked, NotifyLabels, Returns
  <1> QED  BY <1>1, <1>2, Moves

LEMMA NotifyLookInv ==
  ASSUME Phases, NEW a \in Actors, NotifyLook(a)
  PROVE  Phases' /\ Quiet
  <1> USE DEF NotifyLook
  <1>1. CASE ShouldWakeUp
    <2> USE <1>1, Frame DEF Goto, idle
    <2>1. OnlyMoves(a) /\ pc'[a] # "commit"
      BY DEF OnlyMoves, Labels, NotifyLabels
    <2>2. a \in Workers => FitsIn(a)
      BY DEF FitsIn, Phases, Listing, ParkedIsQuiet, Parked, NotifyLabels
    <2> QED  BY <2>1, <2>2, Moves
  <1>2. CASE ~ShouldWakeUp
    BY <1>2, Returning DEF NotifyLabels
  <1> QED  BY <1>1, <1>2

LEMMA SignalInv ==
  ASSUME Phases, NEW a \in Actors, Signal(a)
  PROVE  Phases' /\ Quiet
  BY Returning DEF Signal, NotifyLabels

LEMMA NotifyRecheckInv ==
  ASSUME Phases, NEW a \in Actors, NotifyRecheck(a)
  PROVE  Phases' /\ Quiet
  <1> USE DEF NotifyRecheck
  <1>1. CASE ~ShouldWakeUp
    BY <1>1, Returning DEF NotifyLabels, idle
  <1>2. CASE ShouldWakeUp
    <2> USE <1>2, Frame DEF Goto
    <2>1. \A w \in Workers : Parked(w)' <=> Parked(w)
      BY DEF Parked, NotifyLabels
    <2>2. Typed'
      BY DEF Phases, Typed, Labels, NotifyLabels
    <2>3. \A w \in sleepers : w \in Workers /\ pc[w] = "recheck" => Parked(w)
      BY DEF Phases, Typed, Listing
    <2>4. Listing' /\ ParkedIsQuiet' /\ DownIsClosed'
      BY <2>1, <2>3 DEF Phases, Typed, Listing, ParkedIsQuiet, DownIsClosed
    <2>5. \A b \in Actors : pc[b] # "commit"
      BY ActorsDistinct DEF Phases, Committing, Actors
    <2>6. Committing'
      BY <2>5 DEF Committing, ShouldWakeUp, N
    <2>7. Searchers' = Searchers
      BY <2>1 DEF Searchers
    <2> QED  BY <2>2, <2>4, <2>6, <2>7 DEF Phases, Quiet
  <1> QED  BY <1>1, <1>2

-----------------------------------------------------------------------------
(* The steps that change Idle or a flag: what they do to the searchers.    *)
LEMMA NotifyCommitInv ==
  ASSUME Phases, NEW a \in Actors, NotifyCommit(a)
  PROVE  /\ Phases' /\ working' = working + 1 /\ searching' = searching + 1
         /\ UNCHANGED closed
         /\ \E w \in sleepers : /\ sleepers' = sleepers \ {w}
                                /\ ~closed => /\ w \notin Searchers
                                              /\ Searchers' = Searchers \cup {w}
  <1> USE Frame
  <1>1. PICK w \in sleepers : sleepers' = sleepers \ {w}
    BY DEF NotifyCommit
  <1>2. w \in Workers
    BY DEF Phases, Typed
  <1>3. \A v \in Workers : Parked(v)' <=> Parked(v)
    BY DEF NotifyCommit, Goto, Parked, NotifyLabels
  <1>4. Typed'
    BY <1>1 DEF Phases, Typed, NotifyCommit, Goto, Labels, NotifyLabels
  <1>5. \A v \in sleepers : pc[v] = "commit" => Parked(v)
    BY DEF Phases, Typed, Listing
  <1>6. Listing' /\ ParkedIsQuiet' /\ DownIsClosed'
    BY <1>1, <1>3, <1>5
       DEF Phases, Typed, Listing, ParkedIsQuiet, DownIsClosed, NotifyCommit, Goto
  <1>7. Committing'
    BY DEF Phases, Committing, NotifyCommit, Goto
  <1>8. ASSUME ~closed PROVE w \notin Searchers /\ Searchers' = Searchers \cup {w}
    <2>1. Parked(w) /\ ~flag[w]
      BY <1>2, <1>8 DEF Phases, Listing, ParkedIsQuiet, DownIsClosed
    <2>2. flag' = flag
      BY DEF NotifyCommit
    <2> QED  BY <1>1, <1>2, <1>3, <2>1, <2>2 DEF Searchers
  <1> QED  BY <1>1, <1>4, <1>6, <1>7, <1>8 DEF Phases, NotifyCommit

LEMMA JoinSearchInv ==
  ASSUME Phases, NEW w \in Workers, JoinSearch(w)
  PROVE  /\ Phases' /\ searching' = searching + 1
         /\ UNCHANGED <<working, sleepers, closed>>
         /\ w \notin Searchers /\ Searchers' = Searchers \cup {w}
  <1> USE Frame DEF JoinSearch, Goto
  <1>1. ~Parked(w) /\ ~Parked(w)' /\ ~flag[w] /\ w \notin sleepers
    BY DEF Phases, Parked, Listing, ParkedIsQuiet, NotifyLabels
  <1>2. \A v \in Workers \ {w} : (Parked(v)' <=> Parked(v)) /\ pc'[v] = pc[v]
    BY DEF Parked
  <1>3. Typed'
    BY DEF Phases, Typed, Labels, WorkerLabels
  <1>4. Listing' /\ ParkedIsQuiet' /\ DownIsClosed' /\ Committing'
    BY <1>1, <1>2 DEF Phases, Typed, Listing, ParkedIsQuiet, DownIsClosed, Committing, N
  <1>5. w \notin Searchers /\ Searchers' = Searchers \cup {w}
    BY <1>1, <1>2 DEF Searchers, Phases, Typed
  <1> QED  BY <1>3, <1>4, <1>5 DEF Phases

LEMMA ParkInv ==
  ASSUME Phases, NEW w \in Workers, Park(w)
  PROVE  /\ Phases' /\ working' = working - 1
         /\ UNCHANGED closed
         /\ w \notin sleepers /\ sleepers' = sleepers \cup {w}
         /\ Searchers' = Searchers \ {w}
         /\ searching' = IF w \in Searchers THEN searching - 1 ELSE searching
  <1> USE Frame DEF Park, Goto
  <1>1. ~Parked(w) /\ Parked(w)' /\ w \notin sleepers
    BY DEF Phases, Parked, Listing, NotifyLabels
  <1>2. \A v \in Workers \ {w} : (Parked(v)' <=> Parked(v)) /\ pc'[v] = pc[v]
    BY DEF Parked
  <1>3. Typed'
    BY DEF Phases, Typed, Labels, WorkerLabels
  <1>4. Listing' /\ ParkedIsQuiet' /\ DownIsClosed'
    BY <1>1, <1>2 DEF Phases, Typed, Listing, ParkedIsQuiet, DownIsClosed
  <1>5. \A b \in Actors : pc[b] # "commit"
    BY ActorsDistinct DEF Phases, Committing, Actors
  <1>6. Committing'
    BY <1>5 DEF Committing
  <1>7. w \in Searchers <=> flag[w]
    BY <1>1 DEF Searchers
  <1>8. Searchers' = Searchers \ {w}
    BY <1>1, <1>2 DEF Searchers, Phases, Typed
  <1> QED  BY <1>1, <1>3, <1>4, <1>6, <1>7, <1>8 DEF Phases

LEMMA RemoveInv ==
  ASSUME Phases, NEW w \in Workers, Remove(w)
  PROVE  /\ Phases' /\ UNCHANGED <<searching, closed>>
         /\ working' = IF w \in sleepers THEN working + 1 ELSE working
         /\ sleepers' = sleepers \ {w}
         /\ Searchers' = Searchers
  <1> USE Frame DEF Remove, Goto, locals
  <1>1. Parked(w) /\ ~Parked(w)' /\ ~flag[w]
    BY DEF Phases, Parked, ParkedIsQuiet, NotifyLabels
  <1>2. \A v \in Workers \ {w} : (Parked(v)' <=> Parked(v)) /\ pc'[v] = pc[v]
    BY DEF Parked
  <1>3. Typed'
    BY DEF Phases, Typed, Labels, WorkerLabels
  <1>4. Listing' /\ ParkedIsQuiet' /\ DownIsClosed'
    BY <1>1, <1>2 DEF Phases, Typed, Listing, ParkedIsQuiet, DownIsClosed
  <1>5. \A b \in Actors : pc[b] # "commit"
    BY ActorsDistinct DEF Phases, Committing, Actors
  <1>6. Committing'
    BY <1>5 DEF Committing
  <1>7. Searchers' = Searchers
    BY <1>1, <1>2 DEF Searchers, Phases, Typed
  <1> QED  BY <1>3, <1>4, <1>6, <1>7 DEF Phases

LEMMA ContainsInv ==
  ASSUME Phases, NEW w \in Workers, Contains(w)
  PROVE  Phases' /\ Quiet
  <1> USE Frame DEF Contains, Goto, locals, idle
  <1>1. Parked(w) /\ ~flag[w] /\ (Parked(w)' <=> w \in sleepers)
    BY DEF Phases, Parked, ParkedIsQuiet, NotifyLabels
  <1>2. \A v \in Workers \ {w} : (Parked(v)' <=> Parked(v)) /\ pc'[v] = pc[v]
    BY DEF Parked
  <1>3. Typed'
    BY DEF Phases, Typed, Labels, WorkerLabels
  <1>4. Listing' /\ ParkedIsQuiet' /\ DownIsClosed' /\ Committing'
    BY <1>1, <1>2 DEF Phases, Typed, Listing, ParkedIsQuiet, DownIsClosed, Committing, N
  <1>5. Searchers' = Searchers
    BY <1>1, <1>2 DEF Searchers, Phases, Typed
  <1> QED  BY <1>3, <1>4, <1>5 DEF Phases, Quiet

LEMMA StartInv ==
  ASSUME Phases, NEW w \in Workers, Start(w)
  PROVE  /\ Phases' /\ UNCHANGED <<working, sleepers, closed>>
         /\ Searchers' = Searchers \ {w}
         /\ searching' = IF w \in Searchers THEN searching - 1 ELSE searching
  <1> USE Frame DEF Start, Goto, WakeUpOneThen
  <1>1. ~Parked(w) /\ ~Parked(w)' /\ w \notin sleepers
    BY DEF Phases, Parked, Listing, NotifyLabels, Returns
  <1>2. \A v \in Workers \ {w} : (Parked(v)' <=> Parked(v)) /\ pc'[v] = pc[v]
    BY DEF Parked
  <1>3. Typed'
    BY DEF Phases, Typed, Labels, WorkerLabels, NotifyLabels, Returns
  <1>4. Listing' /\ ParkedIsQuiet' /\ DownIsClosed' /\ Committing'
    BY <1>1, <1>2 DEF Phases, Typed, Listing, ParkedIsQuiet, DownIsClosed, Committing, N
  <1>5. w \in Searchers <=> flag[w]
    BY <1>1 DEF Searchers
  <1>6. Searchers' = Searchers \ {w}
    BY <1>1, <1>2 DEF Searchers, Phases, Typed
  <1> QED  BY <1>3, <1>4, <1>5, <1>6 DEF Phases

-----------------------------------------------------------------------------
(* The counts.                                                             *)
LEMMA Sizes ==
  ASSUME Phases
  PROVE  /\ working \in Int /\ searching \in Int /\ N \in Nat
         /\ IsFiniteSet(sleepers) /\ Cardinality(sleepers) \in Nat
         /\ IsFiniteSet(Searchers) /\ Cardinality(Searchers) \in Nat
  <1>1. sleepers \subseteq Workers /\ Searchers \subseteq Workers
    BY DEF Phases, Typed, Searchers
  <1>2. IsFiniteSet(Workers)
    BY ActorsDistinct
  <1>3. IsFiniteSet(sleepers) /\ IsFiniteSet(Searchers)
    BY <1>1, <1>2, FS_Subset
  <1> QED  BY <1>2, <1>3, FS_CardinalityType DEF Phases, Typed, N

LEMMA QuietCounts ==
  ASSUME Counted, Quiet, closed \in BOOLEAN, closed' \in BOOLEAN
  PROVE  Counted'
  BY DEF Counted, Quiet, N

LEMMA NotifyCommitCounts ==
  ASSUME IdleInv, NEW a \in Actors, NotifyCommit(a)
  PROVE  IdleInv'
  <1>0. Phases /\ Counted
    BY DEF IdleInv
  <1>1. PICK w \in sleepers :
          /\ sleepers' = sleepers \ {w}
          /\ ~closed => w \notin Searchers /\ Searchers' = Searchers \cup {w}
    BY <1>0, NotifyCommitInv
  <1>2. Cardinality(sleepers') = Cardinality(sleepers) - 1
    BY <1>0, <1>1, Sizes, FS_RemoveElement
  <1>3. ~closed => Cardinality(Searchers') = Cardinality(Searchers) + 1
    BY <1>0, <1>1, Sizes, FS_AddElement
  <1>4. Phases' /\ working' = working + 1 /\ searching' = searching + 1 /\ closed' = closed
    BY <1>0, NotifyCommitInv
  <1> QED  BY <1>0, <1>2, <1>3, <1>4, Sizes DEF IdleInv, Counted, N

LEMMA JoinSearchCounts ==
  ASSUME IdleInv, NEW w \in Workers, JoinSearch(w)
  PROVE  IdleInv'
  <1>0. Phases /\ Counted
    BY DEF IdleInv
  <1>1. Cardinality(Searchers') = Cardinality(Searchers) + 1
    BY <1>0, JoinSearchInv, Sizes, FS_AddElement
  <1> QED  BY <1>0, <1>1, JoinSearchInv, Sizes DEF IdleInv, Counted, N

LEMMA ParkCounts ==
  ASSUME IdleInv, NEW w \in Workers, Park(w)
  PROVE  IdleInv'
  <1>0. Phases /\ Counted
    BY DEF IdleInv
  <1>1. Cardinality(sleepers') = Cardinality(sleepers) + 1
    BY <1>0, ParkInv, Sizes, FS_AddElement
  <1>2. Cardinality(Searchers') = Cardinality(Searchers) - (IF w \in Searchers THEN 1 ELSE 0)
    BY <1>0, ParkInv, Sizes, FS_RemoveElement
  <1> QED  BY <1>0, <1>1, <1>2, ParkInv, Sizes DEF IdleInv, Counted, N

LEMMA RemoveCounts ==
  ASSUME IdleInv, NEW w \in Workers, Remove(w)
  PROVE  IdleInv'
  <1>0. Phases /\ Counted
    BY DEF IdleInv
  <1>1. Cardinality(sleepers') = Cardinality(sleepers) - (IF w \in sleepers THEN 1 ELSE 0)
    BY <1>0, RemoveInv, Sizes, FS_RemoveElement
  <1> QED  BY <1>0, <1>1, RemoveInv, Sizes DEF IdleInv, Counted, N

LEMMA StartCounts ==
  ASSUME IdleInv, NEW w \in Workers, Start(w)
  PROVE  IdleInv'
  <1>0. Phases /\ Counted
    BY DEF IdleInv
  <1>1. Cardinality(Searchers') = Cardinality(Searchers) - (IF w \in Searchers THEN 1 ELSE 0)
    BY <1>0, StartInv, Sizes, FS_RemoveElement
  <1> QED  BY <1>0, <1>1, StartInv, Sizes DEF IdleInv, Counted, N

-----------------------------------------------------------------------------
LEMMA QuietInv ==
  ASSUME IdleInv, Phases' /\ Quiet
  PROVE  IdleInv'
  BY QuietCounts DEF IdleInv, Phases, Typed

LEMMA NotifyInv ==
  ASSUME IdleInv, NEW a \in Actors, Notify(a)
  PROVE  IdleInv'
  <1>0. Phases
    BY DEF IdleInv
  <1>1. CASE NotifyLook(a)
    BY <1>0, <1>1, NotifyLookInv, QuietInv
  <1>2. CASE NotifyRecheck(a)
    BY <1>0, <1>2, NotifyRecheckInv, QuietInv
  <1>3. CASE NotifyCommit(a)
    BY <1>3, NotifyCommitCounts
  <1>4. CASE Signal(a)
    BY <1>0, <1>4, SignalInv, QuietInv
  <1> QED  BY <1>1, <1>2, <1>3, <1>4 DEF Notify

LEMMA WorkerInv ==
  ASSUME IdleInv, NEW w \in Workers, WorkerStep(w) \/ WaitForEvents(w)
  PROVE  IdleInv'
  <1>0. Phases /\ w \in Actors
    BY DEF IdleInv, Actors
  <1> USE <1>0, QuietInv
  <1>1. CASE Notify(w)
    BY <1>1, NotifyInv
  <1>2. CASE Tick(w)
    BY <1>2, TickInv
  <1>3. CASE Maintain(w)
    BY <1>3, MaintainInv
  <1>4. CASE Poll(w)
    BY <1>4, PollInv
  <1>5. CASE NextTask(w)
    BY <1>5, NextTaskInv
  <1>6. CASE Fetch(w)
    BY <1>6, FetchInv
  <1>7. CASE ToSearching(w)
    BY <1>7, ToSearchingInv
  <1>8. CASE LastLook(w)
    BY <1>8, LastLookInv
  <1>9. CASE StealDone(w)
    BY <1>9, StealDoneInv
  <1>10. CASE Sleep(w)
    BY <1>10, SleepInv
  <1>11. CASE LookAtGlobal(w)
    BY <1>11, LookAtGlobalInv
  <1>12. CASE Shutdown(w)
    BY <1>12, ShutdownInv
  <1>13. CASE Woken(w)
    BY <1>13, WokenInv
  <1>14. CASE Contains(w)
    BY <1>14, ContainsInv
  <1>15. CASE Spawn(w)
    BY <1>15, SpawnInv
  <1>16. CASE StartIo(w)
    BY <1>16, StartIoInv
  <1>17. CASE Finish(w)
    BY <1>17, FinishInv
  <1>18. CASE Close(w)
    BY <1>18, CloseInv
  <1>19. CASE WakeUpAll(w)
    BY <1>19, WakeUpAllInv
  <1>20. CASE Destroy(w)
    BY <1>20, DestroyInv
  <1>21. CASE JoinSearch(w)
    BY <1>21, JoinSearchCounts
  <1>22. CASE Park(w)
    BY <1>22, ParkCounts
  <1>23. CASE Remove(w)
    BY <1>23, RemoveCounts
  <1>24. CASE Start(w)
    BY <1>24, StartCounts
  <1>25. CASE \E v \in Workers : Steal(w, v)
    BY <1>25, StealInv
  <1>26. CASE \E v \in Workers : LookAtQueue(w, v)
    BY <1>26, LookAtQueueInv
  <1>27. CASE WaitForWaker(w) \/ WaitForEvents(w)
    BY <1>27, WaitReturnsInv DEF WaitForWaker, WaitForEvents
  <1> QED
    BY <1>1, <1>2, <1>3, <1>4, <1>5, <1>6, <1>7, <1>8, <1>9, <1>10,
       <1>11, <1>12, <1>13, <1>14, <1>15, <1>16, <1>17, <1>18, <1>19, <1>20,
       <1>21, <1>22, <1>23, <1>24, <1>25, <1>26, <1>27 DEF WorkerStep

LEMMA IdleInit ==
  ASSUME Init
  PROVE  IdleInv
  <1> USE DEF Init
  <1>1. Typed
    <2>1. N \in Nat
      BY ActorsDistinct, FS_CardinalityType DEF N
    <2>2. pc \in [Actors -> Labels] /\ after \in [Actors -> Returns]
      BY DEF Labels, WorkerLabels, Returns
    <2>3. flag \in [Workers -> BOOLEAN] /\ down \in [Workers -> BOOLEAN]
      OBVIOUS
    <2>4. working \in Int /\ searching \in Int
      BY <2>1
    <2>5. sleepers \subseteq Workers /\ closed \in BOOLEAN
      OBVIOUS
    <2> HIDE DEF Init
    <2> QED  BY <2>2, <2>3, <2>4, <2>5 DEF Typed
  <1>2. Phases
    BY <1>1 DEF Phases, Listing, ParkedIsQuiet, DownIsClosed, Committing, Parked, Actors,
                NotifyLabels
  <1>3. Searchers = {}
    BY DEF Searchers, Parked, Actors, NotifyLabels
  <1>4. Cardinality(sleepers) = 0 /\ Cardinality(Searchers) = 0
    BY <1>3, FS_EmptySet
  <1>5. N \in Nat
    BY <1>2, Sizes
  <1> QED  BY <1>2, <1>4, <1>5 DEF IdleInv, Counted

LEMMA IdleNext ==
  ASSUME IdleInv, [Next]_vars
  PROVE  IdleInv'
  <1>1. ASSUME NEW w \in Workers, WorkerStep(w) \/ WaitForEvents(w) PROVE IdleInv'
    BY <1>1, WorkerInv
  <1>2. CASE Notify(Main)
    BY <1>2, NotifyInv DEF Actors
  <1>3. CASE ScheduleRemote \/ ScheduleRemoteBatch
    BY <1>3, ScheduleRemoteInv, QuietInv DEF IdleInv
  <1>4. CASE UNCHANGED vars
    <2> USE <1>4 DEF vars, idle, queues, drivers, locals
    <2>1. \A w \in Workers : Parked(w)' <=> Parked(w)
      BY DEF Parked
    <2>2. Searchers' = Searchers
      BY <2>1 DEF Searchers
    <2>3. Phases'
      BY <2>1 DEF IdleInv, Phases, Typed, Listing, ParkedIsQuiet, DownIsClosed, Committing, N
    <2> QED  BY <2>2, <2>3 DEF IdleInv, Counted, N
  <1> QED  BY <1>1, <1>2, <1>3, <1>4 DEF Next, Terminated

(* Where listed, searching and committing actors can be, and the counts:   *)
(* the inductive invariant that the next two theorems follow from.         *)
THEOREM IdleInvariant == Spec => []IdleInv
  <1>1. Init => IdleInv
    BY IdleInit
  <1>2. IdleInv /\ [Next]_vars => IdleInv'
    BY IdleNext
  <1> QED  BY <1>1, <1>2, PTL DEF Spec

(* Idle's packed counter agrees with what it counts, for any number of     *)
(* workers, in spite of the accesses without the mutex.                    *)
THEOREM CountsAgree == Spec => []IdleCounts
  <1>1. IdleInv => IdleCounts
    BY DEF IdleInv, Counted, Searchers, IdleCounts
  <1> QED  BY <1>1, IdleInvariant, PTL

(* worker_to_notify never dereferences the iterator of an empty set: with  *)
(* somebody not working and the counts in agreement, somebody is listed.   *)
THEOREM SomebodyToWake == Spec => []SleeperToWake
  <1>1. IdleInv => SleeperToWake
    <2> SUFFICES ASSUME IdleInv, NEW a \in Actors, pc[a] = "commit"
                 PROVE  sleepers # {}
      BY DEF SleeperToWake
    <2>1. working < N
      BY DEF IdleInv, Phases, Committing
    <2>2. Cardinality(sleepers) # 0
      BY <2>1, Sizes DEF IdleInv, Counted
    <2> QED  BY <2>2, FS_EmptySet
  <1> QED  BY <1>1, IdleInvariant, PTL

-----------------------------------------------------------------------------
(* From when it is listed until it wakes, a worker dozes.  It may be taken *)
(* off the list long before it waits, so ChosenIsWoken by itself does not  *)
(* hold on.                                                                *)
Dozes(w) == pc[w] \in {"pending", "wait"} \/ (pc[w] \in NotifyLabels /\ after[w] = "wait")

Called(w) == wake[w] \/ \E a \in Actors : pc[a] = "signal" /\ target[a] = w

Chosen ==
  /\ wake \in [Workers -> BOOLEAN]
  /\ target \in [Actors -> Workers \cup {Nobody}]
  /\ \A w \in Workers : Dozes(w) /\ w \notin sleepers => Called(w)

(* Actor a calls nobody, and takes no call back from one who dozes.        *)
Undisturbing(a) ==
  /\ pc[a] # "signal"
  /\ \A b \in Actors \ {a} : pc'[b] = pc[b] /\ after'[b] = after[b]
  /\ sleepers \ {a} \subseteq sleepers'
  /\ target' = target
  /\ wake' \in [Workers -> BOOLEAN]
  /\ \A w \in Workers : wake[w] /\ Dozes(w)' => wake'[w]
  /\ a \in Workers /\ Dozes(a)' /\ a \notin sleepers' => Dozes(a) /\ a \notin sleepers

LEMMA StaysChosen ==
  ASSUME Chosen, NEW a \in Actors, Undisturbing(a)
  PROVE  Chosen'
  <1> USE DEF Undisturbing
  <1> SUFFICES ASSUME NEW w \in Workers, Dozes(w)', w \notin sleepers'
               PROVE  Called(w)'
    BY DEF Chosen
  <1>1. Dozes(w) /\ w \notin sleepers
    BY DEF Dozes, Actors
  <1>2. Called(w)
    BY <1>1 DEF Chosen
  <1>3. CASE wake[w]
    BY <1>3 DEF Called
  <1>4. CASE \E b \in Actors : pc[b] = "signal" /\ target[b] = w
    BY <1>4 DEF Called
  <1> QED  BY <1>2, <1>3, <1>4 DEF Called

LEMMA NotifyChosen ==
  ASSUME Phases, Chosen, NEW a \in Actors, Notify(a)
  PROVE  Chosen'
  <1> USE Frame
  <1>1. CASE NotifyLook(a)
    <2>1. Undisturbing(a)
      BY <1>1 DEF NotifyLook, Return, Goto, idle, drivers, Undisturbing, Dozes, Chosen,
                  NotifyLabels, Returns
    <2> QED  BY <2>1, StaysChosen
  <1>2. CASE NotifyRecheck(a)
    <2>1. Undisturbing(a)
      BY <1>2 DEF NotifyRecheck, Return, Goto, drivers, Undisturbing, Dozes, Chosen,
                  NotifyLabels, Returns
    <2> QED  BY <2>1, StaysChosen
  <1>3. CASE NotifyCommit(a)
    <2> USE <1>3 DEF NotifyCommit, Goto, drivers
    <2>1. PICK w \in sleepers : sleepers' = sleepers \ {w} /\ target' = [target EXCEPT ![a] = w]
      OBVIOUS
    <2>2. w \in Workers
      BY DEF Phases, Typed
    <2>3. Called(w)'
      BY <2>1 DEF Called, Chosen
    <2>4. \A v \in Workers : Dozes(v)' => Dozes(v)
      BY DEF Dozes, NotifyLabels
    <2>5. \A v \in Workers : Called(v) => Called(v)'
      BY <2>1 DEF Called, Chosen
    <2> QED  BY <2>1, <2>2, <2>3, <2>4, <2>5 DEF Chosen
  <1>4. CASE Signal(a)
    <2> USE <1>4 DEF Signal, Return, Goto, idle
    <2>1. \A v \in Workers : Dozes(v)' => Dozes(v)
      BY DEF Dozes, NotifyLabels, Returns
    <2>2. \A v \in Workers : Called(v) => Called(v)'
      BY DEF Called, Chosen
    <2> QED  BY <2>1, <2>2 DEF Chosen
  <1> QED  BY <1>1, <1>2, <1>3, <1>4 DEF Notify

(* What a step of a worker does to those who doze.                         *)
LEMMA WorkerChosen ==
  ASSUME Phases, Chosen, NEW w \in Workers, WorkerStep(w) \/ WaitForEvents(w)
  PROVE  Chosen'
  <1> USE Frame, StaysChosen DEF Undisturbing, Dozes, Chosen, NotifyLabels, Goto
  <1>1. CASE Notify(w)
    BY <1>1, NotifyChosen
  <1>2. CASE Tick(w)
    <2>1. Undisturbing(w)
      BY <1>2 DEF Tick, idle, drivers, locals
    <2> QED  BY <2>1
  <1>3. CASE Maintain(w)
    <2>1. Undisturbing(w)
      BY <1>3 DEF Maintain, idle, drivers, locals
    <2> QED  BY <2>1
  <1>4. CASE Poll(w)
    <2>1. Undisturbing(w)
      BY <1>4 DEF Poll, idle, WakeUpOneThen, Returns
    <2> QED  BY <2>1
  <1>5. CASE NextTask(w)
    <2>1. Undisturbing(w)
      BY <1>5 DEF NextTask, TakeRemote, TakeLocal, idle, drivers
    <2> QED  BY <2>1
  <1>6. CASE Fetch(w)
    <2>1. Undisturbing(w)
      BY <1>6 DEF Fetch, idle, drivers
    <2> QED  BY <2>1
  <1>7. CASE ToSearching(w)
    <2>1. Undisturbing(w)
      BY <1>7 DEF ToSearching, idle, drivers
    <2> QED  BY <2>1
  <1>8. CASE JoinSearch(w)
    <2>1. Undisturbing(w)
      BY <1>8 DEF JoinSearch, drivers
    <2> QED  BY <2>1
  <1>9. CASE LastLook(w)
    <2>1. Undisturbing(w)
      BY <1>9 DEF LastLook, TakeRemote, idle, drivers, locals
    <2> QED  BY <2>1
  <1>10. CASE StealDone(w)
    <2>1. Undisturbing(w)
      BY <1>10 DEF StealDone, idle, drivers
    <2> QED  BY <2>1
  <1>11. CASE Sleep(w)
    <2>1. Undisturbing(w)
      BY <1>11 DEF Sleep, idle, drivers, locals
    <2> QED  BY <2>1
  <1>12. CASE Park(w)
    <2>1. Undisturbing(w)
      BY <1>12 DEF Park, drivers
    <2> QED  BY <2>1
  <1>13. CASE LookAtGlobal(w)
    <2>1. Undisturbing(w)
      BY <1>13 DEF LookAtGlobal, WakeUpOneThen, idle, drivers
    <2> QED  BY <2>1
  <1>14. CASE Shutdown(w)
    <2>1. Undisturbing(w)
      BY <1>14 DEF Shutdown, idle, drivers, locals
    <2> QED  BY <2>1
  <1>15. CASE Woken(w)
    <2>1. Undisturbing(w)
      BY <1>15 DEF Woken, idle, drivers, locals
    <2> QED  BY <2>1
  <1>16. CASE Remove(w)
    <2>1. Undisturbing(w)
      BY <1>16 DEF Remove, drivers, locals
    <2> QED  BY <2>1
  <1>17. CASE Contains(w)
    <2>1. Undisturbing(w)
      BY <1>17 DEF Contains, idle, drivers, locals
    <2> QED  BY <2>1
  <1>18. CASE Start(w)
    <2>1. Undisturbing(w)
      BY <1>18 DEF Start, WakeUpOneThen, drivers, Returns
    <2> QED  BY <2>1
  <1>19. CASE Spawn(w)
    <2>1. Undisturbing(w)
      BY <1>19 DEF Spawn, WakeUpOneThen, idle, drivers, Returns
    <2> QED  BY <2>1
  <1>20. CASE StartIo(w)
    <2>1. Undisturbing(w)
      BY <1>20 DEF StartIo, idle, locals
    <2> QED  BY <2>1
  <1>21. CASE Finish(w)
    <2>1. Undisturbing(w)
      BY <1>21 DEF Finish, idle, drivers, locals
    <2> QED  BY <2>1
  <1>22. CASE Close(w)
    <2>1. Undisturbing(w)
      BY <1>22 DEF Close, idle, drivers
    <2> QED  BY <2>1
  <1>23. CASE WakeUpAll(w)
    <2>1. Undisturbing(w)
      BY <1>23 DEF WakeUpAll, idle
    <2> QED  BY <2>1
  <1>24. CASE Destroy(w)
    <2>1. Undisturbing(w)
      BY <1>24 DEF Destroy, idle, drivers, locals
    <2> QED  BY <2>1
  <1>25. CASE \E v \in Workers : Steal(w, v)
    <2>1. Undisturbing(w)
      BY <1>25 DEF Steal, idle, drivers
    <2> QED  BY <2>1
  <1>26. CASE WaitForWaker(w) \/ WaitForEvents(w)
    <2>1. Undisturbing(w)
      BY <1>26 DEF WaitForWaker, WaitForEvents, WaitReturns, idle, locals
    <2> QED  BY <2>1
  <1>27. CASE \E v \in Workers : LookAtQueue(w, v)
    <2> USE <1>27 DEF LookAtQueue, idle, drivers
    <2>1. \A v \in Workers : Dozes(v)' => Dozes(v)
      OBVIOUS
    <2>2. \A v \in Workers : Called(v) => Called(v)'
      BY DEF Called
    <2>3. target' \in [Actors -> Workers \cup {Nobody}]
      OBVIOUS
    <2> QED  BY <2>1, <2>2, <2>3
  <1> QED
    BY <1>1, <1>2, <1>3, <1>4, <1>5, <1>6, <1>7, <1>8, <1>9, <1>10,
       <1>11, <1>12, <1>13, <1>14, <1>15, <1>16, <1>17, <1>18, <1>19, <1>20,
       <1>21, <1>22, <1>23, <1>24, <1>25, <1>26, <1>27 DEF WorkerStep

LEMMA ChosenInit ==
  ASSUME Init
  PROVE  Chosen
  BY DEF Init, Chosen, Dozes, Actors, NotifyLabels

LEMMA ChosenNext ==
  ASSUME IdleInv, Chosen, [Next]_vars
  PROVE  Chosen'
  <1>0. Phases
    BY DEF IdleInv
  <1>1. ASSUME NEW w \in Workers, WorkerStep(w) \/ WaitForEvents(w) PROVE Chosen'
    BY <1>0, <1>1, WorkerChosen
  <1>2. CASE Notify(Main)
    BY <1>0, <1>2, NotifyChosen DEF Actors
  <1>3. CASE ScheduleRemote \/ ScheduleRemoteBatch
    <2>1. Main \in Actors /\ Main \notin Workers
      BY ActorsDistinct DEF Actors
    <2>2. Undisturbing(Main)
      BY <1>0, <1>3, <2>1, Frame
         DEF ScheduleRemote, ScheduleRemoteBatch, WakeUpOneThen, Goto, idle, drivers,
             Undisturbing, Chosen
    <2> QED  BY <2>1, <2>2, StaysChosen
  <1>4. CASE UNCHANGED vars
    BY <1>4 DEF vars, idle, drivers, locals, Chosen, Dozes, Called
  <1> QED  BY <1>1, <1>2, <1>3, <1>4 DEF Next, Terminated

(* No wake-up is dropped between the choice of a sleeper and its eventfd:  *)
(* a worker taken off the list finds its eventfd written, or somebody is   *)
(* about to write it.                                                      *)
THEOREM ChosenIsCalled == Spec => []ChosenIsWoken
  <1>1. Chosen => ChosenIsWoken
    BY DEF Chosen, Dozes, Called, ChosenIsWoken
  <1> QED  BY <1>1, ChosenInit, ChosenNext, IdleInvariant, PTL DEF Spec
=============================================================================
