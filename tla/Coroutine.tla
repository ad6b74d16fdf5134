----------------------------- MODULE Coroutine -----------------------------
(***************************************************************************)
(* Who owns a coroutine frame (async/coroutine/task.hpp): the Task object  *)
(* that a call returned, or, once spawn or block_on took the handle out of *)
(* it, the frame itself, which ends by destroying itself.  A Task lives in *)
(* the frame whose variable or parameter it is and goes when that is       *)
(* destroyed, so destroying one frame may destroy several.                 *)
(*                                                                         *)
(* No action uses SuspendAndDestroy: it is a faulty variant of the next    *)
(* definition, for mutation testing.                                       *)
(***************************************************************************)
EXTENDS Naturals, FiniteSets

CONSTANTS
  Frames,   \* 1 .. n, in the order of the calls
  Tasks,    \* Task objects: 1 .. m
  NoFrame   \* a null handle

Outside == 0   \* the thread that calls block_on

ASSUME FramesAssumption ==
  /\ Outside \notin Frames /\ NoFrame \notin Frames \cup Tasks /\ NoFrame # Outside

VARIABLES
  frame,      \* frame[f]: where the coroutine is
  caller,     \* caller[f]: promise().caller_
  ex,         \* ex[f]: promise().ex_ is set
  thrown,     \* thrown[f]: an exception is on its way inside f
  taskHandle, \* taskHandle[t]: the handle_ of Task t
  place,      \* place[t]: the frame that t is a variable of
  detached    \* frames whose handle was taken, still to end

coroutineVars == <<frame, caller, ex, thrown, taskHandle, place, detached>>

CoroutineInit ==
  /\ frame = [f \in Frames |-> "none"] /\ caller = [f \in Frames |-> NoFrame]
  /\ ex = [f \in Frames |-> FALSE] /\ thrown = [f \in Frames |-> FALSE]
  /\ taskHandle = [t \in Tasks |-> NoFrame] /\ place = [t \in Tasks |-> NoFrame]
  /\ detached = {}

NewFrame == {f \in Frames : frame[f] = "none" /\ \A g \in 1 .. f - 1 : frame[g] # "none"}
NewTask  == {t \in Tasks : place[t] = NoFrame /\ \A u \in 1 .. t - 1 : place[u] # NoFrame}

(* The code of p runs: a frame, or the thread outside.                     *)
Runs(p) == IF p = Outside THEN TRUE ELSE frame[p] = "running" /\ ~thrown[p]

In(t, p) == place[t] = p

(* With the frames of F go those owned by Tasks inside them, and so on.    *)
Closed(S) == \A t \in Tasks : place[t] \in S => taskHandle[t] \in S \cup {NoFrame}

Doomed(F) ==
  {f \in Frames : \A S \in SUBSET Frames : Closed(S) /\ F \subseteq S \cup {NoFrame} => f \in S}

(* What is left when the frames in F and the Tasks in T are destroyed,     *)
(* with all that is inside them; the frames' states come from fr.          *)
DestroyAll(F, T, fr) ==
  LET dead == Doomed(F \cup {taskHandle[t] : t \in T})
      gone == T \cup {t \in Tasks : place[t] \in dead}
  IN  /\ frame' = [f \in Frames |-> IF f \in dead THEN "freed" ELSE fr[f]]
      /\ taskHandle' = [t \in Tasks |-> IF t \in gone THEN NoFrame ELSE taskHandle[t]]
      /\ place' = [t \in Tasks |-> IF t \in gone THEN NoFrame ELSE place[t]]

-----------------------------------------------------------------------------
(* p calls a coroutine: its frame starts suspended, owned by a new Task.   *)
Call(p, t) ==
  /\ Runs(p) /\ t \in NewTask
  /\ \E f \in NewFrame :
       /\ frame' = [frame EXCEPT ![f] = "created"]
       /\ taskHandle' = [taskHandle EXCEPT ![t] = f] /\ place' = [place EXCEPT ![t] = p]
  /\ UNCHANGED <<caller, ex, thrown, detached>>

(* u(std::move(t)): u is a variable of p, or a parameter of a coroutine    *)
(* that p has called and not started.                                      *)
MoveNew(p, t, u) ==
  /\ Runs(p) /\ In(t, p) /\ u \in NewTask
  /\ \E q \in {p} \cup {f \in Frames : frame[f] = "created"
                                        /\ \E o \in Tasks \ {t} : In(o, p) /\ taskHandle[o] = f} :
       place' = [place EXCEPT ![u] = q]
  /\ taskHandle' = [taskHandle EXCEPT ![u] = taskHandle[t], ![t] = NoFrame]
  /\ UNCHANGED <<frame, caller, ex, thrown, detached>>

(* u = std::move(t), which destroys the frame u had.                       *)
MoveAssign(p, t, u) ==
  /\ Runs(p) /\ In(t, p) /\ In(u, p) /\ t # u
  /\ LET dead == Doomed({taskHandle[u]})
         gone == {o \in Tasks : place[o] \in dead}
     IN  /\ frame' = [f \in Frames |-> IF f \in dead THEN "freed" ELSE frame[f]]
         /\ taskHandle' = [o \in Tasks |-> IF o \in gone \cup {t} THEN NoFrame
                                       ELSE IF o = u THEN taskHandle[t] ELSE taskHandle[o]]
         /\ place' = [o \in Tasks |-> IF o \in gone THEN NoFrame ELSE place[o]]
  /\ UNCHANGED <<caller, ex, thrown, detached>>

(* ~Task at the end of t's scope.                                          *)
DropTask(p, t) ==
  /\ Runs(p) /\ In(t, p)
  /\ DestroyAll({}, {t}, frame)
  /\ UNCHANGED <<caller, ex, thrown, detached>>

(* co_await t in the frame p.  A finished callee, or none, does not        *)
(* suspend: its result or exception, or logic_error, comes at once.        *)
Await(p, t) ==
  /\ p # Outside /\ Runs(p) /\ In(t, p)
  /\ LET f == taskHandle[t] IN
     IF f = NoFrame \/ frame[f] = "final"
     THEN /\ thrown' = [thrown EXCEPT ![p] = f = NoFrame \/ ex[f]]
          /\ UNCHANGED <<frame, caller>>
     ELSE /\ frame' = [frame EXCEPT ![p] = "awaiting", ![f] = "running"]
          /\ caller' = [caller EXCEPT ![f] = p]
          /\ UNCHANGED thrown
  /\ UNCHANGED <<ex, taskHandle, place, detached>>

(* take(), with logic_error for a Task that was moved from, and            *)
(* schedule_local.                                                         *)
Spawn(p, t) ==
  /\ p # Outside /\ Runs(p) /\ In(t, p)
  /\ LET f == taskHandle[t] IN
     IF f = NoFrame THEN thrown' = [thrown EXCEPT ![p] = TRUE] /\ UNCHANGED <<frame, taskHandle, detached>>
     ELSE /\ frame[f] = "created"
          /\ frame' = [frame EXCEPT ![f] = "queued"]
          /\ taskHandle' = [taskHandle EXCEPT ![t] = NoFrame] /\ detached' = detached \cup {f}
          /\ UNCHANGED thrown
  /\ UNCHANGED <<caller, ex, place>>

(* block_on wraps the Task in main_coro, as its parameter, and schedules   *)
(* that.                                                                   *)
BlockOn(t) ==
  /\ In(t, Outside) /\ taskHandle[t] # NoFrame
  /\ \E f \in NewFrame :
       /\ frame' = [frame EXCEPT ![f] = "queued"] /\ detached' = detached \cup {f}
       /\ place' = [place EXCEPT ![t] = f]
  /\ UNCHANGED <<caller, ex, thrown, taskHandle>>

-----------------------------------------------------------------------------
(* A worker resumes a handle from its queue.                               *)
ResumeFrame(f) ==
  /\ frame[f] = "queued" /\ frame' = [frame EXCEPT ![f] = "running"]
  /\ UNCHANGED <<caller, ex, thrown, taskHandle, place, detached>>

(* f awaits something else and is scheduled again by it.                   *)
Suspend(f) ==
  /\ Runs(f) /\ frame' = [frame EXCEPT ![f] = "suspended"]
  /\ UNCHANGED <<caller, ex, thrown, taskHandle, place, detached>>

Scheduled(f) ==
  /\ frame[f] = "suspended" /\ frame' = [frame EXCEPT ![f] = "queued"]
  /\ UNCHANGED <<caller, ex, thrown, taskHandle, place, detached>>

(* f handles the exception on its way.                                     *)
Catch(f) ==
  /\ thrown[f] /\ thrown' = [thrown EXCEPT ![f] = FALSE]
  /\ UNCHANGED <<frame, caller, ex, taskHandle, place, detached>>

(* TaskFinalAwaiter::await_suspend, after the variables T of f: control    *)
(* goes to the caller, who owns the frame, or the frame destroys itself.   *)
(* (A debug build terminates if ex_ is set then.)                          *)
SuspendAndDestroy(f, T) ==
  LET g == caller[f] IN
  /\ DestroyAll({f}, T, IF g # NoFrame THEN [frame EXCEPT ![g] = "running"] ELSE frame)
  /\ detached' = detached \ {f}

FinalSuspend(f, T) ==
  LET g == caller[f] IN
  IF g # NoFrame
  THEN DestroyAll({}, T, [frame EXCEPT ![f] = "final", ![g] = "running"]) /\ UNCHANGED detached
  ELSE DestroyAll({f}, T, frame) /\ detached' = detached \ {f}

(* f returns, or an exception leaves it: unhandled_exception keeps it, and *)
(* result() throws it again in the caller.                                 *)
Return(f) ==
  /\ frame[f] = "running"
  /\ \E fails \in {TRUE, thrown[f]}, T \in SUBSET {t \in Tasks : In(t, f)} :
       /\ ex' = [ex EXCEPT ![f] = fails]
       /\ thrown' = [g \in Frames |-> IF g = caller[f] THEN fails ELSE g # f /\ thrown[g]]
       /\ FinalSuspend(f, T)
  /\ UNCHANGED caller

CoroutineNext ==
  \/ \E p \in Frames \cup {Outside}, t \in Tasks :
       \/ Call(p, t) \/ DropTask(p, t) \/ Await(p, t) \/ Spawn(p, t)
       \/ \E u \in Tasks : MoveNew(p, t, u) \/ MoveAssign(p, t, u)
  \/ \E t \in Tasks : BlockOn(t)
  \/ \E f \in Frames : ResumeFrame(f) \/ Suspend(f) \/ Scheduled(f) \/ Catch(f) \/ Return(f)

CoroutineSpec == CoroutineInit /\ [][CoroutineNext]_coroutineVars

-----------------------------------------------------------------------------
Owners(f) == {t \in Tasks : taskHandle[t] = f} \cup {NoFrame : g \in {f} \cap detached}

(* Every frame that exists has exactly one owner, a Task in a frame that   *)
(* exists or itself, and a destroyed one none; and whoever is suspended in *)
(* co_await is the caller of exactly one frame, which he owns and which is *)
(* neither finished nor destroyed, so that its end resumes him: over every *)
(* sequence of moves, awaits, spawns and exceptions (task.hpp:20-44,       *)
(* 131-164, 194-201).                                                      *)
FramesOwnedOnce ==
  \A f \in Frames :
    /\ Cardinality(Owners(f)) = (IF frame[f] \in {"none", "freed"} THEN 0 ELSE 1)
    /\ frame[f] = "awaiting" =>
         \E t \in Tasks : In(t, f) /\ taskHandle[t] # NoFrame
           /\ {g \in Frames : caller[g] = f /\ frame[g] \notin {"final", "freed"}} = {taskHandle[t]}
    /\ \A t \in Tasks : In(t, f) => frame[f] \notin {"none", "freed"}
=============================================================================
