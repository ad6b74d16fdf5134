------------------------------- MODULE Driver -------------------------------
(***************************************************************************)
(* One worker's Driver (scheduler/driver.hpp) with its io_uring, its Waker *)
(* and the awaitables that use it: IoRegistrator (io/base/registrator.hpp),*)
(* Timeout and Sleep (time/).                                              *)
(*                                                                         *)
(* A coroutine's Callback is in its frame, so coroutine c stands for the   *)
(* address of the Callback of its current operation: whatever the queues,  *)
(* the kernel or the timer keep of c must be gone when c goes on.  Timers  *)
(* are modelled by which are armed; when they are due is Timer's subject,  *)
(* and here any may be due at a poll.  Completions of nops and cancels,    *)
(* which poll() ignores, are left out, and io_uring_submit does not fail.  *)
(*                                                                         *)
(* No action uses RefuseKeepsSqe and ExpireUnlinked: each is a faulty      *)
(* variant of the next definition, for mutation testing.                   *)
(***************************************************************************)
EXTENDS Naturals, Sequences, FiniteSets, SequencesExt

CONSTANTS
  Coroutines,
  SqEntries,  \* config.entries: room in the submission queue
  Interval    \* config.submit_interval

VARIABLES
  ring,      \* sq: requests the kernel has not taken, tick: submit_tick_,
             \* entered: the worker is inside io_uring_submit,
             \* flying: operations the kernel has, cq: completions
  waiting,   \* suspended coroutines
  armed,     \* Callbacks with an entry_ in the timer
  sleeping,  \* coroutines with a handle_ in the timer
  dropped,   \* operations whose cancel request found no room
  waker,     \* the read of the eventfd is "on" in the kernel, or "done" (flag_)
  phase,     \* "run" tasks, or "expire": inside poll(), the completions handled
  failed     \* how the worker's thread has ended, "" while it goes on

driverVars == <<ring, waiting, armed, sleeping, dropped, waker, phase, failed>>

DriverInit ==
  /\ ring = [sq |-> <<>>, tick |-> 0, entered |-> FALSE, flying |-> {}, cq |-> <<>>]
  /\ waiting = {} /\ armed = {} /\ sleeping = {} /\ dropped = {}
  /\ waker = "done" /\ phase = "run" /\ failed = ""

Request(what, c) == [do |-> what, of |-> c]

(* get_sqe() finds room; the request it is filled with.                    *)
HasSqe == Len(ring.sq) < SqEntries
Put(r, request) == [r EXCEPT !.sq = Append(@, request)]

(* What the kernel does with one request: a cancel that finds its          *)
(* operation in the kernel completes it.                                   *)
Accept(r, request) ==
  CASE request.do = "operation" -> [r EXCEPT !.flying = @ \cup {request.of}]
    [] request.do = "cancel" /\ request.of \in r.flying ->
         [r EXCEPT !.flying = @ \ {request.of}, !.cq = Append(@, request.of)]
    [] OTHER -> r

(* submit(): the worker goes on when the kernel has taken every request.   *)
Submit(r) == [r EXCEPT !.tick = 0, !.entered = r.sq # <<>>]

PendSubmit(r) ==
  IF r.tick + 1 >= Interval THEN Submit(r) ELSE [r EXCEPT !.tick = @ + 1]

(* The kernel takes the requests one by one, while operations complete.    *)
Take ==
  /\ failed = "" /\ ring.entered
  /\ LET r == Accept([ring EXCEPT !.sq = Tail(@)], Head(ring.sq))
     IN ring' = [r EXCEPT !.entered = r.sq # <<>>]
  /\ UNCHANGED <<waiting, armed, sleeping, dropped, waker, phase, failed>>

-----------------------------------------------------------------------------
(* The worker's thread goes on, and runs c.                                *)
Goes(in) == failed = "" /\ phase = in /\ ~ring.entered
Runs(c)  == Goes("run") /\ c \notin waiting

(* co_await of an operation.  Without room its result is -ENOMEM and it    *)
(* does not suspend.                                                       *)
Await(c) ==
  /\ Runs(c) /\ HasSqe
  /\ ring' = PendSubmit(Put(ring, Request("operation", c)))
  /\ waiting' = waiting \cup {c} /\ dropped' = dropped \ {c}
  /\ UNCHANGED <<armed, sleeping, waker, phase, failed>>

(* The same with set_timeout: the deadline may have passed, and then the   *)
(* request becomes a nop and the coroutine goes on.  Without room moving   *)
(* the awaitable writes through a null sqe_ (registrator.hpp:33).          *)
AwaitTimeout(c) ==
  /\ Runs(c) /\ HasSqe
  /\ armed' = armed \cup {c}
  /\ ring' = PendSubmit(Put(ring, Request("operation", c)))
  /\ waiting' = waiting \cup {c} /\ dropped' = dropped \ {c}
  /\ UNCHANGED <<sleeping, waker, phase, failed>>

RefuseKeepsSqe(c) ==
  /\ Runs(c) /\ HasSqe
  /\ ring' = Put(ring, Request("operation", c))
  /\ UNCHANGED <<waiting, armed, sleeping, dropped, waker, phase, failed>>

RefuseTimeout(c) ==
  /\ Runs(c) /\ HasSqe
  /\ ring' = Put(ring, Request("nop", c))
  /\ UNCHANGED <<waiting, armed, sleeping, dropped, waker, phase, failed>>

MoveWithoutSqe(c) ==
  /\ Runs(c) /\ ~HasSqe
  /\ failed' = "null sqe"
  /\ UNCHANGED <<ring, waiting, armed, sleeping, dropped, waker, phase>>

(* sleep(): a deadline that has passed throws out of a noexcept function   *)
(* (sleep.hpp:27).                                                         *)
Sleep(c) ==
  /\ Runs(c)
  /\ \/ sleeping' = sleeping \cup {c} /\ waiting' = waiting \cup {c} /\ UNCHANGED failed
     \/ failed' = "terminate" /\ UNCHANGED <<sleeping, waiting>>
  /\ UNCHANGED <<ring, armed, dropped, waker, phase>>

-----------------------------------------------------------------------------
(* The kernel completes an operation, or the read of the eventfd.          *)
Complete(c) ==
  /\ failed = "" /\ c \in ring.flying
  /\ ring' = [ring EXCEPT !.flying = @ \ {c}, !.cq = Append(@, c)]
  /\ UNCHANGED <<waiting, armed, sleeping, dropped, waker, phase, failed>>

WakeUp ==
  /\ failed = "" /\ waker = "on" /\ waker' = "done"
  /\ UNCHANGED <<ring, waiting, armed, sleeping, dropped, phase, failed>>

(* poll(): the completions peeked, each with its entry removed from the    *)
(* timer and its coroutine pushed to the queue (those beyond the array's   *)
(* 256 are as if they came later);                                         *)
Reap ==
  /\ Goes("run") /\ phase' = "expire"
  /\ LET done == ToSet(ring.cq)
     IN waiting' = waiting \ done /\ armed' = armed \ done
  /\ ring' = [ring EXCEPT !.cq = <<>>]
  /\ UNCHANGED <<sleeping, dropped, waker, failed>>

(* then the entries that are due: an operation is cancelled, if there is   *)
(* room to ask for it, and a sleeper is pushed to the queue;               *)
ExpireUnlinked(c) ==
  /\ Goes("expire") /\ c \in armed
  /\ UNCHANGED <<ring, dropped>>
  /\ armed' = armed \ {c}
  /\ UNCHANGED <<waiting, sleeping, waker, phase, failed>>

Expire(c) ==
  /\ Goes("expire") /\ c \in armed
  /\ IF HasSqe THEN ring' = PendSubmit(Put(ring, Request("cancel", c))) /\ UNCHANGED dropped
     ELSE dropped' = dropped \cup {c} /\ UNCHANGED ring
  /\ armed' = armed \ {c}
  /\ UNCHANGED <<waiting, sleeping, waker, phase, failed>>

EndSleep(c) ==
  /\ Goes("expire") /\ c \in sleeping
  /\ sleeping' = sleeping \ {c} /\ waiting' = waiting \ {c}
  /\ UNCHANGED <<ring, armed, dropped, waker, phase, failed>>

(* then turn_on(), which asserts that it finds an sqe, and submit().       *)
EndPoll ==
  /\ Goes("expire") /\ phase' = "run"
  /\ failed' = IF waker = "done" /\ ~HasSqe THEN "no sqe for the waker" ELSE ""
  /\ ring' = Submit(ring)
  /\ waker' = "on"
  /\ UNCHANGED <<waiting, armed, sleeping, dropped>>

DriverNext ==
  \/ \E c \in Coroutines :
       \/ Await(c) \/ AwaitTimeout(c) \/ RefuseTimeout(c) \/ MoveWithoutSqe(c) \/ Sleep(c)
       \/ Complete(c) \/ Expire(c) \/ EndSleep(c)
  \/ Take \/ WakeUp \/ Reap \/ EndPoll

DriverSpec == DriverInit /\ [][DriverNext]_driverVars

-----------------------------------------------------------------------------
Requests(what, c) == Cardinality({i \in DOMAIN ring.sq : ring.sq[i] = Request(what, c)})

(* A suspended coroutine will be resumed by exactly one thing, a sleep or  *)
(* an operation that is queued, in the kernel or completed; and nothing    *)
(* that could resume it, cancel it or write to its Callback is left when   *)
(* it has gone on to use the same address for its next operation           *)
(* (driver.hpp:39-43, timeout.hpp:26-29, entry.hpp:53-63).                 *)
CallbackOutlivesItsUses ==
  \A c \in Coroutines :
    LET resumers == Requests("operation", c) + Cardinality({c} \cap ring.flying)
          + Cardinality({i \in DOMAIN ring.cq : ring.cq[i] = c}) + Cardinality({c} \cap sleeping)
    IN /\ resumers = (IF c \in waiting THEN 1 ELSE 0)
       /\ c \in armed \/ Requests("cancel", c) > 0 => c \in waiting \ sleeping

(* An operation with a timeout ends, although the kernel would never       *)
(* complete it, unless its cancel request found the submission queue full  *)
(* (entry.hpp:55-62).                                                      *)
TimeoutEndsOperation ==
  \A c \in Coroutines :
    (c \in armed) ~> (c \notin waiting \/ c \in dropped \/ failed # "")

(* The assertion of waker.hpp:45: turn_on finds a free sqe.  Operations    *)
(* and cancels pend_submit, so that they are submitted before they fill    *)
(* the queue, but the nops of refused timeouts do not (timeout.hpp:26-29). *)
WakerFindsSqe == failed # "no sqe for the waker"
=============================================================================
