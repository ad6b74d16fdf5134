------------------------------- MODULE Latch -------------------------------
(***************************************************************************)
(* sync/latch.hpp.  Coroutines count down, wait, or do both                *)
(* (arrive_and_wait).  A waiter links its Awaiter and looks at the count   *)
(* once more; the last to count down loads the list and schedules all in   *)
(* it.  Links are never undone, so the list that was loaded stays.         *)
(*                                                                         *)
(* A coroutine that linked itself and then sees the count at zero does not *)
(* suspend and is scheduled as well: its second resumption is undefined,   *)
(* and only counted here.                                                  *)
(*                                                                         *)
(* No action uses LinkAlone and CountDownEarly: each is a faulty          *)
(* variant of the next definition, for mutation testing.                   *)
(***************************************************************************)
EXTENDS Naturals, Sequences, FiniteSets

CONSTANTS Counting,  \* who calls count_down, or arrive_and_wait
          Waiting    \* who calls wait, or arrive_and_wait

ASSUME LatchAssumption == IsFiniteSet(Counting)

Arriving == Counting \cup Waiting

VARIABLES
  expected,  \* expected_
  linked,    \* the awaiters reachable from head_
  toWake,    \* those the last to count down has still to schedule
  stage,     \* stage[c]: where coroutine c is
  resumed    \* resumed[c]: how often c was resumed behind its wait

latchVars == <<expected, linked, toWake, stage, resumed>>

Waits(c) == IF c \in Waiting THEN "await_ready" ELSE "gone"

LatchInit ==
  /\ expected = Cardinality(Counting)
  /\ linked = <<>> /\ toWake = <<>>
  /\ stage = [c \in Arriving |-> IF c \in Counting THEN "count" ELSE Waits(c)]
  /\ resumed = [c \in Arriving |-> 0]

At(c, place) == stage' = [stage EXCEPT ![c] = place]
Resume(c) == resumed' = [resumed EXCEPT ![c] = @ + 1]

(* count_down(): who takes the last one goes on to notify_all().           *)
CountDownEarly(c) ==
  /\ stage[c] = "count"
  /\ expected' = expected - 1
  /\ At(c, IF expected = 2 THEN "notify_all" ELSE Waits(c))
  /\ UNCHANGED <<linked, toWake, resumed>>

CountDown(c) ==
  /\ stage[c] = "count"
  /\ expected' = expected - 1
  /\ At(c, IF expected = 1 THEN "notify_all" ELSE Waits(c))
  /\ UNCHANGED <<linked, toWake, resumed>>

LoadHead(c) ==
  /\ stage[c] = "notify_all"
  /\ toWake' = linked
  /\ At(c, "walk")
  /\ UNCHANGED <<expected, linked, resumed>>

WakeNext(c) ==
  /\ stage[c] = "walk"
  /\ IF toWake = <<>>
     THEN At(c, Waits(c)) /\ UNCHANGED <<toWake, resumed>>
     ELSE LET w == Head(toWake) IN
          /\ toWake' = Tail(toWake)
          /\ Resume(w)
          /\ stage' = [stage EXCEPT ![w] = IF @ = "suspended" THEN "gone" ELSE @]
  /\ UNCHANGED <<expected, linked>>

(* wait(): await_ready, the exchange that links, and the second look.      *)
Ready(c) ==
  /\ stage[c] = "await_ready"
  /\ IF expected = 0 THEN Resume(c) /\ At(c, "gone") ELSE At(c, "link") /\ UNCHANGED resumed
  /\ UNCHANGED <<expected, linked, toWake>>

LinkAlone(c) ==
  /\ stage[c] = "link"
  /\ linked' = <<c>>
  /\ At(c, "look again")
  /\ UNCHANGED <<expected, toWake, resumed>>

Link(c) ==
  /\ stage[c] = "link"
  /\ linked' = <<c>> \o linked
  /\ At(c, "look again")
  /\ UNCHANGED <<expected, toWake, resumed>>

LookAgain(c) ==
  /\ stage[c] = "look again"
  /\ IF expected = 0
     THEN Resume(c) /\ At(c, "not suspended")
     ELSE At(c, "suspended") /\ UNCHANGED resumed
  /\ UNCHANGED <<expected, linked, toWake>>

Arrive(c) ==
  \/ CountDown(c) \/ LoadHead(c) \/ WakeNext(c)
  \/ Ready(c) \/ Link(c) \/ LookAgain(c)

LatchNext == \E c \in Arriving : Arrive(c)

(* Every coroutine is run until it suspends or is through.                 *)
LatchFairness == \A c \in Arriving : WF_latchVars(Arrive(c))

LatchSpec == LatchInit /\ [][LatchNext]_latchVars /\ LatchFairness

-----------------------------------------------------------------------------
(* Nobody gets past the latch before it has been counted down, and twice   *)
(* only the waiter that was listed and did not suspend (latch.hpp:26).     *)
PassesAfterCountdown ==
  \A c \in Arriving : /\ resumed[c] > 0 => expected = 0
                      /\ resumed[c] > 1 => stage[c] = "not suspended"

(* Every waiter gets past the latch, whether it links before, during or    *)
(* after the walk of the last count_down (latch.hpp:21-26 against 46-49).  *)
EveryWaiterPasses ==
  \A c \in Waiting :
    (stage[c] \in {"link", "look again", "suspended"}) ~> (resumed[c] > 0)
=============================================================================
