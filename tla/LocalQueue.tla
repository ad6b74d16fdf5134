----------------------------- MODULE LocalQueue -----------------------------
(***************************************************************************)
(* The work-stealing run queue of multi_thread/queue.hpp, with the global  *)
(* queue it spills to.  Every worker w owns a ring buf[w] written by w     *)
(* alone.  tail[w] is stored by w alone; head[w] packs two counters:       *)
(*                                                                         *)
(*     steal .. real - 1   slots a thief has claimed and is still copying  *)
(*     real  .. tail - 1   tasks anyone may take                           *)
(*                                                                         *)
(* One action is one access to memory another thread can see changing:     *)
(* a load of head or of somebody else's tail, a compare-exchange, the copy *)
(* of one slot, a store of tail.  A worker's accesses to what it alone     *)
(* writes belong to the neighbouring action.  A compare-exchange that      *)
(* fails spuriously reloads the value it has and is a stuttering step.     *)
(* GlobalQueue's methods run under its mutex and are one step each; the    *)
(* num_ that is read without the mutex is Len(global), since every caller  *)
(* here passes the length of the list it pushes.                           *)
(*                                                                         *)
(* No action uses PoppedOverThief, StealKeepPublishesAll, ClaimedAndFreed, *)
(* FetchableIgnoresRoom and OverflowSpillForgetsPushed: each is a faulty   *)
(* variant of the definition after it, for mutation testing.               *)
(***************************************************************************)
EXTENDS Integers, Sequences, FiniteSets

CONSTANTS Workers,    \* the worker threads
          Tasks,      \* the coroutine handles
          NoTask,     \* what a slot holds before its first use
          Capacity,   \* LOCAL_QUEUE_CAPACITY (256 in the code)
          Modulus,    \* the counters are computed modulo this (2^32)
          Start,      \* where the counters of an empty, used queue stand
          Spawned     \* Spawned[w]: the tasks the code that runs on w schedules, in order

ASSUME SizeAssumption ==
  /\ IsFiniteSet(Workers) /\ Workers # {}
  /\ Capacity \in Nat /\ Capacity > 0 /\ Capacity % 2 = 0
  /\ Modulus \in Nat /\ Modulus % Capacity = 0 /\ Capacity < Modulus
  /\ Start \in 0 .. Modulus - 1

ASSUME TaskAssumption ==
  /\ NoTask \notin Tasks
  /\ Spawned \in [Workers -> Seq(Tasks)]
  /\ \A t \in Tasks : \A v, w \in Workers :
       \A i \in DOMAIN Spawned[v], j \in DOMAIN Spawned[w] :
         Spawned[v][i] = t /\ Spawned[w][j] = t => v = w /\ i = j

VARIABLES
  head,      \* head[w] = [steal, real], head_ unpacked
  tail,      \* tail[w], tail_
  buf,       \* buf[w][slot], buffer_
  global,    \* the tasks of the GlobalQueue
  todo,      \* todo[w]: the rest of Spawned[w], not scheduled yet
  ran,       \* ran[t]: how often t was handed to a worker to be resumed
  pc,        \* pc[w]: where in which method w is
  reg        \* reg[w]: the local variables of that method

vars == <<head, tail, buf, global, todo, ran, pc, reg>>
rings == <<head, tail, buf>>

Counter == 0 .. Modulus - 1

(* uint32_t arithmetic, and the slot of a counter.                         *)
Add(a, b) == (a + b) % Modulus
Sub(a, b) == (a - b) % Modulus
Slot(c)   == c % Capacity

Half(n) == n - n \div 2
Smaller(a, b) == IF a < b THEN a ELSE b

NoRegs == [task |-> NoTask, head |-> [steal |-> 0, real |-> 0], src |-> NoTask,
           to |-> 0, n |-> 0, i |-> 0, list |-> <<>>]

Init ==
  /\ head = [w \in Workers |-> [steal |-> Start, real |-> Start]]
  /\ tail = [w \in Workers |-> Start]
  /\ buf  = [w \in Workers |-> [s \in 0 .. Capacity - 1 |-> NoTask]]
  /\ global = <<>>
  /\ todo = Spawned
  /\ ran  = [t \in Tasks |-> 0]
  /\ pc   = [w \in Workers |-> "idle"]
  /\ reg  = [w \in Workers |-> NoRegs]

-----------------------------------------------------------------------------
Goto(w, label) == pc' = [pc EXCEPT ![w] = label]
Set(w, regs)   == reg' = [reg EXCEPT ![w] = regs]
Return(w)      == Goto(w, "idle") /\ Set(w, NoRegs)
Run(t)         == ran' = [ran EXCEPT ![t] = @ + 1]
Scheduled(w)   == todo' = [todo EXCEPT ![w] = Tail(@)]

(* remaining_slots(): the slots w may fill.  A thief that has claimed slots *)
(* still needs them, so they count until it releases them.                 *)
Remaining(w) == Capacity - Sub(tail[w], head[w].steal)

-----------------------------------------------------------------------------
(* push_back_or_overflow(t) by w: load head, compare it with the own tail. *)
PushDecide(w, t) ==
  LET h == head[w]
      room == Remaining(w) > 0
  IN  /\ \/ room /\ Goto(w, "store")
         \/ ~room /\ h.steal # h.real /\ Goto(w, "share")
         \/ ~room /\ h.steal = h.real /\ Goto(w, "overflow")
      /\ Set(w, [NoRegs EXCEPT !.task = t, !.head = h])
      /\ UNCHANGED <<rings, global, todo, ran>>

PushBegin(w) ==
  /\ pc[w] = "idle"
  /\ todo[w] # <<>>
  /\ PushDecide(w, Head(todo[w]))

(* There is room: write the slot ...                                       *)
PushStore(w) ==
  /\ pc[w] = "store"
  /\ buf' = [buf EXCEPT ![w][Slot(tail[w])] = reg[w].task]
  /\ Goto(w, "publish")
  /\ UNCHANGED <<head, tail, global, todo, ran, reg>>

(* ... and publish it.                                                     *)
PushPublish(w) ==
  /\ pc[w] = "publish"
  /\ tail' = [tail EXCEPT ![w] = Add(@, 1)]
  /\ Scheduled(w)
  /\ Return(w)
  /\ UNCHANGED <<head, buf, global, ran>>

(* No room while a thief is copying: only the task pushed is shared.       *)
PushShare(w) ==
  /\ pc[w] = "share"
  /\ global' = Append(global, reg[w].task)
  /\ Scheduled(w)
  /\ Return(w)
  /\ UNCHANGED <<rings, ran>>

(* push_overflow: claim the older half unless the head has moved, in which *)
(* case the caller's loop starts over.                                     *)
OverflowClaim(w) ==
  /\ pc[w] = "overflow"
  /\ LET h == reg[w].head
         r == Add(h.real, Capacity \div 2)
     IN  IF head[w] = h
         THEN /\ head' = [head EXCEPT ![w] = [steal |-> r, real |-> r]]
              /\ Goto(w, "spill")
              /\ UNCHANGED <<tail, buf, global, todo, ran, reg>>
         ELSE PushDecide(w, reg[w].task)

(* push_overflow: share the claimed half and then the task pushed.         *)
Spilled(w) ==
  [i \in 1 .. Capacity \div 2 |-> buf[w][Slot(Add(reg[w].head.real, i - 1))]]

OverflowSpillForgetsPushed(w) ==
  /\ pc[w] = "spill"
  /\ global' = global \o Spilled(w)
  /\ Scheduled(w)
  /\ Return(w)
  /\ UNCHANGED <<rings, ran>>

OverflowSpill(w) ==
  /\ pc[w] = "spill"
  /\ global' = global \o Append(Spilled(w), reg[w].task)
  /\ Scheduled(w)
  /\ Return(w)
  /\ UNCHANGED <<rings, ran>>

-----------------------------------------------------------------------------
(* pop() by w with the head just loaded: empty, or go on to claim a task.  *)
PopDecide(w) ==
  /\ IF head[w].real = tail[w]
     THEN Return(w)
     ELSE Goto(w, "pop") /\ Set(w, [NoRegs EXCEPT !.head = head[w]])
  /\ UNCHANGED <<rings, global, todo, ran>>

PopBegin(w) == pc[w] = "idle" /\ PopDecide(w)

(* The claim keeps the steal counter of a thief that is still copying.     *)
PoppedOverThief(h) == [steal |-> Add(h.real, 1), real |-> Add(h.real, 1)]
Popped(h) ==
  LET next == Add(h.real, 1)
  IN  [steal |-> IF h.steal = h.real THEN next ELSE h.steal, real |-> next]

PopClaim(w) ==
  /\ pc[w] = "pop"
  /\ LET h == reg[w].head
     IN  IF head[w] = h
         THEN /\ head' = [head EXCEPT ![w] = Popped(h)]
              /\ Run(buf[w][Slot(h.real)])
              /\ Return(w)
              /\ UNCHANGED <<tail, buf, global, todo>>
         ELSE PopDecide(w)

-----------------------------------------------------------------------------
(* v.steal_into(w), which Worker::run reaches only after w's own queue was *)
(* found empty: w goes on when at most half of its ring is still in use by *)
(* a thief, and loads v's head.                                            *)
StealBegin(w) ==
  /\ pc[w] = "idle"
  /\ head[w].real = tail[w]
  /\ Remaining(w) >= Capacity \div 2
  /\ \E v \in Workers \ {w} :
       Set(w, [NoRegs EXCEPT !.src = v, !.head = head[v], !.to = tail[w]])
  /\ Goto(w, "look")
  /\ UNCHANGED <<rings, global, todo, ran>>

(* Load v's tail: give up when another thief is copying or v looks empty,  *)
(* else aim at half of what is there, rounded up.                          *)
StealLook(w) ==
  /\ pc[w] = "look"
  /\ LET h == reg[w].head
         n == Half(Sub(tail[reg[w].src], h.real))
     IN  IF h.steal # h.real \/ n = 0
         THEN Return(w)
         ELSE Goto(w, "claim") /\ reg' = [reg EXCEPT ![w].n = n]
  /\ UNCHANGED <<rings, global, todo, ran>>

(* Claim them by moving v's real counter only; look again on failure.      *)
ClaimedAndFreed(h, n) == [steal |-> Add(h.real, n), real |-> Add(h.real, n)]
Claimed(h, n) == [steal |-> h.steal, real |-> Add(h.real, n)]

StealClaim(w) ==
  /\ pc[w] = "claim"
  /\ LET v == reg[w].src
         h == reg[w].head
     IN  IF head[v] = h
         THEN /\ head' = [head EXCEPT ![v] = Claimed(h, reg[w].n)]
              /\ Goto(w, "copy")
              /\ UNCHANGED reg
         ELSE /\ reg' = [reg EXCEPT ![w].head = head[v]]
              /\ Goto(w, "look")
              /\ UNCHANGED head
  /\ UNCHANGED <<tail, buf, global, todo, ran>>

(* Copy one claimed slot.                                                  *)
StealCopy(w) ==
  /\ pc[w] = "copy"
  /\ LET r == reg[w]
         from == Slot(Add(r.head.steal, r.i))
     IN  /\ buf' = [buf EXCEPT ![w][Slot(Add(r.to, r.i))] = buf[r.src][from]]
         /\ reg' = [reg EXCEPT ![w].i = @ + 1]
         /\ Goto(w, IF r.i + 1 = r.n THEN "release" ELSE "copy")
  /\ UNCHANGED <<head, tail, global, todo, ran>>

(* Give the slots back: steal catches up with wherever real is by now.     *)
Released(h) == [steal |-> h.real, real |-> h.real]

StealRelease(w) ==
  /\ pc[w] = "release"
  /\ head' = [head EXCEPT ![reg[w].src] = Released(@)]
  /\ Goto(w, "keep")
  /\ UNCHANGED <<tail, buf, global, todo, ran, reg>>

(* Run the last task copied and publish the others.                        *)
StealKeepPublishesAll(w) ==
  /\ pc[w] = "keep"
  /\ LET last == Add(reg[w].to, reg[w].n - 1)
     IN  Run(buf[w][Slot(last)]) /\ tail' = [tail EXCEPT ![w] = Add(last, 1)]
  /\ Return(w)
  /\ UNCHANGED <<head, buf, global, todo>>

StealKeep(w) ==
  /\ pc[w] = "keep"
  /\ LET last == Add(reg[w].to, reg[w].n - 1)
     IN  Run(buf[w][Slot(last)]) /\ tail' = [tail EXCEPT ![w] = last]
  /\ Return(w)
  /\ UNCHANGED <<head, buf, global, todo>>

-----------------------------------------------------------------------------
(* Worker::next_task and Shared::next_remote_task on the global queue.     *)
RunShared(w) ==
  /\ global # <<>>
  /\ Run(Head(global))
  /\ global' = Tail(global)
  /\ Return(w)
  /\ UNCHANGED <<rings, todo>>

(* next_remote_task(): every global_queue_interval ticks, and as the last  *)
(* thing a searching worker tries.                                         *)
TakeShared(w) == pc[w] = "idle" /\ RunShared(w)

(* The shared tasks w can store: half a ring at most.                      *)
FetchableIgnoresRoom(w) == Capacity \div 2
Fetchable(w) == Smaller(Remaining(w), Capacity \div 2)

(* next_task(): the own queue is empty and the global one is not.  Without *)
(* a free slot one task is taken ...                                       *)
FetchBegin(w) ==
  /\ pc[w] = "idle"
  /\ head[w].real = tail[w]
  /\ global # <<>>
  /\ IF Fetchable(w) = 0
     THEN RunShared(w)
     ELSE /\ Set(w, [NoRegs EXCEPT !.n = Fetchable(w)])
          /\ Goto(w, "size")
          /\ UNCHANGED <<rings, global, todo, ran>>

(* ... else at most a worker's share of the global queue.                  *)
FetchSize(w) ==
  /\ pc[w] = "size"
  /\ LET share == Len(global) \div Cardinality(Workers) + 1
     IN  reg' = [reg EXCEPT ![w].n = Smaller(share, @)]
  /\ Goto(w, "fetch")
  /\ UNCHANGED <<rings, global, todo, ran>>

(* pop_n(n) under the mutex, which by then may find less; the first task   *)
(* fetched will run.                                                       *)
FetchTake(w) ==
  /\ pc[w] = "fetch"
  /\ LET n == Smaller(reg[w].n, Len(global))
     IN  /\ global' = SubSeq(global, n + 1, Len(global))
         /\ IF n <= 1
            THEN /\ Return(w)
                 /\ IF n = 0 THEN UNCHANGED ran ELSE Run(global[1])
            ELSE /\ Goto(w, "batch")
                 /\ Set(w, [NoRegs EXCEPT !.list = SubSeq(global, 1, n)])
                 /\ UNCHANGED ran
  /\ UNCHANGED <<rings, todo>>

(* push_batch of the other tasks: check the room and write the slots ...   *)
BatchLen(w) == Len(reg[w].list) - 1

BatchOverflows(w) == Sub(tail[w], head[w].steal) > Capacity - BatchLen(w)

BatchStore(w) ==
  /\ pc[w] = "batch"
  /\ ~BatchOverflows(w)
  /\ buf' = [buf EXCEPT ![w] =
       [s \in 0 .. Capacity - 1 |->
          LET i == (s - tail[w]) % Capacity
          IN  IF i < BatchLen(w) THEN reg[w].list[i + 2] ELSE @[s]]]
  /\ Goto(w, "batch_publish")
  /\ UNCHANGED <<head, tail, global, todo, ran, reg>>

(* ... and publish them; then the first task runs.                         *)
BatchPublish(w) ==
  /\ pc[w] = "batch_publish"
  /\ tail' = [tail EXCEPT ![w] = Add(@, BatchLen(w))]
  /\ Run(Head(reg[w].list))
  /\ Return(w)
  /\ UNCHANGED <<head, buf, global, todo>>

-----------------------------------------------------------------------------
(* The steps that finish a method w has begun.                             *)
Continue(w) ==
  \/ PushStore(w) \/ PushPublish(w) \/ PushShare(w)
  \/ OverflowClaim(w) \/ OverflowSpill(w)
  \/ PopClaim(w)
  \/ StealLook(w) \/ StealClaim(w) \/ StealCopy(w) \/ StealRelease(w) \/ StealKeep(w)
  \/ FetchSize(w) \/ FetchTake(w) \/ BatchStore(w) \/ BatchPublish(w)

Next ==
  \E w \in Workers :
    \/ PushBegin(w) \/ PopBegin(w) \/ StealBegin(w) \/ TakeShared(w) \/ FetchBegin(w)
    \/ Continue(w)

Spec == Init /\ [][Next]_vars

(* A thread is not preempted for ever inside a method, and every iteration *)
(* of Worker::run calls next_task before it tries to steal: a worker that  *)
(* is between two methods again and again looks at its queues again and    *)
(* again.  Stealing is owed nothing.                                       *)
Fairness ==
  \A w \in Workers :
    /\ WF_vars(Continue(w))
    /\ SF_vars(PopBegin(w))
    /\ SF_vars(FetchBegin(w))

FairSpec == Spec /\ Fairness

-----------------------------------------------------------------------------
(* Type invariant of the rings, their counters and the workers' registers. *)
TypeOK ==
  /\ head \in [Workers -> [steal : Counter, real : Counter]]
  /\ tail \in [Workers -> Counter]
  /\ buf \in [Workers -> [0 .. Capacity - 1 -> Tasks \cup {NoTask}]]
  /\ global \in Seq(Tasks)
  /\ todo \in [Workers -> Seq(Tasks)]
  /\ ran \in [Tasks -> Nat]
  /\ pc \in [Workers -> {"idle", "store", "publish", "share", "overflow", "spill",
                         "pop", "look", "claim", "copy", "release", "keep",
                         "size", "fetch", "batch", "batch_publish"}]
  /\ \A w \in Workers :
       /\ reg[w].task \in Tasks \cup {NoTask}
       /\ reg[w].head \in [steal : Counter, real : Counter]
       /\ reg[w].src \in Workers \cup {NoTask}
       /\ reg[w].to \in Counter
       /\ reg[w].n \in Counter
       /\ reg[w].i \in 0 .. Capacity
       /\ reg[w].list \in Seq(Tasks)

(* The tasks in the local queue of w, oldest first.                        *)
Contents(w) ==
  [i \in 1 .. Sub(tail[w], head[w].real) |-> buf[w][Slot(Add(head[w].real, i - 1))]]

(* The tasks w has taken from one queue and not yet put into another: those*)
(* a thief has copied lie in its own ring, the others still in the source. *)
InFlight(w) ==
  LET r == reg[w]
      Stolen(i) == IF i <= r.i THEN buf[w][Slot(Add(r.to, i - 1))]
                   ELSE buf[r.src][Slot(Add(r.head.steal, i - 1))]
  IN  CASE pc[w] \in {"copy", "release", "keep"} ->
             [origin |-> "steal", tasks |-> [i \in 1 .. r.n |-> Stolen(i)]]
        [] pc[w] = "spill" -> [origin |-> "spill", tasks |-> Spilled(w)]
        [] pc[w] \in {"batch", "batch_publish"} ->
             [origin |-> "fetch", tasks |-> r.list]
        [] OTHER -> [origin |-> "none", tasks |-> <<>>]

Queues  == [w \in Workers |-> Contents(w)]
Flights == [w \in Workers |-> InFlight(w)]

Pool == INSTANCE WorkPool WITH queue <- Queues, moving <- Flights

(* The rings implement the abstract queues: each compare-exchange or store *)
(* takes from or adds to a FIFO queue atomically, and no interleaving of   *)
(* owner and thieves overwrites a slot whose task is still needed, skips a *)
(* slot, or hands one out twice (all of queue.hpp:126-305).                *)
ImplementsPool == Pool!Spec

(* A coroutine handle is in exactly one place, so it is neither leaked nor *)
(* resumed by two workers at once (pop against steal_into2's claim).       *)
ExactlyOnce == Pool!NeitherLostNorTwice

Copying(w, v) == pc[w] \in {"copy", "release"} /\ reg[w].src = v

(* The rings keep their bounds (the assertion in remaining_slots,          *)
(* queue.hpp:105): what is stored plus what thieves still copy never       *)
(* exceeds the ring, across the wrap of the counters; steal never runs     *)
(* ahead of real, nor real of tail; and at most one thief works on a ring  *)
(* (queue.hpp:237), whose counters enclose what it claimed until it        *)
(* releases it, whatever the owner and other thieves do.                   *)
RingBounded ==
  /\ TypeOK
  /\ \A w \in Workers :
       /\ Sub(tail[w], head[w].steal) <= Capacity
       /\ Sub(head[w].real, head[w].steal) <= Sub(tail[w], head[w].steal)
  /\ \A v \in Workers :
       /\ Cardinality({w \in Workers : Copying(w, v)}) <= 1
       /\ \A w \in Workers : Copying(w, v) =>
            /\ reg[w].n \in 1 .. Capacity \div 2 /\ reg[w].i <= reg[w].n
            /\ head[v].steal = reg[w].head.steal
            /\ Sub(head[v].real, head[v].steal) >= reg[w].n

(* push_batch never throws out of the worker's loop (queue.hpp:134): the   *)
(* room next_task computed before it locked the global queue is still      *)
(* there when the tasks it fetched are stored.                             *)
BatchFits == \A w \in Workers : pc[w] = "batch" => ~BatchOverflows(w)

(* Whatever a worker schedules is eventually resumed, wherever overflow    *)
(* and steals have moved it by then.                                       *)
ScheduledTasksRun ==
  \A w \in Workers : \A i \in DOMAIN Spawned[w] :
    (Len(todo[w]) <= Len(Spawned[w]) - i) ~> (ran[Spawned[w][i]] = 1)
=============================================================================
