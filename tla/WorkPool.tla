------------------------------ MODULE WorkPool ------------------------------
(***************************************************************************)
(* What the run queues of the multi-threaded scheduler promise to the      *)
(* workers: every worker owns one FIFO queue of at most Capacity tasks,    *)
(* all workers share one unbounded FIFO queue, and a task is never lost,   *)
(* duplicated, overtaken inside a queue or invented while it is moved.     *)
(*                                                                         *)
(* A move between two queues is two steps: the tasks leave the front of    *)
(* one queue in one atomic step, are in nobody's queue for a while, and    *)
(* arrive in another queue in one atomic step.  LocalQueue implements      *)
(* this specification with a ring buffer and two atomic counters.          *)
(***************************************************************************)
EXTENDS Naturals, Sequences, FiniteSets

CONSTANTS Workers,    \* the worker threads, one local queue each
          Tasks,      \* the coroutine handles
          Capacity,   \* LOCAL_QUEUE_CAPACITY
          Spawned     \* Spawned[w]: the tasks the code that runs on w schedules, in order

VARIABLES todo,       \* todo[w]: the rest of Spawned[w], not scheduled yet
          queue,      \* queue[w]: the local queue of w
          global,     \* the queue shared by all workers
          moving,     \* moving[w]: the tasks w is moving between two queues
          ran         \* ran[t]: how often t was given to a worker to be run

poolVars == <<todo, queue, global, moving, ran>>

Nothing == [origin |-> "none", tasks |-> <<>>]

Half(n) == n - n \div 2

Init ==
  /\ todo = Spawned
  /\ queue = [w \in Workers |-> <<>>]
  /\ global = <<>>
  /\ moving = [w \in Workers |-> Nothing]
  /\ ran = [t \in Tasks |-> 0]

Run(t) == ran' = [ran EXCEPT ![t] = @ + 1]

(* w schedules its next task behind those of its own queue.                *)
Push(w) ==
  /\ todo[w] # <<>>
  /\ Len(queue[w]) < Capacity
  /\ todo' = [todo EXCEPT ![w] = Tail(@)]
  /\ queue' = [queue EXCEPT ![w] = Append(@, Head(todo[w]))]
  /\ UNCHANGED <<global, moving, ran>>

(* w's queue has no room and a thief holds part of it: the task is shared.  *)
PushShared(w) ==
  /\ todo[w] # <<>>
  /\ todo' = [todo EXCEPT ![w] = Tail(@)]
  /\ global' = Append(global, Head(todo[w]))
  /\ UNCHANGED <<queue, moving, ran>>

(* w's queue is full: its older half leaves ...                            *)
SpillOut(w) ==
  /\ moving[w] = Nothing
  /\ Len(queue[w]) = Capacity
  /\ moving' = [moving EXCEPT ![w] =
       [origin |-> "spill", tasks |-> SubSeq(queue[w], 1, Capacity \div 2)]]
  /\ queue' = [queue EXCEPT ![w] = SubSeq(@, Capacity \div 2 + 1, Capacity)]
  /\ UNCHANGED <<todo, global, ran>>

(* ... and is shared, in its order, followed by the task pushed.           *)
SpillIn(w) ==
  /\ moving[w].origin = "spill"
  /\ todo[w] # <<>>
  /\ todo' = [todo EXCEPT ![w] = Tail(@)]
  /\ global' = global \o Append(moving[w].tasks, Head(todo[w]))
  /\ moving' = [moving EXCEPT ![w] = Nothing]
  /\ UNCHANGED <<queue, ran>>

(* w runs the oldest task of its queue.                                    *)
Pop(w) ==
  /\ queue[w] # <<>>
  /\ queue' = [queue EXCEPT ![w] = Tail(@)]
  /\ Run(Head(queue[w]))
  /\ UNCHANGED <<todo, global, moving>>

(* w takes the oldest tasks of v, at most half of them rounded up ...      *)
StealOut(w, v) ==
  /\ moving[w] = Nothing
  /\ w # v
  /\ \E n \in 1 .. Half(Len(queue[v])) :
       /\ moving' = [moving EXCEPT ![w] =
            [origin |-> "steal", tasks |-> SubSeq(queue[v], 1, n)]]
       /\ queue' = [queue EXCEPT ![v] = SubSeq(@, n + 1, Len(@))]
  /\ UNCHANGED <<todo, global, ran>>

(* ... runs the youngest of them and keeps the others in their order.      *)
StealIn(w) ==
  /\ moving[w].origin = "steal"
  /\ LET got == moving[w].tasks
         n   == Len(got)
     IN  /\ queue' = [queue EXCEPT ![w] = @ \o SubSeq(got, 1, n - 1)]
         /\ Run(got[n])
  /\ moving' = [moving EXCEPT ![w] = Nothing]
  /\ UNCHANGED <<todo, global>>

(* w runs the oldest shared task.                                          *)
TakeShared(w) ==
  /\ global # <<>>
  /\ global' = Tail(global)
  /\ Run(Head(global))
  /\ UNCHANGED <<todo, queue, moving>>

(* w takes the oldest shared tasks ...                                     *)
FetchOut(w) ==
  /\ moving[w] = Nothing
  /\ queue[w] = <<>>
  /\ \E n \in 1 .. Len(global) :
       /\ n <= Capacity \div 2
       /\ moving' = [moving EXCEPT ![w] =
            [origin |-> "fetch", tasks |-> SubSeq(global, 1, n)]]
       /\ global' = SubSeq(global, n + 1, Len(global))
  /\ UNCHANGED <<todo, queue, ran>>

(* ... runs the oldest of them and keeps the others in their order.        *)
FetchIn(w) ==
  /\ moving[w].origin = "fetch"
  /\ queue' = [queue EXCEPT ![w] = @ \o Tail(moving[w].tasks)]
  /\ Run(Head(moving[w].tasks))
  /\ moving' = [moving EXCEPT ![w] = Nothing]
  /\ UNCHANGED <<todo, global>>

Next ==
  \E w \in Workers :
    \/ Push(w) \/ PushShared(w) \/ SpillOut(w) \/ SpillIn(w)
    \/ \E v \in Workers : StealOut(w, v)
    \/ Pop(w) \/ StealIn(w)
    \/ TakeShared(w) \/ FetchOut(w) \/ FetchIn(w)

Spec == Init /\ [][Next]_poolVars

-----------------------------------------------------------------------------
(* The places a task is in: those that hold tasks, and where in them.      *)
Where(s, t) == {i \in DOMAIN s : s[i] = t}

Holders == ({"todo", "queue", "moving"} \X Workers) \cup {<<"global">>, <<"ran">>}

Spots(t) == [h \in Holders |->
  CASE h[1] = "todo"   -> Where(todo[h[2]], t)
    [] h[1] = "queue"  -> Where(queue[h[2]], t)
    [] h[1] = "moving" -> Where(moving[h[2]].tasks, t)
    [] h[1] = "global" -> Where(global, t)
    [] h[1] = "ran"    -> 1 .. ran[t]]

Everywhere(spots) == UNION {{h} \X spots[h] : h \in DOMAIN spots}

(* A task is in as many places as it was spawned in: it is neither lost    *)
(* nor there twice, in whatever queues and however often it was moved.     *)
NeitherLostNorTwice ==
  \A t \in Tasks :
    Cardinality(Everywhere(Spots(t)))
      = Cardinality(Everywhere([w \in Workers |-> Where(Spawned[w], t)]))
=============================================================================
