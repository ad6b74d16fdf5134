---------------------------- MODULE WakeupProofs ----------------------------
(***************************************************************************)
(* What the run loop, the queues, the drivers and wake_up_one guarantee    *)
(* together: NoLostWakeup, WakesLiveWorkers and Scheduler's TypeOK, for    *)
(* any number of workers, any even ring capacity and any amount of work.   *)
(*                                                                         *)
(* NoLostWakeup speaks of the moment when everybody waits.  Every step     *)
(* before it keeps AwakeInv: whoever found its own queue empty has nothing *)
(* in it until it looks again (Emptied); whoever no longer looks whether   *)
(* the runtime was closed will find its eventfd written (Told); and while  *)
(* the runtime is open somebody is on the way to the global queue, or      *)
(* nothing is in it, or someone is about to choose a sleeper (Watched).    *)
(* The last searcher to go to sleep looks once more (Park), and so does    *)
(* whoever sees that nobody searches and not all work (NotifyLook): the    *)
(* two meet in Watched, for which IdleInv must make the counts agree.      *)
(*                                                                         *)
(* Each conjunct has a lemma that says which steps keep it as they do not  *)
(* concern it (RingsRest, EmptiedStays, ToldStays, PlaceStays,             *)
(* AsideWatched, BoundsStay), and one with a case for each action.         *)
(***************************************************************************)
EXTENDS SchedulerProofs

Half == Capacity \div 2

(* What a ring holds and what a thief copies out of it fit the capacity; a *)
(* thief has room for what it takes, and so has one that fetches.          *)
Rings ==
  /\ lifo \in [Workers -> BOOLEAN]
  /\ queue \in [Workers -> Nat]
  /\ thief \in [Workers -> Workers \cup {Nobody}]
  /\ n \in [Workers -> 0 .. Capacity]
  /\ global \in Nat
  /\ \A w \in Workers :
       /\ queue[w] + Stolen(w) <= Capacity
       /\ thief[w] # Nobody => pc[thief[w]] = "steal"
       /\ pc[w] = "steal" => n[w] \in 1 .. Half /\ queue[w] + Stolen(w) <= Half
       /\ pc[w] = "fetch" => n[w] >= 1 /\ n[w] + queue[w] + Stolen(w) <= Capacity

LEMMA Halves == Half \in Nat /\ Half > 0 /\ Half + Half = Capacity /\ Capacity \in Nat
  BY SizesPositive DEF Half

LEMMA Products == ASSUME NEW a \in Nat, NEW b \in Nat
  PROVE a * b \in Nat /\ (a > 0 /\ b > 0 => a * b > 0)
  OBVIOUS

LEMMA StolenFits ==
  ASSUME Rings, NEW w \in Workers
  PROVE  Stolen(w) \in 0 .. Half
  <1>1. CASE thief[w] = Nobody
    BY <1>1, Halves DEF Stolen
  <1>2. CASE thief[w] # Nobody
    <2>1. thief[w] \in Workers /\ pc[thief[w]] = "steal"
      BY <1>2 DEF Rings
    <2>2. n[thief[w]] \in 1 .. Half
      BY <2>1 DEF Rings
    <2> QED  BY <1>2, <2>2, Halves DEF Stolen
  <1> QED  BY <1>1, <1>2

(* What pushing does to the ring and to the global queue: the ring keeps a *)
(* task when any task overflows.                                           *)
LEMMA PushFits ==
  ASSUME Rings, NEW w \in Workers, NEW k \in Nat, PushTasks(w, k), closed \in BOOLEAN
  PROVE  /\ queue' \in [Workers -> Nat] /\ global' \in Nat
         /\ \A v \in Workers \ {w} : queue'[v] = queue[v]
         /\ queue'[w] + Stolen(w) <= Capacity
         /\ global' # global => queue'[w] > 0
         /\ k = 0 => queue' = queue /\ global' = global
  <1> DEFINE moved(o) == o * (Spilt(w) + 1)
             kept(o)  == queue[w] + k - moved(o)
  <1>1. PICK o \in 0 .. k :
          /\ kept(o) + Stolen(w) <= Capacity
          /\ o > 0 => kept(o) + Stolen(w) >= Capacity - Spilt(w)
          /\ queue' = [queue EXCEPT ![w] = kept(o)]
          /\ global' = Accepted(global, moved(o))
    BY DEF PushTasks
  <1>2. Stolen(w) \in 0 .. Half /\ Half \in Nat /\ Half > 0 /\ Half + Half = Capacity
    BY StolenFits, Halves
  <1>3. Spilt(w) \in 0 .. Half /\ (Spilt(w) = 0 \/ Stolen(w) = 0)
    BY <1>2 DEF Spilt, Stolen, Half
  <1>4. moved(o) \in Nat /\ (o = 0 => moved(o) = 0)
    BY <1>3, <1>2, Products
  <1>5. queue[w] \in Nat /\ global \in Nat
    BY DEF Rings
  <1> HIDE DEF moved
  <1>6. kept(o) \in Nat /\ (o > 0 => kept(o) > 0)
    BY <1>1, <1>2, <1>3, <1>4, <1>5
  <1>7. queue'[w] = kept(o) /\ queue' \in [Workers -> Nat]
          /\ \A v \in Workers \ {w} : queue'[v] = queue[v]
    BY <1>1, <1>6 DEF Rings
  <1>8. global' \in Nat /\ (o = 0 => global' = global)
    BY <1>1, <1>4, <1>5 DEF Accepted
  <1>9. k = 0 => o = 0 /\ kept(o) = queue[w]
    BY <1>4, <1>5
  <1>10. k = 0 => queue' = queue
    BY <1>1, <1>9 DEF Rings
  <1> QED  BY <1>1, <1>6, <1>7, <1>8, <1>9, <1>10

(* Actor a leaves the rings alone, or is a worker that pushes to its own.  *)
Elsewhere(a) ==
  /\ UNCHANGED <<thief, n>> /\ lifo' \in [Workers -> BOOLEAN]
  /\ \A b \in Actors \ {a} : pc'[b] = pc[b]
  /\ pc[a] # "steal" /\ pc'[a] \notin {"steal", "fetch"}

LEMMA RingsRest ==
  ASSUME Rings, NEW a \in Actors, Elsewhere(a), queue' = queue, global' \in Nat
  PROVE  Rings'
  <1> USE DEF Elsewhere
  <1>1. \A w \in Workers : Stolen(w)' = Stolen(w)
    BY DEF Stolen
  <1>2. \A w \in Workers : thief[w] # Nobody => thief[w] \in Actors /\ thief[w] # a
    BY DEF Rings, Actors
  <1>3. \A w \in Workers : pc'[w] \in {"steal", "fetch"} => pc'[w] = pc[w]
    BY DEF Actors
  <1> QED  BY <1>1, <1>2, <1>3 DEF Rings

LEMMA RingsPush ==
  ASSUME Rings, NEW w \in Workers, Elsewhere(w), NEW k \in Nat, PushTasks(w, k),
         closed \in BOOLEAN
  PROVE  Rings'
  <1> USE DEF Elsewhere
  <1>1. \A v \in Workers : Stolen(v)' = Stolen(v)
    BY DEF Stolen
  <1>2. \A v \in Workers : thief[v] # Nobody => thief[v] \in Actors /\ thief[v] # w
    BY DEF Rings, Actors
  <1>3. \A v \in Workers : pc'[v] \in {"steal", "fetch"} => v # w /\ pc'[v] = pc[v]
    BY DEF Actors
  <1>4. /\ queue' \in [Workers -> Nat] /\ global' \in Nat
        /\ \A v \in Workers \ {w} : queue'[v] = queue[v]
        /\ queue'[w] + Stolen(w) <= Capacity
    BY PushFits
  <1> QED  BY <1>1, <1>2, <1>3, <1>4 DEF Rings

LEMMA FetchRings ==
  ASSUME Rings, NEW w \in Workers, Fetch(w), pc \in [Actors -> Labels]
  PROVE  Rings'
  <1> DEFINE got == Smaller(n[w], global)
  <1>0. w \in Actors /\ pc[w] = "fetch"
    BY DEF Actors, Fetch
  <1>1. /\ n[w] \in Nat /\ n[w] >= 1 /\ n[w] + queue[w] + Stolen(w) <= Capacity
        /\ queue[w] \in Nat /\ global \in Nat /\ Stolen(w) \in Nat
    BY <1>0, StolenFits, Halves DEF Rings
  <1>2. got \in Nat /\ got <= n[w] /\ got <= global
    BY <1>1 DEF Smaller
  <1>3. /\ global' \in Nat
        /\ queue' = [queue EXCEPT ![w] = queue'[w]]
        /\ queue'[w] \in Nat /\ queue'[w] + Stolen(w) <= Capacity
    <2>1. CASE got = 0 /\ UNCHANGED <<queue, global>>
      BY <2>1, <1>1 DEF Rings
    <2>2. CASE got # 0 /\ global' = global - got
                       /\ queue' = [queue EXCEPT ![w] = @ + got - 1]
      <3> HIDE DEF got
      <3>1. queue'[w] = queue[w] + got - 1
        BY <2>2 DEF Rings
      <3>2. queue' = [queue EXCEPT ![w] = queue'[w]]
        BY <2>2, <3>1
      <3>3. queue'[w] \in Nat /\ queue'[w] + Stolen(w) <= Capacity
        BY <2>2, <3>1, <1>1, <1>2, Halves
      <3>4. global' \in Nat
        BY <2>2, <1>1, <1>2
      <3> QED  BY <3>2, <3>3, <3>4
    <2> QED  BY <2>1, <2>2 DEF Fetch
  <1>4. /\ \A b \in Actors \ {w} : pc'[b] = pc[b]
        /\ pc'[w] \notin {"steal", "fetch"} /\ UNCHANGED <<lifo, thief>>
        /\ n' = [n EXCEPT ![w] = 0]
    BY <1>0 DEF Fetch, Goto
  <1>5. \A v \in Workers : thief[v] # Nobody => thief[v] \in Actors /\ thief[v] # w
    BY <1>0 DEF Rings, Actors
  <1>6. \A v \in Workers : Stolen(v)' = Stolen(v)
    BY <1>4, <1>5 DEF Stolen, Rings
  <1>7. \A v \in Workers : pc'[v] \in {"steal", "fetch"} => v # w /\ pc'[v] = pc[v]
    BY <1>4 DEF Actors
  <1>8. n' \in [Workers -> 0 .. Capacity] /\ queue' \in [Workers -> Nat]
    BY <1>3, <1>4, Halves DEF Rings
  <1>9. \A v \in Workers \ {w} : n'[v] = n[v] /\ queue'[v] = queue[v]
    BY <1>3, <1>4 DEF Rings
  <1> QED  BY <1>3, <1>4, <1>5, <1>6, <1>7, <1>8, <1>9 DEF Rings

LEMMA NextTaskRings ==
  ASSUME Rings, NEW w \in Workers, NextTask(w), pc \in [Actors -> Labels]
  PROVE  Rings'
  <1>0. w \in Actors /\ pc[w] = "next"
    BY DEF Actors, NextTask
  <1>1. \A v \in Workers : thief[v] # Nobody => thief[v] \in Actors /\ thief[v] # w
    BY <1>0 DEF Rings, Actors
  <1>2. CASE TakeRemote(w) /\ UNCHANGED n
    <2>1. Elsewhere(w)
      BY <1>0, <1>2 DEF TakeRemote, Goto, Elsewhere, Rings
    <2>2. queue' = queue /\ global' \in Nat
      BY <1>2 DEF TakeRemote, Rings
    <2> QED  BY <1>0, <2>1, <2>2, RingsRest
  <1>3. CASE TakeLocal(w) /\ UNCHANGED n
    <2>1. Elsewhere(w) /\ global' = global
      BY <1>0, <1>3 DEF TakeLocal, Goto, Elsewhere, Rings
    <2>2. CASE lifo[w]
      <3>1. queue' = queue
        BY <2>2, <1>3 DEF TakeLocal
      <3> QED  BY <1>0, <2>1, <3>1, RingsRest DEF Rings
    <2>3. CASE ~lifo[w]
      <3>1. queue[w] > 0 /\ queue' = [queue EXCEPT ![w] = @ - 1]
        BY <2>3, <1>3 DEF TakeLocal, HasTask
      <3>2. queue' \in [Workers -> Nat] /\ \A v \in Workers : queue'[v] <= queue[v]
        BY <3>1 DEF Rings
      <3>3. \A v \in Workers : Stolen(v)' = Stolen(v) /\ Stolen(v) \in Nat
        BY <2>1, StolenFits DEF Stolen, Elsewhere
      <3>4. \A v \in Workers : pc'[v] \in {"steal", "fetch"} => v # w /\ pc'[v] = pc[v]
        BY <2>1 DEF Elsewhere, Actors
      <3>5. \A v \in Workers : queue'[v] \in Nat /\ queue[v] \in Nat /\ n[v] \in Nat
        BY <3>2 DEF Rings
      <3>6. n' = n /\ thief' = thief /\ lifo' \in [Workers -> BOOLEAN]
        BY <2>1 DEF Elsewhere
      <3>7. \A v \in Workers : thief[v] # Nobody => pc'[thief[v]] = "steal"
        BY <1>1, <2>1 DEF Elsewhere, Rings
      <3>8. \A v \in Workers : queue'[v] + Stolen(v)' <= Capacity
        BY <3>2, <3>3, <3>5, Halves DEF Rings
      <3>9. \A v \in Workers : pc'[v] = "steal" =>
               n'[v] \in 1 .. Half /\ queue'[v] + Stolen(v)' <= Half
        BY <3>2, <3>3, <3>4, <3>5, <3>6, Halves DEF Rings
      <3>10. \A v \in Workers : pc'[v] = "fetch" =>
               n'[v] >= 1 /\ n'[v] + queue'[v] + Stolen(v)' <= Capacity
        BY <3>2, <3>3, <3>4, <3>5, <3>6, Halves DEF Rings
      <3> QED  BY <2>1, <3>2, <3>6, <3>7, <3>8, <3>9, <3>10 DEF Rings
    <2> QED  BY <2>2, <2>3
  <1>4. CASE /\ ~HasTask(w) /\ global > 0 /\ Fetchable(w) > 0
             /\ n' = [n EXCEPT ![w] = Smaller(global \div N + 1, Fetchable(w))]
             /\ Goto(w, "fetch") /\ UNCHANGED queues
    <2>1. N \in Nat /\ N > 0
      BY ActorsDistinct, FS_CardinalityType, FS_EmptySet DEF N
    <2>2. global \div N \in Nat
      BY <2>1 DEF Rings
    <2>3. Fetchable(w) \in Nat /\ Fetchable(w) > 0
            /\ Fetchable(w) + queue[w] + Stolen(w) <= Capacity
      BY <1>4, Halves, StolenFits DEF Fetchable, Smaller, Room, Rings, Half
    <2>4. n'[w] \in Nat /\ n'[w] >= 1 /\ n'[w] <= Fetchable(w)
      BY <1>4, <2>2, <2>3 DEF Smaller, Rings
    <2>5. n' = [n EXCEPT ![w] = n'[w]] /\ UNCHANGED <<lifo, queue, thief, global>>
      BY <1>4 DEF Rings, queues
    <2>6. n' \in [Workers -> 0 .. Capacity] /\ \A v \in Workers \ {w} : n'[v] = n[v]
      <3>1. n'[w] \in 0 .. Capacity
        BY <2>3, <2>4, Halves, StolenFits DEF Rings
      <3> QED  BY <3>1, <2>5 DEF Rings
    <2>7. \A v \in Workers : Stolen(v)' = Stolen(v) /\ Stolen(v) \in Nat
      BY <1>1, <2>5, <2>6, StolenFits DEF Stolen, Rings
    <2>8. \A b \in Actors \ {w} : pc'[b] = pc[b]
      BY <1>4 DEF Goto
    <2>9. pc'[w] = "fetch"
      BY <1>0, <1>4 DEF Goto
    <2>10. \A v \in Workers : v # w => pc'[v] = pc[v]
      BY <2>8 DEF Actors
    <2>11. \A v \in Workers : thief[v] # Nobody => pc'[thief[v]] = "steal"
      BY <1>1, <2>8 DEF Rings
    <2>12. n'[w] + queue[w] + Stolen(w) <= Capacity
      BY <2>3, <2>4, <2>7, Halves DEF Rings
    <2> QED  BY <2>4, <2>5, <2>6, <2>7, <2>9, <2>10, <2>11, <2>12 DEF Rings
  <1>5. CASE ~HasTask(w) /\ global = 0 /\ Goto(w, "search") /\ UNCHANGED <<queues, n>>
    <2>1. Elsewhere(w) /\ queue' = queue /\ global' = global
      BY <1>0, <1>5 DEF queues, Goto, Elsewhere, Rings
    <2> QED  BY <1>0, <2>1, RingsRest DEF Rings
  <1> QED  BY <1>2, <1>3, <1>4, <1>5 DEF NextTask

LEMMA StealRings ==
  ASSUME Rings, NEW w \in Workers, NEW v \in Workers, Steal(w, v), pc \in [Actors -> Labels]
  PROVE  Rings'
  <1> DEFINE k == Stealable(w, v)
  <1>0. w \in Actors /\ pc[w] = "scan" /\ w # Nobody
    BY ActorsDistinct DEF Actors, Steal
  <1>1. CASE k = 0 /\ UNCHANGED <<queue, thief, n, pc>>
    <2>1. UNCHANGED <<lifo, queue, thief, n, pc, global>>
      BY <1>1 DEF Steal
    <2>2. \A u \in Workers : Stolen(u)' = Stolen(u)
      BY <2>1 DEF Stolen
    <2> QED  BY <2>1, <2>2 DEF Rings
  <1>2. CASE /\ k # 0
             /\ queue' = [queue EXCEPT ![v] = @ - k]
             /\ thief' = [thief EXCEPT ![v] = w]
             /\ n' = [n EXCEPT ![w] = k]
             /\ Goto(w, "steal")
    <2>1. \A u \in Workers : thief[u] # w /\ (thief[u] # Nobody => thief[u] \in Actors)
      BY <1>0 DEF Rings, Actors
    <2>2. thief[v] = Nobody /\ k = queue[v] - queue[v] \div 2
      BY <1>2 DEF Stealable
    <2>3. 2 * (Capacity - Room(w)) <= Capacity
      BY <1>2, Halves, StolenFits DEF Stealable, Room, Rings
    <2>4. /\ queue[v] \in Nat /\ queue[v] <= Capacity
          /\ queue[w] \in Nat /\ queue[w] + Stolen(w) <= Half /\ Stolen(w) \in Nat
      BY <2>2, <2>3, Halves, StolenFits DEF Room, Rings, Stolen
    <2>5. k \in 1 .. Half /\ k <= queue[v]
      BY <1>2, <2>2, <2>4, Halves
    <2> HIDE DEF k
    <2>6. /\ queue' \in [Workers -> Nat] /\ n' \in [Workers -> 0 .. Capacity]
          /\ thief' \in [Workers -> Workers \cup {Nobody}]
      BY <1>2, <2>4, <2>5, Halves DEF Rings
    <2>7. \A u \in Workers : u # v => queue'[u] + Stolen(u)' = queue[u] + Stolen(u)
      BY <1>2, <2>1 DEF Stolen, Rings
    <2>8. queue'[v] = queue[v] - k /\ Stolen(v)' = k /\ Stolen(v) = 0
      BY <1>0, <1>2, <2>2 DEF Stolen, Rings
    <2>9. queue'[v] + Stolen(v)' = queue[v] + Stolen(v)
      BY <2>4, <2>5, <2>8
    <2>10. \A u \in Workers : queue'[u] + Stolen(u)' = queue[u] + Stolen(u)
      BY <2>7, <2>9
    <2>11. n'[w] = k /\ \A u \in Workers : u # w => n'[u] = n[u]
      BY <1>2 DEF Rings
    <2>12. pc'[w] = "steal" /\ \A b \in Actors : b # w => pc'[b] = pc[b]
      BY <1>0, <1>2 DEF Goto
    <2>13. \A u \in Workers : thief'[u] # Nobody => pc'[thief'[u]] = "steal"
      BY <1>2, <2>1, <2>12 DEF Rings
    <2>14. \A u \in Workers : u # w => pc'[u] = pc[u]
      BY <2>12 DEF Actors
    <2>15. UNCHANGED <<lifo, global>>
      BY DEF Steal
    <2>16. \A u \in Workers : queue'[u] + Stolen(u)' <= Capacity
      BY <2>10 DEF Rings
    <2>17. \A u \in Workers : pc'[u] = "steal" =>
             n'[u] \in 1 .. Half /\ queue'[u] + Stolen(u)' <= Half
      BY <2>4, <2>5, <2>10, <2>11, <2>14 DEF Rings
    <2>18. \A u \in Workers : pc'[u] = "fetch" => n'[u] >= 1
      BY <2>11, <2>12, <2>14 DEF Rings
    <2>19. \A u \in Workers : pc'[u] = "fetch" => n'[u] + queue'[u] + Stolen(u)' <= Capacity
      <3> SUFFICES ASSUME NEW u \in Workers, pc'[u] = "fetch"
                   PROVE  n'[u] + queue'[u] + Stolen(u)' <= Capacity
        OBVIOUS
      <3>1. n'[u] = n[u] /\ n[u] + queue[u] + Stolen(u) <= Capacity
        BY <2>11, <2>12, <2>14 DEF Rings
      <3>2. n[u] \in Nat /\ queue[u] \in Nat /\ Stolen(u) \in Nat /\ queue'[u] \in Nat
        BY StolenFits, Halves, <2>6 DEF Rings
      <3>3. Stolen(u)' \in Nat
        BY <2>6 DEF Stolen
      <3> QED  BY <3>1, <3>2, <3>3, <2>10, Halves
    <2> QED  BY <2>6, <2>13, <2>15, <2>16, <2>17, <2>18, <2>19 DEF Rings
  <1> QED  BY <1>1, <1>2 DEF Steal

LEMMA StealDoneRings ==
  ASSUME Rings, NEW w \in Workers, StealDone(w), pc \in [Actors -> Labels]
  PROVE  Rings'
  <1> USE DEF StealDone
  <1>0. w \in Actors /\ pc[w] = "steal" /\ w # Nobody
    BY ActorsDistinct DEF Actors
  <1>1. /\ n[w] \in 1 .. Half /\ queue[w] + Stolen(w) <= Half
        /\ queue[w] \in Nat /\ Stolen(w) \in Nat
    BY <1>0, StolenFits, Halves DEF Rings
  <1>2. queue'[w] = queue[w] + n[w] - 1 /\ \A u \in Workers : u # w => queue'[u] = queue[u]
    BY DEF Rings
  <1>3. queue' \in [Workers -> Nat]
    <2>1. queue[w] + n[w] - 1 \in Nat
      BY <1>1, Halves
    <2> QED  BY <2>1 DEF Rings
  <1>4. n' \in [Workers -> 0 .. Capacity] /\ n'[w] = 0
          /\ \A u \in Workers : u # w => n'[u] = n[u]
    BY Halves DEF Rings
  <1>5. /\ thief' \in [Workers -> Workers \cup {Nobody}]
        /\ \A u \in Workers : thief'[u] # w /\ (thief'[u] # Nobody => thief'[u] = thief[u])
    BY <1>0 DEF Rings
  <1>6. \A u \in Workers : Stolen(u)' \in Nat /\ Stolen(u) \in Nat /\ Stolen(u)' <= Stolen(u)
    <2> SUFFICES ASSUME NEW u \in Workers
                 PROVE  Stolen(u)' \in Nat /\ Stolen(u) \in Nat /\ Stolen(u)' <= Stolen(u)
      OBVIOUS
    <2>1. Stolen(u) \in Nat
      BY StolenFits, Halves
    <2>2. CASE thief'[u] = Nobody
      BY <2>1, <2>2 DEF Stolen
    <2>3. CASE thief'[u] # Nobody
      <3>1. thief'[u] \in Workers /\ thief'[u] # w /\ thief'[u] = thief[u]
        BY <2>3, <1>5
      <3>2. n'[thief'[u]] = n[thief[u]]
        BY <3>1, <1>4
      <3>3. Stolen(u)' = Stolen(u)
        BY <3>1, <3>2, <2>3 DEF Stolen
      <3> QED  BY <3>3, <2>1
    <2> QED  BY <2>2, <2>3
  <1>7. pc'[w] = "start" /\ \A b \in Actors : b # w => pc'[b] = pc[b]
    BY <1>0 DEF Goto
  <1>8. \A u \in Workers : u # w => pc'[u] = pc[u]
    BY <1>7 DEF Actors
  <1>9. \A u \in Workers : thief'[u] # Nobody => pc'[thief'[u]] = "steal"
    BY <1>5, <1>8 DEF Rings
  <1>10. \A u \in Workers : queue'[u] + Stolen(u)' <= Capacity
    <2> SUFFICES ASSUME NEW u \in Workers
                 PROVE  queue'[u] + Stolen(u)' <= Capacity
      OBVIOUS
    <2>1. CASE u = w
      BY <2>1, <1>1, <1>2, <1>6, Halves
    <2>2. CASE u # w
      BY <2>2, <1>2, <1>6, Halves DEF Rings
    <2> QED  BY <2>1, <2>2
  <1>11. \A u \in Workers : pc'[u] = "steal" =>
           n'[u] \in 1 .. Half /\ queue'[u] + Stolen(u)' <= Half
    <2> SUFFICES ASSUME NEW u \in Workers, pc'[u] = "steal"
                 PROVE  n'[u] \in 1 .. Half /\ queue'[u] + Stolen(u)' <= Half
      OBVIOUS
    <2>1. u # w /\ pc[u] = "steal"
      BY <1>7, <1>8
    <2>2. n[u] \in 1 .. Half /\ queue[u] + Stolen(u) <= Half /\ queue[u] \in Nat
      BY <2>1 DEF Rings
    <2> QED  BY <2>1, <2>2, <1>2, <1>4, <1>6, Halves
  <1>12. \A u \in Workers : pc'[u] = "fetch" =>
           n'[u] >= 1 /\ n'[u] + queue'[u] + Stolen(u)' <= Capacity
    <2> SUFFICES ASSUME NEW u \in Workers, pc'[u] = "fetch"
                 PROVE  n'[u] >= 1 /\ n'[u] + queue'[u] + Stolen(u)' <= Capacity
      OBVIOUS
    <2>1. u # w /\ pc[u] = "fetch"
      BY <1>7, <1>8
    <2>2. /\ n[u] >= 1 /\ n[u] + queue[u] + Stolen(u) <= Capacity
          /\ queue[u] \in Nat /\ n[u] \in Nat
      BY <2>1 DEF Rings
    <2> QED  BY <2>1, <2>2, <1>2, <1>4, <1>6, Halves
  <1>13. UNCHANGED <<lifo, global>>
    OBVIOUS
  <1> HIDE DEF StealDone
  <1> QED  BY <1>3, <1>4, <1>5, <1>9, <1>10, <1>11, <1>12, <1>13 DEF Rings

LEMMA NotifyRings ==
  ASSUME Rings, NEW a \in Actors, Notify(a), pc \in [Actors -> Labels],
         after \in [Actors -> Returns]
  PROVE  Rings'
  <1>1. Elsewhere(a)
    BY DEF Notify, NotifyLook, NotifyRecheck, NotifyCommit, Signal, Return, Goto, queues,
           Elsewhere, Returns, Rings
  <1>2. queue' = queue /\ global' = global
    BY DEF Notify, NotifyLook, NotifyRecheck, NotifyCommit, Signal, queues
  <1> QED  BY <1>1, <1>2, RingsRest DEF Rings

LEMMA WorkerRings ==
  ASSUME Rings, Phases, NEW w \in Workers, WorkerStep(w) \/ WaitForEvents(w),
         io \in [Workers -> Nat]
  PROVE  Rings'
  <1> w \in Actors /\ lifo \in [Workers -> BOOLEAN] /\ global \in Nat /\ io[w] \in Nat
    BY DEF Actors, Rings
  <1> USE Frame DEF Goto, Elsewhere
  <1>1. CASE Notify(w)
    BY <1>1, NotifyRings
  <1>2. CASE Tick(w)
    <2>1. Elsewhere(w) /\ queue' = queue /\ global' = global
      BY <1>2 DEF Tick, queues, locals
    <2> QED  BY <2>1, RingsRest
  <1>3. CASE Maintain(w)
    <2>1. Elsewhere(w) /\ queue' = queue /\ global' = global
      BY <1>3 DEF Maintain, queues, locals
    <2> QED  BY <2>1, RingsRest
  <1>4. CASE Poll(w)
    <2>1. PICK k \in 0 .. io[w] : PushTasks(w, k)
      BY <1>4 DEF Poll
    <2>2. Elsewhere(w)
      BY <1>4 DEF Poll, WakeUpOneThen
    <2> QED  BY <2>1, <2>2, RingsPush
  <1>5. CASE NextTask(w)
    BY <1>5, NextTaskRings
  <1>6. CASE Fetch(w)
    BY <1>6, FetchRings
  <1>7. CASE ToSearching(w)
    <2>1. Elsewhere(w) /\ queue' = queue /\ global' = global
      BY <1>7 DEF ToSearching, queues
    <2> QED  BY <2>1, RingsRest
  <1>8. CASE JoinSearch(w)
    <2>1. Elsewhere(w) /\ queue' = queue /\ global' = global
      BY <1>8 DEF JoinSearch, queues
    <2> QED  BY <2>1, RingsRest
  <1>9. CASE LastLook(w)
    <2>1. Elsewhere(w) /\ queue' = queue /\ global' \in Nat
      BY <1>9 DEF LastLook, TakeRemote, queues, locals
    <2> QED  BY <2>1, RingsRest
  <1>10. CASE StealDone(w)
    BY <1>10, StealDoneRings
  <1>11. CASE Sleep(w)
    <2>1. Elsewhere(w) /\ queue' = queue /\ global' = global
      BY <1>11 DEF Sleep, queues, locals
    <2> QED  BY <2>1, RingsRest
  <1>12. CASE Park(w)
    <2>1. Elsewhere(w) /\ queue' = queue /\ global' = global
      BY <1>12 DEF Park, queues
    <2> QED  BY <2>1, RingsRest
  <1>13. CASE LookAtGlobal(w)
    <2>1. Elsewhere(w) /\ queue' = queue /\ global' = global
      BY <1>13 DEF LookAtGlobal, WakeUpOneThen, queues
    <2> QED  BY <2>1, RingsRest
  <1>14. CASE Shutdown(w)
    <2>1. Elsewhere(w) /\ queue' = queue /\ global' = global
      BY <1>14 DEF Shutdown, queues, locals
    <2> QED  BY <2>1, RingsRest
  <1>15. CASE Woken(w)
    <2>1. Elsewhere(w) /\ queue' = queue /\ global' = global
      BY <1>15 DEF Woken, queues, locals
    <2> QED  BY <2>1, RingsRest
  <1>16. CASE Remove(w)
    <2>1. Elsewhere(w) /\ queue' = queue /\ global' = global
      BY <1>16 DEF Remove, queues, locals
    <2> QED  BY <2>1, RingsRest
  <1>17. CASE Contains(w)
    <2>1. Elsewhere(w) /\ queue' = queue /\ global' = global
      BY <1>17 DEF Contains, queues, locals
    <2> QED  BY <2>1, RingsRest
  <1>18. CASE Start(w)
    <2>1. Elsewhere(w) /\ queue' = queue /\ global' = global
      BY <1>18 DEF Start, WakeUpOneThen, queues
    <2> QED  BY <2>1, RingsRest
  <1>19. CASE Spawn(w)
    <2>1. Elsewhere(w)
      BY <1>19 DEF Spawn, WakeUpOneThen
    <2>2. CASE lifo[w]
      BY <1>19, <2>1, <2>2, RingsPush DEF Spawn
    <2>3. CASE ~lifo[w]
      BY <1>19, <2>1, <2>3, RingsRest DEF Spawn
    <2> QED  BY <2>2, <2>3
  <1>20. CASE StartIo(w)
    <2>1. Elsewhere(w) /\ queue' = queue /\ global' = global
      BY <1>20 DEF StartIo, queues, locals
    <2> QED  BY <2>1, RingsRest
  <1>21. CASE Finish(w)
    <2>1. Elsewhere(w) /\ queue' = queue /\ global' = global
      BY <1>21 DEF Finish, queues, locals
    <2> QED  BY <2>1, RingsRest
  <1>22. CASE Close(w)
    <2>1. Elsewhere(w) /\ queue' = queue /\ global' = global
      BY <1>22 DEF Close, queues
    <2> QED  BY <2>1, RingsRest
  <1>23. CASE WakeUpAll(w)
    <2>1. Elsewhere(w) /\ queue' = queue /\ global' = global
      BY <1>23 DEF WakeUpAll, queues
    <2> QED  BY <2>1, RingsRest
  <1>24. CASE Destroy(w)
    <2>1. Elsewhere(w) /\ queue' = queue /\ global' = global
      BY <1>24 DEF Destroy, queues, locals
    <2> QED  BY <2>1, RingsRest
  <1>25. CASE \E v \in Workers : Steal(w, v)
    BY <1>25, StealRings
  <1>26. CASE \E v \in Workers : LookAtQueue(w, v)
    <2>1. Elsewhere(w) /\ queue' = queue /\ global' = global
      BY <1>26 DEF LookAtQueue, queues
    <2> QED  BY <2>1, RingsRest
  <1>27. CASE WaitForWaker(w) \/ WaitForEvents(w)
    <2>1. WaitReturns(w)
      BY <1>27 DEF WaitForWaker, WaitForEvents
    <2>2. PICK k \in 0 .. io[w] : PushTasks(w, k)
      BY <2>1 DEF WaitReturns
    <2>3. Elsewhere(w)
      BY <2>1 DEF WaitReturns, locals
    <2> QED  BY <2>2, <2>3, RingsPush
  <1> QED
    BY <1>1, <1>2, <1>3, <1>4, <1>5, <1>6, <1>7, <1>8, <1>9, <1>10,
       <1>11, <1>12, <1>13, <1>14, <1>15, <1>16, <1>17, <1>18, <1>19, <1>20,
       <1>21, <1>22, <1>23, <1>24, <1>25, <1>26, <1>27 DEF WorkerStep

-----------------------------------------------------------------------------
(* Where a worker has found its own queue empty and pushes nothing.        *)
Idles(w) ==
  \/ pc[w] \in {"fetch", "search", "join", "scan", "poll", "sleep", "park", "pending",
                "wait", "contains"}
  \/ pc[w] \in NotifyLabels /\ after[w] = "wait"

Emptied == \A w \in Workers : Idles(w) => ~HasTask(w)

(* Actor a gives no other worker a task, and has none itself if it idles.  *)
KeepsEmpty(a) ==
  /\ \A b \in Actors \ {a} : pc'[b] = pc[b] /\ after'[b] = after[b]
  /\ \A v \in Workers \ {a} : HasTask(v)' => HasTask(v)
  /\ a \in Workers /\ Idles(a)' => ~HasTask(a)'

LEMMA EmptiedStays ==
  ASSUME Emptied, NEW a \in Actors, KeepsEmpty(a)
  PROVE  Emptied'
  BY DEF KeepsEmpty, Emptied, Idles, Actors

LEMMA StealTakes ==
  ASSUME Rings, NEW w \in Workers, NEW v \in Workers, Steal(w, v)
  PROVE  queue' \in [Workers -> Int] /\ \A u \in Workers : queue'[u] <= queue[u]
  <1>1. CASE queue' = queue
    BY <1>1 DEF Rings
  <1>2. CASE queue' = [queue EXCEPT ![v] = @ - Stealable(w, v)]
    <2>1. Stealable(w, v) \in Nat
      BY DEF Stealable, Rings
    <2> QED  BY <1>2, <2>1 DEF Rings
  <1> QED  BY <1>1, <1>2 DEF Steal

LEMMA NotifyEmptied ==
  ASSUME Emptied, Phases, NEW a \in Actors, Notify(a)
  PROVE  Emptied'
  <1>1. KeepsEmpty(a)
    BY Frame DEF Notify, NotifyLook, NotifyRecheck, NotifyCommit, Signal, Return, Goto, queues,
                 KeepsEmpty, Emptied, Idles, HasTask, NotifyLabels, Returns
  <1> QED  BY <1>1, EmptiedStays

LEMMA WorkerEmptied ==
  ASSUME Emptied, Rings, Phases, NEW w \in Workers, WorkerStep(w) \/ WaitForEvents(w),
         io \in [Workers -> Nat]
  PROVE  Emptied'
  <1> w \in Actors /\ lifo \in [Workers -> BOOLEAN] /\ queue \in [Workers -> Nat]
        /\ io[w] \in Nat
    BY DEF Actors, Rings
  <1> USE Frame, EmptiedStays DEF Goto, KeepsEmpty, Emptied, Idles, NotifyLabels
  <1>1. CASE Notify(w)
    BY <1>1, NotifyEmptied
  <1>2. CASE Tick(w)
    <2>1. KeepsEmpty(w)
      BY <1>2 DEF Tick, queues, locals, HasTask
    <2> QED  BY <2>1
  <1>3. CASE Maintain(w)
    <2>1. KeepsEmpty(w)
      BY <1>3 DEF Maintain, queues, locals, HasTask
    <2> QED  BY <2>1
  <1>4. CASE Poll(w)
    <2>1. PICK k \in 0 .. io[w] : PushTasks(w, k)
            /\ (pc'[w] = "sleep" => pc[w] = "poll" /\ k = 0)
      BY <1>4 DEF Poll, WakeUpOneThen
    <2>2. \A v \in Workers \ {w} : queue'[v] = queue[v]
      BY <2>1, PushFits
    <2>3. k = 0 => queue' = queue
      BY <2>1, PushFits
    <2>4. KeepsEmpty(w)
      BY <1>4, <2>1, <2>2, <2>3 DEF Poll, WakeUpOneThen, HasTask
    <2> QED  BY <2>4
  <1>5. CASE NextTask(w)
    <2>1. KeepsEmpty(w)
      BY <1>5 DEF NextTask, TakeRemote, TakeLocal, HasTask, queues
    <2> QED  BY <2>1
  <1>6. CASE Fetch(w)
    <2>1. KeepsEmpty(w)
      BY <1>6 DEF Fetch, HasTask
    <2> QED  BY <2>1
  <1>7. CASE ToSearching(w)
    <2>1. KeepsEmpty(w)
      BY <1>7 DEF ToSearching, queues, HasTask
    <2> QED  BY <2>1
  <1>8. CASE JoinSearch(w)
    <2>1. KeepsEmpty(w)
      BY <1>8 DEF JoinSearch, queues, HasTask
    <2> QED  BY <2>1
  <1>9. CASE LastLook(w)
    <2>1. KeepsEmpty(w)
      BY <1>9 DEF LastLook, TakeRemote, queues, locals, HasTask
    <2> QED  BY <2>1
  <1>10. CASE StealDone(w)
    <2>1. KeepsEmpty(w)
      BY <1>10 DEF StealDone, HasTask
    <2> QED  BY <2>1
  <1>11. CASE Sleep(w)
    <2>1. KeepsEmpty(w)
      BY <1>11 DEF Sleep, queues, locals, HasTask
    <2> QED  BY <2>1
  <1>12. CASE Park(w)
    <2>1. KeepsEmpty(w)
      BY <1>12 DEF Park, queues, HasTask
    <2> QED  BY <2>1
  <1>13. CASE LookAtGlobal(w)
    <2>1. KeepsEmpty(w)
      BY <1>13 DEF LookAtGlobal, WakeUpOneThen, queues, HasTask
    <2> QED  BY <2>1
  <1>14. CASE Shutdown(w)
    <2>1. KeepsEmpty(w)
      BY <1>14 DEF Shutdown, queues, locals, HasTask
    <2> QED  BY <2>1
  <1>15. CASE Woken(w)
    <2>1. KeepsEmpty(w)
      BY <1>15 DEF Woken, queues, locals, HasTask
    <2> QED  BY <2>1
  <1>16. CASE Remove(w)
    <2>1. KeepsEmpty(w)
      BY <1>16 DEF Remove, queues, locals, HasTask
    <2> QED  BY <2>1
  <1>17. CASE Contains(w)
    <2>1. KeepsEmpty(w)
      BY <1>17 DEF Contains, queues, locals, HasTask
    <2> QED  BY <2>1
  <1>18. CASE Start(w)
    <2>1. KeepsEmpty(w)
      BY <1>18 DEF Start, WakeUpOneThen, queues, HasTask
    <2> QED  BY <2>1
  <1>19. CASE Spawn(w)
    <2>1. \A v \in Workers \ {w} : queue'[v] = queue[v]
      BY <1>19, PushFits DEF Spawn
    <2>2. KeepsEmpty(w)
      BY <1>19, <2>1 DEF Spawn, WakeUpOneThen, HasTask
    <2> QED  BY <2>2
  <1>20. CASE StartIo(w)
    <2>1. KeepsEmpty(w)
      BY <1>20 DEF StartIo, queues, locals, HasTask
    <2> QED  BY <2>1
  <1>21. CASE Finish(w)
    <2>1. KeepsEmpty(w)
      BY <1>21 DEF Finish, queues, locals, HasTask
    <2> QED  BY <2>1
  <1>22. CASE Close(w)
    <2>1. KeepsEmpty(w)
      BY <1>22 DEF Close, queues, HasTask
    <2> QED  BY <2>1
  <1>23. CASE WakeUpAll(w)
    <2>1. KeepsEmpty(w)
      BY <1>23 DEF WakeUpAll, queues, HasTask
    <2> QED  BY <2>1
  <1>24. CASE Destroy(w)
    <2>1. KeepsEmpty(w)
      BY <1>24 DEF Destroy, queues, locals, HasTask
    <2> QED  BY <2>1
  <1>25. CASE \E v \in Workers : Steal(w, v)
    <2>1. PICK v \in Workers : Steal(w, v)
      BY <1>25
    <2>2. queue' \in [Workers -> Int] /\ \A u \in Workers : queue'[u] <= queue[u]
      BY <2>1, StealTakes
    <2>3. \A u \in Workers : queue'[u] > 0 => queue[u] > 0
      BY <2>2
    <2>4. \A u \in Workers : HasTask(u)' => HasTask(u)
      BY <2>1, <2>3 DEF Steal, HasTask
    <2>5. KeepsEmpty(w)
      BY <2>1, <2>4 DEF Steal
    <2> QED  BY <2>5
  <1>26. CASE \E v \in Workers : LookAtQueue(w, v)
    <2>1. KeepsEmpty(w)
      BY <1>26 DEF LookAtQueue, queues, HasTask
    <2> QED  BY <2>1
  <1>27. CASE WaitForWaker(w) \/ WaitForEvents(w)
    <2>1. WaitReturns(w)
      BY <1>27 DEF WaitForWaker, WaitForEvents
    <2>2. \A v \in Workers \ {w} : queue'[v] = queue[v]
      BY <2>1, PushFits DEF WaitReturns
    <2>3. KeepsEmpty(w)
      BY <2>1, <2>2 DEF WaitReturns, locals, HasTask
    <2> QED  BY <2>3
  <1> QED
    BY <1>1, <1>2, <1>3, <1>4, <1>5, <1>6, <1>7, <1>8, <1>9, <1>10,
       <1>11, <1>12, <1>13, <1>14, <1>15, <1>16, <1>17, <1>18, <1>19, <1>20,
       <1>21, <1>22, <1>23, <1>24, <1>25, <1>26, <1>27 DEF WorkerStep

-----------------------------------------------------------------------------
(* Where a worker no longer looks whether the runtime was closed before it *)
(* waits.                                                                  *)
Settled(w) ==
  \/ pc[w] \in {"park", "pending", "wait", "contains"}
  \/ pc[w] \in NotifyLabels /\ after[w] = "wait"

(* It knows, will find its eventfd written, or is still on the list of the *)
(* one who closes.                                                         *)
Heard(w) == down[w] \/ wake[w] \/ \E v \in Workers : pc[v] = "close" /\ w \in left[v]

Told ==
  /\ left \in [Actors -> SUBSET Workers]
  /\ closed => \A w \in Workers : Settled(w) => Heard(w)

KeepsTold(a) ==
  /\ pc[a] # "close"
  /\ \A b \in Actors \ {a} : pc'[b] = pc[b] /\ after'[b] = after[b] /\ left'[b] = left[b]
  /\ left' \in [Actors -> SUBSET Workers]
  /\ closed' = closed
  /\ \A v \in Workers : (down[v] => down'[v]) /\ (wake[v] /\ Settled(v)' => wake'[v])
  /\ a \in Workers /\ Settled(a)' => Settled(a) \/ ~closed \/ down'[a]

LEMMA ToldStays ==
  ASSUME Told, NEW a \in Actors, KeepsTold(a)
  PROVE  Told'
  <1> USE DEF KeepsTold
  <1> SUFFICES ASSUME closed, NEW w \in Workers, Settled(w)'
               PROVE  Heard(w)'
    BY DEF Told
  <1>1. CASE down'[w]
    BY <1>1 DEF Heard
  <1>2. CASE ~down'[w]
    <2>1. Settled(w)
      BY <1>2 DEF Settled, Actors
    <2>2. Heard(w)
      BY <2>1 DEF Told
    <2> QED  BY <1>2, <2>2 DEF Heard, Actors
  <1> QED  BY <1>1, <1>2

LEMMA NotifyTold ==
  ASSUME Told, Phases, Chosen, NEW a \in Actors, Notify(a)
  PROVE  Told'
  <1> USE Frame
  <1>1. KeepsTold(a)
    BY DEF Notify, NotifyLook, NotifyRecheck, NotifyCommit, Signal, Return, Goto, drivers, idle,
           KeepsTold, Told, Chosen, Settled, NotifyLabels, Returns
  <1> QED  BY <1>1, ToldStays

LEMMA WorkerTold ==
  ASSUME Told, Phases, Chosen, NEW w \in Workers, WorkerStep(w) \/ WaitForEvents(w)
  PROVE  Told'
  <1> USE Frame DEF Goto, Told, Chosen, Settled, NotifyLabels
  <1>1. CASE Notify(w)
    BY <1>1, NotifyTold
  <1>2. CASE Tick(w)
    <2>1. KeepsTold(w)
      BY <1>2 DEF KeepsTold, Tick, drivers, locals
    <2> QED  BY <2>1, ToldStays
  <1>3. CASE Maintain(w)
    <2>1. KeepsTold(w)
      BY <1>3 DEF KeepsTold, Maintain, CheckShutdown, drivers, locals
    <2> QED  BY <2>1, ToldStays
  <1>4. CASE Poll(w)
    <2>1. KeepsTold(w)
      BY <1>4 DEF KeepsTold, Poll, WakeUpOneThen, Returns
    <2> QED  BY <2>1, ToldStays
  <1>5. CASE NextTask(w)
    <2>1. KeepsTold(w)
      BY <1>5 DEF KeepsTold, NextTask, TakeRemote, TakeLocal, drivers
    <2> QED  BY <2>1, ToldStays
  <1>6. CASE Fetch(w)
    <2>1. KeepsTold(w)
      BY <1>6 DEF KeepsTold, Fetch, drivers
    <2> QED  BY <2>1, ToldStays
  <1>7. CASE ToSearching(w)
    <2>1. KeepsTold(w)
      BY <1>7 DEF KeepsTold, ToSearching, drivers
    <2> QED  BY <2>1, ToldStays
  <1>8. CASE JoinSearch(w)
    <2>1. KeepsTold(w)
      BY <1>8 DEF KeepsTold, JoinSearch, drivers
    <2> QED  BY <2>1, ToldStays
  <1>9. CASE LastLook(w)
    <2>1. KeepsTold(w)
      BY <1>9 DEF KeepsTold, LastLook, TakeRemote, drivers, locals
    <2> QED  BY <2>1, ToldStays
  <1>10. CASE StealDone(w)
    <2>1. KeepsTold(w)
      BY <1>10 DEF KeepsTold, StealDone, drivers
    <2> QED  BY <2>1, ToldStays
  <1>11. CASE Sleep(w)
    <2>1. KeepsTold(w)
      BY <1>11 DEF KeepsTold, Sleep, CheckShutdown, drivers, locals
    <2> QED  BY <2>1, ToldStays
  <1>12. CASE Park(w)
    <2>1. KeepsTold(w)
      BY <1>12 DEF KeepsTold, Park, drivers
    <2> QED  BY <2>1, ToldStays
  <1>13. CASE LookAtGlobal(w)
    <2>1. KeepsTold(w)
      BY <1>13 DEF KeepsTold, LookAtGlobal, WakeUpOneThen, drivers
    <2> QED  BY <2>1, ToldStays
  <1>14. CASE Shutdown(w)
    <2>1. KeepsTold(w)
      BY <1>14 DEF KeepsTold, Shutdown, drivers, locals
    <2> QED  BY <2>1, ToldStays
  <1>15. CASE Woken(w)
    <2>1. KeepsTold(w)
      BY <1>15 DEF KeepsTold, Woken, CheckShutdown, drivers, locals
    <2> QED  BY <2>1, ToldStays
  <1>16. CASE Remove(w)
    <2>1. KeepsTold(w)
      BY <1>16 DEF KeepsTold, Remove, drivers, locals
    <2> QED  BY <2>1, ToldStays
  <1>17. CASE Contains(w)
    <2>1. KeepsTold(w)
      BY <1>17 DEF KeepsTold, Contains, drivers, locals
    <2> QED  BY <2>1, ToldStays
  <1>18. CASE Start(w)
    <2>1. KeepsTold(w)
      BY <1>18 DEF KeepsTold, Start, WakeUpOneThen, drivers
    <2> QED  BY <2>1, ToldStays
  <1>19. CASE Spawn(w)
    <2>1. KeepsTold(w)
      BY <1>19 DEF KeepsTold, Spawn, WakeUpOneThen, drivers
    <2> QED  BY <2>1, ToldStays
  <1>20. CASE StartIo(w)
    <2>1. KeepsTold(w)
      BY <1>20 DEF KeepsTold, StartIo, locals
    <2> QED  BY <2>1, ToldStays
  <1>21. CASE Finish(w)
    <2>1. KeepsTold(w)
      BY <1>21 DEF KeepsTold, Finish, drivers, locals
    <2> QED  BY <2>1, ToldStays
  <1>22. CASE Close(w)
    <2>1. pc'[w] = "close" /\ left'[w] = Workers
      BY <1>22 DEF Close
    <2>2. left' \in [Actors -> SUBSET Workers]
      BY <1>22 DEF Close
    <2>3. \A v \in Workers : Heard(v)'
      BY <2>1 DEF Heard
    <2> QED  BY <2>2, <2>3
  <1>23. CASE WakeUpAll(w)
    <2> USE <1>23 DEF WakeUpAll
    <2>1. \A v \in Workers : Settled(v)' => Settled(v)
      OBVIOUS
    <2>2. left' \in [Actors -> SUBSET Workers]
      OBVIOUS
    <2>3. ASSUME NEW v \in Workers, Heard(v)
          PROVE  Heard(v)'
      BY <2>3 DEF Heard
    <2> QED  BY <2>1, <2>2, <2>3
  <1>24. CASE Destroy(w)
    <2>1. KeepsTold(w)
      BY <1>24 DEF KeepsTold, Destroy, drivers, locals
    <2> QED  BY <2>1, ToldStays
  <1>25. CASE \E v \in Workers : Steal(w, v)
    <2>1. KeepsTold(w)
      BY <1>25 DEF KeepsTold, Steal, drivers
    <2> QED  BY <2>1, ToldStays
  <1>26. CASE \E v \in Workers : LookAtQueue(w, v)
    <2>1. KeepsTold(w)
      BY <1>26 DEF KeepsTold, LookAtQueue, drivers
    <2> QED  BY <2>1, ToldStays
  <1>27. CASE WaitForWaker(w) \/ WaitForEvents(w)
    <2>1. KeepsTold(w)
      BY <1>27 DEF KeepsTold, WaitForWaker, WaitForEvents, WaitReturns, locals
    <2> QED  BY <2>1, ToldStays
  <1> QED
    BY <1>1, <1>2, <1>3, <1>4, <1>5, <1>6, <1>7, <1>8, <1>9, <1>10,
       <1>11, <1>12, <1>13, <1>14, <1>15, <1>16, <1>17, <1>18, <1>19, <1>20,
       <1>21, <1>22, <1>23, <1>24, <1>25, <1>26, <1>27 DEF WorkerStep

-----------------------------------------------------------------------------
(* The latch in ~Worker: one worker is gone only when all have left run(). *)
LeftTogether ==
  (\E w \in Workers : pc[w] = "gone") => \A w \in Workers : pc[w] \in {"leaving", "gone"}

(* Workers leave only a closed runtime, return from wake_up_one to where   *)
(* they called it, and whoever is about to write an eventfd has chosen one. *)
Placed ==
  /\ LeftTogether
  /\ \A w \in Workers :
       /\ pc[w] # "outside"
       /\ pc[w] \in {"leaving", "gone"} => closed
       /\ pc[w] \in NotifyLabels => after[w] # "outside"
  /\ \A a \in Actors : pc[a] = "signal" => target[a] \in Workers

KeepsPlace(a) ==
  /\ \A b \in Actors \ {a} : pc'[b] = pc[b] /\ after'[b] = after[b] /\ target'[b] = target[b]
  /\ closed => closed'
  /\ a \in Workers => /\ pc[a] \notin {"leaving", "gone"}
                      /\ pc'[a] \notin {"outside", "gone"}
                      /\ pc'[a] = "leaving" => closed'
                      /\ pc'[a] \in NotifyLabels => after'[a] # "outside"
  /\ pc'[a] = "signal" => target'[a] \in Workers

LEMMA PlaceStays ==
  ASSUME Placed, NEW a \in Actors, KeepsPlace(a)
  PROVE  Placed'
  <1> USE DEF KeepsPlace
  <1>1. LeftTogether'
    <2> SUFFICES ASSUME NEW v \in Workers, pc'[v] = "gone"
                 PROVE  \A w \in Workers : pc'[w] \in {"leaving", "gone"}
      BY DEF LeftTogether
    <2>1. v # a /\ pc[v] = "gone"
      BY DEF Actors
    <2>2. \A w \in Workers : pc[w] \in {"leaving", "gone"}
      BY <2>1 DEF Placed, LeftTogether
    <2>3. a \notin Workers
      BY <2>2
    <2> QED  BY <2>2, <2>3 DEF Actors
  <1>2. \A w \in Workers :
          /\ pc'[w] # "outside"
          /\ pc'[w] \in {"leaving", "gone"} => closed'
          /\ pc'[w] \in NotifyLabels => after'[w] # "outside"
    BY DEF Placed, Actors
  <1>3. \A b \in Actors : pc'[b] = "signal" => target'[b] \in Workers
    BY DEF Placed
  <1> HIDE DEF KeepsPlace
  <1> QED  BY <1>1, <1>2, <1>3 DEF Placed

LEMMA NotifyPlaced ==
  ASSUME Placed, Phases, Chosen, NEW a \in Actors, Notify(a)
  PROVE  Placed'
  <1>1. KeepsPlace(a)
    <2> USE Frame DEF Goto, KeepsPlace, Placed, NotifyLabels, Returns
    <2>1. CASE NotifyLook(a)
      BY <2>1 DEF NotifyLook, Return
    <2>2. CASE NotifyRecheck(a)
      BY <2>2 DEF NotifyRecheck, Return
    <2>3. CASE NotifyCommit(a)
      BY <2>3 DEF NotifyCommit, Chosen, Phases, Typed
    <2>4. CASE Signal(a)
      BY <2>4 DEF Signal, Return
    <2> QED  BY <2>1, <2>2, <2>3, <2>4 DEF Notify
  <1> QED  BY <1>1, PlaceStays

LEMMA WorkerPlaced ==
  ASSUME Placed, Phases, Chosen, NEW w \in Workers, WorkerStep(w) \/ WaitForEvents(w)
  PROVE  Placed'
  <1> USE Frame DEF Goto, KeepsPlace, NotifyLabels, Chosen
  <1>1. CASE Notify(w)
    BY <1>1, NotifyPlaced
  <1>2. CASE Tick(w)
    <2>1. KeepsPlace(w)
      BY <1>2 DEF Tick, locals
    <2> QED  BY <2>1, PlaceStays
  <1>3. CASE Maintain(w)
    <2>1. KeepsPlace(w)
      BY <1>3 DEF Maintain, CheckShutdown, locals
    <2> QED  BY <2>1, PlaceStays
  <1>4. CASE Poll(w)
    <2>1. KeepsPlace(w)
      BY <1>4 DEF Poll, WakeUpOneThen
    <2> QED  BY <2>1, PlaceStays
  <1>5. CASE NextTask(w)
    <2>1. KeepsPlace(w)
      BY <1>5 DEF NextTask, TakeRemote, TakeLocal
    <2> QED  BY <2>1, PlaceStays
  <1>6. CASE Fetch(w)
    <2>1. KeepsPlace(w)
      BY <1>6 DEF Fetch
    <2> QED  BY <2>1, PlaceStays
  <1>7. CASE ToSearching(w)
    <2>1. KeepsPlace(w)
      BY <1>7 DEF ToSearching
    <2> QED  BY <2>1, PlaceStays
  <1>8. CASE JoinSearch(w)
    <2>1. KeepsPlace(w)
      BY <1>8 DEF JoinSearch
    <2> QED  BY <2>1, PlaceStays
  <1>9. CASE LastLook(w)
    <2>1. KeepsPlace(w)
      BY <1>9 DEF LastLook, TakeRemote, locals
    <2> QED  BY <2>1, PlaceStays
  <1>10. CASE StealDone(w)
    <2>1. KeepsPlace(w)
      BY <1>10 DEF StealDone
    <2> QED  BY <2>1, PlaceStays
  <1>11. CASE Sleep(w)
    <2>1. KeepsPlace(w)
      BY <1>11 DEF Sleep, CheckShutdown, locals
    <2> QED  BY <2>1, PlaceStays
  <1>12. CASE Park(w)
    <2>1. KeepsPlace(w)
      BY <1>12 DEF Park
    <2> QED  BY <2>1, PlaceStays
  <1>13. CASE LookAtGlobal(w)
    <2>1. KeepsPlace(w)
      BY <1>13 DEF LookAtGlobal, WakeUpOneThen
    <2> QED  BY <2>1, PlaceStays
  <1>14. CASE Shutdown(w)
    <2>1. KeepsPlace(w)
      BY <1>14 DEF Shutdown, locals
    <2> QED  BY <2>1, PlaceStays
  <1>15. CASE Woken(w)
    <2>1. KeepsPlace(w)
      BY <1>15 DEF Woken, CheckShutdown, locals
    <2> QED  BY <2>1, PlaceStays
  <1>16. CASE Remove(w)
    <2>1. KeepsPlace(w)
      BY <1>16 DEF Remove, locals
    <2> QED  BY <2>1, PlaceStays
  <1>17. CASE Contains(w)
    <2>1. KeepsPlace(w)
      BY <1>17 DEF Contains, locals
    <2> QED  BY <2>1, PlaceStays
  <1>18. CASE Start(w)
    <2>1. KeepsPlace(w)
      BY <1>18 DEF Start, WakeUpOneThen
    <2> QED  BY <2>1, PlaceStays
  <1>19. CASE Spawn(w)
    <2>1. KeepsPlace(w)
      BY <1>19 DEF Spawn, WakeUpOneThen
    <2> QED  BY <2>1, PlaceStays
  <1>20. CASE StartIo(w)
    <2>1. KeepsPlace(w)
      BY <1>20 DEF StartIo, locals
    <2> QED  BY <2>1, PlaceStays
  <1>21. CASE Finish(w)
    <2>1. KeepsPlace(w)
      BY <1>21 DEF Finish, locals
    <2> QED  BY <2>1, PlaceStays
  <1>22. CASE Close(w)
    <2>1. KeepsPlace(w)
      BY <1>22 DEF Close
    <2> QED  BY <2>1, PlaceStays
  <1>23. CASE WakeUpAll(w)
    <2>1. KeepsPlace(w)
      BY <1>23 DEF WakeUpAll
    <2> QED  BY <2>1, PlaceStays
  <1>24. CASE Destroy(w)
    <2> USE <1>24 DEF Destroy, locals, Placed
    <2>1. LeftTogether'
      BY DEF LeftTogether, Actors
    <2>2. \A v \in Workers :
            /\ pc'[v] # "outside"
            /\ pc'[v] \in {"leaving", "gone"} => closed'
            /\ pc'[v] \in NotifyLabels => after'[v] # "outside"
      BY DEF Actors
    <2>3. \A a \in Actors : pc'[a] = "signal" => target'[a] \in Workers
      OBVIOUS
    <2> QED  BY <2>1, <2>2, <2>3
  <1>25. CASE \E v \in Workers : Steal(w, v)
    <2>1. KeepsPlace(w)
      BY <1>25 DEF Steal
    <2> QED  BY <2>1, PlaceStays
  <1>26. CASE \E v \in Workers : LookAtQueue(w, v)
    <2>1. KeepsPlace(w)
      BY <1>26 DEF LookAtQueue
    <2> QED  BY <2>1, PlaceStays
  <1>27. CASE WaitForWaker(w) \/ WaitForEvents(w)
    <2>1. KeepsPlace(w)
      BY <1>27 DEF WaitForWaker, WaitForEvents, WaitReturns, locals
    <2> QED  BY <2>1, PlaceStays
  <1> QED
    BY <1>1, <1>2, <1>3, <1>4, <1>5, <1>6, <1>7, <1>8, <1>9, <1>10,
       <1>11, <1>12, <1>13, <1>14, <1>15, <1>16, <1>17, <1>18, <1>19, <1>20,
       <1>21, <1>22, <1>23, <1>24, <1>25, <1>26, <1>27 DEF WorkerStep

-----------------------------------------------------------------------------
(* A worker that will look at the global queue before it waits, or stops   *)
(* the search for good only after another has begun to.                    *)
Looks(w) ==
  \/ pc[w] \in {"top", "maintenance", "check", "next", "fetch", "search", "join", "steal",
                "start", "run", "close", "pending", "remove"}
  \/ pc[w] \in NotifyLabels /\ after[w] \in {"top", "check", "run"}
  \/ flag[w]
  \/ Parked(w) /\ w \notin sleepers
  \/ pc[w] = "woken" /\ HasTask(w)

Choosing(a) == pc[a] \in {"notify", "recheck", "commit"}

(* Somebody looks; or somebody is listed, and nothing is queued globally   *)
(* or someone is in wake_up_one.                                           *)
Watched ==
  ~closed => \/ \E w \in Workers : Looks(w)
             \/ sleepers # {} /\ (global = 0 \/ \E a \in Actors : Choosing(a))

(* Nobody who looks stops, nor one who chooses, and no task is added.      *)
LEMMA NothingLost ==
  ASSUME Watched, closed => closed', sleepers \subseteq sleepers', global' = global,
         \A w \in Workers : Looks(w) => Looks(w)',
         \A a \in Actors : Choosing(a) => Choosing(a)'
  PROVE  Watched'
  BY DEF Watched

(* Who is counted as searching looks, and those not working are listed.    *)
LEMMA SearchersLook ==
  ASSUME IdleInv, ~closed
  PROVE  /\ searching # 0 => \E s \in Searchers : Looks(s)
         /\ working < N <=> sleepers # {}
  <1>1. searching # 0 => Searchers # {}
    BY FS_EmptySet DEF IdleInv, Counted
  <1>2. \A s \in Searchers : Looks(s)
    BY DEF Searchers, Looks
  <1>3. Cardinality(sleepers) = 0 <=> sleepers = {}
    BY FS_EmptySet, Sizes DEF IdleInv
  <1>4. working < N <=> Cardinality(sleepers) # 0
    BY Sizes DEF IdleInv, Counted
  <1> QED  BY <1>1, <1>2, <1>3, <1>4

(* Whoever returns from wake_up_one without a choice leaves a searcher     *)
(* behind, or finds everybody working; then some other worker looks.       *)
LEMMA ReturnWatched ==
  ASSUME IdleInv, Placed, Watched, NEW a \in Actors, pc[a] \in NotifyLabels, Return(a),
         ~ShouldWakeUp, UNCHANGED <<idle, closed, flag, queues>>
  PROVE  Watched'
  <1> USE DEF Return, Goto, idle, queues
  <1> SUFFICES ASSUME ~closed
               PROVE  \E w \in Workers : Looks(w)'
    BY DEF Watched
  <1>1. PICK w \in Workers : Looks(w)
    <2>1. CASE searching # 0
      BY <2>1, SearchersLook DEF Searchers
    <2>2. CASE searching = 0
      <3>1. sleepers = {}
        BY <2>2, SearchersLook DEF ShouldWakeUp
      <3> QED  BY <3>1 DEF Watched
    <2> QED  BY <2>1, <2>2
  <1>2. Looks(w)'
    BY <1>1, Frame DEF IdleInv, Looks, Parked, HasTask, NotifyLabels, Actors
  <1> QED  BY <1>2

LEMMA NotifyWatched ==
  ASSUME IdleInv, Placed, Watched, NEW a \in Actors, Notify(a)
  PROVE  Watched'
  <1>0. Phases
    BY DEF IdleInv
  <1> USE <1>0, Frame
  <1>1. CASE NotifyLook(a)
    <2>1. CASE ShouldWakeUp
      <3> USE <1>1, <2>1 DEF NotifyLook, Goto, idle, queues
      <3>1. \A w \in Workers : Looks(w) => Looks(w)'
        BY DEF Looks, Parked, HasTask, NotifyLabels
      <3>2. \A b \in Actors : Choosing(b) => Choosing(b)'
        BY DEF Choosing
      <3> QED  BY <3>1, <3>2, NothingLost
    <2>2. CASE ~ShouldWakeUp
      BY <1>1, <2>2, ReturnWatched DEF NotifyLook, NotifyLabels
    <2> QED  BY <2>1, <2>2
  <1>2. CASE NotifyRecheck(a)
    <2>1. CASE ShouldWakeUp
      <3> USE <1>2, <2>1 DEF NotifyRecheck, Goto, queues
      <3>1. \A w \in Workers : Looks(w) => Looks(w)'
        BY DEF Looks, Parked, HasTask, NotifyLabels
      <3>2. \A b \in Actors : Choosing(b) => Choosing(b)'
        BY DEF Choosing
      <3> QED  BY <3>1, <3>2, NothingLost
    <2>2. CASE ~ShouldWakeUp
      BY <1>2, <2>2, ReturnWatched DEF NotifyRecheck, NotifyLabels, idle
    <2> QED  BY <2>1, <2>2
  <1>3. CASE NotifyCommit(a)
    <2> USE <1>3 DEF NotifyCommit, Goto
    <2>1. PICK w \in sleepers : sleepers' = sleepers \ {w}
      OBVIOUS
    <2>2. w \in Workers /\ (~closed => Parked(w))
      BY DEF Phases, Typed, Listing
    <2>3. ~closed => Looks(w)'
      BY <2>1, <2>2 DEF Looks, Parked, NotifyLabels
    <2> QED  BY <2>2, <2>3 DEF Watched
  <1>4. CASE Signal(a)
    <2> USE <1>4 DEF Signal, Return, Goto, idle, queues
    <2>1. \A w \in Workers : Looks(w) => Looks(w)'
      BY DEF Looks, Parked, HasTask, NotifyLabels
    <2>2. \A b \in Actors : Choosing(b) => Choosing(b)'
      BY DEF Choosing
    <2> QED  BY <2>1, <2>2, NothingLost
  <1> QED  BY <1>1, <1>2, <1>3, <1>4 DEF Notify

(* A worker that does not look itself, parked or on its way to, moves on.  *)
Aside(w) ==
  /\ closed' = closed /\ global' = global
  /\ pc[w] \notin {"notify", "recheck", "commit"}
  /\ \A b \in Actors \ {w} : pc'[b] = pc[b] /\ after'[b] = after[b]
  /\ \A v \in Workers \ {w} : flag'[v] = flag[v] /\ (HasTask(v) => HasTask(v)')
  /\ sleepers \subseteq sleepers' /\ sleepers' \ {w} \subseteq sleepers

LEMMA AsideWatched ==
  ASSUME Watched, NEW w \in Workers, Aside(w), Looks(w) => Looks(w)'
  PROVE  Watched'
  <1> USE DEF Aside
  <1>1. \A v \in Workers : Looks(v) => Looks(v)'
    BY DEF Looks, Parked, Actors
  <1>2. \A b \in Actors : Choosing(b) => Choosing(b)'
    BY DEF Choosing
  <1> QED  BY <1>1, <1>2, NothingLost

LEMMA BusyWatched ==
  ASSUME NEW w \in Workers, ~closed' => Looks(w)'
  PROVE  Watched'
  BY DEF Watched

LEMMA WorkerWatched ==
  ASSUME IdleInv, Placed, Rings, Emptied, Watched, io \in [Workers -> Nat],
         NEW w \in Workers, WorkerStep(w) \/ WaitForEvents(w)
  PROVE  Watched'
  <1>0. Phases
    BY DEF IdleInv
  <1> w \in Actors /\ io[w] \in Nat
    BY DEF Actors
  <1> USE <1>0, Frame DEF Goto
  <1>1. CASE Notify(w)
    BY <1>1, NotifyWatched
  <1>2. CASE Tick(w)
    <2>1. ~closed' => Looks(w)'
      BY <1>2 DEF Tick, Looks
    <2> QED  BY <2>1, BusyWatched
  <1>3. CASE Maintain(w)
    <2>1. Looks(w)'
      BY <1>3 DEF Maintain, Looks, NotifyLabels
    <2> QED  BY <2>1, BusyWatched
  <1>4. CASE Poll(w)
    <2>1. CASE pc'[w] = "sleep"
      <3>1. pc[w] = "poll" /\ after' = after /\ PushTasks(w, 0)
        BY <1>4, <2>1 DEF Poll, WakeUpOneThen
      <3>2. queue' = queue /\ global' = global
        BY <3>1, PushFits
      <3>3. Aside(w)
        BY <1>4, <3>1, <3>2 DEF Poll, WakeUpOneThen, Aside, HasTask, idle
      <3>4. Looks(w) => Looks(w)'
        BY <1>4, <2>1, <3>1 DEF Poll, Looks, Parked, NotifyLabels
      <3> QED  BY <3>3, <3>4, AsideWatched
    <2>2. CASE pc'[w] # "sleep"
      <3>1. Looks(w)'
        BY <1>4, <2>2 DEF Poll, WakeUpOneThen, Looks, NotifyLabels
      <3> QED  BY <3>1, BusyWatched
    <2> QED  BY <2>1, <2>2
  <1>5. CASE NextTask(w)
    <2>1. Looks(w)'
      BY <1>5 DEF NextTask, TakeRemote, TakeLocal, Looks, NotifyLabels
    <2> QED  BY <2>1, BusyWatched
  <1>6. CASE Fetch(w)
    <2>1. Looks(w)'
      BY <1>6 DEF Fetch, Looks, NotifyLabels
    <2> QED  BY <2>1, BusyWatched
  <1>7. CASE ToSearching(w)
    <2>1. CASE pc'[w] = "poll" /\ ~closed
      <3>1. ~flag[w] /\ 2 * searching >= N
        BY <1>7, <2>1 DEF ToSearching
      <3>2. N \in Nat /\ N # 0 /\ searching \in Int
        BY ActorsDistinct, FS_EmptySet, FS_CardinalityType, Sizes DEF N
      <3>3. PICK s \in Searchers : Looks(s)
        BY <2>1, <3>1, <3>2, SearchersLook
      <3>4. s \in Workers /\ s # w
        BY <1>7, <3>1, <3>3 DEF ToSearching, Searchers, Parked, NotifyLabels
      <3>5. Looks(s)'
        BY <1>7, <3>3, <3>4 DEF ToSearching, Looks, Parked, HasTask, idle, queues
      <3> QED  BY <3>4, <3>5, BusyWatched
    <2>2. CASE pc'[w] # "poll"
      <3>1. Looks(w)'
        BY <1>7, <2>2 DEF ToSearching, Looks
      <3> QED  BY <3>1, BusyWatched
    <2>3. CASE closed
      BY <1>7, <2>3 DEF ToSearching, Watched
    <2> QED  BY <2>1, <2>2, <2>3
  <1>8. CASE JoinSearch(w)
    <2>1. Looks(w)'
      BY <1>8 DEF JoinSearch, Looks, NotifyLabels
    <2> QED  BY <2>1, BusyWatched
  <1>9. CASE LastLook(w)
    <2>1. CASE TakeRemote(w)
      <3>1. Looks(w)'
        BY <2>1, <1>9 DEF LastLook, TakeRemote, Looks
      <3> QED  BY <3>1, BusyWatched
    <2>2. CASE Goto(w, "poll") /\ UNCHANGED queues
      <3>1. Aside(w) /\ (Looks(w) => Looks(w)')
        BY <2>2, <1>9
           DEF LastLook, Aside, HasTask, Looks, Parked, NotifyLabels, idle, queues, locals
      <3> QED  BY <3>1, AsideWatched
    <2> QED  BY <1>9, <2>1, <2>2 DEF LastLook
  <1>10. CASE StealDone(w)
    <2>1. Looks(w)'
      BY <1>10 DEF StealDone, Looks, NotifyLabels
    <2> QED  BY <2>1, BusyWatched
  <1>11. CASE Sleep(w)
    <2>1. CASE HasTask(w)
      <3>1. Looks(w)'
        BY <2>1, <1>11 DEF Sleep, Looks
      <3> QED  BY <3>1, BusyWatched
    <2>2. CASE ~HasTask(w)
      <3>1. Aside(w) /\ (Looks(w) => Looks(w)')
        BY <2>2, <1>11
           DEF Sleep, Aside, HasTask, Looks, Parked, NotifyLabels, idle, queues, locals
      <3> QED  BY <3>1, AsideWatched
    <2> QED  BY <2>1, <2>2
  <1>12. CASE Park(w)
    <2>1. CASE ~flag[w]
      <3>1. Aside(w) /\ ~Looks(w)
        BY <2>1, <1>12 DEF Park, Aside, HasTask, Looks, Parked, NotifyLabels, queues
      <3> QED  BY <3>1, AsideWatched
    <2>2. CASE flag[w] /\ searching = 1
      <3>1. Looks(w)'
        BY <2>2, <1>12 DEF Park, Looks
      <3> QED  BY <3>1, BusyWatched
    <2>3. CASE flag[w] /\ searching # 1 /\ ~closed
      <3>1. w \in Searchers /\ IsFiniteSet(Searchers) /\ Cardinality(Searchers) # 1
        BY <2>3, Sizes DEF IdleInv, Counted, Searchers
      <3>2. Cardinality(Searchers \ {w}) # 0
        <4>1. Cardinality(Searchers \ {w}) = Cardinality(Searchers) - 1
          BY <3>1, FS_RemoveElement
        <4>2. Cardinality(Searchers) \in Nat
          BY Sizes
        <4> QED  BY <3>1, <4>1, <4>2
      <3>3. PICK s \in Searchers \ {w} : TRUE
        BY <3>2, FS_EmptySet
      <3>4. s \in Workers /\ s # w /\ (flag[s] \/ (Parked(s) /\ s \notin sleepers))
        BY <3>3 DEF Searchers
      <3>5. flag'[s] \/ (Parked(s)' /\ s \notin sleepers')
        BY <3>4, <1>12 DEF Park, Parked
      <3>6. Looks(s)'
        BY <3>5 DEF Looks
      <3> QED  BY <3>4, <3>6, BusyWatched
    <2>4. CASE closed
      BY <2>4, <1>12 DEF Park, Watched
    <2> QED  BY <2>1, <2>2, <2>3, <2>4
  <1>13. CASE LookAtGlobal(w)
    <2> USE <1>13 DEF LookAtGlobal, WakeUpOneThen
    <2>1. CASE w \notin sleepers
      <3>1. Looks(w)'
        BY <2>1 DEF Looks, Parked, NotifyLabels, idle
      <3> QED  BY <3>1, BusyWatched
    <2>2. CASE w \in sleepers /\ global > 0
      <3>1. Choosing(w)' /\ sleepers' # {}
        BY <2>2 DEF Choosing, idle
      <3> QED  BY <3>1 DEF Watched
    <2>3. CASE w \in sleepers /\ ~(global > 0)
      <3>1. global = 0 /\ global' = global
        BY <2>3 DEF queues, Rings
      <3> QED  BY <2>3, <3>1 DEF Watched, idle
    <2> QED  BY <2>1, <2>2, <2>3
  <1>14. CASE Shutdown(w)
    BY <1>14 DEF Shutdown, Watched
  <1>15. CASE Woken(w)
    <2>1. CASE HasTask(w)
      <3>1. Looks(w)'
        BY <2>1, <1>15 DEF Woken, Looks
      <3> QED  BY <3>1, BusyWatched
    <2>2. CASE ~HasTask(w)
      <3>1. Aside(w) /\ (Looks(w) => Looks(w)')
        BY <2>2, <1>15
           DEF Woken, Aside, HasTask, Looks, Parked, NotifyLabels, idle, queues, locals
      <3> QED  BY <3>1, AsideWatched
    <2> QED  BY <2>1, <2>2
  <1>16. CASE Remove(w)
    <2>1. Looks(w)'
      BY <1>16 DEF Remove, Looks, NotifyLabels
    <2> QED  BY <2>1, BusyWatched
  <1>17. CASE Contains(w)
    <2>1. CASE w \notin sleepers
      <3>1. Looks(w)'
        BY <2>1, <1>17 DEF Contains, Looks
      <3> QED  BY <3>1, BusyWatched
    <2>2. CASE w \in sleepers
      <3>1. ~Looks(w)
        BY <2>2, <1>17 DEF Contains, Looks, Phases, ParkedIsQuiet, Parked, NotifyLabels
      <3>2. Aside(w)
        BY <2>2, <1>17 DEF Contains, Aside, HasTask, idle, queues, locals
      <3> QED  BY <3>1, <3>2, AsideWatched
    <2> QED  BY <2>1, <2>2
  <1>18. CASE Start(w)
    <2>1. Looks(w)'
      BY <1>18 DEF Start, WakeUpOneThen, Looks, NotifyLabels
    <2> QED  BY <2>1, BusyWatched
  <1>19. CASE Spawn(w)
    <2>1. Looks(w)'
      BY <1>19 DEF Spawn, WakeUpOneThen, Looks, NotifyLabels
    <2> QED  BY <2>1, BusyWatched
  <1>20. CASE StartIo(w)
    <2>1. Looks(w)'
      BY <1>20 DEF StartIo, Looks, NotifyLabels
    <2> QED  BY <2>1, BusyWatched
  <1>21. CASE Finish(w)
    <2>1. Looks(w)'
      BY <1>21 DEF Finish, Looks, NotifyLabels
    <2> QED  BY <2>1, BusyWatched
  <1>22. CASE Close(w)
    BY <1>22 DEF Close, Watched
  <1>23. CASE WakeUpAll(w)
    <2>1. Looks(w)'
      BY <1>23 DEF WakeUpAll, Looks, NotifyLabels
    <2> QED  BY <2>1, BusyWatched
  <1>24. CASE Destroy(w)
    BY <1>24 DEF Destroy, Watched, Placed
  <1>25. CASE \E v \in Workers : Steal(w, v)
    <2>1. PICK v \in Workers : Steal(w, v)
      BY <1>25
    <2>2. CASE Stealable(w, v) = 0
      <3>1. Aside(w) /\ (Looks(w) => Looks(w)')
        BY <2>1, <2>2 DEF Steal, Aside, HasTask, Looks, Parked, idle
      <3> QED  BY <3>1, AsideWatched
    <2>3. CASE Stealable(w, v) # 0
      <3>1. Looks(w)'
        BY <2>1, <2>3 DEF Steal, Looks
      <3> QED  BY <3>1, BusyWatched
    <2> QED  BY <2>2, <2>3
  <1>26. CASE \E v \in Workers : LookAtQueue(w, v)
    <2>1. PICK v \in Workers : LookAtQueue(w, v)
      BY <1>26
    <2>2. CASE queue[v] > 0
      <3>1. ~Idles(v) /\ HasTask(v)
        BY <2>2 DEF Emptied, HasTask
      <3>2. v # w
        BY <2>1, <3>1 DEF LookAtQueue, Idles
      <3>3. Looks(v) \/ closed
        <4>1. pc[v] \in Labels /\ after[v] \in Returns /\ pc[v] # "outside"
          BY DEF Placed
        <4>2. pc[v] \in {"leaving", "gone"} => closed
          BY DEF Placed
        <4>3. pc[v] \in NotifyLabels => after[v] # "outside"
          BY DEF Placed
        <4>4. CASE pc[v] \in NotifyLabels
          BY <3>1, <4>1, <4>3, <4>4 DEF Idles, Looks, Returns
        <4>5. CASE pc[v] \notin NotifyLabels
          BY <3>1, <4>1, <4>2, <4>5 DEF Idles, Looks, Labels, WorkerLabels
        <4> QED  BY <4>4, <4>5
      <3>4. ~closed' => Looks(v)'
        BY <2>1, <3>2, <3>3 DEF LookAtQueue, Looks, Parked, HasTask, idle, queues
      <3> QED  BY <3>4, BusyWatched
    <2>3. CASE ~(queue[v] > 0)
      <3>1. Looks(w)'
        BY <2>1, <2>3 DEF LookAtQueue, Looks
      <3> QED  BY <3>1, BusyWatched
    <2> QED  BY <2>2, <2>3
  <1>27. CASE WaitForWaker(w) \/ WaitForEvents(w)
    <2> WaitReturns(w)
      BY <1>27 DEF WaitForWaker, WaitForEvents
    <2>1. PICK k \in 0 .. io[w] : PushTasks(w, k)
      BY DEF WaitReturns
    <2>2. CASE w \notin sleepers
      <3>1. Looks(w)'
        BY <2>2 DEF WaitReturns, Looks, Parked, idle
      <3> QED  BY <3>1, BusyWatched
    <2>3. CASE HasTask(w)'
      <3>1. Looks(w)'
        BY <2>3 DEF WaitReturns, Looks
      <3> QED  BY <3>1, BusyWatched
    <2>4. CASE w \in sleepers /\ ~HasTask(w)'
      <3>1. global' = global /\ \A v \in Workers \ {w} : queue'[v] = queue[v]
        BY <2>1, <2>4, PushFits DEF HasTask
      <3>2. Aside(w)
        BY <3>1 DEF WaitReturns, Aside, HasTask, idle, locals
      <3>3. ~Looks(w)
        BY <2>4 DEF WaitReturns, Looks, Phases, ParkedIsQuiet, Parked, NotifyLabels
      <3> QED  BY <3>2, <3>3, AsideWatched
    <2> QED  BY <2>2, <2>3, <2>4
  <1> QED
    BY <1>1, <1>2, <1>3, <1>4, <1>5, <1>6, <1>7, <1>8, <1>9, <1>10,
       <1>11, <1>12, <1>13, <1>14, <1>15, <1>16, <1>17, <1>18, <1>19, <1>20,
       <1>21, <1>22, <1>23, <1>24, <1>25, <1>26, <1>27 DEF WorkerStep

-----------------------------------------------------------------------------
(* Operations in flight come out of what the program may still make, and   *)
(* only actors lock Idle's mutex.                                          *)
Spent ==
  /\ io \in [Workers -> Nat] /\ fuel \in Nat
  /\ \A w \in Workers : io[w] + fuel <= Fuel
  /\ holder \in Actors \cup {Nobody}

LEMMA WorkerSpends ==
  ASSUME NEW w \in Workers, WorkerStep(w) \/ WaitForEvents(w)
  PROVE  \/ UNCHANGED <<io, fuel>>
         \/ \E k \in 0 .. io[w] : io' = [io EXCEPT ![w] = @ - k] /\ fuel' = fuel
         \/ fuel > 0 /\ fuel' = fuel - 1 /\ io' = io
         \/ fuel > 0 /\ fuel' = fuel - 1 /\ io' = [io EXCEPT ![w] = @ + 1]
  <1>1. CASE Poll(w)
    BY <1>1 DEF Poll
  <1>2. CASE WaitForWaker(w) \/ WaitForEvents(w)
    BY <1>2 DEF WaitForWaker, WaitForEvents, WaitReturns
  <1>3. CASE Spawn(w) \/ StartIo(w)
    BY <1>3 DEF Spawn, StartIo, drivers
  <1>4. CASE Notify(w)
    BY <1>4 DEF Notify, NotifyLook, NotifyRecheck, NotifyCommit, Signal, drivers
  <1>5. CASE \E v \in Workers : Steal(w, v) \/ LookAtQueue(w, v)
    BY <1>5 DEF Steal, LookAtQueue, drivers
  <1>6. CASE \/ Tick(w) \/ Maintain(w) \/ NextTask(w) \/ Fetch(w) \/ ToSearching(w)
             \/ JoinSearch(w) \/ LastLook(w) \/ StealDone(w) \/ Sleep(w) \/ Park(w)
             \/ LookAtGlobal(w) \/ Shutdown(w) \/ Woken(w) \/ Remove(w) \/ Contains(w)
             \/ Start(w) \/ Finish(w) \/ Close(w) \/ WakeUpAll(w) \/ Destroy(w)
    BY <1>6 DEF Tick, Maintain, NextTask, Fetch, ToSearching, JoinSearch, LastLook, StealDone,
                Sleep, Park, LookAtGlobal, Shutdown, Woken, Remove, Contains, Start, Finish,
                Close, WakeUpAll, Destroy, drivers
  <1> QED  BY <1>1, <1>2, <1>3, <1>4, <1>5, <1>6 DEF WorkerStep

LEMMA WorkerLocks ==
  ASSUME NEW w \in Workers, WorkerStep(w) \/ WaitForEvents(w)
  PROVE  holder' \in {holder, Nobody, w}
  <1>1. CASE Notify(w)
    BY <1>1 DEF Notify, NotifyLook, NotifyRecheck, NotifyCommit, Signal, idle
  <1>2. CASE WaitForWaker(w) \/ WaitForEvents(w)
    BY <1>2 DEF WaitForWaker, WaitForEvents, WaitReturns, idle
  <1>3. CASE \E v \in Workers : Steal(w, v) \/ LookAtQueue(w, v)
    BY <1>3 DEF Steal, LookAtQueue, idle
  <1>4. CASE \/ Poll(w) \/ Tick(w) \/ Maintain(w) \/ NextTask(w) \/ Fetch(w) \/ ToSearching(w)
             \/ JoinSearch(w) \/ LastLook(w) \/ StealDone(w) \/ Sleep(w) \/ Park(w)
             \/ LookAtGlobal(w) \/ Shutdown(w) \/ Woken(w) \/ Remove(w) \/ Contains(w)
             \/ Start(w) \/ Finish(w) \/ Close(w) \/ WakeUpAll(w) \/ Destroy(w) \/ Spawn(w)
             \/ StartIo(w)
    BY <1>4 DEF Poll, Tick, Maintain, NextTask, Fetch, ToSearching, JoinSearch, LastLook,
                StealDone, Sleep, Park, LookAtGlobal, Shutdown, Woken, Remove, Contains, Start,
                Finish, Close, WakeUpAll, Destroy, Spawn, StartIo, idle
  <1> QED  BY <1>1, <1>2, <1>3, <1>4 DEF WorkerStep

LEMMA SpentNext ==
  ASSUME Spent, [Next]_vars
  PROVE  Spent'
  <1> USE DEF Spent
  <1>1. ASSUME NEW w \in Workers, WorkerStep(w) \/ WaitForEvents(w)
        PROVE  Spent'
    <2>1. holder' \in Actors \cup {Nobody}
      BY <1>1, WorkerLocks DEF Actors
    <2>2. CASE UNCHANGED <<io, fuel>>
      BY <2>1, <2>2
    <2>3. CASE \E k \in 0 .. io[w] : io' = [io EXCEPT ![w] = @ - k] /\ fuel' = fuel
      <3>1. PICK k \in 0 .. io[w] : io' = [io EXCEPT ![w] = @ - k] /\ fuel' = fuel
        BY <2>3
      <3>2. io[w] \in Nat /\ io'[w] = io[w] - k /\ \A v \in Workers \ {w} : io'[v] = io[v]
        BY <3>1
      <3>3. io[w] - k \in Nat /\ io[w] - k <= io[w]
        BY <3>2
      <3>4. io' \in [Workers -> Nat]
        BY <3>1, <3>3
      <3>5. \A v \in Workers : io'[v] + fuel' <= Fuel
        BY <3>1, <3>2, <3>3, SizesPositive
      <3> QED  BY <2>1, <3>1, <3>4, <3>5
    <2>4. CASE fuel > 0 /\ fuel' = fuel - 1 /\ io' = io
      BY <2>1, <2>4, SizesPositive
    <2>5. CASE fuel > 0 /\ fuel' = fuel - 1 /\ io' = [io EXCEPT ![w] = @ + 1]
      <3>1. io[w] \in Nat /\ io'[w] = io[w] + 1 /\ \A v \in Workers \ {w} : io'[v] = io[v]
        BY <2>5
      <3>2. io' \in [Workers -> Nat] /\ fuel' \in Nat /\ io'[w] + fuel' = io[w] + fuel
        BY <2>5, <3>1
      <3>3. \A v \in Workers \ {w} : io'[v] + fuel' <= Fuel
        BY <2>5, <3>1, SizesPositive
      <3> QED  BY <2>1, <3>2, <3>3
    <2> QED  BY <1>1, <2>2, <2>3, <2>4, <2>5, WorkerSpends
  <1>2. CASE Notify(Main)
    BY <1>2 DEF Notify, NotifyLook, NotifyRecheck, NotifyCommit, Signal, drivers, idle, Actors
  <1>3. CASE ScheduleRemote
    BY <1>3, SizesPositive DEF ScheduleRemote, drivers, idle
  <1>4. CASE ScheduleRemoteBatch
    <2>1. PICK k \in 2 .. fuel : fuel' = fuel - k
      BY <1>4 DEF ScheduleRemoteBatch
    <2>2. UNCHANGED <<io, holder>>
      BY <1>4 DEF ScheduleRemoteBatch, drivers, idle
    <2> QED  BY <2>1, <2>2, SizesPositive
  <1>5. CASE UNCHANGED vars
    BY <1>5 DEF vars, drivers, idle
  <1> QED  BY <1>1, <1>2, <1>3, <1>4, <1>5 DEF Next, Terminated

-----------------------------------------------------------------------------
(* What keeps a queued task from being slept on, as one inductive          *)
(* invariant on top of IdleInv: lengths (Rings), who has found its own     *)
(* queue empty (Emptied), whom close() has still to tell (Told), where     *)
(* workers can be (Placed) and who looks at the global queue (Watched).    *)
Awake == Rings /\ Emptied /\ Told /\ Placed /\ Watched /\ Spent

AwakeInv == IdleInv /\ Chosen /\ Awake

LEMMA AwakeInit ==
  ASSUME Init
  PROVE  Awake
  <1> USE DEF Init
  <1>1. Rings
    BY ActorsDistinct, Halves DEF Rings, Stolen, Actors
  <1>2. Emptied
    BY DEF Emptied, Idles, HasTask, Actors, NotifyLabels
  <1>3. Told
    BY DEF Told
  <1>4. Placed
    BY ActorsDistinct DEF Placed, LeftTogether, Actors, NotifyLabels
  <1>5. Watched
    <2>1. PICK w \in Workers : TRUE
      BY ActorsDistinct
    <2>2. Looks(w)
      BY <2>1, ActorsDistinct DEF Looks, Actors
    <2> QED  BY <2>2 DEF Watched
  <1>6. Spent
    BY SizesPositive DEF Spent
  <1> QED  BY <1>1, <1>2, <1>3, <1>4, <1>5, <1>6 DEF Awake

LEMMA MainAwake ==
  ASSUME AwakeInv, ScheduleRemote \/ ScheduleRemoteBatch
  PROVE  Rings' /\ Emptied' /\ Told' /\ Placed' /\ Watched'
  <1>0. Main \in Actors /\ Main \notin Workers
    BY ActorsDistinct DEF Actors
  <1>1. Phases /\ Chosen /\ Rings /\ Emptied /\ Told /\ Placed /\ Watched /\ fuel \in Nat
    BY DEF AwakeInv, Awake, IdleInv, Spent
  <1> USE <1>0, <1>1, Frame DEF ScheduleRemote, ScheduleRemoteBatch, WakeUpOneThen, Goto
  <1>2. Rings'
    <2>1. Elsewhere(Main) /\ queue' = queue
      BY DEF Elsewhere, Rings
    <2>2. global' \in Nat
      BY DEF Accepted, Rings
    <2> QED  BY <2>1, <2>2, RingsRest
  <1>3. KeepsEmpty(Main)
    BY DEF KeepsEmpty, HasTask
  <1>4. KeepsTold(Main)
    BY DEF KeepsTold, drivers, Told
  <1>5. KeepsPlace(Main)
    BY DEF KeepsPlace
  <1>6. Watched'
    <2>1. \A w \in Workers : Looks(w) => Looks(w)'
      BY DEF Looks, Parked, HasTask, idle, Actors
    <2>2. Choosing(Main)'
      BY DEF Choosing
    <2> QED  BY <2>1, <2>2 DEF Watched, idle
  <1> QED  BY <1>2, <1>3, <1>4, <1>5, <1>6, EmptiedStays, ToldStays, PlaceStays

LEMMA AwakeNext ==
  ASSUME AwakeInv, [Next]_vars
  PROVE  Awake'
  <1>0. /\ Spent /\ IdleInv /\ Phases /\ Chosen /\ Rings /\ Emptied /\ Told /\ Placed /\ Watched
        /\ io \in [Workers -> Nat] /\ pc \in [Actors -> Labels] /\ after \in [Actors -> Returns]
    BY Frame DEF AwakeInv, Awake, IdleInv, Spent
  <1> SUFFICES Rings' /\ Emptied' /\ Told' /\ Placed' /\ Watched'
    BY <1>0, SpentNext DEF Awake
  <1>1. ASSUME NEW w \in Workers, WorkerStep(w) \/ WaitForEvents(w)
        PROVE  Rings' /\ Emptied' /\ Told' /\ Placed' /\ Watched'
    BY <1>0, <1>1, WorkerRings, WorkerEmptied, WorkerTold, WorkerPlaced, WorkerWatched
  <1>2. CASE Notify(Main)
    <2>1. Main \in Actors
      BY DEF Actors
    <2> QED
      BY <1>0, <1>2, <2>1, NotifyRings, NotifyEmptied, NotifyTold, NotifyPlaced, NotifyWatched
  <1>3. CASE ScheduleRemote \/ ScheduleRemoteBatch
    BY <1>3, MainAwake
  <1>4. CASE UNCHANGED vars
    <2> USE <1>0, <1>4 DEF vars, idle, queues, drivers, locals
    <2>1. Rings'
      BY DEF Rings, Stolen
    <2>2. Emptied'
      BY DEF Emptied, Idles, HasTask
    <2>3. Told'
      BY DEF Told, Settled, Heard
    <2>4. Placed'
      BY DEF Placed, LeftTogether
    <2>5. Watched'
      BY DEF Watched, Looks, Choosing, Parked, HasTask
    <2> QED  BY <2>1, <2>2, <2>3, <2>4, <2>5
  <1> QED  BY <1>1, <1>2, <1>3, <1>4 DEF Next, Terminated

(* The inductive invariant the theorems below follow from.                 *)
THEOREM AwakeInvariant == Spec => []AwakeInv
  <1>1. Init => Chosen /\ Awake
    BY ChosenInit, AwakeInit
  <1>2. IdleInv /\ Chosen /\ Awake /\ [Next]_vars => Chosen' /\ Awake'
    BY ChosenNext, AwakeNext DEF AwakeInv
  <1> QED  BY <1>1, <1>2, IdleInvariant, PTL DEF Spec, AwakeInv

(* No wake-up is lost, for any number of workers and any ring capacity: a  *)
(* task scheduled from outside, overflowed or left behind by a thief is    *)
(* never slept on by everybody, although schedule_remote looks at the      *)
(* counts without the mutex and all but the last searcher go to sleep      *)
(* without looking again.                                                  *)
THEOREM WakeupsKept == Spec => []NoLostWakeup
  <1>1. AwakeInv => NoLostWakeup
    <2> SUFFICES ASSUME AwakeInv
                 PROVE  NoLostWakeup
      OBVIOUS
    <2>0. Phases /\ Chosen /\ Rings /\ Emptied /\ Told /\ Watched
      BY DEF AwakeInv, IdleInv, Awake
    <2>1. ASSUME NEW w \in Workers, pc[w] = "wait"
          PROVE  ~HasTask(w)
      BY <2>0, <2>1 DEF Emptied, Idles
    <2>2. ASSUME \A w \in Workers : Asleep(w), pc[Main] = "outside"
          PROVE  ~Queued /\ ~closed
      <3>1. \A a \in Actors : pc[a] \in {"wait", "outside"}
        BY <2>2 DEF Asleep, Actors
      <3>2. ~closed
        <4> SUFFICES ASSUME closed
                     PROVE  FALSE
          OBVIOUS
        <4>1. PICK w \in Workers : TRUE
          BY ActorsDistinct
        <4>2. Heard(w)
          BY <2>0, <2>2 DEF Told, Settled, Asleep
        <4> QED  BY <4>2, <2>2 DEF Heard, Asleep
      <3>3. \A w \in Workers : w \in sleepers
        BY <2>0, <2>2, <3>1 DEF Chosen, Dozes, Called, Asleep
      <3>4. \A w \in Workers : ~Looks(w)
        BY <2>0, <2>2, <3>3 DEF Looks, Phases, ParkedIsQuiet, Parked, Asleep, NotifyLabels
      <3>5. \A a \in Actors : ~Choosing(a)
        BY <3>1 DEF Choosing
      <3>6. global = 0
        BY <2>0, <3>2, <3>4, <3>5 DEF Watched
      <3> QED  BY <2>1, <2>2, <3>2, <3>6 DEF Queued, Asleep
    <2> QED  BY <2>1, <2>2 DEF NoLostWakeup
  <1> QED  BY <1>1, AwakeInvariant, PTL

(* The latch that ~Worker waits at keeps every worker until none can still *)
(* be about to write another's eventfd, from wake_up_one or from close().  *)
THEOREM LiveWorkersWoken == Spec => []WakesLiveWorkers
  <1>1. AwakeInv => WakesLiveWorkers
    <2> SUFFICES ASSUME AwakeInv, NEW w \in Workers
                 PROVE  /\ pc[w] = "signal" => pc[target[w]] # "gone"
                        /\ pc[w] = "close" => \A v \in left[w] : pc[v] # "gone"
      BY DEF WakesLiveWorkers
    <2>1. Placed /\ Told /\ w \in Actors
      BY DEF AwakeInv, Awake, Actors
    <2>2. pc[w] \in {"signal", "close"} => \A v \in Workers : pc[v] # "gone"
      BY <2>1 DEF Placed, LeftTogether
    <2>3. (pc[w] = "signal" => target[w] \in Workers) /\ left[w] \subseteq Workers
      BY <2>1 DEF Placed, Told
    <2> QED  BY <2>2, <2>3
  <1> QED  BY <1>1, AwakeInvariant, PTL

-----------------------------------------------------------------------------
(* How many workers may be counted as searching once the runtime is closed *)
(* and chosen workers leave without taking themselves off the count: those *)
(* who do search, and at most those who leave and are not listed.          *)
Departs(w) ==
  w \notin sleepers /\ (pc[w] \in {"leaving", "gone"} \/ (pc[w] = "top" /\ down[w]))
Searches(w) == flag[w] \/ (Parked(w) /\ w \notin sleepers)
Countable == {w \in Workers : Searches(w) \/ Departs(w)}

Bounded ==
  /\ Cardinality(Searchers) <= searching
  /\ searching <= Cardinality(Countable)
  /\ \A w \in sleepers : ~flag[w]

LEMMA CountableSizes ==
  ASSUME Phases
  PROVE  /\ searching \in Int
         /\ IsFiniteSet(Searchers) /\ Cardinality(Searchers) \in Nat
         /\ IsFiniteSet(Countable) /\ Cardinality(Countable) \in 0 .. N
  <1>1. Countable \subseteq Workers /\ IsFiniteSet(Workers)
    BY ActorsDistinct DEF Countable
  <1>2. IsFiniteSet(Countable) /\ Cardinality(Countable) <= Cardinality(Workers)
    BY <1>1, FS_Subset
  <1> QED  BY <1>2, Sizes, FS_CardinalityType DEF N

LEMMA LaterSizes ==
  /\ IsFiniteSet(Searchers') /\ Cardinality(Searchers') \in Nat
  /\ IsFiniteSet(Countable') /\ Cardinality(Countable') \in Nat
  <1>1. Searchers' \subseteq Workers /\ Countable' \subseteq Workers /\ IsFiniteSet(Workers)
    BY ActorsDistinct DEF Searchers, Countable
  <1> QED  BY <1>1, FS_Subset, FS_CardinalityType

(* Actor a alone moves, and only its own place in the list changes.        *)
KeepsOthers(a) ==
  /\ \A b \in Actors \ {a} : pc'[b] = pc[b] /\ after'[b] = after[b]
  /\ \A v \in Workers \ {a} : /\ flag'[v] = flag[v] /\ down'[v] = down[v]
                              /\ v \in sleepers' <=> v \in sleepers

KeepsBounds(a) ==
  /\ KeepsOthers(a) /\ searching' = searching
  /\ a \in Workers => /\ Searches(a)' => Searches(a)
                      /\ Searches(a) \/ Departs(a) => Searches(a)' \/ Departs(a)'
                      /\ a \in sleepers' => ~flag'[a]

(* Worker w stops being counted.                                           *)
Falls(w) ==
  /\ KeepsOthers(w) /\ searching' = searching - 1
  /\ flag[w] /\ ~Searches(w)' /\ ~flag'[w]

(* Actor a has w counted that was not.                                     *)
Rises(a, w) ==
  /\ \A b \in Actors \ {a} : pc'[b] = pc[b] /\ after'[b] = after[b]
  /\ down' = down /\ searching' = searching + 1
  /\ \A v \in Workers \ {w} : flag'[v] = flag[v] /\ (v \in sleepers' <=> v \in sleepers)
  /\ a \in Workers \ {w} =>
       /\ Searches(a)' <=> Searches(a)
       /\ Searches(a) \/ Departs(a) => Searches(a)' \/ Departs(a)'
  /\ w \notin sleepers'
  /\ ~Searches(w) /\ ~Departs(w) /\ (Searches(w)' \/ Departs(w)')

LEMMA Unmoved ==
  ASSUME NEW v \in Workers, pc'[v] = pc[v], after'[v] = after[v], flag'[v] = flag[v],
         down'[v] = down[v], v \in sleepers' <=> v \in sleepers
  PROVE  (Searches(v)' <=> Searches(v)) /\ (Departs(v)' <=> Departs(v))
  BY DEF Searches, Departs, Parked

LEMMA BoundsStay ==
  ASSUME Bounded, Phases, Phases', NEW a \in Actors, KeepsBounds(a)
  PROVE  Bounded'
  <1> USE DEF KeepsBounds, KeepsOthers
  <1>1. \A v \in Workers : v # a => (Searches(v)' <=> Searches(v))
          /\ (Departs(v)' <=> Departs(v))
    BY Unmoved DEF Actors
  <1>2. Searchers' \subseteq Searchers
    BY <1>1 DEF Searchers, Searches
  <1>3. Countable \subseteq Countable'
    BY <1>1 DEF Countable
  <1>4. \A w \in sleepers' : ~flag'[w]
    BY DEF Bounded, Phases, Typed
  <1>5. Cardinality(Searchers') <= Cardinality(Searchers)
    BY <1>2, CountableSizes, FS_Subset
  <1>6. IsFiniteSet(Countable') /\ Cardinality(Countable') \in Nat
          /\ Cardinality(Searchers') \in Nat
    BY LaterSizes
  <1>7. Cardinality(Countable) <= Cardinality(Countable')
    BY <1>3, <1>6, FS_Subset
  <1> QED  BY <1>4, <1>5, <1>6, <1>7, CountableSizes DEF Bounded

LEMMA FallsBounded ==
  ASSUME Bounded, Phases, Phases', NEW w \in Workers, Falls(w)
  PROVE  Bounded'
  <1> USE DEF Falls, KeepsOthers
  <1>1. \A v \in Workers : v # w => (Searches(v)' <=> Searches(v))
          /\ (Departs(v)' <=> Departs(v))
    BY Unmoved DEF Actors
  <1>2. Searchers' \subseteq Searchers \ {w} /\ w \in Searchers
    BY <1>1 DEF Searchers, Searches
  <1>3. Countable \ {w} \subseteq Countable' /\ w \in Countable
    BY <1>1 DEF Countable, Searches
  <1>4. \A v \in sleepers' : ~flag'[v]
    BY DEF Bounded, Phases, Typed
  <1>5. IsFiniteSet(Searchers \ {w})
          /\ Cardinality(Searchers \ {w}) = Cardinality(Searchers) - 1
    BY <1>2, CountableSizes, FS_RemoveElement
  <1>6. Cardinality(Searchers') <= Cardinality(Searchers) - 1
    BY <1>2, <1>5, FS_Subset
  <1>7. Cardinality(Countable \ {w}) = Cardinality(Countable) - 1
    BY <1>3, CountableSizes, FS_RemoveElement
  <1>8. Cardinality(Countable) - 1 <= Cardinality(Countable')
    BY <1>3, <1>7, LaterSizes, FS_Subset
  <1>9. Cardinality(Searchers') <= searching' /\ searching' <= Cardinality(Countable')
    BY <1>6, <1>8, CountableSizes, LaterSizes DEF Bounded
  <1> QED  BY <1>4, <1>9 DEF Bounded

LEMMA RisesBounded ==
  ASSUME Bounded, Phases, Phases', NEW a \in Actors, NEW w \in Workers, Rises(a, w)
  PROVE  Bounded'
  <1> USE DEF Rises
  <1>1. \A v \in Workers : v # w /\ v # a => (Searches(v)' <=> Searches(v))
          /\ (Departs(v)' <=> Departs(v))
    BY Unmoved DEF Actors
  <1>2. Searchers' \subseteq Searchers \cup {w} /\ w \notin Searchers
    BY <1>1 DEF Searchers, Searches
  <1>3. Countable \cup {w} \subseteq Countable' /\ w \notin Countable
    BY <1>1 DEF Countable
  <1>4. \A v \in sleepers' : ~flag'[v]
    <2> SUFFICES ASSUME NEW v \in sleepers', v # w, v \in Workers
                 PROVE  ~flag'[v]
      BY DEF Phases, Typed
    <2> QED  BY DEF Bounded
  <1>5. IsFiniteSet(Searchers \cup {w})
          /\ Cardinality(Searchers \cup {w}) = Cardinality(Searchers) + 1
    BY <1>2, CountableSizes, FS_AddElement
  <1>6. Cardinality(Searchers') <= Cardinality(Searchers) + 1
    BY <1>2, <1>5, FS_Subset
  <1>7. Cardinality(Countable \cup {w}) = Cardinality(Countable) + 1
    BY <1>3, CountableSizes, FS_AddElement
  <1>8. Cardinality(Countable) + 1 <= Cardinality(Countable')
    BY <1>3, <1>7, LaterSizes, FS_Subset
  <1>9. Cardinality(Searchers') <= searching' /\ searching' <= Cardinality(Countable')
    BY <1>6, <1>8, CountableSizes, LaterSizes DEF Bounded
  <1> QED  BY <1>4, <1>9 DEF Bounded

LEMMA NotifyBounded ==
  ASSUME Bounded, Phases, Phases', NEW a \in Actors, Notify(a)
  PROVE  Bounded'
  <1> USE Frame DEF Goto, Return, Searches, Departs, Parked, NotifyLabels
  <1>1. CASE NotifyLook(a) \/ NotifyRecheck(a) \/ Signal(a)
    <2>1. KeepsOthers(a) /\ searching' = searching
      BY <1>1 DEF NotifyLook, NotifyRecheck, Signal, KeepsOthers, idle, Actors
    <2>2. sleepers' = sleepers /\ flag' = flag /\ down' = down
      BY <1>1 DEF NotifyLook, NotifyRecheck, Signal, idle
    <2>3. ASSUME a \in Workers
          PROVE  /\ Searches(a)' => Searches(a)
                 /\ Searches(a) \/ Departs(a) => Searches(a)' \/ Departs(a)'
      BY <1>1, <2>2, <2>3 DEF NotifyLook, NotifyRecheck, Signal, ShouldWakeUp, Returns
    <2>4. KeepsBounds(a)
      BY <2>1, <2>2, <2>3 DEF KeepsBounds, Bounded
    <2> QED  BY <2>4, BoundsStay
  <1>2. CASE NotifyCommit(a)
    <2>1. PICK w \in sleepers : sleepers' = sleepers \ {w}
      BY <1>2 DEF NotifyCommit
    <2>2. w \in Workers /\ ~flag[w]
      BY DEF Bounded, Phases, Typed
    <2>3. Parked(w) \/ (down[w] /\ pc[w] \in {"top", "leaving", "gone"})
      BY DEF Phases, Listing
    <2>4. Rises(a, w)
      BY <1>2, <2>1, <2>2, <2>3 DEF NotifyCommit, Rises, Actors
    <2> QED  BY <2>2, <2>4, RisesBounded
  <1> QED  BY <1>1, <1>2 DEF Notify

LEMMA WorkerBounded ==
  ASSUME Bounded, Phases, Phases', NEW w \in Workers, WorkerStep(w) \/ WaitForEvents(w)
  PROVE  Bounded'
  <1>0. w \in Actors /\ ~(flag[w] /\ w \in sleepers)
    BY DEF Bounded, Actors
  <1> USE <1>0, Frame DEF Goto, Searches, Departs, Parked, NotifyLabels, KeepsOthers
  <1>1. CASE Notify(w)
    BY <1>1, NotifyBounded
  <1>2. CASE Tick(w)
    <2>1. KeepsBounds(w)
      BY <1>2 DEF KeepsBounds, Tick, idle, locals
    <2> QED  BY <2>1, BoundsStay
  <1>3. CASE Maintain(w)
    <2>1. KeepsBounds(w)
      BY <1>3 DEF KeepsBounds, Maintain, CheckShutdown, idle, locals
    <2> QED  BY <2>1, BoundsStay
  <1>4. CASE Poll(w)
    <2>1. KeepsBounds(w)
      BY <1>4 DEF KeepsBounds, Poll, WakeUpOneThen, idle, Returns
    <2> QED  BY <2>1, BoundsStay
  <1>5. CASE NextTask(w)
    <2>1. KeepsBounds(w)
      BY <1>5 DEF KeepsBounds, NextTask, TakeRemote, TakeLocal, idle
    <2> QED  BY <2>1, BoundsStay
  <1>6. CASE Fetch(w)
    <2>1. KeepsBounds(w)
      BY <1>6 DEF KeepsBounds, Fetch, idle
    <2> QED  BY <2>1, BoundsStay
  <1>7. CASE ToSearching(w)
    <2>1. KeepsBounds(w)
      BY <1>7 DEF KeepsBounds, ToSearching, idle
    <2> QED  BY <2>1, BoundsStay
  <1>8. CASE JoinSearch(w)
    <2>1. Rises(w, w)
      BY <1>8 DEF JoinSearch, Rises, Phases, Listing, ParkedIsQuiet
    <2> QED  BY <2>1, RisesBounded
  <1>9. CASE LastLook(w)
    <2>1. KeepsBounds(w)
      BY <1>9 DEF KeepsBounds, LastLook, TakeRemote, locals, idle
    <2> QED  BY <2>1, BoundsStay
  <1>10. CASE StealDone(w)
    <2>1. KeepsBounds(w)
      BY <1>10 DEF KeepsBounds, StealDone, idle
    <2> QED  BY <2>1, BoundsStay
  <1>11. CASE Sleep(w)
    <2>1. KeepsBounds(w)
      BY <1>11 DEF KeepsBounds, Sleep, CheckShutdown, locals, idle
    <2> QED  BY <2>1, BoundsStay
  <1>12. CASE Park(w)
    <2>1. CASE flag[w]
      <3>1. Falls(w)
        BY <1>12, <2>1 DEF Park, Falls, KeepsOthers, Phases, Typed
      <3> QED  BY <3>1, FallsBounded
    <2>2. CASE ~flag[w]
      <3>1. KeepsBounds(w)
        BY <1>12, <2>2 DEF Park, KeepsBounds
      <3> QED  BY <3>1, BoundsStay
    <2> QED  BY <2>1, <2>2
  <1>13. CASE LookAtGlobal(w)
    <2>1. KeepsBounds(w)
      BY <1>13 DEF KeepsBounds, LookAtGlobal, WakeUpOneThen, idle
    <2> QED  BY <2>1, BoundsStay
  <1>14. CASE Shutdown(w)
    <2>1. KeepsBounds(w)
      BY <1>14 DEF KeepsBounds, Shutdown, locals, idle
    <2> QED  BY <2>1, BoundsStay
  <1>15. CASE Woken(w)
    <2>1. KeepsBounds(w)
      BY <1>15 DEF KeepsBounds, Woken, CheckShutdown, locals, idle
    <2> QED  BY <2>1, BoundsStay
  <1>16. CASE Remove(w)
    <2>1. KeepsBounds(w)
      BY <1>16 DEF KeepsBounds, Remove, locals
    <2> QED  BY <2>1, BoundsStay
  <1>17. CASE Contains(w)
    <2>1. KeepsBounds(w)
      BY <1>17 DEF KeepsBounds, Contains, locals, idle
    <2> QED  BY <2>1, BoundsStay
  <1>18. CASE Start(w)
    <2>1. CASE flag[w]
      <3>1. Falls(w)
        BY <1>18, <2>1 DEF Start, WakeUpOneThen, Falls, KeepsOthers, Phases, Typed
      <3> QED  BY <3>1, FallsBounded
    <2>2. CASE ~flag[w]
      <3>1. KeepsBounds(w)
        BY <1>18, <2>2 DEF Start, WakeUpOneThen, KeepsBounds
      <3> QED  BY <3>1, BoundsStay
    <2> QED  BY <2>1, <2>2
  <1>19. CASE Spawn(w)
    <2>1. KeepsBounds(w)
      BY <1>19 DEF KeepsBounds, Spawn, WakeUpOneThen, idle, Returns
    <2> QED  BY <2>1, BoundsStay
  <1>20. CASE StartIo(w)
    <2>1. KeepsBounds(w)
      BY <1>20 DEF KeepsBounds, StartIo, locals, idle
    <2> QED  BY <2>1, BoundsStay
  <1>21. CASE Finish(w)
    <2>1. KeepsBounds(w)
      BY <1>21 DEF KeepsBounds, Finish, locals, idle
    <2> QED  BY <2>1, BoundsStay
  <1>22. CASE Close(w)
    <2>1. KeepsBounds(w)
      BY <1>22 DEF KeepsBounds, Close, idle
    <2> QED  BY <2>1, BoundsStay
  <1>23. CASE WakeUpAll(w)
    <2>1. KeepsBounds(w)
      BY <1>23 DEF KeepsBounds, WakeUpAll, idle
    <2> QED  BY <2>1, BoundsStay
  <1>24. CASE Destroy(w)
    <2>1. KeepsBounds(w)
      BY <1>24 DEF KeepsBounds, Destroy, locals, idle
    <2> QED  BY <2>1, BoundsStay
  <1>25. CASE \E v \in Workers : Steal(w, v)
    <2>1. KeepsBounds(w)
      BY <1>25 DEF KeepsBounds, Steal, idle
    <2> QED  BY <2>1, BoundsStay
  <1>26. CASE \E v \in Workers : LookAtQueue(w, v)
    <2>1. KeepsBounds(w)
      BY <1>26 DEF KeepsBounds, LookAtQueue, idle
    <2> QED  BY <2>1, BoundsStay
  <1>27. CASE WaitForWaker(w) \/ WaitForEvents(w)
    <2>1. KeepsBounds(w)
      BY <1>27 DEF KeepsBounds, WaitForWaker, WaitForEvents, WaitReturns, locals, idle
    <2> QED  BY <2>1, BoundsStay
  <1> QED
    BY <1>1, <1>2, <1>3, <1>4, <1>5, <1>6, <1>7, <1>8, <1>9, <1>10,
       <1>11, <1>12, <1>13, <1>14, <1>15, <1>16, <1>17, <1>18, <1>19, <1>20,
       <1>21, <1>22, <1>23, <1>24, <1>25, <1>26, <1>27 DEF WorkerStep

LEMMA BoundedNext ==
  ASSUME Bounded, Phases, Phases', [Next]_vars
  PROVE  Bounded'
  <1>1. ASSUME NEW w \in Workers, WorkerStep(w) \/ WaitForEvents(w)
        PROVE  Bounded'
    BY <1>1, WorkerBounded
  <1>2. Main \in Actors /\ Main \notin Workers
    BY ActorsDistinct DEF Actors
  <1>3. CASE Notify(Main)
    BY <1>2, <1>3, NotifyBounded
  <1>4. CASE ScheduleRemote \/ ScheduleRemoteBatch
    <2>1. KeepsBounds(Main)
      BY <1>2, <1>4, Frame
         DEF ScheduleRemote, ScheduleRemoteBatch, WakeUpOneThen, Goto, KeepsBounds,
             KeepsOthers, idle
    <2> QED  BY <1>2, <2>1, BoundsStay
  <1>5. CASE UNCHANGED vars
    BY <1>5 DEF vars, idle, locals, Bounded, Searchers, Countable, Searches, Departs, Parked
  <1> QED  BY <1>1, <1>3, <1>4, <1>5 DEF Next, Terminated

(* The counter never goes below zero nor past the workers, closed or not,  *)
(* and a ring never holds more than its capacity, what a thief is still    *)
(* copying out of it included: for any number of workers, any even         *)
(* capacity and any amount of work.                                        *)
THEOREM TypeCorrect == Spec => []TypeOK
  <1>1. Init => Bounded
    <2> SUFFICES ASSUME Init PROVE Bounded
      OBVIOUS
    <2>1. Searchers = {}
      BY DEF Init, Searchers, Parked, Actors, NotifyLabels
    <2>2. IsFiniteSet(Countable) /\ Cardinality(Countable) \in Nat
      <3>1. Countable \subseteq Workers /\ IsFiniteSet(Workers)
        BY ActorsDistinct DEF Countable
      <3> QED  BY <3>1, FS_Subset, FS_CardinalityType
    <2> QED  BY <2>1, <2>2, FS_EmptySet DEF Init, Bounded
  <1>2. IdleInv /\ IdleInv' /\ Bounded /\ [Next]_vars => Bounded'
    BY BoundedNext DEF IdleInv
  <1>3. AwakeInv /\ Bounded => TypeOK
    <2> SUFFICES ASSUME AwakeInv, Bounded PROVE TypeOK
      OBVIOUS
    <2>0. Phases /\ Counted /\ Chosen /\ Rings /\ Told /\ Spent
      BY DEF AwakeInv, IdleInv, Awake
    <2>1. Cardinality(sleepers) <= N
      BY <2>0, ActorsDistinct, FS_Subset DEF Phases, Typed, N
    <2>2. working \in 0 .. N /\ searching \in 0 .. N
      BY <2>0, <2>1, CountableSizes, Sizes DEF Counted, Bounded
    <2>3. /\ queue \in [Workers -> 0 .. Capacity] /\ n \in [Workers -> 0 .. Capacity]
          /\ \A w \in Workers : Room(w) >= 0
      <3>1. Capacity \in Nat /\ queue \in [Workers -> Nat] /\ n \in [Workers -> 0 .. Capacity]
        BY <2>0, SizesPositive DEF Rings
      <3>2. \A w \in Workers : Stolen(w) \in Nat /\ queue[w] + Stolen(w) <= Capacity
        BY <2>0, Halves, StolenFits DEF Rings
      <3>3. \A w \in Workers : queue[w] \in 0 .. Capacity /\ Room(w) >= 0
        BY <3>1, <3>2 DEF Room
      <3> QED  BY <3>1, <3>3
    <2>4. io \in [Workers -> 0 .. Fuel] /\ fuel \in 0 .. Fuel /\ holder \in Actors \cup {Nobody}
      <3>1. /\ io \in [Workers -> Nat] /\ fuel \in Nat /\ Fuel \in Nat
            /\ \A w \in Workers : io[w] + fuel <= Fuel
        BY <2>0, SizesPositive DEF Spent
      <3>2. \A w \in Workers : io[w] \in 0 .. Fuel
        BY <3>1
      <3>3. fuel <= Fuel
        <4>1. PICK w \in Workers : TRUE
          BY ActorsDistinct
        <4> QED  BY <3>1, <4>1
      <3> QED  BY <2>0, <3>1, <3>2, <3>3 DEF Spent
    <2>5. /\ pc \in [Actors -> WorkerLabels \cup NotifyLabels \cup {"outside"}]
          /\ after \in [Actors -> WorkerLabels \cup {"outside"}]
      <3>1. Returns \subseteq WorkerLabels \cup {"outside"}
        BY DEF Returns, WorkerLabels
      <3> QED  BY <2>0, <3>1 DEF Phases, Typed, Labels
    <2>6. /\ lifo \in [Workers -> BOOLEAN] /\ thief \in [Workers -> Workers \cup {Nobody}]
          /\ global \in Nat
      BY <2>0 DEF Rings
    <2>7. /\ sleepers \subseteq Workers /\ closed \in BOOLEAN
          /\ flag \in [Workers -> BOOLEAN] /\ down \in [Workers -> BOOLEAN]
      BY <2>0 DEF Phases, Typed
    <2>8. /\ wake \in [Workers -> BOOLEAN] /\ target \in [Actors -> Workers \cup {Nobody}]
          /\ left \in [Actors -> SUBSET Workers]
      BY <2>0 DEF Chosen, Told
    <2> QED  BY <2>2, <2>3, <2>4, <2>5, <2>6, <2>7, <2>8 DEF TypeOK
  <1> QED  BY <1>1, <1>2, <1>3, AwakeInvariant, IdleInvariant, PTL DEF Spec
=============================================================================
