----------------------------- MODULE PoolProofs -----------------------------
(***************************************************************************)
(* The rings of LocalQueue implement the queues of WorkPool, for any       *)
(* number of workers, any tasks and rings of any even capacity.            *)
(*                                                                         *)
(* The queue of a worker is a row of slots of its ring, from real to tail. *)
(* The lemmas say how such a row is cut and joined (RowFirst, RowRest,     *)
(* RowJoined), and from them what a step does to all queues at once: none  *)
(* changes (RingsSame, Quiet), one grows at its end (QueueGrows), one      *)
(* loses its oldest tasks (QueueShrinks).  Then each action of LocalQueue  *)
(* is shown to be an action of WorkPool or to change nothing of it, from   *)
(* the invariant RingInv of LocalQueueProofs.                              *)
(***************************************************************************)
EXTENDS LocalQueueProofs

(* What n slots of w's ring hold, from the counter c on.                   *)
Row(w, c, n) == [i \in 1 .. n |-> buf[w][Slot(Add(c, i - 1))]]

AllTasks(w, c, n) == \A i \in 0 .. n - 1 : buf[w][Slot(Add(c, i))] \in Tasks

(* s lies there.                                                           *)
Lies(w, c, s) == \A i \in 1 .. Len(s) : buf[w][Slot(Add(c, i - 1))] = s[i]

LEMMA RowFacts ==
  ASSUME NEW w, NEW c, NEW n \in Nat, AllTasks(w, c, n)
  PROVE  /\ Row(w, c, n) \in Seq(Tasks) /\ Len(Row(w, c, n)) = n
         /\ \A i \in 1 .. n : Row(w, c, n)[i] = buf[w][Slot(Add(c, i - 1))]
  <1> DEFINE f == [i \in 1 .. n |-> buf[w][Slot(Add(c, i - 1))]]
  <1>1. \A i \in 1 .. n : buf[w][Slot(Add(c, i - 1))] \in Tasks
    <2> SUFFICES ASSUME NEW i \in 1 .. n PROVE buf[w][Slot(Add(c, i - 1))] \in Tasks
      OBVIOUS
    <2>1. i - 1 \in 0 .. n - 1
      OBVIOUS
    <2> QED  BY <2>1 DEF AllTasks
  <1>2. f \in Seq(Tasks) /\ Len(f) = n
    BY <1>1
  <1> QED  BY <1>2 DEF Row

LEMMA RowFirst ==
  ASSUME NEW w, NEW c, NEW n \in Nat, AllTasks(w, c, n), NEW k \in 0 .. n
  PROVE  /\ SubSeq(Row(w, c, n), 1, k) = Row(w, c, k) /\ AllTasks(w, c, k)
  <1>0. k \in Nat /\ AllTasks(w, c, k)
    BY DEF AllTasks
  <1> DEFINE s == Row(w, c, n)
             t == Row(w, c, k)
  <1>1. /\ s \in Seq(Tasks) /\ Len(s) = n /\ t \in Seq(Tasks) /\ Len(t) = k
        /\ \A i \in 1 .. n : s[i] = buf[w][Slot(Add(c, i - 1))]
        /\ \A i \in 1 .. k : t[i] = buf[w][Slot(Add(c, i - 1))]
    BY <1>0, RowFacts
  <1> HIDE DEF s, t
  <1>2. SubSeq(s, 1, k) \in Seq(Tasks) /\ Len(SubSeq(s, 1, k)) = k
        /\ \A i \in 1 .. k : SubSeq(s, 1, k)[i] = s[i]
    BY <1>0, <1>1
  <1>3. SubSeq(s, 1, k) = t
    BY <1>0, <1>1, <1>2, SeqEqual, SMTT(30)
  <1> QED  BY <1>0, <1>3 DEF s, t

LEMMA RowRest ==
  ASSUME NEW w, NEW c \in Counter, NEW n \in Nat, AllTasks(w, c, n), NEW k \in 0 .. n
  PROVE  /\ SubSeq(Row(w, c, n), k + 1, n) = Row(w, Add(c, k), n - k)
         /\ AllTasks(w, Add(c, k), n - k)
  <1>0. k \in Nat /\ n - k \in Nat
    OBVIOUS
  <1>1. PICK m \in Nat : m = n - k
    BY <1>0
  <1>2. PICK d \in Counter : d = Add(c, k)
    BY <1>0, CounterOps
  <1>3. ASSUME NEW i \in 0 .. m - 1 PROVE Add(d, i) = Add(c, k + i) /\ k + i \in 0 .. n - 1
    BY <1>0, <1>1, <1>2, AddAdd
  <1>4. AllTasks(w, d, m)
    BY <1>3 DEF AllTasks
  <1> DEFINE s == Row(w, c, n)
             t == Row(w, d, m)
  <1>5. /\ s \in Seq(Tasks) /\ Len(s) = n /\ t \in Seq(Tasks) /\ Len(t) = m
        /\ \A i \in 1 .. n : s[i] = buf[w][Slot(Add(c, i - 1))]
        /\ \A i \in 1 .. m : t[i] = buf[w][Slot(Add(d, i - 1))]
    BY <1>4, RowFacts
  <1> HIDE DEF s, t
  <1>6. PICK u : u = SubSeq(s, k + 1, n)
    OBVIOUS
  <1>7. u \in Seq(Tasks) /\ Len(u) = m /\ \A i \in 1 .. m : u[i] = s[k + i]
    <2>1. PICK j \in Nat : j = k + 1
      BY <1>0
    <2>2. \A i \in j .. n : s[i] \in Tasks
      BY <1>5, <2>1
    <2>3. /\ SubSeq(s, j, n) \in Seq(Tasks)
          /\ Len(SubSeq(s, j, n)) = IF j <= n THEN n - j + 1 ELSE 0
          /\ \A i \in 1 .. n - j + 1 : SubSeq(s, j, n)[i] = s[j + i - 1]
      BY <2>2, SubSeqProperties
    <2>4. n - j + 1 = m /\ (IF j <= n THEN n - j + 1 ELSE 0) = m
      BY <1>0, <1>1, <2>1
    <2>5. \A i \in 1 .. m : j + i - 1 = k + i
      BY <2>1
    <2> QED  BY <1>6, <2>1, <2>3, <2>4, <2>5
  <1>8. ASSUME NEW i \in 1 .. m PROVE u[i] = t[i]
    <2>1. i - 1 \in 0 .. m - 1 /\ k + i \in 1 .. n /\ k + (i - 1) = (k + i) - 1
      BY <1>0, <1>1
    <2>2. Add(d, i - 1) = Add(c, k + (i - 1))
      BY <1>3, <2>1
    <2> QED  BY <1>5, <1>7, <2>1, <2>2, SMTT(30)
  <1>9. u = t
    BY <1>5, <1>7, <1>8, SeqEqual
  <1> QED  BY <1>1, <1>2, <1>4, <1>6, <1>9 DEF s, t

LEMMA RowJoined ==
  ASSUME NEW w, NEW c \in Counter, NEW n \in Nat, AllTasks(w, c, n), NEW s \in Seq(Tasks),
         Lies(w, Add(c, n), s)
  PROVE  Row(w, c, n + Len(s)) = Row(w, c, n) \o s
  <1>0. ASSUME NEW i \in 1 .. Len(s) PROVE buf[w][Slot(Add(c, n + (i - 1)))] = s[i]
    <2>1. PICK j \in Nat : j = i - 1
      OBVIOUS
    <2>2. Add(Add(c, n), j) = Add(c, n + j)
      BY AddAdd
    <2> QED  BY <2>1, <2>2 DEF Lies
  <1>1. PICK m \in Nat, k \in Nat : m = Len(s) /\ k = n + m
    OBVIOUS
  <1>2. ASSUME NEW i \in 1 .. k
        PROVE  IF i <= n THEN i \in 1 .. n ELSE i - n \in 1 .. m /\ n + ((i - n) - 1) = i - 1
    BY <1>1
  <1>3. ASSUME NEW j \in 0 .. k - 1
        PROVE  buf[w][Slot(Add(c, j))] \in Tasks
    <2>1. CASE j < n
      BY <2>1 DEF AllTasks
    <2>2. CASE ~(j < n)
      <3>1. PICK i \in 1 .. m : n + (i - 1) = j
        <4>1. (j - n) + 1 \in 1 .. m /\ n + (((j - n) + 1) - 1) = j
          BY <1>1, <2>2
        <4> QED  BY <4>1
      <3>2. buf[w][Slot(Add(c, j))] = s[i]
        BY <1>0, <1>1, <3>1
      <3> QED  BY <1>1, <3>1, <3>2
    <2> QED  BY <2>1, <2>2
  <1> DEFINE r == Row(w, c, n)
             t == Row(w, c, k)
  <1>4. /\ r \in Seq(Tasks) /\ Len(r) = n /\ t \in Seq(Tasks) /\ Len(t) = k
        /\ \A i \in 1 .. n : r[i] = buf[w][Slot(Add(c, i - 1))]
        /\ \A i \in 1 .. k : t[i] = buf[w][Slot(Add(c, i - 1))]
    <2>1. AllTasks(w, c, k) /\ k \in Nat
      BY <1>3 DEF AllTasks
    <2>2. /\ r \in Seq(Tasks) /\ Len(r) = n
          /\ \A i \in 1 .. n : r[i] = buf[w][Slot(Add(c, i - 1))]
      BY RowFacts
    <2>3. /\ t \in Seq(Tasks) /\ Len(t) = k
          /\ \A i \in 1 .. k : t[i] = buf[w][Slot(Add(c, i - 1))]
      BY <2>1, RowFacts
    <2> QED  BY <2>2, <2>3
  <1> HIDE DEF r, t
  <1>5. PICK u : u = r \o s
    OBVIOUS
  <1>6. u \in Seq(Tasks) /\ Len(u) = k
        /\ \A i \in 1 .. k : u[i] = IF i <= n THEN r[i] ELSE s[i - n]
    BY <1>1, <1>4, <1>5, ConcatProperties
  <1>7. ASSUME NEW i \in 1 .. k PROVE t[i] = u[i]
    <2>1. CASE i <= n
      BY <1>2, <1>4, <1>6, <2>1
    <2>2. CASE ~(i <= n)
      <3>1. i - n \in 1 .. m /\ n + ((i - n) - 1) = i - 1
        BY <1>2, <2>2
      <3>2. buf[w][Slot(Add(c, i - 1))] = s[i - n]
        BY <1>0, <1>1, <3>1
      <3> QED  BY <1>4, <1>6, <2>2, <3>2
    <2> QED  BY <2>1, <2>2
  <1>8. t = u
    BY <1>4, <1>6, <1>7, SeqEqual
  <1> QED  BY <1>1, <1>5, <1>8 DEF r, t

-----------------------------------------------------------------------------
(* The queue of w is a row of its slots, all in use.                       *)
LEMMA ContentsFacts ==
  ASSUME RingInv, NEW w \in Workers
  PROVE  /\ Contents(w) = Row(w, head[w].real, Length(w))
         /\ AllTasks(w, head[w].real, Length(w))
         /\ Contents(w) \in Seq(Tasks) /\ Len(Contents(w)) = Length(w)
         /\ Length(w) \in Nat /\ Length(w) <= Used(w) /\ Used(w) <= Capacity
         /\ head[w].real \in Counter /\ tail[w] = Add(head[w].real, Length(w))
         /\ Queues[w] = Contents(w) /\ Flights[w] = InFlight(w)
  <1>1. /\ Length(w) \in Nat /\ Used(w) \in Nat /\ Held(w) \in Nat
        /\ Length(w) = Used(w) - Held(w) /\ Used(w) <= Capacity
        /\ head[w].real \in Counter /\ head[w].steal \in Counter /\ tail[w] \in Counter
        /\ head[w].real = Add(head[w].steal, Held(w)) /\ Filled(w)
    BY Frame, RingFacts
  <1>2. Length(w) <= Used(w)
    BY <1>1
  <1>3. AllTasks(w, head[w].real, Length(w))
    <2> SUFFICES ASSUME NEW i \in 0 .. Length(w) - 1
                 PROVE  buf[w][Slot(Add(head[w].real, i))] \in Tasks
      BY DEF AllTasks
    <2>1. PICK h \in Nat, j \in Nat, s \in Counter : h = Held(w) /\ j = i /\ s = head[w].steal
      BY <1>1
    <2>2. h + j \in 0 .. Used(w) - 1
      BY <1>1, <2>1
    <2>3. Add(Add(s, h), j) = Add(s, h + j)
      BY AddAdd
    <2> QED  BY <1>1, <2>1, <2>2, <2>3 DEF Filled
  <1>4. Contents(w) = Row(w, head[w].real, Length(w))
    BY DEF Contents, Row, Length
  <1>5. Contents(w) \in Seq(Tasks) /\ Len(Contents(w)) = Length(w)
    BY <1>1, <1>3, <1>4, RowFacts
  <1>6. tail[w] = Add(head[w].real, Length(w))
    BY <1>1, AddSub DEF Length
  <1> QED  BY <1>1, <1>2, <1>3, <1>4, <1>5, <1>6 DEF Queues, Flights

(* The queue of w is another row of the same slots.                        *)
LEMMA ContentsNext ==
  ASSUME NEW w \in Workers, buf'[w] = buf[w]
  PROVE  Contents(w)' = Row(w, head'[w].real, Length(w)')
  BY DEF Contents, Row, Length

(* Slots in use are not written.                                           *)
LEMMA ContentsStay ==
  ASSUME RingInv, NEW w \in Workers, head'[w].real = head[w].real, tail'[w] = tail[w],
         \A i \in 0 .. Used(w) - 1 :
           buf'[w][Slot(Add(head[w].steal, i))] = buf[w][Slot(Add(head[w].steal, i))]
  PROVE  Contents(w)' = Contents(w)
  <1>1. PICK n \in Nat, h \in Nat, u \in Nat :
          n = Length(w) /\ h = Held(w) /\ u = Used(w) /\ n = u - h /\ h <= u
    BY Frame DEF Ordered
  <1>2. PICK s \in Counter, r \in Counter : s = head[w].steal /\ r = head[w].real
          /\ r = Add(s, h)
    BY <1>1, Frame, RingFacts
  <1>3. ASSUME NEW i \in 1 .. n
        PROVE  buf'[w][Slot(Add(r, i - 1))] = buf[w][Slot(Add(r, i - 1))]
    <2>0. PICK j \in Nat : j = i - 1
      BY <1>1
    <2>1. h + j \in 0 .. u - 1
      BY <1>1, <2>0
    <2>2. Add(Add(s, h), j) = Add(s, h + j)
      BY AddAdd
    <2> QED  BY <1>1, <1>2, <2>0, <2>1, <2>2
  <1>4. /\ Contents(w) = [i \in 1 .. n |-> buf[w][Slot(Add(r, i - 1))]]
        /\ Contents(w)' = [i \in 1 .. n |-> buf'[w][Slot(Add(r, i - 1))]]
    BY <1>1, <1>2 DEF Contents, Length
  <1> QED  BY <1>3, <1>4

(* What a thief has claimed and what another worker is moving stay, if     *)
(* nobody writes to slots in use.                                          *)
LEMMA InFlightStays ==
  ASSUME RingInv, NEW a \in Workers, Others(a),
         \A i \in 0 .. Used(a) - 1 :
           buf'[a][Slot(Add(head[a].steal, i))] = buf[a][Slot(Add(head[a].steal, i))],
         NEW w \in Workers \ {a}
  PROVE  InFlight(w)' = InFlight(w)
  <1>1. pc'[w] = pc[w] /\ reg'[w] = reg[w] /\ buf'[w] = buf[w]
    BY DEF Others
  <1>2. PICK r : r = reg[w]
    OBVIOUS
  <1>3. r.n \in Nat /\ r.i \in Nat /\ r.head.steal \in Counter
    BY <1>2, Frame
  <1>4. CASE pc[w] \in {"copy", "release", "keep"}
    <2> DEFINE Old(i) == IF i <= r.i THEN buf[w][Slot(Add(r.to, i - 1))]
                         ELSE buf[r.src][Slot(Add(r.head.steal, i - 1))]
               New(i) == IF i <= r.i THEN buf'[w][Slot(Add(r.to, i - 1))]
                         ELSE buf'[r.src][Slot(Add(r.head.steal, i - 1))]
    <2>1. /\ InFlight(w) = [origin |-> "steal", tasks |-> [i \in 1 .. r.n |-> Old(i)]]
          /\ InFlight(w)' = [origin |-> "steal", tasks |-> [i \in 1 .. r.n |-> New(i)]]
      BY <1>1, <1>2, <1>4 DEF InFlight
    <2>2. ASSUME NEW i \in 1 .. r.n PROVE New(i) = Old(i)
      <3>1. CASE i <= r.i
        BY <1>1, <3>1
      <3>2. CASE ~(i <= r.i)
        <4>1. pc[w] = "copy"
          <5>1. pc[w] \in {"release", "keep"} => r.i = r.n
            BY <1>2, Frame DEF Owns
          <5> QED  BY <1>3, <1>4, <3>2, <5>1
        <4>2. r.src \in Workers /\ head[r.src].steal = r.head.steal /\ r.n <= Held(r.src)
          <5>1. r.src \in Workers
            BY <1>2, <4>1, SourceKnown DEF Stealing
          <5>2. Copying(w, r.src)
            BY <1>2, <4>1 DEF Copying
          <5> QED  BY <1>2, <5>1, <5>2, Frame DEF Aims
        <4>3. buf'[r.src][Slot(Add(r.head.steal, i - 1))]
                = buf[r.src][Slot(Add(r.head.steal, i - 1))]
          <5>1. CASE r.src = a
            <6>1. r.n <= Used(a) /\ Used(a) \in Nat
              <7>1. Held(a) \in Nat /\ Used(a) \in Nat /\ Held(a) <= Used(a)
                BY Frame DEF Ordered
              <7> QED  BY <1>3, <4>2, <5>1, <7>1
            <6>2. i - 1 \in 0 .. Used(a) - 1
              BY <1>3, <6>1
            <6> QED  BY <4>2, <5>1, <6>2
          <5>2. CASE r.src # a
            BY <4>2, <5>2 DEF Others
          <5> QED  BY <5>1, <5>2
        <4> QED  BY <3>2, <4>3
      <3> QED  BY <3>1, <3>2
    <2>3. [i \in 1 .. r.n |-> Old(i)] = [i \in 1 .. r.n |-> New(i)]
      BY <2>2
    <2> HIDE DEF Old, New
    <2> QED  BY <2>1, <2>3
  <1>5. CASE pc[w] = "spill"
    BY <1>1, <1>5 DEF InFlight, Spilled
  <1>6. CASE pc[w] \in {"batch", "batch_publish"}
    BY <1>1, <1>6 DEF InFlight
  <1>7. CASE pc[w] \notin {"copy", "release", "keep", "spill", "batch", "batch_publish"}
    BY <1>1, <1>7 DEF InFlight
  <1> QED  BY <1>4, <1>5, <1>6, <1>7

(* So only the acting worker's, and one queue, change.                     *)
LEMMA QueuesChange ==
  ASSUME NEW v \in Workers, \A w \in Workers \ {v} : Contents(w)' = Contents(w)
  PROVE  /\ Queues' = [Queues EXCEPT ![v] = Contents(v)']
         /\ Contents(v)' = Contents(v) => Queues' = Queues
  BY DEF Queues

LEMMA FlightsChange ==
  ASSUME NEW v \in Workers, \A w \in Workers \ {v} : InFlight(w)' = InFlight(w)
  PROVE  /\ Flights' = [Flights EXCEPT ![v] = InFlight(v)']
         /\ InFlight(v)' = InFlight(v) => Flights' = Flights
  BY DEF Flights

(* What a step of a leaves alone in the pool: all queues but v's, and what *)
(* the others move.                                                        *)
LEMMA StepFrame ==
  ASSUME RingInv, NEW a \in Workers, NEW v \in Workers, Others(a),
         \A i \in 0 .. Used(a) - 1 :
           buf'[a][Slot(Add(head[a].steal, i))] = buf[a][Slot(Add(head[a].steal, i))],
         \A w \in Workers \ {v} : head'[w].real = head[w].real /\ tail'[w] = tail[w]
  PROVE  /\ Queues' = [Queues EXCEPT ![v] = Contents(v)']
         /\ Flights' = [Flights EXCEPT ![a] = InFlight(a)']
         /\ Contents(v)' = Contents(v) => Queues' = Queues
         /\ InFlight(a)' = InFlight(a) => Flights' = Flights
  <1>1. ASSUME NEW w \in Workers \ {v} PROVE Contents(w)' = Contents(w)
    <2>1. CASE w = a
      BY <2>1, ContentsStay
    <2>2. CASE w # a
      <3>1. buf'[w] = buf[w]
        BY <2>2 DEF Others
      <3> QED  BY <3>1, ContentsStay
    <2> QED  BY <2>1, <2>2
  <1>2. ASSUME NEW w \in Workers \ {a} PROVE InFlight(w)' = InFlight(w)
    BY InFlightStays
  <1> QED  BY <1>1, <1>2, QueuesChange, FlightsChange

Moving == {"copy", "release", "keep", "spill", "batch", "batch_publish"}

LEMMA EmptyHanded ==
  ASSUME NEW w \in Workers
  PROVE  /\ pc[w] \notin Moving => InFlight(w) = Pool!Nothing
         /\ pc'[w] \notin Moving => InFlight(w)' = Pool!Nothing
  BY DEF InFlight, Pool!Nothing, Moving

PoolRests == UNCHANGED <<todo, Queues, global, Flights, ran>>

(* A worker that moves nothing and goes on to move nothing.                *)
LEMMA Quiet ==
  ASSUME RingInv, NEW a \in Workers, UNCHANGED <<rings, global, todo, ran>>,
         NEW label \in Labels \ Moving, pc[a] \notin Moving, pc' = [pc EXCEPT ![a] = label],
         \A w \in Workers \ {a} : reg'[w] = reg[w]
  PROVE  PoolRests
  <1>1. head' = head /\ tail' = tail /\ buf' = buf /\ pc'[a] = label
        /\ \A w \in Workers \ {a} : pc'[w] = pc[w]
    BY Frame DEF rings
  <1>2. Others(a)
    BY <1>1 DEF Others
  <1>3. InFlight(a)' = InFlight(a)
    BY <1>1, EmptyHanded
  <1>4. Contents(a)' = Contents(a)
    BY <1>1, ContentsStay
  <1> QED  BY <1>1, <1>2, <1>3, <1>4, StepFrame DEF PoolRests

-----------------------------------------------------------------------------
LEMMA PushDecideRests ==
  ASSUME RingInv, NEW w \in Workers, NEW t, PushDecide(w, t), pc[w] \notin Moving
  PROVE  PoolRests
  <1>1. PICK label \in {"store", "share", "overflow"} :
          pc' = [pc EXCEPT ![w] = label] /\ UNCHANGED <<rings, global, todo, ran>>
    BY DEF PushDecide, Goto
  <1>2. label \in Labels \ Moving
    BY DEF Labels, Pushing, Moving
  <1>3. \A v \in Workers \ {w} : reg'[v] = reg[v]
    BY Frame DEF PushDecide, Set
  <1> QED  BY <1>1, <1>2, <1>3, Quiet

LEMMA ReturnRests ==
  ASSUME RingInv, NEW w \in Workers, Return(w), UNCHANGED <<rings, global, todo, ran>>,
         pc[w] \notin Moving
  PROVE  PoolRests
  <1>1. "idle" \in Labels \ Moving
    BY DEF Labels, Moving
  <1>2. pc' = [pc EXCEPT ![w] = "idle"] /\ \A v \in Workers \ {w} : reg'[v] = reg[v]
    BY Frame DEF Return, Goto, Set
  <1> QED  BY <1>1, <1>2, Quiet

LEMMA PopDecideRests ==
  ASSUME RingInv, NEW w \in Workers, PopDecide(w), pc[w] \notin Moving
  PROVE  PoolRests
  <1>1. CASE Return(w)
    BY <1>1, ReturnRests DEF PopDecide
  <1>2. CASE Goto(w, "pop") /\ Set(w, [NoRegs EXCEPT !.head = head[w]])
    <2>1. "pop" \in Labels \ Moving
      BY DEF Labels, Moving
    <2>2. pc' = [pc EXCEPT ![w] = "pop"] /\ \A v \in Workers \ {w} : reg'[v] = reg[v]
      BY <1>2, Frame DEF Goto, Set
    <2> QED  BY <2>1, <2>2, Quiet DEF PopDecide
  <1> QED  BY <1>1, <1>2 DEF PopDecide

(* The steps that only look.                                               *)
LEMMA LooksRest ==
  ASSUME RingInv, NEW w \in Workers,
         PushBegin(w) \/ PopBegin(w) \/ StealBegin(w) \/ StealLook(w) \/ FetchSize(w)
  PROVE  PoolRests
  <1>1. ASSUME PushBegin(w) PROVE PoolRests
    <2>1. pc[w] \notin Moving /\ PushDecide(w, Head(todo[w]))
      BY <1>1 DEF PushBegin, Moving
    <2> QED  BY <2>1, PushDecideRests
  <1>2. ASSUME PopBegin(w) PROVE PoolRests
    <2>1. pc[w] \notin Moving /\ PopDecide(w)
      BY <1>2 DEF PopBegin, Moving
    <2> QED  BY <2>1, PopDecideRests
  <1>3. ASSUME StealBegin(w) PROVE PoolRests
    <2>1. pc[w] \notin Moving /\ "look" \in Labels \ Moving
          /\ pc' = [pc EXCEPT ![w] = "look"] /\ UNCHANGED <<rings, global, todo, ran>>
      BY <1>3 DEF StealBegin, Moving, Labels, Stealing, Goto
    <2>2. \A v \in Workers \ {w} : reg'[v] = reg[v]
      BY <1>3, Frame DEF StealBegin, Set
    <2> QED  BY <2>1, <2>2, Quiet
  <1>4. ASSUME StealLook(w) PROVE PoolRests
    <2>1. pc[w] \notin Moving /\ UNCHANGED <<rings, global, todo, ran>>
      BY <1>4 DEF StealLook, Moving
    <2>2. CASE Return(w)
      BY <2>1, <2>2, ReturnRests
    <2>3. ASSUME NEW n, Goto(w, "claim"), reg' = [reg EXCEPT ![w].n = n] PROVE PoolRests
      <3>1. "claim" \in Labels \ Moving /\ pc' = [pc EXCEPT ![w] = "claim"]
        BY <2>3 DEF Labels, Stealing, Moving, Goto
      <3>2. \A v \in Workers \ {w} : reg'[v] = reg[v]
        BY <2>3, Frame
      <3> QED  BY <2>1, <3>1, <3>2, Quiet
    <2> QED  BY <1>4, <2>2, <2>3 DEF StealLook
  <1>5. ASSUME FetchSize(w) PROVE PoolRests
    <2>1. pc[w] \notin Moving /\ "fetch" \in Labels \ Moving
          /\ pc' = [pc EXCEPT ![w] = "fetch"] /\ UNCHANGED <<rings, global, todo, ran>>
      BY <1>5 DEF FetchSize, Moving, Labels, Fetching, Goto
    <2>2. \A v \in Workers \ {w} : reg'[v] = reg[v]
      BY <1>5, Frame DEF FetchSize
    <2> QED  BY <2>1, <2>2, Quiet
  <1> QED  BY <1>1, <1>2, <1>3, <1>4, <1>5

-----------------------------------------------------------------------------
(* No counter moves: only what w holds may change.                         *)
LEMMA RingsSame ==
  ASSUME RingInv, NEW w \in Workers, UNCHANGED rings, Others(w)
  PROVE  Queues' = Queues /\ Flights' = [Flights EXCEPT ![w] = InFlight(w)']
  <1>1. head' = head /\ tail' = tail /\ buf' = buf
    BY DEF rings
  <1>2. Contents(w)' = Contents(w)
    BY <1>1, ContentsStay
  <1> QED  BY <1>1, <1>2, StepFrame

(* w publishes the tasks s that it has stored behind its tail.             *)
LEMMA QueueGrows ==
  ASSUME RingInv, NEW w \in Workers, head' = head, buf' = buf, Others(w),
         NEW k \in Nat, Used(w) + k <= Capacity, tail' = [tail EXCEPT ![w] = Add(@, k)],
         NEW s \in Seq(Tasks), Len(s) = k, Lies(w, tail[w], s)
  PROVE  /\ Queues' = [Queues EXCEPT ![w] = @ \o s]
         /\ Flights' = [Flights EXCEPT ![w] = InFlight(w)']
  <1>1. Typed /\ Ordered(w) /\ Filled(w)
    BY Frame
  <1>2. tail'[w] = Add(tail[w], k) /\ \A x \in Workers \ {w} : tail'[x] = tail[x]
    BY <1>1 DEF Typed
  <1>3. /\ Contents(w) = Row(w, head[w].real, Length(w))
        /\ AllTasks(w, head[w].real, Length(w)) /\ Length(w) \in Nat /\ Length(w) <= Used(w)
        /\ head[w].real \in Counter /\ tail[w] = Add(head[w].real, Length(w))
        /\ Queues[w] = Contents(w)
    BY ContentsFacts
  <1>4. Length(w)' = Length(w) + k
    <2>1. Length(w) + k < Modulus
      <3>1. PICK l \in Nat, u \in Nat : l = Length(w) /\ u = Used(w) /\ l <= u
        BY <1>3, Frame
      <3>2. l + k < Modulus
        BY <3>1, Sizes
      <3> QED  BY <3>1, <3>2
    <2>2. Sub(tail[w], head[w].real) + k < Modulus /\ tail[w] \in Counter
      BY <2>1, Frame DEF Length
    <2>3. Sub(Add(tail[w], k), head[w].real) = Sub(tail[w], head[w].real) + k
      BY <1>3, <2>2, AddGrows
    <2> QED  BY <1>2, <2>3 DEF Length
  <1>5. Contents(w)' = Contents(w) \o s
    <2>1. Contents(w)' = Row(w, head[w].real, Length(w) + Len(s))
      BY <1>4, ContentsNext
    <2>2. Row(w, head[w].real, Length(w) + Len(s)) = Row(w, head[w].real, Length(w)) \o s
      BY <1>3, RowJoined
    <2> QED  BY <1>3, <2>1, <2>2
  <1>6. /\ Queues' = [Queues EXCEPT ![w] = Contents(w)']
        /\ Flights' = [Flights EXCEPT ![w] = InFlight(w)']
    BY <1>2, StepFrame
  <1> QED  BY <1>3, <1>5, <1>6

(* The k oldest tasks of v are taken by a.                                 *)
LEMMA QueueShrinks ==
  ASSUME RingInv, NEW a \in Workers, NEW v \in Workers, Others(a),
         NEW j \in Nat, NEW k \in Nat, Takes(v, j, k)
  PROVE  /\ Queues[v] \in Seq(Tasks) /\ Len(Queues[v]) = Length(v)
         /\ 0 < k /\ k <= Length(v) /\ Length(v) \in Nat
         /\ Queues' = [Queues EXCEPT ![v] = SubSeq(@, k + 1, Len(@))]
         /\ SubSeq(Queues[v], 1, k) = Row(v, head[v].real, k)
         /\ AllTasks(v, head[v].real, k)
         /\ Flights' = [Flights EXCEPT ![a] = InFlight(a)']
  <1>1. /\ tail' = tail /\ buf' = buf /\ 0 < k /\ k <= Length(v)
        /\ head' = [head EXCEPT ![v] =
                     [steal |-> Add(head[v].steal, j), real |-> Add(head[v].real, k)]]
    BY DEF Takes
  <1>2. /\ head'[v].real = Add(head[v].real, k) /\ \A x \in Workers \ {v} : head'[x] = head[x]
        /\ tail[v] \in Counter
    BY <1>1, Frame DEF Typed
  <1>3. /\ Contents(v) = Row(v, head[v].real, Length(v))
        /\ AllTasks(v, head[v].real, Length(v)) /\ Length(v) \in Nat
        /\ Contents(v) \in Seq(Tasks) /\ Len(Contents(v)) = Length(v)
        /\ head[v].real \in Counter /\ Queues[v] = Contents(v)
    BY ContentsFacts
  <1>4. Length(v)' = Length(v) - k
    <2>1. k <= Sub(tail[v], head[v].real)
      BY <1>1 DEF Length
    <2>2. Sub(tail[v], Add(head[v].real, k)) = Sub(tail[v], head[v].real) - k
      BY <1>2, <1>3, <2>1, SubShrinks
    <2> QED  BY <1>1, <1>2, <2>2 DEF Length
  <1>5. k \in 0 .. Length(v)
    BY <1>1, <1>3
  <1>6. Contents(v)' = SubSeq(Contents(v), k + 1, Len(Contents(v)))
    <2>1. Contents(v)' = Row(v, Add(head[v].real, k), Length(v) - k)
      BY <1>1, <1>2, <1>4, ContentsNext
    <2>2. SubSeq(Row(v, head[v].real, Length(v)), k + 1, Length(v))
            = Row(v, Add(head[v].real, k), Length(v) - k)
      BY <1>3, <1>5, RowRest
    <2> QED  BY <1>3, <2>1, <2>2
  <1>7. /\ SubSeq(Contents(v), 1, k) = Row(v, head[v].real, k)
        /\ AllTasks(v, head[v].real, k)
    BY <1>3, <1>5, RowFirst
  <1>8. /\ Queues' = [Queues EXCEPT ![v] = Contents(v)']
        /\ Flights' = [Flights EXCEPT ![a] = InFlight(a)']
    BY <1>1, <1>2, StepFrame
  <1> QED  BY <1>1, <1>3, <1>6, <1>7, <1>8

-----------------------------------------------------------------------------
(* The steps that write slots nobody reads.                                *)
LEMMA StoresRest ==
  ASSUME RingInv, NEW w \in Workers, PushStore(w) \/ BatchStore(w)
  PROVE  PoolRests
  <1>1. /\ Others(w)
        /\ \A i \in 0 .. Used(w) - 1 :
             buf'[w][Slot(Add(head[w].steal, i))] = buf[w][Slot(Add(head[w].steal, i))]
    BY PushStoreWrites, BatchStoreWrites
  <1>2. UNCHANGED <<head, tail, global, todo, ran, reg>>
    BY DEF PushStore, BatchStore
  <1>3. InFlight(w)' = InFlight(w)
    <2>1. CASE PushStore(w)
      <3>1. pc[w] \notin Moving /\ pc'[w] \notin Moving
        BY <2>1, Frame DEF PushStore, Goto, Moving
      <3> QED  BY <3>1, EmptyHanded
    <2>2. CASE BatchStore(w)
      <3>1. pc[w] = "batch" /\ pc'[w] = "batch_publish"
        BY <2>2, Frame DEF BatchStore, Goto
      <3> QED  BY <1>2, <3>1 DEF InFlight
    <2> QED  BY <2>1, <2>2
  <1>4. Contents(w)' = Contents(w)
    BY <1>1, <1>2, ContentsStay
  <1> QED  BY <1>1, <1>2, <1>3, <1>4, StepFrame DEF PoolRests

LEMMA StealCopyRests ==
  ASSUME RingInv, NEW w \in Workers, StealCopy(w)
  PROVE  PoolRests
  <1>11. PICK v \in Workers : v = reg[w].src
    BY Frame DEF StealCopy, Owns, Stealing
  <1>12. PICK i \in Nat : i = reg[w].i
    BY Frame DEF StealCopy, Owns, Stealing
  <1>13. PICK t : t = buf[v][Slot(Add(reg[w].head.steal, i))]
    OBVIOUS
  <1>0. v = reg[w].src /\ i = reg[w].i /\ t = buf[v][Slot(Add(reg[w].head.steal, i))]
    BY <1>11, <1>12, <1>13
  <1>1. /\ pc[w] = "copy" /\ v # w /\ reg[w].to = tail[w]
        /\ reg[w].n \in 1 .. HalfRing /\ i < reg[w].n
    BY <1>0, StealCopyWrites
  <1>2. /\ buf'[w][Slot(Add(tail[w], i))] = t
        /\ \A k \in 0 .. i - 1 : buf'[w][Slot(Add(tail[w], k))] = buf[w][Slot(Add(tail[w], k))]
    BY <1>0, StealCopyWrites
  <1>3. Others(w)
    BY <1>0, StealCopyWrites
  <1>4. \A k \in 0 .. Used(w) - 1 :
          buf'[w][Slot(Add(head[w].steal, k))] = buf[w][Slot(Add(head[w].steal, k))]
    BY <1>0, StealCopyWrites
  <1>5. PICK n \in Nat, c \in Counter, h \in Counter :
          n = reg[w].n /\ c = tail[w] /\ h = reg[w].head.steal
    BY Frame
  <1>6. /\ pc'[w] \in {"copy", "release"} /\ UNCHANGED <<head, tail, global, todo, ran>>
        /\ reg'[w].i = i + 1 /\ reg'[w].n = n /\ reg'[w].to = c /\ reg'[w].src = v
        /\ reg'[w].head.steal = h
    <2>1. reg[w] \in Regs /\ reg' = [reg EXCEPT ![w].i = @ + 1]
          /\ pc' = [pc EXCEPT ![w] = IF i + 1 = n THEN "release" ELSE "copy"]
      BY <1>0, <1>5, Frame DEF StealCopy, Goto
    <2> QED  BY <1>0, <1>1, <1>5, <2>1, Frame DEF StealCopy, Regs
  <1> DEFINE Old(j) == IF j <= i THEN buf[w][Slot(Add(c, j - 1))]
                       ELSE buf[v][Slot(Add(h, j - 1))]
             New(j) == IF j <= i + 1 THEN buf'[w][Slot(Add(c, j - 1))]
                       ELSE buf'[v][Slot(Add(h, j - 1))]
  <1>7. /\ InFlight(w) = [origin |-> "steal", tasks |-> [j \in 1 .. n |-> Old(j)]]
        /\ InFlight(w)' = [origin |-> "steal", tasks |-> [j \in 1 .. n |-> New(j)]]
    BY <1>0, <1>1, <1>5, <1>6 DEF InFlight
  <1>8. ASSUME NEW j \in 1 .. n PROVE New(j) = Old(j)
    <2>1. PICK k \in Nat : k = j - 1
      OBVIOUS
    <2>2. CASE k < i
      <3>1. j <= i /\ j <= i + 1 /\ k \in 0 .. i - 1
        BY <2>1, <2>2
      <3>2. buf'[w][Slot(Add(c, k))] = buf[w][Slot(Add(c, k))]
        BY <1>2, <1>5, <3>1
      <3> QED  BY <2>1, <3>1, <3>2
    <2>3. CASE k = i
      <3>1. ~(j <= i) /\ j <= i + 1
        BY <2>1, <2>3
      <3>2. buf'[w][Slot(Add(c, k))] = buf[v][Slot(Add(h, k))]
        BY <1>0, <1>2, <1>5, <2>3
      <3> QED  BY <2>1, <3>1, <3>2
    <2>4. CASE k > i
      <3>1. ~(j <= i) /\ ~(j <= i + 1)
        BY <2>1, <2>4
      <3>2. buf'[v] = buf[v]
        BY <1>1, <1>3 DEF Others
      <3> QED  BY <3>1, <3>2
    <2> QED  BY <2>2, <2>3, <2>4
  <1>9. InFlight(w)' = InFlight(w)
    <2>1. [j \in 1 .. n |-> New(j)] = [j \in 1 .. n |-> Old(j)]
      BY <1>8
    <2> HIDE DEF Old, New
    <2> QED  BY <1>7, <2>1
  <1>10. Contents(w)' = Contents(w)
    BY <1>4, <1>6, ContentsStay
  <1> QED  BY <1>3, <1>4, <1>6, <1>9, <1>10, StepFrame DEF PoolRests

LEMMA StealReleaseRests ==
  ASSUME RingInv, NEW w \in Workers, StealRelease(w)
  PROVE  PoolRests
  <1>1. /\ UNCHANGED <<tail, buf, global, todo, ran, reg>>
        /\ pc[w] = "release" /\ pc'[w] = "keep" /\ Others(w)
    BY Frame DEF StealRelease, Goto, Others
  <1>2. \A x \in Workers : head'[x].real = head[x].real
    <2>1. reg[w].src \in Workers /\ head' = [head EXCEPT ![reg[w].src] = Released(@)]
      BY <1>1, SourceKnown DEF StealRelease, Stealing
    <2> QED  BY <2>1, Frame DEF Typed, Released
  <1>3. InFlight(w)' = InFlight(w)
    BY <1>1 DEF InFlight
  <1>4. Contents(w)' = Contents(w)
    BY <1>1, <1>2, ContentsStay
  <1> QED  BY <1>1, <1>2, <1>3, <1>4, StepFrame DEF PoolRests

-----------------------------------------------------------------------------
(* A worker that has nothing to move any more.                             *)
LEMMA ReturnsEmptyHanded ==
  ASSUME RingInv, NEW w \in Workers, Return(w)
  PROVE  /\ InFlight(w)' = Pool!Nothing
         /\ \A v \in Workers \ {w} : pc'[v] = pc[v] /\ reg'[v] = reg[v]
  <1>1. pc'[w] \notin Moving /\ \A v \in Workers \ {w} : pc'[v] = pc[v] /\ reg'[v] = reg[v]
    BY Frame DEF Return, Goto, Set, Moving
  <1> QED  BY <1>1, EmptyHanded

LEMMA PushPublishPushes ==
  ASSUME RingInv, NEW w \in Workers, PushPublish(w)
  PROVE  Pool!Push(w)
  <1>1. /\ pc[w] = "publish" /\ Return(w) /\ Scheduled(w)
        /\ tail' = [tail EXCEPT ![w] = Add(@, 1)] /\ UNCHANGED <<head, buf, global, ran>>
    BY DEF PushPublish
  <1>2. /\ Used(w) < Capacity /\ todo[w] # <<>> /\ reg[w].task = Head(todo[w])
        /\ buf[w][Slot(tail[w])] = reg[w].task /\ Typed
    BY <1>1, Frame DEF Owns, Wrote, Pushing
  <1>3. PICK t \in Tasks : t = Head(todo[w])
    BY <1>1, <1>2, ScheduledTyped
  <1>4. <<t>> \in Seq(Tasks) /\ Len(<<t>>) = 1 /\ <<t>>[1] = t
    OBVIOUS
  <1>5. Lies(w, tail[w], <<t>>)
    <2>1. Add(tail[w], 1 - 1) = tail[w]
      BY Frame, AddZero
    <2>2. \A i \in 1 .. 1 : buf[w][Slot(Add(tail[w], i - 1))] = <<t>>[i]
      BY <1>2, <1>3, <1>4, <2>1
    <2> QED  BY <1>4, <2>2 DEF Lies
  <1>6. Others(w)
    BY <1>1, <1>2, ScheduledTyped, ReturnsEmptyHanded DEF Others, Typed
  <1>7. Used(w) + 1 <= Capacity
    BY <1>2, Frame, Sizes
  <1>8. /\ Queues' = [Queues EXCEPT ![w] = @ \o <<t>>]
        /\ Flights' = [Flights EXCEPT ![w] = InFlight(w)']
    BY <1>1, <1>4, <1>5, <1>6, <1>7, QueueGrows
  <1>9. Queues[w] \in Seq(Tasks) /\ Len(Queues[w]) < Capacity
    <2>1. /\ Queues[w] \in Seq(Tasks) /\ Len(Queues[w]) = Length(w)
          /\ Length(w) \in Nat /\ Length(w) <= Used(w)
      BY ContentsFacts
    <2> QED  BY <1>2, <2>1, Frame, Sizes
  <1>10. Queues' = [Queues EXCEPT ![w] = Append(@, Head(todo[w]))]
    <2>1. Queues[w] \o <<t>> = Append(Queues[w], t)
      BY <1>9
    <2> QED  BY <1>3, <1>8, <2>1
  <1>11. InFlight(w) = Pool!Nothing /\ InFlight(w)' = Pool!Nothing
    BY <1>1, ReturnsEmptyHanded, EmptyHanded DEF Moving
  <1>12. Flights' = Flights
    <2>1. Flights[w] = Pool!Nothing
      BY <1>11 DEF Flights
    <2> QED  BY <1>8, <1>11, <2>1 DEF Flights
  <1> QED  BY <1>1, <1>2, <1>9, <1>10, <1>12 DEF Pool!Push, Scheduled

LEMMA PushShareShares ==
  ASSUME RingInv, NEW w \in Workers, PushShare(w)
  PROVE  Pool!PushShared(w)
  <1>1. /\ pc[w] = "share" /\ Return(w) /\ Scheduled(w) /\ UNCHANGED rings /\ ran' = ran
        /\ global' = Append(global, reg[w].task)
    BY DEF PushShare
  <1>2. todo[w] # <<>> /\ reg[w].task = Head(todo[w]) /\ Typed
    BY <1>1, Frame DEF Owns, Pushing
  <1>3. Others(w)
    BY <1>1, <1>2, ScheduledTyped, ReturnsEmptyHanded DEF Others, rings
  <1>4. Queues' = Queues /\ Flights' = [Flights EXCEPT ![w] = InFlight(w)']
    BY <1>1, <1>3, RingsSame
  <1>5. InFlight(w) = Pool!Nothing /\ InFlight(w)' = Pool!Nothing
    BY <1>1, ReturnsEmptyHanded, EmptyHanded DEF Moving
  <1>6. Flights' = Flights
    BY <1>4, <1>5 DEF Flights
  <1> QED  BY <1>1, <1>2, <1>4, <1>6 DEF Pool!PushShared, Scheduled

LEMMA OverflowClaimSpills ==
  ASSUME RingInv, NEW w \in Workers, OverflowClaim(w)
  PROVE  Pool!SpillOut(w) \/ PoolRests
  <1> DEFINE h == reg[w].head
  <1>1. /\ pc[w] = "overflow" /\ todo[w] # <<>> /\ h.steal = h.real
        /\ Sub(tail[w], h.real) = Capacity /\ pc[w] \notin Moving
    BY Frame DEF OverflowClaim, Owns, Pushing, Moving
  <1>2. CASE head[w] = h
    <2>1. Length(w) = Capacity /\ Held(w) = 0 /\ head[w].steal = head[w].real
      BY <1>1, <1>2, Frame, AddZero DEF Held, Length
    <2>2. /\ UNCHANGED <<tail, buf, global, todo, ran, reg>> /\ pc'[w] = "spill" /\ Others(w)
          /\ head' = [head EXCEPT ![w] = [steal |-> Add(h.real, Capacity \div 2),
                                          real |-> Add(h.real, Capacity \div 2)]]
      BY <1>2, Frame DEF OverflowClaim, Goto, Others
    <2>3. HalfRing \in Nat /\ 0 < HalfRing /\ HalfRing <= Capacity /\ Capacity \div 2 = HalfRing
      BY Sizes
    <2>4. Takes(w, HalfRing, HalfRing)
      <3>1. 0 < HalfRing /\ HalfRing <= Length(w) /\ HalfRing <= HalfRing
        BY <2>1, <2>3
      <3> QED  BY <1>1, <1>2, <2>1, <2>2, <2>3, <3>1 DEF Takes
    <2>5. /\ Len(Queues[w]) = Length(w)
          /\ Queues' = [Queues EXCEPT ![w] = SubSeq(@, HalfRing + 1, Len(@))]
          /\ SubSeq(Queues[w], 1, HalfRing) = Row(w, head[w].real, HalfRing)
          /\ Flights' = [Flights EXCEPT ![w] = InFlight(w)']
      <3>1. PICK k \in Nat : k = HalfRing
        BY <2>3
      <3>2. Others(w) /\ Takes(w, k, k)
        BY <2>2, <2>4, <3>1
      <3>3. /\ Len(Queues[w]) = Length(w)
            /\ Queues' = [Queues EXCEPT ![w] = SubSeq(@, k + 1, Len(@))]
            /\ SubSeq(Queues[w], 1, k) = Row(w, head[w].real, k)
            /\ Flights' = [Flights EXCEPT ![w] = InFlight(w)']
        BY <3>2, QueueShrinks
      <3> QED  BY <3>1, <3>3
    <2>6. InFlight(w)' = [origin |-> "spill", tasks |-> Row(w, head[w].real, HalfRing)]
      BY <1>2, <2>2, <2>3 DEF InFlight, Spilled, Row
    <2>7. Flights[w] = Pool!Nothing
      BY <1>1, EmptyHanded DEF Flights
    <2>8. Flights' = [Flights EXCEPT ![w] =
                        [origin |-> "spill", tasks |-> SubSeq(Queues[w], 1, Capacity \div 2)]]
      BY <2>3, <2>5, <2>6
    <2>9. Queues' = [Queues EXCEPT ![w] = SubSeq(@, Capacity \div 2 + 1, Capacity)]
      BY <2>1, <2>3, <2>5
    <2> QED  BY <2>1, <2>2, <2>5, <2>7, <2>8, <2>9 DEF Pool!SpillOut
  <1>3. CASE head[w] # h
    <2>1. PushDecide(w, reg[w].task)
      BY <1>3 DEF OverflowClaim
    <2> QED  BY <1>1, <2>1, PushDecideRests
  <1> QED  BY <1>2, <1>3

LEMMA OverflowSpillSpills ==
  ASSUME RingInv, NEW w \in Workers, OverflowSpill(w)
  PROVE  Pool!SpillIn(w)
  <1>1. /\ pc[w] = "spill" /\ Return(w) /\ Scheduled(w) /\ UNCHANGED rings /\ ran' = ran
        /\ global' = global \o Append(Spilled(w), reg[w].task)
    BY DEF OverflowSpill
  <1>2. todo[w] # <<>> /\ reg[w].task = Head(todo[w]) /\ Typed
    BY <1>1, Frame DEF Owns, Pushing
  <1>3. Others(w)
    BY <1>1, <1>2, ScheduledTyped, ReturnsEmptyHanded DEF Others, rings
  <1>4. Queues' = Queues /\ Flights' = [Flights EXCEPT ![w] = InFlight(w)']
    BY <1>1, <1>3, RingsSame
  <1>5. InFlight(w)' = Pool!Nothing
    BY <1>1, ReturnsEmptyHanded
  <1>6. Flights[w] = [origin |-> "spill", tasks |-> Spilled(w)]
    BY <1>1 DEF Flights, InFlight
  <1>7. Flights[w].origin = "spill" /\ Flights[w].tasks = Spilled(w)
    BY <1>6
  <1> QED  BY <1>1, <1>2, <1>4, <1>5, <1>7 DEF Pool!SpillIn, Scheduled

LEMMA PopClaimPops ==
  ASSUME RingInv, NEW w \in Workers, PopClaim(w)
  PROVE  Pool!Pop(w) \/ PoolRests
  <1>1. pc[w] = "pop" /\ reg[w].head.real # tail[w] /\ pc[w] \notin Moving
    BY Frame DEF PopClaim, Owns, Moving
  <1>2. CASE head[w] = reg[w].head
    <2>1. /\ head' = [head EXCEPT ![w] = Popped(head[w])] /\ Run(buf[w][Slot(head[w].real)])
          /\ Return(w) /\ UNCHANGED <<tail, buf, global, todo>>
      BY <1>2 DEF PopClaim
    <2>2. Others(w)
      BY <2>1, ReturnsEmptyHanded DEF Others
    <2>3. /\ Length(w) > 0 /\ Length(w) \in Nat /\ head[w].real \in Counter
          /\ head[w].steal \in Counter
      BY <1>1, <1>2, NextIsTask, Frame
    <2>4. PICK j \in Nat : Takes(w, j, 1)
      <3>0. 0 < 1 /\ 1 <= Length(w)
        BY <2>3
      <3>1. CASE head[w].steal = head[w].real
        <4>1. Held(w) = 0
          BY <2>3, <3>1, AddZero DEF Held
        <4>2. Takes(w, 1, 1)
          BY <2>1, <3>0, <3>1, <4>1 DEF Takes, Popped
        <4> QED  BY <4>2
      <3>2. CASE head[w].steal # head[w].real
        <4>1. Takes(w, 0, 1)
          BY <2>1, <2>3, <3>0, <3>2, AddZero DEF Takes, Popped
        <4> QED  BY <4>1
      <3> QED  BY <3>1, <3>2
    <2>5. /\ Queues[w] \in Seq(Tasks) /\ Len(Queues[w]) = Length(w)
          /\ Queues' = [Queues EXCEPT ![w] = SubSeq(@, 1 + 1, Len(@))]
          /\ SubSeq(Queues[w], 1, 1) = Row(w, head[w].real, 1)
          /\ AllTasks(w, head[w].real, 1)
          /\ Flights' = [Flights EXCEPT ![w] = InFlight(w)']
      BY <2>2, <2>4, QueueShrinks
    <2>6. Head(Queues[w]) = buf[w][Slot(head[w].real)]
      <3>1. Row(w, head[w].real, 1)[1] = buf[w][Slot(Add(head[w].real, 1 - 1))]
        BY <2>5, RowFacts
      <3>2. Add(head[w].real, 1 - 1) = head[w].real
        BY <2>3, AddZero
      <3>3. SubSeq(Queues[w], 1, 1)[1] = Head(Queues[w])
        BY <2>3, <2>5
      <3> QED  BY <2>5, <3>1, <3>2, <3>3
    <2>7. Queues[w] # <<>> /\ Tail(Queues[w]) = SubSeq(Queues[w], 1 + 1, Len(Queues[w]))
      BY <2>3, <2>5
    <2>8. Queues' = [Queues EXCEPT ![w] = Tail(@)]
      BY <2>5, <2>7
    <2>9. Flights' = Flights
      <3>1. InFlight(w) = Pool!Nothing /\ InFlight(w)' = Pool!Nothing
        BY <1>1, <2>1, ReturnsEmptyHanded, EmptyHanded
      <3> QED  BY <2>5, <3>1 DEF Flights
    <2> QED  BY <2>1, <2>6, <2>7, <2>8, <2>9 DEF Pool!Pop, Pool!Run, Run
  <1>3. CASE head[w] # reg[w].head
    <2>1. PopDecide(w)
      BY <1>3 DEF PopClaim
    <2> QED  BY <1>1, <2>1, PopDecideRests
  <1> QED  BY <1>2, <1>3

-----------------------------------------------------------------------------
LEMMA StealClaimSteals ==
  ASSUME RingInv, NEW w \in Workers, StealClaim(w)
  PROVE  (\E v \in Workers : Pool!StealOut(w, v)) \/ PoolRests
  <1> DEFINE h == reg[w].head
  <1>0. PICK v \in Workers \ {w}, n \in Nat : v = reg[w].src /\ n = reg[w].n
    BY Frame DEF StealClaim, Owns, Stealing
  <1>1. /\ pc[w] = "claim" /\ reg[w].i = 0 /\ h.steal = h.real /\ n > 0
        /\ (head[v].real = h.real => n <= Half(Length(v))) /\ pc[w] \notin Moving
        /\ UNCHANGED <<tail, buf, global, todo, ran>>
    BY <1>0, Frame DEF StealClaim, Owns, Aims, Stealing, Moving
  <1>2. CASE head[v] = h
    <2>1. /\ head' = [head EXCEPT ![v] = Claimed(h, n)] /\ pc'[w] = "copy" /\ reg' = reg
          /\ Others(w)
      BY <1>0, <1>1, <1>2, Frame DEF StealClaim, Goto, Others
    <2>2. /\ head[v].steal = head[v].real /\ head[v].real \in Counter /\ Length(v) \in Nat
          /\ Held(v) = 0
      <3>1. head[v].steal = head[v].real /\ head[v].real \in Counter /\ Length(v) \in Nat
        BY <1>1, <1>2, Frame
      <3> QED  BY <3>1, AddZero DEF Held
    <2>3. n <= Half(Length(v)) /\ n <= Length(v)
      <3>1. Half(Length(v)) \in Nat /\ Half(Length(v)) <= Length(v)
        BY <2>2, HalfGrows
      <3> QED  BY <1>1, <1>2, <2>2, <3>1
    <2>4. Takes(v, 0, n)
      <3>1. Claimed(h, n) = [steal |-> Add(head[v].steal, 0), real |-> Add(head[v].real, n)]
        BY <1>2, <2>2, AddZero DEF Claimed
      <3> QED  BY <1>1, <2>1, <2>3, <3>1 DEF Takes
    <2>5. /\ Len(Queues[v]) = Length(v)
          /\ Queues' = [Queues EXCEPT ![v] = SubSeq(@, n + 1, Len(@))]
          /\ SubSeq(Queues[v], 1, n) = Row(v, head[v].real, n)
          /\ Flights' = [Flights EXCEPT ![w] = InFlight(w)']
      BY <2>1, <2>4, QueueShrinks
    <2>6. InFlight(w)' = [origin |-> "steal", tasks |-> Row(v, head[v].real, n)]
      <3>1. \A i \in 1 .. n : ~(i <= 0)
        OBVIOUS
      <3>2. InFlight(w)' = [origin |-> "steal", tasks |->
              [i \in 1 .. n |-> IF i <= 0 THEN buf[w][Slot(Add(reg[w].to, i - 1))]
                                ELSE buf[v][Slot(Add(h.steal, i - 1))]]]
        BY <1>0, <1>1, <2>1 DEF InFlight
      <3>3. [i \in 1 .. n |-> IF i <= 0 THEN buf[w][Slot(Add(reg[w].to, i - 1))]
                              ELSE buf[v][Slot(Add(h.steal, i - 1))]]
              = [i \in 1 .. n |-> buf[v][Slot(Add(head[v].real, i - 1))]]
        BY <1>2, <2>2, <3>1
      <3> QED  BY <3>2, <3>3 DEF Row
    <2>7. Flights[w] = Pool!Nothing
      BY <1>1, EmptyHanded DEF Flights
    <2>8. n \in 1 .. Pool!Half(Len(Queues[v]))
      <3>1. Pool!Half(Length(v)) = Half(Length(v)) /\ Half(Length(v)) \in Nat
        BY <2>2, HalfGrows DEF Half, Pool!Half
      <3> QED  BY <1>1, <2>3, <2>5, <3>1
    <2>9. Flights' = [Flights EXCEPT ![w] =
                        [origin |-> "steal", tasks |-> SubSeq(Queues[v], 1, n)]]
      BY <2>5, <2>6
    <2> QED  BY <1>1, <2>5, <2>7, <2>8, <2>9 DEF Pool!StealOut
  <1>3. CASE head[v] # h
    <2>1. /\ head' = head /\ pc' = [pc EXCEPT ![w] = "look"]
          /\ reg' = [reg EXCEPT ![w].head = head[v]]
      BY <1>0, <1>1, <1>3 DEF StealClaim, Goto
    <2>2. "look" \in Labels \ Moving /\ UNCHANGED rings
      BY <1>1, <2>1 DEF Labels, Stealing, Moving, rings
    <2>3. \A x \in Workers \ {w} : reg'[x] = reg[x]
      BY <2>1, Frame
    <2> QED  BY <1>1, <2>1, <2>2, <2>3, Quiet
  <1> QED  BY <1>2, <1>3

LEMMA StealKeepKeeps ==
  ASSUME RingInv, NEW w \in Workers, StealKeep(w)
  PROVE  Pool!StealIn(w)
  <1>0. PICK n \in Nat, c \in Counter : n = reg[w].n /\ c = tail[w]
    BY Frame
  <1>1. /\ pc[w] = "keep" /\ reg[w].to = c /\ n \in 1 .. HalfRing /\ reg[w].i = n
        /\ Used(w) <= HalfRing /\ Used(w) \in Nat
        /\ \A k \in 0 .. n - 1 : buf[w][Slot(Add(c, k))] \in Tasks
    BY <1>0, Frame DEF StealKeep, Owns, Wrote, Stealing
  <1>2. PICK m \in Nat : m = n - 1 /\ Used(w) + m <= Capacity /\ m \in 0 .. n
    <2>1. n - 1 \in Nat /\ Used(w) + (n - 1) <= Capacity /\ n - 1 \in 0 .. n
      BY <1>1, Sizes
    <2> QED  BY <2>1
  <1>3. /\ Run(buf[w][Slot(Add(c, m))]) /\ tail' = [tail EXCEPT ![w] = Add(@, m)]
        /\ Return(w) /\ UNCHANGED <<head, buf, global, todo>>
    BY <1>0, <1>1, <1>2 DEF StealKeep
  <1>4. Others(w)
    BY <1>3, Frame, ReturnsEmptyHanded DEF Others, Typed
  <1>5. PICK got : got = Row(w, c, n)
    OBVIOUS
  <1>6. AllTasks(w, c, n)
    BY <1>1 DEF AllTasks
  <1>7. /\ got \in Seq(Tasks) /\ Len(got) = n
        /\ got[n] = buf[w][Slot(Add(c, m))]
    BY <1>1, <1>2, <1>5, <1>6, RowFacts
  <1>8. Flights[w] = [origin |-> "steal", tasks |-> got]
    <2>1. InFlight(w) = [origin |-> "steal", tasks |->
            [i \in 1 .. n |-> IF i <= n THEN buf[w][Slot(Add(c, i - 1))]
                              ELSE buf[reg[w].src][Slot(Add(reg[w].head.steal, i - 1))]]]
      BY <1>0, <1>1 DEF InFlight
    <2>2. [i \in 1 .. n |-> IF i <= n THEN buf[w][Slot(Add(c, i - 1))]
                            ELSE buf[reg[w].src][Slot(Add(reg[w].head.steal, i - 1))]]
            = [i \in 1 .. n |-> buf[w][Slot(Add(c, i - 1))]]
      OBVIOUS
    <2> QED  BY <1>5, <2>1, <2>2 DEF Flights, Row
  <1>9. PICK s : s = SubSeq(got, 1, m)
    OBVIOUS
  <1>10. s = Row(w, c, m) /\ AllTasks(w, c, m)
    BY <1>2, <1>5, <1>6, <1>9, RowFirst
  <1>11. /\ s \in Seq(Tasks) /\ Len(s) = m
         /\ \A i \in 1 .. m : s[i] = buf[w][Slot(Add(c, i - 1))]
    BY <1>10, RowFacts
  <1>12. Lies(w, tail[w], s)
    BY <1>0, <1>11 DEF Lies
  <1>13. /\ Queues' = [Queues EXCEPT ![w] = @ \o s]
         /\ Flights' = [Flights EXCEPT ![w] = InFlight(w)']
    BY <1>2, <1>3, <1>4, <1>11, <1>12, QueueGrows
  <1>14. InFlight(w)' = Pool!Nothing
    BY <1>3, ReturnsEmptyHanded
  <1>15. Flights[w].origin = "steal" /\ Flights[w].tasks = got
    BY <1>8
  <1> QED  BY <1>2, <1>3, <1>7, <1>9, <1>13, <1>14, <1>15 DEF Pool!StealIn, Pool!Run, Run

-----------------------------------------------------------------------------
LEMMA RunSharedTakes ==
  ASSUME RingInv, NEW w \in Workers, RunShared(w), pc[w] \notin Moving
  PROVE  Pool!TakeShared(w)
  <1>1. /\ global # <<>> /\ Run(Head(global)) /\ global' = Tail(global) /\ Return(w)
        /\ UNCHANGED rings /\ todo' = todo
    BY DEF RunShared
  <1>2. Others(w)
    BY <1>1, ReturnsEmptyHanded DEF Others, rings
  <1>3. Queues' = Queues /\ Flights' = [Flights EXCEPT ![w] = InFlight(w)']
    BY <1>1, <1>2, RingsSame
  <1>4. InFlight(w) = Pool!Nothing /\ InFlight(w)' = Pool!Nothing
    BY <1>1, ReturnsEmptyHanded, EmptyHanded
  <1>5. Flights' = Flights
    BY <1>3, <1>4 DEF Flights
  <1> QED  BY <1>1, <1>3, <1>5 DEF Pool!TakeShared, Pool!Run, Run

LEMMA TakeSharedTakes ==
  ASSUME RingInv, NEW w \in Workers, TakeShared(w)
  PROVE  Pool!TakeShared(w)
  BY RunSharedTakes DEF TakeShared, Moving

LEMMA FetchBeginTakes ==
  ASSUME RingInv, NEW w \in Workers, FetchBegin(w)
  PROVE  Pool!TakeShared(w) \/ PoolRests
  <1>1. pc[w] \notin Moving
    BY DEF FetchBegin, Moving
  <1>2. CASE Fetchable(w) = 0
    BY <1>1, <1>2, RunSharedTakes DEF FetchBegin
  <1>3. CASE Fetchable(w) # 0
    <2>1. /\ pc' = [pc EXCEPT ![w] = "size"] /\ UNCHANGED <<rings, global, todo, ran>>
          /\ \A v \in Workers \ {w} : reg'[v] = reg[v]
      BY <1>3, Frame DEF FetchBegin, Goto, Set
    <2>2. "size" \in Labels \ Moving
      BY DEF Labels, Fetching, Moving
    <2> QED  BY <1>1, <2>1, <2>2, Quiet
  <1> QED  BY <1>2, <1>3

LEMMA FetchTakeFetches ==
  ASSUME RingInv, NEW w \in Workers, FetchTake(w)
  PROVE  Pool!TakeShared(w) \/ Pool!FetchOut(w) \/ PoolRests
  <1>0. PICK l \in Nat : l = Len(global) /\ global \in Seq(Tasks)
    BY Frame DEF Typed
  <1>1. /\ pc[w] = "fetch" /\ head[w].real = tail[w] /\ reg[w].n \in 1 .. HalfRing
        /\ pc[w] \notin Moving
    BY Frame DEF FetchTake, Owns, Fetching, Moving
  <1>2. PICK n \in Nat : n = Smaller(reg[w].n, l) /\ n <= HalfRing /\ n <= l
    BY <1>1, Sizes DEF Smaller
  <1>3. /\ UNCHANGED rings /\ todo' = todo /\ global' = SubSeq(global, n + 1, Len(global))
        /\ n <= 1 => Return(w) /\ (IF n = 0 THEN UNCHANGED ran ELSE Run(global[1]))
        /\ ~(n <= 1) => /\ Goto(w, "batch") /\ UNCHANGED ran
                        /\ Set(w, [NoRegs EXCEPT !.list = SubSeq(global, 1, n)])
    BY <1>0, <1>2 DEF FetchTake
  <1>4. Others(w)
    <2>1. \A v \in Workers \ {w} : pc'[v] = pc[v] /\ reg'[v] = reg[v]
      BY <1>3, Frame DEF Return, Goto, Set
    <2> QED  BY <1>3, <2>1 DEF Others, rings
  <1>5. Queues' = Queues /\ Flights' = [Flights EXCEPT ![w] = InFlight(w)']
    BY <1>3, <1>4, RingsSame
  <1>6. Flights[w] = Pool!Nothing /\ InFlight(w) = Pool!Nothing
    BY <1>1, EmptyHanded DEF Flights
  <1>7. CASE n <= 1
    <2>1. InFlight(w)' = Pool!Nothing
      BY <1>3, <1>7, ReturnsEmptyHanded
    <2>2. Flights' = Flights
      BY <1>5, <1>6, <2>1 DEF Flights
    <2>3. CASE n = 0
      <3>1. SubSeq(global, 0 + 1, Len(global)) = global
        BY <1>0
      <3> QED  BY <1>3, <1>5, <2>2, <2>3, <3>1 DEF PoolRests
    <2>4. CASE n = 1
      <3>1. /\ global # <<>> /\ Head(global) = global[1]
            /\ Tail(global) = SubSeq(global, 1 + 1, Len(global))
        BY <1>0, <1>2, <2>4
      <3> QED  BY <1>3, <1>5, <2>2, <2>4, <3>1 DEF Pool!TakeShared, Pool!Run, Run
    <2> QED  BY <1>7, <2>3, <2>4
  <1>8. CASE ~(n <= 1)
    <2>1. pc'[w] = "batch" /\ reg'[w].list = SubSeq(global, 1, n)
      BY <1>3, <1>8, Frame DEF Goto, Set, NoRegs
    <2>2. InFlight(w)' = [origin |-> "fetch", tasks |-> SubSeq(global, 1, n)]
      BY <2>1 DEF InFlight
    <2>3. Queues[w] = <<>>
      <3>1. Queues[w] \in Seq(Tasks) /\ Len(Queues[w]) = Length(w)
        BY ContentsFacts
      <3>2. Length(w) = 0
        BY <1>1, Frame, RingFacts
      <3> QED  BY <3>1, <3>2
    <2>4. n \in 1 .. Len(global) /\ n <= Capacity \div 2
      BY <1>0, <1>2, <1>8, Sizes
    <2> QED  BY <1>3, <1>5, <1>6, <1>8, <2>2, <2>3, <2>4 DEF Pool!FetchOut
  <1> QED  BY <1>7, <1>8

LEMMA BatchPublishArrives ==
  ASSUME RingInv, NEW w \in Workers, BatchPublish(w)
  PROVE  Pool!FetchIn(w)
  <1>0. PICK l \in Seq(Tasks), k \in Nat : l = reg[w].list /\ k = Len(l)
    BY Frame
  <1>1. /\ pc[w] = "batch_publish" /\ k \in 2 .. HalfRing /\ Used(w) + k <= Capacity
        /\ Used(w) \in Nat
        /\ \A i \in 0 .. k - 2 : buf[w][Slot(Add(tail[w], i))] = l[i + 2]
    BY <1>0, Frame DEF BatchPublish, Owns, Wrote
  <1>2. PICK m \in Nat : m = k - 1 /\ Used(w) + m <= Capacity
    <2>1. PICK u \in Nat, c \in Nat, h \in Nat : u = Used(w) /\ c = Capacity /\ h = HalfRing
      BY <1>1, Sizes
    <2>2. k \in 2 .. h /\ u + k <= c
      BY <1>1, <2>1
    <2>3. k - 1 \in Nat /\ u + (k - 1) <= c
      BY <2>2
    <2> QED  BY <2>1, <2>3
  <1>3. /\ Run(Head(l)) /\ tail' = [tail EXCEPT ![w] = Add(@, m)]
        /\ Return(w) /\ UNCHANGED <<head, buf, global, todo>>
    BY <1>0, <1>2 DEF BatchPublish, BatchLen
  <1>4. Others(w)
    BY <1>3, Frame, ReturnsEmptyHanded DEF Others, Typed
  <1>5. PICK s : s = Tail(l)
    OBVIOUS
  <1>6. s \in Seq(Tasks) /\ Len(s) = m /\ \A i \in 1 .. m : s[i] = l[i + 1]
    BY <1>0, <1>1, <1>2, <1>5
  <1>7. Lies(w, tail[w], s)
    <2>1. ASSUME NEW i \in 1 .. m PROVE buf[w][Slot(Add(tail[w], i - 1))] = s[i]
      <3>1. PICK j \in Nat : j = i - 1
        OBVIOUS
      <3>2. j \in 0 .. k - 2 /\ j + 2 = i + 1
        BY <1>2, <3>1
      <3> QED  BY <1>1, <1>6, <3>1, <3>2
    <2> QED  BY <1>6, <2>1 DEF Lies
  <1>8. /\ Queues' = [Queues EXCEPT ![w] = @ \o s]
        /\ Flights' = [Flights EXCEPT ![w] = InFlight(w)']
    BY <1>2, <1>3, <1>4, <1>6, <1>7, QueueGrows
  <1>9. InFlight(w)' = Pool!Nothing
    BY <1>3, ReturnsEmptyHanded
  <1>10. Flights[w] = [origin |-> "fetch", tasks |-> l]
    BY <1>0, <1>1 DEF Flights, InFlight
  <1>11. Flights[w].origin = "fetch" /\ Flights[w].tasks = l
    BY <1>10
  <1> QED  BY <1>3, <1>5, <1>8, <1>9, <1>11 DEF Pool!FetchIn, Pool!Run, Run

-----------------------------------------------------------------------------
LEMMA PoolInit == Init => Pool!Init
  <1> SUFFICES ASSUME Init PROVE Pool!Init
    OBVIOUS
  <1>1. ASSUME NEW w \in Workers PROVE Contents(w) = <<>> /\ InFlight(w) = Pool!Nothing
    <2>1. RingInv /\ pc[w] \notin Moving
      BY RingInit DEF Init, Moving
    <2>2. Length(w) = 0
      <3>1. head[w].real = tail[w]
        BY DEF Init
      <3> QED  BY <2>1, <3>1, Frame, RingFacts
    <2>3. Contents(w) \in Seq(Tasks) /\ Len(Contents(w)) = 0
      BY <2>1, <2>2, ContentsFacts
    <2> QED  BY <2>1, <2>3, EmptyHanded
  <1> QED  BY <1>1 DEF Init, Pool!Init, Queues, Flights

LEMMA PoolNext == RingInv /\ [Next]_vars => [Pool!Next]_(Pool!poolVars)
  <1> SUFFICES ASSUME RingInv, [Next]_vars PROVE Pool!Next \/ UNCHANGED Pool!poolVars
    OBVIOUS
  <1>1. CASE UNCHANGED vars
    <2>1. Queues' = Queues /\ Flights' = Flights
      BY <1>1 DEF vars, Queues, Flights, Contents, InFlight, Spilled
    <2> QED  BY <1>1, <2>1 DEF vars, Pool!poolVars
  <1>2. ASSUME NEW w \in Workers,
               \/ PushBegin(w) \/ PopBegin(w) \/ StealBegin(w) \/ TakeShared(w) \/ FetchBegin(w)
               \/ Continue(w)
        PROVE  Pool!Next \/ PoolRests
    BY <1>2, LooksRest, StoresRest, StealCopyRests, StealReleaseRests, PushPublishPushes,
       PushShareShares, OverflowClaimSpills, OverflowSpillSpills, PopClaimPops,
       StealClaimSteals, StealKeepKeeps, TakeSharedTakes, FetchBeginTakes, FetchTakeFetches,
       BatchPublishArrives
       DEF Continue, Pool!Next
  <1>3. PoolRests => UNCHANGED Pool!poolVars
    BY DEF PoolRests, Pool!poolVars
  <1> QED  BY <1>1, <1>2, <1>3 DEF Next

(* Whatever the owners and the thieves of the rings do, and wherever the   *)
(* counters wrap, the run queues are FIFO queues whose tasks are moved in  *)
(* one piece and in their order: every step of queue.hpp:126-305 is one    *)
(* step of WorkPool or changes nothing in it.                              *)
THEOREM QueuesImplementPool == Spec /\ [][Unlapped]_vars => ImplementsPool
  <1>1. RingInv /\ [Next]_vars => [Pool!Next]_(Pool!poolVars)
    BY PoolNext
  <1> QED  BY <1>1, PoolInit, RingInvariant, PTL DEF Spec, ImplementsPool, Pool!Spec

-----------------------------------------------------------------------------
(* What is proved of WorkPool holds of what the rings hold.                *)
Proved == INSTANCE WorkPoolProofs WITH queue <- Queues, moving <- Flights

LEMMA SameInit == Pool!Init => Proved!Init
  BY DEF Pool!Init, Proved!Init, Pool!Nothing, Proved!Nothing

LEMMA SameNext == [Pool!Next]_(Pool!poolVars) => [Proved!Next]_(Proved!poolVars)
  <1> USE DEF Pool!Nothing, Proved!Nothing, Pool!Run, Proved!Run
  <1>1. UNCHANGED Pool!poolVars => UNCHANGED Proved!poolVars
    BY DEF Pool!poolVars, Proved!poolVars
  <1>2. ASSUME NEW w \in Workers
        PROVE  /\ Pool!Push(w) => Proved!Push(w)
               /\ Pool!PushShared(w) => Proved!PushShared(w)
               /\ Pool!SpillOut(w) => Proved!SpillOut(w)
               /\ Pool!SpillIn(w) => Proved!SpillIn(w)
               /\ Pool!Pop(w) => Proved!Pop(w)
               /\ Pool!StealIn(w) => Proved!StealIn(w)
               /\ Pool!TakeShared(w) => Proved!TakeShared(w)
               /\ Pool!FetchOut(w) => Proved!FetchOut(w)
               /\ Pool!FetchIn(w) => Proved!FetchIn(w)
    BY DEF Pool!Push, Proved!Push, Pool!PushShared, Proved!PushShared,
       Pool!SpillOut, Proved!SpillOut, Pool!SpillIn, Proved!SpillIn, Pool!Pop, Proved!Pop,
       Pool!StealIn, Proved!StealIn, Pool!TakeShared, Proved!TakeShared,
       Pool!FetchOut, Proved!FetchOut, Pool!FetchIn, Proved!FetchIn
  <1>3. ASSUME NEW w \in Workers, NEW v \in Workers, Pool!StealOut(w, v)
        PROVE  Proved!StealOut(w, v)
    BY <1>3 DEF Pool!StealOut, Proved!StealOut, Pool!Half, Proved!Half
  <1> QED  BY <1>1, <1>2, <1>3 DEF Pool!Next, Proved!Next

LEMMA SameCounts == Proved!NeitherLostNorTwice => ExactlyOnce
  BY DEF ExactlyOnce, Pool!NeitherLostNorTwice, Proved!NeitherLostNorTwice,
     Pool!Everywhere, Proved!Everywhere, Pool!Spots, Proved!Spots, Pool!Where, Proved!Where,
     Pool!Holders, Proved!Holders, Pool!Cardinality, Proved!Cardinality

LEMMA SameConstants == Proved!Known
  BY SizeAssumption, TaskAssumption
     DEF Proved!Known, Proved!IsFiniteSet, IsFiniteSet

(* No task is lost or run twice on its way through the rings, whoever      *)
(* pushes, pops, overflows, steals or fetches in whatever order            *)
(* (queue.hpp:126-305): the rings implement WorkPool, and WorkPool         *)
(* conserves its tasks (WorkPoolProofs).                                   *)
THEOREM TasksRunOnce == Spec /\ [][Unlapped]_vars => []ExactlyOnce
  <1>1. RingInv /\ [Next]_vars => [Proved!Next]_(Proved!poolVars)
    BY PoolNext, SameNext
  <1>2. Init => Proved!Init
    BY PoolInit, SameInit
  <1>3. Spec /\ [][Unlapped]_vars => Proved!Spec
    BY <1>1, <1>2, RingInvariant, PTL DEF Spec, Proved!Spec
  <1>4. Proved!Spec => []Proved!NeitherLostNorTwice
    BY SameConstants, Proved!TasksConserved
  <1> QED  BY <1>3, <1>4, SameCounts, PTL
=============================================================================
