-------------------------- MODULE LocalQueueProofs --------------------------
(***************************************************************************)
(* RingBounded and BatchFits for rings of any even capacity, any number of *)
(* workers and any tasks, with counters that wrap.                         *)
(*                                                                         *)
(* RingInv is the inductive invariant.  It says of every ring how many     *)
(* slots are in use, how many of them a thief has claimed, and that all of *)
(* them hold tasks (Ordered, Filled); of every worker in a method, what it *)
(* relies on in its own ring (Owns, Wrote); of every thief, what it relies *)
(* on in the ring it steals from (Aims); and that no ring has two thieves  *)
(* copying (Alone).                                                        *)
(*                                                                         *)
(* The steps fall into four kinds, each with a lemma of its own: those that*)
(* move no counter (RingsRest), those that publish tasks at the tail       *)
(* (TailGrows), those that take tasks at the head (HeadTaken), and the     *)
(* thief's release.  The lemmas before them are arithmetic on the wrapping *)
(* counters: the provers have no facts on % with a divisor that is not a   *)
(* number.                                                                 *)
(***************************************************************************)
EXTENDS LocalQueue, FiniteSetTheorems, SequenceTheorems, TLAPS

HalfRing == Capacity \div 2

LEMMA Sizes ==
  /\ Capacity \in Nat /\ HalfRing \in Nat /\ HalfRing > 0 /\ HalfRing + HalfRing = Capacity
  /\ Capacity \div 2 = HalfRing
  /\ Modulus \in Nat /\ Modulus > 0 /\ Capacity > 0 /\ Capacity < Modulus /\ Start \in Counter
  BY SizeAssumption DEF HalfRing, Counter

-----------------------------------------------------------------------------
(* Division with remainder, which the provers do not know for a divisor    *)
(* that is not a number.                                                   *)
LEMMA Parts ==
  ASSUME NEW M \in Nat, M > 0, NEW x \in Int
  PROVE  /\ x \div M \in Int /\ x % M \in 0 .. M - 1 /\ x % M \in Int
         /\ x = M * (x \div M) + (x % M)
  OBVIOUS

LEMMA Unique ==
  ASSUME NEW M \in Nat, M > 0, NEW x \in Int, NEW q \in Int, NEW r \in 0 .. M - 1,
         x = M * q + r
  PROVE  x % M = r
  OBVIOUS

LEMMA Shift ==
  ASSUME NEW M \in Nat, M > 0, NEW x \in Int, NEW k \in Int
  PROVE  (x + M * k) % M = x % M
  <1> DEFINE q == x \div M
             r == x % M
  <1>1. q \in Int /\ r \in 0 .. M - 1 /\ r \in Int /\ x = M * q + r
    BY Parts
  <1> HIDE DEF q, r
  <1>2. q + k \in Int /\ M * (q + k) = M * q + M * k /\ M * q \in Int /\ M * k \in Int
    BY <1>1
  <1>3. x + M * k = M * (q + k) + r /\ x + M * k \in Int
    BY <1>1, <1>2
  <1>4. (x + M * k) % M = r
    BY <1>1, <1>2, <1>3, Unique
  <1> QED  BY <1>4 DEF r

LEMMA ModPlus ==
  ASSUME NEW M \in Nat, M > 0, NEW x \in Int, NEW k \in Int
  PROVE  ((x % M) + k) % M = (x + k) % M
  <1> DEFINE q == x \div M
             r == x % M
             y == r + k
  <1>1. x = M * q + r /\ q \in Int /\ r \in Int
    BY Parts
  <1> HIDE DEF q, r
  <1>2. y \in Int /\ x + k = y + M * q
    BY <1>1
  <1> HIDE DEF y
  <1>3. (y + M * q) % M = y % M
    BY <1>1, <1>2, Shift
  <1> QED  BY <1>2, <1>3 DEF r, y

LEMMA SameRemainder ==
  ASSUME NEW M \in Nat, M > 0, NEW x \in Int, NEW y \in Int,
         x % M = y % M, 0 <= x - y, x - y < M
  PROVE  x = y
  <1> DEFINE p == x \div M
             q == y \div M
             r == x % M
  <1>1. p \in Int /\ q \in Int /\ r \in Int /\ x = M * p + r /\ y = M * q + r
    BY Parts
  <1> HIDE DEF q, p, r
  <1>2. p - q \in Int /\ x - y = M * (p - q)
    BY <1>1
  <1>3. p - q = 0 \/ p - q >= 1 \/ p - q <= -1
    BY <1>2
  <1>4. p - q >= 1 => M * (p - q) >= M
    BY <1>2
  <1>5. p - q <= -1 => M * (p - q) <= -M
    BY <1>2
  <1>6. p - q = 0 => M * (p - q) = 0
    BY <1>2
  <1> QED  BY <1>2, <1>3, <1>4, <1>5, <1>6

-----------------------------------------------------------------------------
(* The counters.                                                           *)
LEMMA CounterOps ==
  ASSUME NEW a \in Counter, NEW b \in Counter, NEW k \in Nat
  PROVE  Add(a, k) \in Counter /\ Sub(a, b) \in Counter
  BY Sizes DEF Add, Sub, Counter

LEMMA AddSub ==
  ASSUME NEW a \in Counter, NEW b \in Counter
  PROVE  Add(b, Sub(a, b)) = a /\ (Sub(a, b) = 0 <=> a = b)
  <1>1. CASE a >= b
    <2>1. Sub(a, b) = a - b
      BY <1>1, Sizes DEF Sub, Counter
    <2> QED  BY <2>1, <1>1, Sizes DEF Add, Counter
  <1>2. CASE a < b
    <2>1. Sub(a, b) = a - b + Modulus
      BY <1>2, Sizes DEF Sub, Counter
    <2>2. (b + (a - b + Modulus)) % Modulus = a
      BY <1>2, Sizes DEF Counter
    <2> QED  BY <2>1, <2>2, <1>2, Sizes DEF Add, Counter
  <1> QED  BY <1>1, <1>2 DEF Counter

LEMMA AddZero ==
  ASSUME NEW a \in Counter
  PROVE  Add(a, 0) = a /\ Sub(a, a) = 0
  BY Sizes DEF Add, Sub, Counter

LEMMA AddAdd ==
  ASSUME NEW c \in Counter, NEW i \in Nat, NEW j \in Nat
  PROVE  Add(Add(c, i), j) = Add(c, i + j)
  <1> DEFINE x == c + i
  <1>1. x \in Int /\ j \in Int /\ x + j = c + (i + j)
    BY DEF Counter
  <1> HIDE DEF x
  <1>2. ((x % Modulus) + j) % Modulus = (x + j) % Modulus
    BY <1>1, ModPlus, Sizes
  <1> QED  BY <1>1, <1>2 DEF Add, x

LEMMA SubOfAdd ==
  ASSUME NEW b \in Counter, NEW k \in Counter
  PROVE  Sub(Add(b, k), b) = k
  <1> DEFINE x == b + k
             m == 0 - b
  <1>1. x \in Int /\ m \in Int /\ x + m = k
    BY DEF Counter
  <1>2. \A y \in Int : y + m = y - b
    BY DEF Counter
  <1> HIDE DEF x, m
  <1>3. ((x % Modulus) + m) % Modulus = k % Modulus
    BY <1>1, ModPlus, Sizes
  <1>4. x % Modulus \in Int /\ k % Modulus = k
    BY <1>1, Parts, Sizes DEF Counter
  <1> QED  BY <1>2, <1>3, <1>4 DEF Add, Sub, x

LEMMA AddGrows ==
  ASSUME NEW a \in Counter, NEW b \in Counter, NEW k \in Nat, Sub(a, b) + k < Modulus
  PROVE  Sub(Add(a, k), b) = Sub(a, b) + k
  <1>0. Sub(a, b) \in Counter
    BY CounterOps
  <1>1. Sub(a, b) \in Counter /\ Sub(a, b) + k \in Counter
    BY <1>0, Sizes DEF Counter
  <1>2. Add(a, k) = Add(b, Sub(a, b) + k)
    BY <1>1, AddSub, AddAdd DEF Counter
  <1> QED  BY <1>1, <1>2, SubOfAdd

LEMMA SubShrinks ==
  ASSUME NEW a \in Counter, NEW b \in Counter, NEW k \in Nat, k <= Sub(a, b)
  PROVE  Sub(a, Add(b, k)) = Sub(a, b) - k
  <1>0. Sub(a, b) \in Counter /\ Add(b, k) \in Counter
    BY CounterOps
  <1>1. Sub(a, b) \in Counter /\ Sub(a, b) - k \in Counter /\ Add(b, k) \in Counter
    BY <1>0, Sizes DEF Counter
  <1>2. Add(Add(b, k), Sub(a, b) - k) = Add(b, Sub(a, b))
    BY <1>1, AddAdd DEF Counter
  <1>3. Add(b, Sub(a, b)) = a
    BY AddSub
  <1> QED  BY <1>1, <1>2, <1>3, SubOfAdd

LEMMA SlotOfCounter ==
  ASSUME NEW c \in Counter
  PROVE  Slot(c) \in 0 .. Capacity - 1
  BY Sizes DEF Slot, Counter

LEMMA SlotsRepeat ==
  ASSUME NEW x \in Nat
  PROVE  (x % Modulus) % Capacity = x % Capacity
  <1> DEFINE q == Modulus \div Capacity
             p == x \div Modulus
             y == x % Modulus
             r == q * p
  <1>1. q \in Int /\ Modulus = Capacity * q
    <2>1. Modulus = Capacity * q + (Modulus % Capacity) /\ q \in Int
      BY Parts, Sizes
    <2>2. Modulus % Capacity = 0
      BY SizeAssumption
    <2>3. Capacity * q \in Int
      BY <2>1, Sizes
    <2> QED  BY <2>1, <2>2, <2>3
  <1>2. p \in Int /\ y \in Int /\ x = Modulus * p + y
    BY Parts, Sizes
  <1> HIDE DEF q, p, y
  <1>3. Modulus * p = Capacity * r /\ r \in Int
    BY <1>1, <1>2, Sizes
  <1> HIDE DEF r
  <1>4. x = y + Capacity * r
    BY <1>2, <1>3, Sizes
  <1>5. (y + Capacity * r) % Capacity = y % Capacity
    BY <1>2, <1>3, Shift, Sizes
  <1> QED  BY <1>4, <1>5 DEF y

LEMMA SlotsDiffer ==
  ASSUME NEW c \in Counter, NEW i \in 0 .. Capacity - 1, NEW j \in 0 .. Capacity - 1,
         Slot(Add(c, i)) = Slot(Add(c, j))
  PROVE  i = j
  <1>1. c + i \in Nat /\ c + j \in Nat /\ c \in Nat
    BY DEF Counter
  <1>2. (c + i) % Capacity = (c + j) % Capacity
    BY <1>1, SlotsRepeat DEF Slot, Add
  <1> DEFINE x == c + i
             y == c + j
  <1>3. /\ x \in Int /\ y \in Int
        /\ x - y = i - j /\ y - x = j - i /\ (x = y => i = j)
    BY <1>1
  <1>4. x % Capacity = y % Capacity
    BY <1>2
  <1> HIDE DEF x, y
  <1>5. CASE i >= j
    <2>1. 0 <= x - y /\ x - y < Capacity
      BY <1>3, <1>5, Sizes
    <2> QED  BY <2>1, <1>3, <1>4, SameRemainder, Sizes
  <1>6. CASE j >= i
    <2>1. 0 <= y - x /\ y - x < Capacity
      BY <1>3, <1>6, Sizes
    <2> QED  BY <2>1, <1>3, <1>4, SameRemainder, Sizes
  <1> QED  BY <1>5, <1>6

-----------------------------------------------------------------------------
(* A compare-exchange cannot tell a counter that has gone all the way      *)
(* around from one that has not moved.  So it is assumed that a ring's     *)
(* counter does not come back to where a thief saw it between the thief's  *)
(* load of tail and its compare-exchange: 2^32 tasks would have to pass    *)
(* through the ring meanwhile.                                             *)
Unlapped ==
  \A w \in Workers :
    pc[w] = "claim" /\ pc'[w] = "claim" /\ head[reg[w].src].real # reg[w].head.real =>
      head'[reg[w].src].real # reg[w].head.real

Used(w)   == Sub(tail[w], head[w].steal)        \* slots that must not be overwritten,
Held(w)   == Sub(head[w].real, head[w].steal)   \* those a thief has claimed,
Length(w) == Sub(tail[w], head[w].real)         \* and those with tasks anyone may take

Pushing  == {"store", "publish", "share", "overflow", "spill"}
Stealing == {"look", "claim", "copy", "release", "keep"}
Fetching == {"size", "fetch", "batch", "batch_publish"}
Labels   == {"idle", "pop"} \cup Pushing \cup Stealing \cup Fetching

Heads == [steal : Counter, real : Counter]
Regs ==
  [task : Tasks \cup {NoTask}, head : Heads, src : Workers \cup {NoTask},
   to : Counter, n : Counter, i : 0 .. Capacity, list : Seq(Tasks)]

Typed ==
  /\ head \in [Workers -> Heads]
  /\ tail \in [Workers -> Counter]
  /\ buf \in [Workers -> [0 .. Capacity - 1 -> Tasks \cup {NoTask}]]
  /\ global \in Seq(Tasks)
  /\ todo \in [Workers -> Seq(Tasks)]
  /\ ran \in [Tasks -> Nat]
  /\ pc \in [Workers -> Labels]
  /\ reg \in [Workers -> Regs]

(* The counters of a ring are in order, and its slots in use hold tasks.   *)
Ordered(w) == Used(w) <= Capacity /\ Held(w) <= Used(w)
Filled(w)  == \A i \in 0 .. Used(w) - 1 : buf[w][Slot(Add(head[w].steal, i))] \in Tasks

(* What w relies on in its own ring while it is in a method.               *)
Owns(w) ==
  LET r == reg[w]
  IN  /\ pc[w] \in Pushing => todo[w] # <<>> /\ r.task = Head(todo[w])
      /\ pc[w] \in {"store", "publish"} => Used(w) < Capacity
      /\ pc[w] \in {"overflow", "spill"} =>
           r.head.steal = r.head.real /\ Sub(tail[w], r.head.real) = Capacity
      /\ pc[w] = "pop" => r.head.real # tail[w]
      /\ pc[w] \in Stealing \cup Fetching => head[w].real = tail[w]
      /\ pc[w] \in Stealing =>
           r.src \in Workers \ {w} /\ r.to = tail[w] /\ Used(w) <= HalfRing
      /\ pc[w] \in {"look", "claim"} => r.i = 0
      /\ pc[w] \in {"copy", "release", "keep"} => r.n \in 1 .. HalfRing
      /\ pc[w] = "copy" => r.i < r.n
      /\ pc[w] \in {"release", "keep"} => r.i = r.n
      /\ pc[w] \in {"size", "fetch"} => r.n \in 1 .. HalfRing /\ Used(w) + r.n <= Capacity
      /\ pc[w] \in {"batch", "batch_publish"} =>
           Len(r.list) \in 2 .. HalfRing /\ Used(w) + Len(r.list) <= Capacity

(* What it has written or read and not yet published.                      *)
Wrote(w) ==
  LET r == reg[w]
  IN  /\ pc[w] = "publish" => buf[w][Slot(tail[w])] = r.task
      /\ pc[w] = "spill" =>
           \A i \in 0 .. HalfRing - 1 : buf[w][Slot(Add(r.head.real, i))] \in Tasks
      /\ pc[w] \in {"copy", "release", "keep"} =>
           \A i \in 0 .. r.i - 1 : buf[w][Slot(Add(r.to, i))] \in Tasks
      /\ pc[w] = "batch_publish" =>
           \A i \in 0 .. Len(r.list) - 2 : buf[w][Slot(Add(tail[w], i))] = r.list[i + 2]

(* What a thief relies on in the ring it steals from: what it has claimed  *)
(* stays claimed, and what it is about to claim is there if the real       *)
(* counter is where it was.                                                *)
Aims(w) ==
  LET r == reg[w]
  IN  /\ pc[w] = "claim" =>
           /\ r.head.steal = r.head.real /\ r.n > 0
           /\ head[r.src].real = r.head.real => r.n <= Half(Length(r.src))
      /\ Copying(w, r.src) => head[r.src].steal = r.head.steal /\ r.n <= Held(r.src)

Alone == \A v, w, u \in Workers : Copying(w, v) /\ Copying(u, v) => w = u

RingInv ==
  /\ Typed /\ Alone
  /\ \A w \in Workers : Ordered(w) /\ Filled(w) /\ Owns(w) /\ Wrote(w) /\ Aims(w)

-----------------------------------------------------------------------------
LEMMA RingFacts ==
  ASSUME Typed, NEW w \in Workers
  PROVE  /\ head[w].steal \in Counter /\ head[w].real \in Counter /\ tail[w] \in Counter
         /\ Used(w) \in Nat /\ Held(w) \in Nat /\ Length(w) \in Nat
         /\ Used(w) < Modulus /\ Held(w) < Modulus /\ Length(w) < Modulus
         /\ tail[w] = Add(head[w].steal, Used(w)) /\ head[w].real = Add(head[w].steal, Held(w))
         /\ Length(w) = 0 <=> head[w].real = tail[w]
         /\ Held(w) = 0 <=> head[w].real = head[w].steal
         /\ Held(w) <= Used(w) => Length(w) = Used(w) - Held(w)
  <1>1. head[w].steal \in Counter /\ head[w].real \in Counter /\ tail[w] \in Counter
    BY DEF Typed, Heads
  <1>2. Used(w) \in Counter /\ Held(w) \in Counter /\ Length(w) \in Counter
    BY <1>1, CounterOps DEF Used, Held, Length
  <1>3. /\ Used(w) \in Nat /\ Held(w) \in Nat /\ Length(w) \in Nat
        /\ Used(w) < Modulus /\ Held(w) < Modulus /\ Length(w) < Modulus
    BY <1>2, Sizes DEF Counter
  <1>4. /\ tail[w] = Add(head[w].steal, Used(w)) /\ head[w].real = Add(head[w].steal, Held(w))
        /\ Length(w) = 0 <=> head[w].real = tail[w]
        /\ Held(w) = 0 <=> head[w].real = head[w].steal
    BY <1>1, AddSub DEF Used, Held, Length
  <1>5. Held(w) <= Used(w) => Length(w) = Used(w) - Held(w)
    BY <1>1, <1>3, <1>4, SubShrinks DEF Used, Held, Length
  <1> QED  BY <1>1, <1>3, <1>4, <1>5

(* The head of a ring moves on: j more slots are free, and k from the first *)
(* one in use to the first that has a task anyone may take.                *)
LEMMA HeadMoves ==
  ASSUME Typed, NEW w \in Workers, Ordered(w), Filled(w),
         tail'[w] = tail[w], buf'[w] = buf[w], NEW j \in Nat, NEW k \in Nat,
         j <= k, k <= Used(w),
         head'[w] = [steal |-> Add(head[w].steal, j), real |-> Add(head[w].steal, k)]
  PROVE  /\ Ordered(w)' /\ Filled(w)' /\ head'[w] \in Heads
         /\ Used(w)' = Used(w) - j /\ Held(w)' = k - j /\ Length(w)' = Used(w) - k
  <1> DEFINE s == head[w].steal
             u == Used(w)
  <1>1. s \in Counter /\ tail[w] \in Counter /\ u \in Nat /\ u <= Capacity /\ u < Modulus
    BY RingFacts DEF Ordered
  <1>2. u = Sub(tail[w], s)
    BY DEF Used
  <1>3. Add(s, j) \in Counter /\ Add(s, k) \in Counter
    BY <1>1, CounterOps
  <1>4. head'[w].steal = Add(s, j) /\ head'[w].real = Add(s, k) /\ head'[w] \in Heads
    BY <1>3 DEF Heads
  <1>5. Sub(tail[w], Add(s, j)) = u - j /\ Sub(tail[w], Add(s, k)) = u - k
    BY <1>1, <1>2, SubShrinks
  <1>6. Used(w)' = u - j /\ Length(w)' = u - k
    BY <1>4, <1>5 DEF Used, Length
  <1>7. k - j \in Nat /\ k - j < Modulus /\ Add(s, k) = Add(Add(s, j), k - j)
    <2>1. k - j \in Nat /\ k - j < Modulus /\ j + (k - j) = k
      BY <1>1, Sizes
    <2>2. Add(Add(s, j), k - j) = Add(s, j + (k - j))
      BY <1>1, <2>1, AddAdd
    <2> QED  BY <2>1, <2>2
  <1>8. Sub(Add(Add(s, j), k - j), Add(s, j)) = k - j
    <2>1. k - j \in Counter
      BY <1>7, Sizes DEF Counter
    <2> QED  BY <1>3, <2>1, SubOfAdd
  <1>9. Held(w)' = k - j
    BY <1>4, <1>7, <1>8 DEF Held
  <1>10. Ordered(w)'
    BY <1>1, <1>6, <1>9, Sizes DEF Ordered
  <1>11. Filled(w)'
    <2> SUFFICES ASSUME NEW i \in 0 .. u - j - 1
                 PROVE  buf[w][Slot(Add(Add(s, j), i))] \in Tasks
      BY <1>4, <1>6 DEF Filled
    <2>1. j + i \in 0 .. u - 1 /\ i \in Nat
      BY <1>1
    <2>2. Add(Add(s, j), i) = Add(s, j + i)
      BY <1>1, <2>1, AddAdd
    <2> QED  BY <2>1, <2>2 DEF Filled
  <1> QED  BY <1>4, <1>6, <1>9, <1>10, <1>11

(* The tail moves on over k free slots that have been filled.              *)
LEMMA TailMoves ==
  ASSUME Typed, NEW w \in Workers, Ordered(w), Filled(w),
         head'[w] = head[w], buf'[w] = buf[w], NEW k \in Nat, Used(w) + k <= Capacity,
         \A i \in 0 .. k - 1 : buf[w][Slot(Add(tail[w], i))] \in Tasks,
         tail'[w] = Add(tail[w], k)
  PROVE  /\ Ordered(w)' /\ Filled(w)' /\ tail'[w] \in Counter
         /\ Used(w)' = Used(w) + k /\ Held(w)' = Held(w) /\ Length(w)' = Length(w) + k
  <1> DEFINE s == head[w].steal
             u == Used(w)
  <1>1. /\ s \in Counter /\ tail[w] \in Counter /\ head[w].real \in Counter
        /\ u \in Nat /\ u + k < Modulus
        /\ Held(w) \in Nat /\ Held(w) <= u /\ Length(w) = u - Held(w)
    BY RingFacts, Sizes DEF Ordered
  <1>2. Used(w)' = u + k
    BY <1>1, AddGrows DEF Used
  <1>3. Length(w)' = Length(w) + k
    <2>1. Length(w) + k < Modulus
      BY <1>1, Sizes
    <2> QED  BY <1>1, <2>1, AddGrows DEF Length
  <1>4. Held(w)' = Held(w)
    BY DEF Held
  <1>5. Ordered(w)'
    BY <1>1, <1>2, <1>4 DEF Ordered
  <1>6. Filled(w)'
    <2>1. ASSUME NEW i \in 0 .. u + k - 1
          PROVE  buf[w][Slot(Add(s, i))] \in Tasks
      <3>1. CASE i < u
        BY <1>1, <3>1 DEF Filled
      <3>2. CASE i >= u
        <4>1. i - u \in 0 .. k - 1 /\ i - u \in Nat /\ u + (i - u) = i
          BY <1>1, <3>2
        <4>2. tail[w] = Add(s, u)
          BY RingFacts
        <4>3. Add(Add(s, u), i - u) = Add(s, u + (i - u))
          BY <1>1, <4>1, AddAdd
        <4> QED  BY <4>1, <4>2, <4>3
      <3> QED  BY <1>1, <3>1, <3>2
    <2>2. head'[w].steal = s /\ 0 .. Used(w)' - 1 = 0 .. u + k - 1
      BY <1>1, <1>2
    <2> QED  BY <2>1, <2>2 DEF Filled
  <1>7. tail'[w] \in Counter
    BY <1>1, CounterOps
  <1> QED  BY <1>2, <1>3, <1>4, <1>5, <1>6, <1>7

(* A slot that is free is none of those in use.                            *)
LEMMA FreeSlot ==
  ASSUME Typed, NEW w \in Workers, NEW j \in Nat, Used(w) + j < Capacity,
         NEW i \in 0 .. Used(w) - 1
  PROVE  Slot(Add(tail[w], j)) # Slot(Add(head[w].steal, i))
  <1>1. head[w].steal \in Counter /\ Used(w) \in Nat /\ i \in Nat
    BY RingFacts
  <1>2. Add(tail[w], j) = Add(head[w].steal, Used(w) + j)
    <2>1. tail[w] = Add(head[w].steal, Used(w))
      BY RingFacts
    <2>2. Add(Add(head[w].steal, Used(w)), j) = Add(head[w].steal, Used(w) + j)
      BY <1>1, AddAdd
    <2> QED  BY <2>1, <2>2
  <1>3. Used(w) + j \in 0 .. Capacity - 1 /\ i \in 0 .. Capacity - 1 /\ i # Used(w) + j
    BY <1>1, Sizes
  <1> QED  BY <1>1, <1>2, <1>3, SlotsDiffer

(* The owner writes nothing but free slots.                                *)
LEMMA SlotsWritten ==
  ASSUME Typed, NEW w \in Workers, Ordered(w), Filled(w),
         head'[w] = head[w], tail'[w] = tail[w],
         \A i \in 0 .. Used(w) - 1 :
           buf'[w][Slot(Add(head[w].steal, i))] = buf[w][Slot(Add(head[w].steal, i))]
  PROVE  /\ Ordered(w)' /\ Filled(w)'
         /\ Used(w)' = Used(w) /\ Held(w)' = Held(w) /\ Length(w)' = Length(w)
  BY DEF Ordered, Filled, Used, Held, Length

-----------------------------------------------------------------------------
(* What a step of worker a must leave alone of the others.                 *)
Others(a) ==
  \A w \in Workers \ {a} :
    /\ pc'[w] = pc[w] /\ reg'[w] = reg[w] /\ todo'[w] = todo[w]
    /\ buf'[w] = buf[w] /\ tail'[w] = tail[w]

(* Slots of w are freed at most, and an empty queue stays so.              *)
LEMMA OwnsStays ==
  ASSUME RingInv, NEW w \in Workers,
         pc'[w] = pc[w], reg'[w] = reg[w], todo'[w] = todo[w],
         buf'[w] = buf[w], tail'[w] = tail[w],
         Used(w)' \in Nat, Used(w)' <= Used(w),
         head[w].real = tail[w] => head'[w].real = tail'[w]
  PROVE  Owns(w)' /\ Wrote(w)'
  <1>1. Used(w) \in Nat /\ Owns(w) /\ Wrote(w) /\ Typed
    BY RingFacts DEF RingInv
  <1>2. reg[w].n \in Nat /\ Len(reg[w].list) \in Nat
    BY <1>1 DEF Typed, Regs, Counter
  <1>3. Owns(w)'
    BY <1>1, <1>2, Sizes, SMTT(30) DEF Owns
  <1>4. Wrote(w)'
    BY <1>1 DEF Wrote
  <1> QED  BY <1>3, <1>4

LEMMA HalfGrows ==
  ASSUME NEW k \in Nat, NEW m \in Nat, k <= m
  PROVE  /\ Half(k) \in Nat /\ Half(k) <= Half(m) /\ Half(k) <= k
         /\ (m <= Capacity => Half(m) <= HalfRing)
         /\ (k > 0 => Half(k) > 0)
  BY Sizes DEF Half

LEMMA SourceKnown ==
  ASSUME RingInv, NEW w \in Workers, pc[w] \in Stealing
  PROVE  reg[w].src \in Workers \ {w}
  BY DEF RingInv, Owns

(* No head moves and no queue gets shorter.                                *)
LEMMA AimsStay ==
  ASSUME RingInv, NEW w \in Workers, pc'[w] = pc[w], reg'[w] = reg[w], head' = head,
         \A v \in Workers : Length(v)' \in Nat /\ Length(v)' >= Length(v)
  PROVE  Aims(w)'
  <1>1. Aims(w) /\ Typed
    BY DEF RingInv
  <1>2. CASE pc[w] = "claim"
    <2> DEFINE v == reg[w].src
    <2>1. v \in Workers
      BY <1>2, SourceKnown DEF Stealing
    <2>2. Length(v) \in Nat /\ Length(v)' \in Nat /\ Length(v)' >= Length(v)
      BY <1>1, <2>1, RingFacts
    <2>3. Half(Length(v)) \in Nat /\ Half(Length(v)) <= Half(Length(v)')
          /\ Half(Length(v)') \in Nat
      BY <2>2, HalfGrows
    <2>4. reg[w].n \in Nat
      BY <1>1 DEF Typed, Regs, Counter
    <2>5. head[v].real = reg[w].head.real => reg[w].n <= Half(Length(v)')
      BY <1>1, <1>2, <2>3, <2>4 DEF Aims
    <2> QED  BY <1>1, <1>2, <2>5 DEF Aims, Copying, Half
  <1>3. CASE pc[w] # "claim"
    BY <1>1, <1>3 DEF Aims, Copying, Held
  <1> QED  BY <1>2, <1>3

(* The real counter of v moves on while no thief is copying, or further    *)
(* beyond what one has claimed.                                            *)
LEMMA AimsMissed ==
  ASSUME RingInv, Unlapped, NEW w \in Workers, pc'[w] = pc[w], reg'[w] = reg[w],
         NEW v \in Workers, \A u \in Workers \ {v} : head'[u] = head[u],
         tail' = tail, head'[v].real # head[v].real,
         Held(v) = 0 \/ (head'[v].steal = head[v].steal /\ Held(v)' > Held(v)),
         Held(v)' \in Nat
  PROVE  Aims(w)'
  <1>1. Aims(w) /\ Typed /\ Owns(w) /\ reg[w].n \in Nat
    BY DEF RingInv, Typed, Regs, Counter
  <1>2. Held(v) \in Nat
    BY <1>1, RingFacts
  <1> DEFINE s == reg[w].src
  <1>3. CASE pc[w] \notin {"claim", "copy", "release"}
    BY <1>3 DEF Aims, Copying
  <1>4. CASE pc[w] \in {"claim", "copy", "release"} /\ s # v
    <2>1. s \in Workers /\ head'[s] = head[s] /\ tail'[s] = tail[s]
      BY <1>4, SourceKnown DEF Stealing
    <2> QED  BY <1>1, <1>4, <2>1 DEF Aims, Copying, Held, Length
  <1>5. CASE pc[w] = "claim" /\ s = v
    <2>1. head'[v].real # reg[w].head.real
      BY <1>5 DEF Unlapped
    <2> QED  BY <1>1, <1>5, <2>1 DEF Aims, Copying
  <1>6. CASE pc[w] \in {"copy", "release"} /\ s = v
    <2>1. /\ head[v].steal = reg[w].head.steal /\ reg[w].n <= Held(v)
          /\ reg[w].n \in 1 .. HalfRing
      BY <1>1, <1>6 DEF Aims, Copying, Owns
    <2>2. head'[v].steal = head[v].steal /\ Held(v)' > Held(v)
      BY <1>2, <2>1, Sizes
    <2> QED  BY <1>1, <1>2, <1>6, <2>1, <2>2 DEF Aims, Copying
  <1> QED  BY <1>3, <1>4, <1>5, <1>6

-----------------------------------------------------------------------------
(* Worker a moves, and writes free slots of its own ring at most.          *)
LEMMA RingsRest ==
  ASSUME RingInv, NEW a \in Workers, head' = head, tail' = tail, Others(a), Typed',
         \A i \in 0 .. Used(a) - 1 :
           buf'[a][Slot(Add(head[a].steal, i))] = buf[a][Slot(Add(head[a].steal, i))],
         \A v \in Workers : Copying(a, v)' => Copying(a, v),
         Owns(a)', Wrote(a)', Aims(a)'
  PROVE  RingInv'
  <1>0. Typed /\ \A w \in Workers : Ordered(w) /\ Filled(w)
    BY DEF RingInv
  <1>1. \A w \in Workers : Used(w)' = Used(w) /\ Length(w)' = Length(w) /\ Held(w)' = Held(w)
    BY DEF Used, Length, Held
  <1>2. Alone'
    BY DEF RingInv, Alone, Copying, Others
  <1>3. ASSUME NEW w \in Workers
        PROVE  Ordered(w)' /\ Filled(w)' /\ Owns(w)' /\ Wrote(w)' /\ Aims(w)'
    <2>1. CASE w = a
      BY <1>0, <2>1, SlotsWritten
    <2>2. CASE w # a
      <3>1. pc'[w] = pc[w] /\ reg'[w] = reg[w] /\ todo'[w] = todo[w] /\ buf'[w] = buf[w]
        BY <2>2 DEF Others
      <3>2. Ordered(w)' /\ Filled(w)'
        BY <1>0, <3>1, SlotsWritten
      <3>3. Owns(w)' /\ Wrote(w)'
        BY <1>0, <1>1, <3>1, RingFacts, OwnsStays
      <3>4. Aims(w)'
        BY <1>0, <1>1, <3>1, RingFacts, AimsStay
      <3> QED  BY <3>2, <3>3, <3>4
    <2> QED  BY <2>1, <2>2
  <1> QED  BY <1>2, <1>3 DEF RingInv

(* Worker a publishes what it has written, and is done.                    *)
LEMMA TailGrows ==
  ASSUME RingInv, NEW a \in Workers, head' = head, buf' = buf, Others(a),
         NEW k \in Nat, Used(a) + k <= Capacity, tail' = [tail EXCEPT ![a] = Add(@, k)],
         \A i \in 0 .. k - 1 : buf[a][Slot(Add(tail[a], i))] \in Tasks,
         global' \in Seq(Tasks), todo' \in [Workers -> Seq(Tasks)], ran' \in [Tasks -> Nat],
         pc' = [pc EXCEPT ![a] = "idle"], reg' \in [Workers -> Regs]
  PROVE  RingInv'
  <1>0. Typed /\ \A w \in Workers : Ordered(w) /\ Filled(w)
    BY DEF RingInv
  <1>1. tail'[a] = Add(tail[a], k) /\ \A w \in Workers \ {a} : tail'[w] = tail[w]
    BY <1>0 DEF Typed
  <1>2. /\ Ordered(a)' /\ Filled(a)' /\ tail'[a] \in Counter
        /\ Used(a)' = Used(a) + k /\ Held(a)' = Held(a) /\ Length(a)' = Length(a) + k
    BY <1>0, <1>1, TailMoves
  <1>3. Typed'
    <2>1. tail' \in [Workers -> Counter] /\ pc' \in [Workers -> Labels]
      BY <1>0, <1>2 DEF Typed, Labels
    <2> QED  BY <1>0, <2>1 DEF Typed
  <1>4. pc'[a] = "idle" /\ Alone'
    BY <1>0 DEF RingInv, Typed, Alone, Copying, Others
  <1>5. \A w \in Workers : Length(w) \in Nat /\ Length(w)' \in Nat /\ Length(w)' >= Length(w)
    <2>1. Length(a) \in Nat
      BY <1>0, RingFacts
    <2>2. \A w \in Workers \ {a} : Length(w)' = Length(w) /\ Length(w) \in Nat
      BY <1>0, <1>1, RingFacts DEF Length
    <2> QED  BY <1>2, <2>1, <2>2
  <1>6. ASSUME NEW w \in Workers
        PROVE  Ordered(w)' /\ Filled(w)' /\ Owns(w)' /\ Wrote(w)' /\ Aims(w)'
    <2>1. CASE w = a
      BY <1>2, <1>4, <2>1
         DEF Owns, Wrote, Aims, Copying, Pushing, Stealing, Fetching
    <2>2. CASE w # a
      <3>1. pc'[w] = pc[w] /\ reg'[w] = reg[w] /\ todo'[w] = todo[w] /\ tail'[w] = tail[w]
        BY <1>1, <2>2 DEF Others
      <3>2. Ordered(w)' /\ Filled(w)' /\ Used(w)' = Used(w)
        BY <1>0, <3>1, SlotsWritten
      <3>3. Owns(w)' /\ Wrote(w)'
        <4>1. Used(w) \in Nat /\ Used(w)' \in Nat /\ Used(w)' <= Used(w)
          BY <1>0, <3>2, RingFacts
        <4>2. (head[w].real = tail[w] => head'[w].real = tail'[w]) /\ buf'[w] = buf[w]
          BY <3>1
        <4> QED  BY <3>1, <4>1, <4>2, OwnsStays
      <3>4. Aims(w)'
        BY <1>5, <3>1, AimsStay
      <3> QED  BY <3>2, <3>3, <3>4
    <2> QED  BY <2>1, <2>2
  <1> QED  BY <1>3, <1>4, <1>6 DEF RingInv

(* k tasks of v are taken, the first of which are behind what a thief may  *)
(* have claimed, and j slots are free.                                     *)
Takes(v, j, k) ==
  /\ tail' = tail /\ buf' = buf
  /\ 0 < k /\ k <= Length(v)
  /\ head' = [head EXCEPT ![v] =
                [steal |-> Add(head[v].steal, j), real |-> Add(head[v].real, k)]]
  /\ (Held(v) = 0 /\ j <= k) \/ j = 0

LEMMA TakenRing ==
  ASSUME RingInv, NEW v \in Workers, NEW j \in Nat, NEW k \in Nat, Takes(v, j, k)
  PROVE  /\ Ordered(v)' /\ Filled(v)' /\ head'[v].real # head[v].real
         /\ head' \in [Workers -> Heads] /\ \A w \in Workers \ {v} : head'[w] = head[w]
         /\ Used(v)' = Used(v) - j /\ Held(v)' = Held(v) + k - j
         /\ Used(v)' \in Nat /\ Used(v)' <= Used(v) /\ Held(v)' \in Nat
         /\ Held(v) = 0 \/ (head'[v].steal = head[v].steal /\ Held(v)' > Held(v))
  <1> USE DEF Takes
  <1>0. Typed /\ \A w \in Workers : Ordered(w) /\ Filled(w)
    BY DEF RingInv
  <1>1. /\ Used(v) \in Nat /\ Held(v) \in Nat /\ Held(v) + k <= Used(v)
        /\ head[v].steal \in Counter /\ head[v].real \in Counter
        /\ Length(v) \in Nat /\ Length(v) < Modulus /\ Used(v) < Modulus
        /\ head[v].real = Add(head[v].steal, Held(v))
    BY <1>0, RingFacts DEF Ordered
  <1>2. Add(head[v].real, k) = Add(head[v].steal, Held(v) + k)
    <2>1. Add(Add(head[v].steal, Held(v)), k) = Add(head[v].steal, Held(v) + k)
      BY <1>1, AddAdd
    <2> QED  BY <1>1, <2>1
  <1>3. /\ head'[v] = [steal |-> Add(head[v].steal, j),
                       real |-> Add(head[v].steal, Held(v) + k)]
        /\ \A w \in Workers \ {v} : head'[w] = head[w]
    BY <1>0, <1>2 DEF Typed
  <1>4. j <= Held(v) + k /\ Held(v) + k \in Nat
    BY <1>1
  <1>5. /\ Ordered(v)' /\ Filled(v)'
        /\ Used(v)' = Used(v) - j /\ Held(v)' = Held(v) + k - j
        /\ Length(v)' = Used(v) - (Held(v) + k) /\ head'[v] \in Heads
    BY <1>0, <1>1, <1>3, <1>4, HeadMoves
  <1>6. head'[v].real # head[v].real
    <2>1. Add(head[v].real, k) # head[v].real
      <3>1. k \in Counter
        BY <1>1, Sizes DEF Counter
      <3>2. Sub(Add(head[v].real, k), head[v].real) = k
        BY <1>1, <3>1, SubOfAdd
      <3> QED  BY <1>1, <3>2, AddZero
    <2> QED  BY <1>2, <1>3, <2>1
  <1>7. Held(v) = 0 \/ (head'[v].steal = head[v].steal /\ Held(v)' > Held(v))
    <2>1. CASE j = 0
      <3>1. head'[v].steal = head[v].steal
        BY <1>1, <1>3, <2>1, AddZero
      <3> QED  BY <1>1, <1>5, <2>1, <3>1
    <2> QED  BY <2>1
  <1>8. head' \in [Workers -> Heads]
    BY <1>0, <1>5 DEF Typed
  <1>9. Used(v)' \in Nat /\ Used(v)' <= Used(v) /\ Held(v)' \in Nat
    BY <1>1, <1>4, <1>5
  <1> QED  BY <1>3, <1>5, <1>6, <1>7, <1>8, <1>9

(* A step of worker a that takes tasks of v.                               *)
LEMMA HeadTaken ==
  ASSUME RingInv, Unlapped, NEW a \in Workers, NEW v \in Workers, Others(a),
         NEW j \in Nat, NEW k \in Nat, Takes(v, j, k),
         Typed', \A w \in Workers : Copying(a, w)' => w = v /\ Held(v) = 0,
         Owns(a)' /\ Wrote(a)' /\ Aims(a)'
  PROVE  RingInv'
  <1>0. Typed /\ (\A w \in Workers : Ordered(w) /\ Filled(w)) /\ tail' = tail /\ buf' = buf
    BY DEF RingInv, Takes
  <1>1. Held(v) \in Nat /\ Length(v) \in Nat /\ (Length(v) > 0 => head[v].real # tail[v])
        /\ Length(v) > 0
    BY <1>0, RingFacts DEF Takes
  <1>5. /\ Ordered(v)' /\ Filled(v)' /\ head'[v].real # head[v].real
        /\ \A w \in Workers \ {v} : head'[w] = head[w]
        /\ Used(v)' \in Nat /\ Used(v)' <= Used(v) /\ Held(v)' \in Nat
        /\ Held(v) = 0 \/ (head'[v].steal = head[v].steal /\ Held(v)' > Held(v))
    BY TakenRing
  <1>8. Alone'
    <2>1. \A w \in Workers : Copying(w, v) => Held(v) > 0
      BY <1>1, Sizes DEF RingInv, Owns, Aims, Copying
    <2>2. ASSUME NEW w \in Workers, NEW u \in Workers, NEW x \in Workers,
                 Copying(w, x)', Copying(u, x)'
          PROVE  w = u
      <3>1. \A y \in Workers \ {a} : Copying(y, x)' => Copying(y, x)
        BY DEF Copying, Others
      <3>2. CASE w # a /\ u # a
        BY <2>2, <3>1, <3>2 DEF RingInv, Alone
      <3>3. CASE w = a /\ u # a
        BY <1>1, <2>1, <2>2, <3>1, <3>3
      <3>4. CASE w # a /\ u = a
        BY <1>1, <2>1, <2>2, <3>1, <3>4
      <3> QED  BY <3>2, <3>3, <3>4
    <2> QED  BY <2>2 DEF Alone
  <1>9. ASSUME NEW w \in Workers
        PROVE  Ordered(w)' /\ Filled(w)' /\ Owns(w)' /\ Wrote(w)' /\ Aims(w)'
    <2>1. Ordered(w)' /\ Filled(w)'
      <3>1. CASE w = v
        BY <1>5, <3>1
      <3>2. CASE w # v
        BY <1>0, <1>5, <3>2, SlotsWritten
      <3> QED  BY <3>1, <3>2
    <2>2. CASE w # a
      <3>1. pc'[w] = pc[w] /\ reg'[w] = reg[w] /\ todo'[w] = todo[w]
        BY <2>2 DEF Others
      <3>2. Used(w)' \in Nat /\ Used(w)' <= Used(w)
        <4>1. CASE w = v
          BY <1>5, <4>1
        <4>2. CASE w # v
          BY <1>0, <1>5, <4>2, RingFacts DEF Used
        <4> QED  BY <4>1, <4>2
      <3>3. head[w].real = tail[w] => head'[w].real = tail'[w]
        <4>1. CASE w = v
          BY <1>1, <4>1
        <4>2. CASE w # v
          BY <1>0, <1>5, <4>2
        <4> QED  BY <4>1, <4>2
      <3>4. Owns(w)' /\ Wrote(w)'
        BY <1>0, <3>1, <3>2, <3>3, OwnsStays
      <3>5. Aims(w)'
        BY <1>0, <1>5, <3>1, AimsMissed
      <3> QED  BY <2>1, <3>4, <3>5
    <2> QED  BY <2>1, <2>2
  <1> QED  BY <1>8, <1>9 DEF RingInv

-----------------------------------------------------------------------------
LEMMA Frame ==
  ASSUME RingInv, NEW w \in Workers
  PROVE  /\ Typed /\ Ordered(w) /\ Filled(w) /\ Owns(w) /\ Wrote(w) /\ Aims(w)
         /\ head[w] \in Heads /\ head[w].steal \in Counter /\ head[w].real \in Counter
         /\ tail[w] \in Counter
         /\ Used(w) \in Nat /\ Held(w) \in Nat /\ Length(w) \in Nat
         /\ Length(w) = Used(w) - Held(w) /\ Used(w) <= Capacity
         /\ pc \in [Workers -> Labels] /\ reg \in [Workers -> Regs]
         /\ reg[w].task \in Tasks \cup {NoTask} /\ reg[w].head \in Heads
         /\ reg[w].head.steal \in Counter /\ reg[w].head.real \in Counter
         /\ reg[w].to \in Counter /\ reg[w].n \in Nat /\ reg[w].i \in Nat
         /\ reg[w].list \in Seq(Tasks) /\ Len(reg[w].list) \in Nat
  <1>1. Typed /\ Ordered(w) /\ Filled(w) /\ Owns(w) /\ Wrote(w) /\ Aims(w)
    BY DEF RingInv
  <1>2. /\ head[w] \in Heads /\ head[w].steal \in Counter /\ head[w].real \in Counter
        /\ tail[w] \in Counter
        /\ Used(w) \in Nat /\ Held(w) \in Nat /\ Length(w) \in Nat
        /\ Length(w) = Used(w) - Held(w) /\ Used(w) <= Capacity
    BY <1>1, RingFacts DEF Ordered, Typed
  <1>3. pc \in [Workers -> Labels] /\ reg \in [Workers -> Regs] /\ reg[w] \in Regs
    BY <1>1 DEF Typed
  <1>4. /\ reg[w].task \in Tasks \cup {NoTask} /\ reg[w].head \in Heads
        /\ reg[w].to \in Counter /\ reg[w].n \in Counter /\ reg[w].i \in 0 .. Capacity
        /\ reg[w].list \in Seq(Tasks)
    BY <1>3 DEF Regs
  <1>5. reg[w].head.steal \in Counter /\ reg[w].head.real \in Counter
    BY <1>4 DEF Heads
  <1>6. reg[w].n \in Nat /\ reg[w].i \in Nat /\ Len(reg[w].list) \in Nat
    BY <1>4, Sizes DEF Counter
  <1> QED  BY <1>1, <1>2, <1>3, <1>4, <1>5, <1>6

LEMMA NoRegsTyped ==
  /\ NoRegs \in Regs /\ NoRegs.i = 0
  /\ \A t \in Tasks, h \in Heads : [NoRegs EXCEPT !.task = t, !.head = h] \in Regs
  /\ \A h \in Heads : [NoRegs EXCEPT !.head = h] \in Regs
  /\ \A v \in Workers, h \in Heads, c \in Counter :
       [NoRegs EXCEPT !.src = v, !.head = h, !.to = c] \in Regs
  /\ \A k \in Counter : [NoRegs EXCEPT !.n = k] \in Regs
  /\ \A l \in Seq(Tasks) : [NoRegs EXCEPT !.list = l] \in Regs
  <1>1. 0 \in Counter /\ 0 \in 0 .. Capacity /\ <<>> \in Seq(Tasks)
    BY Sizes DEF Counter
  <1>2. [steal |-> 0, real |-> 0] \in Heads
    BY <1>1 DEF Heads
  <1>3. NoRegs \in Regs /\ NoRegs.i = 0
    BY <1>1, <1>2 DEF NoRegs, Regs
  <1> QED  BY <1>1, <1>2, <1>3 DEF NoRegs, Regs

(* A worker that is between two methods, or has just looked at its own     *)
(* queue, relies on nothing.                                               *)
LEMMA ReturnKeeps ==
  ASSUME RingInv, NEW a \in Workers, UNCHANGED rings, Return(a),
         global' \in Seq(Tasks), todo' \in [Workers -> Seq(Tasks)], ran' \in [Tasks -> Nat],
         \A w \in Workers \ {a} : todo'[w] = todo[w]
  PROVE  RingInv'
  <1> USE Frame DEF rings, Return, Goto, Set
  <1>1. pc'[a] = "idle" /\ pc' \in [Workers -> Labels] /\ reg' \in [Workers -> Regs]
    BY NoRegsTyped DEF Labels
  <1>2. Typed'
    BY <1>1 DEF Typed
  <1>3. Owns(a)' /\ Wrote(a)' /\ Aims(a)' /\ \A v \in Workers : ~Copying(a, v)'
    BY <1>1 DEF Owns, Wrote, Aims, Copying, Pushing, Stealing, Fetching
  <1>4. Others(a)
    BY DEF Others
  <1> QED  BY <1>2, <1>3, <1>4, RingsRest

LEMMA PushDecideInv ==
  ASSUME RingInv, NEW w \in Workers, todo[w] # <<>>, PushDecide(w, Head(todo[w]))
  PROVE  RingInv'
  <1> USE Frame DEF PushDecide, Goto, Set, rings
  <1> DEFINE t == Head(todo[w])
  <1>1. t \in Tasks /\ todo' = todo
    BY DEF Typed
  <1>2. reg'[w] = [NoRegs EXCEPT !.task = t, !.head = head[w]] /\ reg' \in [Workers -> Regs]
    BY <1>1, NoRegsTyped
  <1>3. reg'[w].task = t /\ reg'[w].head = head[w]
    BY <1>2 DEF NoRegs
  <1>4. /\ pc' \in [Workers -> Labels]
        /\ \/ pc'[w] = "store" /\ Remaining(w) > 0
           \/ pc'[w] = "share"
           \/ pc'[w] = "overflow" /\ ~(Remaining(w) > 0) /\ head[w].steal = head[w].real
    BY DEF Labels, Pushing
  <1>5. Typed'
    BY <1>2, <1>4 DEF Typed
  <1>6. /\ Remaining(w) = Capacity - Used(w) /\ Sub(tail[w], head[w].steal) = Used(w)
        /\ Used(w) \in Nat /\ Used(w) <= Capacity /\ Used(w)' = Used(w)
    BY DEF Remaining, Used
  <1>7. Owns(w)'
    <2>1. pc'[w] = "store" => Used(w)' < Capacity
      <3>1. Remaining(w) > 0 => Used(w)' < Capacity
        BY ONLY <1>6, Sizes
      <3> QED  BY <1>4, <3>1
    <2>2. pc'[w] = "overflow" =>
            head[w].steal = head[w].real /\ Sub(tail[w], head[w].real) = Capacity
      <3>1. ~(Remaining(w) > 0) => Used(w) = Capacity
        BY ONLY <1>6, Sizes
      <3> QED  BY <1>4, <1>6, <3>1
    <2> QED  BY <1>1, <1>3, <1>4, <2>1, <2>2 DEF Owns, Pushing, Stealing, Fetching
  <1>8. Wrote(w)' /\ Aims(w)' /\ \A v \in Workers : ~Copying(w, v)'
    BY <1>4 DEF Wrote, Aims, Copying
  <1>9. Others(w)
    BY DEF Others
  <1> QED  BY <1>5, <1>7, <1>8, <1>9, RingsRest

LEMMA PushBeginInv ==
  ASSUME RingInv, NEW w \in Workers, PushBegin(w)
  PROVE  RingInv'
  BY PushDecideInv DEF PushBegin

(* The slot written is free.                                               *)
LEMMA PushStoreWrites ==
  ASSUME RingInv, NEW w \in Workers, PushStore(w)
  PROVE  /\ Used(w) < Capacity /\ todo[w] # <<>> /\ reg[w].task = Head(todo[w])
         /\ buf' \in [Workers -> [0 .. Capacity - 1 -> Tasks \cup {NoTask}]]
         /\ buf'[w][Slot(tail[w])] = reg[w].task
         /\ Others(w)
         /\ \A i \in 0 .. Used(w) - 1 :
              buf'[w][Slot(Add(head[w].steal, i))] = buf[w][Slot(Add(head[w].steal, i))]
  <1> USE Frame DEF PushStore, Goto
  <1>1. /\ Used(w) < Capacity /\ todo[w] # <<>> /\ reg[w].task = Head(todo[w])
        /\ reg[w].task \in Tasks
    BY DEF Owns, Pushing, Typed
  <1> DEFINE s == Slot(tail[w])
  <1>2. s \in 0 .. Capacity - 1
    BY SlotOfCounter
  <1>3. /\ buf' \in [Workers -> [0 .. Capacity - 1 -> Tasks \cup {NoTask}]]
        /\ buf'[w][s] = reg[w].task
        /\ \A c \in 0 .. Capacity - 1 : c # s => buf'[w][c] = buf[w][c]
        /\ \A v \in Workers \ {w} : buf'[v] = buf[v]
    BY <1>1, <1>2 DEF Typed
  <1>4. ASSUME NEW i \in 0 .. Used(w) - 1
        PROVE  buf'[w][Slot(Add(head[w].steal, i))] = buf[w][Slot(Add(head[w].steal, i))]
    <2>1. Slot(Add(tail[w], 0)) # Slot(Add(head[w].steal, i))
      <3>1. Used(w) + 0 < Capacity /\ Typed
        BY <1>1
      <3> QED  BY <3>1, FreeSlot
    <2>2. Add(tail[w], 0) = tail[w]
      BY AddZero
    <2>3. Add(head[w].steal, i) \in Counter
      <3>1. i \in Nat /\ head[w].steal \in Counter
        OBVIOUS
      <3> QED  BY <3>1, CounterOps
    <2> QED  BY <1>3, <2>1, <2>2, <2>3, SlotOfCounter
  <1>5. Others(w)
    BY <1>3 DEF Others
  <1> QED  BY <1>1, <1>3, <1>4, <1>5

LEMMA PushStoreInv ==
  ASSUME RingInv, NEW w \in Workers, PushStore(w)
  PROVE  RingInv'
  <1> USE Frame DEF PushStore, Goto
  <1>1. /\ Used(w) < Capacity /\ todo[w] # <<>> /\ reg[w].task = Head(todo[w])
        /\ buf' \in [Workers -> [0 .. Capacity - 1 -> Tasks \cup {NoTask}]]
        /\ buf'[w][Slot(tail[w])] = reg[w].task
    BY PushStoreWrites
  <1>2. pc'[w] = "publish" /\ pc' \in [Workers -> Labels]
    BY DEF Labels, Pushing
  <1>3. Typed'
    BY <1>1, <1>2 DEF Typed
  <1>4. Owns(w)' /\ Wrote(w)' /\ Aims(w)' /\ \A v \in Workers : ~Copying(w, v)'
    BY <1>1, <1>2 DEF Owns, Wrote, Aims, Copying, Used, Pushing, Stealing, Fetching
  <1> QED  BY <1>3, <1>4, PushStoreWrites, RingsRest

LEMMA ScheduledTyped ==
  ASSUME Typed, NEW w \in Workers, todo[w] # <<>>, Scheduled(w)
  PROVE  /\ todo' \in [Workers -> Seq(Tasks)] /\ Head(todo[w]) \in Tasks
         /\ todo'[w] = Tail(todo[w]) /\ \A v \in Workers \ {w} : todo'[v] = todo[v]
  BY DEF Typed, Scheduled

LEMMA RunTyped ==
  ASSUME Typed, NEW t \in Tasks, Run(t)
  PROVE  ran' \in [Tasks -> Nat]
  BY DEF Typed, Run

LEMMA PushPublishInv ==
  ASSUME RingInv, NEW w \in Workers, PushPublish(w)
  PROVE  RingInv'
  <1> USE Frame DEF PushPublish, Return, Goto, Set
  <1>1. /\ Used(w) < Capacity /\ todo[w] # <<>> /\ reg[w].task = Head(todo[w])
        /\ reg[w].task \in Tasks /\ buf[w][Slot(tail[w])] = reg[w].task
    BY DEF Owns, Wrote, Pushing, Typed
  <1>2. \A i \in 0 .. 1 - 1 : buf[w][Slot(Add(tail[w], i))] \in Tasks
    BY <1>1, AddZero
  <1>3. todo' \in [Workers -> Seq(Tasks)] /\ \A v \in Workers \ {w} : todo'[v] = todo[v]
    BY <1>1, ScheduledTyped
  <1>4. Others(w) /\ global' \in Seq(Tasks) /\ ran' \in [Tasks -> Nat]
    BY <1>3 DEF Others, Typed
  <1>5. reg' \in [Workers -> Regs]
    BY NoRegsTyped
  <1>6. Used(w) + 1 <= Capacity
    BY <1>1, Sizes
  <1> QED  BY <1>2, <1>3, <1>4, <1>5, <1>6, TailGrows

LEMMA PushShareInv ==
  ASSUME RingInv, NEW w \in Workers, PushShare(w)
  PROVE  RingInv'
  <1>1. Typed /\ todo[w] # <<>> /\ reg[w].task = Head(todo[w])
    BY Frame DEF PushShare, Owns, Pushing
  <1>2. /\ todo' \in [Workers -> Seq(Tasks)] /\ \A v \in Workers \ {w} : todo'[v] = todo[v]
        /\ reg[w].task \in Tasks
    BY <1>1, ScheduledTyped DEF PushShare
  <1>3. global' \in Seq(Tasks) /\ ran' \in [Tasks -> Nat]
    BY <1>1, <1>2 DEF PushShare, Typed
  <1> QED  BY <1>2, <1>3, ReturnKeeps DEF PushShare

LEMMA SpilledTyped ==
  ASSUME RingInv, NEW w \in Workers, pc[w] = "spill"
  PROVE  Spilled(w) \in Seq(Tasks) /\ Len(Spilled(w)) = HalfRing
  <1>1. \A i \in 0 .. HalfRing - 1 : buf[w][Slot(Add(reg[w].head.real, i))] \in Tasks
    BY Frame DEF Wrote
  <1>2. \A i \in 1 .. HalfRing : i - 1 \in 0 .. HalfRing - 1
    BY Sizes
  <1>3. \A i \in 1 .. HalfRing : buf[w][Slot(Add(reg[w].head.real, i - 1))] \in Tasks
    BY <1>1, <1>2
  <1>4. Spilled(w) = [i \in 1 .. HalfRing |-> buf[w][Slot(Add(reg[w].head.real, i - 1))]]
    BY Sizes DEF Spilled
  <1> DEFINE f == [i \in 1 .. HalfRing |-> buf[w][Slot(Add(reg[w].head.real, i - 1))]]
  <1>5. f \in [1 .. HalfRing -> Tasks]
    BY <1>3
  <1> HIDE DEF f
  <1>6. f \in Seq(Tasks) /\ Len(f) = HalfRing
    BY <1>5, Sizes
  <1> QED  BY <1>4, <1>6 DEF f

LEMMA OverflowSpillInv ==
  ASSUME RingInv, NEW w \in Workers, OverflowSpill(w)
  PROVE  RingInv'
  <1>1. Typed /\ todo[w] # <<>> /\ reg[w].task = Head(todo[w])
    BY Frame DEF OverflowSpill, Owns, Pushing
  <1>2. /\ todo' \in [Workers -> Seq(Tasks)] /\ \A v \in Workers \ {w} : todo'[v] = todo[v]
        /\ reg[w].task \in Tasks
    BY <1>1, ScheduledTyped DEF OverflowSpill
  <1>3. Spilled(w) \in Seq(Tasks)
    BY SpilledTyped DEF OverflowSpill
  <1>4. Append(Spilled(w), reg[w].task) \in Seq(Tasks)
    BY <1>2, <1>3
  <1>5. global' \in Seq(Tasks) /\ ran' \in [Tasks -> Nat]
    BY <1>1, <1>4 DEF OverflowSpill, Typed
  <1> QED  BY <1>2, <1>5, ReturnKeeps DEF OverflowSpill

LEMMA OverflowClaimInv ==
  ASSUME RingInv, Unlapped, NEW w \in Workers, OverflowClaim(w)
  PROVE  RingInv'
  <1> DEFINE h == reg[w].head
  <1>1. /\ pc[w] = "overflow" /\ todo[w] # <<>> /\ reg[w].task = Head(todo[w])
        /\ h.steal = h.real /\ Sub(tail[w], h.real) = Capacity
    BY Frame DEF OverflowClaim, Owns, Pushing
  <1>2. CASE head[w] = h
    <2>1. Used(w) = Capacity /\ Length(w) = Capacity /\ Held(w) = 0
      BY <1>1, <1>2, Frame, AddZero DEF Used, Held, Length
    <2>2. Takes(w, HalfRing, HalfRing)
      <3>1. 0 < HalfRing /\ HalfRing <= Length(w)
        BY <2>1, Sizes
      <3>2. HalfRing <= HalfRing /\ Capacity \div 2 = HalfRing
        BY Sizes
      <3>3. tail' = tail /\ buf' = buf
            /\ head' = [head EXCEPT ![w] = [steal |-> Add(h.real, Capacity \div 2),
                                            real |-> Add(h.real, Capacity \div 2)]]
        BY <1>2 DEF OverflowClaim
      <3> QED  BY <1>1, <1>2, <2>1, <3>1, <3>2, <3>3 DEF Takes
    <2>3. /\ pc' = [pc EXCEPT ![w] = "spill"] /\ reg' = reg /\ todo' = todo
          /\ tail' = tail /\ buf' = buf /\ global' = global /\ ran' = ran
      BY <1>2 DEF OverflowClaim, Goto
    <2>4. pc'[w] = "spill" /\ pc' \in [Workers -> Labels]
      BY <2>3, Frame DEF Labels, Pushing
    <2>5. HalfRing \in Nat
      BY Sizes
    <2>6. Typed'
      <3>1. head' \in [Workers -> Heads]
        BY <2>2, <2>5, TakenRing
      <3> QED  BY <2>3, <2>4, <3>1, Frame DEF Typed
    <2>7. Wrote(w)'
      <3>1. \A i \in 0 .. HalfRing - 1 : i \in 0 .. Used(w) - 1
        BY <2>1, Sizes
      <3>2. \A i \in 0 .. HalfRing - 1 : buf[w][Slot(Add(h.real, i))] \in Tasks
        BY <1>1, <1>2, <3>1, Frame DEF Filled
      <3> QED  BY <2>3, <2>4, <3>2 DEF Wrote
    <2>8. Owns(w)'
      BY <1>1, <2>3, <2>4 DEF Owns, Pushing, Stealing, Fetching
    <2>9. Aims(w)' /\ \A v \in Workers : ~Copying(w, v)'
      BY <2>4 DEF Aims, Copying
    <2>10. Others(w)
      BY <2>3, Frame DEF Others
    <2> QED  BY <2>2, <2>5, <2>6, <2>7, <2>8, <2>9, <2>10, HeadTaken
  <1>3. CASE head[w] # h
    <2>1. PushDecide(w, Head(todo[w]))
      BY <1>1, <1>3 DEF OverflowClaim
    <2> QED  BY <1>1, <2>1, PushDecideInv
  <1> QED  BY <1>2, <1>3

-----------------------------------------------------------------------------
LEMMA PopDecideInv ==
  ASSUME RingInv, NEW w \in Workers, PopDecide(w)
  PROVE  RingInv'
  <1>1. CASE head[w].real = tail[w]
    BY <1>1, ReturnKeeps, Frame DEF PopDecide, Typed
  <1>2. CASE head[w].real # tail[w]
    <2>1. /\ pc' = [pc EXCEPT ![w] = "pop"]
          /\ reg' = [reg EXCEPT ![w] = [NoRegs EXCEPT !.head = head[w]]]
          /\ UNCHANGED <<head, tail, buf, global, todo, ran>>
      BY <1>2 DEF PopDecide, Goto, Set, rings
    <2>2. /\ pc'[w] = "pop" /\ pc' \in [Workers -> Labels]
          /\ reg'[w].head = head[w] /\ reg' \in [Workers -> Regs]
      <3>1. [NoRegs EXCEPT !.head = head[w]] \in Regs
        BY Frame, NoRegsTyped
      <3> QED  BY <2>1, <3>1, Frame DEF Labels, NoRegs
    <2>3. Typed'
      BY <2>1, <2>2, Frame DEF Typed
    <2>4. Owns(w)' /\ Wrote(w)' /\ Aims(w)' /\ \A v \in Workers : ~Copying(w, v)'
      BY <1>2, <2>1, <2>2 DEF Owns, Wrote, Aims, Copying, Pushing, Stealing, Fetching
    <2>5. Others(w)
      BY <2>1, Frame DEF Others
    <2> QED  BY <2>1, <2>3, <2>4, <2>5, RingsRest
  <1> QED  BY <1>1, <1>2

LEMMA PopBeginInv ==
  ASSUME RingInv, NEW w \in Workers, PopBegin(w)
  PROVE  RingInv'
  BY PopDecideInv DEF PopBegin

(* The oldest task anyone may take is a task.                              *)
LEMMA NextIsTask ==
  ASSUME RingInv, NEW w \in Workers, head[w].real # tail[w]
  PROVE  buf[w][Slot(head[w].real)] \in Tasks /\ Length(w) > 0
  <1>1. Length(w) > 0 /\ Held(w) \in 0 .. Used(w) - 1
          /\ head[w].real = Add(head[w].steal, Held(w))
    BY Frame, RingFacts
  <1> QED  BY <1>1, Frame DEF Filled

LEMMA PopClaimInv ==
  ASSUME RingInv, Unlapped, NEW w \in Workers, PopClaim(w)
  PROVE  RingInv'
  <1>1. pc[w] = "pop" /\ reg[w].head.real # tail[w]
    BY Frame DEF PopClaim, Owns
  <1>2. CASE head[w] = reg[w].head
    <2>1. buf[w][Slot(head[w].real)] \in Tasks /\ Length(w) > 0
      BY <1>1, <1>2, NextIsTask
    <2>2. /\ head' = [head EXCEPT ![w] = Popped(head[w])] /\ Run(buf[w][Slot(head[w].real)])
          /\ pc' = [pc EXCEPT ![w] = "idle"] /\ reg' = [reg EXCEPT ![w] = NoRegs]
          /\ UNCHANGED <<tail, buf, global, todo>>
      BY <1>2 DEF PopClaim, Return, Goto, Set
    <2>3. pc'[w] = "idle" /\ pc' \in [Workers -> Labels] /\ reg' \in [Workers -> Regs]
      BY <2>2, Frame, NoRegsTyped DEF Labels
    <2>4. ran' \in [Tasks -> Nat]
      BY <2>1, <2>2, RunTyped, Frame
    <2>5. Owns(w)' /\ Wrote(w)' /\ Aims(w)' /\ \A v \in Workers : ~Copying(w, v)'
      BY <2>3 DEF Owns, Wrote, Aims, Copying, Pushing, Stealing, Fetching
    <2>6. Others(w)
      BY <2>2, Frame DEF Others
    <2>7. Length(w) \in Nat /\ 0 < 1 /\ 1 <= Length(w)
      BY <2>1, Frame
    <2>8. CASE head[w].steal = head[w].real
      <3>1. Takes(w, 1, 1)
        <4>1. Held(w) = 0
          BY <2>8, Frame, AddZero DEF Held
        <4>2. Popped(head[w]) = [steal |-> Add(head[w].steal, 1), real |-> Add(head[w].real, 1)]
          BY <2>8 DEF Popped
        <4> QED  BY <2>2, <2>7, <4>1, <4>2 DEF Takes
      <3>2. Typed'
        <4>1. head' \in [Workers -> Heads]
          BY <3>1, TakenRing
        <4> QED  BY <2>2, <2>3, <2>4, <4>1, Frame DEF Typed
      <3> QED  BY <2>5, <2>6, <3>1, <3>2, HeadTaken
    <2>9. CASE head[w].steal # head[w].real
      <3>1. Takes(w, 0, 1)
        <4>1. Popped(head[w]) = [steal |-> Add(head[w].steal, 0), real |-> Add(head[w].real, 1)]
          BY <2>9, Frame, AddZero DEF Popped
        <4> QED  BY <2>2, <2>7, <4>1 DEF Takes
      <3>2. Typed'
        <4>1. head' \in [Workers -> Heads]
          BY <3>1, TakenRing
        <4> QED  BY <2>2, <2>3, <2>4, <4>1, Frame DEF Typed
      <3> QED  BY <2>5, <2>6, <3>1, <3>2, HeadTaken
    <2> QED  BY <2>8, <2>9
  <1>3. CASE head[w] # reg[w].head
    BY <1>3, PopDecideInv DEF PopClaim
  <1> QED  BY <1>2, <1>3

-----------------------------------------------------------------------------
LEMMA StealBeginInv ==
  ASSUME RingInv, NEW w \in Workers, StealBegin(w)
  PROVE  RingInv'
  <1>1. PICK v \in Workers \ {w} :
          reg' = [reg EXCEPT ![w] = [NoRegs EXCEPT !.src = v, !.head = head[v], !.to = tail[w]]]
    BY DEF StealBegin, Set
  <1>2. /\ pc' = [pc EXCEPT ![w] = "look"] /\ UNCHANGED <<head, tail, buf, global, todo, ran>>
        /\ head[w].real = tail[w] /\ Remaining(w) >= Capacity \div 2
    BY DEF StealBegin, Goto, rings
  <1>3. /\ pc'[w] = "look" /\ pc' \in [Workers -> Labels] /\ reg' \in [Workers -> Regs]
        /\ reg'[w].src = v /\ reg'[w].to = tail[w] /\ reg'[w].i = 0
    <2>1. head[v] \in Heads /\ tail[w] \in Counter
      BY Frame
    <2>2. [NoRegs EXCEPT !.src = v, !.head = head[v], !.to = tail[w]] \in Regs
      BY <2>1, NoRegsTyped
    <2> QED  BY <1>1, <1>2, <2>2, Frame DEF Labels, Stealing, NoRegs
  <1>4. Typed'
    BY <1>2, <1>3, Frame DEF Typed
  <1>5. Used(w)' <= HalfRing
    <2>1. Used(w)' = Used(w) /\ Remaining(w) = Capacity - Used(w)
      BY <1>2 DEF Used, Remaining
    <2>2. Used(w) \in Nat /\ Remaining(w) >= Capacity \div 2
      BY <1>2, Frame
    <2> QED  BY <2>1, <2>2, Sizes
  <1>6. Owns(w)' /\ Wrote(w)' /\ Aims(w)' /\ \A x \in Workers : ~Copying(w, x)'
    BY <1>2, <1>3, <1>5 DEF Owns, Wrote, Aims, Copying, Pushing, Stealing, Fetching
  <1>7. Others(w)
    BY <1>1, <1>2, Frame DEF Others
  <1> QED  BY <1>2, <1>4, <1>6, <1>7, RingsRest

LEMMA StealLookInv ==
  ASSUME RingInv, NEW w \in Workers, StealLook(w)
  PROVE  RingInv'
  <1> DEFINE v == reg[w].src
             h == reg[w].head
             m == Sub(tail[v], h.real)
             n == Half(m)
  <1>1. /\ pc[w] = "look" /\ v \in Workers \ {w} /\ reg[w].to = tail[w] /\ reg[w].i = 0
        /\ head[w].real = tail[w] /\ Used(w) <= HalfRing
    BY Frame DEF StealLook, Owns, Stealing
  <1>2. CASE h.steal # h.real \/ n = 0
    BY <1>2, ReturnKeeps, Frame DEF StealLook, Typed
  <1>3. CASE h.steal = h.real /\ n # 0
    <2>1. /\ pc' = [pc EXCEPT ![w] = "claim"] /\ reg' = [reg EXCEPT ![w].n = n]
          /\ UNCHANGED <<head, tail, buf, global, todo, ran>>
      BY <1>3 DEF StealLook, Goto, rings
    <2>2. m \in Counter /\ tail[v] \in Counter
      BY <1>1, Frame, CounterOps
    <2>3. n \in Counter /\ n > 0
      <3>1. m \in Nat
        BY <2>2 DEF Counter
      <3>2. n \in Nat /\ n <= m
        BY <3>1, HalfGrows
      <3> QED  BY <1>3, <2>2, <3>1, <3>2, Sizes DEF Counter
    <2> HIDE DEF n
    <2>4. /\ pc'[w] = "claim" /\ pc' \in [Workers -> Labels] /\ reg' \in [Workers -> Regs]
          /\ reg'[w].src = v /\ reg'[w].head = h /\ reg'[w].to = reg[w].to
          /\ reg'[w].i = reg[w].i /\ reg'[w].n = n
      <3>1. [reg[w] EXCEPT !.n = n] \in Regs
        BY <2>3, Frame DEF Regs
      <3>2. reg[w] \in Regs
        BY Frame
      <3> QED  BY <2>1, <3>1, <3>2, Frame DEF Labels, Stealing, Regs
    <2>5. Typed'
      BY <2>1, <2>4, Frame DEF Typed
    <2>6. head[v].real = h.real => n <= Half(Length(v))
      <3>1. head[v].real = h.real => n = Half(Length(v))
        BY DEF Length, n
      <3>2. n \in Nat
        BY <2>3 DEF Counter
      <3> QED  BY <3>1, <3>2
    <2>7. Aims(w)' /\ \A x \in Workers : ~Copying(w, x)'
      BY <1>3, <2>1, <2>3, <2>4, <2>6 DEF Aims, Copying, Length, Half
    <2>8. Owns(w)' /\ Wrote(w)'
      BY <1>1, <2>1, <2>4 DEF Owns, Wrote, Used, Pushing, Stealing, Fetching
    <2>9. Others(w)
      BY <2>1, Frame DEF Others
    <2> QED  BY <2>1, <2>5, <2>7, <2>8, <2>9, RingsRest
  <1> QED  BY <1>2, <1>3

LEMMA StealClaimInv ==
  ASSUME RingInv, Unlapped, NEW w \in Workers, StealClaim(w)
  PROVE  RingInv'
  <1> DEFINE h == reg[w].head
             n == reg[w].n
  <1>0. PICK v \in Workers \ {w} : v = reg[w].src
    BY Frame DEF StealClaim, Owns, Stealing
  <1>1. /\ pc[w] = "claim" /\ reg[w].src = v /\ reg[w].to = tail[w] /\ reg[w].i = 0
        /\ head[w].real = tail[w] /\ Used(w) <= HalfRing /\ h.steal = h.real /\ n > 0
        /\ head[v].real = h.real => n <= Half(Length(v))
    BY <1>0, Frame DEF StealClaim, Owns, Aims, Stealing
  <1>2. /\ UNCHANGED <<tail, buf, global, todo, ran>> /\ n \in Nat /\ reg[w] \in Regs
        /\ head[w] \in Heads /\ head[v] \in Heads
    BY <1>0, <1>1, Frame DEF StealClaim
  <1>3. CASE head[v] = h
    <2>1. /\ head' = [head EXCEPT ![v] = Claimed(h, n)] /\ pc' = [pc EXCEPT ![w] = "copy"]
          /\ reg' = reg
      BY <1>1, <1>3 DEF StealClaim, Goto
    <2>2. /\ Held(v) = 0 /\ Length(v) \in Nat /\ Length(v) <= Capacity
          /\ head[v].steal \in Counter
      <3>1. head[v].steal = head[v].real /\ head[v].real \in Counter
        BY <1>1, <1>3, Frame
      <3>2. Held(v) = 0
        BY <3>1, AddZero DEF Held
      <3>3. Used(v) \in Nat /\ Held(v) \in Nat /\ Length(v) = Used(v) - Held(v)
              /\ Used(v) <= Capacity
            /\ Length(v) \in Nat
        BY <1>1, Frame
      <3> QED  BY <3>1, <3>2, <3>3, Sizes
    <2>3. n <= Length(v) /\ n \in 1 .. HalfRing
      <3>1. n <= Half(Length(v))
        BY <1>1, <1>3
      <3>2. Half(Length(v)) \in Nat /\ Half(Length(v)) <= Length(v)
        BY <2>2, HalfGrows
      <3>3. Half(Length(v)) <= Half(Capacity) /\ Half(Capacity) \in Nat
        BY <2>2, HalfGrows, Sizes
      <3>4. Half(Capacity) = HalfRing
        BY Sizes DEF Half
      <3> QED  BY <1>1, <1>2, <2>2, <3>1, <3>2, <3>3, <3>4, Sizes
    <2>4. Takes(v, 0, n)
      <3>1. Claimed(h, n) = [steal |-> Add(head[v].steal, 0), real |-> Add(head[v].real, n)]
        BY <1>3, <2>2, AddZero DEF Claimed
      <3> QED  BY <1>1, <1>2, <2>1, <2>3, <3>1 DEF Takes
    <2>5. /\ head' \in [Workers -> Heads] /\ \A x \in Workers \ {v} : head'[x] = head[x]
          /\ Held(v)' = n
      <3>1. /\ head' \in [Workers -> Heads] /\ \A x \in Workers \ {v} : head'[x] = head[x]
            /\ Held(v)' = Held(v) + n - 0
        BY <1>2, <2>4, TakenRing
      <3> QED  BY <1>2, <2>2, <3>1
    <2>6. pc'[w] = "copy" /\ pc' \in [Workers -> Labels]
      BY <2>1, Frame DEF Labels, Stealing
    <2>7. Typed'
      BY <1>2, <2>1, <2>5, <2>6, Frame DEF Typed
    <2>8. head'[v].steal = h.steal
      BY <1>1, <1>3, <2>1, Frame DEF Claimed
    <2>9. Aims(w)' /\ \A x \in Workers : Copying(w, x)' => x = v
      BY <1>1, <1>2, <2>1, <2>5, <2>6, <2>8 DEF Aims, Copying
    <2>10. Owns(w)' /\ Wrote(w)'
      <3>1. head'[w] = head[w] /\ tail' = tail /\ Used(w)' = Used(w)
        BY <1>1, <1>2, <2>5 DEF Used
      <3>2. 0 < n
        BY <1>1
      <3> QED  BY <1>1, <1>2, <2>1, <2>3, <2>6, <3>1, <3>2
               DEF Owns, Wrote, Pushing, Stealing, Fetching
    <2>11. Others(w)
      BY <1>2, <2>1, Frame DEF Others
    <2> QED  BY <1>1, <1>2, <2>2, <2>4, <2>7, <2>9, <2>10, <2>11, HeadTaken
  <1>4. CASE head[v] # h
    <2>1. /\ head' = head /\ pc' = [pc EXCEPT ![w] = "look"]
          /\ reg' = [reg EXCEPT ![w].head = head[v]]
      BY <1>1, <1>4 DEF StealClaim, Goto
    <2>2. /\ pc'[w] = "look" /\ pc' \in [Workers -> Labels] /\ reg' \in [Workers -> Regs]
          /\ reg'[w].src = v /\ reg'[w].to = reg[w].to /\ reg'[w].i = reg[w].i
      <3>1. [reg[w] EXCEPT !.head = head[v]] \in Regs
        BY <1>2 DEF Regs
      <3> QED  BY <1>1, <1>2, <2>1, <3>1, Frame DEF Labels, Stealing, Regs
    <2>3. Typed'
      BY <1>2, <2>1, <2>2, Frame DEF Typed
    <2>4. Owns(w)' /\ Wrote(w)' /\ Aims(w)' /\ \A x \in Workers : ~Copying(w, x)'
      BY <1>1, <1>2, <2>1, <2>2
         DEF Owns, Wrote, Aims, Copying, Used, Pushing, Stealing, Fetching
    <2>5. Others(w)
      BY <1>2, <2>1, Frame DEF Others
    <2> QED  BY <1>2, <2>1, <2>3, <2>4, <2>5, RingsRest
  <1> QED  BY <1>3, <1>4

(* The slot written is free and none of those already copied.              *)
LEMMA StealCopyWrites ==
  ASSUME RingInv, NEW w \in Workers, StealCopy(w), NEW v \in Workers, v = reg[w].src,
         NEW i \in Nat, i = reg[w].i, NEW t, t = buf[v][Slot(Add(reg[w].head.steal, i))]
  PROVE  /\ pc[w] = "copy" /\ v # w /\ reg[w].to = tail[w] /\ head[w].real = tail[w]
         /\ Used(w) \in Nat /\ Used(w) <= HalfRing /\ reg[w].n \in 1 .. HalfRing /\ i < reg[w].n
         /\ head[v].steal = reg[w].head.steal /\ reg[w].n <= Held(v) /\ t \in Tasks
         /\ buf' \in [Workers -> [0 .. Capacity - 1 -> Tasks \cup {NoTask}]]
         /\ buf'[w][Slot(Add(tail[w], i))] = t
         /\ \A k \in 0 .. i - 1 : buf'[w][Slot(Add(tail[w], k))] = buf[w][Slot(Add(tail[w], k))]
         /\ Others(w)
         /\ \A k \in 0 .. Used(w) - 1 :
              buf'[w][Slot(Add(head[w].steal, k))] = buf[w][Slot(Add(head[w].steal, k))]
  <1> DEFINE dest(k) == Slot(Add(tail[w], k))
  <1>1. /\ pc[w] = "copy" /\ v # w /\ reg[w].to = tail[w] /\ head[w].real = tail[w]
        /\ Used(w) \in Nat /\ Used(w) <= HalfRing /\ reg[w].n \in 1 .. HalfRing /\ i < reg[w].n
        /\ head[v].steal = reg[w].head.steal /\ reg[w].n <= Held(v)
        /\ tail[w] \in Counter /\ head[w].steal \in Counter /\ i \in 0 .. Capacity - 1
    <2>1. /\ pc[w] = "copy" /\ v # w /\ reg[w].to = tail[w] /\ head[w].real = tail[w]
          /\ Used(w) \in Nat /\ Used(w) <= HalfRing /\ reg[w].n \in 1 .. HalfRing
          /\ i < reg[w].n /\ head[v].steal = reg[w].head.steal /\ reg[w].n <= Held(v)
          /\ tail[w] \in Counter /\ head[w].steal \in Counter
      BY Frame DEF StealCopy, Owns, Aims, Copying, Stealing
    <2> QED  BY <2>1, Sizes
  <1>2. /\ buf' = [buf EXCEPT ![w][dest(i)] = t]
        /\ \A u \in Workers \ {w} : pc'[u] = pc[u] /\ reg'[u] = reg[u]
        /\ UNCHANGED <<head, tail, global, todo, ran>>
    BY <1>1, Frame DEF StealCopy, Goto
  <1>3. t \in Tasks
    <2>1. Held(v) \in Nat /\ Used(v) \in Nat /\ Held(v) <= Used(v)
      BY Frame DEF Ordered
    <2>2. i \in 0 .. Used(v) - 1
      BY <1>1, <2>1, Sizes
    <2> QED  BY <1>1, <2>2, Frame DEF Filled
  <1>4. \A k \in Nat : dest(k) \in 0 .. Capacity - 1
    BY <1>1, CounterOps, SlotOfCounter
  <1>5. /\ buf' \in [Workers -> [0 .. Capacity - 1 -> Tasks \cup {NoTask}]]
        /\ buf'[w][dest(i)] = t
        /\ \A c \in 0 .. Capacity - 1 : c # dest(i) => buf'[w][c] = buf[w][c]
        /\ \A u \in Workers \ {w} : buf'[u] = buf[u]
    <2>1. buf \in [Workers -> [0 .. Capacity - 1 -> Tasks \cup {NoTask}]]
      BY Frame DEF Typed
    <2>2. dest(i) \in 0 .. Capacity - 1
      BY <1>4
    <2> HIDE DEF dest
    <2> QED  BY <1>2, <1>3, <2>1, <2>2
  <1>6. ASSUME NEW k \in 0 .. Used(w) - 1
        PROVE  buf'[w][Slot(Add(head[w].steal, k))] = buf[w][Slot(Add(head[w].steal, k))]
    <2>1. Used(w) + i < Capacity /\ Typed
      <3>1. PICK n \in Nat, u \in Nat : n <= HalfRing /\ i < n /\ u = Used(w) /\ u <= HalfRing
        BY <1>1
      <3>2. u + i < Capacity
        BY <3>1, Sizes
      <3> QED  BY <3>1, <3>2, Frame
    <2>2. dest(i) # Slot(Add(head[w].steal, k))
      BY <1>1, <2>1, FreeSlot
    <2>3. Slot(Add(head[w].steal, k)) \in 0 .. Capacity - 1
      <3>1. k \in Nat
        OBVIOUS
      <3> QED  BY <1>1, <3>1, CounterOps, SlotOfCounter
    <2> HIDE DEF dest
    <2> QED  BY <1>5, <2>2, <2>3
  <1>7. ASSUME NEW k \in 0 .. i - 1
        PROVE  buf'[w][dest(k)] = buf[w][dest(k)]
    <2>1. k \in 0 .. Capacity - 1 /\ k # i /\ k \in Nat
      <3>1. i <= Capacity - 1 /\ Capacity \in Nat
        BY <1>1, Sizes
      <3> QED  BY <3>1
    <2>2. dest(k) # dest(i)
      BY <1>1, <2>1, SlotsDiffer
    <2>3. dest(k) \in 0 .. Capacity - 1
      BY <1>4, <2>1
    <2> HIDE DEF dest
    <2> QED  BY <1>5, <2>2, <2>3
  <1>8. Others(w)
    BY <1>2, <1>5 DEF Others
  <1> QED  BY <1>1, <1>3, <1>5, <1>6, <1>7, <1>8

LEMMA StealCopyInv ==
  ASSUME RingInv, NEW w \in Workers, StealCopy(w)
  PROVE  RingInv'
  <1> DEFINE n == reg[w].n
             dest(k) == Slot(Add(tail[w], k))
  <1>11. PICK v \in Workers : v = reg[w].src
    BY Frame DEF StealCopy, Owns, Stealing
  <1>12. PICK i \in Nat : i = reg[w].i
    BY Frame DEF StealCopy, Owns, Stealing
  <1>13. PICK t : t = buf[v][Slot(Add(reg[w].head.steal, i))]
    OBVIOUS
  <1>0. v = reg[w].src /\ i = reg[w].i /\ t = buf[v][Slot(Add(reg[w].head.steal, i))]
    BY <1>11, <1>12, <1>13
  <1>1. /\ pc[w] = "copy" /\ v # w /\ reg[w].to = tail[w] /\ head[w].real = tail[w]
        /\ Used(w) \in Nat /\ Used(w) <= HalfRing /\ n \in 1 .. HalfRing /\ i < n
        /\ head[v].steal = reg[w].head.steal /\ n <= Held(v) /\ t \in Tasks
        /\ buf' \in [Workers -> [0 .. Capacity - 1 -> Tasks \cup {NoTask}]]
        /\ buf'[w][dest(i)] = t
        /\ \A k \in 0 .. i - 1 : buf'[w][dest(k)] = buf[w][dest(k)]
        /\ Others(w)
        /\ \A k \in 0 .. Used(w) - 1 :
             buf'[w][Slot(Add(head[w].steal, k))] = buf[w][Slot(Add(head[w].steal, k))]
    <2> HIDE DEF n, dest
    <2>1. n = reg[w].n /\ \A k : dest(k) = Slot(Add(tail[w], k))
      BY DEF n, dest
    <2>2. /\ pc[w] = "copy" /\ v # w /\ reg[w].to = tail[w] /\ head[w].real = tail[w]
          /\ Used(w) \in Nat /\ Used(w) <= HalfRing
          /\ reg[w].n \in 1 .. HalfRing /\ i < reg[w].n
          /\ head[v].steal = reg[w].head.steal /\ reg[w].n <= Held(v) /\ t \in Tasks
      BY <1>0, StealCopyWrites
    <2>3. /\ buf' \in [Workers -> [0 .. Capacity - 1 -> Tasks \cup {NoTask}]]
          /\ buf'[w][Slot(Add(tail[w], i))] = t
      BY <1>0, StealCopyWrites
    <2>4. \A k \in 0 .. i - 1 : buf'[w][Slot(Add(tail[w], k))] = buf[w][Slot(Add(tail[w], k))]
      BY <1>0, StealCopyWrites
    <2>5. Others(w)
      BY <1>0, StealCopyWrites
    <2>6. \A k \in 0 .. Used(w) - 1 :
             buf'[w][Slot(Add(head[w].steal, k))] = buf[w][Slot(Add(head[w].steal, k))]
      BY <1>0, StealCopyWrites
    <2> QED  BY <2>1, <2>2, <2>3, <2>4, <2>5, <2>6
  <1>2. /\ reg' = [reg EXCEPT ![w].i = @ + 1]
        /\ pc' = [pc EXCEPT ![w] = IF i + 1 = n THEN "release" ELSE "copy"]
        /\ UNCHANGED <<head, tail, global, todo, ran>>
    BY <1>0 DEF StealCopy, Goto
  <1>3. /\ pc'[w] \in {"copy", "release"} /\ pc' \in [Workers -> Labels]
        /\ pc'[w] = "release" <=> i + 1 = n
    BY <1>2, Frame DEF Labels, Stealing
  <1>4. /\ reg' \in [Workers -> Regs] /\ reg'[w].i = i + 1 /\ reg'[w].n = n
        /\ reg'[w].src = v /\ reg'[w].to = tail[w] /\ reg'[w].head = reg[w].head
    <2>1. i + 1 \in 0 .. Capacity
      BY <1>1, Sizes
    <2>2. reg[w] \in Regs
      BY Frame
    <2>3. [reg[w] EXCEPT !.i = @ + 1] \in Regs
      BY <1>0, <2>1, <2>2 DEF Regs
    <2> QED  BY <1>0, <1>1, <1>2, <2>2, <2>3, Frame DEF Regs
  <1>5. Typed'
    BY <1>1, <1>2, <1>3, <1>4, Frame DEF Typed
  <1>6. ASSUME NEW k \in 0 .. i
        PROVE  buf'[w][dest(k)] \in Tasks
    <2>1. CASE k = i
      BY <1>1, <2>1
    <2>2. CASE k # i
      <3>1. k \in 0 .. i - 1
        BY <2>2
      <3>2. buf[w][dest(k)] \in Tasks
        BY <1>0, <1>1, <3>1, Frame DEF Wrote
      <3> HIDE DEF dest
      <3> QED  BY <1>1, <3>1, <3>2
    <2> QED  BY <2>1, <2>2
  <1>7. Wrote(w)'
    <2>1. ASSUME NEW k \in 0 .. reg'[w].i - 1
          PROVE  buf'[w][Slot(Add(reg'[w].to, k))] \in Tasks
      <3>1. k \in 0 .. i
        BY <1>4
      <3>2. dest(k) = Slot(Add(reg'[w].to, k))
        BY <1>4
      <3> HIDE DEF dest
      <3> QED  BY <1>6, <3>1, <3>2
    <2> QED  BY <1>3, <2>1 DEF Wrote
  <1>8. Owns(w)'
    <2>1. Used(w)' = Used(w)
      BY <1>2 DEF Used
    <2>2. i + 1 \in Nat /\ (i + 1 = n \/ i + 1 < n)
      <3>1. n \in Nat /\ i < n
        BY <1>1
      <3> HIDE DEF n
      <3> QED  BY ONLY <3>1, i \in Nat
    <2> QED  BY <1>1, <1>2, <1>3, <1>4, <2>1, <2>2 DEF Owns, Pushing, Stealing, Fetching
  <1>9. Aims(w)' /\ \A x \in Workers : Copying(w, x)' => Copying(w, x)
    BY <1>0, <1>1, <1>2, <1>3, <1>4 DEF Aims, Copying, Held
  <1> QED  BY <1>1, <1>2, <1>5, <1>7, <1>8, <1>9, RingsRest

LEMMA StealReleaseInv ==
  ASSUME RingInv, NEW w \in Workers, StealRelease(w)
  PROVE  RingInv'
  <1>0. PICK v \in Workers \ {w} : v = reg[w].src
    BY Frame DEF StealRelease, Owns, Stealing
  <1>1. /\ pc[w] = "release" /\ reg[w].src = v /\ Copying(w, v)
        /\ head' = [head EXCEPT ![v] = Released(head[v])] /\ pc' = [pc EXCEPT ![w] = "keep"]
        /\ UNCHANGED <<tail, buf, global, todo, ran, reg>>
    BY <1>0 DEF StealRelease, Goto, Copying
  <1>2. /\ Held(v) \in Nat /\ Used(v) \in Nat /\ Held(v) <= Used(v) /\ head[v].steal \in Counter
        /\ Typed /\ Ordered(v) /\ Filled(v)
    BY Frame DEF Ordered
  <1>3. /\ head'[v] = [steal |-> Add(head[v].steal, Held(v)),
          real |-> Add(head[v].steal, Held(v))]
        /\ head'[v].real = head[v].real
        /\ \A u \in Workers \ {v} : head'[u] = head[u]
    <2>1. head[v].real = Add(head[v].steal, Held(v))
      BY <1>2, RingFacts
    <2> QED  BY <1>1, <1>2, <2>1 DEF Typed, Released
  <1>4. /\ Ordered(v)' /\ Filled(v)' /\ head'[v] \in Heads
        /\ Used(v)' = Used(v) - Held(v)
    <2>1. Held(v) <= Held(v) /\ tail'[v] = tail[v] /\ buf'[v] = buf[v]
      BY <1>1, <1>2
    <2> QED  BY <1>2, <1>3, <2>1, HeadMoves
  <1>5. Typed'
    <2>1. head' \in [Workers -> Heads]
      BY <1>1, <1>2, <1>3, <1>4 DEF Typed
    <2>2. pc' \in [Workers -> Labels]
      BY <1>1, Frame DEF Labels, Stealing
    <2> QED  BY <1>1, <1>2, <2>1, <2>2 DEF Typed
  <1>6. pc'[w] = "keep" /\ \A u \in Workers \ {w} : pc'[u] = pc[u]
    BY <1>1, Frame
  <1>7. Alone'
    BY <1>1, <1>6 DEF RingInv, Alone, Copying
  <1>8. ASSUME NEW u \in Workers
        PROVE  /\ Ordered(u)' /\ Filled(u)' /\ head'[u].real = head[u].real
               /\ Used(u)' \in Nat /\ Used(u)' <= Used(u) /\ Length(u)' = Length(u)
    <2>1. CASE u = v
      BY <1>1, <1>2, <1>3, <1>4, <2>1 DEF Length
    <2>2. CASE u # v
      <3>1. head'[u] = head[u] /\ tail'[u] = tail[u] /\ buf'[u] = buf[u]
        BY <1>1, <1>3, <2>2
      <3>2. Typed /\ Ordered(u) /\ Filled(u) /\ Used(u) \in Nat
        BY Frame
      <3>3. Ordered(u)' /\ Filled(u)' /\ Used(u)' = Used(u) /\ Length(u)' = Length(u)
        BY <3>1, <3>2, SlotsWritten
      <3> QED  BY <3>1, <3>2, <3>3
    <2> QED  BY <2>1, <2>2
  <1>9. ASSUME NEW u \in Workers
        PROVE  Owns(u)' /\ Wrote(u)' /\ Aims(u)'
    <2>1. CASE u = w
      <3>1. Used(w)' \in Nat /\ Used(w)' <= Used(w) /\ Used(w) \in Nat
              /\ head'[w].real = head[w].real
        BY <1>8, Frame
      <3>2. Owns(w) /\ Wrote(w) /\ pc[w] = "release" /\ pc'[w] = "keep" /\ reg' = reg
            /\ tail' = tail /\ buf' = buf /\ todo' = todo
        BY <1>1, <1>6, Frame
      <3>3. Used(w) <= HalfRing => Used(w)' <= HalfRing
        BY <3>1, Sizes
      <3>4. Owns(w)'
        BY <3>1, <3>2, <3>3 DEF Owns, Pushing, Stealing, Fetching
      <3>5. Wrote(w)' /\ Aims(w)'
        BY <3>2 DEF Wrote, Aims, Copying
      <3> QED  BY <2>1, <3>4, <3>5
    <2>2. CASE u # w
      <3>1. pc'[u] = pc[u] /\ reg'[u] = reg[u] /\ todo'[u] = todo[u] /\ buf'[u] = buf[u]
            /\ tail'[u] = tail[u]
        BY <1>1, <1>6, <2>2
      <3>2. Owns(u)' /\ Wrote(u)'
        BY <1>8, <3>1, OwnsStays
      <3>3. Aims(u)'
        <4>1. CASE pc[u] = "claim"
          <5>1. reg[u].src \in Workers
            BY <4>1, SourceKnown DEF Stealing
          <5>2. head'[reg[u].src].real = head[reg[u].src].real
                /\ Length(reg[u].src)' = Sub(tail'[reg[u].src], head'[reg[u].src].real)
            BY <1>8, <3>1, <5>1 DEF Length
          <5>3. Sub(tail'[reg[u].src], head'[reg[u].src].real)
                  = Sub(tail[reg[u].src], head[reg[u].src].real)
            BY <1>1, <5>2
          <5> QED  BY <3>1, <4>1, <5>2, <5>3, Frame DEF Aims, Copying, Length
        <4>2. CASE pc[u] \in {"copy", "release"}
          <5>1. reg[u].src \in Workers
            BY <4>2, SourceKnown DEF Stealing
          <5>2. reg[u].src # v
            BY <1>1, <2>2, <4>2 DEF RingInv, Alone, Copying
          <5>3. head'[reg[u].src] = head[reg[u].src]
            BY <1>3, <5>1, <5>2
          <5> QED  BY <3>1, <4>2, <5>3, Frame DEF Aims, Copying, Held
        <4>3. CASE pc[u] \notin {"claim", "copy", "release"}
          BY <3>1, <4>3 DEF Aims, Copying
        <4> QED  BY <4>1, <4>2, <4>3
      <3> QED  BY <3>2, <3>3
    <2> QED  BY <2>1, <2>2
  <1> QED  BY <1>5, <1>7, <1>8, <1>9 DEF RingInv

LEMMA StealKeepInv ==
  ASSUME RingInv, NEW w \in Workers, StealKeep(w)
  PROVE  RingInv'
  <1> DEFINE n == reg[w].n
  <1>1. /\ pc[w] = "keep" /\ reg[w].to = tail[w] /\ n \in 1 .. HalfRing /\ reg[w].i = n
        /\ Used(w) <= HalfRing /\ Used(w) \in Nat
    BY Frame DEF StealKeep, Owns, Stealing
  <1>2. \A k \in 0 .. n - 1 : buf[w][Slot(Add(tail[w], k))] \in Tasks
    BY <1>1, Frame DEF Wrote
  <1>3. n - 1 \in Nat /\ n - 1 \in 0 .. n - 1 /\ Used(w) + (n - 1) <= Capacity
    BY <1>1, Sizes
  <1>4. /\ Run(buf[w][Slot(Add(tail[w], n - 1))]) /\ tail' = [tail EXCEPT ![w] = Add(@, n - 1)]
        /\ pc' = [pc EXCEPT ![w] = "idle"] /\ reg' = [reg EXCEPT ![w] = NoRegs]
        /\ UNCHANGED <<head, buf, global, todo>>
    BY <1>1 DEF StealKeep, Return, Goto, Set
  <1>5. ran' \in [Tasks -> Nat]
    BY <1>2, <1>3, <1>4, Frame, RunTyped
  <1>6. reg' \in [Workers -> Regs] /\ global' \in Seq(Tasks)
          /\ todo' \in [Workers -> Seq(Tasks)]
    BY <1>4, Frame, NoRegsTyped DEF Typed
  <1>7. Others(w)
    BY <1>4, Frame DEF Others, Typed
  <1>8. \A k \in 0 .. (n - 1) - 1 : buf[w][Slot(Add(tail[w], k))] \in Tasks
    BY <1>1, <1>2
  <1> QED  BY <1>3, <1>4, <1>5, <1>6, <1>7, <1>8, TailGrows

-----------------------------------------------------------------------------
LEMMA RunSharedInv ==
  ASSUME RingInv, NEW w \in Workers, RunShared(w)
  PROVE  RingInv'
  <1>1. global \in Seq(Tasks) /\ global # <<>> /\ Typed
    BY Frame DEF Typed, RunShared
  <1>2. Head(global) \in Tasks /\ Tail(global) \in Seq(Tasks)
    BY <1>1
  <1>3. ran' \in [Tasks -> Nat] /\ global' \in Seq(Tasks)
    BY <1>1, <1>2, RunTyped DEF RunShared
  <1>4. todo' = todo /\ todo \in [Workers -> Seq(Tasks)]
    BY <1>1 DEF RunShared, Typed
  <1> QED  BY <1>3, <1>4, ReturnKeeps DEF RunShared

LEMMA TakeSharedInv ==
  ASSUME RingInv, NEW w \in Workers, TakeShared(w)
  PROVE  RingInv'
  BY RunSharedInv DEF TakeShared

LEMMA FetchBeginInv ==
  ASSUME RingInv, NEW w \in Workers, FetchBegin(w)
  PROVE  RingInv'
  <1> DEFINE n == Fetchable(w)
  <1>1. CASE n = 0
    BY <1>1, RunSharedInv DEF FetchBegin
  <1>2. CASE n # 0
    <2>1. /\ pc' = [pc EXCEPT ![w] = "size"] /\ head[w].real = tail[w]
          /\ reg' = [reg EXCEPT ![w] = [NoRegs EXCEPT !.n = n]]
          /\ UNCHANGED <<head, tail, buf, global, todo, ran>>
      BY <1>2 DEF FetchBegin, Goto, Set, rings
    <2>2. n \in 1 .. HalfRing /\ Used(w) + n <= Capacity /\ n \in Counter
      <3>1. Remaining(w) = Capacity - Used(w)
        BY DEF Remaining, Used
      <3>2. Used(w) \in Nat /\ Used(w) <= Capacity
        BY Frame
      <3>3. n = IF Remaining(w) < HalfRing THEN Remaining(w) ELSE HalfRing
        BY Sizes DEF Fetchable, Smaller
      <3> HIDE DEF n
      <3>4. n \in 1 .. HalfRing /\ Used(w) + n <= Capacity
        BY <1>2, <3>1, <3>2, <3>3, Sizes
      <3>5. n \in Counter
        BY <3>4, Sizes DEF Counter
      <3> QED  BY <3>4, <3>5
    <2> HIDE DEF n
    <2>3. /\ pc'[w] = "size" /\ pc' \in [Workers -> Labels] /\ reg' \in [Workers -> Regs]
          /\ reg'[w].n = n
      <3>1. [NoRegs EXCEPT !.n = n] \in Regs
        BY <2>2, NoRegsTyped
      <3> QED  BY <2>1, <3>1, Frame DEF Labels, Fetching, NoRegs
    <2>4. Typed'
      BY <2>1, <2>3, Frame DEF Typed
    <2>5. Owns(w)' /\ Wrote(w)' /\ Aims(w)' /\ \A x \in Workers : ~Copying(w, x)'
      BY <2>1, <2>2, <2>3 DEF Owns, Wrote, Aims, Copying, Used, Pushing, Stealing, Fetching
    <2>6. Others(w)
      BY <2>1, Frame DEF Others
    <2> QED  BY <2>1, <2>4, <2>5, <2>6, RingsRest
  <1> QED  BY <1>1, <1>2

LEMMA FetchSizeInv ==
  ASSUME RingInv, NEW w \in Workers, FetchSize(w)
  PROVE  RingInv'
  <1> DEFINE share == Len(global) \div Cardinality(Workers) + 1
             n == Smaller(share, reg[w].n)
  <1>1. /\ pc[w] = "size" /\ head[w].real = tail[w] /\ reg[w].n \in 1 .. HalfRing
        /\ Used(w) + reg[w].n <= Capacity /\ Used(w) \in Nat /\ reg[w] \in Regs
    BY Frame DEF FetchSize, Owns, Fetching
  <1>2. /\ pc' = [pc EXCEPT ![w] = "fetch"] /\ reg' = [reg EXCEPT ![w].n = n]
        /\ UNCHANGED <<head, tail, buf, global, todo, ran>>
    BY DEF FetchSize, Goto, rings
  <1>3. share \in Nat /\ share > 0
    <2>1. Cardinality(Workers) \in Nat /\ Cardinality(Workers) > 0 /\ Len(global) \in Nat
      <3>1. IsFiniteSet(Workers) /\ Workers # {}
        BY SizeAssumption
      <3>2. Cardinality(Workers) \in Nat /\ Cardinality(Workers) # 0
        BY <3>1, FS_CardinalityType, FS_EmptySet
      <3>3. Len(global) \in Nat
        BY Frame DEF Typed
      <3> QED  BY <3>2, <3>3
    <2> QED  BY <2>1
  <1> HIDE DEF share
  <1>4. n \in 1 .. HalfRing /\ Used(w) + n <= Capacity /\ n \in Counter
    <2>1. n = share \/ n = reg[w].n
      BY DEF Smaller
    <2>2. n \in 1 .. reg[w].n
      BY <1>1, <1>3, <2>1, Sizes DEF Smaller
    <2> HIDE DEF n
    <2> QED  BY <1>1, <2>2, Sizes DEF Counter
  <1> HIDE DEF n
  <1>5. /\ pc'[w] = "fetch" /\ pc' \in [Workers -> Labels] /\ reg' \in [Workers -> Regs]
        /\ reg'[w].n = n
    <2>1. [reg[w] EXCEPT !.n = n] \in Regs
      BY <1>1, <1>4 DEF Regs
    <2> QED  BY <1>1, <1>2, <2>1, Frame DEF Labels, Fetching, Regs
  <1>6. Typed'
    BY <1>2, <1>5, Frame DEF Typed
  <1>7. Owns(w)' /\ Wrote(w)' /\ Aims(w)' /\ \A x \in Workers : ~Copying(w, x)'
    BY <1>1, <1>2, <1>4, <1>5 DEF Owns, Wrote, Aims, Copying, Used, Pushing, Stealing, Fetching
  <1>8. Others(w)
    BY <1>2, Frame DEF Others
  <1> QED  BY <1>2, <1>6, <1>7, <1>8, RingsRest

LEMMA FetchTakeInv ==
  ASSUME RingInv, NEW w \in Workers, FetchTake(w)
  PROVE  RingInv'
  <1> DEFINE n == Smaller(reg[w].n, Len(global))
             taken == SubSeq(global, 1, n)
  <1>1. /\ pc[w] = "fetch" /\ head[w].real = tail[w] /\ reg[w].n \in 1 .. HalfRing
        /\ Used(w) + reg[w].n <= Capacity /\ Used(w) \in Nat
        /\ global \in Seq(Tasks) /\ Len(global) \in Nat /\ Typed
    BY Frame DEF FetchTake, Owns, Fetching, Typed
  <1>2. n \in Nat /\ n <= reg[w].n /\ n <= Len(global)
    BY <1>1 DEF Smaller
  <1>3. /\ UNCHANGED <<head, tail, buf, todo>>
        /\ global' = SubSeq(global, n + 1, Len(global))
        /\ n <= 1 => Return(w) /\ (IF n = 0 THEN UNCHANGED ran ELSE Run(global[1]))
        /\ ~(n <= 1) => /\ pc' = [pc EXCEPT ![w] = "batch"] /\ UNCHANGED ran
                        /\ reg' = [reg EXCEPT ![w] = [NoRegs EXCEPT !.list = taken]]
    BY DEF FetchTake, Goto, Set, rings
  <1> HIDE DEF n
  <1>4. global' \in Seq(Tasks) /\ taken \in Seq(Tasks) /\ Len(taken) = n
    <2>1. SubSeq(global, n + 1, Len(global)) \in Seq(Tasks)
      BY <1>1, <1>2
    <2>2. SubSeq(global, 1, n) \in Seq(Tasks) /\ Len(SubSeq(global, 1, n)) = n
      BY <1>1, <1>2
    <2> QED  BY <1>3, <2>1, <2>2
  <1>5. CASE n <= 1
    <2>1. ran' \in [Tasks -> Nat]
      <3>1. CASE n = 0
        BY <1>1, <1>3, <1>5, <3>1 DEF Typed
      <3>2. CASE n # 0
        <4>1. global[1] \in Tasks
          BY <1>1, <1>2, <3>2
        <4> QED  BY <1>1, <1>3, <1>5, <3>2, <4>1, RunTyped
      <3> QED  BY <3>1, <3>2
    <2> QED  BY <1>1, <1>3, <1>4, <1>5, <2>1, ReturnKeeps DEF rings, Typed
  <1>6. CASE ~(n <= 1)
    <2> HIDE DEF taken
    <2>1. /\ pc'[w] = "batch" /\ pc' \in [Workers -> Labels] /\ reg' \in [Workers -> Regs]
          /\ reg'[w].list = taken
      <3>1. [NoRegs EXCEPT !.list = taken] \in Regs
        BY <1>4, NoRegsTyped
      <3> QED  BY <1>3, <1>6, <3>1, Frame DEF Labels, Fetching, NoRegs
    <2>2. Typed'
      BY <1>3, <1>4, <1>6, <2>1, Frame DEF Typed
    <2>3. n \in 2 .. HalfRing /\ Used(w) + n <= Capacity
      BY <1>1, <1>2, <1>6, Sizes
    <2>4. Owns(w)' /\ Wrote(w)' /\ Aims(w)' /\ \A x \in Workers : ~Copying(w, x)'
      BY <1>1, <1>3, <1>4, <2>1, <2>3
         DEF Owns, Wrote, Aims, Copying, Used, Pushing, Stealing, Fetching
    <2>5. Others(w)
      BY <1>3, <1>6, Frame DEF Others
    <2> QED  BY <1>3, <2>2, <2>4, <2>5, RingsRest
  <1> QED  BY <1>5, <1>6

-----------------------------------------------------------------------------
(* push_batch writes every slot of the ring from its distance to tail.     *)
LEMMA SlotBack ==
  ASSUME NEW c \in Counter, NEW j \in 0 .. Capacity - 1
  PROVE  (Slot(Add(c, j)) - c) % Capacity = j
  <1> DEFINE x == c + j
             m == 0 - c
  <1>1. x \in Nat /\ x \in Int /\ m \in Int /\ x + m = j /\ \A y \in Int : y + m = y - c
    BY Sizes DEF Counter
  <1> HIDE DEF m
  <1>2. Slot(Add(c, j)) = x % Capacity
    BY <1>1, SlotsRepeat DEF Slot, Add
  <1> HIDE DEF x
  <1>3. ((x % Capacity) + m) % Capacity = (x + m) % Capacity
    BY <1>1, ModPlus, Sizes
  <1>4. x % Capacity \in Int /\ j % Capacity = j
    BY <1>1, Parts, Sizes
  <1> QED  BY <1>1, <1>2, <1>3, <1>4

LEMMA SlotAhead ==
  ASSUME NEW c \in Counter, NEW s \in 0 .. Capacity - 1
  PROVE  /\ (s - c) % Capacity \in 0 .. Capacity - 1
         /\ Slot(Add(c, (s - c) % Capacity)) = s
  <1> DEFINE y == s - c
             i == y % Capacity
  <1>1. y \in Int /\ c \in Int /\ c \in Nat /\ y + c = s
    BY Sizes DEF Counter
  <1> HIDE DEF y
  <1>2. i \in 0 .. Capacity - 1 /\ i \in Int
    BY <1>1, Parts, Sizes
  <1>3. (i + c) % Capacity = (y + c) % Capacity
    BY <1>1, ModPlus, Sizes
  <1> HIDE DEF i
  <1>4. c + i \in Nat /\ c + i = i + c /\ s % Capacity = s
    BY <1>1, <1>2, Sizes
  <1>5. Slot(Add(c, i)) = (c + i) % Capacity
    BY <1>4, SlotsRepeat DEF Slot, Add
  <1> QED  BY <1>1, <1>2, <1>3, <1>4, <1>5 DEF i, y

(* The slots written are free.                                             *)
LEMMA BatchStoreWrites ==
  ASSUME RingInv, NEW w \in Workers, BatchStore(w)
  PROVE  /\ pc[w] = "batch" /\ head[w].real = tail[w] /\ reg[w].list \in Seq(Tasks)
         /\ Len(reg[w].list) \in 2 .. HalfRing /\ Used(w) + Len(reg[w].list) <= Capacity
         /\ buf' \in [Workers -> [0 .. Capacity - 1 -> Tasks \cup {NoTask}]]
         /\ \A i \in 0 .. Len(reg[w].list) - 2 :
              buf'[w][Slot(Add(tail[w], i))] = reg[w].list[i + 2]
         /\ Others(w)
         /\ \A k \in 0 .. Used(w) - 1 :
              buf'[w][Slot(Add(head[w].steal, k))] = buf[w][Slot(Add(head[w].steal, k))]
  <1> DEFINE l == reg[w].list
             m == BatchLen(w)
             c == tail[w]
             at(s) == (s - c) % Capacity
             new == [s \in 0 .. Capacity - 1 |->
                       IF at(s) < m THEN l[at(s) + 2] ELSE buf[w][s]]
  <1>1. /\ pc[w] = "batch" /\ head[w].real = tail[w] /\ l \in Seq(Tasks)
        /\ Len(l) \in 2 .. HalfRing /\ Used(w) + Len(l) <= Capacity /\ Used(w) \in Nat
        /\ c \in Counter /\ head[w].steal \in Counter /\ Typed /\ m = Len(l) - 1
    BY Frame DEF BatchStore, Owns, Fetching, BatchLen
  <1>2. /\ buf' = [buf EXCEPT ![w] = new] /\ pc' = [pc EXCEPT ![w] = "batch_publish"]
        /\ UNCHANGED <<head, tail, global, todo, ran, reg>>
    BY DEF BatchStore, Goto
  <1>3. \A s \in 0 .. Capacity - 1 : at(s) \in 0 .. Capacity - 1 /\ Slot(Add(c, at(s))) = s
    BY <1>1, SlotAhead
  <1>4. \A j \in 0 .. Capacity - 1 : at(Slot(Add(c, j))) = j
    BY <1>1, SlotBack
  <1> HIDE DEF m, c, at
  <1>5. new \in [0 .. Capacity - 1 -> Tasks \cup {NoTask}]
    <2> SUFFICES ASSUME NEW s \in 0 .. Capacity - 1
                 PROVE  (IF at(s) < m THEN l[at(s) + 2] ELSE buf[w][s]) \in Tasks \cup {NoTask}
      OBVIOUS
    <2>1. CASE at(s) < m
      <3>1. at(s) + 2 \in 1 .. Len(l)
        BY <1>1, <1>3, <2>1
      <3>2. l[at(s) + 2] \in Tasks
        BY <1>1, <3>1
      <3> QED  BY <2>1, <3>2
    <2>2. CASE ~(at(s) < m)
      BY <1>1, <2>2 DEF Typed
    <2> QED  BY <2>1, <2>2
  <1>6. /\ buf' \in [Workers -> [0 .. Capacity - 1 -> Tasks \cup {NoTask}]]
        /\ buf'[w] = new /\ \A v \in Workers \ {w} : buf'[v] = buf[v]
    <2> HIDE DEF new
    <2> QED  BY <1>1, <1>2, <1>5 DEF Typed
  <1>7. \A j \in Nat : Slot(Add(c, j)) \in 0 .. Capacity - 1
    BY <1>1, CounterOps, SlotOfCounter DEF c
  <1>8. \A k \in 0 .. Used(w) - 1 :
          buf'[w][Slot(Add(head[w].steal, k))] = buf[w][Slot(Add(head[w].steal, k))]
    <2> SUFFICES ASSUME NEW k \in 0 .. Used(w) - 1
                 PROVE  buf'[w][Slot(Add(head[w].steal, k))]
                          = buf[w][Slot(Add(head[w].steal, k))]
      OBVIOUS
    <2> DEFINE s == Slot(Add(head[w].steal, k))
    <2>1. s \in 0 .. Capacity - 1
      <3>1. k \in Nat
        OBVIOUS
      <3> QED  BY <1>1, <3>1, CounterOps, SlotOfCounter
    <2>2. ~(at(s) < m)
      <3> SUFFICES ASSUME at(s) < m PROVE FALSE
        OBVIOUS
      <3>1. at(s) \in Nat /\ Slot(Add(c, at(s))) = s
        BY <1>3, <2>1, Sizes
      <3>2. Used(w) + at(s) < Capacity
        BY <1>1, <3>1, Sizes
      <3> QED  BY <1>1, <3>1, <3>2, FreeSlot DEF c
    <2> HIDE DEF s
    <2>3. new[s] = buf[w][s]
      BY <2>1, <2>2
    <2> QED  BY <1>6, <2>3 DEF s
  <1>9. \A i \in 0 .. Len(l) - 2 : buf'[w][Slot(Add(c, i))] = l[i + 2]
    <2> SUFFICES ASSUME NEW i \in 0 .. Len(l) - 2
                 PROVE  new[Slot(Add(c, i))] = l[i + 2]
      BY <1>6
    <2>1. i \in 0 .. Capacity - 1 /\ i \in Nat /\ i < m
      BY <1>1, Sizes
    <2>2. at(Slot(Add(c, i))) = i /\ Slot(Add(c, i)) \in 0 .. Capacity - 1
      BY <1>4, <1>7, <2>1
    <2> QED  BY <2>1, <2>2
  <1>10. Others(w)
    BY <1>2, <1>6, Frame DEF Others
  <1> QED  BY <1>1, <1>6, <1>8, <1>9, <1>10 DEF c

LEMMA BatchStoreInv ==
  ASSUME RingInv, NEW w \in Workers, BatchStore(w)
  PROVE  RingInv'
  <1>1. /\ pc[w] = "batch" /\ head[w].real = tail[w] /\ reg[w].list \in Seq(Tasks)
        /\ Len(reg[w].list) \in 2 .. HalfRing /\ Used(w) + Len(reg[w].list) <= Capacity
        /\ buf' \in [Workers -> [0 .. Capacity - 1 -> Tasks \cup {NoTask}]]
        /\ \A i \in 0 .. Len(reg[w].list) - 2 :
             buf'[w][Slot(Add(tail[w], i))] = reg[w].list[i + 2]
    BY BatchStoreWrites
  <1>2. /\ pc' = [pc EXCEPT ![w] = "batch_publish"]
        /\ UNCHANGED <<head, tail, global, todo, ran, reg>>
    BY DEF BatchStore, Goto
  <1>3. pc'[w] = "batch_publish" /\ pc' \in [Workers -> Labels]
    BY <1>2, Frame DEF Labels, Fetching
  <1>4. Typed'
    BY <1>1, <1>2, <1>3, Frame DEF Typed
  <1>5. Wrote(w)'
    BY <1>1, <1>2, <1>3 DEF Wrote
  <1>6. Owns(w)' /\ Aims(w)' /\ \A x \in Workers : ~Copying(w, x)'
    BY <1>1, <1>2, <1>3 DEF Owns, Aims, Copying, Used, Pushing, Stealing, Fetching
  <1> QED  BY <1>2, <1>4, <1>5, <1>6, BatchStoreWrites, RingsRest

LEMMA BatchPublishInv ==
  ASSUME RingInv, NEW w \in Workers, BatchPublish(w)
  PROVE  RingInv'
  <1> DEFINE l == reg[w].list
             m == BatchLen(w)
  <1>1. /\ pc[w] = "batch_publish" /\ l \in Seq(Tasks) /\ Used(w) \in Nat
        /\ Len(l) \in 2 .. HalfRing /\ Used(w) + Len(l) <= Capacity /\ m = Len(l) - 1 /\ Typed
        /\ \A i \in 0 .. Len(l) - 2 : buf[w][Slot(Add(tail[w], i))] = l[i + 2]
    BY Frame DEF BatchPublish, Owns, Wrote, BatchLen
  <1>2. /\ Run(Head(l)) /\ tail' = [tail EXCEPT ![w] = Add(@, m)]
        /\ pc' = [pc EXCEPT ![w] = "idle"] /\ reg' = [reg EXCEPT ![w] = NoRegs]
        /\ UNCHANGED <<head, buf, global, todo>>
    BY DEF BatchPublish, Return, Goto, Set
  <1> HIDE DEF m
  <1>3. m \in Nat /\ Used(w) + m <= Capacity
    BY <1>1, Sizes
  <1>4. \A i \in 0 .. m - 1 : buf[w][Slot(Add(tail[w], i))] \in Tasks
    <2> SUFFICES ASSUME NEW i \in 0 .. m - 1
                 PROVE  buf[w][Slot(Add(tail[w], i))] \in Tasks
      OBVIOUS
    <2>1. i \in 0 .. Len(l) - 2 /\ i + 2 \in 1 .. Len(l)
      BY <1>1, <1>3
    <2>2. l[i + 2] \in Tasks
      BY <1>1, <2>1
    <2> QED  BY <1>1, <2>1, <2>2
  <1>5. ran' \in [Tasks -> Nat]
    <2>1. Head(l) \in Tasks
      BY <1>1
    <2> QED  BY <1>1, <1>2, <2>1, RunTyped
  <1>6. reg' \in [Workers -> Regs] /\ global' \in Seq(Tasks)
          /\ todo' \in [Workers -> Seq(Tasks)]
    BY <1>1, <1>2, Frame, NoRegsTyped DEF Typed
  <1>7. Others(w)
    BY <1>1, <1>2, Frame DEF Others, Typed
  <1> QED  BY <1>2, <1>3, <1>4, <1>5, <1>6, <1>7, TailGrows

-----------------------------------------------------------------------------
LEMMA RingInit == Init => RingInv
  <1> SUFFICES ASSUME Init PROVE RingInv
    OBVIOUS
  <1>1. Start \in Counter /\ 0 \in Counter
    BY Sizes DEF Counter
  <1>2. Typed
    <2>1. [steal |-> Start, real |-> Start] \in Heads
      BY <1>1 DEF Heads
    <2>2. <<>> \in Seq(Tasks) /\ 0 \in Nat /\ "idle" \in Labels
      BY DEF Labels
    <2>3. global \in Seq(Tasks) /\ ran \in [Tasks -> Nat] /\ todo \in [Workers -> Seq(Tasks)]
      BY <2>2, TaskAssumption DEF Init
    <2>4. buf \in [Workers -> [0 .. Capacity - 1 -> Tasks \cup {NoTask}]]
      BY DEF Init
    <2>5. pc \in [Workers -> Labels] /\ reg \in [Workers -> Regs]
      BY <2>2, NoRegsTyped DEF Init
    <2> QED  BY <1>1, <2>1, <2>3, <2>4, <2>5 DEF Init, Typed
  <1>3. \A w \in Workers : pc[w] = "idle"
    BY DEF Init
  <1>4. ASSUME NEW w \in Workers
        PROVE  Ordered(w) /\ Filled(w)
    <2>1. Used(w) = 0 /\ Held(w) = 0
      BY <1>1, AddZero DEF Init, Used, Held
    <2> QED  BY <2>1, Sizes DEF Ordered, Filled
  <1>5. Alone /\ \A w \in Workers : Owns(w) /\ Wrote(w) /\ Aims(w)
    BY <1>3 DEF Alone, Owns, Wrote, Aims, Copying, Pushing, Stealing, Fetching
  <1> QED  BY <1>2, <1>4, <1>5 DEF RingInv

LEMMA RingNext == RingInv /\ [Next]_vars /\ [Unlapped]_vars => RingInv'
  <1> SUFFICES ASSUME RingInv, [Next]_vars, [Unlapped]_vars
               PROVE  RingInv'
    OBVIOUS
  <1>1. CASE UNCHANGED vars
    BY <1>1
       DEF vars, RingInv, Typed, Alone, Ordered, Filled, Owns, Wrote, Aims, Copying,
           Used, Held, Length
  <1>2. ASSUME NEW w \in Workers,
               \/ PushBegin(w) \/ PopBegin(w) \/ StealBegin(w) \/ TakeShared(w) \/ FetchBegin(w)
               \/ Continue(w),
               Unlapped
        PROVE  RingInv'
    BY <1>2, PushBeginInv, PopBeginInv, StealBeginInv, TakeSharedInv, FetchBeginInv,
       PushStoreInv, PushPublishInv, PushShareInv, OverflowClaimInv, OverflowSpillInv,
       PopClaimInv, StealLookInv, StealClaimInv, StealCopyInv, StealReleaseInv, StealKeepInv,
       FetchSizeInv, FetchTakeInv, BatchStoreInv, BatchPublishInv
       DEF Continue
  <1> QED  BY <1>1, <1>2 DEF Next

(* The inductive invariant of the rings holds as long as no counter laps a *)
(* thief: counters in order, slots in use hold tasks, a worker in a method *)
(* still has the room and the tasks it counted on, and at most one thief   *)
(* works on a ring (queue.hpp:126-305).                                    *)
THEOREM RingInvariant == Spec /\ [][Unlapped]_vars => []RingInv
  <1>1. RingInv /\ [Next]_vars /\ [Unlapped]_vars => RingInv'
    BY RingNext
  <1> QED  BY <1>1, RingInit, PTL DEF Spec

LEMMA RingInvTypes == RingInv => TypeOK
  <1> SUFFICES ASSUME RingInv PROVE TypeOK
    OBVIOUS
  <1>1. Typed
    BY DEF RingInv
  <1>2. \A w \in Workers :
          /\ reg[w].task \in Tasks \cup {NoTask} /\ reg[w].head \in Heads
          /\ reg[w].src \in Workers \cup {NoTask}
          /\ reg[w].to \in Counter /\ reg[w].n \in Counter /\ reg[w].i \in 0 .. Capacity
          /\ reg[w].list \in Seq(Tasks)
    BY <1>1 DEF Typed, Regs
  <1>3. Labels = {"idle", "store", "publish", "share", "overflow", "spill",
                  "pop", "look", "claim", "copy", "release", "keep",
                  "size", "fetch", "batch", "batch_publish"}
    BY DEF Labels, Pushing, Stealing, Fetching
  <1> QED  BY <1>1, <1>2, <1>3 DEF TypeOK, Typed, Heads

LEMMA RingInvBounds == RingInv => RingBounded
  <1> SUFFICES ASSUME RingInv PROVE RingBounded
    OBVIOUS
  <1>1. TypeOK
    BY RingInvTypes
  <1>2. ASSUME NEW w \in Workers
        PROVE  /\ Sub(tail[w], head[w].steal) <= Capacity
               /\ Sub(head[w].real, head[w].steal) <= Sub(tail[w], head[w].steal)
    BY DEF RingInv, Ordered, Used, Held
  <1>3. ASSUME NEW v \in Workers
        PROVE  Cardinality({w \in Workers : Copying(w, v)}) <= 1
    <2> DEFINE S == {w \in Workers : Copying(w, v)}
    <2>1. CASE S = {}
      BY <2>1, FS_EmptySet
    <2>2. CASE S # {}
      <3>1. PICK w \in Workers : Copying(w, v)
        BY <2>2
      <3>2. S = {w}
        BY <3>1 DEF RingInv, Alone
      <3> QED  BY <3>2, FS_Singleton
    <2> QED  BY <2>1, <2>2
  <1>4. ASSUME NEW v \in Workers, NEW w \in Workers, Copying(w, v)
        PROVE  /\ reg[w].n \in 1 .. Capacity \div 2 /\ reg[w].i <= reg[w].n
               /\ head[v].steal = reg[w].head.steal
               /\ Sub(head[v].real, head[v].steal) >= reg[w].n
    <2>1. /\ pc[w] \in {"copy", "release"} /\ reg[w].src = v /\ Owns(w) /\ Aims(w)
          /\ reg[w].i \in Nat /\ Held(v) \in Nat
      BY <1>4, Frame DEF Copying
    <2>2. reg[w].n \in 1 .. HalfRing /\ (reg[w].i < reg[w].n \/ reg[w].i = reg[w].n)
      BY <2>1 DEF Owns
    <2>3. head[v].steal = reg[w].head.steal /\ reg[w].n <= Held(v)
      BY <1>4, <2>1 DEF Aims
    <2> QED  BY <2>1, <2>2, <2>3, Sizes DEF Held
  <1> QED  BY <1>1, <1>2, <1>3, <1>4 DEF RingBounded

(* No ring ever holds more than its capacity, its counters stay in order   *)
(* across the wrap of 32 bits, and what a thief has claimed is enclosed by *)
(* them until it releases it (the assertion at queue.hpp:105).             *)
THEOREM RingsBounded == Spec /\ [][Unlapped]_vars => []RingBounded
  BY RingInvariant, RingInvBounds, PTL

LEMMA RingInvFits == RingInv => BatchFits
  <1> SUFFICES ASSUME RingInv, NEW w \in Workers, pc[w] = "batch"
               PROVE  ~BatchOverflows(w)
    BY DEF BatchFits
  <1>1. /\ Len(reg[w].list) \in 2 .. HalfRing /\ Used(w) + Len(reg[w].list) <= Capacity
        /\ Used(w) \in Nat
    BY Frame DEF Owns
  <1>2. BatchOverflows(w) <=> Used(w) > Capacity - (Len(reg[w].list) - 1)
    BY DEF BatchOverflows, BatchLen, Used
  <1>3. ~(Used(w) > Capacity - (Len(reg[w].list) - 1))
    <2> DEFINE n == Len(reg[w].list)
    <2>1. n \in Nat /\ Used(w) \in Nat /\ 0 < n /\ Used(w) + n <= Capacity
      BY <1>1, Sizes
    <2> HIDE DEF n
    <2>2. ~(Used(w) > Capacity - (n - 1))
      BY <2>1, Sizes
    <2> QED  BY <2>2 DEF n
  <1> QED  BY <1>2, <1>3

(* push_batch never throws (queue.hpp:134): what next_task fetched after   *)
(* it measured its ring still fits, however many thieves were at it since. *)
THEOREM BatchesFit == Spec /\ [][Unlapped]_vars => []BatchFits
  BY RingInvariant, RingInvFits, PTL
=============================================================================
