----------------------------- MODULE MutexProofs -----------------------------
(***************************************************************************)
(* What Mutex guarantees for any set of coroutines, proved for Spec, whose *)
(* clients use lock() and unlock() only.                                   *)
(*                                                                         *)
(* MutualExclusion is not inductive: that a lock handed over has one owner *)
(* rests on the owner handing it to a coroutine that is suspended, which   *)
(* rests on the two lists holding suspended coroutines only, each once,    *)
(* and on the ordered list being empty whenever it is refilled.  MutexInv  *)
(* states that, and every theorem below follows from it.                   *)
(***************************************************************************)
EXTENDS Mutex, SequenceTheorems, TLAPS

(* What a list of awaiters holds, and that it holds each of them once.     *)
Members(s) == {s[i] : i \in 1 .. Len(s)}
Once(s) == \A i, j \in 1 .. Len(s) : s[i] = s[j] => i = j

(* The lists hold suspended coroutines, each once, and all of them.        *)
EachOnce == Once(fifo) /\ Once(lifo) /\ Members(fifo) \cap Members(lifo) = {}
Listing  == \A p \in Coroutines :
              pc[p] = "waiting" <=> p \in Members(fifo) \cup Members(lifo)

(* What an owner inside unlock() has seen still matters.                   *)
Unlocking ==
  \A p \in Coroutines :
    /\ pc[p] = "unlocking" => /\ fifo = <<>>
                              /\ seen[p] # Unlocked
                              /\ seen[p] # Locked => lifo # <<>>
    /\ pc[p] = "handing" => fifo # <<>>

(* The word is locked exactly while somebody owns the lock.                *)
HeldIffOwned == held <=> \E p \in Coroutines : pc[p] \in Owning
FreeIsEmpty == ~held => lifo = <<>> /\ fifo = <<>>

NoTry == \A p \in Coroutines : pc[p] # "trying"

MutexInv ==
  /\ TypeOK /\ NoTry
  /\ MutualExclusion /\ HeldIffOwned /\ FreeIsEmpty
  /\ EachOnce /\ Listing
  /\ Unlocking

-----------------------------------------------------------------------------
(* The lists an action makes from the lists it finds.                      *)
LEMMA EmptyList ==
  Members(<<>>) = {} /\ Once(<<>>)
  BY DEF Members, Once

LEMMA ConsList ==
  ASSUME NEW S, NEW s \in Seq(S), NEW e \in S
  PROVE  /\ <<e>> \o s \in Seq(S)
         /\ <<e>> \o s # <<>>
         /\ Head(<<e>> \o s) = e
         /\ Members(<<e>> \o s) = {e} \cup Members(s)
         /\ Once(s) /\ e \notin Members(s) => Once(<<e>> \o s)
  <1> DEFINE c == <<e>> \o s
  <1>1. c \in Seq(S) /\ Len(c) = Len(s) + 1 /\ c[1] = e
    OBVIOUS
  <1>2. \A i \in 2 .. Len(c) : i - 1 \in 1 .. Len(s) /\ c[i] = s[i - 1]
    OBVIOUS
  <1>3. \A i \in 1 .. Len(s) : i + 1 \in 2 .. Len(c) /\ c[i + 1] = s[i]
    OBVIOUS
  <1>4. c # <<>> /\ Head(c) = e
    BY <1>1
  <1> HIDE DEF c
  <1>5. Members(c) = {e} \cup Members(s)
    <2>1. ASSUME NEW i \in 1 .. Len(c) PROVE c[i] \in {e} \cup Members(s)
      <3>1. CASE i = 1
        BY <3>1, <1>1
      <3>2. CASE i # 1
        BY <3>2, <1>1, <1>2 DEF Members
      <3> QED BY <3>1, <3>2
    <2>2. e \in Members(c)
      BY <1>1 DEF Members
    <2>3. ASSUME NEW i \in 1 .. Len(s) PROVE s[i] \in Members(c)
      BY <1>1, <1>3 DEF Members
    <2> QED BY <2>1, <2>2, <2>3 DEF Members
  <1>6. ASSUME Once(s), e \notin Members(s), NEW i \in 1 .. Len(c), NEW j \in 1 .. Len(c),
               c[i] = c[j]
        PROVE  i = j
    <2>1. \A k \in 2 .. Len(c) : c[k] # e
      BY <1>2, <1>6 DEF Members
    <2>2. CASE i = 1 \/ j = 1
      BY <2>1, <2>2, <1>1, <1>6
    <2>3. CASE i # 1 /\ j # 1
      <3>1. i - 1 \in 1 .. Len(s) /\ j - 1 \in 1 .. Len(s) /\ s[i - 1] = s[j - 1]
        BY <2>3, <1>1, <1>2, <1>6
      <3> QED BY <3>1, <1>6 DEF Once
    <2> QED BY <2>2, <2>3
  <1> QED BY <1>1, <1>4, <1>5, <1>6 DEF Once, c

LEMMA ReversedList ==
  ASSUME NEW S, NEW s \in Seq(S)
  PROVE  /\ Reversed(s) \in Seq(S)
         /\ Len(Reversed(s)) = Len(s)
         /\ s # <<>> => Reversed(s) # <<>>
         /\ Members(Reversed(s)) = Members(s)
         /\ Once(s) => Once(Reversed(s))
  <1> DEFINE r == Reversed(s)
  <1>1. r \in Seq(S) /\ Len(r) = Len(s)
    BY DEF Reversed
  <1>2. \A i \in 1 .. Len(s) : Len(s) + 1 - i \in 1 .. Len(s) /\ r[i] = s[Len(s) + 1 - i]
    BY DEF Reversed
  <1>3. ASSUME NEW i \in 1 .. Len(s) PROVE s[i] = r[Len(s) + 1 - i]
    <2>1. Len(s) + 1 - i \in 1 .. Len(s) /\ Len(s) + 1 - (Len(s) + 1 - i) = i
      OBVIOUS
    <2> QED BY <1>2, <2>1
  <1> HIDE DEF r
  <1>4. Members(r) = Members(s)
    <2>1. ASSUME NEW i \in 1 .. Len(s) PROVE r[i] \in Members(s)
      BY <1>2 DEF Members
    <2>2. ASSUME NEW i \in 1 .. Len(s) PROVE s[i] \in Members(r)
      <3>1. Len(s) + 1 - i \in 1 .. Len(r) /\ s[i] = r[Len(s) + 1 - i]
        BY <1>1, <1>2, <1>3
      <3> QED BY <3>1 DEF Members
    <2> QED BY <1>1, <2>1, <2>2 DEF Members
  <1>5. ASSUME Once(s), NEW i \in 1 .. Len(s), NEW j \in 1 .. Len(s), r[i] = r[j]
        PROVE  i = j
    <2>1. Len(s) + 1 - i = Len(s) + 1 - j
      BY <1>2, <1>5 DEF Once
    <2> QED BY <2>1
  <1>6. s # <<>> => r # <<>>
    BY <1>1
  <1> QED BY <1>1, <1>4, <1>5, <1>6 DEF Once, r

LEMMA TailList ==
  ASSUME NEW S, NEW s \in Seq(S), s # <<>>
  PROVE  /\ Head(s) \in Members(s) /\ Head(s) \in S
         /\ Tail(s) \in Seq(S)
         /\ Once(s) => /\ Once(Tail(s))
                       /\ Members(Tail(s)) = Members(s) \ {Head(s)}
  <1> DEFINE t == Tail(s)
  <1>1. Len(s) \in Nat \ {0} /\ Head(s) = s[1] /\ Head(s) \in S
    OBVIOUS
  <1>2. t \in Seq(S) /\ Len(t) = Len(s) - 1 /\ \A i \in 1 .. Len(t) : t[i] = s[i + 1]
    BY HeadTailProperties
  <1> HIDE DEF t
  <1>3. Head(s) \in Members(s)
    BY <1>1 DEF Members
  <1>4. ASSUME Once(s), NEW i \in 1 .. Len(t), NEW j \in 1 .. Len(t), t[i] = t[j]
        PROVE  i = j
    <2>1. /\ i + 1 \in 1 .. Len(s) /\ j + 1 \in 1 .. Len(s)
          /\ s[i + 1] = s[j + 1]
      BY <1>1, <1>2, <1>4
    <2>2. i + 1 = j + 1
      BY <2>1, <1>4 DEF Once
    <2> QED BY <2>2
  <1>5. ASSUME Once(s) PROVE Members(t) = Members(s) \ {Head(s)}
    <2>1. ASSUME NEW i \in 1 .. Len(t) PROVE t[i] \in Members(s) \ {Head(s)}
      BY <1>1, <1>2, <1>5 DEF Members, Once
    <2>2. ASSUME NEW i \in 1 .. Len(s), s[i] # Head(s) PROVE s[i] \in Members(t)
      <3>1. i - 1 \in 1 .. Len(t) /\ t[i - 1] = s[i]
        BY <2>2, <1>1, <1>2
      <3> QED BY <3>1 DEF Members
    <2> QED BY <2>1, <2>2 DEF Members
  <1> QED BY <1>1, <1>2, <1>3, <1>4, <1>5 DEF Once, t

-----------------------------------------------------------------------------
LEMMA InitInv == Init => MutexInv
  <1> SUFFICES ASSUME Init PROVE MutexInv
    OBVIOUS
  <1>1. TypeOK
    <2>1. lifo \in Seq(Coroutines) /\ fifo \in Seq(Coroutines) /\ held \in BOOLEAN
      BY EmptySeq DEF Init
    <2>2. pc \in [Coroutines -> {"outside", "locking", "waiting", "inside",
                                "unlocking", "handing", "trying"}]
      BY DEF Init
    <2>3. seen \in [Coroutines -> Words]
      BY DEF Init, Words
    <2> QED BY <2>1, <2>2, <2>3 DEF TypeOK
  <1>2. \A p \in Coroutines : pc[p] = "outside"
    BY DEF Init
  <1>3. EachOnce /\ Members(fifo) = {} /\ Members(lifo) = {}
    BY EmptyList DEF Init, EachOnce
  <1>4. held = FALSE /\ lifo = <<>> /\ fifo = <<>>
    BY DEF Init
  <1>5. Listing
    BY <1>2, <1>3 DEF Listing
  <1> QED
    BY <1>1, <1>2, <1>3, <1>4, <1>5
       DEF MutexInv, NoTry, MutualExclusion, HeldIffOwned, FreeIsEmpty, Unlocking, Owning

(* What the word says about the lock and its list.                         *)
LEMMA StateProperties ==
  ASSUME TypeOK
  PROVE  /\ State \in Words
         /\ State = Unlocked <=> ~held
         /\ State = Locked <=> held /\ lifo = <<>>
  <1>1. CASE held /\ lifo # <<>>
    <2>1. State = Head(lifo) /\ Head(lifo) \in Coroutines
      BY <1>1 DEF State, TypeOK
    <2> QED BY <2>1, <1>1, NamesDistinct DEF Words
  <1>2. CASE held /\ lifo = <<>>
    BY <1>2, NamesDistinct DEF State, Words
  <1>3. CASE ~held
    BY <1>3, NamesDistinct DEF State, Words
  <1> QED BY <1>1, <1>2, <1>3 DEF TypeOK

-----------------------------------------------------------------------------
(* One lemma per action: it preserves the invariant.                       *)
LEMMA LockLoadInv ==
  ASSUME MutexInv, NEW p \in Coroutines, LockLoad(p)
  PROVE  MutexInv'
  <1> USE DEF LockLoad, Goto, See
  <1>1. TypeOK'
    BY StateProperties DEF MutexInv, TypeOK
  <1>2. \A q \in Coroutines : q # p => pc'[q] = pc[q] /\ seen'[q] = seen[q]
    BY DEF MutexInv, TypeOK
  <1>3. pc[p] = "outside" /\ pc'[p] = "locking"
    BY DEF MutexInv, TypeOK
  <1>4. NoTry' /\ MutualExclusion' /\ HeldIffOwned' /\ Listing'
    BY <1>2, <1>3
       DEF MutexInv, NoTry, MutualExclusion, HeldIffOwned, Listing, Owning
  <1>5. EachOnce' /\ FreeIsEmpty'
    BY DEF MutexInv, EachOnce, FreeIsEmpty
  <1>6. Unlocking'
    BY <1>2, <1>3 DEF MutexInv, Unlocking
  <1> QED BY <1>1, <1>4, <1>5, <1>6 DEF MutexInv

LEMMA LockFreeInv ==
  ASSUME MutexInv, NEW p \in Coroutines, LockFree(p)
  PROVE  MutexInv'
  <1> USE DEF LockFree, Goto
  <1>1. TypeOK'
    BY DEF MutexInv, TypeOK
  <1>2. ~held /\ held'
    BY StateProperties DEF MutexInv
  <1>3. \A q \in Coroutines : q # p => pc'[q] = pc[q]
    BY DEF MutexInv, TypeOK
  <1>4. pc[p] = "locking" /\ pc'[p] = "inside"
    BY DEF MutexInv, TypeOK
  <1>5. \A q \in Coroutines : pc[q] \notin Owning
    BY <1>2 DEF MutexInv, HeldIffOwned
  <1>6. NoTry' /\ MutualExclusion' /\ HeldIffOwned' /\ Listing'
    BY <1>2, <1>3, <1>4, <1>5
       DEF MutexInv, NoTry, MutualExclusion, HeldIffOwned, Listing, Owning
  <1>7. EachOnce' /\ FreeIsEmpty'
    BY <1>2 DEF MutexInv, EachOnce, FreeIsEmpty
  <1>8. Unlocking'
    BY <1>3, <1>4 DEF MutexInv, Unlocking
  <1> QED BY <1>1, <1>6, <1>7, <1>8 DEF MutexInv

LEMMA LockQueueInv ==
  ASSUME MutexInv, NEW p \in Coroutines, LockQueue(p)
  PROVE  MutexInv'
  <1> USE DEF LockQueue, Goto
  <1>1. held
    BY StateProperties DEF MutexInv
  <1>2. /\ lifo' \in Seq(Coroutines) /\ lifo' # <<>>
        /\ Members(lifo') = {p} \cup Members(lifo)
        /\ Once(lifo) /\ p \notin Members(lifo) => Once(lifo')
    BY ConsList DEF MutexInv, TypeOK
  <1>3. TypeOK'
    BY <1>2 DEF MutexInv, TypeOK
  <1>4. \A q \in Coroutines : q # p => pc'[q] = pc[q]
    BY DEF MutexInv, TypeOK
  <1>5. pc[p] = "locking" /\ pc'[p] = "waiting"
    BY DEF MutexInv, TypeOK
  <1>6. p \notin Members(fifo) \cup Members(lifo)
    BY <1>5 DEF MutexInv, Listing
  <1>7. EachOnce'
    BY <1>2, <1>6 DEF MutexInv, EachOnce
  <1>8. Listing'
    BY <1>2, <1>4, <1>5 DEF MutexInv, Listing
  <1>9. NoTry' /\ MutualExclusion' /\ HeldIffOwned'
    BY <1>4, <1>5 DEF MutexInv, NoTry, MutualExclusion, HeldIffOwned, Owning
  <1>10. FreeIsEmpty'
    BY <1>1 DEF FreeIsEmpty
  <1>11. Unlocking'
    BY <1>2, <1>4, <1>5 DEF MutexInv, Unlocking
  <1> QED BY <1>3, <1>7, <1>8, <1>9, <1>10, <1>11 DEF MutexInv

LEMMA LockRetryInv ==
  ASSUME MutexInv, NEW p \in Coroutines, LockRetry(p)
  PROVE  MutexInv'
  <1> USE DEF LockRetry, See
  <1>1. TypeOK'
    BY StateProperties DEF MutexInv, TypeOK
  <1>2. \A q \in Coroutines : q # p => seen'[q] = seen[q]
    BY DEF MutexInv, TypeOK
  <1>3. Unlocking'
    BY <1>2 DEF MutexInv, Unlocking
  <1>4. NoTry' /\ MutualExclusion' /\ HeldIffOwned' /\ Listing' /\ EachOnce' /\ FreeIsEmpty'
    BY DEF MutexInv, NoTry, MutualExclusion, HeldIffOwned, Listing, EachOnce, FreeIsEmpty
  <1> QED BY <1>1, <1>3, <1>4 DEF MutexInv

LEMMA UnlockLookInv ==
  ASSUME MutexInv, NEW p \in Coroutines, UnlockLook(p)
  PROVE  MutexInv'
  <1> USE DEF UnlockLook, Goto, See
  <1>1. TypeOK'
    BY StateProperties DEF MutexInv, TypeOK
  <1>2. \A q \in Coroutines : q # p => pc'[q] = pc[q] /\ seen'[q] = seen[q]
    BY DEF MutexInv, TypeOK
  <1>3. pc[p] = "inside" /\ pc'[p] \in {"handing", "unlocking"}
    BY DEF MutexInv, TypeOK
  <1>4. held
    BY <1>3 DEF MutexInv, HeldIffOwned, Owning
  <1>5. /\ pc'[p] = "handing" => fifo # <<>>
        /\ pc'[p] = "unlocking" => fifo = <<>> /\ seen'[p] = State
    BY DEF MutexInv, TypeOK
  <1>6. Unlocking'
    BY <1>2, <1>4, <1>5, StateProperties DEF MutexInv, Unlocking
  <1>7. NoTry' /\ MutualExclusion' /\ HeldIffOwned' /\ Listing'
    BY <1>2, <1>3
       DEF MutexInv, NoTry, MutualExclusion, HeldIffOwned, Listing, Owning
  <1>8. EachOnce' /\ FreeIsEmpty'
    BY DEF MutexInv, EachOnce, FreeIsEmpty
  <1> QED BY <1>1, <1>6, <1>7, <1>8 DEF MutexInv

LEMMA UnlockFreeInv ==
  ASSUME MutexInv, NEW p \in Coroutines, UnlockFree(p)
  PROVE  MutexInv'
  <1> USE DEF UnlockFree, Goto
  <1>1. TypeOK'
    BY DEF MutexInv, TypeOK
  <1>2. \A q \in Coroutines : q # p => pc'[q] = pc[q]
    BY DEF MutexInv, TypeOK
  <1>3. pc[p] = "unlocking" /\ pc'[p] = "outside" /\ ~held'
    BY DEF MutexInv, TypeOK
  <1>4. lifo = <<>> /\ fifo = <<>>
    BY <1>3, StateProperties DEF MutexInv, Unlocking
  <1>5. \A q \in Coroutines : q # p => pc[q] \notin Owning
    BY <1>3 DEF MutexInv, MutualExclusion, Owning
  <1>6. NoTry' /\ MutualExclusion' /\ HeldIffOwned' /\ Listing'
    BY <1>2, <1>3, <1>5
       DEF MutexInv, NoTry, MutualExclusion, HeldIffOwned, Listing, Owning
  <1>7. EachOnce' /\ FreeIsEmpty'
    BY <1>4 DEF MutexInv, EachOnce, FreeIsEmpty
  <1>8. Unlocking'
    BY <1>2, <1>3 DEF MutexInv, Unlocking
  <1> QED BY <1>1, <1>6, <1>7, <1>8 DEF MutexInv

LEMMA UnlockTakeInv ==
  ASSUME MutexInv, NEW p \in Coroutines, UnlockTake(p)
  PROVE  MutexInv'
  <1> USE DEF UnlockTake, Goto
  <1>1. \A q \in Coroutines : q # p => pc'[q] = pc[q]
    BY DEF MutexInv, TypeOK
  <1>2. pc[p] = "unlocking" /\ pc'[p] = "handing"
    BY DEF MutexInv, TypeOK
  <1>3. held /\ held'
    BY <1>2 DEF MutexInv, HeldIffOwned, Owning
  <1>4. fifo = <<>> /\ lifo # <<>>
    BY <1>2, <1>3, StateProperties DEF MutexInv, Unlocking
  <1>5. /\ fifo' \in Seq(Coroutines) /\ fifo' # <<>>
        /\ Members(fifo') = Members(lifo)
        /\ Once(lifo) => Once(fifo')
    BY <1>4, ReversedList DEF MutexInv, TypeOK
  <1>6. lifo' = <<>> /\ Members(lifo') = {} /\ Once(lifo') /\ Members(fifo) = {}
    BY <1>4, EmptyList
  <1>7. TypeOK'
    BY <1>3, <1>5, <1>6 DEF MutexInv, TypeOK
  <1>8. EachOnce'
    BY <1>5, <1>6 DEF MutexInv, EachOnce
  <1>9. Listing'
    BY <1>1, <1>2, <1>5, <1>6 DEF MutexInv, Listing
  <1>10. NoTry' /\ MutualExclusion' /\ HeldIffOwned'
    BY <1>1, <1>2, <1>3 DEF MutexInv, NoTry, MutualExclusion, HeldIffOwned, Owning
  <1>11. FreeIsEmpty'
    BY <1>3 DEF FreeIsEmpty
  <1>12. Unlocking'
    <2>1. \A q \in Coroutines : q # p => pc[q] \notin Owning
      BY <1>2 DEF MutexInv, MutualExclusion, Owning
    <2> QED BY <2>1, <1>1, <1>2, <1>5 DEF Unlocking, Owning
  <1> QED BY <1>7, <1>8, <1>9, <1>10, <1>11, <1>12 DEF MutexInv

LEMMA HandOverInv ==
  ASSUME MutexInv, NEW p \in Coroutines, HandOver(p)
  PROVE  MutexInv'
  <1> USE DEF HandOver
  <1> DEFINE n == Head(fifo)
  <1>1. /\ n \in Members(fifo) /\ n \in Coroutines
        /\ fifo' \in Seq(Coroutines)
        /\ Once(fifo')
        /\ Members(fifo') = Members(fifo) \ {n}
    BY TailList DEF MutexInv, TypeOK, EachOnce
  <1>2. pc[n] = "waiting" /\ pc[p] = "handing" /\ n # p
    BY <1>1 DEF MutexInv, Listing
  <1>3. pc'[n] = "inside" /\ pc'[p] = "outside"
    BY <1>1, <1>2 DEF MutexInv, TypeOK
  <1>4. \A q \in Coroutines : q # p /\ q # n => pc'[q] = pc[q]
    BY DEF MutexInv, TypeOK
  <1> HIDE DEF n
  <1>5. \A q \in Coroutines : q # p => pc[q] \notin Owning
    BY <1>2 DEF MutexInv, MutualExclusion, Owning
  <1>6. TypeOK'
    BY <1>1 DEF MutexInv, TypeOK, n
  <1>7. held
    BY <1>2 DEF MutexInv, HeldIffOwned, Owning
  <1>8. EachOnce'
    BY <1>1 DEF MutexInv, EachOnce
  <1>9. n \notin Members(lifo)
    BY <1>1 DEF MutexInv, EachOnce
  <1>10. Listing'
    BY <1>1, <1>2, <1>3, <1>4, <1>9 DEF MutexInv, Listing
  <1>11. NoTry' /\ MutualExclusion' /\ HeldIffOwned'
    BY <1>1, <1>3, <1>4, <1>5, <1>7
       DEF MutexInv, NoTry, MutualExclusion, HeldIffOwned, Owning
  <1>12. FreeIsEmpty' /\ Unlocking'
    BY <1>3, <1>4, <1>5, <1>7 DEF FreeIsEmpty, Unlocking, Owning
  <1> QED BY <1>6, <1>8, <1>10, <1>11, <1>12 DEF MutexInv

-----------------------------------------------------------------------------
LEMMA NextInv == MutexInv /\ [Next]_vars => MutexInv'
  <1> SUFFICES ASSUME MutexInv, [Next]_vars PROVE MutexInv'
    OBVIOUS
  <1>1. CASE UNCHANGED vars
    BY <1>1 DEF vars, MutexInv, TypeOK, NoTry, MutualExclusion, HeldIffOwned,
                FreeIsEmpty, EachOnce, Listing, Unlocking
  <1>2. ASSUME NEW p \in Coroutines, Lock(p) PROVE MutexInv'
    BY <1>2, LockLoadInv, LockFreeInv, LockQueueInv, LockRetryInv DEF Lock
  <1>3. ASSUME NEW p \in Coroutines, Unlock(p) PROVE MutexInv'
    BY <1>3, UnlockLookInv, UnlockFreeInv, UnlockTakeInv, HandOverInv DEF Unlock
  <1> QED BY <1>1, <1>2, <1>3 DEF Next

LEMMA Invariance == Spec => []MutexInv
  BY InitInv, NextInv, PTL DEF Spec

(* The types of the word, the lists and the registers (mutex.hpp:121-126). *)
THEOREM TypeCorrect == Spec => []TypeOK
  BY Invariance, PTL DEF MutexInv

(* lock() never lets two coroutines in, for any number of coroutines and   *)
(* any interleaving of lock() and unlock() (mutex.hpp:18-40, 80-108).      *)
THEOREM MutexExcludes == Spec => []MutualExclusion
  BY Invariance, PTL DEF MutexInv

(* The assertions of unlock() hold: it always finds the waiter it hands    *)
(* the lock to (mutex.hpp:98, 105).                                        *)
THEOREM HandOverIsSafe == Spec => []HandOverFindsWaiter
  <1>1. MutexInv => HandOverFindsWaiter
    <2> SUFFICES ASSUME MutexInv, NEW p \in Coroutines
                 PROVE  /\ pc[p] = "unlocking" /\ State # Locked => held /\ lifo # <<>>
                        /\ pc[p] = "unlocking" /\ seen[p] # Locked => held /\ lifo # <<>>
                        /\ pc[p] = "handing" => fifo # <<>>
      BY DEF HandOverFindsWaiter
    <2>1. pc[p] = "unlocking" => held
      BY DEF MutexInv, HeldIffOwned, Owning
    <2> QED BY <2>1, StateProperties DEF MutexInv, Unlocking
  <1> QED BY <1>1, Invariance, PTL

(* Whenever nobody owns the mutex it is unlocked and nobody waits, so no   *)
(* waiter is left with nobody to wake it up (mutex.hpp:54-57, 85-96).      *)
THEOREM NoWaiterAbandoned == Spec => []SomebodyInCharge
  <1>1. MutexInv => SomebodyInCharge
    BY DEF MutexInv, HeldIffOwned, FreeIsEmpty, SomebodyInCharge
  <1> QED BY <1>1, Invariance, PTL

(* Every suspended coroutine is linked exactly once, in one of the lists,  *)
(* and nothing else is (mutex.hpp:30-37, 97-107).                          *)
THEOREM WaitersAreListed == Spec => []WaitersListed
  <1>1. ASSUME MutexInv, NEW p \in Coroutines
        PROVE  LET at == Listed(p, fifo \o lifo)
               IN  IF pc[p] = "waiting" THEN \E i \in at : at = {i} ELSE at = {}
    <2> DEFINE all == fifo \o lifo
               F == Len(fifo)
    <2>1. fifo \in Seq(Coroutines) /\ lifo \in Seq(Coroutines)
      BY <1>1 DEF MutexInv, TypeOK
    <2>2. F \in Nat /\ Len(lifo) \in Nat /\ DOMAIN all = 1 .. F + Len(lifo)
      BY <2>1, ConcatProperties, LenProperties
    <2>3. /\ \A i \in 1 .. F : all[i] = fifo[i]
          /\ \A i \in F + 1 .. F + Len(lifo) : i - F \in 1 .. Len(lifo) /\ all[i] = lifo[i - F]
          /\ \A i \in 1 .. Len(lifo) : all[i + F] = lifo[i]
      BY <2>1, <2>2, ConcatProperties
    <2> HIDE DEF all
    <2>4. ASSUME NEW i \in DOMAIN all, NEW j \in DOMAIN all, all[i] = all[j]
          PROVE  i = j
      <3>1. CASE i \in 1 .. F /\ j \in 1 .. F
        BY <3>1, <2>3, <2>4, <1>1 DEF MutexInv, EachOnce, Once
      <3>2. CASE i \in F + 1 .. F + Len(lifo) /\ j \in F + 1 .. F + Len(lifo)
        <4>1. /\ i - F \in 1 .. Len(lifo) /\ j - F \in 1 .. Len(lifo)
              /\ lifo[i - F] = lifo[j - F]
          BY <3>2, <2>3, <2>4
        <4>2. i - F = j - F
          BY <4>1, <1>1 DEF MutexInv, EachOnce, Once
        <4> QED BY <4>2, <3>2, <2>2
      <3>3. ASSUME NEW k \in 1 .. F, NEW l \in F + 1 .. F + Len(lifo)
            PROVE  all[k] # all[l]
        <4>1. all[k] \in Members(fifo) /\ all[l] \in Members(lifo)
          BY <2>2, <2>3 DEF Members
        <4> QED BY <4>1, <1>1 DEF MutexInv, EachOnce
      <3>4. i \in 1 .. F \/ i \in F + 1 .. F + Len(lifo)
        BY <2>2
      <3>5. j \in 1 .. F \/ j \in F + 1 .. F + Len(lifo)
        BY <2>2
      <3> QED BY <3>1, <3>2, <3>3, <3>4, <3>5, <2>4
    <2>5. p \in Members(fifo) \cup Members(lifo) <=> \E i \in DOMAIN all : all[i] = p
      <3>1. ASSUME NEW i \in 1 .. F PROVE fifo[i] = all[i] /\ i \in DOMAIN all
        BY <2>2, <2>3
      <3>2. ASSUME NEW i \in 1 .. Len(lifo)
            PROVE  lifo[i] = all[i + F] /\ i + F \in DOMAIN all
        BY <2>2, <2>3
      <3>3. ASSUME NEW i \in DOMAIN all
            PROVE  all[i] \in Members(fifo) \cup Members(lifo)
        <4>1. CASE i \in 1 .. F
          BY <4>1, <2>3 DEF Members
        <4>2. CASE i \in F + 1 .. F + Len(lifo)
          BY <4>2, <2>3 DEF Members
        <4> QED BY <4>1, <4>2, <2>2
      <3> QED BY <3>1, <3>2, <3>3 DEF Members
    <2>6. pc[p] = "waiting" <=> \E i \in DOMAIN all : all[i] = p
      BY <2>5, <1>1 DEF MutexInv, Listing
    <2>7. Listed(p, all) = {i \in DOMAIN all : all[i] = p}
      BY DEF Listed
    <2>8. CASE pc[p] = "waiting"
      <3>1. PICK i \in DOMAIN all : all[i] = p
        BY <2>6, <2>8
      <3>2. Listed(p, all) = {i}
        BY <3>1, <2>4, <2>7
      <3> QED BY <3>2, <2>8 DEF all
    <2>9. CASE pc[p] # "waiting"
      <3>1. Listed(p, all) = {}
        BY <2>6, <2>7, <2>9
      <3> QED BY <3>1, <2>9 DEF all
    <2> QED BY <2>8, <2>9
  <1>2. MutexInv => WaitersListed
    BY <1>1 DEF WaitersListed
  <1> QED BY <1>2, Invariance, PTL

-----------------------------------------------------------------------------
(* The mapping to the abstract lock: its queue is what fifo_awaiters_ and  *)
(* then the word's list, oldest first, say.                                *)
Queue == fifo \o Reversed(lifo)

LEMMA OwnerIs ==
  ASSUME MutexInv, NEW p \in Coroutines, pc[p] \in Owning
  PROVE  Owner = p
  BY DEF MutexInv, MutualExclusion, Owner

LEMMA ReversedCons ==
  ASSUME NEW S, NEW s \in Seq(S), NEW e \in S
  PROVE  Reversed(<<e>> \o s) = Append(Reversed(s), e)
  <1> DEFINE c == <<e>> \o s
  <1>1. /\ c \in Seq(S) /\ Len(c) = Len(s) + 1 /\ c[1] = e
        /\ \A i \in 1 .. Len(s) : c[i + 1] = s[i]
    OBVIOUS
  <1>2. /\ Reversed(c) \in Seq(S) /\ Len(Reversed(c)) = Len(s) + 1
        /\ \A i \in 1 .. Len(c) : Reversed(c)[i] = c[Len(c) + 1 - i]
    BY <1>1, ReversedList DEF Reversed
  <1>3. /\ Reversed(s) \in Seq(S) /\ Len(Reversed(s)) = Len(s)
        /\ \A i \in 1 .. Len(s) : Reversed(s)[i] = s[Len(s) + 1 - i]
    BY ReversedList DEF Reversed
  <1> DEFINE a == Append(Reversed(s), e)
  <1>4. /\ a \in Seq(S) /\ Len(a) = Len(s) + 1 /\ a[Len(s) + 1] = e
        /\ \A i \in 1 .. Len(s) : a[i] = Reversed(s)[i]
    BY <1>3, AppendProperties
  <1> HIDE DEF a, c
  <1>5. ASSUME NEW i \in 1 .. Len(s) + 1 PROVE Reversed(c)[i] = a[i]
    <2>1. CASE i = Len(s) + 1
      BY <2>1, <1>1, <1>2, <1>4
    <2>2. CASE i \in 1 .. Len(s)
      <3>1. Reversed(c)[i] = c[(Len(s) + 1 - i) + 1] /\ Len(s) + 1 - i \in 1 .. Len(s)
        BY <2>2, <1>1, <1>2
      <3> QED BY <3>1, <2>2, <1>1, <1>3, <1>4
    <2> QED BY <2>1, <2>2
  <1>6. Reversed(c) = a
    BY <1>2, <1>4, <1>5, SeqEqual
  <1> QED BY <1>6 DEF a, c

LEMMA RefinesInit == Init => Fifo!Init
  <1> SUFFICES ASSUME Init PROVE Owner = Nobody /\ Queue = <<>>
    BY DEF Fifo!Init, Queue
  <1>1. Owner = Nobody
    BY DEF Init, Owner, Owning
  <1>2. Queue = <<>>
    BY DEF Init, Queue, Reversed
  <1> QED BY <1>1, <1>2

LEMMA QueueMembers ==
  ASSUME MutexInv
  PROVE  /\ Queue \in Seq(Coroutines)
         /\ \A p \in Coroutines : pc[p] # "waiting" =>
              \A i \in DOMAIN Queue : Queue[i] # p
  <1>1. /\ fifo \in Seq(Coroutines) /\ Reversed(lifo) \in Seq(Coroutines)
        /\ Members(Reversed(lifo)) = Members(lifo)
    BY ReversedList DEF MutexInv, TypeOK
  <1>2. /\ Queue \in Seq(Coroutines)
        /\ DOMAIN Queue = 1 .. Len(fifo) + Len(Reversed(lifo))
        /\ \A i \in DOMAIN Queue : Queue[i] \in Members(fifo) \cup Members(lifo)
    <2> DEFINE r == Reversed(lifo)
    <2> HIDE DEF r
    <2>1. fifo \in Seq(Coroutines) /\ r \in Seq(Coroutines) /\ Members(r) = Members(lifo)
      BY <1>1 DEF r
    <2>2. /\ fifo \o r \in Seq(Coroutines)
          /\ Len(fifo) \in Nat /\ Len(r) \in Nat
          /\ DOMAIN (fifo \o r) = 1 .. Len(fifo) + Len(r)
      BY <2>1, ConcatProperties, LenProperties
    <2>3. ASSUME NEW i \in DOMAIN (fifo \o r)
          PROVE  (fifo \o r)[i] \in Members(fifo) \cup Members(r)
      <3>1. CASE i <= Len(fifo)
        <4>1. i \in 1 .. Len(fifo) /\ (fifo \o r)[i] = fifo[i]
          BY <3>1, <2>1, <2>2
        <4> QED BY <4>1 DEF Members
      <3>2. CASE ~(i <= Len(fifo))
        <4>1. i - Len(fifo) \in 1 .. Len(r) /\ (fifo \o r)[i] = r[i - Len(fifo)]
          BY <3>2, <2>1, <2>2
        <4> QED BY <4>1 DEF Members
      <3> QED BY <3>1, <3>2
    <2> QED BY <2>1, <2>2, <2>3 DEF Queue, r
  <1> QED BY <1>2 DEF MutexInv, Listing

LEMMA NextOwnerIs ==
  ASSUME MutexInv', NEW p \in Coroutines, pc'[p] \in Owning
  PROVE  Owner' = p
  BY DEF MutexInv, MutualExclusion, Owner

LEMMA OwnerStays ==
  ASSUME MutexInv, MutexInv',
         \A q \in Coroutines : pc[q] \in Owning <=> pc'[q] \in Owning
  PROVE  Owner' = Owner
  <1>1. CASE \E q \in Coroutines : pc[q] \in Owning
    BY <1>1, OwnerIs, NextOwnerIs
  <1>2. CASE ~\E q \in Coroutines : pc[q] \in Owning
    BY <1>2 DEF Owner
  <1> QED BY <1>1, <1>2

(* An arriving waiter goes to the end of the abstract queue.               *)
LEMMA QueueGrows ==
  ASSUME MutexInv, NEW p \in Coroutines, LockQueue(p)
  PROVE  Queue' = Append(Queue, p)
  <1> DEFINE r == Reversed(lifo)
  <1>1. fifo \in Seq(Coroutines) /\ lifo \in Seq(Coroutines) /\ r \in Seq(Coroutines)
    BY ReversedList DEF MutexInv, TypeOK
  <1>2. fifo' = fifo /\ lifo' = <<p>> \o lifo
    BY DEF LockQueue
  <1>3. Reversed(lifo') = Append(r, p)
    BY <1>1, <1>2, ReversedCons
  <1>4. Queue' = fifo \o Append(r, p) /\ Queue = fifo \o r
    BY <1>2, <1>3 DEF Queue
  <1> HIDE DEF r
  <1>5. fifo \o Append(r, p) = Append(fifo \o r, p)
    BY <1>1
  <1> QED BY <1>4, <1>5

(* The queue is the same before and after the lists are exchanged.         *)
LEMMA QueueMoves ==
  ASSUME MutexInv, NEW p \in Coroutines, UnlockTake(p)
  PROVE  Queue' = Queue
  <1> DEFINE r == Reversed(lifo)
  <1>1. r \in Seq(Coroutines)
    BY ReversedList DEF MutexInv, TypeOK
  <1>2. fifo = <<>> /\ fifo' = r /\ lifo' = <<>>
    BY DEF MutexInv, Unlocking, UnlockTake
  <1>3. Reversed(lifo') = <<>>
    BY <1>2 DEF Reversed
  <1> HIDE DEF r
  <1>4. r \o <<>> = r /\ <<>> \o r = r
    BY <1>1, ConcatEmptySeq
  <1> QED BY <1>2, <1>3, <1>4 DEF Queue, r

(* The waiter that is scheduled is the first of the queue.                 *)
LEMMA QueueShrinks ==
  ASSUME MutexInv, NEW p \in Coroutines, HandOver(p)
  PROVE  Queue # <<>> /\ Head(Queue) = Head(fifo) /\ Queue' = Tail(Queue)
  <1> DEFINE r == Reversed(lifo)
  <1>1. fifo \in Seq(Coroutines) /\ r \in Seq(Coroutines) /\ fifo # <<>>
    BY ReversedList DEF MutexInv, TypeOK, HandOver
  <1>2. Queue = fifo \o r /\ Queue' = Tail(fifo) \o r
    BY DEF Queue, HandOver
  <1> HIDE DEF r
  <1>3. fifo \o r # <<>> /\ Head(fifo \o r) = Head(fifo) /\ Tail(fifo \o r) = Tail(fifo) \o r
    BY <1>1
  <1> QED BY <1>2, <1>3

(* Every step of the mutex is a step of the abstract lock, or none.        *)
LEMMA RefinesNext ==
  ASSUME MutexInv, MutexInv', [Next]_vars
  PROVE  [Fifo!Next]_<<Owner, Queue>>
  <1> DEFINE Same == Owner' = Owner /\ Queue' = Queue
  <1>1. CASE UNCHANGED vars
    BY <1>1 DEF vars, Owner, Queue, Reversed
  <1>2. ASSUME NEW p \in Coroutines, LockLoad(p) \/ LockRetry(p) PROVE Same
    <2>1. \A q \in Coroutines : pc[q] \in Owning <=> pc'[q] \in Owning
      BY <1>2 DEF LockLoad, LockRetry, Goto, MutexInv, TypeOK, Owning
    <2> QED BY <1>2, <2>1, OwnerStays DEF LockLoad, LockRetry, Queue, Reversed
  <1>3. ASSUME NEW p \in Coroutines, LockFree(p) PROVE Fifo!Acquire(p)
    <2>1. ~held
      BY <1>3, StateProperties DEF LockFree, MutexInv
    <2>2. Owner = Nobody
      BY <2>1 DEF MutexInv, HeldIffOwned, Owner
    <2>3. pc'[p] \in Owning
      BY <1>3 DEF LockFree, Goto, MutexInv, TypeOK, Owning
    <2>4. Queue' = Queue
      BY <1>3 DEF LockFree, Queue, Reversed
    <2> QED BY <2>2, <2>3, <2>4, NextOwnerIs DEF Fifo!Acquire, Queue
  <1>4. ASSUME NEW p \in Coroutines, LockQueue(p) PROVE Fifo!Enqueue(p)
    <2>1. held
      BY <1>4, StateProperties DEF LockQueue, MutexInv
    <2>2. Owner # Nobody
      BY <2>1, OwnerIs, NamesDistinct DEF MutexInv, HeldIffOwned
    <2>3. \A q \in Coroutines : pc[q] \in Owning <=> pc'[q] \in Owning
      BY <1>4 DEF LockQueue, Goto, MutexInv, TypeOK, Owning
    <2>4. \A i \in DOMAIN Queue : Queue[i] # p
      BY <1>4, QueueMembers DEF LockQueue
    <2> QED BY <1>4, <2>2, <2>3, <2>4, OwnerStays, QueueGrows DEF Fifo!Enqueue, Queue
  <1>5. ASSUME NEW p \in Coroutines, UnlockLook(p) PROVE Same
    <2>1. \A q \in Coroutines : pc[q] \in Owning <=> pc'[q] \in Owning
      BY <1>5 DEF UnlockLook, Goto, MutexInv, TypeOK, Owning
    <2> QED BY <1>5, <2>1, OwnerStays DEF UnlockLook, Queue, Reversed
  <1>6. ASSUME NEW p \in Coroutines, UnlockFree(p) PROVE Fifo!Free(p)
    <2>1. pc[p] \in Owning /\ Owner = p
      BY <1>6, OwnerIs DEF UnlockFree, Owning
    <2>2. ~held'
      BY <1>6 DEF UnlockFree
    <2>3. Owner' = Nobody
      BY <2>2 DEF MutexInv, HeldIffOwned, Owner
    <2>4. Queue' = Queue
      BY <1>6 DEF UnlockFree, Queue, Reversed
    <2>5. lifo' = <<>> /\ fifo' = <<>>
      BY <2>2 DEF MutexInv, FreeIsEmpty
    <2>6. Queue' = <<>>
      BY <2>5 DEF Queue, Reversed
    <2> QED BY <2>1, <2>3, <2>4, <2>6 DEF Fifo!Free, Queue
  <1>7. ASSUME NEW p \in Coroutines, UnlockTake(p) PROVE Same
    <2>1. \A q \in Coroutines : pc[q] \in Owning <=> pc'[q] \in Owning
      BY <1>7 DEF UnlockTake, Goto, MutexInv, TypeOK, Owning
    <2> QED BY <1>7, <2>1, OwnerStays, QueueMoves
  <1>8. ASSUME NEW p \in Coroutines, HandOver(p) PROVE Fifo!HandOver(p)
    <2>1. Owner = p
      BY <1>8, OwnerIs DEF HandOver, Owning
    <2>2. Head(fifo) \in Coroutines
      BY <1>8 DEF HandOver, MutexInv, TypeOK
    <2>3. pc'[Head(fifo)] \in Owning
      BY <1>8, <2>2 DEF HandOver, MutexInv, TypeOK, Owning
    <2>4. Owner' = Head(fifo)
      BY <2>2, <2>3, NextOwnerIs
    <2> QED BY <1>8, <2>1, <2>4, QueueShrinks DEF Fifo!HandOver, Queue
  <1>9. ASSUME NEW p \in Coroutines, Lock(p) \/ Unlock(p) PROVE Fifo!Next \/ Same
    BY <1>2, <1>3, <1>4, <1>5, <1>6, <1>7, <1>8, <1>9 DEF Lock, Unlock, Fifo!Next
  <1> QED BY <1>1, <1>9 DEF Next

(* sync::Mutex is a FIFO lock for any number of coroutines: every lock(),  *)
(* unlock() and hand-over is a step of FifoLock (mutex.hpp:18-108).        *)
THEOREM MutexIsFifoLock == Spec => ImplementsFifoLock
  <1>1. Init => Fifo!Init
    BY RefinesInit
  <1>2. MutexInv /\ MutexInv' /\ [Next]_vars => [Fifo!Next]_<<Owner, Queue>>
    BY RefinesNext
  <1> QED BY <1>1, <1>2, Invariance, PTL DEF Spec, ImplementsFifoLock, Fifo!Spec, Queue
=============================================================================
