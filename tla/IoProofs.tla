------------------------------ MODULE IoProofs ------------------------------
(***************************************************************************)
(* Theorems about five components that do not interact, each with its      *)
(* inductive invariant, for every value of the constants.                  *)
(*                                                                         *)
(* Descriptors: OneOwner, by OwnerInv.  It counts, for every number, the   *)
(* objects and awaitables that hold it (OnePlace), so that a move keeps    *)
(* the count and a close takes the last one.                               *)
(*                                                                         *)
(* Driver: CallbackOutlivesItsUses, by UseInv.  OneUse says which one      *)
(* thing will resume a coroutine: a request, an operation of the kernel, a *)
(* completion or a sleep.  Drained says what Reap relies on: the kernel    *)
(* has taken the cancel requests before the worker sees the completions.   *)
(*                                                                         *)
(* BufferedIO: WrittenInOrder, by WriterInv, and ReadInOrder, by           *)
(* ReaderInv.  Both say which Piece of the stream every sequence of bytes  *)
(* is; the lemmas before them are about such pieces (PieceConcat,          *)
(* PieceSplit) and about buffers that hold one (KeepsForward, KeepsReset,  *)
(* KeepsExtend, KeepsWriteTo).                                             *)
(*                                                                         *)
(* Files: ReadsAndWritesWhole, by FilesInv.  Timer: ExpiresOnTime and      *)
(* WakesInTime, by WheelInv.  Each is explained before its lemmas.         *)
(***************************************************************************)
EXTENDS
  Descriptors, Driver, BufferedIO, Files, Timer,
  FiniteSetTheorems, SequenceTheorems, WellFoundedInduction, TLAPS

-----------------------------------------------------------------------------
(* A set of numbers that is not empty has a least one, and one that holds  *)
(* 0 and with every number the next holds all of them.                     *)
LEMMA LeastOf ==
  ASSUME NEW S \in SUBSET Nat, S # {}
  PROVE  Min(S) \in S /\ \A n \in S : Min(S) <= n
  <1>1. PICK m \in S : \A n \in S : ~(<<n, m>> \in OpToRel(<, Nat))
    BY NatLessThanWellFounded, WFMin
  <1>2. ASSUME NEW n \in S PROVE m <= n
    <2>1. n \in Nat /\ m \in Nat
      OBVIOUS
    <2>2. ~(n < m)
      BY <1>1, <2>1 DEF OpToRel
    <2> QED  BY <2>1, <2>2
  <1> QED  BY <1>1, <1>2 DEF Min

LEMMA EveryNumber ==
  ASSUME NEW S, 0 \in S, \A n \in Nat : n \in S => n + 1 \in S
  PROVE  Nat \subseteq S
  <1> SUFFICES ASSUME Nat \ S # {} PROVE FALSE
    OBVIOUS
  <1>1. PICK m \in Nat \ S : \A n \in Nat \ S : m <= n
    BY LeastOf
  <1>2. m # 0
    OBVIOUS
  <1>3. m - 1 \in Nat /\ m = (m - 1) + 1 /\ ~(m <= m - 1)
    BY <1>2
  <1>4. m - 1 \in S
    BY <1>1, <1>3
  <1> QED  BY <1>3, <1>4

LEMMA GreatestOf ==
  ASSUME NEW S \in SUBSET Nat, S # {}, NEW n \in Nat, \A i \in S : i <= n
  PROVE  Max(S) \in S /\ \A i \in S : i <= Max(S)
  <1>1. PICK m \in Nat : (\A i \in S : i <= m) /\ \A k \in Nat : (\A i \in S : i <= k) => m <= k
    <2> DEFINE Above == {k \in Nat : \A i \in S : i <= k}
    <2>1. n \in Above
      OBVIOUS
    <2>2. Min(Above) \in Above /\ \A k \in Above : Min(Above) <= k
      BY <2>1, LeastOf
    <2> QED  BY <2>2
  <1>2. m \in S
    <2> SUFFICES ASSUME m \notin S PROVE FALSE
      OBVIOUS
    <2>1. ASSUME NEW i \in S PROVE i \in Nat /\ i < m
      BY <1>1
    <2>2. m # 0 /\ m - 1 \in Nat /\ ~(m <= m - 1)
      <3>1. PICK i \in S : i \in Nat /\ i < m
        BY <2>1
      <3> QED  BY <3>1
    <2>3. ASSUME NEW i \in S PROVE i <= m - 1
      BY <2>1
    <2> QED  BY <1>1, <2>2, <2>3
  <1>3. \A i \in S : m >= i
    BY <1>1
  <1>4. Max(S) \in S /\ \A i \in S : Max(S) >= i
    BY <1>2, <1>3 DEF Max
  <1> QED  BY <1>4

-----------------------------------------------------------------------------
(* Every number that is open is in exactly one place, and the others are   *)
(* nowhere.                                                                *)
Calls == {"result", "stream", "socket"}

FdTyped ==
  /\ fd \in [Objects -> Numbers \cup {None}] /\ halves \in [Objects -> 0 .. 2]
  /\ open \in SUBSET Numbers /\ connecting \in SUBSET (Numbers \X Calls)
  /\ closes \in [Numbers -> Nat]
  /\ given \in SUBSET Numbers /\ lost \in SUBSET Numbers

(* Where the number n is: in an object, in an awaitable, in the submission *)
(* queue, with whoever called release(), or nowhere any more.              *)
InObject(n) == \E o \in Objects : fd[o] = n
InCall(n)   == \E c \in connecting : c[1] = n
Queued(n)   == closes[n] > 0
Gone(n)     == n \in given \/ n \in lost

OnePlace(n) ==
  /\ n \in open <=> InObject(n) \/ InCall(n) \/ Queued(n) \/ Gone(n)
  /\ \A o, p \in Objects : fd[o] = n /\ fd[p] = n => o = p
  /\ \A c, d \in connecting : c[1] = n /\ d[1] = n => c = d
  /\ closes[n] <= 1
  /\ InObject(n) => ~InCall(n) /\ ~Queued(n) /\ ~Gone(n)
  /\ InCall(n) => ~Queued(n) /\ ~Gone(n)
  /\ Queued(n) => ~Gone(n)
  /\ n \in given => n \notin lost

(* Numbers that nobody closed who did not own them.                        *)
Followed == Numbers \ (wild \cup stolen)

OwnerInv ==
  /\ FdTyped
  /\ \A o \in Objects : halves[o] > 0 => fd[o] # None
  /\ \A n \in Followed : OnePlace(n)

LEMMA Combined ==
  ASSUME FdTyped', \A q \in Objects : halves'[q] > 0 => fd'[q] # None,
         UNCHANGED <<wild, stolen>>, \A m \in Followed : OnePlace(m)'
  PROVE  OwnerInv'
  <1>1. Followed' = Followed
    BY DEF Followed
  <1> QED  BY <1>1 DEF OwnerInv

(* A step that does not concern n.                                         *)
LEMMA Unconcerned ==
  ASSUME NEW n, OnePlace(n), n \in open' <=> n \in open,
         \A o \in Objects : fd'[o] = n <=> fd[o] = n,
         \A c : c[1] = n => (c \in connecting' <=> c \in connecting),
         closes'[n] = closes[n], n \in given' <=> n \in given, n \in lost' <=> n \in lost
  PROVE  OnePlace(n)'
  BY DEF OnePlace, InObject, InCall, Queued, Gone

(* Its owner gives it up for a close, or closes it.                        *)
LEMMA GivenUp ==
  ASSUME NEW n, OnePlace(n), closes[n] \in Nat, InObject(n) \/ InCall(n),
         \A o \in Objects : fd'[o] # n, \A c \in connecting' : c[1] # n,
         n \in given' <=> n \in given, n \in lost' <=> n \in lost,
         \/ closes'[n] = closes[n] + 1 /\ (n \in open' <=> n \in open)
         \/ closes'[n] = closes[n] /\ n \notin open'
  PROVE  OnePlace(n)'
  <1>1. /\ n \in open /\ closes[n] = 0 /\ n \notin given /\ n \notin lost
    BY DEF OnePlace, Queued, Gone
  <1>2. ~InObject(n)' /\ ~InCall(n)' /\ ~Gone(n)' /\ n \notin given'
    BY <1>1 DEF InObject, InCall, Gone
  <1>3. (closes'[n] = 1 /\ n \in open') \/ (closes'[n] = 0 /\ n \notin open')
    BY <1>1
  <1>4. closes'[n] <= 1 /\ (Queued(n)' <=> n \in open')
    BY <1>3 DEF Queued
  <1>5. \A o, p \in Objects : fd'[o] = n /\ fd'[p] = n => o = p
    OBVIOUS
  <1>6. \A c, d \in connecting' : c[1] = n /\ d[1] = n => c = d
    OBVIOUS
  <1> QED  BY <1>2, <1>4, <1>5, <1>6 DEF OnePlace

(* It goes from one object to another.                                     *)
LEMMA PassedOn ==
  ASSUME NEW n, OnePlace(n), NEW o \in Objects, fd[o] = n, NEW p \in Objects,
         \A q \in Objects : fd'[q] = n <=> q = p, connecting' = connecting,
         closes'[n] = closes[n], n \in open' <=> n \in open,
         n \in given' <=> n \in given, n \in lost' <=> n \in lost
  PROVE  OnePlace(n)'
  <1>1. InObject(n) /\ InObject(n)'
    BY DEF InObject
  <1>2. \A q, r \in Objects : fd'[q] = n /\ fd'[r] = n => q = r
    OBVIOUS
  <1>3. (InCall(n)' <=> InCall(n)) /\ (Queued(n)' <=> Queued(n)) /\ (Gone(n)' <=> Gone(n))
    BY DEF InCall, Queued, Gone
  <1> QED  BY <1>1, <1>2, <1>3 DEF OnePlace

LEMMA DoCloseTypes ==
  ASSUME FdTyped, NEW t, NEW n \in Numbers \cup {None}, DoClose(t, n)
  PROVE  /\ open' \in SUBSET Numbers /\ closes' \in [Numbers -> Nat]
         /\ n = None => UNCHANGED <<open, closes>>
         /\ n # None => \/ closes'[n] = closes[n] + 1 /\ open' = open
                        \/ closes' = closes /\ open' = open \ {n}
         /\ \A m \in Numbers \ {n} : closes'[m] = closes[m] /\ (m \in open' <=> m \in open)
  BY NoneAssumption DEF DoClose, CallClose, FdTyped

-----------------------------------------------------------------------------
LEMMA CreateInv ==
  ASSUME OwnerInv, NEW o \in Objects, Create(o)
  PROVE  OwnerInv'
  <1> USE DEF OwnerInv
  <1>1. PICK n \in Numbers \ open : open' = open \cup {n} /\ fd' = [fd EXCEPT ![o] = n]
    BY DEF Create, Free
  <1>2. /\ fd[o] = None /\ halves[o] = 0
        /\ UNCHANGED <<halves, connecting, closes, given, lost, wild, stolen>>
    BY DEF Create, Unused
  <1>3. FdTyped' /\ \A p \in Objects : halves'[p] > 0 => fd'[p] # None
    BY <1>1, <1>2, NoneAssumption DEF FdTyped
  <1>4. ASSUME NEW m \in Followed PROVE OnePlace(m)'
    <2>0. m \in Numbers /\ OnePlace(m)
      BY DEF Followed
    <2>1. CASE m = n
      BY <1>1, <1>2, <2>0, <2>1, NoneAssumption
         DEF FdTyped, OnePlace, InObject, InCall, Queued, Gone
    <2>2. CASE m # n
      BY <1>1, <1>2, <2>0, <2>2, NoneAssumption, Unconcerned DEF FdTyped
    <2> QED  BY <2>1, <2>2
  <1> QED  BY <1>2, <1>3, <1>4, Combined

LEMMA BindFailsInv ==
  ASSUME OwnerInv, NEW t, BindFails(t)
  PROVE  OwnerInv'
  <1>1. UNCHANGED <<fd, halves, connecting, given, lost, wild, stolen>>
    BY DEF BindFails
  <1>2. ASSUME UNCHANGED <<closes, open>> PROVE OwnerInv'
    <2>1. FdTyped' /\ \A q \in Objects : halves'[q] > 0 => fd'[q] # None
      BY <1>1, <1>2 DEF OwnerInv, FdTyped
    <2>2. ASSUME NEW m \in Followed PROVE OnePlace(m)'
      BY <1>1, <1>2, Unconcerned DEF OwnerInv
    <2> QED  BY <1>1, <2>1, <2>2, Combined
  <1>3. ASSUME NEW n \in Numbers \ open,
               closes' = [closes EXCEPT ![n] = @ + 1], open' = open \cup {n}
        PROVE  OwnerInv'
    <2>1. FdTyped' /\ \A q \in Objects : halves'[q] > 0 => fd'[q] # None
      BY <1>1, <1>3 DEF FdTyped, OwnerInv
    <2>2. ASSUME NEW m \in Followed PROVE OnePlace(m)'
      <3>0. m \in Numbers /\ OnePlace(m) /\ FdTyped
        BY DEF Followed, OwnerInv
      <3>1. CASE m = n
        BY <1>1, <1>3, <3>0, <3>1 DEF FdTyped, OnePlace, InObject, InCall, Queued, Gone
      <3>2. CASE m # n
        BY <1>1, <1>3, <3>0, <3>2, Unconcerned DEF FdTyped
      <3> QED  BY <3>1, <3>2
    <2> QED  BY <1>1, <2>1, <2>2, Combined
  <1> QED  BY <1>2, <1>3 DEF BindFails, Free

LEMMA AssignInv ==
  ASSUME OwnerInv, NEW t, NEW o \in Objects, NEW p \in Objects, Assign(t, o, p)
  PROVE  OwnerInv'
  <1> USE DEF OwnerInv
  <1>1. /\ fd[o] # None /\ halves[o] = 0 /\ halves[p] = 0 /\ DoClose(t, fd[p])
        /\ fd' = [fd EXCEPT ![p] = IF o = p THEN None ELSE fd[o], ![o] = None]
        /\ UNCHANGED <<halves, connecting, given, lost, wild, stolen>>
    BY DEF Assign, Whole
  <1>2. fd[o] \in Numbers /\ fd[p] \in Numbers \cup {None}
    BY <1>1 DEF FdTyped
  <1>3. ASSUME NEW q \in Objects
        PROVE  fd'[q] = IF q = o THEN None ELSE IF q = p THEN fd[o] ELSE fd[q]
    BY <1>1 DEF FdTyped
  <1>4. FdTyped'
    BY <1>1, <1>2, DoCloseTypes DEF FdTyped
  <1>5. \A q \in Objects : halves'[q] > 0 => fd'[q] # None
    BY <1>1, <1>3 DEF FdTyped
  <1>6. ASSUME NEW m \in Followed PROVE OnePlace(m)'
    <2> HIDE DEF OwnerInv
    <2>0. OnePlace(m) /\ m \in Numbers /\ m # None /\ closes[m] \in Nat /\ FdTyped
      BY NoneAssumption DEF OwnerInv, FdTyped, Followed
    <2>1. CASE m = fd[p]
      <3>1. \/ closes'[m] = closes[m] + 1 /\ open' = open
            \/ closes' = closes /\ open' = open \ {m}
        BY <1>1, <1>2, <2>0, <2>1, DoCloseTypes
      <3>2. InObject(m) /\ ~InCall(m)
        BY <2>0, <2>1 DEF OnePlace, InObject
      <3>3. \A q \in Objects : fd[q] = m => q = p
        BY <2>0, <2>1 DEF OnePlace
      <3>4. \A q \in Objects : fd'[q] # m
        BY <1>3, <2>0, <3>3
      <3> QED  BY <1>1, <2>0, <3>1, <3>2, <3>4, GivenUp DEF InCall
    <2>2. CASE m # fd[p] /\ m = fd[o]
      <3>1. closes'[m] = closes[m] /\ (m \in open' <=> m \in open)
        BY <1>1, <1>2, <2>0, <2>2, DoCloseTypes
      <3>2. \A q \in Objects : fd[q] = m => q = o
        BY <2>0, <2>2 DEF OnePlace
      <3>3. \A q \in Objects : fd'[q] = m <=> q = p
        BY <1>3, <2>0, <2>2, <3>2
      <3> QED  BY <1>1, <2>0, <2>2, <3>1, <3>3, PassedOn
    <2>3. CASE m # fd[p] /\ m # fd[o]
      <3>1. closes'[m] = closes[m] /\ (m \in open' <=> m \in open)
        BY <1>1, <1>2, <2>0, <2>3, DoCloseTypes
      <3>2. \A q \in Objects : fd'[q] = m <=> fd[q] = m
        BY <1>3, <2>0, <2>3
      <3> QED  BY <1>1, <2>0, <3>1, <3>2, Unconcerned
    <2> QED  BY <2>1, <2>2, <2>3
  <1> QED  BY <1>1, <1>4, <1>5, <1>6, Combined

(* What o had is put elsewhere by the rest of the step.                    *)
LEMMA Emptied ==
  ASSUME FdTyped, NEW o \in Objects, fd' = [fd EXCEPT ![o] = None]
  PROVE  /\ fd' \in [Objects -> Numbers \cup {None}] /\ fd'[o] = None
         /\ \A q \in Objects \ {o} : fd'[q] = fd[q]
         /\ \A m \in Numbers : m # fd[o] => \A q \in Objects : fd'[q] = m <=> fd[q] = m
         /\ OnePlace(fd[o]) => \A q \in Objects : fd[o] # None => fd'[q] # fd[o]
  <1>1. fd' \in [Objects -> Numbers \cup {None}] /\ fd'[o] = None
        /\ \A q \in Objects \ {o} : fd'[q] = fd[q]
    BY DEF FdTyped
  <1>2. ASSUME NEW m \in Numbers, m # fd[o], NEW q \in Objects
        PROVE  fd'[q] = m <=> fd[q] = m
    BY <1>1, <1>2, NoneAssumption
  <1>3. ASSUME OnePlace(fd[o]), NEW q \in Objects, fd[o] # None
        PROVE  fd'[q] # fd[o]
    BY <1>1, <1>3 DEF OnePlace
  <1> QED  BY <1>1, <1>2, <1>3

LEMMA CloseInv ==
  ASSUME OwnerInv, NEW o \in Objects, Close(o)
  PROVE  OwnerInv'
  <1>0. PICK n \in Numbers : n = fd[o]
    BY DEF Close, Whole, OwnerInv, FdTyped
  <1>1. /\ n # None /\ halves[o] = 0 /\ fd' = [fd EXCEPT ![o] = None]
        /\ \/ closes' = [closes EXCEPT ![n] = @ + 1] /\ lost' = lost
           \/ lost' = lost \cup {n} /\ closes' = closes
        /\ UNCHANGED <<halves, open, connecting, given, wild, stolen>>
    BY <1>0, NoneAssumption DEF Close, Whole
  <1>2. FdTyped /\ n \in Numbers
        /\ \A m \in Followed : m \in Numbers /\ OnePlace(m) /\ closes[m] \in Nat
    BY <1>0, <1>1 DEF OwnerInv, Followed, FdTyped
  <1>3. /\ fd' \in [Objects -> Numbers \cup {None}]
        /\ \A q \in Objects \ {o} : fd'[q] = fd[q]
        /\ \A m \in Numbers : m # n => \A q \in Objects : fd'[q] = m <=> fd[q] = m
        /\ n \in Followed => \A q \in Objects : fd'[q] # n
    BY <1>1, <1>2, <1>0, Emptied
  <1>4. FdTyped' /\ \A q \in Objects : halves'[q] > 0 => fd'[q] # None
    <2>1. closes' \in [Numbers -> Nat] /\ lost' \in SUBSET Numbers
      BY <1>1, <1>2 DEF FdTyped
    <2>2. \A q \in Objects : halves[q] > 0 => q # o
      BY <1>1
    <2> QED  BY <1>1, <1>2, <1>3, <2>1, <2>2 DEF FdTyped, OwnerInv
  <1>5. ASSUME NEW m \in Followed PROVE OnePlace(m)'
    <2>1. CASE m = n
      <3>1. /\ InObject(n) /\ ~InCall(n) /\ closes[n] = 0 /\ n \notin given /\ n \notin lost
            /\ n \in open
        BY <1>0, <1>2, <2>1 DEF OnePlace, InObject, Queued, Gone
      <3>2. ~InObject(n)' /\ ~InCall(n)'
        BY <1>1, <1>3, <2>1, <3>1 DEF InObject, InCall
      <3>3. \/ closes'[n] = 1 /\ n \notin lost'
            \/ closes'[n] = 0 /\ n \in lost'
        BY <1>1, <1>2, <3>1 DEF FdTyped
      <3>4. closes'[n] <= 1 /\ (Queued(n)' <=> n \notin lost') /\ (Gone(n)' <=> n \in lost')
        BY <1>1, <3>1, <3>3 DEF Queued, Gone
      <3>5. \A c, d \in connecting' : c[1] = n /\ d[1] = n => c = d
        BY <1>1, <1>2, <2>1 DEF OnePlace
      <3> QED  BY <1>1, <1>3, <2>1, <3>1, <3>2, <3>4, <3>5 DEF OnePlace
    <2>2. CASE m # n
      BY <1>1, <1>2, <1>3, <2>2, Unconcerned DEF FdTyped
    <2> QED  BY <2>1, <2>2
  <1> QED  BY <1>1, <1>4, <1>5, Combined

LEMMA DestroyInv ==
  ASSUME OwnerInv, NEW t, NEW o \in Objects, halves[o] <= 1, fd[o] # None,
         DoClose(t, fd[o]), fd' = [fd EXCEPT ![o] = None],
         halves' \in [Objects -> 0 .. 2], halves'[o] = 0,
         \A q \in Objects \ {o} : halves'[q] = halves[q],
         UNCHANGED <<connecting, given, lost, wild, stolen>>
  PROVE  OwnerInv'
  <1>0. PICK n \in Numbers : n = fd[o]
    BY DEF OwnerInv, FdTyped
  <1>2. FdTyped /\ n \in Numbers
        /\ \A m \in Followed : m \in Numbers /\ OnePlace(m) /\ closes[m] \in Nat
    BY <1>0 DEF OwnerInv, Followed, FdTyped
  <1>3. /\ fd' \in [Objects -> Numbers \cup {None}]
        /\ \A q \in Objects \ {o} : fd'[q] = fd[q]
        /\ \A m \in Numbers : m # n => \A q \in Objects : fd'[q] = m <=> fd[q] = m
        /\ n \in Followed => \A q \in Objects : fd'[q] # n
    BY <1>2, <1>0, Emptied
  <1>4. FdTyped' /\ \A q \in Objects : halves'[q] > 0 => fd'[q] # None
    <2>1. open' \in SUBSET Numbers /\ closes' \in [Numbers -> Nat]
      BY <1>0, <1>2, NoneAssumption, DoCloseTypes
    <2>2. \A q \in Objects : halves'[q] > 0 => q # o /\ halves[q] > 0
      BY <1>2
    <2> QED  BY <1>2, <1>3, <2>1, <2>2 DEF FdTyped, OwnerInv
  <1>5. ASSUME NEW m \in Followed PROVE OnePlace(m)'
    <2>1. CASE m = n
      <3>1. InObject(n) /\ ~InCall(n)
        BY <1>0, <1>2, <2>1 DEF OnePlace, InObject
      <3>2. \/ closes'[n] = closes[n] + 1 /\ open' = open
            \/ closes' = closes /\ open' = open \ {n}
        BY <1>0, <1>2, NoneAssumption, DoCloseTypes
      <3> QED  BY <1>2, <1>3, <2>1, <3>1, <3>2, GivenUp DEF InCall
    <2>2. CASE m # n
      <3>1. closes'[m] = closes[m] /\ (m \in open' <=> m \in open)
        BY <1>0, <1>2, <2>2, DoCloseTypes
      <3> QED  BY <1>2, <1>3, <2>2, <3>1, Unconcerned
    <2> QED  BY <2>1, <2>2
  <1> QED  BY <1>4, <1>5, Combined

LEMMA ReleaseInv ==
  ASSUME OwnerInv, NEW o \in Objects, Release(o)
  PROVE  OwnerInv'
  <1>0. PICK n \in Numbers : n = fd[o]
    BY DEF Release, Whole, OwnerInv, FdTyped
  <1>1. /\ n # None /\ halves[o] = 0 /\ fd' = [fd EXCEPT ![o] = None]
        /\ given' = given \cup {n}
        /\ UNCHANGED <<halves, open, connecting, closes, lost, wild, stolen>>
    BY <1>0, NoneAssumption DEF Release, Whole
  <1>2. FdTyped /\ n \in Numbers /\ \A m \in Followed : m \in Numbers /\ OnePlace(m)
    BY <1>0, <1>1 DEF OwnerInv, Followed, FdTyped
  <1>3. /\ fd' \in [Objects -> Numbers \cup {None}]
        /\ \A q \in Objects \ {o} : fd'[q] = fd[q]
        /\ \A m \in Numbers : m # n => \A q \in Objects : fd'[q] = m <=> fd[q] = m
        /\ n \in Followed => \A q \in Objects : fd'[q] # n
    BY <1>1, <1>2, <1>0, Emptied
  <1>4. FdTyped' /\ \A q \in Objects : halves'[q] > 0 => fd'[q] # None
    <2>2. \A q \in Objects : halves[q] > 0 => q # o
      BY <1>1
    <2> QED  BY <1>1, <1>2, <1>3, <2>2 DEF FdTyped, OwnerInv
  <1>5. ASSUME NEW m \in Followed PROVE OnePlace(m)'
    <2>1. CASE m = n
      <3>1. /\ InObject(n) /\ ~InCall(n) /\ ~Queued(n) /\ closes[n] <= 1 /\ n \notin lost
            /\ n \in open /\ \A c, d \in connecting : c[1] = n /\ d[1] = n => c = d
        BY <1>0, <1>2, <2>1 DEF OnePlace, InObject, Gone
      <3>2. ~InObject(n)' /\ ~InCall(n)' /\ ~Queued(n)' /\ Gone(n)'
        BY <1>1, <1>3, <2>1, <3>1 DEF InObject, InCall, Queued, Gone
      <3> QED  BY <1>1, <1>3, <2>1, <3>1, <3>2 DEF OnePlace
    <2>2. CASE m # n
      BY <1>1, <1>2, <1>3, <2>2, Unconcerned
    <2> QED  BY <2>1, <2>2
  <1> QED  BY <1>1, <1>4, <1>5, Combined

-----------------------------------------------------------------------------
(* A number that was not open is in an awaitable from now on.              *)
LEMMA BegunInv ==
  ASSUME OwnerInv, NEW n \in Numbers \ open, NEW k \in Calls,
         open' = open \cup {n}, connecting' = connecting \cup {<<n, k>>},
         UNCHANGED <<fd, halves, closes, given, lost, wild, stolen>>
  PROVE  OwnerInv'
  <1>1. FdTyped /\ \A m \in Followed : m \in Numbers /\ OnePlace(m)
    BY DEF OwnerInv, Followed
  <1>2. FdTyped'
    BY <1>1 DEF FdTyped
  <1>3. ASSUME NEW m \in Followed PROVE OnePlace(m)'
    <2>1. CASE m = n
      <3>1. /\ ~InObject(n) /\ ~InCall(n) /\ ~Queued(n) /\ ~Gone(n) /\ closes[n] <= 1
            /\ \A q \in Objects : fd[q] # n
        BY <1>1, <2>1 DEF OnePlace, InObject
      <3>2. \A c \in connecting' : c[1] = n <=> c = <<n, k>>
        BY <3>1 DEF InCall
      <3>3. ~InObject(n)' /\ InCall(n)' /\ ~Queued(n)' /\ ~Gone(n)' /\ n \notin given'
        BY <3>1, <3>2 DEF InObject, InCall, Queued, Gone
      <3> QED  BY <2>1, <3>1, <3>2, <3>3 DEF OnePlace
    <2>2. CASE m # n
      <3>1. \A c : c[1] = m => (c \in connecting' <=> c \in connecting)
        BY <2>2
      <3> QED  BY <1>1, <2>2, <3>1, Unconcerned
    <2> QED  BY <2>1, <2>2
  <1>4. \A q \in Objects : halves'[q] > 0 => fd'[q] # None
    BY DEF OwnerInv
  <1> QED  BY <1>2, <1>3, <1>4, Combined

LEMMA OperationReturnsInv ==
  ASSUME OwnerInv, OperationReturns
  PROVE  OwnerInv'
  <1>1. PICK n \in Numbers \ open :
          open' = open \cup {n} /\ connecting' = connecting \cup {<<n, "result">>}
    BY DEF OperationReturns, Free
  <1> QED  BY <1>1, BegunInv DEF OperationReturns, Calls

LEMMA BeginStreamConnectInv ==
  ASSUME OwnerInv, BeginStreamConnect
  PROVE  OwnerInv'
  <1>1. PICK n \in Numbers \ open :
          open' = open \cup {n} /\ connecting' = connecting \cup {<<n, "stream">>}
    BY DEF BeginStreamConnect, Free
  <1> QED  BY <1>1, BegunInv DEF BeginStreamConnect, Calls

LEMMA BeginSocketConnectInv ==
  ASSUME OwnerInv, NEW o \in Objects, BeginSocketConnect(o)
  PROVE  OwnerInv'
  <1>0. PICK n \in Numbers : n = fd[o]
    BY DEF BeginSocketConnect, Whole, OwnerInv, FdTyped
  <1> DEFINE underway == <<n, "socket">>
  <1>1. /\ n # None /\ halves[o] = 0 /\ fd' = [fd EXCEPT ![o] = None]
        /\ connecting' = connecting \cup {underway}
        /\ UNCHANGED <<halves, open, closes, given, lost, wild, stolen>>
    BY <1>0, NoneAssumption DEF BeginSocketConnect, Whole
  <1>2. FdTyped /\ n \in Numbers /\ \A m \in Followed : m \in Numbers /\ OnePlace(m)
    BY <1>0, <1>1 DEF OwnerInv, Followed, FdTyped
  <1>3. /\ fd' \in [Objects -> Numbers \cup {None}]
        /\ \A q \in Objects \ {o} : fd'[q] = fd[q]
        /\ \A m \in Numbers : m # n => \A q \in Objects : fd'[q] = m <=> fd[q] = m
        /\ n \in Followed => \A q \in Objects : fd'[q] # n
    BY <1>1, <1>2, <1>0, Emptied
  <1>4. FdTyped' /\ \A q \in Objects : halves'[q] > 0 => fd'[q] # None
    <2>1. connecting' \in SUBSET (Numbers \X Calls)
      BY <1>1, <1>2 DEF FdTyped, Calls
    <2>2. \A q \in Objects : halves[q] > 0 => q # o
      BY <1>1
    <2> QED  BY <1>1, <1>2, <1>3, <2>1, <2>2 DEF FdTyped, OwnerInv
  <1>5. ASSUME NEW m \in Followed PROVE OnePlace(m)'
    <2>1. CASE m = n
      <3>1. /\ InObject(n) /\ ~InCall(n) /\ ~Queued(n) /\ ~Gone(n) /\ closes[n] <= 1
            /\ n \in open
        BY <1>0, <1>2, <2>1 DEF OnePlace, InObject
      <3>2. \A c \in connecting' : c[1] = n <=> c = underway
        BY <1>1, <3>1 DEF InCall
      <3>3. underway \in connecting' /\ underway[1] = n
        BY <1>1
      <3>4. ~InObject(n)' /\ InCall(n)' /\ ~Queued(n)' /\ ~Gone(n)' /\ n \notin given'
        <4>1. ~InObject(n)' /\ ~Queued(n)' /\ ~Gone(n)' /\ n \notin given'
          BY <1>1, <1>3, <2>1, <3>1 DEF InObject, Queued, Gone
        <4> HIDE DEF underway
        <4> QED  BY <3>3, <4>1 DEF InCall
      <3> HIDE DEF underway
      <3> QED  BY <1>1, <1>3, <2>1, <3>1, <3>2, <3>4 DEF OnePlace
    <2>2. CASE m # n
      <3>1. \A c : c[1] = m => (c \in connecting' <=> c \in connecting)
        BY <1>1, <2>2
      <3> QED  BY <1>1, <1>2, <1>3, <2>2, <3>1, Unconcerned
    <2> QED  BY <2>1, <2>2
  <1> QED  BY <1>1, <1>4, <1>5, Combined

LEMMA ConnectedInv ==
  ASSUME OwnerInv, NEW o \in Objects, NEW c \in connecting, Connected(c, o)
  PROVE  OwnerInv'
  <1>0. PICK n \in Numbers : n = c[1]
    BY DEF OwnerInv, FdTyped
  <1>1. /\ fd[o] = None /\ halves[o] = 0 /\ fd' = [fd EXCEPT ![o] = n]
        /\ connecting' = connecting \ {c}
        /\ UNCHANGED <<halves, open, closes, given, lost, wild, stolen>>
    BY <1>0 DEF Connected, Unused
  <1>2. FdTyped /\ n # None /\ \A m \in Followed : m \in Numbers /\ OnePlace(m)
    BY NoneAssumption DEF OwnerInv, Followed
  <1>3. FdTyped' /\ \A q \in Objects : halves'[q] > 0 => fd'[q] # None
    BY <1>1, <1>2 DEF FdTyped, OwnerInv
  <1>4. ASSUME NEW q \in Objects PROVE fd'[q] = IF q = o THEN n ELSE fd[q]
    BY <1>1, <1>2 DEF FdTyped
  <1>5. ASSUME NEW m \in Followed PROVE OnePlace(m)'
    <2>1. CASE m = n
      <3>1. InCall(n)
        BY <1>0 DEF InCall
      <3>2. /\ ~InObject(n) /\ ~Queued(n) /\ ~Gone(n) /\ closes[n] <= 1 /\ n \in open
            /\ n \notin given /\ \A d \in connecting : d[1] = n => d = c
        BY <1>0, <1>2, <2>1, <3>1 DEF OnePlace, Gone
      <3>3. InObject(n)' /\ ~InCall(n)' /\ ~Queued(n)' /\ ~Gone(n)'
        BY <1>1, <1>4, <3>2 DEF InObject, InCall, Queued, Gone
      <3>4. \A q \in Objects : fd'[q] = n => q = o
        BY <1>4, <3>2 DEF InObject
      <3> QED  BY <1>1, <2>1, <3>2, <3>3, <3>4 DEF OnePlace
    <2>2. CASE m # n
      <3>1. \A d : d[1] = m => (d \in connecting' <=> d \in connecting)
        BY <1>0, <1>1, <2>2
      <3>2. \A q \in Objects : fd'[q] = m <=> fd[q] = m
        BY <1>1, <1>2, <1>4, <2>2, NoneAssumption
      <3> QED  BY <1>1, <1>2, <3>1, <3>2, Unconcerned
    <2> QED  BY <2>1, <2>2
  <1> QED  BY <1>1, <1>3, <1>5, Combined

LEMMA ConnectFailsInv ==
  ASSUME OwnerInv, NEW t, NEW c \in connecting, ConnectFails(t, c)
  PROVE  OwnerInv'
  <1>0. PICK n \in Numbers : n = c[1]
    BY DEF OwnerInv, FdTyped
  <1>1. /\ connecting' = connecting \ {c} /\ UNCHANGED <<fd, halves, given, lost, wild, stolen>>
        /\ ((open' = open \ {n} /\ closes' = closes) \/ DoClose(t, n))
    BY <1>0 DEF ConnectFails
  <1>2. FdTyped /\ n # None
        /\ \A m \in Followed : m \in Numbers /\ OnePlace(m) /\ closes[m] \in Nat
    BY NoneAssumption DEF OwnerInv, Followed, FdTyped
  <1>3. /\ open' \in SUBSET Numbers /\ closes' \in [Numbers -> Nat]
        /\ \/ closes'[n] = closes[n] + 1 /\ open' = open
           \/ closes' = closes /\ open' = open \ {n}
        /\ \A m \in Numbers \ {n} : closes'[m] = closes[m] /\ (m \in open' <=> m \in open)
    <2>1. CASE open' = open \ {n} /\ closes' = closes
      BY <1>2, <2>1 DEF FdTyped
    <2>2. CASE DoClose(t, n)
      BY <1>2, <2>2, DoCloseTypes
    <2> QED  BY <1>1, <2>1, <2>2
  <1>4. FdTyped' /\ \A q \in Objects : halves'[q] > 0 => fd'[q] # None
    BY <1>1, <1>2, <1>3 DEF FdTyped, OwnerInv
  <1>5. ASSUME NEW m \in Followed PROVE OnePlace(m)'
    <2>1. CASE m = n
      <3>1. InCall(n)
        BY <1>0 DEF InCall
      <3>2. ~InObject(n) /\ \A d \in connecting : d[1] = n => d = c
        BY <1>0, <1>2, <2>1, <3>1 DEF OnePlace
      <3>3. (\A q \in Objects : fd'[q] # n) /\ (\A d \in connecting' : d[1] # n)
        BY <1>1, <3>2 DEF InObject
      <3> QED  BY <1>1, <1>2, <1>3, <2>1, <3>1, <3>3, GivenUp
    <2>2. CASE m # n
      <3>1. \A d : d[1] = m => (d \in connecting' <=> d \in connecting)
        BY <1>0, <1>1, <2>2
      <3> QED  BY <1>1, <1>2, <1>3, <2>2, <3>1, Unconcerned
    <2> QED  BY <2>1, <2>2
  <1> QED  BY <1>1, <1>4, <1>5, Combined

LEMMA ConnectWithoutSqeInv ==
  ASSUME OwnerInv, ConnectWithoutSqe
  PROVE  OwnerInv'
  <1>1. PICK n \in open : open' = open \ {n} /\ wild' = wild \cup {n}
    BY DEF ConnectWithoutSqe
  <1>2. UNCHANGED <<fd, halves, connecting, closes, given, lost, stolen>>
    BY DEF ConnectWithoutSqe
  <1>3. FdTyped' /\ \A q \in Objects : halves'[q] > 0 => fd'[q] # None
    BY <1>1, <1>2 DEF OwnerInv, FdTyped
  <1>4. ASSUME NEW m \in Followed' PROVE OnePlace(m)'
    <2>1. m \in Followed /\ m # n
      BY <1>1, <1>2 DEF Followed
    <2> QED  BY <1>1, <1>2, <2>1, Unconcerned DEF OwnerInv
  <1> QED  BY <1>3, <1>4 DEF OwnerInv

(* Whoever has the number that is closed again is followed no longer.      *)
LEMMA CloseAgainInv ==
  ASSUME OwnerInv, NEW t, CloseAgain(t)
  PROVE  OwnerInv'
  <1>1. PICK n : /\ open' = open \ {n}
                 /\ stolen' = IF n \in open THEN stolen \cup {n} ELSE stolen
    BY DEF CloseAgain, CallClose
  <1>2. UNCHANGED <<fd, halves, connecting, closes, given, lost, wild>>
    BY DEF CloseAgain
  <1>3. FdTyped' /\ \A q \in Objects : halves'[q] > 0 => fd'[q] # None
    BY <1>1, <1>2 DEF OwnerInv, FdTyped
  <1>4. ASSUME NEW m \in Followed' PROVE OnePlace(m)'
    <2>1. m \in Followed /\ (n \in open => m # n)
      BY <1>1, <1>2 DEF Followed
    <2>2. m \in open' <=> m \in open
      BY <1>1, <2>1
    <2> QED  BY <1>2, <2>1, <2>2, Unconcerned DEF OwnerInv
  <1> QED  BY <1>3, <1>4 DEF OwnerInv

-----------------------------------------------------------------------------
LEMMA IntoSplitInv ==
  ASSUME OwnerInv, NEW o \in Objects, IntoSplit(o)
  PROVE  OwnerInv'
  <1>1. UNCHANGED <<fd, open, connecting, closes, given, lost, wild, stolen>>
    BY DEF IntoSplit
  <1>2. FdTyped' /\ \A q \in Objects : halves'[q] > 0 => fd'[q] # None
    BY DEF OwnerInv, FdTyped, IntoSplit, Whole
  <1>3. ASSUME NEW m \in Followed PROVE OnePlace(m)'
    BY <1>1, Unconcerned DEF OwnerInv
  <1> QED  BY <1>1, <1>2, <1>3, Combined

LEMMA DropHalfInv ==
  ASSUME OwnerInv, NEW t, NEW o \in Objects, DropHalf(t, o)
  PROVE  OwnerInv'
  <1>1. /\ halves[o] > 0 /\ halves' = [halves EXCEPT ![o] = @ - 1] /\ fd[o] # None
        /\ UNCHANGED <<connecting, given, lost, wild, stolen>> /\ halves \in [Objects -> 0 .. 2]
    BY DEF DropHalf, OwnerInv, FdTyped
  <1>2. /\ halves' \in [Objects -> 0 .. 2] /\ halves'[o] = halves[o] - 1
        /\ \A q \in Objects \ {o} : halves'[q] = halves[q]
    BY <1>1
  <1>3. CASE halves[o] = 1
    BY <1>1, <1>2, <1>3, DestroyInv DEF DropHalf
  <1>4. CASE halves[o] # 1
    <2>1. UNCHANGED <<fd, open, closes>>
      BY <1>4 DEF DropHalf
    <2>2. FdTyped' /\ \A q \in Objects : halves'[q] > 0 => fd'[q] # None
      BY <1>1, <1>2, <2>1 DEF OwnerInv, FdTyped
    <2>3. ASSUME NEW m \in Followed PROVE OnePlace(m)'
      BY <1>1, <2>1, Unconcerned DEF OwnerInv
    <2> QED  BY <1>1, <2>2, <2>3, Combined
  <1> QED  BY <1>3, <1>4

LEMMA ReuniteInv ==
  ASSUME OwnerInv, NEW o \in Objects, NEW p \in Objects, Reunite(o, p)
  PROVE  OwnerInv'
  <1>1. /\ halves[o] = 2 /\ ((fd[p] = None /\ halves[p] = 0) \/ p = o)
        /\ halves' = [halves EXCEPT ![o] = 0]
        /\ fd' = [fd EXCEPT ![o] = None, ![p] = fd[o]]
        /\ UNCHANGED <<open, connecting, closes, given, lost, wild, stolen>>
    BY DEF Reunite, Unused
  <1>2. FdTyped /\ \A m \in Followed : m \in Numbers /\ OnePlace(m)
    BY DEF OwnerInv, Followed
  <1>3. fd[o] \in Numbers /\ fd[o] # None
    BY <1>1 DEF OwnerInv, FdTyped
  <1>4. ASSUME NEW q \in Objects
        PROVE  /\ fd'[q] = IF q = p THEN fd[o] ELSE IF q = o THEN None ELSE fd[q]
               /\ halves'[q] = IF q = o THEN 0 ELSE halves[q]
    BY <1>1, <1>2 DEF FdTyped
  <1>5. FdTyped'
    BY <1>1, <1>2, <1>3 DEF FdTyped
  <1>6. \A q \in Objects : halves'[q] > 0 => fd'[q] # None
    BY <1>3, <1>4 DEF OwnerInv
  <1>7. ASSUME NEW m \in Followed PROVE OnePlace(m)'
    <2>0. m # None
      BY <1>2, NoneAssumption
    <2>1. CASE m = fd[o]
      <3>1. \A q \in Objects : fd[q] = m => q = o
        BY <1>2, <2>1 DEF OnePlace
      <3>2. \A q \in Objects : fd'[q] = m <=> q = p
        BY <1>4, <2>0, <2>1, <3>1
      <3> QED  BY <1>1, <1>2, <2>1, <3>2, PassedOn
    <2>2. CASE m # fd[o]
      <3>1. \A q \in Objects : fd'[q] = m <=> fd[q] = m
        BY <1>1, <1>4, <2>0, <2>2
      <3> QED  BY <1>1, <1>2, <3>1, Unconcerned
    <2> QED  BY <2>1, <2>2
  <1> QED  BY <1>1, <1>5, <1>6, <1>7, Combined

LEMMA KernelClosesInv ==
  ASSUME OwnerInv, NEW n \in Numbers, KernelCloses(n)
  PROVE  OwnerInv'
  <1>1. /\ closes[n] > 0 /\ closes' = [closes EXCEPT ![n] = @ - 1] /\ open' = open \ {n}
        /\ UNCHANGED <<fd, halves, connecting, given, lost, wild, stolen>>
    BY DEF KernelCloses
  <1>2. FdTyped /\ \A m \in Followed : m \in Numbers /\ OnePlace(m) /\ closes[m] \in Nat
    BY DEF OwnerInv, Followed, FdTyped
  <1>3. FdTyped' /\ \A q \in Objects : halves'[q] > 0 => fd'[q] # None
    BY <1>1, <1>2 DEF FdTyped, OwnerInv
  <1>4. ASSUME NEW m \in Followed PROVE OnePlace(m)'
    <2>1. CASE m = n
      <3>1. /\ closes[n] = 1 /\ ~InObject(n) /\ ~InCall(n) /\ ~Gone(n)
            /\ \A q, r \in Objects : fd[q] = n /\ fd[r] = n => q = r
            /\ \A c, d \in connecting : c[1] = n /\ d[1] = n => c = d
        BY <1>1, <1>2, <2>1 DEF OnePlace, Queued
      <3>2. closes'[n] = 0 /\ n \notin open'
        BY <1>1, <1>2, <3>1 DEF FdTyped
      <3>3. ~InObject(n)' /\ ~InCall(n)' /\ ~Gone(n)' /\ ~Queued(n)' /\ n \notin given'
        BY <1>1, <3>1, <3>2 DEF InObject, InCall, Gone, Queued
      <3> QED  BY <1>1, <2>1, <3>1, <3>2, <3>3 DEF OnePlace
    <2>2. CASE m # n
      <3>1. closes'[m] = closes[m] /\ (m \in open' <=> m \in open)
        BY <1>1, <1>2, <2>2 DEF FdTyped
      <3> QED  BY <1>1, <1>2, <3>1, Unconcerned
    <2> QED  BY <2>1, <2>2
  <1> QED  BY <1>1, <1>3, <1>4, Combined

-----------------------------------------------------------------------------
LEMMA OwnerInit == DescriptorsInit => OwnerInv
  <1> SUFFICES ASSUME DescriptorsInit PROVE OwnerInv
    OBVIOUS
  <1>1. /\ fd \in [Objects -> Numbers \cup {None}] /\ halves \in [Objects -> 0 .. 2]
        /\ closes \in [Numbers -> Nat] /\ \A o \in Objects : fd[o] = None /\ halves[o] = 0
    BY DEF DescriptorsInit
  <1>2. FdTyped
    BY <1>1 DEF DescriptorsInit, FdTyped
  <1>3. ASSUME NEW n \in Followed PROVE OnePlace(n)
    <2>0. n \in Numbers
      BY DEF Followed
    <2>1. ~InObject(n) /\ ~InCall(n) /\ ~Queued(n) /\ ~Gone(n) /\ closes[n] = 0
      BY <1>1, <2>0, NoneAssumption DEF DescriptorsInit, InObject, InCall, Queued, Gone
    <2> QED  BY <1>1, <2>0, <2>1, NoneAssumption DEF DescriptorsInit, OnePlace
  <1> QED  BY <1>1, <1>2, <1>3 DEF OwnerInv

LEMMA OwnerNext == OwnerInv /\ [DescriptorsNext]_fdVars => OwnerInv'
  <1> SUFFICES ASSUME OwnerInv, [DescriptorsNext]_fdVars PROVE OwnerInv'
    OBVIOUS
  <1>1. CASE UNCHANGED fdVars
    <2>1. /\ fd' = fd /\ halves' = halves /\ open' = open /\ connecting' = connecting
          /\ closes' = closes /\ given' = given /\ lost' = lost /\ wild' = wild
          /\ stolen' = stolen
      BY <1>1 DEF fdVars
    <2>2. FdTyped' /\ \A q \in Objects : halves'[q] > 0 => fd'[q] # None
      BY <2>1 DEF OwnerInv, FdTyped
    <2>3. ASSUME NEW m \in Followed PROVE OnePlace(m)'
      BY <2>1, Unconcerned DEF OwnerInv
    <2> QED  BY <2>1, <2>2, <2>3, Combined
  <1>2. ASSUME NEW t, NEW o \in Objects, Destroy(t, o) PROVE OwnerInv'
    <2>1. /\ fd[o] # None /\ halves[o] = 0 /\ DoClose(t, fd[o]) /\ fd' = [fd EXCEPT ![o] = None]
          /\ UNCHANGED <<halves, connecting, given, lost, wild, stolen>>
          /\ halves \in [Objects -> 0 .. 2]
      BY <1>2 DEF Destroy, Whole, OwnerInv, FdTyped
    <2>2. halves[o] <= 1 /\ halves' \in [Objects -> 0 .. 2] /\ halves'[o] = 0
      BY <2>1
    <2> QED  BY <1>2, <2>1, <2>2, DestroyInv
  <1>3. CASE DescriptorsNext
    BY <1>2, <1>3, CreateInv, CloseInv, ReleaseInv, BeginSocketConnectInv, IntoSplitInv,
       DropHalfInv, AssignInv, ReuniteInv, ConnectedInv, ConnectFailsInv, KernelClosesInv,
       BindFailsInv, OperationReturnsInv, BeginStreamConnectInv, ConnectWithoutSqeInv,
       CloseAgainInv
       DEF DescriptorsNext
  <1> QED  BY <1>1, <1>3

LEMMA OwnersCounted == OwnerInv => OneOwner
  <1> SUFFICES ASSUME OwnerInv, NEW n \in Followed
               PROVE  Owners(n) = (IF n \in open THEN 1 ELSE 0)
    BY DEF OneOwner, Followed
  <1> DEFINE O == {o \in Objects : fd[o] = n}
             C == {c \in connecting : c[1] = n}
  <1>0. OnePlace(n) /\ closes[n] \in Nat /\ closes[n] <= 1
    BY DEF OwnerInv, FdTyped, OnePlace, Followed
  <1>1. Cardinality(O) = IF InObject(n) THEN 1 ELSE 0
    <2>1. CASE InObject(n)
      <3>1. PICK o \in Objects : fd[o] = n
        BY <2>1 DEF InObject
      <3>2. O = {o}
        BY <1>0, <3>1 DEF OnePlace
      <3> QED  BY <2>1, <3>2, FS_Singleton
    <2>2. CASE ~InObject(n)
      <3>1. O = {}
        BY <2>2 DEF InObject
      <3> QED  BY <2>2, <3>1, FS_EmptySet
    <2> QED  BY <2>1, <2>2
  <1>2. Cardinality(C) = IF InCall(n) THEN 1 ELSE 0
    <2>1. CASE InCall(n)
      <3>1. PICK c \in connecting : c[1] = n
        BY <2>1 DEF InCall
      <3>2. C = {c}
        BY <1>0, <3>1 DEF OnePlace
      <3> QED  BY <2>1, <3>2, FS_Singleton
    <2>2. CASE ~InCall(n)
      <3>1. C = {}
        BY <2>2 DEF InCall
      <3> QED  BY <2>2, <3>1, FS_EmptySet
    <2> QED  BY <2>1, <2>2
  <1>3. /\ Cardinality({n} \cap given) = IF n \in given THEN 1 ELSE 0
        /\ Cardinality({n} \cap lost) = IF n \in lost THEN 1 ELSE 0
    <2>1. ASSUME NEW S PROVE Cardinality({n} \cap S) = IF n \in S THEN 1 ELSE 0
      <3>1. {n} \cap S = IF n \in S THEN {n} ELSE {}
        OBVIOUS
      <3> QED  BY <3>1, FS_Singleton, FS_EmptySet
    <2> QED  BY <2>1
  <1>4. closes[n] = IF Queued(n) THEN 1 ELSE 0
    BY <1>0 DEF Queued
  <1>5. Owners(n) = Cardinality(O) + Cardinality(C) + closes[n]
                      + Cardinality({n} \cap given) + Cardinality({n} \cap lost)
    BY DEF Owners
  <1> HIDE DEF O, C
  <1> QED  BY <1>0, <1>1, <1>2, <1>3, <1>4, <1>5 DEF OnePlace, Gone

(* An open descriptor has one owner, who will close it, and a closed one   *)
(* has none, over every sequence of moves, splits, connects and closes,    *)
(* failing ones too, by any number of threads, for any number of objects   *)
(* and descriptors, except for a number that was closed by a connect       *)
(* without an sqe, or again by do_close() when somebody else had it        *)
(* (io.hpp:47-55, 102-120).                                                *)
THEOREM DescriptorsOwned == DescriptorsSpec => []OneOwner
  <1>1. OwnerInv /\ [DescriptorsNext]_fdVars => OwnerInv'
    BY OwnerNext
  <1> QED  BY <1>1, OwnerInit, OwnersCounted, PTL DEF DescriptorsSpec

-----------------------------------------------------------------------------
Occurs(v, s) == \E i \in DOMAIN s : s[i] = v
Once(v, s)   == \A i, j \in DOMAIN s : s[i] = v /\ s[j] = v => i = j

(* What will resume c: an operation that is asked for in the submission    *)
(* queue, in the kernel or done, or a sleep.                               *)
Asked(c)     == Occurs(Request("operation", c), ring.sq)
Flies(c)     == c \in ring.flying
Done(c)      == Occurs(c, ring.cq)
Sleeps(c)    == c \in sleeping
Cancelled(c) == Occurs(Request("cancel", c), ring.sq)

Requested == [do : {"operation", "cancel", "nop"}, of : Coroutines]
Rings == [sq : Seq(Requested), tick : Nat, entered : BOOLEAN, flying : SUBSET Coroutines,
          cq : Seq(Coroutines)]

DriverTyped ==
  /\ ring \in Rings
  /\ waiting \in SUBSET Coroutines /\ armed \in SUBSET Coroutines
  /\ sleeping \in SUBSET Coroutines /\ dropped \in SUBSET Coroutines
  /\ waker \in {"on", "done"} /\ phase \in {"run", "expire"}

(* A suspended coroutine has one of the four, one that runs has none, and  *)
(* only the Callback of an operation that has not ended is in the timer or *)
(* in a cancel request.                                                    *)
OneUse(c) ==
  /\ c \in waiting <=> Asked(c) \/ Flies(c) \/ Done(c) \/ Sleeps(c)
  /\ Asked(c) => ~Flies(c) /\ ~Done(c) /\ ~Sleeps(c)
  /\ Flies(c) => ~Done(c) /\ ~Sleeps(c)
  /\ Done(c) => ~Sleeps(c)
  /\ Once(Request("operation", c), ring.sq) /\ Once(c, ring.cq)
  /\ c \in armed \/ Cancelled(c) => c \in waiting /\ c \notin sleeping

(* The kernel has taken every cancel request before the worker reaps again,*)
(* and so before the coroutine that it names goes on.                      *)
Drained ==
  /\ phase = "run" /\ ~ring.entered => \A c \in Coroutines : ~Cancelled(c)
  /\ ring.entered => ring.sq # <<>>

UseInv == DriverTyped /\ Drained /\ \A c \in Coroutines : OneUse(c)

LEMMA AppendOccurs ==
  ASSUME NEW S, NEW s \in Seq(S), NEW q \in S, NEW v
  PROVE  /\ Append(s, q) \in Seq(S)
         /\ Occurs(v, Append(s, q)) <=> Occurs(v, s) \/ q = v
         /\ Once(v, s) /\ (q = v => ~Occurs(v, s)) => Once(v, Append(s, q))
  <1> DEFINE t == Append(s, q)
  <1>1. /\ t \in Seq(S) /\ Len(s) \in Nat /\ DOMAIN s = 1 .. Len(s)
        /\ DOMAIN t = 1 .. Len(s) + 1 /\ t[Len(s) + 1] = q
        /\ \A i \in 1 .. Len(s) : t[i] = s[i]
    OBVIOUS
  <1> HIDE DEF t
  <1>2. \A i \in DOMAIN t : i \in DOMAIN s \/ i = Len(s) + 1
    BY <1>1
  <1>3. DOMAIN s \subseteq DOMAIN t /\ Len(s) + 1 \in DOMAIN t
    BY <1>1
  <1>4. Occurs(v, t) <=> Occurs(v, s) \/ q = v
    BY <1>1, <1>2, <1>3 DEF Occurs
  <1>5. Once(v, s) /\ (q = v => ~Occurs(v, s)) => Once(v, t)
    BY <1>1, <1>2 DEF Occurs, Once
  <1> QED  BY <1>1, <1>4, <1>5 DEF t

LEMMA TailOccurs ==
  ASSUME NEW S, NEW s \in Seq(S), s # <<>>, NEW v
  PROVE  /\ Tail(s) \in Seq(S) /\ Head(s) \in S
         /\ Occurs(v, s) <=> Head(s) = v \/ Occurs(v, Tail(s))
         /\ Once(v, s) => Once(v, Tail(s)) /\ (Head(s) = v => ~Occurs(v, Tail(s)))
  <1> DEFINE t == Tail(s)
  <1>1. /\ t \in Seq(S) /\ Len(s) \in Nat \ {0} /\ DOMAIN s = 1 .. Len(s)
        /\ DOMAIN t = 1 .. Len(s) - 1 /\ Head(s) = s[1] /\ s[1] \in S
        /\ \A i \in 1 .. Len(s) - 1 : t[i] = s[i + 1]
    OBVIOUS
  <1> HIDE DEF t
  <1>2. \A i \in DOMAIN t : i + 1 \in DOMAIN s /\ i + 1 # 1 /\ t[i] = s[i + 1]
    BY <1>1
  <1>3. \A i \in DOMAIN s : i = 1 \/ (i - 1 \in DOMAIN t /\ t[i - 1] = s[i])
    BY <1>1
  <1>4. Occurs(v, s) <=> Head(s) = v \/ Occurs(v, t)
    <2>1. ASSUME NEW i \in DOMAIN s, s[i] = v PROVE Head(s) = v \/ Occurs(v, t)
      BY <1>1, <1>3, <2>1 DEF Occurs
    <2>2. ASSUME Occurs(v, t) PROVE Occurs(v, s)
      BY <1>2, <2>2 DEF Occurs
    <2>3. 1 \in DOMAIN s
      BY <1>1
    <2> QED  BY <1>1, <2>1, <2>2, <2>3 DEF Occurs
  <1>5. ASSUME Once(v, s) PROVE Once(v, t) /\ (Head(s) = v => ~Occurs(v, t))
    <2>1. 1 \in DOMAIN s
      BY <1>1
    <2>2. ASSUME NEW i \in DOMAIN t, NEW j \in DOMAIN t, t[i] = v, t[j] = v PROVE i = j
      <3>1. i + 1 = j + 1
        BY <1>2, <1>5, <2>2 DEF Once
      <3> QED  BY <1>1, <3>1
    <2>3. Head(s) = v => ~Occurs(v, t)
      BY <1>1, <1>2, <1>5, <2>1 DEF Once, Occurs
    <2> QED  BY <2>2, <2>3 DEF Once
  <1> QED  BY <1>1, <1>4, <1>5 DEF t

LEMMA PutFacts ==
  ASSUME NEW r \in Rings, NEW q \in Requested
  PROVE  /\ Put(r, q) \in Rings /\ Put(r, q).sq = Append(r.sq, q)
         /\ Put(r, q).flying = r.flying /\ Put(r, q).cq = r.cq
         /\ Put(r, q).entered = r.entered
  BY AppendOccurs DEF Put, Rings

LEMMA SubmitFacts ==
  ASSUME NEW r \in Rings
  PROVE  /\ Submit(r) \in Rings /\ Submit(r).sq = r.sq
         /\ Submit(r).flying = r.flying /\ Submit(r).cq = r.cq
         /\ Submit(r).entered = (r.sq # <<>>)
  BY DEF Submit, Rings

LEMMA PendFacts ==
  ASSUME NEW r \in Rings
  PROVE  /\ PendSubmit(r) \in Rings /\ PendSubmit(r).sq = r.sq
         /\ PendSubmit(r).flying = r.flying /\ PendSubmit(r).cq = r.cq
         /\ PendSubmit(r).entered => r.entered \/ r.sq # <<>>
  <1>1. [r EXCEPT !.tick = @ + 1] \in Rings
    BY DEF Rings
  <1> QED  BY <1>1, SubmitFacts DEF PendSubmit, Rings

-----------------------------------------------------------------------------
(* The worker adds a request: what that changes for each coroutine.        *)
LEMMA Adds ==
  ASSUME ring \in Rings, ~ring.entered, NEW q \in Requested,
         ring' = Put(ring, q) \/ ring' = PendSubmit(Put(ring, q))
  PROVE  /\ ring' \in Rings /\ (ring'.entered => ring'.sq # <<>>)
         /\ \A c : /\ Asked(c)' <=> Asked(c) \/ q = Request("operation", c)
                   /\ Cancelled(c)' <=> Cancelled(c) \/ q = Request("cancel", c)
                   /\ Flies(c)' <=> Flies(c)
                   /\ Done(c)' <=> Done(c)
                   /\ Once(c, ring.cq) => Once(c, ring.cq)'
                   /\ Once(Request("operation", c), ring.sq)
                        /\ (q = Request("operation", c) => ~Asked(c))
                      => Once(Request("operation", c), ring.sq)'
  <1>1. /\ ring' \in Rings /\ ring'.sq = Append(ring.sq, q) /\ ring'.flying = ring.flying
        /\ ring'.cq = ring.cq /\ (ring'.entered => ring'.sq # <<>>)
    BY PutFacts, PendFacts
  <1>2. ring.sq \in Seq(Requested)
    BY DEF Rings
  <1>3. ASSUME NEW c
        PROVE  /\ Occurs(Request("operation", c), ring'.sq)
                    <=> Occurs(Request("operation", c), ring.sq) \/ q = Request("operation", c)
               /\ Occurs(Request("cancel", c), ring'.sq)
                    <=> Occurs(Request("cancel", c), ring.sq) \/ q = Request("cancel", c)
               /\ Once(Request("operation", c), ring.sq)
                    /\ (q = Request("operation", c)
                        => ~Occurs(Request("operation", c), ring.sq))
                  => Once(Request("operation", c), ring'.sq)
    BY <1>1, <1>2, AppendOccurs
  <1> QED  BY <1>1, <1>3 DEF Asked, Cancelled, Flies, Done

LEMMA RequestsDiffer ==
  ASSUME NEW c, NEW d, NEW what, NEW which
  PROVE  Request(what, c) = Request(which, d) <=> what = which /\ c = d
  BY DEF Request

(* c sees nothing of the step.                                             *)
LEMMA UseKept ==
  ASSUME NEW c, OneUse(c), Asked(c)' <=> Asked(c), Flies(c)' <=> Flies(c),
         Done(c)' <=> Done(c), Sleeps(c)' <=> Sleeps(c), Cancelled(c)' => Cancelled(c),
         c \in waiting' <=> c \in waiting, c \in armed' => c \in armed,
         Once(Request("operation", c), ring.sq) => Once(Request("operation", c), ring.sq)',
         Once(c, ring.cq) => Once(c, ring.cq)'
  PROVE  OneUse(c)'
  BY DEF OneUse, Sleeps

LEMMA RingKept ==
  ASSUME UNCHANGED ring, NEW c
  PROVE  /\ (Asked(c)' <=> Asked(c)) /\ (Flies(c)' <=> Flies(c)) /\ (Done(c)' <=> Done(c))
         /\ Cancelled(c)' <=> Cancelled(c)
         /\ Once(Request("operation", c), ring.sq)' <=> Once(Request("operation", c), ring.sq)
         /\ Once(c, ring.cq)' <=> Once(c, ring.cq)
  BY DEF Asked, Flies, Done, Cancelled

-----------------------------------------------------------------------------
LEMMA AwaitInv ==
  ASSUME UseInv, NEW c \in Coroutines, Runs(c),
         ring' = PendSubmit(Put(ring, Request("operation", c))),
         waiting' = waiting \cup {c}, armed' = armed \/ armed' = armed \cup {c},
         dropped' = dropped \ {c}, UNCHANGED <<sleeping, waker, phase>>
  PROVE  UseInv'
  <1> DEFINE q == Request("operation", c)
  <1>1. /\ q \in Requested /\ ring \in Rings /\ ~ring.entered /\ phase = "run"
        /\ c \notin waiting /\ \A d \in Coroutines : OneUse(d) /\ ~Cancelled(d)
    BY DEF UseInv, DriverTyped, Requested, Request, Runs, Goes, Drained
  <1>2. /\ \A d : q = Request("operation", d) <=> d = c
        /\ \A d : q # Request("cancel", d)
    BY RequestsDiffer
  <1> HIDE DEF q
  <1>3. /\ ring' \in Rings /\ (ring'.entered => ring'.sq # <<>>)
        /\ \A d : /\ Asked(d)' <=> Asked(d) \/ d = c
                  /\ Cancelled(d)' <=> Cancelled(d)
                  /\ Flies(d)' <=> Flies(d)
                  /\ Done(d)' <=> Done(d)
                  /\ Once(d, ring.cq) => Once(d, ring.cq)'
                  /\ Once(Request("operation", d), ring.sq) /\ (d = c => ~Asked(d))
                      => Once(Request("operation", d), ring.sq)'
    BY <1>1, <1>2, Adds DEF q
  <1>4. DriverTyped'
    BY <1>3 DEF UseInv, DriverTyped
  <1>5. Drained'
    BY <1>1, <1>3 DEF Drained
  <1>6. ASSUME NEW d \in Coroutines PROVE OneUse(d)'
    <2>1. CASE d = c
      <3>1. ~Asked(c) /\ ~Flies(c) /\ ~Done(c) /\ ~Sleeps(c)
        BY <1>1 DEF OneUse
      <3> QED  BY <1>1, <1>3, <2>1, <3>1 DEF OneUse, Sleeps
    <2>2. CASE d # c
      BY <1>1, <1>3, <2>2, UseKept DEF Sleeps
    <2> QED  BY <2>1, <2>2
  <1> QED  BY <1>4, <1>5, <1>6 DEF UseInv

LEMMA RefuseInv ==
  ASSUME UseInv, NEW c \in Coroutines, RefuseTimeout(c)
  PROVE  UseInv'
  <1> DEFINE q == Request("nop", c)
  <1>1. /\ q \in Requested /\ ring \in Rings /\ ~ring.entered /\ phase = "run"
        /\ \A d \in Coroutines : OneUse(d) /\ ~Cancelled(d)
        /\ ring' = Put(ring, q)
        /\ UNCHANGED <<waiting, armed, sleeping, dropped, waker, phase>>
    BY DEF UseInv, DriverTyped, Requested, Request, RefuseTimeout, Runs, Goes, Drained
  <1>2. \A d : q # Request("operation", d) /\ q # Request("cancel", d)
    BY RequestsDiffer
  <1> HIDE DEF q
  <1>3. /\ ring' \in Rings /\ (ring'.entered => ring'.sq # <<>>)
        /\ \A d : /\ Asked(d)' <=> Asked(d)
                  /\ Cancelled(d)' <=> Cancelled(d)
                  /\ Flies(d)' <=> Flies(d)
                  /\ Done(d)' <=> Done(d)
                  /\ Once(d, ring.cq) => Once(d, ring.cq)'
                  /\ Once(Request("operation", d), ring.sq)
                      => Once(Request("operation", d), ring.sq)'
    BY <1>1, <1>2, Adds
  <1>4. DriverTyped'
    BY <1>1, <1>3 DEF UseInv, DriverTyped
  <1>5. Drained'
    BY <1>1, <1>3 DEF Drained
  <1>6. ASSUME NEW d \in Coroutines PROVE OneUse(d)'
    BY <1>1, <1>3, UseKept DEF Sleeps
  <1> QED  BY <1>4, <1>5, <1>6 DEF UseInv

LEMMA SleepInv ==
  ASSUME UseInv, NEW c \in Coroutines, Sleep(c)
  PROVE  UseInv'
  <1>1. /\ c \notin waiting /\ UNCHANGED <<ring, armed, dropped, waker, phase>>
        /\ \/ sleeping' = sleeping \cup {c} /\ waiting' = waiting \cup {c}
           \/ UNCHANGED <<sleeping, waiting>>
    BY DEF Sleep, Runs
  <1>2. DriverTyped'
    BY <1>1 DEF UseInv, DriverTyped
  <1>3. Drained'
    BY <1>1, RingKept DEF UseInv, Drained
  <1>4. ASSUME NEW d \in Coroutines PROVE OneUse(d)'
    <2>0. OneUse(d)
      BY DEF UseInv
    <2>1. CASE d = c
      <3>1. /\ ~Asked(c) /\ ~Flies(c) /\ ~Done(c) /\ ~Sleeps(c)
            /\ c \notin armed /\ ~Cancelled(c)
        BY <1>1, <2>0, <2>1 DEF OneUse
      <3>2. Sleeps(c)' <=> c \in waiting'
        BY <1>1, <3>1 DEF Sleeps
      <3> QED  BY <1>1, <2>0, <2>1, <3>1, <3>2, RingKept DEF OneUse
    <2>2. CASE d # c
      BY <1>1, <2>0, <2>2, UseKept, RingKept DEF Sleeps
    <2> QED  BY <2>1, <2>2
  <1> QED  BY <1>2, <1>3, <1>4 DEF UseInv

(* The kernel ends an operation that it has: of c, by itself or because it *)
(* has been asked to.                                                      *)
LEMMA Ends ==
  ASSUME ring.cq \in Seq(Coroutines), NEW c \in Coroutines, OneUse(c), Flies(c),
         ring'.flying = ring.flying \ {c}, ring'.cq = Append(ring.cq, c),
         Asked(c)' <=> Asked(c), Cancelled(c)' => Cancelled(c),
         Once(Request("operation", c), ring.sq)', UNCHANGED <<waiting, armed, sleeping>>
  PROVE  OneUse(c)'
  <1>1. Done(c)' /\ Once(c, ring.cq)' /\ ~Flies(c)'
    BY AppendOccurs DEF OneUse, Flies, Done
  <1> QED  BY <1>1 DEF OneUse, Sleeps

LEMMA EndsOther ==
  ASSUME ring.cq \in Seq(Coroutines), NEW c \in Coroutines, NEW d \in Coroutines, d # c,
         ring'.flying = ring.flying \ {c}, ring'.cq = Append(ring.cq, c)
  PROVE  /\ (Flies(d)' <=> Flies(d)) /\ (Done(d)' <=> Done(d))
         /\ Once(d, ring.cq) => Once(d, ring.cq)'
  BY AppendOccurs DEF Flies, Done

LEMMA CompleteInv ==
  ASSUME UseInv, NEW c \in Coroutines, Complete(c)
  PROVE  UseInv'
  <1>1. /\ Flies(c) /\ ring' = [ring EXCEPT !.flying = @ \ {c}, !.cq = Append(@, c)]
        /\ UNCHANGED <<waiting, armed, sleeping, dropped, waker, phase>>
        /\ ring \in Rings /\ ring.cq \in Seq(Coroutines)
    BY DEF Complete, Flies, UseInv, DriverTyped, Rings
  <1>2. /\ ring' \in Rings /\ ring'.flying = ring.flying \ {c} /\ ring'.cq = Append(ring.cq, c)
        /\ ring'.sq = ring.sq /\ ring'.entered = ring.entered
    BY <1>1, AppendOccurs DEF Rings
  <1>3. \A d : /\ (Asked(d)' <=> Asked(d)) /\ (Cancelled(d)' <=> Cancelled(d))
               /\ Once(Request("operation", d), ring.sq)' <=> Once(Request("operation",
                   d), ring.sq)
    BY <1>2 DEF Asked, Cancelled
  <1>4. DriverTyped' /\ Drained'
    BY <1>1, <1>2, <1>3 DEF UseInv, DriverTyped, Drained
  <1>5. ASSUME NEW d \in Coroutines PROVE OneUse(d)'
    <2>0. OneUse(d)
      BY DEF UseInv
    <2>1. CASE d = c
      BY <1>1, <1>2, <1>3, <2>0, <2>1, Ends DEF OneUse
    <2>2. CASE d # c
      BY <1>1, <1>2, <1>3, <2>0, <2>2, EndsOther, UseKept DEF Sleeps
    <2> QED  BY <2>1, <2>2
  <1> QED  BY <1>4, <1>5 DEF UseInv

-----------------------------------------------------------------------------
(* The kernel takes a request: the first becomes an operation that flies,  *)
(* the second ends one, and the others do nothing.                         *)
LEMMA Taken ==
  ASSUME ring \in Rings, ring.sq # <<>>, Take
  PROVE  LET h == Head(ring.sq)
         IN /\ ring' \in Rings /\ h \in Requested /\ ring'.sq = Tail(ring.sq)
            /\ ring'.entered = (ring'.sq # <<>>)
            /\ h.do = "operation" => /\ ring'.flying = ring.flying \cup {h.of}
                                     /\ ring'.cq = ring.cq
            /\ h.do # "operation" =>
                 \/ ring'.flying = ring.flying /\ ring'.cq = ring.cq
                 \/ /\ h.of \in ring.flying /\ ring'.flying = ring.flying \ {h.of}
                    /\ ring'.cq = Append(ring.cq, h.of)
  <1> DEFINE h == Head(ring.sq)
             r == [ring EXCEPT !.sq = Tail(@)]
             a == Accept(r, h)
  <1>1. /\ h \in Requested /\ Tail(ring.sq) \in Seq(Requested)
    BY TailOccurs DEF Rings
  <1>2. /\ r \in Rings /\ r.sq = Tail(ring.sq) /\ r.flying = ring.flying /\ r.cq = ring.cq
        /\ h.of \in Coroutines
    BY <1>1 DEF Rings, Requested
  <1>3. ring' = [a EXCEPT !.entered = a.sq # <<>>]
    BY DEF Take
  <1> HIDE DEF h, r
  <1>4. Append(r.cq, h.of) \in Seq(Coroutines)
    BY <1>2, AppendOccurs DEF Rings
  <1>5. CASE h.do = "operation"
    <2>1. a = [r EXCEPT !.flying = @ \cup {h.of}]
      BY <1>5 DEF Accept
    <2>2. a \in Rings /\ a.sq = r.sq /\ a.cq = r.cq /\ a.flying = r.flying \cup {h.of}
      BY <1>2, <2>1 DEF Rings
    <2> HIDE DEF a
    <2>3. ring' \in Rings /\ ring'.sq = a.sq /\ ring'.cq = a.cq /\ ring'.flying = a.flying
          /\ ring'.entered = (a.sq # <<>>)
      BY <1>3, <2>2 DEF Rings
    <2> QED  BY <1>1, <1>2, <1>5, <2>2, <2>3 DEF h
  <1>6. CASE h.do = "cancel" /\ h.of \in r.flying
    <2>1. a = [r EXCEPT !.flying = @ \ {h.of}, !.cq = Append(@, h.of)]
      BY <1>6 DEF Accept
    <2>2. /\ a \in Rings /\ a.sq = r.sq /\ a.cq = Append(r.cq, h.of)
          /\ a.flying = r.flying \ {h.of}
      BY <1>2, <1>4, <2>1 DEF Rings
    <2> HIDE DEF a
    <2>3. ring' \in Rings /\ ring'.sq = a.sq /\ ring'.cq = a.cq /\ ring'.flying = a.flying
          /\ ring'.entered = (a.sq # <<>>)
      BY <1>3, <2>2 DEF Rings
    <2> QED  BY <1>1, <1>2, <1>6, <2>2, <2>3 DEF h
  <1>7. CASE h.do # "operation" /\ ~(h.do = "cancel" /\ h.of \in r.flying)
    <2>1. a = r
      BY <1>7 DEF Accept
    <2> HIDE DEF a
    <2>3. ring' \in Rings /\ ring'.sq = r.sq /\ ring'.cq = r.cq /\ ring'.flying = r.flying
          /\ ring'.entered = (r.sq # <<>>)
      BY <1>2, <1>3, <2>1 DEF Rings
    <2> QED  BY <1>1, <1>2, <1>7, <2>3 DEF h
  <1> QED  BY <1>5, <1>6, <1>7

LEMMA TakeInv ==
  ASSUME UseInv, Take
  PROVE  UseInv'
  <1> DEFINE h == Head(ring.sq)
  <1>1. /\ ring \in Rings /\ ring.entered /\ ring.sq # <<>> /\ ring.sq \in Seq(Requested)
        /\ ring.cq \in Seq(Coroutines)
        /\ UNCHANGED <<waiting, armed, sleeping, dropped, waker, phase>>
    BY DEF UseInv, DriverTyped, Drained, Take, Rings
  <1>2. /\ ring' \in Rings /\ h \in Requested /\ ring'.sq = Tail(ring.sq)
        /\ ring'.entered = (ring'.sq # <<>>)
        /\ h.do = "operation" => /\ ring'.flying = ring.flying \cup {h.of}
                                 /\ ring'.cq = ring.cq
        /\ h.do # "operation" =>
             \/ ring'.flying = ring.flying /\ ring'.cq = ring.cq
             \/ /\ h.of \in ring.flying /\ ring'.flying = ring.flying \ {h.of}
                /\ ring'.cq = Append(ring.cq, h.of)
    BY <1>1, Taken
  <1>3. ASSUME NEW c
        PROVE  /\ Asked(c) <=> h = Request("operation", c) \/ Asked(c)'
               /\ Cancelled(c)' => Cancelled(c)
               /\ Once(Request("operation", c), ring.sq) =>
                    /\ Once(Request("operation", c), ring.sq)'
                    /\ h = Request("operation", c) => ~Asked(c)'
    <2>1. /\ Occurs(Request("operation", c), ring.sq) <=>
               h = Request("operation", c) \/ Occurs(Request("operation", c), Tail(ring.sq))
          /\ Occurs(Request("cancel", c), Tail(ring.sq))
              => Occurs(Request("cancel", c), ring.sq)
          /\ Once(Request("operation", c), ring.sq) =>
               /\ Once(Request("operation", c), Tail(ring.sq))
               /\ h = Request("operation", c)
                    => ~Occurs(Request("operation", c), Tail(ring.sq))
      BY <1>1, TailOccurs
    <2> HIDE DEF h
    <2> QED  BY <1>2, <2>1 DEF Asked, Cancelled
  <1> HIDE DEF h
  <1>4. DriverTyped'
    BY <1>1, <1>2 DEF UseInv, DriverTyped
  <1>5. Drained'
    <2>1. ASSUME NEW c, Cancelled(c)' PROVE ring'.sq # <<>>
      BY <2>1 DEF Cancelled, Occurs
    <2> QED  BY <1>2, <2>1 DEF Drained
  <1>6. PICK d \in Coroutines : d = h.of
    BY <1>2 DEF Requested
  <1>7. \A c : h = Request("operation", c) <=> h.do = "operation" /\ c = d
    BY <1>2, <1>6 DEF Request, Requested
  <1>8. ASSUME NEW c \in Coroutines PROVE OneUse(c)'
    <2>0. OneUse(c)
      BY DEF UseInv
    <2>1. CASE h.do = "operation" /\ c = d
      <3>1. Asked(c) /\ ~Asked(c)' /\ Flies(c)' /\ (Done(c)' <=> Done(c))
            /\ (Once(c, ring.cq)' <=> Once(c, ring.cq)) /\ ~Done(c) /\ ~Sleeps(c)
        BY <1>2, <1>3, <1>6, <1>7, <2>0, <2>1 DEF OneUse, Flies, Done
      <3> QED  BY <1>1, <1>3, <2>0, <3>1 DEF OneUse, Sleeps
    <2>2. CASE h.do = "operation" /\ c # d
      <3>1. (Asked(c)' <=> Asked(c)) /\ (Flies(c)' <=> Flies(c)) /\ (Done(c)' <=> Done(c))
            /\ (Once(c, ring.cq)' <=> Once(c, ring.cq))
        BY <1>2, <1>3, <1>6, <1>7, <2>2 DEF Flies, Done
      <3> QED  BY <1>1, <1>3, <2>0, <3>1, UseKept DEF Sleeps
    <2>3. CASE h.do # "operation" /\ ring'.flying = ring.flying /\ ring'.cq = ring.cq
      <3>1. (Asked(c)' <=> Asked(c)) /\ (Flies(c)' <=> Flies(c)) /\ (Done(c)' <=> Done(c))
            /\ (Once(c, ring.cq)' <=> Once(c, ring.cq))
        BY <1>3, <1>7, <2>3 DEF Flies, Done
      <3> QED  BY <1>1, <1>3, <2>0, <3>1, UseKept DEF Sleeps
    <2>4. CASE /\ h.do # "operation" /\ d \in ring.flying /\ ring'.flying = ring.flying \ {d}
               /\ ring'.cq = Append(ring.cq, d)
      <3>1. Asked(c)' <=> Asked(c)
        BY <1>3, <1>7, <2>4
      <3>2. CASE c = d
        <4>1. Flies(c)
          BY <2>4, <3>2 DEF Flies
        <4>2. Once(Request("operation", c), ring.sq)'
          BY <1>3, <2>0 DEF OneUse
        <4> QED  BY <1>1, <1>3, <2>0, <2>4, <3>1, <3>2, <4>1, <4>2, Ends
      <3>3. CASE c # d
        <4>1. /\ (Flies(c)' <=> Flies(c)) /\ (Done(c)' <=> Done(c))
              /\ Once(c, ring.cq) => Once(c, ring.cq)'
          BY <1>1, <2>4, <3>3, EndsOther
        <4> QED  BY <1>1, <1>3, <2>0, <3>1, <4>1, UseKept DEF Sleeps
      <3> QED  BY <3>2, <3>3
    <2> QED  BY <1>2, <1>6, <2>1, <2>2, <2>3, <2>4
  <1> QED  BY <1>4, <1>5, <1>8 DEF UseInv

(* The worker reaps: no cancel request is left, so the coroutines that go  *)
(* on have left nothing behind.                                            *)
LEMMA ReapInv ==
  ASSUME UseInv, Reap
  PROVE  UseInv'
  <1>1. /\ ring \in Rings /\ ~ring.entered /\ phase = "run" /\ phase' = "expire"
        /\ ring' = [ring EXCEPT !.cq = <<>>]
        /\ waiting' = waiting \ ToSet(ring.cq) /\ armed' = armed \ ToSet(ring.cq)
        /\ UNCHANGED <<sleeping, dropped, waker>>
        /\ \A c \in Coroutines : OneUse(c) /\ ~Cancelled(c)
    BY DEF UseInv, DriverTyped, Drained, Reap, Goes
  <1>2. /\ ring' \in Rings /\ ring'.cq = <<>> /\ ring'.sq = ring.sq
        /\ ring'.flying = ring.flying /\ ring'.entered = ring.entered
    <2>1. <<>> \in Seq(Coroutines)
      OBVIOUS
    <2> HIDE DEF UseInv
    <2> QED  BY <1>1, <2>1 DEF Rings
  <1>3. \A c : c \in ToSet(ring.cq) <=> Done(c)
    BY DEF ToSet, Done, Occurs
  <1>4. DriverTyped' /\ Drained'
    BY <1>1, <1>2 DEF UseInv, DriverTyped, Drained
  <1>5. ASSUME NEW c \in Coroutines PROVE OneUse(c)'
    <2>1. /\ (Asked(c)' <=> Asked(c)) /\ (Cancelled(c)' <=> Cancelled(c))
          /\ (Flies(c)' <=> Flies(c))
          /\ (Once(Request("operation", c), ring.sq)' <=> Once(Request("operation", c),
              ring.sq))
      BY <1>2 DEF Asked, Cancelled, Flies
    <2>2. ~Done(c)' /\ Once(c, ring.cq)'
      BY <1>2 DEF Done, Occurs, Once
    <2>3. (c \in waiting' <=> c \in waiting /\ ~Done(c))
            /\ (c \in armed' <=> c \in armed /\ ~Done(c))
      BY <1>1, <1>3
    <2> QED  BY <1>1, <2>1, <2>2, <2>3 DEF OneUse, Sleeps
  <1> QED  BY <1>4, <1>5 DEF UseInv

LEMMA ExpireInv ==
  ASSUME UseInv, NEW c \in Coroutines, Expire(c)
  PROVE  UseInv'
  <1> DEFINE q == Request("cancel", c)
  <1>1. /\ q \in Requested /\ ring \in Rings /\ ~ring.entered /\ phase = "expire"
        /\ c \in armed /\ armed' = armed \ {c}
        /\ dropped' \in SUBSET Coroutines /\ UNCHANGED <<waiting, sleeping, waker, phase>>
        /\ \A d \in Coroutines : OneUse(d)
    BY DEF UseInv, DriverTyped, Requested, Request, Expire, Goes
  <1>2. CASE ring' = PendSubmit(Put(ring, q))
    <2>1. /\ \A d : q = Request("cancel", d) <=> d = c
          /\ \A d : q # Request("operation", d)
      BY RequestsDiffer
    <2> HIDE DEF q
    <2>2. /\ ring' \in Rings /\ (ring'.entered => ring'.sq # <<>>)
          /\ \A d : /\ Asked(d)' <=> Asked(d)
                    /\ Cancelled(d)' <=> Cancelled(d) \/ d = c
                    /\ Flies(d)' <=> Flies(d)
                    /\ Done(d)' <=> Done(d)
                    /\ Once(d, ring.cq) => Once(d, ring.cq)'
                    /\ Once(Request("operation", d), ring.sq)
                        => Once(Request("operation", d), ring.sq)'
      BY <1>1, <1>2, <2>1, Adds
    <2>3. DriverTyped'
      BY <1>1, <2>2 DEF UseInv, DriverTyped
    <2>4. Drained'
      BY <1>1, <2>2 DEF Drained
    <2>5. ASSUME NEW d \in Coroutines PROVE OneUse(d)'
      <3>1. OneUse(d) /\ (d \in armed' \/ Cancelled(d)' => d \in armed \/ Cancelled(d))
        BY <1>1, <2>2
      <3> QED  BY <1>1, <2>2, <3>1 DEF OneUse, Sleeps
    <2> QED  BY <2>3, <2>4, <2>5 DEF UseInv
  <1>3. CASE UNCHANGED ring
    <2>1. DriverTyped'
      BY <1>1, <1>3 DEF UseInv, DriverTyped
    <2>2. Drained'
      BY <1>1, <1>3 DEF UseInv, Drained
    <2>3. ASSUME NEW d \in Coroutines PROVE OneUse(d)'
      BY <1>1, <1>3, RingKept, UseKept DEF Sleeps
    <2> QED  BY <2>1, <2>2, <2>3 DEF UseInv
  <1> QED  BY <1>2, <1>3 DEF Expire

LEMMA EndSleepInv ==
  ASSUME UseInv, NEW c \in Coroutines, EndSleep(c)
  PROVE  UseInv'
  <1>1. /\ phase = "expire" /\ c \in sleeping
        /\ sleeping' = sleeping \ {c} /\ waiting' = waiting \ {c}
        /\ UNCHANGED <<ring, armed, dropped, waker, phase>>
        /\ \A d \in Coroutines : OneUse(d)
    BY DEF UseInv, EndSleep, Goes
  <1>2. DriverTyped' /\ Drained'
    BY <1>1 DEF UseInv, DriverTyped, Drained
  <1>3. ASSUME NEW d \in Coroutines PROVE OneUse(d)'
    <2>1. CASE d = c
      <3>1. Sleeps(c) /\ ~Sleeps(c)' /\ c \notin waiting'
        BY <1>1 DEF Sleeps
      <3> QED  BY <1>1, <2>1, <3>1, RingKept DEF OneUse, Sleeps
    <2>2. CASE d # c
      BY <1>1, <2>2, RingKept, UseKept DEF Sleeps
    <2> QED  BY <2>1, <2>2
  <1> QED  BY <1>2, <1>3 DEF UseInv

LEMMA EndPollInv ==
  ASSUME UseInv, EndPoll
  PROVE  UseInv'
  <1>1. /\ ring \in Rings /\ phase' = "run" /\ waker' = "on" /\ ring' = Submit(ring)
        /\ UNCHANGED <<waiting, armed, sleeping, dropped>>
    BY DEF UseInv, DriverTyped, EndPoll
  <1>2. /\ ring' \in Rings /\ ring'.sq = ring.sq /\ ring'.flying = ring.flying
        /\ ring'.cq = ring.cq /\ ring'.entered = (ring'.sq # <<>>)
    BY <1>1, SubmitFacts
  <1>3. DriverTyped'
    BY <1>1, <1>2 DEF UseInv, DriverTyped
  <1>4. Drained'
    <2>1. ASSUME NEW c, Cancelled(c)' PROVE ring'.sq # <<>>
      BY <2>1 DEF Cancelled, Occurs
    <2> QED  BY <1>2, <2>1 DEF Drained
  <1>5. ASSUME NEW c \in Coroutines PROVE OneUse(c)'
    <2>1. /\ (Asked(c)' <=> Asked(c)) /\ (Cancelled(c)' <=> Cancelled(c))
          /\ (Flies(c)' <=> Flies(c)) /\ (Done(c)' <=> Done(c))
          /\ (Once(Request("operation", c), ring.sq)' <=> Once(Request("operation", c),
              ring.sq))
          /\ (Once(c, ring.cq)' <=> Once(c, ring.cq))
      BY <1>2 DEF Asked, Cancelled, Flies, Done
    <2> QED  BY <1>1, <2>1, UseKept DEF Sleeps, UseInv
  <1> QED  BY <1>3, <1>4, <1>5 DEF UseInv

LEMMA NothingMoves ==
  ASSUME UseInv, UNCHANGED <<ring, waiting, armed, sleeping, dropped, phase>>,
         waker' \in {"on", "done"}
  PROVE  UseInv'
  <1>1. DriverTyped' /\ Drained'
    BY DEF UseInv, DriverTyped, Drained, Cancelled
  <1>2. ASSUME NEW c \in Coroutines PROVE OneUse(c)'
    BY RingKept, UseKept DEF UseInv, Sleeps
  <1> QED  BY <1>1, <1>2 DEF UseInv

-----------------------------------------------------------------------------
LEMMA UseInit == DriverInit => UseInv
  <1> SUFFICES ASSUME DriverInit PROVE UseInv
    OBVIOUS
  <1>1. /\ ring.sq = <<>> /\ ring.cq = <<>> /\ ring.flying = {} /\ ring \in Rings
        /\ waiting = {} /\ armed = {} /\ sleeping = {} /\ ~ring.entered
    <2>1. <<>> \in Seq(Coroutines) /\ <<>> \in Seq(Requested)
      OBVIOUS
    <2>2. ring = [sq |-> <<>>, tick |-> 0, entered |-> FALSE, flying |-> {}, cq |-> <<>>]
          /\ waiting = {} /\ armed = {} /\ sleeping = {}
      BY DEF DriverInit
    <2> QED  BY <2>1, <2>2 DEF Rings
  <1>2. DriverTyped
    BY <1>1 DEF DriverInit, DriverTyped
  <1>3. ASSUME NEW c
        PROVE  /\ ~Asked(c) /\ ~Flies(c) /\ ~Done(c) /\ ~Sleeps(c) /\ ~Cancelled(c)
               /\ Once(Request("operation", c), ring.sq) /\ Once(c, ring.cq)
    BY <1>1 DEF Asked, Flies, Done, Sleeps, Cancelled, Occurs, Once
  <1> QED  BY <1>1, <1>2, <1>3 DEF UseInv, Drained, OneUse

LEMMA UseNext == UseInv /\ [DriverNext]_driverVars => UseInv'
  <1> SUFFICES ASSUME UseInv, [DriverNext]_driverVars PROVE UseInv'
    OBVIOUS
  <1>0. waker \in {"on", "done"}
    BY DEF UseInv, DriverTyped
  <1>1. CASE UNCHANGED driverVars \/ WakeUp \/ \E c \in Coroutines : MoveWithoutSqe(c)
    BY <1>0, <1>1, NothingMoves DEF driverVars, WakeUp, MoveWithoutSqe
  <1>2. ASSUME NEW c \in Coroutines, Await(c) \/ AwaitTimeout(c) PROVE UseInv'
    BY <1>2, AwaitInv DEF Await, AwaitTimeout
  <1> QED  BY <1>1, <1>2, RefuseInv, SleepInv, CompleteInv, ExpireInv, EndSleepInv,
              TakeInv, ReapInv, EndPollInv DEF DriverNext

(* What occurs once has one place.                                         *)
LEMMA PlacesCounted ==
  ASSUME NEW v, NEW s, Once(v, s)
  PROVE  Cardinality({i \in DOMAIN s : s[i] = v}) = IF Occurs(v, s) THEN 1 ELSE 0
  <1> DEFINE P == {i \in DOMAIN s : s[i] = v}
  <1>1. CASE Occurs(v, s)
    <2>1. PICK i \in DOMAIN s : s[i] = v
      BY <1>1 DEF Occurs
    <2>2. P = {i}
      BY <2>1 DEF Once
    <2> QED  BY <1>1, <2>2, FS_Singleton
  <1>2. CASE ~Occurs(v, s)
    <2>1. P = {}
      BY <1>2 DEF Occurs
    <2> QED  BY <1>2, <2>1, FS_EmptySet
  <1> QED  BY <1>1, <1>2

LEMMA MembersCounted ==
  ASSUME NEW v, NEW S
  PROVE  Cardinality({v} \cap S) = IF v \in S THEN 1 ELSE 0
  <1>1. {v} \cap S = IF v \in S THEN {v} ELSE {}
    OBVIOUS
  <1> QED  BY <1>1, FS_Singleton, FS_EmptySet

LEMMA UsesCounted == UseInv => CallbackOutlivesItsUses
  <1> SUFFICES ASSUME UseInv, NEW c \in Coroutines
               PROVE  /\ Requests("operation", c) + Cardinality({c} \cap ring.flying)
                           + Cardinality({i \in DOMAIN ring.cq : ring.cq[i] = c})
                           + Cardinality({c} \cap sleeping)
                         = IF c \in waiting THEN 1 ELSE 0
                      /\ c \in armed \/ Requests("cancel", c) > 0 => c \in waiting \ sleeping
    BY DEF CallbackOutlivesItsUses
  <1>1. OneUse(c)
    BY DEF UseInv
  <1>2. /\ Requests("operation", c) = IF Asked(c) THEN 1 ELSE 0
        /\ Cardinality({i \in DOMAIN ring.cq : ring.cq[i] = c}) = IF Done(c) THEN 1 ELSE 0
    BY <1>1, PlacesCounted DEF OneUse, Asked, Done, Requests
  <1>3. /\ Cardinality({c} \cap ring.flying) = IF Flies(c) THEN 1 ELSE 0
        /\ Cardinality({c} \cap sleeping) = IF Sleeps(c) THEN 1 ELSE 0
    BY MembersCounted DEF Flies, Sleeps
  <1>4. Requests("cancel", c) > 0 => Cancelled(c)
    <2>1. ASSUME ~Cancelled(c) PROVE Requests("cancel", c) = 0
      <3>1. {i \in DOMAIN ring.sq : ring.sq[i] = Request("cancel", c)} = {}
        BY <2>1 DEF Cancelled, Occurs
      <3> QED  BY <3>1, FS_EmptySet DEF Requests
    <2> QED  BY <2>1
  <1> QED  BY <1>1, <1>2, <1>3, <1>4 DEF OneUse

(* A suspended coroutine will be resumed by exactly one thing, and when it *)
(* has gone on nothing is left in the ring, the kernel or the timer that   *)
(* names its Callback, for any number of coroutines and any sizes of the   *)
(* queue and the submit interval: the entry is removed when the operation  *)
(* completes (driver.hpp:39-43), and a cancel that has been asked for is   *)
(* taken by the kernel before the completions are looked at again.         *)
THEOREM CallbacksOutlived == DriverSpec => []CallbackOutlivesItsUses
  <1>1. UseInv /\ [DriverNext]_driverVars => UseInv'
    BY UseNext
  <1> QED  BY <1>1, UseInit, UsesCounted, PTL DEF DriverSpec

-----------------------------------------------------------------------------
(* A stretch of a stream: the bytes numbered from a + 1 on, in order.      *)
Stretch(s, a) == s \in Seq(Nat) /\ \A i \in 1 .. Len(s) : s[i] = a + i

LEMMA StretchIsBytes ==
  ASSUME NEW a \in Nat, NEW s, Stretch(s, a)
  PROVE  s = Bytes(a + 1, a + Len(s))
  <1>1. s \in Seq(Nat) /\ Len(s) \in Nat /\ s = [i \in 1 .. Len(s) |-> s[i]]
    BY DEF Stretch
  <1>2. (a + Len(s) + 1) - (a + 1) = Len(s) /\ (a + 1) - 1 = a
    BY <1>1
  <1> QED  BY <1>1, <1>2 DEF Bytes, Stretch

LEMMA BytesStretch ==
  ASSUME NEW a \in Nat, NEW n \in Nat
  PROVE  Stretch(Bytes(a + 1, a + n), a) /\ Len(Bytes(a + 1, a + n)) = n
  <1> DEFINE s == Bytes(a + 1, a + n)
  <1>1. (a + n + 1) - (a + 1) = n /\ (a + 1) - 1 = a
    OBVIOUS
  <1>2. s = [i \in 1 .. n |-> a + i]
    BY <1>1 DEF Bytes
  <1>3. s \in [1 .. n -> Nat] /\ \A i \in 1 .. n : s[i] = a + i
    BY <1>2
  <1> HIDE DEF s
  <1>4. s \in Seq(Nat) /\ Len(s) = n
    BY <1>3
  <1> QED  BY <1>3, <1>4 DEF Stretch, s

LEMMA StretchAfter ==
  ASSUME NEW a \in Nat, NEW s, Stretch(s, a), NEW m \in Nat, Len(s) = m,
         NEW c \in Nat, c = a + m, NEW t, Stretch(t, c)
  PROVE  Stretch(s \o t, a) /\ Len(s \o t) = m + Len(t)
  <1>1. s \in Seq(Nat) /\ t \in Seq(Nat)
    BY DEF Stretch
  <1>2. PICK l \in Nat : l = Len(t)
    BY <1>1
  <1>3. /\ s \o t \in Seq(Nat) /\ Len(s \o t) = m + l
        /\ \A i \in 1 .. m + l : (s \o t)[i] = IF i <= m THEN s[i] ELSE t[i - m]
    BY <1>1, <1>2, ConcatProperties
  <1>4. ASSUME NEW i \in 1 .. m + l PROVE (s \o t)[i] = a + i
    <2>1. CASE i <= m
      BY <1>3, <2>1 DEF Stretch
    <2>2. CASE ~(i <= m)
      <3>1. PICK j \in 1 .. l : j = i - m
        BY <2>2
      <3>2. t[j] = c + j
        BY <1>2 DEF Stretch
      <3>3. c + j = a + i
        BY <3>1
      <3> QED  BY <1>3, <2>2, <3>1, <3>2, <3>3
    <2> QED  BY <2>1, <2>2
  <1> QED  BY <1>2, <1>3, <1>4 DEF Stretch

LEMMA StretchConcat ==
  ASSUME NEW a \in Nat, NEW s, Stretch(s, a), NEW c \in Nat, c = a + Len(s), NEW t,
         Stretch(t, c)
  PROVE  Stretch(s \o t, a) /\ Len(s \o t) = Len(s) + Len(t)
  <1>1. PICK m \in Nat : m = Len(s)
    BY DEF Stretch
  <1> QED  BY <1>1, StretchAfter

LEMMA StretchPrefix ==
  ASSUME NEW a \in Nat, NEW s, Stretch(s, a), NEW n \in Nat, n <= Len(s)
  PROVE  Stretch(SubSeq(s, 1, n), a) /\ Len(SubSeq(s, 1, n)) = n
  <1>1. s \in Seq(Nat) /\ Len(s) \in Nat /\ \A i \in 1 .. n : s[i] \in Nat
    BY DEF Stretch
  <1>2. /\ SubSeq(s, 1, n) \in Seq(Nat)
          /\ Len(SubSeq(s, 1, n)) = IF 1 <= n THEN n - 1 + 1 ELSE 0
        /\ \A i \in 1 .. n - 1 + 1 : SubSeq(s, 1, n)[i] = s[1 + i - 1]
    BY <1>1, SubSeqProperties
  <1>3. Len(SubSeq(s, 1, n)) = n
    BY <1>2
  <1>4. ASSUME NEW i \in 1 .. n PROVE SubSeq(s, 1, n)[i] = a + i
    <2>1. SubSeq(s, 1, n)[i] = s[i]
      BY <1>2
    <2> QED  BY <1>1, <2>1 DEF Stretch
  <1> QED  BY <1>2, <1>3, <1>4 DEF Stretch

LEMMA StretchRest ==
  ASSUME NEW a \in Nat, NEW s, Stretch(s, a), NEW n \in Nat, n <= Len(s)
  PROVE  /\ Stretch(SubSeq(s, n + 1, Len(s)), a + n)
         /\ Len(SubSeq(s, n + 1, Len(s))) = Len(s) - n
  <1>0. PICK m \in Nat : m = n + 1
    OBVIOUS
  <1> DEFINE t == SubSeq(s, m, Len(s))
  <1>1. s \in Seq(Nat) /\ Len(s) \in Nat /\ \A i \in m .. Len(s) : s[i] \in Nat
    BY <1>0 DEF Stretch
  <1>2. /\ t \in Seq(Nat) /\ Len(t) = IF m <= Len(s) THEN Len(s) - m + 1 ELSE 0
        /\ \A i \in 1 .. Len(s) - m + 1 : t[i] = s[m + i - 1]
    BY <1>1, SubSeqProperties
  <1> HIDE DEF t
  <1>3. Len(t) = Len(s) - n
    BY <1>0, <1>1, <1>2
  <1>4. ASSUME NEW i \in 1 .. Len(t) PROVE t[i] = (a + n) + i
    <2>1. i \in 1 .. Len(s) - m + 1 /\ n + i \in 1 .. Len(s) /\ m + i - 1 = n + i
      BY <1>0, <1>1, <1>3
    <2>2. t[i] = s[n + i]
      BY <1>2, <2>1
    <2>3. s[n + i] = a + (n + i)
      BY <2>1 DEF Stretch
    <2> QED  BY <1>1, <2>2, <2>3
  <1> QED  BY <1>0, <1>2, <1>3, <1>4 DEF Stretch, t

-----------------------------------------------------------------------------
(* A StreamBuffer holds a stretch and does not overflow.                   *)
Holds(b, a) ==
  /\ b.at \in Nat /\ Stretch(b.held, a)
  /\ b.at + Len(b.held) <= Size

Buffers == [at : Nat, held : Seq(Nat)]

(* What the sink has, what is held and what a write has left follow one    *)
(* another.                                                                *)
WriterInv ==
  /\ wbuf \in Buffers /\ accepted \in Nat
  /\ Stretch(sink, 0) /\ Holds(wbuf, Len(sink))
  /\ accepted = Len(sink) + Len(wbuf.held)
  /\ writing.do \in {"write", "write_all"} =>
       /\ writing = [do |-> writing.do, left |-> writing.left]
       /\ Stretch(writing.left, accepted)

LEMMA ForwardFacts ==
  ASSUME NEW b \in Buffers, NEW a \in Nat, Holds(b, a), NEW n \in Nat, n <= Len(b.held)
  PROVE  /\ Forward(b, n) \in Buffers /\ Holds(Forward(b, n), a + n)
         /\ Len(Forward(b, n).held) = Len(b.held) - n
         /\ Forward(b, n).held = SubSeq(b.held, n + 1, Len(b.held))
  <1>1. /\ b.at \in Nat /\ Len(b.held) \in Nat /\ b.at + Len(b.held) <= Size
        /\ Stretch(b.held, a)
    BY DEF Holds, Stretch
  <1>2. /\ Stretch(SubSeq(b.held, n + 1, Len(b.held)), a + n)
        /\ Len(SubSeq(b.held, n + 1, Len(b.held))) = Len(b.held) - n
        /\ SubSeq(b.held, n + 1, Len(b.held)) \in Seq(Nat)
    <2>1. PICK s : s = b.held
      OBVIOUS
    <2>2. Stretch(s, a) /\ n <= Len(s)
      BY <1>1, <2>1
    <2>3. PICK t : t = SubSeq(s, n + 1, Len(s))
      OBVIOUS
    <2>4. Stretch(t, a + n) /\ Len(t) = Len(s) - n
      BY <2>2, <2>3, StretchRest
    <2> QED  BY <2>1, <2>3, <2>4 DEF Stretch
  <1>3. /\ Forward(b, n) \in Buffers /\ Forward(b, n).at = b.at + n
        /\ Forward(b, n).held = SubSeq(b.held, n + 1, Len(b.held))
    BY <1>1, <1>2 DEF Forward, Buffers
  <1>4. (b.at + n) + (Len(b.held) - n) <= Size
    BY <1>1, SizesAssumption
  <1> QED  BY <1>1, <1>2, <1>3, <1>4 DEF Holds

LEMMA ResetFacts ==
  ASSUME NEW b \in Buffers, NEW a \in Nat, Holds(b, a)
  PROVE  /\ Reset(b) \in Buffers /\ Holds(Reset(b), a) /\ Reset(b).held = b.held
         /\ Reset(b).at = 0
  <1>1. Reset(b) \in Buffers /\ Reset(b).at = 0 /\ Reset(b).held = b.held
    BY DEF Reset, Buffers
  <1>2. b.at \in Nat /\ Len(b.held) \in Nat /\ b.at + Len(b.held) <= Size
    BY DEF Holds, Stretch
  <1>3. 0 + Len(b.held) <= Size
    BY <1>2, SizesAssumption
  <1> QED  BY <1>1, <1>3 DEF Holds

LEMMA ExtendFacts ==
  ASSUME NEW b \in Buffers, NEW a \in Nat, Holds(b, a),
         NEW s, Stretch(s, a + Len(b.held)), Len(s) <= Room(b)
  PROVE  /\ Extend(b, s) \in Buffers /\ Holds(Extend(b, s), a)
         /\ Extend(b, s).held = b.held \o s /\ Extend(b, s).at = b.at
         /\ Len(Extend(b, s).held) = Len(b.held) + Len(s)
  <1>1. /\ b.at \in Nat /\ Len(b.held) \in Nat /\ Len(s) \in Nat
        /\ b.at + Len(b.held) + Len(s) <= Size
    BY SizesAssumption DEF Holds, Stretch, Room
  <1>2. /\ Stretch(b.held \o s, a) /\ Len(b.held \o s) = Len(b.held) + Len(s)
        /\ b.held \o s \in Seq(Nat)
    <2>1. Stretch(b.held \o s, a) /\ Len(b.held \o s) = Len(b.held) + Len(s)
      BY StretchConcat, SMTT(30) DEF Holds
    <2> QED  BY <2>1 DEF Stretch
  <1>3. /\ Extend(b, s) \in Buffers /\ Extend(b, s).held = b.held \o s
        /\ Extend(b, s).at = b.at
    BY <1>2 DEF Extend, Buffers
  <1>4. b.at + (Len(b.held) + Len(s)) <= Size
    BY <1>1, SizesAssumption
  <1> QED  BY <1>1, <1>2, <1>3, <1>4 DEF Holds

LEMMA RoomFacts ==
  ASSUME NEW b, NEW a, Holds(b, a)
  PROVE  Room(b) \in Nat /\ Len(b.held) \in Nat
  BY SizesAssumption DEF Holds, Room, Stretch

LEMMA LesserFacts ==
  ASSUME NEW a \in Nat, NEW b \in Nat
  PROVE  /\ Lesser(a, b) \in Nat /\ Lesser(a, b) <= a /\ Lesser(a, b) <= b
         /\ Lesser(a, b) = a \/ Lesser(a, b) = b
  BY DEF Lesser

(* n bytes are taken, first those held and then those of the caller.       *)
LEMMA TakenFromBoth ==
  ASSUME NEW h \in Nat, NEW l \in Nat, NEW n \in 1 .. h + l
  PROVE  /\ n \in Nat /\ n <= h + l
         /\ Lesser(n, h) \in Nat /\ Lesser(n, h) <= n /\ Lesser(n, h) <= h
         /\ n - Lesser(n, h) \in Nat /\ n - Lesser(n, h) <= l
         /\ Lesser(n, h) < h => n - Lesser(n, h) = 0
  BY DEF Lesser

-----------------------------------------------------------------------------
LEMMA BeginWriteInv ==
  ASSUME WriterInv, NEW do \in {"write", "write_all"}, NEW n \in 0 .. MaxAsk,
         BeginWrite(do, n)
  PROVE  WriterInv'
  <1>0. n \in Nat /\ accepted \in Nat /\ Len(sink) \in Nat
    BY SizesAssumption DEF WriterInv, Stretch
  <1>1. PICK s : s = Bytes(accepted + 1, accepted + n)
    OBVIOUS
  <1>2. Stretch(s, accepted) /\ Len(s) = n
    BY <1>0, <1>1, BytesStretch
  <1>3. CASE /\ Room(wbuf) >= n /\ wbuf' = Extend(wbuf, s) /\ accepted' = accepted + n
             /\ writing' = writing /\ writing = NoCall /\ sink' = sink
    <2>1. /\ wbuf' \in Buffers /\ Holds(wbuf', Len(sink))
          /\ Len(wbuf'.held) = Len(wbuf.held) + n
      BY <1>0, <1>2, <1>3, ExtendFacts, RoomFacts DEF WriterInv
    <2>2. Len(wbuf.held) \in Nat
      BY RoomFacts DEF WriterInv
    <2>3. accepted' = Len(sink) + Len(wbuf'.held) /\ accepted' \in Nat
      BY <1>0, <1>3, <2>1, <2>2 DEF WriterInv
    <2>4. writing'.do \notin {"write", "write_all"}
      BY <1>3 DEF NoCall
    <2> QED  BY <1>3, <2>1, <2>3, <2>4 DEF WriterInv
  <1>4. CASE /\ writing' = [do |-> do, left |-> s]
             /\ UNCHANGED <<wbuf, accepted, sink>>
    <2>1. Stretch(writing'.left, accepted')
            /\ writing' = [do |-> writing'.do, left |-> writing'.left]
      BY <1>2, <1>4
    <2> QED  BY <1>4, <2>1 DEF WriterInv
  <1> QED  BY <1>1, <1>3, <1>4 DEF BeginWrite

LEMMA WriteVectoredInv ==
  ASSUME WriterInv, WriteVectored
  PROVE  WriterInv'
  <1>1. /\ wbuf \in Buffers /\ accepted \in Nat /\ Stretch(sink, 0) /\ Len(sink) \in Nat
        /\ Holds(wbuf, Len(sink)) /\ accepted = Len(sink) + Len(wbuf.held)
        /\ Stretch(writing.left, accepted) /\ writing.do \in {"write", "write_all"}
        /\ writing = [do |-> writing.do, left |-> writing.left]
    BY DEF WriterInv, WriteVectored, Stretch
  <1>2. Len(wbuf.held) \in Nat /\ Len(writing.left) \in Nat
    BY <1>1, RoomFacts DEF Stretch
  <1>3. PICK n \in 1 .. Len(wbuf.held) + Len(writing.left) :
          LET len == Lesser(n, Len(wbuf.held))
              b == Reset(Forward(wbuf, len))
              left == SubSeq(writing.left, n - len + 1, Len(writing.left))
              fits == Lesser(Room(b), Len(left))
          IN /\ sink' = sink \o SubSeq(Gathered, 1, n)
             /\ IF writing.do = "write" \/ Room(b) >= Len(left)
                THEN /\ wbuf' = ReadFrom(b, left)
                     /\ accepted' = accepted + (n - len) + fits
                     /\ writing' = NoCall
                ELSE /\ wbuf' = b
                     /\ accepted' = accepted + (n - len)
                     /\ writing' = [writing EXCEPT !.left = left]
    BY DEF WriteVectored
  <1> DEFINE len  == Lesser(n, Len(wbuf.held))
             b    == Reset(Forward(wbuf, len))
             left == SubSeq(writing.left, n - len + 1, Len(writing.left))
             fits == Lesser(Room(b), Len(left))
  <1>4. /\ sink' = sink \o SubSeq(Gathered, 1, n)
        /\ \/ /\ wbuf' = ReadFrom(b, left) /\ accepted' = accepted + (n - len) + fits
              /\ writing' = NoCall
           \/ /\ wbuf' = b /\ accepted' = accepted + (n - len)
              /\ writing' = [writing EXCEPT !.left = left]
    BY <1>3
  <1>5. /\ n \in Nat /\ n <= Len(wbuf.held) + Len(writing.left)
        /\ len \in Nat /\ len <= n /\ len <= Len(wbuf.held)
        /\ n - len \in Nat /\ n - len <= Len(writing.left)
        /\ len < Len(wbuf.held) => n - len = 0
    BY <1>2, TakenFromBoth
  <1>6. /\ b \in Buffers /\ Holds(b, Len(sink) + len) /\ Len(b.held) = Len(wbuf.held) - len
    <2>1. Len(sink) + len \in Nat
      BY <1>1, <1>5
    <2> HIDE DEF len
    <2>2. PICK f : f = Forward(wbuf, len)
      OBVIOUS
    <2>3. /\ f \in Buffers /\ Holds(f, Len(sink) + len)
          /\ Len(f.held) = Len(wbuf.held) - len
      BY <1>1, <1>5, <2>2, ForwardFacts
    <2> QED  BY <2>1, <2>2, <2>3, ResetFacts
  <1>7. Stretch(left, accepted + (n - len)) /\ Len(left) = Len(writing.left) - (n - len)
    BY <1>1, <1>5, StretchRest
  <1>8. Stretch(sink', 0) /\ Len(sink') = Len(sink) + n
    <2>1. /\ Stretch(Gathered, Len(sink))
          /\ Len(Gathered) = Len(wbuf.held) + Len(writing.left)
      <3>1. Stretch(wbuf.held, Len(sink))
        BY <1>1 DEF Holds
      <3>2. PICK c \in Nat : c = accepted
        BY <1>1
      <3>3. PICK t : t = writing.left
        OBVIOUS
      <3>4. PICK a \in Nat : a = Len(sink)
        BY <1>1
      <3>5. PICK s : s = wbuf.held
        OBVIOUS
      <3>6. c = a + Len(s) /\ Stretch(t, c) /\ Stretch(s, a) /\ Gathered = s \o t
        BY <1>1, <3>1, <3>2, <3>3, <3>4, <3>5 DEF Gathered
      <3>7. Stretch(s \o t, a) /\ Len(s \o t) = Len(s) + Len(t)
        BY <3>6, StretchConcat
      <3> QED  BY <3>3, <3>4, <3>5, <3>6, <3>7
    <2>2. Stretch(SubSeq(Gathered, 1, n), Len(sink)) /\ Len(SubSeq(Gathered, 1, n)) = n
      BY <1>1, <1>5, <2>1, StretchPrefix, SMTT(30)
    <2>3. Len(sink) = 0 + Len(sink)
      BY <1>1
    <2>4. PICK g : g = SubSeq(Gathered, 1, n)
      OBVIOUS
    <2>5. Stretch(g, Len(sink)) /\ Len(g) = n
      BY <2>2, <2>4
    <2>6. PICK c \in Nat : c = Len(sink)
      BY <1>1
    <2>7. PICK s : s = sink
      OBVIOUS
    <2>8. c = 0 + Len(s) /\ Stretch(s, 0) /\ Stretch(g, c)
      BY <1>1, <2>3, <2>5, <2>6, <2>7
    <2>9. Stretch(s \o g, 0) /\ Len(s \o g) = Len(s) + Len(g)
      BY <2>8, StretchConcat
    <2> QED  BY <1>4, <2>4, <2>5, <2>7, <2>9
  <1> HIDE DEF len, b, left, fits
  <1>9. PICK k \in Nat : k = n - len
    BY <1>5
  <1>10. Holds(b, Len(sink')) /\ accepted + k = Len(sink') + Len(b.held)
    <2>1. CASE len < Len(wbuf.held)
      <3>1. k = 0 /\ len = n
        BY <1>5, <1>9, <2>1
      <3> QED  BY <1>1, <1>2, <1>5, <1>6, <1>8, <3>1
    <2>2. CASE len = Len(wbuf.held)
      <3>1. Len(b.held) = 0 /\ accepted + k = Len(sink')
        BY <1>1, <1>2, <1>5, <1>6, <1>8, <1>9, <2>2
      <3>2. Holds(b, Len(sink'))
        BY <1>6, <3>1 DEF Holds, Stretch
      <3>3. Len(sink') + 0 = Len(sink')
        BY <1>1, <1>5, <1>8
      <3> QED  BY <3>1, <3>2, <3>3
    <2> QED  BY <1>2, <1>5, <2>1, <2>2
  <1>11. accepted + k \in Nat /\ Len(sink') \in Nat /\ Stretch(left, accepted + k)
    <2>1. accepted + k \in Nat /\ Len(sink') \in Nat
      BY <1>1, <1>5, <1>8, SMTT(30)
    <2> QED  BY <1>7, <1>9, <2>1
  <1>12. CASE /\ wbuf' = ReadFrom(b, left) /\ accepted' = accepted + (n - len) + fits
              /\ writing' = NoCall
    <2>1. /\ fits \in Nat /\ fits <= Room(b) /\ fits <= Len(left)
          /\ wbuf' = Extend(b, SubSeq(left, 1, fits))
      <3>1. Room(b) \in Nat /\ Len(left) \in Nat
        BY <1>6, <1>7, RoomFacts DEF Stretch
      <3> QED  BY <1>12, <3>1, LesserFacts DEF ReadFrom, fits
    <2>2. /\ Stretch(SubSeq(left, 1, fits), Len(sink') + Len(b.held))
          /\ Len(SubSeq(left, 1, fits)) = fits
      BY <1>10, <1>11, <2>1, StretchPrefix
    <2>3. /\ wbuf' \in Buffers /\ Holds(wbuf', Len(sink'))
          /\ Len(wbuf'.held) = Len(b.held) + fits
      <3>1. PICK g : g = SubSeq(left, 1, fits)
        OBVIOUS
      <3>2. Stretch(g, Len(sink') + Len(b.held)) /\ Len(g) <= Room(b) /\ Len(g) = fits
        BY <2>1, <2>2, <3>1
      <3>3. /\ Extend(b, g) \in Buffers /\ Holds(Extend(b, g), Len(sink'))
            /\ Len(Extend(b, g).held) = Len(b.held) + Len(g)
        BY <1>6, <1>10, <1>11, <3>2, ExtendFacts
      <3> QED  BY <2>1, <3>1, <3>2, <3>3
    <2>4. accepted' = accepted + k + fits
      BY <1>9, <1>12
    <2>5. accepted' \in Nat /\ accepted' = Len(sink') + Len(wbuf'.held)
      <3>1. PICK p \in Nat : p = Len(b.held)
        BY <1>6, RoomFacts
      <3>2. PICK q \in Nat : q = Len(sink')
        BY <1>11
      <3>3. accepted + k = q + p /\ Len(wbuf'.held) = p + fits
        BY <1>10, <2>3, <3>1, <3>2
      <3>4. accepted' = (q + p) + fits
        BY <2>4, <3>3
      <3> QED  BY <2>1, <3>2, <3>3, <3>4
    <2>6. writing'.do \notin {"write", "write_all"}
      BY <1>12 DEF NoCall
    <2> QED  BY <1>8, <2>3, <2>5, <2>6 DEF WriterInv
  <1>13. CASE /\ wbuf' = b /\ accepted' = accepted + (n - len)
              /\ writing' = [writing EXCEPT !.left = left]
    <2>1. writing' = [do |-> writing.do, left |-> left]
      BY <1>1, <1>13
    <2>2. writing' = [do |-> writing'.do, left |-> writing'.left] /\ writing'.left = left
      BY <2>1
    <2> QED  BY <1>6, <1>8, <1>9, <1>10, <1>11, <1>13, <2>2 DEF WriterInv
  <1> QED  BY <1>4, <1>12, <1>13

LEMMA FlushSomeInv ==
  ASSUME WriterInv, FlushSome
  PROVE  WriterInv'
  <1>1. PICK n \in 1 .. Len(wbuf.held) :
          sink' = sink \o SubSeq(wbuf.held, 1, n) /\ wbuf' = Flushed(n)
    BY DEF FlushSome
  <1>2. /\ wbuf \in Buffers /\ accepted \in Nat /\ Stretch(sink, 0) /\ Len(sink) \in Nat
        /\ Holds(wbuf, Len(sink)) /\ accepted = Len(sink) + Len(wbuf.held)
        /\ Len(wbuf.held) \in Nat /\ Stretch(wbuf.held, Len(sink))
        /\ writing.do = "flush" /\ accepted' = accepted
        /\ writing' = NoCall \/ writing' = writing
    BY RoomFacts DEF WriterInv, FlushSome, Stretch, Holds
  <1>3. n \in Nat /\ n <= Len(wbuf.held)
    BY <1>2
  <1>4. Stretch(sink', 0) /\ Len(sink') = Len(sink) + n
    <2>1. PICK g : g = SubSeq(wbuf.held, 1, n)
      OBVIOUS
    <2>2. Stretch(g, Len(sink)) /\ Len(g) = n
      BY <1>2, <1>3, <2>1, StretchPrefix
    <2>3. Len(sink) = 0 + Len(sink)
      BY <1>2
    <2> QED  BY <1>1, <1>2, <2>1, <2>2, <2>3, StretchConcat
  <1>5. PICK b : b = Forward(wbuf, n)
    OBVIOUS
  <1>6. b \in Buffers /\ Holds(b, Len(sink) + n) /\ Len(b.held) = Len(wbuf.held) - n
    BY <1>2, <1>3, <1>5, ForwardFacts
  <1>7. wbuf' = b \/ wbuf' = Reset(b)
    BY <1>1, <1>5 DEF Flushed
  <1>8. wbuf' \in Buffers /\ Holds(wbuf', Len(sink')) /\ wbuf'.held = b.held
    <2>1. Len(sink) + n \in Nat
      BY <1>2, <1>3
    <2> QED  BY <1>4, <1>6, <1>7, <2>1, ResetFacts
  <1>9. accepted' = Len(sink') + Len(wbuf'.held)
    <2>1. PICK h \in Nat : h = Len(wbuf.held)
      BY <1>2
    <2>2. PICK q \in Nat : q = Len(sink)
      BY <1>2
    <2>3. PICK m \in Nat : m = n
      BY <1>3
    <2>4. accepted' = q + h /\ Len(sink') = q + m /\ Len(wbuf'.held) = h - m
      BY <1>2, <1>4, <1>6, <1>8, <2>1, <2>2, <2>3
    <2>5. q + h = (q + m) + (h - m)
      OBVIOUS
    <2> QED  BY <2>4, <2>5
  <1>10. writing'.do \notin {"write", "write_all"}
    BY <1>2 DEF NoCall
  <1> QED  BY <1>2, <1>4, <1>8, <1>9, <1>10 DEF WriterInv

LEMMA WriterInit == BufferedInit => WriterInv
  <1> SUFFICES ASSUME BufferedInit PROVE WriterInv
    OBVIOUS
  <1>1. /\ wbuf = [at |-> 0, held |-> <<>>] /\ sink = <<>> /\ accepted = 0
        /\ writing.do = "none" /\ <<>> \in Seq(Nat) /\ Len(<<>>) = 0
    BY DEF BufferedInit, NoCall
  <1>2. wbuf \in Buffers /\ wbuf.held = <<>> /\ wbuf.at = 0
    BY <1>1 DEF Buffers
  <1>3. Stretch(<<>>, 0) /\ Len(sink) = 0
    BY <1>1 DEF Stretch
  <1> QED  BY <1>1, <1>2, <1>3, SizesAssumption DEF WriterInv, Holds

LEMMA WriterKept ==
  ASSUME WriterInv, UNCHANGED <<wbuf, sink, accepted>>,
         writing' = writing \/ writing'.do \notin {"write", "write_all"}
  PROVE  WriterInv'
  BY DEF WriterInv

LEMMA WriterStep == WriterInv /\ [BufferedNext]_bufferedVars => WriterInv'
  <1> SUFFICES ASSUME WriterInv, [BufferedNext]_bufferedVars PROVE WriterInv'
    OBVIOUS
  <1>1. CASE ReaderNext \/ UNCHANGED bufferedVars
    <2>1. UNCHANGED <<wbuf, sink, writing, accepted>>
      BY <1>1
         DEF bufferedVars, ReaderNext, BeginRead, Consume, Direct, FillAndRead, BeginReadUntil,
                  LookForFlag, FillBuf, ReadFails
    <2> QED  BY <2>1, WriterKept
  <1>2. CASE BeginFlush \/ WriteFails
    <2>1. /\ UNCHANGED <<wbuf, sink, accepted>>
          /\ writing'.do \in {"none", "flush", "failed"}
      BY <1>2 DEF BeginFlush, WriteFails, NoCall
    <2> QED  BY <2>1, WriterKept
  <1> QED  BY <1>1, <1>2, BeginWriteInv, WriteVectoredInv, FlushSomeInv
           DEF BufferedNext, WriterNext

LEMMA WrittenCounted == WriterInv => WrittenInOrder
  <1> SUFFICES ASSUME WriterInv PROVE sink \o wbuf.held = Bytes(1, accepted)
    BY DEF WrittenInOrder
  <1>1. /\ Stretch(sink, 0) /\ Stretch(wbuf.held, 0 + Len(sink)) /\ accepted \in Nat
        /\ accepted = Len(sink) + Len(wbuf.held)
    BY DEF WriterInv, Holds, Stretch
  <1>2. Stretch(sink \o wbuf.held, 0) /\ Len(sink \o wbuf.held) = accepted
    BY <1>1, StretchConcat
  <1>3. sink \o wbuf.held = Bytes(0 + 1, 0 + accepted)
    BY <1>2, StretchIsBytes
  <1> QED  BY <1>1, <1>3

(* What the sink has and what is held are the bytes accepted, once and in  *)
(* order, for a buffer of any size and calls of any length, however short  *)
(* the writes are and wherever a flush fails (impl_buf_write.hpp:50-120).  *)
THEOREM BytesWritten == BufferedSpec => []WrittenInOrder
  <1>1. WriterInv /\ [BufferedNext]_bufferedVars => WriterInv'
    BY WriterStep
  <1> QED  BY <1>1, WriterInit, WrittenCounted, PTL DEF BufferedSpec

-----------------------------------------------------------------------------
(* The bytes from a + 1 to b, and a buffer that holds them.                *)
Piece(s, a, b) == a \in Nat /\ b \in Nat /\ a <= b /\ Stretch(s, a) /\ Len(s) = b - a

Keeps(b, a, c) == b \in Buffers /\ Piece(b.held, a, c) /\ b.at + (c - a) <= Size

(* What the call in progress has and what is held follow what has been     *)
(* delivered.                                                              *)
Got == IF reading = NoCall THEN <<>> ELSE reading.got

InOrder ==
  /\ taken <= MaxBytes
  /\ \E m \in Nat : Piece(Got, received, m) /\ Keeps(rbuf, m, taken)

ReadCalls ==
  [do : {"read", "read_exact", "read_until", "failed"}, asked : Nat, got : Seq(Nat),
   span : Nat, direct : BOOLEAN]

(* A call that reads directly has emptied the buffer; one that does not    *)
(* has nothing yet, or is a read_exact that cannot be satisfied any more;  *)
(* and a read_until has found no flag.                                     *)
CallKeeps(underway) ==
  /\ underway \in ReadCalls
  /\ underway.do \in {"read", "read_exact"} =>
       /\ Len(underway.got) <= underway.asked
       /\ IF underway.direct THEN Size < underway.asked
          ELSE \/ underway.got = <<>> /\ underway.span = underway.asked /\ underway.asked <= Size
               \/ underway.do = "read_exact" /\ Size < underway.asked
  /\ underway.do = "read_until" => \A i \in 1 .. Len(underway.got) : underway.got[i] \notin Flags

(* What ReadInOrder says of a call that has returned.                      *)
Delivers(r) ==
  LET n == Len(r.bytes)
  IN CASE r.do = "read_exact" -> n = r.asked
       [] r.do = "read" -> n <= r.asked /\ (n = 0 => r.asked = 0 \/ r.eof)
       [] OTHER -> /\ \A i \in 1 .. n : r.bytes[i] \in Flags => i = n
                   /\ n = 0 \/ r.bytes[n] \notin Flags => r.eof

ReaderInv ==
  /\ InOrder
  /\ reading = NoCall \/ CallKeeps(reading)
  /\ reading.do \in {"read", "read_exact"} /\ reading.direct => rbuf.held = <<>>
  /\ returned = NoCall \/ Delivers(returned)

LEMMA FirstFlag ==
  ASSUME NEW s \in Seq(Nat), NEW at, at = SelectInSeq(s, LAMBDA byte : byte \in Flags)
  PROVE  /\ at \in 0 .. Len(s)
         /\ at = 0 => \A i \in 1 .. Len(s) : s[i] \notin Flags
         /\ at # 0 => s[at] \in Flags /\ \A i \in 1 .. Len(s) : i < at => s[i] \notin Flags
  <1> DEFINE I == {i \in 1 .. Len(s) : s[i] \in Flags}
  <1>1. at = IF I # {} THEN Min(I) ELSE 0
    BY DEF SelectInSeq
  <1>2. Len(s) \in Nat /\ I \subseteq Nat
    OBVIOUS
  <1>3. \A i \in 1 .. Len(s) : i \in I <=> s[i] \in Flags
    OBVIOUS
  <1>4. \A i \in I : i \in 1 .. Len(s)
    OBVIOUS
  <1> HIDE DEF I
  <1>5. CASE I = {}
    BY <1>1, <1>2, <1>3, <1>5
  <1>6. CASE I # {}
    <2>3. Min(I) \in I /\ \A j \in I : Min(I) <= j
      BY <1>2, <1>6, LeastOf
    <2>4. PICK k \in Nat : k = Min(I)
      BY <1>2, <2>3
    <2>5. at = k /\ k \in I /\ k \in 1 .. Len(s)
      BY <1>1, <1>4, <1>6, <2>3, <2>4
    <2>6. ASSUME NEW i \in 1 .. Len(s), i < k PROVE s[i] \notin Flags
      <3>1. ~(k <= i)
        BY <2>6
      <3> QED  BY <1>3, <2>3, <2>4, <3>1
    <2>7. k # 0 /\ k \in 0 .. Len(s) /\ s[k] \in Flags
      BY <1>2, <1>3, <2>5
    <2> QED  BY <2>5, <2>6, <2>7
  <1> QED  BY <1>5, <1>6

-----------------------------------------------------------------------------
LEMMA PieceIsBytes ==
  ASSUME NEW a, NEW b, NEW s, Piece(s, a, b)
  PROVE  s = Bytes(a + 1, b)
  <1>1. a \in Nat /\ b \in Nat /\ Stretch(s, a) /\ Len(s) = b - a
    BY DEF Piece
  <1>2. s = Bytes(a + 1, a + Len(s))
    BY <1>1, StretchIsBytes
  <1>3. a + (b - a) = b
    BY <1>1
  <1> QED  BY <1>1, <1>2, <1>3

LEMMA EmptyPiece ==
  ASSUME NEW a \in Nat
  PROVE  Piece(<<>>, a, a)
  <1>1. <<>> \in Seq(Nat) /\ Len(<<>>) = 0
    OBVIOUS
  <1>2. Stretch(<<>>, a)
    BY <1>1 DEF Stretch
  <1> QED  BY <1>1, <1>2 DEF Piece

LEMMA PieceConcat ==
  ASSUME NEW a \in Nat, NEW b \in Nat, NEW c \in Nat, NEW s, NEW t,
         Piece(s, a, b), Piece(t, b, c)
  PROVE  Piece(s \o t, a, c)
  <1>1. /\ a <= b /\ b <= c /\ Len(s) = b - a /\ Len(t) = c - b
        /\ Stretch(s, a) /\ Stretch(t, b)
    BY DEF Piece
  <1>2. PICK m \in Nat : m = b - a
    BY <1>1
  <1>3. b = a + m /\ Len(s) = m
    BY <1>1, <1>2
  <1>4. Stretch(s \o t, a) /\ Len(s \o t) = m + Len(t)
    BY <1>1, <1>3, StretchAfter
  <1>5. Len(s \o t) = c - a /\ a <= c
    BY <1>1, <1>2, <1>4
  <1> QED  BY <1>4, <1>5 DEF Piece

LEMMA PieceSplit ==
  ASSUME NEW a \in Nat, NEW c \in Nat, NEW s, Piece(s, a, c), NEW n \in Nat, n <= c - a
  PROVE  /\ Piece(SubSeq(s, 1, n), a, a + n)
         /\ Piece(SubSeq(s, n + 1, Len(s)), a + n, c)
  <1>1. PICK i \in Nat, k \in Nat : i = a /\ k = c
    BY DEF Piece
  <1>2. i <= k /\ Len(s) = k - i /\ Stretch(s, i) /\ n <= Len(s) /\ n <= k - i
    BY <1>1 DEF Piece
  <1>3. /\ Stretch(SubSeq(s, 1, n), i) /\ Len(SubSeq(s, 1, n)) = n
        /\ Stretch(SubSeq(s, n + 1, Len(s)), i + n)
        /\ Len(SubSeq(s, n + 1, Len(s))) = Len(s) - n
    BY <1>2, StretchPrefix, StretchRest, ZenonT(40)
  <1>4. (i + n) - i = n /\ (k - i) - n = k - (i + n) /\ i + n \in Nat /\ i <= i + n
          /\ i + n <= k
    BY <1>2
  <1>5. Len(SubSeq(s, n + 1, Len(s))) = k - (i + n)
    BY <1>2, <1>3, <1>4
  <1> QED  BY <1>1, <1>3, <1>4, <1>5 DEF Piece

LEMMA KeepsHolds ==
  ASSUME NEW b, NEW a, NEW c, Keeps(b, a, c)
  PROVE  /\ b \in Buffers /\ a \in Nat /\ c \in Nat /\ a <= c /\ Holds(b, a)
         /\ Len(b.held) = c - a /\ b.at \in Nat
  BY DEF Keeps, Piece, Holds, Buffers

LEMMA KeepsFits ==
  ASSUME NEW b, NEW a \in Nat, NEW c \in Nat, Keeps(b, a, c)
  PROVE  /\ a <= c /\ c - a <= Size /\ b.at + (c - a) <= Size /\ b.at \in Nat
         /\ Len(b.held) = c - a /\ b.held \in Seq(Nat)
  <1>1. PICK at \in Nat, d \in Nat : at = b.at /\ d = c - a
    BY KeepsHolds DEF Keeps, Piece, Buffers
  <1>2. at + d <= Size
    BY <1>1 DEF Keeps
  <1>3. d <= Size
    BY <1>2, SizesAssumption
  <1>4. b.held \in Seq(Nat)
    BY DEF Keeps, Buffers
  <1> QED  BY <1>1, <1>2, <1>3, <1>4, KeepsHolds

LEMMA HoldsKeeps ==
  ASSUME NEW b \in Buffers, NEW a \in Nat, NEW c \in Nat, Holds(b, a), Len(b.held) = c - a,
         a <= c
  PROVE  Keeps(b, a, c)
  BY DEF Keeps, Piece, Holds

LEMMA KeepsForward ==
  ASSUME NEW b, NEW a \in Nat, NEW c \in Nat, Keeps(b, a, c), NEW n \in Nat, n <= c - a
  PROVE  Keeps(Forward(b, n), a + n, c)
  <1>1. PICK i \in Nat, k \in Nat : i = a /\ k = c
    BY KeepsHolds
  <1>2. b \in Buffers /\ i <= k /\ Holds(b, i) /\ Len(b.held) = k - i /\ n <= k - i
    BY <1>1, KeepsHolds
  <1>3. PICK f : f = Forward(b, n)
    OBVIOUS
  <1>4. n <= Len(b.held)
    BY <1>2
  <1>5. f \in Buffers /\ Holds(f, i + n) /\ Len(f.held) = Len(b.held) - n
    BY <1>2, <1>3, <1>4, ForwardFacts
  <1>6. i + n \in Nat /\ i + n <= k /\ (k - i) - n = k - (i + n)
    BY <1>2
  <1>7. Len(f.held) = k - (i + n)
    BY <1>2, <1>5, <1>6
  <1>8. Keeps(f, i + n, k)
    BY <1>5, <1>6, <1>7, HoldsKeeps
  <1> QED  BY <1>1, <1>3, <1>8

LEMMA KeepsReset ==
  ASSUME NEW b, NEW a \in Nat, NEW c \in Nat, Keeps(b, a, c)
  PROVE  Keeps(Reset(b), a, c) /\ Reset(b).at = 0 /\ Reset(b).held = b.held
  BY KeepsHolds, HoldsKeeps, ResetFacts

LEMMA KeepsRoom ==
  ASSUME NEW b, NEW a \in Nat, NEW c \in Nat, Keeps(b, a, c)
  PROVE  Room(b) \in Nat /\ Room(b) = Size - (b.at + (c - a))
  BY KeepsHolds, RoomFacts DEF Room

LEMMA KeepsExtend ==
  ASSUME NEW b, NEW a \in Nat, NEW c \in Nat, NEW d \in Nat, NEW s, Keeps(b, a, c),
         Piece(s, c, d), Len(s) <= Room(b)
  PROVE  Keeps(Extend(b, s), a, d)
  <1>1. PICK i \in Nat, j \in Nat, k \in Nat : i = a /\ j = c /\ k = d
    BY KeepsHolds DEF Piece
  <1>2. /\ b \in Buffers /\ i <= j /\ Holds(b, i) /\ Len(b.held) = j - i
        /\ Stretch(s, j) /\ Len(s) = k - j /\ j <= k
    BY <1>1, KeepsHolds DEF Piece
  <1>3. i + (j - i) = j /\ (j - i) + (k - j) = k - i /\ i <= k
    BY <1>2
  <1>4. PICK e : e = Extend(b, s)
    OBVIOUS
  <1>5. Stretch(s, i + Len(b.held))
    BY <1>2, <1>3
  <1>6. e \in Buffers /\ Holds(e, i) /\ Len(e.held) = Len(b.held) + Len(s)
    BY <1>2, <1>4, <1>5, ExtendFacts
  <1>7. Keeps(e, i, k)
    BY <1>2, <1>3, <1>6, HoldsKeeps
  <1> QED  BY <1>1, <1>4, <1>7

(* write_to() of up to n bytes.                                            *)
LEMMA KeepsWriteTo ==
  ASSUME NEW b, NEW a \in Nat, NEW c \in Nat, Keeps(b, a, c), NEW n \in Nat
  PROVE  \E k \in Nat :
           /\ k <= n /\ a + k <= c /\ (k = n \/ a + k = c)
           /\ WriteTo(b, n).len = k /\ Keeps(WriteTo(b, n).buf, a + k, c)
           /\ a + k = c => WriteTo(b, n).buf.held = <<>>
           /\ Piece(SubSeq(b.held, 1, WriteTo(b, n).len), a, a + k)
  <1>1. PICK i \in Nat, j \in Nat : i = a /\ j = c
    BY KeepsHolds
  <1>2. b \in Buffers /\ i <= j /\ Len(b.held) = j - i /\ Piece(b.held, i, j)
    BY <1>1, KeepsHolds DEF Keeps
  <1>3. PICK k \in Nat : k = Lesser(n, j - i)
    <2>1. PICK d \in Nat : d = j - i
      BY <1>2
    <2> QED  BY <2>1, LesserFacts
  <1>4. k <= n /\ k <= j - i /\ i + k <= j /\ (k = n \/ i + k = j) /\ i + k \in Nat
    BY <1>2, <1>3 DEF Lesser
  <1>5. /\ WriteTo(b, n).len = k
        /\ WriteTo(b, n).buf = IF k = j - i THEN [at |-> 0, held |-> <<>>] ELSE Forward(b, k)
    BY <1>2, <1>3 DEF WriteTo
  <1>6. Piece(SubSeq(b.held, 1, k), i, i + k)
    BY <1>2, <1>4, PieceSplit
  <1>7. CASE k = j - i
    <2>1. i + k = j
      BY <1>2, <1>7
    <2>2. Piece(<<>>, j, j)
      BY EmptyPiece
    <2>3. PICK e : e = [at |-> 0, held |-> <<>>]
      OBVIOUS
    <2>4. e \in Buffers /\ e.at = 0 /\ e.held = <<>>
      <3>1. <<>> \in Seq(Nat)
        OBVIOUS
      <3> QED  BY <2>3, <3>1 DEF Buffers
    <2>5. 0 + (j - j) <= Size
      BY SizesAssumption
    <2>6. Keeps(e, j, j)
      BY <2>2, <2>4, <2>5 DEF Keeps
    <2> QED  BY <1>1, <1>3, <1>4, <1>5, <1>6, <1>7, <2>1, <2>3, <2>4, <2>6
  <1>8. CASE k # j - i
    <2>1. Keeps(Forward(b, k), i + k, j)
      BY <1>1, <1>4, KeepsForward
    <2>2. i + k # j
      BY <1>2, <1>8
    <2> QED  BY <1>1, <1>3, <1>4, <1>5, <1>6, <1>8, <2>1, <2>2
  <1> QED  BY <1>7, <1>8

(* What the source gives.                                                  *)
LEMMA ArrivesPiece ==
  ASSUME taken \in Nat, taken <= MaxBytes, NEW n \in Nat, NEW bytes \in Arrives(n)
  PROVE  \E t \in Nat :
           /\ t = taken + Len(bytes) /\ Piece(bytes, taken, t) /\ t <= MaxBytes
           /\ t - taken <= n /\ Len(bytes) = t - taken
           /\ bytes = <<>> <=> t = taken
           /\ bytes = <<>> => n = 0 \/ taken = MaxBytes
  <1>1. PICK a \in Nat, x \in Nat : a = taken /\ x = MaxBytes
    BY SizesAssumption
  <1>2. PICK t \in (IF n = 0 \/ a = x THEN {a} ELSE a + 1 .. Lesser(a + n, x)) :
          bytes = Bytes(a + 1, t)
    BY <1>1 DEF Arrives
  <1>3. /\ t \in Nat /\ a <= t /\ t <= x /\ t - a <= n
        /\ t = a => n = 0 \/ a = x
    BY <1>1, <1>2 DEF Lesser
  <1>4. PICK d \in Nat : d = t - a
    BY <1>3
  <1>5. t = a + d
    BY <1>3, <1>4
  <1>6. Stretch(bytes, a) /\ Len(bytes) = d
    BY <1>2, <1>5, BytesStretch
  <1>7. Piece(bytes, a, t)
    BY <1>3, <1>4, <1>6 DEF Piece
  <1>8. bytes = <<>> <=> t = a
    <2>1. bytes \in Seq(Nat)
      BY <1>6 DEF Stretch
    <2>2. bytes = <<>> <=> d = 0
      BY <1>6, <2>1
    <2> QED  BY <1>5, <2>2
  <1> QED  BY <1>1, <1>3, <1>4, <1>5, <1>6, <1>7, <1>8

-----------------------------------------------------------------------------
(* call, with the bytes from r + 1 to m, returns up to n of those that b    *)
(* holds from m + 1 to t.                                                  *)
Returns(underway, r, m, b, t, n) ==
  /\ r \in Nat /\ m \in Nat /\ t \in Nat /\ n \in Nat /\ underway \in ReadCalls
  /\ r = received /\ Piece(underway.got, r, m) /\ Keeps(b, m, t)
  /\ ReturnRead(underway, b, n) /\ taken' = t /\ t <= MaxBytes

HasReturned(underway, r, m, b, t, n) ==
  /\ InOrder' /\ reading' = NoCall
  /\ \E k \in Nat :
       /\ k <= n /\ m + k <= t /\ (k = n \/ m + k = t)
       /\ Len(returned'.bytes) = (m - r) + k /\ m - r \in Nat
  /\ returned'.do = underway.do /\ returned'.asked = underway.asked
  /\ (returned'.eof <=> t = MaxBytes)

(* Everything is in order then, and the call has what it had and what it   *)
(* was given.                                                              *)
LEMMA ReturnReadFacts ==
  ASSUME NEW underway, NEW r, NEW m, NEW b, NEW t, NEW n, Returns(underway, r, m, b, t, n)
  PROVE  HasReturned(underway, r, m, b, t, n)
  <1>0. /\ r \in Nat /\ m \in Nat /\ t \in Nat /\ n \in Nat /\ underway \in ReadCalls
        /\ r = received /\ Piece(underway.got, r, m) /\ Keeps(b, m, t)
        /\ ReturnRead(underway, b, n) /\ taken' = t /\ t <= MaxBytes
    BY DEF Returns
  <1>1. PICK moved : moved = WriteTo(b, n)
    OBVIOUS
  <1>2. PICK k \in Nat :
          /\ k <= n /\ m + k <= t /\ (k = n \/ m + k = t)
          /\ moved.len = k /\ Keeps(moved.buf, m + k, t)
          /\ Piece(SubSeq(b.held, 1, moved.len), m, m + k)
    BY <1>0, <1>1, KeepsWriteTo
  <1>3. /\ rbuf' = moved.buf /\ reading' = NoCall
        /\ received' = received + Len(underway.got) + moved.len
        /\ returned' = [do |-> underway.do, asked |-> underway.asked,
                        bytes |-> underway.got \o SubSeq(b.held, 1, moved.len),
                        eof |-> taken' = MaxBytes]
    BY <1>0, <1>1 DEF ReturnRead
  <1>5. r <= m /\ Len(underway.got) = m - r
    BY <1>0 DEF Piece
  <1>6. received' = m + k
    BY <1>0, <1>2, <1>3, <1>5
  <1>7. InOrder'
    <2>1. Piece(<<>>, m + k, m + k) /\ m + k \in Nat
      BY <1>0, <1>2, EmptyPiece
    <2>2. Got' = <<>>
      BY <1>3 DEF Got
    <2> QED  BY <1>0, <1>2, <1>3, <1>6, <2>1, <2>2 DEF InOrder
  <1>8. Len(returned'.bytes) = (m - r) + k /\ m - r \in Nat
    <2>1. PICK x : x = SubSeq(b.held, 1, moved.len)
      OBVIOUS
    <2>2. Piece(underway.got \o x, r, m + k) /\ returned'.bytes = underway.got \o x
      <3>1. Piece(underway.got, r, m) /\ Piece(x, m, m + k) /\ m + k \in Nat
        BY <1>0, <1>2, <2>1
      <3>2. Piece(underway.got \o x, r, m + k)
        BY <1>0, <3>1, PieceConcat
      <3> QED  BY <1>3, <2>1, <3>2
    <2>3. (m + k) - r = (m - r) + k /\ m - r \in Nat
      BY <1>0, <1>5
    <2> QED  BY <1>0, <2>2, <2>3 DEF Piece
  <1>9. /\ returned'.do = underway.do /\ returned'.asked = underway.asked
        /\ (returned'.eof <=> t = MaxBytes)
    <2>1. returned'.eof = (taken' = MaxBytes)
      BY <1>3
    <2> QED  BY <1>0, <1>3, <2>1
  <1> QED  BY <1>2, <1>3, <1>7, <1>8, <1>9 DEF HasReturned

LEMMA BeginReadInv ==
  ASSUME ReaderInv, NEW do \in {"read", "read_exact"}, NEW n \in Nat, BeginRead(do, n)
  PROVE  ReaderInv'
  <1>0. n \in Nat /\ reading = NoCall /\ taken' = taken /\ Got = <<>> /\ taken <= MaxBytes
    BY SizesAssumption DEF BeginRead, ReaderInv, InOrder, Got
  <1>1. PICK r \in Nat, t \in Nat :
          r = received /\ t = taken /\ Keeps(rbuf, r, t)
    <2>1. PICK m \in Nat : Piece(Got, received, m) /\ Keeps(rbuf, m, taken)
      BY DEF ReaderInv, InOrder
    <2>2. m = received
      BY <1>0, <2>1 DEF Piece
    <2> QED  BY <2>1, <2>2, KeepsHolds
  <1>2. /\ r <= t /\ Len(rbuf.held) = t - r /\ t - r <= Size /\ rbuf.held \in Seq(Nat)
    BY <1>1, KeepsFits
  <1>3. PICK underway : underway = Reading(do, n, <<>>, FALSE)
    OBVIOUS
  <1>4. /\ underway \in ReadCalls /\ underway # NoCall /\ underway.do = do /\ underway.asked = n
        /\ underway.got = <<>> /\ underway.span = n /\ underway.direct = FALSE
    <2>1. <<>> \in Seq(Nat) /\ n - Len(<<>>) = n
      BY <1>0
    <2>2. underway = [do |-> do, asked |-> n, got |-> <<>>, span |-> n, direct |-> FALSE]
      BY <1>3, <2>1 DEF Reading
    <2> QED  BY <1>0, <2>1, <2>2 DEF ReadCalls, NoCall
  <1>5. CASE Size < n
    <2>1. PICK moved : moved = WriteTo(rbuf, n)
      OBVIOUS
    <2>2. PICK k \in Nat :
            /\ k <= n /\ (k = n \/ r + k = t) /\ r + k <= t
            /\ moved.len = k /\ Keeps(moved.buf, r + k, t)
                /\ (r + k = t => moved.buf.held = <<>>)
            /\ Piece(SubSeq(rbuf.held, 1, moved.len), r, r + k)
      <3>1. PICK k \in Nat :
              /\ k <= n /\ r + k <= t /\ (k = n \/ r + k = t)
              /\ WriteTo(rbuf, n).len = k /\ Keeps(WriteTo(rbuf, n).buf, r + k, t)
              /\ r + k = t => WriteTo(rbuf, n).buf.held = <<>>
              /\ Piece(SubSeq(rbuf.held, 1, WriteTo(rbuf, n).len), r, r + k)
        <4>1. Keeps(rbuf, r, t)
          BY <1>1
        <4> QED  BY <4>1, KeepsWriteTo
      <3> QED  BY <2>1, <3>1
    <2>3. r + k = t
      BY <1>0, <1>2, <1>5, <2>2, SizesAssumption
    <2>4. PICK got : got = SubSeq(rbuf.held, 1, moved.len)
      OBVIOUS
    <2>5. Piece(got, r, t) /\ got \in Seq(Nat) /\ Len(got) = t - r /\ Len(got) <= n
      <3>1. Piece(got, r, t)
        BY <2>2, <2>3, <2>4
      <3>2. t - r = k
        BY <2>3
      <3> QED  BY <2>2, <3>1, <3>2 DEF Piece, Stretch
    <2>6. /\ rbuf' = moved.buf /\ reading' = Reading(do, n, got, TRUE)
          /\ UNCHANGED <<received, returned>>
      BY <1>5, <2>1, <2>4 DEF BeginRead
    <2>7. /\ reading' \in ReadCalls /\ reading' # NoCall /\ reading'.do = do
            /\ reading'.asked = n
          /\ reading'.got = got /\ reading'.direct
      <3>1. PICK x \in Nat : x = n - Len(got)
        BY <1>0, <1>2, <2>5
      <3>2. reading' = [do |-> do, asked |-> n, got |-> got, span |-> x, direct |-> TRUE]
        BY <2>6, <3>1 DEF Reading
      <3> QED  BY <1>0, <2>5, <3>2 DEF ReadCalls, NoCall
    <2>8. InOrder'
      <3>1. Got' = got
        BY <2>7 DEF Got
      <3> QED  BY <1>0, <1>1, <2>2, <2>3, <2>5, <2>6, <3>1 DEF InOrder
    <2>9. CallKeeps(reading')
      BY <1>5, <2>5, <2>7 DEF CallKeeps
    <2> QED  BY <2>2, <2>3, <2>6, <2>8, <2>9 DEF ReaderInv
  <1>6. CASE ~(Size < n) /\ Satisfied(underway, rbuf)
    <2>1. ReturnRead(underway, rbuf, n)
      BY <1>3, <1>6 DEF BeginRead
    <2>2. Piece(underway.got, r, r)
      BY <1>4, EmptyPiece
    <2>3. /\ InOrder' /\ reading' = NoCall
          /\ \E k \in Nat :
              /\ k <= n /\ r + k <= t /\ (k = n \/ r + k = t)
              /\ Len(returned'.bytes) = (r - r) + k
          /\ returned'.do = underway.do /\ returned'.asked = underway.asked
      <3>1. Returns(underway, r, r, rbuf, t, n)
        BY <1>0, <1>1, <1>4, <2>1, <2>2 DEF Returns
      <3>2. HasReturned(underway, r, r, rbuf, t, n)
        BY <3>1, ReturnReadFacts
      <3> QED  BY <3>2 DEF HasReturned
    <2>4. PICK k \in Nat : /\ k <= n /\ (k = n \/ r + k = t)
                           /\ Len(returned'.bytes) = k
      <3>1. PICK k \in Nat : /\ k <= n /\ (k = n \/ r + k = t)
                             /\ Len(returned'.bytes) = (r - r) + k
        BY <2>3
      <3>2. (r - r) + k = k
        OBVIOUS
      <3> QED  BY <3>1, <3>2
    <2>5. returned'.do = do /\ returned'.asked = n
      BY <1>4, <2>3
    <2>6. CASE do = "read"
      <3>1. t - r # 0
        BY <1>2, <1>4, <1>6, <2>6 DEF Satisfied
      <3>2. k = 0 => n = 0
        BY <1>0, <1>2, <2>4, <3>1
      <3> QED  BY <1>0, <2>3, <2>4, <2>5, <2>6, <3>2 DEF ReaderInv, Delivers, NoCall
    <2>7. CASE do = "read_exact"
      <3>1. n <= t - r
        BY <1>2, <1>4, <1>6, <2>7 DEF Satisfied
      <3>2. k = n
        BY <1>0, <1>2, <2>4, <3>1
      <3> QED  BY <2>3, <2>4, <2>5, <2>7, <3>2 DEF ReaderInv, Delivers, NoCall
    <2> QED  BY <2>6, <2>7
  <1>7. CASE ~(Size < n) /\ ~Satisfied(underway, rbuf)
    <2>1. reading' = underway /\ UNCHANGED <<rbuf, received, returned>>
      BY <1>3, <1>7 DEF BeginRead
    <2>2. Got' = <<>>
      BY <1>4, <2>1 DEF Got
    <2>3. InOrder'
      BY <1>0, <2>1, <2>2 DEF InOrder, ReaderInv
    <2>4. CallKeeps(reading')
      <3>1. Len(underway.got) <= n /\ n <= Size
        BY <1>0, <1>4, <1>7, SizesAssumption
      <3> QED  BY <1>4, <2>1, <3>1 DEF CallKeeps
    <2> QED  BY <1>4, <2>1, <2>3, <2>4 DEF ReaderInv
  <1> QED  BY <1>5, <1>6, <1>7

LEMMA DirectInv ==
  ASSUME ReaderInv, Direct
  PROVE  ReaderInv'
  <1>1. /\ reading.do \in {"read", "read_exact"} /\ reading.direct /\ reading # NoCall
        /\ rbuf.held = <<>> /\ CallKeeps(reading) /\ reading \in ReadCalls
        /\ Len(reading.got) <= reading.asked /\ Size < reading.asked
        /\ returned = NoCall \/ Delivers(returned)
    BY DEF Direct, ReaderInv, CallKeeps, NoCall
  <1>2. PICK r \in Nat, m \in Nat, t \in Nat, n \in Nat :
          /\ r = received /\ t = taken /\ n = reading.asked /\ t <= MaxBytes
          /\ Piece(reading.got, r, m) /\ Keeps(rbuf, m, t)
    <2>1. PICK m \in Nat : Piece(Got, received, m) /\ Keeps(rbuf, m, taken)
      BY DEF ReaderInv, InOrder
    <2>2. reading.asked \in Nat /\ Got = reading.got /\ taken <= MaxBytes
      BY <1>1 DEF ReadCalls, ReaderInv, InOrder, Got
    <2> QED  BY <2>1, <2>2, KeepsHolds DEF Piece
  <1>3. /\ m = t /\ r <= m /\ m - r <= n /\ Len(reading.got) = m - r
    <2>1. t - m = 0
      BY <1>1, <1>2, KeepsFits
    <2>2. m <= t
      BY <1>2, KeepsFits
    <2> QED  BY <1>1, <1>2, <2>1, <2>2 DEF Piece
  <1>4. PICK ask \in Nat : ask = n - (m - r)
    BY <1>3
  <1>5. PICK bytes \in Arrives(ask) :
          LET underway == [reading EXCEPT !.got = @ \o bytes]
          IN /\ taken' = taken + Len(bytes)
             /\ IF bytes = <<>> /\ underway.do = "read_exact"
                THEN /\ reading' = [underway EXCEPT !.direct = FALSE]
                     /\ UNCHANGED <<rbuf, received, returned>>
                ELSE IF underway.do = "read" \/ Len(underway.got) = underway.asked
                     THEN ReturnRead(underway, rbuf, 0)
                     ELSE reading' = underway /\ UNCHANGED <<rbuf, received, returned>>
    BY <1>2, <1>3, <1>4 DEF Direct
  <1>6. PICK u \in Nat :
          /\ u = taken' /\ Piece(bytes, t, u) /\ u <= MaxBytes /\ u - t <= ask
          /\ bytes = <<>> <=> u = t
          /\ bytes = <<>> => ask = 0 \/ t = MaxBytes
    <2>1. taken \in Nat /\ taken <= MaxBytes
      BY <1>2
    <2>2. PICK u \in Nat :
            /\ u = taken + Len(bytes) /\ Piece(bytes, taken, u) /\ u <= MaxBytes
            /\ u - taken <= ask /\ (bytes = <<>> <=> u = taken)
            /\ bytes = <<>> => ask = 0 \/ taken = MaxBytes
      BY <2>1, ArrivesPiece
    <2>3. taken' = taken + Len(bytes)
      BY <1>5
    <2> QED  BY <1>2, <2>2, <2>3
  <1>7. PICK got : got = reading.got \o bytes
    OBVIOUS
  <1>8. /\ Piece(got, r, u) /\ r <= u /\ u - r <= n /\ Len(got) = u - r
        /\ got \in Seq(Nat)
    <2>1. Piece(got, r, u)
      BY <1>2, <1>3, <1>6, <1>7, PieceConcat
    <2>2. u - r <= n
      <3>1. m = t /\ r <= m /\ m - r <= n
        BY <1>3
      <3>2. ask = n - (m - r) /\ u - t <= ask
        BY <1>4, <1>6
      <3> QED  BY <3>1, <3>2
    <2> QED  BY <2>1, <2>2 DEF Piece, Stretch
  <1>9. Keeps(rbuf, u, u)
    <2>1. Piece(rbuf.held, u, u)
      BY <1>1, EmptyPiece
    <2>2. rbuf \in Buffers /\ rbuf.at + (u - u) <= Size
      <3>1. PICK at \in Nat : at = rbuf.at /\ rbuf \in Buffers
        BY <1>2, KeepsHolds
      <3>2. at + (t - t) <= Size
        BY <1>2, <1>3, <3>1, KeepsFits
      <3>3. at + (t - t) = at + (u - u)
        OBVIOUS
      <3> QED  BY <3>1, <3>2, <3>3
    <2> QED  BY <2>1, <2>2 DEF Keeps
  <1>10. PICK underway : underway = [reading EXCEPT !.got = got]
    OBVIOUS
  <1>11. /\ underway \in ReadCalls /\ underway.do = reading.do /\ underway.asked = n /\ underway.got = got
         /\ underway.direct /\ underway.span = reading.span
    BY <1>1, <1>2, <1>8, <1>10 DEF ReadCalls
  <1>12. CASE /\ bytes = <<>> /\ underway.do = "read_exact"
              /\ reading' = [underway EXCEPT !.direct = FALSE]
              /\ UNCHANGED <<rbuf, received, returned>>
    <2>1. /\ reading' \in ReadCalls /\ reading'.do = "read_exact" /\ reading'.asked = n
          /\ reading'.got = got /\ ~reading'.direct
      BY <1>11, <1>12 DEF ReadCalls
    <2>2. reading' # NoCall /\ Got' = got
      BY <2>1 DEF NoCall, Got
    <2>3. InOrder'
      BY <1>2, <1>6, <1>8, <1>9, <1>12, <2>2 DEF InOrder
    <2>4. CallKeeps(reading')
      BY <1>1, <1>2, <1>8, <2>1 DEF CallKeeps
    <2> QED  BY <1>1, <1>12, <2>1, <2>3, <2>4 DEF ReaderInv
  <1>13. CASE /\ underway.do = "read" \/ Len(underway.got) = underway.asked
              /\ ReturnRead(underway, rbuf, 0)
    <2>1. /\ InOrder' /\ reading' = NoCall
          /\ \E k \in Nat :
               /\ k <= 0 /\ u + k <= u /\ (k = 0 \/ u + k = u)
               /\ Len(returned'.bytes) = (u - r) + k
          /\ returned'.do = underway.do /\ returned'.asked = underway.asked
          /\ (returned'.eof <=> u = MaxBytes)
      <3>1. /\ r = received /\ underway \in ReadCalls /\ Piece(underway.got, r, u)
            /\ Keeps(rbuf, u, u) /\ taken' = u /\ u <= MaxBytes
        BY <1>2, <1>6, <1>8, <1>9, <1>11
      <3>2. ReturnRead(underway, rbuf, 0)
        BY <1>13
      <3>3. Returns(underway, r, u, rbuf, u, 0)
        BY <3>1, <3>2 DEF Returns
      <3>4. HasReturned(underway, r, u, rbuf, u, 0)
        BY <3>3, ReturnReadFacts
      <3> QED  BY <3>4 DEF HasReturned
    <2>2. Len(returned'.bytes) = u - r /\ returned'.do = reading.do /\ returned'.asked = n
      <3>1. returned'.do = reading.do /\ returned'.asked = n
        BY <1>11, <2>1
      <3>2. PICK k \in Nat : k <= 0 /\ Len(returned'.bytes) = (u - r) + k
        BY <2>1
      <3>3. (u - r) + k = u - r
        BY <1>8, <3>2
      <3> QED  BY <3>1, <3>2, <3>3
    <2>3. CASE reading.do = "read"
      <3>1. u - r = 0 => n = 0 \/ u = MaxBytes
        <4>1. ASSUME u - r = 0 PROVE u = t /\ ask = n
          <5>1. t <= u
            BY <1>6 DEF Piece
          <5>2. m = t /\ r <= m /\ ask = n - (m - r)
            BY <1>3, <1>4
          <5> QED  BY <4>1, <5>1, <5>2
        <4> QED  BY <1>6, <4>1
      <3>2. returned'.eof <=> u = MaxBytes
        BY <2>1
      <3> QED  BY <1>8, <2>1, <2>2, <2>3, <3>1, <3>2 DEF ReaderInv, Delivers, NoCall
    <2>4. CASE reading.do = "read_exact"
      <3>1. u - r = n
        BY <1>8, <1>11, <1>13, <2>4
      <3> QED  BY <2>1, <2>2, <2>4, <3>1 DEF ReaderInv, Delivers, NoCall
    <2> QED  BY <1>1, <2>3, <2>4
  <1>14. CASE /\ ~(underway.do = "read" \/ Len(underway.got) = underway.asked)
              /\ reading' = underway /\ UNCHANGED <<rbuf, received, returned>>
    <2>1. reading' # NoCall /\ Got' = got
      BY <1>1, <1>11, <1>14 DEF NoCall, Got
    <2>2. InOrder'
      BY <1>2, <1>6, <1>8, <1>9, <1>14, <2>1 DEF InOrder
    <2>3. CallKeeps(reading')
      BY <1>1, <1>2, <1>8, <1>11, <1>14 DEF CallKeeps
    <2> QED  BY <1>1, <1>14, <2>2, <2>3 DEF ReaderInv
  <1> QED  BY <1>5, <1>7, <1>10, <1>12, <1>13, <1>14

LEMMA FillAndReadInv ==
  ASSUME ReaderInv, FillAndRead
  PROVE  ReaderInv'
  <1>1. /\ reading.do \in {"read", "read_exact"} /\ ~reading.direct /\ reading # NoCall
        /\ CallKeeps(reading) /\ reading \in ReadCalls
        /\ returned = NoCall \/ Delivers(returned)
    <2>1. reading.do \in {"read", "read_exact"} /\ ~reading.direct
      BY DEF FillAndRead
    <2>2. reading # NoCall
      BY <2>1 DEF NoCall
    <2>3. CallKeeps(reading) /\ (returned = NoCall \/ Delivers(returned))
      BY <2>2 DEF ReaderInv
    <2> QED  BY <2>1, <2>2, <2>3 DEF CallKeeps
  <1>2. PICK r \in Nat, m \in Nat, t \in Nat, n \in Nat, span \in Nat :
          /\ r = received /\ t = taken /\ n = reading.asked /\ span = reading.span
          /\ t <= MaxBytes /\ Piece(reading.got, r, m) /\ Keeps(rbuf, m, t)
    <2>1. PICK m \in Nat : Piece(Got, received, m) /\ Keeps(rbuf, m, taken)
      BY DEF ReaderInv, InOrder
    <2>2. /\ reading.asked \in Nat /\ reading.span \in Nat /\ Got = reading.got
          /\ taken <= MaxBytes
      BY <1>1 DEF ReadCalls, ReaderInv, InOrder, Got
    <2> QED  BY <2>1, <2>2, KeepsHolds DEF Piece
  <1>3. \/ reading.got = <<>> /\ r = m /\ span = n /\ n <= Size
        \/ reading.do = "read_exact" /\ Size < n
    <2>1. CASE reading.got = <<>> /\ reading.span = reading.asked /\ reading.asked <= Size
      <3>1. r = m
        BY <1>2, <2>1 DEF Piece
      <3> QED  BY <1>2, <2>1, <3>1
    <2>2. CASE reading.do = "read_exact" /\ Size < reading.asked
      BY <1>2, <2>2
    <2> QED  BY <1>1, <2>1, <2>2 DEF CallKeeps
  <1>4. PICK b : b = IF Room(rbuf) < reading.span THEN Reset(rbuf) ELSE rbuf
    OBVIOUS
  <1>5. Keeps(b, m, t)
    <2>1. Keeps(rbuf, m, t)
      BY <1>2
    <2> QED  BY <1>4, <2>1, KeepsReset
  <1>6. PICK room \in Nat : room = Room(b)
    BY <1>5, KeepsRoom
  <1>7. PICK bytes \in Arrives(room) :
          LET filled == Extend(b, bytes)
          IN /\ taken' = taken + Len(bytes)
             /\ IF bytes = <<>> /\ reading.do = "read_exact" THEN FailRead /\ rbuf' = filled
                ELSE IF Satisfied(reading, filled) \/ bytes = <<>>
                     THEN ReturnRead(reading, filled, reading.span)
                     ELSE rbuf' = filled /\ UNCHANGED <<reading, received, returned>>
    BY <1>4, <1>6 DEF FillAndRead
  <1>8. PICK u \in Nat :
          /\ u = taken' /\ Piece(bytes, t, u) /\ u <= MaxBytes /\ t <= u
          /\ Len(bytes) <= room
          /\ bytes = <<>> <=> u = t
          /\ bytes = <<>> => room = 0 \/ t = MaxBytes
    <2>1. taken \in Nat /\ taken <= MaxBytes
      BY <1>2
    <2>2. PICK u \in Nat :
            /\ u = taken + Len(bytes) /\ Piece(bytes, taken, u) /\ u <= MaxBytes
            /\ u - taken <= room /\ Len(bytes) = u - taken /\ (bytes = <<>> <=> u = taken)
            /\ bytes = <<>> => room = 0 \/ taken = MaxBytes
      BY <2>1, ArrivesPiece
    <2>3. taken' = taken + Len(bytes)
      BY <1>7
    <2>4. Len(bytes) <= room /\ taken <= u
      BY <2>2 DEF Piece
    <2> QED  BY <1>2, <2>2, <2>3, <2>4
  <1>9. PICK filled : filled = Extend(b, bytes)
    OBVIOUS
  <1>10. Keeps(filled, m, u)
    <2>1. Len(bytes) <= Room(b) /\ Piece(bytes, t, u)
      BY <1>6, <1>8
    <2> QED  BY <1>5, <1>9, <2>1, KeepsExtend
  <1>11. m <= u /\ u - m <= Size /\ Len(filled.held) = u - m /\ filled.held \in Seq(Nat)
    BY <1>10, KeepsFits
  <1>12. CASE bytes = <<>> /\ FailRead /\ rbuf' = filled
    <2>1. /\ reading' \in ReadCalls /\ reading'.do = "failed" /\ reading'.got = reading.got
      BY <1>1, <1>12 DEF FailRead, ReadCalls
    <2>2. reading' # NoCall /\ Got' = reading.got
      BY <2>1 DEF NoCall, Got
    <2>3. InOrder'
      BY <1>2, <1>8, <1>10, <1>12, <2>2 DEF InOrder, FailRead
    <2>4. CallKeeps(reading')
      BY <2>1 DEF CallKeeps
    <2> QED  BY <1>1, <1>12, <2>1, <2>3, <2>4 DEF ReaderInv, FailRead
  <1>13. CASE /\ Satisfied(reading, filled) \/ bytes = <<>>
              /\ ~(bytes = <<>> /\ reading.do = "read_exact")
              /\ ReturnRead(reading, filled, reading.span)
    <2>0. PICK underway \in ReadCalls : underway = reading
      BY <1>1
    <2>1. /\ InOrder' /\ reading' = NoCall
          /\ \E k \in Nat :
               /\ k <= span /\ m + k <= u /\ (k = span \/ m + k = u)
               /\ Len(returned'.bytes) = (m - r) + k
          /\ returned'.do = underway.do /\ returned'.asked = underway.asked
          /\ (returned'.eof <=> u = MaxBytes)
      <3>1. r = received /\ taken' = u /\ u <= MaxBytes /\ Piece(underway.got, r, m)
        BY <1>2, <1>8, <2>0
      <3>2. ReturnRead(underway, filled, span)
        BY <1>2, <1>13, <2>0
      <3>3. Returns(underway, r, m, filled, u, span)
        BY <1>10, <3>1, <3>2 DEF Returns
      <3>4. HasReturned(underway, r, m, filled, u, span)
        BY <3>3, ReturnReadFacts
      <3> QED  BY <3>4 DEF HasReturned
    <2>2. PICK k \in Nat : /\ k <= span /\ m + k <= u /\ (k = span \/ m + k = u)
                           /\ Len(returned'.bytes) = (m - r) + k
      BY <2>1
    <2>3. returned'.do = reading.do /\ returned'.asked = n
      BY <1>2, <2>0, <2>1
    <2>4. CASE reading.do = "read"
      <3>1. r = m /\ span = n /\ n <= Size
        BY <1>3, <2>4
      <3>2. Len(returned'.bytes) = k /\ k <= n
        <4>1. (m - r) + k = k
          BY <3>1
        <4> QED  BY <2>2, <3>1, <4>1
      <3>3. ASSUME k = 0, n # 0 PROVE u = MaxBytes
        <4>1. u = m
          BY <2>2, <3>1, <3>3
        <4>2. m = t /\ t = u
          <5>1. m <= t
            BY <1>5, KeepsFits
          <5> QED  BY <1>8, <4>1, <5>1
        <4>3. room # 0
          <5>1. PICK at \in Nat : at = b.at
            BY <1>5, KeepsFits
          <5>2. room = Size - (at + (t - m))
            BY <1>5, <1>6, <5>1, KeepsRoom
          <5>3. CASE Room(rbuf) < reading.span
            <6>1. at = 0
              BY <1>2, <1>4, <5>1, <5>3, KeepsReset
            <6> QED  BY <3>1, <3>3, <4>2, <5>2, <6>1, SizesAssumption
          <5>4. CASE ~(Room(rbuf) < reading.span)
            <6>1. ~(room < span)
              BY <1>2, <1>4, <1>6, <5>4
            <6> QED  BY <3>1, <3>3, <6>1
          <5> QED  BY <5>3, <5>4
        <4> QED  BY <1>8, <4>2, <4>3
      <3> QED  BY <2>1, <2>3, <2>4, <3>2, <3>3 DEF ReaderInv, Delivers, NoCall
    <2>5. CASE reading.do = "read_exact"
      <3>1. n <= u - m
        BY <1>2, <1>11, <1>13, <2>5 DEF Satisfied
      <3>2. ~(Size < n)
        BY <1>11, <3>1, SizesAssumption
      <3>3. r = m /\ span = n
        BY <1>3, <3>2
      <3>4. k = n
        BY <1>11, <2>2, <3>1, <3>3
      <3>5. Len(returned'.bytes) = n
        <4>1. (m - r) + k = n
          BY <3>3, <3>4
        <4> QED  BY <2>2, <4>1
      <3> QED  BY <2>1, <2>3, <2>5, <3>5 DEF ReaderInv, Delivers, NoCall
    <2> QED  BY <1>1, <2>4, <2>5
  <1>14. CASE rbuf' = filled /\ UNCHANGED <<reading, received, returned>>
    <2>1. Got' = reading.got
      BY <1>1, <1>14 DEF Got
    <2>2. InOrder'
      BY <1>2, <1>8, <1>10, <1>14, <2>1 DEF InOrder
    <2> QED  BY <1>1, <1>14, <2>2 DEF ReaderInv
  <1> QED  BY <1>1, <1>7, <1>9, <1>12, <1>13, <1>14

LEMMA BeginReadUntilInv ==
  ASSUME ReaderInv, BeginReadUntil
  PROVE  ReaderInv'
  <1>1. reading = NoCall /\ UNCHANGED <<rbuf, taken, received, returned>>
    BY DEF BeginReadUntil
  <1>2. reading' = [do |-> "read_until", asked |-> 0, got |-> <<>>, span |-> 0,
          direct |-> FALSE]
    <2>1. Len(<<>>) = 0 /\ 0 - 0 = 0
      OBVIOUS
    <2>2. 0 - Len(<<>>) = 0
      BY <2>1, Zenon
    <2> QED  BY <2>2 DEF BeginReadUntil, Reading
  <1>3. <<>> \in Seq(Nat) /\ Len(<<>>) = 0
    OBVIOUS
  <1>4. reading' \in ReadCalls /\ reading'.do = "read_until" /\ reading'.got = <<>>
    BY <1>2, <1>3 DEF ReadCalls
  <1>5. reading' # NoCall
    BY <1>4 DEF NoCall
  <1>6. Got = <<>> /\ Got' = <<>>
    BY <1>1, <1>4, <1>5 DEF Got
  <1>7. InOrder'
    BY <1>1, <1>6 DEF ReaderInv, InOrder
  <1>8. CallKeeps(reading')
    BY <1>3, <1>4 DEF CallKeeps
  <1> QED  BY <1>1, <1>4, <1>7, <1>8 DEF ReaderInv

(* Where an element of a concatenation comes from.                         *)
LEMMA ConcatAt ==
  ASSUME NEW s \in Seq(Nat), NEW x \in Seq(Nat), NEW i \in 1 .. Len(s \o x)
  PROVE  \/ i \in 1 .. Len(s) /\ (s \o x)[i] = s[i]
         \/ \E j \in 1 .. Len(x) : i = Len(s) + j /\ (s \o x)[i] = x[j]
  <1>1. PICK m \in Nat, n \in Nat : m = Len(s) /\ n = Len(x)
    OBVIOUS
  <1>2. i \in 1 .. m + n
    BY <1>1
  <1>3. CASE i <= m
    BY <1>1, <1>2, <1>3
  <1>4. CASE ~(i <= m)
    <2>1. PICK j \in 1 .. n : i = m + j
      <3>1. i - m \in 1 .. n /\ i = m + (i - m)
        BY <1>2, <1>4
      <3> QED  BY <3>1
    <2>2. (s \o x)[m + j] = x[j]
      BY <1>1, <2>1
    <2> QED  BY <1>1, <2>1, <2>2
  <1> QED  BY <1>3, <1>4

LEMMA FillBufInv ==
  ASSUME ReaderInv, FillBuf
  PROVE  ReaderInv'
  <1>1. reading = NoCall /\ UNCHANGED <<reading, received, returned>> /\ Got = <<>>
          /\ Got' = <<>>
    BY DEF FillBuf, Got
  <1>2. PICK m \in Nat, t \in Nat :
          /\ t = taken /\ t <= MaxBytes /\ Piece(Got, received, m) /\ Keeps(rbuf, m, t)
    <2>1. PICK m \in Nat : Piece(Got, received, m) /\ Keeps(rbuf, m, taken) /\ taken <= MaxBytes
      BY DEF ReaderInv, InOrder
    <2> QED  BY <2>1, KeepsHolds
  <1>3. PICK room \in Nat : room = Room(rbuf)
    BY <1>2, KeepsRoom
  <1>4. PICK bytes \in Arrives(room) : taken' = taken + Len(bytes)
          /\ rbuf' = Extend(rbuf, bytes)
    BY <1>3 DEF FillBuf
  <1>5. PICK u \in Nat :
          u = taken' /\ Piece(bytes, t, u) /\ u <= MaxBytes /\ Len(bytes) <= Room(rbuf)
    <2>1. taken \in Nat /\ taken <= MaxBytes
      BY <1>2
    <2>2. PICK u \in Nat :
            /\ u = taken + Len(bytes) /\ Piece(bytes, taken, u) /\ u <= MaxBytes
            /\ u - taken <= room /\ Len(bytes) = u - taken
      BY <2>1, ArrivesPiece
    <2> QED  BY <1>2, <1>3, <1>4, <2>2
  <1>6. Keeps(rbuf', m, u)
    <2>1. Keeps(Extend(rbuf, bytes), m, u)
      BY <1>2, <1>5, KeepsExtend
    <2> QED  BY <1>4, <2>1
  <1>7. InOrder'
    BY <1>1, <1>2, <1>5, <1>6 DEF InOrder
  <1> QED  BY <1>1, <1>7 DEF ReaderInv, NoCall

LEMMA ConsumeInv ==
  ASSUME ReaderInv, NEW n \in Nat, Consume(n)
  PROVE  ReaderInv'
  <1>1. reading = NoCall /\ UNCHANGED <<taken, reading, returned>> /\ Got = <<>> /\ Got' = <<>>
    BY DEF Consume, Got
  <1>2. PICK m \in Nat, t \in Nat :
          t = taken /\ t <= MaxBytes /\ m = received /\ Keeps(rbuf, m, t)
    <2>1. PICK m \in Nat : Piece(Got, received, m) /\ Keeps(rbuf, m, taken) /\ taken <= MaxBytes
      BY DEF ReaderInv, InOrder
    <2>2. m = received
      BY <1>1, <2>1 DEF Piece
    <2> QED  BY <2>1, <2>2, KeepsHolds
  <1>3. PICK d \in Nat : d = Len(rbuf.held) /\ d = t - m /\ m <= t
    <2>1. m <= t /\ Len(rbuf.held) = t - m
      BY <1>2, KeepsFits
    <2> QED  BY <2>1
  <1>4. PICK len \in Nat : len = Lesser(n, d) /\ len <= d
    BY DEF Lesser
  <1>5. rbuf' = Forward(rbuf, len) /\ received' = m + len
    BY <1>2, <1>3, <1>4 DEF Consume
  <1>6. Keeps(rbuf', m + len, t)
    <2>1. len <= t - m
      BY <1>3, <1>4
    <2>2. Keeps(Forward(rbuf, len), m + len, t)
      BY <1>2, <2>1, KeepsForward
    <2> QED  BY <1>5, <2>2
  <1>7. Piece(<<>>, m + len, m + len) /\ m + len \in Nat
    <2>1. m + len \in Nat
      BY <1>2, <1>4
    <2> QED  BY <2>1, EmptyPiece
  <1>8. InOrder'
    BY <1>1, <1>2, <1>5, <1>6, <1>7 DEF InOrder
  <1> QED  BY <1>1, <1>8 DEF ReaderInv, NoCall

LEMMA ReadFailsInv ==
  ASSUME ReaderInv, ReadFails
  PROVE  ReaderInv'
  <1>1. /\ reading.do \in {"read", "read_exact", "read_until"}
        /\ UNCHANGED <<rbuf, taken, received, returned>>
    BY DEF ReadFails, FailRead
  <1>2. reading # NoCall
    BY <1>1 DEF NoCall
  <1>3. reading \in ReadCalls /\ CallKeeps(reading)
    BY <1>2 DEF ReaderInv, CallKeeps
  <1>4. CASE reading.do = "read_exact" /\ reading.direct
    <2>1. reading' = [reading EXCEPT !.direct = FALSE]
      BY <1>4 DEF ReadFails
    <2>2. /\ reading' \in ReadCalls /\ reading'.do = "read_exact" /\ reading'.got = reading.got
          /\ reading'.asked = reading.asked /\ reading'.span = reading.span /\ ~reading'.direct
      BY <1>3, <1>4, <2>1 DEF ReadCalls
    <2>3. reading' # NoCall
      BY <2>2 DEF NoCall
    <2>4. Got' = Got
      BY <1>2, <2>2, <2>3 DEF Got
    <2>5. InOrder'
      BY <1>1, <2>4 DEF ReaderInv, InOrder
    <2>6. Len(reading.got) <= reading.asked /\ Size < reading.asked
      BY <1>3, <1>4 DEF CallKeeps
    <2>7. CallKeeps(reading')
      BY <2>2, <2>6 DEF CallKeeps
    <2> QED  BY <1>1, <2>2, <2>5, <2>7 DEF ReaderInv
  <1>5. CASE ~(reading.do = "read_exact" /\ reading.direct)
    <2>1. reading' = [reading EXCEPT !.do = "failed"]
      BY <1>5 DEF ReadFails, FailRead
    <2>2. reading' \in ReadCalls /\ reading'.do = "failed" /\ reading'.got = reading.got
      BY <1>3, <2>1 DEF ReadCalls
    <2>3. reading' # NoCall
      BY <2>2 DEF NoCall
    <2>4. Got' = Got
      BY <1>2, <2>2, <2>3 DEF Got
    <2>5. InOrder'
      BY <1>1, <2>4 DEF ReaderInv, InOrder
    <2>6. CallKeeps(reading')
      BY <2>2 DEF CallKeeps
    <2> QED  BY <1>1, <2>2, <2>5, <2>6 DEF ReaderInv
  <1> QED  BY <1>4, <1>5

LEMMA LookForFlagInv ==
  ASSUME Size > 0, ReaderInv, LookForFlag
  PROVE  ReaderInv'
  <1>1. /\ reading.do = "read_until" /\ reading # NoCall /\ reading \in ReadCalls
        /\ \A i \in 1 .. Len(reading.got) : reading.got[i] \notin Flags
        /\ returned = NoCall \/ Delivers(returned)
    <2>1. reading.do = "read_until"
      BY DEF LookForFlag
    <2>2. reading # NoCall
      BY <2>1 DEF NoCall
    <2>3. CallKeeps(reading) /\ (returned = NoCall \/ Delivers(returned))
      BY <2>2 DEF ReaderInv
    <2> QED  BY <2>1, <2>2, <2>3 DEF CallKeeps
  <1>2. PICK r \in Nat, m \in Nat, t \in Nat :
          /\ r = received /\ t = taken /\ t <= MaxBytes
          /\ Piece(reading.got, r, m) /\ Keeps(rbuf, m, t)
    <2>1. PICK m \in Nat : Piece(Got, received, m) /\ Keeps(rbuf, m, taken) /\ taken <= MaxBytes
      BY DEF ReaderInv, InOrder
    <2>2. Got = reading.got
      BY <1>1 DEF Got
    <2> QED  BY <2>1, <2>2, KeepsHolds DEF Piece
  <1>3. /\ r <= m /\ m <= t /\ Len(reading.got) = m - r /\ Len(rbuf.held) = t - m
        /\ rbuf.held \in Seq(Nat) /\ reading.got \in Seq(Nat)
    BY <1>2, KeepsFits DEF Piece, Stretch
  <1>4. PICK held \in Seq(Nat), have \in Seq(Nat) : held = rbuf.held /\ have = reading.got
    BY <1>3
  <1>5. PICK at : at = SelectInSeq(held, LAMBDA byte : byte \in Flags)
    OBVIOUS
  <1>6. /\ at \in 0 .. Len(held)
        /\ at = 0 => \A i \in 1 .. Len(held) : held[i] \notin Flags
        /\ at # 0 => held[at] \in Flags
            /\ \A i \in 1 .. Len(held) : i < at => held[i] \notin Flags
    BY <1>5, FirstFlag
  <1>7. PICK end \in Nat : end = (IF at = 0 THEN Len(held) ELSE at) /\ end <= t - m
    BY <1>3, <1>4, <1>6
  <1>8. PICK look : look = Until(reading, rbuf)
    OBVIOUS
  <1>9. /\ look.found <=> at # 0
        /\ look.got = have \o SubSeq(held, 1, end)
        /\ look.rest = Forward(rbuf, end)
    BY <1>4, <1>5, <1>7, <1>8 DEF Until
  <1>10. PICK part : part = SubSeq(held, 1, end)
    OBVIOUS
  <1>11. /\ Piece(part, m, m + end) /\ part \in Seq(Nat) /\ Len(part) = end
         /\ m + end \in Nat /\ m + end <= t
         /\ \A j \in 1 .. end : part[j] = held[j]
    <2>1. Piece(held, m, t)
      BY <1>2, <1>4 DEF Keeps
    <2>2. Piece(part, m, m + end)
      BY <1>7, <1>10, <2>1, PieceSplit
    <2>3. end <= Len(held)
      BY <1>3, <1>4, <1>7
    <2>4. part \in Seq(Nat) /\ Len(part) = end /\ \A j \in 1 .. end : part[j] = held[j]
      BY <1>10, <2>3
    <2>5. end <= t - m
      BY <1>7
    <2>6. m + end \in Nat /\ m + end <= t
      BY <2>5
    <2> QED  BY <2>2, <2>4, <2>6
  <1>12. PICK got : got = have \o part
    OBVIOUS
  <1>13. /\ look.got = got /\ Piece(got, r, m + end) /\ Len(got) = (m - r) + end
         /\ got \in Seq(Nat) /\ r <= m + end
    <2>1. Piece(have, r, m)
      BY <1>2, <1>4
    <2>2. Piece(got, r, m + end)
      BY <1>11, <1>12, <2>1, PieceConcat
    <2>3. (m + end) - r = (m - r) + end
      OBVIOUS
    <2> QED  BY <1>9, <1>10, <1>12, <2>2, <2>3 DEF Piece, Stretch
  <1>14. Keeps(look.rest, m + end, t)
    <2>1. Keeps(Forward(rbuf, end), m + end, t)
      BY <1>2, <1>7, KeepsForward
    <2> QED  BY <1>9, <2>1
  <1>15. ASSUME NEW i \in 1 .. Len(got)
         PROVE  \/ got[i] \notin Flags
                \/ \E j \in 1 .. end : i = (m - r) + j /\ got[i] = held[j]
    <2>1. i \in 1 .. Len(have \o part)
      BY <1>12
    <2>2. \/ i \in 1 .. Len(have) /\ (have \o part)[i] = have[i]
          \/ \E j \in 1 .. Len(part) : i = Len(have) + j /\ (have \o part)[i] = part[j]
      BY <1>11, <2>1, ConcatAt
    <2>3. CASE i \in 1 .. Len(have) /\ got[i] = have[i]
      BY <1>1, <1>4, <2>3
    <2>4. ASSUME NEW j \in 1 .. Len(part), i = Len(have) + j, got[i] = part[j]
          PROVE  \E jj \in 1 .. end : i = (m - r) + jj /\ got[i] = held[jj]
      <3>1. j \in 1 .. end /\ part[j] = held[j]
        BY <1>11
      <3>2. i = (m - r) + j
        BY <1>3, <1>4, <2>4
      <3> QED  BY <2>4, <3>1, <3>2
    <2> QED  BY <1>12, <2>2, <2>3, <2>4
  <1>16. CASE look.found
    <2>1. at # 0 /\ end = at
      BY <1>7, <1>9, <1>16
    <2>2. /\ taken' = taken /\ reading' = NoCall /\ rbuf' = look.rest
          /\ received' = received + Len(got)
          /\ returned' = [do |-> "read_until", asked |-> 0, bytes |-> got,
              eof |-> taken' = MaxBytes]
      BY <1>8, <1>13, <1>16 DEF LookForFlag, ReturnUntil
    <2>3. received' = m + end
      BY <1>2, <1>3, <1>13, <2>2
    <2>4. InOrder'
      <3>1. Got' = <<>> /\ Piece(<<>>, m + end, m + end)
        BY <1>11, <2>2, EmptyPiece DEF Got
      <3> QED  BY <1>2, <1>11, <1>14, <2>2, <2>3, <3>1 DEF InOrder
    <2>5. PICK n \in Nat : n = Len(got) /\ n = (m - r) + end /\ n # 0
      <3>1. (m - r) + end \in Nat /\ (m - r) + end # 0
        BY <1>3, <1>6, <1>7, <2>1
      <3> QED  BY <1>13, <3>1
    <2>6. ASSUME NEW i \in 1 .. n, got[i] \in Flags PROVE i = n
      <3>1. PICK j \in 1 .. end : i = (m - r) + j /\ got[i] = held[j]
        BY <1>15, <2>5, <2>6
      <3>2. j \in 1 .. Len(held)
        <4>1. PICK l \in Nat : l = Len(held)
          OBVIOUS
        <4>2. at <= l /\ end = at
          BY <1>6, <2>1, <4>1
        <4> QED  BY <4>1, <4>2
      <3>3. ~(j < at)
        BY <1>6, <2>1, <2>6, <3>1, <3>2
      <3>4. j = end
        BY <1>6, <2>1, <3>3
      <3> QED  BY <2>5, <3>1, <3>4
    <2>7. got[n] \in Flags
      <3>1. end \in 1 .. end
        BY <1>6, <2>1
      <3>2. got[n] = part[end]
        <4>1. n = Len(have) + end /\ end \in 1 .. Len(part)
          BY <1>3, <1>4, <1>11, <2>5, <3>1
        <4> QED  BY <1>11, <1>12, <4>1
      <3>3. part[end] = held[at]
        BY <1>11, <2>1, <3>1
      <3> QED  BY <1>6, <2>1, <3>2, <3>3
    <2>8. Delivers(returned')
      <3>1. returned'.do = "read_until" /\ returned'.bytes = got
        BY <2>2
      <3> QED  BY <2>5, <2>6, <2>7, <3>1 DEF Delivers
    <2> QED  BY <2>2, <2>4, <2>8 DEF ReaderInv, NoCall
  <1>17. CASE ~look.found
    <2>1. end = Len(held) /\ m + end = t /\ \A i \in 1 .. Len(held) : held[i] \notin Flags
      <3>1. at = 0
        BY <1>9, <1>17
      <3>2. end = Len(held) /\ Len(held) = t - m
        BY <1>3, <1>4, <1>7, <3>1
      <3>3. m + end = t
        BY <3>2
      <3>4. \A i \in 1 .. Len(held) : held[i] \notin Flags
        BY <1>6, <3>1
      <3> QED  BY <3>2, <3>3, <3>4
    <2>2. \A i \in 1 .. Len(got) : got[i] \notin Flags
      BY <1>15, <2>1
    <2>3. PICK bytes \in Arrives(Size) :
            /\ taken' = taken + Len(bytes)
            /\ rbuf' = [at |-> 0, held |-> bytes]
            /\ IF bytes = <<>> THEN ReturnUntil(got)
               ELSE reading' = [reading EXCEPT !.got = got] /\ UNCHANGED <<received, returned>>
      BY <1>8, <1>13, <1>17 DEF LookForFlag
    <2>4. PICK u \in Nat :
            /\ u = taken' /\ Piece(bytes, t, u) /\ u <= MaxBytes /\ u - t <= Size
            /\ (bytes = <<>> <=> u = t)
            /\ bytes = <<>> => t = MaxBytes
      <3>1. taken \in Nat /\ taken <= MaxBytes /\ Size \in Nat /\ Size # 0
        BY <1>2, SizesAssumption
      <3>2. PICK u \in Nat :
              /\ u = taken + Len(bytes) /\ Piece(bytes, taken, u) /\ u <= MaxBytes
              /\ u - taken <= Size /\ Len(bytes) = u - taken /\ (bytes = <<>> <=> u = taken)
              /\ bytes = <<>> => Size = 0 \/ taken = MaxBytes
        BY <3>1, ArrivesPiece
      <3> QED  BY <1>2, <2>3, <3>1, <3>2
    <2>5. Keeps(rbuf', t, u)
      <3>1. rbuf'.at = 0 /\ rbuf'.held = bytes /\ rbuf' \in Buffers
        BY <2>3, <2>4 DEF Buffers, Piece, Stretch
      <3>2. 0 + (u - t) <= Size
        BY <2>4
      <3> QED  BY <2>4, <3>1, <3>2 DEF Keeps
    <2>6. CASE bytes = <<>> /\ ReturnUntil(got)
      <3>1. /\ reading' = NoCall /\ received' = received + Len(got)
            /\ returned' = [do |-> "read_until", asked |-> 0, bytes |-> got,
                eof |-> taken' = MaxBytes]
        BY <2>6 DEF ReturnUntil
      <3>2. u = t /\ received' = t
        <4>1. u = t
          BY <2>4, <2>6
        <4> QED  BY <1>2, <1>3, <1>13, <2>1, <3>1, <4>1
      <3>3. InOrder'
        <4>1. Got' = <<>> /\ Piece(<<>>, t, t)
          BY <3>1, EmptyPiece DEF Got
        <4> QED  BY <2>4, <2>5, <3>2, <4>1 DEF InOrder
      <3>4. returned'.do = "read_until" /\ returned'.bytes = got
              /\ (returned'.eof <=> taken' = MaxBytes)
        <4>1. returned'.eof = (taken' = MaxBytes)
          BY <3>1
        <4> QED  BY <3>1, <4>1
      <3>5. returned'.eof
        BY <2>4, <2>6, <3>2, <3>4
      <3>6. Delivers(returned')
        BY <2>2, <3>4, <3>5 DEF Delivers
      <3> QED  BY <3>1, <3>3, <3>6 DEF ReaderInv, NoCall
    <2>7. CASE reading' = [reading EXCEPT !.got = got] /\ UNCHANGED <<received, returned>>
      <3>1. reading' \in ReadCalls /\ reading'.do = "read_until" /\ reading'.got = got
        BY <1>1, <1>13, <2>7 DEF ReadCalls
      <3>2. reading' # NoCall
        BY <3>1 DEF NoCall
      <3>3. Got' = got
        BY <3>1, <3>2 DEF Got
      <3>4. InOrder'
        BY <1>2, <1>13, <2>1, <2>4, <2>5, <2>7, <3>3 DEF InOrder
      <3>5. CallKeeps(reading')
        BY <2>2, <3>1 DEF CallKeeps
      <3> QED  BY <1>1, <2>7, <3>1, <3>4, <3>5 DEF ReaderInv
    <2> QED  BY <2>3, <2>6, <2>7
  <1> QED  BY <1>16, <1>17

-----------------------------------------------------------------------------
LEMMA ReaderInit ==
  ASSUME BufferedInit
  PROVE  ReaderInv
  <1>1. reading = NoCall /\ taken = 0 /\ received = 0 /\ returned = NoCall
    BY DEF BufferedInit
  <1>2. rbuf.at = 0 /\ rbuf.held = <<>> /\ rbuf \in Buffers
    <2>1. <<>> \in Seq(Nat)
      OBVIOUS
    <2> QED  BY <2>1 DEF BufferedInit, Buffers
  <1>3. Got = <<>>
    BY <1>1 DEF Got
  <1>4. Piece(<<>>, 0, 0) /\ 0 + (0 - 0) <= Size /\ 0 <= MaxBytes
    BY EmptyPiece, SizesAssumption
  <1>5. Keeps(rbuf, 0, 0)
    BY <1>2, <1>4 DEF Keeps
  <1>6. InOrder
    BY <1>1, <1>3, <1>4, <1>5 DEF InOrder
  <1> QED  BY <1>1, <1>6 DEF ReaderInv, NoCall

LEMMA ReaderStep ==
  ASSUME Size > 0, ReaderInv, [BufferedNext]_bufferedVars
  PROVE  ReaderInv'
  <1>1. CASE UNCHANGED <<rbuf, taken, reading, received, returned>>
    BY <1>1 DEF ReaderInv, InOrder, Got
  <1>2. ASSUME WriterNext PROVE UNCHANGED <<rbuf, taken, reading, received, returned>>
    BY <1>2 DEF WriterNext, BeginWrite, WriteVectored, BeginFlush, FlushSome, WriteFails
  <1>3. ASSUME NEW n \in 0 .. MaxAsk,
               BeginRead("read", n) \/ BeginRead("read_exact", n) \/ Consume(n)
        PROVE  ReaderInv'
    <2>1. n \in Nat
      BY SizesAssumption
    <2> QED  BY <1>3, <2>1, BeginReadInv, ConsumeInv
  <1>4. CASE Direct \/ FillAndRead \/ BeginReadUntil \/ LookForFlag \/ FillBuf \/ ReadFails
    BY <1>4, DirectInv, FillAndReadInv, BeginReadUntilInv, LookForFlagInv, FillBufInv,
       ReadFailsInv
  <1> QED  BY <1>1, <1>2, <1>3, <1>4 DEF BufferedNext, ReaderNext, bufferedVars

LEMMA ReaderInOrder ==
  ASSUME ReaderInv
  PROVE  ReadInOrder
  <1>1. PICK m \in Nat : Piece(Got, received, m) /\ Keeps(rbuf, m, taken)
    BY DEF ReaderInv, InOrder
  <1>2. PICK r \in Nat, t \in Nat : r = received /\ t = taken
    BY <1>1 DEF Keeps, Piece
  <1>3. Piece(Got, r, m) /\ Piece(rbuf.held, m, t)
    BY <1>1, <1>2 DEF Keeps
  <1>4. Piece(Got \o rbuf.held, r, t)
    BY <1>3, PieceConcat
  <1>5. Got \o rbuf.held = Bytes(r + 1, t)
    BY <1>4, PieceIsBytes
  <1>6. returned # NoCall => Delivers(returned)
    BY DEF ReaderInv
  <1> QED  BY <1>2, <1>5, <1>6 DEF ReadInOrder, Got, Delivers

(* Whatever mixture of calls reads from a BufReader with a buffer of at    *)
(* least one byte, however short the reads of its source: what calls have  *)
(* delivered, what the call in progress has and what is held are the bytes *)
(* of the source, once and in order, and each call keeps its contract.     *)
THEOREM BytesRead == ASSUME Size > 0 PROVE BufferedSpec => []ReadInOrder
  <1>1. BufferedInit => ReaderInv
    BY ReaderInit
  <1>2. ReaderInv /\ [BufferedNext]_bufferedVars => ReaderInv'
    BY ReaderStep
  <1>3. ReaderInv => ReadInOrder
    BY ReaderInOrder
  <1> QED  BY <1>1, <1>2, <1>3, PTL DEF BufferedSpec

-----------------------------------------------------------------------------
(***************************************************************************)
(* Files: ReadsAndWritesWhole, by FilesInv.  GoodRead says where a         *)
(* read_to_end stands as long as nobody changed what is behind its         *)
(* beginning: the file still has all that it asked for.  GoodWrite says    *)
(* where the bytes of a write_all are: those written once, in order and    *)
(* not behind the place it goes on at (HoldsFirst), the others nowhere.    *)
(* Both are kept when the file is extended with bytes of others            *)
(* (GoodExtended); an overwrite or a cut takes their premise, whole, from  *)
(* all calls but the one that does it (GoodOverwritten).                   *)
(***************************************************************************)
FileBytes == Seq(Nat)

FileReads ==
  [do : {"read", "returned"}, from : Nat, size : Nat, got : FileBytes, whole : BOOLEAN]
WriteCalls ==
  [do : {"write", "returned"}, bytes : FileBytes, done : Nat, whole : BOOLEAN]

(* The first d bytes of b are in the file s, at a or before, and no other. *)
HoldsFirst(s, b, d, a) ==
  /\ \A p \in 1 .. Len(s), i \in 1 .. Len(b) : s[p] = b[i] => i <= d /\ p <= a
  /\ \A i \in 1 .. d : \E p \in 1 .. Len(s) : s[p] = b[i]
  /\ \A p, q \in 1 .. Len(s), i, j \in 1 .. Len(b) :
       s[p] = b[i] /\ s[q] = b[j] /\ p < q => i < j

GoodRead(c, o, s) ==
  /\ c \in FileReads
  /\ c.from + Len(c.got) <= c.size
  /\ c.do = "read" => o.pos = c.from + Len(c.got)
  /\ c.whole => /\ c.size <= Len(s)
                /\ \A i \in 1 .. Len(c.got) : c.got[i] = s[c.from + i]
                /\ c.do = "returned" => Len(c.got) = c.size - c.from

(* Where a write goes on.                                                  *)
Place(c, o, s) == IF c.do = "write" /\ "O_APPEND" \notin o.flags THEN o.pos ELSE Len(s)

GoodWrite(c, o, s, w) ==
  /\ c \in WriteCalls
  /\ c.done <= Len(c.bytes)
  /\ c.do = "returned" => c.done = Len(c.bytes)
  /\ \A i \in 1 .. Len(c.bytes) : c.bytes[i] \in 1 .. w
  /\ \A i, j \in 1 .. Len(c.bytes) : i < j => c.bytes[i] < c.bytes[j]
  /\ c.whole => HoldsFirst(s, c.bytes, c.done, Place(c, o, s))

GoodCall(c, o, s, w) == c = NotCalled \/ GoodRead(c, o, s) \/ GoodWrite(c, o, s, w)

(* The bytes of no two calls meet.                                         *)
Parted(c, e) ==
  c \in WriteCalls /\ e \in WriteCalls =>
    \A i \in 1 .. Len(c.bytes), j \in 1 .. Len(e.bytes) : c.bytes[i] # e.bytes[j]

GoodOpen(o) ==
  /\ o \in [asked : SUBSET {"read", "write"}, flags : SUBSET {"O_APPEND", "O_RDWR", "O_WRONLY"}, pos : Nat]
  /\ o # NotOpen =>
       /\ o.asked # {}
       /\ "O_WRONLY" \notin o.flags <=> "read" \in o.asked
       /\ Cardinality(o.flags \cap {"O_WRONLY", "O_RDWR"}) = 1 <=> "write" \in o.asked

FilesInv ==
  /\ written \in Nat /\ content \in FileBytes
  /\ \A p \in 1 .. Len(content) : content[p] <= written
  /\ opened = [h \in Handles |-> opened[h]] /\ call = [h \in Handles |-> call[h]]
  /\ \A h \in Handles : GoodOpen(opened[h]) /\ (opened[h] = NotOpen => call[h] = NotCalled)
  /\ \A h \in Handles : GoodCall(call[h], opened[h], content, written)
  /\ \A h, g \in Handles : h # g => Parted(call[h], call[g])

-----------------------------------------------------------------------------
LEMMA CallFacts ==
  /\ NotCalled \notin FileReads /\ NotCalled \notin WriteCalls /\ NotCalled.do = "none"
  /\ \A c \in FileReads : c # NotCalled /\ c \notin WriteCalls /\ DOMAIN c = {"do", "from", "size", "got", "whole"}
  /\ \A c \in WriteCalls : c # NotCalled /\ c \notin FileReads /\ DOMAIN c = {"do", "bytes", "done", "whole"}
  <1>1. /\ DOMAIN NotCalled = {"do"} /\ NotCalled.do = "none"
    BY DEF NotCalled
  <1>2. \A c \in FileReads : DOMAIN c = {"do", "from", "size", "got", "whole"}
    BY DEF FileReads
  <1>3. \A c \in WriteCalls : DOMAIN c = {"do", "bytes", "done", "whole"}
    BY DEF WriteCalls
  <1>4. /\ \A c \in FileReads : c.do \in {"read", "returned"}
        /\ \A c \in WriteCalls : c.do \in {"write", "returned"}
    BY DEF FileReads, WriteCalls
  <1>5. "got" \in {"do", "from", "size", "got", "whole"} /\ "got" \notin {"do", "bytes", "done", "whole"}
    OBVIOUS
  <1> QED  BY <1>1, <1>2, <1>3, <1>4, <1>5

(* The file grows, by bytes that are not the call's.                       *)
Extends(s, t) ==
  /\ s \in FileBytes /\ t \in FileBytes /\ Len(s) <= Len(t)
  /\ \A p \in 1 .. Len(s) : t[p] = s[p]
Avoids(s, t, b) == \A p \in 1 .. Len(t) : p > Len(s) => \A i \in 1 .. Len(b) : t[p] # b[i]

LEMMA GoodExtended ==
  ASSUME NEW c, NEW o, o.pos \in Nat, NEW s, NEW t, NEW w \in Nat, NEW v \in Nat, w <= v,
         GoodCall(c, o, s, w), Extends(s, t),
         c \in WriteCalls => Avoids(s, t, c.bytes)
  PROVE  GoodCall(c, o, t, v)
  <1>1. PICK m \in Nat, n \in Nat : m = Len(s) /\ n = Len(t) /\ m <= n
    BY DEF Extends, FileBytes
  <1>2. \A p \in 1 .. m : p \in 1 .. n /\ t[p] = s[p]
    BY <1>1 DEF Extends
  <1>3. ASSUME GoodRead(c, o, s) PROVE GoodRead(c, o, t)
    <2>1. PICK f \in Nat, l \in Nat, z \in Nat : f = c.from /\ l = Len(c.got) /\ z = c.size
      BY <1>3 DEF GoodRead, FileReads, FileBytes
    <2>2. f + l <= z
      BY <1>3, <2>1 DEF GoodRead
    <2>3. ASSUME c.whole
          PROVE  /\ z <= n
                 /\ \A i \in 1 .. l : c.got[i] = t[f + i]
                 /\ c.do = "returned" => l = z - f
      <3>1. z <= m /\ (\A i \in 1 .. l : c.got[i] = s[f + i]) /\ (c.do = "returned" => l = z - f)
        BY <1>1, <1>3, <2>1, <2>3 DEF GoodRead
      <3>2. \A i \in 1 .. l : f + i \in 1 .. m
        BY <2>2, <3>1
      <3>3. z <= n
        BY <1>1, <3>1
      <3> QED  BY <1>2, <3>1, <3>2, <3>3
    <2> QED  BY <1>1, <1>3, <2>1, <2>3 DEF GoodRead
  <1>4. ASSUME GoodWrite(c, o, s, w) PROVE GoodWrite(c, o, t, v)
    <2>1. c \in WriteCalls /\ c.bytes \in FileBytes /\ c.done \in Nat /\ c.done <= Len(c.bytes)
      BY <1>4 DEF GoodWrite, WriteCalls
    <2>2. \A i \in 1 .. Len(c.bytes) : c.bytes[i] \in 1 .. v
      BY <1>4 DEF GoodWrite
    <2>3. PICK k \in Nat : k = Len(c.bytes) /\ c.done <= k
      BY <2>1 DEF FileBytes
    <2>4. Place(c, o, s) \in Nat /\ Place(c, o, t) \in Nat /\ Place(c, o, s) <= Place(c, o, t)
      BY <1>1 DEF Place
    <2>5. PICK a \in Nat, z \in Nat : a = Place(c, o, s) /\ z = Place(c, o, t) /\ a <= z
      BY <2>4
    <2>6. ASSUME HoldsFirst(s, c.bytes, c.done, a) PROVE HoldsFirst(t, c.bytes, c.done, z)
      <3>1. \A p \in 1 .. n, i \in 1 .. k : t[p] = c.bytes[i] => p \in 1 .. m /\ s[p] = c.bytes[i]
        <4>1. ASSUME NEW p \in 1 .. n, NEW i \in 1 .. k, t[p] = c.bytes[i] PROVE p \in 1 .. m
          <5>1. ~(p > m)
            BY <1>1, <2>1, <2>3, <4>1 DEF Avoids
          <5> QED  BY <5>1
        <4> QED  BY <1>2, <4>1
      <3>2. \A p \in 1 .. n, i \in 1 .. k : t[p] = c.bytes[i] => i <= c.done /\ p <= z
        <4>1. ASSUME NEW p \in 1 .. n, NEW i \in 1 .. k, t[p] = c.bytes[i] PROVE i <= c.done /\ p <= a
          BY <1>1, <2>3, <2>6, <3>1, <4>1 DEF HoldsFirst
        <4>2. \A p \in 1 .. n : p <= a => p <= z
          BY <2>5
        <4> QED  BY <4>1, <4>2
      <3>3. \A i \in 1 .. c.done : \E p \in 1 .. n : t[p] = c.bytes[i]
        BY <1>1, <1>2, <2>6 DEF HoldsFirst
      <3>4. \A p, q \in 1 .. n, i, j \in 1 .. k :
              t[p] = c.bytes[i] /\ t[q] = c.bytes[j] /\ p < q => i < j
        BY <1>1, <2>3, <2>6, <3>1 DEF HoldsFirst
      <3> QED  BY <1>1, <2>3, <3>2, <3>3, <3>4 DEF HoldsFirst
    <2> QED  BY <1>4, <2>2, <2>5, <2>6 DEF GoodWrite
  <1> QED  BY <1>3, <1>4 DEF GoodCall

(* The file is overwritten or cut by another call.                         *)
LEMMA GoodOverwritten ==
  ASSUME NEW c, NEW o, NEW s, NEW t, NEW w \in Nat, GoodCall(c, o, s, w)
  PROVE  /\ c # NotCalled => GoodCall([c EXCEPT !.whole = FALSE], o, t, w)
         /\ c \in WriteCalls => /\ [c EXCEPT !.whole = FALSE] \in WriteCalls
                                /\ [c EXCEPT !.whole = FALSE].bytes = c.bytes
         /\ c \notin WriteCalls => [c EXCEPT !.whole = FALSE] \notin WriteCalls
  <1>1. PICK e : e = [c EXCEPT !.whole = FALSE]
    OBVIOUS
  <1>2. ASSUME GoodRead(c, o, s) PROVE GoodRead(e, o, t)
    <2>1. /\ c \in FileReads /\ c.from + Len(c.got) <= c.size
          /\ c.do = "read" => o.pos = c.from + Len(c.got)
      BY <1>2 DEF GoodRead
    <2>2. e \in FileReads /\ e.from = c.from /\ e.got = c.got /\ e.size = c.size /\ e.do = c.do /\ ~e.whole
      BY <1>1, <2>1 DEF FileReads
    <2> QED  BY <2>1, <2>2 DEF GoodRead
  <1>3. ASSUME c \in WriteCalls
        PROVE  /\ e \in WriteCalls /\ e.bytes = c.bytes /\ e.done = c.done /\ e.do = c.do /\ ~e.whole
    BY <1>1, <1>3 DEF WriteCalls
  <1>4. ASSUME GoodWrite(c, o, s, w) PROVE GoodWrite(e, o, t, w)
    <2>1. c \in WriteCalls
      BY <1>4 DEF GoodWrite
    <2>2. e \in WriteCalls /\ e.bytes = c.bytes /\ e.done = c.done /\ e.do = c.do /\ ~e.whole
      BY <1>3, <2>1
    <2> QED  BY <1>4, <2>2 DEF GoodWrite
  <1>5. ASSUME c \notin WriteCalls PROVE e \notin WriteCalls
    <2>1. CASE c = NotCalled
      <3>1. DOMAIN e = {"do"}
        BY <1>1, <2>1 DEF NotCalled
      <3> QED  BY <3>1, CallFacts
    <2>2. CASE GoodRead(c, o, s)
      BY <1>2, <2>2, CallFacts DEF GoodRead
    <2>3. CASE GoodWrite(c, o, s, w)
      BY <1>5, <2>3 DEF GoodWrite
    <2> QED  BY <2>1, <2>2, <2>3 DEF GoodCall
  <1>6. c # NotCalled => GoodCall(e, o, t, w)
    BY <1>2, <1>4 DEF GoodCall
  <1> QED  BY <1>1, <1>3, <1>5, <1>6

(* A call that is not in progress does not depend on the position.         *)
LEMMA GoodElsewhere ==
  ASSUME NEW c, NEW o, NEW o2, NEW s, NEW w, GoodCall(c, o, s, w), c.do \in {"none", "returned"}
  PROVE  GoodCall(c, o2, s, w)
  <1>1. Place(c, o2, s) = Place(c, o, s)
    BY DEF Place
  <1> QED  BY <1>1 DEF GoodCall, GoodRead, GoodWrite

(* One turn of write_all: n bytes of b behind the first d, from a on.      *)
Overlaid(s, b, d, a, n) ==
  LET end == a + n
      size == IF end > Len(s) THEN end ELSE Len(s)
  IN [i \in 1 .. size |->
        IF i \in a + 1 .. end THEN b[d + i - a] ELSE IF i <= Len(s) THEN s[i] ELSE 0]

(* What is in it.                                                          *)
IsOverlaid(t, s, b, d, a, n) ==
  /\ t \in FileBytes /\ Len(t) \in Nat /\ Len(t) >= a + n /\ Len(t) >= Len(s)
  /\ a >= Len(s) => Len(t) = a + n
  /\ \A i \in 1 .. n : t[a + i] = b[d + i]
  /\ \A p \in 1 .. Len(s) : p <= a => t[p] = s[p]
  /\ \A p \in 1 .. Len(t) :
       \/ \E i \in 1 .. n : p = a + i
       \/ p \in 1 .. Len(s) /\ t[p] = s[p] /\ (p <= a \/ p > a + n)
       \/ p \notin 1 .. Len(s) /\ t[p] = 0

LEMMA OverlaidFacts ==
  ASSUME NEW s \in FileBytes, NEW b \in FileBytes, NEW d \in Nat, NEW a \in Nat, NEW n \in Nat,
         n > 0, d + n <= Len(b)
  PROVE  IsOverlaid(Overlaid(s, b, d, a, n), s, b, d, a, n)
  <1>1. PICK m \in Nat, k \in Nat : m = Len(s) /\ k = Len(b)
    BY DEF FileBytes
  <1>2. PICK z \in Nat : z = IF a + n > m THEN a + n ELSE m
    <2>1. (IF a + n > m THEN a + n ELSE m) \in Nat
      OBVIOUS
    <2> QED  BY <2>1
  <1>3. PICK t : t = Overlaid(s, b, d, a, n)
    OBVIOUS
  <1>4. t = [i \in 1 .. z |->
               IF i \in a + 1 .. a + n THEN b[d + i - a] ELSE IF i <= m THEN s[i] ELSE 0]
    BY <1>1, <1>2, <1>3 DEF Overlaid
  <1>5. \A i \in 1 .. z : i \in a + 1 .. a + n => d + i - a \in 1 .. k
    BY <1>1
  <1>6. \A i \in 1 .. z : i <= m => i \in 1 .. m
    OBVIOUS
  <1>7. (\A i \in 1 .. k : b[i] \in Nat) /\ (\A i \in 1 .. m : s[i] \in Nat)
    BY <1>1 DEF FileBytes
  <1>8. \A i \in 1 .. z : t[i] \in Nat
    BY <1>4, <1>5, <1>6, <1>7
  <1>9. t \in FileBytes /\ Len(t) = z
    <2>1. t \in [1 .. z -> Nat]
      BY <1>4, <1>8
    <2>2. t \in Seq(Nat)
      BY <2>1
    <2>3. DOMAIN t = 1 .. z
      BY <2>1
    <2> QED  BY <2>2, <2>3 DEF FileBytes
  <1>10. \A i \in 1 .. n : t[a + i] = b[d + i]
    <2>1. \A i \in 1 .. n : a + i \in 1 .. z /\ a + i \in a + 1 .. a + n /\ d + (a + i) - a = d + i
      BY <1>2
    <2> QED  BY <1>4, <2>1
  <1>11. \A p \in 1 .. m : p <= a => t[p] = s[p]
    <2>1. \A p \in 1 .. m : p <= a => p \in 1 .. z /\ p \notin a + 1 .. a + n /\ p <= m
      BY <1>2
    <2> QED  BY <1>4, <2>1
  <1>12. ASSUME NEW p \in 1 .. z
         PROVE  \/ \E i \in 1 .. n : p = a + i
                \/ p \in 1 .. m /\ t[p] = s[p] /\ (p <= a \/ p > a + n)
                \/ p \notin 1 .. m /\ t[p] = 0
    <2>1. CASE p \in a + 1 .. a + n
      <3>1. p - a \in 1 .. n /\ p = a + (p - a)
        BY <2>1
      <3> QED  BY <3>1
    <2>2. CASE p \notin a + 1 .. a + n /\ p <= m
      <3>1. p \in 1 .. m /\ (p <= a \/ p > a + n)
        BY <2>2
      <3>2. t[p] = s[p]
        BY <1>4, <2>2
      <3> QED  BY <3>1, <3>2
    <2>3. CASE p \notin a + 1 .. a + n /\ ~(p <= m)
      <3>1. p \notin 1 .. m
        BY <2>3
      <3>2. t[p] = 0
        BY <1>4, <2>3
      <3> QED  BY <3>1, <3>2
    <2> QED  BY <2>1, <2>2, <2>3
  <1>13. z >= a + n /\ z >= m /\ (a >= m => z = a + n)
    BY <1>2
  <1>14. IsOverlaid(t, s, b, d, a, n)
    BY <1>1, <1>9, <1>10, <1>11, <1>12, <1>13 DEF IsOverlaid
  <1> QED  BY <1>3, <1>14

LEMMA HoldsOverlaid ==
  ASSUME NEW s \in FileBytes, NEW b \in FileBytes, NEW d \in Nat, NEW a \in Nat, NEW n \in Nat,
         n > 0, d + n <= Len(b), HoldsFirst(s, b, d, a),
         \A i \in 1 .. Len(b) : b[i] > 0,
         \A i, j \in 1 .. Len(b) : i < j => b[i] < b[j]
  PROVE  HoldsFirst(Overlaid(s, b, d, a, n), b, d + n, a + n)
  <1>1. PICK m \in Nat, k \in Nat : m = Len(s) /\ k = Len(b)
    BY DEF FileBytes
  <1>2. PICK t : t = Overlaid(s, b, d, a, n)
    OBVIOUS
  <1>3. PICK z \in Nat : z = Len(t) /\ z >= a + n /\ z >= m
    <2>1. Len(t) \in Nat /\ Len(t) >= a + n /\ Len(t) >= m
      BY <1>1, <1>2, OverlaidFacts DEF IsOverlaid
    <2> QED  BY <2>1
  <1>4. /\ \A i \in 1 .. n : t[a + i] = b[d + i]
        /\ \A p \in 1 .. m : p <= a => t[p] = s[p]
        /\ \A p \in 1 .. z : \/ \E i \in 1 .. n : p = a + i
                             \/ p \in 1 .. m /\ t[p] = s[p] /\ (p <= a \/ p > a + n)
                             \/ p \notin 1 .. m /\ t[p] = 0
    <2>1. \A i \in 1 .. n : t[a + i] = b[d + i]
      BY <1>2, OverlaidFacts DEF IsOverlaid
    <2>2. \A p \in 1 .. m : p <= a => t[p] = s[p]
      BY <1>1, <1>2, OverlaidFacts DEF IsOverlaid
    <2>3. \A p \in 1 .. z : \/ \E i \in 1 .. n : p = a + i
                            \/ p \in 1 .. m /\ t[p] = s[p] /\ (p <= a \/ p > a + n)
                            \/ p \notin 1 .. m /\ t[p] = 0
      BY <1>1, <1>2, <1>3, OverlaidFacts DEF IsOverlaid
    <2> QED  BY <2>1, <2>2, <2>3
  <1>5. /\ \A i \in 1 .. k : b[i] \in Nat /\ b[i] > 0
        /\ \A i, j \in 1 .. k : b[i] = b[j] => i = j
    <2>1. \A i \in 1 .. k : b[i] \in Nat /\ b[i] > 0
      BY <1>1 DEF FileBytes
    <2>2. ASSUME NEW i \in 1 .. k, NEW j \in 1 .. k, b[i] = b[j] PROVE i = j
      <3>1. ~(i < j) /\ ~(j < i)
        BY <1>1, <2>1, <2>2
      <3> QED  BY <3>1
    <2> QED  BY <2>1, <2>2
  <1>6. \A i \in 1 .. n : d + i \in 1 .. k
    BY <1>1
  <1>7. /\ \A p \in 1 .. m, i \in 1 .. k : s[p] = b[i] => i <= d /\ p <= a
        /\ \A i \in 1 .. d : \E p \in 1 .. m : s[p] = b[i]
        /\ \A p, q \in 1 .. m, i, j \in 1 .. k : s[p] = b[i] /\ s[q] = b[j] /\ p < q => i < j
    BY <1>1 DEF HoldsFirst
  (* Where a byte of b is now.                                             *)
  <1>8. ASSUME NEW p \in 1 .. z, NEW i \in 1 .. k, t[p] = b[i]
        PROVE  \/ p \in 1 .. m /\ s[p] = b[i] /\ p <= a /\ i <= d
               \/ \E x \in 1 .. n : p = a + x /\ i = d + x
    <2>1. CASE \E x \in 1 .. n : p = a + x
      <3>1. PICK x \in 1 .. n : p = a + x
        BY <2>1
      <3>2. b[d + x] = b[i] /\ d + x \in 1 .. k
        BY <1>4, <1>6, <1>8, <3>1
      <3>3. i = d + x
        BY <1>5, <3>2
      <3> QED  BY <3>1, <3>3
    <2>2. CASE p \in 1 .. m /\ t[p] = s[p]
      <3>1. p \in 1 .. m /\ s[p] = b[i]
        BY <1>8, <2>2
      <3>2. i <= d /\ p <= a
        BY <1>7, <3>1
      <3> QED  BY <3>1, <3>2
    <2>3. CASE t[p] = 0
      <3>1. b[i] \in Nat /\ b[i] > 0 /\ b[i] = 0
        BY <1>5, <1>8, <2>3
      <3> QED  BY <3>1
    <2>4. (\E x \in 1 .. n : p = a + x) \/ (p \in 1 .. m /\ t[p] = s[p]) \/ t[p] = 0
      BY <1>4
    <2> QED  BY <2>1, <2>2, <2>3, <2>4
  <1>9. ASSUME NEW p \in 1 .. z, NEW i \in 1 .. k, t[p] = b[i] PROVE i <= d + n /\ p <= a + n
    <2>1. CASE p <= a /\ i <= d
      BY <2>1
    <2>2. CASE \E x \in 1 .. n : p = a + x /\ i = d + x
      BY <2>2
    <2> QED  BY <1>8, <1>9, <2>1, <2>2
  <1>10. ASSUME NEW i \in 1 .. d + n PROVE \E p \in 1 .. z : t[p] = b[i]
    <2>1. CASE i \in 1 .. d
      <3>1. PICK p \in 1 .. m : s[p] = b[i]
        BY <1>7, <2>1
      <3>2. i \in 1 .. k
        BY <1>1, <2>1
      <3>3. p <= a /\ p \in 1 .. z
        BY <1>3, <1>7, <3>1, <3>2
      <3> QED  BY <1>4, <3>1, <3>3
    <2>2. CASE i \notin 1 .. d
      <3>1. i - d \in 1 .. n /\ d + (i - d) = i /\ a + (i - d) \in 1 .. z
        BY <1>3, <2>2
      <3>2. t[a + (i - d)] = b[d + (i - d)]
        BY <1>4, <3>1
      <3> QED  BY <3>1, <3>2
    <2> QED  BY <2>1, <2>2
  <1>11. ASSUME NEW p \in 1 .. z, NEW q \in 1 .. z, NEW i \in 1 .. k, NEW j \in 1 .. k,
                t[p] = b[i], t[q] = b[j], p < q
         PROVE  i < j
    <2>1. CASE p \in 1 .. m /\ s[p] = b[i] /\ q \in 1 .. m /\ s[q] = b[j]
      BY <1>7, <1>11, <2>1
    <2>2. CASE i <= d /\ \E x \in 1 .. n : q = a + x /\ j = d + x
      BY <2>2
    <2>3. CASE q <= a /\ \E x \in 1 .. n : p = a + x /\ i = d + x
      BY <1>11, <2>3
    <2>4. CASE (\E x \in 1 .. n : p = a + x /\ i = d + x) /\ (\E y \in 1 .. n : q = a + y /\ j = d + y)
      BY <1>11, <2>4
    <2>5. \/ p \in 1 .. m /\ s[p] = b[i] /\ p <= a /\ i <= d
          \/ \E x \in 1 .. n : p = a + x /\ i = d + x
      BY <1>8, <1>11
    <2>6. \/ q \in 1 .. m /\ s[q] = b[j] /\ q <= a /\ j <= d
          \/ \E y \in 1 .. n : q = a + y /\ j = d + y
      BY <1>8, <1>11
    <2> QED  BY <2>1, <2>2, <2>3, <2>4, <2>5, <2>6
  <1>12. HoldsFirst(t, b, d + n, a + n)
    BY <1>1, <1>3, <1>9, <1>10, <1>11 DEF HoldsFirst
  <1> QED  BY <1>2, <1>12

-----------------------------------------------------------------------------
LEMMA OpenFacts ==
  ASSUME NEW asked \in SUBSET Options, "others" \notin AdjustFlags(asked)
  PROVE  LET o == [asked |-> (asked \cap {"read"}) \cup
                               (IF asked \cap {"write", "append"} = {} THEN {} ELSE {"write"}),
                   flags |-> AdjustFlags(asked) \ {"O_TRUNC", "O_CREAT"}, pos |-> 0]
         IN  GoodOpen(o) /\ o # NotOpen
  <1> DEFINE want == (asked \cap {"read"}) \cup
                       (IF asked \cap {"write", "append"} = {} THEN {} ELSE {"write"})
             flags == AdjustFlags(asked) \ {"O_TRUNC", "O_CREAT"}
             bits == {"O_WRONLY", "O_RDWR"}
  <1>1. "others" \notin Access(asked)
    BY DEF AdjustFlags
  <1>2. flags = Access(asked)
    BY <1>1 DEF AdjustFlags, Access
  <1>3. /\ want \in SUBSET {"read", "write"} /\ want # {}
        /\ "read" \in want <=> "read" \in asked
        /\ "write" \in want <=> "write" \in asked \/ "append" \in asked
    BY <1>1 DEF Access
  <1>4. /\ flags \in SUBSET {"O_APPEND", "O_RDWR", "O_WRONLY"}
        /\ "O_WRONLY" \notin flags <=> "read" \in want
        /\ flags \cap bits = {} \/ flags \cap bits = {"O_WRONLY"} \/ flags \cap bits = {"O_RDWR"}
        /\ flags \cap bits = {} <=> "write" \notin want
    BY <1>1, <1>2, <1>3 DEF Access
  <1>5. Cardinality({}) = 0 /\ Cardinality({"O_WRONLY"}) = 1 /\ Cardinality({"O_RDWR"}) = 1
    BY FS_EmptySet, FS_Singleton
  <1>6. Cardinality(flags \cap bits) = 1 <=> "write" \in want
    <2>1. CASE flags \cap bits = {}
      BY <1>4, <1>5, <2>1
    <2>2. CASE flags \cap bits # {}
      BY <1>4, <1>5, <2>2
    <2> QED  BY <2>1, <2>2
  <1> HIDE DEF want, flags
  <1>7. [asked |-> want, flags |-> flags, pos |-> 0] # NotOpen
    BY <1>3 DEF NotOpen
  <1>8. GoodOpen([asked |-> want, flags |-> flags, pos |-> 0])
    BY <1>3, <1>4, <1>6 DEF GoodOpen
  <1> QED  BY <1>7, <1>8 DEF want, flags

LEMMA FilesInitially == FilesInit => FilesInv
  <1> SUFFICES ASSUME FilesInit PROVE FilesInv
    OBVIOUS
  <1>1. /\ content = <<>> /\ written = 0
        /\ opened = [h \in Handles |-> NotOpen] /\ call = [h \in Handles |-> NotCalled]
    BY DEF FilesInit
  <1>2. GoodOpen(NotOpen)
    BY DEF GoodOpen, NotOpen
  <1>3. \A c : Parted(NotCalled, c)
    BY CallFacts DEF Parted
  <1>4. content \in FileBytes /\ \A p \in 1 .. Len(content) : content[p] <= written
    BY <1>1 DEF FileBytes
  <1> QED  BY <1>1, <1>2, <1>3, <1>4 DEF FilesInv, GoodCall

(* The call of h, and how it is open, become c and o, while the file grows *)
(* by nothing of the other calls, and they stay as they are.               *)
LEMMA FilesExtended ==
  ASSUME FilesInv, NEW h \in Handles, NEW o, NEW c,
         opened' = [opened EXCEPT ![h] = o], call' = [call EXCEPT ![h] = c],
         Extends(content, content'), written' \in Nat, written' >= written,
         \A p \in 1 .. Len(content') : content'[p] <= written',
         \A g \in Handles : g # h /\ call[g] \in WriteCalls =>
                              Avoids(content, content', call[g].bytes),
         GoodOpen(o), o = NotOpen => c = NotCalled, GoodCall(c, o, content', written'),
         \A g \in Handles : g # h => Parted(c, call[g])
  PROVE  FilesInv'
  <1>1. PICK w \in Nat, v \in Nat : w = written /\ v = written' /\ w <= v
    BY DEF FilesInv
  <1>2. PICK s \in FileBytes, t \in FileBytes : s = content /\ t = content'
    BY DEF FilesInv, Extends
  <1>3. /\ opened'[h] = o /\ call'[h] = c
        /\ opened' = [g \in Handles |-> opened'[g]] /\ call' = [g \in Handles |-> call'[g]]
        /\ \A g \in Handles : g # h => opened'[g] = opened[g] /\ call'[g] = call[g]
    BY DEF FilesInv
  <1>4. ASSUME NEW g \in Handles, g # h PROVE GoodCall(call[g], opened[g], t, v)
    <2>1. GoodCall(call[g], opened[g], s, w) /\ opened[g].pos \in Nat
      BY <1>1, <1>2 DEF FilesInv, GoodOpen
    <2>2. Extends(s, t) /\ (call[g] \in WriteCalls => Avoids(s, t, call[g].bytes))
      BY <1>2, <1>4
    <2> QED  BY <1>1, <2>1, <2>2, GoodExtended
  <1>5. \A c1, c2 : Parted(c1, c2) => Parted(c2, c1)
    BY DEF Parted
  <1>6. \A g \in Handles :
          /\ GoodOpen(opened'[g]) /\ (opened'[g] = NotOpen => call'[g] = NotCalled)
          /\ GoodCall(call'[g], opened'[g], t, v)
    BY <1>1, <1>2, <1>3, <1>4 DEF FilesInv
  <1>7. \A g, f \in Handles : g # f => Parted(call'[g], call'[f])
    BY <1>3, <1>5 DEF FilesInv
  <1> QED  BY <1>1, <1>2, <1>3, <1>6, <1>7 DEF FilesInv

(* The same when the file stays as it is.                                  *)
LEMMA FilesAlone ==
  ASSUME FilesInv, NEW h \in Handles, NEW o, NEW c,
         opened' = [opened EXCEPT ![h] = o], call' = [call EXCEPT ![h] = c],
         UNCHANGED content, written' \in Nat, written' >= written,
         GoodOpen(o), o = NotOpen => c = NotCalled, GoodCall(c, o, content, written'),
         \A g \in Handles : g # h => Parted(c, call[g])
  PROVE  FilesInv'
  <1>1. PICK w \in Nat, v \in Nat : w = written /\ v = written' /\ w <= v
    BY DEF FilesInv
  <1>2. PICK s \in FileBytes : s = content /\ s = content'
    BY DEF FilesInv
  <1>3. Extends(s, s) /\ \A b : Avoids(s, s, b)
    <2>1. Len(s) \in Nat
      BY DEF FileBytes
    <2>2. \A p \in 1 .. Len(s) : ~(p > Len(s))
      BY <2>1
    <2> QED  BY <2>1, <2>2 DEF Extends, Avoids
  <1>4. \A p \in 1 .. Len(s) : s[p] <= v
    <2>1. \A p \in 1 .. Len(s) : s[p] \in Nat /\ s[p] <= w
      BY <1>1, <1>2 DEF FilesInv, FileBytes
    <2> QED  BY <1>1, <2>1
  <1>5. Extends(content, content') /\ \A p \in 1 .. Len(content') : content'[p] <= written'
    BY <1>1, <1>2, <1>3, <1>4
  <1>6. \A b : Avoids(content, content', b)
    BY <1>2, <1>3
  <1>7. GoodCall(c, o, content', written')
    OBVIOUS
  <1> QED  BY <1>5, <1>6, <1>7, FilesExtended

(* h overwrites or cuts the file, which the others' calls are told.        *)
LEMMA FilesOverwritten ==
  ASSUME FilesInv, NEW h \in Handles, NEW o, NEW c,
         opened' = [opened EXCEPT ![h] = o], call' = [Overwriting(h) EXCEPT ![h] = c],
         UNCHANGED written, content' \in FileBytes,
         \A p \in 1 .. Len(content') : content'[p] <= written,
         GoodOpen(o), o = NotOpen => c = NotCalled, GoodCall(c, o, content', written),
         \A g \in Handles : g # h => Parted(c, call[g])
  PROVE  FilesInv'
  <1>1. PICK w \in Nat : w = written /\ w = written'
    BY DEF FilesInv
  <1>2. PICK t \in FileBytes : t = content'
    OBVIOUS
  <1>3. /\ opened'[h] = o /\ call'[h] = c
        /\ opened' = [g \in Handles |-> opened'[g]] /\ call' = [g \in Handles |-> call'[g]]
        /\ \A g \in Handles : g # h =>
             /\ opened'[g] = opened[g]
             /\ call'[g] = IF Unoccupied(g) THEN NotCalled ELSE [call[g] EXCEPT !.whole = FALSE]
    BY DEF FilesInv, Overwriting
  <1>4. ASSUME NEW g \in Handles, g # h
        PROVE  /\ GoodCall(call'[g], opened[g], t, w)
               /\ call'[g] \in WriteCalls => call[g] \in WriteCalls /\ call'[g].bytes = call[g].bytes
               /\ call[g] = NotCalled => call'[g] = NotCalled
    <2>1. GoodCall(call[g], opened[g], content, w)
      BY <1>1 DEF FilesInv
    <2>2. CASE Unoccupied(g)
      BY <1>3, <1>4, <2>2, CallFacts DEF GoodCall
    <2>3. CASE ~Unoccupied(g)
      <3>1. call[g] # NotCalled /\ call'[g] = [call[g] EXCEPT !.whole = FALSE]
        BY <1>3, <1>4, <2>3, CallFacts DEF Unoccupied
      <3>2. GoodCall(call'[g], opened[g], t, w)
        BY <2>1, <3>1, GoodOverwritten
      <3>3. call[g] \in WriteCalls => call'[g].bytes = call[g].bytes
        BY <2>1, <3>1, GoodOverwritten
      <3>4. call[g] \notin WriteCalls => call'[g] \notin WriteCalls
        <4>1. PICK e : e = call[g]
          OBVIOUS
        <4>2. e \notin WriteCalls => [e EXCEPT !.whole = FALSE] \notin WriteCalls
          BY <2>1, <4>1, GoodOverwritten
        <4> QED  BY <3>1, <4>1, <4>2
      <3> QED  BY <3>1, <3>2, <3>3, <3>4
    <2> QED  BY <2>2, <2>3
  <1>5. \A g \in Handles :
          /\ GoodOpen(opened'[g]) /\ (opened'[g] = NotOpen => call'[g] = NotCalled)
          /\ GoodCall(call'[g], opened'[g], t, w)
    BY <1>1, <1>2, <1>3, <1>4 DEF FilesInv
  <1>6. ASSUME NEW g \in Handles, NEW f \in Handles, g # f PROVE Parted(call'[g], call'[f])
    <2>1. CASE g = h
      BY <1>3, <1>4, <1>6, <2>1, SMTT(30) DEF Parted
    <2>2. CASE f = h
      <3>1. Parted(c, call[g])
        BY <1>6, <2>2
      <3>2. Parted(c, call'[g])
        BY <1>4, <1>6, <2>2, <3>1 DEF Parted
      <3> QED  BY <1>3, <2>2, <3>2 DEF Parted
    <2>3. CASE g # h /\ f # h
      <3>1. Parted(call[g], call[f])
        BY <1>6 DEF FilesInv
      <3> QED  BY <1>4, <2>3, <3>1, SMTT(30) DEF Parted
    <2> QED  BY <2>1, <2>2, <2>3
  <1> QED  BY <1>1, <1>2, <1>3, <1>5, <1>6 DEF FilesInv

LEMMA OpenKeeps ==
  ASSUME FilesInv, NEW h \in Handles, NEW asked \in SUBSET Options, Open(h, asked)
  PROVE  FilesInv'
  <1>1. PICK o : o = [asked |-> (asked \cap {"read"}) \cup
                        (IF asked \cap {"write", "append"} = {} THEN {} ELSE {"write"}),
                      flags |-> AdjustFlags(asked) \ {"O_TRUNC", "O_CREAT"}, pos |-> 0]
    OBVIOUS
  <1>2. "others" \notin AdjustFlags(asked) /\ opened[h] = NotOpen
    BY DEF Open
  <1>3. GoodOpen(o) /\ o # NotOpen
    BY <1>1, <1>2, OpenFacts
  <1>4. call[h] = NotCalled
    BY <1>2 DEF FilesInv
  <1>5. /\ opened' = [opened EXCEPT ![h] = o] /\ written' = written
        /\ \/ content' = <<>> /\ call' = Overwriting(h)
           \/ UNCHANGED <<content, call>>
    BY <1>1 DEF Open
  <1>6. (\A c : Parted(NotCalled, c)) /\ \A s, w : GoodCall(NotCalled, o, s, w)
    BY CallFacts DEF Parted, GoodCall
  <1>7. written \in Nat /\ call = [g \in Handles |-> call[g]]
    BY DEF FilesInv
  <1>8. CASE UNCHANGED <<content, call>>
    <2>1. call' = [call EXCEPT ![h] = NotCalled]
      <3>1. PICK f : f = call
        OBVIOUS
      <3>2. f = [f EXCEPT ![h] = NotCalled]
        BY <1>4, <1>7, <3>1
      <3> QED  BY <1>8, <3>1, <3>2
    <2>2. written' >= written
      BY <1>5, <1>7
    <2> QED  BY <1>3, <1>5, <1>6, <1>7, <1>8, <2>1, <2>2, FilesAlone
  <1>9. CASE content' = <<>> /\ call' = Overwriting(h)
    <2>1. Overwriting(h) = [Overwriting(h) EXCEPT ![h] = NotCalled]
      <3>1. DOMAIN Overwriting(h) = Handles /\ Overwriting(h)[h] = NotCalled
        BY <1>4 DEF Overwriting
      <3> QED  BY <1>4 DEF Overwriting
    <2>2. content' \in FileBytes /\ \A p \in 1 .. Len(content') : content'[p] <= written
      BY <1>9 DEF FileBytes
    <2> QED  BY <1>3, <1>5, <1>6, <1>9, <2>1, <2>2, FilesOverwritten
  <1> QED  BY <1>5, <1>8, <1>9

LEMMA CloseKeeps ==
  ASSUME FilesInv, NEW h \in Handles, CloseFile(h)
  PROVE  FilesInv'
  <1>1. /\ opened' = [opened EXCEPT ![h] = NotOpen] /\ call' = [call EXCEPT ![h] = NotCalled]
        /\ UNCHANGED <<content, written>>
    BY DEF CloseFile
  <1>2. GoodOpen(NotOpen)
    BY DEF GoodOpen, NotOpen
  <1>3. (\A c : Parted(NotCalled, c)) /\ \A o, s, w : GoodCall(NotCalled, o, s, w)
    BY CallFacts DEF Parted, GoodCall
  <1>4. written' \in Nat /\ written' >= written
    BY <1>1 DEF FilesInv
  <1> QED  BY <1>1, <1>2, <1>3, <1>4, FilesAlone

LEMMA SeekKeeps ==
  ASSUME FilesInv, NEW h \in Handles, NEW to \in SeekTo, Seek(h, to)
  PROVE  FilesInv'
  <1>1. PICK o : o = [opened[h] EXCEPT !.pos = to]
    OBVIOUS
  <1>2. /\ opened[h] # NotOpen /\ Unoccupied(h) /\ opened' = [opened EXCEPT ![h] = o]
        /\ UNCHANGED <<call, content, written>>
    BY <1>1 DEF Seek
  <1>3. GoodOpen(opened[h]) /\ GoodCall(call[h], opened[h], content, written)
    BY DEF FilesInv
  <1>4. GoodOpen(o) /\ o # NotOpen
    <2>1. o.asked = opened[h].asked /\ o.flags = opened[h].flags /\ to \in Nat
          /\ o \in [asked : SUBSET {"read", "write"}, flags : SUBSET {"O_APPEND", "O_RDWR", "O_WRONLY"},
                    pos : Nat]
      BY <1>1, <1>3, FilesAssumption DEF GoodOpen
    <2>2. o.asked # {}
      BY <1>2, <1>3, <2>1 DEF GoodOpen
    <2>3. o # NotOpen
      BY <2>2 DEF NotOpen
    <2> QED  BY <1>2, <1>3, <2>1, <2>3 DEF GoodOpen
  <1>5. GoodCall(call[h], o, content, written)
    BY <1>2, <1>3, GoodElsewhere DEF Unoccupied
  <1>6. call' = [call EXCEPT ![h] = call[h]]
    BY <1>2 DEF FilesInv
  <1>7. written' \in Nat /\ written' >= written
    BY <1>2 DEF FilesInv
  <1>8. \A g \in Handles : g # h => Parted(call[h], call[g])
    BY DEF FilesInv
  <1> QED  BY <1>2, <1>4, <1>5, <1>6, <1>7, <1>8, FilesAlone

LEMMA FailKeeps ==
  ASSUME FilesInv, NEW h \in Handles, CallFails(h)
  PROVE  FilesInv'
  <1>1. opened' = [opened EXCEPT ![h] = opened[h]] /\ call' = [call EXCEPT ![h] = NotCalled]
        /\ UNCHANGED <<content, written>>
    BY DEF CallFails, FilesInv
  <1>2. (\A c : Parted(NotCalled, c)) /\ \A o, s, w : GoodCall(NotCalled, o, s, w)
    BY CallFacts DEF Parted, GoodCall
  <1>3. GoodOpen(opened[h]) /\ written' \in Nat /\ written' >= written
    BY <1>1 DEF FilesInv
  <1> QED  BY <1>1, <1>2, <1>3, FilesAlone

LEMMA BeginReadKeeps ==
  ASSUME FilesInv, NEW h \in Handles, BeginReadToEnd(h)
  PROVE  FilesInv'
  <1>1. PICK n \in Nat : n = Len(content)
    BY DEF FilesInv, FileBytes
  <1>2. PICK f \in Nat : f = opened[h].pos
    BY DEF FilesInv, GoodOpen
  <1>3. PICK c : c = IF f > n THEN NotCalled
                     ELSE [do |-> "read", from |-> f, size |-> n, got |-> <<>>, whole |-> TRUE]
    OBVIOUS
  <1>4. /\ opened' = [opened EXCEPT ![h] = opened[h]] /\ call' = [call EXCEPT ![h] = c]
        /\ UNCHANGED <<content, written>> /\ opened[h] # NotOpen
    BY <1>1, <1>2, <1>3 DEF BeginReadToEnd, Readable, FilesInv
  <1>5. ASSUME ~(f > n) PROVE GoodRead(c, opened[h], content) /\ c \in FileReads
    <2>1. c = [do |-> "read", from |-> f, size |-> n, got |-> <<>>, whole |-> TRUE]
      BY <1>3, <1>5
    <2>2. <<>> \in FileBytes /\ Len(<<>>) = 0
      BY DEF FileBytes
    <2>3. c \in FileReads /\ c.got = <<>> /\ c.from = f /\ c.size = n /\ c.do = "read"
      BY <2>1, <2>2 DEF FileReads
    <2>4. f + 0 <= n /\ f + 0 = f /\ n <= n
      BY <1>5
    <2>5. \A i \in 1 .. 0 : c.got[i] = content[f + i]
      OBVIOUS
    <2> QED  BY <1>1, <1>2, <2>2, <2>3, <2>4, <2>5 DEF GoodRead
  <1>6. GoodCall(c, opened[h], content, written) /\ c \notin WriteCalls
    BY <1>3, <1>5, CallFacts DEF GoodCall
  <1>7. \A e : Parted(c, e)
    BY <1>6 DEF Parted
  <1>8. GoodOpen(opened[h]) /\ written' \in Nat /\ written' >= written
    BY <1>4 DEF FilesInv
  <1> QED  BY <1>4, <1>6, <1>7, <1>8, FilesAlone

LEMMA BeginWriteKeeps ==
  ASSUME FilesInv, NEW h \in Handles, NEW n \in 1 .. MaxAtOnce, BeginWriteAll(h, n)
  PROVE  FilesInv'
  <1>1. PICK w \in Nat, v \in Nat : w = written /\ v = written' /\ v = w + n /\ n \in Nat /\ n > 0
    BY FilesAssumption DEF BeginWriteAll, FilesInv
  <1>2. PICK b : b = [i \in 1 .. n |-> w + i]
    OBVIOUS
  <1>3. PICK c : c = [do |-> "write", bytes |-> b, done |-> 0, whole |-> TRUE]
    OBVIOUS
  <1>4. /\ opened' = [opened EXCEPT ![h] = opened[h]] /\ call' = [call EXCEPT ![h] = c]
        /\ UNCHANGED content /\ opened[h] # NotOpen
    BY <1>1, <1>2, <1>3 DEF BeginWriteAll, Writable, FilesInv
  <1>5. b \in FileBytes /\ Len(b) = n /\ \A i \in 1 .. n : b[i] = w + i
    <2>1. b \in [1 .. n -> Nat]
      BY <1>1, <1>2
    <2> QED  BY <1>1, <1>2, <2>1 DEF FileBytes
  <1>6. c \in WriteCalls /\ c.bytes = b /\ c.done = 0 /\ c.do = "write"
    BY <1>3, <1>5 DEF WriteCalls
  <1>7. \A i \in 1 .. n : b[i] \in 1 .. v /\ b[i] > w
    BY <1>1, <1>5
  <1>8. \A i, j \in 1 .. n : i < j => b[i] < b[j]
    BY <1>1, <1>5
  <1>9. \A p \in 1 .. Len(content), i \in 1 .. n : content[p] # b[i]
    <2>1. \A p \in 1 .. Len(content) : content[p] \in Nat /\ content[p] <= w
      BY <1>1 DEF FilesInv, FileBytes
    <2>2. \A x \in Nat, y \in 1 .. v : x <= w /\ y > w => x # y
      OBVIOUS
    <2> QED  BY <1>7, <2>1, <2>2
  <1>10. \A a : HoldsFirst(content, b, 0, a)
    BY <1>5, <1>9 DEF HoldsFirst
  <1>11. GoodCall(c, opened[h], content, v)
    <2>1. 0 <= Len(b)
      BY <1>1, <1>5
    <2> QED  BY <1>5, <1>6, <1>7, <1>8, <1>10, <2>1 DEF GoodCall, GoodWrite
  <1>12. ASSUME NEW g \in Handles, g # h PROVE Parted(c, call[g])
    <2>1. SUFFICES ASSUME call[g] \in WriteCalls PROVE Parted(c, call[g])
      BY DEF Parted
    <2>2. \A j \in 1 .. Len(call[g].bytes) : call[g].bytes[j] \in 1 .. w
      BY <1>1, <2>1, CallFacts DEF FilesInv, GoodCall, GoodRead, GoodWrite
    <2>3. \A x \in 1 .. v, y \in 1 .. w : x > w => x # y
      OBVIOUS
    <2> QED  BY <1>5, <1>6, <1>7, <2>2, <2>3 DEF Parted
  <1>13. GoodOpen(opened[h]) /\ written' \in Nat /\ written' >= written
    BY <1>1 DEF FilesInv
  <1> QED  BY <1>1, <1>4, <1>11, <1>12, <1>13, FilesAlone

IsJoined(r, q, b, l, n) ==
  /\ r \in FileBytes /\ Len(r) = l + n
  /\ \A i \in 1 .. l : r[i] = q[i]
  /\ \A x \in 1 .. n : r[l + x] = b[x]

LEMMA BytesJoin ==
  ASSUME NEW q \in FileBytes, NEW b \in FileBytes, NEW l \in Nat, NEW n \in Nat, l = Len(q), n = Len(b)
  PROVE  IsJoined(q \o b, q, b, l, n)
  <1>1. q \o b \in FileBytes /\ Len(q \o b) = l + n
    BY DEF FileBytes
  <1>2. \A i \in 1 .. l + n : (q \o b)[i] = IF i <= l THEN q[i] ELSE b[i - l]
    BY DEF FileBytes
  <1>3. \A i \in 1 .. l : i \in 1 .. l + n /\ i <= l
    OBVIOUS
  <1>4. \A x \in 1 .. n : l + x \in 1 .. l + n /\ ~(l + x <= l) /\ (l + x) - l = x
    OBVIOUS
  <1> QED  BY <1>1, <1>2, <1>3, <1>4 DEF IsJoined

(* A turn of read_to_end takes n bytes.                                    *)
LEMMA ReadFurther ==
  ASSUME NEW c, NEW o, NEW s \in FileBytes, GoodRead(c, o, s), c.do = "read",
         NEW n \in Nat, n <= c.size - c.from - Len(c.got),
         n <= IF o.pos > Len(s) THEN 0 ELSE Len(s) - o.pos,
         n = 0 => \/ c.size - c.from - Len(c.got) = 0
                  \/ (IF o.pos > Len(s) THEN 0 ELSE Len(s) - o.pos) = 0,
         NEW d, d = IF n = 0 \/ n = c.size - c.from - Len(c.got) THEN "returned" ELSE "read",
         NEW p, p.pos = o.pos + n
  PROVE  GoodRead([Took(c, SubSeq(s, o.pos + 1, o.pos + n)) EXCEPT !.do = d], p, s)
  <1>1. PICK f \in Nat, l \in Nat, z \in Nat :
          f = c.from /\ l = Len(c.got) /\ z = c.size /\ f + l <= z /\ o.pos = f + l
    BY DEF GoodRead, FileReads, FileBytes
  <1>2. PICK m \in Nat : m = Len(s)
    BY DEF FileBytes
  <1>3. PICK b : b = SubSeq(s, f + l + 1, f + l + n)
    OBVIOUS
  <1>4. b \in FileBytes /\ Len(b) = n /\ \A x \in 1 .. n : b[x] = s[f + l + x]
    <2>1. CASE n = 0
      <3>1. b = <<>>
        BY <1>1, <1>3, <2>1, SMTT(30) DEF FileBytes
      <3> QED  BY <2>1, <3>1 DEF FileBytes
    <2>2. CASE n # 0
      <3>1. f + l + n <= m
        BY <1>1, <1>2, <2>2
      <3>2. b \in FileBytes /\ Len(b) = n
        BY <1>2, <1>3, <2>2, <3>1 DEF FileBytes
      <3>3. \A x \in 1 .. n : b[x] = s[(f + l + 1) + x - 1]
        BY <1>2, <1>3, <2>2, <3>1 DEF FileBytes
      <3>4. \A x \in 1 .. n : (f + l + 1) + x - 1 = f + l + x
        OBVIOUS
      <3> QED  BY <3>2, <3>3, <3>4
    <2> QED  BY <2>1, <2>2
  <1>5. PICK g : g = c.got \o b
    OBVIOUS
  <1>6. /\ c.got \in FileBytes /\ g \in FileBytes /\ Len(g) = l + n
        /\ \A i \in 1 .. l : g[i] = c.got[i]
        /\ \A x \in 1 .. n : g[l + x] = b[x]
    <2>1. PICK q \in FileBytes : q = c.got
      BY DEF GoodRead, FileReads
    <2>2. g = q \o b /\ Len(q) = l /\ Len(b) = n
      BY <1>1, <1>4, <1>5, <2>1
    <2>3. b \in FileBytes
      BY <1>4
    <2>4. IsJoined(g, q, b, l, n)
      BY <2>1, <2>2, <2>3, BytesJoin
    <2> QED  BY <2>1, <2>4 DEF IsJoined
  <1>7. PICK e : e = [Took(c, b) EXCEPT !.do = d]
    OBVIOUS
  <1>8. e \in FileReads /\ e.got = g /\ e.from = f /\ e.size = z /\ e.do = d /\ e.whole = c.whole
    <2>1. c \in FileReads /\ d \in {"read", "returned"}
      BY DEF GoodRead
    <2>2. e = [c EXCEPT !.got = g, !.do = d]
      BY <1>5, <1>7 DEF Took
    <2> QED  BY <1>1, <1>6, <2>1, <2>2 DEF FileReads
  <1>9. n <= z - f - l /\ f + (l + n) <= z /\ p.pos = f + (l + n)
    <2>1. n <= z - f - l /\ p.pos = (f + l) + n
      BY <1>1
    <2>2. f + (l + n) <= z /\ f + (l + n) = (f + l) + n
      BY <2>1
    <2> QED  BY <2>1, <2>2
  <1>10. ASSUME c.whole
         PROVE  /\ z <= m
                /\ \A i \in 1 .. l + n : g[i] = s[f + i]
                /\ d = "returned" => l + n = z - f
    <2>1. z <= m /\ \A i \in 1 .. l : c.got[i] = s[f + i]
      BY <1>1, <1>2, <1>10 DEF GoodRead
    <2>2. ASSUME NEW i \in 1 .. l + n PROVE g[i] = s[f + i]
      <3>1. CASE i \in 1 .. l
        BY <1>6, <2>1, <3>1
      <3>2. CASE i \notin 1 .. l
        <4>1. i - l \in 1 .. n /\ l + (i - l) = i /\ f + l + (i - l) = f + i
          BY <3>2
        <4>2. g[l + (i - l)] = s[f + l + (i - l)]
          BY <1>4, <1>6, <4>1
        <4> QED  BY <4>1, <4>2
      <3> QED  BY <3>1, <3>2
    <2>3. d = "returned" => l + n = z - f
      <3>1. n = 0 => z - f - l = 0
        <4>1. n = 0 => z - f - l = 0 \/ (IF f + l > m THEN 0 ELSE m - (f + l)) = 0
          BY <1>1, <1>2
        <4>2. (IF f + l > m THEN 0 ELSE m - (f + l)) = 0 => z - f - l = 0
          <5>1. f + l <= z /\ z <= m
            BY <1>1, <2>1
          <5> QED  BY <5>1
        <4> QED  BY <4>1, <4>2
      <3>2. d = "returned" => n = 0 \/ n = z - f - l
        BY <1>1
      <3>3. n = z - f - l => l + n = z - f
        OBVIOUS
      <3> QED  BY <3>1, <3>2, <3>3
    <2> QED  BY <2>1, <2>2, <2>3
  <1>11. GoodRead(e, p, s)
    BY <1>2, <1>6, <1>8, <1>9, <1>10 DEF GoodRead
  <1>12. SubSeq(s, o.pos + 1, o.pos + n) = b
    BY <1>1, <1>3
  <1> QED  BY <1>7, <1>11, <1>12

LEMMA ReadKeeps ==
  ASSUME FilesInv, NEW h \in Handles, ReadSome(h)
  PROVE  FilesInv'
  <1>1. PICK c, o, s : c = call[h] /\ o = opened[h] /\ s = content
    OBVIOUS
  <1>2. /\ s \in FileBytes /\ GoodOpen(o) /\ o # NotOpen /\ GoodRead(c, o, s) /\ c.do = "read"
    <2>1. GoodCall(c, o, s, written) /\ GoodOpen(o) /\ s \in FileBytes /\ (o = NotOpen => c = NotCalled)
      BY <1>1 DEF FilesInv
    <2>2. c.do = "read"
      BY <1>1 DEF ReadSome
    <2>3. c # NotCalled /\ c \notin WriteCalls
      BY <2>2, CallFacts DEF WriteCalls
    <2> QED  BY <2>1, <2>2, <2>3 DEF GoodCall, GoodWrite
  <1>3. PICK n \in 0 .. c.size - c.from - Len(c.got) :
          /\ n <= IF o.pos > Len(s) THEN 0 ELSE Len(s) - o.pos
          /\ n = 0 => \/ c.size - c.from - Len(c.got) = 0
                      \/ (IF o.pos > Len(s) THEN 0 ELSE Len(s) - o.pos) = 0
          /\ opened' = [opened EXCEPT ![h].pos = o.pos + n]
          /\ call' = [call EXCEPT ![h] =
               [Took(c, SubSeq(s, o.pos + 1, o.pos + n)) EXCEPT
                  !.do = IF n = 0 \/ n = c.size - c.from - Len(c.got) THEN "returned" ELSE "read"]]
    BY <1>1 DEF ReadSome
  <1>4. UNCHANGED <<content, written>>
    BY DEF ReadSome
  <1>5. c.size - c.from - Len(c.got) \in Int
    BY <1>2 DEF GoodRead, FileReads, FileBytes
  <1>6. n \in Nat /\ n <= c.size - c.from - Len(c.got)
    BY <1>5
  <1>7. PICK p : p = [o EXCEPT !.pos = @ + n]
    OBVIOUS
  <1>8. o.pos \in Nat /\ p.pos = o.pos + n /\ GoodOpen(p) /\ p # NotOpen
    <2>1. /\ p.asked = o.asked /\ p.flags = o.flags /\ p.pos = o.pos + n /\ o.pos \in Nat
          /\ p \in [asked : SUBSET {"read", "write"}, flags : SUBSET {"O_APPEND", "O_RDWR", "O_WRONLY"},
                    pos : Nat]
      BY <1>2, <1>6, <1>7 DEF GoodOpen
    <2>2. p # NotOpen
      BY <1>2, <2>1 DEF NotOpen, GoodOpen
    <2> QED  BY <1>2, <2>1, <2>2 DEF GoodOpen
  <1>9. PICK d : d = IF n = 0 \/ n = c.size - c.from - Len(c.got) THEN "returned" ELSE "read"
    OBVIOUS
  <1>10. PICK e : e = [Took(c, SubSeq(s, o.pos + 1, o.pos + n)) EXCEPT !.do = d]
    OBVIOUS
  <1>11. GoodRead(e, p, s)
    BY <1>2, <1>3, <1>6, <1>8, <1>9, <1>10, ReadFurther
  <1>12. opened' = [opened EXCEPT ![h] = p] /\ call' = [call EXCEPT ![h] = e]
    BY <1>1, <1>3, <1>7, <1>9, <1>10
  <1>13. GoodCall(e, p, content, written') /\ \A x : Parted(e, x)
    BY <1>1, <1>11, CallFacts DEF GoodCall, GoodRead, Parted
  <1>14. written' \in Nat /\ written' >= written
    BY <1>4 DEF FilesInv
  <1> QED  BY <1>4, <1>8, <1>12, <1>13, <1>14, FilesAlone

LEMMA HoldsFurther ==
  ASSUME NEW s \in FileBytes, NEW b, NEW d, NEW a \in Nat, HoldsFirst(s, b, d, a), NEW z \in Nat,
         a <= z
  PROVE  HoldsFirst(s, b, d, z)
  <1>1. \A p \in 1 .. Len(s) : p <= a => p <= z
    OBVIOUS
  <1> QED  BY <1>1 DEF HoldsFirst

(* A turn of write_all puts n bytes.                                       *)
Advanced(c, n) ==
  [c EXCEPT !.done = @ + n, !.do = IF c.done + n = Len(c.bytes) THEN "returned" ELSE @]

LEMMA WriteFurther ==
  ASSUME NEW c, NEW o, NEW s \in FileBytes, NEW w \in Nat, GoodWrite(c, o, s, w), c.do = "write",
         Place(c, o, s) \in Nat, NEW n \in Nat, n > 0, n <= Len(c.bytes) - c.done,
         NEW p, p.pos = Place(c, o, s) + n, p.flags = o.flags
  PROVE  GoodWrite(Advanced(c, n), p, Overlaid(s, c.bytes, c.done, Place(c, o, s), n), w)
  <1>0. PICK a, t, e : /\ a \in Nat /\ a = Place(c, o, s) /\ e = Advanced(c, n)
                       /\ t = Overlaid(s, c.bytes, c.done, a, n)
    OBVIOUS
  <1>1. PICK b \in FileBytes, d \in Nat : b = c.bytes /\ d = c.done
    BY DEF GoodWrite, WriteCalls
  <1>2. PICK k \in Nat : k = Len(b) /\ d + n <= k
    <2>1. \A x \in Nat : n <= x - d => d + n <= x
      OBVIOUS
    <2>2. Len(b) \in Nat /\ n <= Len(b) - d
      BY <1>1 DEF FileBytes
    <2> QED  BY <2>1, <2>2
  <1>3. /\ t \in FileBytes /\ Len(t) \in Nat /\ Len(t) >= a + n /\ (a >= Len(s) => Len(t) = a + n)
    <2>1. IsOverlaid(t, s, b, d, a, n)
      BY <1>0, <1>1, <1>2, OverlaidFacts
    <2> QED  BY <1>0, <2>1 DEF IsOverlaid
  <1>4. c \in WriteCalls
    BY DEF GoodWrite
  <1>5. e \in WriteCalls /\ e.bytes = b /\ e.done = d + n /\ e.whole = c.whole
        /\ e.do = IF d + n = k THEN "returned" ELSE "write"
    <2>1. PICK x \in {"write", "returned"} : x = IF d + n = k THEN "returned" ELSE "write"
      OBVIOUS
    <2>2. e = [c EXCEPT !.done = d + n, !.do = x]
      BY <1>0, <1>1, <1>2, <2>1 DEF Advanced
    <2>3. d + n \in Nat
      OBVIOUS
    <2> QED  BY <1>1, <1>4, <2>1, <2>2, <2>3 DEF WriteCalls
  <1>6. /\ \A i \in 1 .. k : b[i] \in 1 .. w
        /\ \A i, j \in 1 .. k : i < j => b[i] < b[j]
    BY <1>1, <1>2 DEF GoodWrite
  <1>7. Place(e, p, t) \in Nat /\ a + n <= Place(e, p, t)
    <2>1. CASE e.do = "write" /\ "O_APPEND" \notin p.flags
      BY <1>0, <2>1 DEF Place
    <2>2. CASE ~(e.do = "write" /\ "O_APPEND" \notin p.flags)
      BY <1>0, <1>3, <2>2 DEF Place
    <2> QED  BY <2>1, <2>2
  <1>8. ASSUME c.whole PROVE HoldsFirst(t, b, d + n, Place(e, p, t))
    <2>1. HoldsFirst(s, b, d, a)
      BY <1>0, <1>1, <1>8 DEF GoodWrite
    <2>2. \A i \in 1 .. k : b[i] > 0
      BY <1>6
    <2>3. HoldsFirst(t, b, d + n, a + n)
      BY <1>0, <1>1, <1>2, <1>6, <2>1, <2>2, HoldsOverlaid
    <2>4. a + n \in Nat
      BY <1>0
    <2> QED  BY <1>3, <1>7, <2>3, <2>4, HoldsFurther
  <1>9. GoodWrite(e, p, t, w)
    BY <1>2, <1>5, <1>6, <1>8 DEF GoodWrite
  <1> QED  BY <1>0, <1>9

LEMMA WriteKeeps ==
  ASSUME FilesInv, NEW h \in Handles, WriteSome(h)
  PROVE  FilesInv'
  <1>1. PICK c, o, s : c = call[h] /\ o = opened[h] /\ s = content
    OBVIOUS
  <1>2. PICK w \in Nat : w = written /\ w = written'
    BY DEF FilesInv, WriteSome
  <1>3. /\ s \in FileBytes /\ GoodOpen(o) /\ o # NotOpen /\ GoodWrite(c, o, s, w) /\ c.do = "write"
    <2>1. GoodCall(c, o, s, w) /\ GoodOpen(o) /\ s \in FileBytes /\ (o = NotOpen => c = NotCalled)
      BY <1>1, <1>2 DEF FilesInv
    <2>2. c.do = "write"
      BY <1>1 DEF WriteSome
    <2>3. c # NotCalled /\ c \notin FileReads
      BY <2>2, CallFacts DEF FileReads
    <2> QED  BY <2>1, <2>2, <2>3 DEF GoodCall, GoodRead
  <1>4. PICK a \in Nat : a = Place(c, o, s) /\ a = IF "O_APPEND" \in o.flags THEN Len(s) ELSE o.pos
    <2>1. Place(c, o, s) = IF "O_APPEND" \in o.flags THEN Len(s) ELSE o.pos
      BY <1>3 DEF Place
    <2>2. o.pos \in Nat /\ Len(s) \in Nat
      BY <1>3 DEF GoodOpen, FileBytes
    <2> QED  BY <2>1, <2>2
  <1>5. PICK n \in 1 .. Len(c.bytes) - c.done :
          /\ content' = Overlaid(s, c.bytes, c.done, a, n)
          /\ opened' = [opened EXCEPT ![h].pos = a + n]
          /\ call' = [(IF a < Len(s) THEN Overwriting(h) ELSE call) EXCEPT ![h] =
               [c EXCEPT !.done = @ + n,
                         !.do = IF c.done + n = Len(c.bytes) THEN "returned" ELSE @]]
    <2>1. a = IF Appends(h) THEN Len(content) ELSE opened[h].pos
      BY <1>1, <1>4 DEF Appends
    <2>2. \E n \in 1 .. Len(call[h].bytes) - call[h].done :
            /\ content' = Overlaid(content, call[h].bytes, call[h].done, a, n)
            /\ opened' = [opened EXCEPT ![h].pos = a + n]
            /\ call' = [(IF a < Len(content) THEN Overwriting(h) ELSE call) EXCEPT ![h] =
                 [call[h] EXCEPT !.done = @ + n,
                    !.do = IF call[h].done + n = Len(call[h].bytes) THEN "returned" ELSE @]]
      BY <2>1, ZenonT(40) DEF WriteSome, Overlaid
    <2> QED  BY <1>1, <2>2
  <1>6. n \in Nat /\ n > 0 /\ n <= Len(c.bytes) - c.done
    <2>1. Len(c.bytes) - c.done \in Int
      BY <1>3 DEF GoodWrite, WriteCalls, FileBytes
    <2> QED  BY <2>1
  <1>7. PICK p : p = [o EXCEPT !.pos = a + n]
    OBVIOUS
  <1>8. p.pos = a + n /\ p.flags = o.flags /\ GoodOpen(p) /\ p # NotOpen
    <2>1. /\ p.asked = o.asked /\ p.flags = o.flags /\ p.pos = a + n
          /\ p \in [asked : SUBSET {"read", "write"}, flags : SUBSET {"O_APPEND", "O_RDWR", "O_WRONLY"},
                    pos : Nat]
      BY <1>3, <1>6, <1>7 DEF GoodOpen
    <2>2. p # NotOpen
      BY <1>3, <2>1 DEF NotOpen, GoodOpen
    <2> QED  BY <1>3, <2>1, <2>2 DEF GoodOpen
  <1>9. PICK e : e = Advanced(c, n)
    OBVIOUS
  <1>10. PICK t : t = Overlaid(s, c.bytes, c.done, a, n) /\ t = content'
    BY <1>5
  <1>11. GoodWrite(e, p, t, w) /\ e.bytes = c.bytes
    <2>1. GoodWrite(Advanced(c, n), p, Overlaid(s, c.bytes, c.done, Place(c, o, s), n), w)
      <3>1. Place(c, o, s) \in Nat /\ p.pos = Place(c, o, s) + n /\ p.flags = o.flags
        BY <1>4, <1>8
      <3> QED  BY <1>3, <1>6, <3>1, WriteFurther
    <2>2. e.bytes = c.bytes
      BY <1>3, <1>9 DEF Advanced, GoodWrite, WriteCalls
    <2> QED  BY <1>4, <1>9, <1>10, <2>1, <2>2
  <1>12. opened' = [opened EXCEPT ![h] = p]
    BY <1>1, <1>5, <1>7
  <1>13. PICK b \in FileBytes, d \in Nat, k \in Nat :
           b = c.bytes /\ d = c.done /\ k = Len(b) /\ d + n <= k /\ \A i \in 1 .. k : b[i] \in 1 .. w
    <2>1. c.bytes \in FileBytes /\ c.done \in Nat /\ \A i \in 1 .. Len(c.bytes) : c.bytes[i] \in 1 .. w
      BY <1>3 DEF GoodWrite, WriteCalls
    <2>2. \A x, y \in Nat : n <= x - y => y + n <= x
      BY <1>6
    <2>3. Len(c.bytes) \in Nat
      BY <2>1 DEF FileBytes
    <2> QED  BY <1>6, <2>1, <2>2, <2>3
  <1>14. t \in FileBytes /\ Len(t) >= Len(s) /\ IsOverlaid(t, s, b, d, a, n)
    <2>1. IsOverlaid(t, s, b, d, a, n)
      BY <1>3, <1>6, <1>10, <1>13, OverlaidFacts, ZenonT(40)
    <2> QED  BY <2>1 DEF IsOverlaid
  <1>15. \A i \in 1 .. n : d + i \in 1 .. k
    BY <1>6, <1>13
  (* Every byte of the new file is one of the call's, an old one, or 0.    *)
  <1>16. \A q \in 1 .. Len(t) : \/ \E i \in 1 .. n : q = a + i /\ t[q] = b[d + i]
                                \/ q \in 1 .. Len(s) /\ t[q] = s[q]
                                \/ q \notin 1 .. Len(s) /\ t[q] = 0
    <2>1. \A i \in 1 .. n : t[a + i] = b[d + i]
      BY <1>14 DEF IsOverlaid
    <2>2. \A q \in 1 .. Len(t) : \/ \E i \in 1 .. n : q = a + i
                                 \/ q \in 1 .. Len(s) /\ t[q] = s[q] /\ (q <= a \/ q > a + n)
                                 \/ q \notin 1 .. Len(s) /\ t[q] = 0
      BY <1>14 DEF IsOverlaid
    <2> QED  BY <2>1, <2>2
  <1>17. ASSUME NEW q \in 1 .. Len(t) PROVE t[q] <= w
    <2>1. CASE \E i \in 1 .. n : t[q] = b[d + i]
      <3>1. t[q] \in 1 .. w
        BY <1>13, <1>15, <2>1
      <3> QED  BY <3>1
    <2>2. CASE q \in 1 .. Len(s) /\ t[q] = s[q]
      BY <1>1, <1>2, <2>2 DEF FilesInv
    <2>3. CASE t[q] = 0
      BY <2>3
    <2> QED  BY <1>16, <2>1, <2>2, <2>3
  <1>18. ASSUME NEW g \in Handles, g # h PROVE Parted(e, call[g])
    <2>1. Parted(c, call[g]) /\ c \in WriteCalls
      BY <1>1, <1>3, <1>18 DEF FilesInv, GoodWrite
    <2> QED  BY <1>11, <2>1 DEF Parted
  <1>19. GoodCall(e, p, content', written) /\ GoodCall(e, p, content', written')
    BY <1>2, <1>10, <1>11 DEF GoodCall
  <1>20. CASE a < Len(s)
    <2>1. call' = [Overwriting(h) EXCEPT ![h] = e]
      BY <1>5, <1>9, <1>20 DEF Advanced
    <2>2. content' \in FileBytes /\ UNCHANGED written
      BY <1>2, <1>10, <1>14
    <2>3. \A q \in 1 .. Len(content') : content'[q] <= written
      BY <1>2, <1>10, <1>17
    <2> QED  BY <1>8, <1>12, <1>18, <1>19, <2>1, <2>2, <2>3, FilesOverwritten
  <1>21. CASE ~(a < Len(s))
    <2>1. call' = [call EXCEPT ![h] = e]
      BY <1>5, <1>9, <1>21 DEF Advanced
    <2>2. \A q \in 1 .. Len(s) : q <= a
      <3>1. Len(s) \in Nat
        BY <1>3 DEF FileBytes
      <3> QED  BY <1>21, <3>1
    <2>3. Extends(s, t)
      <3>1. \A q \in 1 .. Len(s) : t[q] = s[q]
        BY <1>14, <2>2 DEF IsOverlaid
      <3>2. Len(s) <= Len(t)
        BY <1>3, <1>14 DEF FileBytes
      <3> QED  BY <1>3, <1>14, <3>1, <3>2 DEF Extends
    <2>4. ASSUME NEW g \in Handles, g # h, call[g] \in WriteCalls
          PROVE  Avoids(s, t, call[g].bytes)
      <3>1. \A j \in 1 .. Len(call[g].bytes) : call[g].bytes[j] \in 1 .. w
        BY <1>2, <2>4, CallFacts DEF FilesInv, GoodCall, GoodRead, GoodWrite
      <3>2. \A i \in 1 .. k, j \in 1 .. Len(call[g].bytes) : b[i] # call[g].bytes[j]
        <4>1. Parted(c, call[g]) /\ c \in WriteCalls
          BY <1>1, <1>3, <2>4 DEF FilesInv, GoodWrite
        <4> QED  BY <1>13, <2>4, <4>1 DEF Parted
      <3>3. ASSUME NEW q \in 1 .. Len(t), q > Len(s), NEW j \in 1 .. Len(call[g].bytes)
            PROVE  t[q] # call[g].bytes[j]
        <4>1. q \notin 1 .. Len(s)
          <5>1. Len(s) \in Nat
            BY <1>3 DEF FileBytes
          <5> QED  BY <3>3, <5>1
        <4>2. CASE \E i \in 1 .. n : t[q] = b[d + i]
          BY <1>15, <3>2, <4>2
        <4>3. CASE t[q] = 0
          <5>1. 0 \notin 1 .. w
            OBVIOUS
          <5> QED  BY <3>1, <4>3, <5>1
        <4> QED  BY <1>16, <4>1, <4>2, <4>3
      <3> QED  BY <3>3 DEF Avoids
    <2>5. Extends(content, content') /\ written' \in Nat /\ written' >= written
      BY <1>1, <1>2, <1>10, <2>3
    <2>6. \A g \in Handles : g # h /\ call[g] \in WriteCalls => Avoids(content, content', call[g].bytes)
      BY <1>1, <1>10, <2>4
    <2>7. \A q \in 1 .. Len(content') : content'[q] <= written'
      BY <1>2, <1>10, <1>17
    <2> QED  BY <1>8, <1>12, <1>18, <1>19, <2>1, <2>5, <2>6, <2>7, FilesExtended
  <1> QED  BY <1>20, <1>21

LEMMA FilesStep == FilesInv /\ [FilesNext]_filesVars => FilesInv'
  <1> SUFFICES ASSUME FilesInv, [FilesNext]_filesVars PROVE FilesInv'
    OBVIOUS
  <1>1. CASE UNCHANGED filesVars
    BY <1>1 DEF FilesInv, filesVars
  <1>2. ASSUME NEW h \in Handles, NEW asked \in SUBSET Options, Open(h, asked) PROVE FilesInv'
    BY <1>2, OpenKeeps
  <1>3. ASSUME NEW h \in Handles, CloseFile(h) PROVE FilesInv'
    BY <1>3, CloseKeeps
  <1>4. ASSUME NEW h \in Handles, BeginReadToEnd(h) PROVE FilesInv'
    BY <1>4, BeginReadKeeps
  <1>5. ASSUME NEW h \in Handles, ReadSome(h) PROVE FilesInv'
    BY <1>5, ReadKeeps
  <1>6. ASSUME NEW h \in Handles, WriteSome(h) PROVE FilesInv'
    BY <1>6, WriteKeeps
  <1>7. ASSUME NEW h \in Handles, CallFails(h) PROVE FilesInv'
    BY <1>7, FailKeeps
  <1>8. ASSUME NEW h \in Handles, NEW to \in SeekTo, Seek(h, to) PROVE FilesInv'
    BY <1>8, SeekKeeps
  <1>9. ASSUME NEW h \in Handles, NEW n \in 1 .. MaxAtOnce, BeginWriteAll(h, n) PROVE FilesInv'
    BY <1>9, BeginWriteKeeps
  <1> QED  BY <1>1, <1>2, <1>3, <1>4, <1>5, <1>6, <1>7, <1>8, <1>9 DEF FilesNext

LEMMA PartOf ==
  ASSUME NEW s \in FileBytes, NEW f \in Nat, NEW l \in Nat, f + l <= Len(s)
  PROVE  /\ SubSeq(s, f + 1, f + l) \in FileBytes /\ Len(SubSeq(s, f + 1, f + l)) = l
         /\ \A i \in 1 .. l : SubSeq(s, f + 1, f + l)[i] = s[f + i]
  <1>1. PICK m \in Nat : m = Len(s) /\ f + l <= m
    BY DEF FileBytes
  <1>2. PICK b : b = SubSeq(s, f + 1, f + l)
    OBVIOUS
  <1>3. CASE l = 0
    <2>1. b = <<>>
      BY <1>1, <1>2, <1>3 DEF FileBytes
    <2> QED  BY <1>2, <1>3, <2>1 DEF FileBytes
  <1>4. CASE l # 0
    <2>1. b \in FileBytes /\ Len(b) = l
      BY <1>1, <1>2, <1>4 DEF FileBytes
    <2>2. \A i \in 1 .. l : b[i] = s[(f + 1) + i - 1]
      BY <1>1, <1>2, <1>4 DEF FileBytes
    <2>3. \A i \in 1 .. l : (f + 1) + i - 1 = f + i
      OBVIOUS
    <2> QED  BY <1>2, <2>1, <2>2, <2>3
  <1> QED  BY <1>3, <1>4

LEMMA SameBytes ==
  ASSUME NEW s \in FileBytes, NEW t \in FileBytes, Len(s) = Len(t),
         \A i \in 1 .. Len(s) : s[i] = t[i]
  PROVE  s = t
  BY SeqEqual DEF FileBytes

LEMMA FilesWhole ==
  ASSUME FilesInv, making.do = "made" => dirs = Depth
  PROVE  ReadsAndWritesWhole
  <1>1. ASSUME NEW h \in Handles, NEW c, c = call[h], Gets(c), c.whole
        PROVE  /\ c.got = SubSeq(content, c.from + 1, c.from + Len(c.got))
               /\ c.do = "returned" => Len(c.got) = c.size - c.from
    <2>1. GoodRead(c, opened[h], content) /\ content \in FileBytes
      <3>1. GoodCall(c, opened[h], content, written) /\ content \in FileBytes
        BY <1>1 DEF FilesInv
      <3>2. c # NotCalled
        BY <1>1, CallFacts DEF Gets
      <3>3. c \notin WriteCalls
        <4>1. ASSUME c \in WriteCalls PROVE FALSE
          <5>1. c.do \in {"write", "returned"} /\ "got" \notin DOMAIN c
            BY <4>1, CallFacts DEF WriteCalls
          <5> QED  BY <1>1, <5>1 DEF Gets
        <4> QED  BY <4>1
      <3> QED  BY <3>1, <3>2, <3>3 DEF GoodCall, GoodWrite
    <2>2. PICK g \in FileBytes, s \in FileBytes : g = c.got /\ s = content
      BY <2>1 DEF GoodRead, FileReads
    <2>3. PICK f \in Nat, l \in Nat, m \in Nat : f = c.from /\ l = Len(g) /\ m = Len(s) /\ f + l <= m
      <3>1. c.from \in Nat /\ c.size \in Nat /\ Len(g) \in Nat /\ Len(s) \in Nat
        BY <2>1, <2>2 DEF GoodRead, FileReads, FileBytes
      <3>2. c.from + Len(g) <= c.size /\ c.size <= Len(s)
        BY <1>1, <2>1, <2>2 DEF GoodRead
      <3>3. c.from + Len(g) <= Len(s)
        BY <3>1, <3>2
      <3> QED  BY <3>1, <3>3
    <2>4. \A i \in 1 .. l : g[i] = s[f + i]
      BY <1>1, <2>1, <2>2, <2>3 DEF GoodRead
    <2>5. SubSeq(s, f + 1, f + l) = g
      <3>1. PICK b : b = SubSeq(s, f + 1, f + l)
        OBVIOUS
      <3>2. b \in FileBytes /\ Len(b) = l /\ \A i \in 1 .. l : b[i] = s[f + i]
        <4>1. f + l <= Len(s)
          BY <2>3
        <4> QED  BY <3>1, <4>1, PartOf
      <3>3. Len(b) = Len(g) /\ \A i \in 1 .. Len(b) : b[i] = g[i]
        BY <2>3, <2>4, <3>2
      <3> QED  BY <3>1, <3>2, <3>3, SameBytes
    <2>6. c.do = "returned" => Len(c.got) = c.size - c.from
      BY <1>1, <2>1 DEF GoodRead
    <2> QED  BY <2>2, <2>3, <2>5, <2>6
  <1>2. ASSUME NEW h \in Handles, NEW c, c = call[h], Puts(c), c.whole
        PROVE  /\ {content[p] : p \in Among(c.bytes)} = {c.bytes[i] : i \in 1 .. c.done}
               /\ \A p, q \in Among(c.bytes) : p < q => content[p] < content[q]
               /\ c.do = "returned" => c.done = Len(c.bytes)
    <2>1. GoodWrite(c, opened[h], content, written) /\ content \in FileBytes
      <3>1. GoodCall(c, opened[h], content, written) /\ content \in FileBytes
        BY <1>2 DEF FilesInv
      <3>2. c # NotCalled
        BY <1>2, CallFacts DEF Puts
      <3>3. c \notin FileReads
        <4>1. ASSUME c \in FileReads PROVE FALSE
          <5>1. c.do \in {"read", "returned"} /\ "bytes" \notin DOMAIN c
            BY <4>1, CallFacts DEF FileReads
          <5> QED  BY <1>2, <5>1 DEF Puts
        <4> QED  BY <4>1
      <3> QED  BY <3>1, <3>2, <3>3 DEF GoodCall, GoodRead
    <2>2. PICK b \in FileBytes, s \in FileBytes, d \in Nat : b = c.bytes /\ s = content /\ d = c.done
      BY <2>1 DEF GoodWrite, WriteCalls
    <2>3. PICK k \in Nat : k = Len(b) /\ d <= k /\ DOMAIN b = 1 .. k /\ DOMAIN s = 1 .. Len(s)
      BY <2>1, <2>2 DEF GoodWrite, FileBytes
    <2>4. HoldsFirst(s, b, d, Place(c, opened[h], s))
      BY <1>2, <2>1, <2>2 DEF GoodWrite
    <2>5. Among(b) = {p \in 1 .. Len(s) : \E i \in 1 .. k : s[p] = b[i]}
      BY <2>2, <2>3 DEF Among
    <2>6. ASSUME NEW p \in Among(b) PROVE \E i \in 1 .. d : s[p] = b[i]
      <3>1. PICK i \in 1 .. k : s[p] = b[i]
        BY <2>5
      <3>2. i <= d
        BY <2>3, <2>4, <2>5, <3>1 DEF HoldsFirst
      <3>3. i \in 1 .. d
        BY <3>2
      <3> QED  BY <3>1, <3>3
    <2>7. ASSUME NEW i \in 1 .. d PROVE \E p \in Among(b) : s[p] = b[i]
      <3>1. PICK p \in 1 .. Len(s) : s[p] = b[i]
        BY <2>4 DEF HoldsFirst
      <3>2. i \in 1 .. k
        BY <2>3
      <3> QED  BY <2>5, <3>1, <3>2
    <2>8. {s[p] : p \in Among(b)} = {b[i] : i \in 1 .. d}
      BY <2>6, <2>7
    <2>9. ASSUME NEW p \in Among(b), NEW q \in Among(b), p < q PROVE s[p] < s[q]
      <3>1. PICK i \in 1 .. k, j \in 1 .. k : s[p] = b[i] /\ s[q] = b[j]
        BY <2>5
      <3>2. i < j
        BY <2>3, <2>4, <2>5, <2>9, <3>1 DEF HoldsFirst
      <3>3. b[i] < b[j]
        BY <2>1, <2>2, <2>3, <3>2 DEF GoodWrite
      <3> QED  BY <3>1, <3>3
    <2>10. c.do = "returned" => c.done = Len(c.bytes)
      BY <2>1 DEF GoodWrite
    <2> QED  BY <2>2, <2>8, <2>9, <2>10
  <1>3. ASSUME NEW h \in Handles, opened[h] # NotOpen
        PROVE  /\ Readable(h) <=> "read" \in opened[h].asked
               /\ Writable(h) <=> "write" \in opened[h].asked
    BY <1>3 DEF FilesInv, GoodOpen, Readable, Writable
  <1> QED  BY <1>1, <1>2, <1>3 DEF ReadsAndWritesWhole

(* What the path's directories have to do with create_dir_all: it only     *)
(* says that it made them after the mkdir of the whole path.               *)
DirectoriesInv == "do" \in DOMAIN making /\ (making.do = "made" => dirs = Depth)

LEMMA DirectoriesStep == DirectoriesInv /\ DirectoriesNext => DirectoriesInv'
  <1> SUFFICES ASSUME "do" \in DOMAIN making, DirectoriesNext PROVE DirectoriesInv'
    BY DEF DirectoriesInv
  <1>1. CASE CreateDirAll
    BY <1>1 DEF CreateDirAll, Made, MakingGoes, DirectoriesInv
  <1>2. CASE TowardsRoot
    BY <1>2 DEF TowardsRoot, Made, MakingGoes, DirectoriesInv
  <1>3. CASE BackDown
    BY <1>3 DEF BackDown, Made, MakingGoes, DirectoriesInv
  <1>4. CASE OthersChange
    BY <1>4 DEF OthersChange, DirectoriesInv
  <1> QED  BY <1>1, <1>2, <1>3, <1>4 DEF DirectoriesNext

(* Over any division of reads and writes, and next to any number of        *)
(* appends, read_to_end has what the file held behind its position, and    *)
(* write_all's bytes are in the file once and in order, as long as nobody  *)
(* overwrites or truncates (file.hpp:24-52, impl_async_write.hpp:49-63); a *)
(* File permits what its options asked for (builder.hpp:67-88); and        *)
(* create_dir_all that succeeds leaves the directory (dir.hpp:18-52).      *)
THEOREM FilesReadAndWrite == FilesSpec => []ReadsAndWritesWhole
  <1>1. FilesInit /\ DirectoriesInit => FilesInv /\ DirectoriesInv
    BY FilesInitially DEF DirectoriesInit, DirectoriesInv
  <1>2. FilesInv /\ DirectoriesInv /\
          [\/ FilesNext /\ UNCHANGED dirVars
           \/ DirectoriesNext /\ UNCHANGED filesVars]_<<filesVars, dirVars>>
        => FilesInv' /\ DirectoriesInv'
    <2>1. UNCHANGED dirVars /\ DirectoriesInv => DirectoriesInv'
      BY DEF dirVars, DirectoriesInv
    <2> QED  BY <2>1, FilesStep, DirectoriesStep
  <1>3. FilesInv /\ DirectoriesInv => ReadsAndWritesWhole
    BY FilesWhole DEF DirectoriesInv
  <1> QED  BY <1>1, <1>2, <1>3, PTL DEF FilesSpec

-----------------------------------------------------------------------------
(***************************************************************************)
(* Timer: ExpiresOnTime and WakesInTime, by WheelInv, for a wheel whose    *)
(* highest level is not passed.  An entry is in a slot that is still to    *)
(* come in the current turn of its level (Placed, Ahead), so that the      *)
(* first slot found at the lowest level is the first of all (First,        *)
(* DueInSlot), and time can pass up to it without anything becoming due    *)
(* (StillAhead).  The lemmas before them say what SlotRange and the        *)
(* division by it are; the provers know neither.                           *)
(***************************************************************************)

(* SlotRange is what its definition says: some function is.                *)
Ranges(n, range) ==
  /\ range \in [0 .. n -> Nat] /\ range[0] = 1
  /\ \A i \in 1 .. n : range[i] = range[i - 1] * Mult

LEMMA RangesExist ==
  ASSUME NEW n \in Nat
  PROVE  \E range : Ranges(n, range)
  <1> DEFINE S == {k \in Nat : \E range : Ranges(k, range)}
  <1>0. Mult \in Nat
    BY TimerAssumption
  <1>1. 0 \in S
    <2>1. Ranges(0, [i \in 0 .. 0 |-> 1])
      BY DEF Ranges
    <2> QED  BY <2>1
  <1>2. ASSUME NEW k \in Nat, k \in S PROVE k + 1 \in S
    <2>1. PICK range : Ranges(k, range)
      BY <1>2
    <2> DEFINE next == [i \in 0 .. k + 1 |-> IF i = k + 1 THEN range[k] * Mult ELSE range[i]]
    <2>2. range \in [0 .. k -> Nat] /\ range[k] * Mult \in Nat
      <3>1. range \in [0 .. k -> Nat] /\ range[k] \in Nat
        BY <2>1 DEF Ranges
      <3> QED  BY <1>0, <3>1
    <2>3. next \in [0 .. k + 1 -> Nat] /\ next[0] = 1
      <3>1. \A i \in 0 .. k + 1 : i = k + 1 \/ i \in 0 .. k
        OBVIOUS
      <3>2. 0 \in 0 .. k + 1 /\ 0 # k + 1
        OBVIOUS
      <3> QED  BY <2>1, <2>2, <3>1, <3>2 DEF Ranges
    <2>4. ASSUME NEW i \in 1 .. k + 1 PROVE next[i] = next[i - 1] * Mult
      <3>1. CASE i = k + 1
        <4>1. i - 1 = k /\ k \in 0 .. k + 1 /\ k # k + 1 /\ i \in 0 .. k + 1
          BY <3>1
        <4> QED  BY <3>1, <4>1
      <3>2. CASE i # k + 1
        <4>1. i \in 1 .. k /\ i \in 0 .. k + 1 /\ i - 1 \in 0 .. k + 1 /\ i - 1 # k + 1
          BY <3>2
        <4>2. next[i] = range[i] /\ next[i - 1] = range[i - 1]
          BY <3>2, <4>1
        <4> QED  BY <2>1, <4>1, <4>2 DEF Ranges
      <3> QED  BY <3>1, <3>2
    <2> HIDE DEF next
    <2>5. Ranges(k + 1, next)
      BY <2>3, <2>4 DEF Ranges
    <2> QED  BY <2>5
  <1> HIDE DEF S
  <1>3. Nat \subseteq S
    BY <1>1, <1>2, EveryNumber
  <1> QED  BY <1>3 DEF S

LEMMA RangesAgree ==
  ASSUME NEW m \in Nat, NEW n \in Nat, NEW f, NEW g, Ranges(m, f), Ranges(n, g), m <= n
  PROVE  \A i \in 0 .. m : f[i] = g[i]
  <1> DEFINE S == {i \in Nat : i <= m => f[i] = g[i]}
  <1>1. 0 \in S
    BY DEF Ranges
  <1>2. ASSUME NEW i \in Nat, i \in S PROVE i + 1 \in S
    <2> SUFFICES ASSUME i + 1 <= m PROVE f[i + 1] = g[i + 1]
      OBVIOUS
    <2>1. i + 1 \in 1 .. m /\ i + 1 \in 1 .. n /\ (i + 1) - 1 = i /\ i <= m
      OBVIOUS
    <2>2. f[i] = g[i]
      BY <1>2, <2>1
    <2>3. f[i + 1] = f[i] * Mult /\ g[i + 1] = g[i] * Mult
      BY <2>1 DEF Ranges
    <2> QED  BY <2>2, <2>3
  <1> HIDE DEF S
  <1>3. Nat \subseteq S
    BY <1>1, <1>2, EveryNumber
  <1> QED  BY <1>3 DEF S

LEMMA SlotRanges ==
  /\ SlotRange[0] = 1
  /\ \A l \in Nat : SlotRange[l] \in Nat \ {0} /\ SlotRange[l + 1] = SlotRange[l] * Mult
  <1> DEFINE upTo(n)  == CHOOSE range : Ranges(n, range)
             whole    == [n \in Nat |-> upTo(n)[n]]
  <1>1. ASSUME NEW n \in Nat PROVE Ranges(n, upTo(n))
    BY RangesExist
  <1> HIDE DEF upTo
  <1>2. whole[0] = 1
    BY <1>1 DEF Ranges
  <1>3. ASSUME NEW n \in Nat PROVE whole[n + 1] = whole[n] * Mult
    <2>1. Ranges(n, upTo(n)) /\ Ranges(n + 1, upTo(n + 1)) /\ n + 1 \in Nat
      BY <1>1
    <2>2. n \in 0 .. n /\ n <= n + 1 /\ n + 1 \in 1 .. n + 1 /\ (n + 1) - 1 = n
      OBVIOUS
    <2>3. upTo(n)[n] = upTo(n + 1)[n]
      BY <2>1, <2>2, RangesAgree
    <2>4. upTo(n + 1)[n + 1] = upTo(n + 1)[n] * Mult
      BY <2>1, <2>2 DEF Ranges
    <2> QED  BY <2>1, <2>3, <2>4
  <1>4. whole = [level \in Nat |-> IF level = 0 THEN 1 ELSE whole[level - 1] * Mult]
    <2>1. ASSUME NEW n \in Nat
          PROVE  whole[n] = IF n = 0 THEN 1 ELSE whole[n - 1] * Mult
      <3>1. CASE n = 0
        BY <1>2, <3>1
      <3>2. CASE n # 0
        <4>1. n - 1 \in Nat /\ (n - 1) + 1 = n
          BY <3>2
        <4>2. whole[(n - 1) + 1] = whole[n - 1] * Mult
          BY <1>3, <4>1
        <4> HIDE DEF whole
        <4> QED  BY <3>2, <4>1, <4>2
      <3> QED  BY <3>1, <3>2
    <2>2. \E dom : whole = [n \in Nat |-> dom[n]]
      OBVIOUS
    <2> HIDE DEF whole
    <2> QED  BY <2>1, <2>2
  <1> HIDE DEF whole
  <1>5. SlotRange = [level \in Nat |-> IF level = 0 THEN 1 ELSE SlotRange[level - 1] * Mult]
    BY <1>4 DEF SlotRange
  <1>6. SlotRange[0] = 1
    BY <1>5
  <1>7. ASSUME NEW l \in Nat PROVE SlotRange[l + 1] = SlotRange[l] * Mult
    <2>1. l + 1 \in Nat /\ l + 1 # 0 /\ (l + 1) - 1 = l
      OBVIOUS
    <2>2. SlotRange[l + 1] = IF l + 1 = 0 THEN 1 ELSE SlotRange[(l + 1) - 1] * Mult
      BY <1>5, <2>1
    <2> QED  BY <2>1, <2>2
  <1> DEFINE S == {l \in Nat : SlotRange[l] \in Nat \ {0}}
  <1>8. Nat \subseteq S
    <2>1. 0 \in S
      BY <1>6
    <2>2. ASSUME NEW l \in Nat, l \in S PROVE l + 1 \in S
      <3>1. \A p \in Nat \ {0}, q \in Nat \ {0} : p * q \in Nat \ {0}
        OBVIOUS
      <3>2. SlotRange[l] * Mult \in Nat \ {0}
        BY <2>2, <3>1, TimerAssumption
      <3> QED  BY <1>7, <3>2
    <2> HIDE DEF S
    <2> QED  BY <2>1, <2>2, EveryNumber
  <1> QED  BY <1>6, <1>7, <1>8

-----------------------------------------------------------------------------
(* Division with remainder, which the provers do not know for a divisor    *)
(* that is not a number.                                                   *)
LEMMA Divided ==
  ASSUME NEW P \in Nat \ {0}, NEW x \in Nat
  PROVE  /\ x \div P \in Nat /\ x % P \in 0 .. P - 1
         /\ x = P * (x \div P) + (x % P)
  <1>1. x \div P \in Int /\ x % P \in 0 .. P - 1 /\ x = P * (x \div P) + (x % P)
    OBVIOUS
  <1>2. PICK q \in Int, r \in 0 .. P - 1 : q = x \div P /\ r = x % P /\ x = P * q + r
    BY <1>1
  <1>3. q >= 0
    <2> SUFFICES ASSUME q <= -1 PROVE FALSE
      OBVIOUS
    <2>1. P * q <= P * (-1)
      OBVIOUS
    <2> QED  BY <1>2, <2>1
  <1> QED  BY <1>1, <1>2, <1>3

LEMMA DividedOnce ==
  ASSUME NEW P \in Nat \ {0}, NEW x \in Nat, NEW q \in Nat, NEW r \in 0 .. P - 1, x = P * q + r
  PROVE  x \div P = q /\ x % P = r
  OBVIOUS

(* x is before the q-th multiple of P exactly if its quotient is below q.  *)
LEMMA DividedBelow ==
  ASSUME NEW P \in Nat \ {0}, NEW x \in Nat, NEW q \in Nat
  PROVE  x \div P < q <=> x < P * q
  <1>1. PICK k \in Nat, r \in 0 .. P - 1 : k = x \div P /\ x = P * k + r
    BY Divided
  <1>2. ASSUME k < q PROVE x < P * q
    <2>1. k + 1 <= q
      BY <1>2
    <2>2. P * (k + 1) <= P * q
      BY <2>1
    <2>3. P * (k + 1) = P * k + P
      OBVIOUS
    <2> QED  BY <1>1, <2>2, <2>3
  <1>3. ASSUME q <= k PROVE P * q <= x
    <2>1. P * q <= P * k
      BY <1>3
    <2> QED  BY <1>1, <2>1
  <1>4. P * q \in Nat
    OBVIOUS
  <1> QED  BY <1>1, <1>2, <1>3, <1>4

LEMMA DividedInOrder ==
  ASSUME NEW P \in Nat \ {0}, NEW x \in Nat, NEW y \in Nat, x <= y
  PROVE  x \div P <= y \div P
  <1>1. PICK q \in Nat, k \in Nat : q = x \div P /\ k = y \div P
    BY Divided
  <1>2. ~(k < q)
    <2>1. k < q <=> y < P * q
      BY <1>1, DividedBelow
    <2>2. ~(q < q) /\ (q < q <=> x < P * q)
      BY <1>1, DividedBelow
    <2>3. P * q \in Nat
      OBVIOUS
    <2> QED  BY <2>1, <2>2, <2>3
  <1> QED  BY <1>1, <1>2

LEMMA DividedTwice ==
  ASSUME NEW P \in Nat \ {0}, NEW Q \in Nat \ {0}, NEW x \in Nat
  PROVE  x \div (P * Q) = (x \div P) \div Q
  <1>1. PICK q \in Nat, r \in 0 .. P - 1 : q = x \div P /\ x = P * q + r
    BY Divided
  <1>2. PICK k \in Nat, s \in 0 .. Q - 1 : k = q \div Q /\ q = Q * k + s
    BY Divided
  <1>3. P * Q \in Nat \ {0}
    OBVIOUS
  <1>4. P * s + r \in 0 .. P * Q - 1
    <2>1. s + 1 <= Q
      OBVIOUS
    <2>2. P * (s + 1) <= P * Q
      BY <2>1
    <2>3. P * (s + 1) = P * s + P /\ P * s \in Nat
      OBVIOUS
    <2> QED  BY <1>3, <2>2, <2>3
  <1>5. x = (P * Q) * k + (P * s + r)
    <2>1. P * (Q * k + s) = P * (Q * k) + P * s
      OBVIOUS
    <2>2. P * (Q * k) = (P * Q) * k
      OBVIOUS
    <2>3. x = P * (Q * k + s) + r
      BY <1>1, <1>2
    <2>4. P * (Q * k) \in Nat /\ P * s \in Nat /\ r \in Nat
      OBVIOUS
    <2> QED  BY <2>1, <2>2, <2>3, <2>4
  <1>6. x \div (P * Q) = k
    BY <1>3, <1>4, <1>5, DividedOnce
  <1> QED  BY <1>1, <1>2, <1>6

-----------------------------------------------------------------------------
(* The slot of level l that the time x is in, counted from the beginning.  *)
Turn(x, l) == x \div SlotRange[l]

(* An entry that is due at w is in level l at the time t if its slot is    *)
(* still to come, in the current turn of the level.                        *)
Ahead(t, l, w) == Turn(t, l) < Turn(w, l) /\ Turn(t, l + 1) = Turn(w, l + 1)

Placed(e) ==
  /\ place[e] \in (0 .. Levels - 1) \X (0 .. Mult - 1)
  /\ place[e][2] = SlotFor(place[e][1], when[e])
  /\ Ahead(elapsed, place[e][1], when[e])

WheelTyped ==
  /\ elapsed \in 0 .. MaxTime /\ when \in [Entries -> 0 .. MaxTime]
  /\ place = [e \in Entries |-> place[e]] /\ live \subseteq Entries /\ pending \subseteq Entries
  /\ now \in elapsed .. MaxTime \/ (now = Idle /\ pending = {})

WheelInv ==
  /\ WheelTyped
  /\ \A e \in Entries : place[e] # <<>> => Placed(e)
  /\ \A e \in live : place[e] # <<>> \/ e \in pending
  /\ \A e \in pending : when[e] <= now

LEMMA Turns ==
  ASSUME NEW x \in Nat, NEW l \in Nat
  PROVE  /\ Turn(x, l) \in Nat /\ Turn(x, 0) = x /\ Turn(x, l + 1) = Turn(x, l) \div Mult
         /\ SlotRange[l] \in Nat \ {0} /\ SlotRange[l + 1] \in Nat \ {0}
         /\ SlotRange[l + 1] = SlotRange[l] * Mult /\ Mult \in Nat \ {0}
  <1>1. /\ SlotRange[l] \in Nat \ {0} /\ SlotRange[l + 1] = SlotRange[l] * Mult
        /\ SlotRange[l + 1] \in Nat \ {0} /\ Mult \in Nat \ {0} /\ SlotRange[0] = 1
    BY SlotRanges, TimerAssumption
  <1>2. Turn(x, 0) = x
    BY <1>1 DEF Turn
  <1>3. Turn(x, l) \in Nat
    BY <1>1, Divided DEF Turn
  <1>4. Turn(x, l + 1) = Turn(x, l) \div Mult
    BY <1>1, DividedTwice DEF Turn
  <1> QED  BY <1>1, <1>2, <1>3, <1>4

LEMMA TurnsInOrder ==
  ASSUME NEW x \in Nat, NEW y \in Nat, NEW l \in Nat, x <= y
  PROVE  Turn(x, l) <= Turn(y, l)
  BY SlotRanges, DividedInOrder DEF Turn

(* Two times in one slot of a level are in one slot of all higher levels.  *)
LEMMA TurnsTogether ==
  ASSUME NEW x \in Nat, NEW y \in Nat, NEW l \in Nat, Turn(x, l) = Turn(y, l),
         NEW k \in Nat, l <= k
  PROVE  Turn(x, k) = Turn(y, k)
  <1> DEFINE S == {n \in Nat : Turn(x, l + n) = Turn(y, l + n)}
  <1>1. 0 \in S
    <2>1. l + 0 = l
      OBVIOUS
    <2> QED  BY <2>1
  <1>2. ASSUME NEW n \in Nat, n \in S PROVE n + 1 \in S
    <2>1. l + n \in Nat /\ l + (n + 1) = (l + n) + 1
      OBVIOUS
    <2>2. Turn(x, l + (n + 1)) = Turn(y, l + (n + 1))
      BY <1>2, <2>1, Turns
    <2> QED  BY <2>2
  <1> HIDE DEF S
  <1>3. Nat \subseteq S
    BY <1>1, <1>2, EveryNumber
  <1>4. k - l \in Nat /\ l + (k - l) = k
    OBVIOUS
  <1> QED  BY <1>3, <1>4 DEF S

(* LevelFor finds the level in which an entry is ahead.                    *)
LEMMA LevelFits ==
  ASSUME MaxTime < SlotRange[Levels], NEW t \in Nat, NEW w \in Nat, t < w, w <= MaxTime,
         NEW l, l = LevelFor(t, w)
  PROVE  l \in 0 .. Levels - 1 /\ Ahead(t, l, w)
  <1> DEFINE S == {0} \cup {k \in 0 .. Levels - 1 : t \div SlotRange[k] # w \div SlotRange[k]}
  <1>1. Levels \in Nat /\ Levels - 1 \in Nat /\ Levels - 1 < Levels /\ (Levels - 1) + 1 = Levels
    BY TimerAssumption
  <1>2. S \in SUBSET Nat /\ S # {} /\ \A k \in S : k <= Levels - 1
    BY <1>1
  <1>3. l = Max(S)
    BY DEF LevelFor
  <1>4. \A k \in Nat : k \in S <=> k = 0 \/ (k <= Levels - 1 /\ Turn(t, k) # Turn(w, k))
    BY <1>1 DEF Turn
  <1> HIDE DEF S
  <1>5. l \in S /\ \A k \in S : k <= l
    BY <1>1, <1>2, <1>3, GreatestOf
  <1>6. l \in Nat /\ l <= Levels - 1 /\ l \in 0 .. Levels - 1
    BY <1>1, <1>2, <1>5
  <1>7. Turn(t, l) # Turn(w, l)
    <2>1. Turn(t, 0) # Turn(w, 0)
      BY Turns
    <2> QED  BY <1>4, <1>5, <1>6, <2>1
  <1>8. Turn(t, l) < Turn(w, l)
    <2>1. Turn(t, l) \in Nat /\ Turn(w, l) \in Nat /\ Turn(t, l) <= Turn(w, l)
      BY <1>6, Turns, TurnsInOrder
    <2> QED  BY <1>7, <2>1
  <1>9. Turn(t, l + 1) = Turn(w, l + 1)
    <2>1. CASE l = Levels - 1
      <3>1. ASSUME NEW x \in Nat, x <= MaxTime PROVE Turn(x, Levels) = 0
        <4>1. SlotRange[Levels] \in Nat \ {0} /\ MaxTime \in Nat
          BY <1>1, SlotRanges, TimerAssumption
        <4>2. x \in 0 .. SlotRange[Levels] - 1 /\ x = SlotRange[Levels] * 0 + x
          BY <4>1, <3>1
        <4> QED  BY <4>1, <4>2, DividedOnce DEF Turn
      <3>2. t <= MaxTime
        BY TimerAssumption
      <3> QED  BY <1>1, <2>1, <3>1, <3>2
    <2>2. CASE l # Levels - 1
      <3>1. l + 1 \in Nat /\ l + 1 <= Levels - 1 /\ ~(l + 1 <= l)
        BY <1>1, <1>6, <2>2
      <3> QED  BY <1>4, <1>5, <3>1
    <2> QED  BY <2>1, <2>2
  <1> QED  BY <1>6, <1>8, <1>9 DEF Ahead

-----------------------------------------------------------------------------
(* What next_expiration finds: the first slot that any entry is in.        *)
First(m, n, d) ==
  /\ m \in 0 .. Levels - 1 /\ d \in Nat /\ elapsed < d
  /\ NextExpiration = [level |-> m, slot |-> n, deadline |-> d]
  /\ d = SlotRange[m] * Turn(d, m) /\ Turn(d, m + 1) = Turn(elapsed, m + 1)
  /\ \E e \in Entries : place[e] = <<m, n>>
  /\ \A e \in Entries : place[e] # <<>> =>
       /\ m <= place[e][1]
       /\ place[e][1] = m => Turn(d, m) <= Turn(when[e], m)
       /\ place[e] = <<m, n>> <=> (place[e][1] = m /\ Turn(when[e], m) = Turn(d, m))

(* One level: the times of its entries begin with the same turn q.         *)
LEMMA SlotAhead ==
  ASSUME WheelInv, NEW e \in Entries, place[e] # <<>>,
         NEW l \in Nat, l = place[e][1], NEW q \in Nat, q = Turn(elapsed, l + 1)
  PROVE  /\ l \in 0 .. Levels - 1 /\ place[e] = <<l, place[e][2]>>
         /\ when[e] \in Nat /\ elapsed \in Nat
         /\ place[e][2] \in 0 .. Mult - 1 /\ Turn(elapsed, l) % Mult < place[e][2]
         /\ Turn(when[e], l) = Mult * q + place[e][2]
         /\ Turn(elapsed, l) = Mult * q + (Turn(elapsed, l) % Mult)
  <1>1. /\ Placed(e) /\ when[e] \in Nat /\ elapsed \in Nat
    BY DEF WheelInv, WheelTyped
  <1>2. /\ l \in 0 .. Levels - 1 /\ place[e] = <<l, place[e][2]>> /\ place[e][2] \in 0 .. Mult - 1
        /\ place[e][2] = Turn(when[e], l) % Mult /\ Turn(elapsed, l) < Turn(when[e], l)
        /\ Turn(elapsed, l + 1) = Turn(when[e], l + 1)
    BY <1>1 DEF Placed, Ahead, SlotFor, Turn
  <1>3. PICK t \in Nat, w \in Nat : t = Turn(elapsed, l) /\ w = Turn(when[e], l)
    BY <1>1, Turns
  <1>4. Mult \in Nat \ {0} /\ q = t \div Mult /\ q = w \div Mult
    BY <1>1, <1>2, <1>3, Turns, ZenonT(40)
  <1>5. t = Mult * q + (t % Mult) /\ w = Mult * q + (w % Mult)
        /\ t % Mult \in 0 .. Mult - 1 /\ w % Mult \in 0 .. Mult - 1
    BY <1>4, Divided
  <1>6. t % Mult < w % Mult
    <2>1. PICK x \in Nat, y \in Nat, z \in Nat :
            x = Mult * q /\ y = t % Mult /\ z = w % Mult
      <3>1. Mult * q \in Nat
        BY <1>4
      <3>2. t % Mult \in Nat /\ w % Mult \in Nat
        BY <1>4, <1>5
      <3> QED  BY <3>1, <3>2
    <2>2. t = x + y /\ w = x + z /\ t < w
      BY <1>2, <1>3, <1>5, <2>1
    <2>3. y < z
      BY <2>2
    <2> QED  BY <2>1, <2>3
  <1> QED  BY <1>1, <1>2, <1>3, <1>5, <1>6

(* rotr and countr_zero find the first slot behind the current one.        *)
FirstFrom(t, slots) ==
  (t + Min({z \in 0 .. Mult - 1 : (t + z) % Mult \in slots})) % Mult

LEMMA FirstSlot ==
  ASSUME NEW Slots \in SUBSET (0 .. Mult - 1), Slots # {},
         NEW q \in Nat, NEW a \in 0 .. Mult - 1, \A s \in Slots : a < s,
         NEW t \in Nat, t = Mult * q + a,
         NEW n, n = FirstFrom(t, Slots)
  PROVE  n \in Slots /\ \A s \in Slots : n <= s
  <1> DEFINE Z == {z \in 0 .. Mult - 1 : (t + z) % Mult \in Slots}
  <1>1. Mult \in Nat \ {0} /\ Mult * q \in Nat /\ a \in Nat
    BY TimerAssumption
  <1>2. ASSUME NEW k \in Nat, a + k < Mult PROVE (t + k) % Mult = a + k
    <2>1. a + k \in 0 .. Mult - 1 /\ t + k \in Nat
      BY <1>1, <1>2
    <2>2. t + k = Mult * q + (a + k)
      BY <1>1
    <2> QED  BY <1>1, <2>1, <2>2, DividedOnce
  <1>3. ASSUME NEW s \in Slots PROVE s - a \in Z
    <2>1. s \in Nat /\ s < Mult /\ s - a \in Nat /\ s - a \in 0 .. Mult - 1 /\ a + (s - a) = s
      BY <1>1
    <2>2. (t + (s - a)) % Mult = s
      BY <1>2, <2>1
    <2> QED  BY <2>1, <2>2
  <1>4. Z \in SUBSET Nat /\ Z # {}
    <2>1. PICK s \in Slots : TRUE
      OBVIOUS
    <2>2. s - a \in Z
      BY <1>3
    <2>3. Z \in SUBSET Nat
      OBVIOUS
    <2> HIDE DEF Z
    <2> QED  BY <2>2, <2>3
  <1>5. \A z \in Z : (t + z) % Mult \in Slots
    OBVIOUS
  <1>6. n = (t + Min(Z)) % Mult
    BY DEF FirstFrom
  <1> HIDE DEF Z
  <1>7. PICK z \in Z : z \in Nat /\ z = Min(Z) /\ \A y \in Z : z <= y
    BY <1>4, LeastOf
  <1>8. n \in Slots
    BY <1>5, <1>6, <1>7
  <1>9. ASSUME NEW s \in Slots PROVE a + z <= s
    <2>1. z <= s - a
      BY <1>3, <1>7
    <2>2. s \in Nat
      BY <1>1
    <2> QED  BY <1>1, <1>7, <2>1, <2>2
  <1>10. n = a + z
    <2>1. PICK s \in Slots : TRUE
      OBVIOUS
    <2>2. s \in Nat /\ s < Mult /\ a + z <= s
      BY <1>1, <1>9
    <2>3. a + z < Mult
      BY <1>1, <1>7, <2>2
    <2> QED  BY <1>2, <1>6, <1>7, <2>3
  <1> QED  BY <1>8, <1>9, <1>10

LEMMA NextFound ==
  ASSUME WheelInv, UsedLevels # {}
  PROVE  \E m, n, d : First(m, n, d)
  <1>0. Mult \in Nat \ {0} /\ Levels - 1 \in Nat /\ elapsed \in Nat
    BY TimerAssumption DEF WheelInv, WheelTyped
  <1>1. PICK m \in Nat : /\ m \in 0 .. Levels - 1 /\ m = Min(UsedLevels) /\ m \in UsedLevels
                         /\ \A l \in UsedLevels : m <= l
    <2>1. UsedLevels \in SUBSET Nat /\ UsedLevels \subseteq 0 .. Levels - 1
      BY <1>0 DEF UsedLevels
    <2>2. Min(UsedLevels) \in UsedLevels /\ \A l \in UsedLevels : Min(UsedLevels) <= l
      BY <2>1, LeastOf
    <2> QED  BY <2>1, <2>2
  <1>2. PICK P \in Nat \ {0}, Q \in Nat \ {0} : P = SlotRange[m] /\ Q = SlotRange[m + 1] /\ Q = P * Mult
    BY SlotRanges
  <1>3. PICK q \in Nat, a \in 0 .. Mult - 1, t \in Nat, r \in 0 .. Q - 1 :
          /\ t = Turn(elapsed, m) /\ q = Turn(elapsed, m + 1) /\ a = t % Mult
          /\ t = Mult * q + a /\ elapsed = Q * q + r /\ r = elapsed % Q
    <2>1. /\ Turn(elapsed, m) \in Nat /\ Turn(elapsed, m + 1) \in Nat
          /\ Turn(elapsed, m + 1) = Turn(elapsed, m) \div Mult
      <3>1. PICK x \in Nat : x = elapsed
        BY <1>0
      <3>2. Turn(x, m) \in Nat /\ Turn(x, m + 1) = Turn(x, m) \div Mult
        BY Turns
      <3>3. m + 1 \in Nat
        OBVIOUS
      <3>4. Turn(x, m + 1) \in Nat
        BY <3>3, Turns
      <3> QED  BY <3>1, <3>2, <3>4
    <2>2. /\ Turn(elapsed, m) % Mult \in 0 .. Mult - 1
          /\ Turn(elapsed, m) = Mult * Turn(elapsed, m + 1) + (Turn(elapsed, m) % Mult)
      BY <1>0, <2>1, Divided
    <2>3. elapsed % Q \in 0 .. Q - 1 /\ elapsed = Q * Turn(elapsed, m + 1) + (elapsed % Q)
      BY <1>0, <1>2, Divided DEF Turn
    <2> QED  BY <2>1, <2>2, <2>3
  <1>4. ASSUME NEW e \in Entries, place[e] # <<>>, place[e][1] = m
        PROVE  /\ place[e] = <<m, place[e][2]>> /\ place[e][2] \in 0 .. Mult - 1 /\ a < place[e][2]
               /\ Turn(when[e], m) = Mult * q + place[e][2]
    <2>1. PICK l \in Nat : l = m /\ l = place[e][1] /\ q = Turn(elapsed, l + 1)
      BY <1>3, <1>4
    <2> QED  BY <1>3, <1>4, <2>1, SlotAhead
  <1>5. PICK Slots \in SUBSET (0 .. Mult - 1) : Slots = Occupied(m) /\ Slots # {}
    BY <1>1 DEF UsedLevels, Occupied
  <1>6. ASSUME NEW s \in Slots
        PROVE  a < s /\ \E e \in Entries : place[e] = <<m, s>>
    <2>1. PICK e \in Entries : place[e] = <<m, s>>
      BY <1>5 DEF Occupied
    <2>2. place[e] # <<>> /\ place[e][1] = m /\ place[e][2] = s
      BY <2>1
    <2>3. a < place[e][2]
      BY <1>4, <2>2
    <2> QED  BY <2>1, <2>2, <2>3
  <1>7. PICK n : n = FirstFrom(t, Slots)
    OBVIOUS
  <1>8. n \in Slots /\ \A s \in Slots : n <= s
    <2>1. Slots # {} /\ t = Mult * q + a /\ \A s \in Slots : a < s
      BY <1>3, <1>5, <1>6
    <2> QED  BY <1>7, <2>1, FirstSlot
  <1>9. PICK d \in Nat, k \in Nat : k = Mult * q + n /\ d = P * k
    <2>1. n \in Nat /\ Mult * q + n \in Nat
      BY <1>0, <1>8
    <2>2. P * (Mult * q + n) \in Nat
      BY <2>1
    <2> QED  BY <2>1, <2>2
  <1>10. (elapsed - (elapsed % Q)) + n * P = d
    <2>1. elapsed - (elapsed % Q) = Q * q
      <3>1. \A x \in Nat, y \in Nat : (x + y) - y = x
        OBVIOUS
      <3>2. Q * q \in Nat /\ r \in Nat
        OBVIOUS
      <3> QED  BY <1>3, <3>1, <3>2
    <2>2. Q * q = P * (Mult * q)
      BY <1>0, <1>2
    <2>3. n \in Nat /\ Mult * q \in Nat
      BY <1>0, <1>8
    <2>4. P * (Mult * q + n) = P * (Mult * q) + n * P
      BY <2>3
    <2> QED  BY <1>9, <2>1, <2>2, <2>4
  <1>11. Turn(d, m) = k
    <2>1. 0 \in 0 .. P - 1 /\ d = P * k + 0
      BY <1>9
    <2> QED  BY <1>2, <2>1, DividedOnce DEF Turn
  <1>12. Turn(d, m + 1) = q
    <2>1. n \in 0 .. Mult - 1
      BY <1>8
    <2>2. k \div Mult = q
      BY <1>0, <1>9, <2>1, DividedOnce
    <2> QED  BY <1>11, <2>2, Turns
  <1>13. elapsed < d
    <2>1. t < k
      <3>1. PICK x \in Nat : x = Mult * q
        BY <1>0
      <3>2. a < n /\ n \in Nat /\ a \in Nat
        BY <1>0, <1>6, <1>8
      <3>3. x + a < x + n
        BY <3>2
      <3> QED  BY <1>3, <1>9, <3>1, <3>3
    <2> QED  BY <1>0, <1>2, <1>3, <1>9, <2>1, DividedBelow DEF Turn
  <1>14. NextExpiration = [level |-> m, slot |-> n, deadline |-> d]
    <2>1. NextExpiration = NextDue(m)
      BY <1>1 DEF NextExpiration
    <2>2. elapsed \div SlotRange[m] = t /\ LevelRange(m) = Q
      BY <1>2, <1>3 DEF Turn, LevelRange
    <2>3. ~(d <= elapsed)
      BY <1>0, <1>13
    <2> QED  BY <1>2, <1>5, <1>7, <1>10, <2>1, <2>2, <2>3 DEF NextDue, FirstFrom
  <1>15. ASSUME NEW e \in Entries, place[e] # <<>>
         PROVE  /\ m <= place[e][1]
                /\ place[e][1] = m => Turn(d, m) <= Turn(when[e], m)
                /\ place[e] = <<m, n>> <=> (place[e][1] = m /\ Turn(when[e], m) = Turn(d, m))
    <2>1. m <= place[e][1]
      <3>1. place[e][1] \in 0 .. Levels - 1 /\ place[e] = <<place[e][1], place[e][2]>>
            /\ place[e][2] \in 0 .. Mult - 1
        BY <1>15 DEF WheelInv, Placed
      <3>2. place[e][1] \in UsedLevels
        BY <3>1 DEF UsedLevels, Occupied
      <3> QED  BY <1>1, <3>2
    <2>2. CASE place[e][1] = m
      <3>1. PICK s \in 0 .. Mult - 1 : place[e] = <<m, s>> /\ Turn(when[e], m) = Mult * q + s
        BY <1>4, <1>15, <2>2
      <3>2. s \in Slots
        BY <1>5, <3>1 DEF Occupied
      <3>3. PICK x \in Nat : x = Mult * q
        BY <1>0
      <3>4. n <= s /\ n \in Nat /\ s \in Nat
        BY <1>0, <1>8, <3>2
      <3>5. x + n <= x + s /\ (x + n = x + s <=> n = s)
        BY <3>4
      <3>6. Turn(d, m) = x + n /\ Turn(when[e], m) = x + s
        BY <1>9, <1>11, <3>1, <3>3
      <3>7. <<m, s>> = <<m, n>> <=> n = s
        OBVIOUS
      <3> QED  BY <2>1, <2>2, <3>1, <3>5, <3>6, <3>7
    <2>3. CASE place[e][1] # m
      BY <2>1, <2>3
    <2> QED  BY <2>2, <2>3
  <1>16. \E e \in Entries : place[e] = <<m, n>>
    BY <1>6, <1>8
  <1>17. First(m, n, d)
    <2>1. d = SlotRange[m] * Turn(d, m)
      BY <1>2, <1>9, <1>11
    <2>2. Turn(d, m + 1) = Turn(elapsed, m + 1)
      BY <1>3, <1>12
    <2> QED  BY <1>1, <1>13, <1>14, <1>15, <1>16, <2>1, <2>2 DEF First
  <1> QED  BY <1>17

(* What is in the wheel is ahead of every time until the first slot begins *)
(* and of that time too, but for what is in the first slot.                *)
LEMMA StillAhead ==
  ASSUME WheelInv, NEW m, NEW n, NEW d, First(m, n, d),
         NEW e \in Entries, place[e] # <<>>, NEW u \in Nat, elapsed <= u,
         u < d \/ (u = d /\ place[e] # <<m, n>>)
  PROVE  Ahead(u, place[e][1], when[e])
  <1>1. /\ m \in Nat /\ m + 1 \in Nat /\ d \in Nat /\ elapsed \in Nat /\ when[e] \in Nat
        /\ d = SlotRange[m] * Turn(d, m) /\ Turn(d, m + 1) = Turn(elapsed, m + 1)
        /\ m <= place[e][1] /\ (place[e][1] = m => Turn(d, m) <= Turn(when[e], m))
        /\ place[e][1] \in Nat /\ Ahead(elapsed, place[e][1], when[e])
        /\ place[e] = <<m, n>> <=> (place[e][1] = m /\ Turn(when[e], m) = Turn(d, m))
    BY DEF First, WheelInv, WheelTyped, Placed
  <1>2. PICK l \in Nat, w \in Nat : l = place[e][1] /\ w = when[e]
    BY <1>1
  <1>3. Turn(u, m + 1) = Turn(elapsed, m + 1)
    <2>1. Turn(elapsed, m + 1) <= Turn(u, m + 1) /\ Turn(u, m + 1) <= Turn(d, m + 1)
      BY <1>1, TurnsInOrder
    <2>2. Turn(elapsed, m + 1) \in Nat /\ Turn(u, m + 1) \in Nat
      BY <1>1, Turns
    <2> QED  BY <1>1, <2>1, <2>2
  <1>4. CASE l = m
    <2>1. Turn(u, m) \in Nat /\ Turn(d, m) \in Nat /\ Turn(w, m) \in Nat /\ Turn(d, m) <= Turn(w, m)
      BY <1>1, <1>2, <1>4, Turns
    <2>2. Turn(u, m) < Turn(w, m)
      <3>1. CASE u < d
        <4>1. SlotRange[m] \in Nat \ {0}
          BY <1>1, Turns
        <4>2. Turn(u, m) < Turn(d, m)
          BY <1>1, <2>1, <3>1, <4>1, DividedBelow DEF Turn
        <4> QED  BY <2>1, <4>2
      <3>2. CASE u = d /\ place[e] # <<m, n>>
        <4>1. Turn(w, m) # Turn(d, m)
          BY <1>1, <1>2, <1>4, <3>2
        <4> QED  BY <2>1, <3>2, <4>1
      <3> QED  BY <3>1, <3>2
    <2>3. Turn(u, m + 1) = Turn(w, m + 1)
      BY <1>1, <1>2, <1>3, <1>4 DEF Ahead
    <2> QED  BY <1>2, <1>4, <2>2, <2>3 DEF Ahead
  <1>5. CASE m < l
    <2>1. m + 1 <= l /\ m + 1 <= l + 1 /\ l + 1 \in Nat
      BY <1>1, <1>5
    <2>2. Turn(u, l) = Turn(elapsed, l) /\ Turn(u, l + 1) = Turn(elapsed, l + 1)
      BY <1>1, <1>3, <2>1, TurnsTogether
    <2>3. Turn(elapsed, l) < Turn(w, l) /\ Turn(elapsed, l + 1) = Turn(w, l + 1)
      BY <1>1, <1>2 DEF Ahead
    <2> QED  BY <1>2, <2>2, <2>3 DEF Ahead
  <1> QED  BY <1>1, <1>2, <1>4, <1>5

LEMMA DueInSlot ==
  ASSUME WheelInv, NEW m, NEW n, NEW d, First(m, n, d), NEW e \in Entries, place[e] # <<>>
  PROVE  d <= when[e] /\ (m = 0 /\ place[e] = <<m, n>> => when[e] = d)
  <1>1. /\ m \in Nat /\ d \in Nat /\ elapsed < d /\ when[e] \in Nat /\ elapsed \in Nat
        /\ d = SlotRange[m] * Turn(d, m) /\ place[e][1] \in Nat
        /\ place[e] = <<m, n>> <=> (place[e][1] = m /\ Turn(when[e], m) = Turn(d, m))
    BY DEF First, WheelInv, WheelTyped, Placed
  <1>2. CASE place[e] = <<m, n>>
    <2>1. Turn(when[e], m) = Turn(d, m) /\ Turn(d, m) \in Nat /\ SlotRange[m] \in Nat \ {0}
      BY <1>1, <1>2, Turns
    <2>2. ~(when[e] < SlotRange[m] * Turn(d, m))
      <3>1. ~(Turn(when[e], m) < Turn(d, m))
        BY <2>1
      <3> QED  BY <1>1, <2>1, <3>1, DividedBelow DEF Turn
    <2>3. m = 0 => when[e] = d
      <3>1. Turn(when[e], 0) = when[e] /\ Turn(d, 0) = d
        BY <1>1, Turns
      <3> QED  BY <2>1, <3>1
    <2> QED  BY <1>1, <2>2, <2>3
  <1>3. CASE place[e] # <<m, n>>
    <2>1. elapsed <= d
      BY <1>1
    <2>2. Turn(d, place[e][1]) < Turn(when[e], place[e][1])
      BY <1>1, <1>3, <2>1, StillAhead DEF Ahead
    <2>3. PICK l \in Nat, w \in Nat : l = place[e][1] /\ w = when[e]
      BY <1>1
    <2>4. Turn(w, l) \in Nat /\ Turn(d, l) \in Nat /\ (w <= d => Turn(w, l) <= Turn(d, l))
      BY <1>1, Turns, TurnsInOrder
    <2> QED  BY <1>1, <1>3, <2>2, <2>3, <2>4
  <1> QED  BY <1>2, <1>3

-----------------------------------------------------------------------------
(* The entry that insert() and the cascade put into a slot.                *)
LEMMA PutRight ==
  ASSUME MaxTime < SlotRange[Levels], NEW t \in Nat, NEW w \in Nat, t < w, w <= MaxTime,
         NEW l, NEW at, l = LevelFor(t, w), at = <<l, SlotFor(l, w)>>
  PROVE  /\ at \in (0 .. Levels - 1) \X (0 .. Mult - 1) /\ at # <<>>
         /\ at[2] = SlotFor(at[1], w) /\ Ahead(t, at[1], w)
  <1>1. l \in 0 .. Levels - 1 /\ Ahead(t, l, w)
    BY LevelFits
  <1>2. l \in Nat
    BY <1>1, TimerAssumption
  <1>3. SlotFor(l, w) \in 0 .. Mult - 1
    <2>1. Turn(w, l) \in Nat /\ Mult \in Nat \ {0}
      BY <1>2, Turns
    <2> QED  BY <2>1, Divided DEF SlotFor, Turn
  <1> QED  BY <1>1, <1>3

LEMMA WheelStarts == TimerInit => WheelInv
  <1> SUFFICES ASSUME TimerInit PROVE WheelInv
    OBVIOUS
  <1>1. WheelTyped
    BY TimerAssumption DEF TimerInit, WheelTyped
  <1> QED  BY <1>1 DEF TimerInit, WheelInv

LEMMA InsertKeeps ==
  ASSUME MaxTime < SlotRange[Levels], WheelInv, NEW e \in Entries, Insert(e)
  PROVE  WheelInv'
  <1>1. PICK w, at :
          /\ w \in elapsed + 1 .. MaxTime
          /\ at = <<LevelFor(elapsed, w), SlotFor(LevelFor(elapsed, w), w)>>
          /\ when' = [when EXCEPT ![e] = w] /\ place' = [place EXCEPT ![e] = at]
    BY DEF Insert
  <1>2. /\ live' = live \cup {e} /\ UNCHANGED <<elapsed, now, pending>> /\ now = Idle
        /\ elapsed \in Nat /\ w \in Nat /\ elapsed < w /\ w <= MaxTime /\ WheelTyped
    <2>1. elapsed \in 0 .. MaxTime /\ WheelTyped
      BY DEF WheelInv, WheelTyped
    <2> QED  BY <1>1, <2>1, TimerAssumption DEF Insert
  <1>3. /\ at \in (0 .. Levels - 1) \X (0 .. Mult - 1) /\ at # <<>>
        /\ at[2] = SlotFor(at[1], w) /\ Ahead(elapsed, at[1], w)
    BY <1>1, <1>2, PutRight
  <1>4. pending = {}
    BY <1>2, TimerAssumption DEF WheelTyped, Idle
  <1>5. WheelTyped'
    BY <1>1, <1>2, <1>4 DEF WheelTyped
  <1>6. \A f \in Entries \ {e} : place'[f] = place[f] /\ when'[f] = when[f]
    BY <1>1, <1>2 DEF WheelTyped
  <1>7. place'[e] = at /\ when'[e] = w
    BY <1>1, <1>2 DEF WheelTyped
  <1>8. ASSUME NEW f \in Entries, place'[f] # <<>> PROVE Placed(f)'
    <2>1. CASE f = e
      BY <1>2, <1>3, <1>7, <2>1 DEF Placed, Ahead
    <2>2. CASE f # e
      <3>1. Placed(f) /\ place'[f] = place[f] /\ when'[f] = when[f] /\ elapsed' = elapsed
        BY <1>2, <1>6, <1>8, <2>2 DEF WheelInv
      <3> QED  BY <3>1 DEF Placed, Ahead
    <2> QED  BY <2>1, <2>2
  <1>9. ASSUME NEW f \in live' PROVE place'[f] # <<>> \/ f \in pending'
    BY <1>2, <1>3, <1>6, <1>7 DEF WheelInv, WheelTyped
  <1> QED  BY <1>2, <1>4, <1>5, <1>8, <1>9 DEF WheelInv

LEMMA HandleKeeps ==
  ASSUME MaxTime < SlotRange[Levels], WheelInv, Handle
  PROVE  WheelInv'
  <1>1. now # Idle /\ UsedLevels # {}
    BY DEF Handle
  <1>2. PICK m, n, d : First(m, n, d)
    BY <1>1, NextFound
  <1>3. PICK next, due :
          /\ next = [level |-> m, slot |-> n, deadline |-> d] /\ due = Due(next)
          /\ pending' = due /\ elapsed' = d /\ d <= now
          /\ place' = [f \in Entries |->
               IF place[f] # <<m, n>> THEN place[f]
               ELSE IF f \in due THEN <<>>
               ELSE Lower(next, when[f])]
    <2>1. NextExpiration = [level |-> m, slot |-> n, deadline |-> d]
      BY <1>2 DEF First
    <2> QED  BY <2>1 DEF Handle
  <1>4. live' = live \ pending /\ UNCHANGED <<now, when>>
    BY DEF Handle
  <1>5. /\ WheelTyped /\ elapsed \in Nat /\ d \in Nat /\ elapsed < d /\ now \in Nat /\ now <= MaxTime
        /\ when \in [Entries -> 0 .. MaxTime] /\ m \in 0 .. Levels - 1
    BY <1>1, <1>2, TimerAssumption DEF First, WheelInv, WheelTyped
  <1>6. due = {f \in Entries : place[f] = <<m, n>> /\ (m = 0 \/ when[f] <= d)}
    BY <1>3 DEF Due
  <1>7. WheelTyped'
    <2>1. elapsed' \in 0 .. MaxTime /\ now' \in elapsed' .. MaxTime
      BY <1>3, <1>4, <1>5, TimerAssumption
    <2>2. pending' \subseteq Entries
      BY <1>3, <1>6
    <2>3. live' \subseteq Entries /\ when' \in [Entries -> 0 .. MaxTime]
      BY <1>4, <1>5 DEF WheelTyped
    <2>4. place' = [f \in Entries |-> place'[f]]
      BY <1>3, Zenon
    <2> QED  BY <2>1, <2>2, <2>3, <2>4 DEF WheelTyped
  <1>8. ASSUME NEW f \in Entries, place'[f] # <<>> PROVE Placed(f)'
    <2>1. CASE place[f] # <<m, n>>
      <3>1. place'[f] = place[f] /\ when'[f] = when[f] /\ Placed(f)
        BY <1>3, <1>4, <1>8, <2>1 DEF WheelInv
      <3>2. elapsed <= d
        BY <1>5
      <3>3. Ahead(d, place[f][1], when[f])
        BY <1>2, <1>3, <1>5, <1>8, <2>1, <3>2, StillAhead
      <3> QED  BY <1>3, <3>1, <3>3 DEF Placed, Ahead
    <2>2. CASE place[f] = <<m, n>>
      <3>1. place[f] # <<>> /\ f \notin due /\ place'[f] = Lower(next, when[f])
        BY <1>3, <1>8, <2>2
      <3>2. PICK w, at : w = when[f] /\ at = place'[f] /\ w \in Nat /\ w <= MaxTime
        BY <1>5
      <3>3. d < w
        BY <1>5, <1>6, <2>2, <3>1, <3>2
      <3>4. at = <<LevelFor(d, w), SlotFor(LevelFor(d, w), w)>>
        BY <1>3, <3>1, <3>2 DEF Lower
      <3>5. /\ at \in (0 .. Levels - 1) \X (0 .. Mult - 1)
            /\ at[2] = SlotFor(at[1], w) /\ Ahead(d, at[1], w)
        BY <1>5, <3>2, <3>3, <3>4, PutRight
      <3> QED  BY <1>3, <1>4, <3>2, <3>5 DEF Placed, Ahead
    <2> QED  BY <2>1, <2>2
  <1>9. ASSUME NEW f \in live' PROVE place'[f] # <<>> \/ f \in pending'
    <2>1. f \in Entries /\ place[f] # <<>>
      BY <1>4, <1>5 DEF WheelInv, WheelTyped
    <2>2. CASE place[f] # <<m, n>>
      BY <1>3, <2>1, <2>2
    <2>3. CASE place[f] = <<m, n>> /\ f \notin due
      BY <1>3, <2>1, <2>3 DEF Lower
    <2> QED  BY <1>3, <2>2, <2>3
  <1>10. ASSUME NEW f \in pending' PROVE when'[f] <= now'
    <2>1. f \in Entries /\ place[f] = <<m, n>> /\ (m = 0 \/ when[f] <= d) /\ when[f] \in Nat
      BY <1>3, <1>5, <1>6
    <2>2. m = 0 => when[f] = d
      <3>1. place[f] # <<>>
        BY <2>1
      <3> QED  BY <1>2, <2>1, <3>1, DueInSlot
    <2> QED  BY <1>3, <1>4, <1>5, <2>1, <2>2
  <1> QED  BY <1>7, <1>8, <1>9, <1>10 DEF WheelInv

LEMMA EndHandlingKeeps ==
  ASSUME WheelInv, EndHandling
  PROVE  WheelInv'
  <1>1. /\ now # Idle /\ pending' = {} /\ live' = live \ pending /\ elapsed' = now /\ now' = Idle
        /\ UNCHANGED <<when, place>> /\ (UsedLevels # {} => NextExpiration.deadline > now)
    BY DEF EndHandling
  <1>2. /\ WheelTyped /\ now \in elapsed .. MaxTime /\ now \in 0 .. MaxTime /\ now \in Nat
        /\ elapsed \in Nat /\ elapsed <= now
    BY <1>1, TimerAssumption DEF WheelInv, WheelTyped
  <1>3. WheelTyped'
    BY <1>1, <1>2 DEF WheelTyped
  <1>4. ASSUME NEW f \in Entries, place'[f] # <<>> PROVE Placed(f)'
    <2>1. place[f] # <<>> /\ Placed(f)
      BY <1>1, <1>4 DEF WheelInv
    <2>2. UsedLevels # {}
      <3>1. /\ place[f][1] \in 0 .. Levels - 1 /\ place[f][2] \in 0 .. Mult - 1
            /\ place[f] = <<place[f][1], place[f][2]>>
        BY <2>1 DEF Placed
      <3>2. place[f][1] \in UsedLevels
        BY <3>1 DEF UsedLevels, Occupied
      <3> QED  BY <3>2
    <2>3. PICK m, n, d : First(m, n, d)
      BY <2>2, NextFound
    <2>4. d \in Nat /\ now < d
      BY <1>1, <1>2, <2>2, <2>3 DEF First
    <2>5. Ahead(now, place[f][1], when[f])
      <3>1. PICK u \in Nat : u = now /\ elapsed <= u /\ u < d
        BY <1>2, <2>4
      <3>2. Ahead(u, place[f][1], when[f])
        BY <2>1, <2>3, <3>1, StillAhead
      <3> QED  BY <3>1, <3>2
    <2> QED  BY <1>1, <2>1, <2>5 DEF Placed, Ahead
  <1>5. \A f \in live' : place'[f] # <<>> \/ f \in pending'
    BY <1>1 DEF WheelInv
  <1> QED  BY <1>1, <1>3, <1>4, <1>5 DEF WheelInv

LEMMA WheelStep ==
  ASSUME MaxTime < SlotRange[Levels], WheelInv, [TimerNext]_timerVars
  PROVE  WheelInv'
  <1>1. ASSUME UNCHANGED <<elapsed, when, place>>, WheelTyped', pending' = pending,
               live' \subseteq live, pending = {} \/ now' = now
        PROVE  WheelInv'
    <2>1. \A f \in Entries : Placed(f)' <=> Placed(f)
      BY <1>1 DEF Placed, Ahead
    <2> QED  BY <1>1, <2>1 DEF WheelInv
  <1>2. ASSUME NEW e \in Entries, Insert(e) PROVE WheelInv'
    BY <1>2, InsertKeeps
  <1>3. ASSUME NEW e \in Entries, RemoveEntry(e) PROVE WheelInv'
    <2>1. WheelTyped'
      BY <1>3 DEF RemoveEntry, WheelInv, WheelTyped
    <2> QED  BY <1>1, <1>3, <2>1 DEF RemoveEntry
  <1>4. CASE BeginHandling
    <2>1. now = Idle /\ now' \in elapsed .. MaxTime /\ UNCHANGED <<elapsed, when, place, pending, live>>
      BY <1>4 DEF BeginHandling
    <2>2. pending = {}
      BY <2>1, TimerAssumption DEF WheelInv, WheelTyped, Idle
    <2>3. WheelTyped'
      BY <2>1 DEF WheelInv, WheelTyped
    <2> QED  BY <1>1, <2>1, <2>2, <2>3
  <1>5. CASE Handle
    BY <1>5, HandleKeeps
  <1>6. CASE EndHandling
    BY <1>6, EndHandlingKeeps
  <1>7. CASE UNCHANGED timerVars
    <2>1. WheelTyped'
      BY <1>7 DEF timerVars, WheelInv, WheelTyped
    <2> QED  BY <1>1, <1>7, <2>1 DEF timerVars
  <1> QED  BY <1>2, <1>3, <1>4, <1>5, <1>6, <1>7 DEF TimerNext

THEOREM TimersExpireOnTime ==
  ASSUME MaxTime < SlotRange[Levels]
  PROVE  TimerSpec => []ExpiresOnTime
  <1>1. TimerInit => WheelInv
    BY WheelStarts
  <1>2. WheelInv /\ [TimerNext]_timerVars => WheelInv'
    BY WheelStep
  <1>3. WheelInv => ExpiresOnTime
    <2> SUFFICES ASSUME WheelInv PROVE ExpiresOnTime
      OBVIOUS
    <2>1. ASSUME now = Idle, NEW e \in live PROVE place[e] # <<>> /\ when[e] > elapsed
      <3>1. pending = {}
        BY <2>1, TimerAssumption DEF WheelInv, WheelTyped, Idle
      <3>2. place[e] # <<>> /\ Placed(e) /\ when[e] \in Nat /\ elapsed \in Nat
        <4>1. e \in Entries /\ place[e] # <<>>
          BY <2>1, <3>1 DEF WheelInv, WheelTyped
        <4> QED  BY <4>1 DEF WheelInv, WheelTyped
      <3>3. place[e][1] \in Nat /\ Turn(elapsed, place[e][1]) < Turn(when[e], place[e][1])
        BY <3>2 DEF Placed, Ahead
      <3>4. PICK l \in Nat, w \in Nat : l = place[e][1] /\ w = when[e]
        BY <3>2, <3>3
      <3>5. Turn(elapsed, l) \in Nat /\ Turn(w, l) \in Nat
            /\ (w <= elapsed => Turn(w, l) <= Turn(elapsed, l))
        BY <3>2, Turns, TurnsInOrder
      <3> QED  BY <3>2, <3>3, <3>4, <3>5
    <2> QED  BY <2>1 DEF WheelInv, ExpiresOnTime
  <1> QED  BY <1>1, <1>2, <1>3, PTL DEF TimerSpec

THEOREM WheelWakesInTime ==
  ASSUME MaxTime < SlotRange[Levels]
  PROVE  TimerSpec => []WakesInTime
  <1>1. TimerInit => WheelInv
    BY WheelStarts
  <1>2. WheelInv /\ [TimerNext]_timerVars => WheelInv'
    BY WheelStep
  <1>3. WheelInv => WakesInTime
    <2> SUFFICES ASSUME WheelInv, now = Idle, live # {}
                 PROVE  /\ UsedLevels # {} /\ NextExpiration.deadline > elapsed
                        /\ \A e \in live : NextExpiration.deadline <= when[e]
      BY DEF WakesInTime
    <2>1. ASSUME NEW e \in live PROVE e \in Entries /\ place[e] # <<>> /\ Placed(e)
      <3>1. pending = {}
        BY TimerAssumption DEF WheelInv, WheelTyped, Idle
      <3> QED  BY <2>1, <3>1 DEF WheelInv, WheelTyped
    <2>2. UsedLevels # {}
      <3>1. PICK e \in live : TRUE
        OBVIOUS
      <3>2. /\ place[e][1] \in 0 .. Levels - 1 /\ place[e][2] \in 0 .. Mult - 1
            /\ place[e] = <<place[e][1], place[e][2]>> /\ e \in Entries
        BY <2>1 DEF Placed
      <3>3. place[e][1] \in UsedLevels
        BY <3>2 DEF UsedLevels, Occupied
      <3> QED  BY <3>3
    <2>3. PICK m, n, d : First(m, n, d)
      BY <2>2, NextFound
    <2>4. NextExpiration.deadline = d /\ elapsed < d /\ d \in Nat /\ elapsed \in Nat
      BY <2>3 DEF First, WheelInv, WheelTyped
    <2>5. \A e \in live : d <= when[e]
      BY <2>1, <2>3, DueInSlot
    <2> QED  BY <2>2, <2>4, <2>5
  <1> QED  BY <1>1, <1>2, <1>3, PTL DEF TimerSpec
=============================================================================
