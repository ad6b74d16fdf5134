----------------------------- MODULE SyncProofs -----------------------------
(***************************************************************************)
(* What is proved of Channel, SharedMutex, Latch and Coroutine, for every  *)
(* number of coroutines, of the ring buffer under a channel, for every     *)
(* capacity, and of Logger, for every size and number of buffers.  The six *)
(* do not interact in the models; each part states its inductive           *)
(* invariant, one lemma per action, and the theorem.                       *)
(***************************************************************************)
EXTENDS
  Channel, SharedMutex, Latch, RingBuffer, Coroutine, Logger,
  FiniteSetTheorems, SequenceTheorems, TLAPS

(***************************************************************************)
(* What is proved of Channel for every number of senders and receivers and *)
(* every capacity: nobody waits in a list for what is there.               *)
(*                                                                         *)
(* The lists and the buffer are changed under the mutex, but destroy()     *)
(* clears the lists without it and looks at nothing.  So the invariant is  *)
(* strengthened by what a coroutine relies on that has looked at the       *)
(* buffer and not yet listed itself: it owns the mutex, and what it saw    *)
(* is still so.                                                            *)
(***************************************************************************)
ChannelPlaces == {"idle", "locking", "listing", "waiting", "late",
           "closing", "wake senders", "wake receivers", "clear"}

ChannelTyped ==
  /\ at \in [Users -> ChannelPlaces]
  /\ value \in [Senders -> Nat]
  /\ lastValue \in Nat
  /\ line \in Seq(Users)
  /\ ring \in Seq(Nat) /\ Len(ring) <= Cap
  /\ waitingSenders \in Seq(Senders) /\ waitingReceivers \in Seq(Receivers)

(* Whoever is about to list itself owns the mutex, and what it saw holds.  *)
ListsRightly == \A c \in Users : at[c] = "listing" => Owns(c) /\ MustWait(c)

ChannelInv == ChannelTyped /\ WaitsForNothingThere /\ ListsRightly

-----------------------------------------------------------------------------
LEMMA ChannelInitInv == ChannelInit => ChannelInv
  BY ChannelAssumption
     DEF ChannelInit, ChannelInv, ChannelTyped, WaitsForNothingThere, ListsRightly,
     ChannelPlaces, Users

(* The owner of the mutex is the only one that can be about to list itself.*)
LEMMA OnlyOwnerLists ==
  ASSUME ChannelInv, NEW c \in Users, Owns(c), NEW d \in Users, at[d] = "listing"
  PROVE  d = c
  BY DEF ChannelInv, ListsRightly, Owns

(* What the end of an operation leaves: fewer coroutines busy, none about  *)
(* to list itself.                                                         *)
LEMMA DoneTyped ==
  ASSUME ChannelInv, NEW c \in Users, Owns(c), at[c] = "locking",
         NEW woken \in SUBSET Users, Done(c, woken)
  PROVE  /\ at' \in [Users -> ChannelPlaces] /\ value' \in [Senders -> Nat]
         /\ line' \in Seq(Users)
         /\ \A d \in Users : at'[d] # "listing"
  <1>1. \A d \in Users : at[d] # "listing"
    BY OnlyOwnerLists
  <1>2. line # <<>> /\ line \in Seq(Users)
    BY DEF Owns, ChannelInv, ChannelTyped
  <1>3. line' \in Seq(Users)
    BY <1>2 DEF Done
  <1> QED
    BY <1>1, <1>3 DEF Done, ChannelInv, ChannelTyped, ChannelPlaces

(* An operation under the mutex, ended by Done.                            *)
LEMMA SendKeeps ==
  ASSUME ChannelInv, NEW c \in Senders, Send(c)
  PROVE  ChannelInv'
  <1> USE DEF ChannelInv, ChannelTyped, WaitsForNothingThere, ListsRightly
  <1>1. c \in Users
    BY DEF Users
  <1>2. CASE HandOver(c)
    <2>1. Head(waitingReceivers) \in Users
      BY <1>2 DEF HandOver, Users
    <2>2. /\ at' \in [Users -> ChannelPlaces] /\ value' \in [Senders -> Nat]
          /\ line' \in Seq(Users) /\ \A d \in Users : at'[d] # "listing"
      BY <1>1, <1>2, <2>1, DoneTyped DEF HandOver
    <2>3. waitingReceivers' \in Seq(Receivers) /\ waitingSenders = <<>> /\ ring = <<>>
      BY <1>2 DEF HandOver
    <2>4. UNCHANGED <<lastValue, ring, waitingSenders>>
      BY <1>2 DEF HandOver
    <2> QED
      BY <2>2, <2>3, <2>4
  <1>3. CASE Push(c)
    <2>1. /\ at' \in [Users -> ChannelPlaces] /\ value' \in [Senders -> Nat]
          /\ line' \in Seq(Users) /\ \A d \in Users : at'[d] # "listing"
      BY <1>1, <1>3, DoneTyped DEF Push
    <2>2. waitingSenders = <<>> /\ waitingReceivers = <<>>
      BY <1>3 DEF Push
    <2>3. ring' \in Seq(Nat) /\ Len(ring') = Len(ring) + 1
      BY <1>3 DEF Push
    <2>4. Len(ring') <= Cap
      BY <1>3, <2>3, ChannelAssumption DEF Push
    <2>5. UNCHANGED <<lastValue, waitingSenders, waitingReceivers>>
      BY <1>3 DEF Push, lists
    <2> QED
      BY <2>1, <2>2, <2>3, <2>4, <2>5
  <1> QED
    BY <1>2, <1>3 DEF Send

LEMMA RecvKeeps ==
  ASSUME ChannelInv, NEW c \in Receivers, Recv(c)
  PROVE  ChannelInv'
  <1> USE DEF ChannelInv, ChannelTyped, WaitsForNothingThere, ListsRightly
  <1>1. c \in Users
    BY DEF Users
  <1>2. CASE TakeWaiting(c)
    <2>1. Head(waitingSenders) \in Users
      BY <1>2 DEF TakeWaiting, Users
    <2>2. /\ at' \in [Users -> ChannelPlaces] /\ value' \in [Senders -> Nat]
          /\ line' \in Seq(Users) /\ \A d \in Users : at'[d] # "listing"
      BY <1>1, <1>2, <2>1, DoneTyped DEF TakeWaiting
    <2>3. /\ waitingSenders' \in Seq(Senders) /\ waitingReceivers = <<>>
          /\ Len(ring) = Cap
      BY <1>2 DEF TakeWaiting
    <2>4. UNCHANGED <<lastValue, ring, waitingReceivers>>
      BY <1>2 DEF TakeWaiting
    <2> QED
      BY <2>2, <2>3, <2>4
  <1>3. CASE Pop(c)
    <2>1. /\ at' \in [Users -> ChannelPlaces] /\ value' \in [Senders -> Nat]
          /\ line' \in Seq(Users) /\ \A d \in Users : at'[d] # "listing"
      BY <1>1, <1>3, DoneTyped DEF Pop
    <2>2. waitingSenders = <<>> /\ waitingReceivers = <<>>
      BY <1>3 DEF Pop
    <2>3. ring' \in Seq(Nat) /\ Len(ring') <= Cap
      BY <1>3, ChannelAssumption DEF Pop
    <2>4. UNCHANGED <<lastValue, waitingSenders, waitingReceivers>>
      BY <1>3 DEF Pop, lists
    <2> QED
      BY <2>1, <2>2, <2>3, <2>4
  <1> QED
    BY <1>2, <1>3 DEF Recv

LEMMA LookKeeps ==
  ASSUME ChannelInv, NEW c \in Users, Look(c)
  PROVE  ChannelInv'
  <1> USE DEF ChannelInv, ChannelTyped, WaitsForNothingThere, ListsRightly
  <1>1. CASE closed
    <2>1. /\ at' \in [Users -> ChannelPlaces] /\ value' \in [Senders -> Nat]
          /\ line' \in Seq(Users) /\ \A d \in Users : at'[d] # "listing"
      BY <1>1, DoneTyped DEF Look
    <2> QED
      BY <2>1 DEF Look, lists, history
  <1>2. CASE ~closed
    <2>1. at' = [at EXCEPT ![c] = "listing"] /\ UNCHANGED <<line, value>>
      BY <1>2 DEF Look, Goto
    <2>2. at' \in [Users -> ChannelPlaces]
      BY <2>1 DEF ChannelPlaces
    <2>3. \A d \in Users : at'[d] = "listing" => d = c
      BY <2>1, OnlyOwnerLists DEF Look
    <2>4. Owns(c)' /\ MustWait(c)'
      BY <2>1 DEF Look, Owns, MustWait, lists
    <2> QED
      BY <2>1, <2>2, <2>3, <2>4 DEF Look, lists, history
  <1> QED
    BY <1>1, <1>2

LEMMA ListKeeps ==
  ASSUME ChannelInv, NEW c \in Users, List(c)
  PROVE  ChannelInv'
  <1> USE DEF ChannelInv, ChannelTyped, WaitsForNothingThere, ListsRightly
  <1>1. Owns(c) /\ MustWait(c)
    BY DEF List
  <1>2. at' \in [Users -> ChannelPlaces] /\ \A d \in Users : at'[d] # "listing"
    BY <1>1, OnlyOwnerLists DEF List, Goto, ChannelPlaces
  <1>3. line' \in Seq(Users)
    BY <1>1 DEF List, Owns
  <1>4. UNCHANGED <<value, lastValue, ring>>
    BY DEF List, history
  <1>5. CASE c \in Senders
    <2>1. /\ waitingSenders' = Append(waitingSenders, c) /\ UNCHANGED waitingReceivers
          /\ waitingReceivers = <<>> /\ Len(ring) = Cap
      BY <1>1, <1>5 DEF List, MustWait
    <2>2. waitingSenders' \in Seq(Senders)
      BY <1>5, <2>1
    <2> QED
      BY <1>2, <1>3, <1>4, <2>1, <2>2
  <1>6. CASE c \notin Senders
    <2>1. /\ waitingReceivers' = Append(waitingReceivers, c) /\ UNCHANGED waitingSenders
          /\ waitingSenders = <<>> /\ ring = <<>>
      BY <1>1, <1>6 DEF List, MustWait
    <2>2. waitingReceivers' \in Seq(Receivers)
      BY <1>6, <2>1 DEF Users
    <2> QED
      BY <1>2, <1>3, <1>4, <2>1, <2>2
  <1> QED
    BY <1>5, <1>6

(* destroy() and the counts, which do not look at the mutex.               *)
LEMMA DestroyKeeps ==
  ASSUME ChannelInv, NEW c \in Users, Destroy(c)
  PROVE  ChannelInv'
  <1> USE DEF ChannelInv, ChannelTyped, WaitsForNothingThere, ListsRightly
  <1>1. /\ at' \in [Users -> ChannelPlaces]
        /\ \A d \in Users : at'[d] = "listing" => at[d] = "listing"
    BY DEF Destroy, Exchange, WakeSenders, WakeReceivers, Clear, Goto, WakeAll, ChannelPlaces
  <1>2. UNCHANGED <<value, lastValue, line, ring>>
    BY DEF Destroy, Exchange, WakeSenders, WakeReceivers, Clear, history
  <1>3. CASE UNCHANGED lists
    <2>1. \A d \in Users : at'[d] = "listing" => Owns(d)' /\ MustWait(d)'
      BY <1>1, <1>2, <1>3 DEF Owns, MustWait, lists
    <2> QED
      BY <1>1, <1>2, <1>3, <2>1 DEF lists
  <1>4. CASE waitingSenders' = <<>> /\ waitingReceivers' = <<>>
    <2>1. \A d \in Users : at'[d] = "listing" => Owns(d)' /\ MustWait(d)'
      BY <1>1, <1>2, <1>4 DEF Owns, MustWait
    <2> QED
      BY <1>1, <1>2, <1>4, <2>1
  <1> QED
    BY <1>3, <1>4 DEF Destroy, Exchange, WakeSenders, WakeReceivers, Clear

(* Whoever joins the line, its owner stays.                                *)
LEMMA OwnerStays ==
  ASSUME NEW s \in Seq(Users), s # <<>>, NEW c \in Users
  PROVE  Append(s, c) # <<>> /\ Head(Append(s, c)) = Head(s)
  <1>1. Append(s, c) # <<>>
    BY AppendProperties
  <1>2. Head(Append(s, c)) = Head(s)
    BY HeadTailAppend
  <1> QED
    BY <1>1, <1>2

LEMMA BeginKeeps ==
  ASSUME ChannelInv, NEW c \in Users,
         (c \in Senders /\ BeginSend(c)) \/ (c \in Receivers /\ BeginRecv(c))
  PROVE  ChannelInv'
  <1> USE DEF ChannelInv, ChannelTyped, WaitsForNothingThere, ListsRightly
  <1>1. at' = [at EXCEPT ![c] = "locking"] /\ line' = Append(line, c)
    BY DEF BeginSend, BeginRecv, Goto
  <1>2. UNCHANGED <<ring, waitingSenders, waitingReceivers>>
    BY DEF BeginSend, BeginRecv, lists
  <1>3. value' \in [Senders -> Nat] /\ lastValue' \in Nat
    <2>1. CASE c \in Senders /\ BeginSend(c)
      <3>1. lastValue' \in Nat
        BY <2>1 DEF BeginSend
      <3> QED
        BY <2>1, <3>1 DEF BeginSend
    <2>2. CASE BeginRecv(c)
      BY <2>2 DEF BeginRecv, history
    <2> QED
      BY <2>1, <2>2
  <1>4. at' \in [Users -> ChannelPlaces] /\ line' \in Seq(Users)
    <2>1. at' \in [Users -> ChannelPlaces]
      BY <1>1 DEF ChannelPlaces
    <2>2. line' \in Seq(Users)
      BY <1>1
    <2> QED
      BY <2>1, <2>2
  <1>5. \A d \in Users : at'[d] = "listing" => Owns(d)' /\ MustWait(d)'
    <2> SUFFICES ASSUME NEW d \in Users, at'[d] = "listing" PROVE Owns(d)' /\ MustWait(d)'
      OBVIOUS
    <2>1. at[d] = "listing"
      BY <1>1
    <2>2. Owns(d) /\ MustWait(d)
      BY <2>1
    <2>3. line # <<>> /\ line \in Seq(Users) /\ Head(line) = d
      BY <2>2 DEF Owns
    <2>4. Append(line, c) # <<>> /\ Head(Append(line, c)) = Head(line)
      BY <2>3, OwnerStays
    <2>5. Owns(d)'
      BY <1>1, <2>3, <2>4 DEF Owns
    <2> QED
      BY <1>2, <2>2, <2>5 DEF MustWait
  <1> QED
    BY <1>2, <1>3, <1>4, <1>5

LEMMA HandlesKeep ==
  ASSUME ChannelInv, NEW c \in Users,
         Release(c) \/ \E d \in Users : Copy(c, d) \/ Move(c, d)
  PROVE  ChannelInv'
  <1> USE DEF ChannelInv, ChannelTyped, WaitsForNothingThere, ListsRightly
  <1>1. /\ at' \in [Users -> ChannelPlaces]
        /\ \A d \in Users : at'[d] = "listing" => at[d] = "listing"
    BY DEF Release, Copy, Move, Goto, ChannelPlaces
  <1>2. UNCHANGED <<value, lastValue, line, ring, waitingSenders, waitingReceivers>>
    BY DEF Release, Copy, Move, history, lists
  <1>3. \A d \in Users : at'[d] = "listing" => Owns(d)' /\ MustWait(d)'
    BY <1>1, <1>2 DEF Owns, MustWait
  <1> QED
    BY <1>1, <1>2, <1>3

LEMMA ChannelStepKeeps == ChannelInv /\ [ChannelNext]_channelVars => ChannelInv'
  <1> SUFFICES ASSUME ChannelInv, [ChannelNext]_channelVars PROVE ChannelInv'
    OBVIOUS
  <1>1. CASE UNCHANGED channelVars
    BY <1>1
       DEF channelVars, ChannelInv, ChannelTyped, WaitsForNothingThere, ListsRightly, Owns,
           MustWait
  <1>2. ASSUME NEW c \in Senders, BeginSend(c) PROVE ChannelInv'
    BY <1>2, BeginKeeps DEF Users
  <1>3. ASSUME NEW c \in Receivers, BeginRecv(c) PROVE ChannelInv'
    BY <1>3, BeginKeeps DEF Users
  <1>4. ASSUME NEW c \in Users, GoOn(c) PROVE ChannelInv'
    BY <1>4, SendKeeps, RecvKeeps, LookKeeps, ListKeeps, DestroyKeeps DEF GoOn
  <1>5. ASSUME NEW c \in Users, Release(c) PROVE ChannelInv'
    BY <1>5, HandlesKeep
  <1>6. ASSUME NEW c \in Users, NEW d \in Users, Copy(c, d) \/ Move(c, d) PROVE ChannelInv'
    BY <1>6, HandlesKeep
  <1> QED
    BY <1>1, <1>2, <1>3, <1>4, <1>5, <1>6 DEF ChannelNext

(* In every channel, whatever its capacity and however many use it, a      *)
(* sender waits only while the buffer is full and a receiver only while it *)
(* is empty, although destroy() works outside the mutex (channel.hpp:31,   *)
(* 74, 136).                                                               *)
THEOREM NobodyWaitsInVain == ChannelSpec => []WaitsForNothingThere
  <1>1. ChannelInv => WaitsForNothingThere
    BY DEF ChannelInv
  <1> QED
    BY ChannelInitInv, ChannelStepKeeps, <1>1, PTL DEF ChannelSpec

-----------------------------------------------------------------------------
(***************************************************************************)
(* What is proved of Channel's values: each is delivered once, those that  *)
(* were buffered in their order.                                           *)
(*                                                                         *)
(* A value is at its sender until it is buffered or given, and the sender  *)
(* that a receiver takes it from must still wait.  destroy() resumes the   *)
(* listed senders before it clears their list, so this holds only because  *)
(* nobody receives by then: the invariant counts the handles, and whoever  *)
(* runs destroy() gave up the last one of its side.                        *)
(***************************************************************************)
Held(S) == {c \in S : handle[c]}
Busy(c) == at[c] \in {"locking", "listing", "waiting", "late"}
Leaving(c) == at[c] \in {"closing", "wake senders", "wake receivers", "clear"}

(* The counts are those of the handles, and whoever sends or receives has  *)
(* one; whoever runs destroy() gave up the last of its side.               *)
HandlesCounted ==
  /\ handle \in [Users -> BOOLEAN]
  /\ IsFiniteSet(Held(Senders)) /\ senders = Cardinality(Held(Senders))
  /\ IsFiniteSet(Held(Receivers)) /\ receivers = Cardinality(Held(Receivers))
  /\ \A c \in Users : Busy(c) => handle[c]
  /\ \A c \in Users : Leaving(c) => Held(Side(c)) = {}

(* As long as somebody may receive, the listed senders wait, once each.    *)
ListedWait ==
  Held(Receivers) # {} =>
    /\ IsInjective(waitingSenders)
    /\ \A i \in DOMAIN waitingSenders : at[waitingSenders[i]] \in {"waiting", "late"}

(* What a sender is about to send is nobody else's, and new to the channel.*)
ValuesApart ==
  /\ \A s \in Senders : Busy(s) =>
       value[s] <= lastValue /\ value[s] \notin ToSet(buffered) \cup ToSet(got)
  /\ \A s, t \in Senders : Busy(s) /\ Busy(t) /\ value[s] = value[t] => s = t
  /\ buffered \in Seq(0 .. lastValue) /\ got \in Seq(0 .. lastValue)
  /\ IsInjective(buffered)

DeliveryInv ==
  ChannelInv /\ HandlesCounted /\ ListedWait /\ ValuesApart /\ DeliveredOnceInOrder

-----------------------------------------------------------------------------
(* No handle is made or given up, and nobody is busy without one.          *)
SameHandles ==
  /\ UNCHANGED handles
  /\ \A c \in Users : Busy(c)' => Busy(c) \/ handle[c]
  /\ \A c \in Users : Leaving(c)' => Leaving(c)

LEMMA SameHandlesKeep ==
  ASSUME HandlesCounted, SameHandles
  PROVE  HandlesCounted'
  <1>1. Held(Senders)' = Held(Senders) /\ Held(Receivers)' = Held(Receivers)
    BY DEF Held, SameHandles, handles
  <1>2. \A c \in Users : Held(Side(c))' = Held(Side(c))
    BY <1>1 DEF Side
  <1> QED
    BY <1>1, <1>2 DEF HandlesCounted, SameHandles, handles

LEMMA DoneHandles ==
  ASSUME ChannelTyped, NEW c \in Users, NEW woken, Done(c, woken), UNCHANGED handles
  PROVE  SameHandles
  BY DEF Done, SameHandles, Busy, Leaving, ChannelTyped

LEMMA GoOnHandles ==
  ASSUME ChannelTyped, NEW c \in Users, GoOn(c)
  PROVE  SameHandles
  <1>1. CASE c \in Senders /\ Send(c)
    BY <1>1, DoneHandles DEF Send, HandOver, Push
  <1>2. CASE c \in Receivers /\ Recv(c)
    BY <1>2, DoneHandles DEF Recv, TakeWaiting, Pop
  <1>3. CASE Look(c)
    <2>1. CASE closed
      BY <1>3, <2>1, DoneHandles DEF Look
    <2>2. CASE ~closed
      BY <1>3, <2>2 DEF Look, Goto, SameHandles, Busy, Leaving, ChannelTyped
    <2> QED  BY <2>1, <2>2
  <1>4. CASE List(c)
    BY <1>4 DEF List, Goto, SameHandles, Busy, Leaving, ChannelTyped
  <1>5. CASE Destroy(c)
    <2>1. UNCHANGED handles
      BY <1>5 DEF Destroy, Exchange, WakeSenders, WakeReceivers, Clear
    <2>2. \A d \in Users : Busy(d)' => Busy(d)
      BY <1>5 DEF Destroy, Exchange, WakeSenders, WakeReceivers, Clear, WakeAll, Goto, Busy,
                  ChannelTyped
    <2>3. \A d \in Users : Leaving(d)' => Leaving(d)
      BY <1>5 DEF Destroy, Exchange, WakeSenders, WakeReceivers, Clear, WakeAll, Goto,
                  Leaving, ChannelTyped
    <2> QED  BY <2>1, <2>2, <2>3 DEF SameHandles
  <1> QED  BY <1>1, <1>2, <1>3, <1>4, <1>5 DEF GoOn

LEMMA BeginHandles ==
  ASSUME ChannelTyped, NEW c \in Users,
         (c \in Senders /\ BeginSend(c)) \/ (c \in Receivers /\ BeginRecv(c))
  PROVE  SameHandles
  BY DEF BeginSend, BeginRecv, Goto, SameHandles, Busy, Leaving, ChannelTyped

(* Handles of one side copied, moved and given up, and their count.        *)
LEMMA CopyHandles ==
  ASSUME ChannelTyped, HandlesCounted, NEW c \in Users, NEW d \in Users, Copy(c, d)
  PROVE  HandlesCounted'
  <1>1. /\ handle[c] /\ ~handle[d] /\ handle' = [handle EXCEPT ![d] = TRUE] /\ at' = at
        /\ Side(c) = Side(d) /\ ~Leaving(d)
    BY DEF Copy, Leaving
  <1>2. /\ d \in Senders => Held(Senders)' = Held(Senders) \cup {d}
        /\ d \notin Senders => Held(Senders)' = Held(Senders)
        /\ d \in Receivers => Held(Receivers)' = Held(Receivers) \cup {d}
        /\ d \notin Receivers => Held(Receivers)' = Held(Receivers)
        /\ d \notin Held(Senders) /\ d \notin Held(Receivers)
    BY <1>1, ChannelAssumption DEF Held, HandlesCounted, Users
  <1>3. /\ IsFiniteSet(Held(Senders) \cup {d}) /\ IsFiniteSet(Held(Receivers) \cup {d})
        /\ Cardinality(Held(Senders) \cup {d}) = Cardinality(Held(Senders)) + 1
        /\ Cardinality(Held(Receivers) \cup {d}) = Cardinality(Held(Receivers)) + 1
    BY <1>2, FS_AddElement DEF HandlesCounted
  <1>4. (c \in Senders <=> d \in Senders) /\ (c \in Receivers <=> d \in Receivers)
    BY <1>1, ChannelAssumption DEF Side, Users
  <1>5. /\ senders' = IF d \in Senders THEN senders + 1 ELSE senders
        /\ receivers' = IF d \in Receivers THEN receivers + 1 ELSE receivers
    BY <1>4 DEF Copy
  <1>6. /\ IsFiniteSet(Held(Senders))' /\ (senders = Cardinality(Held(Senders)))'
        /\ IsFiniteSet(Held(Receivers))' /\ (receivers = Cardinality(Held(Receivers)))'
    BY <1>2, <1>3, <1>5 DEF HandlesCounted
  <1>7. \A e \in Users : Leaving(e)' => Held(Side(e))' = {}
    <2> SUFFICES ASSUME NEW e \in Users, Leaving(e)' PROVE Held(Side(e))' = {}
      OBVIOUS
    <2>1. Leaving(e) /\ Held(Side(e)) = {}
      BY <1>1 DEF Leaving, HandlesCounted
    <2>2. Side(d) # Side(e)
      BY <1>1, <2>1, ChannelAssumption DEF Held, Side, Users
    <2>3. d \notin Side(e)
      BY <2>2, ChannelAssumption DEF Side, Users
    <2> QED
      BY <1>1, <2>1, <2>3 DEF Held, Side, HandlesCounted, Users
  <1>8. handle' \in [Users -> BOOLEAN] /\ \A e \in Users : Busy(e)' => handle'[e]
    BY <1>1 DEF HandlesCounted, Busy
  <1> QED  BY <1>6, <1>7, <1>8 DEF HandlesCounted

LEMMA MoveHandles ==
  ASSUME ChannelTyped, HandlesCounted, NEW c \in Users, NEW d \in Users, Move(c, d)
  PROVE  HandlesCounted'
  <1>1. /\ handle[c] /\ ~handle[d] /\ handle' = [handle EXCEPT ![c] = FALSE, ![d] = TRUE]
        /\ at' = at /\ Side(c) = Side(d) /\ ~Leaving(d) /\ ~Busy(c) /\ c # d
        /\ UNCHANGED <<senders, receivers>>
    BY DEF Move, Leaving, Busy
  <1>2. ASSUME NEW S \in {Senders, Receivers}
        PROVE  /\ c \in S => d \in S /\ Held(S)' = (Held(S) \ {c}) \cup {d}
               /\ c \notin S => Held(S)' = Held(S)
               /\ c \in S => c \in Held(S) /\ d \notin Held(S) \ {c}
    BY <1>1, ChannelAssumption DEF Held, HandlesCounted, Users, Side
  <1>3. ASSUME NEW S \in {Senders, Receivers}
        PROVE  IsFiniteSet(Held(S))' /\ Cardinality(Held(S))' = Cardinality(Held(S))
    <2>1. IsFiniteSet(Held(S)) /\ Cardinality(Held(S)) \in Nat
      BY FS_CardinalityType DEF HandlesCounted
    <2>2. IsFiniteSet(Held(S) \ {c})
      BY <2>1, FS_RemoveElement
    <2>3. CASE c \in S
      <3>1. Cardinality(Held(S) \ {c}) = Cardinality(Held(S)) - 1
        BY <1>2, <2>1, <2>3, FS_RemoveElement
      <3>2. /\ IsFiniteSet((Held(S) \ {c}) \cup {d})
            /\ Cardinality((Held(S) \ {c}) \cup {d}) = Cardinality(Held(S) \ {c}) + 1
        BY <1>2, <2>2, <2>3, FS_AddElement
      <3>3. Held(S)' = (Held(S) \ {c}) \cup {d}
        BY <1>2, <2>3
      <3> QED  BY <2>1, <3>1, <3>2, <3>3
    <2>4. CASE c \notin S
      BY <1>2, <2>1, <2>4
    <2> QED  BY <2>3, <2>4
  <1>4. \A e \in Users : Leaving(e)' => Held(Side(e))' = {}
    <2> SUFFICES ASSUME NEW e \in Users, Leaving(e)' PROVE Held(Side(e))' = {}
      OBVIOUS
    <2>1. Leaving(e) /\ Held(Side(e)) = {}
      BY <1>1 DEF Leaving, HandlesCounted
    <2>2. c \notin Side(e) /\ d \notin Side(e)
      BY <1>1, <2>1, ChannelAssumption DEF Held, Side, Users
    <2> QED
      BY <1>1, <2>1, <2>2 DEF Held, Side, HandlesCounted, Users
  <1>5. handle' \in [Users -> BOOLEAN] /\ \A e \in Users : Busy(e)' => handle'[e]
    BY <1>1 DEF HandlesCounted, Busy
  <1> QED  BY <1>1, <1>3, <1>4, <1>5 DEF HandlesCounted

LEMMA ReleaseHandles ==
  ASSUME ChannelTyped, HandlesCounted, NEW c \in Users, Release(c)
  PROVE  HandlesCounted'
  <1>1. /\ handle[c] /\ handle' = [handle EXCEPT ![c] = FALSE] /\ ~Busy(c) /\ ~Leaving(c)
        /\ at' \in [Users -> ChannelPlaces]
        /\ \A e \in Users \ {c} : at'[e] = at[e]
        /\ ~Busy(c)'
        /\ Leaving(c)' => (IF c \in Senders THEN senders ELSE receivers) = 1
    BY DEF Release, Leaving, Busy, Goto, ChannelTyped, ChannelPlaces
  <1>2. ASSUME NEW S \in {Senders, Receivers}
        PROVE  /\ Held(S)' = Held(S) \ {c}
               /\ IsFiniteSet(Held(S))' /\ Cardinality(Held(S)) \in Nat
               /\ Cardinality(Held(S))' = IF c \in S THEN Cardinality(Held(S)) - 1
                                                      ELSE Cardinality(Held(S))
    <2>1. Held(S)' = Held(S) \ {c} /\ (c \in Held(S) <=> c \in S)
      BY <1>1 DEF Held, HandlesCounted, Users
    <2>2. IsFiniteSet(Held(S)) /\ Cardinality(Held(S)) \in Nat
      BY FS_CardinalityType DEF HandlesCounted
    <2> QED  BY <2>1, <2>2, FS_RemoveElement
  <1>3. c \in Receivers <=> c \notin Senders
    BY ChannelAssumption DEF Users
  <1>4. /\ (senders = Cardinality(Held(Senders)))'
        /\ (receivers = Cardinality(Held(Receivers)))'
    BY <1>2, <1>3 DEF Release, HandlesCounted
  <1>5. ASSUME NEW e \in Users, Leaving(e)' PROVE Held(Side(e))' = {}
    <2>1. CASE e = c
      <3>1. Cardinality(Held(Side(c))) = 1
        BY <1>1, <1>5, <2>1 DEF Side, HandlesCounted
      <3>2. Cardinality(Held(Side(c)))' = 0 /\ IsFiniteSet(Held(Side(c)))'
        BY <1>2, <1>3, <3>1 DEF Side
      <3> QED  BY <2>1, <3>2, FS_EmptySet
    <2>2. CASE e # c
      <3>1. Held(Side(e)) = {}
        BY <1>1, <1>5, <2>2 DEF Leaving, HandlesCounted
      <3> QED  BY <1>2, <3>1 DEF Side
    <2> QED  BY <2>1, <2>2
  <1>6. handle' \in [Users -> BOOLEAN] /\ \A e \in Users : Busy(e)' => handle'[e]
    BY <1>1 DEF HandlesCounted, Busy
  <1> QED  BY <1>2, <1>4, <1>5, <1>6 DEF HandlesCounted

-----------------------------------------------------------------------------
(* Nobody gets a handle of a side that has none left.                      *)
LEMMA ReceiversLeave ==
  ASSUME ChannelTyped, HandlesCounted, [ChannelNext]_channelVars, Held(Receivers) = {}
  PROVE  Held(Receivers)' = {}
  <1>1. CASE UNCHANGED handle
    BY <1>1 DEF Held
  <1>2. ASSUME NEW c \in Users, Release(c) PROVE Held(Receivers)' = {}
    <2>1. handle' = [handle EXCEPT ![c] = FALSE]
      BY <1>2 DEF Release
    <2> QED  BY <2>1 DEF Held, HandlesCounted, Users
  <1>3. ASSUME NEW c \in Users, NEW d \in Users, Copy(c, d) \/ Move(c, d)
        PROVE  Held(Receivers)' = {}
    <2>1. handle[c] /\ Side(c) = Side(d)
      BY <1>3 DEF Copy, Move
    <2>2. d \notin Receivers
      BY <2>1, ChannelAssumption DEF Held, Side, Users
    <2>3. \A e \in Receivers : handle'[e] => handle[e]
      BY <1>3, <2>2 DEF Copy, Move, HandlesCounted, Users
    <2> QED  BY <2>3 DEF Held
  <1>4. ASSUME NEW c \in Senders, BeginSend(c) PROVE UNCHANGED handle
    BY <1>4 DEF BeginSend, handles
  <1>5. ASSUME NEW c \in Receivers, BeginRecv(c) PROVE UNCHANGED handle
    BY <1>5 DEF BeginRecv, handles
  <1>6. ASSUME NEW c \in Users, GoOn(c) PROVE UNCHANGED handle
    BY <1>6, GoOnHandles DEF SameHandles, handles
  <1>7. ASSUME UNCHANGED channelVars PROVE UNCHANGED handle
    BY <1>7 DEF channelVars
  <1> QED
    BY <1>1, <1>2, <1>3, <1>4, <1>5, <1>6, <1>7 DEF ChannelNext

(* The list does not grow, and who is still on it waits as before.         *)
LEMMA ListedShrinks ==
  ASSUME ChannelTyped, ListedWait, Held(Receivers) = {} => Held(Receivers)' = {},
         \/ UNCHANGED waitingSenders
         \/ waitingSenders # <<>> /\ waitingSenders' = Tail(waitingSenders)
         \/ waitingSenders' = <<>>,
         Held(Receivers) # {} =>
           \A s \in Senders : at[s] \in {"waiting", "late"} =>
             at'[s] \in {"waiting", "late"}
               \/ (waitingSenders # <<>> /\ s = Head(waitingSenders)
                     /\ waitingSenders' = Tail(waitingSenders))
  PROVE  ListedWait'
  <1> SUFFICES ASSUME Held(Receivers) # {}
               PROVE  /\ IsInjective(waitingSenders')
                      /\ \A i \in DOMAIN waitingSenders' :
                           at'[waitingSenders'[i]] \in {"waiting", "late"}
    BY DEF ListedWait
  <1>1. PICK q \in Seq(Senders) : q = waitingSenders
    BY DEF ChannelTyped
  <1>2. \A i, j \in 1 .. Len(q) : q[i] = q[j] => i = j
    BY <1>1 DEF ListedWait, IsInjective
  <1>3. \A i \in 1 .. Len(q) : q[i] \in Senders /\ at[q[i]] \in {"waiting", "late"}
    BY <1>1 DEF ListedWait
  <1>4. CASE q # <<>> /\ waitingSenders' = Tail(q)
    <2>1. /\ Tail(q) \in Seq(Senders) /\ Len(Tail(q)) = Len(q) - 1 /\ Len(q) \in Nat
          /\ \A i \in 1 .. Len(Tail(q)) : Tail(q)[i] = q[i + 1]
          /\ Head(q) = q[1]
      BY <1>4
    <2>2. DOMAIN Tail(q) = 1 .. Len(q) - 1
      BY <2>1
    <2>3. IsInjective(Tail(q))
      <3> SUFFICES ASSUME NEW i \in 1 .. Len(q) - 1, NEW j \in 1 .. Len(q) - 1,
                          Tail(q)[i] = Tail(q)[j]
                   PROVE  i = j
        BY <2>2 DEF IsInjective
      <3>1. i + 1 \in 1 .. Len(q) /\ j + 1 \in 1 .. Len(q) /\ q[i + 1] = q[j + 1]
        BY <2>1
      <3> QED  BY <1>2, <2>1, <3>1
    <2>4. ASSUME NEW i \in DOMAIN Tail(q) PROVE at'[Tail(q)[i]] \in {"waiting", "late"}
      <3>1. /\ i + 1 \in 1 .. Len(q) /\ Tail(q)[i] = q[i + 1] /\ i + 1 # 1
            /\ 1 \in 1 .. Len(q)
        BY <2>1, <2>2
      <3>2. q[i + 1] # Head(q)
        BY <1>2, <2>1, <3>1
      <3> QED  BY <1>1, <1>3, <3>1, <3>2
    <2> QED  BY <1>4, <2>3, <2>4
  <1>5. CASE waitingSenders' = <<>>
    BY <1>5 DEF IsInjective
  <1>6. CASE UNCHANGED waitingSenders /\ waitingSenders' # <<>>
    <2>1. Len(Tail(q)) = Len(q) - 1 /\ Len(q) \in Nat
      BY <1>1, <1>6
    <2>2. Tail(q) # q
      BY <2>1
    <2> QED  BY <1>1, <1>3, <1>6, <2>2 DEF ListedWait
  <1> QED  BY <1>1, <1>4, <1>5, <1>6

LEMMA StepListed ==
  ASSUME DeliveryInv, ChannelNext
  PROVE  ListedWait'
  <1>0. ChannelTyped /\ ListedWait /\ HandlesCounted
    BY DEF DeliveryInv, ChannelInv
  <1>1. Held(Receivers) = {} => Held(Receivers)' = {}
    BY <1>0, ReceiversLeave
  <1>2. ASSUME NEW c \in Senders, BeginSend(c) PROVE ListedWait'
    BY <1>0, <1>1, <1>2, ListedShrinks DEF BeginSend, Goto, lists, ChannelTyped, Users
  <1>3. ASSUME NEW c \in Receivers, BeginRecv(c) PROVE ListedWait'
    BY <1>0, <1>1, <1>3, ListedShrinks DEF BeginRecv, Goto, lists, ChannelTyped, Users
  <1>4. ASSUME NEW c \in Senders, HandOver(c) PROVE ListedWait'
    <2>1. Head(waitingReceivers) \in Receivers /\ UNCHANGED waitingSenders
      BY <1>0, <1>4 DEF HandOver, ChannelTyped
    <2>2. \A s \in Senders : at[s] \in {"waiting", "late"} => at'[s] = at[s]
      BY <1>0, <1>4, <2>1, ChannelAssumption DEF HandOver, Done, ChannelTyped, Users
    <2> QED  BY <1>0, <1>1, <2>1, <2>2, ListedShrinks
  <1>5. ASSUME NEW c \in Users, Push(c) \/ Pop(c) PROVE ListedWait'
    <2>1. \A s \in Senders : at[s] \in {"waiting", "late"} => at'[s] = at[s]
      BY <1>0, <1>5 DEF Push, Pop, Done, ChannelTyped, Users
    <2>2. UNCHANGED waitingSenders
      BY <1>5 DEF Push, Pop, lists
    <2> QED  BY <1>0, <1>1, <2>1, <2>2, ListedShrinks
  <1>6. ASSUME NEW c \in Receivers, TakeWaiting(c) PROVE ListedWait'
    <2>1. /\ \A s \in Senders : at[s] \in {"waiting", "late"} =>
               at'[s] = at[s] \/ s = Head(waitingSenders)
          /\ waitingSenders # <<>> /\ waitingSenders' = Tail(waitingSenders)
      BY <1>0, <1>6 DEF TakeWaiting, Done, ChannelTyped, Users
    <2> QED  BY <1>0, <1>1, <2>1, ListedShrinks
  <1>7. ASSUME NEW c \in Users, Look(c) PROVE ListedWait'
    <2>1. \A s \in Senders : at[s] \in {"waiting", "late"} => at'[s] = at[s]
      BY <1>0, <1>7 DEF Look, Done, Goto, ChannelTyped, Users
    <2>2. UNCHANGED waitingSenders
      BY <1>7 DEF Look, lists
    <2> QED  BY <1>0, <1>1, <2>1, <2>2, ListedShrinks
  <1>8. ASSUME NEW c \in Users, List(c) PROVE ListedWait'
    <2>0. at' = [at EXCEPT ![c] = IF closed THEN "late" ELSE "waiting"] /\ at[c] = "listing"
      BY <1>8 DEF List, Goto
    <2>1. \A s \in Senders : at[s] \in {"waiting", "late"} => at'[s] = at[s]
      BY <1>0, <2>0 DEF ChannelTyped, Users
    <2>2. CASE c \notin Senders
      <3>1. UNCHANGED waitingSenders
        BY <1>8, <2>2 DEF List
      <3> QED  BY <1>0, <1>1, <2>1, <3>1, ListedShrinks
    <2>3. CASE c \in Senders
      <3> SUFFICES ASSUME Held(Receivers) # {}
                   PROVE  /\ IsInjective(waitingSenders')
                          /\ \A i \in DOMAIN waitingSenders' :
                               at'[waitingSenders'[i]] \in {"waiting", "late"}
        BY <1>1 DEF ListedWait
      <3>1. PICK q \in Seq(Senders) : q = waitingSenders
        BY <1>0 DEF ChannelTyped
      <3>2. \A i, j \in 1 .. Len(q) : q[i] = q[j] => i = j
        BY <1>0, <3>1 DEF ListedWait, IsInjective
      <3>3. \A i \in 1 .. Len(q) : q[i] \in Senders /\ at[q[i]] \in {"waiting", "late"}
        BY <1>0, <3>1 DEF ListedWait
      <3>4. waitingSenders' = Append(q, c)
        BY <1>8, <2>3, <3>1 DEF List
      <3>5. /\ DOMAIN Append(q, c) = 1 .. Len(q) + 1 /\ Len(q) \in Nat
            /\ \A i \in 1 .. Len(q) : Append(q, c)[i] = q[i]
            /\ Append(q, c)[Len(q) + 1] = c
        BY <2>3
      <3>6. \A i \in 1 .. Len(q) : q[i] # c
        BY <2>0, <3>3
      <3>7. at'[c] \in {"waiting", "late"}
        BY <1>0, <2>0 DEF ChannelTyped
      <3>8. ASSUME NEW i \in 1 .. Len(q) + 1
            PROVE  at'[Append(q, c)[i]] \in {"waiting", "late"}
        BY <2>1, <3>3, <3>5, <3>7
      <3>9. ASSUME NEW i \in 1 .. Len(q) + 1, NEW j \in 1 .. Len(q) + 1,
                   Append(q, c)[i] = Append(q, c)[j]
            PROVE  i = j
        BY <3>2, <3>5, <3>6, <3>9
      <3> QED  BY <3>4, <3>5, <3>8, <3>9 DEF IsInjective
    <2> QED  BY <2>2, <2>3
  <1>9. ASSUME NEW c \in Users, Destroy(c) PROVE ListedWait'
    <2>1. CASE WakeSenders(c)
      <3>1. Held(Side(c)) = {} /\ UNCHANGED waitingSenders
        BY <1>0, <2>1 DEF WakeSenders, HandlesCounted, Leaving, lists
      <3>2. CASE c \notin Senders
        BY <1>1, <3>1, <3>2 DEF Side, ListedWait
      <3>3. CASE c \in Senders
        <4>1. \A s \in Senders : ~Busy(s)
          BY <1>0, <3>1, <3>3 DEF Side, Held, HandlesCounted, Users
        <4> QED  BY <1>0, <1>1, <3>1, <4>1, ListedShrinks DEF Busy
      <3> QED  BY <3>2, <3>3
    <2>2. CASE Exchange(c) \/ WakeReceivers(c)
      <3>1. \A s \in Senders : at[s] \in {"waiting", "late"} => at'[s] = at[s]
        <4>1. ToSet(waitingReceivers) \subseteq Receivers
          BY <1>0 DEF ChannelTyped, ToSet
        <4> QED
          BY <1>0, <2>2, <4>1, ChannelAssumption
             DEF Exchange, WakeReceivers, WakeAll, Goto, ChannelTyped, Users
      <3>2. UNCHANGED waitingSenders
        BY <2>2 DEF Exchange, WakeReceivers, lists
      <3> QED  BY <1>0, <1>1, <3>1, <3>2, ListedShrinks
    <2>3. CASE Clear(c)
      <3>1. waitingSenders' = <<>>
        BY <2>3 DEF Clear
      <3> QED  BY <3>1 DEF ListedWait, IsInjective
    <2> QED  BY <1>9, <2>1, <2>2, <2>3 DEF Destroy
  <1>10. ASSUME NEW c \in Users, Release(c) \/ \E d \in Users : Copy(c, d) \/ Move(c, d)
         PROVE  ListedWait'
    <2>1. \A s \in Senders : at[s] \in {"waiting", "late"} => at'[s] = at[s]
      BY <1>0, <1>10 DEF Release, Copy, Move, Goto, ChannelTyped, Users
    <2>2. UNCHANGED waitingSenders
      BY <1>10 DEF Release, Copy, Move, lists
    <2> QED  BY <1>0, <1>1, <2>1, <2>2, ListedShrinks
  <1> QED
    BY <1>2, <1>3, <1>4, <1>5, <1>6, <1>7, <1>8, <1>9, <1>10
       DEF ChannelNext, GoOn, Send, Recv

-----------------------------------------------------------------------------
LEMMA MembersAppend ==
  ASSUME NEW S, NEW q \in Seq(S), NEW v
  PROVE  ToSet(Append(q, v)) = ToSet(q) \cup {v}
  <1>1. /\ DOMAIN Append(q, v) = 1 .. Len(q) + 1 /\ DOMAIN q = 1 .. Len(q) /\ Len(q) \in Nat
        /\ \A i \in 1 .. Len(q) : Append(q, v)[i] = q[i]
        /\ Append(q, v)[Len(q) + 1] = v
    OBVIOUS
  <1>2. ASSUME NEW x \in ToSet(Append(q, v)) PROVE x \in ToSet(q) \cup {v}
    <2>1. PICK i \in 1 .. Len(q) + 1 : x = Append(q, v)[i]
      BY <1>1 DEF ToSet
    <2> QED  BY <1>1, <2>1 DEF ToSet
  <1>3. ASSUME NEW x \in ToSet(q) PROVE x \in ToSet(Append(q, v))
    <2>1. PICK i \in 1 .. Len(q) : x = q[i]
      BY <1>1 DEF ToSet
    <2>2. i \in 1 .. Len(q) + 1 /\ Append(q, v)[i] = x
      BY <1>1, <2>1
    <2> QED  BY <1>1, <2>2 DEF ToSet
  <1>4. v \in ToSet(Append(q, v))
    <2>1. Len(q) + 1 \in 1 .. Len(q) + 1
      BY <1>1
    <2> QED  BY <1>1, <2>1 DEF ToSet
  <1> QED  BY <1>2, <1>3, <1>4

LEMMA InjectiveAppend ==
  ASSUME NEW S, NEW q \in Seq(S), NEW v, IsInjective(q), v \notin ToSet(q)
  PROVE  IsInjective(Append(q, v))
  <1>1. /\ DOMAIN Append(q, v) = 1 .. Len(q) + 1 /\ DOMAIN q = 1 .. Len(q) /\ Len(q) \in Nat
        /\ \A i \in 1 .. Len(q) : Append(q, v)[i] = q[i]
        /\ Append(q, v)[Len(q) + 1] = v
    BY AppendProperties
  <1>2. \A i \in 1 .. Len(q) : q[i] # v
    BY <1>1 DEF ToSet
  <1>3. ASSUME NEW i \in 1 .. Len(q) + 1, NEW j \in 1 .. Len(q) + 1,
               Append(q, v)[i] = Append(q, v)[j]
        PROVE  i = j
    BY <1>1, <1>2, <1>3 DEF IsInjective
  <1> QED  BY <1>1, <1>3 DEF IsInjective

(* A value that no busy sender holds any more is given to a receiver.      *)
LEMMA ApartGiven ==
  ASSUME ValuesApart, ChannelTyped, UNCHANGED <<lastValue, buffered>>, NEW v \in 0 .. lastValue,
         got' = Append(got, v),
         \A s \in Senders : Busy(s)' => Busy(s) /\ value'[s] = value[s] /\ value[s] # v
  PROVE  ValuesApart'
  <1>1. ToSet(got') = ToSet(got) \cup {v} /\ got' \in Seq(0 .. lastValue)
    BY MembersAppend DEF ValuesApart
  <1> QED  BY <1>1 DEF ValuesApart

(* A value that no busy sender holds any more is buffered.                 *)
LEMMA ApartBuffered ==
  ASSUME ValuesApart, ChannelTyped, UNCHANGED <<lastValue, got>>, NEW v \in 0 .. lastValue,
         v \notin ToSet(buffered), buffered' = Append(buffered, v),
         \A s \in Senders : Busy(s)' => Busy(s) /\ value'[s] = value[s] /\ value[s] # v
  PROVE  ValuesApart'
  <1>1. ToSet(buffered') = ToSet(buffered) \cup {v} /\ buffered' \in Seq(0 .. lastValue)
    BY MembersAppend DEF ValuesApart
  <1>2. IsInjective(buffered')
    BY InjectiveAppend DEF ValuesApart
  <1> QED  BY <1>1, <1>2 DEF ValuesApart

(* Nothing is given or buffered, and no sender becomes busy.               *)
LEMMA ApartStays ==
  ASSUME ValuesApart, UNCHANGED <<lastValue, got, buffered>>,
         \A s \in Senders : Busy(s)' => Busy(s) /\ value'[s] = value[s]
  PROVE  ValuesApart'
  BY DEF ValuesApart

(* Who is still busy after the end of an operation.                        *)
LEMMA DoneValues ==
  ASSUME ChannelTyped, NEW c \in Users, NEW woken \in SUBSET Users, Done(c, woken)
  PROVE  \A s \in Senders :
           Busy(s)' => Busy(s) /\ value'[s] = value[s] /\ s \notin woken \cup {c}
  BY DEF Done, Busy, ChannelTyped, Users

LEMMA MembersIn ==
  ASSUME NEW S, NEW q \in Seq(S)
  PROVE  ToSet(q) \subseteq S
  BY DEF ToSet

LEMMA WiderSeq ==
  ASSUME NEW S, NEW T, S \subseteq T, NEW q \in Seq(S)
  PROVE  q \in Seq(T)
  <1>1. Len(q) \in Nat /\ q = [i \in 1 .. Len(q) |-> q[i]]
    OBVIOUS
  <1>2. \A i \in 1 .. Len(q) : q[i] \in T
    OBVIOUS
  <1> QED  BY <1>1, <1>2

(* r is the end of b, as one sequence and element by element.              *)
IsEnd(r, b, n, m)  == r = SubSeq(b, n - m + 1, n)
EndsIn(r, b, n, m) == \A i \in 1 .. m : r[i] = b[n - m + i]

LEMMA EndIs ==
  ASSUME NEW b \in Seq(Nat), NEW r \in Seq(Nat), NEW n \in Nat, NEW m \in 0 .. n,
         n = Len(b), m = Len(r)
  PROVE  IsEnd(r, b, n, m) <=> EndsIn(r, b, n, m)
  <1>1. PICK k \in 1 .. n + 1 : k = n - m + 1
    <2>1. \A x \in Nat : \A y \in 0 .. x : x - y + 1 \in 1 .. x + 1
      OBVIOUS
    <2> QED  BY <2>1
  <1>2. \A i \in k .. n : b[i] \in Nat
    BY <1>1
  <1>3. n - k + 1 = m /\ (k <= n <=> m # 0) /\ \A i \in 1 .. m : k + i - 1 = n - m + i
    BY <1>1
  <1>4. /\ SubSeq(b, k, n) \in Seq(Nat) /\ Len(SubSeq(b, k, n)) = m
        /\ \A i \in 1 .. m : SubSeq(b, k, n)[i] = b[k + i - 1]
    BY <1>2, <1>3, SubSeqProperties
  <1>5. ASSUME \A i \in 1 .. m : r[i] = SubSeq(b, k, n)[i] PROVE r = SubSeq(b, k, n)
    BY <1>4, <1>5, SeqEqual
  <1>6. r = SubSeq(b, k, n) <=> \A i \in 1 .. m : r[i] = SubSeq(b, k, n)[i]
    BY <1>5
  <1>7. r = SubSeq(b, k, n) <=> \A i \in 1 .. m : r[i] = b[n - m + i]
    BY <1>3, <1>4, <1>6
  <1> QED  BY <1>1, <1>7 DEF IsEnd, EndsIn

(* The buffer's first value is the first of those not yet taken out.       *)
LEMMA RingFirst ==
  ASSUME ChannelTyped, DeliveredOnceInOrder, ring # <<>>, buffered \in Seq(Nat)
  PROVE  Head(ring) \in ToSet(buffered)
  <1>1. PICK b \in Seq(Nat), r \in Seq(Nat) : b = buffered /\ r = ring
    BY DEF ChannelTyped
  <1>2. PICK m \in Nat, n \in Nat : m = Len(r) /\ n = Len(b)
    BY <1>1
  <1>3. m > 0 /\ Head(r) = r[1]
    BY <1>1, <1>2
  <1>4. n - m >= 0 /\ IsEnd(r, b, n, m)
    BY <1>1, <1>2 DEF DeliveredOnceInOrder, IsEnd
  <1>5. n - m + 1 \in 1 .. n
    BY <1>2, <1>3, <1>4
  <1>6. r[1] = b[n - m + 1]
    <2>1. m \in 0 .. n
      BY <1>2, <1>4
    <2>2. EndsIn(r, b, n, m)
      BY <1>2, <1>4, <2>1, EndIs
    <2>3. 1 \in 1 .. m
      BY <1>3
    <2> QED  BY <2>2, <2>3 DEF EndsIn
  <1> QED  BY <1>1, <1>2, <1>3, <1>5, <1>6, SMTT(30) DEF ToSet

LEMMA StepApart ==
  ASSUME DeliveryInv, ChannelNext
  PROVE  ValuesApart'
  <1>0. ChannelTyped /\ ListedWait /\ HandlesCounted /\ ValuesApart /\ lastValue \in Nat
        /\ Senders \subseteq Users /\ Receivers \subseteq Users
        /\ DeliveredOnceInOrder
    BY DEF DeliveryInv, ChannelInv, ChannelTyped, Users
  <1>1. ASSUME NEW c \in Senders, BeginSend(c) PROVE ValuesApart'
    <2>1. /\ lastValue' = lastValue + 1 /\ value' = [value EXCEPT ![c] = lastValue + 1]
          /\ at' = [at EXCEPT ![c] = "locking"] /\ UNCHANGED <<got, buffered>>
      BY <1>1 DEF BeginSend, Goto
    <2>2. \A s \in Senders \ {c} : Busy(s)' => Busy(s) /\ value'[s] = value[s]
      BY <1>0, <2>1 DEF Busy, ChannelTyped
    <2>3. value'[c] = lastValue + 1
      BY <1>0, <2>1 DEF ChannelTyped
    <2>4. PICK n \in Nat : n = lastValue
      BY <1>0
    <2>5. buffered \in Seq(0 .. n) /\ got \in Seq(0 .. n)
      BY <1>0, <2>4 DEF ValuesApart
    <2>6. \A x \in ToSet(buffered) \cup ToSet(got) : x \in 0 .. n
      BY <2>5 DEF ToSet
    <2>7. 0 .. n \subseteq 0 .. n + 1 /\ n + 1 \notin 0 .. n
      BY <2>4
    <2>8. buffered \in Seq(0 .. n + 1) /\ got \in Seq(0 .. n + 1)
      BY <2>5, <2>7
    <2>9. ASSUME NEW s \in Senders, Busy(s)'
          PROVE  /\ value'[s] <= n + 1 /\ value'[s] \notin ToSet(buffered) \cup ToSet(got)
                 /\ s # c => value'[s] # n + 1
      <3>1. CASE s = c
        BY <2>3, <2>4, <2>6, <2>7, <3>1
      <3>2. CASE s # c
        <4>1. Busy(s) /\ value'[s] = value[s] /\ value[s] \in Nat /\ value[s] <= n
          BY <1>0, <2>2, <2>4, <2>9, <3>2 DEF ValuesApart, ChannelTyped
        <4>2. value[s] \notin ToSet(buffered) \cup ToSet(got)
          BY <1>0, <4>1 DEF ValuesApart
        <4>3. value[s] <= n + 1 /\ value[s] # n + 1
          BY <4>1
        <4> QED  BY <4>1, <4>2, <4>3
      <3> QED  BY <3>1, <3>2
    <2>10. ASSUME NEW s \in Senders, NEW t \in Senders, Busy(s)', Busy(t)',
                  value'[s] = value'[t]
           PROVE  s = t
      <3>1. CASE s # c /\ t # c
        BY <1>0, <2>2, <2>10, <3>1 DEF ValuesApart
      <3>2. CASE s = c \/ t = c
        BY <2>3, <2>4, <2>9, <2>10, <3>2
      <3> QED  BY <3>1, <3>2
    <2>11. IsInjective(buffered)
      BY <1>0 DEF ValuesApart
    <2> QED  BY <2>1, <2>4, <2>8, <2>9, <2>10, <2>11 DEF ValuesApart
  <1>2. ASSUME NEW c \in Receivers, BeginRecv(c) PROVE ValuesApart'
    <2>1. \A s \in Senders : Busy(s)' => Busy(s) /\ value'[s] = value[s]
      BY <1>0, <1>2, ChannelAssumption DEF BeginRecv, Goto, Busy, ChannelTyped
    <2> QED  BY <1>0, <1>2, <2>1, ApartStays DEF BeginRecv, history
  <1>3. ASSUME NEW c \in Senders, Send(c) PROVE ValuesApart'
    <2>1. Busy(c) /\ value[c] \in 0 .. lastValue /\ value[c] \notin ToSet(buffered)
      BY <1>0, <1>3 DEF Send, HandOver, Push, Busy, ValuesApart, ChannelTyped
    <2>2. \A s \in Senders : Busy(s) /\ s # c => value[s] # value[c]
      BY <1>0, <2>1 DEF ValuesApart
    <2>3. CASE HandOver(c)
      <3>1. {Head(waitingReceivers)} \subseteq Users
        BY <1>0, <2>3 DEF HandOver, ChannelTyped
      <3>2. \A s \in Senders : Busy(s)' => Busy(s) /\ value'[s] = value[s] /\ s # c
        BY <1>0, <2>3, <3>1, DoneValues DEF HandOver
      <3> QED  BY <1>0, <2>1, <2>2, <2>3, <3>2, ApartGiven DEF HandOver
    <2>4. CASE Push(c)
      <3>1. \A s \in Senders : Busy(s)' => Busy(s) /\ value'[s] = value[s] /\ s # c
        BY <1>0, <2>4, DoneValues DEF Push
      <3>2. PICK v \in 0 .. lastValue : v = value[c]
        BY <2>1
      <3>3. /\ buffered' = Append(buffered, v) /\ UNCHANGED <<lastValue, got>>
            /\ v \notin ToSet(buffered)
        BY <2>1, <2>4, <3>2 DEF Push
      <3>4. \A s \in Senders : Busy(s)' => Busy(s) /\ value'[s] = value[s] /\ value[s] # v
        BY <2>2, <3>1, <3>2
      <3> QED  BY <1>0, <3>3, <3>4, ApartBuffered
    <2> QED  BY <1>3, <2>3, <2>4 DEF Send
  <1>4. ASSUME NEW c \in Receivers, TakeWaiting(c) PROVE ValuesApart'
    <2>1. PICK s \in Senders : s = Head(waitingSenders)
      BY <1>0, <1>4 DEF TakeWaiting, ChannelTyped
    <2>2. Busy(s)
      <3>1. c \in Held(Receivers)
        BY <1>0, <1>4 DEF TakeWaiting, HandlesCounted, Held, Busy
      <3>2. 1 \in DOMAIN waitingSenders /\ waitingSenders[1] = s
        BY <1>0, <1>4, <2>1 DEF TakeWaiting, ChannelTyped
      <3> QED  BY <1>0, <3>1, <3>2 DEF ListedWait, Busy
    <2>3. value[s] \in 0 .. lastValue
      BY <1>0, <2>2 DEF ValuesApart, ChannelTyped
    <2>4. \A u \in Senders : Busy(u) /\ u # s => value[u] # value[s]
      BY <1>0, <2>2 DEF ValuesApart
    <2>5. \A u \in Senders : Busy(u)' => Busy(u) /\ value'[u] = value[u] /\ u # s
      BY <1>0, <1>4, <2>1, DoneValues DEF TakeWaiting
    <2> QED  BY <1>0, <1>4, <2>1, <2>3, <2>4, <2>5, ApartGiven DEF TakeWaiting
  <1>5. ASSUME NEW c \in Receivers, Pop(c) PROVE ValuesApart'
    <2>0. buffered \in Seq(0 .. lastValue) /\ buffered \in Seq(Nat)
      BY <1>0 DEF ValuesApart
    <2>1. Head(ring) \in ToSet(buffered) /\ Head(ring) \in 0 .. lastValue
      <3>1. Head(ring) \in ToSet(buffered)
        BY <1>0, <1>5, <2>0, RingFirst DEF Pop
      <3> QED  BY <2>0, <3>1, MembersIn
    <2>2. \A u \in Senders : Busy(u) => value[u] # Head(ring)
      BY <1>0, <2>1 DEF ValuesApart
    <2>3. \A u \in Senders : Busy(u)' => Busy(u) /\ value'[u] = value[u]
      BY <1>0, <1>5, DoneValues DEF Pop
    <2> QED  BY <1>0, <1>5, <2>1, <2>2, <2>3, ApartGiven DEF Pop
  <1>6. ASSUME NEW c \in Users, Look(c) PROVE ValuesApart'
    <2>1. \A s \in Senders : Busy(s)' => Busy(s) /\ value'[s] = value[s]
      <3>1. CASE closed
        BY <1>0, <1>6, <3>1, DoneValues DEF Look
      <3>2. CASE ~closed
        BY <1>0, <1>6, <3>2 DEF Look, Goto, Busy, ChannelTyped
      <3> QED  BY <3>1, <3>2
    <2> QED  BY <1>0, <1>6, <2>1, ApartStays DEF Look, history
  <1>7. ASSUME NEW c \in Users, List(c) PROVE ValuesApart'
    <2>1. \A s \in Senders : Busy(s)' => Busy(s) /\ value'[s] = value[s]
      BY <1>0, <1>7 DEF List, Goto, Busy, ChannelTyped
    <2> QED  BY <1>0, <1>7, <2>1, ApartStays DEF List, history
  <1>8. ASSUME NEW c \in Users, Destroy(c) PROVE ValuesApart'
    <2>1. \A s \in Senders : Busy(s)' => Busy(s)
      BY <1>0, <1>8
         DEF Destroy, Exchange, WakeSenders, WakeReceivers, Clear, WakeAll, Goto, Busy,
             ChannelTyped
    <2>2. UNCHANGED <<value, lastValue, got, buffered>>
      BY <1>8 DEF Destroy, Exchange, WakeSenders, WakeReceivers, Clear, history
    <2> QED  BY <1>0, <2>1, <2>2, ApartStays
  <1>9. ASSUME NEW c \in Users, Release(c) \/ \E d \in Users : Copy(c, d) \/ Move(c, d)
        PROVE  ValuesApart'
    <2>1. \A s \in Senders : Busy(s)' => Busy(s)
      BY <1>0, <1>9 DEF Release, Copy, Move, Goto, Busy, ChannelTyped
    <2>2. UNCHANGED <<value, lastValue, got, buffered>>
      BY <1>9 DEF Release, Copy, Move, history
    <2> QED  BY <1>0, <2>1, <2>2, ApartStays
  <1> QED
    BY <1>1, <1>2, <1>3, <1>4, <1>5, <1>6, <1>7, <1>8, <1>9 DEF ChannelNext, GoOn, Recv

-----------------------------------------------------------------------------
(* The values g were given, the first t of b among them, in their order.   *)
Given(g, b, t) ==
  /\ IsInjective(g)
  /\ \A i \in 1 .. Len(b) : b[i] \in ToSet(g) <=> i <= t
  /\ \A i, j \in 1 .. t, k, l \in 1 .. Len(g) :
       i < j /\ g[k] = b[i] /\ g[l] = b[j] => k < l

LEMMA DeliveredIs ==
  ASSUME buffered \in Seq(Nat), got \in Seq(Nat), ring \in Seq(Nat),
         NEW n \in Nat, NEW m \in Nat, n = Len(buffered), m = Len(ring)
  PROVE  DeliveredOnceInOrder
           <=> (m <= n /\ EndsIn(ring, buffered, n, m) /\ Given(got, buffered, n - m))
  <1>1. n - m >= 0 <=> m <= n
    OBVIOUS
  <1>2. DOMAIN buffered = 1 .. n /\ DOMAIN got = 1 .. Len(got)
    OBVIOUS
  <1>3. DeliveredOnceInOrder
          <=> (n - m >= 0 /\ IsEnd(ring, buffered, n, m) /\ Given(got, buffered, n - m))
    BY <1>2 DEF DeliveredOnceInOrder, Given, IsEnd
  <1>4. ASSUME m <= n PROVE IsEnd(ring, buffered, n, m) <=> EndsIn(ring, buffered, n, m)
    <2>1. m \in 0 .. n
      BY <1>4
    <2> QED  BY <2>1, EndIs
  <1> QED  BY <1>1, <1>3, <1>4

LEMMA DeliveredNext ==
  ASSUME NEW b \in Seq(Nat), NEW g \in Seq(Nat), NEW r \in Seq(Nat),
         buffered' = b, got' = g, ring' = r,
         NEW n \in Nat, NEW m \in Nat, n = Len(b), m = Len(r),
         m <= n, EndsIn(r, b, n, m), Given(g, b, n - m)
  PROVE  DeliveredOnceInOrder'
  <1>1. n - m >= 0 /\ m \in 0 .. n
    OBVIOUS
  <1>2. IsEnd(r, b, n, m)
    BY <1>1, EndIs
  <1>3. DOMAIN b = 1 .. n /\ DOMAIN g = 1 .. Len(g)
    OBVIOUS
  <1>4. /\ n - m >= 0 /\ r = SubSeq(b, n - m + 1, n) /\ IsInjective(g)
        /\ \A i \in DOMAIN b : b[i] \in ToSet(g) <=> i <= n - m
        /\ \A i, j \in 1 .. n - m, k, l \in DOMAIN g :
             i < j /\ g[k] = b[i] /\ g[l] = b[j] => k < l
    BY <1>1, <1>2, <1>3 DEF Given, IsEnd
  <1>5. Len(buffered') = n /\ Len(ring') = m
    OBVIOUS
  <1> QED  BY <1>4, <1>5 DEF DeliveredOnceInOrder

(* A value that was never buffered is given.                               *)
LEMMA GivenOther ==
  ASSUME NEW g \in Seq(Nat), NEW b \in Seq(Nat), NEW t \in 0 .. Len(b), NEW v \in Nat,
         Given(g, b, t), v \notin ToSet(g), v \notin ToSet(b)
  PROVE  Given(Append(g, v), b, t)
  <1>1. /\ Len(Append(g, v)) = Len(g) + 1 /\ Len(g) \in Nat /\ Len(b) \in Nat
        /\ \A i \in 1 .. Len(g) : Append(g, v)[i] = g[i]
        /\ Append(g, v)[Len(g) + 1] = v
    OBVIOUS
  <1>2. \A i \in 1 .. Len(b) : b[i] # v
    BY DEF ToSet
  <1>3. ToSet(Append(g, v)) = ToSet(g) \cup {v}
    BY MembersAppend
  <1>4. IsInjective(Append(g, v))
    BY InjectiveAppend DEF Given
  <1>5. \A i \in 1 .. Len(b) : b[i] \in ToSet(Append(g, v)) <=> i <= t
    BY <1>2, <1>3 DEF Given
  <1>7. \A n \in Nat : \A x \in 1 .. n + 1 : x # n + 1 => x \in 1 .. n
    OBVIOUS
  <1>6. ASSUME NEW i \in 1 .. t, NEW j \in 1 .. t,
               NEW k \in 1 .. Len(g) + 1, NEW l \in 1 .. Len(g) + 1,
               i < j, Append(g, v)[k] = b[i], Append(g, v)[l] = b[j]
        PROVE  k < l
    <2>1. i \in 1 .. Len(b) /\ j \in 1 .. Len(b)
      BY <1>1
    <2>2. k \in 1 .. Len(g) /\ l \in 1 .. Len(g)
      <3>1. b[i] # v /\ b[j] # v
        BY <1>2, <2>1
      <3>2. k # Len(g) + 1 /\ l # Len(g) + 1
        BY <1>1, <1>6, <3>1
      <3> QED  BY <1>1, <1>7, <3>2
    <2> QED  BY <1>1, <1>6, <2>2 DEF Given
  <1> QED  BY <1>1, <1>4, <1>5, <1>6 DEF Given

(* The next of those buffered is given.                                    *)
LEMMA GivenNext ==
  ASSUME NEW g \in Seq(Nat), NEW b \in Seq(Nat), NEW t \in Nat, t + 1 <= Len(b),
         Given(g, b, t), IsInjective(b)
  PROVE  Given(Append(g, b[t + 1]), b, t + 1)
  <1>0. PICK v \in Nat : v = b[t + 1]
    OBVIOUS
  <1>1. /\ Len(Append(g, v)) = Len(g) + 1 /\ Len(g) \in Nat /\ Len(b) \in Nat
        /\ \A i \in 1 .. Len(g) : Append(g, v)[i] = g[i]
        /\ Append(g, v)[Len(g) + 1] = v
    OBVIOUS
  <1>2. t + 1 \in 1 .. Len(b) /\ \A i \in 1 .. Len(b) : b[i] = v => i = t + 1
    BY <1>0, <1>1 DEF IsInjective
  <1>3. v \notin ToSet(g)
    BY <1>0, <1>2 DEF Given
  <1>4. ToSet(Append(g, v)) = ToSet(g) \cup {v}
    BY MembersAppend
  <1>5. IsInjective(Append(g, v))
    BY <1>3, InjectiveAppend DEF Given
  <1>6. ASSUME NEW i \in 1 .. Len(b) PROVE b[i] \in ToSet(Append(g, v)) <=> i <= t + 1
    <2>1. CASE i = t + 1
      BY <1>0, <1>4, <2>1
    <2>2. CASE i # t + 1
      <3>1. b[i] # v
        BY <1>2, <2>2
      <3>2. i <= t <=> i <= t + 1
        BY <1>1, <2>2
      <3> QED  BY <1>4, <3>1, <3>2 DEF Given
    <2> QED  BY <2>1, <2>2
  <1>8. \A n \in Nat : \A x \in 1 .. n + 1 : x # n + 1 => x \in 1 .. n
    OBVIOUS
  <1>7. ASSUME NEW i \in 1 .. t + 1, NEW j \in 1 .. t + 1,
               NEW k \in 1 .. Len(g) + 1, NEW l \in 1 .. Len(g) + 1,
               i < j, Append(g, v)[k] = b[i], Append(g, v)[l] = b[j]
        PROVE  k < l
    <2>0. \A x, y \in 1 .. t + 1 : x < y => x \in 1 .. t
      OBVIOUS
    <2>1. i \in 1 .. t /\ i \in 1 .. Len(b) /\ j \in 1 .. Len(b)
      <3>1. \A x \in 1 .. t + 1 : x \in 1 .. Len(b)
        BY <1>1
      <3> QED  BY <1>7, <2>0, <3>1
    <2>2. k \in 1 .. Len(g) /\ g[k] = b[i]
      <3>1. i # t + 1
        BY <2>1
      <3>2. b[i] # v
        BY <1>2, <2>1, <3>1
      <3>3. k # Len(g) + 1
        BY <1>1, <1>7, <3>2
      <3>4. k \in 1 .. Len(g)
        BY <1>1, <1>8, <1>7, <3>3
      <3> QED  BY <1>1, <1>7, <3>4
    <2>3. CASE l = Len(g) + 1
      BY <1>1, <2>2, <2>3
    <2>4. CASE l # Len(g) + 1
      <3>1. l \in 1 .. Len(g) /\ g[l] = b[j]
        <4>1. l \in 1 .. Len(g)
          BY <1>1, <1>8, <1>7, <2>4
        <4> QED  BY <1>1, <1>7, <4>1
      <3>2. g[l] \in ToSet(g)
        BY <3>1 DEF ToSet
      <3>3. j # t + 1
        BY <1>0, <1>3, <3>1, <3>2
      <3>4. j \in 1 .. t
        BY <3>3
      <3> QED  BY <1>7, <2>1, <2>2, <3>1, <3>4 DEF Given
    <2> QED  BY <2>3, <2>4
  <1> QED  BY <1>0, <1>1, <1>5, <1>6, <1>7 DEF Given

(* One more is buffered.                                                   *)
LEMMA GivenBuffered ==
  ASSUME NEW g \in Seq(Nat), NEW b \in Seq(Nat), NEW t \in 0 .. Len(b), NEW v \in Nat,
         Given(g, b, t), v \notin ToSet(g)
  PROVE  Given(g, Append(b, v), t)
  <1>1. /\ Len(Append(b, v)) = Len(b) + 1 /\ Len(b) \in Nat
        /\ \A i \in 1 .. Len(b) : Append(b, v)[i] = b[i]
        /\ Append(b, v)[Len(b) + 1] = v
    OBVIOUS
  <1>2. \A i \in 1 .. t : i \in 1 .. Len(b) /\ Append(b, v)[i] = b[i]
    BY <1>1
  <1>3. ASSUME NEW i \in 1 .. Len(b) + 1 PROVE Append(b, v)[i] \in ToSet(g) <=> i <= t
    <2>1. CASE i = Len(b) + 1
      BY <1>1, <2>1
    <2>2. CASE i # Len(b) + 1
      BY <1>1, <2>2 DEF Given
    <2> QED  BY <2>1, <2>2
  <1> QED  BY <1>1, <1>2, <1>3 DEF Given

LEMMA StepDelivers ==
  ASSUME DeliveryInv, ChannelNext
  PROVE  DeliveredOnceInOrder'
  <1>0. ChannelTyped /\ ListedWait /\ HandlesCounted /\ ValuesApart
        /\ Senders \subseteq Users /\ Receivers \subseteq Users /\ DeliveredOnceInOrder
    BY DEF DeliveryInv, ChannelInv, Users
  <1>1. PICK b \in Seq(Nat), g \in Seq(Nat), r \in Seq(Nat) :
          b = buffered /\ g = got /\ r = ring
    <2>1. lastValue \in Nat
      BY <1>0 DEF ChannelTyped
    <2>2. 0 .. lastValue \subseteq Nat
      BY <2>1
    <2>3. buffered \in Seq(Nat) /\ got \in Seq(Nat)
      <3>1. buffered \in Seq(0 .. lastValue) /\ got \in Seq(0 .. lastValue)
        BY <1>0 DEF ValuesApart
      <3> QED  BY <2>2, <3>1, WiderSeq
    <2> QED  BY <1>0, <2>3 DEF ChannelTyped
  <1>2. PICK n \in Nat, m \in Nat : n = Len(b) /\ m = Len(r)
    BY <1>1
  <1>3. /\ m <= n /\ \A i \in 1 .. m : r[i] = b[n - m + i]
        /\ Given(g, b, n - m) /\ n - m \in 0 .. n /\ EndsIn(r, b, n, m)
    <2>1. m <= n /\ EndsIn(r, b, n, m) /\ Given(g, b, n - m)
      BY <1>0, <1>1, <1>2, DeliveredIs
    <2>2. n - m \in 0 .. n
      BY <2>1
    <2> QED  BY <2>1, <2>2 DEF EndsIn
  (* A value given that was not buffered.                                  *)
  <1>4. ASSUME NEW v \in Nat, v \notin ToSet(buffered) \cup ToSet(got),
               got' = Append(got, v), UNCHANGED <<ring, buffered>>
        PROVE  DeliveredOnceInOrder'
    <2>1. Given(Append(g, v), b, n - m)
      BY <1>1, <1>2, <1>3, <1>4, GivenOther
    <2>2. Append(g, v) \in Seq(Nat)
      OBVIOUS
    <2>3. buffered' = b /\ got' = Append(g, v) /\ ring' = r
      BY <1>1, <1>4
    <2> QED  BY <1>2, <1>3, <2>1, <2>2, <2>3, DeliveredNext
  <1>5. ASSUME NEW c \in Senders, Send(c) PROVE DeliveredOnceInOrder'
    <2>1. /\ Busy(c) /\ value[c] \in Nat
          /\ value[c] \notin ToSet(buffered) \cup ToSet(got)
      BY <1>0, <1>5 DEF Send, HandOver, Push, Busy, ValuesApart, ChannelTyped
    <2>2. CASE HandOver(c)
      BY <1>4, <2>1, <2>2 DEF HandOver
    <2>3. CASE Push(c)
      <3>1. PICK v \in Nat : v = value[c]
        BY <2>1
      <3>2. ring' = Append(r, v) /\ buffered' = Append(b, v) /\ got' = g
        BY <1>1, <2>3, <3>1 DEF Push
      <3>3. /\ Append(r, v) \in Seq(Nat) /\ Len(Append(r, v)) = m + 1
            /\ \A i \in 1 .. m : Append(r, v)[i] = r[i]
            /\ Append(r, v)[m + 1] = v
        BY <1>2
      <3>4. /\ Append(b, v) \in Seq(Nat) /\ Len(Append(b, v)) = n + 1
            /\ \A i \in 1 .. n : Append(b, v)[i] = b[i]
            /\ Append(b, v)[n + 1] = v
        BY <1>2
      <3>5. Given(g, Append(b, v), (n + 1) - (m + 1))
        <4>1. (n + 1) - (m + 1) = n - m
          OBVIOUS
        <4> QED  BY <1>1, <1>2, <1>3, <2>1, <3>1, <4>1, GivenBuffered
      <3>6. ASSUME NEW i \in 1 .. m + 1
            PROVE  Append(r, v)[i] = Append(b, v)[(n + 1) - (m + 1) + i]
        <4>1. CASE i = m + 1
          <5>1. (n + 1) - (m + 1) + i = n + 1
            BY <4>1
          <5> QED  BY <3>3, <3>4, <4>1, <5>1
        <4>2. CASE i # m + 1
          <5>1. i \in 1 .. m /\ n - m + i \in 1 .. n /\ (n + 1) - (m + 1) + i = n - m + i
            BY <1>3, <4>2
          <5> QED  BY <1>3, <3>3, <3>4, <5>1
        <4> QED  BY <4>1, <4>2
      <3>7. m + 1 <= n + 1 /\ m + 1 \in Nat /\ n + 1 \in Nat
        BY <1>3
      <3>8. EndsIn(Append(r, v), Append(b, v), n + 1, m + 1)
        BY <3>6 DEF EndsIn
      <3> QED  BY <3>2, <3>3, <3>4, <3>5, <3>7, <3>8, DeliveredNext
    <2> QED  BY <1>5, <2>2, <2>3 DEF Send
  <1>6. ASSUME NEW c \in Receivers, TakeWaiting(c) PROVE DeliveredOnceInOrder'
    <2>1. PICK s \in Senders : s = Head(waitingSenders)
      BY <1>0, <1>6 DEF TakeWaiting, ChannelTyped
    <2>2. Busy(s)
      <3>1. c \in Held(Receivers)
        BY <1>0, <1>6 DEF TakeWaiting, HandlesCounted, Held, Busy
      <3>2. 1 \in DOMAIN waitingSenders /\ waitingSenders[1] = s
        BY <1>0, <1>6, <2>1 DEF TakeWaiting, ChannelTyped
      <3> QED  BY <1>0, <3>1, <3>2 DEF ListedWait, Busy
    <2>3. value[s] \in Nat /\ value[s] \notin ToSet(buffered) \cup ToSet(got)
      BY <1>0, <2>2 DEF ValuesApart, ChannelTyped
    <2> QED  BY <1>4, <1>6, <2>1, <2>3 DEF TakeWaiting
  <1>7. ASSUME NEW c \in Receivers, Pop(c) PROVE DeliveredOnceInOrder'
    <2>1. r # <<>> /\ ring' = Tail(r) /\ got' = Append(g, Head(r)) /\ buffered' = b
      BY <1>1, <1>7 DEF Pop
    <2>2. m > 0 /\ m - 1 \in Nat /\ n - m \in Nat /\ n - m + 1 <= n
      BY <1>2, <1>3, <2>1
    <2>3. /\ Tail(r) \in Seq(Nat) /\ Len(Tail(r)) = m - 1 /\ Head(r) = r[1]
          /\ \A i \in 1 .. m - 1 : Tail(r)[i] = r[i + 1]
      BY <1>2, <2>1
    <2>4. Head(r) = b[n - m + 1]
      <3>1. 1 \in 1 .. m
        BY <2>2
      <3> QED  BY <1>3, <2>3, <3>1
    <2>5. IsInjective(b)
      BY <1>0, <1>1 DEF ValuesApart
    <2>6. Given(Append(g, Head(r)), b, n - m + 1)
      BY <1>2, <1>3, <2>2, <2>4, <2>5, GivenNext
    <2>7. n - m + 1 = n - (m - 1) /\ m - 1 <= n
      BY <1>3
    <2>8. ASSUME NEW i \in 1 .. m - 1 PROVE Tail(r)[i] = b[n - (m - 1) + i]
      <3>1. i + 1 \in 1 .. m /\ n - m + (i + 1) = n - (m - 1) + i
        BY <2>2
      <3> QED  BY <1>3, <2>3, <3>1
    <2>9. Append(g, Head(r)) \in Seq(Nat)
      BY <2>1
    <2>10. EndsIn(Tail(r), b, n, m - 1)
      BY <2>8 DEF EndsIn
    <2>11. Given(Append(g, Head(r)), b, n - (m - 1))
      BY <2>6, <2>7
    <2>12. PICK k \in Nat : k = m - 1
      BY <2>2
    <2>13. /\ Len(Tail(r)) = k /\ k <= n /\ EndsIn(Tail(r), b, n, k)
           /\ Given(Append(g, Head(r)), b, n - k)
      BY <2>3, <2>7, <2>10, <2>11, <2>12
    <2> QED  BY <1>2, <2>1, <2>3, <2>9, <2>13, DeliveredNext
  <1>8. ASSUME UNCHANGED <<got, buffered, ring>> PROVE DeliveredOnceInOrder'
    BY <1>1, <1>2, <1>3, <1>8, DeliveredNext
  <1>9. ASSUME NEW c \in Users, BeginSend(c) \/ BeginRecv(c) PROVE DeliveredOnceInOrder'
    BY <1>8, <1>9 DEF BeginSend, BeginRecv, history
  <1>10. ASSUME NEW c \in Users, Look(c) \/ List(c) \/ Destroy(c)
         PROVE  DeliveredOnceInOrder'
    BY <1>8, <1>10
       DEF Look, List, Destroy, Exchange, WakeSenders, WakeReceivers, Clear, history
  <1>11. ASSUME NEW c \in Users, Release(c) \/ \E d \in Users : Copy(c, d) \/ Move(c, d)
         PROVE  DeliveredOnceInOrder'
    BY <1>8, <1>11 DEF Release, Copy, Move, history
  <1>12. ASSUME NEW c \in Users, GoOn(c) PROVE DeliveredOnceInOrder'
    BY <1>5, <1>6, <1>7, <1>10, <1>12 DEF GoOn, Recv
  <1> QED
    BY <1>0, <1>9, <1>11, <1>12 DEF ChannelNext

LEMMA DeliveryInit == ChannelInit => DeliveryInv
  <1> SUFFICES ASSUME ChannelInit PROVE DeliveryInv
    OBVIOUS
  <1>1. /\ at = [c \in Users |-> "idle"] /\ waitingSenders = <<>> /\ buffered = <<>>
        /\ got = <<>> /\ ring = <<>> /\ senders = 1 /\ receivers = 1
    BY DEF ChannelInit
  <1>2. PICK s \in Senders, r \in Receivers : handle = [c \in Users |-> c \in {s, r}]
    BY ChannelAssumption DEF ChannelInit
  <1>3. Held(Senders) = {s} /\ Held(Receivers) = {r}
    BY <1>2, ChannelAssumption DEF Held, Users
  <1>4. HandlesCounted
    <2>1. handle \in [Users -> BOOLEAN] /\ \A c \in Users : ~Busy(c) /\ ~Leaving(c)
      BY <1>1, <1>2 DEF Busy, Leaving
    <2>2. \A x : IsFiniteSet({x}) /\ Cardinality({x}) = 1
      BY FS_Singleton
    <2> QED  BY <1>1, <1>3, <2>1, <2>2 DEF HandlesCounted
  <1>5. ListedWait
    BY <1>1 DEF ListedWait, IsInjective
  <1>6. ValuesApart
    BY <1>1 DEF ValuesApart, IsInjective, Busy, Users
  <1>7. DeliveredOnceInOrder
    BY <1>1 DEF DeliveredOnceInOrder, IsInjective
  <1> QED
    BY <1>4, <1>5, <1>6, <1>7, ChannelInitInv DEF DeliveryInv

LEMMA DeliveryStep == DeliveryInv /\ [ChannelNext]_channelVars => DeliveryInv'
  <1> SUFFICES ASSUME DeliveryInv, [ChannelNext]_channelVars PROVE DeliveryInv'
    OBVIOUS
  <1>1. ChannelInv' /\ ChannelTyped /\ HandlesCounted
    BY ChannelStepKeeps DEF DeliveryInv, ChannelInv
  <1>2. CASE UNCHANGED channelVars
    <2>1. HandlesCounted'
      BY <1>1, <1>2, SameHandlesKeep DEF channelVars, handles, SameHandles, Busy, Leaving
    <2>2. ListedWait' /\ ValuesApart'
      BY <1>2 DEF channelVars, DeliveryInv, ListedWait, ValuesApart, Held, Busy
    <2>3. DeliveredOnceInOrder'
      BY <1>2 DEF channelVars, DeliveryInv, DeliveredOnceInOrder
    <2> QED  BY <1>1, <2>1, <2>2, <2>3 DEF DeliveryInv
  <1>3. CASE ChannelNext
    <2>1. HandlesCounted'
      <3>1. ASSUME NEW c \in Senders, BeginSend(c) PROVE HandlesCounted'
        BY <1>1, <3>1, SameHandlesKeep, BeginHandles DEF Users
      <3>2. ASSUME NEW c \in Receivers, BeginRecv(c) PROVE HandlesCounted'
        BY <1>1, <3>2, SameHandlesKeep, BeginHandles DEF Users
      <3>3. ASSUME NEW c \in Users, GoOn(c) PROVE HandlesCounted'
        BY <1>1, <3>3, SameHandlesKeep, GoOnHandles
      <3>4. ASSUME NEW c \in Users, Release(c) PROVE HandlesCounted'
        BY <1>1, <3>4, ReleaseHandles
      <3>5. ASSUME NEW c \in Users, NEW d \in Users, Copy(c, d) \/ Move(c, d)
            PROVE  HandlesCounted'
        BY <1>1, <3>5, CopyHandles, MoveHandles
      <3> QED  BY <1>3, <3>1, <3>2, <3>3, <3>4, <3>5 DEF ChannelNext
    <2> QED  BY <1>1, <1>3, <2>1, StepListed, StepApart, StepDelivers DEF DeliveryInv
  <1> QED  BY <1>2, <1>3

(* In every channel, whatever its capacity and however many use it, values *)
(* leave the buffer in the order they entered it, and no value is given to *)
(* two receivers, also while destroy() wakes and clears waiting senders    *)
(* outside the mutex (channel.hpp:20-90, 130-150).                         *)
THEOREM ValuesDelivered == ChannelSpec => []DeliveredOnceInOrder
  <1>1. DeliveryInv => DeliveredOnceInOrder
    BY DEF DeliveryInv
  <1> QED
    BY DeliveryInit, DeliveryStep, <1>1, PTL DEF ChannelSpec

-----------------------------------------------------------------------------
(***************************************************************************)
(* What is proved of SharedMutex for every number of writers and readers:  *)
(* writers exclude each other.                                             *)
(*                                                                         *)
(* The proof uses only that what a coroutine does behind its lock of       *)
(* mutex_ is one step, so it holds with readers as well, up to the failed  *)
(* assertion.  The flag is set from the moment a writer leaves mutex_ with *)
(* it, also while it waits for readers, so the invariant is about all who  *)
(* have the flag; and writerCond never has more than that one.             *)
(***************************************************************************)
SharedPlaces == {"outside", "lock", "in cond", "woken", "writing", "unlock", "in writerCond",
           "drained", "drain", "lock_shared", "unlock again", "reading", "unlock_shared"}

(* A coroutine that has set the flag and not reset it.                     *)
HasFlag(c) == doing[c] \in {"in writerCond", "drained", "drain", "writing", "unlock"}

(* The flag is up while somebody has it, and one has it at most.           *)
OneHasFlag ==
  /\ \A c \in Sharers : HasFlag(c) => writing
  /\ \A c, d \in Sharers : HasFlag(c) /\ HasFlag(d) => c = d

(* writerCond has nobody, or who has the flag.                             *)
Listed ==
  writerCond = <<>> \/ \E c \in Sharers : writerCond = <<c>> /\ doing[c] = "in writerCond"

WriterInv == doing \in [Sharers -> SharedPlaces] /\ OneHasFlag /\ Listed

-----------------------------------------------------------------------------
LEMMA SharedInitInv == SharedInit => WriterInv
  BY DEF SharedInit, WriterInv, OneHasFlag, Listed, HasFlag, SharedPlaces

(* A step that gives the flag to nobody and leaves writerCond alone.       *)
LEMMA NobodyGetsFlag ==
  ASSUME WriterInv, doing' \in [Sharers -> SharedPlaces], UNCHANGED <<writing, writerCond>>,
         \A d \in Sharers : HasFlag(d)' => HasFlag(d),
         \A d \in Sharers : doing[d] = "in writerCond" => doing'[d] = "in writerCond"
  PROVE  WriterInv'
  BY DEF WriterInv, OneHasFlag, Listed

(* A call of lock() on mutex_.                                             *)
LEMMA AskKeeps ==
  ASSUME WriterInv, NEW c \in Sharers, NEW from, NEW operation,
         Ask(c, from, operation), from # "in writerCond",
         operation \in {"drain", "unlock"} => from \in {"drained", "writing"},
         operation \in {"lock", "lock_shared", "unlock_shared", "drain", "unlock"}
  PROVE  WriterInv'
  <1>1. doing' = [doing EXCEPT ![c] = operation] /\ doing[c] = from
    BY DEF Ask
  <1>2. doing' \in [Sharers -> SharedPlaces]
    BY <1>1 DEF WriterInv, SharedPlaces
  <1>3. \A d \in Sharers : HasFlag(d)' => HasFlag(d)
    BY <1>1 DEF WriterInv, HasFlag
  <1>4. \A d \in Sharers : doing[d] = "in writerCond" => doing'[d] = "in writerCond"
    BY <1>1 DEF WriterInv
  <1>5. UNCHANGED <<writing, writerCond>>
    BY DEF Ask
  <1> QED
    BY <1>2, <1>3, <1>4, <1>5, NobodyGetsFlag

(* The steps behind it that do not touch the flag.                         *)
LEMMA QuietKeeps ==
  ASSUME WriterInv, NEW c \in Sharers,
         \/ WaitForWriter(c) \/ EnterDrained(c) \/ WaitToRead(c)
         \/ EnterShared(c) \/ UnlockAgain(c)
  PROVE  WriterInv'
  <1>1. PICK where \in {"in cond", "writing", "unlock again", "reading"} :
          /\ Then(c, where, {}, "")
          /\ doing[c] \in {"lock", "drain", "lock_shared", "unlock again"}
          /\ where = "writing" => doing[c] = "drain"
    BY DEF WaitForWriter, EnterDrained, WaitToRead, EnterShared, UnlockAgain, InMutex
  <1>5. where \in SharedPlaces
    BY DEF SharedPlaces
  <1>6. /\ doing' \in [Sharers -> SharedPlaces] /\ doing'[c] = where
        /\ \A d \in Sharers : d # c => doing'[d] = doing[d]
    BY <1>1, <1>5 DEF Then, WriterInv
  <1>2. UNCHANGED <<writing, writerCond>>
    BY DEF WaitForWriter, EnterDrained, WaitToRead, EnterShared, UnlockAgain
  <1>3. \A d \in Sharers : HasFlag(d)' => HasFlag(d)
    BY <1>1, <1>6 DEF HasFlag
  <1>4. \A d \in Sharers : doing[d] = "in writerCond" => doing'[d] = "in writerCond"
    BY <1>1, <1>6
  <1> QED
    BY <1>2, <1>3, <1>4, <1>6, NobodyGetsFlag

(* A writer sets the flag and is in: nobody had it.                        *)
LEMMA EnterKeeps ==
  ASSUME WriterInv, NEW c \in Sharers, Enter(c)
  PROVE  WriterInv'
  <1>1. \A d \in Sharers : ~HasFlag(d)
    BY DEF Enter, WriterInv, OneHasFlag
  <1>2. writing' = TRUE /\ Then(c, "writing", {}, "")
    BY DEF Enter
  <1>5. /\ doing' \in [Sharers -> SharedPlaces]
        /\ \A d \in Sharers : d # c => doing'[d] = doing[d]
    BY <1>2 DEF Then, SharedPlaces, WriterInv
  <1>3. \A d \in Sharers : HasFlag(d)' => d = c
    BY <1>1, <1>5 DEF HasFlag
  <1>4. writerCond' = <<>>
    BY <1>1 DEF Enter, WriterInv, Listed, HasFlag
  <1> QED
    BY <1>2, <1>3, <1>4, <1>5 DEF WriterInv, OneHasFlag, Listed

(* A writer sets the flag, or has it, and waits for readers: nobody else   *)
(* has it or is in writerCond.                                             *)
LEMMA WaitForReadersKeeps ==
  ASSUME WriterInv, NEW c \in Sharers, WaitForReaders(c)
  PROVE  WriterInv'
  <1>1. doing[c] \in {"lock", "drain"} /\ (doing[c] = "lock" => ~writing)
    BY DEF WaitForReaders, InMutex
  <1>2. \A d \in Sharers : HasFlag(d) => d = c
    BY <1>1 DEF WriterInv, OneHasFlag, HasFlag
  <1>3. writerCond = <<>>
    BY <1>1, <1>2 DEF WriterInv, Listed, HasFlag
  <1>7. writing' = TRUE /\ Then(c, "in writerCond", {}, "")
    BY DEF WaitForReaders
  <1>4. /\ doing' \in [Sharers -> SharedPlaces]
        /\ doing'[c] = "in writerCond"
        /\ \A d \in Sharers : d # c => doing'[d] = doing[d]
    BY <1>7 DEF Then, SharedPlaces, WriterInv
  <1>5. \A d \in Sharers : HasFlag(d)' => d = c
    BY <1>2, <1>4 DEF HasFlag
  <1>6. writerCond' = <<c>>
    <2>1. writerCond' = <<c>> \o <<>>
      BY <1>3 DEF WaitForReaders
    <2> QED
      BY <2>1
  <1> QED
    BY <1>4, <1>5, <1>6, <1>7 DEF WriterInv, OneHasFlag, Listed

(* A writer resets the flag and wakes all in cond: nobody has it then.     *)
LEMMA WriterLeavesKeeps ==
  ASSUME WriterInv, NEW c \in Sharers, WriterLeaves(c)
  PROVE  WriterInv'
  <1>1. doing[c] = "unlock" /\ \A d \in Sharers : HasFlag(d) => d = c
    BY DEF WriterLeaves, InMutex, WriterInv, OneHasFlag, HasFlag
  <1>2. writerCond' = <<>>
    BY <1>1 DEF WriterLeaves, WriterInv, Listed, HasFlag
  <1>3. /\ doing' \in [Sharers -> SharedPlaces]
        /\ doing'[c] = "outside"
        /\ \A d \in Sharers : d # c => doing'[d] \in {doing[d], "woken"}
    <2>1. Then(c, "outside", ToSet(cond), "woken")
      BY DEF WriterLeaves
    <2> QED
      BY <2>1 DEF Then, SharedPlaces, WriterInv
  <1>4. \A d \in Sharers : ~HasFlag(d)'
    BY <1>1, <1>3 DEF HasFlag
  <1> QED
    BY <1>2, <1>3, <1>4 DEF WriterInv, OneHasFlag, Listed

(* The last reader wakes the writer, which has the flag already.           *)
LEMMA ReaderLeavesKeeps ==
  ASSUME WriterInv, NEW c \in Sharers, ReaderLeaves(c)
  PROVE  WriterInv'
  <1>1. doing[c] = "unlock_shared" /\ UNCHANGED writing
    BY DEF ReaderLeaves, InMutex
  <1>2. CASE UNCHANGED writerCond /\ Then(c, "outside", {}, "")
    <2>1. /\ doing' \in [Sharers -> SharedPlaces] /\ doing'[c] = "outside"
          /\ \A d \in Sharers : d # c => doing'[d] = doing[d]
      BY <1>2 DEF Then, SharedPlaces, WriterInv
    <2> QED
      BY <1>1, <1>2, <2>1, NobodyGetsFlag DEF HasFlag
  <1>3. CASE /\ writerCond # <<>> /\ writerCond' = Tail(writerCond)
             /\ Then(c, "outside", {Head(writerCond)}, "drained")
    <2>1. PICK w \in Sharers : writerCond = <<w>> /\ doing[w] = "in writerCond"
      BY <1>3 DEF WriterInv, Listed
    <2>2. writerCond' = <<>> /\ Head(writerCond) = w
      <3>1. Tail(<<w>>) = <<>> /\ Head(<<w>>) = w
        OBVIOUS
      <3> QED
        BY <1>3, <2>1, <3>1
    <2>3. /\ doing' \in [Sharers -> SharedPlaces] /\ doing'[c] = "outside"
          /\ \A d \in Sharers : d # c => doing'[d] = IF d = w THEN "drained" ELSE doing[d]
      BY <1>3, <2>2 DEF Then, SharedPlaces, WriterInv
    <2>4. \A d \in Sharers : HasFlag(d)' => HasFlag(d)
      BY <2>1, <2>3 DEF HasFlag
    <2> QED
      BY <1>1, <2>2, <2>3, <2>4 DEF WriterInv, OneHasFlag, Listed
  <1> QED
    BY <1>2, <1>3 DEF ReaderLeaves

LEMMA SharedStepKeeps == WriterInv /\ [SharedNext]_sharedVars => WriterInv'
  <1> SUFFICES ASSUME WriterInv, [SharedNext]_sharedVars PROVE WriterInv'
    OBVIOUS
  <1>1. CASE UNCHANGED sharedVars
    BY <1>1 DEF sharedVars, WriterInv, OneHasFlag, Listed, HasFlag
  <1>2. ASSUME NEW c \in Writers, Ask(c, "outside", "lock") \/ WriterStep(c) PROVE WriterInv'
    BY <1>2, AskKeeps, QuietKeeps, EnterKeeps, WriterLeavesKeeps DEF WriterStep, Sharers
  <1>3. ASSUME NEW c \in Writers,
               WaitForReaders(c) \/ EnterDrained(c) \/ Ask(c, "drained", "drain")
        PROVE  WriterInv'
    BY <1>3, AskKeeps, QuietKeeps, WaitForReadersKeeps DEF Sharers
  <1>4. ASSUME NEW c \in Readers,
               \/ Ask(c, "outside", "lock_shared") \/ Ask(c, "woken", "lock_shared")
               \/ Ask(c, "reading", "unlock_shared")
        PROVE  WriterInv'
    BY <1>4, AskKeeps DEF Sharers
  <1>5. ASSUME NEW c \in Readers,
               WaitToRead(c) \/ EnterShared(c) \/ UnlockAgain(c) \/ ReaderLeaves(c)
        PROVE  WriterInv'
    BY <1>5, QuietKeeps, ReaderLeavesKeeps DEF Sharers
  <1> QED
    BY <1>1, <1>2, <1>3, <1>4, <1>5 DEF SharedNext, WriterNext

(* At most one coroutine is between the end of lock() and unlock() of a    *)
(* SharedMutex, and the flag is up then, for any writers and readers       *)
(* (shared_mutex.hpp:19-21, condition_variable.hpp:74-77).                 *)
THEOREM WritersExclude == SharedSpec => []OneWriter
  <1>1. WriterInv => OneWriter
    BY DEF WriterInv, OneHasFlag, OneWriter, HasFlag, Sharers
  <1> QED
    BY SharedInitInv, SharedStepKeeps, <1>1, PTL DEF SharedSpec

-----------------------------------------------------------------------------
(***************************************************************************)
(* What is proved of Latch for every set of coroutines: nobody passes      *)
(* before the latch is counted down, and nobody is resumed twice who did   *)
(* suspend.                                                                *)
(*                                                                         *)
(* The count is the number of coroutines that have still to count down, so *)
(* one at most goes on to notify_all.  The list it loads has each awaiter  *)
(* once, and none of them has been resumed but those that did not suspend; *)
(* this must hold of head_ as long as it has not been loaded.              *)
(***************************************************************************)
Early  == {"count", "notify_all", "walk", "await_ready", "link"}
Stages == Early \cup {"look again", "suspended", "not suspended", "gone"}

Appears(c, s)    == \E i \in 1 .. Len(s) : s[i] = c
NoRepeat(s) == \A i, j \in 1 .. Len(s) : s[i] = s[j] => i = j

Left == {c \in Counting : stage[c] = "count"}

LatchTyped ==
  /\ stage \in [Arriving -> Stages] /\ resumed \in [Arriving -> Nat]
  /\ linked \in Seq(Arriving) /\ toWake \in Seq(Arriving)
  /\ expected \in Nat
  /\ \A c \in Arriving : stage[c] = "count" => c \in Counting

(* The count, and who goes on to notify_all when it has reached zero.      *)
Counted == expected = Cardinality(Left)

Notifying(c) == stage[c] \in {"notify_all", "walk"}
OneNotifier ==
  \A c, d \in Arriving : Notifying(c) => expected = 0 /\ (Notifying(d) => c = d)

(* An awaiter that is listed and not woken yet.                            *)
Unwoken(c) ==
  /\ stage[c] \in {"look again", "suspended", "not suspended"}
  /\ resumed[c] = IF stage[c] = "not suspended" THEN 1 ELSE 0

BoundedAt(c) ==
  /\ resumed[c] > 0 => expected = 0
  /\ stage[c] \in Early => resumed[c] = 0 /\ ~Appears(c, linked) /\ ~Appears(c, toWake)
  /\ stage[c] = "suspended" => resumed[c] = 0
  /\ stage[c] \in {"look again", "gone"} => resumed[c] <= 1

Bounded == \A c \in Arriving : BoundedAt(c)

Lists ==
  /\ NoRepeat(linked) /\ NoRepeat(toWake)
  /\ \A c \in Arriving : Appears(c, toWake) => Unwoken(c)
  /\ expected > 0 \/ (\E n \in Arriving : stage[n] = "notify_all") =>
       \A c \in Arriving : Appears(c, linked) => Unwoken(c)

LatchInv == LatchTyped /\ Counted /\ OneNotifier /\ Bounded /\ Lists

-----------------------------------------------------------------------------
(* The lists: what is in a longer one, and in the tail of one.             *)
LEMMA Longer ==
  ASSUME NEW c \in Arriving, NEW s \in Seq(Arriving), ~Appears(c, s), NoRepeat(s)
  PROVE  /\ <<c>> \o s \in Seq(Arriving)
         /\ NoRepeat(<<c>> \o s)
         /\ \A d : Appears(d, <<c>> \o s) => d = c \/ Appears(d, s)
  <1> DEFINE t == <<c>> \o s
  <1>1. t \in Seq(Arriving) /\ Len(t) = 1 + Len(s)
    OBVIOUS
  <1>2. t[1] = c /\ \A i \in 2 .. Len(t) : t[i] = s[i - 1] /\ i - 1 \in 1 .. Len(s)
    OBVIOUS
  <1>3. \A d : Appears(d, t) => d = c \/ Appears(d, s)
    BY <1>1, <1>2 DEF Appears
  <1>4. NoRepeat(t)
    <2> SUFFICES ASSUME NEW i \in 1 .. Len(t), NEW j \in 1 .. Len(t), t[i] = t[j] PROVE i = j
      BY DEF NoRepeat
    <2> HIDE DEF t
    <2>1. CASE i = 1 \/ j = 1
      <3>1. \A k \in 2 .. Len(t) : t[k] # c
        BY <1>2 DEF Appears
      <3>2. i = 1 \/ i \in 2 .. Len(t)
        BY <1>1
      <3>3. j = 1 \/ j \in 2 .. Len(t)
        BY <1>1
      <3> QED
        BY <1>2, <2>1, <3>1, <3>2, <3>3
    <2>2. CASE i \in 2 .. Len(t) /\ j \in 2 .. Len(t)
      BY <1>1, <1>2, <2>2 DEF NoRepeat
    <2> QED
      BY <1>1, <2>1, <2>2
  <1> QED
    BY <1>1, <1>3, <1>4

LEMMA Shorter ==
  ASSUME NEW s \in Seq(Arriving), s # <<>>, NoRepeat(s)
  PROVE  /\ Tail(s) \in Seq(Arriving) /\ Head(s) \in Arriving /\ Appears(Head(s), s)
         /\ NoRepeat(Tail(s)) /\ ~Appears(Head(s), Tail(s))
         /\ \A d : Appears(d, Tail(s)) => Appears(d, s)
  <1>1. /\ Tail(s) \in Seq(Arriving) /\ Len(Tail(s)) = Len(s) - 1 /\ Len(s) \in Nat \ {0}
        /\ \A i \in 1 .. Len(s) - 1 : Tail(s)[i] = s[i + 1]
        /\ Head(s) = s[1]
    OBVIOUS
  <1> QED
    BY <1>1 DEF Appears, NoRepeat

-----------------------------------------------------------------------------
LEMMA LatchInitInv == LatchInit => LatchInv
  <1> SUFFICES ASSUME LatchInit PROVE LatchInv
    OBVIOUS
  <1> USE DEF LatchInit, Waits, Arriving
  <1>1. LatchTyped
    <2>1. expected \in Nat
      BY LatchAssumption, FS_CardinalityType
    <2> QED
      BY <2>1 DEF LatchTyped, Stages, Early
  <1>2. Left = Counting
    BY DEF Left
  <1>3. OneNotifier
    BY DEF OneNotifier, Notifying
  <1>4. \A c : ~Appears(c, <<>>)
    BY DEF Appears
  <1>5. Bounded
    BY <1>4 DEF Bounded, BoundedAt, Early
  <1>6. Lists
    BY <1>4 DEF Lists, NoRepeat
  <1> QED
    BY <1>1, <1>2, <1>3, <1>5, <1>6 DEF LatchInv, Counted

(* Who counts down is one of those the count is the number of.             *)
LEMMA CountDownKeeps ==
  ASSUME LatchInv, NEW c \in Arriving, CountDown(c)
  PROVE  LatchInv'
  <1> USE DEF LatchInv
  <1>1. c \in Counting /\ stage[c] = "count" /\ c \in Left
    BY DEF CountDown, LatchTyped, Left
  <1>2. IsFiniteSet(Left)
    BY LatchAssumption, FS_Subset DEF Left
  <1>3. /\ IsFiniteSet(Left \ {c}) /\ Cardinality(Left \ {c}) = Cardinality(Left) - 1
    BY <1>1, <1>2, FS_RemoveElement
  <1>4. expected > 0 /\ expected' = expected - 1 /\ expected' \in Nat
    BY <1>1, <1>2, <1>3, FS_CardinalityType DEF CountDown, Counted
  <1>5. PICK where \in {"notify_all", "await_ready", "gone"} :
          /\ stage' = [stage EXCEPT ![c] = where]
          /\ where = "notify_all" <=> expected = 1
    BY DEF CountDown, At, Waits
  <1>6. UNCHANGED <<linked, toWake, resumed>>
    BY DEF CountDown
  <1>7. Left' = Left \ {c}
    BY <1>1, <1>5 DEF Left, LatchTyped, Arriving
  <1>8. LatchTyped'
    BY <1>4, <1>5, <1>6 DEF LatchTyped, Stages, Early
  <1>9. \A d \in Arriving : ~Notifying(d) /\ resumed[d] = 0
    <2>1. \A d \in Arriving : ~Notifying(d)
      BY <1>4 DEF OneNotifier
    <2>2. \A d \in Arriving : resumed[d] \in Nat
      BY DEF LatchTyped
    <2>3. expected # 0
      BY <1>4 DEF LatchTyped
    <2>4. \A d \in Arriving : ~(resumed[d] > 0)
      BY <2>3 DEF Bounded, BoundedAt
    <2> QED
      BY <2>1, <2>2, <2>4
  <1>10. OneNotifier'
    BY <1>4, <1>5, <1>9 DEF OneNotifier, Notifying, LatchTyped
  <1>11. Bounded'
    <2> SUFFICES ASSUME NEW d \in Arriving PROVE BoundedAt(d)'
      BY DEF Bounded
    <2>1. BoundedAt(d)
      BY DEF Bounded
    <2>2. CASE d = c
      BY <1>1, <1>5, <1>6, <1>9, <2>1, <2>2 DEF BoundedAt, Early, LatchTyped
    <2>3. CASE d # c
      <3>1. stage'[d] = stage[d] /\ resumed'[d] = 0
        BY <1>5, <1>6, <1>9, <2>3 DEF LatchTyped
      <3> QED
        BY <1>6, <2>1, <3>1 DEF BoundedAt
    <2> QED
      BY <2>2, <2>3
  <1>12. ~Appears(c, linked) /\ ~Appears(c, toWake)
    BY <1>1 DEF Bounded, BoundedAt, Early
  <1>13. Lists'
    BY <1>4, <1>5, <1>6, <1>12 DEF Lists, Unwoken, LatchTyped
  <1> QED
    BY <1>3, <1>4, <1>7, <1>8, <1>10, <1>11, <1>13 DEF Counted

(* A step that neither counts nor makes a notifier.                        *)
LEMMA CountStays ==
  ASSUME LatchInv, UNCHANGED expected,
         \A d \in Arriving : (stage'[d] = "count") <=> (stage[d] = "count"),
         \A d \in Arriving : Notifying(d)' => Notifying(d)
  PROVE  Counted' /\ OneNotifier'
  <1>1. Left' = Left
    BY DEF Left, Arriving
  <1> QED
    BY <1>1 DEF LatchInv, Counted, OneNotifier

LEMMA LoadHeadKeeps ==
  ASSUME LatchInv, NEW c \in Arriving, LoadHead(c)
  PROVE  LatchInv'
  <1> USE DEF LatchInv
  <1>1. /\ stage[c] = "notify_all" /\ stage' = [stage EXCEPT ![c] = "walk"]
        /\ toWake' = linked /\ UNCHANGED <<expected, linked, resumed>>
    BY DEF LoadHead, At
  <1>2. LatchTyped'
    BY <1>1 DEF LatchTyped, Stages, Early
  <1>3. Counted' /\ OneNotifier'
    BY <1>1, CountStays DEF LatchTyped, Notifying
  <1>4. Bounded'
    <2> SUFFICES ASSUME NEW d \in Arriving PROVE BoundedAt(d)'
      BY DEF Bounded
    <2>1. BoundedAt(d)
      BY DEF Bounded
    <2>2. CASE d = c
      BY <1>1, <2>1, <2>2 DEF BoundedAt, Early, LatchTyped
    <2>3. CASE d # c
      BY <1>1, <2>1, <2>3 DEF BoundedAt, LatchTyped
    <2> QED
      BY <2>2, <2>3
  <1>5. \A d \in Arriving : Appears(d, linked) => Unwoken(d) /\ d # c
    BY <1>1 DEF Lists, Bounded, BoundedAt, Early
  <1>6. \A d \in Arriving : Appears(d, toWake)' => Unwoken(d)'
    BY <1>1, <1>5 DEF Unwoken, LatchTyped, Appears
  <1>7. expected' = 0 /\ \A n \in Arriving : stage'[n] # "notify_all"
    BY <1>1 DEF OneNotifier, Notifying, LatchTyped
  <1>8. Lists'
    BY <1>1, <1>6, <1>7 DEF Lists
  <1> QED
    BY <1>2, <1>3, <1>4, <1>8

LEMMA WakeNextKeeps ==
  ASSUME LatchInv, NEW c \in Arriving, WakeNext(c)
  PROVE  LatchInv'
  <1> USE DEF LatchInv
  <1>1. stage[c] = "walk" /\ UNCHANGED <<expected, linked>>
    BY DEF WakeNext
  <1>2. expected = 0 /\ \A d \in Arriving : Notifying(d) => d = c
    BY <1>1 DEF OneNotifier, Notifying
  <1>3. CASE toWake = <<>>
    <2>1. PICK where \in {"await_ready", "gone"} : stage' = [stage EXCEPT ![c] = where]
      BY <1>3 DEF WakeNext, At, Waits
    <2>2. UNCHANGED <<toWake, resumed>>
      BY <1>3 DEF WakeNext
    <2>3. LatchTyped'
      BY <1>1, <2>1, <2>2 DEF LatchTyped, Stages, Early
    <2>4. Counted' /\ OneNotifier'
      BY <1>1, <2>1, CountStays DEF LatchTyped, Notifying
    <2>5. Bounded'
      <3> SUFFICES ASSUME NEW d \in Arriving PROVE BoundedAt(d)'
        BY DEF Bounded
      <3>1. BoundedAt(d)
        BY DEF Bounded
      <3>2. CASE d = c
        BY <1>1, <2>1, <2>2, <3>1, <3>2 DEF BoundedAt, Early, LatchTyped
      <3>3. CASE d # c
        BY <1>1, <2>1, <2>2, <3>1, <3>3 DEF BoundedAt, LatchTyped
      <3> QED
        BY <3>2, <3>3
    <2>6. ~Appears(c, linked) /\ ~Appears(c, toWake)
      BY <1>1 DEF Bounded, BoundedAt, Early
    <2>7. \A n \in Arriving : stage'[n] # "notify_all"
      BY <1>1, <1>2, <2>1 DEF Notifying, LatchTyped
    <2>8. Lists'
      BY <1>1, <1>2, <2>1, <2>2, <2>6, <2>7 DEF Lists, Unwoken, LatchTyped
    <2> QED
      BY <2>3, <2>4, <2>5, <2>8
  <1>4. CASE toWake # <<>>
    <2> DEFINE w == Head(toWake)
    <2>1. /\ toWake' = Tail(toWake) /\ resumed' = [resumed EXCEPT ![w] = @ + 1]
          /\ stage' = [stage EXCEPT ![w] = IF @ = "suspended" THEN "gone" ELSE @]
      BY <1>4 DEF WakeNext, Resume
    <2>2. /\ toWake' \in Seq(Arriving) /\ w \in Arriving /\ Appears(w, toWake)
          /\ NoRepeat(toWake') /\ ~Appears(w, toWake')
          /\ \A d : Appears(d, toWake') => Appears(d, toWake)
      BY <1>4, <2>1, Shorter DEF LatchTyped, Lists
    <2> HIDE DEF w
    <2>3. Unwoken(w) /\ w # c
      BY <1>1, <2>2 DEF Lists, Unwoken
    <2>4. LatchTyped'
      <3>1. stage' \in [Arriving -> Stages]
              /\ \A d \in Arriving : stage'[d] = "count" => stage[d] = "count"
        BY <2>1, <2>2 DEF LatchTyped, Stages
      <3>2. resumed[w] + 1 \in Nat
        BY <2>2 DEF LatchTyped
      <3>3. resumed' \in [Arriving -> Nat]
        BY <2>1, <2>2, <3>2 DEF LatchTyped
      <3> QED
        BY <1>1, <2>2, <3>1, <3>3 DEF LatchTyped
    <2>5. Counted' /\ OneNotifier'
      BY <1>1, <2>1, <2>2, <2>3, CountStays DEF LatchTyped, Notifying, Unwoken
    <2>6. Bounded'
      <3> SUFFICES ASSUME NEW d \in Arriving PROVE BoundedAt(d)'
        BY DEF Bounded
      <3>1. CASE d = w
        <4>1. stage'[w] \in {"look again", "gone", "not suspended"} /\ expected' = 0
          BY <1>1, <1>2, <2>1, <2>2, <2>3 DEF Unwoken, LatchTyped
        <4>2. stage'[w] \notin Early /\ stage'[w] # "suspended"
          BY <4>1 DEF Early
        <4>3. stage[w] # "not suspended" => resumed[w] = 0
          BY <2>3 DEF Unwoken
        <4>4. resumed[w] = 0 => resumed'[w] <= 1
          BY <2>1, <2>2 DEF LatchTyped
        <4>5. stage'[w] \in {"look again", "gone"} => stage[w] # "not suspended"
          BY <2>1, <2>2 DEF LatchTyped
        <4>6. stage'[w] \in {"look again", "gone"} => resumed'[w] <= 1
          BY <4>3, <4>4, <4>5
        <4> QED
          BY <3>1, <4>1, <4>2, <4>6 DEF BoundedAt
      <3>2. CASE d # w
        BY <1>1, <1>2, <2>1, <2>2, <3>2 DEF Bounded, BoundedAt, LatchTyped
      <3> QED
        BY <3>1, <3>2
    <2>7. \A n \in Arriving : stage'[n] # "notify_all"
      BY <1>1, <1>2, <2>1, <2>3 DEF Notifying, LatchTyped
    <2>8. \A d \in Arriving : Appears(d, toWake') => Unwoken(d)'
      BY <2>1, <2>2 DEF Lists, Unwoken, LatchTyped
    <2>9. Lists'
      BY <1>1, <1>2, <2>2, <2>7, <2>8 DEF Lists, Appears, NoRepeat
    <2> QED
      BY <2>4, <2>5, <2>6, <2>9
  <1> QED
    BY <1>3, <1>4

LEMMA ReadyKeeps ==
  ASSUME LatchInv, NEW c \in Arriving, Ready(c)
  PROVE  LatchInv'
  <1> USE DEF LatchInv
  <1>1. stage[c] = "await_ready" /\ UNCHANGED <<expected, linked, toWake>>
    BY DEF Ready
  <1>2. resumed[c] = 0 /\ ~Appears(c, linked) /\ ~Appears(c, toWake)
    BY <1>1 DEF Bounded, BoundedAt, Early
  <1>3. \/ /\ expected = 0 /\ resumed' = [resumed EXCEPT ![c] = @ + 1]
           /\ stage' = [stage EXCEPT ![c] = "gone"]
        \/ UNCHANGED resumed /\ stage' = [stage EXCEPT ![c] = "link"]
    BY DEF Ready, At, Resume
  <1>4. LatchTyped'
    <2>1. stage' \in [Arriving -> Stages]
            /\ \A d \in Arriving : stage'[d] = "count" => stage[d] = "count"
      BY <1>1, <1>3 DEF LatchTyped, Stages, Early
    <2>2. resumed' \in [Arriving -> Nat]
      BY <1>2, <1>3 DEF LatchTyped
    <2> QED
      BY <1>1, <2>1, <2>2 DEF LatchTyped
  <1>5. Counted' /\ OneNotifier'
    BY <1>1, <1>3, CountStays DEF LatchTyped, Notifying
  <1>6. Bounded'
    <2> SUFFICES ASSUME NEW d \in Arriving PROVE BoundedAt(d)'
      BY DEF Bounded
    <2>1. BoundedAt(d)
      BY DEF Bounded
    <2>2. CASE d = c
      <3>1. CASE expected = 0 /\ resumed' = [resumed EXCEPT ![c] = @ + 1]
              /\ stage' = [stage EXCEPT ![c] = "gone"]
        <4>1. resumed'[c] = 1 /\ stage'[c] = "gone" /\ expected' = 0
          BY <1>1, <1>2, <3>1 DEF LatchTyped
        <4> QED
          BY <2>2, <4>1 DEF BoundedAt, Early
      <3>2. CASE UNCHANGED resumed /\ stage' = [stage EXCEPT ![c] = "link"]
        <4>1. resumed'[c] = 0 /\ stage'[c] = "link"
          BY <1>2, <3>2 DEF LatchTyped
        <4> QED
          BY <1>1, <1>2, <2>2, <4>1 DEF BoundedAt
      <3> QED
        BY <1>3, <3>1, <3>2
    <2>3. CASE d # c
      BY <1>1, <1>2, <1>3, <2>1, <2>3 DEF BoundedAt, LatchTyped
    <2> QED
      BY <2>2, <2>3
  <1>7. Lists'
    BY <1>1, <1>2, <1>3 DEF Lists, Unwoken, LatchTyped
  <1> QED
    BY <1>4, <1>5, <1>6, <1>7

LEMMA LinkKeeps ==
  ASSUME LatchInv, NEW c \in Arriving, Link(c)
  PROVE  LatchInv'
  <1> USE DEF LatchInv
  <1>1. /\ stage[c] = "link" /\ stage' = [stage EXCEPT ![c] = "look again"]
        /\ linked' = <<c>> \o linked /\ UNCHANGED <<expected, toWake, resumed>>
    BY DEF Link, At
  <1>2. resumed[c] = 0 /\ ~Appears(c, linked) /\ ~Appears(c, toWake)
    BY <1>1 DEF Bounded, BoundedAt, Early
  <1>3. /\ linked' \in Seq(Arriving) /\ NoRepeat(linked')
        /\ \A d : Appears(d, linked') => d = c \/ Appears(d, linked)
    BY <1>1, <1>2, Longer DEF LatchTyped, Lists
  <1>4. LatchTyped'
    BY <1>1, <1>3 DEF LatchTyped, Stages, Early
  <1>5. Counted' /\ OneNotifier'
    BY <1>1, CountStays DEF LatchTyped, Notifying
  <1>6. Bounded'
    <2> SUFFICES ASSUME NEW d \in Arriving PROVE BoundedAt(d)'
      BY DEF Bounded
    <2>1. CASE d = c
      <3>1. stage'[c] = "look again"
        BY <1>1 DEF LatchTyped
      <3>2. stage'[c] \notin Early /\ stage'[c] # "suspended"
        BY <3>1 DEF Early
      <3>3. resumed'[c] = 0
        BY <1>1, <1>2
      <3>4. ~(resumed'[c] > 0) /\ resumed'[c] <= 1
        BY <3>3
      <3> QED
        BY <2>1, <3>2, <3>4 DEF BoundedAt
    <2>2. CASE d # c
      BY <1>1, <1>3, <2>2 DEF Bounded, BoundedAt, LatchTyped
    <2> QED
      BY <2>1, <2>2
  <1>7. \A d \in Arriving : Unwoken(d) => Unwoken(d)'
    BY <1>1 DEF Unwoken, LatchTyped
  <1>8. Unwoken(c)'
    BY <1>1, <1>2 DEF Unwoken, LatchTyped
  <1>9. Lists'
    BY <1>1, <1>3, <1>7, <1>8 DEF Lists, Appears, NoRepeat, LatchTyped
  <1> QED
    BY <1>4, <1>5, <1>6, <1>9

LEMMA LookAgainKeeps ==
  ASSUME LatchInv, NEW c \in Arriving, LookAgain(c)
  PROVE  LatchInv'
  <1> USE DEF LatchInv
  <1>1. stage[c] = "look again" /\ UNCHANGED <<expected, linked, toWake>>
    BY DEF LookAgain
  <1>2. \/ /\ expected = 0 /\ resumed' = [resumed EXCEPT ![c] = @ + 1]
           /\ stage' = [stage EXCEPT ![c] = "not suspended"]
        \/ /\ resumed[c] = 0 /\ UNCHANGED resumed
           /\ stage' = [stage EXCEPT ![c] = "suspended"]
    <2>1. expected # 0 => resumed[c] = 0
      <3>1. resumed[c] \in Nat
        BY DEF LatchTyped
      <3>2. expected # 0 => ~(resumed[c] > 0)
        BY DEF Bounded, BoundedAt
      <3> QED
        BY <3>1, <3>2
    <2>2. CASE expected = 0
      BY <2>2 DEF LookAgain, At, Resume
    <2>3. CASE expected # 0
      BY <2>1, <2>3 DEF LookAgain, At
    <2> QED
      BY <2>2, <2>3
  <1>3. LatchTyped'
    <2>1. stage' \in [Arriving -> Stages]
            /\ \A d \in Arriving : stage'[d] = "count" => stage[d] = "count"
      BY <1>1, <1>2 DEF LatchTyped, Stages, Early
    <2>2. resumed[c] + 1 \in Nat
      BY DEF LatchTyped
    <2>3. resumed' \in [Arriving -> Nat]
      BY <1>2, <2>2 DEF LatchTyped
    <2> QED
      BY <1>1, <2>1, <2>3 DEF LatchTyped
  <1>4. Counted' /\ OneNotifier'
    BY <1>1, <1>2, CountStays DEF LatchTyped, Notifying
  <1>5. Bounded'
    <2> SUFFICES ASSUME NEW d \in Arriving PROVE BoundedAt(d)'
      BY DEF Bounded
    <2>1. BoundedAt(d)
      BY DEF Bounded
    <2>2. CASE d = c
      BY <1>1, <1>2, <2>1, <2>2 DEF BoundedAt, Early, LatchTyped
    <2>3. CASE d # c
      BY <1>1, <1>2, <2>1, <2>3 DEF BoundedAt, LatchTyped
    <2> QED
      BY <2>2, <2>3
  <1>6. \A d \in Arriving : Unwoken(d) => Unwoken(d)'
    <2>1. \A d \in Arriving \ {c} : stage'[d] = stage[d] /\ resumed'[d] = resumed[d]
      BY <1>2 DEF LatchTyped
    <2>2. Unwoken(c) => resumed[c] = 0
      BY <1>1 DEF Unwoken
    <2>3. Unwoken(c) => Unwoken(c)'
      <3>1. CASE expected = 0 /\ resumed' = [resumed EXCEPT ![c] = @ + 1]
                   /\ stage' = [stage EXCEPT ![c] = "not suspended"]
        <4>1. stage'[c] = "not suspended"
          BY <3>1 DEF LatchTyped
        <4>2. resumed \in [Arriving -> Nat] /\ resumed' = [resumed EXCEPT ![c] = @ + 1]
          BY <3>1 DEF LatchTyped
        <4>3. resumed[c] = 0 => resumed'[c] = 1
          BY <4>2
        <4> QED
          BY <2>2, <4>1, <4>3 DEF Unwoken
      <3>2. CASE UNCHANGED resumed /\ stage' = [stage EXCEPT ![c] = "suspended"]
        <4>1. stage'[c] = "suspended"
          BY <3>2 DEF LatchTyped
        <4> QED
          BY <2>2, <3>2, <4>1 DEF Unwoken
      <3> QED
        BY <1>2, <3>1, <3>2
    <2> QED
      BY <2>1, <2>3 DEF Unwoken
  <1>7. Lists'
    BY <1>1, <1>2, <1>6 DEF Lists, LatchTyped
  <1> QED
    BY <1>3, <1>4, <1>5, <1>7

LEMMA LatchStepKeeps == LatchInv /\ [LatchNext]_latchVars => LatchInv'
  <1> SUFFICES ASSUME LatchInv, [LatchNext]_latchVars PROVE LatchInv'
    OBVIOUS
  <1>1. CASE UNCHANGED latchVars
    BY <1>1
       DEF latchVars, LatchInv, LatchTyped, Counted, Left, OneNotifier, Notifying, Bounded,
           BoundedAt, Lists, Unwoken, In, NoRepeat
  <1>2. ASSUME NEW c \in Arriving, Arrive(c) PROVE LatchInv'
    BY <1>2, CountDownKeeps, LoadHeadKeeps, WakeNextKeeps, ReadyKeeps, LinkKeeps,
       LookAgainKeeps DEF Arrive
  <1> QED
    BY <1>1, <1>2 DEF LatchNext

(* Nobody gets past a latch before it has been counted down, and twice     *)
(* only who was listed and did not suspend, for any coroutines             *)
(* (latch.hpp:19-26, 45-51).                                               *)
THEOREM LatchHoldsBack == LatchSpec => []PassesAfterCountdown
  <1>1. LatchInv => PassesAfterCountdown
    <2> SUFFICES ASSUME LatchInv, NEW c \in Arriving, resumed[c] > 1
  PROVE stage[c] = "not suspended"
      BY DEF LatchInv, Bounded, BoundedAt, PassesAfterCountdown
    <2>1. BoundedAt(c) /\ stage[c] \in Stages /\ resumed[c] \in Nat
      BY DEF LatchInv, Bounded, LatchTyped
    <2>2. resumed[c] # 0 /\ ~(resumed[c] <= 1)
      BY <2>1
    <2> QED
      BY <2>1, <2>2 DEF BoundedAt, Stages
  <1> QED
    BY LatchInitInv, LatchStepKeeps, <1>1, PTL DEF LatchSpec

-----------------------------------------------------------------------------
(***************************************************************************)
(* What is proved of RingBuffer for every capacity and every resize: it is *)
(* the queue the history variable items keeps.  The indices only grow      *)
(* modulo the slots, so the invariant names where each item lies, with the *)
(* remainder written as one subtraction, and says that the array is large  *)
(* enough to tell a full ring from an empty one.                           *)
(***************************************************************************)
(* A position below twice the length of the array, wrapped.                *)
Wrapped(n, x) == IF x < n THEN x ELSE x - n

LEMMA Wraps ==
  ASSUME NEW n \in Nat, n > 0, NEW x \in 0 .. n + n - 1
  PROVE  x % n = Wrapped(n, x)
  <1>1. x = n * (x \div n) + (x % n) /\ x % n \in 0 .. n - 1 /\ x \div n \in Int
    OBVIOUS
  <1>2. CASE x \div n <= -1
    <2>1. n * (x \div n) <= -n
      BY <1>1, <1>2
    <2> QED  BY <1>1, <2>1
  <1>3. CASE x \div n = 0
    BY <1>1, <1>3 DEF Wrapped
  <1>4. CASE x \div n = 1
    <2>1. n * (x \div n) = n
      BY <1>4
    <2> QED  BY <1>1, <2>1 DEF Wrapped
  <1>5. CASE x \div n >= 2
    <2>1. n * (x \div n) >= n * 2
      BY <1>1, <1>5
    <2> QED  BY <1>1, <2>1
  <1> QED  BY <1>1, <1>2, <1>3, <1>4, <1>5

(* An array d of n slots whose elements from s to e, wrapped, are q.       *)
Holds(n, s, e, d, q) ==
  /\ n \in Nat /\ n > 0 /\ DOMAIN d = 0 .. n - 1
  /\ s \in 0 .. n - 1 /\ q \in Seq(Items) /\ Len(q) < n
  /\ e = Wrapped(n, s + Len(q))
  /\ \A i \in 1 .. Len(q) : q[i] = d[Wrapped(n, s + i - 1)]

HoldsItems == overrun \/ Holds(Slots, start, end, data, items)

(* What its predicates say of it.                                          *)
LEMMA HoldsFacts ==
  ASSUME NEW n, NEW s, NEW e, NEW d, NEW q, Holds(n, s, e, d, q), NEW l, l = Len(q)
  PROVE  /\ n \in Nat /\ n > 0 /\ s \in 0 .. n - 1 /\ e \in 0 .. n - 1 /\ l \in 0 .. n - 1
         /\ (e + 1) % n = Wrapped(n, e + 1) /\ (s + 1) % n = Wrapped(n, s + 1)
         /\ ((e + 1) % n = s <=> l = n - 1)
         /\ (s = e <=> l = 0)
         /\ (e + n - s) % n = l
         /\ s < e => e = s + l
         /\ s > e => e = s + l - n
  <1>1. /\ n \in Nat /\ n > 0 /\ s \in 0 .. n - 1 /\ l \in 0 .. n - 1
        /\ e = Wrapped(n, s + l)
    BY DEF Holds
  <1>2. e \in 0 .. n - 1 /\ e = IF s + l < n THEN s + l ELSE s + l - n
    BY <1>1 DEF Wrapped
  <1>3. e + 1 \in 0 .. n + n - 1 /\ s + 1 \in 0 .. n + n - 1 /\ e + n - s \in 0 .. n + n - 1
    BY <1>1, <1>2
  <1>4. /\ (e + 1) % n = Wrapped(n, e + 1) /\ (s + 1) % n = Wrapped(n, s + 1)
        /\ (e + n - s) % n = Wrapped(n, e + n - s)
    BY <1>1, <1>3, Wraps
  <1>5. Wrapped(n, e + 1) = s <=> l = n - 1
    BY <1>1, <1>2 DEF Wrapped
  <1>6. Wrapped(n, e + n - s) = l /\ (s = e <=> l = 0)
    BY <1>1, <1>2 DEF Wrapped
  <1>7. (s < e => e = s + l) /\ (s > e => e = s + l - n)
    BY <1>1, <1>2
  <1> QED  BY <1>1, <1>2, <1>4, <1>5, <1>6, <1>7

LEMMA RingInitHolds == RingInit => HoldsItems
  <1> SUFFICES ASSUME RingInit PROVE Holds(Slots, start, end, data, items)
    BY DEF HoldsItems
  <1>1. PICK n \in Nat : n = MaxCapacity + 1 /\ n > 0
    BY CapacityAssumption
  <1>2. DOMAIN data = 0 .. n - 1
    BY <1>1 DEF RingInit, Array
  <1>3. Slots = n
    <2>1. Cardinality(0 .. n - 1) = (n - 1) - 0 + 1
      BY <1>1, FS_Interval
    <2> QED  BY <1>1, <1>2, <2>1 DEF Slots
  <1>4. <<>> \in Seq(Items) /\ Len(<<>>) = 0
    OBVIOUS
  <1> QED  BY <1>1, <1>2, <1>3, <1>4 DEF RingInit, Holds, Wrapped

LEMMA PutKeeps ==
  ASSUME HoldsItems, ~overrun, ~IsFill, NEW v \in Items, Put(v)
  PROVE  HoldsItems'
  <1>0. PICK n, s, e, q, l : n = Slots /\ s = start /\ e = end /\ q = items /\ l = Len(q)
    OBVIOUS
  <1>1. Holds(n, s, e, data, q)
    BY <1>0 DEF HoldsItems
  <1>2. /\ n \in Nat /\ n > 0 /\ s \in 0 .. n - 1 /\ e \in 0 .. n - 1 /\ l \in 0 .. n - 1
        /\ (e + 1) % n = Wrapped(n, e + 1) /\ ((e + 1) % n = s <=> l = n - 1)
    BY <1>0, <1>1, HoldsFacts
  <1>3. l < n - 1
    BY <1>0, <1>2 DEF IsFill
  <1>4. /\ DOMAIN data = 0 .. n - 1 /\ q \in Seq(Items) /\ e = Wrapped(n, s + l)
        /\ \A i \in 1 .. l : q[i] = data[Wrapped(n, s + i - 1)]
    BY <1>0, <1>1 DEF Holds
  <1>5. /\ data' = [data EXCEPT ![e] = v] /\ end' = Wrapped(n, e + 1) /\ start' = s
        /\ items' = Append(q, v)
    BY <1>0, <1>2 DEF Put
  <1>6. DOMAIN data' = 0 .. n - 1 /\ Slots' = n
    BY <1>0, <1>4, <1>5 DEF Slots
  <1>7. items' \in Seq(Items) /\ Len(items') = l + 1
        /\ \A i \in 1 .. l + 1 : items'[i] = IF i <= l THEN q[i] ELSE v
    BY <1>0, <1>4, <1>5
  <1>8. end' = Wrapped(n, s + (l + 1))
    BY <1>2, <1>3, <1>4, <1>5 DEF Wrapped
  <1>9. ASSUME NEW i \in 1 .. l + 1 PROVE items'[i] = data'[Wrapped(n, s + i - 1)]
    <2>1. CASE i <= l
      <3>1. Wrapped(n, s + i - 1) \in 0 .. n - 1 /\ Wrapped(n, s + i - 1) # e
        <4>1. PICK j \in Nat : j = i - 1 /\ j < l /\ s + i - 1 = s + j
          BY <1>2, <2>1
        <4>2. Wrapped(n, s + j) \in 0 .. n - 1 /\ Wrapped(n, s + j) # Wrapped(n, s + l)
          BY <1>2, <1>3, <4>1 DEF Wrapped
        <4> QED  BY <1>4, <4>1, <4>2
      <3>2. i \in 1 .. l
        BY <1>2, <2>1
      <3>3. data'[Wrapped(n, s + i - 1)] = data[Wrapped(n, s + i - 1)]
        BY <1>4, <1>5, <3>1
      <3> QED  BY <1>4, <1>7, <2>1, <3>2, <3>3
    <2>2. CASE ~(i <= l)
      <3>1. Wrapped(n, s + i - 1) = e
        BY <1>2, <1>4, <2>2, SMTT(30) DEF Wrapped
      <3>2. data'[e] = v
        BY <1>2, <1>4, <1>5
      <3> QED  BY <1>7, <2>2, <3>1, <3>2
    <2> QED  BY <2>1, <2>2
  <1> QED  BY <1>2, <1>3, <1>5, <1>6, <1>7, <1>8, <1>9, SMTT(30) DEF HoldsItems, Holds

LEMMA TakeKeeps ==
  ASSUME HoldsItems, ~overrun, ~IsEmpty, TakeFront
  PROVE  HoldsItems'
  <1>0. PICK n, s, e, q, l : n = Slots /\ s = start /\ e = end /\ q = items /\ l = Len(q)
    OBVIOUS
  <1>1. Holds(n, s, e, data, q)
    BY <1>0 DEF HoldsItems
  <1>2. /\ n \in Nat /\ n > 0 /\ s \in 0 .. n - 1 /\ e \in 0 .. n - 1 /\ l \in 0 .. n - 1
        /\ (s + 1) % n = Wrapped(n, s + 1) /\ (s = e <=> l = 0)
    BY <1>0, <1>1, HoldsFacts
  <1>3. l > 0
    BY <1>0, <1>2 DEF IsEmpty
  <1>4. /\ DOMAIN data = 0 .. n - 1 /\ q \in Seq(Items) /\ e = Wrapped(n, s + l)
        /\ \A i \in 1 .. l : q[i] = data[Wrapped(n, s + i - 1)]
    BY <1>0, <1>1 DEF Holds
  <1>5. start' = Wrapped(n, s + 1) /\ end' = e /\ data' = data /\ items' = Tail(q) /\ Slots' = n
    BY <1>0, <1>2 DEF TakeFront, Slots
  <1>6. /\ items' \in Seq(Items) /\ Len(items') = l - 1
        /\ \A i \in 1 .. l - 1 : items'[i] = q[i + 1]
    BY <1>0, <1>3, <1>4, <1>5
  <1>7. PICK t : t = Wrapped(n, s + 1) /\ t \in 0 .. n - 1
    BY <1>2 DEF Wrapped
  <1>8. e = Wrapped(n, t + (l - 1))
    BY <1>2, <1>3, <1>4, <1>7 DEF Wrapped
  <1>9. ASSUME NEW i \in 1 .. l - 1 PROVE items'[i] = data[Wrapped(n, t + i - 1)]
    <2>1. i + 1 \in 1 .. l /\ Wrapped(n, s + (i + 1) - 1) = Wrapped(n, t + i - 1)
      BY <1>2, <1>7 DEF Wrapped
    <2> QED  BY <1>4, <1>6, <2>1
  <1>10. Holds(n, t, e, data, items')
    <2>1. Len(items') < n
      BY <1>2, <1>6
    <2> QED  BY <1>2, <1>4, <1>6, <1>7, <1>8, <1>9, <2>1 DEF Holds
  <1> QED  BY <1>5, <1>7, <1>10 DEF HoldsItems

LEMMA ResizeKeeps ==
  ASSUME HoldsItems, ~overrun, NEW m \in 0 .. MaxCapacity, Resize(m)
  PROVE  HoldsItems'
  <1>0. PICK n, s, e, q, l : n = Slots /\ s = start /\ e = end /\ q = items /\ l = Len(q)
    OBVIOUS
  <1>1. Holds(n, s, e, data, q)
    BY <1>0 DEF HoldsItems
  <1>2. /\ n \in Nat /\ n > 0 /\ s \in 0 .. n - 1 /\ e \in 0 .. n - 1 /\ l \in 0 .. n - 1
        /\ (s = e <=> l = 0) /\ (e + n - s) % n = l
        /\ s < e => e = s + l
        /\ s > e => e = s + l - n
    BY <1>0, <1>1, HoldsFacts
  <1>3. /\ q \in Seq(Items)
        /\ \A i \in 1 .. l : q[i] = data[Wrapped(n, s + i - 1)]
    BY <1>0, <1>1 DEF Holds
  <1>4. RingSize = l /\ m \in Nat /\ (IsEmpty <=> l = 0)
    BY <1>0, <1>2, CapacityAssumption DEF RingSize, IsEmpty
  <1>5. CASE UNCHANGED ringVars
    BY <1>5 DEF ringVars, HoldsItems, Slots
  <1>6. CASE overrun'
    BY <1>6 DEF HoldsItems
  <1>7. CASE ~UNCHANGED ringVars /\ ~overrun'
    <2>1. l <= m /\ (l = 0 => s <= m)
      <3>1. ~(RingSize > m \/ (IsEmpty /\ start > m))
        BY <1>7 DEF Resize
      <3> QED  BY <1>0, <1>2, <1>4, <3>1
    <2>2. /\ data' = [i \in 0 .. m |-> CASE s < e /\ i < e - s -> data[s + i]
                                         [] s > e /\ i < n - s -> data[s + i]
                                         [] s > e /\ i >= n - s /\ i < l -> data[i - (n - s)]
                                         [] OTHER -> 0]
          /\ end' = IF s < e THEN e - s ELSE IF s > e THEN e + n - s ELSE e
          /\ start' = IF l = 0 THEN s ELSE 0
          /\ items' = q
      BY <1>0, <1>4, <1>7 DEF Resize
    <2>3. DOMAIN data' = 0 .. m /\ Slots' = m + 1 /\ m + 1 \in Nat
      <3>1. Cardinality(0 .. m) = m - 0 + 1
        BY <1>4, FS_Interval
      <3>2. DOMAIN data' = 0 .. m
        BY <2>2
      <3> QED  BY <1>4, <3>1, <3>2 DEF Slots
    <2>4. CASE l = 0
      <3>1. start' = s /\ end' = s /\ s \in 0 .. m
        BY <1>2, <2>1, <2>2, <2>4
      <3> QED  BY <1>0, <1>3, <1>4, <2>2, <2>3, <2>4, <3>1 DEF HoldsItems, Holds, Wrapped
    <2>5. CASE l # 0
      <3>1. start' = 0 /\ end' = l
        BY <1>2, <2>2, <2>5
      <3>2. ASSUME NEW i \in 1 .. l PROVE q[i] = data'[Wrapped(m + 1, 0 + i - 1)]
        <4>1. PICK j \in 0 .. m : j = i - 1 /\ Wrapped(m + 1, 0 + i - 1) = j /\ j < l
          <5>1. i - 1 \in 0 .. m /\ 0 + i - 1 = i - 1 /\ i - 1 < l /\ i - 1 < m + 1
            BY <1>2, <1>4, <2>1
          <5> QED  BY <5>1 DEF Wrapped
        <4>2. q[i] = data[Wrapped(n, s + j)]
          <5>1. s + i - 1 = s + j
            BY <1>2, <4>1
          <5> QED  BY <1>3, <5>1
        <4>3. CASE s < e
          <5>1. j < e - s /\ Wrapped(n, s + j) = s + j /\ ~(s > e) /\ s \in Nat /\ e \in Nat
            BY <1>2, <4>1, <4>3 DEF Wrapped
          <5>2. data'[j] = data[s + j]
            BY <2>2, <4>3, <5>1
          <5> QED  BY <4>1, <4>2, <5>1, <5>2
        <4>4. CASE s > e /\ j < n - s
          <5>1. Wrapped(n, s + j) = s + j /\ ~(s < e) /\ s \in Nat /\ e \in Nat /\ n \in Nat
            BY <1>2, <4>1, <4>4 DEF Wrapped
          <5>2. data'[j] = data[s + j]
            BY <2>2, <4>1, <4>4, <5>1
          <5> QED  BY <4>1, <4>2, <5>1, <5>2
        <4>5. CASE s > e /\ ~(j < n - s)
          <5>1. Wrapped(n, s + j) = j - (n - s) /\ ~(s < e) /\ j >= n - s
            BY <1>2, <4>1, <4>5 DEF Wrapped
          <5>2. data'[j] = data[j - (n - s)]
            BY <2>2, <4>1, <4>5, <5>1
          <5> QED  BY <4>1, <4>2, <5>1, <5>2
        <4>6. s # e
          BY <1>2, <2>5
        <4> QED  BY <1>2, <4>3, <4>4, <4>5, <4>6
      <3>3. l < m + 1 /\ l = Wrapped(m + 1, 0 + l) /\ 0 \in 0 .. m
        BY <1>2, <1>4, <2>1 DEF Wrapped
      <3>4. Holds(m + 1, 0, l, data', q)
        <4>1. m + 1 > 0 /\ 0 \in 0 .. (m + 1) - 1 /\ DOMAIN data' = 0 .. (m + 1) - 1
          BY <1>4, <2>3
        <4> QED  BY <1>0, <1>3, <2>3, <3>2, <3>3, <4>1 DEF Holds
      <3> QED  BY <2>2, <2>3, <3>1, <3>4 DEF HoldsItems
    <2> QED  BY <2>4, <2>5
  <1> QED  BY <1>5, <1>6, <1>7

LEMMA RingStepKeeps == HoldsItems /\ [RingNext]_ringVars => HoldsItems'
  <1> SUFFICES ASSUME HoldsItems, [RingNext]_ringVars PROVE HoldsItems'
    OBVIOUS
  <1>1. CASE UNCHANGED ringVars
    BY <1>1 DEF ringVars, HoldsItems, Slots
  <1>2. ASSUME ~overrun, NEW v \in Items, TryPush(v) \/ SafetyPush(v), ~UNCHANGED ringVars
        PROVE  HoldsItems'
    BY <1>2, PutKeeps DEF TryPush, SafetyPush
  <1>3. ASSUME ~overrun, TryPop \/ SafetyPop, ~UNCHANGED ringVars PROVE HoldsItems'
    BY <1>3, TakeKeeps DEF TryPop, SafetyPop
  <1>4. ASSUME ~overrun, NEW m \in 0 .. MaxCapacity, Resize(m) PROVE HoldsItems'
    BY <1>4, ResizeKeeps
  <1> QED  BY <1>1, <1>2, <1>3, <1>4 DEF RingNext

LEMMA HoldsItemsIsQueue == HoldsItems => RingIsQueue
  <1> SUFFICES ASSUME HoldsItems, ~overrun
               PROVE  /\ RingSize = Len(items) /\ Len(items) <= Capacity
                      /\ (IsEmpty <=> items = <<>>)
                      /\ (IsFill <=> Len(items) = Capacity)
                      /\ \A i \in 1 .. Len(items) : items[i] = data[(start + i - 1) % Slots]
    BY DEF RingIsQueue
  <1>0. PICK n, s, e, q, l : n = Slots /\ s = start /\ e = end /\ q = items /\ l = Len(q)
    OBVIOUS
  <1>1. Holds(n, s, e, data, q)
    BY <1>0 DEF HoldsItems
  <1>2. /\ n \in Nat /\ n > 0 /\ s \in 0 .. n - 1 /\ e \in 0 .. n - 1 /\ l \in 0 .. n - 1
        /\ ((e + 1) % n = s <=> l = n - 1)
        /\ (s = e <=> l = 0) /\ (e + n - s) % n = l
    BY <1>0, <1>1, HoldsFacts
  <1>3. RingSize = l /\ l <= Capacity /\ (IsFill <=> l = Capacity)
    BY <1>0, <1>2 DEF RingSize, Capacity, IsFill
  <1>4. q \in Seq(Items) /\ (l = 0 <=> q = <<>>)
    BY <1>0, <1>1 DEF Holds
  <1>5. ASSUME NEW i \in 1 .. l PROVE q[i] = data[(s + i - 1) % n]
    <2>1. s + i - 1 \in 0 .. n + n - 1
      BY <1>2
    <2>2. (s + i - 1) % n = Wrapped(n, s + i - 1)
      BY <1>2, <2>1, Wraps
    <2> QED  BY <1>0, <1>1, <2>2 DEF Holds
  <1> QED  BY <1>0, <1>2, <1>3, <1>4, <1>5 DEF IsEmpty

(* A Channel's buffer is the queue of what was put into it and not taken,  *)
(* for every capacity, wherever its indices wrap and whatever it is resized*)
(* to, until a resize leaves an index outside (ring_buffer.hpp:59-138).    *)
THEOREM RingsQueue == RingSpec => []RingIsQueue
  <1> QED  BY RingInitHolds, RingStepKeeps, HoldsItemsIsQueue, PTL DEF RingSpec

(***************************************************************************)
(* What is proved of Coroutine for every number of frames and Tasks: every *)
(* frame that exists has one owner.                                        *)
(*                                                                         *)
(* The invariant says where each owner is: a Task in a frame that exists,  *)
(* and, once its coroutine is started, in the frame that awaits it.  That  *)
(* no two Tasks own the same frame, and that whoever is suspended owns the *)
(* frame that names him, is what every move, assignment and destruction    *)
(* must preserve; destruction, of all that is inside a frame, is taken     *)
(* once (Destroys) and every action that destroys is reduced to it.        *)
(***************************************************************************)
(* The frames and Tasks as a state of their own, so that a step can be     *)
(* taken apart: fr, ca, th, pl and de stand for frame, caller, taskHandle, *)
(* place and detached.                                                     *)
Going    == {"queued", "running", "suspended"}
Ended    == {"final", "freed"}
Statuses == {"none", "created", "awaiting"} \cup Going \cup Ended

Exists(fr, f) == fr[f] \notin {"none", "freed"}

FrameTypes(fr, ca, th, pl, de) ==
  /\ fr \in [Frames -> Statuses] /\ ca \in [Frames -> Frames \cup {NoFrame}]
  /\ th \in [Tasks -> Frames \cup {NoFrame}] /\ pl \in [Tasks -> Frames \cup {NoFrame, Outside}]
  /\ de \subseteq Frames

(* A Task that owns a frame is somewhere, alone, and owns one that exists. *)
TaskOwns(fr, th, pl, de) ==
  \A t \in Tasks :
    /\ th[t] # NoFrame => pl[t] # NoFrame /\ Exists(fr, th[t]) /\ th[t] \notin de
    /\ \A u \in Tasks : th[t] # NoFrame /\ th[u] = th[t] => u = t
    /\ pl[t] \in Frames => Exists(fr, pl[t])

(* A frame that exists has an owner.                                       *)
HasOwner(fr, ca, th, de) ==
  \A f \in Frames :
    /\ Exists(fr, f) => f \in de \/ \E t \in Tasks : th[t] = f
    /\ f \in de => Exists(fr, f) /\ fr[f] \notin {"created", "final"} /\ ca[f] = NoFrame

(* An owned frame is not started, has ended or is awaited where its owner  *)
(* is; and who is named as a caller is suspended.                          *)
Awaited(fr, ca, th, pl) ==
  /\ \A t \in Tasks :
       th[t] # NoFrame /\ fr[th[t]] \notin {"created", "final"} =>
         pl[t] \in Frames /\ fr[pl[t]] = "awaiting" /\ ca[th[t]] = pl[t]
  /\ \A f \in Frames :
       /\ fr[f] \in {"none", "created"} => ca[f] = NoFrame
       /\ ca[f] # NoFrame /\ fr[f] \notin Ended => fr[ca[f]] = "awaiting"

Callee(fr, ca, th, f, t) ==
  /\ th[t] # NoFrame
  /\ \A g \in Frames : (ca[g] = f /\ fr[g] \notin Ended) <=> g = th[t]

(* A suspended caller has exactly one callee, and owns it.                 *)
Awaits(fr, ca, th, pl) ==
  \A f \in Frames : fr[f] = "awaiting" =>
    \E t \in Tasks : pl[t] = f /\ Callee(fr, ca, th, f, t)

Owned(fr, ca, th, pl, de) ==
  /\ FrameTypes(fr, ca, th, pl, de) /\ TaskOwns(fr, th, pl, de) /\ HasOwner(fr, ca, th, de)
  /\ Awaited(fr, ca, th, pl) /\ Awaits(fr, ca, th, pl)

FrameInv == Owned(frame, caller, taskHandle, place, detached)

(* What is in a coroutine that is not suspended in co_await.               *)
NotAwaiting(fr, q) == q \in Frames => fr[q] # "awaiting"

-----------------------------------------------------------------------------
LEMMA DoomedFacts ==
  ASSUME NEW F, F \subseteq Frames \cup {NoFrame},
         taskHandle \in [Tasks -> Frames \cup {NoFrame}]
  PROVE  /\ Doomed(F) \subseteq Frames /\ F \subseteq Doomed(F) \cup {NoFrame}
         /\ Closed(Doomed(F))
         /\ \A d \in Doomed(F) : d \in F \/ \E t \in Tasks : place[t] \in Doomed(F)
             /\ taskHandle[t] = d
  <1> USE FramesAssumption
  <1>1. PICK D : D = Doomed(F)
    OBVIOUS
  <1>2. D = {f \in Frames : \A S \in SUBSET Frames : Closed(S)
          /\ F \subseteq S \cup {NoFrame} => f \in S}
    BY <1>1 DEF Doomed
  <1>3. D \subseteq Frames /\ F \subseteq D \cup {NoFrame}
    BY <1>2
  <1>4. Closed(D)
    <2> SUFFICES ASSUME NEW t \in Tasks, place[t] \in D, taskHandle[t] # NoFrame
                 PROVE  taskHandle[t] \in D
      BY DEF Closed
    <2>1. ASSUME NEW S \in SUBSET Frames, Closed(S), F \subseteq S \cup {NoFrame}
          PROVE  taskHandle[t] \in S
      <3>1. place[t] \in S
        BY <1>2, <2>1
      <3> QED  BY <2>1, <3>1 DEF Closed
    <2> QED  BY <1>2, <2>1
  <1>5. ASSUME NEW d \in D, d \notin F, \A t \in Tasks : place[t] \in D => taskHandle[t] # d
        PROVE  FALSE
    <2> DEFINE S == D \ {d}
    <2>1. S \in SUBSET Frames /\ F \subseteq S \cup {NoFrame}
      BY <1>3, <1>5
    <2>2. Closed(S)
      BY <1>4, <1>5 DEF Closed
    <2>3. d \in S
      BY <1>2, <2>1, <2>2
    <2> QED  BY <2>3
  <1> QED  BY <1>1, <1>3, <1>4, <1>5

(* Frames and Tasks are destroyed: those of F, which owned themselves,     *)
(* those that the Tasks in T own, and all that is inside them.  T's Tasks  *)
(* in P go as well.                                                        *)
Destruction(F, T, P, fr, fr2, th2, pl2) ==
  LET D == Doomed(F \cup {taskHandle[t] : t \in T})
  IN  /\ F \subseteq detached /\ T \subseteq Tasks /\ P \subseteq T
      /\ \A t \in T : NotAwaiting(fr, place[t])
      /\ fr2 = [f \in Frames |-> IF f \in D THEN "freed" ELSE fr[f]]
      /\ th2 = [t \in Tasks |-> IF t \in T \/ place[t] \in D THEN NoFrame ELSE taskHandle[t]]
      /\ pl2 = [t \in Tasks |-> IF t \in P \/ place[t] \in D THEN NoFrame ELSE place[t]]

LEMMA Destroys ==
  ASSUME NEW fr, Owned(fr, caller, taskHandle, place, detached),
         NEW F, NEW T, NEW P, NEW fr2, NEW th2, NEW pl2,
         Destruction(F, T, P, fr, fr2, th2, pl2)
  PROVE  Owned(fr2, caller, th2, pl2, detached \ F)
  <1> USE FramesAssumption
  <1> DEFINE th == taskHandle
             pl == place
             ca == caller
             de == detached
  <1>11. PICK D : D = Doomed(F \cup {taskHandle[t] : t \in T})
    OBVIOUS
  <1>12. /\ F \subseteq detached /\ T \subseteq Tasks /\ P \subseteq T
         /\ \A t \in T : NotAwaiting(fr, place[t])
         /\ fr2 = [f \in Frames |-> IF f \in D THEN "freed" ELSE fr[f]]
         /\ th2 = [t \in Tasks |-> IF t \in T \/ place[t] \in D THEN NoFrame ELSE taskHandle[t]]
         /\ pl2 = [t \in Tasks |-> IF t \in P \/ place[t] \in D THEN NoFrame ELSE place[t]]
    BY <1>11 DEF Destruction
  <1>0. /\ fr \in [Frames -> Statuses] /\ ca \in [Frames -> Frames \cup {NoFrame}]
        /\ th \in [Tasks -> Frames \cup {NoFrame}]
        /\ pl \in [Tasks -> Frames \cup {NoFrame, Outside}] /\ de \subseteq Frames
    BY DEF Owned, FrameTypes
  <1>1. /\ D \subseteq Frames /\ \A f \in F : f \in D
        /\ \A t \in T : th[t] # NoFrame => th[t] \in D
        /\ \A t \in Tasks : pl[t] \in D /\ th[t] # NoFrame => th[t] \in D
        /\ \A d \in D : \/ d \in F
                        \/ \E t \in T : th[t] = d
                        \/ \E t \in Tasks : pl[t] \in D /\ th[t] = d
    <2> DEFINE R == F \cup {taskHandle[t] : t \in T}
    <2>1. R \subseteq Frames \cup {NoFrame}
      BY <1>0, <1>12
    <2>2. /\ Doomed(R) \subseteq Frames /\ R \subseteq Doomed(R) \cup {NoFrame}
            /\ Closed(Doomed(R))
          /\ \A d \in Doomed(R) : d \in R \/ \E t \in Tasks : place[t] \in Doomed(R)
              /\ taskHandle[t] = d
      BY <1>0, <2>1, DoomedFacts
    <2>3. D = Doomed(R)
      BY <1>11
    <2>4. /\ D \subseteq Frames /\ R \subseteq D \cup {NoFrame} /\ Closed(D)
          /\ \A d \in D : d \in R \/ \E t \in Tasks : place[t] \in D /\ taskHandle[t] = d
      BY <2>2, <2>3
    <2>5. NoFrame \notin F
      BY <1>0, <1>12
    <2> QED  BY <2>4, <2>5 DEF Closed
  <1>2. ASSUME NEW t \in Tasks, th[t] \in D PROVE t \in T \/ pl[t] \in D
    <2>1. th[t] # NoFrame /\ th[t] \notin de
      BY <1>12, <1>0, <1>1, <1>2 DEF Owned, TaskOwns
    <2>2. \A u \in Tasks : th[u] = th[t] => u = t
      BY <1>12, <2>1 DEF Owned, TaskOwns
    <2> QED  BY <1>12, <1>1, <1>2, <2>1, <2>2
  <1>3. ASSUME NEW t \in Tasks, th2[t] # NoFrame
        PROVE  /\ t \notin T /\ pl[t] \notin D /\ th2[t] = th[t] /\ pl2[t] = pl[t]
               /\ th[t] \in Frames /\ th[t] \notin D
    <2>1. t \notin T /\ pl[t] \notin D /\ th2[t] = th[t] /\ pl2[t] = pl[t]
      BY <1>12, <1>3
    <2>2. th[t] \in Frames
      BY <1>12, <1>0, <1>3, <2>1
    <2> QED  BY <1>12, <1>2, <2>1, <2>2
  <1>4. ASSUME NEW t \in Tasks, th[t] \in Frames, th[t] \notin D
        PROVE  th2[t] = th[t] /\ pl2[t] = pl[t] /\ pl[t] \notin D
    <2>1. t \notin T /\ pl[t] \notin D
      BY <1>12, <1>1, <1>4
    <2> QED  BY <1>12, <2>1
  <1>5. FrameTypes(fr2, ca, th2, pl2, de \ F)
    BY <1>12, <1>0 DEF FrameTypes, Statuses, Ended
  <1>6. TaskOwns(fr2, th2, pl2, de \ F)
    <2> SUFFICES ASSUME NEW t \in Tasks
                 PROVE  /\ th2[t] # NoFrame =>
                             pl2[t] # NoFrame /\ Exists(fr2, th2[t]) /\ th2[t] \notin de \ F
                        /\ \A u \in Tasks : th2[t] # NoFrame /\ th2[u] = th2[t] => u = t
                        /\ pl2[t] \in Frames => Exists(fr2, pl2[t])
      BY <1>12 DEF TaskOwns
    <2>1. th2[t] # NoFrame => pl2[t] # NoFrame /\ Exists(fr2, th2[t]) /\ th2[t] \notin de \ F
      BY <1>12, <1>3 DEF Owned, TaskOwns, Exists
    <2>2. ASSUME NEW u \in Tasks, th2[t] # NoFrame, th2[u] = th2[t] PROVE u = t
      <3>1. th2[t] = th[t] /\ th2[u] = th[u]
        BY <1>12, <1>3, <2>2
      <3> QED  BY <1>12, <2>2, <3>1 DEF Owned, TaskOwns
    <2>3. ASSUME pl2[t] \in Frames PROVE Exists(fr2, pl2[t])
      <3>1. pl2[t] = pl[t] /\ pl[t] \notin D
        BY <1>12, <2>3
      <3> QED  BY <1>12, <2>3, <3>1 DEF Owned, TaskOwns, Exists
    <2> QED  BY <1>12, <2>1, <2>2, <2>3
  <1>7. HasOwner(fr2, ca, th2, de \ F)
    <2> SUFFICES ASSUME NEW f \in Frames
                 PROVE  /\ Exists(fr2, f) => f \in de \ F \/ \E t \in Tasks : th2[t] = f
                        /\ f \in de \ F => /\ Exists(fr2, f)
                            /\ fr2[f] \notin {"created", "final"}
                                          /\ ca[f] = NoFrame
      BY <1>12 DEF HasOwner
    <2>1. ASSUME Exists(fr2, f) PROVE f \in de \ F \/ \E t \in Tasks : th2[t] = f
      <3>1. f \notin D /\ Exists(fr, f)
        BY <1>12, <2>1 DEF Exists
      <3>2. f \in de \/ \E t \in Tasks : th[t] = f
        BY <1>12, <3>1 DEF Owned, HasOwner
      <3> QED  BY <1>12, <1>1, <1>4, <3>1, <3>2
    <2>2. ASSUME f \in de \ F
          PROVE  Exists(fr2, f) /\ fr2[f] \notin {"created", "final"} /\ ca[f] = NoFrame
      <3>1. Exists(fr, f) /\ fr[f] \notin {"created", "final"} /\ ca[f] = NoFrame
        BY <1>12, <2>2 DEF Owned, HasOwner
      <3>2. f \notin D
        BY <1>12, <1>1, <2>2 DEF Owned, TaskOwns
      <3> QED  BY <1>12, <3>1, <3>2 DEF Exists
    <2> QED  BY <1>12, <2>1, <2>2
  <1>8. ASSUME NEW f \in Frames, ca[f] # NoFrame, fr[f] \notin Ended, f \notin D
        PROVE  ca[f] \in Frames /\ fr[ca[f]] = "awaiting" /\ ca[f] \notin D
    <2>1. fr[f] \notin {"none", "created"} /\ fr[ca[f]] = "awaiting" /\ ca[f] \in Frames
      BY <1>12, <1>0, <1>8 DEF Owned, Awaited
    <2>2. Exists(fr, f) /\ f \notin de
      BY <1>12, <1>8, <2>1 DEF Owned, HasOwner, Exists, Ended
    <2>3. PICK t \in Tasks : th[t] = f
      BY <1>12, <2>2 DEF Owned, HasOwner
    <2>4. ca[f] = pl[t]
      BY <1>12, <1>8, <2>1, <2>3 DEF Owned, Awaited, Ended
    <2> QED  BY <1>12, <1>1, <1>8, <2>1, <2>3, <2>4
  <1>9. Awaited(fr2, ca, th2, pl2)
    <2>1. ASSUME NEW t \in Tasks, th2[t] # NoFrame, fr2[th2[t]] \notin {"created", "final"}
          PROVE  pl2[t] \in Frames /\ fr2[pl2[t]] = "awaiting" /\ ca[th2[t]] = pl2[t]
      <3>1. /\ th2[t] = th[t] /\ pl2[t] = pl[t] /\ th[t] \in Frames
            /\ th[t] \notin D /\ pl[t] \notin D /\ fr2[th[t]] = fr[th[t]]
        BY <1>12, <1>3, <2>1
      <3>2. pl[t] \in Frames /\ fr[pl[t]] = "awaiting" /\ ca[th[t]] = pl[t]
        BY <1>12, <2>1, <3>1 DEF Owned, Awaited
      <3> QED  BY <1>12, <3>1, <3>2
    <2>2. ASSUME NEW f \in Frames, fr2[f] \in {"none", "created"} PROVE ca[f] = NoFrame
      BY <1>12, <2>2 DEF Owned, Awaited
    <2>3. ASSUME NEW f \in Frames, ca[f] # NoFrame, fr2[f] \notin Ended
          PROVE  fr2[ca[f]] = "awaiting"
      <3>1. f \notin D /\ fr[f] \notin Ended
        BY <1>12, <2>3 DEF Ended
      <3> QED  BY <1>12, <1>8, <2>3, <3>1
    <2> QED  BY <1>12, <2>1, <2>2, <2>3 DEF Awaited
  <1>10. Awaits(fr2, ca, th2, pl2)
    <2> SUFFICES ASSUME NEW f \in Frames, fr2[f] = "awaiting"
                 PROVE  \E t \in Tasks : pl2[t] = f /\ Callee(fr2, ca, th2, f, t)
      BY <1>12 DEF Awaits
    <2>1. f \notin D /\ fr[f] = "awaiting"
      BY <1>12
    <2>2. PICK t \in Tasks : pl[t] = f /\ Callee(fr, ca, th, f, t)
      BY <1>12, <2>1 DEF Owned, Awaits
    <2>3. t \notin T /\ pl[t] \notin D
      BY <1>12, <2>1, <2>2 DEF NotAwaiting
    <2>4. /\ pl2[t] = f /\ th2[t] = th[t] /\ th[t] # NoFrame
      BY <1>12, <2>2, <2>3 DEF Callee
    <2>5. th[t] \notin D
      BY <1>12, <1>2, <2>3
    <2>6. \A g \in Frames : (ca[g] = f /\ fr2[g] \notin Ended) <=> g = th[t]
      <3>1. \A g \in Frames : (ca[g] = f /\ fr[g] \notin Ended) <=> g = th[t]
        BY <1>12, <2>2 DEF Callee
      <3>2. \A g \in Frames : fr2[g] \notin Ended <=> (fr[g] \notin Ended /\ g \notin D)
        BY <1>12 DEF Ended
      <3> QED  BY <1>12, <2>5, <3>1, <3>2
    <2> QED  BY <1>12, <2>4, <2>6 DEF Callee
  <1> QED  BY <1>12, <1>5, <1>6, <1>7, <1>9, <1>10 DEF Owned

(* What the Task t owns is moved to u, which owns nothing and is put in q. *)
LEMMA Moves ==
  ASSUME NEW fr, NEW ca, NEW th, NEW pl, NEW de, Owned(fr, ca, th, pl, de),
         NEW t \in Tasks, NEW u \in Tasks, t # u, th[u] = NoFrame, NotAwaiting(fr, pl[t]),
         NEW q \in Frames \cup {Outside}, q \in Frames => Exists(fr, q)
  PROVE  Owned(fr, ca, [th EXCEPT ![u] = th[t], ![t] = NoFrame], [pl EXCEPT ![u] = q], de)
  <1> USE FramesAssumption
  <1>1. PICK th2 : th2 = [th EXCEPT ![u] = th[t], ![t] = NoFrame]
    OBVIOUS
  <1>2. PICK pl2 : pl2 = [pl EXCEPT ![u] = q]
    OBVIOUS
  <1>3. /\ fr \in [Frames -> Statuses] /\ ca \in [Frames -> Frames \cup {NoFrame}]
        /\ th \in [Tasks -> Frames \cup {NoFrame}]
        /\ pl \in [Tasks -> Frames \cup {NoFrame, Outside}] /\ de \subseteq Frames
    BY DEF Owned, FrameTypes
  <1>4. /\ th2[u] = th[t] /\ th2[t] = NoFrame /\ pl2[u] = q
        /\ \A s \in Tasks \ {t, u} : th2[s] = th[s] /\ pl2[s] = pl[s]
        /\ pl2[t] = pl[t]
    BY <1>1, <1>2, <1>3
  <1>5. FrameTypes(fr, ca, th2, pl2, de)
    BY <1>1, <1>2, <1>3 DEF FrameTypes
  <1>6. TaskOwns(fr, th2, pl2, de)
    <2>1. ASSUME NEW s \in Tasks, th2[s] # NoFrame
          PROVE  pl2[s] # NoFrame /\ Exists(fr, th2[s]) /\ th2[s] \notin de
      BY <1>4, <2>1 DEF Owned, TaskOwns
    <2>2. ASSUME NEW s \in Tasks, NEW r \in Tasks, th2[s] # NoFrame, th2[r] = th2[s]
          PROVE  r = s
      BY <1>4, <2>2 DEF Owned, TaskOwns
    <2>3. ASSUME NEW s \in Tasks, pl2[s] \in Frames PROVE Exists(fr, pl2[s])
      BY <1>4, <2>3 DEF Owned, TaskOwns
    <2> QED  BY <2>1, <2>2, <2>3 DEF TaskOwns
  <1>7. HasOwner(fr, ca, th2, de)
    <2>1. ASSUME NEW f \in Frames, Exists(fr, f), f \notin de PROVE \E s \in Tasks : th2[s] = f
      <3>1. PICK s \in Tasks : th[s] = f
        BY <2>1 DEF Owned, HasOwner
      <3> QED  BY <1>4, <3>1
    <2> QED  BY <2>1 DEF Owned, HasOwner
  <1>8. Awaited(fr, ca, th2, pl2)
    <2>1. ASSUME NEW s \in Tasks, th2[s] # NoFrame, fr[th2[s]] \notin {"created", "final"}
          PROVE  pl2[s] \in Frames /\ fr[pl2[s]] = "awaiting" /\ ca[th2[s]] = pl2[s]
      <3>1. CASE s = u
        BY <1>4, <2>1, <3>1 DEF Owned, Awaited, NotAwaiting
      <3>2. CASE s # u
        BY <1>4, <2>1, <3>2 DEF Owned, Awaited
      <3> QED  BY <3>1, <3>2
    <2> QED  BY <2>1 DEF Owned, Awaited
  <1>9. Awaits(fr, ca, th2, pl2)
    <2> SUFFICES ASSUME NEW f \in Frames, fr[f] = "awaiting"
                 PROVE  \E s \in Tasks : pl2[s] = f /\ Callee(fr, ca, th2, f, s)
      BY DEF Awaits
    <2>1. PICK s \in Tasks : pl[s] = f /\ Callee(fr, ca, th, f, s)
      BY DEF Owned, Awaits
    <2>2. s # t /\ s # u
      BY <2>1 DEF NotAwaiting, Callee
    <2> QED  BY <1>4, <2>1, <2>2 DEF Callee
  <1> QED  BY <1>1, <1>2, <1>5, <1>6, <1>7, <1>8, <1>9 DEF Owned

-----------------------------------------------------------------------------
(* Where the code runs nobody is suspended.                                *)
LEMMA RunsThere ==
  ASSUME FrameInv, NEW p \in Frames \cup {Outside}, Runs(p)
  PROVE  NotAwaiting(frame, p) /\ (p \in Frames => Exists(frame, p) /\ frame[p] = "running")
  BY FramesAssumption DEF Runs, NotAwaiting, Exists

LEMMA CallOwned ==
  ASSUME FrameInv, NEW p \in Frames \cup {Outside}, NEW t \in Tasks, Call(p, t)
  PROVE  FrameInv'
  <1> USE FramesAssumption
  <1> DEFINE th == taskHandle
             pl == place
  <1>1. PICK f \in Frames :
          /\ frame[f] = "none" /\ frame' = [frame EXCEPT ![f] = "created"]
          /\ taskHandle' = [taskHandle EXCEPT ![t] = f] /\ place' = [place EXCEPT ![t] = p]
          /\ pl[t] = NoFrame /\ UNCHANGED <<caller, detached>>
    BY DEF Call, NewFrame, NewTask
  <1>2. /\ frame \in [Frames -> Statuses] /\ caller \in [Frames -> Frames \cup {NoFrame}]
        /\ th \in [Tasks -> Frames \cup {NoFrame}]
        /\ pl \in [Tasks -> Frames \cup {NoFrame, Outside}] /\ detached \subseteq Frames
    BY DEF FrameInv, Owned, FrameTypes
  <1>3. /\ th[t] = NoFrame /\ f \notin detached /\ \A s \in Tasks : th[s] # f /\ pl[s] # f
        /\ caller[f] = NoFrame
    BY <1>1, <1>2 DEF FrameInv, Owned, TaskOwns, HasOwner, Awaited, Exists
  <1>4. /\ frame'[f] = "created" /\ \A g \in Frames \ {f} : frame'[g] = frame[g]
        /\ th'[t] = f /\ pl'[t] = p
        /\ \A s \in Tasks \ {t} : th'[s] = th[s] /\ pl'[s] = pl[s]
        /\ caller' = caller /\ detached' = detached
    BY <1>1, <1>2
  <1>5. NotAwaiting(frame, p) /\ (p \in Frames => Exists(frame, p) /\ frame[p] = "running")
    BY RunsThere DEF Call
  <1>6. FrameTypes(frame', caller', taskHandle', place', detached')
    BY <1>1, <1>2 DEF FrameTypes, Statuses
  <1>7. TaskOwns(frame', taskHandle', place', detached')
    <2>1. ASSUME NEW s \in Tasks, th'[s] # NoFrame
          PROVE  pl'[s] # NoFrame /\ Exists(frame', th'[s]) /\ th'[s] \notin detached'
      <3>1. CASE s = t
        BY <1>3, <1>4, <3>1 DEF Exists
      <3>2. CASE s # t
        BY <1>2, <1>3, <1>4, <2>1, <3>2 DEF FrameInv, Owned, TaskOwns, Exists
      <3> QED  BY <3>1, <3>2
    <2>2. ASSUME NEW s \in Tasks, NEW r \in Tasks, th'[s] # NoFrame, th'[r] = th'[s]
          PROVE  r = s
      BY <1>3, <1>4, <2>2 DEF FrameInv, Owned, TaskOwns
    <2>3. ASSUME NEW s \in Tasks, pl'[s] \in Frames PROVE Exists(frame', pl'[s])
      <3>1. CASE s = t
        BY <1>4, <1>5, <2>3, <3>1 DEF Exists
      <3>2. CASE s # t
        BY <1>3, <1>4, <2>3, <3>2 DEF FrameInv, Owned, TaskOwns, Exists
      <3> QED  BY <3>1, <3>2
    <2> QED  BY <2>1, <2>2, <2>3 DEF TaskOwns
  <1>8. HasOwner(frame', caller', taskHandle', detached')
    <2>1. ASSUME NEW g \in Frames, Exists(frame', g), g \notin detached'
          PROVE  \E s \in Tasks : th'[s] = g
      <3>1. CASE g = f
        BY <1>4, <3>1
      <3>2. CASE g # f
        <4>1. PICK s \in Tasks : th[s] = g
          BY <1>4, <2>1, <3>2 DEF FrameInv, Owned, HasOwner, Exists
        <4> QED  BY <1>3, <1>4, <4>1
      <3> QED  BY <3>1, <3>2
    <2>2. ASSUME NEW g \in detached'
          PROVE  Exists(frame', g) /\ frame'[g] \notin {"created", "final"}
              /\ caller'[g] = NoFrame
      BY <1>2, <1>3, <1>4, <2>2 DEF FrameInv, Owned, HasOwner, Exists
    <2> QED  BY <2>1, <2>2 DEF HasOwner
  <1>9. Awaited(frame', caller', taskHandle', place')
    <2>1. ASSUME NEW s \in Tasks, th'[s] # NoFrame, frame'[th'[s]] \notin {"created", "final"}
          PROVE  /\ pl'[s] \in Frames /\ frame'[pl'[s]] = "awaiting"
                 /\ caller'[th'[s]] = pl'[s]
      <3>1. s # t /\ th[s] \in Frames \ {f}
        BY <1>2, <1>3, <1>4, <2>1
      <3> QED  BY <1>3, <1>4, <2>1, <3>1 DEF FrameInv, Owned, Awaited
    <2>2. ASSUME NEW g \in Frames, frame'[g] \in {"none", "created"} PROVE caller'[g] = NoFrame
      BY <1>3, <1>4, <2>2 DEF FrameInv, Owned, Awaited
    <2>3. ASSUME NEW g \in Frames, caller'[g] # NoFrame, frame'[g] \notin Ended
          PROVE  frame'[caller'[g]] = "awaiting"
      <3>1. g # f /\ frame[caller[g]] = "awaiting" /\ caller[g] \in Frames
        BY <1>2, <1>3, <1>4, <2>3 DEF FrameInv, Owned, Awaited
      <3> QED  BY <1>1, <1>4, <3>1
    <2> QED  BY <2>1, <2>2, <2>3 DEF Awaited
  <1>10. Awaits(frame', caller', taskHandle', place')
    <2> SUFFICES ASSUME NEW g \in Frames, frame'[g] = "awaiting"
                 PROVE  \E s \in Tasks : pl'[s] = g /\ Callee(frame', caller', th', g, s)
      BY DEF Awaits
    <2>1. g # f /\ frame[g] = "awaiting"
      BY <1>4
    <2>2. PICK s \in Tasks : pl[s] = g /\ Callee(frame, caller, th, g, s)
      BY <2>1 DEF FrameInv, Owned, Awaits
    <2>3. s # t
      BY <1>3, <2>2 DEF Callee
    <2>4. \A x \in Frames : (caller'[x] = g /\ frame'[x] \notin Ended)
                            <=> (caller[x] = g /\ frame[x] \notin Ended)
      BY <1>3, <1>4
    <2> QED  BY <1>4, <2>2, <2>3, <2>4 DEF Callee
  <1> QED  BY <1>6, <1>7, <1>8, <1>9, <1>10 DEF FrameInv, Owned

LEMMA MoveNewOwned ==
  ASSUME FrameInv, NEW p \in Frames \cup {Outside}, NEW t \in Tasks, NEW u \in Tasks,
         MoveNew(p, t, u)
  PROVE  FrameInv'
  <1> USE FramesAssumption
  <1>1. PICK q \in {p} \cup {f \in Frames : frame[f] = "created"} :
          place' = [place EXCEPT ![u] = q]
    BY DEF MoveNew
  <1>2. /\ Runs(p) /\ place[t] = p /\ place[u] = NoFrame
        /\ taskHandle' = [taskHandle EXCEPT ![u] = taskHandle[t], ![t] = NoFrame]
        /\ UNCHANGED <<frame, caller, detached>>
    BY DEF MoveNew, In, NewTask
  <1>3. NotAwaiting(frame, p) /\ (p \in Frames => Exists(frame, p))
    BY <1>2, RunsThere
  <1>4. q \in Frames \cup {Outside} /\ (q \in Frames => Exists(frame, q))
    BY <1>1, <1>3 DEF Exists
  <1>5. taskHandle[u] = NoFrame /\ t # u
    BY <1>2 DEF FrameInv, Owned, TaskOwns
  <1>6. Owned(frame, caller, [taskHandle EXCEPT ![u] = taskHandle[t], ![t] = NoFrame],
              [place EXCEPT ![u] = q], detached)
    BY <1>2, <1>3, <1>4, <1>5, Moves DEF FrameInv
  <1> QED  BY <1>1, <1>2, <1>6 DEF FrameInv

LEMMA MoveAssignOwned ==
  ASSUME FrameInv, NEW p \in Frames \cup {Outside}, NEW t \in Tasks, NEW u \in Tasks,
         MoveAssign(p, t, u)
  PROVE  FrameInv'
  <1> USE FramesAssumption
  <1> DEFINE D == Doomed({taskHandle[u]})
             th2 == [o \in Tasks |->
                      IF o \in {u} \/ place[o] \in D THEN NoFrame ELSE taskHandle[o]]
             pl2 == [o \in Tasks |-> IF o \in {} \/ place[o] \in D THEN NoFrame ELSE place[o]]
  <1>1. /\ Runs(p) /\ place[t] = p /\ place[u] = p /\ t # u
        /\ frame' = [f \in Frames |-> IF f \in D THEN "freed" ELSE frame[f]]
        /\ taskHandle' = [o \in Tasks |-> IF place[o] \in D \/ o = t THEN NoFrame
                                       ELSE IF o = u THEN taskHandle[t] ELSE taskHandle[o]]
        /\ place' = pl2 /\ UNCHANGED <<caller, detached>>
    BY DEF MoveAssign, In
  <1>2. NotAwaiting(frame, p) /\ (p \in Frames => Exists(frame, p) /\ frame[p] = "running")
    BY <1>1, RunsThere
  <1>3. taskHandle \in [Tasks -> Frames \cup {NoFrame}]
        /\ place \in [Tasks -> Frames \cup {NoFrame, Outside}]
    BY DEF FrameInv, Owned, FrameTypes
  <1>4. Owned(frame', caller, th2, pl2, detached)
    <2>1. D = Doomed({} \cup {taskHandle[o] : o \in {u}})
      <3>1. {} \cup {taskHandle[o] : o \in {u}} = {taskHandle[u]}
        OBVIOUS
      <3> QED  BY <3>1
    <2>2. Owned(frame, caller, taskHandle, place, detached)
      BY DEF FrameInv
    <2>3. {u} \in SUBSET Tasks /\ {} \subseteq {u} /\ {} \subseteq detached
          /\ \A o \in {u} : NotAwaiting(frame, place[o])
      BY <1>1, <1>2
    <2> HIDE DEF D
    <2>4. Destruction({}, {u}, {}, frame, frame', th2, pl2)
      BY <1>1, <2>1, <2>3 DEF Destruction
    <2> HIDE DEF th2, pl2
    <2>5. Owned(frame', caller, th2, pl2, detached \ {})
      BY <2>2, <2>4, Destroys
    <2>6. detached \ {} = detached
      OBVIOUS
    <2> QED  BY <2>5, <2>6
  <1>5. CASE p \in D
    <2>1. taskHandle' = th2
      BY <1>1, <1>3, <1>5
    <2> QED  BY <1>1, <1>4, <2>1 DEF FrameInv
  <1>6. CASE p \notin D
    <2>1. th2[u] = NoFrame /\ th2[t] = taskHandle[t] /\ pl2[t] = p /\ pl2[u] = p
      BY <1>1, <1>3, <1>6
    <2>2. taskHandle' = [th2 EXCEPT ![u] = th2[t], ![t] = NoFrame]
      BY <1>1, <1>6
    <2>3. pl2 = [pl2 EXCEPT ![u] = p]
      BY <2>1
    <2>4. NotAwaiting(frame', pl2[t]) /\ (p \in Frames => Exists(frame', p))
      BY <1>1, <1>2, <1>6, <2>1 DEF NotAwaiting, Exists
    <2> HIDE DEF th2, pl2, D
    <2>5. Owned(frame', caller, [th2 EXCEPT ![u] = th2[t], ![t] = NoFrame],
            [pl2 EXCEPT ![u] = p],
                detached)
      BY <1>1, <1>4, <2>1, <2>4, Moves
    <2> QED  BY <1>1, <2>2, <2>3, <2>5 DEF FrameInv
  <1> QED  BY <1>5, <1>6

LEMMA DropTaskOwned ==
  ASSUME FrameInv, NEW p \in Frames \cup {Outside}, NEW t \in Tasks, DropTask(p, t)
  PROVE  FrameInv'
  <1> DEFINE D == Doomed({} \cup {taskHandle[o] : o \in {t}})
             fr2 == [f \in Frames |-> IF f \in D THEN "freed" ELSE frame[f]]
             th2 == [o \in Tasks |->
                      IF o \in {t} \/ place[o] \in D THEN NoFrame ELSE taskHandle[o]]
             pl2 == [o \in Tasks |-> IF o \in {t} \/ place[o] \in D THEN NoFrame ELSE place[o]]
  <1>1. /\ Runs(p) /\ place[t] = p /\ UNCHANGED <<caller, detached>>
        /\ frame' = fr2 /\ taskHandle' = th2 /\ place' = pl2
    BY DEF DropTask, DestroyAll, In
  <1>2. NotAwaiting(frame, place[t])
    BY <1>1, RunsThere
  <1>3. Owned(frame, caller, taskHandle, place, detached)
    BY DEF FrameInv
  <1>4. {t} \in SUBSET Tasks /\ {t} \subseteq {t} /\ {} \subseteq detached
        /\ \A o \in {t} : NotAwaiting(frame, place[o])
    BY <1>2
  <1> HIDE DEF D
  <1>5. Destruction({}, {t}, {t}, frame, fr2, th2, pl2)
    BY <1>4 DEF Destruction, D
  <1> HIDE DEF fr2, th2, pl2
  <1>6. Owned(fr2, caller, th2, pl2, detached \ {})
    BY <1>3, <1>5, Destroys
  <1>7. detached \ {} = detached
    OBVIOUS
  <1> QED  BY <1>1, <1>6, <1>7 DEF FrameInv

LEMMA AwaitOwned ==
  ASSUME FrameInv, NEW p \in Frames \cup {Outside}, NEW t \in Tasks, Await(p, t)
  PROVE  FrameInv'
  <1> USE FramesAssumption
  <1>1. CASE UNCHANGED <<frame, caller, taskHandle, place, detached>>
    BY <1>1 DEF FrameInv
  <1>2. CASE ~UNCHANGED <<frame, caller, taskHandle, place, detached>>
    <2> DEFINE th == taskHandle
               pl == place
    <2>1. PICK f : f = th[t]
      OBVIOUS
    <2>2. /\ p \in Frames /\ frame[p] = "running" /\ pl[t] = p
          /\ f # NoFrame /\ frame[f] # "final"
          /\ frame' = [frame EXCEPT ![p] = "awaiting", ![f] = "running"]
          /\ caller' = [caller EXCEPT ![f] = p]
          /\ UNCHANGED <<taskHandle, place, detached>>
      BY <1>2, <2>1 DEF Await, Runs, In
    <2>3. /\ frame \in [Frames -> Statuses] /\ caller \in [Frames -> Frames \cup {NoFrame}]
          /\ th \in [Tasks -> Frames \cup {NoFrame}]
          /\ pl \in [Tasks -> Frames \cup {NoFrame, Outside}] /\ detached \subseteq Frames
      BY DEF FrameInv, Owned, FrameTypes
    <2>4. f \in Frames /\ frame[f] = "created" /\ caller[f] = NoFrame /\ f # p
            /\ f \notin detached
          /\ \A s \in Tasks : th[s] = f => s = t
      <3>1. f \in Frames /\ Exists(frame, f) /\ f \notin detached
        BY <2>1, <2>2, <2>3 DEF FrameInv, Owned, TaskOwns
      <3>2. frame[f] = "created"
        BY <2>1, <2>2, <2>3, <3>1 DEF FrameInv, Owned, Awaited
      <3>3. caller[f] = NoFrame
        BY <3>1, <3>2 DEF FrameInv, Owned, Awaited
      <3>4. \A s \in Tasks : th[s] = f => s = t
        BY <2>1, <2>2 DEF FrameInv, Owned, TaskOwns
      <3> QED  BY <2>2, <3>1, <3>2, <3>3, <3>4
    <2>5. /\ frame'[f] = "running" /\ frame'[p] = "awaiting" /\ caller'[f] = p
          /\ \A g \in Frames \ {f, p} : frame'[g] = frame[g]
          /\ \A g \in Frames \ {f} : caller'[g] = caller[g]
          /\ th' = th /\ pl' = pl /\ detached' = detached
      BY <2>2, <2>3, <2>4
    <2>6. ASSUME NEW g \in Frames PROVE caller[g] = p => frame[g] \in Ended
      BY <2>2 DEF FrameInv, Owned, Awaited
    <2>7. FrameTypes(frame', caller', taskHandle', place', detached')
      BY <2>2, <2>3 DEF FrameTypes, Statuses, Going
    <2>8. \A g \in Frames : Exists(frame', g) <=> Exists(frame, g)
      BY <2>2, <2>4, <2>5 DEF Exists
    <2>9. TaskOwns(frame', taskHandle', place', detached')
      BY <2>3, <2>5, <2>8 DEF FrameInv, Owned, TaskOwns
    <2>10. HasOwner(frame', caller', taskHandle', detached')
      <3>1. ASSUME NEW g \in Frames, Exists(frame', g)
            PROVE  g \in detached' \/ \E s \in Tasks : th'[s] = g
        BY <2>5, <2>8, <3>1 DEF FrameInv, Owned, HasOwner
      <3>2. ASSUME NEW g \in detached'
            PROVE  Exists(frame', g) /\ frame'[g] \notin {"created", "final"}
                /\ caller'[g] = NoFrame
        <4>1. g \in Frames /\ g # f /\ g \in detached
          BY <2>3, <2>4, <2>5
        <4> QED  BY <2>5, <2>8, <4>1 DEF FrameInv, Owned, HasOwner
      <3> QED  BY <3>1, <3>2 DEF HasOwner
    <2>11. Awaited(frame', caller', taskHandle', place')
      <3>1. ASSUME NEW s \in Tasks, th'[s] # NoFrame, frame'[th'[s]] \notin {"created", "final"}
            PROVE  /\ pl'[s] \in Frames /\ frame'[pl'[s]] = "awaiting"
                   /\ caller'[th'[s]] = pl'[s]
        <4>1. CASE s = t
          BY <2>1, <2>2, <2>5, <4>1
        <4>2. CASE s # t /\ th[s] = p
          <5>1. pl[s] \in Frames /\ frame[pl[s]] = "awaiting" /\ caller[p] = pl[s]
            BY <2>2, <4>2 DEF FrameInv, Owned, Awaited
          <5>2. pl[s] # f /\ pl[s] # p
            BY <2>2, <2>4, <5>1
          <5> QED  BY <2>2, <2>4, <2>5, <4>2, <5>1, <5>2
        <4>3. CASE s # t /\ th[s] # p
          <5>1. th[s] \in Frames \ {f, p}
            BY <2>3, <2>4, <2>5, <3>1, <4>3
          <5>2. pl[s] \in Frames /\ frame[pl[s]] = "awaiting" /\ caller[th[s]] = pl[s]
            BY <2>5, <3>1, <5>1 DEF FrameInv, Owned, Awaited
          <5>3. pl[s] # f /\ pl[s] # p
            BY <2>2, <2>4, <5>2
          <5> QED  BY <2>5, <5>1, <5>2, <5>3
        <4> QED  BY <4>1, <4>2, <4>3
      <3>2. ASSUME NEW g \in Frames, frame'[g] \in {"none", "created"}
  PROVE caller'[g] = NoFrame
        <4>1. g \notin {f, p} /\ frame[g] \in {"none", "created"}
          BY <2>5, <3>2
        <4> QED  BY <2>5, <4>1 DEF FrameInv, Owned, Awaited
      <3>3. ASSUME NEW g \in Frames, caller'[g] # NoFrame, frame'[g] \notin Ended
            PROVE  frame'[caller'[g]] = "awaiting"
        <4>1. CASE g = f
          BY <2>5, <4>1
        <4>2. CASE g # f
          <5>1. caller'[g] = caller[g] /\ frame[g] \notin Ended
            BY <2>2, <2>5, <3>3, <4>2 DEF Ended
          <5>2. caller[g] \in Frames /\ frame[caller[g]] = "awaiting"
            BY <2>3, <3>3, <5>1 DEF FrameInv, Owned, Awaited
          <5>3. caller[g] # f /\ caller[g] # p
            BY <2>2, <2>4, <5>2
          <5> QED  BY <2>5, <5>1, <5>2, <5>3
        <4> QED  BY <4>1, <4>2
      <3> QED  BY <3>1, <3>2, <3>3 DEF Awaited
    <2>12. Awaits(frame', caller', taskHandle', place')
      <3> SUFFICES ASSUME NEW g \in Frames, frame'[g] = "awaiting"
                   PROVE  \E s \in Tasks : pl'[s] = g /\ Callee(frame', caller', th', g, s)
        BY DEF Awaits
      <3>1. CASE g = p
        <4>1. \A x \in Frames : (caller'[x] = p /\ frame'[x] \notin Ended) <=> x = f
          <5>1. ASSUME NEW x \in Frames \ {f}, caller'[x] = p PROVE frame'[x] \in Ended
            <6>1. caller[x] = p /\ frame[x] \in Ended
              BY <2>5, <2>6, <5>1
            <6>2. x # p
              BY <2>2, <6>1 DEF Ended
            <6> QED  BY <2>5, <6>1, <6>2
          <5> QED  BY <2>5, <5>1 DEF Ended
        <4>2. Callee(frame', caller', th', p, t)
          BY <2>1, <2>2, <2>5, <4>1 DEF Callee
        <4> QED  BY <2>2, <2>5, <3>1, <4>2
      <3>2. CASE g # p
        <4>1. g # f /\ frame[g] = "awaiting"
          BY <2>5, <3>2
        <4>2. PICK s \in Tasks : pl[s] = g /\ Callee(frame, caller, th, g, s)
          BY <4>1 DEF FrameInv, Owned, Awaits
        <4>3. \A x \in Frames : (caller'[x] = g /\ frame'[x] \notin Ended)
                               <=> (caller[x] = g /\ frame[x] \notin Ended)
          BY <2>2, <2>4, <2>5, <3>2 DEF Ended
        <4> QED  BY <2>5, <4>2, <4>3 DEF Callee
      <3> QED  BY <3>1, <3>2
    <2> QED  BY <2>7, <2>9, <2>10, <2>11, <2>12 DEF FrameInv, Owned
  <1> QED  BY <1>1, <1>2

LEMMA SpawnOwned ==
  ASSUME FrameInv, NEW p \in Frames \cup {Outside}, NEW t \in Tasks, Spawn(p, t)
  PROVE  FrameInv'
  <1> USE FramesAssumption
  <1>1. CASE UNCHANGED <<frame, caller, taskHandle, place, detached>>
    BY <1>1 DEF FrameInv
  <1>2. CASE ~UNCHANGED <<frame, caller, taskHandle, place, detached>>
    <2> DEFINE th == taskHandle
               pl == place
    <2>1. PICK f : f = th[t]
      OBVIOUS
    <2>2. /\ p \in Frames /\ frame[p] = "running" /\ pl[t] = p /\ f # NoFrame
          /\ frame[f] = "created" /\ frame' = [frame EXCEPT ![f] = "queued"]
          /\ taskHandle' = [taskHandle EXCEPT ![t] = NoFrame] /\ detached' = detached \cup {f}
          /\ UNCHANGED <<caller, place>>
      BY <1>2, <2>1 DEF Spawn, Runs, In
    <2>3. /\ frame \in [Frames -> Statuses] /\ caller \in [Frames -> Frames \cup {NoFrame}]
          /\ th \in [Tasks -> Frames \cup {NoFrame}]
          /\ pl \in [Tasks -> Frames \cup {NoFrame, Outside}] /\ detached \subseteq Frames
      BY DEF FrameInv, Owned, FrameTypes
    <2>4. f \in Frames /\ caller[f] = NoFrame /\ \A s \in Tasks : th[s] = f => s = t
      BY <2>1, <2>2, <2>3 DEF FrameInv, Owned, TaskOwns, Awaited
    <2>5. /\ frame'[f] = "queued" /\ \A g \in Frames \ {f} : frame'[g] = frame[g]
          /\ th'[t] = NoFrame /\ \A s \in Tasks \ {t} : th'[s] = th[s]
          /\ pl' = pl /\ caller' = caller
      BY <2>2, <2>3, <2>4
    <2>6. \A s \in Tasks : th'[s] # NoFrame => s # t /\ th'[s] = th[s] /\ th[s] \in Frames \ {f}
      BY <2>3, <2>4, <2>5
    <2>7. FrameTypes(frame', caller', taskHandle', place', detached')
      BY <2>2, <2>3, <2>4 DEF FrameTypes, Statuses, Going
    <2>8. \A g \in Frames : Exists(frame', g) <=> Exists(frame, g)
      BY <2>2, <2>4, <2>5 DEF Exists
    <2>9. TaskOwns(frame', taskHandle', place', detached')
      <3>1. ASSUME NEW s \in Tasks, th'[s] # NoFrame
            PROVE  pl'[s] # NoFrame /\ Exists(frame', th'[s]) /\ th'[s] \notin detached'
        <4>1. th'[s] = th[s] /\ th[s] \in Frames \ {f} /\ th[s] # NoFrame
          BY <2>6, <3>1
        <4>2. pl[s] # NoFrame /\ Exists(frame, th[s]) /\ th[s] \notin detached
          BY <4>1 DEF FrameInv, Owned, TaskOwns
        <4>3. pl'[s] # NoFrame
          BY <2>5, <4>2
        <4>4. Exists(frame', th[s])
          BY <2>8, <4>1, <4>2
        <4>5. th[s] \notin detached'
          BY <2>2, <4>1, <4>2
        <4> QED  BY <4>1, <4>3, <4>4, <4>5
      <3>2. ASSUME NEW s \in Tasks, NEW r \in Tasks, th'[s] # NoFrame, th'[r] = th'[s]
            PROVE  r = s
        BY <2>6, <3>2 DEF FrameInv, Owned, TaskOwns
      <3>3. ASSUME NEW s \in Tasks, pl'[s] \in Frames PROVE Exists(frame', pl'[s])
        BY <2>5, <2>8, <3>3 DEF FrameInv, Owned, TaskOwns
      <3> QED  BY <3>1, <3>2, <3>3 DEF TaskOwns
    <2>10. HasOwner(frame', caller', taskHandle', detached')
      <3>1. ASSUME NEW g \in Frames, Exists(frame', g), g \notin detached'
            PROVE  \E s \in Tasks : th'[s] = g
        <4>1. g # f /\ g \notin detached
          BY <2>2, <3>1
        <4>2. PICK s \in Tasks : th[s] = g
          BY <2>8, <3>1, <4>1 DEF FrameInv, Owned, HasOwner
        <4> QED  BY <2>1, <2>5, <4>1, <4>2
      <3>2. ASSUME NEW g \in detached'
            PROVE  Exists(frame', g) /\ frame'[g] \notin {"created", "final"}
                /\ caller'[g] = NoFrame
        <4>1. CASE g = f
          BY <2>4, <2>5, <4>1 DEF Exists
        <4>2. CASE g # f
          <5>1. g \in detached /\ g \in Frames
            BY <2>2, <2>3, <4>2
          <5> QED  BY <2>5, <2>8, <4>2, <5>1 DEF FrameInv, Owned, HasOwner
        <4> QED  BY <4>1, <4>2
      <3> QED  BY <2>2, <2>3, <2>4, <3>1, <3>2 DEF HasOwner
    <2>11. Awaited(frame', caller', taskHandle', place')
      <3>1. ASSUME NEW s \in Tasks, th'[s] # NoFrame, frame'[th'[s]] \notin {"created", "final"}
            PROVE  /\ pl'[s] \in Frames /\ frame'[pl'[s]] = "awaiting"
                   /\ caller'[th'[s]] = pl'[s]
        <4>1. pl[s] \in Frames /\ frame[pl[s]] = "awaiting" /\ caller[th[s]] = pl[s]
          BY <2>5, <2>6, <3>1 DEF FrameInv, Owned, Awaited
        <4>2. pl[s] # f
          BY <2>2, <4>1
        <4> QED  BY <2>5, <2>6, <3>1, <4>1, <4>2
      <3>2. ASSUME NEW g \in Frames, frame'[g] \in {"none", "created"}
  PROVE caller'[g] = NoFrame
        BY <2>5, <3>2 DEF FrameInv, Owned, Awaited
      <3>3. ASSUME NEW g \in Frames, caller'[g] # NoFrame, frame'[g] \notin Ended
            PROVE  frame'[caller'[g]] = "awaiting"
        <4>1. g # f
          BY <2>4, <2>5, <3>3
        <4>2. caller[g] \in Frames /\ frame[caller[g]] = "awaiting"
          BY <2>3, <2>5, <3>3, <4>1 DEF FrameInv, Owned, Awaited
        <4> QED  BY <2>2, <2>5, <4>2
      <3> QED  BY <3>1, <3>2, <3>3 DEF Awaited
    <2>12. Awaits(frame', caller', taskHandle', place')
      <3> SUFFICES ASSUME NEW g \in Frames, frame'[g] = "awaiting"
                   PROVE  \E s \in Tasks : pl'[s] = g /\ Callee(frame', caller', th', g, s)
        BY DEF Awaits
      <3>1. g # f /\ frame[g] = "awaiting"
        BY <2>5
      <3>2. PICK s \in Tasks : pl[s] = g /\ Callee(frame, caller, th, g, s)
        BY <3>1 DEF FrameInv, Owned, Awaits
      <3>3. s # t
        BY <2>2, <3>1, <3>2
      <3>4. \A x \in Frames : (caller'[x] = g /\ frame'[x] \notin Ended)
                             <=> (caller[x] = g /\ frame[x] \notin Ended)
        BY <2>2, <2>4, <2>5 DEF Ended
      <3> QED  BY <2>5, <3>2, <3>3, <3>4 DEF Callee
    <2> QED  BY <2>7, <2>9, <2>10, <2>11, <2>12 DEF FrameInv, Owned
  <1> QED  BY <1>1, <1>2

LEMMA BlockOnOwned ==
  ASSUME FrameInv, NEW t \in Tasks, BlockOn(t)
  PROVE  FrameInv'
  <1> USE FramesAssumption
  <1> DEFINE th == taskHandle
             pl == place
  <1>1. PICK f \in Frames :
          /\ frame[f] = "none" /\ frame' = [frame EXCEPT ![f] = "queued"]
          /\ place' = [place EXCEPT ![t] = f] /\ detached' = detached \cup {f}
          /\ pl[t] = Outside /\ UNCHANGED <<caller, taskHandle>>
    BY DEF BlockOn, NewFrame, In
  <1>2. /\ frame \in [Frames -> Statuses] /\ caller \in [Frames -> Frames \cup {NoFrame}]
        /\ th \in [Tasks -> Frames \cup {NoFrame}]
        /\ pl \in [Tasks -> Frames \cup {NoFrame, Outside}] /\ detached \subseteq Frames
    BY DEF FrameInv, Owned, FrameTypes
  <1>3. caller[f] = NoFrame /\ \A s \in Tasks : th[s] # f /\ pl[s] # f
    BY <1>1, <1>2 DEF FrameInv, Owned, TaskOwns, Awaited, Exists
  <1>4. /\ frame'[f] = "queued" /\ \A g \in Frames \ {f} : frame'[g] = frame[g]
        /\ pl'[t] = f /\ \A s \in Tasks \ {t} : pl'[s] = pl[s]
        /\ caller' = caller /\ th' = th
    BY <1>1, <1>2
  <1>5. \A g \in Frames \ {f} : Exists(frame', g) <=> Exists(frame, g)
    BY <1>4 DEF Exists
  <1>6. FrameTypes(frame', caller', taskHandle', place', detached')
    BY <1>1, <1>2 DEF FrameTypes, Statuses, Going
  <1>7. TaskOwns(frame', taskHandle', place', detached')
    <2>1. ASSUME NEW s \in Tasks, th'[s] # NoFrame
          PROVE  pl'[s] # NoFrame /\ Exists(frame', th'[s]) /\ th'[s] \notin detached'
      <3>1. th[s] \in Frames \ {f}
        BY <1>2, <1>3, <1>4, <2>1
      <3>2. pl[s] # NoFrame /\ Exists(frame, th[s]) /\ th[s] \notin detached
        BY <3>1 DEF FrameInv, Owned, TaskOwns
      <3>3. pl'[s] # NoFrame
        BY <1>4, <3>2
      <3>4. Exists(frame', th[s])
        BY <1>5, <3>1, <3>2
      <3> QED  BY <1>1, <1>4, <3>1, <3>2, <3>3, <3>4
    <2>2. ASSUME NEW s \in Tasks, NEW r \in Tasks, th'[s] # NoFrame, th'[r] = th'[s]
          PROVE  r = s
      BY <1>4, <2>2 DEF FrameInv, Owned, TaskOwns
    <2>3. ASSUME NEW s \in Tasks, pl'[s] \in Frames PROVE Exists(frame', pl'[s])
      <3>1. CASE s = t
        BY <1>4, <3>1 DEF Exists
      <3>2. CASE s # t
        BY <1>3, <1>4, <1>5, <2>3, <3>2 DEF FrameInv, Owned, TaskOwns
      <3> QED  BY <3>1, <3>2
    <2> QED  BY <2>1, <2>2, <2>3 DEF TaskOwns
  <1>8. HasOwner(frame', caller', taskHandle', detached')
    <2>1. ASSUME NEW g \in Frames, Exists(frame', g), g \notin detached'
          PROVE  \E s \in Tasks : th'[s] = g
      <3>1. g # f /\ g \notin detached
        BY <1>1, <2>1
      <3> QED  BY <1>4, <1>5, <2>1, <3>1 DEF FrameInv, Owned, HasOwner
    <2>2. ASSUME NEW g \in detached'
          PROVE  Exists(frame', g) /\ frame'[g] \notin {"created", "final"}
              /\ caller'[g] = NoFrame
      <3>1. CASE g = f
        BY <1>3, <1>4, <3>1 DEF Exists
      <3>2. CASE g # f
        <4>1. g \in detached /\ g \in Frames
          BY <1>1, <1>2, <2>2, <3>2
        <4> QED  BY <1>4, <1>5, <3>2, <4>1 DEF FrameInv, Owned, HasOwner
      <3> QED  BY <3>1, <3>2
    <2> QED  BY <1>1, <1>2, <2>1, <2>2 DEF HasOwner
  <1>9. Awaited(frame', caller', taskHandle', place')
    <2>1. ASSUME NEW s \in Tasks, th'[s] # NoFrame, frame'[th'[s]] \notin {"created", "final"}
          PROVE  /\ pl'[s] \in Frames /\ frame'[pl'[s]] = "awaiting"
                 /\ caller'[th'[s]] = pl'[s]
      <3>1. th[s] \in Frames \ {f}
        BY <1>2, <1>3, <1>4, <2>1
      <3>2. pl[s] \in Frames /\ frame[pl[s]] = "awaiting" /\ caller[th[s]] = pl[s]
        BY <1>4, <2>1, <3>1 DEF FrameInv, Owned, Awaited
      <3>3. s # t /\ pl[s] # f
        BY <1>1, <3>2
      <3> QED  BY <1>4, <3>2, <3>3
    <2>2. ASSUME NEW g \in Frames, frame'[g] \in {"none", "created"} PROVE caller'[g] = NoFrame
      BY <1>3, <1>4, <2>2 DEF FrameInv, Owned, Awaited
    <2>3. ASSUME NEW g \in Frames, caller'[g] # NoFrame, frame'[g] \notin Ended
          PROVE  frame'[caller'[g]] = "awaiting"
      <3>1. g # f /\ frame[caller[g]] = "awaiting" /\ caller[g] \in Frames
        BY <1>2, <1>3, <1>4, <2>3 DEF FrameInv, Owned, Awaited
      <3> QED  BY <1>1, <1>4, <3>1
    <2> QED  BY <2>1, <2>2, <2>3 DEF Awaited
  <1>10. Awaits(frame', caller', taskHandle', place')
    <2> SUFFICES ASSUME NEW g \in Frames, frame'[g] = "awaiting"
                 PROVE  \E s \in Tasks : pl'[s] = g /\ Callee(frame', caller', th', g, s)
      BY DEF Awaits
    <2>1. g # f /\ frame[g] = "awaiting"
      BY <1>4
    <2>2. PICK s \in Tasks : pl[s] = g /\ Callee(frame, caller, th, g, s)
      BY <2>1 DEF FrameInv, Owned, Awaits
    <2>3. s # t
      BY <1>1, <2>2
    <2>4. \A x \in Frames : (caller'[x] = g /\ frame'[x] \notin Ended)
                            <=> (caller[x] = g /\ frame[x] \notin Ended)
      BY <1>3, <1>4
    <2> QED  BY <1>4, <2>2, <2>3, <2>4 DEF Callee
  <1> QED  BY <1>6, <1>7, <1>8, <1>9, <1>10 DEF FrameInv, Owned

(* A frame goes from one place where it can go on to another.              *)
LEMMA GoesOn ==
  ASSUME FrameInv, NEW f \in Frames, frame[f] \in Going, NEW x \in Going,
         frame' = [frame EXCEPT ![f] = x], UNCHANGED <<caller, taskHandle, place, detached>>
  PROVE  FrameInv'
  <1>1. /\ frame \in [Frames -> Statuses] /\ caller \in [Frames -> Frames \cup {NoFrame}]
        /\ taskHandle \in [Tasks -> Frames \cup {NoFrame}]
        /\ place \in [Tasks -> Frames \cup {NoFrame, Outside}] /\ detached \subseteq Frames
    BY DEF FrameInv, Owned, FrameTypes
  <1>2. \A g \in Frames : \/ frame'[g] = frame[g]
                          \/ frame[g] \in Going /\ frame'[g] \in Going
    BY <1>1
  <1>3. \A g \in Frames : /\ Exists(frame', g) <=> Exists(frame, g)
                          /\ frame'[g] \in Ended <=> frame[g] \in Ended
                          /\ \A y \in {"none", "created", "final", "awaiting"} :
                               frame'[g] = y <=> frame[g] = y
    BY <1>2 DEF Exists, Going, Ended
  <1>4. FrameTypes(frame', caller', taskHandle', place', detached')
    BY <1>1 DEF FrameTypes, Statuses, Going
  <1>5. TaskOwns(frame', taskHandle', place', detached')
    <2>1. ASSUME NEW t \in Tasks, taskHandle[t] # NoFrame
          PROVE  place[t] # NoFrame /\ Exists(frame', taskHandle[t])
              /\ taskHandle[t] \notin detached
      <3>1. taskHandle[t] \in Frames
        BY <1>1, <2>1
      <3>2. place[t] # NoFrame /\ Exists(frame, taskHandle[t]) /\ taskHandle[t] \notin detached
        BY <2>1 DEF FrameInv, Owned, TaskOwns
      <3> QED  BY <1>3, <3>1, <3>2
    <2>2. ASSUME NEW t \in Tasks, NEW u \in Tasks, taskHandle[t] # NoFrame,
                 taskHandle[u] = taskHandle[t]
          PROVE  u = t
      BY <2>2 DEF FrameInv, Owned, TaskOwns
    <2>3. ASSUME NEW t \in Tasks, place[t] \in Frames PROVE Exists(frame', place[t])
      BY <1>3, <2>3 DEF FrameInv, Owned, TaskOwns
    <2> QED  BY <2>1, <2>2, <2>3 DEF TaskOwns
  <1>6. HasOwner(frame', caller', taskHandle', detached')
    BY <1>1, <1>3 DEF FrameInv, Owned, HasOwner
  <1>7. Awaited(frame', caller', taskHandle', place')
    BY <1>1, <1>3, FramesAssumption DEF FrameInv, Owned, Awaited
  <1>8. Awaits(frame', caller', taskHandle', place')
    BY <1>1, <1>3 DEF FrameInv, Owned, Awaits, Callee
  <1> QED  BY <1>4, <1>5, <1>6, <1>7, <1>8 DEF FrameInv, Owned

(* f ends and its caller goes on.                                          *)
LEMMA ResumesCaller ==
  ASSUME FrameInv, NEW f \in Frames, frame[f] = "running", caller[f] # NoFrame, NEW fr2,
         fr2 = [frame EXCEPT ![f] = "final", ![caller[f]] = "running"]
  PROVE  Owned(fr2, caller, taskHandle, place, detached) /\ fr2[f] = "final"
  <1> USE FramesAssumption
  <1> DEFINE th == taskHandle
             pl == place
  <1>1. PICK g : g = caller[f]
    OBVIOUS
  <1>2. /\ frame \in [Frames -> Statuses] /\ caller \in [Frames -> Frames \cup {NoFrame}]
        /\ th \in [Tasks -> Frames \cup {NoFrame}]
        /\ pl \in [Tasks -> Frames \cup {NoFrame, Outside}] /\ detached \subseteq Frames
    BY DEF FrameInv, Owned, FrameTypes
  <1>3. g \in Frames /\ frame[g] = "awaiting" /\ g # f /\ f \notin detached
    BY <1>1, <1>2 DEF FrameInv, Owned, Awaited, HasOwner, Ended
  <1>4. fr2[f] = "final" /\ fr2[g] = "running" /\ \A x \in Frames \ {f, g} : fr2[x] = frame[x]
    BY <1>1, <1>2, <1>3
  <1>5. \A x \in Frames : caller[x] = g /\ frame[x] \notin Ended => x = f
    <2>1. PICK t \in Tasks : Callee(frame, caller, th, g, t)
      BY <1>3 DEF FrameInv, Owned, Awaits
    <2> QED  BY <1>1, <2>1 DEF Callee, Ended
  <1>6. \A x \in Frames : Exists(fr2, x) <=> Exists(frame, x)
    BY <1>3, <1>4 DEF Exists
  <1>7. FrameTypes(fr2, caller, th, pl, detached)
    BY <1>1, <1>2, <1>3 DEF FrameTypes, Statuses, Going, Ended
  <1>8. TaskOwns(fr2, th, pl, detached)
    BY <1>2, <1>6 DEF FrameInv, Owned, TaskOwns
  <1>9. HasOwner(fr2, caller, th, detached)
    BY <1>2, <1>3, <1>4, <1>6 DEF FrameInv, Owned, HasOwner
  <1>10. Awaited(fr2, caller, th, pl)
    <2>1. ASSUME NEW s \in Tasks, th[s] # NoFrame, fr2[th[s]] \notin {"created", "final"}
          PROVE  pl[s] \in Frames /\ fr2[pl[s]] = "awaiting" /\ caller[th[s]] = pl[s]
      <3>1. th[s] \in Frames \ {f} /\ frame[th[s]] \notin {"created", "final"}
        BY <1>2, <1>3, <1>4, <2>1
      <3>2. pl[s] \in Frames /\ frame[pl[s]] = "awaiting" /\ caller[th[s]] = pl[s]
        BY <2>1, <3>1 DEF FrameInv, Owned, Awaited
      <3>3. frame[th[s]] \notin Ended
        BY <2>1, <3>1 DEF FrameInv, Owned, TaskOwns, Exists, Ended
      <3>4. pl[s] # g /\ pl[s] # f
        BY <1>5, <3>1, <3>2, <3>3
      <3> QED  BY <1>4, <3>2, <3>4
    <2>2. ASSUME NEW x \in Frames, fr2[x] \in {"none", "created"} PROVE caller[x] = NoFrame
      <3>1. frame[x] \in {"none", "created"}
        BY <1>4, <2>2
      <3> QED  BY <3>1 DEF FrameInv, Owned, Awaited
    <2>3. ASSUME NEW x \in Frames, caller[x] # NoFrame, fr2[x] \notin Ended
          PROVE  fr2[caller[x]] = "awaiting"
      <3>1. x # f /\ frame[x] \notin Ended
        BY <1>3, <1>4, <2>3 DEF Ended
      <3>2. caller[x] \in Frames /\ frame[caller[x]] = "awaiting"
        BY <1>2, <2>3, <3>1 DEF FrameInv, Owned, Awaited
      <3>3. caller[x] # g /\ caller[x] # f
        BY <1>5, <3>1, <3>2
      <3> QED  BY <1>4, <3>2, <3>3
    <2> QED  BY <2>1, <2>2, <2>3 DEF Awaited
  <1>11. Awaits(fr2, caller, th, pl)
    <2> SUFFICES ASSUME NEW h \in Frames, fr2[h] = "awaiting"
                 PROVE  \E s \in Tasks : pl[s] = h /\ Callee(fr2, caller, th, h, s)
      BY DEF Awaits
    <2>1. h # g /\ frame[h] = "awaiting"
      BY <1>4
    <2>2. PICK s \in Tasks : pl[s] = h /\ Callee(frame, caller, th, h, s)
      BY <2>1 DEF FrameInv, Owned, Awaits
    <2>3. \A x \in Frames : (caller[x] = h /\ fr2[x] \notin Ended)
                            <=> (caller[x] = h /\ frame[x] \notin Ended)
      BY <1>1, <1>3, <1>4, <2>1 DEF Ended
    <2> QED  BY <2>2, <2>3 DEF Callee
  <1> QED  BY <1>4, <1>7, <1>8, <1>9, <1>10, <1>11 DEF Owned

LEMMA DestroyAllOwned ==
  ASSUME NEW F \in SUBSET detached, NEW T \in SUBSET Tasks, NEW fr,
         Owned(fr, caller, taskHandle, place, detached),
         \A t \in T : NotAwaiting(fr, place[t]), DestroyAll(F, T, fr)
  PROVE  Owned(frame', caller, taskHandle', place', detached \ F)
  <1> DEFINE D == Doomed(F \cup {taskHandle[o] : o \in T})
             fr2 == [f \in Frames |-> IF f \in D THEN "freed" ELSE fr[f]]
             th2 == [o \in Tasks |->
                      IF o \in T \/ place[o] \in D THEN NoFrame ELSE taskHandle[o]]
             pl2 == [o \in Tasks |-> IF o \in T \/ place[o] \in D THEN NoFrame ELSE place[o]]
  <1>1. frame' = fr2 /\ taskHandle' = th2 /\ place' = pl2
    BY DEF DestroyAll
  <1> HIDE DEF D
  <1>2. Destruction(F, T, T, fr, fr2, th2, pl2)
    BY DEF Destruction, D
  <1> HIDE DEF fr2, th2, pl2
  <1>3. Owned(fr2, caller, th2, pl2, detached \ F)
    BY <1>2, Destroys
  <1> QED  BY <1>1, <1>3

LEMMA ReturnOwned ==
  ASSUME FrameInv, NEW f \in Frames, Return(f)
  PROVE  FrameInv'
  <1>1. PICK T \in SUBSET {t \in Tasks : In(t, f)} : FinalSuspend(f, T)
    BY DEF Return
  <1>2. frame[f] = "running" /\ caller' = caller /\ T \in SUBSET Tasks
        /\ \A t \in T : place[t] = f
    BY <1>1 DEF Return, In
  <1>3. CASE caller[f] # NoFrame
    <2>1. PICK fr : fr = [frame EXCEPT ![f] = "final", ![caller[f]] = "running"]
      OBVIOUS
    <2>2. DestroyAll({}, T, fr) /\ detached' = detached
      BY <1>1, <1>3, <2>1 DEF FinalSuspend
    <2>3. Owned(fr, caller, taskHandle, place, detached) /\ fr[f] = "final"
      BY <1>2, <1>3, <2>1, ResumesCaller
    <2>4. \A t \in T : NotAwaiting(fr, place[t])
      BY <1>2, <2>3 DEF NotAwaiting
    <2>5. Owned(frame', caller, taskHandle', place', detached \ {})
      BY <1>2, <2>2, <2>3, <2>4, DestroyAllOwned
    <2>6. detached \ {} = detached
      OBVIOUS
    <2> QED  BY <1>2, <2>2, <2>5, <2>6 DEF FrameInv
  <1>4. CASE caller[f] = NoFrame
    <2>1. DestroyAll({f}, T, frame) /\ detached' = detached \ {f}
      BY <1>1, <1>4 DEF FinalSuspend
    <2>2. f \in detached
      BY <1>2, <1>4, FramesAssumption DEF FrameInv, Owned, HasOwner, Awaited, Exists
    <2>3. \A t \in T : NotAwaiting(frame, place[t])
      BY <1>2 DEF NotAwaiting
    <2>4. Owned(frame', caller, taskHandle', place', detached \ {f})
      BY <1>2, <2>1, <2>2, <2>3, DestroyAllOwned DEF FrameInv
    <2> QED  BY <1>2, <2>1, <2>4 DEF FrameInv
  <1> QED  BY <1>3, <1>4

-----------------------------------------------------------------------------
LEMMA FrameInitially == CoroutineInit => FrameInv
  BY FramesAssumption
  DEF CoroutineInit, FrameInv, Owned, FrameTypes, TaskOwns, HasOwner, Awaited, Awaits, Callee,
      Exists, Statuses

LEMMA FrameStep == FrameInv /\ [CoroutineNext]_coroutineVars => FrameInv'
  <1> SUFFICES ASSUME FrameInv, [CoroutineNext]_coroutineVars PROVE FrameInv'
    OBVIOUS
  <1>1. ASSUME NEW p \in Frames \cup {Outside}, NEW t \in Tasks,
               Call(p, t) \/ DropTask(p, t) \/ Await(p, t) \/ Spawn(p, t)
        PROVE  FrameInv'
    BY <1>1, CallOwned, DropTaskOwned, AwaitOwned, SpawnOwned
  <1>2. ASSUME NEW p \in Frames \cup {Outside}, NEW t \in Tasks, NEW u \in Tasks,
               MoveNew(p, t, u) \/ MoveAssign(p, t, u)
        PROVE  FrameInv'
    BY <1>2, MoveNewOwned, MoveAssignOwned
  <1>3. ASSUME NEW t \in Tasks, BlockOn(t) PROVE FrameInv'
    BY <1>3, BlockOnOwned
  <1>4. ASSUME NEW f \in Frames, ResumeFrame(f) PROVE FrameInv'
    BY <1>4, GoesOn DEF ResumeFrame, Going
  <1>5. ASSUME NEW f \in Frames, Suspend(f) PROVE FrameInv'
    <2>1. f # Outside
      BY FramesAssumption
    <2> QED  BY <1>5, <2>1, GoesOn DEF Suspend, Runs, Going
  <1>6. ASSUME NEW f \in Frames, Scheduled(f) PROVE FrameInv'
    BY <1>6, GoesOn DEF Scheduled, Going
  <1>7. ASSUME NEW f \in Frames, Catch(f) PROVE FrameInv'
    BY <1>7 DEF Catch, FrameInv
  <1>8. ASSUME NEW f \in Frames, Return(f) PROVE FrameInv'
    BY <1>8, ReturnOwned
  <1>9. CASE UNCHANGED coroutineVars
    BY <1>9 DEF coroutineVars, FrameInv
  <1> QED  BY <1>1, <1>2, <1>3, <1>4, <1>5, <1>6, <1>7, <1>8, <1>9 DEF CoroutineNext

LEMMA OwnedOnce == FrameInv => FramesOwnedOnce
  <1> USE FramesAssumption
  <1> SUFFICES ASSUME FrameInv, NEW f \in Frames
               PROVE  /\ Cardinality(Owners(f)) =
                            (IF frame[f] \in {"none", "freed"} THEN 0 ELSE 1)
                      /\ frame[f] = "awaiting" =>
                           \E t \in Tasks : In(t, f) /\ taskHandle[t] # NoFrame
                             /\ {g \in Frames : caller[g] = f
                                 /\ frame[g] \notin {"final", "freed"}}
                                  = {taskHandle[t]}
                      /\ \A t \in Tasks : In(t, f) => frame[f] \notin {"none", "freed"}
    BY DEF FramesOwnedOnce
  <1>1. CASE ~Exists(frame, f)
    <2>1. Owners(f) = {}
      BY <1>1 DEF FrameInv, Owned, TaskOwns, HasOwner, Owners
    <2> QED  BY <1>1, <2>1, FS_EmptySet DEF Exists, FrameInv, Owned, TaskOwns, In
  <1>2. CASE Exists(frame, f)
    <2>1. \E o : Owners(f) = {o}
      <3>1. CASE f \in detached
        <4>1. \A t \in Tasks : taskHandle[t] # f
          BY <3>1 DEF FrameInv, Owned, TaskOwns
        <4>2. Owners(f) = {NoFrame}
          BY <3>1, <4>1 DEF Owners
        <4> QED  BY <4>2
      <3>2. CASE f \notin detached
        <4>1. PICK t \in Tasks : taskHandle[t] = f
          BY <1>2, <3>2 DEF FrameInv, Owned, HasOwner
        <4>2. \A u \in Tasks : taskHandle[u] = f => u = t
          BY <4>1 DEF FrameInv, Owned, TaskOwns
        <4>3. Owners(f) = {t}
          BY <3>2, <4>1, <4>2 DEF Owners
        <4> QED  BY <4>3
      <3> QED  BY <3>1, <3>2
    <2>2. Cardinality(Owners(f)) = 1
      BY <2>1, FS_Singleton
    <2>3. ASSUME frame[f] = "awaiting"
          PROVE  \E t \in Tasks : In(t, f) /\ taskHandle[t] # NoFrame
                   /\ {g \in Frames : caller[g] = f /\ frame[g] \notin {"final", "freed"}}
                        = {taskHandle[t]}
      <3>1. PICK t \in Tasks : place[t] = f /\ Callee(frame, caller, taskHandle, f, t)
        BY <2>3 DEF FrameInv, Owned, Awaits
      <3>2. taskHandle[t] \in Frames
        BY <3>1 DEF FrameInv, Owned, FrameTypes, Callee
      <3>3. {g \in Frames : caller[g] = f
              /\ frame[g] \notin {"final", "freed"}} = {taskHandle[t]}
        BY <3>1, <3>2 DEF Callee, Ended
      <3> QED  BY <3>1, <3>3 DEF In, Callee
    <2> QED  BY <1>2, <2>2, <2>3 DEF Exists
  <1> QED  BY <1>1, <1>2

(* In every execution, whatever is moved, awaited, spawned or thrown, each *)
(* frame that exists is owned once, a destroyed one never, and whoever is  *)
(* suspended in co_await owns the one frame that will resume him           *)
(* (task.hpp:20-44, 131-164, 194-201).                                     *)
THEOREM FramesHaveOneOwner == CoroutineSpec => []FramesOwnedOnce
  <1>1. FrameInv => FramesOwnedOnce
    BY OwnedOnce
  <1> QED  BY <1>1, FrameInitially, FrameStep, PTL DEF CoroutineSpec

-----------------------------------------------------------------------------
(***************************************************************************)
(* What is proved of Logger for every size and number of buffers.          *)
(*                                                                         *)
(* No record is in two buffers, or in a buffer and the file, even when     *)
(* log() and the writer change the lists at once (Alone).  As long as they *)
(* do not, what is still to be written is in order behind the file, and    *)
(* buffers that are used again are empty (Keeps).  Both are stated of the  *)
(* file fi, the current buffer cu, the full ones fu behind the k-th and    *)
(* the empty ones em.                                                      *)
(***************************************************************************)
Records == Seq(Nat)

Once(s)      == IsInjective(s)
Apart(s, t)  == ToSet(s) \cap ToSet(t) = {}
Upto(s, n)   == ToSet(s) \subseteq 1 .. n

Buffers(fi, cu, fu, em) ==
  fi \in Records /\ cu \in Records /\ fu \in Seq(Records) /\ em \in Seq(Records)

Alone(fi, cu, fu, k, em) ==
  /\ Once(fi) /\ Once(cu) /\ Apart(fi, cu)
  /\ \A i \in 1 .. Len(fu) : i > k => Once(fu[i]) /\ Apart(fi, fu[i]) /\ Apart(cu, fu[i])
  /\ \A i \in 1 .. Len(em) : Once(em[i]) /\ Apart(fi, em[i]) /\ Apart(cu, em[i])
  /\ \A i, j \in 1 .. Len(fu) : i > k /\ j > k /\ i # j => Apart(fu[i], fu[j])
  /\ \A i, j \in 1 .. Len(em) : i # j => Apart(em[i], em[j])
  /\ \A i \in 1 .. Len(fu), j \in 1 .. Len(em) : i > k => Apart(fu[i], em[j])

AllUpto(fi, cu, fu, k, em, n) ==
  /\ Upto(fi, n) /\ Upto(cu, n)
  /\ \A i \in 1 .. Len(fu) : i > k => Upto(fu[i], n)
  /\ \A i \in 1 .. Len(em) : Upto(em[i], n)

(* The full buffers that are written for good: those written in this round *)
(* are reset, but not behind the loop.                                     *)
Gone == IF writerAt \in {"flush", "ended"} THEN written ELSE 0

WriterPlaces == {"while", "wait", "drop", "write", "shrink", "splice", "drain", "flush", "ended"}

AloneInv ==
  /\ Buffers(file, current, full, empty)
  /\ written \in Nat /\ logged \in Nat /\ writerAt \in WriterPlaces /\ dropped \subseteq 1 .. logged
  /\ Alone(file, current, full, Gone, empty)
  /\ AllUpto(file, current, full, Gone, empty, logged)

-----------------------------------------------------------------------------
(* What Once, Apart and Upto say of sequences that are put together.       *)
Joins(r, s, t, m, n) ==
  /\ r \in Records /\ DOMAIN s = 1 .. m /\ DOMAIN t = 1 .. n /\ DOMAIN r = 1 .. m + n
  /\ \A i \in 1 .. m : i \in 1 .. m + n /\ r[i] = s[i]
  /\ \A j \in 1 .. n : m + j \in 1 .. m + n /\ r[m + j] = t[j]
  /\ \A i \in 1 .. m + n : i \in 1 .. m \/ \E j \in 1 .. n : i = m + j

LEMMA JoinAt ==
  ASSUME NEW s \in Records, NEW t \in Records, NEW m \in Nat, NEW n \in Nat, m = Len(s), n = Len(t)
  PROVE  Joins(s \o t, s, t, m, n)
  <1>1. s \o t \in Records /\ DOMAIN s = 1 .. m /\ DOMAIN t = 1 .. n /\ DOMAIN (s \o t) = 1 .. m + n
    BY DEF Records
  <1>2. \A i \in 1 .. m : i \in 1 .. m + n /\ (s \o t)[i] = s[i]
    BY DEF Records
  <1>3. \A j \in 1 .. n : m + j \in 1 .. m + n /\ (s \o t)[m + j] = t[j]
    <2>1. \A j \in 1 .. n : m + j \in 1 .. m + n
      OBVIOUS
    <2>2. \A i \in 1 .. m + n : (s \o t)[i] = IF i <= m THEN s[i] ELSE t[i - m]
      BY DEF Records
    <2>3. \A j \in 1 .. n : ~(m + j <= m) /\ (m + j) - m = j
      OBVIOUS
    <2> QED  BY <2>1, <2>2, <2>3
  <1>4. \A i \in 1 .. m + n : i \in 1 .. m \/ \E j \in 1 .. n : i = m + j
    <2>1. \A i \in 1 .. m + n : i \notin 1 .. m => i - m \in 1 .. n /\ i = m + (i - m)
      OBVIOUS
    <2> QED  BY <2>1
  <1> QED  BY <1>1, <1>2, <1>3, <1>4 DEF Joins

LEMMA MembersJoin ==
  ASSUME NEW s \in Records, NEW t \in Records
  PROVE  s \o t \in Records /\ ToSet(s \o t) = ToSet(s) \cup ToSet(t)
  <1>1. PICK m \in Nat, n \in Nat : m = Len(s) /\ n = Len(t)
    BY DEF Records
  <1>2. PICK r : r = s \o t
    OBVIOUS
  <1>3. /\ r \in Records /\ DOMAIN s = 1 .. m /\ DOMAIN t = 1 .. n /\ DOMAIN r = 1 .. m + n
        /\ \A i \in 1 .. m : i \in 1 .. m + n /\ r[i] = s[i]
        /\ \A j \in 1 .. n : m + j \in 1 .. m + n /\ r[m + j] = t[j]
        /\ \A i \in 1 .. m + n : i \in 1 .. m \/ \E j \in 1 .. n : i = m + j
    <2>1. Joins(r, s, t, m, n)
      BY <1>1, <1>2, JoinAt
    <2> QED  BY <2>1 DEF Joins
  <1>4. ASSUME NEW i \in 1 .. m + n PROVE r[i] \in ToSet(s) \cup ToSet(t)
    BY <1>3 DEF ToSet
  <1>5. ASSUME NEW i \in 1 .. m PROVE s[i] \in ToSet(r)
    <2>1. i \in 1 .. m + n /\ r[i] = s[i]
      BY <1>3
    <2> QED  BY <1>3, <2>1 DEF ToSet
  <1>6. ASSUME NEW j \in 1 .. n PROVE t[j] \in ToSet(r)
    <2>1. m + j \in 1 .. m + n /\ r[m + j] = t[j]
      BY <1>3
    <2> QED  BY <1>3, <2>1 DEF ToSet
  <1>7. ToSet(r) = ToSet(s) \cup ToSet(t)
    BY <1>3, <1>4, <1>5, <1>6, SMTT(30) DEF ToSet
  <1> QED  BY <1>2, <1>3, <1>7

LEMMA OnceJoin ==
  ASSUME NEW s \in Records, NEW t \in Records, Once(s), Once(t), Apart(s, t)
  PROVE  Once(s \o t)
  <1>1. PICK m \in Nat, n \in Nat : m = Len(s) /\ n = Len(t)
    BY DEF Records
  <1>2. PICK r : r = s \o t
    OBVIOUS
  <1>3. /\ r \in Records /\ DOMAIN s = 1 .. m /\ DOMAIN t = 1 .. n /\ DOMAIN r = 1 .. m + n
        /\ \A i \in 1 .. m : i \in 1 .. m + n /\ r[i] = s[i]
        /\ \A j \in 1 .. n : m + j \in 1 .. m + n /\ r[m + j] = t[j]
        /\ \A i \in 1 .. m + n : i \in 1 .. m \/ \E j \in 1 .. n : i = m + j
    <2>1. Joins(r, s, t, m, n)
      BY <1>1, <1>2, JoinAt
    <2> QED  BY <2>1 DEF Joins
  <1>4. \A i \in 1 .. m, j \in 1 .. n : s[i] # t[j]
    BY <1>3 DEF Apart, ToSet
  <1>5. /\ \A i, j \in 1 .. m : s[i] = s[j] => i = j
        /\ \A i, j \in 1 .. n : t[i] = t[j] => i = j
    BY <1>3 DEF Once, IsInjective
  <1>6. ASSUME NEW i \in 1 .. m + n, NEW j \in 1 .. m + n, r[i] = r[j]
        PROVE  i = j
    <2>1. CASE i \in 1 .. m /\ j \in 1 .. m
      BY <1>3, <1>5, <1>6, <2>1
    <2>2. CASE i \in 1 .. m /\ j \notin 1 .. m
      <3>1. PICK y \in 1 .. n : j = m + y
        BY <1>3, <2>2
      <3> QED  BY <1>3, <1>4, <1>6, <2>2, <3>1
    <2>3. CASE i \notin 1 .. m /\ j \in 1 .. m
      <3>1. PICK x \in 1 .. n : i = m + x
        BY <1>3, <2>3
      <3> QED  BY <1>3, <1>4, <1>6, <2>3, <3>1
    <2>4. CASE i \notin 1 .. m /\ j \notin 1 .. m
      <3>1. PICK x \in 1 .. n : i = m + x
        BY <1>3, <2>4
      <3>2. PICK y \in 1 .. n : j = m + y
        BY <1>3, <2>4
      <3>3. t[x] = t[y]
        BY <1>3, <1>6, <3>1, <3>2
      <3> QED  BY <1>5, <3>1, <3>2, <3>3
    <2> QED  BY <2>1, <2>2, <2>3, <2>4
  <1>7. Once(r)
    BY <1>3, <1>6 DEF Once, IsInjective
  <1> QED  BY <1>2, <1>7

LEMMA EmptyFacts ==
  /\ <<>> \in Records /\ ToSet(<<>>) = {} /\ Once(<<>>)
  /\ \A s : Apart(s, <<>>) /\ Apart(<<>>, s)
  /\ \A n : Upto(<<>>, n)
  BY DEF Records, ToSet, Once, IsInjective, Apart, Upto

LEMMA ApartFacts ==
  /\ \A s, t : Apart(s, t) => Apart(t, s)
  /\ \A s, t \in Records : \A u : Apart(s, u) /\ Apart(t, u) => Apart(s \o t, u)
  <1>1. ASSUME NEW s \in Records, NEW t \in Records, NEW u, Apart(s, u), Apart(t, u)
        PROVE  Apart(s \o t, u)
    BY <1>1, MembersJoin DEF Apart
  <1> QED  BY <1>1 DEF Apart

(* The next record is appended.                                            *)
LEMMA FreshFacts ==
  ASSUME NEW s \in Records, NEW n \in Nat, Upto(s, n)
  PROVE  /\ Append(s, n + 1) \in Records /\ ToSet(Append(s, n + 1)) = ToSet(s) \cup {n + 1}
         /\ Once(s) => Once(Append(s, n + 1)) /\ Upto(Append(s, n + 1), n + 1)
         /\ \A t : Apart(s, t) /\ Upto(t, n) => Apart(Append(s, n + 1), t)
  <1>1. /\ <<n + 1>> \in Records /\ Append(s, n + 1) = s \o <<n + 1>>
        /\ ToSet(<<n + 1>>) = {n + 1} /\ Once(<<n + 1>>)
    BY DEF Records, ToSet, Once, IsInjective
  <1>2. PICK a \in Records : a = <<n + 1>>
    BY <1>1
  <1>3. n + 1 \notin 1 .. n
    OBVIOUS
  <1>4. s \o a \in Records /\ ToSet(s \o a) = ToSet(s) \cup {n + 1} /\ Append(s, n + 1) = s \o a
    BY <1>1, <1>2, MembersJoin
  <1>5. Apart(s, a)
    BY <1>1, <1>2, <1>3 DEF Apart, Upto
  <1>6. Once(s) => Once(s \o a)
    BY <1>1, <1>2, <1>5, OnceJoin
  <1>7. Upto(s \o a, n + 1)
    BY <1>4 DEF Upto
  <1>8. ASSUME NEW t, Apart(s, t), Upto(t, n) PROVE Apart(s \o a, t)
    BY <1>3, <1>4, <1>8 DEF Apart, Upto
  <1> QED  BY <1>4, <1>6, <1>7, <1>8

-----------------------------------------------------------------------------
(* The current buffer becomes the last full one, and c the current one: an *)
(* empty one, or a new one.                                                *)
Taken(em, c, e2) ==
  /\ c \in Records /\ e2 \in Seq(Records)
  /\ \/ c = <<>> /\ e2 = em
     \/ em # <<>> /\ c = Head(em) /\ e2 = Tail(em)

LEMMA TakenFacts ==
  ASSUME NEW em \in Seq(Records), NEW c, NEW e2, Taken(em, c, e2)
  PROVE  /\ c = <<>> \/ (1 \in 1 .. Len(em) /\ c = em[1])
         /\ \A i \in 1 .. Len(e2) : \E j \in 1 .. Len(em) :
              e2[i] = em[j] /\ (c = <<>> \/ (c = em[1] /\ j # 1)) /\ j = i + Len(em) - Len(e2)
  <1>1. CASE c = <<>> /\ e2 = em
    BY <1>1
  <1>2. CASE em # <<>> /\ c = Head(em) /\ e2 = Tail(em)
    <2>1. PICK n \in Nat : n = Len(em) /\ n > 0
      BY <1>2
    <2>2. Len(e2) = n - 1 /\ c = em[1] /\ \A i \in 1 .. n - 1 : e2[i] = em[i + 1]
      BY <1>2, <2>1
    <2>3. \A i \in 1 .. n - 1 : i + 1 \in 1 .. n /\ i + 1 # 1 /\ i + 1 = i + n - (n - 1)
      BY <2>1
    <2> QED  BY <2>1, <2>2, <2>3
  <1> QED  BY <1>1, <1>2 DEF Taken

LEMMA Appended ==
  ASSUME NEW fu \in Seq(Records), NEW cu \in Records
  PROVE  /\ Append(fu, cu) \in Seq(Records)
         /\ \A i \in 1 .. Len(Append(fu, cu)) :
              \/ i \in 1 .. Len(fu) /\ Append(fu, cu)[i] = fu[i]
              \/ i = Len(fu) + 1 /\ i \notin 1 .. Len(fu) /\ Append(fu, cu)[i] = cu
  <1>1. PICK n \in Nat : n = Len(fu)
    OBVIOUS
  <1>2. /\ Append(fu, cu) \in Seq(Records) /\ Len(Append(fu, cu)) = n + 1
        /\ \A i \in 1 .. n : Append(fu, cu)[i] = fu[i]
        /\ Append(fu, cu)[n + 1] = cu
    BY <1>1
  <1>3. \A i \in 1 .. n + 1 : i \in 1 .. n \/ (i = n + 1 /\ i \notin 1 .. n)
    OBVIOUS
  <1> QED  BY <1>1, <1>2, <1>3

LEMMA Rotates ==
  ASSUME NEW fi, NEW cu, NEW fu, NEW em, Buffers(fi, cu, fu, em), NEW k \in Nat,
         Alone(fi, cu, fu, k, em), NEW c, NEW e2, Taken(em, c, e2)
  PROVE  Buffers(fi, c, Append(fu, cu), e2) /\ Alone(fi, c, Append(fu, cu), k, e2)
  <1>1. PICK f2 : f2 = Append(fu, cu)
    OBVIOUS
  <1>2. fi \in Records /\ cu \in Records /\ fu \in Seq(Records) /\ em \in Seq(Records)
    BY DEF Buffers
  <1>3. /\ f2 \in Seq(Records)
        /\ \A i \in 1 .. Len(f2) : \/ i \in 1 .. Len(fu) /\ f2[i] = fu[i]
                                   \/ i = Len(fu) + 1 /\ i \notin 1 .. Len(fu) /\ f2[i] = cu
    BY <1>1, <1>2, Appended
  <1>4. /\ c = <<>> \/ (1 \in 1 .. Len(em) /\ c = em[1])
        /\ \A i \in 1 .. Len(e2) : \E j \in 1 .. Len(em) :
             e2[i] = em[j] /\ (c = <<>> \/ (c = em[1] /\ j # 1)) /\ j = i + Len(em) - Len(e2)
    BY <1>2, TakenFacts
  <1>5. c \in Records /\ e2 \in Seq(Records)
    BY DEF Taken
  <1>6. Once(fi) /\ Once(c) /\ Apart(fi, c)
    BY <1>4, EmptyFacts DEF Alone
  <1>7. ASSUME NEW i \in 1 .. Len(f2), i > k
        PROVE  Once(f2[i]) /\ Apart(fi, f2[i]) /\ Apart(c, f2[i])
    <2>1. CASE i \in 1 .. Len(fu) /\ f2[i] = fu[i]
      <3>1. Once(fu[i]) /\ Apart(fi, fu[i])
        BY <1>7, <2>1 DEF Alone
      <3>2. Apart(c, fu[i])
        BY <1>4, <1>7, <2>1, EmptyFacts, ApartFacts DEF Alone
      <3> QED  BY <2>1, <3>1, <3>2
    <2>2. CASE f2[i] = cu
      BY <1>4, <2>2, EmptyFacts, ApartFacts DEF Alone
    <2> QED  BY <1>3, <2>1, <2>2
  <1>8. ASSUME NEW i \in 1 .. Len(e2) PROVE Once(e2[i]) /\ Apart(fi, e2[i]) /\ Apart(c, e2[i])
    <2>1. PICK j \in 1 .. Len(em) : e2[i] = em[j] /\ (c = <<>> \/ (c = em[1] /\ j # 1))
      BY <1>4
    <2>2. Once(em[j]) /\ Apart(fi, em[j])
      BY DEF Alone
    <2>3. Apart(c, em[j])
      BY <1>4, <2>1, EmptyFacts DEF Alone
    <2> QED  BY <2>1, <2>2, <2>3
  <1>9. ASSUME NEW i \in 1 .. Len(f2), NEW j \in 1 .. Len(f2), i > k, j > k, i # j
        PROVE  Apart(f2[i], f2[j])
    <2>1. CASE i \in 1 .. Len(fu) /\ f2[i] = fu[i] /\ j \in 1 .. Len(fu) /\ f2[j] = fu[j]
      BY <1>9, <2>1 DEF Alone
    <2>2. CASE i \in 1 .. Len(fu) /\ f2[i] = fu[i] /\ f2[j] = cu
      BY <1>9, <2>2, ApartFacts DEF Alone
    <2>3. CASE f2[i] = cu /\ j \in 1 .. Len(fu) /\ f2[j] = fu[j]
      BY <1>9, <2>3 DEF Alone
    <2> QED  BY <1>3, <1>9, <2>1, <2>2, <2>3
  <1>10. ASSUME NEW i \in 1 .. Len(e2), NEW j \in 1 .. Len(e2), i # j PROVE Apart(e2[i], e2[j])
    <2>1. PICK x \in 1 .. Len(em) : e2[i] = em[x] /\ x = i + Len(em) - Len(e2)
      BY <1>4
    <2>2. PICK y \in 1 .. Len(em) : e2[j] = em[y] /\ y = j + Len(em) - Len(e2)
      BY <1>4
    <2>3. Len(em) \in Nat /\ Len(e2) \in Nat
      BY <1>2, <1>5
    <2>4. x # y
      BY <1>10, <2>1, <2>2, <2>3
    <2> QED  BY <2>1, <2>2, <2>4 DEF Alone
  <1>11. ASSUME NEW i \in 1 .. Len(f2), NEW j \in 1 .. Len(e2), i > k PROVE Apart(f2[i], e2[j])
    <2>1. PICK x \in 1 .. Len(em) : e2[j] = em[x]
      BY <1>4
    <2>2. CASE i \in 1 .. Len(fu) /\ f2[i] = fu[i]
      BY <1>11, <2>1, <2>2 DEF Alone
    <2>3. CASE f2[i] = cu
      BY <2>1, <2>3 DEF Alone
    <2> QED  BY <1>3, <2>2, <2>3
  <1>12. Buffers(fi, c, f2, e2)
    BY <1>2, <1>3, <1>5 DEF Buffers
  <1>13. Alone(fi, c, f2, k, e2)
    BY <1>6, <1>7, <1>8, <1>9, <1>10, <1>11 DEF Alone
  <1> QED  BY <1>1, <1>12, <1>13

LEMMA RotatesUpto ==
  ASSUME NEW fi, NEW cu, NEW fu, NEW em, Buffers(fi, cu, fu, em), NEW k \in Nat, NEW n,
         AllUpto(fi, cu, fu, k, em, n), NEW c, NEW e2, Taken(em, c, e2)
  PROVE  AllUpto(fi, c, Append(fu, cu), k, e2, n)
  <1>1. PICK f2 : f2 = Append(fu, cu)
    OBVIOUS
  <1>2. cu \in Records /\ fu \in Seq(Records) /\ em \in Seq(Records)
    BY DEF Buffers
  <1>3. \A i \in 1 .. Len(f2) : \/ i \in 1 .. Len(fu) /\ f2[i] = fu[i]
                                \/ f2[i] = cu
    BY <1>1, <1>2, Appended
  <1>4. /\ c = <<>> \/ (1 \in 1 .. Len(em) /\ c = em[1])
        /\ \A i \in 1 .. Len(e2) : \E j \in 1 .. Len(em) : e2[i] = em[j]
    BY <1>2, TakenFacts
  <1>5. Upto(c, n) /\ \A i \in 1 .. Len(e2) : Upto(e2[i], n)
    BY <1>4, EmptyFacts DEF AllUpto
  <1>6. \A i \in 1 .. Len(f2) : i > k => Upto(f2[i], n)
    BY <1>3 DEF AllUpto
  <1> QED  BY <1>1, <1>5, <1>6 DEF AllUpto

(* The next record is appended to the current buffer.                      *)
LEMMA AddsFresh ==
  ASSUME NEW fi, NEW cu, NEW fu, NEW em, Buffers(fi, cu, fu, em), NEW k \in Nat, NEW n \in Nat,
         Alone(fi, cu, fu, k, em), AllUpto(fi, cu, fu, k, em, n)
  PROVE  /\ Buffers(fi, Append(cu, n + 1), fu, em)
         /\ Alone(fi, Append(cu, n + 1), fu, k, em)
         /\ AllUpto(fi, Append(cu, n + 1), fu, k, em, n + 1)
  <1>1. PICK c2 : c2 = Append(cu, n + 1)
    OBVIOUS
  <1>2. cu \in Records /\ Upto(cu, n) /\ Once(cu)
    BY DEF Buffers, AllUpto, Alone
  <1>3. /\ c2 \in Records /\ Once(c2) /\ Upto(c2, n + 1)
        /\ \A t : Apart(cu, t) /\ Upto(t, n) => Apart(c2, t)
    BY <1>1, <1>2, FreshFacts
  <1>4. \A t : Upto(t, n) => Upto(t, n + 1)
    BY DEF Upto
  <1>5. Buffers(fi, c2, fu, em)
    BY <1>3 DEF Buffers
  <1>6. Apart(fi, c2)
    BY <1>3, ApartFacts DEF Alone, AllUpto
  <1>7. Alone(fi, c2, fu, k, em)
    BY <1>3, <1>6 DEF Alone, AllUpto
  <1>8. AllUpto(fi, c2, fu, k, em, n + 1)
    BY <1>3, <1>4 DEF AllUpto
  <1> QED  BY <1>1, <1>5, <1>7, <1>8

(* The j-th full buffer is written.                                        *)
LEMMA WritesBuffer ==
  ASSUME NEW fi, NEW cu, NEW fu, NEW em, Buffers(fi, cu, fu, em), NEW k \in Nat, NEW n,
         Alone(fi, cu, fu, k, em), AllUpto(fi, cu, fu, k, em, n),
         NEW j \in 1 .. Len(fu), j > k, NEW f2 \in Seq(Records), NEW k2 \in Nat,
         \A i \in 1 .. Len(f2) : i > k2 => \/ f2[i] = <<>>
                                           \/ i > k /\ i # j /\ i \in 1 .. Len(fu) /\ f2[i] = fu[i]
  PROVE  /\ Buffers(fi \o fu[j], cu, f2, em)
         /\ Alone(fi \o fu[j], cu, f2, k2, em)
         /\ AllUpto(fi \o fu[j], cu, f2, k2, em, n)
  <1>1. PICK b : b = fu[j]
    OBVIOUS
  <1>2. fi \in Records /\ b \in Records /\ fu \in Seq(Records)
    BY <1>1 DEF Buffers
  <1>3. /\ Once(fi) /\ Once(b) /\ Apart(fi, b) /\ Apart(cu, b) /\ Apart(fi, cu) /\ Apart(b, cu)
        /\ \A i \in 1 .. Len(fu) : i > k /\ i # j => Apart(b, fu[i]) /\ Apart(fi, fu[i])
        /\ \A i \in 1 .. Len(em) : Apart(b, em[i]) /\ Apart(fi, em[i])
    BY <1>1, ApartFacts DEF Alone
  <1>4. PICK f : f = fi \o b
    OBVIOUS
  <1>5. f \in Records /\ Once(f) /\ ToSet(f) = ToSet(fi) \cup ToSet(b)
    BY <1>2, <1>3, <1>4, MembersJoin, OnceJoin
  <1>6. \A t : Apart(fi, t) /\ Apart(b, t) => Apart(f, t)
    BY <1>5 DEF Apart
  <1>7. Upto(f, n)
    BY <1>1, <1>5 DEF AllUpto, Upto
  <1>8. Buffers(f, cu, f2, em)
    BY <1>5 DEF Buffers
  <1>9. /\ Apart(f, cu)
        /\ \A i \in 1 .. Len(f2) : i > k2 => Once(f2[i]) /\ Apart(f, f2[i]) /\ Apart(cu, f2[i])
        /\ \A i \in 1 .. Len(em) : Apart(f, em[i])
    BY <1>3, <1>6, EmptyFacts DEF Alone
  <1>10. \A i, x \in 1 .. Len(f2) : i > k2 /\ x > k2 /\ i # x => Apart(f2[i], f2[x])
    BY EmptyFacts DEF Alone
  <1>11. \A i \in 1 .. Len(f2), x \in 1 .. Len(em) : i > k2 => Apart(f2[i], em[x])
    BY EmptyFacts DEF Alone
  <1>12. Alone(f, cu, f2, k2, em)
    BY <1>5, <1>9, <1>10, <1>11 DEF Alone
  <1>13. AllUpto(f, cu, f2, k2, em, n)
    BY <1>7, EmptyFacts DEF AllUpto
  <1> QED  BY <1>1, <1>4, <1>8, <1>12, <1>13

(* Full buffers go.                                                        *)
LEMMA FewerFull ==
  ASSUME NEW fi, NEW cu, NEW fu, NEW em, Buffers(fi, cu, fu, em), NEW k \in Nat, NEW n,
         Alone(fi, cu, fu, k, em), AllUpto(fi, cu, fu, k, em, n),
         NEW f2 \in Seq(Records), NEW k2 \in Nat,
         \A i \in 1 .. Len(f2) : i > k2 => i > k /\ i \in 1 .. Len(fu) /\ f2[i] = fu[i]
  PROVE  Buffers(fi, cu, f2, em) /\ Alone(fi, cu, f2, k2, em) /\ AllUpto(fi, cu, f2, k2, em, n)
  <1>1. Buffers(fi, cu, f2, em)
    BY DEF Buffers
  <1>2. Alone(fi, cu, f2, k2, em)
    BY DEF Alone
  <1>3. AllUpto(fi, cu, f2, k2, em, n)
    BY DEF AllUpto
  <1> QED  BY <1>1, <1>2, <1>3

(* The full buffers, and new ones, go behind the empty ones.               *)
LEMMA MoreEmpty ==
  ASSUME NEW fi, NEW cu, NEW fu, NEW em, Buffers(fi, cu, fu, em), NEW n,
         Alone(fi, cu, fu, 0, em), AllUpto(fi, cu, fu, 0, em, n)
  PROVE  /\ Buffers(fi, cu, <<>>, em \o fu) /\ Alone(fi, cu, <<>>, 0, em \o fu)
         /\ AllUpto(fi, cu, <<>>, 0, em \o fu, n)
  <1>1. PICK l \in Nat, m \in Nat : l = Len(em) /\ m = Len(fu)
    BY DEF Buffers
  <1>2. PICK e2 : e2 = em \o fu
    OBVIOUS
  <1>3. e2 \in Seq(Records) /\ Len(e2) = l + m
    BY <1>1, <1>2 DEF Buffers
  <1>4. \A i \in 1 .. l + m : \/ i \in 1 .. l /\ e2[i] = em[i]
                              \/ i \notin 1 .. l /\ i - l \in 1 .. m /\ e2[i] = fu[i - l]
    BY <1>1, <1>2 DEF Buffers
  <1>5. \A i \in 1 .. m : i > 0
    OBVIOUS
  <1>6. Buffers(fi, cu, <<>>, e2)
    BY <1>3 DEF Buffers
  <1>7. ASSUME NEW i \in 1 .. l + m PROVE Once(e2[i]) /\ Apart(fi, e2[i]) /\ Apart(cu, e2[i])
    <2>1. CASE i \in 1 .. l /\ e2[i] = em[i]
      BY <1>1, <2>1 DEF Alone
    <2>2. CASE i - l \in 1 .. m /\ e2[i] = fu[i - l]
      BY <1>1, <1>5, <2>2 DEF Alone
    <2> QED  BY <1>4, <2>1, <2>2
  <1>8. ASSUME NEW i \in 1 .. l + m, NEW j \in 1 .. l + m, i # j PROVE Apart(e2[i], e2[j])
    <2>1. CASE i \in 1 .. l /\ e2[i] = em[i] /\ j \in 1 .. l /\ e2[j] = em[j]
      BY <1>1, <1>8, <2>1 DEF Alone
    <2>2. CASE i \in 1 .. l /\ e2[i] = em[i] /\ j - l \in 1 .. m /\ e2[j] = fu[j - l]
      BY <1>1, <1>5, <2>2, ApartFacts DEF Alone
    <2>3. CASE i - l \in 1 .. m /\ e2[i] = fu[i - l] /\ j \in 1 .. l /\ e2[j] = em[j]
      BY <1>1, <1>5, <2>3 DEF Alone
    <2>4. CASE i - l \in 1 .. m /\ e2[i] = fu[i - l] /\ j - l \in 1 .. m /\ e2[j] = fu[j - l]
      <3>1. i - l # j - l
        BY <1>8
      <3> QED  BY <1>1, <1>5, <2>4, <3>1 DEF Alone
    <2> QED  BY <1>4, <2>1, <2>2, <2>3, <2>4
  <1>9. Alone(fi, cu, <<>>, 0, e2)
    BY <1>3, <1>7, <1>8 DEF Alone
  <1>10. \A i \in 1 .. l + m : Upto(e2[i], n)
    BY <1>1, <1>4, <1>5 DEF AllUpto
  <1>11. AllUpto(fi, cu, <<>>, 0, e2, n)
    BY <1>3, <1>10 DEF AllUpto
  <1> QED  BY <1>2, <1>6, <1>9, <1>11

LEMMA NewEmpty ==
  ASSUME NEW fi, NEW cu, NEW fu, NEW em, Buffers(fi, cu, fu, em), NEW k \in Nat, NEW n,
         Alone(fi, cu, fu, k, em), AllUpto(fi, cu, fu, k, em, n)
  PROVE  /\ Buffers(fi, cu, fu, em \o <<<<>>, <<>>>>) /\ Alone(fi, cu, fu, k, em \o <<<<>>, <<>>>>)
         /\ AllUpto(fi, cu, fu, k, em \o <<<<>>, <<>>>>, n)
  <1>1. PICK e2 : e2 = em \o <<<<>>, <<>>>>
    OBVIOUS
  <1>2. em \in Seq(Records) /\ <<<<>>, <<>>>> \in Seq(Records)
    BY DEF Buffers, Records
  <1>3. e2 \in Seq(Records)
    BY <1>1, <1>2
  <1>4. \A i \in 1 .. Len(e2) : e2[i] = <<>> \/ (i \in 1 .. Len(em) /\ e2[i] = em[i])
    <2>1. PICK l \in Nat : l = Len(em)
      BY <1>2
    <2>2. Len(e2) = l + 2 /\ \A i \in 1 .. l : e2[i] = em[i]
      BY <1>1, <1>2, <2>1
    <2>3. e2[l + 1] = <<>> /\ e2[l + 2] = <<>>
      BY <1>1, <1>2, <2>1
    <2>4. \A i \in 1 .. l + 2 : i \in 1 .. l \/ i = l + 1 \/ i = l + 2
      OBVIOUS
    <2> QED  BY <2>1, <2>2, <2>3, <2>4
  <1>5. Buffers(fi, cu, fu, e2)
    BY <1>3 DEF Buffers
  <1>6. Alone(fi, cu, fu, k, e2)
    <2>1. \A i \in 1 .. Len(e2) : Once(e2[i]) /\ Apart(fi, e2[i]) /\ Apart(cu, e2[i])
      BY <1>4, EmptyFacts DEF Alone
    <2>2. \A i, j \in 1 .. Len(e2) : i # j => Apart(e2[i], e2[j])
      BY <1>4, EmptyFacts DEF Alone
    <2>3. \A i \in 1 .. Len(fu), j \in 1 .. Len(e2) : i > k => Apart(fu[i], e2[j])
      BY <1>4, EmptyFacts DEF Alone
    <2> QED  BY <2>1, <2>2, <2>3 DEF Alone
  <1>7. AllUpto(fi, cu, fu, k, e2, n)
    BY <1>4, EmptyFacts DEF AllUpto
  <1> QED  BY <1>1, <1>5, <1>6, <1>7

-----------------------------------------------------------------------------
LEMMA NextTaken == AloneInv => Taken(empty, NextEmpty, EmptyLeft)
  <1> SUFFICES ASSUME AloneInv PROVE Taken(empty, NextEmpty, EmptyLeft)
    OBVIOUS
  <1>1. empty \in Seq(Records)
    BY DEF AloneInv, Buffers
  <1>2. CASE empty = <<>>
    BY <1>1, <1>2, EmptyFacts DEF Taken, NextEmpty, EmptyLeft
  <1>3. CASE empty # <<>>
    <2>1. Head(empty) \in Records /\ Tail(empty) \in Seq(Records)
      BY <1>1, <1>3
    <2> QED  BY <1>3, <2>1 DEF Taken, NextEmpty, EmptyLeft
  <1> QED  BY <1>2, <1>3

LEMMA AloneInitially == LoggerInit => AloneInv
  <1> SUFFICES ASSUME LoggerInit PROVE AloneInv
    OBVIOUS
  <1>1. /\ file = <<>> /\ current = <<>> /\ full = <<>> /\ empty = <<>> /\ writerAt = "while"
        /\ written = 0 /\ logged = 0 /\ dropped = {}
    BY DEF LoggerInit
  <1>2. Buffers(<<>>, <<>>, <<>>, <<>>)
    BY EmptyFacts DEF Buffers
  <1>3. Alone(<<>>, <<>>, <<>>, 0, <<>>) /\ AllUpto(<<>>, <<>>, <<>>, 0, <<>>, 0)
    BY EmptyFacts DEF Alone, AllUpto
  <1>4. Gone = 0
    BY <1>1 DEF Gone
  <1> QED  BY <1>1, <1>2, <1>3, <1>4 DEF AloneInv, WriterPlaces

LEMMA AloneStep == AloneInv /\ [LoggerNext]_loggerVars => AloneInv'
  <1> SUFFICES ASSUME AloneInv, [LoggerNext]_loggerVars PROVE AloneInv'
    OBVIOUS
  <1>1. /\ Buffers(file, current, full, empty)
        /\ written \in Nat /\ logged \in Nat /\ writerAt \in WriterPlaces /\ dropped \subseteq 1 .. logged
        /\ Alone(file, current, full, Gone, empty)
        /\ AllUpto(file, current, full, Gone, empty, logged)
    BY DEF AloneInv
  <1>2. /\ file \in Records /\ current \in Records /\ full \in Seq(Records) /\ empty \in Seq(Records)
        /\ Len(full) \in Nat /\ Gone \in Nat
    BY <1>1 DEF Buffers, Gone
  <1>3. CASE Build
    <2>1. UNCHANGED <<current, full, file, writerAt, written, logged, dropped>> /\ Gone' = Gone
      BY <1>3 DEF Build, Gone
    <2>2. empty' = empty \/ empty' = empty \o <<<<>>, <<>>>>
      BY <1>3 DEF Build
    <2>3. Buffers(file, current, full, empty') /\ Alone(file, current, full, Gone, empty')
          /\ AllUpto(file, current, full, Gone, empty', logged)
      BY <1>1, <1>2, <2>2, NewEmpty
    <2> QED  BY <1>1, <2>1, <2>3 DEF AloneInv
  <1>4. CASE Log
    <2>1. UNCHANGED <<file, writerAt, written, dropped>> /\ logged' = logged + 1 /\ Gone' = Gone
      BY <1>4 DEF Log, Gone
    <2>2. logged' \in Nat /\ 1 .. logged \subseteq 1 .. logged'
      BY <1>1, <2>1
    <2>3. CASE current' = Append(current, logged') /\ UNCHANGED <<full, empty>>
      <3>1. /\ Buffers(file, current', full, empty) /\ Alone(file, current', full, Gone, empty)
            /\ AllUpto(file, current', full, Gone, empty, logged')
        BY <1>1, <1>2, <2>1, <2>3, AddsFresh
      <3> QED  BY <1>1, <2>1, <2>2, <2>3, <3>1 DEF AloneInv
    <2>4. CASE /\ full' = Append(full, current) /\ current' = Append(NextEmpty, logged')
               /\ empty' = EmptyLeft
      <3>1. /\ Buffers(file, NextEmpty, full', empty') /\ Alone(file, NextEmpty, full', Gone, empty')
            /\ AllUpto(file, NextEmpty, full', Gone, empty', logged)
        BY <1>1, <1>2, <2>4, NextTaken, Rotates, RotatesUpto
      <3>2. /\ Buffers(file, current', full', empty') /\ Alone(file, current', full', Gone, empty')
            /\ AllUpto(file, current', full', Gone, empty', logged')
        BY <1>1, <1>2, <2>1, <2>4, <3>1, AddsFresh
      <3> QED  BY <1>1, <2>1, <2>2, <3>2 DEF AloneInv
    <2> QED  BY <1>4, <2>3, <2>4 DEF Log
  <1>5. CASE Destruct \/ TestRunning \/ UNCHANGED loggerVars
    <2>1. UNCHANGED <<current, full, empty, file, written, logged, dropped>>
      BY <1>5 DEF Destruct, TestRunning, loggerVars
    <2>2. Gone' = Gone /\ writerAt' \in WriterPlaces
      BY <1>1, <1>5 DEF Destruct, TestRunning, loggerVars, Gone, WriterPlaces
    <2> QED  BY <1>1, <2>1, <2>2 DEF AloneInv
  <1>6. CASE Swap
    <2>1. /\ full' = Append(full, current) /\ current' = NextEmpty /\ empty' = EmptyLeft
          /\ UNCHANGED <<file, written, logged, dropped>> /\ writerAt' = "drop" /\ Gone' = Gone
      BY <1>6 DEF Swap, Goes, Gone
    <2>2. /\ Buffers(file, current', full', empty') /\ Alone(file, current', full', Gone, empty')
          /\ AllUpto(file, current', full', Gone, empty', logged)
      BY <1>1, <1>2, <2>1, NextTaken, Rotates, RotatesUpto
    <2> QED  BY <1>1, <2>1, <2>2 DEF AloneInv, WriterPlaces
  <1>7. CASE Drop
    <2>1. /\ UNCHANGED <<current, empty, file, logged>> /\ writerAt' = "write" /\ Gone = 0 /\ Gone' = 0
          /\ written' = 0
      BY <1>7 DEF Drop, Goes, Gone
    <2>2. CASE UNCHANGED <<full, dropped>>
      BY <1>1, <2>1, <2>2 DEF AloneInv, WriterPlaces
    <2>3. CASE /\ Len(full) > MaxBuffers /\ full' = SubSeq(full, 1, Kept)
               /\ dropped' = dropped \cup UNION {ToSet(full[i]) : i \in Kept + 1 .. Len(full)}
      <3>1. /\ full' \in Seq(Records)
            /\ \A i \in 1 .. Len(full') : i > 0 /\ i \in 1 .. Len(full) /\ full'[i] = full[i]
        <4>1. Len(full) > 2
          BY <1>2, <2>3, BuffersAssumption DEF Kept
        <4> QED  BY <1>2, <2>3, <4>1 DEF Kept
      <3>2. /\ Buffers(file, current, full', empty) /\ Alone(file, current, full', 0, empty)
            /\ AllUpto(file, current, full', 0, empty, logged)
        BY <1>1, <2>1, <3>1, FewerFull
      <3>3. dropped' \subseteq 1 .. logged
        <4>1. \A i \in Kept + 1 .. Len(full) : i \in 1 .. Len(full) /\ i > 0
          BY DEF Kept
        <4>2. \A i \in Kept + 1 .. Len(full) : ToSet(full[i]) \subseteq 1 .. logged
          BY <1>1, <2>1, <4>1 DEF AllUpto, Upto
        <4> QED  BY <1>1, <2>3, <4>2
      <3> QED  BY <1>1, <2>1, <3>2, <3>3 DEF AloneInv, WriterPlaces
    <2> QED  BY <1>7, <2>2, <2>3 DEF Drop
  <1>8. CASE WriteOne \/ WriteLast
    <2>1. PICK j \in Nat : j = written + 1 /\ written' = j /\ j \in 1 .. Len(full)
      BY <1>1, <1>2, <1>8 DEF WriteOne, WriteLast
    <2>2. /\ file' = file \o full[j] /\ j > Gone /\ Gone' \in Nat
          /\ UNCHANGED <<current, empty, writerAt, logged, dropped>>
      BY <1>1, <1>8, <2>1 DEF WriteOne, WriteLast, Gone
    <2>3. /\ full' \in Seq(Records)
          /\ \A i \in 1 .. Len(full') : i > Gone' =>
               \/ full'[i] = <<>>
               \/ i > Gone /\ i # j /\ i \in 1 .. Len(full) /\ full'[i] = full[i]
      <3>1. CASE WriteOne
        <4>1. full' = [full EXCEPT ![j] = <<>>] /\ Gone = 0
          BY <2>1, <3>1 DEF WriteOne, Gone
        <4> QED  BY <1>2, <2>1, <4>1, EmptyFacts
      <3>2. CASE WriteLast
        <4>1. full' = full /\ Gone' = j /\ Gone = written
          BY <2>1, <3>2 DEF WriteLast, Gone
        <4> QED  BY <1>1, <1>2, <2>1, <4>1
      <3> QED  BY <1>8, <3>1, <3>2
    <2>4. /\ Buffers(file', current, full', empty) /\ Alone(file', current, full', Gone', empty)
          /\ AllUpto(file', current, full', Gone', empty, logged)
      BY <1>1, <1>2, <2>1, <2>2, <2>3, WritesBuffer
    <2> QED  BY <1>1, <2>1, <2>2, <2>4 DEF AloneInv
  <1>9. CASE WroteAll \/ WroteLast
    <2>1. UNCHANGED <<current, full, empty, file, written, logged, dropped>>
      BY <1>9 DEF WroteAll, WroteLast
    <2>2. Gone' = Gone /\ writerAt' \in WriterPlaces
      BY <1>9 DEF WroteAll, WroteLast, Goes, Gone, WriterPlaces
    <2> QED  BY <1>1, <2>1, <2>2 DEF AloneInv
  <1>10. CASE Shrink
    <2>1. /\ UNCHANGED <<current, empty, file, written, logged, dropped>>
          /\ writerAt' = "splice" /\ Gone = 0 /\ Gone' = 0
          /\ full' = IF Len(full) > Kept THEN SubSeq(full, 1, Kept) ELSE full
      BY <1>10 DEF Shrink, Goes, Gone
    <2>2. /\ full' \in Seq(Records)
          /\ \A i \in 1 .. Len(full') : i > 0 /\ i \in 1 .. Len(full) /\ full'[i] = full[i]
      <3>1. CASE Len(full) > 2
        BY <1>2, <2>1, <3>1 DEF Kept
      <3>2. CASE ~(Len(full) > 2)
        BY <1>2, <2>1, <3>2 DEF Kept
      <3> QED  BY <3>1, <3>2
    <2>3. /\ Buffers(file, current, full', empty) /\ Alone(file, current, full', 0, empty)
          /\ AllUpto(file, current, full', 0, empty, logged)
      BY <1>1, <2>1, <2>2, FewerFull
    <2> QED  BY <1>1, <2>1, <2>3 DEF AloneInv, WriterPlaces
  <1>11. CASE Splice
    <2>1. /\ UNCHANGED <<current, file, logged, dropped>> /\ empty' = empty \o full
          /\ full' = <<>> /\ written' = 0 /\ writerAt' = "while" /\ Gone = 0 /\ Gone' = 0
      BY <1>11 DEF Splice, Goes, Gone
    <2>2. /\ Buffers(file, current, full', empty') /\ Alone(file, current, full', 0, empty')
          /\ AllUpto(file, current, full', 0, empty', logged)
      BY <1>1, <2>1, MoreEmpty
    <2> QED  BY <1>1, <2>1, <2>2 DEF AloneInv, WriterPlaces
  <1>12. CASE Drain
    <2>1. /\ UNCHANGED <<empty, file, written, logged, dropped>> /\ writerAt' = "flush" /\ Gone = 0
          /\ Gone' = written /\ current' = <<>>
          /\ full' = IF current = <<>> THEN full ELSE Append(full, current)
      BY <1>12 DEF Drain, Goes, Gone
    <2>2. /\ Buffers(file, current', full', empty) /\ Alone(file, current', full', 0, empty)
          /\ AllUpto(file, current', full', 0, empty, logged)
      <3>1. CASE current = <<>>
        BY <1>1, <2>1, <3>1
      <3>2. CASE current # <<>>
        <4>1. Taken(empty, <<>>, empty)
          BY <1>2, EmptyFacts DEF Taken
        <4> QED  BY <1>1, <2>1, <3>2, <4>1, Rotates, RotatesUpto
      <3> QED  BY <3>1, <3>2
    <2>3. /\ full' \in Seq(Records)
          /\ \A i \in 1 .. Len(full') : i > 0 /\ i \in 1 .. Len(full') /\ full'[i] = full'[i]
      BY <2>2 DEF Buffers
    <2>4. /\ Buffers(file, current', full', empty) /\ Alone(file, current', full', written, empty)
          /\ AllUpto(file, current', full', written, empty, logged)
      BY <1>1, <2>2, <2>3, FewerFull
    <2> QED  BY <1>1, <2>1, <2>4 DEF AloneInv, WriterPlaces
  <1> QED  BY <1>3, <1>4, <1>5, <1>6, <1>7, <1>8, <1>9, <1>10, <1>11, <1>12 DEF LoggerNext, Work

(* No record is in the file twice, whatever log() and the writer do to the *)
(* lists at the same time (logger.hpp:228-262).                            *)
THEOREM RecordsWrittenOnce == LoggerSpec => []WrittenAtMostOnce
  <1>1. AloneInv => WrittenAtMostOnce
    BY DEF AloneInv, Alone, Once, WrittenAtMostOnce
  <1> QED  BY <1>1, AloneInitially, AloneStep, PTL DEF LoggerSpec

-----------------------------------------------------------------------------
Rising(s)    == \A k, l \in 1 .. Len(s) : k < l => s[k] < s[l]
Before(s, t) == \A x \in ToSet(s), y \in ToSet(t) : x < y

InOrder(fi, cu, fu, k) ==
  /\ Rising(fi) /\ Rising(cu) /\ Before(fi, cu)
  /\ \A i \in 1 .. Len(fu) : i > k => Rising(fu[i]) /\ Before(fi, fu[i]) /\ Before(fu[i], cu)
  /\ \A i, j \in 1 .. Len(fu) : i > k /\ i < j => Before(fu[i], fu[j])

HoldsAll(fi, cu, fu, k, S) ==
  \A r : r \in S <=> \/ r \in ToSet(fi) \/ r \in ToSet(cu)
                     \/ \E i \in 1 .. Len(fu) : i > k /\ r \in ToSet(fu[i])

(* As long as log() and the writer do not use the lists at once.           *)
Keeps ==
  /\ InOrder(file, current, full, written)
  /\ HoldsAll(file, current, full, written, (1 .. logged) \ dropped)
  /\ \A i \in 1 .. Len(empty) : empty[i] = <<>>
  /\ writerAt \in {"while", "wait", "drop", "drain"} => written = 0
  /\ writerAt \in {"shrink", "splice"} => written >= Len(full)
  /\ writerAt \notin {"flush", "ended"} => \A i \in 1 .. Len(full) : i <= written => full[i] = <<>>
  /\ writerAt \in {"drain", "flush", "ended"} => built = 2 /\ ~running

KeepsInv ==
  /\ AloneInv /\ built \in 0 .. 2 /\ (built = 1 => running) /\ raced \in BOOLEAN
  /\ ~raced => Keeps

LEMMA OrderFacts ==
  /\ Rising(<<>>) /\ \A s : Before(s, <<>>) /\ Before(<<>>, s)
  /\ \A s, t, u \in Records : Before(s, u) /\ Before(t, u) => Before(s \o t, u)
  <1>1. ASSUME NEW s \in Records, NEW t \in Records, NEW u \in Records, Before(s, u), Before(t, u)
        PROVE  Before(s \o t, u)
    BY <1>1, MembersJoin DEF Before
  <1>2. Rising(<<>>) /\ \A s : Before(s, <<>>) /\ Before(<<>>, s)
    BY EmptyFacts DEF Rising, Before
  <1> QED  BY <1>1, <1>2

LEMMA RisingJoin ==
  ASSUME NEW s \in Records, NEW t \in Records, Rising(s), Rising(t), Before(s, t)
  PROVE  Rising(s \o t)
  <1>1. PICK m \in Nat, n \in Nat : m = Len(s) /\ n = Len(t)
    BY DEF Records
  <1>2. PICK r : r = s \o t
    OBVIOUS
  <1>3. /\ r \in Records /\ DOMAIN s = 1 .. m /\ DOMAIN t = 1 .. n /\ DOMAIN r = 1 .. m + n
        /\ \A i \in 1 .. m : i \in 1 .. m + n /\ r[i] = s[i]
        /\ \A j \in 1 .. n : m + j \in 1 .. m + n /\ r[m + j] = t[j]
        /\ \A i \in 1 .. m + n : i \in 1 .. m \/ \E j \in 1 .. n : i = m + j
    <2>1. Joins(r, s, t, m, n)
      BY <1>1, <1>2, JoinAt
    <2> QED  BY <2>1 DEF Joins
  <1>4. \A i \in 1 .. m, j \in 1 .. n : s[i] < t[j]
    BY <1>3 DEF Before, ToSet
  <1>5. ASSUME NEW i \in 1 .. m + n, NEW j \in 1 .. m + n, i < j
        PROVE  r[i] < r[j]
    <2>1. CASE i \in 1 .. m /\ j \in 1 .. m
      BY <1>1, <1>3, <1>5, <2>1 DEF Rising
    <2>2. CASE i \in 1 .. m /\ j \notin 1 .. m
      <3>1. PICK y \in 1 .. n : j = m + y
        BY <1>3, <2>2
      <3> QED  BY <1>3, <1>4, <2>2, <3>1
    <2>3. CASE i \notin 1 .. m
      <3>1. PICK x \in 1 .. n : i = m + x
        BY <1>3, <2>3
      <3>2. j \notin 1 .. m
        BY <1>5, <3>1
      <3>3. PICK y \in 1 .. n : j = m + y
        BY <1>3, <3>2
      <3>4. x < y
        BY <1>5, <3>1, <3>3
      <3>5. t[x] < t[y]
        BY <1>1, <3>4 DEF Rising
      <3> QED  BY <1>3, <3>1, <3>3, <3>5
    <2> QED  BY <2>1, <2>2, <2>3
  <1>6. Len(r) = m + n
    BY <1>3 DEF Records
  <1>7. Rising(r)
    BY <1>5, <1>6 DEF Rising
  <1> QED  BY <1>2, <1>7

LEMMA RotatesInOrder ==
  ASSUME NEW fi, NEW cu, NEW fu \in Seq(Records), cu \in Records, NEW S,
         InOrder(fi, cu, fu, 0), HoldsAll(fi, cu, fu, 0, S)
  PROVE  /\ InOrder(fi, <<>>, Append(fu, cu), 0) /\ HoldsAll(fi, <<>>, Append(fu, cu), 0, S)
  <1>1. PICK n \in Nat : n = Len(fu)
    OBVIOUS
  <1>2. PICK f2 : f2 = Append(fu, cu)
    OBVIOUS
  <1>3. Len(f2) = n + 1 /\ f2[n + 1] = cu /\ \A i \in 1 .. n : f2[i] = fu[i]
    BY <1>1, <1>2
  <1>4. \A i \in 1 .. n + 1 : i > 0 /\ (i \in 1 .. n \/ i = n + 1)
    OBVIOUS
  <1>5. \A i \in 1 .. n : i \in 1 .. n + 1 /\ i > 0
    OBVIOUS
  <1>6. ASSUME NEW i \in 1 .. n + 1
        PROVE  Rising(f2[i]) /\ Before(fi, f2[i]) /\ Before(f2[i], <<>>)
    BY <1>1, <1>3, <1>4, OrderFacts DEF InOrder
  <1>7. ASSUME NEW i \in 1 .. n + 1, NEW j \in 1 .. n + 1, i < j PROVE Before(f2[i], f2[j])
    <2>1. i \in 1 .. n
      BY <1>7
    <2>2. CASE j = n + 1
      BY <1>1, <1>3, <1>5, <2>1, <2>2 DEF InOrder
    <2>3. CASE j \in 1 .. n
      BY <1>1, <1>3, <1>5, <1>7, <2>1, <2>3 DEF InOrder
    <2> QED  BY <1>4, <2>2, <2>3
  <1>8. InOrder(fi, <<>>, f2, 0)
    BY <1>3, <1>6, <1>7, OrderFacts DEF InOrder
  <1>9. ASSUME NEW r
        PROVE  (r \in ToSet(cu) \/ \E i \in 1 .. n : i > 0 /\ r \in ToSet(fu[i]))
               <=> \E i \in 1 .. n + 1 : i > 0 /\ r \in ToSet(f2[i])
    <2>1. n + 1 \in 1 .. n + 1 /\ n + 1 > 0
      OBVIOUS
    <2> QED  BY <1>3, <1>4, <1>5, <2>1
  <1>10. HoldsAll(fi, <<>>, f2, 0, S)
    BY <1>1, <1>3, <1>9, EmptyFacts DEF HoldsAll
  <1> QED  BY <1>2, <1>8, <1>10

LEMMA AddsFreshInOrder ==
  ASSUME NEW fi \in Records, NEW cu \in Records, NEW fu \in Seq(Records), NEW k \in Nat,
         NEW n \in Nat, AllUpto(fi, cu, fu, k, <<>>, n),
         NEW S, InOrder(fi, cu, fu, k), HoldsAll(fi, cu, fu, k, S)
  PROVE  /\ InOrder(fi, Append(cu, n + 1), fu, k)
         /\ HoldsAll(fi, Append(cu, n + 1), fu, k, S \cup {n + 1})
  <1>1. PICK a : a = <<n + 1>>
    OBVIOUS
  <1>2. a \in Records /\ ToSet(a) = {n + 1} /\ Rising(a)
    BY <1>1 DEF Records, ToSet, Rising
  <1>3. \A t : Upto(t, n) => Before(t, a)
    BY <1>2 DEF Upto, Before
  <1>4. PICK c2 : c2 = cu \o a
    OBVIOUS
  <1>5. Append(cu, n + 1) = c2
    BY <1>1, <1>4 DEF Records
  <1>6. ToSet(c2) = ToSet(cu) \cup {n + 1}
    BY <1>2, <1>4, MembersJoin
  <1>7. Rising(c2)
    BY <1>2, <1>3, <1>4, RisingJoin DEF InOrder, AllUpto
  <1>8. \A t : Upto(t, n) /\ Before(t, cu) => Before(t, c2)
    BY <1>3, <1>2, <1>6 DEF Before
  <1>9. InOrder(fi, c2, fu, k)
    BY <1>7, <1>8 DEF InOrder, AllUpto
  <1>10. HoldsAll(fi, c2, fu, k, S \cup {n + 1})
    BY <1>6 DEF HoldsAll
  <1> QED  BY <1>5, <1>9, <1>10

LEMMA WritesInOrder ==
  ASSUME NEW fi \in Records, NEW cu \in Records, NEW fu \in Seq(Records), NEW k \in Nat,
         NEW S, InOrder(fi, cu, fu, k), HoldsAll(fi, cu, fu, k, S),
         k + 1 \in 1 .. Len(fu), NEW f2 \in Seq(Records), Len(f2) = Len(fu),
         \A i \in 1 .. Len(fu) : i > k + 1 => f2[i] = fu[i]
  PROVE  /\ InOrder(fi \o fu[k + 1], cu, f2, k + 1)
         /\ HoldsAll(fi \o fu[k + 1], cu, f2, k + 1, S)
  <1>1. PICK j \in Nat : j = k + 1
    OBVIOUS
  <1>2. PICK b \in Records : b = fu[j]
    BY <1>1
  <1>3. PICK f : f = fi \o b
    OBVIOUS
  <1>4. j \in 1 .. Len(fu) /\ j > k /\ \A i \in 1 .. Len(fu) : /\ i > k <=> (i > j \/ i = j)
                                                              /\ i > j <=> j < i
    BY <1>1
  <1>5. /\ Rising(b) /\ Before(fi, b) /\ Before(b, cu) /\ Rising(fi) /\ Before(fi, cu)
        /\ \A i \in 1 .. Len(fu) : i > j => Before(b, fu[i]) /\ Before(fi, fu[i])
    BY <1>2, <1>4 DEF InOrder
  <1>6. f \in Records /\ ToSet(f) = ToSet(fi) \cup ToSet(b) /\ Rising(f)
    BY <1>3, <1>5, MembersJoin, RisingJoin
  <1>7. \A t \in Records : Before(fi, t) /\ Before(b, t) => Before(f, t)
    BY <1>3, OrderFacts
  <1>8. \A i \in 1 .. Len(fu) : fu[i] \in Records
    OBVIOUS
  <1>9. \A i \in 1 .. Len(fu) : i > j => f2[i] = fu[i]
    BY <1>1
  <1>10. ASSUME NEW i \in 1 .. Len(fu), i > j
         PROVE  Rising(f2[i]) /\ Before(f, f2[i]) /\ Before(f2[i], cu)
    BY <1>4, <1>5, <1>7, <1>8, <1>9, <1>10 DEF InOrder
  <1>11. ASSUME NEW i \in 1 .. Len(fu), NEW x \in 1 .. Len(fu), i > j, i < x
         PROVE  Before(f2[i], f2[x])
    <2>1. x > j /\ i > k
      BY <1>1, <1>11
    <2> QED  BY <1>9, <1>11, <2>1 DEF InOrder
  <1>12. InOrder(f, cu, f2, j)
    BY <1>5, <1>6, <1>7, <1>10, <1>11 DEF InOrder
  <1>13. HoldsAll(f, cu, f2, j, S)
    <2>1. ASSUME NEW r
          PROVE  (\E i \in 1 .. Len(fu) : i > k /\ r \in ToSet(fu[i]))
                 <=> r \in ToSet(b) \/ \E i \in 1 .. Len(fu) : i > j /\ r \in ToSet(f2[i])
      <3>1. ASSUME NEW i \in 1 .. Len(fu), i > k, r \in ToSet(fu[i])
            PROVE  r \in ToSet(b) \/ \E x \in 1 .. Len(fu) : x > j /\ r \in ToSet(f2[x])
        <4>1. CASE i = j
          BY <1>2, <3>1, <4>1
        <4>2. CASE i > j
          <5>1. f2[i] = fu[i]
            BY <1>9, <4>2
          <5> QED  BY <3>1, <4>2, <5>1
        <4>3. i > j \/ i = j
          <5>1. i \in Nat /\ i > k
            BY <3>1
          <5> QED  BY <1>1, <5>1
        <4> QED  BY <4>1, <4>2, <4>3
      <3>2. r \in ToSet(b) => \E i \in 1 .. Len(fu) : i > k /\ r \in ToSet(fu[i])
        BY <1>2, <1>4
      <3>3. ASSUME NEW i \in 1 .. Len(fu), i > j, r \in ToSet(f2[i])
            PROVE  i > k /\ r \in ToSet(fu[i])
        BY <1>4, <1>9, <3>3
      <3> QED  BY <3>1, <3>2, <3>3
    <2> QED  BY <1>6, <2>1 DEF HoldsAll
  <1> QED  BY <1>1, <1>2, <1>3, <1>12, <1>13

-----------------------------------------------------------------------------
LEMMA KeepsInitially == LoggerInit => KeepsInv
  <1> SUFFICES ASSUME LoggerInit PROVE KeepsInv
    OBVIOUS
  <1>1. /\ file = <<>> /\ current = <<>> /\ full = <<>> /\ empty = <<>> /\ writerAt = "while"
        /\ written = 0 /\ logged = 0 /\ dropped = {} /\ built = 0 /\ raced = FALSE
    BY DEF LoggerInit
  <1>2. InOrder(<<>>, <<>>, <<>>, 0)
    BY OrderFacts DEF InOrder
  <1>3. HoldsAll(<<>>, <<>>, <<>>, 0, (1 .. 0) \ {})
    BY EmptyFacts DEF HoldsAll
  <1>4. Keeps
    BY <1>1, <1>2, <1>3 DEF Keeps
  <1>5. AloneInv
    BY AloneInitially
  <1>6. built \in 0 .. 2 /\ built # 1
    BY <1>1
  <1>7. raced \in BOOLEAN
    BY <1>1
  <1> QED  BY <1>4, <1>5, <1>6, <1>7 DEF KeepsInv

(* The same when nothing but the places changes.                           *)
LEMMA KeepsStays ==
  ASSUME Keeps, UNCHANGED <<file, current, full, empty, written, logged, dropped>>,
         writerAt' \in {"while", "wait", "drop", "drain"} => written = 0,
         writerAt' \in {"shrink", "splice"} => written >= Len(full),
         writerAt' \notin {"flush", "ended"} =>
           writerAt \notin {"flush", "ended"} \/ \A i \in 1 .. Len(full) : i <= written => full[i] = <<>>,
         writerAt' \in {"drain", "flush", "ended"} => built' = 2 /\ ~running'
  PROVE  Keeps'
  BY DEF Keeps

LEMMA LogKeeps ==
  ASSUME KeepsInv, Log, ~raced'
  PROVE  Keeps'
  <1>1. ~raced /\ Keeps /\ AloneInv /\ running
    BY DEF KeepsInv, Log
  <1>2. /\ file \in Records /\ current \in Records /\ full \in Seq(Records) /\ empty \in Seq(Records)
        /\ written \in Nat /\ logged \in Nat /\ writerAt \in WriterPlaces /\ dropped \subseteq 1 .. logged
        /\ AllUpto(file, current, full, Gone, empty, logged)
    BY <1>1 DEF AloneInv, Buffers
  <1>3. writerAt \notin {"drain", "flush", "ended"}
    BY <1>1 DEF Keeps
  <1>4. Gone = 0
    BY <1>3 DEF Gone
  <1>5. UNCHANGED <<built, running, file, writerAt, written, dropped>> /\ logged' = logged + 1
    BY DEF Log
  <1>6. (1 .. logged') \ dropped' = ((1 .. logged) \ dropped) \cup {logged + 1}
    <2>1. \A n \in Nat : 1 .. n + 1 = (1 .. n) \cup {n + 1} /\ n + 1 \notin 1 .. n
      OBVIOUS
    <2> QED  BY <1>2, <1>5, <2>1
  <1>7. CASE current' = Append(current, logged') /\ UNCHANGED <<full, empty>>
    <2>1. AllUpto(file, current, full, written, <<>>, logged)
      <3>1. \A i \in 1 .. Len(full) : i > written => i > 0
        BY <1>2
      <3> QED  BY <1>2, <1>4, <3>1 DEF AllUpto
    <2>2. InOrder(file, current, full, written)
          /\ HoldsAll(file, current, full, written, (1 .. logged) \ dropped)
      BY <1>1 DEF Keeps
    <2>3. /\ InOrder(file, current', full, written)
          /\ HoldsAll(file, current', full, written, (1 .. logged') \ dropped')
      <3>1. PICK S : S = (1 .. logged) \ dropped
        OBVIOUS
      <3>2. /\ InOrder(file, Append(current, logged + 1), full, written)
            /\ HoldsAll(file, Append(current, logged + 1), full, written, S \cup {logged + 1})
        BY <1>2, <2>1, <2>2, <3>1, AddsFreshInOrder
      <3> QED  BY <1>5, <1>6, <1>7, <3>1, <3>2
    <2> QED  BY <1>1, <1>5, <1>7, <2>3 DEF Keeps
  <1>8. CASE /\ full' = Append(full, current) /\ current' = Append(NextEmpty, logged')
             /\ empty' = EmptyLeft /\ raced' = (raced \/ Unlocked)
    <2>1. written = 0
      BY <1>1, <1>2, <1>3, <1>8 DEF Unlocked, Keeps, WriterPlaces
    <2>2. NextEmpty = <<>>
      BY <1>1, <1>2 DEF NextEmpty, Keeps
    <2>3. EmptyLeft \in Seq(Records) /\ \A i \in 1 .. Len(EmptyLeft) : EmptyLeft[i] = <<>>
      <3>1. CASE empty = <<>>
        BY <1>2, <3>1 DEF EmptyLeft
      <3>2. CASE empty # <<>>
        <4>1. \A i \in 1 .. Len(Tail(empty)) : i + 1 \in 1 .. Len(empty) /\ Tail(empty)[i] = empty[i + 1]
          BY <1>2, <3>2
        <4> QED  BY <1>1, <1>2, <3>2, <4>1 DEF EmptyLeft, Keeps
      <3> QED  BY <3>1, <3>2
    <2>4. /\ InOrder(file, current, full, 0)
          /\ HoldsAll(file, current, full, 0, (1 .. logged) \ dropped)
      BY <1>1, <2>1 DEF Keeps
    <2>5. /\ InOrder(file, <<>>, full', 0)
          /\ HoldsAll(file, <<>>, full', 0, (1 .. logged) \ dropped)
      BY <1>2, <1>8, <2>4, RotatesInOrder
    <2>6. full' \in Seq(Records) /\ AllUpto(file, <<>>, full', 0, <<>>, logged)
      <3>1. Buffers(file, current, full, <<>>)
        BY <1>2 DEF Buffers
      <3>2. AllUpto(file, current, full, 0, <<>>, logged)
        BY <1>2, <1>4 DEF AllUpto
      <3>3. Taken(<<>>, <<>>, <<>>)
        BY EmptyFacts DEF Taken
      <3> QED  BY <1>2, <1>8, <3>1, <3>2, <3>3, RotatesUpto
    <2>7. /\ InOrder(file, current', full', 0)
          /\ HoldsAll(file, current', full', 0, (1 .. logged') \ dropped')
      <3>1. PICK S : S = (1 .. logged) \ dropped
        OBVIOUS
      <3>2. PICK f2 \in Seq(Records) : f2 = full'
        BY <2>6
      <3>3. /\ InOrder(file, <<>>, f2, 0) /\ HoldsAll(file, <<>>, f2, 0, S)
            /\ AllUpto(file, <<>>, f2, 0, <<>>, logged)
        BY <2>5, <2>6, <3>1, <3>2
      <3>4. /\ InOrder(file, Append(<<>>, logged + 1), f2, 0)
            /\ HoldsAll(file, Append(<<>>, logged + 1), f2, 0, S \cup {logged + 1})
        BY <1>2, <3>3, EmptyFacts, AddsFreshInOrder
      <3>5. current' = Append(<<>>, logged + 1)
        BY <1>5, <1>8, <2>2
      <3> QED  BY <1>6, <3>1, <3>2, <3>4, <3>5
    <2>8. \A i \in 1 .. Len(full') : ~(i <= 0)
      OBVIOUS
    <2>9. writerAt \notin {"shrink", "splice"}
      BY <1>1, <1>8 DEF Unlocked
    <2> QED  BY <1>1, <1>3, <1>5, <1>8, <2>1, <2>3, <2>7, <2>8, <2>9 DEF Keeps
  <1> QED  BY <1>7, <1>8 DEF Log

LEMMA SwapKeeps ==
  ASSUME KeepsInv, ~raced, Swap
  PROVE  Keeps'
  <1>1. Keeps /\ AloneInv
    BY DEF KeepsInv
  <1>2. /\ file \in Records /\ current \in Records /\ full \in Seq(Records) /\ empty \in Seq(Records)
    BY <1>1 DEF AloneInv, Buffers
  <1>3. /\ full' = Append(full, current) /\ current' = NextEmpty /\ empty' = EmptyLeft
        /\ UNCHANGED <<file, written, logged, dropped>> /\ writerAt' = "drop" /\ written = 0
    BY <1>1 DEF Swap, Goes, Keeps
  <1>4. NextEmpty = <<>>
    BY <1>1, <1>2 DEF NextEmpty, Keeps
  <1>5. \A i \in 1 .. Len(EmptyLeft) : EmptyLeft[i] = <<>>
    <2>1. CASE empty = <<>>
      BY <1>2, <2>1 DEF EmptyLeft
    <2>2. CASE empty # <<>>
      <3>1. \A i \in 1 .. Len(Tail(empty)) : i + 1 \in 1 .. Len(empty) /\ Tail(empty)[i] = empty[i + 1]
        BY <1>2, <2>2
      <3> QED  BY <1>1, <1>2, <2>2, <3>1 DEF EmptyLeft, Keeps
    <2> QED  BY <2>1, <2>2
  <1>6. /\ InOrder(file, current, full, 0)
        /\ HoldsAll(file, current, full, 0, (1 .. logged) \ dropped)
    BY <1>1, <1>3 DEF Keeps
  <1>7. /\ InOrder(file, current', full', 0)
        /\ HoldsAll(file, current', full', 0, (1 .. logged) \ dropped)
    BY <1>2, <1>3, <1>4, <1>6, RotatesInOrder
  <1>8. \A i \in 1 .. Len(full') : ~(i <= 0)
    OBVIOUS
  <1> QED  BY <1>3, <1>5, <1>7, <1>8 DEF Keeps

LEMMA DropKeeps ==
  ASSUME KeepsInv, ~raced, Drop
  PROVE  Keeps'
  <1>1. Keeps /\ AloneInv
    BY DEF KeepsInv
  <1>2. /\ file \in Records /\ current \in Records /\ full \in Seq(Records) /\ empty \in Seq(Records)
        /\ Len(full) \in Nat
    BY <1>1 DEF AloneInv, Buffers
  <1>3. /\ UNCHANGED <<current, empty, file, logged>> /\ writerAt' = "write" /\ Gone = 0
        /\ written = 0 /\ written' = 0
    BY <1>1 DEF Drop, Goes, Gone, Keeps
  <1>4. CASE UNCHANGED <<full, dropped>>
    BY <1>1, <1>3, <1>4 DEF Keeps
  <1>5. CASE /\ Len(full) > MaxBuffers /\ full' = SubSeq(full, 1, Kept)
             /\ dropped' = dropped \cup UNION {ToSet(full[i]) : i \in Kept + 1 .. Len(full)}
    <2>1. Len(full) > 2 /\ Len(full') = 2 /\ \A i \in 1 .. 2 : full'[i] = full[i]
      <3>1. Len(full) > 2
        BY <1>2, <1>5, BuffersAssumption DEF Kept
      <3> QED  BY <1>2, <1>5, <3>1 DEF Kept
    <2>2. /\ \A i \in 1 .. 2 : i \in 1 .. Len(full) /\ i > 0
          /\ \A i \in 3 .. Len(full) : i \in 1 .. Len(full) /\ i > 0 /\ i \notin 1 .. 2
          /\ \A i \in 1 .. Len(full) : i \in 1 .. 2 \/ i \in 3 .. Len(full)
      BY <1>2, <2>1
    <2>3. dropped' = dropped \cup UNION {ToSet(full[i]) : i \in 3 .. Len(full)}
      BY <1>5 DEF Kept
    <2>4. /\ \A i \in 3 .. Len(full) : Apart(file, full[i]) /\ Apart(current, full[i])
          /\ \A i \in 1 .. 2, j \in 3 .. Len(full) : Apart(full[i], full[j])
      BY <1>1, <1>3, <2>2 DEF AloneInv, Alone
    <2>5. InOrder(file, current, full', 0)
      BY <1>1, <1>3, <2>1, <2>2 DEF Keeps, InOrder
    <2>6. HoldsAll(file, current, full', 0, (1 .. logged) \ dropped')
      <3>1. ASSUME NEW r
            PROVE  r \in (1 .. logged) \ dropped <=> \/ r \in ToSet(file) \/ r \in ToSet(current)
                                                     \/ \E i \in 1 .. Len(full) : r \in ToSet(full[i])
        BY <1>1, <1>3, <2>2 DEF Keeps, HoldsAll
      <3>2. ASSUME NEW r
            PROVE  r \in dropped' <=> r \in dropped \/ \E i \in 3 .. Len(full) : r \in ToSet(full[i])
        BY <2>3
      <3>3. ASSUME NEW r, NEW i \in 3 .. Len(full), r \in ToSet(full[i])
            PROVE  /\ r \notin ToSet(file) /\ r \notin ToSet(current)
                   /\ \A j \in 1 .. 2 : r \notin ToSet(full'[j])
        BY <2>1, <2>4, <3>3 DEF Apart
      <3>4. ASSUME NEW r
            PROVE  r \in (1 .. logged) \ dropped' <=> \/ r \in ToSet(file) \/ r \in ToSet(current)
                                                      \/ \E i \in 1 .. 2 : r \in ToSet(full'[i])
        <4>1. CASE \E i \in 3 .. Len(full) : r \in ToSet(full[i])
          BY <3>2, <3>3, <4>1
        <4>2. CASE ~\E i \in 3 .. Len(full) : r \in ToSet(full[i])
          <5>1. (\E i \in 1 .. Len(full) : r \in ToSet(full[i]))
                <=> \E i \in 1 .. 2 : r \in ToSet(full'[i])
            BY <2>1, <2>2, <4>2
          <5> QED  BY <3>1, <3>2, <4>2, <5>1
        <4> QED  BY <4>1, <4>2
      <3>5. \A i \in 1 .. 2 : i > 0
        OBVIOUS
      <3> QED  BY <2>1, <3>4, <3>5 DEF HoldsAll
    <2>7. \A i \in 1 .. Len(full') : ~(i <= 0)
      OBVIOUS
    <2> QED  BY <1>1, <1>3, <2>5, <2>6, <2>7 DEF Keeps
  <1> QED  BY <1>4, <1>5 DEF Drop

LEMMA WriteKeeps ==
  ASSUME KeepsInv, ~raced, WriteOne \/ WriteLast
  PROVE  Keeps'
  <1>1. Keeps /\ AloneInv
    BY DEF KeepsInv
  <1>2. /\ file \in Records /\ current \in Records /\ full \in Seq(Records) /\ empty \in Seq(Records)
        /\ Len(full) \in Nat /\ written \in Nat
    BY <1>1 DEF AloneInv, Buffers
  <1>3. /\ written + 1 \in 1 .. Len(full) /\ written' = written + 1
        /\ file' = file \o full[written + 1]
        /\ UNCHANGED <<current, empty, writerAt, logged, dropped, built, running>>
        /\ writerAt \in {"write", "flush"}
    <2>1. written < Len(full) /\ written' = written + 1 /\ file' = file \o full[written']
          /\ writerAt \in {"write", "flush"}
          /\ UNCHANGED <<current, empty, writerAt, logged, dropped, built, running>>
      BY DEF WriteOne, WriteLast
    <2>2. written + 1 \in 1 .. Len(full)
      BY <1>2, <2>1
    <2> QED  BY <2>1, <2>2
  <1>4. /\ full' \in Seq(Records) /\ Len(full') = Len(full)
        /\ \A i \in 1 .. Len(full) : i > written + 1 => full'[i] = full[i]
        /\ writerAt = "write" => \A i \in 1 .. Len(full) : i <= written + 1 => full'[i] = <<>>
    <2>1. CASE WriteOne
      <3>1. full' = [full EXCEPT ![written + 1] = <<>>]
        BY <2>1 DEF WriteOne
      <3>2. full'[written + 1] = <<>> /\ \A i \in 1 .. Len(full) : i # written + 1 => full'[i] = full[i]
        BY <1>2, <1>3, <3>1
      <3>3. \A i \in 1 .. Len(full) : i <= written => full[i] = <<>>
        BY <1>1, <2>1 DEF WriteOne, Keeps
      <3>4. \A i \in 1 .. Len(full) : i <= written + 1 => i <= written \/ i = written + 1
        BY <1>2
      <3>5. full' \in Seq(Records) /\ Len(full') = Len(full)
        BY <1>2, <1>3, <3>1, EmptyFacts
      <3> QED  BY <1>2, <3>2, <3>3, <3>4, <3>5
    <2>2. CASE WriteLast
      BY <1>2, <2>2 DEF WriteLast
    <2> QED  BY <2>1, <2>2
  <1>5. /\ InOrder(file, current, full, written)
        /\ HoldsAll(file, current, full, written, (1 .. logged) \ dropped)
    BY <1>1 DEF Keeps
  <1>6. /\ InOrder(file', current, full', written + 1)
        /\ HoldsAll(file', current, full', written + 1, (1 .. logged) \ dropped)
    BY <1>2, <1>3, <1>4, <1>5, WritesInOrder
  <1> QED  BY <1>1, <1>3, <1>4, <1>6 DEF Keeps

LEMMA ShrinkKeeps ==
  ASSUME KeepsInv, ~raced, Shrink
  PROVE  Keeps'
  <1>1. Keeps /\ AloneInv
    BY DEF KeepsInv
  <1>2. full \in Seq(Records) /\ Len(full) \in Nat /\ written \in Nat
    BY <1>1 DEF AloneInv, Buffers
  <1>3. /\ UNCHANGED <<current, empty, file, written, logged, dropped>> /\ writerAt' = "splice"
        /\ full' = IF Len(full) > 2 THEN SubSeq(full, 1, 2) ELSE full
        /\ written >= Len(full) /\ \A i \in 1 .. Len(full) : i <= written => full[i] = <<>>
    BY <1>1 DEF Shrink, Goes, Kept, Keeps
  <1>4. Len(full') \in Nat /\ Len(full') <= Len(full) /\ \A i \in 1 .. Len(full') : full'[i] = full[i]
    <2>1. CASE Len(full) > 2
      BY <1>2, <1>3, <2>1
    <2>2. CASE ~(Len(full) > 2)
      BY <1>2, <1>3, <2>2
    <2> QED  BY <2>1, <2>2
  <1>5. /\ \A i \in 1 .. Len(full) : ~(i > written)
        /\ \A i \in 1 .. Len(full') : ~(i > written) /\ i \in 1 .. Len(full)
    BY <1>2, <1>3, <1>4
  <1>6. InOrder(file, current, full', written)
    BY <1>1, <1>5 DEF Keeps, InOrder
  <1>7. HoldsAll(file, current, full', written, (1 .. logged) \ dropped)
    BY <1>1, <1>5 DEF Keeps, HoldsAll
  <1>8. written >= Len(full')
    BY <1>2, <1>3, <1>4
  <1> QED  BY <1>1, <1>3, <1>4, <1>5, <1>6, <1>7, <1>8 DEF Keeps

LEMMA SpliceKeeps ==
  ASSUME KeepsInv, ~raced, Splice
  PROVE  Keeps'
  <1>1. Keeps /\ AloneInv
    BY DEF KeepsInv
  <1>2. full \in Seq(Records) /\ empty \in Seq(Records) /\ Len(full) \in Nat /\ written \in Nat
    BY <1>1 DEF AloneInv, Buffers
  <1>3. /\ UNCHANGED <<current, file, logged, dropped>> /\ empty' = empty \o full
        /\ full' = <<>> /\ written' = 0 /\ writerAt' = "while"
        /\ written >= Len(full) /\ \A i \in 1 .. Len(full) : i <= written => full[i] = <<>>
    BY <1>1 DEF Splice, Goes, Keeps
  <1>4. \A i \in 1 .. Len(full) : i <= written /\ ~(i > written)
    BY <1>2, <1>3
  <1>5. \A i \in 1 .. Len(empty') : empty'[i] = <<>>
    <2>1. PICK l \in Nat, m \in Nat : l = Len(empty) /\ m = Len(full)
      BY <1>2
    <2>2. Len(empty') = l + m
      BY <1>2, <1>3, <2>1
    <2>3. \A i \in 1 .. l + m : \/ i \in 1 .. l /\ empty'[i] = empty[i]
                                \/ i - l \in 1 .. m /\ empty'[i] = full[i - l]
      BY <1>2, <1>3, <2>1
    <2>4. /\ \A i \in 1 .. l : empty[i] = <<>>
          /\ \A i \in 1 .. m : full[i] = <<>>
      BY <1>1, <1>3, <1>4, <2>1 DEF Keeps
    <2> QED  BY <2>2, <2>3, <2>4
  <1>6. InOrder(file, current, <<>>, 0)
    BY <1>1 DEF Keeps, InOrder
  <1>7. HoldsAll(file, current, <<>>, 0, (1 .. logged) \ dropped)
    BY <1>1, <1>4 DEF Keeps, HoldsAll
  <1> QED  BY <1>3, <1>5, <1>6, <1>7 DEF Keeps

LEMMA DrainKeeps ==
  ASSUME KeepsInv, ~raced, Drain
  PROVE  Keeps'
  <1>1. Keeps /\ AloneInv
    BY DEF KeepsInv
  <1>2. current \in Records /\ full \in Seq(Records)
    BY <1>1 DEF AloneInv, Buffers
  <1>3. /\ UNCHANGED <<built, running, empty, file, written, logged, dropped>> /\ writerAt' = "flush"
        /\ full' = IF current = <<>> THEN full ELSE Append(full, current)
        /\ current' = <<>> /\ written = 0 /\ built = 2 /\ ~running
    BY <1>1 DEF Drain, Goes, Keeps
  <1>4. /\ InOrder(file, current, full, 0)
        /\ HoldsAll(file, current, full, 0, (1 .. logged) \ dropped)
    BY <1>1, <1>3 DEF Keeps
  <1>5. /\ InOrder(file, <<>>, full', 0)
        /\ HoldsAll(file, <<>>, full', 0, (1 .. logged) \ dropped)
    <2>1. CASE current = <<>>
      BY <1>3, <1>4, <2>1
    <2>2. CASE current # <<>>
      BY <1>2, <1>3, <1>4, <2>2, RotatesInOrder
    <2> QED  BY <2>1, <2>2
  <1> QED  BY <1>1, <1>3, <1>5 DEF Keeps

LEMMA KeepsStep == KeepsInv /\ [LoggerNext]_loggerVars => KeepsInv'
  <1> SUFFICES ASSUME KeepsInv, [LoggerNext]_loggerVars PROVE KeepsInv'
    OBVIOUS
  <1>1. AloneInv'
    BY AloneStep DEF KeepsInv
  <1>2. built' \in 0 .. 2 /\ (built' = 1 => running') /\ raced' \in BOOLEAN
    <2>1. CASE Build
      <3>1. built \in 0 .. 2 /\ built < 2 /\ built' = built + 1 /\ running'
        BY <2>1 DEF KeepsInv, Build
      <3>2. built' \in 0 .. 2
        BY <3>1
      <3>3. raced' = raced \/ raced' = (raced \/ Unlocked)
        BY <2>1 DEF Build
      <3>4. raced' \in BOOLEAN
        BY <3>3 DEF KeepsInv
      <3> QED  BY <3>1, <3>2, <3>4
    <2>2. CASE Log
      BY <2>2 DEF KeepsInv, Log
    <2>3. CASE Destruct
      BY <2>3 DEF KeepsInv, Destruct
    <2>4. CASE Work
      BY <2>4 DEF KeepsInv, Work, TestRunning, Swap, Drop, WriteOne, WroteAll, Shrink, Splice,
                  Drain, WriteLast, WroteLast
    <2>5. CASE UNCHANGED loggerVars
      BY <2>5 DEF KeepsInv, loggerVars
    <2> QED  BY <2>1, <2>2, <2>3, <2>4, <2>5 DEF LoggerNext
  <1>3. ASSUME ~raced' PROVE Keeps'
    <2>1. ~raced
      BY <1>3 DEF KeepsInv, LoggerNext, Build, Log, Destruct, Work, TestRunning, Swap, Drop, WriteOne,
                  WroteAll, Shrink, Splice, Drain, WriteLast, WroteLast, loggerVars
    <2>2. Keeps /\ AloneInv
      BY <2>1 DEF KeepsInv
    <2>3. CASE Build
      <3>1. /\ UNCHANGED <<file, current, full, written, logged, dropped, writerAt>>
            /\ writerAt \notin {"drain", "flush", "ended"}
        BY <2>2, <2>3 DEF Build, Keeps
      <3>2. \A i \in 1 .. Len(empty') : empty'[i] = <<>>
        <4>1. CASE empty' = empty
          BY <2>2, <4>1 DEF Keeps
        <4>2. CASE empty' = empty \o <<<<>>, <<>>>>
          <5>1. empty \in Seq(Records)
            BY <2>2 DEF AloneInv, Buffers
          <5>2. PICK l \in Nat : l = Len(empty)
            BY <5>1
          <5>3. Len(empty') = l + 2 /\ \A i \in 1 .. l : empty'[i] = empty[i]
            BY <4>2, <5>1, <5>2
          <5>4. empty'[l + 1] = <<>> /\ empty'[l + 2] = <<>>
            BY <4>2, <5>1, <5>2
          <5>5. \A i \in 1 .. l + 2 : i \in 1 .. l \/ i = l + 1 \/ i = l + 2
            OBVIOUS
          <5> QED  BY <2>2, <5>2, <5>3, <5>4, <5>5 DEF Keeps
        <4> QED  BY <2>3, <4>1, <4>2 DEF Build
      <3> QED  BY <2>2, <3>1, <3>2 DEF Keeps
    <2>4. CASE Log
      BY <1>3, <2>4, LogKeeps
    <2>5. CASE Destruct \/ TestRunning \/ WroteAll \/ WroteLast \/ UNCHANGED loggerVars
      <3>1. UNCHANGED <<file, current, full, empty, written, logged, dropped>>
        BY <2>5 DEF Destruct, TestRunning, WroteAll, WroteLast, loggerVars
      <3>2. writerAt' \in {"while", "wait", "drop", "drain"} => written = 0
        BY <2>2, <2>5 DEF Destruct, TestRunning, WroteAll, WroteLast, Goes, loggerVars, Keeps
      <3>3. writerAt' \in {"shrink", "splice"} => written >= Len(full)
        <4>1. full \in Seq(Records) /\ Len(full) \in Nat
          BY <2>2 DEF AloneInv, Buffers
        <4> QED
          BY <2>2, <2>5, <4>1 DEF Destruct, TestRunning, WroteAll, WroteLast, Goes, loggerVars, Keeps
      <3>4. writerAt' \notin {"flush", "ended"} => writerAt \notin {"flush", "ended"}
        BY <2>5 DEF Destruct, TestRunning, WroteAll, WroteLast, Goes, loggerVars
      <3>5. writerAt' \in {"drain", "flush", "ended"} => built' = 2 /\ ~running'
        <4>1. CASE TestRunning
          <5>1. writerAt' # "flush" /\ writerAt' # "ended" /\ UNCHANGED <<built, running>>
            BY <4>1 DEF TestRunning
          <5>2. writerAt' = "drain" => built # 0 /\ ~running
            BY <1>3, <4>1 DEF TestRunning, KeepsInv
          <5> QED  BY <5>1, <5>2 DEF KeepsInv
        <4>2. CASE Destruct \/ WroteAll \/ WroteLast \/ UNCHANGED loggerVars
          BY <2>2, <4>2 DEF Destruct, WroteAll, WroteLast, Goes, loggerVars, Keeps
        <4> QED  BY <2>5, <4>1, <4>2
      <3> QED  BY <2>2, <3>1, <3>2, <3>3, <3>4, <3>5, KeepsStays
    <2>6. CASE Swap
      BY <2>1, <2>6, SwapKeeps
    <2>7. CASE Drop
      BY <2>1, <2>7, DropKeeps
    <2>8. CASE WriteOne \/ WriteLast
      BY <2>1, <2>8, WriteKeeps
    <2>9. CASE Shrink
      BY <2>1, <2>9, ShrinkKeeps
    <2>10. CASE Splice
      BY <2>1, <2>10, SpliceKeeps
    <2>11. CASE Drain
      BY <2>1, <2>11, DrainKeeps
    <2> QED  BY <2>3, <2>4, <2>5, <2>6, <2>7, <2>8, <2>9, <2>10, <2>11 DEF LoggerNext, Work
  <1> QED  BY <1>1, <1>2, <1>3 DEF KeepsInv

-----------------------------------------------------------------------------
(* The parts of Stream: the file, the n buffers to be written, the current *)
(* buffer.                                                                 *)
Parts(s, fi, cu, fu, k, n) ==
  /\ DOMAIN s = 1 .. n + 2 /\ s[1] = fi /\ s[n + 2] = cu
  /\ \A i \in 1 .. n : k + i \in 1 .. Len(fu) /\ s[1 + i] = fu[k + i]
  /\ \A x \in 1 .. Len(fu) : x > k => \E i \in 1 .. n : x = k + i

LEMMA StreamParts ==
  ASSUME NEW fi \in Records, NEW cu \in Records, NEW fu \in Seq(Records), NEW k \in Nat
  PROVE  \E n \in Nat : Parts(<<fi>> \o SubSeq(fu, k + 1, Len(fu)) \o <<cu>>, fi, cu, fu, k, n)
  <1>1. PICK l \in Nat : l = Len(fu)
    OBVIOUS
  <1>2. PICK t : t = SubSeq(fu, k + 1, l)
    OBVIOUS
  <1>3. PICK n \in Nat : n = IF k < l THEN l - k ELSE 0
    <2>1. (IF k < l THEN l - k ELSE 0) \in Nat
      OBVIOUS
    <2> QED  BY <2>1
  <1>4. t \in Seq(Records) /\ Len(t) = n
    <2>1. CASE k < l
      BY <1>1, <1>2, <1>3, <2>1
    <2>2. CASE ~(k < l)
      BY <1>1, <1>2, <1>3, <2>2
    <2> QED  BY <2>1, <2>2
  <1>5. \A i \in 1 .. n : k + i \in 1 .. l /\ t[i] = fu[k + i]
    <2>1. CASE k < l
      <3>1. \A i \in 1 .. n : k + i \in 1 .. l /\ (k + 1) + i - 1 = k + i /\ i \in 1 .. l - (k + 1) + 1
        BY <1>3, <2>1
      <3>2. \A i \in 1 .. n : t[i] = fu[(k + 1) + i - 1]
        BY <1>1, <1>2, <1>3, <2>1
      <3> QED  BY <3>1, <3>2
    <2>2. CASE ~(k < l)
      BY <1>3, <2>2
    <2> QED  BY <2>1, <2>2
  <1>6. \A x \in 1 .. l : x > k => x - k \in 1 .. n /\ x = k + (x - k)
    BY <1>3
  <1>7. PICK s : s = <<fi>> \o t \o <<cu>>
    OBVIOUS
  <1>8. s \in Seq(Records) /\ Len(s) = n + 2
    BY <1>4, <1>7
  <1>9. s[1] = fi /\ s[n + 2] = cu
    BY <1>4, <1>7
  <1>10. \A i \in 1 .. n : s[1 + i] = t[i]
    BY <1>4, <1>7
  <1>11. DOMAIN s = 1 .. n + 2
    BY <1>8
  <1>12. Parts(s, fi, cu, fu, k, n)
    BY <1>1, <1>5, <1>6, <1>9, <1>10, <1>11 DEF Parts
  <1> QED  BY <1>1, <1>2, <1>7, <1>12

LEMMA StreamKeeps ==
  ASSUME NEW fi \in Records, NEW cu \in Records, NEW fu \in Seq(Records), NEW k \in Nat,
         NEW S, InOrder(fi, cu, fu, k), HoldsAll(fi, cu, fu, k, S),
         NEW s, NEW n \in Nat, Parts(s, fi, cu, fu, k, n)
  PROVE  /\ UNION {ToSet(s[i]) : i \in DOMAIN s} = S
         /\ \A i \in DOMAIN s : Rising(s[i]) /\ s[i] \in Records
         /\ \A i, j \in DOMAIN s : i < j => Before(s[i], s[j])
  <1>1. DOMAIN s = 1 .. n + 2 /\ s[1] = fi /\ s[n + 2] = cu
    BY DEF Parts
  <1>2. \A i \in 1 .. n : k + i \in 1 .. Len(fu) /\ k + i > k /\ s[1 + i] = fu[k + i]
    BY DEF Parts
  <1>3. \A x \in 1 .. n + 2 : x = 1 \/ x = n + 2 \/ \E i \in 1 .. n : x = 1 + i
    <2>1. \A x \in 1 .. n + 2 : x = 1 \/ x = n + 2 \/ (x - 1 \in 1 .. n /\ x = 1 + (x - 1))
      OBVIOUS
    <2> QED  BY <2>1
  <1>4. 1 \in 1 .. n + 2 /\ n + 2 \in 1 .. n + 2 /\ \A i \in 1 .. n : 1 + i \in 1 .. n + 2
    OBVIOUS
  <1>5. ASSUME NEW r, NEW x \in 1 .. n + 2, r \in ToSet(s[x]) PROVE r \in S
    <2>1. CASE x = 1
      BY <1>1, <1>5, <2>1 DEF HoldsAll
    <2>2. CASE x = n + 2
      BY <1>1, <1>5, <2>2 DEF HoldsAll
    <2>3. CASE \E i \in 1 .. n : x = 1 + i
      BY <1>2, <1>5, <2>3 DEF HoldsAll
    <2> QED  BY <1>3, <2>1, <2>2, <2>3
  <1>6. ASSUME NEW r \in S PROVE \E x \in 1 .. n + 2 : r \in ToSet(s[x])
    <2>1. CASE r \in ToSet(fi)
      BY <1>1, <1>4, <2>1
    <2>2. CASE r \in ToSet(cu)
      BY <1>1, <1>4, <2>2
    <2>3. CASE \E y \in 1 .. Len(fu) : y > k /\ r \in ToSet(fu[y])
      <3>1. PICK y \in 1 .. Len(fu) : y > k /\ r \in ToSet(fu[y])
        BY <2>3
      <3>2. PICK i \in 1 .. n : y = k + i
        BY <3>1 DEF Parts
      <3>3. s[1 + i] = fu[y]
        BY <1>2, <3>2
      <3> QED  BY <1>4, <3>1, <3>3
    <2> QED  BY <2>1, <2>2, <2>3 DEF HoldsAll
  <1>7. ASSUME NEW x \in 1 .. n + 2 PROVE Rising(s[x]) /\ s[x] \in Records
    <2>1. CASE x = 1 \/ x = n + 2
      BY <1>1, <2>1 DEF InOrder
    <2>2. CASE \E i \in 1 .. n : x = 1 + i
      BY <1>2, <2>2 DEF InOrder
    <2> QED  BY <1>3, <2>1, <2>2
  <1>8. ASSUME NEW x \in 1 .. n + 2, NEW y \in 1 .. n + 2, x < y PROVE Before(s[x], s[y])
    <2>1. x # n + 2 /\ y # 1
      BY <1>8
    <2>2. CASE x = 1 /\ y = n + 2
      BY <1>1, <2>2 DEF InOrder
    <2>3. CASE x = 1 /\ \E j \in 1 .. n : y = 1 + j
      BY <1>1, <1>2, <2>3 DEF InOrder
    <2>4. CASE y = n + 2 /\ \E i \in 1 .. n : x = 1 + i
      BY <1>1, <1>2, <2>4 DEF InOrder
    <2>5. CASE (\E i \in 1 .. n : x = 1 + i) /\ \E j \in 1 .. n : y = 1 + j
      <3>1. PICK i \in 1 .. n, j \in 1 .. n : x = 1 + i /\ y = 1 + j
        BY <2>5
      <3>2. k + i < k + j
        BY <1>8, <3>1
      <3> QED  BY <1>2, <3>1, <3>2 DEF InOrder
    <2> QED  BY <1>3, <2>1, <2>2, <2>3, <2>4, <2>5
  <1>9. UNION {ToSet(s[i]) : i \in DOMAIN s} = S
    BY <1>1, <1>5, <1>6
  <1> QED  BY <1>1, <1>7, <1>8, <1>9

LEMMA KeepsAll == KeepsInv => NothingLostUnraced
  <1> SUFFICES ASSUME KeepsInv, ~raced PROVE NothingLostUnraced
    BY DEF NothingLostUnraced
  <1>1. Keeps /\ AloneInv
    BY DEF KeepsInv
  <1>2. /\ file \in Records /\ current \in Records /\ full \in Seq(Records) /\ written \in Nat
    BY <1>1 DEF AloneInv, Buffers
  <1>3. PICK n \in Nat : Parts(Stream, file, current, full, written, n)
    BY <1>2, StreamParts DEF Stream
  <1>4. /\ InOrder(file, current, full, written)
        /\ HoldsAll(file, current, full, written, (1 .. logged) \ dropped)
    BY <1>1 DEF Keeps
  <1>5. PICK s : s = Stream
    OBVIOUS
  <1>6. /\ UNION {ToSet(s[i]) : i \in DOMAIN s} = (1 .. logged) \ dropped
        /\ \A i \in DOMAIN s : Rising(s[i]) /\ s[i] \in Records
        /\ \A i, j \in DOMAIN s : i < j => Before(s[i], s[j])
    <2>1. PICK S : S = (1 .. logged) \ dropped
      OBVIOUS
    <2>2. /\ InOrder(file, current, full, written) /\ HoldsAll(file, current, full, written, S)
          /\ Parts(s, file, current, full, written, n)
      BY <1>3, <1>4, <1>5, <2>1
    <2>3. /\ UNION {ToSet(s[i]) : i \in DOMAIN s} = S
          /\ \A i \in DOMAIN s : Rising(s[i]) /\ s[i] \in Records
          /\ \A i, j \in DOMAIN s : i < j => Before(s[i], s[j])
      BY <1>2, <2>2, StreamKeeps
    <2> QED  BY <2>1, <2>3
  <1>7. ASSUME NEW i \in DOMAIN s, NEW j \in DOMAIN s, NEW k \in DOMAIN s[i], NEW l \in DOMAIN s[j],
               i < j \/ (i = j /\ k < l)
        PROVE  s[i][k] < s[j][l]
    <2>1. CASE i < j
      BY <1>6, <2>1 DEF Before, ToSet
    <2>2. CASE i = j /\ k < l
      <3>1. DOMAIN s[i] = 1 .. Len(s[i])
        BY <1>6 DEF Records
      <3> QED  BY <1>6, <2>2, <3>1 DEF Rising
    <2> QED  BY <1>7, <2>1, <2>2
  <1> QED  BY <1>5, <1>6, <1>7 DEF NothingLostUnraced

(* Unless log() changed a list while the writer used it without the mutex, *)
(* every record logged is dropped and reported as such, or it is in the    *)
(* file, in a full buffer or in the current one, and the file and the      *)
(* buffers behind it are in the order the records were logged              *)
(* (logger.hpp:201-208, 228-262).                                          *)
THEOREM NothingIsLost == LoggerSpec => []NothingLostUnraced
  BY KeepsInitially, KeepsStep, KeepsAll, PTL DEF LoggerSpec
=============================================================================
