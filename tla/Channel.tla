------------------------------ MODULE Channel ------------------------------
(***************************************************************************)
(* sync/channel: a bounded channel between the coroutines that hold one of *)
(* its Senders and those that hold one of its Receivers.                   *)
(*                                                                         *)
(* send and recv run under the channel's Mutex, here the line of those who *)
(* have called lock(), its head the owner (what FifoLock says of Mutex).   *)
(* The last handle of a side runs destroy(), which does not take it:       *)
(* is_closed_ is read before an awaiter is listed, and the lists are       *)
(* walked and cleared while it may be.  An operation on a std::list is one *)
(* step; the interleavings inside one are undefined and not enumerated.    *)
(*                                                                         *)
(* No action uses PushUnchecked, TakeWaitingKeeps and WakeSendersFirst:    *)
(* each is a faulty variant of the next definition, for mutation testing.  *)
(***************************************************************************)
EXTENDS Integers, Sequences, SequencesExt

CONSTANTS Senders, Receivers,  \* coroutines that may hold a handle
          Cap,                 \* the capacity given to make()
          MaxValue             \* bound: values sent are 1 .. MaxValue

ASSUME ChannelAssumption ==
  /\ Senders \cap Receivers = {} /\ Senders # {} /\ Receivers # {}
  /\ Cap \in Nat /\ MaxValue \in Nat

Users == Senders \cup Receivers
Side(c) == IF c \in Senders THEN Senders ELSE Receivers

VARIABLES
  handle,            \* handle[c]: c holds a Sender or a Receiver
  senders,           \* num_senders_
  receivers,         \* num_receivers_
  closed,            \* is_closed_
  ring,              \* buf_
  waitingSenders,
  waitingReceivers,
  line,              \* the mutex: who has called lock(), the owner first
  at,                \* at[c]: where c is
  value,             \* value[c]: what c sends
  lastValue,         \* the last value any coroutine began to send
  buffered,          \* history: every value that went through buf_, in order
  got                \* history: the values receivers were given, in order

channelVars == <<handle, senders, receivers, closed, ring, waitingSenders,
                 waitingReceivers, line, at, value, lastValue, buffered, got>>
handles == <<handle, senders, receivers>>
history == <<lastValue, buffered, got>>
lists   == <<waitingSenders, waitingReceivers>>

(* make(): one handle on each side, the others are copies.                 *)
ChannelInit ==
  /\ LET first == {CHOOSE s \in Senders : TRUE, CHOOSE r \in Receivers : TRUE}
     IN handle = [c \in Users |-> c \in first]
  /\ senders = 1 /\ receivers = 1
  /\ closed = FALSE
  /\ ring = <<>> /\ waitingSenders = <<>> /\ waitingReceivers = <<>> /\ line = <<>>
  /\ at = [c \in Users |-> "idle"]
  /\ value = [c \in Senders |-> 0]
  /\ lastValue = 0 /\ buffered = <<>> /\ got = <<>>

Goto(c, place) == at' = [at EXCEPT ![c] = place]
Owns(c) == line # <<>> /\ Head(line) = c

-----------------------------------------------------------------------------
(* send() and recv(): co_await mutex_.lock().                              *)
BeginSend(c) ==
  /\ at[c] = "idle" /\ handle[c] /\ lastValue < MaxValue
  /\ lastValue' = lastValue + 1
  /\ value' = [value EXCEPT ![c] = lastValue']
  /\ line' = Append(line, c)
  /\ Goto(c, "locking")
  /\ UNCHANGED <<handles, closed, ring, lists, buffered, got>>

BeginRecv(c) ==
  /\ at[c] = "idle" /\ handle[c]
  /\ line' = Append(line, c)
  /\ Goto(c, "locking")
  /\ UNCHANGED <<handles, closed, ring, lists, value, history>>

(* The operation and its coroutine's wait end, and the mutex is released.  *)
Done(c, woken) ==
  /\ at' = [u \in Users |-> IF u \in woken \cup {c} THEN "idle" ELSE at[u]]
  /\ value' = [s \in Senders |-> IF s \in woken \cup {c} THEN 0 ELSE value[s]]
  /\ line' = Tail(line)

(* SendAwaiter: a receiver waits and is given the value.                   *)
HandOver(c) ==
  /\ at[c] = "locking" /\ Owns(c) /\ waitingReceivers # <<>>
  /\ waitingReceivers' = Tail(waitingReceivers)
  /\ got' = Append(got, value[c])
  /\ Done(c, {Head(waitingReceivers)})
  /\ UNCHANGED <<handles, closed, ring, waitingSenders, lastValue, buffered>>

(* There is room.  The flag is not looked at: a closed channel buffers.    *)
PushUnchecked(c) ==
  /\ at[c] = "locking" /\ Owns(c) /\ Len(ring) < Cap
  /\ ring' = Append(ring, value[c])
  /\ buffered' = Append(buffered, value[c])
  /\ Done(c, {})
  /\ UNCHANGED <<handles, closed, lists, lastValue, got>>

Push(c) ==
  /\ at[c] = "locking" /\ Owns(c) /\ waitingReceivers = <<>> /\ Len(ring) < Cap
  /\ ring' = Append(ring, value[c])
  /\ buffered' = Append(buffered, value[c])
  /\ Done(c, {})
  /\ UNCHANGED <<handles, closed, lists, lastValue, got>>

(* RecvAwaiter: a sender waits; its value goes before the buffered ones.   *)
TakeWaitingKeeps(c) ==
  /\ at[c] = "locking" /\ Owns(c) /\ waitingSenders # <<>>
  /\ got' = Append(got, value[Head(waitingSenders)])
  /\ Done(c, {Head(waitingSenders)})
  /\ UNCHANGED <<handles, closed, ring, lists, lastValue, buffered>>

TakeWaiting(c) ==
  /\ at[c] = "locking" /\ Owns(c) /\ waitingSenders # <<>>
  /\ waitingSenders' = Tail(waitingSenders)
  /\ got' = Append(got, value[Head(waitingSenders)])
  /\ Done(c, {Head(waitingSenders)})
  /\ UNCHANGED <<handles, closed, ring, waitingReceivers, lastValue, buffered>>

Pop(c) ==
  /\ at[c] = "locking" /\ Owns(c) /\ waitingSenders = <<>> /\ ring # <<>>
  /\ ring' = Tail(ring)
  /\ got' = Append(got, Head(ring))
  /\ Done(c, {})
  /\ UNCHANGED <<handles, closed, lists, lastValue, buffered>>

(* Nothing to be done now: the sender finds the buffer full, the receiver  *)
(* finds it empty.  It fails if the channel is closed, else it will wait.  *)
MustWait(c) ==
  IF c \in Senders THEN waitingReceivers = <<>> /\ Len(ring) = Cap
                   ELSE waitingSenders = <<>> /\ ring = <<>>

Look(c) ==
  /\ at[c] = "locking" /\ Owns(c) /\ MustWait(c)
  /\ IF closed THEN Done(c, {}) ELSE Goto(c, "listing") /\ UNCHANGED <<line, value>>
  /\ UNCHANGED <<handles, closed, ring, lists, history>>

(* The awaiter is listed.  One that is listed after the flag was raised is *)
(* "late": destroy() may have walked its list already.                     *)
List(c) ==
  /\ at[c] = "listing"
  /\ IF c \in Senders
     THEN waitingSenders' = Append(waitingSenders, c) /\ UNCHANGED waitingReceivers
     ELSE waitingReceivers' = Append(waitingReceivers, c) /\ UNCHANGED waitingSenders
  /\ Goto(c, IF closed THEN "late" ELSE "waiting")
  /\ line' = Tail(line)
  /\ UNCHANGED <<handles, closed, ring, value, history>>

-----------------------------------------------------------------------------
(* Copying a handle, and moving one (into a coroutine that has none).      *)
Copy(c, d) ==
  /\ at[c] = "idle" /\ handle[c] /\ at[d] = "idle" /\ ~handle[d] /\ Side(c) = Side(d)
  /\ handle' = [handle EXCEPT ![d] = TRUE]
  /\ senders' = IF c \in Senders THEN senders + 1 ELSE senders
  /\ receivers' = IF c \in Receivers THEN receivers + 1 ELSE receivers
  /\ UNCHANGED <<closed, ring, lists, line, at, value, history>>

Move(c, d) ==
  /\ at[c] = "idle" /\ handle[c] /\ at[d] = "idle" /\ ~handle[d] /\ Side(c) = Side(d)
  /\ handle' = [handle EXCEPT ![c] = FALSE, ![d] = TRUE]
  /\ UNCHANGED <<senders, receivers, closed, ring, lists, line, at, value, history>>

(* sub_sender() and sub_receiver(), from close(), a destructor or the      *)
(* assignment of another handle: the last one goes on to destroy().        *)
Release(c) ==
  /\ at[c] = "idle" /\ handle[c]
  /\ handle' = [handle EXCEPT ![c] = FALSE]
  /\ senders' = IF c \in Senders THEN senders - 1 ELSE senders
  /\ receivers' = IF c \in Receivers THEN receivers - 1 ELSE receivers
  /\ Goto(c, IF (IF c \in Senders THEN senders ELSE receivers) = 1 THEN "closing" ELSE "idle")
  /\ UNCHANGED <<closed, ring, lists, line, value, history>>

(* destroy(): the exchange, the two walks, and the two lists cleared.      *)
Exchange(c) ==
  /\ at[c] = "closing"
  /\ closed' = TRUE
  /\ Goto(c, IF closed THEN "idle" ELSE "wake senders")
  /\ UNCHANGED <<handles, ring, lists, line, value, history>>

WakeAll(c, list, place) ==
  at' = [u \in Users |-> IF u = c THEN place ELSE IF u \in ToSet(list) THEN "idle" ELSE at[u]]

WakeSendersFirst(c) ==
  /\ at[c] = "wake senders"
  /\ WakeAll(c, SelectSeq(waitingSenders, LAMBDA s : s = Head(waitingSenders)), "wake receivers")
  /\ UNCHANGED <<handles, closed, ring, lists, line, value, history>>

WakeSenders(c) ==
  /\ at[c] = "wake senders"
  /\ WakeAll(c, waitingSenders, "wake receivers")
  /\ UNCHANGED <<handles, closed, ring, lists, line, value, history>>

WakeReceivers(c) ==
  /\ at[c] = "wake receivers"
  /\ WakeAll(c, waitingReceivers, "clear")
  /\ UNCHANGED <<handles, closed, ring, lists, line, value, history>>

Clear(c) ==
  /\ at[c] = "clear"
  /\ waitingSenders' = <<>> /\ waitingReceivers' = <<>>
  /\ Goto(c, "idle")
  /\ UNCHANGED <<handles, closed, ring, line, value, history>>

-----------------------------------------------------------------------------
Send(c) == HandOver(c) \/ Push(c)
Recv(c) == TakeWaiting(c) \/ Pop(c)
Destroy(c) == Exchange(c) \/ WakeSenders(c) \/ WakeReceivers(c) \/ Clear(c)

(* What a coroutine does of itself once it has called an operation.        *)
GoOn(c) ==
  \/ c \in Senders /\ Send(c)
  \/ c \in Receivers /\ Recv(c)
  \/ Look(c) \/ List(c)
  \/ Destroy(c)

ChannelNext ==
  \/ \E c \in Senders : BeginSend(c)
  \/ \E c \in Receivers : BeginRecv(c)
  \/ \E c \in Users : GoOn(c) \/ Release(c)
  \/ \E c, d \in Users : Copy(c, d) \/ Move(c, d)

(* Workers go on running coroutines that are not suspended.                *)
ChannelFairness == \A c \in Users : WF_channelVars(GoOn(c))

ChannelSpec == ChannelInit /\ [][ChannelNext]_channelVars /\ ChannelFairness

-----------------------------------------------------------------------------
(* Nobody waits for what is there: a sender is listed only while the       *)
(* buffer is full and no receiver is, a receiver only while the buffer is  *)
(* empty and no sender is, whatever destroy() does meanwhile without the   *)
(* mutex (channel.hpp:31, 74, 136).                                        *)
WaitsForNothingThere ==
  /\ waitingSenders = <<>> \/ waitingReceivers = <<>>
  /\ waitingSenders # <<>> => Len(ring) = Cap
  /\ waitingReceivers # <<>> => ring = <<>>

(* The buffer is the end of what went through it, and what lies before it  *)
(* was given to receivers in that order; no value, buffered or handed      *)
(* over, is given to two of them, and none that is still in the buffer.    *)
(* (The order over all values is not that of sending: recv takes a waiting *)
(* sender's before the buffered ones, channel.hpp:66.)                     *)
DeliveredOnceInOrder ==
  LET taken == Len(buffered) - Len(ring)
  IN  /\ taken >= 0 /\ ring = SubSeq(buffered, taken + 1, Len(buffered))
      /\ IsInjective(got)
      /\ \A i \in DOMAIN buffered : buffered[i] \in ToSet(got) <=> i <= taken
      /\ \A i, j \in 1 .. taken, k, l \in DOMAIN got :
           i < j /\ got[k] = buffered[i] /\ got[l] = buffered[j] => k < l

(* Closing a channel ends every operation under way on it, except of an    *)
(* awaiter that was listed after the flag was raised (channel.hpp:32, 75   *)
(* against 137).                                                           *)
ClosingEndsOperations ==
  \A c \in Users :
    (closed /\ at[c] # "idle") ~> (at[c] \in {"idle", "late"})
=============================================================================
