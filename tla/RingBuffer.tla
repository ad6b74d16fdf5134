----------------------------- MODULE RingBuffer -----------------------------
(***************************************************************************)
(* HeapRingBuffer of common/util/ring_buffer.hpp, the buffer of a Channel: *)
(* an array with one slot more than its capacity, start_ and end_.         *)
(* StackRingBuffer's push and take are safety_push and safety_pop without  *)
(* their assertions.  A slot that was moved from keeps its old value here. *)
(*                                                                         *)
(* No action uses ResizeInPlace: it is a faulty variant of the next        *)
(* definition, for mutation testing.                                       *)
(***************************************************************************)
EXTENDS Naturals, FiniteSets, Sequences

CONSTANTS
  MaxCapacity,  \* the largest size asked for
  Items         \* values that are pushed

ASSUME CapacityAssumption == MaxCapacity \in Nat

VARIABLES
  start, end,   \* start_ and end_
  data,         \* data_: 0 .. data_.size() - 1 -> the values
  items,        \* history: the values pushed and not popped
  overrun       \* a resize cut off the slots that start_ or end_ point to

ringVars == <<start, end, data, items, overrun>>

Array(n) == [i \in 0 .. n - 1 |-> 0]

RingInit ==
  /\ start = 0 /\ end = 0 /\ items = <<>> /\ overrun = FALSE
  /\ data = Array(MaxCapacity + 1)

Slots    == Cardinality(DOMAIN data)
IsEmpty  == start = end
IsFill   == (end + 1) % Slots = start
RingSize == (end + Slots - start) % Slots   \* unsigned: end_ - start_ may wrap
Capacity == Slots - 1

(* data_[end_++] = val, by safety_push, or push that found room.           *)
Put(v) ==
  /\ data' = [data EXCEPT ![end] = v] /\ end' = (end + 1) % Slots
  /\ items' = Append(items, v)
  /\ UNCHANGED <<start, overrun>>

(* push, and safety_push, whose caller must know that there is room.       *)
TryPush(v) == IF IsFill THEN UNCHANGED ringVars ELSE Put(v)
SafetyPush(v) == ~IsFill /\ Put(v)

TakeFront ==
  /\ start' = (start + 1) % Slots /\ items' = Tail(items)
  /\ UNCHANGED <<end, data, overrun>>

TryPop == IF IsEmpty THEN UNCHANGED ringVars ELSE TakeFront
SafetyPop == ~IsEmpty /\ TakeFront

(* resize: std::copy of the one or two pieces to the front.  A capacity of *)
(* one less than the number of elements is accepted, and so is any for an  *)
(* empty ring, whose start_ and end_ stay where they are: the next accesses *)
(* are outside the array.                                                  *)
ResizeInPlace(n) ==
  /\ data' = [i \in 0 .. n |-> IF i < Slots THEN data[i] ELSE 0]
  /\ UNCHANGED <<start, end, items, overrun>>

Resize(n) ==
  IF n + 1 = Slots \/ n + 1 < RingSize THEN UNCHANGED ringVars
  ELSE IF RingSize > n \/ (IsEmpty /\ start > n)
  THEN overrun' = TRUE /\ UNCHANGED <<start, end, data, items>>
  ELSE /\ data' = [i \in 0 .. n |-> CASE start < end /\ i < end - start -> data[start + i]
                                      [] start > end /\ i < Slots - start -> data[start + i]
                                      [] start > end /\ i >= Slots - start /\ i < RingSize
                                           -> data[i - (Slots - start)]
                                      [] OTHER -> 0]
       /\ end' = IF start < end THEN end - start
                 ELSE IF start > end THEN end + Slots - start ELSE end
       /\ start' = IF IsEmpty THEN start ELSE 0
       /\ UNCHANGED <<items, overrun>>

RingNext ==
  /\ ~overrun
  /\ \/ \E v \in Items : TryPush(v) \/ SafetyPush(v)
     \/ TryPop \/ SafetyPop
     \/ \E n \in 0 .. MaxCapacity : Resize(n)

RingSpec == RingInit /\ [][RingNext]_ringVars

-----------------------------------------------------------------------------
(* The ring is the queue of what was pushed and not popped: its size, its  *)
(* contents in order, empty and full, at every position of start_ and end_ *)
(* and after every resize that left them inside the array                  *)
(* (ring_buffer.hpp:59-138).                                               *)
RingIsQueue ==
  ~overrun =>
    /\ RingSize = Len(items) /\ Len(items) <= Capacity
    /\ IsEmpty <=> items = <<>>
    /\ IsFill <=> Len(items) = Capacity
    /\ \A i \in 1 .. Len(items) : items[i] = data[(start + i - 1) % Slots]
=============================================================================
