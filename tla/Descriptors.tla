---------------------------- MODULE Descriptors ----------------------------
(***************************************************************************)
(* Who owns a file descriptor: the FD objects of io/io.hpp under files,    *)
(* sockets, listeners, datagrams and streams, the awaitables that connect, *)
(* the two halves of a split stream, and the closes in the submission      *)
(* queue.  The kernel gives a number out again once it is closed, so a     *)
(* number closed twice, or by one who does not own it, is another object's *)
(* descriptor.  Any call may find the submission queue full, and ::close   *)
(* may fail; on Linux, the one system with an io_uring, a ::close that     *)
(* fails has released the number, or found that it was not open.           *)
(*                                                                         *)
(* A number that was closed by one who did not own it is wild or stolen.   *)
(* It is not given out again: that bounds the model, which goes on with    *)
(* the others.                                                             *)
(*                                                                         *)
(* No action uses AssignKeepsSource: it is a faulty variant of the next    *)
(* definition, for mutation testing.                                       *)
(***************************************************************************)
EXTENDS Naturals, FiniteSets

CONSTANTS
  Objects,  \* File, Socket, TcpStream, ... objects; one that is empty again
            \* may stand for the next that is made
  Numbers,  \* descriptors the process can have
  None,     \* fd_ = -1
  Threads   \* the threads that use the objects

ASSUME NoneAssumption == None \notin Numbers

VARIABLES
  fd,          \* fd[o]: the fd_ of object o
  halves,      \* halves[o]: halves that share o, made by into_split
  open,        \* numbers that are open
  connecting,  \* numbers in awaitables, with the class of it
  closes,      \* closes[n]: closes of n that are queued
  given,       \* numbers handed out by release()
  lost,        \* numbers whose close() found no sqe
  again,       \* again[t]: how often thread t will yet call ::close, and of what
  wild,        \* numbers an awaitable closed because its fd_, never set, said so
  stolen       \* numbers do_close() closed again when somebody else had them

fdVars == <<fd, halves, open, connecting, closes, given, lost, again, wild, stolen>>

NotClosing == [of |-> None, left |-> 0]

DescriptorsInit ==
  /\ fd = [o \in Objects |-> None] /\ halves = [o \in Objects |-> 0]
  /\ open = {} /\ connecting = {} /\ closes = [n \in Numbers |-> 0]
  /\ given = {} /\ lost = {} /\ wild = {} /\ stolen = {}
  /\ again = [t \in Threads |-> NotClosing]

Unused(o) == fd[o] = None /\ halves[o] = 0
Whole(o)  == fd[o] # None /\ halves[o] = 0

(* A number for a new descriptor.                                          *)
Free == Numbers \ (open \cup wild \cup stolen)

(* Thread t calls ::close(n), which returns 0 or an error; after an error  *)
(* left calls of the three are still to be made.                           *)
CallClose(t, n, left) ==
  /\ open' = open \ {n}
  /\ \/ n \in open /\ again' = [again EXCEPT ![t] = NotClosing]
     \/ again' = [again EXCEPT ![t] = IF left = 0 THEN NotClosing ELSE [of |-> n, left |-> left]]

(* FD::do_close of n, None if there is nothing to close: a close is        *)
(* queued, or called if the queue is full.  The object is in nobody else's *)
(* hands until the calls are made, so its fd_ changes with the first.      *)
DoClose(t, n) ==
  IF n = None THEN UNCHANGED <<open, closes, again>>
  ELSE \/ closes' = [closes EXCEPT ![n] = @ + 1] /\ UNCHANGED <<open, again>>
       \/ CallClose(t, n, 2) /\ UNCHANGED closes

(* The loop's next turn: whoever was given the number loses it.            *)
CloseAgain(t) ==
  /\ again[t] # NotClosing
  /\ LET n == again[t].of
     IN /\ CallClose(t, n, again[t].left - 1)
        /\ stolen' = IF n \in open THEN stolen \cup {n} ELSE stolen
  /\ UNCHANGED <<fd, halves, connecting, closes, given, lost, wild>>

(* Socket::create.                                                         *)
Create(o) ==
  /\ Unused(o)
  /\ \E n \in Free : open' = open \cup {n} /\ fd' = [fd EXCEPT ![o] = n]
  /\ UNCHANGED <<halves, connecting, closes, given, lost, again, wild, stolen>>

(* bind() of a listener or datagram that fails after its socket is made:   *)
(* the local Socket goes.                                                  *)
BindFails(t) ==
  /\ \E n \in Free :
       \/ closes' = [closes EXCEPT ![n] = @ + 1] /\ open' = open \cup {n} /\ UNCHANGED again
       \/ UNCHANGED <<closes, open, again>>
       \/ again' = [again EXCEPT ![t] = [of |-> n, left |-> 2]] /\ UNCHANGED <<closes, open>>
  /\ UNCHANGED <<fd, halves, connecting, given, lost, wild, stolen>>

(* p = std::move(o), or p(std::move(o)) if p is new.                       *)
AssignKeepsSource(t, o, p) ==
  /\ Whole(o) /\ halves[p] = 0 /\ o # p
  /\ DoClose(t, fd[p])
  /\ fd' = [fd EXCEPT ![p] = fd[o]]
  /\ UNCHANGED <<halves, connecting, given, lost, wild, stolen>>

Assign(t, o, p) ==
  /\ Whole(o) /\ halves[p] = 0
  /\ DoClose(t, fd[p])
  /\ fd' = [fd EXCEPT ![p] = IF o = p THEN None ELSE fd[o], ![o] = None]
  /\ UNCHANGED <<halves, connecting, given, lost, wild, stolen>>

(* close(): the number goes to the awaitable, and nowhere without an sqe.  *)
Close(o) ==
  /\ Whole(o) /\ fd' = [fd EXCEPT ![o] = None]
  /\ \/ closes' = [closes EXCEPT ![fd[o]] = @ + 1] /\ UNCHANGED lost
     \/ lost' = lost \cup {fd[o]} /\ UNCHANGED closes
  /\ UNCHANGED <<halves, open, connecting, given, again, wild, stolen>>

Destroy(t, o) ==
  /\ Whole(o) /\ DoClose(t, fd[o]) /\ fd' = [fd EXCEPT ![o] = None]
  /\ UNCHANGED <<halves, connecting, given, lost, wild, stolen>>

Release(o) ==
  /\ Whole(o) /\ given' = given \cup {fd[o]} /\ fd' = [fd EXCEPT ![o] = None]
  /\ UNCHANGED <<halves, open, connecting, closes, lost, again, wild, stolen>>

-----------------------------------------------------------------------------
(* accept, or a File's open, completes: until its coroutine is resumed     *)
(* the number is only in the awaitable's result_.                          *)
OperationReturns ==
  /\ \E n \in Free :
       open' = open \cup {n} /\ connecting' = connecting \cup {<<n, "result">>}
  /\ UNCHANGED <<fd, halves, closes, given, lost, again, wild, stolen>>

(* BaseStream::connect makes its socket when it suspends; if that fails    *)
(* the Stream returned has no descriptor.  TcpSocket::connect moves its    *)
(* own socket into the awaitable.                                          *)
BeginStreamConnect ==
  /\ \E n \in Free :
       open' = open \cup {n} /\ connecting' = connecting \cup {<<n, "stream">>}
  /\ UNCHANGED <<fd, halves, closes, given, lost, again, wild, stolen>>

BeginSocketConnect(o) ==
  /\ Whole(o)
  /\ connecting' = connecting \cup {<<fd[o], "socket">>} /\ fd' = [fd EXCEPT ![o] = None]
  /\ UNCHANGED <<halves, open, closes, given, lost, again, wild, stolen>>

(* await_resume makes the object.                                          *)
Connected(c, o) ==
  /\ Unused(o)
  /\ connecting' = connecting \ {c} /\ fd' = [fd EXCEPT ![o] = c[1]]
  /\ UNCHANGED <<halves, open, closes, given, lost, again, wild, stolen>>

(* A failure: the first closes its number itself, the second's Socket goes *)
(* with the awaitable.                                                     *)
ConnectFails(t, c) ==
  /\ c[2] # "result" /\ connecting' = connecting \ {c}
  /\ IF c[2] = "stream" THEN open' = open \ {c[1]} /\ UNCHANGED <<closes, again>>
     ELSE DoClose(t, c[1])
  /\ UNCHANGED <<fd, halves, given, lost, wild, stolen>>

(* Without an sqe a stream's connect does not suspend, and await_resume    *)
(* closes whatever fd_ happens to be.                                      *)
ConnectWithoutSqe ==
  /\ \E n \in open : open' = open \ {n} /\ wild' = wild \cup {n}
  /\ UNCHANGED <<fd, halves, connecting, closes, given, lost, again, stolen>>

-----------------------------------------------------------------------------
(* into_split, the end of a half, and reunite of both.                     *)
IntoSplit(o) ==
  /\ Whole(o) /\ halves' = [halves EXCEPT ![o] = 2]
  /\ UNCHANGED <<fd, open, connecting, closes, given, lost, again, wild, stolen>>

DropHalf(t, o) ==
  /\ halves[o] > 0 /\ halves' = [halves EXCEPT ![o] = @ - 1]
  /\ IF halves[o] = 1 THEN DoClose(t, fd[o]) /\ fd' = [fd EXCEPT ![o] = None]
     ELSE UNCHANGED <<fd, open, closes, again>>
  /\ UNCHANGED <<connecting, given, lost, wild, stolen>>

Reunite(o, p) ==
  /\ halves[o] = 2 /\ (Unused(p) \/ p = o) /\ halves' = [halves EXCEPT ![o] = 0]
  /\ fd' = [fd EXCEPT ![o] = None, ![p] = fd[o]]
  /\ UNCHANGED <<open, connecting, closes, given, lost, again, wild, stolen>>

(* The kernel carries out a close.                                         *)
KernelCloses(n) ==
  /\ closes[n] > 0 /\ closes' = [closes EXCEPT ![n] = @ - 1] /\ open' = open \ {n}
  /\ UNCHANGED <<fd, halves, connecting, given, lost, again, wild, stolen>>

DescriptorsNext ==
  \/ \E t \in Threads : again[t] = NotClosing /\
       \/ \E o \in Objects :
            \/ Create(o) \/ Close(o) \/ Destroy(t, o) \/ Release(o)
            \/ BeginSocketConnect(o) \/ IntoSplit(o) \/ DropHalf(t, o)
            \/ \E p \in Objects : Assign(t, o, p) \/ Reunite(o, p)
            \/ \E c \in connecting : Connected(c, o)
       \/ \E c \in connecting : ConnectFails(t, c)
       \/ BindFails(t) \/ BeginStreamConnect \/ ConnectWithoutSqe
  \/ \E t \in Threads : CloseAgain(t)
  \/ \E n \in Numbers : KernelCloses(n)
  \/ OperationReturns

DescriptorsSpec == DescriptorsInit /\ [][DescriptorsNext]_fdVars

-----------------------------------------------------------------------------
(* How many things will close n, or have it for somebody else to.          *)
Owners(n) ==
  Cardinality({o \in Objects : fd[o] = n}) + Cardinality({c \in connecting : c[1] = n})
    + closes[n] + Cardinality({n} \cap given) + Cardinality({n} \cap lost)

(* An open descriptor has exactly one owner and a number that is not open  *)
(* none, over every sequence of moves, connects, splits and closes by any  *)
(* threads, queued or called, until the number is closed by a connect that *)
(* ran without an sqe or by a ::close that do_close() calls again: these   *)
(* two only, and no other number, suffer from it (io.hpp:47-55, 102-120,   *)
(* stream.hpp:67-76, split.hpp:57-65).                                     *)
OneOwner ==
  \A n \in Numbers \ (wild \cup stolen) : Owners(n) = (IF n \in open THEN 1 ELSE 0)
=============================================================================
