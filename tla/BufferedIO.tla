----------------------------- MODULE BufferedIO -----------------------------
(***************************************************************************)
(* io/buf and io/impl: a BufReader over a source and a BufWriter over a    *)
(* sink (a BufStream is both), used by one coroutine each.                 *)
(*                                                                         *)
(* The bytes of a stream are numbered, so that a sequence of them shows    *)
(* what came from where; a byte in Flags equals the end_flag that          *)
(* read_until looks for, one character long.  A StreamBuffer is r_pos_     *)
(* (at) and the bytes between r_pos_ and w_pos_ (held).  Every io_.read or *)
(* io_.write is a step: it may be short, return 0 or fail.                 *)
(*                                                                         *)
(* After a failed read or write the caller does not know how many of its   *)
(* bytes were moved, and does not go on; it may retry a flush.             *)
(*                                                                         *)
(* No action uses ResetForgets and FlushedAll: each is a faulty variant of *)
(* the next definition, for mutation testing.                              *)
(***************************************************************************)
EXTENDS Naturals, Sequences, SequencesExt

CONSTANTS
  Size,      \* capacity of either StreamBuffer
  MaxBytes,  \* length of the source, and bound on the bytes written
  MaxAsk,    \* bound on the span of one call
  Flags      \* which bytes of the source are the end_flag

ASSUME SizesAssumption == Size \in Nat /\ MaxBytes \in Nat /\ MaxAsk \in Nat

VARIABLES
  rbuf, wbuf,          \* r_stream_, w_stream_
  taken, sink,         \* bytes the source has given, bytes the sink has
  reading, writing,    \* the calls in progress
  received, accepted,  \* what returned calls have delivered and taken
  returned             \* the last read call that returned

bufferedVars == <<rbuf, wbuf, taken, sink, reading, writing, received, accepted, returned>>

Bytes(from, to) == [i \in 1 .. (to + 1) - from |-> (from - 1) + i]
Lesser(a, b) == IF a < b THEN a ELSE b

NoCall == [do |-> "none"]

BufferedInit ==
  /\ rbuf = [at |-> 0, held |-> <<>>] /\ wbuf = rbuf
  /\ taken = 0 /\ sink = <<>>
  /\ reading = NoCall /\ writing = NoCall
  /\ received = 0 /\ accepted = 0
  /\ returned = NoCall

(* StreamBuffer: w_remaining, reset_data, r_increase, w_increase, and      *)
(* write_to, which resets the positions of an emptied buffer.              *)
Room(b) == Size - (b.at + Len(b.held))

ResetForgets(b) == IF b.at > 0 THEN [at |-> 0, held |-> Front(b.held)] ELSE b

Reset(b) == [b EXCEPT !.at = 0]

Forward(b, n) == [at |-> b.at + n, held |-> SubSeq(b.held, n + 1, Len(b.held))]
Extend(b, bytes) == [b EXCEPT !.held = @ \o bytes]

WriteTo(b, n) ==
  LET len == Lesser(n, Len(b.held))
  IN [len |-> len, buf |-> IF len = Len(b.held) THEN [at |-> 0, held |-> <<>>] ELSE Forward(b, len)]

-----------------------------------------------------------------------------
(* A call: what it does, the size asked for, the bytes already in the      *)
(* caller's container or span, the size of what real_read has left of the  *)
(* span, and whether it reads past the buffer.                             *)
Reading(do, asked, got, direct) ==
  [do |-> do, asked |-> asked, got |-> got, span |-> asked - Len(got), direct |-> direct]

(* The call returns with what b gives up to n bytes of.                    *)
ReturnRead(call, b, n) ==
  LET given == WriteTo(b, n)
  IN /\ rbuf' = given.buf
     /\ reading' = NoCall
     /\ received' = received + Len(call.got) + given.len
     /\ returned' = [do |-> call.do, asked |-> call.asked,
                     bytes |-> call.got \o SubSeq(b.held, 1, given.len),
                     eof |-> taken' = MaxBytes]

(* real_read's predicate.                                                  *)
Satisfied(call, b) ==
  IF call.do = "read" THEN b.held # <<>> ELSE Len(b.held) >= call.asked

(* read() and read_exact(): a span larger than the buffer is filled with   *)
(* what is held and then directly.                                         *)
BeginRead(do, n) ==
  /\ reading = NoCall /\ UNCHANGED taken
  /\ LET call == Reading(do, n, <<>>, FALSE)
         given == WriteTo(rbuf, n)
     IN IF Size < n
        THEN /\ rbuf' = given.buf
             /\ reading' = Reading(do, n, SubSeq(rbuf.held, 1, given.len), TRUE)
             /\ UNCHANGED <<received, returned>>
        ELSE IF Satisfied(call, rbuf) THEN ReturnRead(call, rbuf, n)
        ELSE reading' = call /\ UNCHANGED <<rbuf, received, returned>>
  /\ UNCHANGED <<wbuf, sink, writing, accepted>>

(* Up to n bytes from the source, none only at its end or if n = 0.        *)
Arrives(n) ==
  {Bytes(taken + 1, to) : to \in IF n = 0 \/ taken = MaxBytes THEN {taken}
                                 ELSE taken + 1 .. Lesser(taken + n, MaxBytes)}

Direct ==
  /\ reading.do \in {"read", "read_exact"} /\ reading.direct
  /\ \E bytes \in Arrives(reading.asked - Len(reading.got)) :
       LET call == [reading EXCEPT !.got = @ \o bytes]
       IN /\ taken' = taken + Len(bytes)
          /\ IF bytes = <<>> /\ call.do = "read_exact"
             THEN reading' = [call EXCEPT !.direct = FALSE] /\ UNCHANGED <<rbuf, received, returned>>
             ELSE IF call.do = "read" \/ Len(call.got) = call.asked THEN ReturnRead(call, rbuf, 0)
             ELSE reading' = call /\ UNCHANGED <<rbuf, received, returned>>
  /\ UNCHANGED <<wbuf, sink, writing, accepted>>

(* One turn of real_read's loop.  (read_exact that met the end or an error *)
(* while reading directly goes on here.)                                   *)
FailRead == reading' = [reading EXCEPT !.do = "failed"] /\ UNCHANGED <<received, returned>>

FillAndRead ==
  /\ reading.do \in {"read", "read_exact"} /\ ~reading.direct
  /\ LET b == IF Room(rbuf) < reading.span THEN Reset(rbuf) ELSE rbuf
     IN \E bytes \in Arrives(Room(b)) :
          LET filled == Extend(b, bytes)
          IN /\ taken' = taken + Len(bytes)
             /\ IF bytes = <<>> /\ reading.do = "read_exact" THEN FailRead /\ rbuf' = filled
                ELSE IF Satisfied(reading, filled) \/ bytes = <<>> THEN ReturnRead(reading, filled, reading.span)
                ELSE rbuf' = filled /\ UNCHANGED <<reading, received, returned>>
  /\ UNCHANGED <<wbuf, sink, writing, accepted>>

(* read_until(): up to and with the flag, or all that is held and then     *)
(* more.                                                                   *)
BeginReadUntil ==
  /\ reading = NoCall /\ reading' = Reading("read_until", 0, <<>>, FALSE)
  /\ UNCHANGED <<rbuf, wbuf, taken, sink, writing, received, accepted, returned>>

Until(call, b) ==
  LET at == SelectInSeq(b.held, LAMBDA byte : byte \in Flags)
      end == IF at = 0 THEN Len(b.held) ELSE at
  IN [found |-> at # 0, got |-> call.got \o SubSeq(b.held, 1, end), rest |-> Forward(b, end)]

ReturnUntil(got) ==
  /\ reading' = NoCall /\ received' = received + Len(got)
  /\ returned' = [do |-> "read_until", asked |-> 0, bytes |-> got, eof |-> taken' = MaxBytes]

LookForFlag ==
  /\ reading.do = "read_until"
  /\ LET look == Until(reading, rbuf)
     IN IF look.found THEN UNCHANGED taken /\ ReturnUntil(look.got) /\ rbuf' = look.rest
        ELSE \E bytes \in Arrives(Size) :
               /\ taken' = taken + Len(bytes)
               /\ rbuf' = [at |-> 0, held |-> bytes]
               /\ IF bytes = <<>> THEN ReturnUntil(look.got)
                  ELSE reading' = [reading EXCEPT !.got = look.got] /\ UNCHANGED <<received, returned>>
  /\ UNCHANGED <<wbuf, sink, writing, accepted>>

(* fill_buf() and consume(), which never move the positions back.          *)
FillBuf ==
  /\ reading = NoCall
  /\ \E bytes \in Arrives(Room(rbuf)) :
       taken' = taken + Len(bytes) /\ rbuf' = Extend(rbuf, bytes)
  /\ UNCHANGED <<wbuf, sink, reading, writing, received, accepted, returned>>

Consume(n) ==
  /\ reading = NoCall
  /\ LET len == Lesser(n, Len(rbuf.held))
     IN rbuf' = Forward(rbuf, len) /\ received' = received + len
  /\ UNCHANGED <<wbuf, taken, sink, reading, writing, accepted, returned>>

(* A read of the source fails.  read_exact's direct reading falls through  *)
(* to the loop (impl_buf_read.hpp:106-109).                                *)
ReadFails ==
  /\ reading.do \in {"read", "read_exact", "read_until"}
  /\ IF reading.do = "read_exact" /\ reading.direct
     THEN reading' = [reading EXCEPT !.direct = FALSE] /\ UNCHANGED <<received, returned>>
     ELSE FailRead
  /\ UNCHANGED <<rbuf, wbuf, taken, sink, writing, accepted>>

-----------------------------------------------------------------------------
(* write() and write_all() of n bytes: what fits is only copied.           *)
BeginWrite(do, n) ==
  /\ writing = NoCall /\ accepted + n <= MaxBytes
  /\ IF Room(wbuf) >= n
     THEN wbuf' = Extend(wbuf, Bytes(accepted + 1, accepted + n)) /\ accepted' = accepted + n
            /\ UNCHANGED writing
     ELSE writing' = [do |-> do, left |-> Bytes(accepted + 1, accepted + n)] /\ UNCHANGED <<wbuf, accepted>>
  /\ UNCHANGED <<rbuf, taken, sink, reading, received, returned>>

(* write_vectored's request names two pieces of memory, r_slice() and the  *)
(* caller's span, one after the other; read_from copies what fits.         *)
Gathered == wbuf.held \o writing.left

ReadFrom(b, bytes) == Extend(b, SubSeq(bytes, 1, Lesser(Room(b), Len(bytes))))

(* It takes n bytes; when the loop ends, what is left is copied, or in     *)
(* write() as much of it as fits.                                          *)
WriteVectored ==
  /\ writing.do \in {"write", "write_all"}
  /\ \E n \in 1 .. Len(wbuf.held) + Len(writing.left) :
       LET len == Lesser(n, Len(wbuf.held))
           b == Reset(Forward(wbuf, len))
           left == SubSeq(writing.left, n - len + 1, Len(writing.left))
           fits == Lesser(Room(b), Len(left))
       IN /\ sink' = sink \o SubSeq(Gathered, 1, n)
          /\ IF writing.do = "write" \/ Room(b) >= Len(left)
             THEN /\ wbuf' = ReadFrom(b, left)
                  /\ accepted' = accepted + (n - len) + fits
                  /\ writing' = NoCall
             ELSE /\ wbuf' = b
                  /\ accepted' = accepted + (n - len)
                  /\ writing' = [writing EXCEPT !.left = left]
  /\ UNCHANGED <<rbuf, taken, reading, received, returned>>

BeginFlush ==
  /\ writing = NoCall /\ wbuf.held # <<>> /\ writing' = [do |-> "flush"]
  /\ UNCHANGED <<rbuf, wbuf, taken, sink, reading, received, accepted, returned>>

FlushedAll(n) == [at |-> 0, held |-> <<>>]

Flushed(n) ==
  LET b == Forward(wbuf, n) IN IF b.held = <<>> THEN Reset(b) ELSE b

FlushSome ==
  /\ writing.do = "flush"
  /\ \E n \in 1 .. Len(wbuf.held) :
       /\ sink' = sink \o SubSeq(wbuf.held, 1, n)
       /\ wbuf' = Flushed(n)
  /\ writing' = IF wbuf'.held = <<>> THEN NoCall ELSE writing
  /\ UNCHANGED <<rbuf, taken, reading, received, accepted, returned>>

(* The sink fails or takes nothing.                                        *)
WriteFails ==
  /\ writing.do \in {"write", "write_all", "flush"}
  /\ writing' = IF writing.do = "flush" THEN NoCall ELSE [do |-> "failed"]
  /\ UNCHANGED <<rbuf, wbuf, taken, sink, reading, received, accepted, returned>>

ReaderNext ==
  \/ \E n \in 0 .. MaxAsk : BeginRead("read", n) \/ BeginRead("read_exact", n) \/ Consume(n)
  \/ Direct \/ FillAndRead \/ BeginReadUntil \/ LookForFlag \/ FillBuf \/ ReadFails

WriterNext ==
  \/ \E n \in 0 .. MaxAsk : BeginWrite("write", n) \/ BeginWrite("write_all", n)
  \/ WriteVectored \/ BeginFlush \/ FlushSome \/ WriteFails

BufferedNext == ReaderNext \/ WriterNext

BufferedSpec == BufferedInit /\ [][BufferedNext]_bufferedVars

-----------------------------------------------------------------------------
(* Every byte the source gave has been delivered, is in the caller's span  *)
(* or is held, once and in order, over every mixture of calls and short    *)
(* reads; read_exact delivers what it was asked for, read nothing only at  *)
(* the end of the source, and read_until stops at the first flag.          *)
ReadInOrder ==
  /\ reading.do # "failed" =>
       (IF reading = NoCall THEN <<>> ELSE reading.got) \o rbuf.held = Bytes(received + 1, taken)
  /\ returned # NoCall =>
       LET n == Len(returned.bytes)
       IN CASE returned.do = "read_exact" -> n = returned.asked
            [] returned.do = "read" -> n <= returned.asked /\ (n = 0 => returned.asked = 0 \/ returned.eof)
            [] OTHER -> /\ \A i \in 1 .. n : returned.bytes[i] \in Flags => i = n
                        /\ n = 0 \/ returned.bytes[n] \notin Flags => returned.eof

(* What the sink has and what is held are the bytes accepted, once and in  *)
(* order, although writes are short and flushes fail half-way and are      *)
(* tried again.                                                            *)
WrittenInOrder == sink \o wbuf.held = Bytes(1, accepted)
=============================================================================
