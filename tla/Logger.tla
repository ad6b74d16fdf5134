------------------------------- MODULE Logger -------------------------------
(***************************************************************************)
(* log/logger.hpp: FileLogger, with log/buffer.hpp and log/file.hpp.       *)
(* log() appends a record to the current buffer, and puts a full buffer on *)
(* a list; a writer thread swaps the current buffer out every 3 ms or when *)
(* notified, and writes the list to the file.                              *)
(*                                                                         *)
(* A buffer is the sequence of its records, numbered as log() takes the    *)
(* mutex; it has room for BufferSize of them.  One step is one section     *)
(* under the mutex, or one operation of the writer on the lists, which it  *)
(* uses without the mutex once it has swapped.  log() may change them in   *)
(* between; the interleavings inside one list operation are undefined and  *)
(* not enumerated.  The thread is started before running_ is initialised   *)
(* (logger.hpp:168, 274-275): what it reads first may be anything.         *)
(*                                                                         *)
(* The file is what write() appended to it.  roll() starts another file,   *)
(* at most once a second, which does not change the stream.                *)
(*                                                                         *)
(* No action uses WriteOneKeeps and SwapFirst: each is a faulty variant of *)
(* the next definition, for mutation testing.                              *)
(***************************************************************************)
EXTENDS Naturals, Sequences, SequencesExt

CONSTANTS BufferSize,   \* records a buffer has room for
          MaxBuffers,   \* max_buffer_list_size
          MaxRecord     \* bound: records logged

Kept == 2               \* buffers kept by either resize(2)

ASSUME BuffersAssumption == MaxBuffers \in Nat /\ MaxBuffers >= Kept

VARIABLES
  built,     \* 0: the thread started, 1: running_ set, 2: buffers allocated
  running,   \* running_
  current,   \* current_buffer_
  full,      \* full_buffers_
  empty,     \* empty_buffers_
  file,      \* what was written
  writerAt,  \* where the writer thread is in work()
  written,   \* buffers of full it has written in this round
  logged,    \* the last record logged
  dropped,   \* history: records reported as dropped
  raced      \* history: log() used a list while the writer did without the
             \* mutex, or the writer read running_ too early

loggerVars == <<built, running, current, full, empty, file, writerAt, written,
                logged, dropped, raced>>

LoggerInit ==
  /\ built = 0 /\ running = FALSE
  /\ current = <<>> /\ full = <<>> /\ empty = <<>> /\ file = <<>>
  /\ writerAt = "while" /\ written = 0
  /\ logged = 0 /\ dropped = {} /\ raced = FALSE

Unlocked == writerAt \in {"drop", "write", "shrink", "splice"}

(* The rest of the constructor.                                            *)
Build ==
  /\ built < 2
  /\ built' = built + 1
  /\ running' = TRUE
  /\ IF built = 1 THEN empty' = empty \o <<<<>>, <<>>>> /\ raced' = (raced \/ Unlocked)
                  ELSE UNCHANGED <<empty, raced>>
  /\ UNCHANGED <<current, full, file, writerAt, written, logged, dropped>>

NextEmpty == IF empty = <<>> THEN <<>> ELSE Head(empty)
EmptyLeft == IF empty = <<>> THEN <<>> ELSE Tail(empty)

(* log() by any thread, while the logger lives.                            *)
Log ==
  /\ built = 2 /\ running /\ logged < MaxRecord
  /\ logged' = logged + 1
  /\ IF Len(current) < BufferSize
     THEN current' = Append(current, logged') /\ UNCHANGED <<full, empty, raced>>
     ELSE /\ full' = Append(full, current)
          /\ current' = Append(NextEmpty, logged')
          /\ empty' = EmptyLeft
          /\ raced' = (raced \/ Unlocked)
  /\ UNCHANGED <<built, running, file, writerAt, written, dropped>>

(* ~FileLogger.                                                            *)
Destruct ==
  /\ built = 2 /\ running
  /\ running' = FALSE
  /\ UNCHANGED <<built, current, full, empty, file, writerAt, written, logged, dropped, raced>>

-----------------------------------------------------------------------------
Goes(place) == writerAt = place[1] /\ writerAt' = place[2]

(* while (running_).                                                       *)
TestRunning ==
  /\ writerAt = "while"
  /\ \/ built = 0 /\ writerAt' \in {"wait", "drain"}
     \/ built > 0 /\ writerAt' = IF running THEN "wait" ELSE "drain"
  /\ raced' = (raced \/ (built = 0 /\ writerAt' = "drain"))
  /\ UNCHANGED <<built, running, current, full, empty, file, written, logged, dropped>>

(* Behind wait_for, which ends at any time: the buffers are swapped.       *)
SwapFirst ==
  /\ Goes(<<"wait", "drop">>)
  /\ full' = <<current>> \o full
  /\ current' = NextEmpty
  /\ empty' = EmptyLeft
  /\ UNCHANGED <<built, running, file, written, logged, dropped, raced>>

Swap ==
  /\ Goes(<<"wait", "drop">>)
  /\ full' = Append(full, current)
  /\ current' = NextEmpty
  /\ empty' = EmptyLeft
  /\ UNCHANGED <<built, running, file, written, logged, dropped, raced>>

(* Too many: all but the oldest two are dropped, and that is reported.     *)
Drop ==
  /\ Goes(<<"drop", "write">>)
  /\ written' = 0
  /\ IF Len(full) > MaxBuffers
     THEN /\ full' = SubSeq(full, 1, Kept)
          /\ dropped' = dropped \cup UNION {ToSet(full[i]) : i \in Kept + 1 .. Len(full)}
     ELSE UNCHANGED <<full, dropped>>
  /\ UNCHANGED <<built, running, current, empty, file, logged, raced>>

(* The loop over the list: write a buffer and reset it.                    *)
WriteOneKeeps ==
  /\ writerAt = "write"
  /\ written < Len(full)
  /\ written' = written + 1
  /\ file' = file \o full[written']
  /\ UNCHANGED <<built, running, current, full, empty, writerAt, logged, dropped, raced>>

WriteOne ==
  /\ writerAt = "write"
  /\ written < Len(full)
  /\ written' = written + 1
  /\ file' = file \o full[written']
  /\ full' = [full EXCEPT ![written'] = <<>>]
  /\ UNCHANGED <<built, running, current, empty, writerAt, logged, dropped, raced>>

WroteAll ==
  /\ Goes(<<"write", "shrink">>)
  /\ written = Len(full)
  /\ UNCHANGED <<built, running, current, full, empty, file, written, logged, dropped, raced>>

Shrink ==
  /\ Goes(<<"shrink", "splice">>)
  /\ full' = IF Len(full) > Kept THEN SubSeq(full, 1, Kept) ELSE full
  /\ UNCHANGED <<built, running, current, empty, file, written, logged, dropped, raced>>

Splice ==
  /\ Goes(<<"splice", "while">>)
  /\ empty' = empty \o full
  /\ full' = <<>>
  /\ written' = 0
  /\ UNCHANGED <<built, running, current, file, logged, dropped, raced>>

(* Behind the loop: what is left is written, without the mutex.            *)
Drain ==
  /\ Goes(<<"drain", "flush">>)
  /\ full' = IF current = <<>> THEN full ELSE Append(full, current)
  /\ current' = <<>>
  /\ UNCHANGED <<built, running, empty, file, written, logged, dropped, raced>>

WriteLast ==
  /\ writerAt = "flush"
  /\ written < Len(full)
  /\ written' = written + 1
  /\ file' = file \o full[written']
  /\ UNCHANGED <<built, running, current, full, empty, writerAt, logged, dropped, raced>>

WroteLast ==
  /\ Goes(<<"flush", "ended">>)
  /\ written = Len(full)
  /\ UNCHANGED <<built, running, current, full, empty, file, written, logged, dropped, raced>>

Work ==
  \/ TestRunning \/ Swap \/ Drop \/ WriteOne \/ WroteAll \/ Shrink \/ Splice
  \/ Drain \/ WriteLast \/ WroteLast

LoggerNext == Build \/ Log \/ Destruct \/ Work

LoggerSpec == LoggerInit /\ [][LoggerNext]_loggerVars

-----------------------------------------------------------------------------
(* No record is written twice, whatever log() does to the lists while the  *)
(* writer uses them: a buffer is reset before it can be filled again.      *)
WrittenAtMostOnce == IsInjective(file)

(* Unless log() met the writer outside the mutex, the file, the buffers    *)
(* still to be written and the current one hold the records that were      *)
(* logged and not reported as dropped, and all of them, in order           *)
(* (logger.hpp:201-208 against 228-252).                                   *)
Stream == <<file>> \o SubSeq(full, written + 1, Len(full)) \o <<current>>

NothingLostUnraced ==
  ~raced =>
    /\ UNION {ToSet(Stream[i]) : i \in DOMAIN Stream} = (1 .. logged) \ dropped
    /\ \A i, j \in DOMAIN Stream : \A k \in DOMAIN Stream[i], l \in DOMAIN Stream[j] :
         i < j \/ (i = j /\ k < l) => Stream[i][k] < Stream[j][l]
=============================================================================
