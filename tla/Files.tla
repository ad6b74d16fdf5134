------------------------------- MODULE Files -------------------------------
(***************************************************************************)
(* fs/: how a Builder's options become the flags of an open, File's        *)
(* read_to_end and write_all over reads and writes that are short or fail, *)
(* and Dir::create_dir_all.  Coroutines work on one file, each through a   *)
(* File of its own, with a position of its own; every co_await is a step,  *)
(* so other coroutines write, append and truncate in between.  Each open   *)
(* has a Builder of its own: one used again still has the flags_ of its    *)
(* last open.                                                              *)
(*                                                                         *)
(* The bytes written are numbered, and 0 is the byte of a hole.  Streams'  *)
(* write_all (net/impl/impl_stream_write.hpp) and stdout's are File's, on  *)
(* something that only appends.                                            *)
(*                                                                         *)
(* No action uses TookOnly: it is a faulty variant of the next definition, *)
(* for mutation testing.                                                   *)
(***************************************************************************)
EXTENDS Naturals, FiniteSets, Sequences

CONSTANTS
  Handles,     \* File objects, with the coroutine that uses each
  MaxWritten,  \* bound: bytes written
  SeekTo,      \* positions that seek goes to
  MaxAtOnce,   \* bound: bytes of one write_all
  Depth        \* names in the path given to create_dir_all

ASSUME FilesAssumption == SeekTo \subseteq Nat /\ MaxAtOnce \in Nat

VARIABLES
  opened,   \* opened[h]: how h is open, and whether it should read and write
  call,     \* call[h]: the call in progress, or the last one
  content,  \* the bytes of the file
  exists,   \* there is a file
  written,  \* bytes given to write_all
  dirs,     \* how many of the path's directories exist
  making    \* create_dir_all: what it does and its dir_stack's size

filesVars == <<opened, call, content, exists, written>>
dirVars   == <<dirs, making>>

Options == {"read", "write", "append", "create", "truncate"}
NotOpen == [asked |-> {}, flags |-> {}, pos |-> 0]
NotCalled  == [do |-> "none"]

FilesInit ==
  /\ content = <<>> /\ exists = FALSE /\ written = 0
  /\ opened = [h \in Handles |-> NotOpen] /\ call = [h \in Handles |-> NotCalled]

DirectoriesInit == dirs = 0 /\ making = [do |-> "none", stack |-> 0]

(* adjust_flags(): what the options make of flags_; -1 has every bit.      *)
Access(asked) ==
  IF "append" \in asked
  THEN {"O_APPEND"} \cup IF "read" \in asked THEN {"O_RDWR"} ELSE {"O_WRONLY"}
  ELSE IF {"read", "write"} \subseteq asked THEN {"O_RDWR"}
  ELSE IF "write" \in asked THEN {"O_WRONLY"}
  ELSE IF "read" \in asked THEN {}
  ELSE {"O_APPEND", "O_RDWR", "O_WRONLY", "O_TRUNC", "O_CREAT", "others"}

AdjustFlags(asked) ==
  Access(asked)
    \cup (IF "truncate" \in asked THEN {"O_TRUNC"} ELSE {})
    \cup (IF "create" \in asked THEN {"O_CREAT"} ELSE {})

(* O_RDONLY is 0, and O_WRONLY with O_RDWR permits neither.                *)
Readable(h) == opened[h] # NotOpen /\ "O_WRONLY" \notin opened[h].flags
Writable(h) == opened[h] # NotOpen /\ Cardinality(opened[h].flags \cap {"O_WRONLY", "O_RDWR"}) = 1
Appends(h)  == "O_APPEND" \in opened[h].flags

Unoccupied(h) == call[h].do \in {"none", "returned"}

(* The calls of others are told (only the property looks) that bytes they  *)
(* may have seen, or put there, are overwritten or cut off.                *)
Overwriting(h) ==
  [g \in Handles |-> IF g = h THEN call[g] ELSE IF Unoccupied(g) THEN NotCalled
                     ELSE [call[g] EXCEPT !.whole = FALSE]]

-----------------------------------------------------------------------------
(* open() with the options asked for: it fails with impossible flags, and  *)
(* for want of the file.                                                   *)
Open(h, asked) ==
  /\ opened[h] = NotOpen
  /\ LET flags == AdjustFlags(asked)
     IN /\ "others" \notin flags /\ (exists \/ "O_CREAT" \in flags)
        /\ opened' = [opened EXCEPT ![h] =
             [asked |-> (asked \cap {"read"}) \cup
                          (IF asked \cap {"write", "append"} = {} THEN {} ELSE {"write"}),
              flags |-> flags \ {"O_TRUNC", "O_CREAT"}, pos |-> 0]]
        /\ exists' = TRUE
        /\ IF "O_TRUNC" \in flags THEN content' = <<>> /\ call' = Overwriting(h)
           ELSE UNCHANGED <<content, call>>
  /\ UNCHANGED written

CloseFile(h) ==
  /\ opened[h] # NotOpen /\ Unoccupied(h)
  /\ opened' = [opened EXCEPT ![h] = NotOpen] /\ call' = [call EXCEPT ![h] = NotCalled]
  /\ UNCHANGED <<content, exists, written>>

Seek(h, to) ==
  /\ opened[h] # NotOpen /\ Unoccupied(h) /\ opened[h].pos # to
  /\ opened' = [opened EXCEPT ![h].pos = to]
  /\ UNCHANGED <<call, content, exists, written>>

(* read_to_end: metadata() is awaited; the container then grows by size -  *)
(* position, computed without sign.  With a position past the end it       *)
(* shrinks, or throws; neither is followed here.                           *)
BeginReadToEnd(h) ==
  /\ Readable(h) /\ Unoccupied(h)
  /\ call' = [call EXCEPT ![h] =
       IF opened[h].pos > Len(content) THEN NotCalled
       ELSE [do |-> "read", from |-> opened[h].pos, size |-> Len(content),
             got |-> <<>>, whole |-> TRUE]]
  /\ UNCHANGED <<opened, content, exists, written>>

TookOnly(c, bytes) == [c EXCEPT !.got = bytes \o SubSeq(@, Len(bytes) + 1, Len(@))]
Took(c, bytes) == [c EXCEPT !.got = @ \o bytes]

(* One turn of its loop: a read at the position, into what is left of the  *)
(* container, which ends when that is full or nothing comes.               *)
ReadSome(h) ==
  /\ call[h].do = "read"
  /\ LET pos == opened[h].pos
         left == call[h].size - call[h].from - Len(call[h].got)
         there == IF pos > Len(content) THEN 0 ELSE Len(content) - pos
     IN \E n \in 0 .. left :
          /\ n <= there /\ (n = 0 => left = 0 \/ there = 0)
          /\ opened' = [opened EXCEPT ![h].pos = pos + n]
          /\ call' = [call EXCEPT ![h] =
               [Took(call[h], SubSeq(content, pos + 1, pos + n)) EXCEPT
                  !.do = IF n = 0 \/ n = left THEN "returned" ELSE "read"]]
  /\ UNCHANGED <<content, exists, written>>

(* write_all of the next n bytes.                                          *)
BeginWriteAll(h, n) ==
  /\ Writable(h) /\ Unoccupied(h) /\ n > 0 /\ written + n <= MaxWritten
  /\ written' = written + n
  /\ call' = [call EXCEPT ![h] =
       [do |-> "write", bytes |-> [i \in 1 .. n |-> written + i], done |-> 0, whole |-> TRUE]]
  /\ UNCHANGED <<opened, content, exists>>

(* One turn of its loop: n bytes at the position, or at the end.           *)
WriteSome(h) ==
  /\ call[h].do = "write"
  /\ LET c == call[h]
         at == IF Appends(h) THEN Len(content) ELSE opened[h].pos
     IN \E n \in 1 .. Len(c.bytes) - c.done :
          LET end == at + n
              size == IF end > Len(content) THEN end ELSE Len(content)
          IN /\ content' = [i \in 1 .. size |->
                   IF i \in at + 1 .. end THEN c.bytes[c.done + i - at]
                   ELSE IF i <= Len(content) THEN content[i] ELSE 0]
             /\ opened' = [opened EXCEPT ![h].pos = end]
             /\ call' = [(IF at < Len(content) THEN Overwriting(h) ELSE call) EXCEPT ![h] =
                   [c EXCEPT !.done = @ + n, !.do = IF c.done + n = Len(c.bytes) THEN "returned" ELSE @]]
  /\ UNCHANGED <<exists, written>>

(* A read or write fails, or a write takes nothing.                        *)
CallFails(h) ==
  /\ call[h].do \in {"read", "write"}
  /\ call' = [call EXCEPT ![h] = NotCalled]
  /\ UNCHANGED <<opened, content, exists, written>>

-----------------------------------------------------------------------------
(* mkdir of the whole path: substr() shortens the string_view, but its     *)
(* data() is not terminated there.                                         *)
Mkdir == IF dirs = Depth THEN "EEXIST" ELSE IF dirs = Depth - 1 THEN "made" ELSE "ENOENT"
Made  == dirs' = IF Mkdir = "made" THEN Depth ELSE dirs

MakingGoes(do, stack) == making' = [do |-> do, stack |-> stack]

(* The first mkdir; only a path that exists goes on.                       *)
CreateDirAll ==
  /\ making.do \in {"none", "made", "failed"} /\ Made
  /\ CASE Mkdir = "made"   -> MakingGoes("made", 0)
       [] Mkdir = "EEXIST" -> MakingGoes("up", 1)
       [] OTHER            -> MakingGoes("failed", 0)

(* The loop towards the root pushes one prefix per turn.                   *)
TowardsRoot ==
  /\ making.do = "up"
  /\ IF making.stack = Depth THEN MakingGoes("down", making.stack) /\ UNCHANGED dirs
     ELSE /\ Made
          /\ CASE Mkdir = "made"   -> MakingGoes("down", making.stack)
               [] Mkdir = "EEXIST" -> MakingGoes("up", making.stack + 1)
               [] OTHER            -> MakingGoes("failed", 0)

(* The loop back makes what was pushed.                                    *)
BackDown ==
  /\ making.do = "down" /\ Made
  /\ IF Mkdir # "made" THEN MakingGoes("failed", 0)
     ELSE IF making.stack = 1 THEN MakingGoes("made", 0)
     ELSE MakingGoes("down", making.stack - 1)

(* Others make and remove directories of the path.                         *)
OthersChange ==
  /\ \/ dirs < Depth /\ dirs' = dirs + 1
     \/ dirs > 0 /\ dirs' = dirs - 1
  /\ making' = [making EXCEPT !.do = IF @ = "made" THEN "none" ELSE @]

FilesNext ==
  \/ \E h \in Handles :
       \/ \E asked \in SUBSET Options : Open(h, asked)
       \/ CloseFile(h) \/ BeginReadToEnd(h) \/ ReadSome(h) \/ WriteSome(h) \/ CallFails(h)
       \/ \E to \in SeekTo : Seek(h, to)
       \/ \E n \in 1 .. MaxAtOnce : BeginWriteAll(h, n)

DirectoriesNext == CreateDirAll \/ TowardsRoot \/ BackDown \/ OthersChange

FilesSpec ==
  /\ FilesInit /\ DirectoriesInit
  /\ [][\/ FilesNext /\ UNCHANGED dirVars
        \/ DirectoriesNext /\ UNCHANGED filesVars]_<<filesVars, dirVars>>

-----------------------------------------------------------------------------
(* A read_to_end has, in order, the bytes from its position on, all of     *)
(* those the file had when it asked once it returns, and a write_all's     *)
(* bytes are in the file once and in order, all of them once it returns,   *)
(* over every division into short reads and writes and next to any number  *)
(* of appends, as long as nobody overwrites or truncates (file.hpp:24-52,  *)
(* impl_async_write.hpp:49-63); a File permits exactly what its options    *)
(* asked for (builder.hpp:67-88); and create_dir_all that succeeds leaves  *)
(* the directory (dir.hpp:18-52).                                          *)
Gets(c)  == c.do = "read" \/ (c.do = "returned" /\ "got" \in DOMAIN c)
Puts(c)  == c.do = "write" \/ (c.do = "returned" /\ "bytes" \in DOMAIN c)
Among(bytes) == {p \in DOMAIN content : \E i \in DOMAIN bytes : content[p] = bytes[i]}

ReadsAndWritesWhole ==
  /\ \A h \in Handles :
       LET c == call[h] IN
       /\ Gets(c) /\ c.whole =>
            /\ c.got = SubSeq(content, c.from + 1, c.from + Len(c.got))
            /\ c.do = "returned" => Len(c.got) = c.size - c.from
       /\ Puts(c) /\ c.whole =>
            /\ {content[p] : p \in Among(c.bytes)} = {c.bytes[i] : i \in 1 .. c.done}
            /\ \A p, q \in Among(c.bytes) : p < q => content[p] < content[q]
            /\ c.do = "returned" => c.done = Len(c.bytes)
       /\ opened[h] # NotOpen =>
            /\ Readable(h) <=> "read" \in opened[h].asked
            /\ Writable(h) <=> "write" \in opened[h].asked
  /\ making.do = "made" => dirs = Depth
=============================================================================
