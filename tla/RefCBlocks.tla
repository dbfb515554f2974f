----------------------------- MODULE RefCBlocks -----------------------------
(***************************************************************************)
(* Programs with the RefC objects that hold blocks of memory: arrays       *)
(* (RefCArray), or strings, lists, iterators and buffers (RefCText).  What *)
(* a program uses is chosen at the start.                                  *)
(***************************************************************************)
EXTENDS RefCArray, Integers

CONSTANTS Byte, Ascii, Encoding, CInt, Literals, Programs, Width, MaxLen, MaxSize, Lost, None

VARIABLES uses, str, list, it, buf, slots, status

Text == INSTANCE RefCText

text == <<uses, str, list, it, buf, slots, status>>

ASSUME TextConstants == Text!TextAssumption

BlocksInit ==
  /\ Init /\ Text!Init
  /\ uses = {"arrays"} => str.meaning = <<>>   \* it has no use for one

BlocksNext ==
  \/ uses = {"arrays"} /\ Next /\ UNCHANGED text
  \/ uses # {"arrays"} /\ Text!Next /\ UNCHANGED vars

BlocksSpec == BlocksInit /\ [][BlocksNext]_<<vars, text>>

\* A bound: while an iterator is open the program keeps no list of characters,
\* which no operation of a program with iterators reads.
NoListMeanwhile == it # None => list.items = <<>>

\* TextIsKept: every string a program makes is a block that ends where
\* strlen stops, and a buffer gives back what was written into it
\* (stringOps.c and buffer.c; see RefCText).
TextIsKept == Text!TypeOK /\ Text!BufferKeeps

\* TextReads: strings, lists and open iterators hold the characters they
\* should, whatever the operations and their order, unless the meaning is
\* Lost (stringOps.c; see RefCText).
TextReads == Text!ReadsAsMeant
=============================================================================
