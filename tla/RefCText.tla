------------------------------ MODULE RefCText ------------------------------
(***************************************************************************)
(* Strings, string iterators and buffers of the RefC backend               *)
(* (support/refc/stringOps.c, buffer.c), seen by a program with one String, *)
(* one List Char, one iterator and one Buffer.                             *)
(*                                                                         *)
(* A String is a block of C memory that is read up to its first NUL byte.  *)
(* The generator writes a character from 128 as several bytes of UTF-8, and *)
(* the operations then count bytes.  Beside each value stands what Idris   *)
(* says it is, its meaning: the UTF-8 of the characters a string has, the  *)
(* characters of a list; or Lost once the program did what the              *)
(* representation cannot follow: it took a string apart that is not Plain, *)
(* made one of NULs or of bytes that are not Plain, gave a length that is  *)
(* no C int, or read bytes as text that were not written as text.          *)
(***************************************************************************)
EXTENDS Integers, Sequences

CONSTANTS
  Byte,      \* how many values a byte has: 256 in C
  Ascii,     \* the characters that take one byte: 128 in UTF-8
  Encoding,  \* the bytes of each character that the literals have
  CInt,      \* how many values a C int has
  Literals,  \* the string literals of the program: sequences of characters
  Programs,  \* what a program may use: sets of "strings", "lists", ...
  Width,     \* the widths of the numbers written into buffers, in bytes
  MaxLen,    \* bound: length of strings and lists
  MaxSize,   \* bound: size of buffers
  Lost, None

NUL  == 0
Char == 0 .. Byte - 1

\* What is emitted for a literal.
Utf8(l) ==
  LET done[k \in 0 .. Len(l)] ==
        IF k = 0 THEN <<>> ELSE done[k - 1] \o Encoding[l[k]]
  IN done[Len(l)]

\* Each byte is a character, and the other way round.
Plain(bytes) == \A i \in DOMAIN bytes : bytes[i] < Ascii

\* What a module that instantiates this one assumes of the constants.
TextAssumption ==
  /\ Byte \in Nat /\ Byte > 1
  /\ MaxLen \in Nat /\ MaxSize \in Nat
  /\ CInt \in Nat /\ 2 * MaxLen < CInt
  /\ Ascii \in 1 .. Byte
  /\ \A l \in Literals : Utf8(l) \in Seq(Char \ {NUL})
  /\ Width \subseteq Nat \ {0}

VARIABLES
  uses,    \* the operations of this program
  str,     \* a String
  list,    \* a List Char
  it,      \* the iterator that is open, with the characters it has given
  buf,     \* the bytes of the buffer
  slots,   \* what was written into the buffer and has not been overwritten
  status   \* "runs", "stopped" by a failed check, "crashed"

vars == <<uses, str, list, it, buf, slots, status>>

------------------------------------------------------------------------------
(* C memory *)

\* A byte nobody has set; it is not taken for the end of a string.
Junk == Byte
Malloc(n) == [i \in 1..n |-> Junk]
Zeroed(n) == [i \in 1..n |-> 0]

\* memcpy to an offset of a block; past its end no string is left.
Place(block, off, bytes) ==
  IF off + Len(bytes) > Len(block) THEN <<>>
  ELSE [i \in DOMAIN block |->
          IF i \in off + 1 .. off + Len(bytes) THEN bytes[i - off] ELSE block[i]]

From(block, off, n) == SubSeq(block, off + 1, off + n)

Ends(block) == \E i \in DOMAIN block : block[i] = NUL
StrLen(block) ==
  CHOOSE n \in 0 .. Len(block) - 1 :
    block[n + 1] = NUL /\ \A i \in 1..n : block[i] # NUL
CString(block) == From(block, 0, StrLen(block))

\* What is left of an argument that a C int receives.
ToCInt(n) == LET r == n % CInt IN IF r < CInt \div 2 THEN r ELSE r - CInt

Least(a, b) == IF a < b THEN a ELSE b

------------------------------------------------------------------------------
(* The operations on strings: each yields a block *)

MkString(s) == Place(Zeroed(StrLen(s) + 1), 0, CString(s))

StrTail(s) ==
  LET l == StrLen(s) IN
  IF l = 0 THEN Zeroed(1) ELSE Place(Zeroed(l), 0, From(s, 1, l - 1))

StrReverse(s) ==
  LET l == StrLen(s) IN
  Place(Zeroed(l + 1), 0, [i \in 1..l |-> s[l + 1 - i]])

StrCons(c, s) ==
  Place(Place(Zeroed(StrLen(s) + 2), 0, <<c>>), 1, CString(s))

StrAppend(a, b) ==
  LET la == StrLen(a) IN
  Place(Place(Zeroed(la + StrLen(b) + 1), 0, CString(a)), la, CString(b))

\* Slip: the block has no room for the NUL when the tail is the shorter.
StrSubstrTight(offset, n, s) ==
  LET l == Least(StrLen(s) - offset, n) IN
  Place(Zeroed(IF l < n THEN l ELSE l + 1), 0, From(s, offset, l))

StrSubstr(offset, n, s) ==
  LET l == Least(StrLen(s) - offset, n) IN
  Place(Zeroed(l + 1), 0, From(s, offset, l))

FastPack(items) ==
  LET l == Len(items) IN Place(Place(Malloc(l + 1), l, <<NUL>>), 0, items)

FastConcat(parts) ==
  LET offset[k \in 0 .. Len(parts)] ==
        IF k = 0 THEN 0 ELSE offset[k - 1] + StrLen(parts[k].block)
      total == offset[Len(parts)]
      filled[k \in 0 .. Len(parts)] ==
        IF k = 0 THEN Place(Malloc(total + 1), total, <<NUL>>)
        ELSE Place(filled[k - 1], offset[k - 1], CString(parts[k].block))
  IN filled[Len(parts)]

\* strncpy stops at a NUL and fills up with NULs.
BufferString(data, loc, n) ==
  LET got == From(data, loc, n) \o <<NUL>> IN
  Place(Place(Place(Malloc(n + 1), 0, Zeroed(n)), 0, CString(got)), n, <<NUL>>)

------------------------------------------------------------------------------
(* Buffers *)

InRange(loc, n) == loc >= 0 /\ n >= 0 /\ loc + n <= Len(buf)

\* How many values w bytes have.
Power(w) ==
  LET p[k \in 0..w] == IF k = 0 THEN 1 ELSE Byte * p[k - 1] IN p[w]

\* The lowest byte is stored, and the next one shifted to its place.
UIntLE(v, w) ==
  LET val[k \in 0..w] == IF k = 0 THEN v ELSE val[k - 1] \div Byte
  IN [i \in 1..w |-> val[i - 1] % Byte]

BufferUIntLE(data, loc, w) ==
  LET r[k \in 0..w] ==
        IF k = 0 THEN 0 ELSE r[k - 1] * Byte + data[loc + w + 1 - k]
  IN r[w]

\* What a getter reads: the sign is put back by the type it is assigned to.
Number(kind, data, loc, w) ==
  LET r == BufferUIntLE(data, loc, w) IN
  IF kind = "signed" /\ 2 * r >= Power(w) THEN r - Power(w) ELSE r

Numbers(kind, w) ==
  LET least == IF kind = "signed" THEN -(Power(w) \div 2) ELSE 0 IN
  least .. least + Power(w) - 1

Slot(kind, loc, n, val) == [kind |-> kind, loc |-> loc, len |-> n, val |-> val]
ZeroBytes(locs) == {Slot("unsigned", loc, 1, <<0>>) : loc \in locs}
Within(s, loc, n) == s.loc >= loc /\ s.loc + s.len <= loc + n
Apart(s, loc, n)  == s.loc + s.len <= loc \/ loc + n <= s.loc
Spared(loc, n)    == {s \in slots : Apart(s, loc, n)}

------------------------------------------------------------------------------
(* The program *)

Value(block, meaning) == [block |-> block, meaning |-> meaning]
Literal(l) == Value(Append(Utf8(l), NUL), Utf8(l))

\* The strings an operation may be given.
Operand == {str} \cup {Literal(l) : l \in Literals}

Init ==
  /\ uses \in Programs
  /\ str \in {Literal(l) : l \in Literals}
  /\ list = [items |-> <<>>, meaning |-> <<>>]
  /\ it = None
  /\ buf = <<>>
  /\ slots = {}
  /\ status = "runs"

Runs(operations) == status = "runs" /\ operations \in uses

\* The program keeps the result, while it is within the bound.
Keep(block, meaning) ==
  /\ Len(block) <= MaxLen + 1
  /\ str' = Value(block, meaning)

\* In the first n bytes, and in all of them, bytes and characters agree.
PlainTo(n, m) == m # Lost /\ Plain(SubSeq(m, 1, n))
Spelled(m)    == IF m # Lost /\ Plain(m) THEN m ELSE Lost

Joined(m, n) == IF m = Lost \/ n = Lost THEN Lost ELSE m \o n

OnlyStr  == UNCHANGED <<uses, list, it, buf, slots, status>>
OnlyList == UNCHANGED <<uses, str, it, buf, slots, status>>

Use ==
  /\ status = "runs"
  /\ \E l \in Literals : str' = Literal(l)
  /\ OnlyStr

DropFirst ==
  /\ Runs("strings")
  /\ Keep(StrTail(str.block),
          IF str.meaning # <<>> /\ PlainTo(1, str.meaning) THEN Tail(str.meaning) ELSE Lost)
  /\ OnlyStr

Turn ==
  /\ Runs("strings")
  /\ Keep(StrReverse(str.block),
          IF str.meaning = Lost \/ ~Plain(str.meaning) THEN Lost
          ELSE [i \in DOMAIN str.meaning |-> str.meaning[Len(str.meaning) + 1 - i]])
  /\ OnlyStr

Cons(c) ==
  /\ Runs("strings")
  /\ Keep(StrCons(c, str.block),
          IF c = NUL \/ c >= Ascii THEN Lost ELSE Joined(<<c>>, str.meaning))
  /\ OnlyStr

Concatenate(a, b) ==
  /\ Runs("strings")
  /\ Keep(StrAppend(a.block, b.block), Joined(a.meaning, b.meaning))
  /\ OnlyStr

\* substr of the Prelude: the index is compared with the length first.
Substr(i, n) ==
  /\ Runs("strings")
  /\ IF i < StrLen(str.block)
       THEN ToCInt(n) >= 0 /\ Keep(StrSubstr(i, ToCInt(n), str.block),
              IF str.meaning = Lost \/ n # ToCInt(n) THEN Lost
              ELSE LET end == Least(i + n, Len(str.meaning)) IN
                   IF PlainTo(end, str.meaning) THEN SubSeq(str.meaning, i + 1, end)
                   ELSE Lost)
       ELSE Keep(Zeroed(1), IF str.meaning = Lost THEN Lost ELSE <<>>)
  /\ OnlyStr

\* A length that a C int takes for a negative one.
SubstrCrashes(i, n) ==
  /\ Runs("strings")
  /\ i < StrLen(str.block) /\ ToCInt(n) < 0
  /\ status' = "crashed"
  /\ UNCHANGED <<uses, str, list, it, buf, slots>>

\* strIndex, or head when k is 0: the character goes before the list.
StrIndex(k) ==
  /\ Runs("lists")
  /\ k < StrLen(str.block) /\ Len(list.items) < MaxLen
  /\ LET c == str.block[k + 1] IN
     list' = [items |-> <<c>> \o list.items,
              meaning |-> IF PlainTo(k + 1, str.meaning)
                            THEN Joined(<<str.meaning[k + 1]>>, list.meaning)
                            ELSE Lost]
  /\ OnlyList

\* A character of the program's own, NUL included; one that is no byte has
\* been cut to a byte before it comes here (RefCNumbers).
Prepend(c) ==
  /\ Runs("lists")
  /\ Len(list.items) < MaxLen
  /\ list' = [items |-> <<c>> \o list.items, meaning |-> Joined(<<c>>, list.meaning)]
  /\ OnlyList

Unpack ==
  /\ Runs("lists")
  /\ list' = [items |-> CString(str.block), meaning |-> Spelled(str.meaning)]
  /\ OnlyList

Pack ==
  /\ Runs("lists")
  /\ Keep(MkString(FastPack(list.items)),
          IF \E i \in DOMAIN list.items : list.items[i] = NUL \/ list.items[i] >= Ascii
            THEN Lost
            ELSE list.meaning)
  /\ OnlyStr

Concat(a, b, c) ==
  /\ Runs("lists")
  /\ Keep(MkString(FastConcat(<<a, b, c>>)),
          Joined(a.meaning, Joined(b.meaning, c.meaning)))
  /\ OnlyStr

(* The iterator owns a copy of the string: str may change meanwhile. *)

IteratorNew(s) ==
  /\ Runs("iterator")
  /\ it = None
  /\ LET l == StrLen(s.block) IN
     it' = [block |-> Place(Malloc(l + 1), 0, From(s.block, 0, l + 1)),
            pos |-> 0, of |-> s.meaning, given |-> <<>>]
  /\ UNCHANGED <<uses, str, list, buf, slots, status>>

\* uncons; the iterator is linear, so the old one is never used again.
IteratorNext ==
  /\ Runs("iterator")
  /\ it # None
  /\ LET c == it.block[it.pos + 1] IN
     /\ c # NUL
     /\ it' = [it EXCEPT !.pos = @ + 1, !.given = Append(@, c)]
  /\ UNCHANGED <<uses, str, list, buf, slots, status>>

\* EOF: the iterator is collected, and unpack has the whole list.
IteratorEOF ==
  /\ Runs("iterator")
  /\ it # None
  /\ it.block[it.pos + 1] = NUL
  /\ list' = [items |-> it.given, meaning |-> Spelled(it.of)]
  /\ it' = None
  /\ UNCHANGED <<uses, str, buf, slots, status>>

\* Slip: the string is read from its start.
IteratorRestWhole(i) == MkString(i.block)

IteratorRest(i) == MkString(From(i.block, i.pos, Len(i.block) - i.pos))

IteratorToString ==
  /\ Runs("iterator")
  /\ it # None
  /\ str' = Value(IteratorRest(it),
                  IF PlainTo(Len(it.given), it.of)
                    THEN SubSeq(it.of, Len(it.given) + 1, Len(it.of))
                    ELSE Lost)
  /\ it' = None
  /\ UNCHANGED <<uses, list, buf, slots, status>>

NewBuffer(n) ==
  /\ Runs("buffer")
  /\ buf' = Zeroed(n)
  /\ slots' = ZeroBytes(0 .. n - 1)
  /\ UNCHANGED <<uses, str, list, it, status>>

\* A place that is not in the buffer ends the program before a byte moves.
Stop ==
  /\ status' = "stopped"
  /\ UNCHANGED <<uses, str, list, it, buf, slots>>

SetNumber(kind, loc, w, v) ==
  /\ Runs("buffer")
  /\ \/ ~InRange(loc, w) /\ Stop
     \/ /\ InRange(loc, w)
        /\ buf' = Place(buf, loc, UIntLE(v, w))
        /\ slots' = Spared(loc, w) \cup {Slot(kind, loc, w, <<v>>)}
        /\ UNCHANGED <<uses, str, list, it, status>>

SetString(loc, s) ==
  LET n == StrLen(s.block) IN
  /\ Runs("buffer")
  /\ \/ ~InRange(loc, n) /\ Stop
     \/ /\ InRange(loc, n)
        /\ buf' = Place(buf, loc, CString(s.block))
        /\ slots' = Spared(loc, n) \cup
             (IF s.meaning = Lost \/ n = 0 THEN {}
              ELSE {Slot("text", loc, n, s.meaning)})
        /\ UNCHANGED <<uses, str, list, it, status>>

\* Bytes are text only where that very text was written.
GetString(loc, n) ==
  /\ Runs("buffer")
  /\ \/ ~InRange(loc, n) /\ Stop
     \/ /\ InRange(loc, n)
        /\ Keep(MkString(BufferString(buf, loc, n)),
                IF \E s \in slots : s.kind = "text" /\ s.loc = loc /\ s.len = n
                  THEN (CHOOSE s \in slots : s.kind = "text" /\ s.loc = loc /\ s.len = n).val
                  ELSE Lost)
        /\ OnlyStr

\* What was written in the range that is copied, at its new place.
Moved(from, n, to) ==
  {[s EXCEPT !.loc = @ - from + to] : s \in {s \in slots : Within(s, from, n)}}

\* copyData within the buffer.  memcpy of overlapping ranges is undefined:
\* each byte may come from anywhere in the range.
Copy(from, n, to) ==
  /\ Runs("buffer")
  /\ \/ ~(InRange(from, n) /\ InRange(to, n)) /\ Stop
     \/ /\ InRange(from, n) /\ InRange(to, n)
        /\ \/ /\ from + n <= to \/ to + n <= from
              /\ buf' = Place(buf, to, From(buf, from, n))
              /\ slots' = Spared(to, n) \cup Moved(from, n, to)
           \/ /\ ~(from + n <= to \/ to + n <= from)
              /\ \E f \in [1..n -> 1..n] :
                   buf' = Place(buf, to, [i \in 1..n |-> buf[from + f[i]]])
              /\ slots' = Spared(to, n)
        /\ UNCHANGED <<uses, str, list, it, status>>

\* resizeBuffer: a new buffer, and what fits of the old one copied into it.
Resize(n) ==
  LET kept == Least(n, Len(buf)) IN
  /\ Runs("buffer")
  /\ buf' = Place(Zeroed(n), 0, From(buf, 0, kept))
  /\ slots' = {s \in slots : Within(s, 0, kept)} \cup ZeroBytes(kept .. n - 1)
  /\ UNCHANGED <<uses, str, list, it, status>>

Lengths == 0 .. MaxLen + 1 \cup CInt - 1 .. CInt + MaxLen
Location  == -1 .. MaxSize

Next ==
  \/ Use \/ DropFirst \/ Turn \/ Unpack \/ Pack
  \/ IteratorNext \/ IteratorEOF \/ IteratorToString
  \/ \E c \in Char : Cons(c) \/ Prepend(c)
  \/ \E a, b \in Operand : Concatenate(a, b) \/ Concat(a, str, b)
  \/ \E i \in 0..MaxLen, n \in Lengths : Substr(i, n) \/ SubstrCrashes(i, n)
  \/ \E k \in 0 .. MaxLen - 1 : StrIndex(k)
  \/ \E s \in Operand : IteratorNew(s)
  \/ \E n \in 0..MaxSize : NewBuffer(n) \/ Resize(n)
  \/ \E kind \in {"unsigned", "signed"}, loc \in Location, w \in Width :
       \E v \in Numbers(kind, w) : SetNumber(kind, loc, w, v)
  \/ \E loc \in Location, s \in Operand : SetString(loc, s)
  \/ \E loc \in Location, n \in 0..MaxSize : GetString(loc, n)
  \/ \E from, to \in Location, n \in 0..MaxSize : Copy(from, n, to)

Spec == Init /\ [][Next]_vars

------------------------------------------------------------------------------
(* Properties *)

IsString(block) == Ends(block) /\ \A i \in DOMAIN block : block[i] \in Char
IsMeaning(m) == m = Lost \/ m \in Seq(Char)

\* TypeOK: every String the operations make, and the iterator's copy, is a
\* block that has been filled and holds the NUL that ends it, so that the
\* next strlen stays inside it; slots lie in the buffer and never overlap.
TypeOK ==
  /\ uses \in Programs /\ status \in {"runs", "stopped", "crashed"}
  /\ IsString(str.block) /\ IsMeaning(str.meaning)
  /\ list.items \in Seq(Char) /\ IsMeaning(list.meaning)
  /\ it # None => IsString(it.block) /\ it.pos \in 0 .. StrLen(it.block)
  /\ buf \in Seq(Char) /\ Len(buf) <= MaxSize
  /\ \A s \in slots : InRange(s.loc, s.len)
  /\ \A s, t \in slots : s = t \/ Apart(s, t.loc, t.len)

\* ReadsAsMeant: whatever the operations, in any order, a string holds the
\* UTF-8 of the characters Idris says it has, and a list those characters, as
\* long as their meaning is not Lost: no NUL and no oversized length came in,
\* and no string was taken apart at or behind a character of several bytes.
\* An iterator has given the first bytes of its string and still has the rest
\* of them, whatever became of the string since.
ReadsAsMeant ==
  /\ str.meaning # Lost => CString(str.block) = str.meaning
  /\ list.meaning # Lost => list.items = list.meaning
  /\ it # None /\ it.of # Lost =>
       it.given \o From(it.block, it.pos, StrLen(it.block) - it.pos) = it.of

\* BufferKeeps: a number of any width, or a text, reads back as it was
\* written until something is written over it, wherever copies and resizing
\* have moved it.
BufferKeeps ==
  \A s \in slots :
    s.val = IF s.kind = "text" THEN CString(MkString(BufferString(buf, s.loc, s.len)))
            ELSE <<Number(s.kind, buf, s.loc, s.len)>>
=============================================================================
