---------------------------- MODULE RefCNumbers ----------------------------
(***************************************************************************)
(* The integers of the RefC runtime on a 64 bit machine: how casts.h,      *)
(* casts.c, mathFunctions.h and mathFunctions.c represent, convert and     *)
(* compute with them, and how generated code branches on them.             *)
(*                                                                         *)
(* A type of at most 32 bits lives in the upper half of the pointer itself *)
(* and is cut down to its width only when it is read, so that one value    *)
(* has several words: the byte 0 is the word 0, but also the word 256 that *)
(* 255 + 1 leaves behind.  Some casts hand on the pointer as it is.  The   *)
(* program below is a sequence of primitive operations on registers, whose *)
(* ideal field is a history variable: what the language says that the      *)
(* register holds.  The operations at which this runtime is known to part  *)
(* from the language are the operators named Careless; after one of them   *)
(* the history goes on from what the program then holds.                   *)
(***************************************************************************)
EXTENDS FixedWidth

CONSTANTS
  Reg,      \* the variables of the program
  Literals, \* bound: the constants that the program mentions
  Largest,  \* bound: how far the result of Integer arithmetic may go
  MaxShift  \* bound: how far a number is shifted

ASSUME NumbersAssumption ==
  /\ Literals \subseteq Int /\ Largest \in Nat /\ MaxShift \in Nat
  /\ \A k \in 0..MaxShift : 2^k \in Nat \ {0}

VARIABLE reg \* each register's type, representation and ideal value

(***************************************************************************)
(* Representation                                                          *)
(***************************************************************************)
Boxed   == {"Bits64", "Int64"}
Cut     == Fixed \cup {"Char"}   \* the types that have a width in C
Unboxed == Cut \ Boxed
Text    == "string"

\* The width of the C type: a Char is an unsigned char.
Size(t) == IF t = "Char" THEN M8 ELSE Modulus(t)
Byte    == 0 .. M8 - 1

\* C's conversions (uint8_t) n, (int8_t) n, ...
Convert(t, n) ==
  LET u == n % Size(t) IN
  IF t \in Signed /\ 2 * u >= Size(t) THEN u - Size(t) ELSE u

\* idris2_vp_to_Bits8(p), ...
Read(t, w) == IF t \in Cut THEN Convert(t, w) ELSE w

\* idris2_mkBits8(n), ...: the shift by half a pointer keeps 32 bits.
MakeUnboxed(n) == n % M32
MakeBoxed(n)   == n % M64
\* Slip: 64 bit numbers are kept in the pointer too.
MakeNothingBoxed(t, n) == IF t \in Cut THEN MakeUnboxed(n) ELSE n
Make(t, n) ==
  CASE t \in Unboxed -> MakeUnboxed(n)
    [] t \in Boxed -> MakeBoxed(n)
    [] OTHER -> n

\* The word that the type itself would be given for the value.
Canonical(t, w) == w = Make(t, Read(t, w))

(***************************************************************************)
(* Casts                                                                   *)
(***************************************************************************)
\* The casts defined as (x).
SignedInPlace(f) ==
  CASE f = "Int8"  -> {"Bits8", "Bits16", "Bits32"}
    [] f = "Int16" -> {"Bits16", "Bits32", "Int32"}
    [] f = "Int32" -> {"Bits32"}
    [] OTHER -> {"Int64"}
UnsignedInPlace(f) ==
  IF f = "Bits8" THEN {"Bits16", "Bits32", "Int8", "Int16", "Int32"} ELSE {}

InPlace(f) ==
  CASE f \in Signed -> SignedInPlace(f)
    [] f \in Bits -> UnsignedInPlace(f)
    [] OTHER -> {}

\* mpz_set_si and the PRId formats; mpz_set_ui and the PRIu formats.
SignedDigits(f, w)   == Read(f, w)
UnsignedDigits(f, w) == Read(f, w)
CharDigits(w)        == Read("Char", w)

FromSigned(f, t, w) ==
  CASE t \in SignedInPlace(f) -> w
    [] t \in Cut \ SignedInPlace(f) -> Make(t, Convert(t, Read(f, w)))
    [] OTHER -> SignedDigits(f, w)
FromUnsigned(f, t, w) ==
  CASE t \in UnsignedInPlace(f) -> w
    [] t \in Cut \ UnsignedInPlace(f) -> Make(t, Convert(t, Read(f, w)))
    [] OTHER -> UnsignedDigits(f, w)
FromChar(t, w) ==
  IF t \in Fixed THEN Make(t, Convert(t, Read("Char", w))) ELSE CharDigits(w)

\* mpz_get_lsb, then the conversion to the type.
LowBits(n, m) == n % m
FromInteger(t, n) ==
  IF t \in Cut THEN Make(t, Convert(t, LowBits(n, Size(t)))) ELSE n

CastWord(f, t, w) ==
  CASE f \in Signed -> FromSigned(f, t, w)
    [] f \in Bits -> FromUnsigned(f, t, w)
    [] f = "Char" -> FromChar(t, w)
    [] OTHER -> FromInteger(t, w)

\* There is no cast from a type to itself but for Int, whose C type is Int64.
MayCast(f, t) == f \in Type /\ (f # t \/ t = "Int64")

\* A pointer is handed on to a wider type while its word is not canonical;
\* and of a number that is to be a character the lowest byte is taken.
CarelessCast(f, t, w) ==
  \/ /\ t \in InPlace(f) /\ Modulus(f) < Modulus(t)
     /\ ~Canonical(f, w)
  \/ t = "Char" /\ Read(f, w) \notin Byte

(***************************************************************************)
(* Arithmetic                                                              *)
(***************************************************************************)
\* C's division, which truncates; the remainder has the dividend's sign.
CQuotient(a, b) ==
  LET q == Magnitude(a) \div Magnitude(b) IN
  IF (a < 0) = (b < 0) THEN q ELSE -q
CRest(a, b) ==
  IF a < 0 THEN -(Magnitude(a) % Magnitude(b)) ELSE a % Magnitude(b)

Arithmetic(op, t, a, b) ==
  CASE op = "add" -> Make(t, a + b)
    [] op = "sub" -> Make(t, a - b)
    [] op = "mul" -> Make(t, a * b)
    [] op = "negate" -> Make(t, -a)
IntegerArithmetic(op, a, b) ==
  CASE op = "add" -> a + b
    [] op = "sub" -> a - b
    [] op = "mul" -> a * b
    [] op = "negate" -> -a

\* idris2_binop with / and %.
UnsignedDivision(op, t, a, b) ==
  Make(t, IF op = "div" THEN a \div b ELSE a % b)

\* Slip: without the correction.
SignedTruncated(t, a, b) == Make(t, CQuotient(a, b))
\* Truncated division with the correction term.
SignedQuotient(t, a, b) ==
  LET correction == IF b < 0 THEN 1 ELSE -1 IN
  Make(t, CQuotient(a, b) + (IF CRest(a, b) < 0 THEN correction ELSE 0))

\* The magnitude of the divisor is kept in a variable of type t, and added
\* whenever the dividend is negative.
SignedRemainder(t, a, b) ==
  LET denom == Convert(t, Magnitude(b)) IN
  Make(t, CRest(a, denom) + (IF a < 0 THEN denom ELSE 0))

\* mpz_mod is never negative, and mpz_divexact divides what it leaves.
IntegerRemainder(a, b) == a % Magnitude(b)
IntegerQuotient(a, b) ==
  CQuotient(a - IntegerRemainder(a, b), b)

DivisionWord(op, t, a, b) ==
  CASE t \in Signed -> IF op = "div" THEN SignedQuotient(t, a, b)
                                     ELSE SignedRemainder(t, a, b)
    [] t = "Integer" -> IF op = "div" THEN IntegerQuotient(a, b)
                                      ELSE IntegerRemainder(a, b)
    [] OTHER -> UnsignedDivision(op, t, a, b)

\* A negative number is divided by one that divides it: the remainder that
\* is stored is the divisor and not zero.
CarelessDivision(op, t, a, b) ==
  op = "mod" /\ t \in Signed /\ a < 0 /\ CRest(a, b) = 0

\* << and >>, mpz_mul_2exp and mpz_fdiv_q_2exp.
ShiftWord(op, t, a, k) ==
  Make(t, IF op = "shiftl" THEN a * 2^k ELSE a \div 2^k)
IntegerShift(op, a, k) == IF op = "shiftl" THEN a * 2^k ELSE a \div 2^k

Compared(op, a, b) ==
  Make("Int8", CASE op = "lt" -> IF a < b THEN 1 ELSE 0
                 [] op = "gt" -> IF a > b THEN 1 ELSE 0
                 [] op = "eq" -> IF a = b THEN 1 ELSE 0
                 [] op = "lte" -> IF a > b THEN 0 ELSE 1
                 [] op = "gte" -> IF a < b THEN 0 ELSE 1)

(***************************************************************************)
(* Constants and branches                                                  *)
(***************************************************************************)
\* A character is written (char)n in the C program, and char is signed.
Constant(t, n) == IF t = "Char" THEN Convert("Int8", n) ELSE n

\* Which leaves the lowest byte of a character.
CarelessLiteral(t, n) == t = "Char" /\ n \notin Byte

\* idris2_extractInt: a C int, from the pointer or from what it points to.
ExtractInt(w) == Convert("Int32", w)

\* The branch is chosen by that int: the word must be canonical, and the
\* value and the constant numbers that int and char can hold.
CarelessMatch(t, w, c) ==
  \/ ~Canonical(t, w) \/ ~InRange("Int32", Read(t, w))
  \/ t = "Char" /\ ~InRange("Int8", Read(t, w))
  \/ CarelessLiteral(t, c)

(***************************************************************************)
(* The program                                                             *)
(***************************************************************************)
Result(t, w, n, careless) ==
  [type |-> t, word |-> w, ideal |-> IF careless THEN Read(t, w) ELSE n]
Put(r, result) == reg' = [reg EXCEPT ![r] = result]

Word(t) ==
  CASE t \in Unboxed -> 0..(M32 - 1)
    [] t \in Boxed -> 0..(M64 - 1)
    [] OTHER -> Int

TypeOK ==
  /\ reg \in [Reg -> [type : Type \cup {Text}, word : Int, ideal : Int]]
  /\ \A r \in Reg : reg[r].word \in Word(reg[r].type)

Init == reg = [r \in Reg |-> Result("Int64", 0, 0, FALSE)]

Literal(r) ==
  \E t \in Type, n \in Literals :
    InRange(t, n) /\ Put(r, Result(t, Make(t, Constant(t, n)), n, CarelessLiteral(t, n)))

Cast(r, s) ==
  LET f == reg[s].type  w == reg[s].word IN
  \E t \in Type \cup {Text} :
    /\ MayCast(f, t)
    /\ Put(r, Result(t, CastWord(f, t, w), Fit(t, reg[s].ideal), CarelessCast(f, t, w)))

\* Binary operations take two registers of one type.
Number == Bits \cup Signed \cup {"Integer"}
Operands(r, s) == reg[r].type = reg[s].type /\ reg[r].type \in Number
Value(r) == Read(reg[r].type, reg[r].word)
InBounds(t, n) == t = "Integer" => n \in -Largest..Largest

Yield(r, s, op, w, careless) ==
  LET t == reg[r].type IN
  /\ InBounds(t, w)
  /\ Put(r, Result(t, w, Meaning(op, t, reg[r].ideal, reg[s].ideal), careless))

Compute(r, s) ==
  LET t == reg[r].type IN
  \E op \in {"add", "sub", "mul", "negate"} :
    /\ Operands(r, s) /\ (op = "negate" => t \notin Bits)
    /\ Yield(r, s, op,
             IF t = "Integer" THEN IntegerArithmetic(op, Value(r), Value(s))
                              ELSE Arithmetic(op, t, Value(r), Value(s)), FALSE)

\* The one quotient that does not fit makes the processor trap, unless the
\* operands were promoted to int.
Traps(t, a, b) == t \in {"Int32", "Int64"} /\ a = Lowest(t) /\ b = -1

Divide(r, s) ==
  LET t == reg[r].type IN
  \E op \in {"div", "mod"} :
    /\ Operands(r, s) /\ Value(s) # 0 /\ ~Traps(t, Value(r), Value(s))
    /\ Yield(r, s, op, DivisionWord(op, t, Value(r), Value(s)),
             CarelessDivision(op, t, Value(r), Value(s)))

\* A shift by less than the width.
Shift(r, s) ==
  LET t == reg[r].type IN
  \E op \in {"shiftl", "shiftr"} :
    /\ Operands(r, s) /\ Value(s) \in 0..MaxShift
    /\ t # "Integer" => 2^Value(s) < Modulus(t)
    /\ Yield(r, s, op,
             IF t = "Integer" THEN IntegerShift(op, Value(r), Value(s))
                              ELSE ShiftWord(op, t, Value(r), Value(s)), FALSE)

\* and, or, xor: some value of the type; which one is not modelled.
Bitwise(r, s) ==
  \E n \in Literals :
    /\ Operands(r, s) /\ InRange(reg[r].type, n)
    /\ Put(r, Result(reg[r].type, Make(reg[r].type, n), n, FALSE))

Compare(r, s) ==
  \E op \in {"lt", "gt", "eq", "lte", "gte"} :
    /\ reg[r].type = reg[s].type /\ reg[r].type \in Type
    /\ Put(r, Result("Int8", Compared(op, Value(r), Value(s)),
                     Truth(Holds(op, reg[r].ideal, reg[s].ideal)), FALSE))

\* A case on a constant; r is set to whether its branch is taken.
Match(r, s) ==
  LET t == reg[s].type  w == reg[s].word IN
  \E c \in Literals :
    /\ t \in Type /\ InRange(t, c)
    /\ Put(r, Result("Int8", Make("Int8", IF ExtractInt(w) = Constant(t, c) THEN 1 ELSE 0),
                     Truth(reg[s].ideal = c), CarelessMatch(t, w, c)))

Next == \E r, s \in Reg :
  \/ Literal(r) \/ Cast(r, s) \/ Compute(r, s) \/ Divide(r, s)
  \/ Shift(r, s) \/ Bitwise(r, s) \/ Compare(r, s) \/ Match(r, s)

Spec == Init /\ [][Next]_reg

(***************************************************************************)
(* Properties                                                              *)
(***************************************************************************)

\* Whatever words, canonical or not, a program has come to by casts,
\* arithmetic, shifts, comparisons and branches, each of its variables reads
\* as the value that the language gives it, unless a careless operation, one
\* of the four that are named above, lies in between: a cast of a word that is
\* not canonical or to a character that is no byte, a literal of such a
\* character, the remainder 0 of a negative number, a branch on a word or a
\* constant that C cuts or reads with another sign (casts.h, escapeChar,
\* mathFunctions.c, idris2_extractInt).
RightUnlessCareless == \A r \in Reg : reg[r].ideal = Value(r)

\* With the types, an invariant that is inductive: each register holds a word of
\* its type, and the word reads as the value of the language.
Inv == TypeOK /\ RightUnlessCareless

\* Division and remainder fit together, x = (x div y) * y + x mod y, for all
\* the operands that a program has come to and that have a quotient of their
\* type, except where the remainder is careless (idris2_div_Int8, ...,
\* idris2_mod_Integer).
Law(t, a, b) ==
  LET div == Read(t, DivisionWord("div", t, a, b))
      mod == Read(t, DivisionWord("mod", t, a, b))
  IN div * b + mod = a
Dividing(r, s) ==
  Operands(r, s) /\ Value(s) # 0 /\ InRange(reg[r].type, Quotient(Value(r), Value(s)))
DivisionIsEuclidean ==
  \A r, s \in Reg :
    Dividing(r, s) /\ ~CarelessDivision("mod", reg[r].type, Value(r), Value(s))
      => Law(reg[r].type, Value(r), Value(s))

\* What the tests of the back end say of every fixed-width type: the
\* remainder of division fits the quotient (tests/refc/integers).
EuclideanDivision ==
  \A r, s \in Reg : Dividing(r, s) => Law(reg[r].type, Value(r), Value(s))
=============================================================================
