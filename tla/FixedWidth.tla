----------------------------- MODULE FixedWidth -----------------------------
(***************************************************************************)
(* The numbers of the source language: what a value of each primitive type *)
(* is, and what Idris promises of conversion, division and remainder on    *)
(* them.  A number is a character when it is a Unicode code point, which is *)
(* what the evaluator of the compiler (Core.Primitives.castChar) and the   *)
(* Chez and Racket back ends (cast-int-char) make of it.  Nothing here is  *)
(* taken from the RefC back end.                                           *)
(***************************************************************************)
EXTENDS Integers

CONSTANTS
  M8, M16, M32, M64, \* how many values the 8, 16, 32 and 64 bit types have
  CodePoint          \* the characters: 0..0xd7ff and 0xe000..0x10ffff

ASSUME WidthAssumption ==
  /\ M8 \in Nat /\ M16 \in Nat /\ M32 \in Nat /\ M64 \in Nat
  /\ \E k \in 1..M8 : M8 = 4 * k
  /\ \E k \in 1..M16 : M16 = k * M8
  /\ \E k \in 1..M32 : M32 = k * M16
  /\ \E k \in 1..M64 : M64 = k * M32

ASSUME CharAssumption == CodePoint \subseteq Nat /\ 0 .. M8 - 1 \subseteq CodePoint

Bits   == {"Bits8", "Bits16", "Bits32", "Bits64"}
Signed == {"Int8", "Int16", "Int32", "Int64"}
Fixed  == Bits \cup Signed
Type   == Fixed \cup {"Char", "Integer"}

Modulus(t) ==
  CASE t \in {"Bits8", "Int8"} -> M8
    [] t \in {"Bits16", "Int16"} -> M16
    [] t \in {"Bits32", "Int32"} -> M32
    [] OTHER -> M64

\* The values of a fixed-width type: from Lowest to Highest.
Lowest(t)  == IF t \in Signed THEN -(Modulus(t) \div 2) ELSE 0
Highest(t) == Lowest(t) + Modulus(t) - 1
InRange(t, n) ==
  /\ t \in Fixed => Lowest(t) <= n /\ n <= Highest(t)
  /\ t = "Char" => n \in CodePoint

\* The value of type t that stands for n: the one congruent to it, or the
\* character of that number, or else the character 0.
Fit(t, n) ==
  CASE t \in Fixed -> CHOOSE v \in Lowest(t)..Highest(t) : (n - v) % Modulus(t) = 0
    [] t = "Char" -> IF n \in CodePoint THEN n ELSE 0
    [] OTHER -> n

Magnitude(n) == IF n < 0 THEN -n ELSE n

\* Euclidean division: the remainder is never negative.
Rest(a, b) == a % Magnitude(b)
Quotient(a, b) ==
  LET q == (a - Rest(a, b)) \div Magnitude(b) IN IF b < 0 THEN -q ELSE q

\* What each operation yields, and whether each comparison holds.
Holds(op, a, b) ==
  CASE op = "lt" -> a < b
    [] op = "gt" -> a > b
    [] op = "eq" -> a = b
    [] op = "lte" -> a <= b
    [] op = "gte" -> a >= b
Truth(b) == IF b THEN 1 ELSE 0

Meaning(op, t, a, b) ==
  Fit(t, CASE op = "add" -> a + b
           [] op = "sub" -> a - b
           [] op = "mul" -> a * b
           [] op = "negate" -> -a
           [] op = "div" -> Quotient(a, b)
           [] op = "mod" -> Rest(a, b)
           [] op = "shiftl" -> a * 2^b
           [] op = "shiftr" -> a \div 2^b)
=============================================================================
