------------------------- MODULE RefCNumbersProofs -------------------------
(***************************************************************************)
(* Proofs about the integers of the RefC runtime, for words of every width *)
(* that WidthAssumption allows (8, 16, 32 and 64 bits among them), any     *)
(* number of registers and unbounded Integers: unless it goes through a    *)
(* careless operation, every value is the one that the language gives.     *)
(*                                                                         *)
(* The argument is modular arithmetic.  Reading a word yields the value of *)
(* the type that is congruent to it (ReadFits); making a word keeps the    *)
(* residue, because the width of the type divides that of the word         *)
(* (MakeFits); a cast keeps it because it reads through a type whose width *)
(* the target's divides, or because the word is canonical (CastFits); and  *)
(* C's truncated division is put right by its correction (Truncated).  A   *)
(* character that is a byte is read and made as a Bits8 (CharIsByte), and  *)
(* no other gets into a program but by a careless operation.               *)
(***************************************************************************)
EXTENDS RefCNumbers, TLAPS

\* The division of an integer: what is left is a residue.
LEMMA DivMod ==
  ASSUME NEW a \in Int, NEW m \in Nat \ {0}
  PROVE /\ a \div m \in Int /\ a % m \in Int
        /\ a = m * (a \div m) + (a % m)
        /\ 0 <= a % m /\ a % m < m
  OBVIOUS

\* Quotient and residue are determined by the equation they satisfy.
LEMMA ModUnique ==
  ASSUME NEW a \in Int, NEW m \in Nat \ {0}, NEW q \in Int, NEW r \in Int,
         a = q * m + r, 0 <= r, r < m
  PROVE a % m = r /\ a \div m = q
<1> DEFINE d == a \div m
           e == a % m
<1>1. d \in Int /\ e \in Int /\ a = m * d + e /\ 0 <= e /\ e < m BY DivMod
<1> HIDE DEF d, e
<1>2. m * (q - d) = e - r BY <1>1
<1>3. CASE q - d >= 1
  <2>1. m * (q - d) >= m BY <1>3, <1>1
  <2> QED BY <2>1, <1>1, <1>2
<1>4. CASE q - d <= -1
  <2>1. m * (q - d) <= -m BY <1>4, <1>1
  <2> QED BY <2>1, <1>1, <1>2
<1>5. CASE q = d
  <2>1. e = r BY <1>2, <1>5, <1>1
  <2> QED BY <2>1, <1>5 DEF d, e
<1> QED BY <1>1, <1>3, <1>4, <1>5

\* Adding multiples of the modulus keeps the residue.
LEMMA ModShift ==
  ASSUME NEW a \in Int, NEW m \in Nat \ {0}, NEW q \in Int
  PROVE (a + q * m) % m = a % m
<1> DEFINE d == a \div m
           e == a % m
<1>1. d \in Int /\ e \in Int /\ a = m * d + e /\ 0 <= e /\ e < m BY DivMod
<1> HIDE DEF d, e
<1>2. a + q * m = (q + d) * m + e BY <1>1
<1>3. (a + q * m) % m = e BY <1>1, <1>2, ModUnique
<1> QED BY <1>3 DEF e

\* Each width is even and positive, and they grow.
LEMMA Widths ==
  /\ \E h \in Nat \ {0} : M8 = 2 * h
  /\ \E h \in Nat \ {0} : M16 = 2 * h
  /\ \E h \in Nat \ {0} : M32 = 2 * h
  /\ \E h \in Nat \ {0} : M64 = 2 * h
  /\ M8 <= M16 /\ M16 <= M32 /\ M32 <= M64
<1>1. PICK h \in Nat \ {0} : M8 = 2 * h
  <2>1. PICK k \in 1..M8 : M8 = 4 * k BY WidthAssumption
  <2>2. M8 = 2 * (2 * k) /\ 2 * k \in Nat \ {0} BY <2>1, WidthAssumption
  <2> QED BY <2>2
<1>2. PICK k \in 1..M16 : M16 = k * M8 BY WidthAssumption
<1>3. PICK l \in 1..M32 : M32 = l * M16 BY WidthAssumption
<1>4. PICK m \in 1..M64 : M64 = m * M32 BY WidthAssumption
<1>5. M8 \in Nat /\ M16 \in Nat /\ M32 \in Nat /\ M64 \in Nat BY WidthAssumption
<1>6. M16 = 2 * (k * h) /\ k * h \in Nat \ {0} BY <1>1, <1>2, <1>5
<1>7. M32 = 2 * (l * (k * h)) /\ l * (k * h) \in Nat \ {0} BY <1>6, <1>3, <1>5
<1>8. M64 = 2 * (m * (l * (k * h))) /\ m * (l * (k * h)) \in Nat \ {0} BY <1>7, <1>4, <1>5
<1>9. M16 >= M8 BY <1>2, <1>5
<1>10. M32 >= M16 BY <1>3, <1>5
<1>11. M64 >= M32 BY <1>4, <1>5
<1> QED BY <1>1, <1>6, <1>7, <1>8, <1>9, <1>10, <1>11, <1>5

\* The same for the width of a type.
LEMMA ModulusEven ==
  ASSUME NEW t \in Fixed
  PROVE /\ Modulus(t) \in Nat \ {0}
        /\ Modulus(t) \div 2 \in Nat \ {0} /\ Modulus(t) = 2 * (Modulus(t) \div 2)
<1>1. \E h \in Nat \ {0} : Modulus(t) = 2 * h BY Widths DEF Modulus
<1> QED BY <1>1

\* The width of a type divides that of the word that carries it.
LEMMA WordWidth ==
  /\ \A t \in Fixed \ Boxed : \E k \in Nat \ {0} : M32 = k * Modulus(t)
  /\ \A t \in Boxed : Modulus(t) = M64
  /\ \E k \in Nat \ {0} : M64 = k * M32
<1>2. PICK k \in 1..M16 : M16 = k * M8 BY WidthAssumption
<1>3. PICK l \in 1..M32 : M32 = l * M16 BY WidthAssumption
<1>4. PICK m \in 1..M64 : M64 = m * M32 BY WidthAssumption
<1>5. M8 \in Nat /\ M16 \in Nat /\ M32 \in Nat /\ M64 \in Nat BY WidthAssumption
<1>6. M32 = (l * k) * M8 /\ l * k \in Nat \ {0} BY <1>2, <1>3, <1>5
<1>7. M32 = 1 * M32 BY <1>5
<1>8. k \in Nat \ {0} /\ l \in Nat \ {0} /\ m \in Nat \ {0} BY <1>5
<1>9. ASSUME NEW t \in Fixed \ Boxed PROVE \E j \in Nat \ {0} : M32 = j * Modulus(t)
  <2>1. CASE Modulus(t) = M8 BY <2>1, <1>6
  <2>2. CASE Modulus(t) = M16 BY <2>2, <1>3, <1>8
  <2>3. CASE Modulus(t) = M32 BY <2>3, <1>7
  <2> QED BY <2>1, <2>2, <2>3 DEF Modulus, Boxed, Fixed, Bits, Signed
<1> QED BY <1>4, <1>8, <1>9 DEF Boxed, Modulus

\* C's conversion yields the value of the type that is congruent to n.
LEMMA ConvertFits ==
  ASSUME NEW t \in Fixed, NEW n \in Int
  PROVE /\ Convert(t, n) \in Lowest(t)..Highest(t)
        /\ \E q \in Int : n = Convert(t, n) + q * Modulus(t)
<1> DEFINE m == Modulus(t)
           h == m \div 2
           u == n % m
           d == n \div m
<1>1. m \in Nat \ {0} /\ h \in Nat /\ m = 2 * h BY ModulusEven
<1>2. u \in Int /\ d \in Int /\ n = m * d + u /\ 0 <= u /\ u < m BY <1>1, DivMod
<1>3. Convert(t, n) = IF t \in Signed /\ 2 * u >= m THEN u - m ELSE u
  BY DEF Convert, Size, Fixed, Bits, Signed
<1>4. Lowest(t) = IF t \in Signed THEN -h ELSE 0 BY DEF Lowest
<1>5. Highest(t) = Lowest(t) + m - 1 BY DEF Highest
<1> HIDE DEF m, h, u, d
<1>6. CASE t \in Signed /\ 2 * u >= m
  <2>1. n = (u - m) + (d + 1) * m BY <1>1, <1>2
  <2>2. n = Convert(t, n) + (d + 1) * m /\ d + 1 \in Int BY <2>1, <1>3, <1>6, <1>2
  <2>3. Convert(t, n) \in Lowest(t)..Highest(t) BY <1>1, <1>2, <1>3, <1>4, <1>5, <1>6
  <2> QED BY <2>2, <2>3 DEF m
<1>7. CASE ~(t \in Signed /\ 2 * u >= m)
  <2>1. n = Convert(t, n) + d * m BY <1>1, <1>2, <1>3, <1>7
  <2>2. Convert(t, n) \in Lowest(t)..Highest(t) BY <1>1, <1>2, <1>3, <1>4, <1>5, <1>7
  <2> QED BY <2>1, <2>2, <1>2 DEF m
<1> QED BY <1>6, <1>7

\* A value of the type that is congruent to n is the one that stands for n.
LEMMA FitIs ==
  ASSUME NEW t \in Fixed, NEW v \in Lowest(t)..Highest(t), NEW q \in Int, NEW n \in Int,
         n = v + q * Modulus(t)
  PROVE Fit(t, n) = v
<1> DEFINE m == Modulus(t)
<1>1. m \in Nat \ {0} /\ Lowest(t) \in Int /\ v \in Int /\ Highest(t) = Lowest(t) + m - 1
  BY ModulusEven DEF Lowest, Highest
<1>2. n - v = q * m + 0 BY <1>1
<1> HIDE DEF m
<1>3. (n - v) % m = 0 BY <1>1, <1>2, ModUnique
<1>4. ASSUME NEW w \in Lowest(t)..Highest(t), (n - w) % m = 0 PROVE w = v
  <2> DEFINE d == (n - w) \div m
  <2>0. n - w \in Int /\ w \in Int BY <1>1
  <2>1. d \in Int /\ n - w = m * d
    <3>1. d \in Int /\ n - w = m * d + ((n - w) % m) BY <2>0, <1>1, DivMod
    <3> QED BY <3>1, <1>4, <1>1
  <2> HIDE DEF d
  <2>2. v - w = m * (d - q) BY <2>0, <2>1, <1>2, <1>1
  <2>3. v - w < m /\ w - v < m BY <2>0, <1>1
  <2>4. CASE d - q >= 1 
    <3>1. m * (d - q) >= m BY <2>4, <2>1, <1>1
    <3> QED BY <3>1, <2>0, <2>2, <2>3, <1>1
  <2>5. CASE d - q <= -1
    <3>1. m * (d - q) <= -m BY <2>5, <2>1, <1>1
    <3> QED BY <3>1, <2>0, <2>2, <2>3, <1>1
  <2>6. CASE d = q BY <2>6, <2>0, <2>2, <1>1
  <2> QED BY <2>1, <2>4, <2>5, <2>6
<1>5. Fit(t, n) = CHOOSE w \in Lowest(t)..Highest(t) : (n - w) % m = 0
  BY DEF Fit, m, Fixed, Bits, Signed
<1> QED BY <1>3, <1>4, <1>5

\* So C's conversion and the language's agree.
LEMMA ConvertIsFit ==
  ASSUME NEW t \in Fixed, NEW n \in Int
  PROVE Convert(t, n) = Fit(t, n) /\ Fit(t, n) \in Int
<1>1. PICK q \in Int : n = Convert(t, n) + q * Modulus(t) BY ConvertFits
<1>2. Convert(t, n) \in Lowest(t)..Highest(t) BY ConvertFits
<1>3. Convert(t, n) \in Int BY <1>2, ModulusEven DEF Lowest, Highest
<1> QED BY <1>1, <1>2, <1>3, FitIs

\* What stands for n depends on the residue of n alone.
LEMMA FitShift ==
  ASSUME NEW t \in Fixed, NEW n \in Int, NEW q \in Int
  PROVE Fit(t, n + q * Modulus(t)) = Fit(t, n)
<1>1. Modulus(t) \in Nat \ {0} BY ModulusEven
<1>2. (n + q * Modulus(t)) % Modulus(t) = n % Modulus(t) BY <1>1, ModShift
<1>3. n + q * Modulus(t) \in Int BY <1>1
<1> QED BY <1>2, <1>3, ConvertIsFit DEF Convert, Size, Fixed, Bits, Signed

\* A value of the type stands for itself.
LEMMA FitSelf ==
  ASSUME NEW t \in Type, NEW n \in Int, InRange(t, n)
  PROVE Fit(t, n) = n
<1>1. CASE t \in Fixed
  <2>1. n \in Lowest(t)..Highest(t) /\ n = n + 0 * Modulus(t)
    BY <1>1, ModulusEven DEF InRange, Lowest, Highest
  <2> QED BY <1>1, <2>1, FitIs
<1>2. CASE t \notin Fixed BY <1>2 DEF Fit, InRange
<1> QED BY <1>1, <1>2

\* A character is an unsigned char, read and made as a byte is.
LEMMA CharIsByte ==
  /\ "Bits8" \in Fixed /\ "Bits8" \in Fixed \ Boxed /\ "Bits8" \notin Signed
  /\ "Char" \in Unboxed /\ "Bits8" \in Unboxed /\ "Char" \notin Fixed /\ "Char" \in Type
  /\ Modulus("Bits8") = M8 /\ Word("Char") = Word("Bits8")
  /\ \A n \in Int : /\ Convert("Char", n) = Convert("Bits8", n)
                     /\ Read("Char", n) = Convert("Bits8", n)
                     /\ Make("Char", n) = Make("Bits8", n)
<1>1. /\ "Bits8" \in Fixed /\ "Bits8" \notin Boxed /\ "Bits8" \notin Signed /\ "Char" \notin Signed
      /\ "Char" \notin Fixed /\ "Char" \in Type /\ "Char" \notin Boxed /\ "Char" \in Cut
  BY DEF Fixed, Bits, Signed, Boxed, Type, Cut
<1>2. "Char" \in Unboxed /\ "Bits8" \in Unboxed
  BY <1>1 DEF Unboxed, Cut
<1>3. Modulus("Bits8") = M8 /\ Word("Char") = Word("Bits8")
  BY <1>1, <1>2 DEF Modulus, Word
<1>4. \A n \in Int : Convert("Char", n) = Convert("Bits8", n)
  BY <1>1, <1>3 DEF Convert, Size
<1>5. \A n \in Int : Make("Char", n) = Make("Bits8", n)
  BY <1>1, <1>2 DEF Make
<1> QED BY <1>1, <1>2, <1>3, <1>4, <1>5 DEF Read

\* A byte is read as it is, and is the character of its number.
LEMMA ByteFits ==
  ASSUME NEW n \in Byte
  PROVE Fit("Bits8", n) = n /\ Fit("Char", n) = n /\ InRange("Char", n) /\ n \in Int
<1>1. M8 \in Nat /\ n \in Int /\ n \in CodePoint
  BY WidthAssumption, CharAssumption DEF Byte
<1>2. InRange("Bits8", n) /\ "Bits8" \in Type
  BY <1>1, CharIsByte DEF InRange, Lowest, Highest, Byte, Type
<1>3. InRange("Char", n)
  BY <1>1, CharIsByte DEF InRange
<1> QED BY <1>1, <1>2, <1>3, CharIsByte, FitSelf

LEMMA ByteRange ==
  ASSUME NEW n \in Int
  PROVE Convert("Bits8", n) \in Byte
<1>1. Convert("Bits8", n) \in Lowest("Bits8")..Highest("Bits8")
  BY CharIsByte, ConvertFits
<1> QED BY <1>1, CharIsByte, WidthAssumption DEF Lowest, Highest, Byte

\* Making a word and reading it again fits the number to the type, whatever
\* is cut off in between (idris2_mkBits8, idris2_vp_to_Bits8, ...).
LEMMA MakeFits ==
  ASSUME NEW u \in Number, NEW n \in Int
  PROVE /\ Read(u, Make(u, n)) = Fit(u, n) /\ Fit(u, n) \in Int
        /\ Make(u, n) \in Word(u) /\ Make(u, n) \in Int
<1>0. M32 \in Nat \ {0} /\ M64 \in Nat \ {0} BY Widths
<1>1. CASE u \in Fixed \ Boxed
  <2>1. PICK k \in Nat \ {0} : M32 = k * Modulus(u) BY <1>1, WordWidth
  <2>2. u \in Fixed /\ Modulus(u) \in Nat \ {0} BY <1>1, ModulusEven
  <2> DEFINE r == n % M32
             d == n \div M32
  <2>3. r \in Int /\ d \in Int /\ n = M32 * d + r /\ 0 <= r /\ r < M32 BY <1>0, DivMod
  <2>4. Make(u, n) = r BY <1>1 DEF Make, MakeUnboxed, Unboxed, Cut
  <2>5. r \in Word(u) BY <1>1, <2>3, <1>0 DEF Word, Unboxed, Cut
  <2> HIDE DEF r, d
  <2>6. n = r + (k * d) * Modulus(u) /\ k * d \in Int BY <2>1, <2>2, <2>3
  <2>7. Fit(u, n) = Fit(u, r) BY <2>2, <2>3, <2>6, FitShift
  <2> QED BY <2>2, <2>3, <2>4, <2>5, <2>7, ConvertIsFit DEF Read, Cut
<1>2. CASE u \in Boxed
  <2>2. u \in Fixed /\ Modulus(u) = M64 /\ u \notin Unboxed
    BY <1>2, WordWidth DEF Boxed, Unboxed, Fixed, Bits, Signed
  <2> DEFINE r == n % M64
             d == n \div M64
  <2>3. r \in Int /\ d \in Int /\ n = M64 * d + r /\ 0 <= r /\ r < M64 BY <1>0, DivMod
  <2>4. Make(u, n) = r BY <1>2, <2>2 DEF Make, MakeBoxed
  <2>5. r \in Word(u) BY <1>2, <2>2, <2>3, <1>0 DEF Word
  <2> HIDE DEF r, d
  <2>6. n = r + d * Modulus(u) BY <2>2, <2>3, <1>0
  <2>7. Fit(u, n) = Fit(u, r) BY <2>2, <2>3, <2>6, FitShift
  <2> QED BY <2>2, <2>3, <2>4, <2>5, <2>7, ConvertIsFit DEF Read, Cut
<1>3. CASE u = "Integer"
  BY <1>3 DEF Make, Read, Fit, Word, Cut, Unboxed, Boxed, Fixed, Bits, Signed
<1> QED BY <1>1, <1>2, <1>3 DEF Number, Fixed

LEMMA CharMakes ==
  ASSUME NEW n \in Int
  PROVE /\ Read("Char", Make("Char", n)) = Convert("Bits8", n)
        /\ Make("Char", n) \in Word("Char") /\ Make("Char", n) \in Int
<1>1. "Bits8" \in Number BY DEF Number, Bits
<1>2. /\ Read("Bits8", Make("Bits8", n)) = Fit("Bits8", n)
      /\ Make("Bits8", n) \in Word("Bits8") /\ Make("Bits8", n) \in Int
  BY <1>1, MakeFits
<1>3. Convert("Bits8", n) = Fit("Bits8", n) BY CharIsByte, ConvertIsFit
<1>4. Read("Bits8", Make("Bits8", n)) = Convert("Bits8", Make("Bits8", n))
  BY CharIsByte DEF Read, Cut
<1> QED BY <1>2, <1>3, <1>4, CharIsByte

\* Every word, canonical or not, reads as a value of the type; of a number it is
\* the one that is congruent to the word.
LEMMA ReadFits ==
  ASSUME NEW t \in Type \cup {Text}, NEW w \in Int
  PROVE /\ t # "Char" => Read(t, w) = Fit(t, w)
        /\ Read(t, w) \in Int /\ InRange(t, Read(t, w))
        /\ Fit(t, Read(t, w)) = Read(t, w)
<1>1. CASE t \in Fixed
  <2>1. Convert(t, w) \in Lowest(t)..Highest(t) /\ Convert(t, w) = Fit(t, w) /\ Fit(t, w) \in Int
    BY <1>1, ConvertFits, ConvertIsFit
  <2>2. InRange(t, Convert(t, w))
    BY <2>1, <1>1, ModulusEven, CharIsByte DEF InRange, Lowest, Highest
  <2> QED BY <1>1, <2>1, <2>2, FitSelf DEF Read, Cut, Type
<1>2. CASE t = "Char"
  <2>1. Read(t, w) \in Byte BY <1>2, CharIsByte, ByteRange
  <2> QED BY <1>2, <2>1, ByteFits
<1>3. CASE t \notin Fixed /\ t # "Char" BY <1>3 DEF Read, Cut, Fit, InRange
<1> QED BY <1>1, <1>2, <1>3

\* Whatever is read through a type whose width divides that of t.
LEMMA FitThrough ==
  ASSUME NEW f \in Fixed, NEW t \in Fixed, NEW n \in Int,
         NEW k \in Nat \ {0}, Modulus(f) = k * Modulus(t)
  PROVE Fit(t, Convert(f, n)) = Fit(t, n)
<1>1. PICK q \in Int : n = Convert(f, n) + q * Modulus(f) BY ConvertFits
<1>2. Convert(f, n) \in Int BY ConvertIsFit
<1>3. Modulus(t) \in Nat \ {0} BY ModulusEven
<1>4. n = Convert(f, n) + (q * k) * Modulus(t) /\ q * k \in Int BY <1>1, <1>2, <1>3
<1>5. Fit(t, Convert(f, n) + (q * k) * Modulus(t)) = Fit(t, Convert(f, n))
  BY <1>2, <1>4, FitShift
<1> QED BY <1>4, <1>5

\* Every cast of casts.h and casts.c that is not careless is the conversion of
\* the language, also from a word that is not canonical.
LEMMA CastFits ==
  ASSUME NEW f \in Type, NEW t \in Type \cup {Text}, NEW w \in Word(f),
         MayCast(f, t)
  PROVE /\ ~CarelessCast(f, t, w) => Read(t, CastWord(f, t, w)) = Fit(t, Read(f, w))
        /\ CastWord(f, t, w) \in Word(t)
<1> DEFINE v == Read(f, w)
<1>0. w \in Int /\ v \in Int
  <2>1. w \in Int BY Widths DEF Word
  <2> QED BY <2>1, ReadFits
<1>1. CASE t \in InPlace(f)
  <2>1. \/ f \in {"Int8", "Int16", "Int32"} /\ t \in {"Bits8", "Bits16", "Bits32", "Int32"}
        \/ f = "Int64" /\ t = "Int64"
        \/ f = "Bits8" /\ t \in {"Bits16", "Bits32", "Int8", "Int16", "Int32"}
    BY <1>1 DEF InPlace, SignedInPlace, UnsignedInPlace, MayCast, Bits, Signed
  <2>a. /\ f \in Fixed /\ t \in Fixed
        /\ (f \in Unboxed /\ t \in Unboxed) \/ (f = t /\ f = "Int64")
    BY <2>1 DEF Cut, Fixed, Bits, Signed, Unboxed, Boxed
  <2>b. CastWord(f, t, w) = w
    <3>1. CASE f \in Signed
      <4>1. t \in SignedInPlace(f) BY <3>1, <1>1 DEF InPlace, Bits, Signed
      <4>2. CastWord(f, t, w) = FromSigned(f, t, w) BY <3>1 DEF CastWord, Bits, Signed
      <4> QED BY <4>1, <4>2 DEF FromSigned
    <3>2. CASE f = "Bits8"
      <4>1. t \in UnsignedInPlace(f) BY <3>2, <1>1 DEF InPlace, Bits, Signed
      <4>2. CastWord(f, t, w) = FromUnsigned(f, t, w) BY <3>2 DEF CastWord, Bits, Signed
      <4> QED BY <4>1, <4>2 DEF FromUnsigned
    <3> QED BY <2>1, <3>1, <3>2 DEF Signed
  <2>c. Modulus(f) = Modulus(t) \/ Modulus(f) < Modulus(t)
    <3>1. M8 \in Nat /\ M16 \in Nat /\ M32 \in Nat BY WidthAssumption
    <3>2. (f = "Int16" => t # "Bits8") /\ (f = "Int32" => t = "Bits32")
      BY <1>1 DEF InPlace, SignedInPlace, Bits, Signed
    <3> QED BY <2>1, <3>1, <3>2, Widths DEF Modulus
  <2>2. w \in Word(t) BY <2>a, <2>b, <2>c DEF Word, Unboxed, Boxed
  <2>3. CASE Modulus(f) = Modulus(t)
    <3>1. Modulus(f) = 1 * Modulus(t) BY <2>a, <2>b, <2>c, <2>3, ModulusEven
    <3>2. Fit(t, Convert(f, w)) = Fit(t, w) BY <3>1, <2>a, <2>b, <2>c, <1>0, FitThrough
    <3> QED BY <2>a, <2>b, <2>c, <2>2, <3>2, <1>0, ConvertIsFit DEF Read, Cut
  <2>4. CASE Modulus(f) < Modulus(t)
    <3> SUFFICES ASSUME ~CarelessCast(f, t, w) PROVE Read(t, CastWord(f, t, w)) = Fit(t, v)
      BY <2>a, <2>b, <2>2
    <3>1. f # t BY <2>4, <2>a, ModulusEven
    <3>2. f \in Unboxed /\ t \in Unboxed BY <3>1, <2>a
    <3>3. w = Make(f, v) BY <1>1, <2>4 DEF CarelessCast, Canonical
    <3>4. w = Make(t, v) BY <3>2, <3>3 DEF Make, Unboxed
    <3> QED BY <2>a, <2>b, <3>4, <1>0, MakeFits DEF Number, Fixed
  <2> QED BY <2>c, <2>3, <2>4
<1>2. CASE t \in Fixed /\ t \notin InPlace(f) /\ f # "Integer"
  <2>1. CastWord(f, t, w) = Make(t, Convert(t, v))
    BY <1>2 DEF CastWord, FromSigned, FromUnsigned, FromChar, InPlace, Type, Cut, Fixed, Bits, Signed
  <2>2. Convert(t, v) = Fit(t, v) /\ Convert(t, v) \in Int BY <1>0, <1>2, ConvertIsFit
  <2>3. Fit(t, Fit(t, v)) = Fit(t, v) BY <1>0, <1>2, CharIsByte, ReadFits DEF Type
  <2> QED BY <2>1, <2>2, <2>3, <1>2, MakeFits DEF Number, Fixed
<1>3. CASE t \in Fixed /\ f = "Integer"
  <2> DEFINE u == v % Modulus(t)
             d == v \div Modulus(t)
  <2>0. Modulus(t) \in Nat \ {0} BY <1>3, ModulusEven
  <2>1. u \in Int /\ d \in Int /\ v = Modulus(t) * d + u BY <1>0, <2>0, DivMod
  <2>2. CastWord(f, t, w) = Make(t, Convert(t, u))
    BY <1>3 DEF CastWord, FromInteger, LowBits, Size, Read, Cut, Fixed, Bits, Signed
  <2> HIDE DEF u, d
  <2>3. v = u + d * Modulus(t) BY <2>0, <2>1, <1>0
  <2>4. Fit(t, v) = Fit(t, u) BY <2>1, <2>3, <1>3, FitShift
  <2>5. Convert(t, u) = Fit(t, u) /\ Convert(t, u) \in Int BY <2>1, <1>3, ConvertIsFit
  <2>6. Fit(t, Fit(t, u)) = Fit(t, u) BY <2>1, <1>3, CharIsByte, ReadFits DEF Type
  <2> QED BY <2>2, <2>4, <2>5, <2>6, <1>3, MakeFits DEF Number, Fixed
<1>4. CASE t = "Char"
  <2> DEFINE u == IF f = "Integer" THEN v % M8 ELSE v
  <2>0. M8 \in Nat \ {0} BY Widths
  <2>1. u \in Int BY <1>0, <2>0, DivMod
  <2>2. CastWord(f, t, w) = Make("Char", Convert("Char", u))
    <3>1. f \in Fixed \cup {"Integer"} BY <1>4 DEF MayCast, Type
    <3> QED BY <1>4, <3>1 DEF CastWord, FromSigned, FromUnsigned, FromInteger, LowBits, Size,
              SignedInPlace, UnsignedInPlace, Read, Cut, Fixed, Bits, Signed
  <2> HIDE DEF u
  <2>3. Convert("Char", u) = Convert("Bits8", u) /\ Convert("Bits8", u) \in Byte
    BY <2>1, CharIsByte, ByteRange
  <2>4. Convert("Bits8", u) \in Int /\ Convert("Bits8", Convert("Bits8", u)) = Convert("Bits8", u)
    BY <2>3, ByteFits, ConvertIsFit, CharIsByte
  <2>5. Read(t, CastWord(f, t, w)) = Convert("Bits8", u) /\ CastWord(f, t, w) \in Word(t)
    BY <1>4, <2>2, <2>3, <2>4, CharMakes
  <2>6. ASSUME ~CarelessCast(f, t, w) PROVE Convert("Bits8", u) = Fit(t, v)
    <3>1. v \in Byte BY <1>4, <2>6 DEF CarelessCast
    <3>2. v % M8 = v BY <3>1, <2>0 DEF Byte
    <3>3. u = v BY <3>2 DEF u
    <3> QED BY <1>4, <3>1, <3>3, ByteFits, ConvertIsFit, CharIsByte
  <2> QED BY <2>5, <2>6
<1>5. CASE t \notin Fixed /\ t # "Char"
  <2>1. CastWord(f, t, w) = v
    BY <1>5 DEF CastWord, FromSigned, FromUnsigned, FromChar, FromInteger, SignedDigits,
      UnsignedDigits, CharDigits, SignedInPlace, UnsignedInPlace, Read, Type, Cut, Fixed, Bits, Signed
  <2> QED BY <1>0, <1>5, <2>1 DEF Read, Fit, Word, Cut, Unboxed, Boxed, Fixed, Bits, Signed
<1> QED BY <1>1, <1>2, <1>3, <1>4, <1>5

\* The magnitude of an integer.
LEMMA MagnitudeNat ==
  ASSUME NEW n \in Int
  PROVE /\ Magnitude(n) \in Nat /\ (n # 0 => Magnitude(n) \in Nat \ {0})
        /\ (n >= 0 => Magnitude(n) = n) /\ (n < 0 => Magnitude(n) = -n)
BY DEF Magnitude

\* The Euclidean quotient by way of the prover's division.
LEMMA QuotientIs ==
  ASSUME NEW a \in Int, NEW b \in Int, b # 0
  PROVE /\ Quotient(a, b) = IF b < 0 THEN -(a \div Magnitude(b)) ELSE a \div Magnitude(b)
        /\ Quotient(a, b) \in Int /\ Rest(a, b) \in Int
        /\ a = b * Quotient(a, b) + Rest(a, b)
        /\ (a - Rest(a, b)) \div Magnitude(b) = a \div Magnitude(b)
<1> DEFINE m == Magnitude(b)
           q == a \div m
           r == a % m
<1>1. m \in Nat \ {0} /\ (b > 0 => m = b) /\ (b < 0 => m = -b) BY MagnitudeNat
<1>2. q \in Int /\ r \in Int /\ a = m * q + r BY <1>1, DivMod
<1>3. Rest(a, b) = r BY DEF Rest
<1>4. Quotient(a, b) = IF b < 0 THEN -((a - r) \div m) ELSE (a - r) \div m
  BY <1>3 DEF Quotient
<1> HIDE DEF m, q, r
<1>5. a - r = q * m + 0 /\ a - r \in Int BY <1>1, <1>2
<1>6. (a - r) \div m = q BY <1>1, <1>2, <1>5, ModUnique
<1>7. Quotient(a, b) = IF b < 0 THEN -q ELSE q BY <1>4, <1>6
<1>8. CASE b < 0
  <2>1. Quotient(a, b) = -q /\ m = -b BY <1>7, <1>8, <1>1
  <2>2. b * (-q) = m * q BY <2>1, <1>1, <1>2
  <2> QED BY <2>1, <2>2, <1>2, <1>3, <1>6, <1>8 DEF q, m
<1>9. CASE b > 0
  <2>1. Quotient(a, b) = q /\ m = b BY <1>7, <1>9, <1>1
  <2> QED BY <2>1, <1>2, <1>3, <1>6, <1>9 DEF q, m
<1> QED BY <1>8, <1>9

\* What C's truncated quotient and remainder are, in terms of the Euclidean.
LEMMA Truncated ==
  ASSUME NEW a \in Int, NEW b \in Int, b # 0
  PROVE /\ CRest(a, b) \in Int /\ CQuotient(a, b) \in Int
        /\ CRest(a, b) = IF a < 0 /\ Rest(a, b) # 0 THEN Rest(a, b) - Magnitude(b)
                                                   ELSE Rest(a, b)
        /\ 0 <= Rest(a, b) /\ Rest(a, b) < Magnitude(b)
        /\ Quotient(a, b) =
             CQuotient(a, b) + (IF CRest(a, b) < 0 THEN (IF b < 0 THEN 1 ELSE -1) ELSE 0)
<1> DEFINE m == Magnitude(b)
           c == Magnitude(a)
           q == c \div m
           r == c % m
<1>1. m \in Nat \ {0} /\ (b > 0 => m = b) /\ (b < 0 => m = -b) BY MagnitudeNat
<1>2. c \in Nat /\ (a >= 0 => c = a) /\ (a < 0 => c = -a) BY MagnitudeNat
<1> HIDE DEF m, c
<1>3. q \in Int /\ r \in Int /\ c = m * q + r /\ 0 <= r /\ r < m BY <1>1, <1>2, DivMod
<1>4. /\ CQuotient(a, b) = IF (a < 0) = (b < 0) THEN q ELSE -q
      /\ CRest(a, b) = IF a < 0 THEN -r ELSE a % m
  BY DEF CQuotient, CRest, m, c
<1>5. Quotient(a, b) = IF b < 0 THEN -(a \div m) ELSE a \div m BY QuotientIs DEF m
<1>6. Rest(a, b) = a % m BY DEF Rest, m
<1>7. a >= 0 => a % m = r /\ a \div m = q BY <1>2
<1> HIDE DEF q, r
<1>8. CASE a >= 0
  <2>1. a % m = r /\ a \div m = q BY <1>8, <1>7
  <2> QED BY <2>1, <1>1, <1>3, <1>4, <1>5, <1>6, <1>8 DEF m
<1>9. CASE a < 0 /\ r = 0
  <2>1. a = (-q) * m + 0 BY <1>1, <1>2, <1>3, <1>9
  <2>2. a % m = 0 /\ a \div m = -q BY <2>1, <1>1, <1>3, ModUnique
  <2> QED BY <2>2, <1>1, <1>3, <1>4, <1>5, <1>6, <1>9 DEF m
<1>10. CASE a < 0 /\ r # 0
  <2>1. a = (-q - 1) * m + (m - r) BY <1>1, <1>2, <1>3, <1>10
  <2>2. a % m = m - r /\ a \div m = -q - 1 BY <2>1, <1>1, <1>3, <1>10, ModUnique
  <2> QED BY <2>2, <1>1, <1>3, <1>4, <1>5, <1>6, <1>10 DEF m
<1> QED BY <1>8, <1>9, <1>10

\* The divisions and remainders of mathFunctions.h and mathFunctions.c that are
\* not careless are Euclidean.
LEMMA DivisionFits ==
  ASSUME NEW op \in {"div", "mod"}, NEW t \in Number, NEW a \in Int, NEW b \in Int,
         b # 0, InRange(t, a), InRange(t, b)
  PROVE /\ ~CarelessDivision(op, t, a, b) =>
             Read(t, DivisionWord(op, t, a, b)) = Meaning(op, t, a, b)
        /\ Meaning(op, t, a, b) \in Int
        /\ DivisionWord(op, t, a, b) \in Word(t)
<1>0. t \in Type BY DEF Number, Type, Fixed
<1>a. Quotient(a, b) \in Int /\ Rest(a, b) \in Int BY QuotientIs
<1>b. Meaning(op, t, a, b) = Fit(t, IF op = "div" THEN Quotient(a, b) ELSE Rest(a, b))
  BY DEF Meaning
<1>1. CASE t \in Signed /\ op = "div"
  <2>1. DivisionWord(op, t, a, b) = Make(t, Quotient(a, b))
    BY <1>1, Truncated DEF DivisionWord, SignedQuotient, Signed
  <2> QED BY <2>1, <1>0, <1>1, <1>a, <1>b, MakeFits
<1>2. CASE t \in Signed /\ op = "mod"
  <2> DEFINE d == Convert(t, Magnitude(b))
             c == CRest(a, d) + (IF a < 0 THEN d ELSE 0)
  <2>0. t \in Fixed BY <1>2 DEF Fixed
  <2>1. DivisionWord(op, t, a, b) = Make(t, c)
    BY <1>2 DEF DivisionWord, SignedRemainder, Signed
  <2>2. /\ Modulus(t) \in Nat \ {0} /\ Modulus(t) \div 2 \in Nat \ {0}
        /\ Modulus(t) = 2 * (Modulus(t) \div 2)
    BY <2>0, ModulusEven
  <2>3. /\ Magnitude(b) \in Nat \ {0} /\ Magnitude(b) <= Modulus(t) \div 2
        /\ Magnitude(b) = b \/ Magnitude(b) = -b
    BY <1>2, <2>0, <2>2 DEF InRange, Lowest, Highest, Magnitude
  <2>4. \/ d = Magnitude(b)
        \/ d = -Magnitude(b) /\ 2 * Magnitude(b) = Modulus(t)
    <3>1. Magnitude(b) = 0 * Modulus(t) + Magnitude(b) /\ Magnitude(b) < Modulus(t)
      BY <2>2, <2>3
    <3>2. Magnitude(b) % Modulus(t) = Magnitude(b) BY <3>1, <2>2, <2>3, ModUnique
    <3> QED BY <3>2, <2>2, <2>3, <1>2 DEF Convert, Size, Signed
  <2>5. d \in Int /\ d # 0 /\ Magnitude(d) = Magnitude(b) BY <2>3, <2>4 DEF Magnitude
  <2>6. CRest(a, d) = CRest(a, b) BY <2>5 DEF CRest
  <2>c. CRest(a, b) \in Int /\ c \in Int BY <2>5, <2>6, Truncated
  <2>d. DivisionWord(op, t, a, b) \in Word(t) /\ Meaning(op, t, a, b) \in Int
    BY <2>1, <2>c, <1>0, <1>2, <1>a, <1>b, MakeFits
  <2> SUFFICES ASSUME ~CarelessDivision(op, t, a, b)
               PROVE Read(t, DivisionWord(op, t, a, b)) = Meaning(op, t, a, b)
    BY <2>d
  <2>7. CRest(a, b) # 0 \/ a >= 0 BY <1>2 DEF CarelessDivision
  <2>b. a < 0 => CRest(a, b) = Rest(a, b) - Magnitude(b) BY <2>7, Truncated
  <2> HIDE DEF d
  <2>8. CASE a >= 0
    <3>1. c = Rest(a, b) BY <2>8, <2>5, <2>6, <1>a, Truncated
    <3> QED BY <3>1, <2>1, <1>0, <1>2, <1>a, <1>b, MakeFits
  <2>9. CASE a < 0 /\ d = Magnitude(b)
    <3>1. c = Rest(a, b) BY <2>9, <2>3, <2>6, <2>b, <1>a
    <3> QED BY <3>1, <2>1, <1>0, <1>2, <1>a, <1>b, MakeFits
  <2>10. CASE a < 0 /\ d = -Magnitude(b) /\ 2 * Magnitude(b) = Modulus(t)
    <3>1. c = Rest(a, b) + (-1) * Modulus(t) BY <2>10, <2>2, <2>3, <2>6, <2>b, <1>a
    <3>2. c \in Int /\ Fit(t, c) = Fit(t, Rest(a, b)) BY <3>1, <2>0, <2>2, <1>a, FitShift
    <3> QED BY <3>2, <2>1, <1>0, <1>2, <1>b, MakeFits
  <2> QED BY <2>4, <2>8, <2>9, <2>10
<1>3. CASE t = "Integer"
  <2>1. Magnitude(b) \in Nat \ {0} BY MagnitudeNat
  <2>2. op = "mod" => DivisionWord(op, t, a, b) = Rest(a, b)
    BY <1>3 DEF DivisionWord, IntegerRemainder, Rest, Signed
  <2>3. ASSUME op = "div" PROVE DivisionWord(op, t, a, b) = Quotient(a, b)
    <3> DEFINE e == a - Rest(a, b)
    <3>1. DivisionWord(op, t, a, b) = CQuotient(e, b)
      BY <1>3, <2>3 DEF DivisionWord, IntegerQuotient, IntegerRemainder, Rest, Signed
    <3>2. e \in Int /\ e = b * Quotient(a, b) BY <1>a, QuotientIs
    <3>3. e = Magnitude(b) * (IF b < 0 THEN -Quotient(a, b) ELSE Quotient(a, b)) + 0
      BY <3>2, <2>1, <1>a DEF Magnitude
    <3> HIDE DEF e
    <3>4. e % Magnitude(b) = 0 /\ e \div Magnitude(b) = (IF b < 0 THEN -Quotient(a, b) ELSE Quotient(a, b))
      <4> DEFINE k == IF b < 0 THEN -Quotient(a, b) ELSE Quotient(a, b)
      <4>1. k \in Int BY <1>a
      <4>2. e = k * Magnitude(b) + 0 BY <3>3, <4>1, <2>1
      <4> HIDE DEF k
      <4>3. e % Magnitude(b) = 0 /\ e \div Magnitude(b) = k BY <4>1, <4>2, <3>2, <2>1, ModUnique
      <4> QED BY <4>3 DEF k
    <3>5. Rest(e, b) = 0 BY <3>4 DEF Rest
    <3>6. Quotient(e, b) = Quotient(a, b)
      <4>1. Quotient(e, b) = IF b < 0 THEN -(e \div Magnitude(b)) ELSE e \div Magnitude(b)
        BY <3>2, QuotientIs
      <4> QED BY <4>1, <3>4, <1>a
    <3>7. CRest(e, b) = 0 BY <3>2, <3>5, Truncated
    <3>8. CQuotient(e, b) = Quotient(e, b) BY <3>2, <3>7, Truncated
    <3> QED BY <3>1, <3>6, <3>8
  <2> QED BY <2>2, <2>3, <1>3, <1>a, <1>b DEF Read, Fit, Word, Cut, Fixed, Bits, Signed, Unboxed, Boxed
<1>4. CASE t \in Bits
  <2>1. Lowest(t) = 0 /\ t \in Fixed BY <1>4 DEF Lowest, Bits, Signed, Fixed
  <2>2. a >= 0 /\ b > 0 /\ Magnitude(b) = b
    BY <2>1, MagnitudeNat DEF InRange
  <2>3. DivisionWord(op, t, a, b) = Make(t, IF op = "div" THEN Quotient(a, b) ELSE Rest(a, b))
    <3>0. ~(b < 0) BY <2>2
    <3>a. Quotient(a, b) = a \div Magnitude(b) BY <3>0, QuotientIs
    <3>1. Quotient(a, b) = a \div b /\ Rest(a, b) = a % b BY <3>a, <2>2 DEF Rest
    <3>2. DivisionWord(op, t, a, b) = UnsignedDivision(op, t, a, b)
      BY <1>4 DEF DivisionWord, Bits, Signed
    <3> QED BY <3>1, <3>2 DEF UnsignedDivision
  <2> QED BY <2>3, <1>0, <1>a, <1>b, MakeFits
<1> QED BY <1>1, <1>2, <1>3, <1>4 DEF Number

\* Sum, difference, product and negation.
LEMMA ArithmeticFits ==
  ASSUME NEW op \in {"add", "sub", "mul", "negate"}, NEW t \in Number,
         NEW a \in Int, NEW b \in Int,
         NEW w, w = IF t = "Integer" THEN IntegerArithmetic(op, a, b) ELSE Arithmetic(op, t, a, b)
  PROVE /\ Read(t, w) = Meaning(op, t, a, b) /\ Meaning(op, t, a, b) \in Int
        /\ w \in Word(t)
<1> DEFINE n == CASE op = "add" -> a + b [] op = "sub" -> a - b
                  [] op = "mul" -> a * b [] op = "negate" -> -a
<1>0. t \in Type BY DEF Number, Type, Fixed
<1>1. n \in Int OBVIOUS
<1>2. w = IF t = "Integer" THEN n ELSE Make(t, n)
  BY DEF IntegerArithmetic, Arithmetic
<1>3. Meaning(op, t, a, b) = Fit(t, n) BY DEF Meaning
<1> HIDE DEF n
<1>4. CASE t = "Integer"
  BY <1>1, <1>2, <1>3, <1>4 DEF Read, Fit, Word, Cut, Fixed, Bits, Signed, Unboxed, Boxed
<1> QED BY <1>0, <1>1, <1>2, <1>3, <1>4, MakeFits

\* Shifts by at most MaxShift.
LEMMA ShiftFits ==
  ASSUME NEW op \in {"shiftl", "shiftr"}, NEW t \in Number,
         NEW a \in Int, NEW k \in 0..MaxShift,
         NEW w, w = IF t = "Integer" THEN IntegerShift(op, a, k) ELSE ShiftWord(op, t, a, k)
  PROVE /\ Read(t, w) = Meaning(op, t, a, k) /\ Meaning(op, t, a, k) \in Int
        /\ w \in Word(t)
<1> DEFINE p == 2^k
<1> DEFINE n == IF op = "shiftl" THEN a * p ELSE a \div p
<1>0. t \in Type BY DEF Number, Type, Fixed
<1>1. p \in Nat \ {0} BY NumbersAssumption
<1>2. w = IF t = "Integer" THEN n ELSE Make(t, n)
  BY DEF IntegerShift, ShiftWord
<1>3. Meaning(op, t, a, k) = Fit(t, n) BY DEF Meaning
<1> HIDE DEF p
<1>4. n \in Int BY <1>1
<1> HIDE DEF n
<1>5. CASE t = "Integer"
  BY <1>2, <1>3, <1>4, <1>5 DEF Read, Fit, Word, Cut, Fixed, Bits, Signed, Unboxed, Boxed
<1> QED BY <1>0, <1>2, <1>3, <1>4, <1>5, MakeFits

\* The two truth values fit a byte.
LEMMA TruthFits ==
  ASSUME NEW n \in {0, 1}
  PROVE Read("Int8", Make("Int8", n)) = n /\ Make("Int8", n) \in Word("Int8")
<1>1. "Int8" \in Type BY DEF Type, Fixed, Signed
<1>2. PICK k \in 1..M8 : M8 = 4 * k BY WidthAssumption
<1>3. Modulus("Int8") = M8 /\ M8 \in Nat BY WidthAssumption DEF Modulus
<1>4. M8 \div 2 = 2 * k BY <1>2, <1>3
<1>5. InRange("Int8", n) BY <1>2, <1>3, <1>4 DEF InRange, Lowest, Highest, Signed
<1>6. "Int8" \in Number BY DEF Number, Signed
<1> QED BY <1>1, <1>5, <1>6, FitSelf, MakeFits

\* A constant that the generator writes, and that is no character beyond a
\* byte, reads as the number of the source, a negative char included.
LEMMA ConstantFits ==
  ASSUME NEW t \in Type, NEW n \in Int, InRange(t, n)
  PROVE /\ ~CarelessLiteral(t, n) => Read(t, Make(t, Constant(t, n))) = n
        /\ Make(t, Constant(t, n)) \in Word(t) /\ Constant(t, n) \in Int
<1>1. CASE t = "Char"
  <2> DEFINE c == Convert("Int8", n)
  <2>1. "Int8" \in Fixed BY DEF Fixed, Signed
  <2>2. Constant(t, n) = c /\ c \in Int BY <1>1, <2>1, ConvertIsFit DEF Constant
  <2>3. Modulus("Int8") = 1 * Modulus("Bits8") BY WidthAssumption DEF Modulus
  <2>4. Fit("Bits8", c) = Fit("Bits8", n) BY <2>1, <2>3, CharIsByte, FitThrough
  <2> HIDE DEF c
  <2>5. Read("Char", Make("Char", c)) = Fit("Bits8", n) BY <2>2, <2>4, CharMakes, CharIsByte, ConvertIsFit
  <2>6. ~CarelessLiteral(t, n) => n \in Byte BY <1>1 DEF CarelessLiteral
  <2> QED BY <1>1, <2>2, <2>5, <2>6, ByteFits, CharMakes
<1>2. CASE t # "Char"
  <2>1. Constant(t, n) = n /\ t \in Number BY <1>2 DEF Constant, Type, Number, Fixed
  <2> QED BY <2>1, FitSelf, MakeFits
<1> QED BY <1>1, <1>2

\* A branch that is not careless is taken for the constant that it names, though
\* the constant and the word are compared as C ints.
LEMMA MatchFits ==
  ASSUME NEW t \in Type, NEW w \in Word(t), NEW c \in Int, InRange(t, c),
         ~CarelessMatch(t, w, c)
  PROVE (ExtractInt(w) = Constant(t, c)) <=> (Read(t, w) = c)
<1> DEFINE v == Read(t, w)
<1>1. w \in Int BY Widths DEF Word
<1>2. v \in Int /\ w = Make(t, v) /\ InRange("Int32", v) /\ (t = "Char" => InRange("Int8", v))
  BY <1>1, ReadFits DEF CarelessMatch, Canonical
<1>3. "Int32" \in Fixed /\ "Int32" \in Number /\ "Int32" \in Type /\ "Int32" \in Unboxed
  BY DEF Fixed, Signed, Number, Type, Cut, Unboxed, Boxed
<1>4. Fit("Int32", v) = v BY <1>2, <1>3, FitSelf
<1>5. ExtractInt(w) = v
  <2>1. CASE t \in Unboxed
    <3>1. w = Make("Int32", v) BY <1>2, <1>3, <2>1 DEF Make, Unboxed
    <3>2. Read("Int32", w) = v BY <3>1, <1>2, <1>3, <1>4, MakeFits
    <3> QED BY <3>2, <1>3 DEF ExtractInt, Read, Cut
  <2>2. CASE t \in Boxed
    <3> DEFINE d == v \div M64
    <3>0. M64 \in Nat \ {0} /\ M32 \in Nat \ {0} BY Widths
    <3>1. w = v % M64 BY <1>2, <2>2 DEF Make, MakeBoxed, Unboxed
    <3>2. d \in Int /\ v = M64 * d + w BY <3>0, <3>1, <1>2, DivMod
    <3> HIDE DEF d
    <3>3. PICK k \in Nat \ {0} : M64 = k * M32 BY WordWidth
    <3>4. v = w + (k * d) * M32 /\ k * d \in Int BY <3>0, <3>2, <3>3, <1>1, <1>2
    <3>5. Modulus("Int32") = M32 BY DEF Modulus
    <3>6. Fit("Int32", v) = Fit("Int32", w) BY <3>4, <3>5, <1>1, <1>3, FitShift
    <3> QED BY <3>6, <1>1, <1>3, <1>4, ConvertIsFit DEF ExtractInt
  <2>3. CASE t = "Integer"
    <3>1. w = v BY <2>3 DEF Read, Cut, Fixed, Bits, Signed
    <3> QED BY <3>1, <1>1, <1>3, <1>4, ConvertIsFit DEF ExtractInt
  <2> QED BY <2>1, <2>2, <2>3 DEF Type, Cut, Unboxed
<1>6. CASE t = "Char"
  <2>1. PICK h \in Nat \ {0} : M8 = 2 * h BY Widths
  <2>2. Modulus("Int8") = M8 /\ Size("Int8") = M8 /\ M8 \div 2 = h BY <2>1 DEF Modulus, Size
  <2>3. v \in Byte /\ c \in Byte
    <3>1. v = Convert("Bits8", w) BY <1>1, <1>6, CharIsByte
    <3> QED BY <3>1, <1>1, <1>6, ByteRange DEF CarelessMatch, CarelessLiteral
  <2>a. 0 <= v /\ v <= h - 1
    <3>1. "Int8" \in Signed /\ "Int8" \in Fixed /\ InRange("Int8", v) BY <1>2, <1>6 DEF Signed, Fixed
    <3>2. Highest("Int8") = h - 1 BY <3>1, <2>1, <2>2 DEF Lowest, Highest
    <3> QED BY <3>1, <3>2, <2>1, <2>3 DEF InRange, Byte
  <2>4. 0 <= c /\ c <= M8 - 1 BY <2>1, <2>3 DEF Byte
  <2>5. c = 0 * M8 + c BY <2>1, <2>4
  <2>6. c % M8 = c BY <2>1, <2>4, <2>5, ModUnique
  <2>7. Constant(t, c) = IF 2 * c >= M8 THEN c - M8 ELSE c
    BY <1>6, <2>2, <2>6 DEF Constant, Convert, Signed
  <2> QED BY <1>2, <1>5, <2>1, <2>a, <2>4, <2>7
<1>7. CASE t # "Char" BY <1>5, <1>7 DEF Constant
<1> QED BY <1>6, <1>7

\* Comparisons.
LEMMA CompareFits ==
  ASSUME NEW op \in {"lt", "gt", "eq", "lte", "gte"}, NEW a \in Int, NEW b \in Int
  PROVE /\ Read("Int8", Compared(op, a, b)) = Truth(Holds(op, a, b))
        /\ Compared(op, a, b) \in Word("Int8") /\ Truth(Holds(op, a, b)) \in Int
<1> DEFINE n == Truth(Holds(op, a, b))
<1>1. n \in {0, 1} BY DEF Truth
<1>2. Compared(op, a, b) = Make("Int8", n)
  <2>1. CASE op = "lt" BY <2>1 DEF Compared, Truth, Holds
  <2>2. CASE op = "gt" BY <2>2 DEF Compared, Truth, Holds
  <2>3. CASE op = "eq" BY <2>3 DEF Compared, Truth, Holds
  <2>4. CASE op = "lte"
    <3>1. (a <= b) <=> ~(a > b) OBVIOUS
    <3> QED BY <2>4, <3>1 DEF Compared, Truth, Holds
  <2>5. CASE op = "gte"
    <3>1. (a >= b) <=> ~(a < b) OBVIOUS
    <3> QED BY <2>5, <3>1 DEF Compared, Truth, Holds
  <2> QED BY <2>1, <2>2, <2>3, <2>4, <2>5
<1> QED BY <1>1, <1>2, TruthFits

\* Inv is inductive as it stands: what a register reads as is the ideal value,
\* and so is what the next operation makes of it.

\* A register that is given a word of its type that reads as the ideal value
\* keeps the invariant; a careless result takes its ideal from the word.
LEMMA PutRight ==
  ASSUME Inv, NEW r \in Reg, NEW t \in Type \cup {Text}, NEW w \in Word(t), NEW n \in Int,
         NEW careless \in BOOLEAN, ~careless => Read(t, w) = n,
         Put(r, Result(t, w, n, careless))
  PROVE Inv'
<1> DEFINE x == Result(t, w, n, careless)
<1>1. w \in Int BY Widths DEF Word
<1>2. Read(t, w) \in Int BY <1>1, ReadFits
<1>3. /\ x \in [type : Type \cup {Text}, word : Int, ideal : Int]
      /\ x.type = t /\ x.word = w /\ x.ideal = Read(t, w)
  BY <1>1, <1>2 DEF Result
<1>4. reg \in [Reg -> [type : Type \cup {Text}, word : Int, ideal : Int]]
  BY DEF Inv, TypeOK
<1>5. reg' = [reg EXCEPT ![r] = x] BY DEF Put
<1> HIDE DEF x
<1>6. reg' \in [Reg -> [type : Type \cup {Text}, word : Int, ideal : Int]]
  BY <1>3, <1>4, <1>5
<1>7. ASSUME NEW s \in Reg
      PROVE /\ reg'[s].word \in Word(reg'[s].type)
            /\ reg'[s].ideal = Read(reg'[s].type, reg'[s].word)
  <2>1. CASE s = r
    <3>1. reg'[s] = x BY <2>1, <1>4, <1>5
    <3> QED BY <3>1, <1>3
  <2>2. CASE s # r
    <3>1. reg'[s] = reg[s] BY <2>2, <1>4, <1>5
    <3> QED BY <3>1 DEF Inv, TypeOK, RightUnlessCareless, Value
  <2> QED BY <2>1, <2>2
<1> QED BY <1>6, <1>7 DEF Inv, TypeOK, RightUnlessCareless, Value

\* What the invariant says of one register.
LEMMA Registers ==
  ASSUME Inv, NEW s \in Reg
  PROVE /\ reg[s].type \in Type \cup {Text} /\ reg[s].word \in Word(reg[s].type)
        /\ reg[s].word \in Int /\ reg[s].ideal = Value(s) /\ Value(s) \in Int
        /\ InRange(reg[s].type, Value(s))
BY ReadFits DEF Inv, TypeOK, RightUnlessCareless, Value

\* Every operation keeps the invariant.
LEMMA Step == Inv /\ [Next]_reg => Inv'
<1> SUFFICES ASSUME Inv, [Next]_reg PROVE Inv'
  OBVIOUS
<1>0. CASE UNCHANGED reg
  BY <1>0 DEF Inv, TypeOK, RightUnlessCareless, Value
<1> SUFFICES ASSUME NEW r \in Reg, NEW s \in Reg,
               \/ Literal(r) \/ Cast(r, s) \/ Compute(r, s) \/ Divide(r, s)
               \/ Shift(r, s) \/ Bitwise(r, s) \/ Compare(r, s) \/ Match(r, s)
             PROVE Inv'
  BY <1>0 DEF Next
<1> DEFINE t == reg[r].type
           a == Value(r)
           b == Value(s)
<1>a. /\ t \in Type \cup {Text} /\ reg[r].ideal = a /\ a \in Int /\ InRange(t, a)
      /\ reg[s].ideal = b /\ b \in Int /\ InRange(reg[s].type, b)
  BY Registers
<1>b. Number \subseteq Type BY DEF Number, Type, Fixed
<1>c. "Int8" \in Type BY DEF Type, Fixed, Signed
<1> HIDE DEF a, b
<1>1. CASE Literal(r)
  <2>1. PICK u \in Type, n \in Literals :
          InRange(u, n) /\ Put(r, Result(u, Make(u, Constant(u, n)), n, CarelessLiteral(u, n)))
    BY <1>1 DEF Literal
  <2>2. n \in Int BY NumbersAssumption
  <2>3. CarelessLiteral(u, n) \in BOOLEAN BY DEF CarelessLiteral
  <2> QED BY <2>1, <2>2, <2>3, ConstantFits, PutRight
<1>2. CASE Cast(r, s)
  <2> DEFINE f == reg[s].type
             w == reg[s].word
  <2>1. PICK u \in Type \cup {Text} :
          /\ MayCast(f, u)
          /\ Put(r, Result(u, CastWord(f, u, w), Fit(u, reg[s].ideal), CarelessCast(f, u, w)))
    BY <1>2 DEF Cast
  <2>2. f \in Type /\ w \in Word(f) /\ w \in Int /\ b = Read(f, w)
    BY <2>1, Registers DEF MayCast, Value, b
  <2> HIDE DEF f, w
  <2>3. Fit(u, b) \in Int
    <3>1. u = "Char" => Fit(u, b) \in {b, 0} BY CharIsByte DEF Fit
    <3> QED BY <3>1, <1>a, ReadFits
  <2>4. ~CarelessCast(f, u, w) => Read(u, CastWord(f, u, w)) = Fit(u, b)
    BY <2>1, <2>2, CastFits
  <2>5. CastWord(f, u, w) \in Word(u) BY <2>1, <2>2, CastFits
  <2>6. CarelessCast(f, u, w) \in BOOLEAN BY DEF CarelessCast
  <2> QED BY <2>1, <2>3, <2>4, <2>5, <2>6, <1>a, PutRight
<1>3. CASE Compute(r, s)
  <2>1. PICK op \in {"add", "sub", "mul", "negate"} :
          /\ Operands(r, s)
          /\ Yield(r, s, op, IF t = "Integer" THEN IntegerArithmetic(op, a, b)
                                              ELSE Arithmetic(op, t, a, b), FALSE)
    BY <1>3 DEF Compute, a, b
  <2> DEFINE w == IF t = "Integer" THEN IntegerArithmetic(op, a, b) ELSE Arithmetic(op, t, a, b)
  <2>2. t \in Number BY <2>1 DEF Operands
  <2>3. /\ Read(t, w) = Meaning(op, t, a, b) /\ Meaning(op, t, a, b) \in Int
        /\ w \in Word(t)
    BY <1>a, <2>2, ArithmeticFits
  <2>4. Put(r, Result(t, w, Meaning(op, t, a, b), FALSE)) BY <2>1, <1>a DEF Yield
  <2> HIDE DEF w
  <2> QED BY <2>2, <2>3, <2>4, <1>b, PutRight
<1>4. CASE Divide(r, s)
  <2>1. PICK op \in {"div", "mod"} :
          /\ Operands(r, s) /\ b # 0
          /\ Yield(r, s, op, DivisionWord(op, t, a, b), CarelessDivision(op, t, a, b))
    BY <1>4 DEF Divide, a, b
  <2>2. t \in Number /\ InRange(t, b) BY <2>1, <1>a DEF Operands
  <2>3. ~CarelessDivision(op, t, a, b) => Read(t, DivisionWord(op, t, a, b)) = Meaning(op, t, a, b)
    BY <1>a, <2>1, <2>2, DivisionFits
  <2>4. Meaning(op, t, a, b) \in Int /\ DivisionWord(op, t, a, b) \in Word(t)
    BY <1>a, <2>1, <2>2, DivisionFits
  <2>5. Put(r, Result(t, DivisionWord(op, t, a, b), Meaning(op, t, a, b), CarelessDivision(op, t, a, b)))
    BY <2>1, <1>a DEF Yield
  <2>6. CarelessDivision(op, t, a, b) \in BOOLEAN BY DEF CarelessDivision
  <2> QED BY <2>2, <2>3, <2>4, <2>5, <2>6, <1>b, PutRight
<1>5. CASE Shift(r, s)
  <2>1. PICK op \in {"shiftl", "shiftr"} :
          /\ Operands(r, s) /\ b \in 0..MaxShift
          /\ Yield(r, s, op, IF t = "Integer" THEN IntegerShift(op, a, b)
                                              ELSE ShiftWord(op, t, a, b), FALSE)
    BY <1>5 DEF Shift, a, b
  <2> DEFINE w == IF t = "Integer" THEN IntegerShift(op, a, b) ELSE ShiftWord(op, t, a, b)
  <2>2. t \in Number BY <2>1 DEF Operands
  <2>3. /\ Read(t, w) = Meaning(op, t, a, b) /\ Meaning(op, t, a, b) \in Int
        /\ w \in Word(t)
    BY <1>a, <2>1, <2>2, ShiftFits
  <2>4. Put(r, Result(t, w, Meaning(op, t, a, b), FALSE)) BY <2>1, <1>a DEF Yield
  <2> HIDE DEF w
  <2> QED BY <2>2, <2>3, <2>4, <1>b, PutRight
<1>6. CASE Bitwise(r, s)
  <2>1. PICK n \in Literals :
          /\ Operands(r, s) /\ InRange(t, n)
          /\ Put(r, Result(t, Make(t, n), n, FALSE))
    BY <1>6 DEF Bitwise
  <2>2. n \in Int /\ t \in Type BY <2>1, <1>b, NumbersAssumption DEF Operands
  <2>3. t \in Number BY <2>1 DEF Operands
  <2> QED BY <2>1, <2>2, <2>3, FitSelf, MakeFits, PutRight
<1>7. CASE Compare(r, s)
  <2>1. PICK op \in {"lt", "gt", "eq", "lte", "gte"} :
          Put(r, Result("Int8", Compared(op, a, b), Truth(Holds(op, a, b)), FALSE))
    BY <1>7, <1>a DEF Compare, a, b
  <2> QED BY <2>1, <1>a, <1>c, CompareFits, PutRight
<1>8. CASE Match(r, s)
  <2> DEFINE u == reg[s].type
             w == reg[s].word
  <2>1. PICK c \in Literals :
          /\ u \in Type /\ InRange(u, c)
          /\ Put(r, Result("Int8", Make("Int8", IF ExtractInt(w) = Constant(u, c) THEN 1 ELSE 0),
                           Truth(b = c), CarelessMatch(u, w, c)))
    BY <1>8, <1>a DEF Match
  <2>2. c \in Int /\ w \in Word(u) /\ b = Read(u, w) BY NumbersAssumption, Registers DEF Value, b
  <2> HIDE DEF u, w
  <2> DEFINE n == IF ExtractInt(w) = Constant(u, c) THEN 1 ELSE 0
  <2>3. Read("Int8", Make("Int8", n)) = n /\ Make("Int8", n) \in Word("Int8") BY TruthFits
  <2>4. ~CarelessMatch(u, w, c) => n = Truth(b = c) BY <2>1, <2>2, MatchFits DEF Truth
  <2>5. Truth(b = c) \in Int /\ CarelessMatch(u, w, c) \in BOOLEAN BY DEF Truth, CarelessMatch
  <2>6. Put(r, Result("Int8", Make("Int8", n), Truth(b = c), CarelessMatch(u, w, c))) BY <2>1
  <2> HIDE DEF n
  <2> QED BY <2>3, <2>4, <2>5, <2>6, <1>c, PutRight
<1> QED BY <1>1, <1>2, <1>3, <1>4, <1>5, <1>6, <1>7, <1>8

\* The program begins with it.
LEMMA Start == Init => Inv
<1>1. "Int64" \in Type /\ "Int64" \in Boxed BY DEF Type, Fixed, Signed, Boxed
<1>2. 0 \in Word("Int64") BY <1>1, Widths DEF Word, Unboxed
<1>3. InRange("Int64", 0)
  BY ModulusEven, <1>1 DEF InRange, Lowest, Highest, Signed, Fixed
<1>4. Read("Int64", 0) = 0 BY <1>1, <1>3, ReadFits, FitSelf
<1> QED BY <1>1, <1>2, <1>4 DEF Init, Result, Inv, TypeOK, RightUnlessCareless, Value

\* Every register holds a word of its type, whatever the widths: no operation
\* leaves a number that its representation cannot carry.
THEOREM TypesRight == Spec => []TypeOK
<1>1. Inv => TypeOK BY DEF Inv
<1> QED BY <1>1, Start, Step, PTL DEF Spec

\* For every width, every set of characters and every program: casts, arithmetic,
\* shifts, comparisons and branches give what the language says, but for the four
\* careless operations (RightUnlessCareless names them), by which a character
\* beyond a byte, a word that is not canonical, the remainder 0 of a negative
\* number and a branch on what C cuts are excepted.
THEOREM ProgramRight == Spec => []Inv
BY Start, Step, PTL DEF Spec

\* The law of division follows from the invariant: operands are in the range of
\* their type, so the remainder is too.
LEMMA DivisionLaw == Inv => DivisionIsEuclidean
<1> SUFFICES ASSUME Inv, NEW r \in Reg, NEW s \in Reg, Dividing(r, s),
                    ~CarelessDivision("mod", reg[r].type, Value(r), Value(s))
             PROVE Law(reg[r].type, Value(r), Value(s))
  BY DEF DivisionIsEuclidean
<1> DEFINE t == reg[r].type
           a == Value(r)
           b == Value(s)
<1>1. /\ a \in Int /\ b \in Int /\ b # 0 /\ InRange(t, a) /\ InRange(t, b)
      /\ t \in Number /\ InRange(t, Quotient(a, b)) /\ ~CarelessDivision("mod", t, a, b)
  BY Registers DEF Dividing, Operands
<1> HIDE DEF t, a, b
<1>2. /\ Quotient(a, b) \in Int /\ Rest(a, b) \in Int
      /\ 0 <= Rest(a, b) /\ Rest(a, b) < Magnitude(b)
      /\ a = b * Quotient(a, b) + Rest(a, b)
  BY <1>1, QuotientIs, Truncated
<1>3. t \in Type BY <1>1 DEF Number, Type, Fixed
<1>4. InRange(t, Rest(a, b))
  <2>1. CASE t \in Fixed
    <3>1. /\ Modulus(t) \in Nat \ {0} /\ Modulus(t) \div 2 \in Nat
          /\ Modulus(t) = 2 * (Modulus(t) \div 2)
      BY <2>1, ModulusEven
    <3>2. Magnitude(b) <= Highest(t) + 1
      BY <1>1, <2>1, <3>1 DEF InRange, Lowest, Highest, Magnitude
    <3>3. Lowest(t) <= 0 BY <3>1 DEF Lowest
    <3>4. Magnitude(b) \in Int /\ Lowest(t) \in Int /\ Highest(t) \in Int
      BY <1>1, <3>1, MagnitudeNat DEF Lowest, Highest
    <3> QED BY <1>2, <2>1, <3>2, <3>3, <3>4, CharIsByte DEF InRange
  <2>2. CASE t \notin Fixed BY <1>1, <2>2 DEF InRange, Number, Fixed
  <2> QED BY <2>1, <2>2
<1>5. ~CarelessDivision("div", t, a, b) BY DEF CarelessDivision
<1>6. Read(t, DivisionWord("div", t, a, b)) = Quotient(a, b)
  <2>1. Meaning("div", t, a, b) = Fit(t, Quotient(a, b)) BY DEF Meaning
  <2> QED BY <2>1, <1>1, <1>2, <1>3, <1>5, DivisionFits, FitSelf
<1>7. Read(t, DivisionWord("mod", t, a, b)) = Rest(a, b)
  <2>1. Meaning("mod", t, a, b) = Fit(t, Rest(a, b)) BY DEF Meaning
  <2> QED BY <2>1, <1>1, <1>2, <1>3, <1>4, DivisionFits, FitSelf
<1> QED BY <1>1, <1>2, <1>6, <1>7 DEF Law, t, a, b

\* Division and remainder fit together, for every width: a theorem about
\* idris2_div_Int8, ..., idris2_mod_Integer where the remainder is not careless.
THEOREM DivisionRight == Spec => []DivisionIsEuclidean
BY DivisionLaw, Start, Step, PTL DEF Spec
=============================================================================
