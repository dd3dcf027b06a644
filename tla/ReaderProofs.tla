---------------------------- MODULE ReaderProofs ----------------------------
(***************************************************************************)
(* Proofs about the byte codec and the Reader, for every size of a byte:   *)
(* what the Reader does with any bytes, and that it reads what was written *)
(* (StreamInv), whatever the values and the frames they are divided into.  *)
(***************************************************************************)
EXTENDS Reader, Lemmas, FiniteSetTheorems

-----------------------------------------------------------------------------
\* Arithmetic.

\* A product of positive numbers is positive.
LEMMA MulNat == ASSUME NEW a \in Nat \ {0}, NEW b \in Nat \ {0} PROVE a * b \in Nat \ {0}
OBVIOUS

\* Two shifts are one.
LEMMA DivDiv ==
    ASSUME NEW a \in Nat \ {0}, NEW b \in Nat \ {0}, NEW v \in Int
    PROVE  v \div (a * b) = (v \div a) \div b
<1> DEFINE x == v \div a
<1> DEFINE r == v % a
<1> DEFINE y == x \div b
<1> DEFINE s == x % b
<1>1. x \in Int /\ r \in 0..(a - 1) /\ v = x * a + r BY DivModBasics
<1>2. y \in Int /\ s \in 0..(b - 1) /\ x = y * b + s BY <1>1, DivModBasics
<1> HIDE DEF x, r, y, s
<1>3. v = y * (a * b) + (s * a + r) BY <1>1, <1>2
<1>4. s * a + r \in 0..(a * b - 1)
    <2>1. s * a >= 0 /\ s * a <= (b - 1) * a BY <1>2
    <2>2. (b - 1) * a = a * b - a OBVIOUS
    <2> QED BY <1>1, <1>2, <2>1, <2>2
<1>5. a * b \in Nat \ {0} BY MulNat
<1>6. v \div (a * b) = y BY <1>2, <1>3, <1>4, <1>5, DivModUnique
<1> QED BY <1>6 DEF x, y

-----------------------------------------------------------------------------
\* Four bytes are the remainder of a number, and the other way round.

\* A byte has values.
LEMMA BaseNat == Base \in Nat \ {0}
BY HalfBaseAssumption DEF Base

\* The sizes of words, as products.
LEMMA Powers ==
    /\ Base * Base \in Nat \ {0} /\ Base * Base * Base \in Nat \ {0}
    /\ Word32 = Base * Base * Base * Base /\ Word32 \in Nat \ {0}
    /\ Half32 \in Nat \ {0} /\ Word32 = 2 * Half32
<1>1. Base * Base \in Nat \ {0} BY BaseNat, MulNat
<1>2. (Base * Base) * Base \in Nat \ {0} BY <1>1, BaseNat, MulNat
<1>3. HalfBase * Base \in Nat \ {0} BY BaseNat, MulNat, HalfBaseAssumption
<1>4. (HalfBase * Base) * Base \in Nat \ {0} BY <1>3, BaseNat, MulNat
<1>5. ((HalfBase * Base) * Base) * Base \in Nat \ {0} BY <1>4, BaseNat, MulNat
<1>6. 2 * (((HalfBase * Base) * Base) * Base) = (((2 * HalfBase) * Base) * Base) * Base
    <2> DEFINE b == Base
    <2>1. b \in Nat BY BaseNat
    <2>2. HalfBase \in Nat BY HalfBaseAssumption
    <2> HIDE DEF b
    <2>3. 2 * (((HalfBase * b) * b) * b) = (((2 * HalfBase) * b) * b) * b BY <2>1, <2>2
    <2> QED BY <2>3 DEF b
<1>7. Word32 = Base * Base * Base * Base BY <1>6 DEF Word32, Half32, Base
<1> QED BY <1>1, <1>2, <1>5, <1>7 DEF Half32, Word32

\* An int32 has four bytes.
LEMMA Split32Type == ASSUME NEW v \in Int PROVE Split32(v) \in [1..4 -> Byte]
<1> DEFINE b == Base
<1>1. b \in Nat \ {0} /\ b * b \in Nat \ {0} /\ b * b * b \in Nat \ {0} BY BaseNat, Powers
<1> HIDE DEF b
<1>2. /\ v \div (b * b * b) \in Int /\ v \div (b * b) \in Int /\ v \div b \in Int
    BY <1>1, DivModBasics
<1>3. /\ (v \div (b * b * b)) % b \in 0..(b - 1) /\ (v \div (b * b)) % b \in 0..(b - 1)
      /\ (v \div b) % b \in 0..(b - 1) /\ v % b \in 0..(b - 1)
    BY <1>1, <1>2, DivModBasics
<1> QED BY <1>3 DEF b, Split32, Byte

\* Writing and reading leaves the remainder of a number.
LEMMA JoinSplit ==
    ASSUME NEW v \in Int
    PROVE  Join32(Split32(v)) = v % Word32
<1> DEFINE b == Base
<1> DEFINE q1 == v \div b
<1> DEFINE q2 == q1 \div b
<1> DEFINE q3 == q2 \div b
<1> DEFINE q4 == q3 \div b
<1> DEFINE d4 == v % b
<1> DEFINE d3 == q1 % b
<1> DEFINE d2 == q2 % b
<1> DEFINE d1 == q3 % b
<1>1. b \in Nat \ {0} /\ b * b \in Nat \ {0} /\ b * b * b \in Nat \ {0} BY BaseNat, Powers
<1>2. q1 \in Int /\ d4 \in 0..(b - 1) /\ v = q1 * b + d4
    <2> HIDE DEF b
    <2> QED BY <1>1, DivModBasics
<1>3. q2 \in Int /\ d3 \in 0..(b - 1) /\ q1 = q2 * b + d3
    <2> HIDE DEF b, q1
    <2> QED BY <1>1, <1>2, DivModBasics
<1>4. q3 \in Int /\ d2 \in 0..(b - 1) /\ q2 = q3 * b + d2
    <2> HIDE DEF b, q2
    <2> QED BY <1>1, <1>3, DivModBasics
<1>5. q4 \in Int /\ d1 \in 0..(b - 1) /\ q3 = q4 * b + d1
    <2> HIDE DEF b, q3
    <2> QED BY <1>1, <1>4, DivModBasics
<1>6. v \div (b * b) = q2
    <2> HIDE DEF b
    <2> QED BY <1>1, DivDiv
<1>7. v \div (b * b * b) = q3
    <2>1. v \div ((b * b) * b) = (v \div (b * b)) \div b
        <3> HIDE DEF b
        <3> QED BY <1>1, DivDiv
    <2> QED BY <2>1, <1>6
<1>8. Split32(v) = <<d1, d2, d3, d4>>
    BY <1>6, <1>7 DEF Split32
<1>9. Join32(Split32(v)) = d1 * (b * b * b) + d2 * (b * b) + d3 * b + d4
    <2> HIDE DEF d1, d2, d3, d4
    <2> QED BY <1>8 DEF Join32
<1> DEFINE u == d1 * (b * b * b) + d2 * (b * b) + d3 * b + d4
<1>10. v = q4 * (b * b * b * b) + u
    <2> HIDE DEF b, q1, q2, q3, q4, d1, d2, d3, d4
    <2> QED BY <1>1, <1>2, <1>3, <1>4, <1>5
<1>11. u \in 0..(b * b * b * b - 1)
    <2> HIDE DEF b, d1, d2, d3, d4, q1, q2, q3, q4
    <2>1. d3 * b >= 0 /\ d3 * b <= (b - 1) * b BY <1>1, <1>3
    <2>2. d2 * (b * b) >= 0 /\ d2 * (b * b) <= (b - 1) * (b * b) BY <1>1, <1>4
    <2>3. d1 * (b * b * b) >= 0 /\ d1 * (b * b * b) <= (b - 1) * (b * b * b) BY <1>1, <1>5
    <2>4. (b - 1) * b = b * b - b BY <1>1
    <2>5. (b - 1) * (b * b) = b * b * b - b * b BY <1>1
    <2>6. (b - 1) * (b * b * b) = b * b * b * b - b * b * b BY <1>1
    <2>7. /\ d1 * (b * b * b) \in Int /\ d2 * (b * b) \in Int /\ d3 * b \in Int
          /\ b * b * b * b \in Int BY <1>1, <1>3, <1>4, <1>5
    <2> QED BY <1>1, <1>2, <2>1, <2>2, <2>3, <2>4, <2>5, <2>6, <2>7
<1>12. Word32 = b * b * b * b /\ Word32 \in Nat \ {0} BY Powers
<1>13. v % Word32 = u
    <2> HIDE DEF b, u, q1, q2, q3, q4, d1, d2, d3, d4
    <2> QED BY <1>5, <1>10, <1>11, <1>12, DivModUnique
<1> QED BY <1>9, <1>13

\* Reading and writing leaves the bytes.
LEMMA SplitJoin ==
    ASSUME NEW d \in [1..4 -> Byte]
    PROVE  Join32(d) \in 0..(Word32 - 1) /\ Split32(Join32(d)) = d
<1> DEFINE b == Base
<1>1. b \in Nat \ {0} /\ b * b \in Nat \ {0} /\ b * b * b \in Nat \ {0} BY BaseNat, Powers
<1>2. d[1] \in 0..(b - 1) /\ d[2] \in 0..(b - 1) /\ d[3] \in 0..(b - 1) /\ d[4] \in 0..(b - 1)
    BY DEF Byte
<1> DEFINE q1 == d[1] * (b * b) + d[2] * b + d[3]
<1> DEFINE q2 == d[1] * b + d[2]
<1> DEFINE v == Join32(d)
<1>3. v = q1 * b + d[4] /\ q1 = q2 * b + d[3] /\ q1 \in Int /\ q2 \in Int /\ v \in Int
    <2>1. v = d[1] * (b * b * b) + d[2] * (b * b) + d[3] * b + d[4] BY DEF Join32
    <2> HIDE DEF b, v
    <2> QED BY <1>1, <1>2, <2>1
<1>4. v \div b = q1 /\ v % b = d[4]
    <2> HIDE DEF b, v, q1
    <2> QED BY <1>1, <1>2, <1>3, DivModUnique
<1>5. q1 \div b = q2 /\ q1 % b = d[3]
    <2> HIDE DEF b, v, q1, q2
    <2> QED BY <1>1, <1>2, <1>3, DivModUnique
<1>6. q2 \div b = d[1] /\ q2 % b = d[2]
    <2> DEFINE e == d[1]
    <2> DEFINE f == d[2]
    <2>1. e \in Int /\ f \in 0..(b - 1) BY <1>2
    <2>2. (e * b + f) \div b = e /\ (e * b + f) % b = f
        <3> HIDE DEF b, e, f
        <3> QED BY <1>1, <2>1, DivModUnique
    <2> QED BY <2>2
<1>7. v \div (b * b) = q2
    <2> HIDE DEF b, v, q1, q2
    <2> QED BY <1>1, <1>3, <1>4, <1>5, DivDiv
<1>8. v \div (b * b * b) = d[1]
    <2>1. v \div ((b * b) * b) = (v \div (b * b)) \div b
        <3> HIDE DEF b, v
        <3> QED BY <1>1, <1>3, DivDiv
    <2> HIDE DEF b, v, q1, q2
    <2> QED BY <2>1, <1>7, <1>6
<1>9. d[1] % b = d[1]
    <2> HIDE DEF b
    <2> QED BY <1>1, <1>2
<1>10. Split32(v) = <<d[1], d[2], d[3], d[4]>>
    <2> HIDE DEF v, q1, q2
    <2> QED BY <1>4, <1>5, <1>6, <1>7, <1>8, <1>9 DEF Split32
<1>11. v \in 0..(Word32 - 1)
    <2>1. Word32 = b * b * b * b BY Powers
    <2>2. v \in Nat
        <3> DEFINE e1 == d[1]
        <3> DEFINE e2 == d[2]
        <3> DEFINE e3 == d[3]
        <3> DEFINE e4 == d[4]
        <3>0. /\ e1 \in Nat /\ e2 \in Nat /\ e3 \in Nat /\ e4 \in Nat
              /\ q2 = e1 * b + e2 /\ q1 = q2 * b + e3 /\ v = q1 * b + e4
            BY <1>2, <1>3
        <3> HIDE DEF b, v, q1, q2, e1, e2, e3, e4
        <3>1. e1 * b \in Nat BY <1>1, <3>0
        <3>2. q2 \in Nat BY <3>0, <3>1
        <3>3. q2 * b \in Nat BY <1>1, <3>2
        <3>4. q1 \in Nat BY <3>0, <3>3
        <3>5. q1 * b \in Nat BY <1>1, <3>4
        <3> QED BY <3>0, <3>5
    <2>3. q2 <= b * b - 1
        <3> HIDE DEF b, v
        <3>1. d[1] * b <= (b - 1) * b BY <1>1, <1>2
        <3>2. (b - 1) * b = b * b - b BY <1>1
        <3> QED BY <1>1, <1>2, <3>1, <3>2
    <2> HIDE DEF b, v, q1, q2
    <2>4. q1 <= b * b * b - 1
        <3>1. q2 * b <= (b * b - 1) * b BY <1>1, <1>3, <2>3
        <3>2. (b * b - 1) * b = b * b * b - b BY <1>1
        <3> QED BY <1>1, <1>2, <1>3, <3>1, <3>2
    <2>5. v <= b * b * b * b - 1
        <3>1. q1 * b <= (b * b * b - 1) * b BY <1>1, <1>3, <2>4
        <3>2. (b * b * b - 1) * b = b * b * b * b - b BY <1>1
        <3>3. q1 * b \in Int /\ b * b * b * b \in Int BY <1>1, <1>3
        <3> QED BY <1>1, <1>2, <1>3, <3>1, <3>2, <3>3
    <2>6. b * b * b * b \in Int BY <1>1
    <2> QED BY <2>1, <2>2, <2>5, <2>6
<1>12. d = <<d[1], d[2], d[3], d[4]>> OBVIOUS
<1> HIDE DEF v, q1, q2
<1> QED BY <1>10, <1>11, <1>12 DEF v

\* Writing looks only at the low bits.
LEMMA SplitOfRemainder ==
    ASSUME NEW v \in Int
    PROVE  v % Word32 \in Int /\ Split32(v % Word32) = Split32(v)
<1> DEFINE d == Split32(v)
<1>1. d \in [1..4 -> Byte] BY Split32Type
<1>2. Join32(d) \in Int /\ Split32(Join32(d)) = d
    <2> HIDE DEF d
    <2> QED BY <1>1, SplitJoin, Powers
<1>3. Join32(d) = v % Word32 BY JoinSplit
<1> QED BY <1>2, <1>3

-----------------------------------------------------------------------------
\* Two's complement.

\* A signed number survives as its remainder.
LEMMA SignedOfRemainder ==
    ASSUME NEW half \in Nat \ {0}, NEW v \in (-half)..(half - 1)
    PROVE  Signed(v % (2 * half), half) = v
<1>1. CASE v >= 0
    <2>1. v = 0 * (2 * half) + v /\ v \in 0..(2 * half - 1) BY <1>1
    <2>2. v % (2 * half) = v BY <2>1, DivModUnique
    <2> QED BY <1>1, <2>2 DEF Signed
<1>2. CASE v < 0
    <2> DEFINE r == v + 2 * half
    <2>1. v = (-1) * (2 * half) + r /\ r \in half..(2 * half - 1) BY <1>2
    <2>2. v % (2 * half) = r
        <3> HIDE DEF r
        <3> QED BY <2>1, DivModUnique
    <2> QED BY <1>2, <2>1, <2>2 DEF Signed
<1> QED BY <1>1, <1>2

\* A remainder survives as a signed number.
LEMMA RemainderOfSigned ==
    ASSUME NEW half \in Nat \ {0}, NEW u \in 0..(2 * half - 1)
    PROVE  Signed(u, half) \in (-half)..(half - 1) /\ Signed(u, half) % (2 * half) = u
<1>1. CASE u < half
    <2>1. Signed(u, half) = 0 * (2 * half) + u BY <1>1 DEF Signed
    <2> QED BY <1>1, <2>1, DivModUnique DEF Signed
<1>2. CASE u >= half
    <2>1. Signed(u, half) = (-1) * (2 * half) + u BY <1>2 DEF Signed
    <2>2. ((-1) * (2 * half) + u) % (2 * half) = u BY DivModUnique
    <2> QED BY <1>2, <2>1, <2>2 DEF Signed
<1> QED BY <1>1, <1>2

\* An int32 comes out of its four bytes as it went in: byte order and sign
\* survive Writer_writeInt32 followed by Reader_readInt32.
THEOREM Int32RoundTrip == \A v \in Int32 : Decode("int32", Encode("int32", v)) = v
<1> SUFFICES ASSUME NEW v \in Int32 PROVE Signed(Join32(Split32(v)), Half32) = v
    BY DEF Decode, Encode
<1>1. v \in (-Half32)..(Half32 - 1) /\ v \in Int BY Powers DEF Int32
<1> QED BY <1>1, JoinSplit, SignedOfRemainder, Powers

\* Reading an integer of the database as VT_INT32 leaves it as it is if it fits.
THEOREM ColumnIntExact == \A v \in Int32 : sqlite3_column_int(v) = v
BY SignedOfRemainder, Powers DEF sqlite3_column_int, Int32

-----------------------------------------------------------------------------
\* Eight bytes.

\* The sizes of long words, as products.
LEMMA Powers64 == Word64 = Word32 * Word32 /\ Half64 \in Nat \ {0} /\ Word64 = 2 * Half64
<1>1. Half32 \in Nat \ {0} /\ Word32 \in Nat \ {0} /\ Word32 = 2 * Half32 BY Powers
<1> DEFINE h == Half32
<1> DEFINE w == Word32
<1>2. h * w \in Nat \ {0} BY <1>1, MulNat
<1>3. h \in Nat /\ w = 2 * h BY <1>1
<1>4. 2 * (h * w) = w * w
    <2> HIDE DEF h, w
    <2> QED BY <1>3
<1> QED BY <1>2, <1>4 DEF Half64, Word64

\* n bytes, as a function and as a sequence.
LEMMA Block ==
    ASSUME NEW n \in Nat, NEW d
    PROVE  d \in [1..n -> Byte] <=> d \in Seq(Byte) /\ Len(d) = n
<1>1. ASSUME d \in [1..n -> Byte] PROVE d \in Seq(Byte) /\ Len(d) = n
    <2>1. d \in Seq(Byte) BY <1>1, SeqDef
    <2> QED BY <1>1, <2>1, LenProperties
<1>2. ASSUME d \in Seq(Byte), Len(d) = n PROVE d \in [1..n -> Byte]
    BY <1>2, LenProperties
<1> QED BY <1>1, <1>2

\* Eight bytes are two times four.
LEMMA Halves ==
    ASSUME NEW d \in [1..8 -> Byte]
    PROVE  /\ [i \in 1..4 |-> d[i]] \in [1..4 -> Byte]
           /\ [i \in 1..4 |-> d[i + 4]] \in [1..4 -> Byte]
           /\ Join32(d) = Join32([i \in 1..4 |-> d[i]])
BY DEF Join32

\* JoinSplit for an int64.
LEMMA JoinSplit64 ==
    ASSUME NEW v \in Int
    PROVE  Split64(v) \in [1..8 -> Byte] /\ Join64(Split64(v)) = v % Word64
<1> DEFINE w == Word32
<1> DEFINE x == v \div w
<1> DEFINE lo == v % w
<1> DEFINE hi == x % w
<1> DEFINE q == x \div w
<1>1. w \in Nat \ {0} /\ Word64 = w * w /\ w * w \in Nat \ {0} BY Powers, Powers64, MulNat
<1>2. x \in Int /\ lo \in 0..(w - 1) /\ v = x * w + lo
    <2> HIDE DEF w
    <2> QED BY <1>1, DivModBasics
<1>3. q \in Int /\ hi \in 0..(w - 1) /\ x = q * w + hi
    <2> HIDE DEF w, x
    <2> QED BY <1>1, <1>2, DivModBasics
<1>4. Split32(x) \in [1..4 -> Byte] /\ Split32(v) \in [1..4 -> Byte]
    <2> HIDE DEF x
    <2> QED BY <1>2, Split32Type
<1>5. Join32(Split32(x)) = hi /\ Join32(Split32(v)) = lo
    <2> HIDE DEF x
    <2> QED BY <1>2, JoinSplit
<1> DEFINE d == Split64(v)
<1>9. d \in [1..8 -> Byte]
    <2> DEFINE s == Split32(x)
    <2> DEFINE t == Split32(v)
    <2>1. d = [i \in 1..8 |-> IF i <= 4 THEN s[i] ELSE t[i - 4]] BY DEF Split64
    <2>2. s \in [1..4 -> Byte] /\ t \in [1..4 -> Byte] BY <1>4
    <2> HIDE DEF d, s, t
    <2> QED BY <2>1, <2>2
<1>6. Join64(d) = hi * w + lo
    <2> DEFINE s == Split32(x)
    <2> DEFINE t == Split32(v)
    <2>4. d = [i \in 1..8 |-> IF i <= 4 THEN s[i] ELSE t[i - 4]] BY DEF Split64
    <2>5. s \in [1..4 -> Byte] /\ t \in [1..4 -> Byte] BY <1>4
    <2>6. [i \in 1..4 |-> d[i]] = s /\ [i \in 1..4 |-> d[i + 4]] = t
        <3> HIDE DEF d, s, t
        <3> QED BY <2>4, <2>5
    <2>1. [i \in 1..4 |-> d[i]] = Split32(x) BY <2>6
    <2>2. [i \in 1..4 |-> d[i + 4]] = Split32(v) BY <2>6
    <2> HIDE DEF s, t
    <2> HIDE DEF hi, lo, d, x
    <2>3. Join32(d) = hi BY <1>5, <1>9, <2>1, Halves
    <2> QED BY <1>5, <2>2, <2>3 DEF Join64
<1>7. v = q * (w * w) + (hi * w + lo) /\ hi * w + lo \in 0..(w * w - 1)
    <2> HIDE DEF w, x, lo, hi, q
    <2>1. hi * w >= 0 /\ hi * w <= (w - 1) * w BY <1>1, <1>3
    <2>2. (w - 1) * w = w * w - w BY <1>1
    <2> QED BY <1>1, <1>2, <1>3, <2>1, <2>2
<1>8. v % (w * w) = hi * w + lo
    <2> HIDE DEF w, x, lo, hi, q
    <2> QED BY <1>1, <1>3, <1>7, DivModUnique
<1> QED BY <1>1, <1>6, <1>8, <1>9

\* SplitJoin for an int64.
LEMMA SplitJoin64 ==
    ASSUME NEW d \in [1..8 -> Byte]
    PROVE  Join64(d) \in 0..(Word64 - 1) /\ Split64(Join64(d)) = d
<1> DEFINE w == Word32
<1> DEFINE high == [i \in 1..4 |-> d[i]]
<1> DEFINE low == [i \in 1..4 |-> d[i + 4]]
<1> DEFINE hi == Join32(high)
<1> DEFINE lo == Join32(low)
<1> DEFINE v == hi * w + lo
<1>1. w \in Nat \ {0} /\ Word64 = w * w BY Powers, Powers64
<1>0. high \in [1..4 -> Byte] /\ low \in [1..4 -> Byte] /\ Join32(d) = hi BY Halves
<1>2. hi \in 0..(w - 1) /\ lo \in 0..(w - 1)
    <2> HIDE DEF high, low
    <2> QED BY <1>0, SplitJoin
<1>3. Split32(hi) = high /\ Split32(lo) = low
    <2> HIDE DEF high, low
    <2> QED BY <1>0, SplitJoin
<1>4. v \in 0..(w * w - 1)
    <2> HIDE DEF w, hi, lo
    <2>1. hi * w >= 0 /\ hi * w <= (w - 1) * w BY <1>1, <1>2
    <2>2. (w - 1) * w = w * w - w BY <1>1
    <2> QED BY <1>1, <1>2, <2>1, <2>2
<1>5. v \div w = hi /\ v % w = lo
    <2> HIDE DEF w, hi, lo
    <2> QED BY <1>1, <1>2, DivModUnique
<1>6. Split32(v) = Split32(lo)
    <2>1. v \in Int
        <3> HIDE DEF w, hi, lo
        <3> QED BY <1>1, <1>2
    <2> HIDE DEF v, hi, lo
    <2> QED BY <2>1, <1>5, SplitOfRemainder
<1>7. Join64(d) = v
    <2>1. Join64(d) = Join32(d) * w + lo BY DEF Join64
    <2> HIDE DEF hi, lo
    <2> QED BY <1>0, <2>1
<1>8. Split64(v) = d
    <2>1. Split64(v) = [i \in 1..8 |-> IF i <= 4 THEN high[i] ELSE low[i - 4]]
        <3> HIDE DEF v, hi, lo, high, low
        <3> QED BY <1>3, <1>5, <1>6 DEF Split64
    <2> HIDE DEF v, hi, lo
    <2> QED BY <2>1
<1> HIDE DEF v
<1> QED BY <1>1, <1>4, <1>7, <1>8

\* The same for an int64.
THEOREM Int64RoundTrip == \A v \in Int64 : Decode("int64", Encode("int64", v)) = v
<1> SUFFICES ASSUME NEW v \in Int64 PROVE Signed(Join64(Split64(v)), Half64) = v
    BY DEF Decode, Encode
<1>1. v \in (-Half64)..(Half64 - 1) /\ v \in Int BY Powers64 DEF Int64
<1> QED BY <1>1, JoinSplit64, SignedOfRemainder, Powers64

-----------------------------------------------------------------------------
\* Sequences of bytes.

\* The end of a string is a byte.
LEMMA ZeroIsByte == 0 \in Byte
BY BaseNat DEF Byte

\* The bytes of an int32 as a sequence.
LEMMA Split32Seq == ASSUME NEW v \in Int PROVE Split32(v) \in Seq(Byte) /\ Len(Split32(v)) = 4
BY Split32Type, Block

\* A length and what follows it are bytes.
LEMMA PrefixedSeq == ASSUME NEW b \in Seq(Byte) PROVE Prefixed(b) \in Seq(Byte)
<1>1. Len(b) \in Int BY LenProperties
<1>2. Split32(Len(b)) \in Seq(Byte) BY <1>1, Split32Seq
<1> QED BY <1>2, ConcatProperties DEF Prefixed

\* Reversing twice changes nothing (Writer_writeDouble, Reader_readDouble).
LEMMA ReverseSeq ==
    ASSUME NEW b \in Seq(Byte)
    PROVE  Reverse(b) \in Seq(Byte) /\ Len(Reverse(b)) = Len(b) /\ Reverse(Reverse(b)) = b
<1> DEFINE n == Len(b)
<1> DEFINE r == Reverse(b)
<1>1. n \in Nat /\ b \in [1..n -> Byte] BY LenProperties
<1>2. r = [i \in 1..n |-> b[(n - i) + 1]] BY DEF Reverse
<1>3. r \in [1..n -> Byte]
    <2> HIDE DEF n, r
    <2> QED BY <1>1, <1>2
<1>4. r \in Seq(Byte) /\ Len(r) = n
    <2> HIDE DEF n, r
    <2> QED BY <1>1, <1>3, Block
<1>5. Reverse(r) = [i \in 1..n |-> r[(n - i) + 1]]
    <2> HIDE DEF r, n
    <2> QED BY <1>4 DEF Reverse
<1>6. Reverse(r) = b
    <2> HIDE DEF n, r
    <2>1. ASSUME NEW i \in 1..n PROVE (n - i) + 1 \in 1..n /\ (n - ((n - i) + 1)) + 1 = i
        BY <1>1
    <2>2. ASSUME NEW i \in 1..n PROVE r[(n - i) + 1] = b[i]
        BY <1>2, <2>1
    <2> QED BY <1>1, <1>5, <2>2
<1> QED BY <1>4, <1>6

\* What strlen sees of bytes are bytes.
LEMMA CStringSeq == ASSUME NEW b \in Seq(Byte) PROVE CString(b) \in Seq(Byte)
<1> DEFINE n == strlen(b)
<1> DEFINE P == {i \in DOMAIN b : \A j \in 1..i : b[j] # 0}
<1>1. DOMAIN b = 1..Len(b) /\ Len(b) \in Nat /\ b \in [1..Len(b) -> Byte] BY LenProperties
<1>2. IsFiniteSet(1..Len(b)) /\ Cardinality(1..Len(b)) = Len(b)
    <2>1. Cardinality(1..Len(b)) = IF 1 > Len(b) THEN 0 ELSE Len(b) - 1 + 1
        BY <1>1, FS_Interval, SMTT(60)
    <2> QED BY <1>1, <2>1, FS_Interval, SMTT(60)
<1>3. P \in SUBSET (1..Len(b)) BY <1>1
<1>4. IsFiniteSet(P) /\ Cardinality(P) <= Len(b) BY <1>2, <1>3, FS_Subset
<1>5. n \in Nat /\ n <= Len(b) BY <1>4, FS_CardinalityType DEF strlen
<1>6. \A i \in 1..n : b[i] \in Byte BY <1>1, <1>5
<1> HIDE DEF n
<1>7. SubSeq(b, 1, n) \in Seq(Byte) BY <1>5, <1>6, SubSeqProperties
<1> QED BY <1>7 DEF CString, n

\* Every value is written as bytes.
LEMMA EncodeSeq ==
    ASSUME NEW k \in Kinds, NEW v \in ValuesOf[k]
    PROVE  Encode(k, v) \in Seq(Byte)
<1>1. CASE k = "byte"
    <2>1. v \in Int BY <1>1, HalfBaseAssumption DEF ValuesOf, Kinds
    <2>2. v % Base \in Byte BY <2>1, BaseNat, DivModBasics DEF Byte
    <2> QED BY <1>1, <2>2 DEF Encode
<1>2. CASE k = "int32"
    <2>1. v \in Int BY <1>2, Powers DEF ValuesOf, Kinds, Int32
    <2> QED BY <1>2, <2>1, Split32Seq DEF Encode
<1>3. CASE k = "int64"
    <2>1. v \in Int BY <1>3, Powers64 DEF ValuesOf, Kinds, Int64
    <2>2. Split64(v) \in Seq(Byte) BY <2>1, JoinSplit64, Block
    <2> QED BY <1>3, <2>2 DEF Encode
<1>4. CASE k = "double"
    <2>1. v \in [1..8 -> Byte] BY <1>4 DEF ValuesOf, Kinds
    <2>2. v \in Seq(Byte) BY <2>1, Block
    <2> QED BY <1>4, <2>2, ReverseSeq DEF Encode
<1>5. CASE k = "string"
    <2>1. v \in Seq(Byte) BY <1>5 DEF ValuesOf, Kinds
    <2>2. Append(v, 0) \in Seq(Byte) BY <2>1, ZeroIsByte, AppendProperties
    <2> QED BY <1>5, <2>2, PrefixedSeq DEF Encode
<1>6. CASE k = "blob"
    <2>1. v \in Seq(Byte) BY <1>6 DEF ValuesOf, Kinds
    <2> QED BY <1>6, <2>1, PrefixedSeq DEF Encode
<1> QED BY <1>1, <1>2, <1>3, <1>4, <1>5, <1>6 DEF Kinds

-----------------------------------------------------------------------------
\* Whatever bytes a fixed-size value is read from, they are those that would
\* be written for it.

FixedKinds == {"byte", "int32", "int64", "double"}

\* The sizes of the values that have one.
LEMMA SizeIs ==
    /\ DOMAIN Size = FixedKinds /\ Size["byte"] = 1 /\ Size["int32"] = 4
    /\ Size["int64"] = 8 /\ Size["double"] = 8
BY DEF Size, FixedKinds

\* A value of fixed size is written as the bytes it was read from.
LEMMA EncodeDecode ==
    ASSUME NEW k \in FixedKinds, NEW b \in [1..Size[k] -> Byte]
    PROVE  Encode(k, Decode(k, b)) = b
<1>1. CASE k = "byte"
    <2>1. b \in [1..1 -> Byte] BY <1>1, SizeIs
    <2>7. b \in Seq(Byte) /\ Len(b) = 1 BY <2>1, Block
    <2>5. b[1] \in Byte
        <3>1. \A i \in 1..Len(b) : b[i] \in Byte BY <2>7, ElementOfSeq
        <3>2. 1 \in 1..Len(b) BY <2>7
        <3> QED BY <3>1, <3>2, Zenon
    <2>2. b[1] \in 0..(2 * HalfBase - 1)
        <3> DEFINE e == b[1]
        <3>1. e \in Byte BY <2>5
        <3> HIDE DEF e
        <3>2. e \in 0..(2 * HalfBase - 1) BY <3>1 DEF Byte, Base
        <3> QED BY <3>2 DEF e
    <2>3. Signed(b[1], HalfBase) % (2 * HalfBase) = b[1]
        BY <2>2, RemainderOfSigned, HalfBaseAssumption
    <2>4. Encode(k, Decode(k, b)) = <<b[1]>> BY <1>1, <2>3 DEF Encode, Decode, Base
    <2>6. <<b[1]>> = b
        <3> DEFINE c == <<b[1]>>
        <3>1. c \in Seq(Byte) /\ Len(c) = 1 /\ c[1] = b[1] BY <2>5
        <3> HIDE DEF c
        <3>2. \A i \in 1..1 : c[i] = b[i] BY <3>1
        <3>3. c = b BY <2>7, <3>1, <3>2, SeqEqual
        <3> QED BY <3>3 DEF c
    <2> QED BY <2>4, <2>6
<1>2. CASE k = "int32"
    <2>1. b \in [1..4 -> Byte] BY <1>2, SizeIs
    <2> DEFINE u == Join32(b)
    <2> DEFINE v == Signed(u, Half32)
    <2>2. u \in 0..(2 * Half32 - 1) /\ Split32(u) = b BY <2>1, SplitJoin, Powers
    <2>3. v \in (-Half32)..(Half32 - 1) /\ v % (2 * Half32) = u
        <3> HIDE DEF u
        <3> QED BY <2>2, RemainderOfSigned, Powers
    <2>4. v \in Int BY <2>3, Powers
    <2>5. Split32(v % Word32) = Split32(v)
        <3> HIDE DEF v
        <3> QED BY <2>4, SplitOfRemainder
    <2>6. Split32(v) = b BY <2>2, <2>3, <2>5, Powers
    <2> QED BY <1>2, <2>6 DEF Encode, Decode
<1>3. CASE k = "int64"
    <2>1. b \in [1..8 -> Byte] BY <1>3, SizeIs
    <2> DEFINE u == Join64(b)
    <2> DEFINE v == Signed(u, Half64)
    <2>2. u \in 0..(2 * Half64 - 1) /\ Split64(u) = b BY <2>1, SplitJoin64, Powers64
    <2>3. v \in (-Half64)..(Half64 - 1) /\ v % (2 * Half64) = u
        <3> HIDE DEF u
        <3> QED BY <2>2, RemainderOfSigned, Powers64
    <2>4. v \in Int BY <2>3, Powers64
    <2> DEFINE d == Split64(v)
    <2>5. d \in [1..8 -> Byte] /\ Join64(d) = v % Word64
        <3> HIDE DEF v
        <3> QED BY <2>4, JoinSplit64
    <2>6. Split64(Join64(d)) = d
        <3> HIDE DEF d
        <3> QED BY <2>5, SplitJoin64
    <2>7. Split64(v) = b BY <2>2, <2>3, <2>5, <2>6, Powers64
    <2> QED BY <1>3, <2>7 DEF Encode, Decode
<1>4. CASE k = "double"
    <2>1. b \in [1..8 -> Byte] BY <1>4, SizeIs
    <2>2. b \in Seq(Byte) BY <2>1, Block
    <2> QED BY <1>4, <2>2, ReverseSeq DEF Encode, Decode
<1> QED BY <1>1, <1>2, <1>3, <1>4 DEF FixedKinds

-----------------------------------------------------------------------------
\* The Reader.

ReaderInv == TypeOK /\ InBounds /\ NothingSkipped /\ read \in Seq(Byte) /\ payload \in Seq(Byte)

Unread == SubSeq(buf, rp + 1, Len(buf))

\* The invariant holds before anything is read.
LEMMA InitReaderInv == Init => ReaderInv
<1> SUFFICES ASSUME Init PROVE ReaderInv OBVIOUS
<1> USE DEF Init
<1>1. TypeOK BY EmptySeq DEF TypeOK
<1>2. InBounds BY DEF InBounds
<1>3. <<>> \in Seq(Byte) /\ Len(<<>>) = 0 BY EmptySeq
<1>4. SubSeq(buf, rp + 1, Len(buf)) = <<>> BY <1>3, SubSeqEmpty
<1>5. NothingSkipped BY <1>3, <1>4, ConcatEmptySeq DEF NothingSkipped
<1> QED BY <1>1, <1>2, <1>3, <1>5 DEF ReaderInv

\* n bytes of the frame.
LEMMA BytesAre ==
    ASSUME buf \in Seq(Byte), NEW from \in Nat, NEW n \in Nat, from + n <= Len(buf)
    PROVE  /\ Bytes(from, n) = SubSeq(buf, from + 1, from + n)
           /\ Bytes(from, n) \in Seq(Byte) /\ Len(Bytes(from, n)) = n
<1>1. /\ buf \in Seq(Byte) /\ Len(buf) \in Nat
      /\ buf \in [1..Len(buf) -> Byte] /\ DOMAIN buf = 1..Len(buf)
    BY LenProperties
<1> DEFINE s == SubSeq(buf, from + 1, from + n)
<1> DEFINE t == Bytes(from, n)
<1>2. /\ s \in Seq(Byte) /\ Len(s) = n /\ \A i \in 1..n : s[i] = buf[from + i]
    <2>1. \A i \in (from + 1)..(from + n) : buf[i] \in Byte BY <1>1
    <2>2. /\ s \in Seq(Byte)
          /\ Len(s) = IF from + 1 <= from + n THEN (from + n) - (from + 1) + 1 ELSE 0
          /\ \A i \in 1..((from + n) - (from + 1) + 1) : s[i] = buf[from + 1 + i - 1]
        BY <1>1, <2>1, SubSeqProperties
    <2>3. \A i \in 1..n : s[i] = buf[from + i]
        <3> TAKE i \in 1..n
        <3>1. i \in 1..((from + n) - (from + 1) + 1) /\ from + 1 + i - 1 = from + i BY <1>1
        <3> HIDE DEF s
        <3> QED BY <2>2, <3>1
    <2> HIDE DEF s
    <2> QED BY <1>1, <2>2, <2>3
<1>3. t \in [1..n -> Byte] /\ \A i \in 1..n : t[i] = buf[from + i] BY <1>1 DEF Bytes, At
<1>4. t \in Seq(Byte) /\ Len(t) = n
    <2> HIDE DEF t
    <2> QED BY <1>3, Block
<1>5. s = t
    <2> HIDE DEF s, t
    <2> QED BY <1>2, <1>3, <1>4, SeqEqual
<1> QED BY <1>4, <1>5

\* The n bytes from where the Reader stands, and the rest.
LEMMA NextBytes ==
    ASSUME ReaderInv, NEW n \in Nat, rp + n <= Len(buf)
    PROVE  /\ Bytes(rp, n) = SubSeq(buf, rp + 1, rp + n)
           /\ Bytes(rp, n) \in Seq(Byte) /\ Len(Bytes(rp, n)) = n
           /\ SubSeq(buf, rp + n + 1, Len(buf)) \in Seq(Byte)
           /\ Unread = SubSeq(buf, rp + 1, rp + n) \o SubSeq(buf, rp + n + 1, Len(buf))
<1>1. /\ buf \in Seq(Byte) /\ Len(buf) \in Nat /\ rp \in 0..Len(buf)
      /\ buf \in [1..Len(buf) -> Byte] /\ DOMAIN buf = 1..Len(buf)
    BY LenProperties DEF ReaderInv, TypeOK, InBounds
<1>2. /\ Bytes(rp, n) = SubSeq(buf, rp + 1, rp + n)
      /\ Bytes(rp, n) \in Seq(Byte) /\ Len(Bytes(rp, n)) = n
    <2> DEFINE from == rp
    <2>1. from \in Nat /\ from + n <= Len(buf) BY <1>1
    <2> HIDE DEF from
    <2>2. /\ Bytes(from, n) = SubSeq(buf, from + 1, from + n)
          /\ Bytes(from, n) \in Seq(Byte) /\ Len(Bytes(from, n)) = n
        BY <1>1, <2>1, BytesAre
    <2> QED BY <2>2 DEF from
<1>6. Unread = SubSeq(buf, rp + 1, rp + n) \o SubSeq(buf, rp + n + 1, Len(buf))
    <2> DEFINE first == rp + 1
    <2> DEFINE last == rp + n
    <2> DEFINE end == Len(buf)
    <2>1. /\ first \in 1..(end + 1) /\ last \in (first - 1)..end /\ end \in last..end
          /\ rp + n + 1 = last + 1
        BY <1>1
    <2>2. SubSeq(buf, first, last) \o SubSeq(buf, last + 1, end) = SubSeq(buf, first, end)
        <3> HIDE DEF first, last
        <3> QED BY <1>1, <2>1, ConcatAdjacentSubSeq
    <2> QED BY <2>2 DEF Unread
<1>7. SubSeq(buf, rp + n + 1, Len(buf)) \in Seq(Byte)
    <2>1. \A i \in (rp + n + 1)..Len(buf) : buf[i] \in Byte BY <1>1
    <2> QED BY <1>1, <2>1, SubSeqProperties
<1> QED BY <1>2, <1>6, <1>7

\* Consuming n bytes that encode the value read keeps the invariant.
LEMMA ConsumeKeeps ==
    ASSUME ReaderInv, NEW k, NEW v, NEW n \in Nat, rp + n <= Len(buf), Consume(k, v, n),
           Reencoded(k, v) = SubSeq(buf, rp + 1, rp + n)
    PROVE  ReaderInv'
<1> DEFINE taken == SubSeq(buf, rp + 1, rp + n)
<1> DEFINE rest == SubSeq(buf, rp + n + 1, Len(buf))
<1>1. /\ taken \in Seq(Byte) /\ rest \in Seq(Byte) /\ Unread = taken \o rest
    BY NextBytes
<1>2. read' = read \o taken /\ rp' = rp + n /\ buf' = buf /\ payload' = payload
    BY DEF Consume
<1>3. rp \in 0..Len(buf) /\ Len(buf) \in Nat /\ read \in Seq(Byte) /\ payload \in Seq(Byte)
    BY LenProperties DEF ReaderInv, TypeOK, InBounds
<1>4. NothingSkipped'
    <2>1. read \o (taken \o rest) = payload
        BY <1>1 DEF ReaderInv, NothingSkipped, Unread
    <2>2. SubSeq(buf', rp' + 1, Len(buf')) = rest BY <1>2
    <2>3. (read \o taken) \o rest = read \o (taken \o rest)
        <3> HIDE DEF taken, rest
        <3> DEFINE r == read
        <3>1. r \in Seq(Byte) /\ taken \in Seq(Byte) /\ rest \in Seq(Byte) BY <1>1, <1>3
        <3> HIDE DEF r
        <3>2. (r \o taken) \o rest = r \o (taken \o rest)
            <4>1. \A x, y, z \in Seq(Byte) : (x \o y) \o z = x \o (y \o z)
              BY ONLY ConcatAssociative, SMTT(60)
            <4>2. QED
              BY <3>1, <4>1, Zenon
        <3> QED BY <3>2 DEF r
    <2> QED BY <1>2, <2>1, <2>2, <2>3 DEF NothingSkipped
<1>5. read' \in Seq(Byte)
    <2> HIDE DEF taken
    <2> QED BY <1>1, <1>2, <1>3, ConcatProperties
<1>6. InBounds' BY <1>2, <1>3 DEF Consume, InBounds
<1>7. TypeOK' BY <1>2, <1>3 DEF ReaderInv, TypeOK, Consume, writerVars
<1> QED BY <1>2, <1>3, <1>4, <1>5, <1>6, <1>7 DEF ReaderInv

\* Reading a byte, an integer or a double keeps it.
LEMMA ReadFixedKeeps ==
    ASSUME ReaderInv, NEW k \in FixedKinds, ReadFixed(k)
    PROVE  ReaderInv'
<1> DEFINE n == Size[k]
<1> DEFINE b == Bytes(rp, n)
<1>1. n \in Nat BY SizeIs DEF FixedKinds
<1>2. rp + n <= Len(buf)
    <2>1. rp \in Int /\ Len(buf) \in Int BY LenProperties DEF ReaderInv, TypeOK
    <2> QED BY <1>1, <2>1 DEF ReadFixed, Room
<1>3. b = SubSeq(buf, rp + 1, rp + n) /\ b \in Seq(Byte) /\ Len(b) = n
    <2> HIDE DEF n
    <2> QED BY <1>1, <1>2, NextBytes
<1>4. b \in [1..n -> Byte]
    <2> HIDE DEF n, b
    <2> QED BY <1>1, <1>3, Block
<1>5. Encode(k, Decode(k, b)) = b
    <2> HIDE DEF b
    <2> QED BY <1>4, EncodeDecode
<1>6. Consume(k, Decode(k, b), n) BY DEF ReadFixed
<1>7. Reencoded(k, Decode(k, b)) = SubSeq(buf, rp + 1, rp + n)
    <2> HIDE DEF b
    <2> QED BY <1>3, <1>5 DEF Reencoded, FixedKinds
<1> HIDE DEF n, b
<1> QED BY <1>1, <1>2, <1>6, <1>7, ConsumeKeeps

\* A length that passes the test is the one that would be written.
LEMMA BlobLenIs ==
    ASSUME ReaderInv, BlobFits
    PROVE  /\ BlobLen \in Nat /\ rp + (4 + BlobLen) <= Len(buf)
           /\ Split32(BlobLen) = SubSeq(buf, rp + 1, rp + 4)
<1> DEFINE b == Bytes(rp, 4)
<1> DEFINE u == Join32(b)
<1>1. rp \in 0..Len(buf) /\ Len(buf) \in Nat BY LenProperties DEF ReaderInv, TypeOK, InBounds
<1>2. rp + 4 <= Len(buf) BY <1>1 DEF BlobFits, Room
<1>3. b = SubSeq(buf, rp + 1, rp + 4) /\ b \in [1..4 -> Byte]
    <2> DEFINE n == 4
    <2> DEFINE c == Bytes(rp, n)
    <2>1. n \in Nat /\ rp + n <= Len(buf) BY <1>2
    <2> HIDE DEF n
    <2>2. c = SubSeq(buf, rp + 1, rp + n) /\ c \in Seq(Byte) /\ Len(c) = n BY <2>1, NextBytes
    <2>3. c \in [1..n -> Byte]
        <3> HIDE DEF c
        <3> QED BY <2>1, <2>2, Block
    <2> QED BY <2>2, <2>3 DEF n
<1>4. u \in 0..(Word32 - 1) /\ Split32(u) = b
    <2> HIDE DEF b
    <2> QED BY <1>3, SplitJoin
<1>5. BlobLen = u
    <2>1. BlobLen = SizeT(Signed(u, Half32)) BY DEF BlobLen, Decode
    <2>2. BlobLen <= Half32 - 1 BY DEF BlobFits, MaxLen
    <2>3. Half32 \in Nat \ {0} /\ Word32 = 2 * Half32 /\ Word64 \in Nat /\ Word64 >= 2 * Word32
        BY Powers, Powers64
    <2> HIDE DEF u
    <2> QED BY <1>4, <2>1, <2>2, <2>3 DEF Signed, SizeT
<1>6. rp + (4 + u) <= Len(buf)
    <2>1. u \in Int
        <3> HIDE DEF u
        <3> QED BY <1>4, Powers
    <2> HIDE DEF u
    <2> QED BY <1>1, <1>5, <2>1 DEF BlobFits, Room
<1> HIDE DEF b, u
<1> QED BY <1>3, <1>4, <1>5, <1>6, Powers

\* Reading a string or blob keeps it, whatever its length claims.
LEMMA ReadBlobKeeps ==
    ASSUME ReaderInv, NEW k \in {"string", "blob"}, ReadBlob(k)
    PROVE  ReaderInv'
<1> DEFINE len == BlobLen
<1> DEFINE v == Bytes(rp + 4, len)
<1>1. /\ len \in Nat /\ rp + (4 + len) <= Len(buf)
      /\ Split32(len) = SubSeq(buf, rp + 1, rp + 4)
    BY BlobLenIs DEF ReadBlob
<1>2. rp \in 0..Len(buf) /\ Len(buf) \in Nat /\ buf \in Seq(Byte)
    BY LenProperties DEF ReaderInv, TypeOK, InBounds
<1>3. /\ v = SubSeq(buf, (rp + 4) + 1, (rp + 4) + len)
      /\ v \in Seq(Byte) /\ Len(v) = len
    <2> DEFINE from == rp + 4
    <2>1. from \in Nat /\ from + len <= Len(buf)
        <3> HIDE DEF len
        <3> QED BY <1>1, <1>2
    <2> HIDE DEF len, from
    <2>2. /\ Bytes(from, len) = SubSeq(buf, from + 1, from + len)
          /\ Bytes(from, len) \in Seq(Byte) /\ Len(Bytes(from, len)) = len
        BY <1>1, <1>2, <2>1, BytesAre
    <2> QED BY <2>2 DEF from
<1>4. Reencoded(k, v) = Split32(len) \o v
    <2> HIDE DEF len, v
    <2> QED BY <1>3 DEF Reencoded, Prefixed
<1>5. SubSeq(buf, rp + 1, rp + 4) \o SubSeq(buf, (rp + 4) + 1, (rp + 4) + len)
        = SubSeq(buf, rp + 1, rp + (4 + len))
    <2> DEFINE first == rp + 1
    <2> DEFINE mid == rp + 4
    <2> DEFINE last == (rp + 4) + len
    <2>1. /\ first \in 1..(Len(buf) + 1) /\ mid \in (first - 1)..Len(buf)
          /\ last \in mid..Len(buf) /\ last = rp + (4 + len)
        <3> HIDE DEF len
        <3> QED BY <1>1, <1>2
    <2>2. SubSeq(buf, first, mid) \o SubSeq(buf, mid + 1, last) = SubSeq(buf, first, last)
        <3> HIDE DEF first, mid, last
        <3> QED BY <1>2, <2>1, ConcatAdjacentSubSeq
    <2> HIDE DEF len
    <2> QED BY <2>1, <2>2
<1>6. Consume(k, v, 4 + len) BY DEF ReadBlob
<1>7. Reencoded(k, v) = SubSeq(buf, rp + 1, rp + (4 + len))
    <2> HIDE DEF len, v
    <2> QED BY <1>1, <1>3, <1>4, <1>5
<1> DEFINE n == 4 + len
<1>8. n \in Nat
    <2> HIDE DEF len
    <2> QED BY <1>1
<1>9. rp + n <= Len(buf) /\ Consume(k, v, n) /\ Reencoded(k, v) = SubSeq(buf, rp + 1, rp + n)
    BY <1>1, <1>6, <1>7
<1> HIDE DEF n, v
<1> QED BY <1>8, <1>9, ConsumeKeeps

\* Reading a frame keeps it.
LEMMA ReadFrameKeeps ==
    ASSUME ReaderInv, ReadFrame
    PROVE  ReaderInv'
<1> DEFINE d == SubSeq(stdin, 1, 4)
<1> DEFINE len == FrameLen
<1> DEFINE contents == SubSeq(stdin, 5, 4 + len)
<1> DEFINE rest == SubSeq(stdin, 5 + len, Len(stdin))
<1>1. /\ stdin \in Seq(Byte) /\ Len(stdin) \in Nat
      /\ \A i \in 1..Len(stdin) : stdin[i] \in Byte
    BY LenProperties, ElementOfSeq DEF ReaderInv, TypeOK
<1>2. len \in Nat /\ 4 + len <= Len(stdin)
    <2>1. Len(stdin) >= 4 BY DEF ReadFrame
    <2>2. d \in [1..4 -> Byte]
        <3> DEFINE n == 4
        <3> DEFINE c == SubSeq(stdin, 1, n)
        <3>1. \A i \in 1..n : stdin[i] \in Byte BY <1>1, <2>1
        <3>2. n \in Nat /\ 1 \in Int /\ (1 <= n <=> n >= 1) /\ n - 1 + 1 = n /\ n >= 1 OBVIOUS
        <3> HIDE DEF n
        <3>3. c \in Seq(Byte) /\ Len(c) = n BY <3>1, <3>2, SubSeqProperties
        <3>4. c \in [1..n -> Byte]
            <4> HIDE DEF c
            <4> QED BY <3>2, <3>3, Block
        <3> QED BY <3>4 DEF n
    <2>3. Join32(d) \in Int
        <3> HIDE DEF d
        <3> QED BY <2>2, SplitJoin, Powers
    <2>4. len \in Int BY <2>3 DEF FrameLen
    <2> HIDE DEF len
    <2>5. 1 <= len /\ len <= MaxLen /\ Len(stdin) >= 4 + len BY DEF ReadFrame, LenOk, len
    <2> QED BY <1>1, <2>4, <2>5
<1>3. contents \in Seq(Byte)
    <2> HIDE DEF len
    <2>1. \A i \in 5..(4 + len) : stdin[i] \in Byte BY <1>1, <1>2
    <2> QED BY <1>2, <2>1, SubSeqProperties
<1>4. rest \in Seq(Byte)
    <2> HIDE DEF len
    <2>1. \A i \in (5 + len)..Len(stdin) : stdin[i] \in Byte BY <1>1, <1>2
    <2> QED BY <1>1, <1>2, <2>1, SubSeqProperties
<1>5. /\ buf' = contents /\ stdin' = rest /\ rp' = 0 /\ touched' = {}
      /\ payload' = payload \o contents /\ read' = read
    BY DEF ReadFrame
<1>6. payload = read
    <2>1. rp = Len(buf) /\ Len(buf) \in Nat
        BY LenProperties DEF ReadFrame, NeedsFrame, ReaderInv, TypeOK
    <2>2. SubSeq(buf, rp + 1, Len(buf)) = <<>> BY <2>1, SubSeqEmpty
    <2>3. read \o <<>> = read BY ConcatEmptySeq DEF ReaderInv
    <2> QED BY <2>2, <2>3 DEF ReaderInv, NothingSkipped
<1>7. read' \in Seq(Byte) /\ payload' \in Seq(Byte)
    <2> HIDE DEF contents
    <2> QED BY <1>3, <1>5, ConcatProperties DEF ReaderInv
<1>8. NothingSkipped'
    <2>1. SubSeq(contents, 1, Len(contents)) = contents
        <3> HIDE DEF contents
        <3> QED BY <1>3, SubSeqFull
    <2>2. 0 + 1 = 1 OBVIOUS
    <2> HIDE DEF contents
    <2> QED BY <1>5, <1>6, <2>1, <2>2 DEF NothingSkipped
<1>9. InBounds'
    <2>1. Len(contents) \in Nat
        <3> HIDE DEF contents
        <3> QED BY <1>3, LenProperties
    <2> HIDE DEF contents
    <2> QED BY <1>5, <2>1 DEF InBounds
<1>10. TypeOK'
    <2>1. /\ wbuf' = wbuf /\ open' = open /\ honest' = honest /\ pc' = pc
        BY DEF ReadFrame, writerVars
    <2> HIDE DEF contents, rest
    <2> QED BY <1>3, <1>4, <1>5, <2>1 DEF ReaderInv, TypeOK
<1> QED BY <1>7, <1>8, <1>9, <1>10 DEF ReaderInv

\* The steps of the writer leave the Reader alone.
LEMMA WriterKeeps ==
    ASSUME ReaderInv, UNCHANGED readerVars, TypeOK'
    PROVE  ReaderInv'
BY DEF ReaderInv, readerVars, InBounds, NothingSkipped

\* Writing a value keeps it.
LEMMA WriteKeeps ==
    ASSUME ReaderInv, NEW k, NEW v, NEW bytes \in Seq(Byte), Write(k, v, bytes)
    PROVE  ReaderInv'
<1>1. /\ wbuf' = wbuf \o bytes /\ UNCHANGED <<stdin, open, honest>> /\ UNCHANGED readerVars
    BY DEF Write
<1>2. wbuf' \in Seq(Byte) BY <1>1, ConcatProperties DEF ReaderInv, TypeOK
<1>3. TypeOK' BY <1>1, <1>2 DEF ReaderInv, TypeOK, readerVars
<1> QED BY <1>1, <1>3, WriterKeeps

\* Nothing the writer does disturbs it.
LEMMA WriterStepKeeps ==
    ASSUME ReaderInv, WriteValue \/ WriteText \/ WriteColumn \/ Flush \/ WriteGarbage \/ Close
    PROVE  ReaderInv'
<1>1. CASE WriteValue
    <2> PICK k \in Kinds : \E v \in Values[k] : Write(k, v, Encode(k, v)) BY <1>1 DEF WriteValue
    <2> PICK v \in Values[k] : Write(k, v, Encode(k, v)) OBVIOUS
    <2>1. v \in ValuesOf[k] BY ValuesAssumption
    <2>2. Encode(k, v) \in Seq(Byte) BY <2>1, EncodeSeq
    <2> QED BY <2>2, WriteKeeps
<1>2. CASE WriteText
    <2> PICK v \in Values["string"] : Write("string", v, Encode("string", CString(v)))
        BY <1>2 DEF WriteText
    <2>1. "string" \in Kinds /\ ValuesOf["string"] = Seq(Byte) BY DEF Kinds, ValuesOf
    <2>2. CString(v) \in ValuesOf["string"] BY <2>1, ValuesAssumption, CStringSeq
    <2>3. Encode("string", CString(v)) \in Seq(Byte) BY <2>1, <2>2, EncodeSeq
    <2> QED BY <2>3, WriteKeeps
<1>3. CASE WriteColumn
    <2> PICK v \in Stored : Write("int32", v, Encode("int32", sqlite3_column_int(v)))
        BY <1>3 DEF WriteColumn
    <2> DEFINE w == sqlite3_column_int(v)
    <2>1. v \in Int BY StoredAssumption, Powers64 DEF Int64
    <2>2. v % Word32 \in 0..(Word32 - 1) BY <2>1, Powers, DivModBasics
    <2>3. w \in Int BY <2>2, Powers DEF sqlite3_column_int, Signed
    <2>4. Encode("int32", w) = Split32(w)
        <3> HIDE DEF w
        <3> QED BY DEF Encode
    <2>5. Split32(w) \in Seq(Byte)
        <3> HIDE DEF w
        <3> QED BY <2>3, Split32Seq
    <2> QED BY <2>4, <2>5, WriteKeeps
<1>4. CASE Flush
    <2> DEFINE h == Split32(Len(wbuf))
    <2>1. /\ stdin' = (stdin \o h) \o wbuf /\ wbuf' = <<>> /\ UNCHANGED <<open, honest>>
          /\ UNCHANGED readerVars
        BY <1>4 DEF Flush
    <2>2. Len(wbuf) \in Int BY LenProperties DEF ReaderInv, TypeOK
    <2>3. h \in Seq(Byte) BY <2>2, Split32Seq
    <2>4. stdin \in Seq(Byte) /\ wbuf \in Seq(Byte) BY DEF ReaderInv, TypeOK
    <2> HIDE DEF h
    <2>5. stdin \o h \in Seq(Byte) BY <2>3, <2>4, ConcatProperties
    <2>6. stdin' \in Seq(Byte) BY <2>1, <2>4, <2>5, ConcatProperties
    <2>7. TypeOK' BY <2>1, <2>6, EmptySeq DEF ReaderInv, TypeOK, readerVars
    <2> QED BY <2>1, <2>7, WriterKeeps
<1>5. CASE WriteGarbage
    <2> PICK bytes \in Garbage : stdin' = stdin \o bytes BY <1>5 DEF WriteGarbage
    <2>1. honest' = FALSE /\ UNCHANGED <<wbuf, open>> /\ UNCHANGED readerVars
        BY <1>5 DEF WriteGarbage
    <2>2. stdin' \in Seq(Byte) BY GarbageAssumption, ConcatProperties DEF ReaderInv, TypeOK
    <2>3. TypeOK' BY <2>1, <2>2 DEF ReaderInv, TypeOK, readerVars
    <2> QED BY <2>1, <2>3, WriterKeeps
<1>6. CASE Close
    <2>1. open' = FALSE /\ UNCHANGED <<wbuf, stdin, honest>> /\ UNCHANGED readerVars
        BY <1>6 DEF Close
    <2>2. TypeOK' BY <2>1 DEF ReaderInv, TypeOK, readerVars
    <2> QED BY <2>1, <2>2, WriterKeeps
<1> QED BY <1>1, <1>2, <1>3, <1>4, <1>5, <1>6

\* Every step keeps it.
LEMMA NextReaderInv == ReaderInv /\ [Next]_vars => ReaderInv'
<1> SUFFICES ASSUME ReaderInv, [Next]_vars PROVE ReaderInv' OBVIOUS
<1>1. CASE WriteValue \/ WriteText \/ WriteColumn \/ Flush \/ WriteGarbage \/ Close
    BY <1>1, WriterStepKeeps
<1>2. CASE ReadFrame BY <1>2, ReadFrameKeeps
<1>3. ASSUME Die PROVE ReaderInv'
    BY <1>3 DEF Die, writerVars, ReaderInv, TypeOK, InBounds, NothingSkipped
<1>4. CASE BadLength \/ EndOfInput \/ \E k \in Kinds : ReadFails(k)
    BY <1>3, <1>4 DEF BadLength, EndOfInput, ReadFails
<1>5. CASE Read BY <1>5, ReadFixedKeeps, ReadBlobKeeps, SizeIs DEF Read
<1>6. CASE UNCHANGED vars
    BY <1>6 DEF vars, ReaderInv, TypeOK, InBounds, NothingSkipped
<1> QED BY <1>1, <1>2, <1>4, <1>5, <1>6 DEF Next, Done

\* So it always holds.
LEMMA AlwaysReaderInv == Spec => []ReaderInv
BY InitReaderInv, NextReaderInv, PTL DEF Spec

\* The buffers hold bytes.
THEOREM ReaderTypeOK == Spec => []TypeOK
<1>1. ReaderInv => TypeOK BY DEF ReaderInv
<1> QED BY <1>1, AlwaysReaderInv, PTL

\* Whatever a client sends, no Reader_read function of src/lib/io.c looks
\* beyond the frame in its buffer.
THEOREM ReaderInBounds == Spec => []InBounds
<1>1. ReaderInv => InBounds BY DEF ReaderInv
<1> QED BY <1>1, AlwaysReaderInv, PTL

\* Whatever a client sends, the values read are, byte for byte, the frames.
THEOREM ReaderNothingSkipped == Spec => []NothingSkipped
<1>1. ReaderInv => NothingSkipped BY DEF ReaderInv
<1> QED BY <1>1, AlwaysReaderInv, PTL

-----------------------------------------------------------------------------
\* A value of fixed size is read as it was written.

\* The bytes of a value of fixed size.
LEMMA EncodeFixed ==
    ASSUME NEW k \in FixedKinds, NEW v \in ValuesOf[k]
    PROVE  /\ Encode(k, v) \in Seq(Byte) /\ Len(Encode(k, v)) = Size[k]
           /\ Decode(k, Encode(k, v)) = v
<1>1. CASE k = "byte"
    <2>1. v \in (-HalfBase)..(HalfBase - 1) BY <1>1 DEF ValuesOf, Kinds
    <2> DEFINE u == v % Base
    <2>2. u \in Byte BY <2>1, HalfBaseAssumption, BaseNat, DivModBasics DEF Byte
    <2>3. Signed(u, HalfBase) = v BY <2>1, SignedOfRemainder, HalfBaseAssumption DEF Base
    <2>4. Encode(k, v) = <<u>> BY <1>1 DEF Encode
    <2> HIDE DEF u
    <2>5. <<u>> \in Seq(Byte) /\ Len(<<u>>) = 1 /\ <<u>>[1] = u BY <2>2
    <2>6. Decode(k, <<u>>) = Signed(u, HalfBase) BY <1>1, <2>5 DEF Decode
    <2> QED BY <1>1, <2>3, <2>4, <2>5, <2>6, SizeIs
<1>2. CASE k = "int32"
    <2>1. v \in Int32 BY <1>2 DEF ValuesOf, Kinds
    <2>2. v \in Int BY <2>1, Powers DEF Int32
    <2>3. Encode(k, v) = Split32(v) BY <1>2 DEF Encode
    <2> QED BY <1>2, <2>1, <2>2, <2>3, Split32Seq, Int32RoundTrip, SizeIs
<1>3. CASE k = "int64"
    <2>1. v \in Int64 BY <1>3 DEF ValuesOf, Kinds
    <2>2. v \in Int BY <2>1, Powers64 DEF Int64
    <2> DEFINE b == Split64(v)
    <2>3. Encode(k, v) = b BY <1>3 DEF Encode
    <2>4. b \in [1..8 -> Byte] BY <2>2, JoinSplit64
    <2> HIDE DEF b
    <2> DEFINE n == 8
    <2>5. b \in [1..n -> Byte] /\ n \in Nat BY <2>4
    <2> HIDE DEF n
    <2>6. b \in Seq(Byte) /\ Len(b) = n BY <2>5, Block
    <2> QED BY <1>3, <2>1, <2>3, <2>6, Int64RoundTrip, SizeIs DEF n
<1>4. CASE k = "double"
    <2>1. v \in [1..8 -> Byte] BY <1>4 DEF ValuesOf, Kinds
    <2> DEFINE n == 8
    <2>2. v \in [1..n -> Byte] /\ n \in Nat BY <2>1
    <2>3. v \in Seq(Byte) /\ Len(v) = n
        <3> HIDE DEF n
        <3> QED BY <2>2, Block
    <2> QED BY <1>4, <2>3, ReverseSeq, SizeIs DEF Encode, Decode
<1> QED BY <1>1, <1>2, <1>3, <1>4 DEF FixedKinds

-----------------------------------------------------------------------------
\* Strings.

\* strlen counts the bytes before the first that is zero.
LEMMA StrlenIs ==
    ASSUME NEW b \in Seq(Byte), NEW n \in 0..Len(b), \A j \in 1..n : b[j] # 0,
           n < Len(b) => b[n + 1] = 0
    PROVE  strlen(b) = n
<1> DEFINE P == {i \in DOMAIN b : \A j \in 1..i : b[j] # 0}
<1>1. DOMAIN b = 1..Len(b) /\ Len(b) \in Nat BY LenProperties
<1>2. P = 1..n
    <2>1. ASSUME NEW i \in 1..n PROVE i \in P BY <1>1
    <2>2. ASSUME NEW i \in P PROVE i \in 1..n
        <3>1. i \in 1..Len(b) /\ \A j \in 1..i : b[j] # 0 BY <1>1
        <3>2. CASE i > n
            <4>1. n + 1 \in 1..i /\ n < Len(b) BY <1>1, <3>1, <3>2
            <4> QED BY <3>1, <4>1
        <3> QED BY <3>1, <3>2
    <2> QED BY <2>1, <2>2
<1>3. n \in Nat BY <1>1
<1>4. Cardinality(1..n) = n
    <2>1. Cardinality(1..n) = IF 1 > n THEN 0 ELSE n - 1 + 1 BY <1>3, FS_Interval
    <2> QED BY <1>3, <2>1
<1> QED BY <1>2, <1>4 DEF strlen

\* There are such bytes.
LEMMA Strlen ==
    ASSUME NEW b \in Seq(Byte)
    PROVE  /\ strlen(b) \in 0..Len(b) /\ \A j \in 1..strlen(b) : b[j] # 0
           /\ strlen(b) < Len(b) => b[strlen(b) + 1] = 0
<1> DEFINE Z == {n \in 0..Len(b) : n = Len(b) \/ b[n + 1] = 0}
<1>1. Len(b) \in Nat BY LenProperties
<1>2. Z \subseteq Nat /\ Len(b) \in Z BY <1>1
<1>3. PICK n \in Z : \A m \in Z : n <= m
    <2> HIDE DEF Z
    <2> QED BY <1>2, Least
<1>4. n \in 0..Len(b) /\ (n < Len(b) => b[n + 1] = 0) BY <1>1
<1>5. ASSUME NEW j \in 1..n PROVE b[j] # 0
    <2>1. j - 1 \in 0..Len(b) /\ (j - 1) + 1 = j /\ ~(n <= j - 1) BY <1>1, <1>4
    <2>2. j - 1 \notin Z
        <3> HIDE DEF Z
        <3> QED BY <1>3, <2>1
    <2> QED BY <2>1, <2>2
<1> HIDE DEF Z
<1>6. strlen(b) = n BY <1>4, <1>5, StrlenIs
<1> QED BY <1>4, <1>5, <1>6

\* The bytes of a string.
LEMMA CStringIs ==
    ASSUME NEW b \in Seq(Byte)
    PROVE  /\ CString(b) \in Seq(Byte) /\ Len(CString(b)) = strlen(b)
           /\ \A i \in 1..strlen(b) : CString(b)[i] = b[i]
<1> DEFINE n == strlen(b)
<1>1. n \in 0..Len(b) /\ Len(b) \in Nat BY Strlen, LenProperties
<1>2. \A i \in 1..Len(b) : b[i] \in Byte BY ElementOfSeq
<1>3. CString(b) = SubSeq(b, 1, n) BY DEF CString
<1> HIDE DEF n
<1>4. \A i \in 1..n : b[i] \in Byte BY <1>1, <1>2
<1> DEFINE c == SubSeq(b, 1, n)
<1>5. /\ c \in Seq(Byte) /\ Len(c) = IF 1 <= n THEN n - 1 + 1 ELSE 0
      /\ \A i \in 1..(n - 1 + 1) : c[i] = b[1 + i - 1]
    BY <1>1, <1>4, SubSeqProperties
<1> HIDE DEF c
<1>6. Len(c) = n /\ \A i \in 1..n : c[i] = b[i] BY <1>1, <1>5
<1> QED BY <1>3, <1>5, <1>6 DEF c, n

\* Bytes that agree up to the first zero are the same string.
LEMMA SameString ==
    ASSUME NEW b \in Seq(Byte), NEW c \in Seq(Byte), strlen(b) <= Len(c),
           \A i \in 1..strlen(b) : c[i] = b[i],
           strlen(b) < Len(c) => c[strlen(b) + 1] = 0
    PROVE  CString(c) = CString(b)
<1> DEFINE n == strlen(b)
<1>1. n \in 0..Len(b) /\ Len(b) \in Nat /\ Len(c) \in Nat BY Strlen, LenProperties
<1>2. \A i \in 1..n : b[i] # 0 BY Strlen
<1>3. n <= Len(c) /\ (\A i \in 1..n : c[i] = b[i]) /\ (n < Len(c) => c[n + 1] = 0)
    OBVIOUS
<1>4. strlen(c) = n
    <2> HIDE DEF n
    <2>1. n \in 0..Len(c) /\ \A i \in 1..n : c[i] # 0 BY <1>1, <1>2, <1>3
    <2> QED BY <1>3, <2>1, StrlenIs
<1> DEFINE x == CString(c)
<1> DEFINE y == CString(b)
<1>5. x \in Seq(Byte) /\ Len(x) = n /\ \A i \in 1..n : x[i] = c[i] BY <1>4, CStringIs
<1>6. y \in Seq(Byte) /\ Len(y) = n /\ \A i \in 1..n : y[i] = b[i] BY CStringIs
<1> HIDE DEF n, x, y
<1>7. \A i \in 1..n : x[i] = y[i] BY <1>3, <1>5, <1>6
<1>8. x = y BY <1>5, <1>6, <1>7, SeqEqual
<1> QED BY <1>8 DEF x, y

\* A string, or any bytes, with a zero at the end is the same string.
LEMMA Terminate ==
    ASSUME NEW b \in Seq(Byte)
    PROVE  /\ Append(b, 0) \in Seq(Byte) /\ Len(Append(b, 0)) = Len(b) + 1
           /\ Append(b, 0)[Len(b) + 1] = 0
           /\ CString(Append(b, 0)) = CString(b)
<1> DEFINE c == Append(b, 0)
<1> DEFINE n == strlen(b)
<1>1. Len(b) \in Nat BY LenProperties
<1>2. /\ c \in Seq(Byte) /\ Len(c) = Len(b) + 1 /\ c[Len(b) + 1] = 0
      /\ \A i \in 1..Len(b) : c[i] = b[i]
    BY ZeroIsByte, AppendProperties
<1>3. n \in 0..Len(b) /\ (n < Len(b) => b[n + 1] = 0) BY Strlen
<1> HIDE DEF c
<1>4. /\ n <= Len(c) /\ \A i \in 1..n : c[i] = b[i]
      /\ n < Len(c) => c[n + 1] = 0
    <2> HIDE DEF n
    <2> QED BY <1>1, <1>2, <1>3
<1>5. CString(c) = CString(b) BY <1>2, <1>4, SameString
<1> QED BY <1>2, <1>5 DEF c

\* Taking the string of bytes once more changes nothing.
LEMMA CStringTwice == ASSUME NEW b \in Seq(Byte) PROVE CString(CString(b)) = CString(b)
<1> DEFINE c == CString(b)
<1> DEFINE n == strlen(b)
<1>1. c \in Seq(Byte) /\ Len(c) = n /\ \A i \in 1..n : c[i] = b[i] BY CStringIs
<1>2. n \in Nat BY Strlen, LenProperties
<1> HIDE DEF c
<1>3. n <= Len(c) /\ (n < Len(c) => c[n + 1] = 0)
    <2> HIDE DEF n
    <2> QED BY <1>1, <1>2
<1>4. CString(c) = CString(b) BY <1>1, <1>3, SameString
<1> QED BY <1>4 DEF c

-----------------------------------------------------------------------------
\* What is on its way from the writer to the Reader.

Value == [k : Kinds, v : UNION {ValuesOf[k] : k \in Kinds}]

\* The bytes b were written for the value x.
Carries(b, x) ==
    /\ x.k = "string" => x.v \in Seq(Byte)
    /\ \E v \in ValuesOf[x.k] :
          /\ b = Encode(x.k, v)
          /\ \/ v = x.v
             \/ x.k = "string" /\ v = CString(x.v)
             \/ x.k = "int32" /\ x.v \in Int64 /\ v = sqlite3_column_int(x.v)

\* The values written and not read are, as bytes, first those of front, in the
\* Reader's buffer, then those of each of the frames in the pipe, and then those
\* of back, in the Writer's buffer.
InFlight(front, frames, pipe, back) ==
    /\ front \in Seq(Seq(Byte)) /\ back \in Seq(Seq(Byte))
    /\ frames \in Seq(Seq(Seq(Byte))) /\ pipe \in Seq(Seq(Byte))
    /\ Unread = FlattenSeq(front) /\ wbuf = FlattenSeq(back) /\ stdin = FlattenSeq(pipe)
    /\ Len(pipe) = Len(frames)
    /\ \A i \in 1..Len(frames) :
          /\ pipe[i] = Prefixed(FlattenSeq(frames[i]))
          /\ Len(FlattenSeq(frames[i])) \in 1..MaxLen

\* They are the values sent after those that were read.
Carried(codes) ==
    /\ Len(sent) = Len(got) + Len(codes)
    /\ \A i \in 1..Len(codes) : Carries(codes[i], sent[Len(got) + i])

AllCodes(front, frames, back) == (front \o FlattenSeq(frames)) \o back

StreamInv ==
    honest =>
      /\ sent \in Seq(Value) /\ got \in Seq(Value) /\ Len(buf) <= MaxLen
      /\ open => pc = "run"
      /\ \A i \in 1..Len(got) : ArrivesAs(sent[i], got[i])
      /\ \E front, frames, pipe, back :
            InFlight(front, frames, pipe, back) /\ Carried(AllCodes(front, frames, back))

\* _growWriter of src/lib/io.c fails an ASSERT before a buffer exceeds MAX_LEN.
FramesFit == Len(wbuf) <= MaxLen

-----------------------------------------------------------------------------
\* What arrives.

\* A value of fixed size is read from as many bytes as it has.
LEMMA FixedArrives ==
    ASSUME NEW x \in Value, x.k \in FixedKinds, NEW b, Carries(b, x)
    PROVE  /\ b \in Seq(Byte) /\ Len(b) = Size[x.k] /\ Len(b) # 0
           /\ [k |-> x.k, v |-> Decode(x.k, b)] \in Value
           /\ ArrivesAs(x, [k |-> x.k, v |-> Decode(x.k, b)])
<1> DEFINE k == x.k
<1>1. PICK v \in ValuesOf[k] :
        /\ b = Encode(k, v)
        /\ v = x.v \/ k = "string" \/ (k = "int32" /\ x.v \in Int64 /\ v = sqlite3_column_int(x.v))
    BY DEF Carries
<1>2. b \in Seq(Byte) /\ Len(b) = Size[k] /\ Decode(k, b) = v
    <2> HIDE DEF k
    <2> QED BY <1>1, EncodeFixed DEF k
<1>3. Size[k] # 0 BY SizeIs DEF FixedKinds
<1> DEFINE y == [k |-> k, v |-> v]
<1>4. k \in Kinds /\ k # "string" /\ k # "blob" BY DEF FixedKinds, Kinds
<1>5. y \in Value /\ y.k = x.k /\ y.v = v BY <1>4 DEF Value
<1>6. CASE k # "int32"
    <2> HIDE DEF y
    <2> QED BY <1>1, <1>2, <1>3, <1>4, <1>5, <1>6 DEF ArrivesAs, y
<1>7. CASE k = "int32"
    <2>1. v \in Int32 BY <1>1, <1>7 DEF ValuesOf, Kinds
    <2>2. v \in Int BY <2>1, Powers DEF Int32
    <2>3. CASE v = x.v
        <3> DEFINE d == v - x.v
        <3>1. d = 0
            <4> DEFINE w == x.v
            <4>1. w = v BY <2>3
            <4> HIDE DEF w
            <4> QED BY <2>2, <4>1 DEF w
        <3>2. d % Word32 = 0
            <4> HIDE DEF d
            <4>1. d = 0 * Word32 + 0 BY <3>1, Powers
            <4> QED BY <4>1, DivModUnique, Powers
        <3> HIDE DEF y
        <3> QED BY <1>2, <1>3, <1>5, <1>7, <2>1, <2>3, <3>2 DEF ArrivesAs, y
    <2>4. CASE v # x.v
        <3> DEFINE w == x.v
        <3>1. w \in Int64 /\ v = sqlite3_column_int(w) BY <1>1, <1>4, <2>4
        <3>2. w \in Int BY <3>1, Powers64 DEF Int64
        <3> HIDE DEF w
        <3> DEFINE u == w % Word32
        <3> DEFINE q == w \div Word32
        <3>3. u \in 0..(Word32 - 1) /\ q \in Int /\ w = q * Word32 + u
            BY <3>2, Powers, DivModBasics
        <3> DEFINE p == v \div Word32
        <3>4. v % Word32 = u
            <4>1. v = Signed(u, Half32) BY <3>1 DEF sqlite3_column_int
            <4> HIDE DEF u
            <4> QED BY <3>3, <4>1, RemainderOfSigned, Powers
        <3> DEFINE r == v % Word32
        <3>5. p \in Int /\ v = p * Word32 + r BY <2>2, Powers, DivModBasics
        <3>5a. r = u BY <3>4
        <3>6. v - w = (p - q) * Word32 + 0
            <4> HIDE DEF u, q, p, r
            <4> QED BY <3>2, <2>2, <3>3, <3>5, <3>5a, Powers
        <3>7. (v - w) % Word32 = 0
            <4> DEFINE d == p - q
            <4>1. d \in Int /\ v - w = d * Word32 + 0 BY <3>3, <3>5, <3>6
            <4> HIDE DEF d
            <4>2. (d * Word32 + 0) % Word32 = 0 BY <4>1, DivModUnique, Powers
            <4> QED BY <4>1, <4>2
        <3>8. w \in Int32 => v = w BY <3>1, ColumnIntExact
        <3> HIDE DEF y, u, q, p, r
        <3> QED BY <1>2, <1>3, <1>5, <1>7, <2>1, <3>7, <3>8 DEF ArrivesAs, y, w
    <2> QED BY <2>3, <2>4
<1> QED BY <1>6, <1>7

\* A string or blob is read from its length and the bytes that follow.
LEMMA BlobArrives ==
    ASSUME NEW x \in Value, x.k \in {"string", "blob"}, NEW b, Carries(b, x)
    PROVE  \E u \in Seq(Byte) :
              /\ b = Split32(Len(u)) \o u
              /\ x.k = "string" => Len(u) # 0 /\ u[Len(u)] = 0
              /\ [k |-> x.k, v |-> u] \in Value
              /\ ArrivesAs(x, [k |-> x.k, v |-> u])
<1>1. CASE x.k = "string"
    <2>1. PICK v \in ValuesOf[x.k] : b = Encode("string", v) /\ (v = x.v \/ v = CString(x.v))
        BY <1>1 DEF Carries
    <2> DEFINE s == x.v
    <2>2. v \in Seq(Byte) /\ s \in Seq(Byte) BY <1>1 DEF ValuesOf, Kinds, Carries
    <2> DEFINE u == Append(v, 0)
    <2>3. /\ u \in Seq(Byte) /\ Len(u) = Len(v) + 1 /\ u[Len(v) + 1] = 0
          /\ CString(u) = CString(v)
        BY <2>2, Terminate
    <2>4. CString(v) = CString(s) BY <2>1, <2>2, CStringTwice
    <2>5. b = Split32(Len(u)) \o u BY <2>1 DEF Encode, Prefixed
    <2> HIDE DEF u
    <2> DEFINE y == [k |-> x.k, v |-> u]
    <2>6. ValuesOf["string"] = Seq(Byte) BY DEF ValuesOf, Kinds
    <2>7. y \in Value /\ y.k = "string" /\ y.v = u BY <1>1, <2>3, <2>6 DEF Value, Kinds
    <2>8. Len(v) \in Nat /\ Len(u) # 0 /\ u # <<>> BY <2>2, <2>3, LenProperties, EmptySeq
    <2> HIDE DEF y
    <2>9. ArrivesAs(x, y) BY <1>1, <2>3, <2>4, <2>7, <2>8 DEF ArrivesAs
    <2> QED BY <1>1, <2>3, <2>5, <2>7, <2>8, <2>9 DEF y
<1>2. CASE x.k = "blob"
    <2>1. PICK v \in ValuesOf[x.k] : b = Encode("blob", v) /\ v = x.v
        BY <1>2 DEF Carries
    <2>2. ValuesOf["blob"] = Seq(Byte) BY DEF ValuesOf, Kinds
    <2>3. v \in Seq(Byte) BY <1>2, <2>2
    <2>4. b = Split32(Len(v)) \o v BY <2>1 DEF Encode, Prefixed
    <2> DEFINE y == [k |-> x.k, v |-> v]
    <2>5. y \in Value /\ y.k = "blob" /\ y.v = v BY <1>2, <2>3, <2>2 DEF Value, Kinds
    <2> HIDE DEF y
    <2>6. ArrivesAs(x, y) BY <1>2, <2>1, <2>5 DEF ArrivesAs
    <2> QED BY <1>2, <2>3, <2>4, <2>5, <2>6 DEF y
<1> QED BY <1>1, <1>2

\* A length is read as it was written, up to MAX_LEN.
LEMMA LengthArrives ==
    ASSUME NEW n \in 0..MaxLen
    PROVE  /\ Join32(Split32(n)) = n
           /\ SizeT(Decode("int32", Split32(n))) = n
<1>1. Half32 \in Nat \ {0} /\ Word32 = 2 * Half32 BY Powers
<1>2. n \in Int32 /\ n \in 0..(Word32 - 1) /\ n >= 0 BY <1>1 DEF MaxLen, Int32
<1>3. n \in Int BY <1>2, Powers
<1>4. Join32(Split32(n)) = n % Word32 BY <1>3, JoinSplit
<1>5. n % Word32 = n
    <2>1. n = 0 * Word32 + n BY <1>1, <1>3
    <2> QED BY <1>2, <2>1, Powers, DivModUnique
<1>6. Encode("int32", n) = Split32(n) BY DEF Encode
<1>7. Decode("int32", Split32(n)) = n BY <1>2, <1>6, Int32RoundTrip
<1> QED BY <1>2, <1>3, <1>4, <1>5, <1>7 DEF SizeT

\* Every value takes bytes.
LEMMA CarriesBytes ==
    ASSUME NEW x \in Value, NEW b, Carries(b, x)
    PROVE  b \in Seq(Byte) /\ b # <<>>
<1>1. CASE x.k \in FixedKinds BY <1>1, FixedArrives, EmptySeq
<1>2. CASE x.k \in {"string", "blob"}
    <2>1. PICK u \in Seq(Byte) : b = Split32(Len(u)) \o u BY <1>2, BlobArrives
    <2> DEFINE h == Split32(Len(u))
    <2>2. Len(u) \in Int /\ Len(u) >= 0 BY LenProperties
    <2>3. h \in Seq(Byte) /\ Len(h) = 4 BY <2>2, Split32Seq
    <2> HIDE DEF h
    <2>4. b \in Seq(Byte) /\ Len(b) = Len(h) + Len(u) BY <2>1, <2>3, ConcatProperties DEF h
    <2> QED BY <2>2, <2>3, <2>4, EmptySeq
<1>3. x.k \in Kinds BY DEF Value
<1> QED BY <1>1, <1>2, <1>3 DEF Kinds, FixedKinds

-----------------------------------------------------------------------------
\* Sequences that are put together from others.

\* Two ways to divide a sequence at one place are the same.
LEMMA SameDivision ==
    ASSUME NEW S, NEW s \in Seq(S), NEW t \in Seq(S), NEW u \in Seq(S), NEW v \in Seq(S),
           s \o t = u \o v, Len(s) = Len(u)
    PROVE  s = u /\ t = v
<1> DEFINE x == s \o t
<1> DEFINE y == u \o v
<1>1. /\ Len(s) \in Nat /\ Len(t) \in Nat /\ Len(u) \in Nat /\ Len(v) \in Nat
    BY LenProperties
<1>2. /\ x \in Seq(S) /\ Len(x) = Len(s) + Len(t)
      /\ \A i \in 1..Len(s) + Len(t) : x[i] = IF i <= Len(s) THEN s[i] ELSE t[i - Len(s)]
    BY ConcatProperties
<1>3. /\ y \in Seq(S) /\ Len(y) = Len(u) + Len(v)
      /\ \A i \in 1..Len(u) + Len(v) : y[i] = IF i <= Len(u) THEN u[i] ELSE v[i - Len(u)]
    BY ConcatProperties
<1>4. x = y OBVIOUS
<1> HIDE DEF x, y
<1>5. Len(t) = Len(v) BY <1>1, <1>2, <1>3, <1>4
<1>6. ASSUME NEW i \in 1..Len(s) PROVE s[i] = u[i]
    <2>1. i \in 1..Len(s) + Len(t) /\ i \in 1..Len(u) + Len(v) /\ i <= Len(s) /\ i <= Len(u)
        BY <1>1
    <2> QED BY <1>2, <1>3, <1>4, <2>1
<1>7. ASSUME NEW i \in 1..Len(t) PROVE t[i] = v[i]
    <2> DEFINE j == i + Len(s)
    <2>1. /\ j \in 1..Len(s) + Len(t) /\ j \in 1..Len(u) + Len(v) /\ ~(j <= Len(s))
          /\ ~(j <= Len(u)) /\ j - Len(s) = i /\ j - Len(u) = i
        BY <1>1, <1>5
    <2> HIDE DEF j
    <2> QED BY <1>2, <1>3, <1>4, <2>1
<1> QED BY <1>5, <1>6, <1>7, SeqEqual

\* Three sequences are put together in any order.
LEMMA Regroup ==
    ASSUME NEW S
    PROVE  \A h, t, c \in Seq(S) : (h \o t) \o c = h \o (t \o c)
BY ConcatAssociative, SMTT(60)

\* A first piece.
LEMMA FirstOf ==
    ASSUME NEW S, NEW a \in Seq(S), a # <<>>
    PROVE  /\ Head(a) \in S /\ <<Head(a)>> \in Seq(S) /\ Tail(a) \in Seq(S)
           /\ a = <<Head(a)>> \o Tail(a)
<1>1. Head(a) \in S /\ Tail(a) \in Seq(S) BY HeadTailProperties
<1>2. \A e \in S : <<e>> \in Seq(S) OBVIOUS
<1> QED BY <1>1, <1>2, HeadTailConcat

\* \o by a name, for steps that need only that it is associative.
Cat(s, t) == s \o t

\* It is.
LEMMA CatRegroup ==
    ASSUME NEW S
    PROVE  \A x, y, z \in Seq(S) : Cat(Cat(x, y), z) = Cat(x, Cat(y, z))
BY ConcatAssociative, SMTT(60) DEF Cat

\* The pieces after the first are regrouped.
LEMMA RegroupFirst ==
    ASSUME NEW S, NEW h \in Seq(S), NEW t \in Seq(S), NEW g \in Seq(S), NEW c \in Seq(S)
    PROVE  Cat(Cat(Cat(h, t), g), c) = Cat(h, Cat(Cat(t, g), c))
<1>1. \A x, y, z \in Seq(S) : Cat(Cat(x, y), z) = Cat(x, Cat(y, z)) BY CatRegroup
<1>2. \A x, y \in Seq(S) : Cat(x, y) \in Seq(S) BY ConcatProperties DEF Cat
<1>3. Cat(Cat(h, t), g) = Cat(h, Cat(t, g)) BY <1>1
<1>4. Cat(Cat(h, Cat(t, g)), c) = Cat(h, Cat(Cat(t, g), c)) BY <1>1, <1>2
<1> QED BY <1>3, <1>4

\* A sequence before others is its first element, then the rest.
LEMMA FirstPiece ==
    ASSUME NEW S, NEW a \in Seq(S), NEW g \in Seq(S), NEW c \in Seq(S)
    PROVE  a # <<>> => (a \o g) \o c = <<Head(a)>> \o ((Tail(a) \o g) \o c)
<1> SUFFICES ASSUME a # <<>>
             PROVE  Cat(Cat(a, g), c) = Cat(<<Head(a)>>, Cat(Cat(Tail(a), g), c))
    BY DEF Cat
<1>1. PICK h \in Seq(S), t \in Seq(S) : h = <<Head(a)>> /\ t = Tail(a) BY FirstOf
<1>2. a = Cat(h, t) BY <1>1, FirstOf DEF Cat
<1>3. Cat(Cat(Cat(h, t), g), c) = Cat(h, Cat(Cat(t, g), c)) BY RegroupFirst
<1> QED BY <1>1, <1>2, <1>3

\* The elements of what comes after the first.
LEMMA ElementsAfterFirst ==
    ASSUME NEW S, NEW e \in S, NEW t \in Seq(S)
    PROVE  /\ <<e>> \o t \in Seq(S) /\ Len(<<e>> \o t) = Len(t) + 1
           /\ (<<e>> \o t)[1] = e
           /\ \A i \in 1..Len(t) : (<<e>> \o t)[i + 1] = t[i]
<1> DEFINE h == <<e>>
<1> DEFINE z == h \o t
<1>1. h \in Seq(S) /\ Len(h) = 1 /\ h[1] = e OBVIOUS
<1>2. Len(t) \in Nat BY LenProperties
<1> HIDE DEF h
<1>3. /\ z \in Seq(S) /\ Len(z) = Len(h) + Len(t)
      /\ \A i \in 1..Len(h) + Len(t) : z[i] = IF i <= Len(h) THEN h[i] ELSE t[i - Len(h)]
    BY <1>1, ConcatProperties
<1> HIDE DEF z
<1>4. z[1] = e /\ Len(z) = Len(t) + 1 BY <1>1, <1>2, <1>3
<1>5. ASSUME NEW i \in 1..Len(t) PROVE z[i + 1] = t[i]
    <2>1. i + 1 \in 1..Len(h) + Len(t) /\ ~(i + 1 <= Len(h)) /\ (i + 1) - Len(h) = i
        BY <1>1, <1>2
    <2> QED BY <1>3, <2>1
<1> QED BY <1>3, <1>4, <1>5 DEF z, h

\* An element more at the end of the second.
LEMMA LastOne ==
    ASSUME NEW S, NEW s \in Seq(S), NEW c \in Seq(S), NEW e \in S
    PROVE  s \o Append(c, e) = Append(s \o c, e)
<1> DEFINE l == <<e>>
<1>1. l \in Seq(S) OBVIOUS
<1>2. Append(c, e) = c \o l BY AppendOne
<1>3. \A d \in Seq(S) : (s \o c) \o d = s \o (c \o d) BY Regroup, SMTT(60)
<1> HIDE DEF l
<1>4. (s \o c) \o l = s \o (c \o l) BY <1>1, <1>3
<1> DEFINE sc == s \o c
<1>5. sc \in Seq(S) BY ConcatProperties
<1>6. Append(sc, e) = sc \o l
    <2> HIDE DEF sc
    <2> QED BY <1>5, AppendOne DEF l
<1> QED BY <1>2, <1>4, <1>6

\* A piece more at the end.
LEMMA LastPiece ==
    ASSUME NEW S, NEW a \in Seq(S), NEW g \in Seq(S), NEW c \in Seq(S), NEW e \in S
    PROVE  (a \o g) \o Append(c, e) = Append((a \o g) \o c, e)
<1> DEFINE ag == a \o g
<1>1. ag \in Seq(S) BY ConcatProperties
<1> HIDE DEF ag
<1>2. ag \o Append(c, e) = Append(ag \o c, e) BY <1>1, LastOne
<1> QED BY <1>2 DEF ag

\* The sequences that FlattenSeq puts together: the first, and the others.
LEMMA FlattenFirst ==
    ASSUME NEW S, NEW s \in Seq(Seq(S)), FlattenSeq(s) # <<>>
    PROVE  /\ s # <<>> /\ Head(s) \in Seq(S) /\ Tail(s) \in Seq(Seq(S))
           /\ FlattenSeq(Tail(s)) \in Seq(S)
           /\ FlattenSeq(s) = Head(s) \o FlattenSeq(Tail(s))
<1>1. s # <<>> BY FlattenEmpty
<1> DEFINE T == Seq(S)
<1>2. Head(s) \in T /\ Tail(s) \in Seq(T)
    <2>1. s \in Seq(T) OBVIOUS
    <2> HIDE DEF T
    <2> QED BY <1>1, <2>1, HeadTailProperties
<1>3. FlattenSeq(Tail(s)) \in Seq(S) BY <1>2, FlattenType
<1> QED BY <1>1, <1>2, <1>3, FlattenHeadTail

-----------------------------------------------------------------------------
\* The next value.

\* What two sequences make.
LEMMA TwoPieces ==
    ASSUME NEW T, NEW a \in Seq(T), NEW g \in Seq(T)
    PROVE  /\ a \o g \in Seq(T) /\ Len(a \o g) = Len(a) + Len(g)
           /\ \A i \in 1..Len(a) : (a \o g)[i] = a[i]
<1> DEFINE s == a \o g
<1>1. /\ s \in Seq(T) /\ Len(s) = Len(a) + Len(g)
      /\ \A i \in 1..Len(a) + Len(g) : s[i] = IF i <= Len(a) THEN a[i] ELSE g[i - Len(a)]
    BY ConcatProperties
<1>2. Len(a) \in Nat /\ Len(g) \in Nat BY LenProperties
<1> HIDE DEF s
<1>3. ASSUME NEW i \in 1..Len(a) PROVE s[i] = a[i]
    <2>1. i \in 1..Len(a) + Len(g) /\ i <= Len(a) BY <1>2
    <2> QED BY <1>1, <2>1
<1> QED BY <1>1, <1>3 DEF s

\* What three sequences make.
LEMMA ThreePieces ==
    ASSUME NEW T, NEW a \in Seq(T), NEW g \in Seq(T), NEW c \in Seq(T)
    PROVE  /\ (a \o g) \o c \in Seq(T) /\ Len((a \o g) \o c) = Len(a) + Len(g) + Len(c)
           /\ \A i \in 1..Len(a) : ((a \o g) \o c)[i] = a[i]
<1>1. PICK s \in Seq(T) :
        s = a \o g /\ Len(s) = Len(a) + Len(g) /\ \A i \in 1..Len(a) : s[i] = a[i]
    BY TwoPieces
<1>2. PICK z \in Seq(T) :
        z = s \o c /\ Len(z) = Len(s) + Len(c) /\ \A i \in 1..Len(s) : z[i] = s[i]
    BY TwoPieces
<1>3. Len(a) \in Nat /\ Len(g) \in Nat /\ Len(c) \in Nat BY LenProperties
<1>4. \A i \in 1..Len(a) : z[i] = a[i] BY <1>1, <1>2, <1>3
<1>5. Len(z) = Len(a) + Len(g) + Len(c) BY <1>1, <1>2, <1>3
<1> QED BY <1>1, <1>2, <1>4, <1>5

\* The codes in flight are sequences of bytes.
LEMMA AllCodesType ==
    ASSUME NEW front \in Seq(Seq(Byte)), NEW frames \in Seq(Seq(Seq(Byte))),
           NEW back \in Seq(Seq(Byte))
    PROVE  /\ FlattenSeq(frames) \in Seq(Seq(Byte))
           /\ AllCodes(front, frames, back) \in Seq(Seq(Byte))
           /\ Len(AllCodes(front, frames, back))
                = Len(front) + Len(FlattenSeq(frames)) + Len(back)
           /\ \A i \in 1..Len(front) : AllCodes(front, frames, back)[i] = front[i]
<1> DEFINE T == Seq(Byte)
<1>1. front \in Seq(T) /\ frames \in Seq(Seq(T)) /\ back \in Seq(T) OBVIOUS
<1> HIDE DEF T
<1>2. FlattenSeq(frames) \in Seq(T) BY <1>1, FlattenType
<1> DEFINE g == FlattenSeq(frames)
<1>3. g \in Seq(T) BY <1>2
<1> HIDE DEF g
<1>4. /\ (front \o g) \o back \in Seq(T)
      /\ Len((front \o g) \o back) = Len(front) + Len(g) + Len(back)
      /\ \A i \in 1..Len(front) : ((front \o g) \o back)[i] = front[i]
    BY <1>1, <1>3, ThreePieces
<1> QED BY <1>3, <1>4 DEF AllCodes, g, T

\* The first code in flight is the next value's, the others follow.
LEMMA NextCode ==
    ASSUME NEW front \in Seq(Seq(Byte)), NEW frames \in Seq(Seq(Seq(Byte))),
           NEW back \in Seq(Seq(Byte)), front # <<>>, got \in Seq(Value),
           Carried(AllCodes(front, frames, back))
    PROVE  /\ Len(got) + 1 \in 1..Len(sent)
           /\ Carries(Head(front), sent[Len(got) + 1])
           /\ Len(sent) = Len(got) + 1 + Len(AllCodes(Tail(front), frames, back))
           /\ \A i \in 1..Len(AllCodes(Tail(front), frames, back)) :
                 Carries(AllCodes(Tail(front), frames, back)[i], sent[Len(got) + 1 + i])
<1> DEFINE T == Seq(Byte)
<1> DEFINE n == Len(got)
<1>1. n \in Nat BY LenProperties
<1>2. front \in Seq(T) /\ back \in Seq(T) /\ FlattenSeq(frames) \in Seq(T)
    BY AllCodesType
<1> HIDE DEF T
<1>3. PICK e \in T : e = Head(front) BY <1>2, FirstOf
<1>4. Tail(front) \in Seq(T) BY <1>2, FirstOf
<1>5. PICK t \in Seq(T) : t = AllCodes(Tail(front), frames, back)
    BY <1>4, AllCodesType DEF T
<1>6. PICK z : z = AllCodes(front, frames, back) OBVIOUS
<1>7. z = <<e>> \o t BY <1>2, <1>3, <1>5, <1>6, FirstPiece, SMTT(60) DEF AllCodes
<1>8. Len(z) = Len(t) + 1 /\ z[1] = e /\ \A i \in 1..Len(t) : z[i + 1] = t[i]
    BY <1>7, ElementsAfterFirst
<1>9. Len(sent) = n + Len(z) /\ \A i \in 1..Len(z) : Carries(z[i], sent[n + i])
    BY <1>6 DEF Carried
<1>10. Len(t) \in Nat BY LenProperties
<1> HIDE DEF n
<1>11. Carries(e, sent[n + 1])
    <2>1. 1 \in 1..Len(z) BY <1>8, <1>10
    <2> QED BY <1>8, <1>9, <2>1
<1>12. ASSUME NEW i \in 1..Len(t) PROVE Carries(t[i], sent[n + 1 + i])
    <2>1. i + 1 \in 1..Len(z) /\ n + (i + 1) = n + 1 + i BY <1>1, <1>8, <1>10
    <2> QED BY <1>8, <1>9, <2>1
<1>13. Len(sent) = n + 1 + Len(t) /\ n + 1 \in 1..Len(sent) BY <1>1, <1>8, <1>9, <1>10
<1> QED BY <1>3, <1>5, <1>11, <1>12, <1>13 DEF n

\* What is left of the frame begins with the next value's code.
LEMMA NextUnread ==
    ASSUME ReaderInv, rp < Len(buf), got \in Seq(Value), sent \in Seq(Value),
           NEW front, NEW frames, NEW pipe, NEW back, InFlight(front, frames, pipe, back),
           Carried(AllCodes(front, frames, back))
    PROVE  \E b \in Seq(Byte), x \in Value :
              /\ front # <<>> /\ b = Head(front)
              /\ Len(got) + 1 \in 1..Len(sent) /\ x = sent[Len(got) + 1] /\ Carries(b, x)
              /\ rp + Len(b) <= Len(buf) /\ Bytes(rp, Len(b)) = b
              /\ SubSeq(buf, rp + Len(b) + 1, Len(buf)) = FlattenSeq(Tail(front))
<1>1. rp \in 0..Len(buf) /\ Len(buf) \in Nat /\ buf \in Seq(Byte)
    BY LenProperties DEF ReaderInv, TypeOK, InBounds
<1>2. front \in Seq(Seq(Byte)) /\ Unread = FlattenSeq(front) BY DEF InFlight
<1>3. Unread \in Seq(Byte) /\ Len(Unread) = Len(buf) - rp
    <2>1. \A i \in 1..Len(buf) : buf[i] \in Byte BY <1>1, ElementOfSeq
    <2> DEFINE m == rp + 1
    <2> DEFINE l == Len(buf)
    <2>2. m \in Int /\ l \in Int /\ \A i \in m..l : buf[i] \in Byte BY <1>1, <2>1
    <2>3. m <= l /\ l - m + 1 = l - rp BY <1>1
    <2> HIDE DEF m, l
    <2>4. /\ SubSeq(buf, m, l) \in Seq(Byte)
          /\ Len(SubSeq(buf, m, l)) = IF m <= l THEN l - m + 1 ELSE 0
        BY <2>2, SubSeqProperties
    <2> QED BY <2>3, <2>4 DEF Unread, m, l
<1>4. FlattenSeq(front) # <<>>
    <2>1. Len(Unread) # 0 BY <1>1, <1>3
    <2> QED BY <1>2, <1>3, <2>1, EmptySeq
<1>5. /\ front # <<>> /\ Head(front) \in Seq(Byte) /\ FlattenSeq(Tail(front)) \in Seq(Byte)
      /\ Unread = Head(front) \o FlattenSeq(Tail(front))
    BY <1>2, <1>4, FlattenFirst
<1>6. PICK b \in Seq(Byte) : b = Head(front) BY <1>5
<1>7. PICK r \in Seq(Byte) : r = FlattenSeq(Tail(front)) BY <1>5
<1>8. Unread = b \o r BY <1>5, <1>6, <1>7
<1>9. Len(b) \in Nat /\ rp + Len(b) <= Len(buf)
    <2>1. Len(Unread) = Len(b) + Len(r) BY <1>8, ConcatProperties
    <2>2. Len(b) \in Nat /\ Len(r) \in Nat BY LenProperties
    <2> QED BY <1>1, <1>3, <2>1, <2>2
<1> DEFINE n == Len(b)
<1>10. /\ Bytes(rp, n) = SubSeq(buf, rp + 1, rp + n)
       /\ Bytes(rp, n) \in Seq(Byte) /\ Len(Bytes(rp, n)) = n
       /\ SubSeq(buf, rp + n + 1, Len(buf)) \in Seq(Byte)
       /\ Unread = SubSeq(buf, rp + 1, rp + n) \o SubSeq(buf, rp + n + 1, Len(buf))
    <2>1. n \in Nat /\ rp + n <= Len(buf) BY <1>9
    <2> HIDE DEF n
    <2> QED BY <2>1, NextBytes
<1>11. Bytes(rp, n) = b /\ SubSeq(buf, rp + n + 1, Len(buf)) = r
    <2>1. PICK s \in Seq(Byte), t \in Seq(Byte) :
            s = Bytes(rp, n) /\ t = SubSeq(buf, rp + n + 1, Len(buf))
        BY <1>10
    <2>2. s \o t = b \o r /\ Len(s) = Len(b) BY <1>8, <1>10, <2>1
    <2>3. s = b /\ t = r BY <2>2, SameDivision
    <2> QED BY <2>1, <2>3
<1>12. Len(got) + 1 \in 1..Len(sent) /\ Carries(b, sent[Len(got) + 1])
    BY <1>5, <1>6, NextCode DEF InFlight
<1>13. sent[Len(got) + 1] \in Value
    <2>1. \A i \in 1..Len(sent) : sent[i] \in Value BY ElementOfSeq
    <2> QED BY <1>12, <2>1
<1> QED BY <1>5, <1>6, <1>7, <1>9, <1>11, <1>12, <1>13

-----------------------------------------------------------------------------
\* Reading.

\* The next value is in the buffer, and is read from there.
LEMMA NextValue ==
    ASSUME ReaderInv, StreamInv, honest, rp < Len(buf)
    PROVE  \E b \in Seq(Byte), x \in Value :
              /\ Len(got) + 1 \in 1..Len(sent) /\ x = sent[Len(got) + 1] /\ Carries(b, x)
              /\ rp + Len(b) <= Len(buf) /\ Bytes(rp, Len(b)) = b
              /\ \A v : /\ Consume(x.k, v, Len(b)) /\ [k |-> x.k, v |-> v] \in Value
                        /\ ArrivesAs(x, [k |-> x.k, v |-> v])
                        => StreamInv'
<1>1. /\ sent \in Seq(Value) /\ got \in Seq(Value) /\ Len(buf) <= MaxLen
      /\ open => pc = "run"
      /\ \A i \in 1..Len(got) : ArrivesAs(sent[i], got[i])
    BY DEF StreamInv
<1>2. PICK front, frames, pipe, back :
        InFlight(front, frames, pipe, back) /\ Carried(AllCodes(front, frames, back))
    BY DEF StreamInv
<1>3. PICK b \in Seq(Byte), x \in Value :
        /\ front # <<>> /\ b = Head(front)
        /\ Len(got) + 1 \in 1..Len(sent) /\ x = sent[Len(got) + 1] /\ Carries(b, x)
        /\ rp + Len(b) <= Len(buf) /\ Bytes(rp, Len(b)) = b
        /\ SubSeq(buf, rp + Len(b) + 1, Len(buf)) = FlattenSeq(Tail(front))
    BY <1>1, <1>2, NextUnread
<1>4. ASSUME NEW v, Consume(x.k, v, Len(b)), [k |-> x.k, v |-> v] \in Value,
             ArrivesAs(x, [k |-> x.k, v |-> v])
      PROVE  StreamInv'
    <2> DEFINE n == Len(got)
    <2> DEFINE y == [k |-> x.k, v |-> v]
    <2>1. /\ got' = Append(got, y) /\ rp' = rp + Len(b) /\ buf' = buf /\ stdin' = stdin
          /\ wbuf' = wbuf /\ open' = open /\ sent' = sent /\ honest' = honest /\ pc' = pc
        BY <1>4 DEF Consume, writerVars
    <2>2. y \in Value /\ ArrivesAs(sent[n + 1], y) BY <1>3, <1>4
    <2> HIDE DEF y
    <2>3. /\ got' \in Seq(Value) /\ Len(got') = n + 1 /\ got'[n + 1] = y
          /\ \A i \in 1..n : got'[i] = got[i]
        BY <1>1, <2>1, <2>2, AppendProperties
    <2>4. n \in Nat BY <1>1, LenProperties
    <2>5. ASSUME NEW i \in 1..Len(got') PROVE ArrivesAs(sent'[i], got'[i])
        <3>1. i \in 1..n \/ i = n + 1 BY <2>3, <2>4
        <3> QED BY <1>1, <2>1, <2>2, <2>3, <3>1
    <2>6. /\ front \in Seq(Seq(Byte)) /\ back \in Seq(Seq(Byte))
          /\ frames \in Seq(Seq(Seq(Byte)))
        BY <1>2 DEF InFlight
    <2>7. /\ Len(sent) = n + 1 + Len(AllCodes(Tail(front), frames, back))
          /\ \A i \in 1..Len(AllCodes(Tail(front), frames, back)) :
                Carries(AllCodes(Tail(front), frames, back)[i], sent[n + 1 + i])
        BY <1>1, <1>2, <1>3, <2>6, NextCode
    <2>8. Carried(AllCodes(Tail(front), frames, back))' BY <2>1, <2>3, <2>7 DEF Carried, AllCodes
    <2>9. Unread' = FlattenSeq(Tail(front)) BY <1>3, <2>1 DEF Unread
    <2>10. Tail(front) \in Seq(Seq(Byte)) BY <1>3, <2>6, FirstOf
    <2>11. InFlight(Tail(front), frames, pipe, back)'
        BY <1>2, <2>1, <2>9, <2>10 DEF InFlight
    <2>12. \E f, g, p, c : (InFlight(f, g, p, c) /\ Carried(AllCodes(f, g, c)))'
        BY <2>8, <2>11
    <2> HIDE DEF n
    <2> QED BY <1>1, <2>1, <2>3, <2>5, <2>12 DEF StreamInv
<1> QED BY <1>3, <1>4

\* A value of fixed size is read.
LEMMA FixedStream ==
    ASSUME ReaderInv, StreamInv, honest, NEW k \in FixedKinds, Wanted(k)
    PROVE  Room(Size[k]) /\ (ReadFixed(k) => StreamInv')
<1>1. rp < Len(buf) BY DEF Wanted
<1>2. PICK b \in Seq(Byte), x \in Value :
        /\ Len(got) + 1 \in 1..Len(sent) /\ x = sent[Len(got) + 1] /\ Carries(b, x)
        /\ rp + Len(b) <= Len(buf) /\ Bytes(rp, Len(b)) = b
        /\ \A v : /\ Consume(x.k, v, Len(b)) /\ [k |-> x.k, v |-> v] \in Value
                  /\ ArrivesAs(x, [k |-> x.k, v |-> v])
                  => StreamInv'
    BY <1>1, NextValue
<1>3. x.k = k BY <1>2 DEF Wanted
<1>4. /\ Len(b) = Size[k]
      /\ [k |-> x.k, v |-> Decode(x.k, b)] \in Value
      /\ ArrivesAs(x, [k |-> x.k, v |-> Decode(x.k, b)])
    BY <1>2, <1>3, FixedArrives
<1>5. Room(Size[k])
    <2>1. rp \in Int /\ Len(buf) \in Int /\ Len(b) \in Nat
        BY LenProperties DEF ReaderInv, TypeOK
    <2> QED BY <1>2, <1>4, <2>1 DEF Room
<1>6. ASSUME ReadFixed(k) PROVE StreamInv'
    <2>1. Consume(k, Decode(k, Bytes(rp, Size[k])), Size[k]) BY <1>6 DEF ReadFixed
    <2>2. Bytes(rp, Size[k]) = b BY <1>2, <1>4
    <2> QED BY <1>2, <1>3, <1>4, <2>1, <2>2
<1> QED BY <1>5, <1>6

\* A string or blob that was written is found to fit.
LEMMA BlobIsThere ==
    ASSUME ReaderInv, Len(buf) <= MaxLen, NEW u \in Seq(Byte), NEW b \in Seq(Byte),
           b = Split32(Len(u)) \o u, rp + Len(b) <= Len(buf), Bytes(rp, Len(b)) = b
    PROVE  /\ BlobLen = Len(u) /\ BlobFits /\ Len(b) = 4 + Len(u)
           /\ Bytes(rp + 4, Len(u)) = u
           /\ Len(u) # 0 => At(rp + 4 + BlobLen) = u[Len(u)]
<1> DEFINE n == Len(u)
<1> DEFINE h == Split32(n)
<1>1. rp \in 0..Len(buf) /\ Len(buf) \in Nat /\ n \in Nat /\ Half32 \in Nat
    BY LenProperties, Powers DEF ReaderInv, TypeOK, InBounds
<1>2. h \in Seq(Byte) /\ Len(h) = 4 /\ h \in [1..4 -> Byte]
    <2>1. n \in Int BY <1>1
    <2> HIDE DEF n
    <2> QED BY <2>1, Split32Seq, Split32Type
<1>3. u \in [1..n -> Byte] BY LenProperties
<1>4. /\ Len(b) = 4 + n
      /\ \A i \in 1..4 + n : b[i] = IF i <= 4 THEN h[i] ELSE u[i - 4]
    <2>1. PICK g \in Seq(Byte) : g = h BY <1>2
    <2>2. b = g \o u BY <2>1
    <2>3. /\ Len(g \o u) = Len(g) + Len(u)
          /\ \A i \in 1..Len(g) + Len(u) :
                (g \o u)[i] = IF i <= Len(g) THEN g[i] ELSE u[i - Len(g)]
        BY ConcatProperties
    <2> HIDE DEF h
    <2>4. Len(g) = 4 /\ Len(u) = n BY <1>2, <2>1
    <2> HIDE DEF n
    <2> QED BY <2>1, <2>2, <2>3, <2>4
<1> HIDE DEF h, n
<1>5. \A i \in 1..4 + n : At(rp + i) = b[i]
    <2>1. Bytes(rp, 4 + n) = b BY <1>4
    <2>2. \A i \in 1..4 + n : Bytes(rp, 4 + n)[i] = At(rp + i) BY DEF Bytes
    <2> QED BY <2>1, <2>2
<1>6. Bytes(rp, 4) = h
    <2>1. \A i \in 1..4 : i \in 1..4 + n /\ i <= 4 BY <1>1
    <2>2. \A i \in 1..4 : At(rp + i) = h[i] BY <1>4, <1>5, <2>1
    <2>3. Bytes(rp, 4) = [i \in 1..4 |-> h[i]] BY <2>2 DEF Bytes
    <2> QED BY <1>2, <2>3
<1>7. n \in 0..MaxLen BY <1>1, <1>4 DEF MaxLen
<1>8. BlobLen = n BY <1>6, <1>7, LengthArrives DEF BlobLen, h
<1>9. BlobFits BY <1>1, <1>4, <1>7, <1>8 DEF BlobFits, Room
<1>10. ASSUME NEW i \in 1..n PROVE At(rp + 4 + i) = u[i]
    <2>1. 4 + i \in 1..4 + n /\ ~(4 + i <= 4) /\ (4 + i) - 4 = i /\ rp + (4 + i) = rp + 4 + i
        BY <1>1
    <2> QED BY <1>4, <1>5, <2>1
<1>11. Bytes(rp + 4, n) = u
    <2>1. Bytes(rp + 4, n) = [i \in 1..n |-> u[i]] BY <1>10 DEF Bytes
    <2> QED BY <1>3, <2>1
<1>12. n # 0 => At(rp + 4 + n) = u[n] BY <1>1, <1>10
<1> QED BY <1>4, <1>8, <1>9, <1>11, <1>12 DEF n

\* A string or blob is read.
LEMMA BlobStream ==
    ASSUME ReaderInv, StreamInv, honest, NEW k \in {"string", "blob"}, Wanted(k)
    PROVE  BlobFits /\ (k = "string" => Terminated) /\ (ReadBlob(k) => StreamInv')
<1>1. rp < Len(buf) /\ Len(buf) <= MaxLen BY DEF Wanted, StreamInv
<1>2. PICK b \in Seq(Byte), x \in Value :
        /\ Len(got) + 1 \in 1..Len(sent) /\ x = sent[Len(got) + 1] /\ Carries(b, x)
        /\ rp + Len(b) <= Len(buf) /\ Bytes(rp, Len(b)) = b
        /\ \A v : /\ Consume(x.k, v, Len(b)) /\ [k |-> x.k, v |-> v] \in Value
                  /\ ArrivesAs(x, [k |-> x.k, v |-> v])
                  => StreamInv'
    BY <1>1, NextValue
<1>3. x.k = k BY <1>2 DEF Wanted
<1>4. PICK u \in Seq(Byte) :
        /\ b = Split32(Len(u)) \o u
        /\ x.k = "string" => Len(u) # 0 /\ u[Len(u)] = 0
        /\ [k |-> x.k, v |-> u] \in Value
        /\ ArrivesAs(x, [k |-> x.k, v |-> u])
    BY <1>2, <1>3, BlobArrives
<1>5. /\ BlobLen = Len(u) /\ BlobFits /\ Len(b) = 4 + Len(u)
      /\ Bytes(rp + 4, Len(u)) = u
      /\ Len(u) # 0 => At(rp + 4 + BlobLen) = u[Len(u)]
    BY <1>1, <1>2, <1>4, BlobIsThere
<1>6. k = "string" => Terminated BY <1>3, <1>4, <1>5 DEF Terminated
<1>7. ASSUME ReadBlob(k) PROVE StreamInv'
    <2>1. Consume(k, Bytes(rp + 4, BlobLen), 4 + BlobLen) BY <1>7 DEF ReadBlob
    <2>2. Consume(k, u, Len(b)) BY <1>5, <2>1
    <2> QED BY <1>2, <1>3, <1>4, <2>2
<1> QED BY <1>5, <1>6, <1>7

\* No ASSERT of a Reader_read function fails.
LEMMA ReadDoesNotFail ==
    ASSUME ReaderInv, StreamInv, honest, NEW k \in Kinds
    PROVE  ~ReadFails(k)
<1> SUFFICES ASSUME ReadFails(k) PROVE FALSE OBVIOUS
<1>1. Wanted(k) BY DEF ReadFails
<1>2. CASE k \in FixedKinds BY <1>1, <1>2, FixedStream, SizeIs DEF ReadFails
<1>3. CASE k \in {"string", "blob"}
    <2>1. k \notin DOMAIN Size BY <1>3, SizeIs DEF FixedKinds
    <2> QED BY <1>1, <1>3, <2>1, BlobStream DEF ReadFails
<1> QED BY <1>2, <1>3 DEF Kinds, FixedKinds

-----------------------------------------------------------------------------
\* Frames.

\* Where a sequence of two pieces is cut.
LEMMA CutBetween ==
    ASSUME NEW S, NEW s \in Seq(S), NEW t \in Seq(S), NEW x \in Seq(S), x = s \o t
    PROVE  SubSeq(x, 1, Len(s)) = s /\ SubSeq(x, Len(s) + 1, Len(x)) = t /\ Len(x) = Len(s) + Len(t)
<1>1. Len(s) \in Nat /\ Len(t) \in Nat BY LenProperties
<1>2. Len(x) = Len(s) + Len(t) BY ConcatProperties
<1>3. Len(s) \in 0..Len(x) BY <1>1, <1>2
<1> DEFINE n == Len(s)
<1>4. PICK a \in Seq(S), b \in Seq(S) :
        a = SubSeq(x, 1, n) /\ b = SubSeq(x, n + 1, Len(x)) /\ a \o b = x
    <2>1. n \in 0..Len(x) /\ x \in Seq(S) BY <1>3
    <2> HIDE DEF n
    <2>2. /\ SubSeq(x, 1, n) \in Seq(S) /\ SubSeq(x, n + 1, Len(x)) \in Seq(S)
          /\ SubSeq(x, 1, n) \o SubSeq(x, n + 1, Len(x)) = x
        BY ONLY <2>1, CutInTwo
    <2> QED BY <2>2
<1>5. Len(a) = n
    <2>1. n \in 0..Len(x) BY <1>3
    <2> HIDE DEF n
    <2>2. \A i \in 1..Len(x) : x[i] \in S BY ElementOfSeq
    <2>3. \A i \in 1..n : x[i] \in S BY <2>1, <2>2
    <2>4. 1 \in Int /\ n \in Int /\ (IF 1 <= n THEN n - 1 + 1 ELSE 0) = n BY <2>1
    <2>5. Len(SubSeq(x, 1, n)) = IF 1 <= n THEN n - 1 + 1 ELSE 0
        BY <2>3, <2>4, SubSeqProperties
    <2> QED BY <1>4, <2>4, <2>5
<1>6. a \o b = s \o t /\ Len(a) = Len(s) BY <1>4, <1>5
<1>7. a = s /\ b = t BY <1>6, SameDivision
<1> QED BY <1>2, <1>4, <1>7

\* The pipe begins with a frame, all of it.
LEMMA NextFrame ==
    ASSUME stdin \in Seq(Byte), stdin # <<>>, NEW front, NEW frames, NEW pipe, NEW back,
           InFlight(front, frames, pipe, back)
    PROVE  \E f \in Seq(Byte) :
              /\ frames # <<>> /\ pipe # <<>> /\ f = FlattenSeq(Head(frames))
              /\ Len(f) \in 1..MaxLen /\ FrameLen = Len(f) /\ Len(stdin) >= 4 + Len(f)
              /\ SubSeq(stdin, 5, 4 + Len(f)) = f
              /\ SubSeq(stdin, 5 + Len(f), Len(stdin)) = FlattenSeq(Tail(pipe))
<1>1. /\ pipe \in Seq(Seq(Byte)) /\ frames \in Seq(Seq(Seq(Byte))) /\ stdin = FlattenSeq(pipe)
      /\ Len(pipe) = Len(frames)
      /\ \A i \in 1..Len(frames) :
          /\ pipe[i] = Prefixed(FlattenSeq(frames[i]))
          /\ Len(FlattenSeq(frames[i])) \in 1..MaxLen
    BY DEF InFlight
<1>2. /\ pipe # <<>> /\ Head(pipe) \in Seq(Byte) /\ FlattenSeq(Tail(pipe)) \in Seq(Byte)
      /\ stdin = Head(pipe) \o FlattenSeq(Tail(pipe))
    BY <1>1, FlattenFirst
<1>3. Len(frames) \in Nat \ {0} /\ frames # <<>> BY <1>1, <1>2, EmptySeq, LenProperties
<1>4. Head(pipe) = pipe[1] /\ Head(frames) = frames[1] BY <1>2, <1>3, HeadTailProperties, <1>1
<1>5. Head(frames) \in Seq(Seq(Byte))
    <2> DEFINE T == Seq(Seq(Byte))
    <2>1. frames \in Seq(T) BY <1>1
    <2> HIDE DEF T
    <2>2. Head(frames) \in T BY <1>3, <2>1, HeadTailProperties
    <2> QED BY <2>2 DEF T
<1>6. PICK f \in Seq(Byte) : f = FlattenSeq(Head(frames)) BY <1>5, FlattenType
<1>7. Head(pipe) = Prefixed(f) /\ Len(f) \in 1..MaxLen
    <2>1. 1 \in 1..Len(frames) BY <1>3
    <2> QED BY <1>1, <1>4, <1>6, <2>1
<1>8. Len(f) \in Nat BY LenProperties
<1>9. PICK h \in Seq(Byte) : h = Split32(Len(f)) /\ Len(h) = 4
    <2>1. Len(f) \in Int BY <1>8
    <2> QED BY <2>1, Split32Seq
<1>10. PICK p \in Seq(Byte) : p = Head(pipe) /\ p = h \o f BY <1>2, <1>7, <1>9 DEF Prefixed
<1>11. PICK r \in Seq(Byte) : r = FlattenSeq(Tail(pipe)) BY <1>2
<1>12. stdin = p \o r BY <1>2, <1>10, <1>11
<1>13. PICK x \in Seq(Byte) : x = stdin OBVIOUS
<1> DEFINE n == Len(f)
<1>14. Len(p) = 4 + n
    <2>1. h \in Seq(Byte) /\ f \in Seq(Byte) /\ p \in Seq(Byte) /\ p = h \o f BY <1>10
    <2>2. Len(p) = Len(h) + Len(f) BY ONLY <2>1, CutBetween
    <2> QED BY <1>9, <2>2
<1>15. SubSeq(x, 1, 4 + n) = p /\ SubSeq(x, 4 + n + 1, Len(x)) = r /\ Len(x) >= 4 + n
    <2>1. SubSeq(x, 1, Len(p)) = p /\ SubSeq(x, Len(p) + 1, Len(x)) = r /\ Len(x) = Len(p) + Len(r)
        BY <1>12, <1>13, CutBetween
    <2>2. Len(r) \in Nat BY LenProperties
    <2> HIDE DEF n
    <2> QED BY <1>8, <1>14, <2>1, <2>2 DEF n
<1>16. SubSeq(x, 1, 4) = h /\ SubSeq(x, 5, 4 + n) = f
    <2> DEFINE m == 4 + n
    <2> DEFINE l == 4
    <2>1. 1 \in 1..(Len(x) + 1) /\ l \in (1 - 1)..Len(x) /\ m \in l..Len(x) /\ l + 1 = 5
        BY <1>8, <1>15, LenProperties
    <2>2. SubSeq(x, 1, m) = p BY <1>15
    <2> HIDE DEF m, l
    <2>3. SubSeq(x, 1, l) \o SubSeq(x, l + 1, m) = SubSeq(x, 1, m)
        BY <2>1, ConcatAdjacentSubSeq
    <2>4. \A i \in 1..Len(x) : x[i] \in Byte BY ElementOfSeq
    <2>5. (\A i \in 1..l : x[i] \in Byte) /\ (\A i \in l + 1..m : x[i] \in Byte)
        BY <2>1, <2>4 DEF l
    <2>6. PICK a \in Seq(Byte) : a = SubSeq(x, 1, l) /\ Len(a) = 4
        <3>1. l \in Int /\ 1 \in Int /\ 1 <= l /\ l - 1 + 1 = 4 BY DEF l
        <3>2. /\ SubSeq(x, 1, l) \in Seq(Byte)
              /\ Len(SubSeq(x, 1, l)) = IF 1 <= l THEN l - 1 + 1 ELSE 0
            BY <2>5, <3>1, SubSeqProperties
        <3> QED BY <3>1, <3>2
    <2>7. PICK b \in Seq(Byte) : b = SubSeq(x, l + 1, m)
        <3>1. l + 1 \in Int /\ m \in Int BY <1>8 DEF l, m
        <3> QED BY <2>5, <3>1, SubSeqProperties
    <2>8. a \o b = h \o f BY <1>10, <2>2, <2>3, <2>6, <2>7
    <2>9. a = h /\ b = f BY <1>9, <2>6, <2>8, SameDivision
    <2> QED BY <2>1, <2>6, <2>7, <2>9 DEF m, l
<1>17. FrameLen = n
    <2>1. n \in 0..MaxLen BY <1>7
    <2> QED BY <1>9, <1>13, <1>16, <2>1, LengthArrives DEF FrameLen
<1>18. 4 + n + 1 = 5 + n BY <1>8
<1> QED BY <1>2, <1>3, <1>6, <1>7, <1>11, <1>13, <1>15, <1>16, <1>17, <1>18

\* Every code has bytes, so there is none left when no byte is.
LEMMA NothingLeft ==
    ASSUME sent \in Seq(Value), got \in Seq(Value), Unread = <<>>,
           NEW front, NEW frames, NEW pipe, NEW back,
           InFlight(front, frames, pipe, back), Carried(AllCodes(front, frames, back))
    PROVE  front = <<>>
<1>1. /\ front \in Seq(Seq(Byte)) /\ back \in Seq(Seq(Byte))
      /\ frames \in Seq(Seq(Seq(Byte))) /\ Unread = FlattenSeq(front)
    BY DEF InFlight
<1> DEFINE z == AllCodes(front, frames, back)
<1>2. /\ Len(z) = Len(front) + Len(FlattenSeq(frames)) + Len(back)
      /\ \A i \in 1..Len(front) : z[i] = front[i]
      /\ FlattenSeq(frames) \in Seq(Seq(Byte))
    BY <1>1, AllCodesType
<1>3. /\ Len(front) \in Nat /\ DOMAIN front = 1..Len(front) /\ Len(back) \in Nat
      /\ Len(FlattenSeq(frames)) \in Nat /\ Len(got) \in Nat
    BY <1>1, <1>2, LenProperties
<1>4. Len(sent) = Len(got) + Len(z) /\ \A j \in 1..Len(z) : Carries(z[j], sent[Len(got) + j])
    BY DEF Carried
<1>5. \A j \in 1..Len(sent) : sent[j] \in Value BY ElementOfSeq
<1> HIDE DEF z
<1>6. ASSUME NEW i \in DOMAIN front PROVE front[i] # <<>>
    <2>1. i \in 1..Len(front) /\ i \in 1..Len(z) /\ Len(got) + i \in 1..Len(sent)
        BY <1>2, <1>3, <1>4
    <2>2. sent[Len(got) + i] \in Value /\ Carries(z[i], sent[Len(got) + i])
        BY <1>4, <1>5, <2>1
    <2>3. z[i] # <<>> BY <2>2, CarriesBytes
    <2> QED BY <1>2, <2>1, <2>3
<1> QED BY <1>1, <1>6, FlattenNothing

\* Loading a frame: nothing of the last one is left, so what was first in the
\* pipe is first in the buffer.
LEMMA FrameStream ==
    ASSUME ReaderInv, StreamInv, honest, NeedsFrame, Len(stdin) >= 4
    PROVE  LenOk /\ Len(stdin) >= 4 + FrameLen /\ (ReadFrame => StreamInv')
<1>1. /\ sent \in Seq(Value) /\ got \in Seq(Value)
      /\ open => pc = "run"
      /\ \A i \in 1..Len(got) : ArrivesAs(sent[i], got[i])
    BY DEF StreamInv
<1>2. PICK front, frames, pipe, back :
        InFlight(front, frames, pipe, back) /\ Carried(AllCodes(front, frames, back))
    BY DEF StreamInv
<1>3. stdin \in Seq(Byte) /\ buf \in Seq(Byte) /\ rp = Len(buf) /\ Len(buf) \in Nat
    BY LenProperties DEF ReaderInv, TypeOK, NeedsFrame
<1>4. PICK f \in Seq(Byte) :
        /\ frames # <<>> /\ pipe # <<>> /\ f = FlattenSeq(Head(frames))
        /\ Len(f) \in 1..MaxLen /\ FrameLen = Len(f) /\ Len(stdin) >= 4 + Len(f)
        /\ SubSeq(stdin, 5, 4 + Len(f)) = f
        /\ SubSeq(stdin, 5 + Len(f), Len(stdin)) = FlattenSeq(Tail(pipe))
    <2>1. stdin # <<>> BY EmptySeq
    <2> QED BY <1>2, <1>3, <2>1, NextFrame
<1>5. /\ front \in Seq(Seq(Byte)) /\ back \in Seq(Seq(Byte))
      /\ frames \in Seq(Seq(Seq(Byte))) /\ pipe \in Seq(Seq(Byte))
      /\ Unread = FlattenSeq(front) /\ wbuf = FlattenSeq(back)
      /\ Len(pipe) = Len(frames)
      /\ \A i \in 1..Len(frames) :
          /\ pipe[i] = Prefixed(FlattenSeq(frames[i]))
          /\ Len(FlattenSeq(frames[i])) \in 1..MaxLen
    BY <1>2 DEF InFlight
<1>6. front = <<>>
    <2>1. Unread = <<>> BY <1>3, SubSeqEmpty DEF Unread
    <2> QED BY <1>1, <1>2, <2>1, NothingLeft
<1>7. LenOk /\ Len(stdin) >= 4 + FrameLen BY <1>4 DEF LenOk
<1>8. ASSUME ReadFrame PROVE StreamInv'
    <2>1. /\ buf' = f /\ stdin' = FlattenSeq(Tail(pipe)) /\ rp' = 0 /\ got' = got /\ pc' = pc
          /\ wbuf' = wbuf /\ open' = open /\ sent' = sent /\ honest' = honest
        BY <1>4, <1>8 DEF ReadFrame, writerVars
    <2>2. Unread' = f
        <3>1. SubSeq(f, 1, Len(f)) = f BY SubSeqFull
        <3>2. 0 + 1 = 1 OBVIOUS
        <3> QED BY <2>1, <3>1, <3>2 DEF Unread
    <2> DEFINE T == Seq(Seq(Byte))
    <2>3. Head(frames) \in Seq(Seq(Byte)) /\ Tail(frames) \in Seq(Seq(Seq(Byte)))
        <3>1. frames \in Seq(T) BY <1>5
        <3> HIDE DEF T
        <3>2. Head(frames) \in T /\ Tail(frames) \in Seq(T) BY <1>4, <3>1, HeadTailProperties
        <3> QED BY <3>2 DEF T
    <2>4. /\ Tail(pipe) \in Seq(Seq(Byte))
          /\ Len(Tail(pipe)) = Len(pipe) - 1 /\ Len(Tail(frames)) = Len(frames) - 1
          /\ \A i \in 1..Len(pipe) - 1 : Tail(pipe)[i] = pipe[i + 1]
          /\ \A i \in 1..Len(frames) - 1 : Tail(frames)[i] = frames[i + 1]
        <3>1. Tail(pipe) \in Seq(Seq(Byte)) BY <1>4, <1>5, FirstOf
        <3>2. /\ Len(Tail(pipe)) = Len(pipe) - 1
              /\ \A i \in 1..Len(pipe) - 1 : Tail(pipe)[i] = pipe[i + 1]
            BY <1>4, <1>5, HeadTailProperties
        <3>3. /\ Len(Tail(frames)) = Len(frames) - 1
              /\ \A i \in 1..Len(frames) - 1 : Tail(frames)[i] = frames[i + 1]
            BY <1>4, <1>5, HeadTailProperties
        <3> QED BY <3>1, <3>2, <3>3
    <2>5. ASSUME NEW i \in 1..Len(Tail(frames))
          PROVE  /\ Tail(pipe)[i] = Prefixed(FlattenSeq(Tail(frames)[i]))
                 /\ Len(FlattenSeq(Tail(frames)[i])) \in 1..MaxLen
        <3>1. Len(frames) \in Nat BY <1>5, LenProperties
        <3>2. i \in 1..Len(pipe) - 1 /\ i \in 1..Len(frames) - 1 /\ i + 1 \in 1..Len(frames)
            BY <1>5, <2>4, <3>1
        <3> QED BY <1>5, <2>4, <3>2
    <2>6. InFlight(Head(frames), Tail(frames), Tail(pipe), back)'
        <3>1. Len(Tail(pipe)) = Len(Tail(frames)) BY <1>5, <2>4
        <3> QED BY <1>4, <1>5, <2>1, <2>2, <2>3, <2>4, <2>5, <3>1 DEF InFlight
    <2>7. AllCodes(Head(frames), Tail(frames), back) = AllCodes(front, frames, back)
        <3>1. FlattenSeq(frames) \in Seq(Seq(Byte)) BY <1>5, AllCodesType
        <3> DEFINE U == Seq(Byte)
        <3>2. frames \in Seq(Seq(U)) BY <1>5
        <3> HIDE DEF U
        <3>3. FlattenSeq(frames) = Head(frames) \o FlattenSeq(Tail(frames))
            BY <1>4, <3>2, FlattenHeadTail
        <3>4. <<>> \o FlattenSeq(frames) = FlattenSeq(frames) BY <3>1, ConcatEmptySeq
        <3> QED BY <1>6, <3>3, <3>4 DEF AllCodes
    <2>8. Carried(AllCodes(Head(frames), Tail(frames), back))'
        BY <1>2, <2>1, <2>7 DEF Carried, AllCodes
    <2>9. \E a, g, p, c : (InFlight(a, g, p, c) /\ Carried(AllCodes(a, g, c)))'
        BY <2>6, <2>8
    <2>10. Len(buf') <= MaxLen BY <1>4, <2>1
    <2> QED BY <1>1, <2>1, <2>9, <2>10 DEF StreamInv
<1> QED BY <1>7, <1>8

-----------------------------------------------------------------------------
\* Writing.

\* A value is written behind those in the Writer's buffer.
LEMMA WriteStream ==
    ASSUME StreamInv, NEW k, NEW v, [k |-> k, v |-> v] \in Value,
           NEW b \in Seq(Byte), Carries(b, [k |-> k, v |-> v]), Write(k, v, b)
    PROVE  StreamInv'
<1> DEFINE x == [k |-> k, v |-> v]
<1>1. /\ wbuf' = wbuf \o b /\ sent' = Append(sent, x) /\ got' = got /\ buf' = buf /\ rp' = rp
      /\ pc' = pc /\ open' = open /\ stdin' = stdin /\ honest' = honest
    BY DEF Write, readerVars
<1>2. x \in Value /\ Carries(b, x) OBVIOUS
<1> HIDE DEF x
<1> SUFFICES ASSUME honest PROVE StreamInv'
    BY <1>1 DEF StreamInv
<1>3. /\ sent \in Seq(Value) /\ got \in Seq(Value) /\ Len(buf) <= MaxLen
      /\ open => pc = "run"
      /\ \A i \in 1..Len(got) : ArrivesAs(sent[i], got[i])
    BY DEF StreamInv
<1>4. PICK front, frames, pipe, back :
        InFlight(front, frames, pipe, back) /\ Carried(AllCodes(front, frames, back))
    BY DEF StreamInv
<1>5. /\ front \in Seq(Seq(Byte)) /\ back \in Seq(Seq(Byte))
      /\ frames \in Seq(Seq(Seq(Byte))) /\ wbuf = FlattenSeq(back)
    BY <1>4 DEF InFlight
<1> DEFINE n == Len(sent)
<1>6. /\ sent' \in Seq(Value) /\ Len(sent') = n + 1 /\ sent'[n + 1] = x
      /\ \A i \in 1..n : sent'[i] = sent[i]
    BY <1>1, <1>2, <1>3, AppendProperties
<1>7. n \in Nat /\ Len(got) \in Nat BY <1>3, LenProperties
<1> HIDE DEF n
<1> DEFINE T == Seq(Byte)
<1>8. Append(back, b) \in Seq(T)
    <2>1. back \in Seq(T) /\ b \in T BY <1>5
    <2> HIDE DEF T
    <2> QED BY <2>1, AppendProperties
<1>9. FlattenSeq(Append(back, b)) = wbuf \o b BY <1>5, FlattenAppend
<1> DEFINE z == AllCodes(front, frames, back)
<1> DEFINE y == AllCodes(front, frames, Append(back, b))
<1>10. y = Append(z, b) /\ z \in Seq(T)
    <2>1. z \in Seq(T) /\ FlattenSeq(frames) \in Seq(T) /\ front \in Seq(T) /\ back \in Seq(T) /\ b \in T
        BY <1>5, AllCodesType
    <2> HIDE DEF T
    <2>2. (front \o FlattenSeq(frames)) \o Append(back, b)
            = Append((front \o FlattenSeq(frames)) \o back, b)
        BY ONLY <2>1, LastPiece, SMTT(60)
    <2> QED BY <2>1, <2>2 DEF AllCodes
<1>11. n = Len(got) + Len(z) /\ \A i \in 1..Len(z) : Carries(z[i], sent[Len(got) + i])
    BY <1>4 DEF Carried, n
<1> HIDE DEF z, y
<1>12. Len(y) = Len(z) + 1 /\ y[Len(z) + 1] = b /\ (\A i \in 1..Len(z) : y[i] = z[i]) /\ Len(z) \in Nat
    <2>1. b \in T OBVIOUS
    <2> HIDE DEF T
    <2> QED BY <1>10, <2>1, AppendProperties, LenProperties
<1>13. ASSUME NEW i \in 1..Len(y) PROVE Carries(y[i], sent'[Len(got) + i])
    <2>1. CASE i \in 1..Len(z)
        <3>1. Len(got) + i \in 1..n BY <1>7, <1>11, <1>12, <2>1
        <3> QED BY <1>6, <1>11, <1>12, <2>1, <3>1
    <2>2. CASE i = Len(z) + 1
        <3>1. Len(got) + i = n + 1 BY <1>7, <1>11, <1>12, <2>2
        <3> QED BY <1>2, <1>6, <1>12, <2>2, <3>1
    <2> QED BY <1>12, <2>1, <2>2
<1>14. Carried(AllCodes(front, frames, Append(back, b)))'
    <2>1. Len(sent') = Len(got) + Len(y) BY <1>6, <1>7, <1>11, <1>12
    <2> QED BY <1>1, <1>13, <2>1 DEF Carried, AllCodes, y
<1>15. InFlight(front, frames, pipe, Append(back, b))'
    BY <1>1, <1>4, <1>8, <1>9 DEF InFlight, Unread
<1>16. \E a, g, p, c : (InFlight(a, g, p, c) /\ Carried(AllCodes(a, g, c)))'
    BY <1>14, <1>15
<1>17. ASSUME NEW i \in 1..Len(got) PROVE ArrivesAs(sent'[i], got[i])
    <2>1. i \in 1..n BY <1>7, <1>11, <1>12
    <2> QED BY <1>3, <1>6, <2>1
<1> QED BY <1>1, <1>3, <1>6, <1>16, <1>17 DEF StreamInv

\* The Writer's buffer becomes the last frame.
LEMMA FlushStream ==
    ASSUME TypeOK, StreamInv, FramesFit, Flush
    PROVE  StreamInv'
<1>1. /\ stdin' = (stdin \o Split32(Len(wbuf))) \o wbuf /\ wbuf' = <<>> /\ wbuf # <<>>
      /\ sent' = sent /\ got' = got /\ buf' = buf /\ rp' = rp
      /\ pc' = pc /\ open' = open /\ honest' = honest
    BY DEF Flush, readerVars
<1> SUFFICES ASSUME honest PROVE StreamInv'
    BY <1>1 DEF StreamInv
<1>2. PICK front, frames, pipe, back :
        InFlight(front, frames, pipe, back) /\ Carried(AllCodes(front, frames, back))
    BY DEF StreamInv
<1>3. /\ front \in Seq(Seq(Byte)) /\ back \in Seq(Seq(Byte))
      /\ frames \in Seq(Seq(Seq(Byte))) /\ pipe \in Seq(Seq(Byte))
      /\ Unread = FlattenSeq(front) /\ wbuf = FlattenSeq(back) /\ stdin = FlattenSeq(pipe)
      /\ Len(pipe) = Len(frames)
      /\ \A i \in 1..Len(frames) :
          /\ pipe[i] = Prefixed(FlattenSeq(frames[i]))
          /\ Len(FlattenSeq(frames[i])) \in 1..MaxLen
    BY <1>2 DEF InFlight
<1>4. wbuf \in Seq(Byte) /\ stdin \in Seq(Byte) BY DEF TypeOK
<1>5. Len(wbuf) \in 1..MaxLen
    <2>1. Len(wbuf) \in Nat /\ Len(wbuf) # 0 BY <1>1, <1>4, LenProperties, EmptySeq
    <2>2. MaxLen \in Int BY Powers DEF MaxLen
    <2> QED BY <2>1, <2>2 DEF FramesFit
<1>6. PICK q \in Seq(Byte) : q = Prefixed(wbuf) BY <1>4, PrefixedSeq
<1>7. stdin' = stdin \o q
    <2>1. Len(wbuf) \in Int BY <1>4, LenProperties
    <2>2. PICK h \in Seq(Byte) : h = Split32(Len(wbuf)) BY <2>1, Split32Seq
    <2>3. h \in Seq(Byte) /\ wbuf \in Seq(Byte) /\ stdin \in Seq(Byte) BY <1>4, <2>2
    <2>4. (stdin \o h) \o wbuf = stdin \o (h \o wbuf) BY ONLY <2>3, Regroup, SMTT(60)
    <2> QED BY <1>1, <1>6, <2>2, <2>4 DEF Prefixed
<1> DEFINE T == Seq(Byte)
<1> DEFINE U == Seq(Seq(Byte))
<1> DEFINE n == Len(frames)
<1>8. n \in Nat BY <1>3, LenProperties
<1>9. /\ Append(pipe, q) \in Seq(T) /\ Len(Append(pipe, q)) = n + 1
      /\ Append(pipe, q)[n + 1] = q /\ \A i \in 1..n : Append(pipe, q)[i] = pipe[i]
    <2>1. pipe \in Seq(T) /\ q \in T BY <1>3, <1>6
    <2>2. Len(pipe) = n BY <1>3
    <2> HIDE DEF T, n
    <2> QED BY <2>1, <2>2, AppendProperties
<1>10. /\ Append(frames, back) \in Seq(U) /\ Len(Append(frames, back)) = n + 1
       /\ Append(frames, back)[n + 1] = back /\ \A i \in 1..n : Append(frames, back)[i] = frames[i]
    <2>1. frames \in Seq(U) /\ back \in U BY <1>3
    <2> HIDE DEF U
    <2> QED BY <2>1, AppendProperties
<1>11. FlattenSeq(Append(pipe, q)) = stdin' BY <1>3, <1>7, FlattenAppend
<1>12. FlattenSeq(Append(frames, back)) = FlattenSeq(frames) \o back
    <2>1. frames \in Seq(Seq(T)) /\ back \in Seq(T) BY <1>3
    <2> HIDE DEF T
    <2> QED BY <2>1, FlattenAppend
<1>13. ASSUME NEW i \in 1..n + 1
       PROVE  /\ Append(pipe, q)[i] = Prefixed(FlattenSeq(Append(frames, back)[i]))
              /\ Len(FlattenSeq(Append(frames, back)[i])) \in 1..MaxLen
    <2>1. CASE i \in 1..n BY <1>3, <1>9, <1>10, <2>1
    <2>2. CASE i = n + 1
        <3>1. Append(pipe, q)[i] = q /\ Append(frames, back)[i] = back BY <1>9, <1>10, <2>2
        <3> QED BY <1>3, <1>5, <1>6, <3>1
    <2>3. i \in 1..n \/ i = n + 1
        <3> HIDE DEF n
        <3> QED BY <1>8
    <2> QED BY <2>1, <2>2, <2>3
<1>14. InFlight(front, Append(frames, back), Append(pipe, q), <<>>)'
    <2>1. <<>> \in Seq(Seq(Byte)) /\ FlattenSeq(<<>>) = <<>> BY EmptySeq, FlattenEmpty
    <2>2. Unread' = FlattenSeq(front) BY <1>1, <1>3 DEF Unread
    <2> QED BY <1>1, <1>3, <1>9, <1>10, <1>11, <1>13, <2>1, <2>2 DEF InFlight
<1>15. AllCodes(front, Append(frames, back), <<>>) = AllCodes(front, frames, back)
    <2>1. FlattenSeq(frames) \in Seq(T) BY <1>3, AllCodesType
    <2>2. PICK g : g = FlattenSeq(frames) OBVIOUS
    <2>3. front \in Seq(T) /\ g \in Seq(T) /\ back \in Seq(T) BY <1>3, <2>1, <2>2
    <2> HIDE DEF T
    <2>4. (front \o g) \o back = front \o (g \o back) BY ONLY <2>3, Regroup, SMTT(60)
    <2>5. front \o (g \o back) \in Seq(T) BY ONLY <2>3, ConcatProperties
    <2>6. (front \o (g \o back)) \o <<>> = front \o (g \o back) BY ONLY <2>5, ConcatEmptySeq
    <2> QED BY <1>12, <2>2, <2>4, <2>6 DEF AllCodes
<1>16. Carried(AllCodes(front, Append(frames, back), <<>>))'
    BY <1>1, <1>2, <1>15 DEF Carried, AllCodes
<1>17. \E a, g, p, c : (InFlight(a, g, p, c) /\ Carried(AllCodes(a, g, c)))'
    BY <1>14, <1>16
<1> QED BY <1>1, <1>17 DEF StreamInv

\* What a value becomes on its way is for the writer to choose.
LEMMA WriterStream ==
    ASSUME StreamInv, WriteValue \/ WriteText \/ WriteColumn
    PROVE  StreamInv'
<1>1. CASE WriteValue
    <2> PICK k \in Kinds : \E v \in Values[k] : Write(k, v, Encode(k, v)) BY <1>1 DEF WriteValue
    <2> PICK v \in Values[k] : Write(k, v, Encode(k, v)) OBVIOUS
    <2> DEFINE x == [k |-> k, v |-> v]
    <2>1. v \in ValuesOf[k] BY ValuesAssumption
    <2>2. x \in Value /\ x.k = k /\ x.v = v BY <2>1 DEF Value
    <2>3. k = "string" => v \in Seq(Byte) BY <2>1 DEF ValuesOf, Kinds
    <2>4. Encode(k, v) \in Seq(Byte) BY <2>1, EncodeSeq
    <2> HIDE DEF x
    <2>5. Carries(Encode(k, v), x) BY <2>1, <2>2, <2>3 DEF Carries
    <2> QED BY <2>2, <2>4, <2>5, WriteStream DEF x
<1>2. CASE WriteText
    <2> PICK v \in Values["string"] : Write("string", v, Encode("string", CString(v)))
        BY <1>2 DEF WriteText
    <2> DEFINE x == [k |-> "string", v |-> v]
    <2> DEFINE w == CString(v)
    <2>1. "string" \in Kinds /\ ValuesOf["string"] = Seq(Byte) BY DEF Kinds, ValuesOf
    <2>2. v \in Seq(Byte) BY <2>1, ValuesAssumption
    <2>3. x \in Value /\ x.k = "string" /\ x.v = v BY <2>1, <2>2 DEF Value
    <2>4. w \in Seq(Byte) BY <2>2, CStringSeq
    <2> HIDE DEF x, w
    <2>5. Encode("string", w) \in Seq(Byte) BY <2>1, <2>4, EncodeSeq
    <2>6. Carries(Encode("string", w), x)
        BY <2>1, <2>2, <2>3, <2>4 DEF Carries, w
    <2> QED BY <2>3, <2>5, <2>6, WriteStream DEF x, w
<1>3. CASE WriteColumn
    <2> PICK v \in Stored : Write("int32", v, Encode("int32", sqlite3_column_int(v)))
        BY <1>3 DEF WriteColumn
    <2> DEFINE x == [k |-> "int32", v |-> v]
    <2> DEFINE w == sqlite3_column_int(v)
    <2>1. v \in Int64 BY StoredAssumption
    <2>2. v \in Int BY <2>1, Powers64 DEF Int64
    <2>3. v % Word32 \in 0..(Word32 - 1) BY <2>2, Powers, DivModBasics
    <2>4. w \in Int32
        <3> DEFINE u == v % Word32
        <3>1. u \in 0..(2 * Half32 - 1) BY <2>3, Powers
        <3>2. w = Signed(u, Half32) BY DEF sqlite3_column_int
        <3> HIDE DEF u, w
        <3> QED BY <3>1, <3>2, RemainderOfSigned, Powers DEF Int32
    <2>5. /\ "int32" \in Kinds /\ ValuesOf["int32"] = Int32
          /\ "int64" \in Kinds /\ ValuesOf["int64"] = Int64
        BY DEF Kinds, ValuesOf
    <2>6. v \in UNION {ValuesOf[k] : k \in Kinds} BY <2>1, <2>5
    <2>7. x \in Value /\ x.k = "int32" /\ x.v = v BY <2>5, <2>6 DEF Value
    <2> HIDE DEF x, w
    <2>8. Encode("int32", w) \in Seq(Byte) BY <2>4, <2>5, EncodeSeq
    <2>9. Carries(Encode("int32", w), x)
        BY <2>1, <2>4, <2>5, <2>7 DEF Carries, w
    <2> QED BY <2>7, <2>8, <2>9, WriteStream DEF x, w
<1> QED BY <1>1, <1>2, <1>3

-----------------------------------------------------------------------------
\* Every step.

\* Nothing is on its way in the beginning.
LEMMA InitStream == Init => StreamInv
<1> SUFFICES ASSUME Init PROVE StreamInv OBVIOUS
<1>1. /\ <<>> \in Seq(Value) /\ <<>> \in Seq(Seq(Byte)) /\ <<>> \in Seq(Seq(Seq(Byte)))
      /\ Len(<<>>) = 0
    BY EmptySeq
<1>2. FlattenSeq(<<>>) = <<>> BY FlattenEmpty
<1>3. /\ wbuf = <<>> /\ stdin = <<>> /\ buf = <<>> /\ rp = 0 /\ pc = "run" /\ sent = <<>>
      /\ got = <<>>
    BY DEF Init
<1>4. Unread = <<>> BY <1>1, <1>3, SubSeqEmpty DEF Unread
<1>5. InFlight(<<>>, <<>>, <<>>, <<>>)
    <2>1. 1..Len(<<>>) = {} BY <1>1
    <2> QED BY <1>1, <1>2, <1>3, <1>4, <2>1 DEF InFlight
<1>6. AllCodes(<<>>, <<>>, <<>>) = <<>> BY <1>2 DEF AllCodes
<1>7. Carried(AllCodes(<<>>, <<>>, <<>>))
    <2>1. Len(sent) = 0 /\ Len(got) = 0 /\ 1..0 = {} BY <1>1, <1>3
    <2> QED BY <1>1, <1>6, <2>1 DEF Carried
<1>8. \E a, g, p, c : InFlight(a, g, p, c) /\ Carried(AllCodes(a, g, c)) BY <1>5, <1>7
<1>9. Len(buf) <= MaxLen BY <1>1, <1>3, Powers DEF MaxLen
<1>10. \A i \in 1..Len(got) : ArrivesAs(sent[i], got[i]) BY <1>1, <1>3
<1> QED BY <1>1, <1>3, <1>8, <1>9, <1>10 DEF StreamInv

\* It is kept by a step that moves nothing.
LEMMA StillStream ==
    ASSUME StreamInv, honest' => honest, UNCHANGED <<wbuf, stdin, buf, rp, sent, got>>,
           honest /\ open' => open, honest /\ open' => pc' = pc
    PROVE  StreamInv'
<1> SUFFICES ASSUME honest' PROVE StreamInv' BY DEF StreamInv
<1>1. honest OBVIOUS
<1>2. PICK front, frames, pipe, back :
        InFlight(front, frames, pipe, back) /\ Carried(AllCodes(front, frames, back))
    BY <1>1 DEF StreamInv
<1>3. (InFlight(front, frames, pipe, back) /\ Carried(AllCodes(front, frames, back)))'
    BY <1>2 DEF InFlight, Carried, AllCodes, Unread
<1>4. \E a, g, p, c : (InFlight(a, g, p, c) /\ Carried(AllCodes(a, g, c)))' BY <1>3
<1> QED BY <1>1, <1>4 DEF StreamInv

\* Every step keeps it, as long as no buffer exceeds MAX_LEN.
LEMMA NextStream ==
    ASSUME ReaderInv, StreamInv, FramesFit, [Next]_vars
    PROVE  StreamInv'
<1>1. CASE WriteValue \/ WriteText \/ WriteColumn BY <1>1, WriterStream
<1>2. CASE Flush BY <1>2, FlushStream DEF ReaderInv
<1>3. CASE WriteGarbage BY <1>3 DEF WriteGarbage, StreamInv
<1>4. CASE Close
    <2>1. /\ open' = FALSE /\ UNCHANGED <<wbuf, stdin, sent, honest, readerVars>>
        BY <1>4 DEF Close
    <2> QED BY <2>1, StillStream DEF readerVars
<1>5. CASE ReadFrame
    <2>1. NeedsFrame /\ Len(stdin) >= 4 /\ honest' = honest BY <1>5 DEF ReadFrame, writerVars
    <2> QED BY <1>5, <2>1, FrameStream DEF StreamInv
<1>6. CASE BadLength
    <2>1. NeedsFrame /\ Len(stdin) >= 4 /\ ~LenOk /\ honest' = honest
        BY <1>6 DEF BadLength, Die, writerVars
    <2> QED BY <2>1, FrameStream DEF StreamInv
<1>7. CASE EndOfInput
    <2>1. ~open /\ UNCHANGED <<wbuf, open, sent, honest>> /\ UNCHANGED <<stdin, buf, rp, got>>
        BY <1>7 DEF EndOfInput, Die, writerVars
    <2> QED BY <2>1, StillStream
<1>8. CASE Read
    <2>1. CASE \E k \in DOMAIN Size : ReadFixed(k)
        <3> PICK k \in FixedKinds : ReadFixed(k) BY <2>1, SizeIs
        <3>1. Wanted(k) /\ honest' = honest BY DEF ReadFixed, Consume, writerVars
        <3> QED BY <3>1, FixedStream DEF StreamInv
    <2>2. CASE \E k \in {"string", "blob"} : ReadBlob(k)
        <3> PICK k \in {"string", "blob"} : ReadBlob(k) BY <2>2
        <3>1. Wanted(k) /\ honest' = honest BY DEF ReadBlob, Consume, writerVars
        <3> QED BY <3>1, BlobStream DEF StreamInv
    <2> QED BY <1>8, <2>1, <2>2 DEF Read
<1>9. CASE \E k \in Kinds : ReadFails(k)
    <2> PICK k \in Kinds : ReadFails(k) BY <1>9
    <2>1. honest' = honest BY DEF ReadFails, Die, writerVars
    <2> QED BY <2>1, ReadDoesNotFail DEF StreamInv
<1>10. CASE UNCHANGED vars BY <1>10, StillStream DEF vars
<1> QED BY <1>1, <1>2, <1>3, <1>4, <1>5, <1>6, <1>7, <1>8, <1>9, <1>10 DEF Next, Done

\* So it holds as long as no buffer exceeds MAX_LEN.
LEMMA AlwaysStream == Spec /\ []FramesFit => [](ReaderInv /\ StreamInv)
<1>1. Init => ReaderInv /\ StreamInv BY InitReaderInv, InitStream
<1>2. (ReaderInv /\ StreamInv) /\ FramesFit /\ [Next]_vars => (ReaderInv /\ StreamInv)'
    BY NextReaderInv, NextStream
<1> QED BY <1>1, <1>2, PTL DEF Spec

\* Whatever values are written with Writer_write functions, however they are
\* divided into frames and whatever the size of a byte: what the Reader_read
\* functions return is, value for value and in order, what was written.
THEOREM ReaderRoundTrip == Spec /\ []FramesFit => []RoundTrip
<1>1. ReaderInv /\ StreamInv => RoundTrip
    <2> SUFFICES ASSUME StreamInv, honest
                 PROVE  /\ Len(got) <= Len(sent)
                        /\ \A i \in DOMAIN got : ArrivesAs(sent[i], got[i])
        BY DEF RoundTrip
    <2>1. got \in Seq(Value) /\ \A i \in 1..Len(got) : ArrivesAs(sent[i], got[i])
        BY DEF StreamInv
    <2>2. DOMAIN got = 1..Len(got) /\ Len(got) \in Nat BY <2>1, LenProperties
    <2>3. PICK front, frames, pipe, back :
            InFlight(front, frames, pipe, back) /\ Carried(AllCodes(front, frames, back))
        BY DEF StreamInv
    <2>4. AllCodes(front, frames, back) \in Seq(Seq(Byte))
        BY <2>3, AllCodesType DEF InFlight
    <2>5. Len(AllCodes(front, frames, back)) \in Nat BY <2>4, LenProperties
    <2>6. Len(sent) = Len(got) + Len(AllCodes(front, frames, back)) BY <2>3 DEF Carried
    <2> QED BY <2>1, <2>2, <2>5, <2>6
<1> QED BY <1>1, AlwaysStream, PTL

\* No ASSERT of a Reader_read function fails on what Writer_write functions
\* wrote, unless the writer is gone.
THEOREM ReaderReadsSucceed == Spec /\ []FramesFit => []ReadsSucceed
<1>1. ReaderInv /\ StreamInv => ReadsSucceed BY DEF StreamInv, ReadsSucceed
<1> QED BY <1>1, AlwaysStream, PTL
=============================================================================
