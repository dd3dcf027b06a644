------------------------------- MODULE Codec -------------------------------
(***************************************************************************)
(* The bytes of values: what the Writer_write functions of src/lib/io.c    *)
(* put into the buffer, and how the Reader_read functions put them         *)
(* together again.  A byte is a number below Base (256 in the code), an    *)
(* int32 has 4 of them and an int64 has 8, in two's complement.  A shift   *)
(* by 8 bits is a division by Base, a conversion to a narrower type a      *)
(* remainder.                                                              *)
(***************************************************************************)
EXTENDS Integers, Sequences, FiniteSets, SequencesExt

CONSTANT HalfBase   \* 128

ASSUME HalfBaseAssumption == HalfBase \in Nat \ {0}

Base == 2 * HalfBase
Byte == 0..(Base - 1)

Half32 == HalfBase * Base * Base * Base
Word32 == 2 * Half32
Half64 == Half32 * Word32
Word64 == 2 * Half64

Int32 == (-Half32)..(Half32 - 1)
Int64 == (-Half64)..(Half64 - 1)

\* MAX_LEN.
MaxLen == Half32 - 1

Kinds == {"byte", "int32", "int64", "double", "string", "blob"}

ValuesOf == [k \in Kinds |->
    CASE k = "byte" -> (-HalfBase)..(HalfBase - 1)
      [] k = "int32" -> Int32
      [] k = "int64" -> Int64
      [] k = "double" -> [1..8 -> Byte]
      [] OTHER -> Seq(Byte)]

-----------------------------------------------------------------------------
\* Writing.

Split32Little(v) ==  \* the bug of the machine's own byte order
    <<v % Base, (v \div Base) % Base, (v \div (Base * Base)) % Base,
      (v \div (Base * Base * Base)) % Base>>

Split32Wide(v) ==  \* the bug of not cutting a shifted number to a byte
    <<v \div (Base * Base * Base), v \div (Base * Base), v \div Base, v>>

Split32(v) ==
    <<(v \div (Base * Base * Base)) % Base, (v \div (Base * Base)) % Base,
      (v \div Base) % Base, v % Base>>

Split64(v) ==
    [i \in 1..8 |-> IF i <= 4 THEN Split32(v \div Word32)[i] ELSE Split32(v)[i - 4]]

\* A blob, or a string with its terminating zero.
Prefixed(bytes) == Split32(Len(bytes)) \o bytes

\* What strlen and strcpy see of the bytes at an address.
strlen(bytes) == Cardinality({i \in DOMAIN bytes : \A j \in 1..i : bytes[j] # 0})

CString(bytes) == SubSeq(bytes, 1, strlen(bytes))

\* A double is given by its bytes in memory, least significant first.
Encode(k, v) ==
    CASE k = "byte" -> <<v % Base>>
      [] k = "int32" -> Split32(v)
      [] k = "int64" -> Split64(v)
      [] k = "double" -> Reverse(v)
      [] k = "string" -> Prefixed(Append(v, 0))
      [] k = "blob" -> Prefixed(v)

-----------------------------------------------------------------------------
\* Reading.

Signed(u, half) == IF u < half THEN u ELSE u - 2 * half

Join32SignExtended(b) ==  \* the bug of shifting a plain (signed) char
    LET c == [i \in 1..4 |-> Signed(b[i], HalfBase)]
    IN (c[1] * Base * Base * Base + c[2] * Base * Base + c[3] * Base + c[4]) % Word32

Join32(b) == b[1] * (Base * Base * Base) + b[2] * (Base * Base) + b[3] * Base + b[4]

Join64(b) == Join32(b) * Word32 + Join32([i \in 1..4 |-> b[i + 4]])

Size == [k \in {"byte", "int32", "int64", "double"} |->
            CASE k = "byte" -> 1 [] k = "int32" -> 4 [] OTHER -> 8]

Decode(k, bytes) ==
    CASE k = "byte" -> Signed(bytes[1], HalfBase)
      [] k = "int32" -> Signed(Join32(bytes), Half32)
      [] k = "int64" -> Signed(Join64(bytes), Half64)
      [] k = "double" -> Reverse(bytes)

\* An int used as a size_t.
SizeT(i) == IF i < 0 THEN i + Word64 ELSE i

\* sqlite3_column_int of a stored 64-bit integer: the low 32 bits.
sqlite3_column_int(v) == Signed(v % Word32, Half32)
=============================================================================
