---------------------------- MODULE StdIoProofs ----------------------------
(***************************************************************************)
(* Theorems about StdIo, for every buffer length and every size_t.         *)
(*                                                                         *)
(* The two loops share no variable but errors, of which each changes its   *)
(* own field: a read keeps the invariant of the writing side because it    *)
(* leaves that side alone, and the other way round.                        *)
(***************************************************************************)
EXTENDS StdIo, TLAPS

StdIoInv == TypeOK /\ ReadFaithful /\ WriteFaithful

-----------------------------------------------------------------------------
\* A count that has not wrapped is the sum (c += n in both loops).
LEMMA AdvanceSmall ==
    ASSUME NEW c \in Nat, NEW n \in Nat, c + n <= BufLen
    PROVE  Advance(c, n) = c + n
  <1>1. c + n \in Nat /\ c + n < SizeMod
    BY LengthAssumption
  <1>2. \A k, m \in Nat : k < m => k % m = k
    OBVIOUS
  <1>3. QED
    BY <1>1, <1>2, LengthAssumption DEF Advance

\* A count stays a size_t whatever is added (size_t c).
LEMMA AdvanceType == ASSUME NEW c \in Nat, NEW n \in Nat PROVE Advance(c, n) \in 0..Minus1
  <1>1. \A k \in Nat, m \in Nat \ {0} : k % m \in 0..(m - 1)
    OBVIOUS
  <1>2. SizeMod \in Nat \ {0} /\ c + n \in Nat
    BY LengthAssumption
  <1>3. QED
    BY <1>1, <1>2 DEF Advance, Minus1

\* A loop goes on, is done or has failed its assertion (io.c's while and ASSERT).
LEMMA LoopPcType == ASSUME NEW c \in Nat
                    PROVE  /\ LoopPc(c) \in {"loop", "done", "dead"}
                           /\ LoopPc(c) = "done" => c = BufLen
  BY LengthAssumption DEF LoopPc

\* Writing the next n bytes after the first c makes the first c + n.
LEMMA WriteExtends ==
    ASSUME NEW c \in Nat, NEW n \in Nat
    PROVE  [i \in 1..c |-> i] \o [i \in 1..n |-> c + i] = [i \in 1..(c + n) |-> i]
  <1> DEFINE s == [i \in 1..c |-> i]
             t == [i \in 1..n |-> c + i]
  <1>1. s \in Seq(Nat) /\ Len(s) = c /\ t \in Seq(Nat) /\ Len(t) = n
    OBVIOUS
  <1>2. s \o t \in Seq(Nat) /\ Len(s \o t) = c + n
    BY <1>1
  <1>3. ASSUME NEW i \in 1..(c + n) PROVE (s \o t)[i] = i
    <2>1. CASE i <= c
      BY <1>1, <2>1
    <2>2. CASE i > c
      BY <1>1, <2>2
    <2>3. QED
      BY <2>1, <2>2
  <1>4. QED
    BY <1>2, <1>3

-----------------------------------------------------------------------------
\* Before the first call nothing has moved and nothing has failed.
LEMMA InitInv == ASSUME Init PROVE StdIoInv
  <1>1. 0 \in 0..Minus1 /\ [read |-> 0, write |-> 0] \in [read : 0..ErrorBound, write : 0..ErrorBound]
    BY LengthAssumption, ErrorBoundAssumption DEF Minus1
  <1>2. TypeOK
    BY <1>1 DEF Init, TypeOK
  <1>3. ReadFaithful
    BY DEF Init, ReadFaithful
  <1>4. WriteFaithful
    <2>1. <<>> = [i \in 1..0 |-> i]
      OBVIOUS
    <2>2. QED
      BY <2>1 DEF Init, WriteFaithful
  <1>5. QED
    BY <1>2, <1>3, <1>4 DEF StdIoInv

\* A read() that moves n bytes (_readStdin).
LEMMA ReadInv == ASSUME StdIoInv, NEW n \in 0..BufLen, Read(n) PROVE StdIoInv'
  <1> USE DEF StdIoInv
  <1>1. n \in Nat /\ rc \in Nat /\ rc + n <= BufLen
    BY LengthAssumption DEF TypeOK, Read, Minus1
  <1>2. Advance(rc, n) = rc + n /\ rc + n \in 0..Minus1
    BY <1>1, AdvanceSmall, LengthAssumption DEF Minus1
  <1>3. rpc' \in {"loop", "done", "dead"} /\ rc' = rc + n /\ (rpc' = "done" => rc' = BufLen)
    BY <1>1, <1>2, LoopPcType DEF Read, Fails
  <1>4. buf' \in [1..BufLen -> Nat]
    BY <1>1 DEF Read, TypeOK
  <1>5. TypeOK'
    BY <1>1, <1>2, <1>3, <1>4 DEF Read, TypeOK, writeVars
  <1>6. ReadFaithful'
    <2>1. SUFFICES ASSUME errors.read = 0
                   PROVE  /\ taken' = rc' /\ \A i \in 1..rc' : buf'[i] = i
                          /\ rpc' = "done" => rc' = BufLen
      BY DEF ReadFaithful, Read
    <2>2. taken = rc /\ \A i \in 1..rc : buf[i] = i
      BY <2>1 DEF ReadFaithful
    <2>3. ASSUME NEW i \in 1..rc' PROVE buf'[i] = i
      <3>1. i \in 1..BufLen /\ i \in Nat
        BY <1>1, <1>3, <2>3, LengthAssumption
      <3>2. buf'[i] = IF i \in (rc + 1)..(rc + n) THEN taken + i - rc ELSE buf[i]
        BY <3>1 DEF Read
      <3>3. CASE i \in 1..rc
        BY <1>1, <2>2, <3>2, <3>3
      <3>4. CASE i \in (rc + 1)..(rc + n)
        BY <1>1, <2>2, <3>1, <3>2, <3>4
      <3>5. QED
        BY <1>1, <1>3, <2>3, <3>1, <3>3, <3>4
    <2>4. QED
      BY <1>1, <1>3, <2>2, <2>3 DEF Read
  <1>7. WriteFaithful'
    BY DEF WriteFaithful, Read, writeVars
  <1>8. QED
    BY <1>5, <1>6, <1>7

\* A read() that fails: its -1 is added to c (_readStdin).
LEMMA ReadErrorInv == ASSUME StdIoInv, ReadError PROVE StdIoInv'
  <1> USE DEF StdIoInv
  <1>1. rc \in Nat /\ Minus1 \in Nat
    BY LengthAssumption DEF TypeOK, Minus1
  <1>2. rpc' \in {"loop", "done", "dead"} /\ rc' \in 0..Minus1
    BY <1>1, AdvanceType, LoopPcType DEF ReadError, TypeOK
  <1>3. errors'.read > 0 /\ errors'.write = errors.write
        /\ errors' \in [read : 0..ErrorBound, write : 0..ErrorBound]
    BY ErrorBoundAssumption DEF ReadError, TypeOK
  <1>4. TypeOK'
    BY <1>2, <1>3 DEF ReadError, TypeOK, writeVars
  <1>5. ReadFaithful' /\ WriteFaithful'
    BY <1>3 DEF ReadFaithful, WriteFaithful, ReadError, writeVars
  <1>6. QED
    BY <1>4, <1>5

\* A write() that moves n bytes (_writeStdout).
LEMMA WriteInv == ASSUME StdIoInv, NEW n \in 0..BufLen, Write(n) PROVE StdIoInv'
  <1> USE DEF StdIoInv
  <1>1. n \in Nat /\ wc \in Nat /\ wc + n <= BufLen
    BY LengthAssumption DEF TypeOK, Write, Minus1
  <1>2. Advance(wc, n) = wc + n /\ wc + n \in 0..Minus1
    BY <1>1, AdvanceSmall, LengthAssumption DEF Minus1
  <1>3. wpc' \in {"loop", "done", "dead"} /\ wc' = wc + n /\ (wpc' = "done" => wc' = BufLen)
    BY <1>1, <1>2, LoopPcType DEF Write, Fails
  <1>4. TypeOK'
    BY <1>1, <1>2, <1>3 DEF Write, TypeOK, readVars
  <1>5. WriteFaithful'
    <2>1. SUFFICES ASSUME errors.write = 0
                   PROVE  /\ out' = [i \in 1..wc' |-> i]
                          /\ wpc' = "done" => wc' = BufLen
      BY DEF WriteFaithful, Write
    <2>2. out = [i \in 1..wc |-> i] /\ out' = out \o [i \in 1..n |-> wc + i]
      BY <2>1 DEF WriteFaithful, Write
    <2>3. QED
      BY <1>1, <1>3, <2>2, WriteExtends
  <1>6. ReadFaithful'
    BY DEF ReadFaithful, Write, readVars
  <1>7. QED
    BY <1>4, <1>5, <1>6

\* A write() that fails: its -1 is added to c (_writeStdout).
LEMMA WriteErrorInv == ASSUME StdIoInv, WriteError PROVE StdIoInv'
  <1> USE DEF StdIoInv
  <1>1. wc \in Nat /\ Minus1 \in Nat
    BY LengthAssumption DEF TypeOK, Minus1
  <1>2. wpc' \in {"loop", "done", "dead"} /\ wc' \in 0..Minus1
    BY <1>1, AdvanceType, LoopPcType DEF WriteError, TypeOK
  <1>3. errors'.write > 0 /\ errors'.read = errors.read
        /\ errors' \in [read : 0..ErrorBound, write : 0..ErrorBound]
    BY ErrorBoundAssumption DEF WriteError, TypeOK
  <1>4. TypeOK'
    BY <1>2, <1>3 DEF WriteError, TypeOK, readVars
  <1>5. ReadFaithful' /\ WriteFaithful'
    BY <1>3 DEF ReadFaithful, WriteFaithful, WriteError, readVars
  <1>6. QED
    BY <1>4, <1>5

\* Every step keeps the invariant.
LEMMA NextInv == ASSUME StdIoInv, [Next]_vars PROVE StdIoInv'
  <1>1. CASE Reads
    BY <1>1, ReadInv DEF Reads
  <1>2. CASE ReadError
    BY <1>2, ReadErrorInv
  <1>3. CASE Writes
    BY <1>3, WriteInv DEF Writes
  <1>4. CASE WriteError
    BY <1>4, WriteErrorInv
  <1>5. CASE Terminated \/ UNCHANGED vars
    BY <1>5 DEF Terminated, vars, readVars, writeVars,
                StdIoInv, TypeOK, ReadFaithful, WriteFaithful
  <1>6. QED
    BY <1>1, <1>2, <1>3, <1>4, <1>5 DEF Next

\* The invariant holds in every state either loop reaches.
THEOREM StdIoInvariant == Spec => []StdIoInv
  BY InitInv, NextInv, PTL DEF Spec

\* The variables keep their types: a count is a size_t even after a failed call.
THEOREM StdIoTypeOK == Spec => []TypeOK
  <1>1. StdIoInv => TypeOK
    BY DEF StdIoInv
  <1>2. QED
    BY <1>1, StdIoInvariant, PTL

\* However read() divides the bytes, the loop of _readStdin puts them into the
\* buffer in order, and is done only when it is full.
THEOREM StdIoReadFaithful == Spec => []ReadFaithful
  <1>1. StdIoInv => ReadFaithful
    BY DEF StdIoInv
  <1>2. QED
    BY <1>1, StdIoInvariant, PTL

\* However write() divides the bytes, the loop of _writeStdout writes each once
\* and in order, and is done only when all are written.
THEOREM StdIoWriteFaithful == Spec => []WriteFaithful
  <1>1. StdIoInv => WriteFaithful
    BY DEF StdIoInv
  <1>2. QED
    BY <1>1, StdIoInvariant, PTL
=============================================================================
