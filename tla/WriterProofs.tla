---------------------------- MODULE WriterProofs ----------------------------
(***************************************************************************)
(* Theorems about Writer, for every buffer size, mark and limit.           *)
(*                                                                         *)
(* The inductive invariant WriterInv adds two facts to the invariants that *)
(* are to be shown: the buffer is at most MAX_LEN bytes, and while the     *)
(* buffer grows the new size is at least the old one.                      *)
(***************************************************************************)
EXTENDS Writer, TLAPS

BufferFits == bufsz <= MaxLen

NewSizeGrows == wpc = "grow" => newSize >= bufsz

WriterInv == TypeOK /\ InBounds /\ RowsDoNotPileUp /\ BufferFits /\ NewSizeGrows

-----------------------------------------------------------------------------
\* A number below the modulus is its own remainder: a frame shorter than 2^32
\* bytes has its length in the header (Writer_flush).
LEMMA ModSmall == ASSUME NEW n \in Nat, NEW m \in Nat, n < m PROVE n % m = n
  OBVIOUS

\* A new Writer satisfies the invariant (newStdoutWriter).
LEMMA InitInv == Init => WriterInv
  BY SizesAssumption
  DEF Init, WriterInv, TypeOK, InBounds, RowsDoNotPileUp, BufferFits, NewSizeGrows

\* The start of a write of n bytes keeps the invariant (the Writer_write calls).
LEMMA CallInv == ASSUME WriterInv, NEW n \in Nat, Call(n) PROVE WriterInv'
  BY DEF Call, WriterInv, TypeOK, InBounds, RowsDoNotPileUp, BufferFits, NewSizeGrows

\* Flushing sends a header that tells the truth (Writer_flush).
LEMMA HeaderIsLength == ASSUME WriterInv PROVE Header(wp) = wp /\ wp <= MaxLen
  <1>1. wp <= MaxLen /\ wp < HeaderRange
    BY SizesAssumption DEF WriterInv, TypeOK, InBounds, BufferFits
  <1>2. QED
    BY <1>1, ModSmall, SizesAssumption DEF Header, WriterInv, TypeOK

\* Every step keeps the invariant.
LEMMA NextInv == ASSUME WriterInv, [Next]_vars PROVE WriterInv'
  <1>1. CASE WriteFixed
    <2>1. FixedLens \subseteq Nat
      BY DEF FixedLens
    <2>2. QED
      BY <1>1, <2>1, CallInv DEF WriteFixed
  <1>2. CASE WriteBlob
    <2>1. PICK len \in BlobLens : Call(BlobSize(len))
      BY <1>2 DEF WriteBlob
    <2>2. BlobSize(len) \in Nat
      BY BlobLensAssumption DEF BlobSize
    <2>3. QED
      BY <2>1, <2>2, CallInv
  <1>3. CASE RefuseBlob
    BY <1>3 DEF RefuseBlob, WriterInv, TypeOK, InBounds, RowsDoNotPileUp, BufferFits, NewSizeGrows
  <1>4. CASE Double
    BY <1>4 DEF Double, RoomFor,
                WriterInv, TypeOK, InBounds, RowsDoNotPileUp, BufferFits, NewSizeGrows
  <1>5. CASE Grow
    <2>1. CASE TooLarge(newSize)
      BY <1>5, <2>1 DEF Grow,
                WriterInv, TypeOK, InBounds, RowsDoNotPileUp, BufferFits, NewSizeGrows
    <2>2. CASE ~TooLarge(newSize)
      BY <1>5, <2>2, SizesAssumption DEF Grow, RoomFor, TooLarge,
                WriterInv, TypeOK, InBounds, RowsDoNotPileUp, BufferFits, NewSizeGrows
    <2>3. QED
      BY <2>1, <2>2
  <1>6. CASE Copy
    BY <1>6, SizesAssumption
    DEF Copy, WriterInv, TypeOK, InBounds, RowsDoNotPileUp, BufferFits, NewSizeGrows
  <1>7. CASE Flush
    BY <1>7, HeaderIsLength, SizesAssumption
    DEF Flush, WriterInv, TypeOK, InBounds, RowsDoNotPileUp, BufferFits, NewSizeGrows
  <1>8. CASE MarkFrame
    BY <1>8, HeaderIsLength, SizesAssumption
    DEF MarkFrame, MarkDue, WriterInv, TypeOK, InBounds, RowsDoNotPileUp, BufferFits, NewSizeGrows
  <1>9. CASE UNCHANGED vars
    BY <1>9 DEF vars, WriterInv, TypeOK, InBounds, RowsDoNotPileUp, BufferFits, NewSizeGrows
  <1>10. QED
    BY <1>1, <1>2, <1>3, <1>4, <1>5, <1>6, <1>7, <1>8, <1>9 DEF Next

\* The invariant holds in every state of a Writer.
THEOREM WriterInvariant == Spec => []WriterInv
  BY InitInv, NextInv, PTL DEF Spec

\* The Writer's variables keep their types.
THEOREM WriterTypeOK == Spec => []TypeOK
  <1>1. WriterInv => TypeOK
    BY DEF WriterInv
  <1>2. QED
    BY <1>1, WriterInvariant, PTL

\* No write goes beyond the buffer, for any sequence of writes, marks and
\* flushes: the ASSERTs before each copy in io.c never fail.
THEOREM WriterInBounds == Spec => []InBounds
  <1>1. WriterInv => InBounds
    BY DEF WriterInv
  <1>2. QED
    BY <1>1, WriterInvariant, PTL

\* What is buffered exceeds the mark only by what was written since the last
\* Writer_markFrame.
THEOREM WriterRows == Spec => []RowsDoNotPileUp
  <1>1. WriterInv => RowsDoNotPileUp
    BY DEF WriterInv
  <1>2. QED
    BY <1>1, WriterInvariant, PTL

\* Every frame that Writer_flush sends carries its true length, which the
\* Reader's ASSERT on frame lengths admits, and ends within a row of the mark.
THEOREM WriterHeaders == Spec => HeadersTell
  <1>1. ASSUME WriterInv, [Next]_vars, wp' < wp
        PROVE frame' = wp /\ wp \in 1..MaxLen /\ wp <= FlushAt + row
    <2>1. Flush \/ (MarkFrame /\ MarkDue)
      BY <1>1 DEF Next, vars, WriteFixed, WriteBlob, Call, RefuseBlob, Double, Grow, Copy,
                  MarkFrame, WriterInv, TypeOK
    <2>2. frame' = Header(wp)
      BY <2>1 DEF Flush, MarkFrame
    <2>3. wp > 0
      BY <1>1, <2>1, SizesAssumption DEF Flush, MarkDue, WriterInv, TypeOK
    <2>4. QED
      BY <1>1, <2>2, <2>3, HeaderIsLength, SizesAssumption
      DEF WriterInv, TypeOK, RowsDoNotPileUp
  <1>2. WriterInv /\ [Next]_vars =>
          [wp' < wp => frame' = wp /\ wp \in 1..MaxLen /\ wp <= FlushAt + row]_vars
    BY <1>1
  <1>3. QED
    BY <1>2, WriterInvariant, PTL DEF Spec, HeadersTell
=============================================================================
