------------------------------- MODULE Writer -------------------------------
(***************************************************************************)
(* The stdout Writer of src/lib/io.c, in bytes: how its buffer grows, when *)
(* it is flushed, and how long the frames are.  What the bytes hold is     *)
(* left out; App models that.                                              *)
(*                                                                         *)
(* A call that writes n bytes first makes room for them (_growWriter, one  *)
(* doubling a step) and then copies them.  wpc is "idle" between calls.    *)
(***************************************************************************)
EXTENDS Naturals

CONSTANTS
    InitSize,  \* 1024*1024: the buffer newStdoutWriter allocates
    FlushAt,   \* 1024*1024: the mark of Writer_markFrame
    MaxLen,    \* MAX_LEN
    HeaderRange,  \* 2^32: what the four bytes of a frame header can say
    BlobLens   \* lengths of the blobs and strings that are written

ASSUME SizesAssumption ==
    /\ InitSize \in Nat \ {0} /\ FlushAt \in Nat \ {0} /\ MaxLen \in Nat
    /\ HeaderRange \in Nat /\ InitSize <= MaxLen /\ MaxLen < HeaderRange
ASSUME BlobLensAssumption == BlobLens \subseteq Nat

VARIABLES
    bufsz,    \* size of buf
    wp,       \* write pointer
    wpc,
    need,     \* bytes of the call in progress
    newSize,  \* the local of _growWriter
    frame,    \* what the header of the last frame said, 0 before the first
    row       \* bytes written since the last markFrame or flush

vars == <<bufsz, wp, wpc, need, newSize, frame, row>>

Init ==
    /\ bufsz = InitSize /\ wp = 0 /\ wpc = "idle"
    /\ need = 0 /\ newSize = InitSize
    /\ frame = 0 /\ row = 0

-----------------------------------------------------------------------------
\* A byte, an int32, and an int64 or double.
FixedLens == {1, 4, 8}

\* Writer_writeBlob makes room for its length and content in one call; the
\* length is a Writer_writeInt32, which then has its room.
BlobSize(len) == 4 + len

Call(n) ==
    /\ wpc = "idle"
    /\ need' = n /\ newSize' = bufsz
    /\ wpc' = IF bufsz < wp + n THEN "grow" ELSE "copy"
    /\ UNCHANGED <<bufsz, wp, frame, row>>

WriteFixed == \E n \in FixedLens : Call(n)

WriteBlob == \E len \in BlobLens : len < MaxLen /\ Call(BlobSize(len))

\* ASSERT(len < MAX_LEN) fails.
RefuseBlob ==
    /\ wpc = "idle" /\ \E len \in BlobLens : len >= MaxLen
    /\ wpc' = "dead"
    /\ UNCHANGED <<bufsz, wp, need, newSize, frame, row>>

RoomForCall(size) == size >= need  \* the bug of forgetting what is buffered

\* The loop of _growWriter.
RoomFor(size) == size >= wp + need

DoubleBuffer ==  \* the bug of doubling the old size again
    /\ wpc = "grow" /\ ~RoomFor(newSize)
    /\ newSize' = 2 * bufsz
    /\ UNCHANGED <<bufsz, wp, wpc, need, frame, row>>

Double ==
    /\ wpc = "grow" /\ ~RoomFor(newSize)
    /\ newSize' = 2 * newSize
    /\ UNCHANGED <<bufsz, wp, wpc, need, frame, row>>

TooLargeForHeader(size) == size > HeaderRange  \* the bug of the wrong limit

\* Its end: a buffer beyond MAX_LEN is refused, and the process exits.
TooLarge(size) == size > MaxLen

Grow ==
    /\ wpc = "grow" /\ RoomFor(newSize)
    /\ IF TooLarge(newSize) THEN wpc' = "dead" /\ UNCHANGED bufsz
       ELSE wpc' = "copy" /\ bufsz' = newSize
    /\ UNCHANGED <<wp, need, newSize, frame, row>>

Copy ==
    /\ wpc = "copy"
    /\ wp' = wp + need /\ row' = row + need /\ need' = 0
    /\ wpc' = "idle"
    /\ UNCHANGED <<bufsz, newSize, frame>>

HeaderCountsItself(n) == n - 4  \* the bug of taking n for header and content

\* Writer_flush with something to write: a header, whose four bytes are the
\* low bits of wp, then wp bytes.  Without, it does nothing.
Header(n) == n % HeaderRange

Flush ==
    /\ wpc = "idle" /\ wp > 0
    /\ frame' = Header(wp) /\ wp' = 0 /\ row' = 0
    /\ UNCHANGED <<bufsz, wpc, need, newSize>>

MarkDueByRow == row > FlushAt  \* the bug of looking at one row only

MarkDue == wp > FlushAt

MarkFrame ==
    /\ wpc = "idle"
    /\ row' = 0
    /\ IF MarkDue THEN frame' = Header(wp) /\ wp' = 0 ELSE UNCHANGED <<frame, wp>>
    /\ UNCHANGED <<bufsz, wpc, need, newSize>>

Next ==
    \/ WriteFixed \/ WriteBlob \/ RefuseBlob
    \/ Double \/ Grow \/ Copy
    \/ Flush \/ MarkFrame

Spec == Init /\ [][Next]_vars

\* A call, once begun, is run to its end.
FairSpec == Spec /\ WF_vars(Double \/ Grow \/ Copy)

-----------------------------------------------------------------------------
TypeOK ==
    /\ bufsz \in Nat \ {0} /\ wp \in Nat /\ need \in Nat /\ newSize \in Nat \ {0}
    /\ wpc \in {"idle", "grow", "copy", "dead"}
    /\ frame \in Nat /\ row \in Nat

\* The write pointer stays inside the buffer and the bytes about to be copied
\* fit: _validateWriter and the ASSERTs before each copy never fail.
InBounds ==
    /\ wp <= bufsz
    /\ wpc = "copy" => wp + need <= bufsz

\* Marking keeps frames small: whatever is buffered beyond the mark was written
\* after the last markFrame.
RowsDoNotPileUp == wp <= FlushAt + row

\* The header of a frame is the number of bytes that follow it, and is at most
\* MAX_LEN, the longest frame that the Reader at the other end would accept.
\* The frame exceeds the mark by less than one row.
HeadersTell ==
    [][wp' < wp => /\ frame' = wp /\ wp \in 1..MaxLen
                   /\ wp <= FlushAt + row]_vars

\* _growWriter's loop ends.
CallsEnd == (wpc = "grow") ~> (wpc \in {"idle", "dead"})
=============================================================================
