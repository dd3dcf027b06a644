------------------------------- MODULE Reader -------------------------------
(***************************************************************************)
(* The Reader of src/lib/io.c, byte by byte, at one end of a pipe.  At the *)
(* other end values are written as the Writer does it, into a buffer that  *)
(* is flushed as a frame.  Requests take this way from a client to the     *)
(* server and replies the way back, so that either end may be the server.  *)
(* The writer may also put bytes into the pipe that are no such frame.     *)
(*                                                                         *)
(* Which kind of value is read next is decided by the protocol: it is the  *)
(* kind of the next value that was written, or any kind once the input is  *)
(* broken.  Waiting for the bytes of a frame is the loop of StdIo.         *)
(***************************************************************************)
EXTENDS Codec

CONSTANTS
    Values,     \* the values that may be written, by kind
    Stored,     \* integers in the database
    Garbage,    \* what else the writer may put into the pipe
    MaxValues   \* bound on the values written, and on those read

ASSUME ValuesAssumption ==
    /\ DOMAIN Values = Kinds
    /\ \A k \in Kinds : \A v \in Values[k] : v \in ValuesOf[k]
ASSUME StoredAssumption == Stored \subseteq Int64
ASSUME GarbageAssumption == Garbage \subseteq Seq(Byte)
ASSUME MaxValuesAssumption == MaxValues \in Nat

VARIABLES
    wbuf,     \* the Writer's buffer
    stdin,    \* the bytes in the pipe
    open,     \* its writer has not closed it
    buf, rp,  \* this->buf (bufsz is its length) and this->rp
    pc,       \* "run", or "dead" after a failed ASSERT
    touched,  \* the bytes of buf that the last call has looked at
    sent,     \* values written
    got,      \* values read, strings and blobs as bytes in memory
    read,     \* the same as the bytes that encode them
    payload,  \* the contents of all frames read
    honest    \* no garbage was written

vars == <<wbuf, stdin, open, buf, rp, pc, touched, sent, got, read, payload, honest>>

Init ==
    /\ wbuf = <<>> /\ stdin = <<>> /\ open = TRUE
    /\ buf = <<>> /\ rp = 0 /\ pc = "run" /\ touched = {}
    /\ sent = <<>> /\ got = <<>> /\ read = <<>> /\ payload = <<>> /\ honest = TRUE

-----------------------------------------------------------------------------
\* The writer.

readerVars == <<buf, rp, pc, touched, got, read, payload>>

Write(k, v, bytes) ==
    /\ open /\ Len(sent) < MaxValues
    /\ wbuf' = wbuf \o bytes
    /\ sent' = Append(sent, [k |-> k, v |-> v])
    /\ UNCHANGED <<stdin, open, honest, readerVars>>

WriteValue == \E k \in Kinds : \E v \in Values[k] : Write(k, v, Encode(k, v))

\* Writer_writeString copies up to the first zero byte.
WriteText == \E v \in Values["string"] : Write("string", v, Encode("string", CString(v)))

\* A column that is wanted as VT_INT32.
WriteColumn == \E v \in Stored : Write("int32", v, Encode("int32", sqlite3_column_int(v)))

Flush ==
    /\ open /\ wbuf # <<>>
    /\ stdin' = stdin \o Split32(Len(wbuf)) \o wbuf
    /\ wbuf' = <<>>
    /\ UNCHANGED <<open, sent, honest, readerVars>>

WriteGarbage ==
    /\ open /\ honest
    /\ \E bytes \in Garbage : stdin' = stdin \o bytes
    /\ honest' = FALSE
    /\ UNCHANGED <<wbuf, open, sent, readerVars>>

Close ==
    /\ open
    /\ open' = FALSE
    /\ UNCHANGED <<wbuf, stdin, sent, honest, readerVars>>

-----------------------------------------------------------------------------
\* The Reader.

writerVars == <<wbuf, open, sent, honest>>

Die ==
    /\ pc' = "dead"
    /\ UNCHANGED <<writerVars, stdin, buf, rp, touched, got, read, payload>>

\* _readNextFrameIfNeeded.
NeedsFrame == pc = "run" /\ rp = Len(buf) /\ Len(got) < MaxValues

FrameLen == Join32(SubSeq(stdin, 1, 4))

LenOk == 1 <= FrameLen /\ FrameLen <= MaxLen

ReadFrame ==
    /\ NeedsFrame /\ Len(stdin) >= 4 /\ LenOk /\ Len(stdin) >= 4 + FrameLen
    /\ buf' = SubSeq(stdin, 5, 4 + FrameLen)
    /\ stdin' = SubSeq(stdin, 5 + FrameLen, Len(stdin))
    /\ rp' = 0 /\ touched' = {}
    /\ payload' = payload \o buf'
    /\ UNCHANGED <<writerVars, pc, got, read>>

BadLength ==
    /\ NeedsFrame /\ Len(stdin) >= 4 /\ ~LenOk
    /\ Die

EndOfInput ==
    /\ NeedsFrame /\ ~open
    /\ Len(stdin) >= 4 => LenOk /\ Len(stdin) < 4 + FrameLen
    /\ Die

\* A call that finds something left of the frame.
Wanted(k) ==
    /\ pc = "run" /\ rp < Len(buf) /\ Len(got) < MaxValues
    /\ honest => Len(got) < Len(sent) /\ k = sent[Len(got) + 1].k

\* this->buf[i - 1]; beyond the buffer memory holds anything.
At(i) == IF i \in DOMAIN buf THEN buf[i] ELSE 0

Bytes(from, n) == [i \in 1..n |-> At(from + i)]

Reencoded(k, v) == IF k \in {"string", "blob"} THEN Prefixed(v) ELSE Encode(k, v)

Consume(k, v, n) ==
    /\ got' = Append(got, [k |-> k, v |-> v])
    /\ read' = read \o Reencoded(k, v)
    /\ rp' = rp + n
    /\ touched' = (rp + 1)..(rp + n)
    /\ UNCHANGED <<writerVars, stdin, buf, pc, payload>>

RoomBefore(n) == Len(buf) >= n   \* the bug of forgetting what is read already

\* ASSERT(this->bufsz - this->rp >= n).
Room(n) == Len(buf) - rp >= n

ReadFixed(k) ==
    /\ Wanted(k) /\ Room(Size[k])
    /\ Consume(k, Decode(k, Bytes(rp, Size[k])), Size[k])

\* The length of a string or blob, as readBlob has it.
BlobLenOrNone ==  \* the bug of taking a negative length for none
    LET len == Decode("int32", Bytes(rp, 4)) IN IF len < 0 THEN 0 ELSE len

BlobLen == SizeT(Decode("int32", Bytes(rp, 4)))

BlobFits == Room(4) /\ BlobLen <= MaxLen /\ Room(4 + BlobLen)

\* p[len-1]; for a length of 0 that is the last byte of the length itself.
Terminated == At(rp + 4 + BlobLen) = 0

ReadBlob(k) ==
    /\ Wanted(k) /\ BlobFits
    /\ k = "string" => Terminated
    /\ Consume(k, Bytes(rp + 4, BlobLen), 4 + BlobLen)

ReadFails(k) ==
    /\ Wanted(k)
    /\ IF k \in DOMAIN Size THEN ~Room(Size[k])
       ELSE ~(BlobFits /\ (k = "string" => Terminated))
    /\ Die

Read ==
    \/ \E k \in DOMAIN Size : ReadFixed(k)
    \/ \E k \in {"string", "blob"} : ReadBlob(k)

\* Nothing more is written or read: the bounds are reached, or the end.
Done ==
    /\ ~open /\ (pc = "dead" \/ Len(got) = MaxValues \/ (honest /\ rp < Len(buf)))
    /\ UNCHANGED vars

Next ==
    \/ WriteValue \/ WriteText \/ WriteColumn \/ Flush \/ WriteGarbage \/ Close
    \/ ReadFrame \/ BadLength \/ EndOfInput
    \/ Read \/ \E k \in Kinds : ReadFails(k)
    \/ Done

Spec == Init /\ [][Next]_vars

-----------------------------------------------------------------------------
\* Properties.

\* No call looks beyond the frame it reads from, or behind it, whatever bytes
\* come down the pipe: lengths that are negative, zero or too large included.
InBounds == rp \in 0..Len(buf) /\ touched \subseteq 1..Len(buf)

\* y is how the value x arrives: text ends at its first zero byte, and an
\* integer wider than the int32 it is wanted as keeps its low 32 bits.
ArrivesAs(x, y) ==
    /\ y.k = x.k
    /\ CASE x.k = "int32" -> /\ y.v \in Int32 /\ (y.v - x.v) % Word32 = 0
                             /\ x.v \in Int32 => y.v = x.v
         [] x.k = "string" -> y.v # <<>> /\ CString(y.v) = CString(x.v)
         [] OTHER -> y.v = x.v

\* What is read is what was written, value for value and in order, however the
\* values are divided into frames.
RoundTrip ==
    honest => /\ Len(got) <= Len(sent)
              /\ \A i \in DOMAIN got : ArrivesAs(sent[i], got[i])

\* Reading well-formed frames fails no ASSERT.
ReadsSucceed == honest /\ open => pc = "run"

\* For any input the values read account for every byte of every frame: none
\* is skipped, read twice, read as something else, or lost when the next frame
\* is loaded.
NothingSkipped == read \o SubSeq(buf, rp + 1, Len(buf)) = payload

TypeOK ==
    /\ stdin \in Seq(Byte) /\ buf \in Seq(Byte) /\ wbuf \in Seq(Byte)
    /\ rp \in Int /\ pc \in {"run", "dead"}
    /\ open \in BOOLEAN /\ honest \in BOOLEAN
=============================================================================
