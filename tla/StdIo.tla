------------------------------- MODULE StdIo -------------------------------
(***************************************************************************)
(* _readStdin and _writeStdout of src/lib/io.c: the loops that move one    *)
(* buffer of Len bytes through a pipe, where a call may move fewer bytes   *)
(* than asked, none, or fail.  The bytes of stdin are numbered 1, 2, ... in *)
(* the order the peer wrote them; those to write are numbered likewise.    *)
(*                                                                         *)
(* The result of read() and write() is kept in a size_t, so that -1 is the *)
(* largest size_t; c wraps accordingly.                                    *)
(***************************************************************************)
EXTENDS Naturals, Sequences

CONSTANTS
    BufLen,      \* the length to move
    SizeMod,   \* 2^64: size_t counts modulo this
    ErrorBound \* calls that may return -1, in each direction

ASSUME LengthAssumption == BufLen \in Nat \ {0} /\ SizeMod \in Nat /\ BufLen + 1 < SizeMod
ASSUME ErrorBoundAssumption == ErrorBound \in Nat

VARIABLES
    rpc,    \* _readStdin: "loop", "done", or "dead" after a failed ASSERT
    rc,     \* its c
    buf,    \* its buffer
    taken,  \* bytes taken from stdin
    eof,    \* the peer has closed stdin: read() returns 0 from now on
    wpc, wc,
    out,    \* bytes written to stdout
    errors  \* calls that have failed, by direction

readVars == <<rpc, rc, buf, taken, eof>>
writeVars == <<wpc, wc, out>>
vars == <<readVars, writeVars, errors>>

Minus1 == SizeMod - 1

Init ==
    /\ rpc = "loop" /\ rc = 0 /\ buf = [i \in 1..BufLen |-> 0] /\ taken = 0
    /\ eof = FALSE
    /\ wpc = "loop" /\ wc = 0 /\ out = <<>>
    /\ errors = [read |-> 0, write |-> 0]

NeverFails(n) == FALSE  \* the bug of not checking for end of file

\* n as the code compares it: unsigned, so only 0 is not positive.
Fails(n) == n = 0

AdvanceWide(c, n) == c + n  \* the bug of a count wider than the result

\* c after a call that returned n.
Advance(c, n) == (c + n) % SizeMod

DoneAfterOne(c) == "done"  \* the bug of relying on one call

\* Where a loop goes: it stops at c >= len, where c = len is asserted.
LoopPc(c) == CASE c < BufLen -> "loop" [] c = BufLen -> "done" [] OTHER -> "dead"

-----------------------------------------------------------------------------
\* read() moved n bytes to buf + c; n = 0 is end of file.
Read(n) ==
    /\ rpc = "loop" /\ n <= BufLen - rc /\ (eof => n = 0)
    /\ eof' = (n = 0)
    /\ buf' = [i \in 1..BufLen |-> IF i \in (rc + 1)..(rc + n) THEN taken + i - rc ELSE buf[i]]
    /\ taken' = taken + n
    /\ IF Fails(n) THEN rpc' = "dead" /\ UNCHANGED rc
       ELSE rc' = Advance(rc, n) /\ rpc' = LoopPc(rc')
    /\ UNCHANGED <<writeVars, errors>>

\* read() returned -1 and moved nothing.
ReadError ==
    /\ rpc = "loop" /\ errors.read < ErrorBound
    /\ errors' = [errors EXCEPT !.read = @ + 1]
    /\ IF Fails(Minus1) THEN rpc' = "dead" /\ UNCHANGED rc
       ELSE rc' = Advance(rc, Minus1) /\ rpc' = LoopPc(rc')
    /\ UNCHANGED <<buf, taken, eof, writeVars>>

Write(n) ==
    /\ wpc = "loop" /\ n <= BufLen - wc
    /\ out' = out \o [i \in 1..n |-> wc + i]
    /\ IF Fails(n) THEN wpc' = "dead" /\ UNCHANGED wc
       ELSE wc' = Advance(wc, n) /\ wpc' = LoopPc(wc')
    /\ UNCHANGED <<readVars, errors>>

WriteError ==
    /\ wpc = "loop" /\ errors.write < ErrorBound
    /\ errors' = [errors EXCEPT !.write = @ + 1]
    /\ IF Fails(Minus1) THEN wpc' = "dead" /\ UNCHANGED wc
       ELSE wc' = Advance(wc, Minus1) /\ wpc' = LoopPc(wc')
    /\ UNCHANGED <<readVars, out>>

Terminated == rpc # "loop" /\ wpc # "loop" /\ UNCHANGED vars

Reads == \E n \in 0..BufLen : Read(n)
Writes == \E n \in 0..BufLen : Write(n)

Next == Reads \/ ReadError \/ Writes \/ WriteError \/ Terminated

Spec == Init /\ [][Next]_vars

\* The loops run on, and calls that do not fail return.
FairSpec == Spec /\ WF_vars(Reads) /\ WF_vars(Writes)

-----------------------------------------------------------------------------
TypeOK ==
    /\ rpc \in {"loop", "done", "dead"} /\ wpc \in {"loop", "done", "dead"}
    /\ rc \in 0..Minus1 /\ wc \in 0..Minus1
    /\ buf \in [1..BufLen -> Nat] /\ taken \in Nat /\ eof \in BOOLEAN
    /\ errors \in [read : 0..ErrorBound, write : 0..ErrorBound]

\* Unless a call failed, the first c bytes of the buffer are the c bytes taken
\* from the pipe, in order and however the calls divided them, and a read that
\* is done has filled the buffer.
ReadFaithful ==
    errors.read = 0 =>
        /\ taken = rc /\ \A i \in 1..rc : buf[i] = i
        /\ rpc = "done" => rc = BufLen

\* Unless a call failed, what has been written is a prefix of the buffer, and
\* all of it when the write is done.
WriteFaithful ==
    errors.write = 0 =>
        /\ out = [i \in 1..wc |-> i]
        /\ wpc = "done" => wc = BufLen

\* Neither loop runs for ever.
LoopsEnd == <>(rpc # "loop" /\ wpc # "loop")

\* A call that fails ends the process, as the ASSERT_FAIL after it says.
ErrorsEndProcess == (errors.read > 0 => rpc # "done") /\ (errors.write > 0 => wpc # "done")
=============================================================================
