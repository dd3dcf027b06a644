# Sqinn, modelled in TLA+

Sqinn is a process that lends a client an SQLite database over stdin and
stdout. The client writes requests, divided into frames, to one pipe and reads
replies, divided into frames, from another. The server is single-threaded and
serves one request after another: prepare a statement, bind parameters, step,
reply, finalize.

These modules model the server from its sources (`src/lib/app.c`, `db.c`,
`io.c`, `main.c`, `utl.c`), the protocol from `src/rfc.txt`, and the part of the SQLite interface
that the server uses. TLC checks small instances; TLAPS proves theorems about
all of them.

## Inventory

| Part | State | Operations | Talks to |
|---|---|---|---|
| App (`app.c`) | no state between requests; the locals of the two handlers | `App_step`, `_fcExec`, `_fcQuery`, `_fcQuit` | Reader, Writer, Db by calls |
| Db (`db.c`) | connection, at most one statement | prepare, bind, step, reset, fetch, finalize, errmsg, free | SQLite by calls |
| Reader (`io.c`) | frame buffer, read pointer | read a byte, int32, int64, double, string, blob; refill | stdin |
| Writer (`io.c`) | growing buffer, write pointer | write the same; markFrame; flush | stdout |
| transfer loops (`io.c`) | a count | `_readStdin`, `_writeStdout` | `read()`, `write()` |
| lifecycle (`main.c`) | options | parse options, start, run loop, shutdown, leak check | all |
| memory accounting (`utl.c`) | two counters; the tracking of blocks is compiled out | init, alloc, realloc, free | libc |
| logging (`utl.c`) | level, file | print; dumps of frames at level 2 | stderr, a file |
| client (`rfc.txt`) | its request, the reply so far | send, read, quit, die | the pipes |
| SQLite (`sqlite3.c`, third party) | table, transaction, error, statement | the calls of db.c | the file, other processes' locks |

What makes it hard, and what has to be right:

* *Two parties over two bounded pipes.* They must stay in step on every error
  path, and must not block on full pipes against each other.
* *Pointers into a buffer that is refilled.* Strings and blobs are not copied
  when they are read.
* *Partial failure.* A FC_EXEC of many iterations is not atomic unless the
  client opened a transaction; it executes while it is still being read. A
  query may fail after rows have been sent. SQLite may fail in any call.
* *The end of the other party.* The client may die in the midst of a request;
  the server's answer to any broken rule is `exit(1)`.
* *Sizes.* Buffers double up to a limit; frame headers have 32 bits; `read()`
  and `write()` may move less than asked or fail. Lengths and counts come from
  the client as signed 32-bit numbers and are used as `size_t`.
* *Memory by hand.* The handlers allocate and go on after failures; what is
  allocated must be freed once, on every path, and the counters that check this
  at the end are ints.

The hazards, line by line, are in `PROJECT.json` with the properties that
cover them.

## Modules

`Sqlite` <- `Db` <- `Wire` <- `App` <- `Sqinn`: each extends the one before it.
`SqinnService` and `Main` extend Sqinn, the first to show that it implements
`Service`, the second (with `Options`) to put it into a process. `Codec` <-
`Reader`, `Writer` and `StdIo` are the layers below App in bytes. `MCSqinn`,
`MCMain`, `MCReader` and `MCWriter` give the constants their values.

* **Sqlite** is the interface `db.c` calls. A connection is a record of what is
  committed (`disk`), what the connection sees (`work`), autocommit, the error
  that `sqlite3_errmsg` would report, and the statement. Calls return the set of
  their possible outcomes. One table with a unique column stands for the
  schema. SQL text is a kind of statement: insert, insert with RETURNING,
  select all, select by key, begin, commit, rollback, a syntax error, and text
  without a statement. The environment may make calls fail with a lock held
  elsewhere (`busy`) or an I/O error (`ioerr`, which rolls back the whole
  transaction). Values are named; `"empty"` has zero bytes, `"huge"` is beyond
  SQLite's length limit, `"stale"` is what a dangling pointer reads.
* **Db** has one operator per function of `db.c`, again as sets of outcomes.
  `_bind` is written in closed form: the outcome of each parameter does not
  depend on the others, and the error that remains is that of the last one.
* **Wire** encodes requests and rows as sequences of tokens. A token is what
  rule (c) of the protocol keeps in one frame: a byte, an integer, a double, a
  string or a blob. One `"value"` token in a reply is a type byte and payload.
* **App** is the server process: `pc` names what the code reads or calls next;
  `h` are the handler's locals; `rbuf` is the unread rest of the Reader's frame;
  `wbuf` what the Writer has not flushed. The code between two reads or calls is
  one action, since nothing else runs in the process. Refilling the Reader
  while an iteration's parameters are being read turns the strings and blobs
  among them into `"stale"`, or leaves them if the memory happens to survive.
  A failed ASSERT is `Abort`: the process ends, and the open transaction with
  it. `InvalidByte`, `ShortFrame` and `Unwritable` are the ASSERTs that data can
  fail; the one in `Db_prepare` is part of `ReadSql`.
* **Sqinn** composes App with a client that keeps the rules: send a request in
  frames, read the reply to its end, go on, quit; or die at any moment. A new
  session may follow on the same database. `IsRequest` is what a client can send at
  all: SQL of a kind that Sqlite knows and as many values as it announces; a code or a
  type may be unknown, a count negative, a value cut short. `base` (the database when the request
  was sent) and `acked` (what the client was told is committed) are history
  variables for the properties.
* **Service** is what the server promises of a request, without frames, buffers,
  statements or a client: a task is a sequence of operations, executed one after
  another, each wholly or not at all, up to the first that fails; then the answer,
  ok only if all are done; and nothing else changes the data, except that what is
  not committed is lost when the server stops.
* **SqinnService** maps Sqinn to it. The server is busy from reading the function
  code on; the operations still to do are the iterations of the request from `h.i`
  on, none once `h.ok` is false; a query is one operation, done when it has no more
  rows. What `INSERT ... RETURNING` has inserted counts as data only then
  (`dataOfServer`), as it is not committed before. The rows themselves are not part of Service: `QueryFaithful` is about them.
* **Main** is the process: `phase` is where `main` is, `heap` the blocks that are
  allocated, each named after the variable that points to it, `mallocs` and `frees`
  the counters, as numbers that wrap at `CounterRange`. An action of App is taken
  together with what the lines it stands for allocate and free. (A block that is
  freed on the spot, a hexdump, is only counted.) `RowsFreed`, `FreedWithParams` and
  the like are the calls of `memFree`.
* **Options** is `getOption` and what `main.c` makes of it. An argument is a name
  with a length; what `strncpy` keeps of it is the name and the number of characters
  kept.
* **Codec** has the bytes of each kind of value, as `Writer_write...` splits them
  and `Reader_read...` joins them, over bytes of any size; and what
  `sqlite3_column_int` and `strlen` keep.
* **Reader** is the Reader on the bytes of a pipe: frames, the read pointer, every
  ASSERT on lengths, strings and blobs whose length is any 32-bit number. At the
  other end values are written into frames, or any bytes of `Garbage`.
  `touched` is what the last call looked at, `payload` the contents of all frames.
* **Writer** is the Writer's buffer in bytes: growth by doubling, the mark,
  flushing, the 32 bits of the header.
* **StdIo** is the pair of loops around `read()` and `write()`, with `c` and `n`
  as unsigned numbers that wrap.
* **SqinnProofs**, **ExchangeProofs**, **DataProofs**, **MainProofs**, **ReaderProofs**,
  **WriterProofs** and **StdIoProofs** hold the theorems; **Lemmas** the arithmetic
  and the facts about sequences that several of them need.

Operators commented "the bug of ..." are not used by the modules: each is a
definition as a plausible mistake would have it, and `PROJECT.json` says which
property finds it out.

## Runs

| Run | What it shows |
|---|---|
| `exec` | Inserts of two iterations and a query with RETURNING, alone and in transactions, a syntax error; locks and I/O errors in every call; four requests. Ok means all iterations are done (and committed, outside a transaction) and nothing else is (`OkMeansApplied`); not ok means a proper prefix, or the transaction rolled back (`ErrorMeansPrefix`); nothing changes after the first failure (`NothingAfterFailure`). Every step is one of Service (`ImplementsService`). |
| `frames` | Requests cut into frames after any value, except between a string or blob and the end of its iteration; binds, prepares and commits that fail, keys that clash, locks and I/O errors. The parties stay in step (`InStep`, `ServerSurvives`, `ReadsBeforeItWrites`); `OkMeansApplied`, `OnlySentRows`, `ImplementsService`; an error message is a reason why the iteration after the executed ones failed (`ErrorSaysWhy`). Rows stream through pipes that they fill, also those that an INSERT with RETURNING returns; conversions, NULLs, columns and parameters too many, errors between rows: `QueryFaithful`, `ReplyInWholeRows`, `TypeOK`. |
| `crash` | The client may die between any two steps or send what breaks the encoding; up to three requests over several sessions. `NoStatementLeft`, `Durable`, `EndLeavesPrefix`, `AnsweredAreDecodable`, `ImplementsService` (with stops and restarts); liveness `Answers`, `ServerEnds`. |
| `reader` | Two values of any kind, in one frame or two, then any of 35 pieces of garbage: frame lengths of 0 and beyond the limit, frames cut short, strings and blobs that are empty, too long, negative or unterminated. What is read is what was written (`RoundTrip`), no ASSERT fails on it (`ReadsSucceed`), no read leaves its frame (`InBounds`), no byte is skipped (`NothingSkipped`), `TypeOK`. |
| `main` | All command lines of up to five words after `run`, then sessions of two requests that take the handlers through all their ways: no iterations, failing SQL, a clash, a negative count, no columns, a value that cannot be written; I/O errors; a dying client. `OptionsAsGiven`; exactly the blocks whose variables are live are allocated (`HeapIsNeeded`); `CountersAgree`, `CleanExit`, `MainTypeOK`. |
| `writer` | The buffer through all its doublings up to the limit. `InBounds`, `RowsDoNotPileUp`, `HeadersTell`, `CallsEnd`, `TypeOK`. |
| `stdio` | Buffers of four bytes moved in any portions, with end of file and failing calls. `ReadFaithful`, `WriteFaithful`, `LoopsEnd`, `TypeOK`. |
| `stale`, `returning`, `blob`, `errmsg`, `stdio_errors` | Counterexamples: see Findings. |

**Bounds.** `MaxRequests` bounds the requests of all sessions. Four in `exec`
are enough for begin, a failing request, a request after it and commit; the
others need a request that fills the table, one that fails, one that observes.
Two iterations show a failure before, and after, a success; two parameters a
pointer read before a refill. `PipeCap` is 1 or 2 frames, so pipes do fill.
`FlushAt` of 3 tokens makes results of two rows take two frames. The Writer's
sizes (4, 4, 31, 64) stand in the ratio of 2^20, 2^20, 2^31-1 and 2^32, with
fewer doublings. In `reader` a byte has two bits (`HalfBase` = 2), so that an int32
has 8 and an int64 16: sign, carry and order of bytes are all there. `MaxValues` of 2
is a value before and one after the boundary that is being looked at. In `main`
`CounterRange` is 8, less than the allocations of a session, so the counters wrap;
five words are two options with values and a flag, in any order. Nothing is made
symmetric.

**Refinement.** `ImplementsService` is checked where the server keeps the promise:
not with FC_EXEC of a `returning` statement or frames that end inside an iteration's
parameters, which are the findings. A step of
Sqinn is one step of Service, or none: the step that answers also finalizes, the one
that binds also executes.

**Fairness.** The server is a process that runs unless it is blocked on a pipe:
weak fairness of its next step. The client goes on with a request it has begun:
weak fairness of writing a frame, reading a frame and noticing that the server
has gone. Sending, quitting and dying are not fair. The Writer's loop and the
transfer loops are code that runs; a blocked `read()` or `write()` returns when
the peer goes on, which is the fairness of `Reads` and `Writes`. The runs of Reader
and Main are about safety and assume none.

**Deadlock** is checked in the Sqinn, Main, Reader and StdIo runs, where ending is an explicit
stuttering step. In `writer` the process may have ended by an ASSERT.

## Findings

* `stale`: the protocol lets a frame end after any value, but `_fcExec` and
  `_fcQuery` keep pointers into the Reader's buffer until all parameters of the
  iteration are read. With the parameters of one iteration in two frames, wrong
  data is stored. The `frames` run shows that clients that end frames elsewhere
  are safe.
* `returning`: `INSERT ... RETURNING` through FC_EXEC commits only in
  `sqlite3_reset`, whose result `_reset` drops, so a failed commit is answered ok.
* `blob`: a zero-length blob has a NULL address when fetched, and `Writer_writeBlob`
  asserts it is not NULL; the query ends the server.
* `errmsg`: a request can fail with the message "not an error". `_bind` goes on after a
  parameter that it could not bind, and binding the next one clears the connection's
  error; and SQL that holds no statement leaves no error at all. A bind fails for a value
  beyond SQLite's limit of 10^9 bytes, which a frame can carry. Where neither happens the
  message is a reason for the failure (`ErrorSaysWhy` in `frames`).
* `stdio_errors`: `size_t n; if (n <= 0)` does not see -1. After a short transfer,
  the count goes back by one and the loop goes on; a byte is lost or repeated and
  the stream is out of step. It takes a non-blocking or interrupted pipe.

Smaller ones have no run of their own. Because the Writer doubles from
2^20 to 2^30 and then to 2^31, it exits on contents between 2^30 and MAX_LEN,
which the ASSERTs would admit. Not every request that breaks the encoding is refused, so
`AnsweredAreDecodable` is about the rules that are enforced: an unknown wanted
type is noticed only when there is a value to be read as it (src/lib/db.c:198-204), and a
negative number of iterations executes nothing and is answered (src/lib/app.c:43); both
are requests of `crash`. `Reader_readString` accepts a string of length 0, which
rfc.txt (2.4) calls not valid: the byte it tests is then the last byte of the length,
which is 0 (`InBounds` holds all the same; in App a string has at least its final zero).
`sqlite3_column_int` keeps the low 32 bits of a wider integer, and text is cut at its first
zero byte, by `sqlite3_bind_text` (src/lib/db.c:116) as by `Writer_writeString`: Codec takes
what they keep as the value that is to arrive, so no property flags it. `getOption` looks for an option's name
among values too, so that in `-logfile -db -db x` the database is `-db`; `WellFormedArgs`
leaves such lines out of `OptionsAsGiven`. `-loglevel 3` means off.

## Proofs

`WriterProofs` proves, for every initial size, mark, limit and set of lengths
with `InitSize <= MaxLen < HeaderRange` (`SizesAssumption`), that `TypeOK`,
`InBounds` and `RowsDoNotPileUp` always hold and that every step satisfies
`HeadersTell`. The invariants are not inductive alone: `InBounds` after a growth
needs that the new size was never below the old one, and the header needs that
the buffer never exceeds `MaxLen`. `WriterInv` adds both. There is one case per
action; the header's truth rests on the lemma that a number below the modulus is
its own remainder.

`SqinnProofs` proves two properties of the whole system, for every set of
requests (well-formed or not), every client and every I/O fault:
`NoStatementLeft` and the action property `NothingAfterFailure`. Neither is
inductive. The invariant `ServerInv` adds that the handlers' locals are gone
between requests, and `RunsOnlyInRows`: a statement that has returned a row and
not ended, the only kind that a reset or finalize may still commit, exists only
while a query is sending rows and `h.ok` holds. So the `Db_finalize` at the end of
a failed request commits nothing. One lemma for each function of `db.c` says what
it does to the connection; then there is one for each action that calls it.

`ExchangeProofs` proves what makes server and client a protocol, for every set of
requests that `IsRequest` admits, every way to divide them into frames (`Cuts`), every
fault, size of the pipes and mark: `InStep`, `ReadsBeforeItWrites`, `ReplyInWholeRows`,
`AnsweredAreDecodable` and `TypeOK`. Its invariant, `ExchangeInv`, is about positions.
`Unread(req, pc, h)` is the part of the request's encoding that a handler standing at
`pc` with the locals `h` has still to read; `Stream` is what is in the Reader's buffer,
in the pipe and in the client's hands, in this order. `RequestMatches` says that the
two are equal, so a handler that reads a token finds the one it is about to read:
each `Read` takes the head off both. `Located` bounds the locals by the request
(iterations and parameters done, at most those there are), `ClientMatches` says in
which of its states the client can be, and `ReplyMatches` that what it has of the reply
followed by what is on the way is rows, then an end. `TypeOK` is not provable
without all of it: that a count is a number is known only from the token it is read from.
`AnsweredAreDecodable` needs that a reply is read only after its request has been, rule
by rule, and that whatever is on its way to the client has a type (`TypesKnown`).
Encodings are flattened sequences of sequences. `Lemmas` has the equations of
`FlattenSeq`, by induction on the length; the induction itself is one
lemma about a set of numbers (`NatInd`), since the library's theorem takes an operator.

`DataProofs` proves what requests do to the data: `OkMeansApplied`, `ErrorMeansPrefix`,
`EndLeavesPrefix`, `Durable` and `OnlySentRows`, again for every set of requests, fault,
size and client, under two `Precautions`: frames do not end between a string or blob and
the end of its iteration's parameters, and FC_EXEC is not used with RETURNING. Neither can
be dropped: `stale` and `returning` are the counterexamples. The invariant, `DataInv`,
stands on `ExchangeInv` and `ServerInv` and has three parts.

* `ParamsIntact`: no frame in the pipe or in the Reader's buffer is divided where it must
  not be, so the parameters that a handler holds are what was sent, and the buffer is not
  refilled while it holds a pointer into it.
* `StmtMatches`: the open statement is the request's, and when it is stepped its
  variables are the row of the parameters sent.
* `DataMatches`: at every point of a handler the database is `Applied(base, req, n)`, the
  effect of the first `n` iterations on what it was when the request was sent, where `n`
  is the number of iterations done (`Progress`); or, when a call has failed, the effect
  of a proper prefix, or the rolled back transaction of the client (`Failed`, `Lost`). An
  RETURNING query that has its row but is not reset is in between (`Pending`). The same
  facts, carried through the reply, the end of the server and the next session, are what
  the theorems say.

One lemma gives the effect of a call of SQLite on the data, one the effect of an
iteration, and there is one for each action. `Applied` is a fold over the iterations; the
lemmas say what one more iteration does to it.

On the same invariant stands `SqinnImplementsService`: under the `Precautions`, Sqinn
implements Service (`ImplementsService`), for all values of the constants. The invariant
tells where the refinement mapping is before and after each step; then one lemma for
each kind of step says which action of Service it is. `BindExec` is `Execute` when the
call succeeds, `Fail` when it fails, nothing after a failure; `FetchRow` is `Execute`
when there are no more rows, so that what is pending before that is undone by a failure
as Service has it; `Reply` is `Answer`, which needs that all operations are done when
nothing has failed, and that `Db_finalize` commits nothing (`RunsOnlyInRows`); every
ASSERT, wherever it ends the server, is `Stop`.

`SqinnQueryFaithful` is about the other direction, from the statement to the client. `Answer`
is all of a reply that has been written: what the client has read of it, what is in the
pipe, and the Writer's buffer. The invariant `QueryMatches` says that at every point of
`_fcQuery` the answer is the first `k` of the rows that the query has to deliver
(`Says`), and that the statement is about to return just the others (`ToCome`). A fetch
takes one row from the statement and adds it to the answer; sending a frame and reading
one leave the answer as it was, which is why it does not matter where frames end. The
client finds the rows in the answer by counting columns (`RowsOf`), so the proof needs
that no other count of rows fits the same tokens.

`SqinnServerSurvives` proves `ServerSurvives` for requests that are `Serviceable`: they are
well-formed, want types that a value can have, and carry no value without bytes if any of
them wants a blob. The `blob` run is the counterexample without the last. Every other ASSERT
is shown not to fail: what the Reader wants is what comes next (`WantedComes`), counts are not
negative, no statement is open when one is prepared, and every row that is fetched was sent by
some request (`OnlySentRows`), in this session or an earlier one (`BaseReadable`).

`SqinnErrorSaysWhy` proves `ErrorSaysWhy` for requests that are `Explicable`: they have a
statement, and no value beyond SQLite's limit is followed by another in its iteration. Both
conditions are needed: the finding `errmsg` is what happens without them. The property says
more than that there is a message: it must be a reason (`Explains`: a syntax error, a
parameter too many or too large, a key that is there, a transaction that is open or is
not) why the iteration after those that were executed fails on the data they left, or an
I/O error. The invariant `ErrorKept` says that while a request that has not failed has
its statement, ready for the next iteration, one that has failed has left a reason on
the connection (`Explained`), and that it stays one: `sqlite3_reset` repeats it, and nothing
is called between the failure and the reply. That the reason is one for this iteration
needs `DataMatches` (which iteration it is), `ParamsIntact` (its parameters) and `StmtMatches`
(its statement).

All three theorems also assume the `Precautions`, since they stand on `DataInv`; that these
properties need them is not claimed. The requests of `frames` satisfy all of these
hypotheses but one: they carry an empty string, which none of their queries reads as a blob.

`StdIoProofs` proves `TypeOK`, `ReadFaithful` and `WriteFaithful` for every buffer
length below the range of `size_t` (`LengthAssumption`). Together they are
inductive: a count that has not met a failed call never wraps, as it stays at or
below the length.

`ReaderProofs` proves for every size of a byte (`HalfBaseAssumption`), and for every
`Garbage`, that `InBounds`, `NothingSkipped` and `TypeOK` always hold; and that an int32
and an int64 are read as they were written (`Int32RoundTrip`, `Int64RoundTrip`). The
numbers need that splitting and joining are inverse modulo the word, and that two's
complement is a remainder; `NothingSkipped` needs the converse, that what was read is
encoded as the very bytes it was read from. Multiplication by an unknown base is not
linear, so the solver is led by `Lemmas`: there is one quotient and one remainder.

`ReaderRoundTrip` and `ReaderReadsSucceed` prove `RoundTrip` and `ReadsSucceed` for every
sequence of values, every division into frames and every size of a byte, under one
hypothesis: `FramesFit`, that no frame exceeds `MAX_LEN`. `_growWriter` asserts it
(src/lib/io.c:225-226), an ASSERT that module Writer has and module Reader leaves out; every
state of `reader` satisfies it. The invariant, `StreamInv`, says that while the writer is
honest the bytes not yet read are encodings of values cut into frames (what is left of the
frame in the buffer, the whole frames in the pipe, the frame being written), and that these
are, in order, the values sent and not yet got. The Reader takes the head off this list:
`NextValue` says that the bytes at its position are a whole encoding of the next value.
`EncodeFixed` and `FixedArrives` say that the bytes of a value of fixed size have that size
and give the value back; `CStringIs` and `BlobArrives` the same for strings, which end at
their first zero byte, and blobs. The encodings are existentially quantified, so TLC checks
the two properties but not `StreamInv`.

`MainProofs` proves `HeapIsNeeded`, `CountersAgree`, `CleanExit` and `MainTypeOK` for
every command line, client, request and fault, and counters of any width. It builds on
`ServerInv`. `HeapInv` adds that a handler reads and binds parameters only while there
are iterations left (or it would free them twice), what is allocated in each phase of
`main`, and that the counters differ by the number of blocks up to a multiple of their
range; at the end that multiple must be 0, since both are below it. `HeapIsNeeded` is about
the calls of `memFree`: it does not see a pointer into the Reader's buffer that outlives
it, which is the finding `stale`.

It also proves `OptionsAsGiven` for command lines of any length (`MainOptionsAsGiven`).
`OptsInv` says which options `main` has taken in each phase; `OptionAt` that on a well-formed
line the name of an option that takes a value stands once, and never last, so that the first
argument `getOption` finds is the option and the next its value. It assumes of the constants that
every argument and default has a length (`LengthAssumption`, `ArgvsAssumption`), and that
`atoi` makes an int of whatever is in its buffer (`AtoiAssumption`).

Only model-checked: liveness, which is out of the prover's reach, as fairness and ENABLED
are.

## Plan

Done: the server and its client with their runs; Writer, StdIo, Codec and Reader;
Service and the refinement; Options and Main; the proofs above.

Left: a second connection.

## Not modelled

* Of SQLite, everything behind the calls; a second connection appears only as locks.
  `sqlite3.c` and `sqlite3.h` are third-party code, and nearly all lines of the
  repository: the share of its lines that is mapped says little of the share of
  Sqinn's own code, which is modelled but for the points below.
* What is logged, and how. It goes to stderr or a file, and changes nothing else.
* The tracking of single blocks in `utl.c`, which `MAX_BLOCKS` 0 compiles out, and
  `printMem`. `malloc` does not fail for sizes it can serve; running out of memory is
  not modelled.
* The self-tests (`testIo`, `testDb`, `testApp`) and what serves only them, the mem
  variants of Reader and Writer. The build scripts.
