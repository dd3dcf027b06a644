-------------------------------- MODULE App --------------------------------
(***************************************************************************)
(* The server process: src/lib/app.c over the Reader and Writer of         *)
(* src/lib/io.c and the Db of src/lib/db.c.                                *)
(*                                                                         *)
(* The process is single-threaded, and meets its environment only where it *)
(* reads or writes a frame or calls SQLite; an action is the code from one *)
(* such point, or from one token read, to the next.  pc names the read or  *)
(* the call that comes next.  The locals of _fcExec and _fcQuery are the   *)
(* record h.  The Reader's buffer is rbuf, what is unread of the current   *)
(* frame; the Writer's is wbuf, what is not flushed.                       *)
(*                                                                         *)
(* A failed ASSERT ends the process: see Abort.                            *)
(***************************************************************************)
EXTENDS Wire

CONSTANTS
    PipeCap,   \* frames a pipe holds before its writer blocks
    FlushAt    \* tokens in wbuf beyond which Writer_markFrame flushes

ASSUME PipeCapAssumption == PipeCap \in Nat \ {0}
ASSUME FlushAtAssumption == FlushAt \in Nat

VARIABLES
    db,        \* this->db
    pc,
    h,
    rbuf, wbuf,
    stdin, stdout,  \* frames in the pipes
    peer       \* "gone" once the other ends of both pipes are closed

serverVars == <<db, pc, h, rbuf, wbuf>>
appVars == <<db, pc, h, rbuf, wbuf, stdin, stdout, peer>>

NoRequest == [fc |-> "none", ok |-> TRUE, niter |-> 0, nparams |-> 0, i |-> 0,
              params |-> <<>>, ncols |-> 0, coltypes |-> <<>>, hasRow |-> TRUE]

AppInit ==
    /\ db = sqlite3_open(<<>>)
    /\ pc = "fc" /\ h = NoRequest
    /\ rbuf = <<>> /\ wbuf = <<>>
    /\ stdin = <<>> /\ stdout = <<>>
    /\ peer = "open"

\* exit(1): nothing is flushed, and SQLite's journal undoes an open transaction.
Abort ==
    /\ pc' = "dead" /\ db' = sqlite3_close(db) /\ h' = NoRequest
    /\ rbuf' = <<>> /\ wbuf' = <<>>
    /\ UNCHANGED <<stdin, stdout, peer>>

-----------------------------------------------------------------------------
\* Reader.

\* The kind of token the handler reads next.
Want == CASE pc \in {"fc", "ptype", "ctype"} -> "byte"
          [] pc = "sql" -> "string"
          [] pc \in {"niter", "nparams", "ncols"} -> "int32"
          [] pc = "pvalue" -> Payload(Last(h.params).type)
          [] OTHER -> "none"

Reading == Want # "none"

\* What becomes of pointers into the buffer when the next frame is read into
\* it: it is reallocated and overwritten, so they may dangle; if the memory
\* happens to survive, they still read the old bytes.
Stale(params) ==
    [i \in DOMAIN params |->
        IF params[i].type \in Pointers THEN [params[i] EXCEPT !.v = "stale"] ELSE params[i]]

readNextFrameIfNeeded ==
    /\ Reading /\ rbuf = <<>> /\ stdin # <<>>
    /\ rbuf' = Head(stdin) /\ stdin' = Tail(stdin)
    /\ \E params \in {h.params, Stale(h.params)} : h' = [h EXCEPT !.params = params]
    /\ UNCHANGED <<db, pc, wbuf, stdout, peer>>

\* read() returns 0: the client has gone, and ASSERT_FAIL ends the process.
EndOfInputRetried ==  \* the bug of taking 0 for "try again"
    /\ Reading /\ rbuf = <<>> /\ stdin = <<>> /\ peer = "gone"
    /\ UNCHANGED appVars

EndOfInput ==
    /\ Reading /\ rbuf = <<>> /\ stdin = <<>> /\ peer = "gone"
    /\ Abort

\* The frame holds fewer bytes than the value that is read from it.
ShortFrame ==
    /\ Reading /\ rbuf # <<>> /\ Head(rbuf).k # Want
    /\ Abort

\* The token wanted at p is there; its value; consuming it.
At(p) == pc = p /\ rbuf # <<>> /\ Head(rbuf).k = Want

Val == Head(rbuf).v

Read(p) ==
    /\ At(p)
    /\ rbuf' = Tail(rbuf)
    /\ UNCHANGED <<stdin, stdout, peer>>

-----------------------------------------------------------------------------
\* Writer.

FlushDue == pc = "flush" \/ (pc = "mark" /\ Len(wbuf) > FlushAt)

WriterFlushUnblocked(p) ==  \* the bug of not waiting for room in the pipe
    /\ FlushDue /\ peer = "open"
    /\ stdout' = Append(stdout, wbuf) /\ wbuf' = <<>>
    /\ pc' = p
    /\ UNCHANGED <<db, rbuf, stdin, peer>>

\* The frame is wbuf; pc continues at p.
WriterFlush(p) ==
    /\ FlushDue /\ peer = "open" /\ Len(stdout) < PipeCap
    /\ stdout' = Append(stdout, wbuf) /\ wbuf' = <<>>
    /\ pc' = p
    /\ UNCHANGED <<db, rbuf, stdin, peer>>

\* Writing to a pipe whose reader has gone.
BrokenPipe ==
    /\ FlushDue /\ peer = "gone"
    /\ Abort

-----------------------------------------------------------------------------
\* App_step, up to the handler, and after it.

FunctionCodes == {"FC_EXEC", "FC_QUERY", "FC_QUIT"}

AppStep ==
    /\ Read("fc") /\ Val \in FunctionCodes
    /\ h' = [NoRequest EXCEPT !.fc = Val]
    /\ IF Val = "FC_QUIT" THEN pc' = "flush" /\ wbuf' = wbuf \o Status(TRUE, "")
       ELSE pc' = "sql" /\ UNCHANGED wbuf
    /\ UNCHANGED db

InvalidByteIsNull ==  \* the bug of reading an unknown type as NULL
    \/ At("fc") /\ Val \notin FunctionCodes /\ Abort
    \/ /\ Read("ptype") /\ Val \notin ValueTypes
       /\ h' = [h EXCEPT !.params = Append(@, [type |-> "VT_NULL", v |-> "none"])]
       /\ pc' = IF Len(h'.params) = h.nparams THEN "bind" ELSE "ptype"
       /\ UNCHANGED <<db, wbuf>>

\* The default branches of the switches on function code and value type.
InvalidByte ==
    /\ (At("fc") /\ Val \notin FunctionCodes) \/ (At("ptype") /\ Val \notin ValueTypes)
    /\ Abort

AppFlushWhenFull ==  \* the bug of only marking the end of a reply
    /\ pc = "flush"
    /\ IF Len(wbuf) > FlushAt THEN WriterFlush(IF h.fc = "FC_QUIT" THEN "quit" ELSE "fc")
       ELSE pc' = "fc" /\ UNCHANGED <<db, rbuf, wbuf, stdin, stdout, peer>>
    /\ h' = NoRequest

AppFlush ==
    /\ pc = "flush"
    /\ WriterFlush(IF h.fc = "FC_QUIT" THEN "quit" ELSE "fc")
    /\ h' = NoRequest

\* main's run loop ends: everything is freed and the connection closed.
Shutdown ==
    /\ pc = "quit"
    /\ pc' = "closed" /\ db' = Db_free(db)
    /\ UNCHANGED <<h, rbuf, wbuf, stdin, stdout, peer>>

-----------------------------------------------------------------------------
\* _fcExec and _fcQuery: the statement and its parameters.

Prepare(sql) ==
    \E o \in Db_prepare(db, sql) :
        /\ db' = o.db
        /\ h' = [h EXCEPT !.ok = o.ok]

ReadSql ==
    /\ At("sql")
    /\ IF db.stmt # NoStmt THEN Abort
       ELSE /\ Read("sql")
            /\ Prepare(Val)
            /\ pc' = IF h.fc = "FC_EXEC" THEN "niter" ELSE "nparams"
            /\ UNCHANGED wbuf

ReadNiter ==
    /\ Read("niter")
    /\ h' = [h EXCEPT !.niter = Val]
    /\ pc' = "nparams"
    /\ UNCHANGED <<db, wbuf>>

NextParamEarly(hh) ==  \* the bug of replying as soon as something fails
    CASE hh.fc = "FC_EXEC" /\ (hh.i >= hh.niter \/ ~hh.ok) -> "reply"
      [] ~(hh.fc = "FC_EXEC" /\ (hh.i >= hh.niter \/ ~hh.ok)) /\ Len(hh.params) = hh.nparams ->
             "bind"
      [] OTHER -> "ptype"

\* Where the handler goes when hh are its locals: to the next parameter of
\* this iteration, to binding them, or past the last iteration.
NextParam(hh) ==
    CASE hh.fc = "FC_EXEC" /\ hh.i >= hh.niter -> "reply"
      [] ~(hh.fc = "FC_EXEC" /\ hh.i >= hh.niter) /\ Len(hh.params) = hh.nparams -> "bind"
      [] OTHER -> "ptype"

\* A negative count times the size of an element is a size_t that no malloc can
\* serve: memAlloc ends the process.
BadCount ==
    /\ (At("nparams") \/ At("ncols")) /\ Val < 0
    /\ Abort

ReadNparams ==
    /\ Read("nparams") /\ Val >= 0
    /\ h' = [h EXCEPT !.nparams = Val]
    /\ pc' = NextParam(h')
    /\ UNCHANGED <<db, wbuf>>

ReadParamType ==
    /\ Read("ptype") /\ Val \in ValueTypes
    /\ h' = [h EXCEPT !.params = Append(@, [type |-> Val, v |-> "none"])]
    /\ pc' = IF Val = "VT_NULL" THEN NextParam(h') ELSE "pvalue"
    /\ UNCHANGED <<db, wbuf>>

ReadParamValue ==
    /\ Read("pvalue")
    /\ h' = [h EXCEPT !.params[Len(h.params)].v = Val]
    /\ pc' = NextParam(h')
    /\ UNCHANGED <<db, wbuf>>

ExecIterationLast(ok, d, params) ==  \* the bug of letting the last one decide
    Db_bind_step_reset(d, params)

ExecIterationAll(ok, d, params) ==  \* the bug of going on after a failure
    {Result(ok /\ o.ok, o.db) : o \in Db_bind_step_reset(d, params)}

ExecIterationBinds(ok, d, params) ==  \* the bug of still binding them: it clears the error
    IF ok THEN Db_bind_step_reset(d, params) ELSE {Result(FALSE, bind(d, params).db)}

\* After a failure the remaining iterations are read but not executed.
ExecIteration(ok, d, params) ==
    IF ok THEN Db_bind_step_reset(d, params) ELSE {Result(ok, d)}

BindExec ==
    /\ pc = "bind" /\ h.fc = "FC_EXEC"
    /\ \E o \in ExecIteration(h.ok, db, h.params) :
         /\ db' = o.db
         /\ h' = [h EXCEPT !.ok = o.ok, !.i = @ + 1, !.params = <<>>]
    /\ pc' = NextParam(h')
    /\ UNCHANGED <<rbuf, wbuf, stdin, stdout, peer>>

BindQuery ==
    /\ pc = "bind" /\ h.fc = "FC_QUERY"
    /\ LET o == IF h.ok THEN Db_bind(db, h.params) ELSE Result(FALSE, db)
       IN /\ db' = o.db
          /\ h' = [h EXCEPT !.ok = o.ok, !.params = <<>>]
    /\ pc' = "ncols"
    /\ UNCHANGED <<rbuf, wbuf, stdin, stdout, peer>>

-----------------------------------------------------------------------------
\* _fcQuery: the columns and the rows.

NextColtype(hh) == IF Len(hh.coltypes) = hh.ncols THEN "step" ELSE "ctype"

ReadNcols ==
    /\ Read("ncols") /\ Val >= 0
    /\ h' = [h EXCEPT !.ncols = Val]
    /\ pc' = NextColtype(h')
    /\ UNCHANGED <<db, wbuf>>

ReadColtype ==
    /\ Read("ctype")
    /\ h' = [h EXCEPT !.coltypes = Append(@, Val)]
    /\ pc' = NextColtype(h')
    /\ UNCHANGED <<db, wbuf>>

\* ASSERTs that end the process: an unknown wanted type, and a value whose
\* address is NULL.
Unwritable(values) == \E i \in DOMAIN values : values[i].v \in {"invalid", "nullptr"}

FetchRow ==
    /\ pc = "step" /\ h.ok /\ h.hasRow
    /\ \E o \in Db_step_fetch(db, h.coltypes) :
         IF Unwritable(o.values) THEN Abort
         ELSE /\ db' = o.db
              /\ h' = [h EXCEPT !.ok = o.ok, !.hasRow = o.hasRow]
              /\ wbuf' = IF o.ok /\ o.hasRow THEN wbuf \o EncodeRow(o.values) ELSE wbuf
              /\ pc' = IF o.ok /\ o.hasRow THEN "mark" ELSE "step"
              /\ UNCHANGED <<rbuf, stdin, stdout, peer>>

MarkFrame ==
    /\ pc = "mark"
    /\ IF FlushDue THEN WriterFlush("step")
       ELSE pc' = "step" /\ UNCHANGED <<db, rbuf, wbuf, stdin, stdout, peer>>
    /\ UNCHANGED h

EndRows ==
    /\ pc = "step" /\ ~(h.ok /\ h.hasRow)
    /\ wbuf' = Append(wbuf, Tok("byte", FALSE))
    /\ pc' = "reply"
    /\ UNCHANGED <<db, h, rbuf, stdin, stdout, peer>>

-----------------------------------------------------------------------------
\* The end of both handlers.

FinalizeIfOk(d) ==  \* the bug of leaving the handler early after a failure
    IF h.ok THEN Db_finalize(d) ELSE {d}

Finalize(d) == Db_finalize(d)

Reply ==
    /\ pc = "reply"
    /\ wbuf' = wbuf \o Status(h.ok, Db_errmsg(db))
    /\ db' \in Finalize(db)
    /\ pc' = "flush"
    /\ UNCHANGED <<h, rbuf, stdin, stdout, peer>>

AppNext ==
    \/ readNextFrameIfNeeded \/ EndOfInput \/ ShortFrame \/ BrokenPipe
    \/ AppStep \/ InvalidByte \/ BadCount \/ AppFlush \/ Shutdown
    \/ ReadSql \/ ReadNiter \/ ReadNparams \/ ReadParamType \/ ReadParamValue
    \/ BindExec \/ BindQuery
    \/ ReadNcols \/ ReadColtype \/ FetchRow \/ MarkFrame \/ EndRows
    \/ Reply
=============================================================================
