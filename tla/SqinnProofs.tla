---------------------------- MODULE SqinnProofs ----------------------------
(***************************************************************************)
(* Theorems about Sqinn, for every set of requests, every I/O fault and    *)
(* every client.                                                           *)
(*                                                                         *)
(* The first part says what each call of db.c does to the connection: it   *)
(* stays a connection, and whether it leaves the data and the statement    *)
(* alone.  The second gives the inductive invariant of the server, with    *)
(* one lemma for each action that calls SQLite.  Both theorems rest on the *)
(* fact that a statement which has returned a row and not ended, the only  *)
(* kind whose reset or finalize may still commit, exists only while a      *)
(* query that has not failed sends its rows.                               *)
(***************************************************************************)
EXTENDS Sqinn, TLAPS

\* A statement and a connection, whatever the data they hold.
IsStmt(s) ==
    s \in [sql : {s.sql}, vm : {"none", "ready", "run", "halt"}, vars : {s.vars},
           todo : {s.todo}, rc : {s.rc}]

IsDb(d) ==
    /\ d \in [disk : {d.disk}, work : {d.work}, auto : BOOLEAN, err : {d.err}, stmt : {d.stmt}]
    /\ IsStmt(d.stmt)

\* sqlite3_open returns a connection without a statement.
LEMMA OpenIsDb == ASSUME NEW rows PROVE IsDb(sqlite3_open(rows)) /\ sqlite3_open(rows).stmt = NoStmt
  BY DEF IsDb, IsStmt, sqlite3_open, NoStmt

\* Db_prepare leaves the data alone, and its statement has not begun to run.
LEMMA PrepareCall ==
    ASSUME NEW d, IsDb(d), NEW sql, NEW o \in Db_prepare(d, sql)
    PROVE  IsDb(o.db) /\ View(o.db) = View(d) /\ o.db.stmt.vm # "run"
  <1> DEFINE Good(e) == IsDb(e) /\ View(e) = View(d) /\ e.stmt.vm # "run"
  <1>1. PICK p \in sqlite3_prepare_v2(d, sql) : o = Result(p.rc = "ok", p.db)
    BY DEF Db_prepare
  <1>2. ASSUME NEW rc PROVE Good([d EXCEPT !.err = rc, !.stmt = NoStmt])
    BY DEF IsDb, IsStmt, View, NoStmt
  <1>3. Good(p.db)
    <2> DEFINE s == [sql |-> sql, vm |-> "ready", todo |-> <<>>, rc |-> "ok",
                               vars |-> [i \in 1..NVars(sql) |-> NullCell]]
    <2>1. IsStmt(s) /\ s.vm = "ready"
      BY DEF IsStmt
    <2>2. \/ \E rc : p = Ret(rc, [d EXCEPT !.err = rc, !.stmt = NoStmt])
          \/ p = Ret("ok", [d EXCEPT !.err = "ok", !.stmt = s])
      BY DEF sqlite3_prepare_v2
    <2>3. ASSUME NEW rc, p = Ret(rc, [d EXCEPT !.err = rc, !.stmt = NoStmt]) PROVE Good(p.db)
      <3>1. p.db = [d EXCEPT !.err = rc, !.stmt = NoStmt]
        BY <2>3 DEF Ret
      <3> HIDE DEF Good
      <3>2. QED
        BY <3>1, <1>2
    <2>4. ASSUME p = Ret("ok", [d EXCEPT !.err = "ok", !.stmt = s]) PROVE Good(p.db)
      <3>1. p.db = [d EXCEPT !.err = "ok", !.stmt = s]
        BY <2>4 DEF Ret
      <3> HIDE DEF s
      <3>2. QED
        BY <3>1, <2>1 DEF IsDb, View
    <2>5. QED
      BY <2>2, <2>3, <2>4
  <1>4. QED
    BY <1>1, <1>3 DEF Result


\* A call that fails leaves a connection, rolled back or not.
LEMMA FailuresAreDb ==
    ASSUME NEW d, IsDb(d), NEW fs, NEW o \in Failures(d, fs)
    PROVE  IsDb(o.db)
  <1>1. IsDb(Rollback(d))
    BY DEF IsDb, IsStmt, Rollback
  <1>2. o.db \in {Rollback(d), d}
    BY DEF Failures, Ret
  <1>3. QED
    BY <1>1, <1>2

\* Committing leaves the statement alone.
LEMMA CommittedIsDb == ASSUME NEW d, IsDb(d) PROVE IsDb(Committed(d)) /\ Committed(d).stmt = d.stmt
  BY DEF IsDb, IsStmt, Committed

\* sqlite3_reset ends the statement, and touches the data only if it was running.
LEMMA ResetCall ==
    ASSUME NEW d, IsDb(d), NEW o \in sqlite3_reset(d)
    PROVE  /\ IsDb(o.db)
           /\ o.db.stmt.vm # "run"
           /\ d.stmt.vm # "run" => View(o.db) = View(d)
  <1> DEFINE ready(e, rc) == [e EXCEPT !.err = rc, !.stmt.vm = "ready",
                                       !.stmt.todo = <<>>, !.stmt.rc = "ok"]
             Good(e, f) == IsDb(f) /\ f.stmt.vm # "run" /\ View(f) = View(e)
  <1>1. ASSUME NEW e, IsDb(e), NEW rc PROVE Good(e, ready(e, rc))
    BY <1>1 DEF IsDb, IsStmt, View
  <1>2. CASE d.stmt.vm = "run"
    <2>1. \/ o = Ret("ok", ready(Committed(d), "ok"))
          \/ \E f \in Failures(d, Faults) : o = Ret(f.rc, ready(f.db, f.rc))
      BY <1>2 DEF sqlite3_reset
    <2>2. Good(Committed(d), ready(Committed(d), "ok"))
      BY <1>1, CommittedIsDb
    <2>3. ASSUME NEW f \in Failures(d, Faults) PROVE Good(f.db, ready(f.db, f.rc))
      <3>1. IsDb(f.db)
        BY FailuresAreDb
      <3>2. QED
        BY <3>1, <1>1
    <2> HIDE DEF ready
    <2>4. QED
      BY <2>1, <2>2, <2>3, <1>2 DEF Ret
  <1>3. CASE d.stmt.vm = "halt"
    <2>1. o = Ret(d.stmt.rc, ready(d, d.stmt.rc))
      BY <1>3 DEF sqlite3_reset
    <2>2. Good(d, ready(d, d.stmt.rc))
      BY <1>1
    <2> HIDE DEF ready
    <2>3. QED
      BY <2>1, <2>2 DEF Ret
  <1>4. CASE d.stmt.vm \notin {"run", "halt"}
    <2>1. o = Ret("ok", d)
      BY <1>4 DEF sqlite3_reset
    <2>2. QED
      BY <2>1, <1>4 DEF Ret
  <1>5. QED
    BY <1>2, <1>3, <1>4

\* So does Db_finalize, and no statement remains.
LEMMA FinalizeCall ==
    ASSUME NEW d, IsDb(d), NEW e \in Db_finalize(d)
    PROVE  /\ IsDb(e)
           /\ e.stmt = NoStmt
           /\ d.stmt.vm # "run" => View(e) = View(d)
  <1>1. CASE d.stmt = NoStmt
    BY <1>1 DEF Db_finalize
  <1>2. CASE d.stmt # NoStmt
    <2>1. PICK o \in sqlite3_reset(d) : e = [o.db EXCEPT !.stmt = NoStmt]
      BY <1>2 DEF Db_finalize, sqlite3_finalize, Ret
    <2>2. IsDb(o.db) /\ (d.stmt.vm # "run" => View(o.db) = View(d))
      BY ResetCall
    <2>3. QED
      BY <2>1, <2>2 DEF IsDb, IsStmt, View, NoStmt
  <1>3. QED
    BY <1>1, <1>2

\* Binding, failed or not, leaves the data and the state of the statement alone.
LEMMA BindCall ==
    ASSUME NEW d, IsDb(d), NEW params
    PROVE  /\ IsDb(bind(d, params).db)
           /\ bind(d, params).ok \in BOOLEAN
           /\ bind(d, params).db.stmt.vm = d.stmt.vm
           /\ View(bind(d, params).db) = View(d)
  <1>1. CASE params = <<>>
    BY <1>1 DEF bind, Result
  <1>2. CASE params # <<>>
    <2> DEFINE bound(rc, vs) == [d EXCEPT !.err = rc, !.stmt.vars = vs]
    <2>1. PICK ok \in BOOLEAN : \E rc, vs : bind(d, params) = Result(ok, bound(rc, vs))
      BY <1>2 DEF bind
    <2>2. PICK rc, vs : bind(d, params) = Result(ok, bound(rc, vs))
      BY <2>1
    <2>3. IsDb(bound(rc, vs)) /\ bound(rc, vs).stmt.vm = d.stmt.vm /\ View(bound(rc, vs)) = View(d)
      BY DEF IsDb, IsStmt, View
    <2> HIDE DEF bound
    <2>4. QED
      BY <2>2, <2>3 DEF Result
  <1>3. QED
    BY <1>1, <1>2

\* What a step of the statement does, before its result is recorded.
LEMMA OutcomesAreDb ==
    ASSUME NEW d, IsDb(d), NEW o \in Execute(d) \cup Continue(d)
    PROVE  IsDb(o.db)
  <1>1. ASSUME NEW rows PROVE IsDb([d EXCEPT !.stmt.todo = rows])
    BY DEF IsDb, IsStmt
  <1>2. ASSUME NEW rc, o \in Write(d, rc) PROVE IsDb(o.db)
    <2> DEFINE row == d.stmt.vars
               new == [d EXCEPT !.work = Append(@, row), !.stmt.todo = <<row>>]
    <2>1. IsDb(new)
      BY DEF IsDb, IsStmt
    <2> HIDE DEF new
    <2>2. IsDb(Committed(new))
      BY <2>1, CommittedIsDb
    <2>3. o \in {Ret("constraint", d), Ret(rc, Committed(new)), Ret(rc, new)}
      BY <1>2 DEF Write, new
    <2>4. QED
      BY <2>1, <2>2, <2>3 DEF Ret
  <1>3. ASSUME NEW rows, o \in Scan(d, rows) PROVE IsDb(o.db)
    <2> DEFINE new == [d EXCEPT !.stmt.todo = rows]
    <2>1. IsDb(new)
      BY <1>1
    <2>2. o.db = new
      BY <1>3 DEF Scan, Ret
    <2> HIDE DEF new
    <2>3. QED
      BY <2>1, <2>2
  <1>4. CASE o \in Execute(d)
    <2> DEFINE begun == [d EXCEPT !.auto = FALSE]
               ended == [d EXCEPT !.disk = d.work, !.auto = TRUE]
    <2>1. IsDb(begun) /\ IsDb(ended) /\ IsDb(Rollback(d))
      BY DEF IsDb, IsStmt, Rollback
    <2>2. CASE d.stmt.sql = "begin"
      <3>1. o \in {Ret("done", begun), Ret("error", d)}
        BY <1>4, <2>2 DEF Execute
      <3> HIDE DEF begun
      <3>2. QED
        BY <3>1, <2>1 DEF Ret
    <2>3. CASE d.stmt.sql = "commit"
      <3>1. o \in {Ret("done", ended), Ret("error", d)}
        BY <1>4, <2>3 DEF Execute
      <3> HIDE DEF ended
      <3>2. QED
        BY <3>1, <2>1 DEF Ret
    <2>4. CASE d.stmt.sql = "rollback"
      <3>1. o \in {Ret("done", Rollback(d)), Ret("error", d)}
        BY <1>4, <2>4 DEF Execute
      <3>2. QED
        BY <3>1, <2>1 DEF Ret
    <2>5. CASE d.stmt.sql \in {"insert", "returning"}
      BY <1>4, <2>5, <1>2 DEF Execute
    <2>6. CASE d.stmt.sql = "select"
      BY <1>4, <2>6, <1>3 DEF Execute
    <2>7. CASE d.stmt.sql \notin {"begin", "commit", "rollback", "insert", "returning", "select"}
      BY <1>4, <2>7, <1>3 DEF Execute
    <2>8. QED
      BY <2>2, <2>3, <2>4, <2>5, <2>6, <2>7, <1>4
  <1>5. CASE o \in Continue(d)
    <2> DEFINE new(rows) == [d EXCEPT !.stmt.todo = rows]
    <2>1. \/ o = Ret("row", new(Tail(d.stmt.todo)))
          \/ o = Ret("done", Committed(new(<<>>)))
      BY <1>5 DEF Continue
    <2>2. IsDb(new(Tail(d.stmt.todo))) /\ IsDb(new(<<>>))
      BY <1>1
    <2> HIDE DEF new
    <2>3. QED
      BY <2>1, <2>2, CommittedIsDb DEF Ret
  <1>6. QED
    BY <1>4, <1>5

\* After step, a statement that goes on running has returned a row.
LEMMA StepCall ==
    ASSUME NEW d, IsDb(d), NEW o \in step(d)
    PROVE  /\ IsDb(o.db)
           /\ o.ok \in BOOLEAN /\ o.hasRow \in BOOLEAN
           /\ o.db.stmt.vm = "run" => o.ok
  <1> DEFINE halt(e) == [e.db EXCEPT !.err = e.rc, !.stmt.vm = "halt", !.stmt.todo = <<>>,
                                     !.stmt.rc = IF e.rc = "done" THEN "ok" ELSE e.rc]
             row(e) == [e.db EXCEPT !.err = "row", !.stmt.vm = "run"]
             Faulty == CASE d.stmt.sql \in {"begin", "rollback"} -> {}
                         [] d.stmt.vm = "run" /\ ~Commits(d) -> Faults \ {"busy"}
                         [] OTHER -> Faults
             outcomes == (IF d.stmt.vm = "run" THEN Continue(d) ELSE Execute(d))
                           \cup Failures(d, Faulty)
  <1>1. PICK c \in sqlite3_step(d) :
          o = [ok |-> c.rc \in {"done", "row"}, hasRow |-> c.rc = "row", db |-> c.db]
    BY DEF step
  <1>2. PICK e \in outcomes : c = Ret(e.rc, IF e.rc = "row" THEN row(e) ELSE halt(e))
    BY DEF sqlite3_step
  <1>3. IsDb(e.db)
    BY OutcomesAreDb, FailuresAreDb
  <1>4. IsDb(row(e)) /\ IsDb(halt(e)) /\ halt(e).stmt.vm = "halt"
    BY <1>3 DEF IsDb, IsStmt
  <1> HIDE DEF row, halt
  <1>5. c.rc = e.rc /\ c.db = IF e.rc = "row" THEN row(e) ELSE halt(e)
    BY <1>2 DEF Ret
  <1>6. /\ o.ok \in BOOLEAN /\ o.hasRow \in BOOLEAN /\ o.db = c.db
        /\ c.rc = "row" => o.ok
    <2> DEFINE ok == c.rc \in {"done", "row"}
               hasRow == c.rc = "row"
    <2>1. o = [ok |-> ok, hasRow |-> hasRow, db |-> c.db]
      BY <1>1
    <2>2. ok \in BOOLEAN /\ hasRow \in BOOLEAN /\ (c.rc = "row" => ok)
      OBVIOUS
    <2> HIDE DEF ok, hasRow
    <2>3. QED
      BY <2>1, <2>2
  <1>7. CASE e.rc = "row"
    <2>1. o.ok /\ o.db = row(e)
      BY <1>5, <1>6, <1>7
    <2>2. QED
      BY <2>1, <1>4, <1>6
  <1>8. CASE e.rc # "row"
    <2>1. o.db = halt(e)
      BY <1>5, <1>6, <1>8
    <2>2. QED
      BY <2>1, <1>4, <1>6
  <1>9. QED
    BY <1>7, <1>8

\* After Db_bind_step_reset no statement is running, however it returns.
LEMMA BindStepResetCall ==
    ASSUME NEW d, IsDb(d), d.stmt.vm # "run", NEW params, NEW o \in Db_bind_step_reset(d, params)
    PROVE  IsDb(o.db) /\ o.db.stmt.vm # "run" /\ o.ok \in BOOLEAN
  <1>1. CASE d.stmt = NoStmt
    <2>1. o = Result(FALSE, d)
      BY <1>1 DEF Db_bind_step_reset
    <2>2. QED
      BY <2>1 DEF Result
  <1>2. CASE d.stmt # NoStmt /\ ~bind(d, params).ok
    <2>1. o = bind(d, params)
      BY <1>2 DEF Db_bind_step_reset
    <2>2. QED
      BY <2>1, BindCall
  <1>3. CASE d.stmt # NoStmt /\ bind(d, params).ok
    <2>1. PICK s \in step(bind(d, params).db) : \E e \in reset(s.db) : o = Result(s.ok, e)
      BY <1>3 DEF Db_bind_step_reset
    <2>2. IsDb(s.db) /\ s.ok \in BOOLEAN
      BY BindCall, StepCall
    <2>3. PICK r \in sqlite3_reset(s.db) : o = Result(s.ok, r.db)
      BY <2>1 DEF reset
    <2>4. QED
      BY <2>2, <2>3, ResetCall DEF Result
  <1>4. QED
    BY <1>1, <1>2, <1>3

\* After Db_step_fetch a statement is running only if it returned true.
LEMMA StepFetchCall ==
    ASSUME NEW d, IsDb(d), NEW coltypes, NEW o \in Db_step_fetch(d, coltypes)
    PROVE  /\ IsDb(o.db)
           /\ o.ok \in BOOLEAN /\ o.hasRow \in BOOLEAN
           /\ o.db.stmt.vm = "run" => o.ok
  <1>1. CASE d.stmt = NoStmt
    <2>1. o = [ok |-> FALSE, hasRow |-> TRUE, values |-> <<>>, db |-> d]
      BY <1>1 DEF Db_step_fetch
    <2>2. NoStmt.vm = "none"
      BY DEF NoStmt
    <2>3. QED
      BY <1>1, <2>1, <2>2
  <1>2. CASE d.stmt # NoStmt
    <2>1. PICK s \in step(d) : \E values :
              o = [ok |-> s.ok, hasRow |-> IF s.ok THEN s.hasRow ELSE TRUE,
                    db |-> s.db, values |-> values]
      BY <1>2, Zenon DEF Db_step_fetch
    <2>2. o.ok = s.ok /\ o.db = s.db /\ o.hasRow \in {s.hasRow, TRUE}
      BY <2>1
    <2>3. QED
      BY <2>2, StepCall
  <1>3. QED
    BY <1>1, <1>2

-----------------------------------------------------------------------------
\* The locals of a handler, whatever they hold; ok is a bool.
IsLocals(l) ==
    l \in [fc : {l.fc}, ok : BOOLEAN, niter : {l.niter}, nparams : {l.nparams}, i : {l.i},
           params : {l.params}, ncols : {l.ncols}, coltypes : {l.coltypes}, hasRow : {l.hasRow}]

\* Between requests the handlers' locals are gone.
BetweenRequests == pc \in {"fc", "quit", "closed", "dead"} => h = NoRequest

\* A statement that may still commit when it is reset belongs to a query whose
\* rows are being sent, none of whose calls has failed.
RunsOnlyInRows == db.stmt.vm = "run" => pc \in {"step", "mark", "reply"} /\ h.ok

ServerInv == IsDb(db) /\ IsLocals(h) /\ NoStatementLeft /\ BetweenRequests /\ RunsOnlyInRows

\* A step of a request that has failed changes no data, unless the process ends.
Untouched == h.fc # "none" /\ ~h.ok /\ pc' # "dead" => View(db)' = View(db)

\* Without a request and a statement, nothing has failed and nothing runs.
LEMMA Nothing == NoStmt.vm = "none" /\ IsLocals(NoRequest) /\ NoRequest.fc = "none" /\ NoRequest.ok
  BY DEF NoStmt, IsLocals, NoRequest

\* A step after which no request is being handled.
LEMMA IdleInv ==
    ASSUME ServerInv, IsDb(db'), (db.stmt)' = NoStmt, h' = NoRequest
    PROVE  ServerInv'
  BY Nothing DEF ServerInv, NoStatementLeft, BetweenRequests, RunsOnlyInRows

\* The invariant holds when the server has started.
LEMMA InitInv == Init => ServerInv
  <1>1. ASSUME Init PROVE IsDb(db) /\ db.stmt = NoStmt /\ h = NoRequest
    BY <1>1, OpenIsDb DEF Init, AppInit
  <1>2. QED
    BY <1>1, Nothing DEF ServerInv, NoStatementLeft, BetweenRequests, RunsOnlyInRows

\* A failed ASSERT keeps the invariant.
LEMMA AbortInv == ASSUME ServerInv, Abort PROVE ServerInv' /\ Untouched
  <1>1. IsDb(db') /\ (db.stmt)' = NoStmt
    BY OpenIsDb DEF Abort, sqlite3_close
  <1>2. QED
    BY <1>1, IdleInv DEF Abort, Untouched

\* Steps that do not call SQLite.
LEMMA OwnStepInv ==
    ASSUME ServerInv, db' = db, IsLocals(h'),
           db.stmt.vm = "run" => pc' \in {"step", "mark", "reply"} /\ h'.ok,
           pc' \in {"fc", "sql", "flush", "quit", "closed", "dead"} => db.stmt = NoStmt,
           pc' \in {"fc", "quit", "closed", "dead"} => h' = NoRequest
    PROVE  ServerInv' /\ Untouched
  BY DEF ServerInv, NoStatementLeft, BetweenRequests, RunsOnlyInRows, Untouched, View

\* Reading a frame may only change what parameters point to (_readNextFrameIfNeeded).
LEMMA FrameInv == ASSUME ServerInv, readNextFrameIfNeeded PROVE ServerInv' /\ Untouched
  <1>1. PICK params \in {h.params, Stale(h.params)} : h' = [h EXCEPT !.params = params]
    BY DEF readNextFrameIfNeeded
  <1>2. IsLocals(h') /\ h'.ok = h.ok /\ db' = db /\ pc' = pc
    BY <1>1 DEF readNextFrameIfNeeded, ServerInv, IsLocals
  <1>3. ASSUME h = NoRequest PROVE h' = NoRequest
    <2>1. h.params = <<>>
      BY <1>3 DEF NoRequest
    <2>2. params = <<>>
      BY <2>1 DEF Stale
    <2>3. QED
      BY <1>1, <1>3, <2>2 DEF NoRequest
  <1>4. QED
    BY <1>2, <1>3, OwnStepInv DEF ServerInv, NoStatementLeft, BetweenRequests, RunsOnlyInRows

\* The reads of App_step, _fcExec and _fcQuery keep the invariant.
LEMMA ReadStepInv ==
    ASSUME ServerInv,
           AppStep \/ ReadNiter \/ ReadNparams \/ ReadParamType
           \/ ReadParamValue \/ ReadNcols \/ ReadColtype
    PROVE  ServerInv' /\ Untouched
  <1>1. CASE AppStep
    <2>1. db' = db /\ IsLocals(h') /\ pc = "fc" /\ pc' \in {"flush", "sql"}
      BY <1>1 DEF AppStep, IsLocals, NoRequest, Read, At
    <2>2. QED
      BY <2>1, Nothing, OwnStepInv DEF ServerInv, NoStatementLeft
  <1>2. CASE ReadNiter \/ ReadNparams \/ ReadParamType \/ ReadParamValue \/ ReadNcols \/ ReadColtype
    <2>1. db' = db /\ IsLocals(h') /\ h'.ok = h.ok
      BY <1>2 DEF ServerInv, IsLocals,
                  ReadNiter, ReadNparams, ReadParamType, ReadParamValue, ReadNcols, ReadColtype
    <2>2. /\ pc \in {"niter", "nparams", "ptype", "pvalue", "ncols", "ctype"}
          /\ pc' \in {"nparams", "ptype", "pvalue", "bind", "reply", "step", "ctype"}
      BY <1>2 DEF NextParam, NextColtype, Read, At,
                  ReadNiter, ReadNparams, ReadParamType, ReadParamValue, ReadNcols, ReadColtype
    <2>3. QED
      BY <2>1, <2>2, OwnStepInv DEF ServerInv, RunsOnlyInRows
  <1>3. QED
    BY <1>1, <1>2

\* The steps that only write a reply keep the invariant.
LEMMA WriteStepInv ==
    ASSUME ServerInv, AppFlush \/ MarkFrame \/ EndRows
    PROVE  ServerInv' /\ Untouched
  <1>1. CASE AppFlush
    <2>1. db' = db /\ h' = NoRequest /\ pc = "flush"
      BY <1>1 DEF AppFlush, WriterFlush
    <2>2. QED
      BY <2>1, Nothing, IdleInv DEF ServerInv, NoStatementLeft, Untouched, View
  <1>2. CASE MarkFrame \/ EndRows
    <2>1. /\ db' = db /\ h' = h
          /\ pc \in {"step", "mark"} /\ pc' \in {"step", "reply"}
      BY <1>2 DEF MarkFrame, EndRows, WriterFlush
    <2>2. QED
      BY <2>1, OwnStepInv DEF ServerInv, RunsOnlyInRows
  <1>3. QED
    BY <1>1, <1>2

\* The end of main frees the connection.
LEMMA ShutdownInv == ASSUME ServerInv, Shutdown PROVE ServerInv' /\ Untouched
  <1>1. IsDb(db') /\ (db.stmt)' = NoStmt
    BY OpenIsDb DEF Shutdown, Db_free, sqlite3_close
  <1>2. h = NoRequest /\ h' = h
    BY DEF Shutdown, ServerInv, BetweenRequests
  <1>3. QED
    BY <1>1, <1>2, IdleInv, Nothing DEF Untouched

\* Db_prepare is called without a statement, so that its ASSERT holds.
LEMMA ReadSqlInv == ASSUME ServerInv, ReadSql PROVE ServerInv' /\ Untouched
  <1>1. db.stmt = NoStmt /\ pc = "sql"
    BY DEF ReadSql, At, ServerInv, NoStatementLeft
  <1>2. PICK o \in Db_prepare(db, Val) : db' = o.db /\ h' = [h EXCEPT !.ok = o.ok]
    BY <1>1 DEF ReadSql, Prepare
  <1>3. IsDb(o.db) /\ View(o.db) = View(db) /\ o.db.stmt.vm # "run"
    BY PrepareCall DEF ServerInv
  <1>4. o.ok \in BOOLEAN
    <2>1. PICK p \in sqlite3_prepare_v2(db, Val) : o = Result(p.rc = "ok", p.db)
      BY DEF Db_prepare
    <2> DEFINE ok == p.rc = "ok"
    <2>2. o = Result(ok, p.db) /\ ok \in BOOLEAN
      BY <2>1
    <2> HIDE DEF ok
    <2>3. QED
      BY <2>2 DEF Result
  <1>5. IsLocals(h')
    BY <1>2, <1>4 DEF ServerInv, IsLocals
  <1>6. pc' \in {"niter", "nparams"}
    BY <1>1 DEF ReadSql
  <1>7. View(db)' = View(db)
    BY <1>2, <1>3 DEF View
  <1>8. QED
    BY <1>2, <1>3, <1>5, <1>6, <1>7
    DEF ServerInv, NoStatementLeft, BetweenRequests, RunsOnlyInRows, Untouched

\* An iteration of _fcExec: after a failure nothing is executed.
LEMMA BindExecInv == ASSUME ServerInv, BindExec PROVE ServerInv' /\ Untouched
  <1>1. pc = "bind" /\ IsDb(db) /\ IsLocals(h) /\ db.stmt.vm # "run"
    BY DEF BindExec, ServerInv, RunsOnlyInRows
  <1>2. PICK o \in ExecIteration(h.ok, db, h.params) :
          db' = o.db /\ h' = [h EXCEPT !.ok = o.ok, !.i = @ + 1, !.params = <<>>]
    BY DEF BindExec
  <1>3. /\ IsDb(o.db) /\ o.db.stmt.vm # "run" /\ o.ok \in BOOLEAN
        /\ ~h.ok => o.db = db
    <2>1. CASE h.ok
      BY <1>1, <1>2, <2>1, BindStepResetCall DEF ExecIteration
    <2>2. CASE ~h.ok
      <3>1. o = Result(FALSE, db)
        BY <1>1, <2>2 DEF ExecIteration, IsLocals
      <3>2. QED
        BY <1>1, <3>1 DEF Result
    <2>3. QED
      BY <2>1, <2>2
  <1>4. IsLocals(h')
    BY <1>1, <1>2, <1>3 DEF IsLocals
  <1>5. pc' \in {"reply", "bind", "ptype"}
    BY DEF BindExec, NextParam
  <1>6. QED
    BY <1>2, <1>3, <1>4, <1>5
    DEF ServerInv, NoStatementLeft, BetweenRequests, RunsOnlyInRows, Untouched, View

\* Binding the parameters of _fcQuery.
LEMMA BindQueryInv == ASSUME ServerInv, BindQuery PROVE ServerInv' /\ Untouched
  <1> DEFINE o == IF h.ok THEN Db_bind(db, h.params) ELSE Result(FALSE, db)
  <1>1. pc = "bind" /\ IsDb(db) /\ IsLocals(h) /\ db.stmt.vm # "run"
    BY DEF BindQuery, ServerInv, RunsOnlyInRows
  <1>2. pc' = "ncols" /\ db' = o.db /\ h' = [h EXCEPT !.ok = o.ok, !.params = <<>>]
    BY DEF BindQuery
  <1>3. o \in {Result(FALSE, db), bind(db, h.params)}
    BY DEF Db_bind
  <1>4. /\ IsDb(o.db) /\ o.ok \in BOOLEAN
        /\ o.db.stmt.vm # "run" /\ View(o.db) = View(db)
    <2>1. CASE o = Result(FALSE, db)
      <3>1. o.ok = FALSE /\ o.db = db
        BY <2>1 DEF Result
      <3> HIDE DEF o
      <3>2. QED
        BY <1>1, <3>1
    <2>2. CASE o = bind(db, h.params)
      <3> HIDE DEF o
      <3>1. QED
        BY <1>1, <2>2, BindCall
    <2>3. QED
      BY <1>3, <2>1, <2>2
  <1> HIDE DEF o
  <1>5. IsLocals(h')
    BY <1>1, <1>2, <1>4 DEF IsLocals
  <1>6. View(db)' = View(db)
    BY <1>2, <1>4 DEF View
  <1>7. QED
    BY <1>2, <1>4, <1>5, <1>6
    DEF ServerInv, NoStatementLeft, BetweenRequests, RunsOnlyInRows, Untouched

\* Fetching a row in _fcQuery, which is done only if nothing has failed.
LEMMA FetchRowInv == ASSUME ServerInv, FetchRow PROVE ServerInv' /\ Untouched
  <1>1. IsDb(db) /\ IsLocals(h) /\ h.ok
    BY DEF FetchRow, ServerInv
  <1>2. PICK o \in Db_step_fetch(db, h.coltypes) :
          IF Unwritable(o.values) THEN Abort
          ELSE /\ db' = o.db /\ h' = [h EXCEPT !.ok = o.ok, !.hasRow = o.hasRow]
               /\ pc' \in {"mark", "step"}
    BY DEF FetchRow
  <1>3. IsDb(o.db) /\ o.ok \in BOOLEAN /\ o.hasRow \in BOOLEAN /\ (o.db.stmt.vm = "run" => o.ok)
    BY <1>1, StepFetchCall
  <1>4. CASE Unwritable(o.values)
    BY <1>2, <1>4, AbortInv
  <1>5. CASE ~Unwritable(o.values)
    <2>1. IsLocals(h') /\ h'.ok = o.ok
      BY <1>1, <1>2, <1>3, <1>5 DEF IsLocals
    <2>2. QED
      BY <1>1, <1>2, <1>3, <1>5, <2>1
      DEF ServerInv, NoStatementLeft, BetweenRequests, RunsOnlyInRows, Untouched
  <1>6. QED
    BY <1>4, <1>5

\* The end of _fcExec and _fcQuery: Db_finalize commits nothing after a failure.
LEMMA ReplyInv == ASSUME ServerInv, Reply PROVE ServerInv' /\ Untouched
  <1>1. /\ IsDb(db') /\ db'.stmt = NoStmt
        /\ db.stmt.vm # "run" => View(db') = View(db)
    BY FinalizeCall DEF Reply, Finalize, ServerInv
  <1>2. pc' = "flush" /\ h' = h
    BY DEF Reply
  <1>3. ~h.ok => db.stmt.vm # "run"
    BY DEF ServerInv, RunsOnlyInRows
  <1>4. QED
    BY <1>1, <1>2, <1>3, Nothing
    DEF ServerInv, NoStatementLeft, BetweenRequests, RunsOnlyInRows, Untouched, View

\* The steps of the client leave the server alone; a new session starts a new one.
LEMMA ClientInv ==
    ASSUME ServerInv,
           Send \/ SendQuit \/ WriteFrame \/ ReadFrame \/ Lose \/ Die \/ Terminated \/ UNCHANGED vars
    PROVE  ServerInv' /\ Untouched
  <1>1. UNCHANGED serverVars
    BY DEF Send, SendQuit, Start, WriteFrame, ReadFrame, Lose, Die, Terminated,
           vars, appVars, serverVars
  <1>2. QED
    BY <1>1, OwnStepInv
    DEF serverVars, ServerInv, NoStatementLeft, BetweenRequests, RunsOnlyInRows

\* A new server has a new connection.
LEMMA NewSessionInv == ASSUME ServerInv, NewSession PROVE ServerInv' /\ Untouched
  <1>1. IsDb(db') /\ (db.stmt)' = NoStmt /\ h' = NoRequest
    BY OpenIsDb DEF NewSession
  <1>2. h = NoRequest
    BY DEF NewSession, Over, Down, ServerInv, BetweenRequests
  <1>3. QED
    BY <1>1, <1>2, IdleInv, Nothing DEF Untouched

\* Every step of server or client keeps the invariant and leaves a failed request's data alone.
LEMMA NextInv == ASSUME ServerInv, [Next]_vars PROVE ServerInv' /\ Untouched
  <1>1. CASE Server
    <2>1. AppNext
      BY <1>1 DEF Server
    <2>2. EndOfInput \/ ShortFrame \/ BrokenPipe \/ InvalidByte \/ BadCount => Abort
      BY DEF EndOfInput, ShortFrame, BrokenPipe, InvalidByte, BadCount
    <2>3. QED
      BY <2>1, <2>2, AbortInv, FrameInv, ReadStepInv, WriteStepInv, ShutdownInv, ReadSqlInv,
         BindExecInv, BindQueryInv, FetchRowInv, ReplyInv
      DEF AppNext
  <1>2. CASE NewSession
    BY <1>2, NewSessionInv
  <1>3. CASE ~Server /\ ~NewSession
    BY <1>3, ClientInv DEF Next
  <1>4. QED
    BY <1>1, <1>2, <1>3

\* The invariant of the server holds whatever client, SQLite and I/O do.
THEOREM ServerInvariant == Spec => []ServerInv
  BY InitInv, NextInv, PTL DEF Spec

\* The statement of a request is finalized before the next request is read, and
\* before the server ends, on every path through _fcExec and _fcQuery.
THEOREM SqinnNoStatementLeft == Spec => []NoStatementLeft
  <1>1. ServerInv => NoStatementLeft
    BY DEF ServerInv
  <1>2. QED
    BY <1>1, ServerInvariant, PTL

\* After the first failure, _fcExec executes no further iteration, and neither
\* its sqlite3_reset nor the sqlite3_finalize at the end commits anything.
THEOREM SqinnNothingAfterFailure == Spec => NothingAfterFailure
  <1>1. ServerInv /\ [Next]_vars =>
          [h.fc # "none" /\ ~h.ok /\ pc' # "dead" => View(db)' = View(db)]_vars
    BY NextInv DEF Untouched
  <1>2. QED
    BY <1>1, ServerInvariant, PTL DEF Spec, NothingAfterFailure
=============================================================================
