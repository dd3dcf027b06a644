------------------------------- MODULE Sqlite -------------------------------
(***************************************************************************)
(* EXTERNAL.  The part of the SQLite C interface that src/lib/db.c relies  *)
(* on, seen from one connection with at most one prepared statement.       *)
(*                                                                         *)
(* Values are named by what they hold; the value "empty" is a string or    *)
(* blob without bytes, "huge" one beyond SQLITE_MAX_LENGTH.                *)
(*                                                                         *)
(* A connection is a record:                                               *)
(*   disk   the committed rows of the one table, in insertion order        *)
(*   work   the rows as this connection sees them                          *)
(*   auto   autocommit mode: no BEGIN is open                              *)
(*   err    what sqlite3_errmsg would report ("ok" reads "not an error")   *)
(*   stmt   the prepared statement                                         *)
(* A call is an operator that returns the SET of its possible outcomes     *)
(* [rc |-> result code, db |-> connection afterwards].                     *)
(*                                                                         *)
(* The table has a UNIQUE first column and a second column.  SQL text is   *)
(* abstracted to the kind of statement it holds.                           *)
(***************************************************************************)
EXTENDS Naturals, Sequences, SequencesExt

CONSTANT Faults   \* the I/O errors the environment may produce

ASSUME FaultsAssumption == Faults \subseteq {"busy", "ioerr"}

ValueTypes ==
    {"VT_NULL", "VT_INT32", "VT_INT64", "VT_DOUBLE", "VT_STRING", "VT_BLOB"}

StorageClass == [t \in ValueTypes |->
    CASE t = "VT_NULL" -> "null"
      [] t \in {"VT_INT32", "VT_INT64"} -> "integer"
      [] t = "VT_DOUBLE" -> "real"
      [] t = "VT_STRING" -> "text"
      [] t = "VT_BLOB" -> "blob"]

NullCell == [class |-> "null", v |-> "none"]

NVars(sql) == CASE sql \in {"insert", "returning"} -> 2
                [] sql = "find" -> 1
                [] OTHER -> 0

NoStmt == [sql |-> "", vm |-> "none", vars |-> <<>>, todo |-> <<>>, rc |-> "ok"]

Ret(rc, db) == [rc |-> rc, db |-> db]

-----------------------------------------------------------------------------
sqlite3_open(rows) ==
    [disk |-> rows, work |-> rows, auto |-> TRUE, err |-> "ok", stmt |-> NoStmt]

\* Text that holds no statement (empty, a comment) compiles to rc ok and a
\* NULL statement.
sqlite3_prepare_v2(db, sql) ==
    LET unprepared(rc) == Ret(rc, [db EXCEPT !.err = rc, !.stmt = NoStmt])
    IN CASE sql = "garbage" -> {unprepared("error")}
         [] sql = "empty" -> {unprepared("ok")}
         [] OTHER ->
              {Ret("ok", [db EXCEPT !.err = "ok",
                     !.stmt = [sql |-> sql, vm |-> "ready", todo |-> <<>>, rc |-> "ok",
                               vars |-> [i \in 1..NVars(sql) |-> NullCell]]])}
                \cup {unprepared(f) : f \in Faults}

-----------------------------------------------------------------------------
\* sqlite3_bind_*: the result for parameter i, and what variable i then holds.
\* Strings and blobs are copied (SQLITE_TRANSIENT), so the variable no longer
\* depends on the caller's memory.
BindRc(stmt, i, val) ==
    CASE stmt.vm # "ready" -> "misuse"
      [] stmt.vm = "ready" /\ i > Len(stmt.vars) -> "range"
      [] stmt.vm = "ready" /\ i <= Len(stmt.vars) /\ val.v = "huge" -> "toobig"
      [] OTHER -> "ok"

Bound(stmt, i, val) ==
    CASE BindRc(stmt, i, val) = "ok" -> [class |-> StorageClass[val.type], v |-> val.v]
      [] BindRc(stmt, i, val) = "toobig" -> NullCell
      [] OTHER -> stmt.vars[i]

-----------------------------------------------------------------------------
Rollback(db) == [db EXCEPT !.work = db.disk, !.auto = TRUE]

\* A finished statement commits by itself in autocommit mode.
Committed(db) == IF db.auto THEN [db EXCEPT !.disk = db.work] ELSE db

\* An I/O error rolls the whole transaction back; a lock held elsewhere makes
\* only the statement fail, which in autocommit mode undoes all it did.
Failures(db, faults) ==
    {Ret(f, IF f = "ioerr" \/ db.auto THEN Rollback(db) ELSE db) : f \in faults}

\* A read-only or in-transaction statement holds its locks once it runs.
Commits(db) == db.auto /\ db.work # db.disk

SameKey(r, s) == r[1] = s[1] /\ r[1].class # "null"

\* The rows with cell as their key, in order.
WithKey(cell, rows) ==
    FlattenSeq([i \in DOMAIN rows |-> IF SameKey(<<cell>>, rows[i]) THEN <<rows[i]>> ELSE <<>>])

Write(db, rc) ==
    LET row == db.stmt.vars
        dup == \E i \in DOMAIN db.work : SameKey(db.work[i], row)
        new == [db EXCEPT !.work = Append(@, row), !.stmt.todo = <<row>>]
    IN IF dup THEN {Ret("constraint", db)}
       ELSE {Ret(rc, IF rc = "done" THEN Committed(new) ELSE new)}

Scan(db, rows) ==
    {Ret(IF rows = <<>> THEN "done" ELSE "row", [db EXCEPT !.stmt.todo = rows])}

\* The first step of a statement.
Execute(db) ==
    LET sql == db.stmt.sql
    IN CASE sql = "begin" ->
              {IF db.auto THEN Ret("done", [db EXCEPT !.auto = FALSE]) ELSE Ret("error", db)}
         [] sql = "commit" ->
              {IF db.auto THEN Ret("error", db)
               ELSE Ret("done", [db EXCEPT !.disk = db.work, !.auto = TRUE])}
         [] sql = "rollback" ->
              {IF db.auto THEN Ret("error", db) ELSE Ret("done", Rollback(db))}
         [] sql = "insert" -> Write(db, "done")
         [] sql = "returning" -> Write(db, "row")
         [] sql = "select" -> Scan(db, db.work)
         [] OTHER -> Scan(db, WithKey(db.stmt.vars[1], db.work))  \* "find"

\* A later step of a statement that has returned a row.
Continue(db) ==
    LET rest == Tail(db.stmt.todo)
    IN {IF rest # <<>> THEN Ret("row", [db EXCEPT !.stmt.todo = rest])
        ELSE Ret("done", Committed([db EXCEPT !.stmt.todo = <<>>]))}

\* Stepping a statement that has ended starts it again.
sqlite3_step(db) ==
    LET running == db.stmt.vm = "run"
        faults == CASE db.stmt.sql \in {"begin", "rollback"} -> {}
                    [] running /\ ~Commits(db) -> Faults \ {"busy"}
                    [] OTHER -> Faults
        outcomes == (IF running THEN Continue(db) ELSE Execute(db)) \cup Failures(db, faults)
        halt(o) == [o.db EXCEPT !.err = o.rc, !.stmt.vm = "halt", !.stmt.todo = <<>>,
                                !.stmt.rc = IF o.rc = "done" THEN "ok" ELSE o.rc]
        row(o) == [o.db EXCEPT !.err = "row", !.stmt.vm = "run"]
    IN {Ret(o.rc, IF o.rc = "row" THEN row(o) ELSE halt(o)) : o \in outcomes}

\* Resetting a statement that still has rows ends it, and that is when an
\* autocommit write is committed or fails to be.  Resetting one that has ended
\* repeats its result.
sqlite3_reset(db) ==
    LET ready(rc, d) == Ret(rc, [d EXCEPT !.err = rc, !.stmt.vm = "ready",
                                          !.stmt.todo = <<>>, !.stmt.rc = "ok"])
    IN CASE db.stmt.vm = "run" ->
              {ready("ok", Committed(db))}
                \cup (IF Commits(db)
                      THEN {ready(f.rc, f.db) : f \in Failures(db, Faults)} ELSE {})
         [] db.stmt.vm = "halt" -> {ready(db.stmt.rc, db)}
         [] OTHER -> {Ret("ok", db)}

sqlite3_finalize(db) ==
    {Ret(o.rc, [o.db EXCEPT !.stmt = NoStmt]) : o \in sqlite3_reset(db)}

-----------------------------------------------------------------------------
\* sqlite3_column_*: the value of a cell read as the wanted type.  Reading it
\* as another storage class converts it; a NULL stays NULL.  Bytes that are
\* zero long have a NULL address when they are read as a blob.
Column(cell, type) ==
    CASE cell.class = "null" -> [type |-> "VT_NULL", v |-> "none"]
      [] cell.class # "null" /\ cell.v = "empty" /\ type = "VT_BLOB" ->
             [type |-> type, v |-> "nullptr"]
      [] OTHER ->
             [type |-> type,
              v |-> IF cell.class = StorageClass[type] THEN cell.v ELSE "converted"]

\* Closing, or the process ending, gives up an open transaction.
sqlite3_close(db) == sqlite3_open(db.disk)
=============================================================================
