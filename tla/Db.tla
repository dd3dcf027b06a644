--------------------------------- MODULE Db ---------------------------------
(***************************************************************************)
(* src/lib/db.c: the functions of class Db over a SQLite connection.  Each *)
(* operator is a function of that file; it returns the set of its possible *)
(* outcomes [ok |-> what it returns, db |-> the connection afterwards].    *)
(* The struct's stmt pointer is db.stmt, NULL being NoStmt.                *)
(***************************************************************************)
EXTENDS Sqlite

Result(ok, db) == [ok |-> ok, db |-> db]

\* ASSERT(!this->stmt) is a precondition here: App checks it as Open.
Db_prepare(db, sql) ==
    {Result(o.rc = "ok", o.db) : o \in sqlite3_prepare_v2(db, sql)}

\* All parameters are bound even after one has failed.  A bind that succeeds
\* clears the connection's error, so the error left is that of the last bind.
bind(db, params) ==
    LET s == db.stmt
        rc == [i \in DOMAIN params |-> BindRc(s, i, params[i])]
        vars == [i \in DOMAIN s.vars |->
                    IF i \in DOMAIN params THEN Bound(s, i, params[i]) ELSE s.vars[i]]
    IN IF params = <<>> THEN Result(TRUE, db)
       ELSE Result(\A i \in DOMAIN rc : rc[i] = "ok",
                   [db EXCEPT !.err = rc[Len(params)], !.stmt.vars = vars])

step(db) ==
    {[ok |-> o.rc \in {"done", "row"}, hasRow |-> o.rc = "row", db |-> o.db] :
        o \in sqlite3_step(db)}

\* The result code of sqlite3_reset is logged and otherwise ignored.
reset(db) == {o.db : o \in sqlite3_reset(db)}

Db_bind(db, params) ==
    IF db.stmt = NoStmt THEN Result(FALSE, db) ELSE bind(db, params)

StepUnchecked(db, params) ==  \* the bug of not looking at what bind returns
    IF db.stmt = NoStmt THEN {Result(FALSE, db)}
    ELSE UNION {{Result(s.ok, d) : d \in reset(s.db)} : s \in step(bind(db, params).db)}

Db_bind_step_reset(db, params) ==
    LET b == bind(db, params)
    IN CASE db.stmt = NoStmt -> {Result(FALSE, db)}
         [] db.stmt # NoStmt /\ ~b.ok -> {b}
         [] OTHER -> UNION {{Result(s.ok, d) : d \in reset(s.db)} : s \in step(b.db)}

FetchOneOff(db, coltypes) ==  \* the bug of counting columns like parameters
    LET row == Head(db.stmt.todo)
    IN [i \in DOMAIN coltypes |->
          Column(IF i + 1 \in DOMAIN row THEN row[i + 1] ELSE NullCell, coltypes[i])]

\* A column the statement does not have reads as NULL.  A wanted type that is
\* none of the five value types fails an ASSERT, unless the column is NULL.
fetch(db, coltypes) ==
    LET row == Head(db.stmt.todo)
        cell(i) == IF i \in DOMAIN row THEN row[i] ELSE NullCell
    IN [i \in DOMAIN coltypes |->
          IF cell(i).class = "null" \/ coltypes[i] \in ValueTypes \ {"VT_NULL"}
          THEN Column(cell(i), coltypes[i])
          ELSE [type |-> coltypes[i], v |-> "invalid"]]

Db_step_fetch(db, coltypes) ==
    IF db.stmt = NoStmt
    THEN {[ok |-> FALSE, hasRow |-> TRUE, values |-> <<>>, db |-> db]}
    ELSE {[ok |-> s.ok, hasRow |-> IF s.ok THEN s.hasRow ELSE TRUE, db |-> s.db,
           values |-> IF s.ok /\ s.hasRow THEN fetch(s.db, coltypes) ELSE <<>>] :
             s \in step(db)}

Db_finalize(db) ==
    IF db.stmt = NoStmt THEN {db} ELSE {o.db : o \in sqlite3_finalize(db)}

Db_errmsg(db) == IF db.err = "ok" THEN "not an error" ELSE db.err

Db_free(db) == sqlite3_close(db)
=============================================================================
