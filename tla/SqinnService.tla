---------------------------- MODULE SqinnService ----------------------------
(***************************************************************************)
(* Sqinn implements Service.  A task is the request's iterations, a query  *)
(* being one.  The server has begun to serve a request when it has read    *)
(* the function code, long before it has read the iterations; what they    *)
(* are is taken from the client's req.                                     *)
(***************************************************************************)
EXTENDS Sqinn

Ops(r) == [i \in DOMAIN r.params |-> [sql |-> r.sql, params |-> r.params[i]]]

OpEffect(d, op) == Applied(d, [sql |-> op.sql, params |-> <<op.params>>], 1)

RolledBack(d) == [d EXCEPT !.work = d.disk, !.auto = TRUE]

phaseOfServer ==
    CASE Down -> "down"
      [] ~Down /\ pc = "flush" -> "answered"
      [] ~Down /\ pc # "flush" /\ h.fc # "none" -> "busy"
      [] OTHER -> "idle"

\* What an INSERT ... RETURNING of a query has inserted becomes part of the data
\* when the query is done: until then it is not committed, even in autocommit mode.
dataOfServer ==
    IF db.stmt.vm = "run" /\ db.stmt.sql = "returning"
    THEN [View(db) EXCEPT !.work = Front(@)] ELSE View(db)

\* After a failure nothing more is to be executed.  A query's operation is done
\* when there are no more rows.
restOfTask ==
    CASE h.fc = "FC_EXEC" /\ h.ok -> SubSeq(Ops(req), h.i + 1, Len(req.params))
      [] h.fc = "FC_QUERY" /\ h.ok /\ h.hasRow -> Ops(req)
      [] OTHER -> <<>>

saidInReply ==
    IF pc # "flush" THEN "none"
    ELSE IF Last(wbuf).k = "string" THEN "error" ELSE "ok"

S == INSTANCE Service WITH
    Tasks <- {Ops(r) : r \in Requests},
    Effect <- OpEffect,
    Undone <- RolledBack,
    InitData <- View(sqlite3_open(<<>>)),
    data <- dataOfServer,
    phase <- phaseOfServer,
    rest <- restOfTask,
    failed <- ~h.ok,
    said <- saidInReply

\* Every step of server and client is a step of Service or leaves it unchanged:
\* iterations are executed one by one and in order, none after a failure and
\* none after the answer, the answer tells which it was, and nothing else that
\* the server does, or the client, or a new session, changes the data.
ImplementsService == S!Spec
=============================================================================
