------------------------------- MODULE Sqinn -------------------------------
(***************************************************************************)
(* The system: a server process (App) and the client that started it, over *)
(* two pipes.  The client keeps the rules of rfc.txt: it sends a request   *)
(* whole, reads the reply whole, then sends the next; it ends with         *)
(* FC_QUIT, or dies.  After a session another may open the same database.  *)
(***************************************************************************)
EXTENDS App

CONSTANTS
    Requests,     \* what a client may send, besides FC_QUIT
    MaxRequests,  \* bound on the requests of all sessions
    Cuts,         \* where a client may end a frame: see CutOk
    ClientMayDie

\* The kinds of SQL text that Sqlite tells apart.
Statements == {"insert", "returning", "find", "select", "begin", "commit", "rollback",
               "garbage", "empty"}

\* What a client sends has the shape of a request, if not always its contents:
\* codes and types may be unknown, values cut short, counts negative.
IsRequest(r) ==
    /\ r \in [fc : STRING \ {"FC_QUIT"}, sql : STRING, niter : Int, nparams : Int,
              params : Seq(Seq([type : STRING, v : STRING])), coltypes : Seq(STRING)]
    /\ r.fc \in {"FC_EXEC", "FC_QUERY"} => r.sql \in Statements
    /\ r.fc = "FC_EXEC" => r.niter = Len(r.params) \/ (r.niter < 0 /\ r.params = <<>>)
    /\ r.fc = "FC_QUERY" => Len(r.params) = 1
    /\ \A i \in DOMAIN r.params :
         /\ r.nparams >= 0 => Len(r.params[i]) = r.nparams
         /\ \A j \in DOMAIN r.params[i] :
              r.params[i][j].type = "VT_NULL" => r.params[i][j].v = "none"

ASSUME RequestsAssumption == \A r \in Requests : IsRequest(r)
ASSUME CutsAssumption == Cuts \in {"whole", "safe", "value"}
ASSUME MaxRequestsAssumption == MaxRequests \in Nat
ASSUME ClientMayDieAssumption == ClientMayDie \in BOOLEAN

VARIABLES
    st,     \* the client's state
    req,    \* its last request
    todo,   \* the tokens of req still to send
    got,    \* the tokens of the reply read so far
    sent,   \* requests sent
    base,   \* the database as it was when req was sent
    acked   \* rows the client has been told are committed

clientVars == <<st, req, todo, got, sent, base, acked>>
vars == <<appVars, clientVars>>

QuitRequest == [fc |-> "FC_QUIT", sql |-> "", niter |-> 0, nparams |-> 0, params |-> <<>>,
                coltypes |-> <<>>]
NoReq == [QuitRequest EXCEPT !.fc = "none"]

View(d) == [disk |-> d.disk, work |-> d.work, auto |-> d.auto]

Init ==
    /\ AppInit
    /\ st = "idle" /\ req = NoReq /\ todo = <<>> /\ got = <<>> /\ sent = 0
    /\ base = View(db) /\ acked = <<>>

-----------------------------------------------------------------------------
\* What a request is to do.

Iterations(r) == IF r.fc = "FC_EXEC" THEN Len(r.params) ELSE 1

Cell(p) == [class |-> StorageClass[p.type], v |-> p.v]

Row(params) == [i \in 1..2 |-> IF i \in DOMAIN params THEN Cell(params[i]) ELSE NullCell]

\* The database b after the first j iterations of r.
Applied(b, r, j) ==
    LET rows == b.work \o [i \in 1..j |-> Row(r.params[i])]
    IN CASE r.sql \in {"insert", "returning"} ->
              [b EXCEPT !.work = rows, !.disk = IF b.auto THEN rows ELSE b.disk]
         [] r.sql = "begin" /\ j > 0 -> [b EXCEPT !.auto = FALSE]
         [] r.sql = "commit" /\ j > 0 -> [b EXCEPT !.disk = b.work, !.auto = TRUE]
         [] r.sql = "rollback" /\ j > 0 -> [b EXCEPT !.work = b.disk, !.auto = TRUE]
         [] OTHER -> b

\* The rows a query has to deliver, and what of them.
Matching(b, r) ==
    LET row == Row(r.params[1])
    IN CASE r.sql = "select" -> b.work
         [] r.sql = "find" -> WithKey(row[1], b.work)
         [] r.sql = "returning" -> <<row>>
         [] OTHER -> <<>>

Selected(b, r) ==
    [i \in DOMAIN Matching(b, r) |->
        [c \in DOMAIN r.coltypes |->
            Column(IF c \in 1..2 THEN Matching(b, r)[i][c] ELSE NullCell, r.coltypes[c])]]

-----------------------------------------------------------------------------
Down == pc \in {"dead", "closed"}

Start(r) ==
    /\ st' = "sending" /\ req' = r /\ todo' = Encode(r) /\ got' = <<>>
    /\ base' = View(db)
    /\ UNCHANGED <<appVars, acked>>

Send ==
    /\ st = "idle" /\ sent < MaxRequests
    /\ \E r \in Requests : Start(r)
    /\ sent' = sent + 1

SendQuit ==
    /\ st = "idle"
    /\ Start(QuitRequest)
    /\ UNCHANGED sent

\* Rule (c) lets a frame end after any value.  "safe" does not let it end
\* between a string or blob and the end of its parameter group; "whole" keeps
\* a request in one frame.
SplitsGroup(k) ==
    \E j \in 1..k : /\ todo[j].k \in {"string", "blob"}
                   /\ todo[j].g # 0 /\ todo[j].g = todo[k + 1].g

CutOk(k) ==
    \/ k = Len(todo)
    \/ Cuts = "value"
    \/ Cuts = "safe" /\ ~SplitsGroup(k)

WriteFrame ==
    /\ st = "sending" /\ ~Down /\ Len(stdin) < PipeCap
    /\ \E k \in {n \in 1..Len(todo) : CutOk(n)} :
         /\ stdin' = Append(stdin, SubSeq(todo, 1, k))
         /\ todo' = SubSeq(todo, k + 1, Len(todo))
         /\ st' = IF k = Len(todo) THEN "reading" ELSE "sending"
    /\ UNCHANGED <<serverVars, stdout, peer, req, got, sent, base, acked>>

\* What the client may now take as committed.
Acknowledged(reply) ==
    IF ReplyOk(reply) /\ req.fc = "FC_EXEC" /\ (base.auto \/ req.sql = "commit")
    THEN Applied(base, req, Iterations(req)).disk ELSE acked

ReadFrame ==
    /\ st = "reading" /\ stdout # <<>>
    /\ stdout' = Tail(stdout)
    /\ got' = got \o Head(stdout)
    /\ IF Complete(req, got')
       THEN /\ st' = IF req = QuitRequest THEN "bye" ELSE "idle"
            /\ acked' = Acknowledged(got')
       ELSE UNCHANGED <<st, acked>>
    /\ UNCHANGED <<serverVars, stdin, peer, req, todo, sent, base>>

\* The server has ended, and the client notices.
Lose ==
    /\ Down
    /\ st = "sending" \/ (st = "reading" /\ stdout = <<>>)
    /\ st' = "lost"
    /\ UNCHANGED <<appVars, req, todo, got, sent, base, acked>>

Die ==
    /\ ClientMayDie /\ st \in {"idle", "sending", "reading"}
    /\ st' = "dead" /\ peer' = "gone"
    /\ UNCHANGED <<serverVars, stdin, stdout, req, todo, got, sent, base, acked>>

Over == Down /\ st \in {"bye", "lost", "dead"}

\* Another client starts another server on the same database file.
NewSession ==
    /\ Over /\ sent < MaxRequests
    /\ db' = sqlite3_open(db.disk)
    /\ pc' = "fc" /\ h' = NoRequest /\ rbuf' = <<>> /\ wbuf' = <<>>
    /\ stdin' = <<>> /\ stdout' = <<>> /\ peer' = "open"
    /\ st' = "idle" /\ req' = NoReq /\ todo' = <<>> /\ got' = <<>>
    /\ base' = View(db')
    /\ UNCHANGED <<sent, acked>>

Terminated == Over /\ sent = MaxRequests /\ UNCHANGED vars

Server == AppNext /\ UNCHANGED clientVars

Next ==
    \/ Server
    \/ Send \/ SendQuit \/ WriteFrame \/ ReadFrame \/ Lose \/ Die
    \/ NewSession \/ Terminated

Spec == Init /\ [][Next]_vars

\* The server runs whenever it is not blocked, and a living client goes on with
\* the request it has begun.  Nothing makes a client send, quit or die.
FairSpec ==
    /\ Spec
    /\ WF_vars(Server) /\ WF_vars(WriteFrame) /\ WF_vars(ReadFrame) /\ WF_vars(Lose)

-----------------------------------------------------------------------------
\* Properties.

Answered == st = "idle" /\ req # NoReq

TypeOK ==
    /\ pc \in {"fc", "sql", "niter", "nparams", "ptype", "pvalue", "bind", "ncols", "ctype",
               "step", "mark", "reply", "flush", "quit", "closed", "dead"}
    /\ h \in [fc : FunctionCodes \cup {"none"}, ok : BOOLEAN, niter : Int, nparams : Nat,
              i : Nat, params : Seq([type : ValueTypes, v : STRING \cup {"none", "stale"}]), ncols : Nat,
              coltypes : Seq(STRING), hasRow : BOOLEAN]
    /\ db.auto \in BOOLEAN /\ db.stmt.vm \in {"none", "ready", "run", "halt"}
    /\ Len(stdin) <= PipeCap /\ Len(stdout) <= PipeCap
    /\ peer \in {"open", "gone"}
    /\ st \in {"idle", "sending", "reading", "bye", "lost", "dead"}
    /\ sent \in 0..MaxRequests

\* Server and client are in step: when the client may send its next request,
\* the server waits for one, with no byte of the last request unread, no byte
\* of its reply unsent, and no statement left open to hold a lock.
InStep ==
    st = "idle" =>
        /\ pc = "fc" /\ h = NoRequest /\ db.stmt = NoStmt
        /\ stdin = <<>> /\ rbuf = <<>> /\ stdout = <<>> /\ wbuf = <<>>

\* No statement outlives its request, whatever the request and however it and
\* its client end: the ASSERT in Db_prepare never fails, and no SELECT left open
\* holds a lock while the server waits.
NoStatementLeft ==
    pc \in {"fc", "sql", "flush", "quit", "closed", "dead"} => db.stmt = NoStmt

\* A server whose client keeps to the rules never ends by an ASSERT.
ServerSurvives == pc = "dead" => peer = "gone"

\* The server writes nothing before it has read all of the request, so the two
\* never block on full pipes against each other.
ReadsBeforeItWrites ==
    wbuf # <<>> \/ stdout # <<>> => todo = <<>> /\ stdin = <<>> /\ rbuf = <<>>

\* What the client has of a reply is at any time whole rows of it.
ReplyInWholeRows == st = "reading" => got = <<>> \/ Partial(req, got)

\* An ok reply means that every iteration has been executed, and committed
\* unless a transaction is open, and that nothing else has been done.
OkMeansApplied ==
    Answered /\ ReplyOk(got) => View(db) = Applied(base, req, Iterations(req))

\* A failed request has executed a proper prefix of its iterations and nothing
\* else, unless an I/O error has rolled back the client's open transaction.
ErrorMeansPrefix ==
    Answered /\ ~ReplyOk(got) =>
        \/ \E j \in 0..Iterations(req) :
             /\ j < Iterations(req) \/ j = 0
             /\ View(db) = Applied(base, req, j)
        \/ ~base.auto /\ "ioerr" \in Faults /\ View(db) = Applied(base, [req EXCEPT !.sql = "rollback"], 1)

\* msg is a reason for iteration j of r to fail on the data v: the statement
\* cannot be compiled or executed, one of its parameters is too many or too
\* large to be bound, or its row is there already.
Explains(msg, v, r, j) ==
    \/ msg = "error" /\ \/ r.sql = "garbage"
                        \/ r.sql = "begin" /\ ~v.auto
                        \/ r.sql \in {"commit", "rollback"} /\ v.auto
    \/ msg = "range" /\ Len(r.params[j]) > NVars(r.sql)
    \/ msg = "toobig" /\ \E i \in DOMAIN r.params[j] : r.params[j][i].v = "huge"
    \/ /\ msg = "constraint" /\ r.sql \in {"insert", "returning"}
       /\ \E i \in DOMAIN v.work : SameKey(v.work[i], Row(r.params[j]))

\* The message in the reply to a failed request is a reason why the iteration
\* after those that have been executed could not be, or an I/O error.
ErrorSaysWhy ==
    Answered /\ ~ReplyOk(got) =>
        \/ Last(got).v \in Faults
        \/ \E j \in 0..Iterations(req) :
             /\ j < Iterations(req) \/ j = 0
             /\ View(db) = Applied(base, req, j)
             /\ Explains(Last(got).v, View(db), req, j + 1)

\* A query delivers the rows that were there, in order and as the wanted types,
\* all of them if its reply is ok and otherwise a prefix.
QueryFaithful ==
    Answered /\ req.fc = "FC_QUERY" =>
        IF ReplyOk(got) THEN RowsOf(req, got) = Selected(base, req)
        ELSE IsPrefix(RowsOf(req, got), Selected(base, req))

\* Every row is one that was there, or one the current request carries.
OnlySentRows ==
    \A i \in DOMAIN db.work :
        \/ i \in DOMAIN base.work /\ db.work[i] = base.work[i]
        \/ \E j \in DOMAIN req.params : db.work[i] = Row(req.params[j])

\* What a client has been told is committed stays in the database, whatever
\* client, server and I/O do afterwards.
Durable == IsPrefix(acked, db.disk)

\* When the server has ended, in the midst of a request or not, the database
\* file holds what some prefix of the request's iterations committed, and an
\* open transaction has left nothing.
EndLeavesPrefix ==
    Down => \E j \in 0..Iterations(req) : db.disk = Applied(base, req, j).disk

\* The rules of the encoding that the server enforces on every request: the
\* function code and the types of the parameters are known, there are not less
\* than none of them, and each value lies whole within its frame.
Decodable(r) ==
    /\ r.fc \in FunctionCodes /\ r.nparams >= 0
    /\ \A i \in DOMAIN r.params : \A j \in DOMAIN r.params[i] :
         r.params[i][j].type \in ValueTypes /\ r.params[i][j].v # "cut"

\* A request that breaks one of these rules gets no answer: it is not read as
\* something else.  Wanted types are not among them: one that is unknown is
\* noticed only when there is a value to be read as it, so an answer may have
\* NULLs for it, but no value of an unknown type.  Nor is the number of
\* iterations: a negative one executes nothing, and is answered.
AnsweredAreDecodable ==
    Answered =>
        /\ Decodable(req)
        /\ \A i \in DOMAIN got : got[i].k = "value" => got[i].v.type \in ValueTypes

\* Once a step of a request has failed, the request changes the data no more.
NothingAfterFailure ==
    [][h.fc # "none" /\ ~h.ok /\ pc' # "dead" => View(db)' = View(db)]_vars

\* Every request is answered, or its client has gone.
Answers == (st = "sending") ~> (st \notin {"sending", "reading"})

\* The server ends once its client has quit or died.
ServerEnds == (st \in {"bye", "dead"}) ~> (Down \/ st = "idle")
=============================================================================
