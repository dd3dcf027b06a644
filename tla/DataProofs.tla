----------------------------- MODULE DataProofs -----------------------------
(***************************************************************************)
(* Theorems about what requests do to the data and what they deliver of    *)
(* it, for every set of requests, every I/O fault and every client that    *)
(* takes the precautions the findings call for.                            *)
(*                                                                         *)
(* The invariant says of every point of a handler what the database holds: *)
(* what it held when the request was sent, and the iterations executed     *)
(* since.  It stands on ExchangeInv, which says which parameters have been *)
(* read, and on ParamsIntact: that they are still what was sent.           *)
(* Where the database stands after each step then shows each step to be    *)
(* one of Service.  QueryMatches says the same of the reply to a query:    *)
(* which of the rows it has to deliver have been written.  On these stand  *)
(* the last two results: which clients a server survives, and that the     *)
(* message of a reply that is not ok is a reason why the request failed at *)
(* the iteration it failed at.                                             *)
(***************************************************************************)
EXTENDS SqinnService, ExchangeProofs

\* No frame ends between a string or blob and the end of its parameter group,
\* and no statement that returns rows is executed by FC_EXEC.
Precautions ==
    /\ Cuts # "value"
    /\ \A r \in Requests : r.fc = "FC_EXEC" => r.sql # "returning"

-----------------------------------------------------------------------------
\* Pointers into the Reader's buffer.

\* The token (there is one, or none) that follows the first n frames in the pipe.
Following(n) ==
    IF n < Len(stdin) THEN {stdin[n + 1][1]} ELSE {todo[i] : i \in 1..1 \cap DOMAIN todo}

\* The frame s, which n frames in the pipe follow up to its place, does not end
\* between a string or blob and the end of its group.
Undivided(s, n) ==
    \A j \in DOMAIN s : s[j].k \in {"string", "blob"} /\ s[j].g # 0 =>
        \A x \in Following(n) : x.g # s[j].g

\* Parameters of the current group that have been read to their end.
Held(p, l) == IF p = "pvalue" THEN Len(l.params) - 1 ELSE Len(l.params)

FramesUndivided == Undivided(rbuf, 0) /\ \A n \in DOMAIN stdin : Undivided(stdin[n], n)

\* The parameters that the handler holds are what was sent; and it holds no
\* pointer when it refills the buffer before the end of their group.
HeldIntact ==
    pc \in {"ptype", "pvalue", "bind"} => \A j \in 1..Held(pc, h) :
        /\ h.params[j] = req.params[h.i + 1][j]
        /\ pc # "bind" /\ h.params[j].type \in Pointers => \A x \in Following(0) : x.g # h.i + 1

ParamsIntact == FramesUndivided /\ HeldIntact

-----------------------------------------------------------------------------
\* The statement.

\* s is the statement of r; its variables beyond the parameters of r are NULL.
Prepared(s, r) ==
    /\ s.sql = r.sql /\ s.sql \in Statements \ {"garbage", "empty"}
    /\ s.vars = [k \in 1..NVars(s.sql) |-> s.vars[k]]
    /\ \A k \in 1..NVars(s.sql) : k > r.nparams => s.vars[k] = NullCell

\* The variables of s hold what they are to hold of a row.
Binds(s, row) == \A k \in 1..NVars(s.sql) : s.vars[k] = row[k]

\* All variables of a query are bound.
AllBound == req.fc = "FC_QUERY" /\ h.ok /\ pc \in {"ncols", "ctype", "step", "mark"}

StmtMatches ==
    /\ pc \in Handling /\ db.stmt # NoStmt =>
         /\ Prepared(db.stmt, req)
         /\ AllBound => Binds(db.stmt, Row(req.params[1]))
    /\ db.stmt.vm = "run" =>
         h.fc = "FC_QUERY" /\ h.hasRow /\ db.stmt.sql \in {"returning", "select", "find"}
    /\ pc \in Handling \ {"step", "reply"} => h.hasRow
    /\ pc \in {"reply", "flush"} /\ req.fc = "FC_QUERY" => ~(h.ok /\ h.hasRow)
    /\ pc = "sql" => h.ok

-----------------------------------------------------------------------------
\* The data.

AnyRow == {Row(ps) : ps \in Seq(Param)}

Data == [disk : Seq(AnyRow), work : Seq(AnyRow), auto : BOOLEAN]

\* What is committed and what a connection sees, when no statement is running.
Chained(v) ==
    /\ v \in Data /\ IsPrefix(v.disk, v.work)
    /\ v.auto => v.disk = v.work

\* An I/O error has rolled back the client's transaction.
Lost(v) == ~base.auto /\ "ioerr" \in Faults /\ v = RolledBack(base)

\* A request has failed within its first n iterations.
Failed(v, n) ==
    Lost(v) \/ \E j \in 0..n : (j < Iterations(req) \/ j = 0) /\ v = Applied(base, req, j)

Outcome(v, ok) ==
    IF ok THEN v = Applied(base, req, Iterations(req)) ELSE Failed(v, Iterations(req))

\* A row has been inserted, and is not committed before it has been fetched.
Pending == db.stmt.vm = "run" /\ db.stmt.sql = "returning"

Progress == IF h.fc = "FC_EXEC" THEN h.i ELSE IF h.hasRow THEN 0 ELSE 1

\* The last frame of a reply, or what the client has of it.
LastFrame == IF stdout = <<>> THEN got ELSE stdout[Len(stdout)]

DataMatches ==
    /\ Chained(base) /\ (~Pending => Chained(View(db)))
    /\ pc \in Handling =>
         IF ~h.ok THEN Failed(View(db), Progress)
         ELSE IF Pending THEN View(db) = [base EXCEPT !.work = Append(@, Row(req.params[1]))]
         ELSE View(db) = Applied(base, req, Progress)
    /\ pc = "flush" => Outcome(View(db), h.ok) /\ (ReplyOk(wbuf) <=> h.ok)
    /\ pc = "quit" \/ (pc = "flush" /\ req = QuitRequest) \/ (pc = "fc" /\ Stream # <<>>) => View(db) = base
    /\ Waiting => (req # NoReq => req.fc \in FunctionCodes) /\ \E ok \in BOOLEAN :
         /\ Outcome(View(db), ok)
         /\ st # "dead" /\ req # NoReq => (ReplyOk(LastFrame) <=> ok)
    /\ Down => db.work = db.disk /\ db.auto /\ \E j \in 0..Iterations(req) :
         j <= Len(req.params) /\ db.disk = Applied(base, req, j).disk
    /\ acked \in Seq(AnyRow) /\ IsPrefix(acked, db.disk)

DataInv == ParamsIntact /\ StmtMatches /\ DataMatches

-----------------------------------------------------------------------------
\* Prefixes.

\* A prefix, element by element.
LEMMA PrefixIs ==
    ASSUME NEW T, NEW s \in Seq(T), NEW t \in Seq(T)
    PROVE  IsPrefix(s, t) <=> Len(s) <= Len(t) /\ \A i \in 1..Len(s) : s[i] = t[i]
  <1>1. Len(s) \in Nat /\ Len(t) \in Nat
    OBVIOUS
  <1>2. SubSeq(s, 1, Len(s)) = s
    OBVIOUS
  <1>3. ASSUME Len(s) <= Len(t)
        PROVE  SubSeq(s, 1, Len(s)) = SubSeq(t, 1, Len(s)) <=> \A i \in 1..Len(s) : s[i] = t[i]
    <2> DEFINE u == SubSeq(t, 1, Len(s))
    <2>1. u \in Seq(T) /\ Len(u) = Len(s) /\ \A i \in 1..Len(s) : u[i] = t[i]
      BY <1>1, <1>3
    <2> HIDE DEF u
    <2>2. s = u <=> \A i \in 1..Len(s) : s[i] = u[i]
      BY <2>1
    <2>3. QED
      BY <1>2, <2>1, <2>2 DEF u
  <1>4. QED
    BY <1>3 DEF IsPrefix

\* Prefixes of sequences of rows are ordered, and a row added keeps them.
LEMMA RowPrefixes ==
    \A s, t, u \in Seq(AnyRow), x \in AnyRow :
      /\ IsPrefix(s, s)
      /\ IsPrefix(s, t) /\ IsPrefix(t, u) => IsPrefix(s, u)
      /\ IsPrefix(s, Append(s, x)) /\ Append(s, x) \in Seq(AnyRow)
  <1>1. SUFFICES ASSUME NEW s \in Seq(AnyRow), NEW t \in Seq(AnyRow), NEW u \in Seq(AnyRow), NEW x \in AnyRow
                 PROVE  /\ IsPrefix(s, s)
                        /\ IsPrefix(s, t) /\ IsPrefix(t, u) => IsPrefix(s, u)
                        /\ IsPrefix(s, Append(s, x)) /\ Append(s, x) \in Seq(AnyRow)
    OBVIOUS
  <1>2. IsPrefix(s, s)
    BY PrefixIs
  <1>3. ASSUME IsPrefix(s, t), IsPrefix(t, u) PROVE IsPrefix(s, u)
    <2>1. Len(s) <= Len(t) /\ \A i \in 1..Len(s) : s[i] = t[i]
      BY <1>3, PrefixIs
    <2>2. Len(t) <= Len(u) /\ \A i \in 1..Len(t) : t[i] = u[i]
      BY <1>3, PrefixIs
    <2>3. Len(s) <= Len(u) /\ \A i \in 1..Len(s) : s[i] = u[i]
      BY <2>1, <2>2
    <2>4. QED
      BY <2>3, PrefixIs
  <1>4. IsPrefix(s, Append(s, x)) /\ Append(s, x) \in Seq(AnyRow)
    <2> DEFINE w == Append(s, x)
    <2>1. w \in Seq(AnyRow) /\ Len(w) = Len(s) + 1 /\ \A i \in 1..Len(s) : w[i] = s[i]
      OBVIOUS
    <2> HIDE DEF w
    <2>2. IsPrefix(s, w)
      BY <2>1, PrefixIs, SMTT(60)
    <2>3. QED
      BY <2>1, <2>2 DEF w
  <1>5. QED
    BY <1>2, <1>3, <1>4

-----------------------------------------------------------------------------
\* What an iteration that succeeds does to the data.

Effect(v, sql, row) ==
    CASE sql \in {"insert", "returning"} ->
           [v EXCEPT !.work = Append(v.work, row),
                     !.disk = IF v.auto THEN Append(v.work, row) ELSE v.disk]
      [] sql = "begin" -> [v EXCEPT !.auto = FALSE]
      [] sql = "commit" -> [v EXCEPT !.disk = v.work, !.auto = TRUE]
      [] sql = "rollback" -> [v EXCEPT !.work = v.disk, !.auto = TRUE]
      [] OTHER -> v

\* The rows of the first j iterations of r.
Carried(r, j) == [i \in 1..j |-> Row(r.params[i])]

\* The rows that a request carries.
LEMMA CarriedIs ==
    ASSUME NEW r, IsRequest(r)
    PROVE  /\ \A j \in 0..Len(r.params) : Carried(r, j) \in Seq(AnyRow) /\ Len(Carried(r, j)) = j
           /\ \A j \in 1..Len(r.params) :
                Row(r.params[j]) \in AnyRow /\ Carried(r, j) = Append(Carried(r, j - 1), Row(r.params[j]))
  <1>1. r.params \in Seq(Seq(Param)) /\ Len(r.params) \in Nat
    BY DEF IsRequest, Param
  <1>2. \A j \in 1..Len(r.params) : Row(r.params[j]) \in AnyRow
    <2>1. \A j \in 1..Len(r.params) : r.params[j] \in Seq(Param)
      BY <1>1
    <2>2. QED
      BY <2>1, Zenon DEF AnyRow
  <1>3. ASSUME NEW j \in 0..Len(r.params)
        PROVE  Carried(r, j) \in Seq(AnyRow) /\ Len(Carried(r, j)) = j
    BY <1>2, <1>1, <1>3 DEF Carried
  <1>4. ASSUME NEW j \in 1..Len(r.params)
        PROVE  Carried(r, j) = Append(Carried(r, j - 1), Row(r.params[j]))
    <2> DEFINE s == Carried(r, j - 1)
               t == Carried(r, j)
               x == Row(r.params[j])
    <2>1. j \in Nat /\ j - 1 \in 0..Len(r.params) /\ j \in 0..Len(r.params)
      BY <1>1
    <2>2. s \in Seq(AnyRow) /\ Len(s) = j - 1 /\ t \in Seq(AnyRow) /\ Len(t) = j /\ x \in AnyRow
      BY <1>2, <1>3, <2>1
    <2>3. \A i \in 1..j : t[i] = IF i = j THEN x ELSE s[i]
      BY <2>1 DEF Carried
    <2> HIDE DEF s, t, x
    <2>4. t = Append(s, x)
      BY <2>1, <2>2, <2>3
    <2>5. QED
      BY <2>4 DEF s, t, x
  <1>5. QED
    BY <1>2, <1>3, <1>4

\* Row has a cell for each column of the table.
LEMMA RowIs ==
    ASSUME NEW ps
    PROVE  Row(ps) = [k \in 1..2 |-> IF k \in DOMAIN ps THEN Cell(ps[k]) ELSE NullCell]
  BY DEF Row

\* An effect keeps what is committed, and what is committed is seen.
LEMMA EffectChained ==
    ASSUME NEW v, Chained(v), NEW sql, NEW row, row \in AnyRow \/ sql \notin {"insert", "returning"}
    PROVE  Chained(Effect(v, sql, row)) /\ IsPrefix(v.disk, Effect(v, sql, row).disk)
  <1> DEFINE e == Effect(v, sql, row)
             T == Seq(AnyRow)
  <1>1. /\ v \in [disk : T, work : T, auto : BOOLEAN] /\ IsPrefix(v.disk, v.work)
        /\ v.auto => v.disk = v.work
    BY DEF Chained, Data
  <1>2. v.disk \in T /\ v.work \in T /\ v.auto \in BOOLEAN
    BY <1>1
  <1>3. IsPrefix(v.disk, v.disk) /\ IsPrefix(v.work, v.work)
    BY <1>2, PrefixIs
  <1>4. CASE sql \in {"insert", "returning"}
    <2> DEFINE w == Append(v.work, row)
               d == IF v.auto THEN w ELSE v.disk
    <2>1. e = [v EXCEPT !.work = w, !.disk = d]
      BY <1>4 DEF Effect
    <2>2. w \in T /\ IsPrefix(v.work, w) /\ IsPrefix(w, w) /\ d \in T
      BY <1>2, <1>4, RowPrefixes
    <2>3. IsPrefix(v.disk, w) /\ IsPrefix(d, w) /\ IsPrefix(v.disk, d) /\ (v.auto => d = w)
      <3>1. IsPrefix(v.disk, w)
        <4> HIDE DEF w
        <4>1. QED
          BY <1>1, <1>2, <2>2, <1>4, RowPrefixes
      <3>2. QED
        BY <3>1, <2>2, <1>3
    <2> HIDE DEF w, d, T
    <2>4. e \in [disk : T, work : T, auto : BOOLEAN] /\ e.disk = d /\ e.work = w /\ e.auto = v.auto
      BY <1>1, <2>1, <2>2
    <2> HIDE DEF e
    <2>5. QED
      BY <2>3, <2>4 DEF Chained, Data, T, e
  <1>5. CASE sql \notin {"insert", "returning"}
    <2>1. e \in {v, [v EXCEPT !.auto = FALSE], [v EXCEPT !.disk = v.work, !.auto = TRUE],
                 [v EXCEPT !.work = v.disk, !.auto = TRUE]}
      BY <1>5 DEF Effect
    <2> HIDE DEF T, e
    <2>2. /\ e \in [disk : T, work : T, auto : BOOLEAN]
          /\ e.disk \in {v.disk, v.work} /\ e.work \in {v.disk, v.work}
          /\ e.auto => e.disk = e.work
          /\ IsPrefix(e.disk, e.work) /\ IsPrefix(v.disk, e.disk)
      BY <1>1, <1>2, <1>3, <2>1
    <2>3. QED
      BY <2>2 DEF Chained, Data, T, e
  <1>6. QED
    BY <1>4, <1>5

\* A request is done iteration by iteration.
LEMMA AppliedIs ==
    ASSUME NEW b, Chained(b), NEW r, IsRequest(r)
    PROVE  /\ Applied(b, r, 0) = b
           /\ \A j \in 1..Len(r.params) :
                Applied(b, r, j) = Effect(Applied(b, r, j - 1), r.sql, Row(r.params[j]))
  <1> DEFINE T == Seq(AnyRow)
             rows(j) == b.work \o Carried(r, j)
  <1>1. /\ b \in [disk : T, work : T, auto : BOOLEAN] /\ (b.auto => b.disk = b.work)
        /\ b.disk \in T /\ b.work \in T /\ b.auto \in BOOLEAN
    BY DEF Chained, Data
  <1>2. /\ \A j \in 0..Len(r.params) : rows(j) \in T
        /\ rows(0) = b.work
        /\ \A j \in 1..Len(r.params) :
             /\ Row(r.params[j]) \in AnyRow /\ rows(j) = Append(rows(j - 1), Row(r.params[j]))
    <2>1. Len(r.params) \in Nat
      BY Parts
    <2>2. \A j \in 0..Len(r.params) : rows(j) \in T
      BY <1>1, <2>1, CarriedIs
    <2>3. rows(0) = b.work
      <3>1. Carried(r, 0) \in T /\ Len(Carried(r, 0)) = 0
        BY <2>1, CarriedIs
      <3>2. Carried(r, 0) = <<>>
        BY <3>1
      <3>3. QED
        BY <1>1, <3>2
    <2>4. ASSUME NEW j \in 1..Len(r.params)
          PROVE  Row(r.params[j]) \in AnyRow /\ rows(j) = Append(rows(j - 1), Row(r.params[j]))
      <3> DEFINE x == Row(r.params[j])
                 c == Carried(r, j - 1)
                 w == b.work
      <3>1. x \in AnyRow /\ Carried(r, j) = Append(c, x)
        BY CarriedIs
      <3>2. c \in T /\ w \in T
        BY <1>1, <2>1, CarriedIs
      <3>3. rows(j) = w \o Append(c, x) /\ rows(j - 1) = w \o c
        BY <3>1
      <3> HIDE DEF x, c, w, rows
      <3>4. w \o Append(c, x) = Append(w \o c, x)
        BY <3>1, <3>2
      <3>5. QED
        BY <3>1, <3>3, <3>4 DEF x
    <2>5. QED
      BY <2>2, <2>3, <2>4
  <1>3. ASSUME NEW j
        PROVE  Applied(b, r, j)
                 = CASE r.sql \in {"insert", "returning"} ->
                          [b EXCEPT !.work = rows(j), !.disk = IF b.auto THEN rows(j) ELSE b.disk]
                     [] r.sql = "begin" /\ j > 0 -> [b EXCEPT !.auto = FALSE]
                     [] r.sql = "commit" /\ j > 0 -> [b EXCEPT !.disk = b.work, !.auto = TRUE]
                     [] r.sql = "rollback" /\ j > 0 -> [b EXCEPT !.work = b.disk, !.auto = TRUE]
                     [] OTHER -> b
    BY DEF Applied, Carried
  <1> HIDE DEF rows, T
  <1>4. CASE r.sql \in {"insert", "returning"}
    <2>1. ASSUME NEW j
          PROVE  Applied(b, r, j) = [b EXCEPT !.work = rows(j), !.disk = IF b.auto THEN rows(j) ELSE b.disk]
      BY <1>3, <1>4
    <2>2. Applied(b, r, 0) = b
      <3> DEFINE w == b.work
                 d == IF b.auto THEN w ELSE b.disk
      <3>1. Applied(b, r, 0) = [b EXCEPT !.work = w, !.disk = d]
        BY <1>2, <2>1
      <3>2. d = b.disk /\ w = b.work
        BY <1>1
      <3> HIDE DEF d, w
      <3>3. QED
        BY <1>1, <3>1, <3>2
    <2>3. ASSUME NEW j \in 1..Len(r.params)
          PROVE  Applied(b, r, j) = Effect(Applied(b, r, j - 1), r.sql, Row(r.params[j]))
      <3> DEFINE x == Row(r.params[j])
                 a == Applied(b, r, j - 1)
                 u == rows(j - 1)
                 w == rows(j)
      <3>1. w = Append(u, x)
        BY <1>2
      <3>2. /\ a = [b EXCEPT !.work = u, !.disk = IF b.auto THEN u ELSE b.disk]
            /\ Applied(b, r, j) = [b EXCEPT !.work = w, !.disk = IF b.auto THEN w ELSE b.disk]
        BY <2>1
      <3> HIDE DEF a, u, w, x
      <3>3. Effect(a, r.sql, x) = [a EXCEPT !.work = Append(a.work, x),
                                            !.disk = IF a.auto THEN Append(a.work, x) ELSE a.disk]
        BY <1>4 DEF Effect
      <3>4. a.work = u /\ a.auto = b.auto /\ (~b.auto => a.disk = b.disk)
        BY <1>1, <3>2
      <3>5. Effect(a, r.sql, x) = [b EXCEPT !.work = w, !.disk = IF b.auto THEN w ELSE b.disk]
        BY <1>1, <3>1, <3>2, <3>3, <3>4
      <3>6. QED
        BY <3>2, <3>5 DEF a, x
    <2>4. QED
      BY <2>2, <2>3
  <1>5. CASE r.sql \notin {"insert", "returning"}
    <2>1. Applied(b, r, 0) = b
      BY <1>3, <1>5
    <2>2. ASSUME NEW j \in 1..Len(r.params)
          PROVE  Applied(b, r, j) = Effect(Applied(b, r, j - 1), r.sql, Row(r.params[j]))
      <3> DEFINE done == CASE r.sql = "begin" -> [b EXCEPT !.auto = FALSE]
                           [] r.sql = "commit" -> [b EXCEPT !.disk = b.work, !.auto = TRUE]
                           [] r.sql = "rollback" -> [b EXCEPT !.work = b.disk, !.auto = TRUE]
                           [] OTHER -> b
                 x == Row(r.params[j])
      <3>1. Applied(b, r, j) = done
        BY <1>3, <1>5
      <3>2. Applied(b, r, j - 1) \in {b, done}
        BY <1>3, <1>5
      <3>3. Effect(b, r.sql, x) = done /\ Effect(done, r.sql, x) = done
        BY <1>1, <1>5 DEF Effect
      <3> HIDE DEF done, x
      <3>4. QED
        BY <3>1, <3>2, <3>3 DEF x
    <2>3. QED
      BY <2>1, <2>2
  <1>6. QED
    BY <1>4, <1>5

-----------------------------------------------------------------------------
\* The calls of db.c.

\* The statement of a connection, up to the parts that running it changes.
SameStmt(d, e) == e.stmt.sql = d.stmt.sql /\ e.stmt.vars = d.stmt.vars

\* A call that fails leaves the data v, or loses the client's transaction.
FailsTo(v, w) == w = v \/ (~v.auto /\ "ioerr" \in Faults /\ w = RolledBack(v))

\* Data as a set of one element, which the provers compare more easily.
OnlyData(a, b, c) == [disk : {a}, work : {b}, auto : {c}]

\* There is one.
LEMMA OneData ==
    ASSUME NEW a, NEW b, NEW c, NEW v \in OnlyData(a, b, c), NEW w \in OnlyData(a, b, c)
    PROVE  v = w
  BY DEF OnlyData

\* The fields of View.
LEMMA ViewIs ==
    ASSUME NEW d
    PROVE  /\ View(d) \in OnlyData(d.disk, d.work, d.auto)
           /\ View(d).disk = d.disk /\ View(d).work = d.work /\ View(d).auto = d.auto
  BY DEF View, OnlyData

\* Rolling back what has no open transaction changes nothing.
LEMMA RolledBackIs ==
    ASSUME NEW a, NEW b, NEW c, NEW v \in OnlyData(a, b, c)
    PROVE  /\ RolledBack(v) \in OnlyData(a, a, TRUE)
           /\ a = b /\ c = TRUE => RolledBack(v) = v
  <1>1. RolledBack(v) \in OnlyData(a, a, TRUE)
    BY DEF RolledBack, OnlyData
  <1>2. QED
    BY <1>1, OneData

\* A commit where there is nothing to commit.
LEMMA NothingToCommit ==
    ASSUME NEW d, IsDb(d), Chained(View(d))
    PROVE  View(Committed(d)) = View(d) /\ ~Commits(d)
  <1>1. d.auto => d.disk = d.work
    BY DEF Chained, View
  <1>2. d = [disk |-> d.disk, work |-> d.work, auto |-> d.auto, err |-> d.err, stmt |-> d.stmt]
    BY DEF IsDb
  <1>3. d.auto => [d EXCEPT !.disk = d.work] = d
    BY <1>1, <1>2
  <1>4. QED
    BY <1>1, <1>3 DEF Committed, Commits

\* An I/O error or a lock.
LEMMA FailuresCall ==
    ASSUME NEW d, IsDb(d), Chained(View(d)), NEW F, F \subseteq Faults, NEW f \in Failures(d, F)
    PROVE  /\ f.rc \in {"busy", "ioerr"} /\ IsDb(f.db)
           /\ f.db.stmt = d.stmt /\ FailsTo(View(d), View(f.db))
  <1>1. PICK rc \in F : f = Ret(rc, IF rc = "ioerr" \/ d.auto THEN Rollback(d) ELSE d)
    BY DEF Failures
  <1>2. rc \in {"busy", "ioerr"} /\ rc \in Faults
    BY FaultsAssumption
  <1>3. d.auto \in BOOLEAN /\ (d.auto => d.work = d.disk)
    BY DEF Chained, View, IsDb
  <1>4. /\ IsDb(Rollback(d)) /\ Rollback(d).stmt = d.stmt
        /\ View(Rollback(d)) = RolledBack(View(d))
    <2>1. d = [disk |-> d.disk, work |-> d.work, auto |-> d.auto, err |-> d.err, stmt |-> d.stmt]
      BY DEF IsDb
    <2>2. /\ Rollback(d).stmt = d.stmt /\ Rollback(d).disk = d.disk /\ Rollback(d).work = d.disk
          /\ Rollback(d).auto = TRUE
      BY <2>1 DEF Rollback
    <2>3. IsDb(Rollback(d))
      BY DEF IsDb, IsStmt, Rollback
    <2>4. View(Rollback(d)) = RolledBack(View(d))
      <3>1. View(Rollback(d)) \in OnlyData(d.disk, d.disk, TRUE)
        BY <2>2, ViewIs
      <3>2. RolledBack(View(d)) \in OnlyData(d.disk, d.disk, TRUE)
        BY ViewIs, RolledBackIs
      <3>3. QED
        BY <3>1, <3>2, OneData
    <2>5. QED
      BY <2>2, <2>3, <2>4
  <1>5. d.auto => RolledBack(View(d)) = View(d)
    <2>1. View(d) \in OnlyData(d.disk, d.work, d.auto)
      BY ViewIs
    <2>2. QED
      BY <1>3, <2>1, RolledBackIs
  <1>6. View(d).auto = d.auto
    BY DEF View
  <1>7. f.rc = rc /\ f.db = IF rc = "ioerr" \/ d.auto THEN Rollback(d) ELSE d
    BY <1>1 DEF Ret
  <1>8. QED
    BY <1>2, <1>3, <1>4, <1>5, <1>6, <1>7 DEF FailsTo

\* What the first step of a statement does to the connection d.
Executed(d, o) ==
    /\ IsDb(o.db) /\ SameStmt(d, o.db)
    /\ CASE o.rc = "done" -> /\ d.stmt.sql # "returning"
                             /\ View(o.db) = Effect(View(d), d.stmt.sql, d.stmt.vars)
         [] o.rc = "row" ->
              \/ d.stmt.sql \in {"select", "find"} /\ View(o.db) = View(d)
              \/ /\ d.stmt.sql = "returning"
                 /\ View(o.db) = [View(d) EXCEPT !.work = Append(@, d.stmt.vars)]
         [] OTHER -> FailsTo(View(d), View(o.db))

\* Executing a statement.
LEMMA ExecuteCall ==
    ASSUME NEW d, IsDb(d), Chained(View(d)), d.stmt.sql \in Statements \ {"garbage", "empty"},
           NEW o \in Execute(d)
    PROVE  Executed(d, o)
  <1> DEFINE sql == d.stmt.sql
  <1>1. IsDb(o.db)
    BY OutcomesAreDb
  <1>2. d.auto \in BOOLEAN /\ View(d) = [disk |-> d.disk, work |-> d.work, auto |-> d.auto]
    BY DEF View, IsDb
  <1>3. d = [disk |-> d.disk, work |-> d.work, auto |-> d.auto, err |-> d.err, stmt |-> d.stmt]
    BY DEF IsDb
  <1>4. ASSUME o = Ret("error", d) PROVE Executed(d, o)
    BY <1>1, <1>4 DEF Ret, Executed, SameStmt, FailsTo
  <1>5. CASE sql = "begin"
    <2> DEFINE e == [d EXCEPT !.auto = FALSE]
    <2>1. o = Ret("error", d) \/ o = Ret("done", e)
      BY <1>5 DEF Execute
    <2>2. View(e) = Effect(View(d), "begin", d.stmt.vars) /\ SameStmt(d, e)
      BY <1>2, <1>3 DEF View, Effect, SameStmt
    <2>3. IsDb(e)
      BY DEF IsDb, IsStmt
    <2> HIDE DEF e
    <2>4. QED
      BY <1>4, <1>5, <2>1, <2>2, <2>3 DEF Ret, Executed
  <1>6. CASE sql = "commit"
    <2> DEFINE e == [d EXCEPT !.disk = d.work, !.auto = TRUE]
    <2>1. o = Ret("error", d) \/ o = Ret("done", e)
      BY <1>6 DEF Execute
    <2>2. View(e) = Effect(View(d), "commit", d.stmt.vars) /\ SameStmt(d, e)
      BY <1>2, <1>3 DEF View, Effect, SameStmt
    <2>3. IsDb(e)
      BY DEF IsDb, IsStmt
    <2> HIDE DEF e
    <2>4. QED
      BY <1>4, <1>6, <2>1, <2>2, <2>3 DEF Ret, Executed
  <1>7. CASE sql = "rollback"
    <2> DEFINE e == Rollback(d)
    <2>1. o = Ret("error", d) \/ o = Ret("done", e)
      BY <1>7 DEF Execute
    <2>2. View(e) = Effect(View(d), "rollback", d.stmt.vars) /\ SameStmt(d, e)
      BY <1>2, <1>3 DEF View, Effect, SameStmt, Rollback
    <2>3. IsDb(e)
      BY DEF IsDb, IsStmt, Rollback
    <2> HIDE DEF e
    <2>4. QED
      BY <1>4, <1>7, <2>1, <2>2, <2>3 DEF Ret, Executed
  <1>8. CASE sql \in {"insert", "returning"}
    <2> DEFINE row == d.stmt.vars
               w == Append(d.work, row)
               todoRows == <<row>>
               e == [d EXCEPT !.work = w, !.stmt.todo = todoRows]
    <2>1. \/ o = Ret("constraint", d)
          \/ sql = "insert" /\ o = Ret("done", Committed(e))
          \/ sql = "returning" /\ o = Ret("row", e)
      BY <1>8 DEF Execute, Write
    <2> HIDE DEF w, todoRows
    <2>2. /\ IsDb(e) /\ SameStmt(d, e) /\ e.auto = d.auto /\ e.disk = d.disk /\ e.work = w
          /\ View(e) = [View(d) EXCEPT !.work = w]
      <3>1. IsDb(e)
        BY DEF IsDb, IsStmt
      <3>2. e.auto = d.auto /\ e.disk = d.disk /\ e.work = w
        BY <1>3
      <3>3. SameStmt(d, e)
        BY DEF IsDb, IsStmt, SameStmt
      <3>4. View(e) = [View(d) EXCEPT !.work = w]
        BY <3>2 DEF View
      <3>5. QED
        BY <3>1, <3>2, <3>3, <3>4
    <2> HIDE DEF e
    <2>3. /\ SameStmt(d, Committed(e))
          /\ View(Committed(e)) = [View(d) EXCEPT !.work = w, !.disk = IF d.auto THEN w ELSE d.disk]
      <3>1. CASE d.auto
        <4>1. Committed(e) = [e EXCEPT !.disk = w]
          BY <3>1, <2>2 DEF Committed
        <4>2. /\ [e EXCEPT !.disk = w].stmt = e.stmt
              /\ View([e EXCEPT !.disk = w]) = [View(e) EXCEPT !.disk = w]
          BY <2>2 DEF IsDb, View
        <4>3. QED
          BY <3>1, <2>2, <4>1, <4>2, <1>2 DEF SameStmt
      <3>2. CASE ~d.auto
        <4>1. Committed(e) = e
          BY <3>2, <2>2 DEF Committed
        <4>2. [View(d) EXCEPT !.work = w, !.disk = IF d.auto THEN w ELSE d.disk]
                = [View(d) EXCEPT !.work = w]
          <5>1. View(d) \in OnlyData(d.disk, d.work, d.auto)
            BY ViewIs
          <5>2. /\ [View(d) EXCEPT !.work = w, !.disk = d.disk] \in OnlyData(d.disk, w, d.auto)
                /\ [View(d) EXCEPT !.work = w] \in OnlyData(d.disk, w, d.auto)
            BY <5>1 DEF OnlyData
          <5>3. QED
            BY <3>2, <5>2, OneData
        <4>3. QED
          BY <2>2, <4>1, <4>2
      <3>3. QED
        BY <3>1, <3>2
    <2>4. View(d).work = d.work /\ View(d).auto = d.auto /\ View(d).disk = d.disk
      BY DEF View
    <2>5. CASE o = Ret("constraint", d)
      BY <1>1, <2>5 DEF Ret, Executed, SameStmt, FailsTo
    <2>6. CASE sql = "insert" /\ o = Ret("done", Committed(e))
      <3>1. Effect(View(d), sql, row) = View(Committed(e))
        BY <1>8, <2>3, <2>4 DEF Effect, w
      <3>2. o.rc = "done" /\ o.db = Committed(e)
        BY <2>6 DEF Ret
      <3>3. QED
        BY <1>1, <2>3, <2>6, <3>1, <3>2 DEF Executed
    <2>7. CASE sql = "returning" /\ o = Ret("row", e)
      <3>1. o.rc = "row" /\ o.db = e
        BY <2>7 DEF Ret
      <3>2. View(e) = [View(d) EXCEPT !.work = Append(@, row)]
        BY <2>2, <2>4 DEF w
      <3>3. QED
        BY <1>1, <2>2, <2>7, <3>1, <3>2 DEF Executed
    <2>8. QED
      BY <2>1, <2>5, <2>6, <2>7
  <1>9. CASE sql \in {"select", "find"}
    <2>1. PICK rows : o \in Scan(d, rows)
      BY <1>9 DEF Execute
    <2> DEFINE e == [d EXCEPT !.stmt.todo = rows]
    <2>2. o = Ret(IF rows = <<>> THEN "done" ELSE "row", e)
      BY <2>1 DEF Scan
    <2>3. SameStmt(d, e) /\ View(e) = View(d)
      BY <1>3 DEF IsDb, IsStmt, SameStmt, View
    <2>4. Effect(View(d), sql, d.stmt.vars) = View(d)
      BY <1>9 DEF Effect
    <2> HIDE DEF e
    <2>5. o.db = e /\ o.rc \in {"done", "row"}
      BY <2>2 DEF Ret
    <2>6. QED
      BY <1>1, <1>9, <2>3, <2>4, <2>5 DEF Executed
  <1>10. QED
    BY <1>5, <1>6, <1>7, <1>8, <1>9 DEF Statements

\* The result of sqlite3_step is that of what the statement does, or a failure.
LEMMA StepIs ==
    ASSUME NEW d, IsDb(d), NEW s \in step(d)
    PROVE  \E e, F : /\ F \subseteq Faults
                     /\ d.stmt.vm = "run" /\ ~Commits(d) => "busy" \notin F
                     /\ e \in (IF d.stmt.vm = "run" THEN Continue(d) ELSE Execute(d)) \cup Failures(d, F)
                     /\ s.ok <=> e.rc \in {"done", "row"}
                     /\ s.hasRow <=> e.rc = "row"
                     /\ IsDb(s.db) /\ SameStmt(e.db, s.db) /\ View(s.db) = View(e.db)
                     /\ s.db.stmt.vm = "run" <=> e.rc = "row"
                     /\ e.rc = "row" => s.db.stmt.todo = e.db.stmt.todo
  <1> DEFINE halt(e) == [e.db EXCEPT !.err = e.rc, !.stmt.vm = "halt", !.stmt.todo = <<>>,
                                     !.stmt.rc = IF e.rc = "done" THEN "ok" ELSE e.rc]
             row(e) == [e.db EXCEPT !.err = "row", !.stmt.vm = "run"]
             F == CASE d.stmt.sql \in {"begin", "rollback"} -> {}
                    [] d.stmt.vm = "run" /\ ~Commits(d) -> Faults \ {"busy"}
                    [] OTHER -> Faults
             outcomes == (IF d.stmt.vm = "run" THEN Continue(d) ELSE Execute(d)) \cup Failures(d, F)
  <1>1. PICK c \in sqlite3_step(d) :
          s = [ok |-> c.rc \in {"done", "row"}, hasRow |-> c.rc = "row", db |-> c.db]
    BY DEF step
  <1>2. PICK e \in outcomes : c = Ret(e.rc, IF e.rc = "row" THEN row(e) ELSE halt(e))
    BY DEF sqlite3_step
  <1>3. IsDb(e.db)
    BY OutcomesAreDb, FailuresAreDb
  <1>4. /\ IsDb(row(e)) /\ SameStmt(e.db, row(e)) /\ View(row(e)) = View(e.db)
        /\ row(e).stmt.vm = "run" /\ row(e).stmt.todo = e.db.stmt.todo
    BY <1>3 DEF IsDb, IsStmt, SameStmt, View
  <1>5. /\ IsDb(halt(e)) /\ SameStmt(e.db, halt(e)) /\ View(halt(e)) = View(e.db) /\ halt(e).stmt.vm = "halt"
    <2> DEFINE rc == IF e.rc = "done" THEN "ok" ELSE e.rc
               nothing == <<>>
    <2>1. halt(e) = [e.db EXCEPT !.err = e.rc, !.stmt.vm = "halt", !.stmt.todo = nothing, !.stmt.rc = rc]
      OBVIOUS
    <2> HIDE DEF rc, nothing
    <2>2. QED
      BY <1>3, <2>1 DEF IsDb, IsStmt, SameStmt, View
  <1> HIDE DEF row, halt
  <1>6. c.rc = e.rc /\ c.db = IF e.rc = "row" THEN row(e) ELSE halt(e)
    BY <1>2 DEF Ret
  <1>7. /\ s.ok <=> c.rc \in {"done", "row"}
        /\ s.hasRow <=> c.rc = "row"
        /\ s.db = c.db
    BY <1>1
  <1>8. F \subseteq Faults /\ (d.stmt.vm = "run" /\ ~Commits(d) => "busy" \notin F)
    OBVIOUS
  <1>9. e \in (IF d.stmt.vm = "run" THEN Continue(d) ELSE Execute(d)) \cup Failures(d, F)
    OBVIOUS
  <1> HIDE DEF F, outcomes
  <1>10. IsDb(s.db) /\ SameStmt(e.db, s.db) /\ View(s.db) = View(e.db) /\ (s.db.stmt.vm = "run" <=> e.rc = "row")
         /\ (e.rc = "row" => s.db.stmt.todo = e.db.stmt.todo)
    BY <1>4, <1>5, <1>6, <1>7
  <1>11. QED
    BY <1>6, <1>7, <1>8, <1>9, <1>10

\* The first step of a statement.
LEMMA FirstStep ==
    ASSUME NEW d, IsDb(d), Chained(View(d)), d.stmt.vm # "run",
           d.stmt.sql \in Statements \ {"garbage", "empty"}, NEW s \in step(d)
    PROVE  /\ IsDb(s.db) /\ SameStmt(d, s.db) /\ (s.db.stmt.vm = "run" <=> s.ok /\ s.hasRow)
           /\ s.ok /\ ~s.hasRow => /\ d.stmt.sql # "returning"
                                   /\ View(s.db) = Effect(View(d), d.stmt.sql, d.stmt.vars)
           /\ s.ok /\ s.hasRow =>
                \/ d.stmt.sql \in {"select", "find"} /\ View(s.db) = View(d)
                \/ /\ d.stmt.sql = "returning"
                   /\ View(s.db) = [View(d) EXCEPT !.work = Append(@, d.stmt.vars)]
           /\ ~s.ok => ~s.hasRow /\ FailsTo(View(d), View(s.db))
  <1>1. PICK e, F : /\ F \subseteq Faults
                    /\ e \in Execute(d) \cup Failures(d, F)
                    /\ s.ok <=> e.rc \in {"done", "row"}
                    /\ s.hasRow <=> e.rc = "row"
                    /\ IsDb(s.db) /\ SameStmt(e.db, s.db) /\ View(s.db) = View(e.db)
                    /\ s.db.stmt.vm = "run" <=> e.rc = "row"
    BY StepIs
  <1>2. CASE e \in Execute(d)
    <2>1. Executed(d, e)
      BY <1>2, ExecuteCall
    <2>2. QED
      BY <1>1, <2>1 DEF Executed, SameStmt
  <1>3. CASE e \in Failures(d, F)
    <2>1. e.rc \in {"busy", "ioerr"} /\ e.db.stmt = d.stmt /\ FailsTo(View(d), View(e.db))
      BY <1>1, <1>3, FailuresCall
    <2>2. QED
      BY <1>1, <2>1 DEF SameStmt
  <1>4. QED
    BY <1>1, <1>2, <1>3

\* A row that has been inserted and not committed.
Inserted(v, row) == [v EXCEPT !.work = Append(v.work, row)]

\* A later step, when v is what was there before the statement ran.
LEMMA LaterStep ==
    ASSUME NEW d, IsDb(d), d.stmt.vm = "run", NEW v, Chained(v), NEW row,
           \/ d.stmt.sql \in {"select", "find"} /\ View(d) = v
           \/ d.stmt.sql = "returning" /\ View(d) = Inserted(v, row),
           NEW s \in step(d)
    PROVE  /\ IsDb(s.db) /\ SameStmt(d, s.db) /\ (s.db.stmt.vm = "run" <=> s.ok /\ s.hasRow)
           /\ s.ok /\ ~s.hasRow => View(s.db) = Effect(v, d.stmt.sql, row)
           /\ s.ok /\ s.hasRow => View(s.db) = View(d)
           /\ ~s.ok => ~s.hasRow /\ FailsTo(v, View(s.db))
  <1>1. PICK e, F : /\ F \subseteq Faults /\ (~Commits(d) => "busy" \notin F)
                    /\ e \in Continue(d) \cup Failures(d, F)
                    /\ s.ok <=> e.rc \in {"done", "row"}
                    /\ s.hasRow <=> e.rc = "row"
                    /\ IsDb(s.db) /\ SameStmt(e.db, s.db) /\ View(s.db) = View(e.db)
                    /\ s.db.stmt.vm = "run" <=> e.rc = "row"
    BY StepIs
  <1>2. /\ v \in OnlyData(v.disk, v.work, v.auto) /\ v.auto \in BOOLEAN
        /\ v.auto => v.disk = v.work
        /\ d.disk = v.disk /\ d.auto = v.auto
    <2>1. v \in OnlyData(v.disk, v.work, v.auto) /\ v.auto \in BOOLEAN /\ (v.auto => v.disk = v.work)
      BY DEF Chained, Data, OnlyData
    <2>2. Inserted(v, row).disk = v.disk /\ Inserted(v, row).auto = v.auto
      BY <2>1 DEF Inserted, OnlyData
    <2>3. QED
      BY <2>1, <2>2, ViewIs
  <1>3. CASE e \in Continue(d)
    <2> DEFINE new(rows) == [d EXCEPT !.stmt.todo = rows]
    <2>1. \/ e = Ret("row", new(Tail(d.stmt.todo)))
          \/ e = Ret("done", Committed(new(<<>>)))
      BY <1>3 DEF Continue
    <2>2. ASSUME NEW rows
          PROVE  /\ IsDb(new(rows)) /\ SameStmt(d, new(rows)) /\ View(new(rows)) = View(d)
                 /\ new(rows).disk = d.disk /\ new(rows).work = d.work /\ new(rows).auto = d.auto
      BY DEF IsDb, IsStmt, SameStmt, View
    <2> HIDE DEF new
    <2>3. CASE e = Ret("row", new(Tail(d.stmt.todo)))
      <3>1. e.rc = "row" /\ e.db = new(Tail(d.stmt.todo))
        BY <2>3 DEF Ret
      <3>2. QED
        BY <1>1, <2>2, <3>1 DEF SameStmt
    <2>4. CASE e = Ret("done", Committed(new(<<>>)))
      <3> DEFINE n == new(<<>>)
      <3>1. /\ e.rc = "done" /\ e.db = Committed(n)
            /\ IsDb(n) /\ SameStmt(d, n) /\ View(n) = View(d)
            /\ n.disk = d.disk /\ n.work = d.work /\ n.auto = d.auto
        BY <2>2, <2>4 DEF Ret
      <3> HIDE DEF n
      <3>2. SameStmt(d, Committed(n))
        BY <3>1 DEF Committed, IsDb, SameStmt
      <3>3. View(Committed(n)) = Effect(v, d.stmt.sql, row)
        <4>1. CASE d.stmt.sql \in {"select", "find"} /\ View(d) = v
          <5>1. View(Committed(n)) = View(n)
            BY <3>1, <4>1, NothingToCommit
          <5>2. Effect(v, d.stmt.sql, row) = v
            BY <4>1 DEF Effect
          <5>3. QED
            BY <3>1, <4>1, <5>1, <5>2
        <4>2. CASE d.stmt.sql = "returning" /\ View(d) = Inserted(v, row)
          <5> DEFINE w == Append(v.work, row)
                     k == IF v.auto THEN w ELSE v.disk
          <5>1. Effect(v, d.stmt.sql, row) \in OnlyData(k, w, v.auto)
            <6>1. Effect(v, d.stmt.sql, row) = [v EXCEPT !.work = w, !.disk = k]
              BY <4>2 DEF Effect
            <6> HIDE DEF w, k
            <6>2. QED
              BY <1>2, <6>1 DEF OnlyData
          <5>2. d.work = w
            <6>1. Inserted(v, row).work = w
              BY <1>2 DEF Inserted, OnlyData
            <6>2. QED
              BY <4>2, <6>1, ViewIs
          <5>3. View(Committed(n)) \in OnlyData(k, w, v.auto)
            <6>1. Committed(n) = IF v.auto THEN [n EXCEPT !.disk = w] ELSE n
              BY <1>2, <3>1, <5>2 DEF Committed
            <6> HIDE DEF w
            <6>2. Committed(n).disk = k /\ Committed(n).work = w /\ Committed(n).auto = v.auto
              BY <1>2, <3>1, <5>2, <6>1 DEF IsDb
            <6> HIDE DEF k
            <6>3. QED
              BY <6>2, ViewIs
          <5> HIDE DEF w, k
          <5>4. QED
            BY <5>1, <5>3, OneData
        <4>3. QED
          BY <4>1, <4>2
      <3>4. QED
        BY <1>1, <3>1, <3>2, <3>3 DEF SameStmt
    <2>5. QED
      BY <2>1, <2>3, <2>4
  <1>4. CASE e \in Failures(d, F)
    <2>1. PICK rc \in F : e = Ret(rc, IF rc = "ioerr" \/ d.auto THEN Rollback(d) ELSE d)
      BY <1>4 DEF Failures
    <2>2. rc \in {"busy", "ioerr"} /\ rc \in Faults
      BY <1>1, FaultsAssumption
    <2>3. IsDb(Rollback(d)) /\ Rollback(d).stmt = d.stmt /\ View(Rollback(d)) = RolledBack(v)
      <3>1. IsDb(Rollback(d)) /\ Rollback(d).stmt = d.stmt
        BY DEF IsDb, IsStmt, Rollback
      <3>2. Rollback(d).disk = v.disk /\ Rollback(d).work = v.disk /\ Rollback(d).auto = TRUE
        BY <1>2 DEF IsDb, Rollback
      <3>3. View(Rollback(d)) \in OnlyData(v.disk, v.disk, TRUE)
        BY <3>2, ViewIs
      <3>4. RolledBack(v) \in OnlyData(v.disk, v.disk, TRUE)
        BY <1>2, RolledBackIs
      <3>5. QED
        BY <3>1, <3>3, <3>4, OneData
    <2>4. v.auto => RolledBack(v) = v
      BY <1>2, RolledBackIs
    <2>5. ~v.auto => rc = "ioerr"
      BY <1>1, <1>2, <2>2 DEF Commits
    <2>6. e.rc = rc /\ e.db = Rollback(d)
      BY <1>2, <2>1, <2>2, <2>5 DEF Ret
    <2>7. QED
      BY <1>1, <2>2, <2>3, <2>4, <2>5, <2>6 DEF FailsTo, SameStmt
  <1>5. QED
    BY <1>1, <1>3, <1>4

-----------------------------------------------------------------------------
\* Binding, resetting, preparing.

\* After bind (Db_bind and Db_bind_step_reset) the variables hold the row.
LEMMA BindVars ==
    ASSUME NEW d, IsDb(d), NEW r, Prepared(d.stmt, r), r.nparams \in Nat,
           NEW T, NEW ps \in Seq(T), Len(ps) = r.nparams
    PROVE  /\ Prepared(bind(d, ps).db.stmt, r)
           /\ bind(d, ps).ok => Binds(bind(d, ps).db.stmt, Row(ps))
  <1> DEFINE s == d.stmt
             n == NVars(s.sql)
             m == r.nparams
             b == bind(d, ps)
  <1>1. n \in 0..2 /\ m \in Nat /\ DOMAIN ps = 1..m /\ n = NVars(r.sql)
    <2>1. DOMAIN ps = 1..Len(ps)
      OBVIOUS
    <2>2. QED
      BY <2>1 DEF Prepared, NVars
  <1>2. s.vars = [k \in 1..n |-> s.vars[k]] /\ \A k \in 1..n : k > m => s.vars[k] = NullCell
    BY DEF Prepared
  <1> HIDE DEF n
  <1>3. DOMAIN s.vars = 1..n /\ Len(s.vars) = n
    BY <1>1, <1>2
  <1>4. CASE ps = <<>>
    <2>1. m = 0 /\ b.ok /\ b.db = d
      BY <1>4 DEF bind, Result
    <2>2. \A k \in 1..n : s.vars[k] = Row(ps)[k]
      <3>1. \A k \in 1..2 : k \notin DOMAIN ps
        BY <1>1, <2>1
      <3>2. Row(ps) = [k \in 1..2 |-> NullCell]
        BY <3>1, RowIs
      <3>3. \A k \in 1..n : k \in 1..2 /\ s.vars[k] = NullCell
        BY <1>1, <1>2, <2>1
      <3>4. QED
        BY <3>2, <3>3
    <2>3. QED
      BY <2>1, <2>2 DEF Binds, n
  <1>5. CASE ps # <<>>
    <2> DEFINE rc == [i \in DOMAIN ps |-> BindRc(s, i, ps[i])]
               vs == [i \in DOMAIN s.vars |-> IF i \in DOMAIN ps THEN Bound(s, i, ps[i]) ELSE s.vars[i]]
               ok == \A i \in DOMAIN rc : rc[i] = "ok"
               e == [d EXCEPT !.err = rc[Len(ps)], !.stmt.vars = vs]
    <2>1. b = Result(ok, e)
      BY <1>5 DEF bind
    <2>2. vs = [k \in 1..n |-> vs[k]]
      BY <1>3
    <2>3. \A k \in 1..n : k > m => vs[k] = NullCell
      BY <1>1, <1>2, <1>3
    <2>4. ok => m <= n /\ \A k \in 1..m : vs[k] = Cell(ps[k])
      <3>1. ASSUME ok, NEW k \in 1..m PROVE k <= n /\ vs[k] = Cell(ps[k])
        <4>1. BindRc(s, k, ps[k]) = "ok"
          BY <1>1, <3>1
        <4>2. k <= n
          BY <1>3, <4>1, <1>1 DEF BindRc
        <4>3. vs[k] = Bound(s, k, ps[k])
          BY <1>1, <1>3, <4>2
        <4>4. QED
          BY <4>1, <4>2, <4>3 DEF Bound, Cell
      <3> HIDE DEF vs, ok
      <3>2. QED
        BY <1>1, <3>1
    <2>5. ok => \A k \in 1..n : vs[k] = Row(ps)[k]
      <3>1. SUFFICES ASSUME ok, NEW k \in 1..n PROVE vs[k] = Row(ps)[k]
        OBVIOUS
      <3>2. k \in 1..2
        BY <1>1
      <3> HIDE DEF vs, ok
      <3>3. vs[k] = IF k \in DOMAIN ps THEN Cell(ps[k]) ELSE NullCell
        BY <1>1, <2>3, <2>4, <3>1
      <3>4. QED
        BY <3>2, <3>3, RowIs
    <2> HIDE DEF vs, ok, rc
    <2>6. e.stmt.vars = vs /\ e.stmt.sql = s.sql
      BY DEF IsDb, IsStmt
    <2> HIDE DEF e
    <2>7. b.ok = ok /\ b.db = e
      BY <2>1 DEF Result
    <2> HIDE DEF b
    <2>8. Prepared(e.stmt, r)
      BY <2>2, <2>3, <2>6 DEF Prepared, n
    <2>9. ok => Binds(e.stmt, Row(ps))
      BY <2>5, <2>6 DEF Binds, n
    <2>10. QED
      BY <2>7, <2>8, <2>9 DEF b
  <1>6. QED
    BY <1>4, <1>5

\* Two variables are a row.
LEMMA BoundRow ==
    ASSUME NEW s, NEW r, Prepared(s, r), NEW ps, Binds(s, Row(ps)), NVars(r.sql) = 2
    PROVE  s.vars = Row(ps)
  <1> DEFINE row == Row(ps)
  <1>1. s.vars = [k \in 1..2 |-> s.vars[k]] /\ \A k \in 1..2 : s.vars[k] = row[k]
    BY DEF Prepared, Binds
  <1>2. row = [k \in 1..2 |-> row[k]]
    BY RowIs
  <1> HIDE DEF row
  <1>3. s.vars = row
    BY <1>1, <1>2
  <1>4. QED
    BY <1>3 DEF row

\* What a statement has been prepared for does not change as it runs.
LEMMA PreparedSame ==
    ASSUME NEW d, NEW e, NEW r, SameStmt(d, e), Prepared(d.stmt, r)
    PROVE  Prepared(e.stmt, r)
  BY DEF SameStmt, Prepared

\* Only what inserts depends on the variables.
LEMMA EffectRow ==
    ASSUME NEW v, NEW sql \in Statements, NVars(sql) # 2, NEW x, NEW y
    PROVE  Effect(v, sql, x) = Effect(v, sql, y)
  BY DEF NVars, Effect

\* sqlite3_reset changes nothing when there is nothing to commit.
LEMMA ResetData ==
    ASSUME NEW d, IsDb(d), NEW o \in sqlite3_reset(d), d.stmt.vm = "run" => Chained(View(d))
    PROVE  SameStmt(d, o.db) /\ View(o.db) = View(d)
  <1> DEFINE nothing == <<>>
             ready(e, rc) == [e EXCEPT !.err = rc, !.stmt.vm = "ready",
                                       !.stmt.todo = nothing, !.stmt.rc = "ok"]
  <1>1. ASSUME NEW e, IsDb(e), NEW rc PROVE SameStmt(e, ready(e, rc)) /\ View(ready(e, rc)) = View(e)
    <2> HIDE DEF nothing
    <2>1. QED
      BY <1>1 DEF IsDb, IsStmt, SameStmt, View
  <1>2. CASE d.stmt.vm = "run"
    <2>1. View(Committed(d)) = View(d) /\ ~Commits(d)
      BY <1>2, NothingToCommit
    <2>2. o = Ret("ok", ready(Committed(d), "ok"))
      BY <1>2, <2>1 DEF sqlite3_reset
    <2>3. IsDb(Committed(d)) /\ Committed(d).stmt = d.stmt
      BY CommittedIsDb
    <2> HIDE DEF ready
    <2>4. QED
      BY <1>1, <2>1, <2>2, <2>3 DEF Ret, SameStmt
  <1>3. CASE d.stmt.vm = "halt"
    <2>1. o = Ret(d.stmt.rc, ready(d, d.stmt.rc))
      BY <1>3 DEF sqlite3_reset
    <2> HIDE DEF ready
    <2>2. QED
      BY <1>1, <2>1 DEF Ret
  <1>4. CASE d.stmt.vm \notin {"run", "halt"}
    <2>1. o = Ret("ok", d)
      BY <1>4 DEF sqlite3_reset
    <2>2. QED
      BY <2>1 DEF Ret, SameStmt
  <1>5. QED
    BY <1>2, <1>3, <1>4

\* An iteration of _fcExec takes its effect, or fails.
LEMMA IterationCall ==
    ASSUME NEW d, IsDb(d), Chained(View(d)), d.stmt.vm # "run", NEW r, r.nparams \in Nat,
           d.stmt # NoStmt => Prepared(d.stmt, r) /\ r.sql # "returning",
           NEW T, NEW ps \in Seq(T), Len(ps) = r.nparams,
           NEW o \in Db_bind_step_reset(d, ps)
    PROVE  /\ o.db.stmt # NoStmt => Prepared(o.db.stmt, r)
           /\ o.ok => View(o.db) = Effect(View(d), r.sql, Row(ps))
           /\ ~o.ok => FailsTo(View(d), View(o.db))
  <1> DEFINE b == bind(d, ps)
  <1>1. CASE d.stmt = NoStmt
    <2>1. o = Result(FALSE, d)
      BY <1>1 DEF Db_bind_step_reset
    <2>2. QED
      BY <1>1, <2>1 DEF Result, FailsTo
  <1>2. CASE d.stmt # NoStmt
    <2>1. /\ IsDb(b.db) /\ View(b.db) = View(d) /\ b.db.stmt.vm # "run"
          /\ Prepared(b.db.stmt, r)
          /\ b.ok => Binds(b.db.stmt, Row(ps))
      BY <1>2, BindCall, BindVars
    <2>2. CASE ~b.ok
      <3>1. o = b
        BY <1>2, <2>2 DEF Db_bind_step_reset
      <3>2. QED
        BY <2>1, <2>2, <3>1 DEF FailsTo
    <2>3. CASE b.ok
      <3>1. PICK s \in step(b.db) : \E e \in reset(s.db) : o = Result(s.ok, e)
        BY <1>2, <2>3 DEF Db_bind_step_reset
      <3>2. PICK c \in sqlite3_reset(s.db) : o = Result(s.ok, c.db)
        BY <3>1 DEF reset
      <3> HIDE DEF b
      <3>3. b.db.stmt.sql = r.sql /\ r.sql \in Statements \ {"garbage", "empty"} /\ r.sql # "returning"
        BY <1>2, <2>1 DEF Prepared
      <3>4. Chained(View(b.db))
        BY <2>1
      <3>5. /\ IsDb(s.db) /\ SameStmt(b.db, s.db) /\ (s.db.stmt.vm = "run" <=> s.ok /\ s.hasRow)
            /\ s.ok /\ ~s.hasRow => View(s.db) = Effect(View(d), r.sql, b.db.stmt.vars)
            /\ s.ok /\ s.hasRow => r.sql \in {"select", "find"} /\ View(s.db) = View(d)
            /\ ~s.ok => ~s.hasRow /\ FailsTo(View(d), View(s.db))
        BY <2>1, <3>3, <3>4, FirstStep
      <3>6. s.db.stmt.vm = "run" => Chained(View(s.db))
        BY <2>1, <3>4, <3>5
      <3>7. SameStmt(s.db, c.db) /\ View(c.db) = View(s.db)
        BY <3>2, <3>5, <3>6, ResetData
      <3>8. o.ok = s.ok /\ o.db = c.db
        BY <3>2 DEF Result
      <3>9. Prepared(o.db.stmt, r)
        BY <2>1, <3>5, <3>7, <3>8, PreparedSame
      <3>10. Effect(View(d), r.sql, b.db.stmt.vars) = Effect(View(d), r.sql, Row(ps))
        BY <2>1, <2>3, <3>3, BoundRow, EffectRow
      <3>11. r.sql \in {"select", "find"} => Effect(View(d), r.sql, Row(ps)) = View(d)
        BY DEF Effect
      <3>12. QED
        BY <3>5, <3>7, <3>8, <3>9, <3>10, <3>11
    <2>4. QED
      BY <2>2, <2>3
  <1>3. QED
    BY <1>1, <1>2

-----------------------------------------------------------------------------
\* What a request may leave behind.

\* Any number of iterations keep what was committed, and what is committed is seen.
LEMMA AppliedChained ==
    ASSUME NEW b, Chained(b), NEW r, IsRequest(r)
    PROVE  \A j \in 0..Len(r.params) : Chained(Applied(b, r, j)) /\ IsPrefix(b.disk, Applied(b, r, j).disk)
  <1> DEFINE Good(j) == Chained(Applied(b, r, j)) /\ IsPrefix(b.disk, Applied(b, r, j).disk)
             P == {j \in Nat : j <= Len(r.params) => Good(j)}
  <1>1. Len(r.params) \in Nat
    BY Parts
  <1>2. b.disk \in Seq(AnyRow)
    BY DEF Chained, Data
  <1>3. Good(0)
    <2>1. IsPrefix(b.disk, b.disk)
      BY <1>2, PrefixIs
    <2>2. QED
      BY <2>1, AppliedIs
  <1>4. ASSUME NEW j \in Nat, j + 1 <= Len(r.params), Good(j) PROVE Good(j + 1)
    <2> DEFINE v == Applied(b, r, j)
               x == Row(r.params[j + 1])
               w == Effect(v, r.sql, x)
    <2>1. j + 1 \in 1..Len(r.params) /\ (j + 1) - 1 = j
      BY <1>1, <1>4
    <2>2. Applied(b, r, j + 1) = w /\ x \in AnyRow
      BY <2>1, AppliedIs, CarriedIs
    <2>3. Chained(v) /\ IsPrefix(b.disk, v.disk)
      BY <1>4
    <2> HIDE DEF v, x
    <2>4. Chained(w) /\ IsPrefix(v.disk, w.disk)
      BY <2>2, <2>3, EffectChained
    <2> HIDE DEF w
    <2>5. v.disk \in Seq(AnyRow) /\ w.disk \in Seq(AnyRow)
      BY <2>3, <2>4 DEF Chained, Data
    <2>6. IsPrefix(b.disk, w.disk)
      BY <1>2, <2>2, <2>3, <2>4, <2>5, RowPrefixes
    <2>7. QED
      BY <2>2, <2>4, <2>6
  <1> HIDE DEF Good
  <1>5. 0 \in P /\ \A j \in Nat : j \in P => j + 1 \in P
    BY <1>1, <1>3, <1>4
  <1> HIDE DEF P
  <1>6. \A j \in Nat : j \in P
    BY <1>5, NatInd
  <1>7. QED
    BY <1>1, <1>6 DEF P, Good

\* Rolling back after iterations that have not ended the transaction undoes them all.
LEMMA AppliedRolledBack ==
    ASSUME NEW b, Chained(b), NEW r, IsRequest(r), NEW j \in 0..Len(r.params),
           ~Applied(b, r, j).auto
    PROVE  RolledBack(Applied(b, r, j)) = RolledBack(b)
  <1> DEFINE a == Applied(b, r, j)
  <1>1. b \in Data /\ a \in Data
    BY AppliedChained DEF Chained
  <1>2. a.disk = b.disk
    <2>1. b = [disk |-> b.disk, work |-> b.work, auto |-> b.auto]
      BY <1>1 DEF Data
    <2> DEFINE rows == b.work \o Carried(r, j)
               d == IF b.auto THEN rows ELSE b.disk
    <2>2. r.sql \in {"insert", "returning"} => a = [b EXCEPT !.work = rows, !.disk = d]
      BY DEF Applied, Carried
    <2>3. r.sql \notin {"insert", "returning"} =>
            a \in {b, [b EXCEPT !.auto = FALSE], [b EXCEPT !.disk = b.work, !.auto = TRUE],
                   [b EXCEPT !.work = b.disk, !.auto = TRUE]}
      BY DEF Applied
    <2> HIDE DEF rows, a
    <2>4. r.sql \in {"insert", "returning"} => a.auto = b.auto /\ a.disk = d
      BY <2>1, <2>2
    <2>5. r.sql \notin {"insert", "returning"} => a.disk = b.disk
      BY <2>1, <2>3 DEF a
    <2>6. QED
      BY <2>4, <2>5 DEF a
  <1> HIDE DEF a
  <1>3. /\ a \in OnlyData(a.disk, a.work, a.auto) /\ b \in OnlyData(b.disk, b.work, b.auto)
    BY <1>1 DEF Data, OnlyData
  <1>4. RolledBack(a) \in OnlyData(b.disk, b.disk, TRUE) /\ RolledBack(b) \in OnlyData(b.disk, b.disk, TRUE)
    BY <1>2, <1>3, RolledBackIs
  <1>5. QED
    BY <1>4, OneData DEF a

\* Rolling back loses nothing that is committed.
LEMMA RolledBackChained ==
    ASSUME NEW v, Chained(v)
    PROVE  Chained(RolledBack(v)) /\ RolledBack(v).disk = v.disk
  <1>1. v.disk \in Seq(AnyRow) /\ v \in OnlyData(v.disk, v.work, v.auto)
    BY DEF Chained, Data, OnlyData
  <1>2. RolledBack(v) \in OnlyData(v.disk, v.disk, TRUE)
    BY <1>1, RolledBackIs
  <1>3. IsPrefix(v.disk, v.disk)
    BY <1>1, PrefixIs
  <1>4. QED
    BY <1>1, <1>2, <1>3 DEF Chained, Data, OnlyData

\* FC_QUIT and no request at all do nothing to the data.
LEMMA NothingToApply ==
    ASSUME NEW b, NEW j
    PROVE  Applied(b, QuitRequest, j) = b /\ Applied(b, NoReq, j) = b /\ Iterations(QuitRequest) = 1
           /\ Iterations(NoReq) = 1
  <1>1. QuitRequest.sql = "" /\ NoReq.sql = "" /\ QuitRequest.fc = "FC_QUIT" /\ NoReq.fc = "none"
    BY DEF QuitRequest, NoReq
  <1>2. QED
    BY <1>1 DEF Applied, Iterations

\* A failure rolls back to what is committed or to the iterations executed.
LEMMA FailsToChained ==
    ASSUME NEW v, Chained(v), NEW w, FailsTo(v, w)
    PROVE  Chained(w) /\ w.disk = v.disk
  BY RolledBackChained DEF FailsTo

\* A request that fails after j iterations has executed just these, or lost a transaction.
LEMMA FailedFrom ==
    ASSUME Chained(base), IsRequest(req), NEW j \in 0..Len(req.params), j < Iterations(req) \/ j = 0,
           NEW n \in Nat, j <= n, NEW w, FailsTo(Applied(base, req, j), w)
    PROVE  Failed(w, n)
  <1> DEFINE v == Applied(base, req, j)
  <1>1. j \in 0..n /\ 0 \in 0..n
    BY Parts
  <1>2. CASE w = v
    BY <1>1, <1>2 DEF Failed
  <1>3. CASE ~v.auto /\ "ioerr" \in Faults /\ w = RolledBack(v)
    <2>1. w = RolledBack(base)
      BY <1>3, AppliedRolledBack
    <2>2. base.auto => w = base
      <3>1. base \in OnlyData(base.disk, base.work, base.auto) /\ (base.auto => base.disk = base.work)
            /\ base.auto \in BOOLEAN
        BY DEF Chained, Data, OnlyData
      <3>2. QED
        BY <2>1, <3>1, RolledBackIs
    <2>3. Applied(base, req, 0) = base
      BY AppliedIs
    <2>4. QED
      BY <1>1, <1>3, <2>1, <2>2, <2>3 DEF Failed, Lost
  <1>4. QED
    BY <1>2, <1>3 DEF FailsTo

\* More iterations that are only read do not change how a request has failed.
LEMMA FailedLater ==
    ASSUME NEW v, NEW m \in Nat, NEW n \in Nat, m <= n, Failed(v, m)
    PROVE  Failed(v, n)
  <1>1. \A j \in 0..m : j \in 0..n
    OBVIOUS
  <1>2. QED
    BY <1>1 DEF Failed

\* What a failed request has committed is what some of its iterations commit.
LEMMA FailedDisk ==
    ASSUME Chained(base), Applied(base, req, 0) = base, NEW v, NEW n \in Nat, Failed(v, n),
           Iterations(req) \in Nat
    PROVE  \E j \in 0..Iterations(req) : v.disk = Applied(base, req, j).disk
  <1>1. CASE Lost(v)
    <2>1. v.disk = base.disk
      BY <1>1, RolledBackChained DEF Lost
    <2>2. 0 \in 0..Iterations(req)
      OBVIOUS
    <2>3. QED
      BY <2>1, <2>2
  <1>2. CASE ~Lost(v)
    <2>1. PICK j \in 0..n : (j < Iterations(req) \/ j = 0) /\ v = Applied(base, req, j)
      BY <1>2 DEF Failed
    <2>2. j \in 0..Iterations(req)
      BY <2>1
    <2>3. QED
      BY <2>1, <2>2
  <1>3. QED
    BY <1>1, <1>2

\* Db_prepare makes a statement without values, or none.
LEMMA PrepareStmt ==
    ASSUME NEW d, IsDb(d), NEW r, r.sql \in Statements, NEW o \in Db_prepare(d, r.sql), o.db.stmt # NoStmt
    PROVE  Prepared(o.db.stmt, r)
  <1> DEFINE sql == r.sql
             n == NVars(sql)
             s == [sql |-> sql, vm |-> "ready", todo |-> <<>>, rc |-> "ok",
                   vars |-> [i \in 1..n |-> NullCell]]
             unprepared(rc) == [d EXCEPT !.err = rc, !.stmt = NoStmt]
             prepared == [d EXCEPT !.err = "ok", !.stmt = s]
  <1>1. PICK p \in sqlite3_prepare_v2(d, sql) : o = Result(p.rc = "ok", p.db)
    BY DEF Db_prepare
  <1>2. o.db = p.db
    BY <1>1 DEF Result
  <1>3. ASSUME NEW rc PROVE unprepared(rc).stmt = NoStmt
    BY DEF IsDb
  <1>4. ASSUME NEW rc PROVE p # Ret(rc, unprepared(rc))
    <2> HIDE DEF unprepared
    <2>1. QED
      BY <1>2, <1>3 DEF Ret
  <1>5. sql \notin {"garbage", "empty"} /\ p = Ret("ok", prepared)
    BY <1>4 DEF sqlite3_prepare_v2
  <1>6. prepared.stmt = s
    <2> HIDE DEF s
    <2>1. QED
      BY DEF IsDb
  <1>7. o.db.stmt = s
    <2> HIDE DEF prepared
    <2>1. QED
      BY <1>2, <1>5, <1>6 DEF Ret
  <1>8. QED
    BY <1>5, <1>7 DEF Prepared

-----------------------------------------------------------------------------
\* The parameters that the handlers hold.

\* Steps that read no frame and write none.
LEMMA FramesKept ==
    ASSUME Typed, FramesUndivided, stdin' = stdin, todo' = todo,
           rbuf' \in {rbuf, <<>>} \/ (rbuf # <<>> /\ rbuf' = Tail(rbuf))
    PROVE  FramesUndivided' /\ \A n : Following(n)' = Following(n)
  <1>1. \A n : Following(n)' = Following(n)
    BY DEF Following
  <1>2. \A s, n : Undivided(s, n)' <=> Undivided(s, n)
    BY <1>1 DEF Undivided
  <1>3. Undivided(rbuf', 0)
    <2>1. CASE rbuf' = <<>>
      BY <2>1 DEF Undivided
    <2>2. CASE rbuf # <<>> /\ rbuf' = Tail(rbuf)
      <3>1. rbuf \in Seq(Token)
        BY DEF Typed
      <3>2. \A j \in DOMAIN Tail(rbuf) : j + 1 \in DOMAIN rbuf /\ Tail(rbuf)[j] = rbuf[j + 1]
        BY <2>2, <3>1
      <3>3. Undivided(rbuf, 0)
        BY DEF FramesUndivided
      <3>4. QED
        BY <2>2, <3>2, <3>3 DEF Undivided
    <2>3. QED
      BY <2>1, <2>2 DEF FramesUndivided
  <1>4. Undivided(rbuf, 0)'
    BY <1>2, <1>3, <1>1 DEF Undivided
  <1>5. QED
    BY <1>1, <1>2, <1>4 DEF FramesUndivided

\* Steps after which the handler holds no parameter.
LEMMA NothingHeld ==
    ASSUME Typed, ParamsIntact, stdin' = stdin, todo' = todo,
           rbuf' \in {rbuf, <<>>} \/ (rbuf # <<>> /\ rbuf' = Tail(rbuf)),
           pc' \in {"ptype", "pvalue", "bind"} => Len(h'.params) = 0 /\ pc' # "pvalue"
    PROVE  ParamsIntact'
  <1>1. FramesUndivided'
    BY FramesKept DEF ParamsIntact
  <1>2. pc' \in {"ptype", "pvalue", "bind"} => Held(pc', h') = 0
    BY DEF Held
  <1>3. HeldIntact'
    BY <1>2 DEF HeldIntact
  <1>4. QED
    BY <1>1, <1>3 DEF ParamsIntact

\* Steps of the client that add nothing to what follows.
LEMMA SameParams ==
    ASSUME Typed, ParamsIntact, UNCHANGED <<pc, h, rbuf, stdin, todo, req>>
    PROVE  ParamsIntact'
  <1>1. FramesUndivided' /\ \A n : Following(n)' = Following(n)
    BY FramesKept DEF ParamsIntact
  <1>2. HeldIntact'
    BY <1>1 DEF ParamsIntact, HeldIntact
  <1>3. QED
    BY <1>1, <1>2 DEF ParamsIntact

\* Within a parameter group, the next token that arrives is one of this group.
LEMMA NextInGroup ==
    ASSUME Typed, RequestMatches, pc \in {"ptype", "pvalue"}
    PROVE  \E t \in Token, rest \in Seq(Token) : t.g = h.i + 1 /\ Stream = <<t>> \o rest
  <1> DEFINE r == req
             i == h.i + 1
             m == Len(h.params)
             j == IF pc = "ptype" THEN m ELSE m - 1
             p == r.params[i][j + 1]
             typ == [k |-> "byte", v |-> p.type, g |-> i]
             after == AfterParam(r, i, j + 1)
  <1>1. /\ IsRequest(r) /\ r.fc \in {"FC_EXEC", "FC_QUERY"}
        /\ Located(r, pc, h) /\ Stream = Unread(r, pc, h) /\ h \in Locals
    BY InHandler DEF Handling
  <1>2. /\ GroupsRead(r, h) /\ h.i < Len(r.params)
        /\ pc = "ptype" => m < r.nparams
        /\ pc = "pvalue" => m \in 1..r.nparams /\ h.params[m].type = p.type /\ p.type # "VT_NULL"
    <2>1. m \in Nat
      BY <1>1 DEF Locals
    <2>2. pc = "pvalue" => j + 1 = m
      BY <2>1
    <2> HIDE DEF j, m
    <2>3. QED
      BY <1>1, <2>2 DEF Located, m
  <1>3. /\ h.i \in Nat /\ m \in Nat /\ r.nparams \in Nat /\ i \in DOMAIN r.params
        /\ j \in 0..(Len(r.params[i]) - 1)
    <2>1. h.i \in Nat /\ m \in Nat /\ r.nparams \in Nat /\ Len(r.params) \in Nat
      BY <1>1, <1>2, Parts DEF Locals, GroupsRead
    <2>2. i \in 1..Len(r.params)
      BY <1>2, <2>1
    <2>3. Len(r.params[i]) = r.nparams /\ i \in DOMAIN r.params
      BY <1>1, <2>1, <2>2, GroupShape
    <2>4. QED
      BY <1>2, <2>1, <2>3
  <1>4. /\ after \in Seq(Token) /\ typ \in Token /\ ValueTok(p, i) \in Token
        /\ p.type = "VT_NULL" => AfterParam(r, i, j) = <<typ>> \o after
        /\ p.type # "VT_NULL" => AfterParam(r, i, j) = <<typ>> \o (<<ValueTok(p, i)>> \o after)
    BY <1>1, <1>3, NextParamTokens, ZenonT(60)
  <1>5. typ.g = i /\ ValueTok(p, i).g = i
    BY DEF ValueTok
  <1>6. CASE pc = "ptype"
    <2>1. Stream = AfterParam(r, i, j)
      BY <1>1, <1>6 DEF Unread
    <2> DEFINE rest == IF p.type = "VT_NULL" THEN after ELSE <<ValueTok(p, i)>> \o after
    <2>2. Stream = <<typ>> \o rest
      BY <1>4, <2>1, ZenonT(60)
    <2>3. rest \in Seq(Token)
      <3> DEFINE t == ValueTok(p, i)
      <3> HIDE DEF t, after
      <3>1. t \in Token /\ after \in Seq(Token)
        BY <1>4 DEF t
      <3>2. <<t>> \o after \in Seq(Token)
        BY <3>1, SMTT(60)
      <3>3. QED
        BY <1>4, <3>2, ZenonT(60) DEF t
    <2> HIDE DEF typ, rest, i
    <2>4. QED
      BY <1>4, <1>5, <2>2, <2>3 DEF i
  <1>7. CASE pc = "pvalue"
    <2>1. j + 1 = m
      BY <1>3, <1>7
    <2>2. Stream = <<ValueTok(p, i)>> \o after
      BY <1>1, <1>7, <2>1, SMTT(60) DEF Unread
    <2> DEFINE t == ValueTok(p, i)
    <2> HIDE DEF t, after, i
    <2>3. t \in Token /\ t.g = i /\ Stream = <<t>> \o after
      BY <1>4, <1>5, <2>2 DEF t
    <2>4. QED
      BY <1>4, <2>3 DEF i
  <1>8. QED
    BY <1>6, <1>7

\* Refilling the buffer leaves the handler's parameters alone.
LEMMA FrameIntact ==
    ASSUME Typed, RequestMatches, ParamsIntact, readNextFrameIfNeeded, UNCHANGED clientVars
    PROVE  ParamsIntact'
  <1> DEFINE P == [type : ValueTypes, v : STRING \cup {"none", "stale"}]
  <1>1. /\ rbuf = <<>> /\ stdin # <<>> /\ rbuf' = Head(stdin) /\ stdin' = Tail(stdin)
        /\ pc' = pc /\ todo' = todo /\ req' = req
        /\ pc # "bind"
    BY DEF readNextFrameIfNeeded, clientVars, Reading, Want
  <1>2. PICK qs \in {h.params, Stale(h.params)} : h' = [h EXCEPT !.params = qs]
    BY DEF readNextFrameIfNeeded
  <1>3. /\ stdin \in Seq(Seq(Token)) /\ Len(stdin) \in Nat \ {0} /\ Head(stdin) = stdin[1]
        /\ DOMAIN stdin = 1..Len(stdin)
        /\ \A n \in DOMAIN stdin' : n + 1 \in DOMAIN stdin /\ stdin'[n] = stdin[n + 1]
        /\ Len(stdin') = Len(stdin) - 1 /\ DOMAIN stdin' = 1..Len(stdin')
        /\ stdin[1] # <<>> /\ stdin[1] \in Seq(Token)
    <2>1. stdin \in Seq(Seq(Token)) /\ \A i \in DOMAIN stdin : stdin[i] # <<>>
      BY DEF Typed
    <2> DEFINE T == Seq(Token)
    <2>2. stdin \in Seq(T)
      BY <2>1
    <2> HIDE DEF T
    <2>3. /\ Len(stdin) \in Nat \ {0} /\ Head(stdin) = stdin[1] /\ DOMAIN stdin = 1..Len(stdin)
          /\ stdin[1] \in T
          /\ \A n \in DOMAIN Tail(stdin) : n + 1 \in DOMAIN stdin /\ Tail(stdin)[n] = stdin[n + 1]
          /\ Len(Tail(stdin)) = Len(stdin) - 1 /\ DOMAIN Tail(stdin) = 1..Len(Tail(stdin))
      BY <1>1, <2>2
    <2>4. stdin[1] # <<>>
      <3>1. 1 \in DOMAIN stdin
        BY <2>3
      <3>2. QED
        BY <2>1, <3>1
    <2>5. stdin[1] \in Seq(Token)
      BY <2>3 DEF T
    <2>6. QED
      BY <1>1, <2>1, <2>3, <2>4, <2>5
  <1>4. \A n \in Nat : Following(n)' = Following(n + 1)
    <2>1. ASSUME NEW n \in Nat PROVE Following(n)' = Following(n + 1)
      <3>1. n < Len(stdin') <=> n + 1 < Len(stdin)
        BY <1>3
      <3>2. n < Len(stdin') => stdin'[n + 1] = stdin[(n + 1) + 1]
        <4>1. n < Len(stdin') => n + 1 \in 1..Len(stdin')
          BY <1>3
        <4> DEFINE m == n + 1
        <4> HIDE DEF m
        <4>2. m \in DOMAIN stdin' => stdin'[m] = stdin[m + 1]
          BY <1>3
        <4>3. QED
          BY <1>3, <4>1, <4>2 DEF m
      <3>3. QED
        BY <1>1, <3>1, <3>2 DEF Following
    <2>2. QED
      BY <2>1
  <1>5. \A s : \A n \in Nat : Undivided(s, n)' <=> Undivided(s, n + 1)
    BY <1>4 DEF Undivided
  <1>6. FramesUndivided'
    <2>1. Undivided(stdin[1], 1) /\ \A n \in DOMAIN stdin' : Undivided(stdin[n + 1], n + 1)
      BY <1>3 DEF ParamsIntact, FramesUndivided
    <2>2. Undivided(rbuf, 0)'
      <3>1. \A j \in DOMAIN stdin[1] : stdin[1][j].k \in {"string", "blob"} /\ stdin[1][j].g # 0 =>
                 \A x \in Following(1) : x.g # stdin[1][j].g
        BY <2>1 DEF Undivided
      <3>2. Following(0)' = Following(1)
        BY <1>4
      <3>3. rbuf' = stdin[1]
        BY <1>1, <1>3
      <3>4. \A j \in DOMAIN rbuf' : rbuf'[j].k \in {"string", "blob"} /\ rbuf'[j].g # 0 =>
                 \A x \in Following(0)' : x.g # rbuf'[j].g
        BY <3>1, <3>2, <3>3
      <3>5. QED
        BY <3>4 DEF Undivided
    <2>3. QED
      BY <1>1, <1>3, <1>5, <2>1, <2>2 DEF FramesUndivided
  <1>7. HeldIntact'
    <2>1. SUFFICES ASSUME pc \in {"ptype", "pvalue"}, NEW j \in 1..Held(pc, h')
                   PROVE  h'.params[j] = req.params[h'.i + 1][j] /\ h'.params[j].type \notin Pointers
      BY <1>1 DEF HeldIntact
    <2>2. h \in Locals
      BY DEF Typed, TypeOK, Locals
    <2>3. h.params \in Seq(P)
      BY <2>2 DEF Locals
    <2>4. qs \in Seq(P) /\ Len(qs) = Len(h.params)
      BY <2>3, StaleIs
    <2>5. h'.params = qs /\ h'.i = h.i
      BY <1>2, <2>2 DEF Locals
    <2>6. Held(pc, h') = Held(pc, h) /\ Held(pc, h) \in Int /\ Held(pc, h) <= Len(h.params)
      <3>1. Len(h.params) \in Nat
        BY <2>3
      <3>2. QED
        BY <2>4, <2>5, <3>1 DEF Held
    <2>7. j \in 1..Held(pc, h) /\ j \in DOMAIN h.params
      <3>1. DOMAIN h.params = 1..Len(h.params) /\ Len(h.params) \in Nat
        BY <2>3
      <3>2. QED
        BY <2>1, <2>6, <3>1
    <2>8. h.params[j] = req.params[h.i + 1][j]
          /\ (h.params[j].type \in Pointers => \A x \in Following(0) : x.g # h.i + 1)
      BY <1>1, <2>1, <2>7 DEF ParamsIntact, HeldIntact
    <2>9. PICK t \in Token, rest \in Seq(Token) : t.g = h.i + 1 /\ Stream = <<t>> \o rest
      BY <2>1, NextInGroup
    <2>10. Following(0) = {t}
      <3>1. Stream' = Stream /\ rbuf' \in Seq(Token) /\ stdin' \in Seq(Seq(Token))
        BY <1>1, FrameStream
      <3>2. FlattenSeq(stdin') \in Seq(Token) /\ todo' \in Seq(Token)
        BY <1>1, <3>1, FlattenType DEF Typed
      <3>3. (rbuf' \o FlattenSeq(stdin')) \o todo' = <<t>> \o rest
        BY <2>9, <3>1 DEF Stream
      <3>4. rbuf' # <<>>
        BY <1>1, <1>3
      <3>5. Head(rbuf') = t
        BY <3>1, <3>2, <3>3, <3>4, HeadOfStream
      <3>6. Head(rbuf') = stdin[1][1]
        BY <1>1, <1>3
      <3>7. QED
        BY <1>3, <3>5, <3>6 DEF Following
    <2>11. h.params[j].type \notin Pointers
      BY <2>8, <2>9, <2>10
    <2>12. qs[j] = h.params[j]
      BY <2>7, <2>11 DEF Stale
    <2>13. QED
      BY <2>5, <2>8, <2>11, <2>12
  <1>8. QED
    BY <1>6, <1>7 DEF ParamsIntact

\* What is left of a sequence.
LEMMA RestOf ==
    ASSUME NEW T, NEW s \in Seq(T), NEW k \in 1..Len(s), NEW t, t = SubSeq(s, k + 1, Len(s))
    PROVE  /\ DOMAIN t = 1..(Len(s) - k)
           /\ k # Len(s) => t[1] = s[k + 1]
           /\ k = Len(s) => 1 \notin DOMAIN t
  <1>1. k \in Nat /\ Len(s) \in Nat /\ k <= Len(s)
    OBVIOUS
  <1>2. Len(t) = Len(s) - k /\ t \in Seq(T) /\ (k # Len(s) => t[1] = s[k + 1])
    BY <1>1
  <1>3. DOMAIN t = 1..Len(t)
    BY <1>2
  <1>4. QED
    BY <1>1, <1>2, <1>3

\* A client that takes the precautions cuts no group behind a string or blob.
LEMMA WriteFrameIntact ==
    ASSUME Cuts # "value", Typed, ParamsIntact, WriteFrame
    PROVE  ParamsIntact'
  <1>1. PICK k \in 1..Len(todo) :
          /\ CutOk(k)
          /\ stdin' = Append(stdin, SubSeq(todo, 1, k))
          /\ todo' = SubSeq(todo, k + 1, Len(todo))
    BY DEF WriteFrame
  <1>2. rbuf' = rbuf /\ pc' = pc /\ h' = h /\ req' = req
    BY DEF WriteFrame, serverVars
  <1> DEFINE f == SubSeq(todo, 1, k)
  <1>0. PICK n \in Nat : n = Len(stdin) /\ DOMAIN stdin = 1..n
    BY DEF Typed
  <1>3. /\ k \in Nat /\ todo \in Seq(Token) /\ Len(todo) \in Nat /\ k <= Len(todo) /\ n \in Nat
        /\ n = Len(stdin) /\ DOMAIN stdin = 1..n /\ DOMAIN todo = 1..Len(todo) /\ 1 \in DOMAIN todo
        /\ stdin \in Seq(Seq(Token))
    BY <1>0 DEF Typed
  <1>4. f \in Seq(Token) /\ f # <<>> /\ Len(f) = k /\ \A j \in 1..k : f[j] = todo[j]
    BY <1>3, SMTT(60)
  <1>5. /\ DOMAIN todo' = 1..(Len(todo) - k)
        /\ k # Len(todo) => todo'[1] = todo[k + 1]
        /\ k = Len(todo) => 1 \notin DOMAIN todo'
    BY <1>1, <1>3, RestOf
  <1>6. /\ DOMAIN stdin' = 1..(n + 1) /\ Len(stdin') = n + 1
        /\ \A i \in 1..n : stdin'[i] = stdin[i]
        /\ stdin'[n + 1] = f
    <2> DEFINE T == Seq(Token)
    <2>1. stdin \in Seq(T) /\ f \in T
      BY <1>3, <1>4
    <2> HIDE DEF T, f
    <2>2. QED
      BY <1>1, <1>3, <2>1 DEF f
  <1> HIDE DEF f
  <1>7. ASSUME NEW i \in 0..n PROVE Following(i)' = Following(i)
    <2>1. CASE i < n
      <3>1. i + 1 \in 1..n /\ i < n + 1
        BY <1>3, <2>1
      <3>2. QED
        BY <1>3, <1>6, <2>1, <3>1 DEF Following
    <2>2. CASE i = n
      <3>1. Following(i)' = {f[1]}
        BY <1>3, <1>6, <2>2 DEF Following
      <3>2. Following(i) = {todo[1]}
        BY <1>3, <2>2 DEF Following
      <3>3. f[1] = todo[1]
        BY <1>1, <1>4
      <3>4. QED
        BY <3>1, <3>2, <3>3
    <2>3. i < n \/ i = n
      BY <1>3
    <2>4. QED
      BY <2>1, <2>2, <2>3
  <1>8. \A s : \A i \in 0..n : Undivided(s, i) => Undivided(s, i)'
    BY <1>7 DEF Undivided
  <1>9. \A j \in DOMAIN f : f[j].k \in {"string", "blob"} /\ f[j].g # 0 =>
          \A x \in Following(n + 1)' : x.g # f[j].g
    <2>1. SUFFICES ASSUME NEW j \in DOMAIN f, f[j].k \in {"string", "blob"}, f[j].g # 0,
                          NEW x \in Following(n + 1)'
                   PROVE  x.g # f[j].g
      OBVIOUS
    <2>2. Following(n + 1)' = {todo'[i] : i \in 1..1 \cap DOMAIN todo'}
      BY <1>3, <1>6 DEF Following
    <2>3. k # Len(todo) /\ x = todo[k + 1]
      <3>1. x = todo'[1] /\ 1 \in DOMAIN todo'
        BY <2>1, <2>2
      <3>2. QED
        BY <1>5, <3>1
    <2>4. ~SplitsGroup(k)
      BY <1>1, <2>3, CutsAssumption DEF CutOk
    <2>5. j \in 1..k /\ f[j] = todo[j]
      BY <1>4, <2>1
    <2>6. QED
      BY <2>1, <2>3, <2>4, <2>5 DEF SplitsGroup
  <1>10. FramesUndivided'
    <2>1. Undivided(rbuf, 0)'
      <3>1. Undivided(rbuf, 0)
        BY DEF ParamsIntact, FramesUndivided
      <3>2. Following(0)' = Following(0)
        BY <1>3, <1>7
      <3>3. QED
        BY <1>2, <3>1, <3>2 DEF Undivided
    <2>2. \A i \in DOMAIN stdin' : Undivided(stdin[i], i)'
      <3>1. ASSUME NEW i \in 1..n PROVE Undivided(stdin[i], i)'
        <4>1. Undivided(stdin[i], i)
          BY <1>3 DEF ParamsIntact, FramesUndivided
        <4>2. Following(i)' = Following(i) /\ stdin'[i] = stdin[i]
          BY <1>3, <1>6, <1>7
        <4>3. QED
          BY <4>1, <4>2 DEF Undivided
      <3>2. Undivided(stdin[n + 1], n + 1)'
        BY <1>6, <1>9 DEF Undivided
      <3>3. QED
        BY <1>3, <1>6, <3>1, <3>2
    <2>3. QED
      BY <2>1, <2>2 DEF FramesUndivided
  <1>11. HeldIntact'
    <2>1. Following(0)' = Following(0)
      BY <1>3, <1>7
    <2>2. QED
      BY <1>2, <2>1 DEF ParamsIntact, HeldIntact
  <1>12. QED
    BY <1>10, <1>11 DEF ParamsIntact

\* Reading on in a group, of which m parameters have been read and perhaps one more is.
LEMMA OneMoreHeld ==
    ASSUME Typed, ParamsIntact, pc \in {"ptype", "pvalue"},
           stdin' = stdin, todo' = todo, req' = req, rbuf # <<>>, rbuf' = Tail(rbuf),
           h'.i = h.i, NEW m \in Nat, m = Held(pc, h), Held(pc', h') \in {m, m + 1},
           \A j \in 1..m : h'.params[j] = h.params[j],
           Held(pc', h') = m + 1 =>
             /\ h'.params[m + 1] = req.params[h.i + 1][m + 1]
             /\ pc' # "bind" /\ h'.params[m + 1].type \in Pointers => \A x \in Following(0) : x.g # h.i + 1
    PROVE  ParamsIntact'
  <1>1. FramesUndivided' /\ Following(0)' = Following(0)
    BY FramesKept DEF ParamsIntact
  <1>2. \A j \in 1..m :
          /\ h'.params[j] = req.params[h.i + 1][j]
          /\ h'.params[j].type \in Pointers => \A x \in Following(0) : x.g # h.i + 1
    BY DEF ParamsIntact, HeldIntact
  <1>3. ASSUME NEW j \in 1..Held(pc', h')
        PROVE  /\ h'.params[j] = req.params[h.i + 1][j]
               /\ pc' # "bind" /\ h'.params[j].type \in Pointers => \A x \in Following(0) : x.g # h.i + 1
    <2>1. j \in 1..m \/ (j = m + 1 /\ Held(pc', h') = m + 1)
      BY <1>3
    <2>2. QED
      BY <1>2, <2>1
  <1>4. HeldIntact'
    BY <1>1, <1>3 DEF HeldIntact
  <1>5. QED
    BY <1>1, <1>4 DEF ParamsIntact

\* A type that has been read, and a NULL with it.
LEMMA ParamTypeIntact ==
    ASSUME Typed, RequestMatches, RequestMatches', Typed', ParamsIntact, ReadParamType, UNCHANGED clientVars
    PROVE  ParamsIntact'
  <1> DEFINE P == [type : ValueTypes, v : STRING \cup {"none", "stale"}]
             m == Len(h.params)
             new == [type |-> Head(rbuf).v, v |-> "none"]
  <1>1. /\ pc = "ptype" /\ rbuf # <<>> /\ rbuf' = Tail(rbuf) /\ stdin' = stdin
        /\ Head(rbuf).v \in ValueTypes
        /\ h' = [h EXCEPT !.params = Append(@, new)]
        /\ pc' = IF Head(rbuf).v = "VT_NULL" THEN NextParam(h') ELSE "pvalue"
        /\ todo' = todo /\ req' = req
    BY DEF ReadParamType, Read, At, Val, clientVars
  <1>2. h \in Locals /\ h' \in Locals
    BY DEF Typed, TypeOK, Locals
  <1>3. h.params \in Seq(P) /\ h.i \in Nat /\ m \in Nat /\ new \in P
    BY <1>1, <1>2 DEF Locals
  <1>4. h'.i = h.i /\ h'.params = Append(h.params, new)
    BY <1>1, <1>2 DEF Locals
  <1> HIDE DEF new
  <1>5. Len(h'.params) = m + 1 /\ h'.params[m + 1] = new /\ \A j \in 1..m : h'.params[j] = h.params[j]
    BY <1>3, <1>4, AppendProperties
  <1>6. CASE Head(rbuf).v # "VT_NULL"
    <2>1. pc' = "pvalue" /\ Held(pc, h) = m /\ Held(pc', h') = m
      BY <1>1, <1>3, <1>5, <1>6 DEF Held
    <2>2. Held(pc', h') # m + 1
      BY <1>3, <2>1
    <2> HIDE DEF m
    <2>3. QED
      BY <1>1, <1>3, <1>4, <1>5, <2>1, <2>2, OneMoreHeld
  <1>7. CASE Head(rbuf).v = "VT_NULL"
    <2>1. pc' = NextParam(h')
      BY <1>1, <1>7
    <2>2. CASE pc' = "reply"
      BY <1>1, <2>2, NothingHeld, SMTT(60)
    <2>3. CASE pc' # "reply"
      <3>1. pc' \in {"ptype", "bind"}
        BY <2>1, <2>3 DEF NextParam
      <3>2. Held(pc, h) = m /\ Held(pc', h') = m + 1
        BY <1>1, <1>5, <3>1 DEF Held
      <3>3. IsRequest(req) /\ Located(req, pc', h')
        <4>1. pc \in Handling /\ pc' \in Handling
          BY <1>1, <3>1 DEF Handling
        <4>2. IsRequest(req)
          BY <4>1, InHandler
        <4>3. Located(req', pc', h')
          BY <4>1 DEF RequestMatches
        <4>4. QED
          BY <1>1, <4>2, <4>3
      <3> DEFINE r == req
                 q == req.params[h.i + 1][m + 1]
      <3>4. GroupsRead(r, h') /\ h'.i < Len(r.params) /\ ParamsRead(r, h', m + 1) /\ m + 1 <= r.nparams
        <4>1. pc' = "ptype" => Len(h'.params) < r.nparams /\ ParamsRead(r, h', Len(h'.params))
          BY <3>3 DEF Located
        <4>2. pc' = "bind" => Len(h'.params) = r.nparams /\ ParamsRead(r, h', r.nparams)
          BY <3>3 DEF Located
        <4>3. GroupsRead(r, h') /\ h'.i < Len(r.params)
          BY <3>1, <3>3 DEF Located
        <4>4. r.nparams \in Nat
          BY <4>3 DEF GroupsRead
        <4>5. QED
          BY <1>3, <1>5, <3>1, <4>1, <4>2, <4>3, <4>4
      <3>5. Arrived(new, q)
        BY <1>3, <1>4, <1>5, <3>4, SMTT(60) DEF ParamsRead
      <3>6. q \in [type : STRING, v : STRING]
        <4>1. r.nparams \in Nat /\ h.i + 1 \in 1..Len(r.params) /\ r.params \in Seq(Seq(Param))
          BY <1>3, <1>4, <3>3, <3>4, Parts DEF GroupsRead, IsRequest, Param
        <4>2. Len(r.params[h.i + 1]) = r.nparams /\ r.params[h.i + 1] \in Seq(Param)
          BY <3>3, <4>1, GroupShape
        <4>3. m + 1 \in 1..Len(r.params[h.i + 1])
          BY <1>3, <3>4, <4>1, <4>2
        <4> DEFINE g == r.params[h.i + 1]
        <4> HIDE DEF g
        <4>4. g \in Seq(Param) /\ m + 1 \in 1..Len(g) => g[m + 1] \in Param
          OBVIOUS
        <4>5. QED
          BY <4>2, <4>3, <4>4 DEF g, Param
      <3>7. new.type = "VT_NULL" /\ new.type \notin Pointers
        BY <1>7 DEF new, Pointers
      <3>8. new = q
        <4>1. new.type = q.type /\ new.v = q.v
          BY <3>5, <3>7 DEF Arrived
        <4>2. new = [type |-> new.type, v |-> new.v] /\ q = [type |-> q.type, v |-> q.v]
          BY <1>3, <3>6
        <4>3. QED
          BY <4>1, <4>2
      <3> HIDE DEF q
      <3>9. h'.params[m + 1] = q /\ h'.params[m + 1].type \notin Pointers
        BY <1>5, <3>7, <3>8
      <3>10. QED
        BY <1>1, <1>3, <1>4, <1>5, <3>2, <3>9, OneMoreHeld DEF q
    <2>4. QED
      BY <2>2, <2>3
  <1>8. QED
    BY <1>6, <1>7

\* A parameter of the group that is being read.
LEMMA GroupParam ==
    ASSUME NEW r, IsRequest(r), NEW l \in Locals, GroupsRead(r, l), l.i < Len(r.params),
           NEW j \in 1..r.nparams
    PROVE  /\ r.params[l.i + 1][j] \in [type : STRING, v : STRING]
           /\ l.i + 1 \in DOMAIN r.params /\ j \in DOMAIN r.params[l.i + 1]
           /\ Len(r.params[l.i + 1]) = r.nparams /\ l.i + 1 \in 1..Len(r.params)
  <1>1. l.i \in Nat /\ r.nparams \in Nat /\ Len(r.params) \in Nat /\ r.params \in Seq(Seq(Param))
    BY Parts DEF GroupsRead, Locals, IsRequest, Param
  <1>2. l.i + 1 \in 1..Len(r.params)
    BY <1>1
  <1> DEFINE g == r.params[l.i + 1]
  <1>3. Len(g) = r.nparams /\ l.i + 1 \in DOMAIN r.params
    BY <1>1, <1>2, GroupShape
  <1>4. g \in Seq(Param)
    <2> DEFINE T == Seq(Param)
    <2>1. r.params \in Seq(T) /\ l.i + 1 \in 1..Len(r.params)
      BY <1>1, <1>2
    <2> HIDE DEF T
    <2>2. g \in T
      BY <2>1
    <2>3. QED
      BY <2>2 DEF T
  <1> HIDE DEF g
  <1>5. j \in DOMAIN g /\ g[j] \in Param
    BY <1>1, <1>3, <1>4
  <1>6. QED
    BY <1>2, <1>3, <1>5 DEF g, Param

\* A value that has been read, a pointer to it for a string or blob.
LEMMA ParamValueIntact ==
    ASSUME Typed, RequestMatches, ParamsIntact, ReadParamValue, UNCHANGED clientVars
    PROVE  ParamsIntact'
  <1> DEFINE P == [type : ValueTypes, v : STRING \cup {"none", "stale"}]
             r == req
             i == h.i + 1
             n == Len(h.params)
             q == r.params[i][n]
             t == ValueTok(q, i)
             old == h.params[n]
             new == [old EXCEPT !.v = Head(rbuf).v]
             rest == AfterParam(r, i, n)
  <1>1. /\ pc = "pvalue" /\ rbuf # <<>> /\ rbuf' = Tail(rbuf) /\ stdin' = stdin
        /\ Head(rbuf).k = Payload(old.type)
        /\ h' = [h EXCEPT !.params = [h.params EXCEPT ![n] = new]]
        /\ pc' = NextParam(h')
        /\ todo' = todo /\ req' = req
    BY DEF ReadParamValue, Read, At, Val, Want, Last, clientVars
  <1>2. /\ IsRequest(r) /\ r.fc \in {"FC_EXEC", "FC_QUERY"}
        /\ Located(r, "pvalue", h) /\ Stream = Unread(r, "pvalue", h) /\ h.fc = r.fc /\ h \in Locals
    BY <1>1, InHandler, SMTT(60) DEF Handling
  <1>3. /\ GroupsRead(r, h) /\ h.i < Len(r.params) /\ n \in 1..r.nparams
        /\ old.type = q.type /\ q.type # "VT_NULL"
        /\ Stream = <<t>> \o rest
    BY <1>2 DEF Located, Unread
  <1>4. /\ q \in [type : STRING, v : STRING] /\ i \in DOMAIN r.params /\ n \in DOMAIN r.params[i]
        /\ Len(r.params[i]) = r.nparams /\ h.i \in Nat /\ r.nparams \in Nat /\ n \in Nat
    <2>1. h.i \in Nat /\ r.nparams \in Nat /\ n \in Nat
      BY <1>2, <1>3 DEF Locals, GroupsRead
    <2> HIDE DEF n
    <2>2. QED
      BY <1>2, <1>3, <2>1, GroupParam
  <1>5. t \in Token /\ rest \in Seq(Token)
    <2>1. t \in Token
      BY <1>2, <1>4, ParamTokens
    <2>2. n - 1 \in 0..(Len(r.params[i]) - 1) /\ (n - 1) + 1 = n
      BY <1>3, <1>4
    <2>3. AfterParam(r, i, (n - 1) + 1) \in Seq(Token)
      BY <1>2, <1>4, <2>2, NextParamTokens
    <2>4. QED
      BY <2>1, <2>2, <2>3
  <1>6. Head(rbuf) = t
    <2> HIDE DEF rest, t
    <2>1. QED
      BY <1>1, <1>3, <1>5, TokenStream
  <1>7. h.params \in Seq(P) /\ n \in 1..Len(h.params) /\ old \in P
    <2>1. h.params \in Seq(P)
      BY <1>2 DEF Locals
    <2>2. n \in 1..Len(h.params)
      BY <1>3, <1>4
    <2> HIDE DEF P
    <2>3. QED
      BY <2>1, <2>2
  <1>8. t.v = q.v /\ t.g = i
    BY DEF ValueTok
  <1>9. new = q /\ new \in P
    <2>1. new = [type |-> q.type, v |-> q.v]
      BY <1>3, <1>6, <1>7, <1>8
    <2>2. q = [type |-> q.type, v |-> q.v] /\ q.v \in STRING /\ q.type \in ValueTypes
      BY <1>3, <1>4, <1>7
    <2>3. QED
      BY <2>1, <2>2, SMTT(60)
  <1> HIDE DEF new, t, rest
  <1>10. /\ h'.i = h.i /\ h'.params[n] = new /\ Len(h'.params) = n
         /\ \A j \in 1..(n - 1) : h'.params[j] = h.params[j]
    <2> DEFINE ps == [h.params EXCEPT ![n] = new]
    <2>1. /\ ps \in Seq(P) /\ Len(ps) = Len(h.params)
          /\ \A j \in 1..Len(h.params) : ps[j] = IF j = n THEN new ELSE h.params[j]
      BY <1>7, <1>9, ExceptSeq
    <2> HIDE DEF ps
    <2>2. h'.i = h.i /\ h'.params = ps
      BY <1>1, <1>2 DEF Locals, ps
    <2>3. \A j \in 1..(n - 1) : j \in 1..Len(h.params) /\ j # n
      BY <1>4, <1>7
    <2>4. QED
      BY <1>7, <2>1, <2>2, <2>3
  <1>11. old.type \in Pointers => \A x \in Following(0) : x.g # i
    <2>1. SUFFICES ASSUME old.type \in Pointers PROVE \A x \in Following(0) : x.g # i
      OBVIOUS
    <2>2. t.k \in {"string", "blob"} /\ t.g # 0
      BY <1>1, <1>4, <1>6, <1>8, <2>1 DEF Payload, Pointers
    <2>3. rbuf[1] = t /\ 1 \in DOMAIN rbuf
      <3>1. rbuf \in Seq(Token)
        BY DEF Typed
      <3>2. QED
        BY <1>1, <1>6, <3>1
    <2>4. Undivided(rbuf, 0)
      BY DEF ParamsIntact, FramesUndivided
    <2>5. QED
      BY <1>8, <2>2, <2>3, <2>4 DEF Undivided
  <1>12. CASE pc' = "reply"
    BY <1>1, <1>12, NothingHeld
  <1>13. CASE pc' # "reply"
    <2> DEFINE m == n - 1
    <2>1. pc' \in {"ptype", "bind"}
      BY <1>1, <1>13 DEF NextParam
    <2>2. m \in Nat /\ m + 1 = n /\ Held(pc, h) = m /\ Held(pc', h') = m + 1
      BY <1>1, <1>3, <1>4, <1>10, <2>1 DEF Held
    <2> HIDE DEF m, n
    <2>3. \A j \in 1..m : h'.params[j] = h.params[j]
      BY <1>10, <2>2 DEF m
    <2>4. h'.params[m + 1] = req.params[h.i + 1][m + 1]
      BY <1>9, <1>10, <2>2
    <2>5. h'.params[m + 1].type \in Pointers => \A x \in Following(0) : x.g # h.i + 1
      BY <1>3, <1>9, <1>10, <1>11, <2>2
    <2>6. QED
      BY <1>1, <1>10, <2>2, <2>3, <2>4, <2>5, OneMoreHeld
  <1>14. QED
    BY <1>12, <1>13

\* Every step keeps the parameters as they were sent.
LEMMA NextIntact ==
    ASSUME Cuts # "value", ExchangeInv, ExchangeInv', ParamsIntact, [Next]_vars
    PROVE  ParamsIntact'
  <1>1. /\ Typed /\ RequestMatches /\ ClientMatches /\ RequestMatches' /\ Typed'
        /\ h \in Locals /\ h' \in Locals
    BY DEF ExchangeInv, Typed, TypeOK, Locals
  <1>2. Len(<<>>) = 0
    OBVIOUS
  <1> DEFINE Groups3 == {"ptype", "pvalue", "bind"}
             empty == <<>>
  <1>3. CASE Server
    <2>1. UNCHANGED clientVars /\ AppNext /\ todo' = todo
      BY <1>3 DEF Server, clientVars
    <2>2. CASE readNextFrameIfNeeded
      BY <1>1, <2>1, <2>2, FrameIntact
    <2>3. CASE Abort
      <3>1. stdin' = stdin /\ rbuf' = <<>> /\ pc' = "dead"
        BY <2>3 DEF Abort
      <3>2. QED
        BY <1>1, <2>1, <3>1, NothingHeld
    <2>4. CASE ReadParamType
      BY <1>1, <2>1, <2>4, ParamTypeIntact
    <2>5. CASE ReadParamValue
      BY <1>1, <2>1, <2>5, ParamValueIntact
    <2>6. CASE ~Abort /\ (AppStep \/ ReadSql \/ ReadNiter \/ ReadNcols \/ ReadColtype)
      <3>1. rbuf # <<>> /\ rbuf' = Tail(rbuf) /\ stdin' = stdin /\ pc' \notin Groups3
        BY <2>6 DEF AppStep, ReadSql, ReadNiter, ReadNcols, ReadColtype, Read, At, NextColtype
      <3>2. QED
        BY <1>1, <2>1, <3>1, NothingHeld
    <2>7. CASE ReadNparams
      <3>1. /\ rbuf # <<>> /\ rbuf' = Tail(rbuf) /\ stdin' = stdin /\ pc = "nparams"
            /\ h' = [h EXCEPT !.nparams = Val] /\ pc' = NextParam(h')
        BY <2>7 DEF ReadNparams, Read, At
      <3>2. h.params = <<>>
        BY <1>1, <3>1, InHandler DEF Handling, Located
      <3>3. h'.params = empty
        BY <1>1, <3>1, <3>2 DEF Locals
      <3>4. pc' # "pvalue"
        BY <3>1 DEF NextParam
      <3>5. QED
        BY <1>1, <1>2, <2>1, <3>1, <3>3, <3>4, NothingHeld
    <2>8. CASE BindExec
      <3>1. /\ rbuf' = rbuf /\ stdin' = stdin /\ pc' = NextParam(h')
            /\ \E o : h' = [h EXCEPT !.ok = o.ok, !.i = @ + 1, !.params = empty]
        BY <2>8 DEF BindExec
      <3>2. h'.params = empty
        <4> HIDE DEF empty
        <4>1. QED
          BY <1>1, <3>1 DEF Locals
      <3>3. pc' # "pvalue"
        BY <3>1 DEF NextParam
      <3>4. QED
        BY <1>1, <1>2, <2>1, <3>1, <3>2, <3>3, NothingHeld
    <2>9. CASE ~Abort /\ (AppFlush \/ Shutdown \/ BindQuery \/ FetchRow \/ MarkFrame \/ EndRows \/ Reply)
      <3>1. rbuf' = rbuf /\ stdin' = stdin
        BY <2>9 DEF AppFlush, Shutdown, BindQuery, FetchRow, MarkFrame, EndRows, Reply, WriterFlush
      <3>2. pc' \in {"quit", "fc", "closed", "ncols", "mark", "step", "reply", "flush"}
        BY <2>9 DEF AppFlush, Shutdown, BindQuery, FetchRow, MarkFrame, EndRows, Reply, WriterFlush
      <3>3. QED
        BY <1>1, <2>1, <3>1, <3>2, NothingHeld, SMTT(60)
    <2>10. CASE EndOfInput \/ ShortFrame \/ BrokenPipe \/ InvalidByte \/ BadCount
      BY <2>3, <2>10 DEF EndOfInput, ShortFrame, BrokenPipe, InvalidByte, BadCount
    <2>11. QED
      BY <2>1, <2>2, <2>3, <2>4, <2>5, <2>6, <2>7, <2>8, <2>9, <2>10 DEF AppNext
  <1>4. CASE WriteFrame
    BY <1>1, <1>4, WriteFrameIntact
  <1>5. CASE Send \/ SendQuit
    <2>1. st = "idle" /\ rbuf' = rbuf /\ stdin' = stdin /\ pc' = pc
      BY <1>5 DEF Send, SendQuit, Start, appVars
    <2>2. rbuf = <<>> /\ stdin = <<>> /\ pc = "fc"
      BY <1>1, <2>1, EmptyStream DEF ClientMatches, Waiting
    <2>3. QED
      BY <2>1, <2>2 DEF ParamsIntact, FramesUndivided, HeldIntact, Undivided
  <1>6. CASE NewSession
    <2>1. rbuf' = <<>> /\ stdin' = <<>> /\ pc' = "fc"
      BY <1>6 DEF NewSession
    <2>2. QED
      BY <2>1 DEF ParamsIntact, FramesUndivided, HeldIntact, Undivided
  <1>7. CASE ReadFrame \/ Lose \/ Die \/ UNCHANGED vars
    <2>1. UNCHANGED <<pc, h, rbuf, stdin, todo, req>>
      BY <1>7 DEF ReadFrame, Lose, Die, vars, appVars, serverVars, clientVars
    <2>2. QED
      BY <1>1, <2>1, SameParams
  <1>8. QED
    BY <1>3, <1>4, <1>5, <1>6, <1>7 DEF Next, Terminated

-----------------------------------------------------------------------------
\* Steps that do not call SQLite.

\* The definitions that speak of base and req.
LEMMA SameRequest ==
    ASSUME base' = base, req' = req
    PROVE  /\ \A v, n : Failed(v, n)' <=> Failed(v, n)
           /\ \A v, ok : Outcome(v, ok)' <=> Outcome(v, ok)
  BY DEF Failed, Lost, Outcome

\* A step within a handler that leaves its results alone.
LEMMA StillHandling ==
    ASSUME StmtMatches, DataMatches, pc \in Handling, pc' \in Handling,
           UNCHANGED <<db, base, req, acked>>,
           h'.fc = h.fc, h'.ok = h.ok, h'.i = h.i, h'.hasRow = h.hasRow,
           AllBound' => AllBound,
           pc' = "sql" => pc = "sql",
           pc' \notin {"step", "reply"} => pc \notin {"step", "reply"},
           pc' = "reply" /\ req.fc = "FC_QUERY" => ~(h.ok /\ h.hasRow)
    PROVE  StmtMatches' /\ DataMatches'
  <1>1. StmtMatches'
    BY DEF StmtMatches, Handling
  <1>2. View(db)' = View(db) /\ Progress' = Progress /\ Pending' = Pending
    BY DEF View, Progress, Pending
  <1>3. pc' \notin {"fc", "flush", "quit", "closed", "dead"}
    BY DEF Handling
  <1>4. DataMatches'
    BY <1>2, <1>3, SameRequest DEF DataMatches, Waiting, Down
  <1>5. QED
    BY <1>1, <1>4

\* The steps that only read, and those that end a row, leave the results of the calls alone.
LEMMA ResultsKept ==
    ASSUME h \in Locals,
           \/ readNextFrameIfNeeded \/ ReadNiter \/ ReadNparams \/ ReadParamType \/ ReadParamValue
           \/ ReadNcols \/ ReadColtype \/ MarkFrame \/ EndRows
    PROVE  h'.fc = h.fc /\ h'.ok = h.ok /\ h'.i = h.i /\ h'.hasRow = h.hasRow
  <1>1. CASE readNextFrameIfNeeded
    BY <1>1 DEF readNextFrameIfNeeded, Locals
  <1>2. CASE ReadNiter \/ ReadNparams
    BY <1>2 DEF ReadNiter, ReadNparams, Locals
  <1>3. CASE ReadParamType \/ ReadParamValue
    BY <1>3 DEF ReadParamType, ReadParamValue, Locals
  <1>4. CASE ReadNcols \/ ReadColtype
    BY <1>4 DEF ReadNcols, ReadColtype, Locals
  <1>5. CASE MarkFrame \/ EndRows
    BY <1>5 DEF MarkFrame, EndRows
  <1>6. QED
    BY <1>1, <1>2, <1>3, <1>4, <1>5

\* Reading a token or a frame in the midst of a handler, and the ends of rows.
LEMMA ReadData ==
    ASSUME Typed, RequestMatches, StmtMatches, DataMatches, UNCHANGED clientVars, pc \in Handling,
           \/ readNextFrameIfNeeded \/ ReadNiter \/ ReadNparams \/ ReadParamType \/ ReadParamValue
           \/ ReadNcols \/ ReadColtype \/ MarkFrame \/ EndRows
    PROVE  StmtMatches' /\ DataMatches'
  <1>1. h \in Locals /\ h.fc = req.fc
    BY InHandler
  <1>2. UNCHANGED <<db, base, req, acked>>
    BY DEF clientVars, readNextFrameIfNeeded, ReadNiter, ReadNparams, ReadParamType, ReadParamValue,
           ReadNcols, ReadColtype, MarkFrame, EndRows, WriterFlush
  <1>3. h'.fc = h.fc /\ h'.ok = h.ok /\ h'.i = h.i /\ h'.hasRow = h.hasRow
    BY <1>1, ResultsKept
  <1>4. CASE readNextFrameIfNeeded
    <2>1. pc' = pc /\ pc # "reply"
      BY <1>4 DEF readNextFrameIfNeeded, Reading, Want
    <2>2. AllBound' => AllBound
      BY <1>2, <1>3, <2>1 DEF AllBound
    <2>3. QED
      BY <1>2, <1>3, <2>1, <2>2, StillHandling
  <1>5. CASE ReadNiter \/ ReadNparams \/ ReadParamType \/ ReadParamValue
    <2>1. /\ pc \in {"niter", "nparams", "ptype", "pvalue"}
          /\ pc' \in {"nparams", "ptype", "pvalue", "bind", "reply"}
          /\ pc' = "reply" => h'.fc = "FC_EXEC"
      BY <1>5 DEF ReadNiter, ReadNparams, ReadParamType, ReadParamValue, Read, At, NextParam
    <2>2. ~AllBound' /\ pc' \in Handling
      BY <2>1 DEF AllBound, Handling
    <2>3. QED
      BY <1>1, <1>2, <1>3, <2>1, <2>2, StillHandling
  <1>6. CASE ReadNcols \/ ReadColtype
    <2>1. pc \in {"ncols", "ctype"} /\ pc' \in {"step", "ctype"}
      BY <1>6 DEF ReadNcols, ReadColtype, Read, At, NextColtype
    <2>2. (AllBound' => AllBound) /\ pc' \in Handling
      BY <1>2, <1>3, <2>1 DEF AllBound, Handling
    <2>3. QED
      BY <1>1, <1>2, <1>3, <2>1, <2>2, StillHandling
  <1>7. CASE MarkFrame \/ EndRows
    <2>1. pc \in {"mark", "step"} /\ pc' \in {"step", "reply"} /\ (pc' = "reply" => ~(h.ok /\ h.hasRow))
      BY <1>7 DEF MarkFrame, EndRows, WriterFlush
    <2>2. (AllBound' => AllBound) /\ pc' \in Handling
      BY <1>2, <1>3, <2>1 DEF AllBound, Handling
    <2>3. QED
      BY <1>1, <1>2, <1>3, <2>1, <2>2, StillHandling
  <1>8. QED
    BY <1>4, <1>5, <1>6, <1>7

-----------------------------------------------------------------------------
\* Steps outside the handlers.

\* A step that leaves the server, its request and the last frame of the reply alone.
LEMMA SameData ==
    ASSUME StmtMatches, DataMatches, UNCHANGED <<db, pc, base, req>>,
           acked' = acked \/ (acked' \in Seq(AnyRow) /\ IsPrefix(acked', db.disk)),
           pc \in Handling \cup {"flush"} => h' = h,
           db.stmt.vm = "run" => h' = h,
           pc = "flush" => wbuf' = wbuf,
           Stream' = <<>> <=> Stream = <<>>,
           st' # "dead" => st # "dead" /\ (Waiting => (ReplyOk(LastFrame') <=> ReplyOk(LastFrame)))
    PROVE  StmtMatches' /\ DataMatches'
  <1>1. StmtMatches'
    BY DEF StmtMatches, AllBound, Handling
  <1>2. View(db)' = View(db) /\ (Pending' <=> Pending) /\ (Waiting' <=> Waiting) /\ (Down' <=> Down)
    BY DEF View, Pending, Waiting, Down
  <1>3. pc \in Handling => Progress' = Progress
    BY DEF Progress
  <1>4. DataMatches'
    <2>1. Chained(base)' /\ (~Pending' => Chained(View(db)'))
      BY <1>2 DEF DataMatches, Chained
    <2>2. (pc \in Handling =>
             IF ~h.ok THEN Failed(View(db), Progress)
             ELSE IF Pending THEN View(db) = [base EXCEPT !.work = Append(@, Row(req.params[1]))]
             ELSE View(db) = Applied(base, req, Progress))'
      BY <1>2, <1>3, SameRequest DEF DataMatches
    <2>3. (pc = "flush" => Outcome(View(db), h.ok) /\ (ReplyOk(wbuf) <=> h.ok))'
      BY <1>2, SameRequest DEF DataMatches
    <2>4. (pc = "quit" \/ (pc = "flush" /\ req = QuitRequest) \/ (pc = "fc" /\ Stream # <<>>) => View(db) = base)'
      BY <1>2 DEF DataMatches
    <2>5. (Waiting => (req # NoReq => req.fc \in FunctionCodes) /\ \E ok \in BOOLEAN :
             /\ Outcome(View(db), ok)
             /\ st # "dead" /\ req # NoReq => (ReplyOk(LastFrame) <=> ok))'
      BY <1>2, SameRequest DEF DataMatches
    <2>6. (Down => db.work = db.disk /\ db.auto /\ \E j \in 0..Iterations(req) :
             j <= Len(req.params) /\ db.disk = Applied(base, req, j).disk)'
      BY <1>2 DEF DataMatches
    <2>7. (acked \in Seq(AnyRow) /\ IsPrefix(acked, db.disk))'
      BY DEF DataMatches
    <2>8. QED
      BY <2>1, <2>2, <2>3, <2>4, <2>5, <2>6, <2>7 DEF DataMatches
  <1>5. QED
    BY <1>1, <1>4

\* Reading a frame of the next request.
LEMMA FirstFrameData ==
    ASSUME ServerInv, Typed, StmtMatches, DataMatches, readNextFrameIfNeeded, UNCHANGED clientVars, pc \notin Handling
    PROVE  StmtMatches' /\ DataMatches'
  <1>1. /\ pc = "fc" /\ pc' = pc /\ db' = db /\ wbuf' = wbuf /\ stdout' = stdout
        /\ rbuf = <<>> /\ stdin # <<>> /\ rbuf' = Head(stdin) /\ stdin' = Tail(stdin)
    BY DEF readNextFrameIfNeeded, Reading, Want, Handling
  <1>2. todo' = todo /\ st' = st /\ req' = req /\ base' = base /\ acked' = acked /\ got' = got
    BY DEF clientVars
  <1>3. Stream' = Stream
    BY <1>1, <1>2, FrameStream
  <1>4. db.stmt.vm # "run"
    BY <1>1, Nothing DEF ServerInv, NoStatementLeft
  <1>5. LastFrame' = LastFrame
    BY <1>1, <1>2 DEF LastFrame
  <1>6. QED
    BY <1>1, <1>2, <1>3, <1>4, <1>5, SameData DEF Handling

\* The steps of a client that has begun a request.
LEMMA ClientData ==
    ASSUME Typed, ClientMatches, StmtMatches, DataMatches, WriteFrame \/ Lose \/ Die \/ UNCHANGED vars
    PROVE  StmtMatches' /\ DataMatches'
  <1>1. /\ db' = db /\ pc' = pc /\ base' = base /\ req' = req /\ acked' = acked /\ h' = h /\ wbuf' = wbuf
        /\ stdout' = stdout /\ got' = got /\ (st' # "dead" => st # "dead") /\ rbuf' = rbuf
    <2>1. CASE WriteFrame
      BY <2>1 DEF WriteFrame, serverVars
    <2>2. CASE Lose
      <3>1. st # "dead"
        BY <2>2 DEF Lose
      <3>2. QED
        BY <2>2, <3>1 DEF Lose, appVars
    <2>3. CASE Die
      BY <2>3 DEF Die, serverVars
    <2>4. CASE UNCHANGED vars
      BY <2>4 DEF vars, appVars, clientVars
    <2>5. QED
      BY <2>1, <2>2, <2>3, <2>4
  <1>2. Stream' = Stream
    <2>1. CASE WriteFrame
      <3>1. PICK k \in 1..Len(todo) :
              stdin' = Append(stdin, SubSeq(todo, 1, k)) /\ todo' = SubSeq(todo, k + 1, Len(todo))
        BY <2>1 DEF WriteFrame
      <3>2. QED
        BY <1>1, <3>1, SentStream
    <2>2. CASE Lose \/ Die \/ UNCHANGED vars
      BY <2>2 DEF Lose, Die, serverVars, vars, appVars, clientVars, Stream
    <2>3. QED
      BY <2>1, <2>2
  <1>3. LastFrame' = LastFrame
    BY <1>1 DEF LastFrame
  <1>4. QED
    BY <1>1, <1>2, <1>3, SameData

\* The end of a reply says whether it is ok.
LEMMA ReplyOkIs ==
    ASSUME NEW s, IsSeq(s), NEW ok \in BOOLEAN, NEW errmsg
    PROVE  /\ ReplyOk(s \o Status(ok, errmsg)) <=> ok
           /\ Last(s \o Status(ok, errmsg)).k = "string" <=> ~ok
  <1> DEFINE t == Status(ok, errmsg)
             a == Tok("byte", ok)
             m == Tok("string", errmsg)
             n == Len(t)
  <1>1. a.k = "byte" /\ m.k = "string"
    BY DEF Tok
  <1>2. t = IF ok THEN <<a>> ELSE <<a>> \o <<m>>
    <2>1. <<a>> \o <<>> = <<a>>
      OBVIOUS
    <2>2. QED
      BY <2>1 DEF Status
  <1> HIDE DEF a, m, t
  <1>3. IsSeq(t) /\ n \in Nat \ {0} /\ t[n].k = IF ok THEN "byte" ELSE "string"
    <2>1. CASE ok
      <3>1. t = <<a>>
        BY <1>2, <2>1
      <3>2. QED
        BY <1>1, <2>1, <3>1, Short
    <2>2. CASE ~ok
      <3>1. t = <<a>> \o <<m>>
        BY <1>2, <2>2
      <3>2. QED
        BY <1>1, <2>2, <3>1, Short
    <2>3. QED
      BY <2>1, <2>2
  <1>4. PICK T : s \in Seq(T) /\ t \in Seq(T)
    BY <1>3, CommonSet
  <1>5. n \in 1..Len(t)
    BY <1>3
  <1>6. (s \o t)[Len(s) + n] = t[n] /\ Len(s \o t) = Len(s) + Len(t)
    <2> HIDE DEF n
    <2>1. QED
      BY <1>4, <1>5, Shifted
  <1>7. Last(s \o t) = t[n]
    BY <1>6 DEF Last
  <1>8. QED
    BY <1>3, <1>7 DEF ReplyOk, t

\* Between requests there is no statement, and so nothing pending.
LEMMA NothingPending == ASSUME db.stmt.vm # "run" PROVE ~Pending
  BY DEF Pending

\* The function code of the next request.
LEMMA AppStepData ==
    ASSUME ServerInv, Typed, RequestMatches, ReplyMatches, DataMatches, AppStep, UNCHANGED clientVars
    PROVE  StmtMatches' /\ DataMatches'
  <1>1. /\ pc = "fc" /\ rbuf # <<>> /\ rbuf' = Tail(rbuf) /\ stdin' = stdin /\ db' = db
        /\ h' = [NoRequest EXCEPT !.fc = Head(rbuf).v]
        /\ IF Head(rbuf).v = "FC_QUIT" THEN pc' = "flush" /\ wbuf' = wbuf \o Status(TRUE, "")
           ELSE pc' = "sql" /\ wbuf' = wbuf
        /\ Head(rbuf).v \in FunctionCodes
    BY DEF AppStep, Read, At, Val
  <1>2. todo' = todo /\ req' = req /\ base' = base /\ acked' = acked
    BY DEF clientVars
  <1>3. /\ Head(rbuf) = Tok("byte", req.fc) /\ Stream # <<>>
        /\ req \in Requests => IsRequest(req)
        /\ req.fc \in {"FC_EXEC", "FC_QUERY"} => req \in Requests
        /\ req.fc \in FunctionCodes \ {"FC_EXEC", "FC_QUERY"} => req = QuitRequest
    BY <1>1, <1>2, HeadOfRequest
  <1>4. Head(rbuf).v = req.fc /\ h'.fc = req.fc /\ h'.ok /\ h'.i = 0 /\ h'.hasRow /\ req.fc \in FunctionCodes
    <2>1. Head(rbuf).v = req.fc
      BY <1>3 DEF Tok
    <2>2. QED
      BY <1>1, <2>1 DEF NoRequest
  <1>5. db.stmt = NoStmt /\ db.stmt.vm # "run" /\ ~Pending'
    <2>1. db.stmt = NoStmt
      BY <1>1 DEF ServerInv, NoStatementLeft
    <2>2. QED
      BY <1>1, <2>1, Nothing DEF Pending
  <1>6. View(db) = base /\ View(db)' = base' /\ Chained(base)
    BY <1>1, <1>2, <1>3 DEF DataMatches, View
  <1>7. Chained(base)' /\ (~Pending' => Chained(View(db)')) /\ acked' \in Seq(AnyRow) /\ IsPrefix(acked', (db.disk)')
    BY <1>1, <1>2, <1>6 DEF DataMatches
  <1>8. StmtMatches'
    <2>1. pc' \in {"sql", "flush"} /\ (pc' = "flush" => req'.fc = "FC_QUIT")
      BY <1>1, <1>2, <1>4
    <2>2. pc' \notin Handling \/ pc' = "sql"
      BY <2>1 DEF Handling
    <2>3. (db.stmt)' = NoStmt /\ (db.stmt.vm)' # "run"
      BY <1>1, <1>5
    <2>4. QED
      BY <1>4, <2>1, <2>2, <2>3 DEF StmtMatches
  <1>9. CASE req.fc \in {"FC_EXEC", "FC_QUERY"}
    <2>1. pc' = "sql" /\ Progress' = 0
      BY <1>1, <1>4, <1>9 DEF Progress
    <2>2. Applied(base, req, 0) = base
      BY <1>3, <1>6, <1>9, AppliedIs
    <2>3. (View(db) = Applied(base, req, Progress))'
      BY <1>2, <1>6, <2>1, <2>2
    <2>4. ~Waiting' /\ ~Down'
      BY <2>1 DEF Waiting, Down
    <2>5. QED
      BY <1>4, <1>5, <1>7, <1>8, <2>1, <2>3, <2>4 DEF DataMatches
  <1>10. CASE req.fc \notin {"FC_EXEC", "FC_QUERY"}
    <2>1. req = QuitRequest /\ req.fc = "FC_QUIT"
      BY <1>3, <1>4, <1>10 DEF FunctionCodes
    <2>2. pc' = "flush" /\ wbuf' = wbuf \o Status(TRUE, "")
      BY <1>1, <1>4, <2>1
    <2>3. ReplyOk(wbuf')
      BY <2>2, ReplyOkIs DEF Typed
    <2>4. Outcome(View(db), h.ok)'
      BY <1>2, <1>4, <1>6, <2>1, NothingToApply DEF Outcome
    <2>5. ~Waiting' /\ ~Down' /\ pc' \notin Handling
      BY <2>2 DEF Waiting, Down, Handling
    <2>6. QED
      BY <1>4, <1>6, <1>7, <1>8, <2>2, <2>3, <2>4, <2>5 DEF DataMatches
  <1>11. QED
    BY <1>9, <1>10

-----------------------------------------------------------------------------
\* The calls of the handlers.

\* Nothing has been executed yet.
LEMMA NothingDone ==
    ASSUME Typed, RequestMatches, StmtMatches, DataMatches, pc \in Handling, h.ok,
           pc = "sql" \/ (h.fc = "FC_QUERY" /\ h.hasRow), ~Pending
    PROVE  /\ Progress = 0 /\ View(db) = base /\ Applied(base, req, 0) = base /\ Chained(base)
           /\ \A w, n : n \in Nat /\ FailsTo(base, w) => Failed(w, n)
  <1>1. /\ IsRequest(req) /\ req.fc \in {"FC_EXEC", "FC_QUERY"} /\ Located(req, pc, h) /\ h.fc = req.fc
    BY InHandler
  <1>2. Progress = 0
    BY <1>1 DEF Progress, Located, StmtMatches, Handling
  <1>3. Applied(base, req, 0) = base /\ Chained(base)
    BY <1>1, AppliedIs DEF DataMatches
  <1>4. View(db) = base
    BY <1>2, <1>3 DEF DataMatches
  <1>5. ASSUME NEW w, NEW n \in Nat, FailsTo(base, w) PROVE Failed(w, n)
    <2>1. 0 \in 0..Len(req.params) /\ 0 <= n
      BY <1>1, Parts
    <2>2. QED
      BY <1>1, <1>3, <1>5, <2>1, FailedFrom
  <1>6. QED
    BY <1>2, <1>3, <1>4, <1>5

\* The statement is prepared.
LEMMA ReadSqlData ==
    ASSUME ServerInv, Typed, RequestMatches, StmtMatches, DataMatches, ReadSql, UNCHANGED clientVars
    PROVE  StmtMatches' /\ DataMatches'
  <1>1. db.stmt = NoStmt /\ pc = "sql" /\ db.stmt.vm # "run" /\ IsDb(db)
    BY Nothing DEF ReadSql, At, ServerInv, NoStatementLeft
  <1>2. /\ rbuf # <<>> /\ rbuf' = Tail(rbuf) /\ stdin' = stdin
        /\ pc' = IF h.fc = "FC_EXEC" THEN "niter" ELSE "nparams"
        /\ \E o \in Db_prepare(db, Head(rbuf).v) : db' = o.db /\ h' = [h EXCEPT !.ok = o.ok]
    BY <1>1 DEF ReadSql, Read, At, Prepare, Val
  <1>3. todo' = todo /\ req' = req /\ base' = base /\ acked' = acked
    BY DEF clientVars
  <1>4. /\ IsRequest(req) /\ req.fc \in {"FC_EXEC", "FC_QUERY"} /\ Stream = FromSql(req)
        /\ h.fc = req.fc /\ h \in Locals /\ req.sql \in Statements
    <2>1. /\ IsRequest(req) /\ req.fc \in {"FC_EXEC", "FC_QUERY"} /\ Stream = Unread(req, pc, h)
          /\ h.fc = req.fc /\ h \in Locals
      BY <1>1, InHandler DEF Handling
    <2>2. QED
      BY <1>1, <2>1 DEF Unread, IsRequest
  <1>5. Head(rbuf).v = req.sql
    <2> DEFINE t == Tok("string", req.sql)
               rest == IF req.fc = "FC_EXEC" THEN FromNiter(req) ELSE FromNparams(req)
    <2>1. t \in Token /\ rest \in Seq(Token) /\ Stream = <<t>> \o rest
      BY <1>4, EncodeIs DEF FromSql
    <2>2. t.v = req.sql
      BY DEF Tok
    <2> HIDE DEF t, rest
    <2>3. Head(rbuf) = t
      BY <1>2, <1>3, <2>1, TokenStream
    <2>4. QED
      BY <2>2, <2>3
  <1>6. PICK o \in Db_prepare(db, req.sql) : db' = o.db /\ h' = [h EXCEPT !.ok = o.ok]
    BY <1>2, <1>5
  <1>7. h'.fc = h.fc /\ h'.i = h.i /\ h'.hasRow = h.hasRow /\ h'.ok = o.ok
    BY <1>4, <1>6 DEF Locals
  <1>8. View(db') = View(db) /\ (db.stmt.vm)' # "run" /\ ((db.stmt)' # NoStmt => Prepared((db.stmt)', req))
    BY <1>1, <1>4, <1>6, PrepareCall, PrepareStmt
  <1>9. /\ Progress = 0 /\ View(db) = base /\ Applied(base, req, 0) = base /\ Chained(base)
        /\ Failed(base, 0)
    <2>1. h.ok /\ h.hasRow /\ pc \in Handling /\ ~Pending
      BY <1>1, NothingPending DEF StmtMatches, Handling
    <2>2. QED
      BY <1>1, <2>1, NothingDone DEF FailsTo
  <1>10. h.hasRow /\ pc' \in {"niter", "nparams"}
    BY <1>1, <1>2 DEF StmtMatches, Handling
  <1>11. StmtMatches'
    <2>1. ~AllBound'
      BY <1>10 DEF AllBound
    <2>2. (Prepared(db.stmt, req))' <=> Prepared((db.stmt)', req)
      BY <1>3 DEF Prepared
    <2>3. QED
      BY <1>7, <1>8, <1>10, <2>1, <2>2 DEF StmtMatches
  <1>12. DataMatches'
    <2>1. ~Pending' /\ Progress' = 0 /\ View(db)' = base' /\ ~Waiting' /\ ~Down'
      <3>1. Progress' = Progress
        BY <1>7 DEF Progress
      <3>2. View(db)' = View(db')
        BY DEF View
      <3>3. ~Pending' /\ ~Waiting' /\ ~Down'
        BY <1>8, <1>10 DEF Pending, Waiting, Down
      <3>4. QED
        BY <1>3, <1>8, <1>9, <3>1, <3>2, <3>3
    <2>2. (View(db) = Applied(base, req, Progress))'
      BY <1>3, <1>9, <2>1
    <2>3. Failed(View(db), Progress)'
      BY <1>3, <1>9, <2>1, SameRequest
    <2>4. Chained(base)' /\ (~Pending' => Chained(View(db)')) /\ acked' \in Seq(AnyRow) /\ IsPrefix(acked', (db.disk)')
      <3>1. (db.disk)' = db.disk
        BY <1>8 DEF View
      <3>2. QED
        BY <1>3, <1>9, <2>1, <3>1 DEF DataMatches
    <2>5. QED
      BY <1>10, <2>1, <2>2, <2>3, <2>4 DEF DataMatches
  <1>13. QED
    BY <1>11, <1>12

\* What the handler has done after a call.
LEMMA HandlerData ==
    ASSUME DataMatches, pc' \in Handling, UNCHANGED <<base, req, acked>>,
           ~Pending' => Chained(View(db')),
           IsPrefix(acked, (db.disk)'),
           IF ~h'.ok THEN Failed(View(db'), Progress')
           ELSE IF Pending' THEN View(db') = [base EXCEPT !.work = Append(@, Row(req.params[1]))]
           ELSE View(db') = Applied(base, req, Progress')
    PROVE  DataMatches'
  <1>1. View(db)' = View(db')
    BY DEF View
  <1>2. ~Waiting' /\ ~Down' /\ pc' \notin {"flush", "quit", "fc"}
    BY DEF Waiting, Down, Handling
  <1>3. Failed(View(db), Progress)' <=> Failed(View(db'), Progress')
    BY <1>1, SameRequest
  <1>4. Chained(base)' /\ (~Pending' => Chained(View(db)'))
    BY <1>1 DEF DataMatches
  <1>5. acked' \in Seq(AnyRow) /\ IsPrefix(acked', (db.disk)')
    BY DEF DataMatches
  <1>6. QED
    BY <1>1, <1>2, <1>3, <1>4, <1>5 DEF DataMatches

\* What has been acknowledged is still there when what is committed has grown.
LEMMA AckedKept ==
    ASSUME DataMatches, NEW u, Chained(u), u.disk = db.disk,
           NEW v, Chained(v), v.disk = u.disk \/ IsPrefix(u.disk, v.disk)
    PROVE  IsPrefix(acked, v.disk)
  <1>1. acked \in Seq(AnyRow) /\ IsPrefix(acked, db.disk)
    BY DEF DataMatches
  <1>2. v.disk \in Seq(AnyRow) /\ db.disk \in Seq(AnyRow)
    BY DEF Chained, Data
  <1>3. Row(<<>>) \in AnyRow
    <2>1. <<>> \in Seq(Param)
      OBVIOUS
    <2>2. QED
      BY <2>1, Zenon DEF AnyRow
  <1>4. QED
    BY <1>1, <1>2, <1>3, RowPrefixes

\* What is bound is what was sent.
LEMMA GroupIs ==
    ASSUME Typed, RequestMatches, ParamsIntact, pc = "bind"
    PROVE  /\ h.params = req.params[h.i + 1] /\ h.params \in Seq(Param) /\ Len(h.params) = req.nparams
           /\ req.nparams \in Nat /\ h.i + 1 \in 1..Len(req.params) /\ h.i \in Nat
  <1> DEFINE P == [type : ValueTypes, v : STRING \cup {"none", "stale"}]
             g == req.params[h.i + 1]
             p == h.params
             n == req.nparams
  <1>1. /\ IsRequest(req) /\ Located(req, "bind", h) /\ h \in Locals
    BY InHandler DEF Handling
  <1>2. h.i < Len(req.params) /\ GroupsRead(req, h) /\ Len(p) = n /\ n \in Nat /\ h.i \in Nat
    BY <1>1 DEF Located, GroupsRead, Locals
  <1>3. h.i + 1 \in 1..Len(req.params) /\ Len(req.params) \in Nat
    BY <1>1, <1>2, Parts
  <1>4. Len(g) = n
    BY <1>1, <1>2, <1>3, GroupShape
  <1>5. g \in Seq(Param)
    <2> DEFINE T == Seq(Param)
    <2>1. req.params \in Seq(T)
      BY <1>1 DEF IsRequest, Param
    <2> HIDE DEF T
    <2>2. g \in T
      BY <1>3, <2>1
    <2>3. QED
      BY <2>2 DEF T
  <1>6. p \in Seq(P)
    BY <1>1 DEF Locals
  <1>7. \A j \in 1..n : p[j] = g[j]
    BY <1>2 DEF ParamsIntact, HeldIntact, Held
  <1> HIDE DEF p, g, n, P
  <1>8. p = g
    <2>1. p = [j \in 1..n |-> p[j]] /\ g = [j \in 1..n |-> g[j]]
      BY <1>2, <1>4, <1>5, <1>6
    <2>2. QED
      BY <1>7, <2>1
  <1>9. QED
    BY <1>2, <1>3, <1>5, <1>8 DEF p, g, n

\* An iteration of _fcExec.
LEMMA BindExecData ==
    ASSUME Precautions, ServerInv, Typed, RequestMatches, ParamsIntact, StmtMatches, DataMatches,
           BindExec, UNCHANGED clientVars
    PROVE  StmtMatches' /\ DataMatches'
  <1> DEFINE i == h.i + 1
             row == Row(req.params[i])
             before == Applied(base, req, h.i)
             after == Applied(base, req, i)
             r == req
  <1>1. /\ pc = "bind" /\ h.fc = "FC_EXEC" /\ IsDb(db) /\ db.stmt.vm # "run" /\ ~Pending
    BY NothingPending DEF BindExec, ServerInv, RunsOnlyInRows
  <1>2. PICK o \in ExecIteration(h.ok, db, h.params) :
          db' = o.db /\ h' = [h EXCEPT !.ok = o.ok, !.i = @ + 1, !.params = <<>>]
    BY DEF BindExec
  <1>3. req' = req /\ base' = base /\ acked' = acked
    BY DEF clientVars
  <1>4. IsRequest(r) /\ h.fc = r.fc /\ h \in Locals /\ r \in Requests
    BY <1>1, InHandler DEF RequestMatches, Handling
  <1>5. pc' \in {"reply", "bind", "ptype"} /\ pc' \in Handling
    BY DEF BindExec, NextParam, Handling
  <1>6. h'.fc = h.fc /\ h'.i = i /\ h'.hasRow = h.hasRow /\ h'.ok = o.ok /\ h.ok \in BOOLEAN
    <2> DEFINE none == <<>>
    <2>1. h' = [h EXCEPT !.ok = o.ok, !.i = @ + 1, !.params = none]
      BY <1>2
    <2> HIDE DEF none
    <2>2. QED
      BY <1>4, <2>1 DEF Locals
  <1>7. /\ h.params = r.params[i] /\ h.params \in Seq(Param) /\ Len(h.params) = r.nparams
        /\ r.nparams \in Nat /\ i \in 1..Len(r.params) /\ h.i \in Nat
    BY <1>1, GroupIs
  <1>8. Iterations(r) = Len(r.params) /\ Len(r.params) \in Nat /\ Progress = h.i /\ Progress' = i
    BY <1>1, <1>4, <1>6, Parts DEF Iterations, Progress
  <1>9. Chained(base) /\ Chained(View(db))
    BY <1>1 DEF DataMatches
  <1>10. db.stmt # NoStmt => Prepared(db.stmt, r)
    BY <1>1 DEF StmtMatches, Handling
  <1>11. r.sql # "returning"
    BY <1>1, <1>4 DEF Precautions
  <1>12. h.hasRow /\ pc \in Handling
    BY <1>1 DEF StmtMatches, Handling
  <1>13. CASE ~h.ok
    <2>1. o.ok = FALSE /\ o.db = db
      BY <1>6, <1>13 DEF ExecIteration, Result
    <2>2. Failed(View(db), h.i)
      BY <1>8, <1>12, <1>13 DEF DataMatches
    <2>3. Failed(View(db'), i)
      BY <1>2, <1>7, <2>1, <2>2, FailedLater
    <2>4. IsPrefix(acked, (db.disk)') /\ Chained(View(db'))
      BY <1>2, <1>9, <2>1 DEF DataMatches
    <2>5. DataMatches'
      BY <1>3, <1>5, <1>6, <1>8, <2>1, <2>3, <2>4, HandlerData
    <2>6. ~AllBound'
      BY <1>5 DEF AllBound
    <2>7. (Prepared(db.stmt, req))' <=> Prepared((db.stmt)', req)
      BY <1>3 DEF Prepared
    <2>8. StmtMatches'
      BY <1>1, <1>2, <1>3, <1>4, <1>5, <1>6, <1>10, <1>12, <2>1, <2>6, <2>7 DEF StmtMatches
    <2>9. QED
      BY <2>5, <2>8
  <1>14. CASE h.ok
    <2>1. o \in Db_bind_step_reset(db, r.params[i])
      BY <1>7, <1>14 DEF ExecIteration
    <2>2. View(db) = before
      BY <1>1, <1>8, <1>12, <1>14 DEF DataMatches
    <2>3. /\ o.db.stmt # NoStmt => Prepared(o.db.stmt, r)
          /\ o.ok => View(o.db) = Effect(View(db), r.sql, row)
          /\ ~o.ok => FailsTo(View(db), View(o.db))
      BY <1>1, <1>7, <1>9, <1>10, <1>11, <2>1, IterationCall
    <2>4. IsDb(o.db) /\ o.db.stmt.vm # "run"
      BY <1>1, <2>1, BindStepResetCall
    <2>5. after = Effect(before, r.sql, row)
      <3>1. (h.i + 1) - 1 = h.i
        BY <1>7
      <3>2. QED
        BY <1>4, <1>7, <1>9, <3>1, AppliedIs
    <2>6. row \in AnyRow
      BY <1>4, <1>7, CarriedIs
    <2>7. /\ IF ~o.ok THEN Failed(View(o.db), i) ELSE View(o.db) = after
          /\ Chained(View(o.db)) /\ IsPrefix(acked, View(o.db).disk)
      <3> DEFINE v == View(db)
                 w == View(o.db)
      <3>1. v.disk = db.disk
        BY ViewIs
      <3>2. CASE o.ok
        <4>1. w = Effect(v, r.sql, row)
          BY <2>3, <3>2
        <4> HIDE DEF v, w, row
        <4>2. Chained(w) /\ IsPrefix(v.disk, w.disk)
          BY <1>9, <2>6, <4>1, EffectChained DEF v
        <4>3. IsPrefix(acked, w.disk)
          BY <1>9, <3>1, <4>2, AckedKept DEF v
        <4>4. QED
          BY <2>2, <2>5, <3>2, <4>1, <4>2, <4>3 DEF v, w, row
      <3>3. CASE ~o.ok
        <4>1. FailsTo(v, w)
          BY <2>3, <3>3
        <4>2. Chained(w) /\ w.disk = v.disk
          BY <1>9, <4>1, FailsToChained
        <4>3. IsPrefix(acked, w.disk)
          BY <1>9, <3>1, <4>2, AckedKept DEF v
        <4>4. h.i \in 0..Len(r.params) /\ h.i < Iterations(r) /\ i \in Nat /\ h.i <= i
          BY <1>7, <1>8
        <4>5. Failed(w, i)
          BY <1>4, <1>9, <2>2, <4>1, <4>4, FailedFrom
        <4>6. QED
          BY <3>3, <4>2, <4>3, <4>5
      <3>4. QED
        BY <3>2, <3>3
    <2>8. (db.disk)' = View(o.db).disk
      BY <1>2, ViewIs
    <2>9. ~Pending'
      BY <1>2, <2>4 DEF Pending
    <2>10. DataMatches'
      BY <1>2, <1>3, <1>5, <1>6, <1>8, <2>7, <2>8, <2>9, HandlerData
    <2>11. ~AllBound'
      BY <1>5 DEF AllBound
    <2>12. (Prepared(db.stmt, req))' <=> Prepared((db.stmt)', req)
      BY <1>3 DEF Prepared
    <2>13. StmtMatches'
      BY <1>1, <1>2, <1>3, <1>4, <1>5, <1>6, <1>12, <2>3, <2>4, <2>11, <2>12 DEF StmtMatches
    <2>14. QED
      BY <2>10, <2>13
  <1>15. QED
    BY <1>6, <1>13, <1>14

\* Binding the parameters of _fcQuery.
LEMMA BindQueryData ==
    ASSUME ServerInv, Typed, RequestMatches, ParamsIntact, StmtMatches, DataMatches,
           BindQuery, UNCHANGED clientVars
    PROVE  StmtMatches' /\ DataMatches'
  <1> DEFINE o == IF h.ok THEN Db_bind(db, h.params) ELSE Result(FALSE, db)
             r == req
             ps == req.params[1]
  <1>1. /\ pc = "bind" /\ h.fc = "FC_QUERY" /\ IsDb(db) /\ db.stmt.vm # "run" /\ ~Pending
        /\ pc' = "ncols" /\ db' = o.db
    BY NothingPending DEF BindQuery, ServerInv, RunsOnlyInRows
  <1>2. h' = [h EXCEPT !.ok = o.ok, !.params = <<>>]
    BY DEF BindQuery
  <1>3. req' = req /\ base' = base /\ acked' = acked
    BY DEF clientVars
  <1>4. IsRequest(r) /\ h.fc = r.fc /\ h \in Locals
    BY <1>1, InHandler DEF Handling
  <1> HIDE DEF o
  <1>5. h'.fc = h.fc /\ h'.i = h.i /\ h'.hasRow = h.hasRow /\ h'.ok = o.ok /\ h.ok \in BOOLEAN
    <2> DEFINE none == <<>>
    <2>1. h' = [h EXCEPT !.ok = o.ok, !.params = none]
      BY <1>2
    <2> HIDE DEF none
    <2>2. QED
      BY <1>4, <2>1 DEF Locals
  <1>6. h.params = ps /\ ps \in Seq(Param) /\ Len(ps) = r.nparams /\ r.nparams \in Nat
    <2>1. Len(r.params) = 1
      BY <1>1, <1>4 DEF IsRequest
    <2>2. h.i = 0
      BY <1>1, <2>1, GroupIs
    <2>3. QED
      BY <1>1, <2>2, GroupIs
  <1>7. h.hasRow /\ pc \in Handling /\ (db.stmt # NoStmt => Prepared(db.stmt, r))
    BY <1>1 DEF StmtMatches, Handling
  <1>8. Progress' = Progress /\ Progress = 0
    BY <1>1, <1>5, <1>7 DEF Progress
  <1>9. /\ View(o.db) = View(db) /\ o.db.stmt.vm # "run"
        /\ o.db.stmt # NoStmt => Prepared(o.db.stmt, r)
        /\ o.ok => Binds(o.db.stmt, Row(ps))
        /\ ~h.ok => ~o.ok
    <2>1. CASE ~h.ok
      <3>1. o.ok = FALSE /\ o.db = db
        BY <2>1 DEF o, Result
      <3>2. QED
        BY <1>1, <1>7, <3>1
    <2>2. CASE h.ok /\ db.stmt = NoStmt
      <3>1. o.ok = FALSE /\ o.db = db
        BY <2>2 DEF o, Db_bind, Result
      <3>2. QED
        BY <1>1, <1>7, <2>2, <3>1
    <2>3. CASE h.ok /\ db.stmt # NoStmt
      <3>1. o = bind(db, ps)
        BY <1>6, <2>3 DEF o, Db_bind
      <3>2. Prepared(o.db.stmt, r) /\ (o.ok => Binds(o.db.stmt, Row(ps)))
        BY <1>1, <1>6, <1>7, <2>3, <3>1, BindVars
      <3>3. View(o.db) = View(db) /\ o.db.stmt.vm # "run"
        BY <1>1, <3>1, BindCall
      <3>4. QED
        BY <2>3, <3>2, <3>3
    <2>4. QED
      BY <2>1, <2>2, <2>3
  <1>10. StmtMatches'
    <2>1. (Prepared(db.stmt, req))' <=> Prepared((db.stmt)', req)
      BY <1>3 DEF Prepared
    <2>2. AllBound' => o.ok
      BY <1>5 DEF AllBound
    <2>3. QED
      BY <1>1, <1>3, <1>5, <1>7, <1>9, <2>1, <2>2 DEF StmtMatches
  <1>11. DataMatches'
    <2>1. Chained(View(db')) /\ IsPrefix(acked, (db.disk)')
      <3>1. Chained(View(db)) /\ IsPrefix(acked, db.disk)
        BY <1>1 DEF DataMatches
      <3>2. (db.disk)' = View(db').disk /\ db.disk = View(db).disk
        BY ViewIs
      <3>3. QED
        BY <1>1, <1>9, <3>1, <3>2
    <2>2. CASE ~h.ok
      <3>1. Failed(View(db), Progress)
        BY <1>7, <2>2 DEF DataMatches
      <3>2. QED
        BY <1>1, <1>3, <1>5, <1>8, <1>9, <2>1, <2>2, <3>1, HandlerData DEF Handling
    <2>3. CASE h.ok
      <3>1. View(db) = base /\ Applied(base, req, 0) = base /\ Failed(View(db), 0)
        BY <1>1, <1>7, <2>3, NothingDone DEF FailsTo
      <3>2. ~Pending' /\ pc' \in Handling
        BY <1>1, <1>9 DEF Pending, Handling
      <3>3. QED
        BY <1>1, <1>3, <1>5, <1>8, <1>9, <2>1, <3>1, <3>2, HandlerData
    <2>4. QED
      BY <2>2, <2>3
  <1>12. QED
    BY <1>10, <1>11

\* Stepping the statement of a query whose variables are bound.
LEMMA FetchCall ==
    ASSUME IsDb(db), Chained(base), IsRequest(req), Len(req.params) = 1,
           Prepared(db.stmt, req), Binds(db.stmt, Row(req.params[1])),
           db.stmt.vm = "run" => req.sql \in {"returning", "select", "find"},
           IF Pending THEN View(db) = Inserted(base, Row(req.params[1])) ELSE View(db) = base,
           NEW s \in step(db)
    PROVE  /\ SameStmt(db, s.db) /\ (s.db.stmt.vm = "run" <=> s.ok /\ s.hasRow)
           /\ s.ok /\ ~s.hasRow => View(s.db) = Applied(base, req, 1)
           /\ s.ok /\ s.hasRow =>
                \/ req.sql = "returning" /\ View(s.db) = Inserted(base, Row(req.params[1]))
                \/ req.sql \in {"select", "find"} /\ View(s.db) = base
           /\ ~s.ok => FailsTo(base, View(s.db))
  <1> DEFINE sql == req.sql
             row == Row(req.params[1])
             vars1 == db.stmt.vars
  <1>1. db.stmt.sql = sql /\ sql \in Statements \ {"garbage", "empty"}
    BY DEF Prepared
  <1>2. Applied(base, req, 1) = Effect(base, sql, row)
    <2>1. 1 \in 1..Len(req.params) /\ 1 - 1 = 0
      OBVIOUS
    <2>2. QED
      BY <2>1, AppliedIs
  <1>3. Effect(base, sql, vars1) = Effect(base, sql, row)
    BY <1>1, BoundRow, EffectRow
  <1>4. sql = "returning" => vars1 = row
    BY BoundRow DEF NVars
  <1> HIDE DEF row, vars1
  <1>5. CASE db.stmt.vm # "run"
    <2>1. View(db) = base
      BY <1>5, NothingPending
    <2>2. /\ SameStmt(db, s.db) /\ (s.db.stmt.vm = "run" <=> s.ok /\ s.hasRow)
          /\ s.ok /\ ~s.hasRow => View(s.db) = Effect(base, sql, vars1)
          /\ s.ok /\ s.hasRow =>
                \/ sql \in {"select", "find"} /\ View(s.db) = base
                \/ sql = "returning" /\ View(s.db) = [base EXCEPT !.work = Append(@, vars1)]
          /\ ~s.ok => FailsTo(base, View(s.db))
      BY <1>1, <1>5, <2>1, FirstStep DEF vars1
    <2>3. QED
      BY <1>2, <1>3, <1>4, <2>2 DEF row, Inserted
  <1>6. CASE db.stmt.vm = "run"
    <2>1. \/ sql \in {"select", "find"} /\ View(db) = base
          \/ sql = "returning" /\ View(db) = Inserted(base, row)
      BY <1>1, <1>6 DEF Pending, row
    <2>2. /\ SameStmt(db, s.db) /\ (s.db.stmt.vm = "run" <=> s.ok /\ s.hasRow)
          /\ s.ok /\ ~s.hasRow => View(s.db) = Effect(base, sql, row)
          /\ s.ok /\ s.hasRow => View(s.db) = View(db)
          /\ ~s.ok => FailsTo(base, View(s.db))
      BY <1>1, <1>6, <2>1, LaterStep
    <2>3. QED
      BY <1>2, <2>1, <2>2 DEF row
  <1>7. QED
    BY <1>5, <1>6

\* Db_step_fetch when there is a statement.
LEMMA StepFetchIs ==
    ASSUME NEW d, NEW cs, d.stmt # NoStmt, NEW o \in Db_step_fetch(d, cs)
    PROVE  \E s \in step(d) : o.ok = s.ok /\ o.db = s.db /\ o.hasRow = IF s.ok THEN s.hasRow ELSE TRUE
  <1>1. PICK s \in step(d) :
          o = [ok |-> s.ok, hasRow |-> IF s.ok THEN s.hasRow ELSE TRUE, db |-> s.db,
               values |-> IF s.ok /\ s.hasRow THEN fetch(s.db, cs) ELSE <<>>]
    BY DEF Db_step_fetch
  <1>2. o.ok = s.ok /\ o.db = s.db /\ o.hasRow = IF s.ok THEN s.hasRow ELSE TRUE
    BY <1>1
  <1>3. QED
    BY <1>2

\* What Db_step_fetch does to the data in _fcQuery, and what it is of before.
LEMMA FetchOutcome ==
    ASSUME ServerInv, Typed, RequestMatches, StmtMatches, DataMatches,
           pc = "step", h.ok, h.hasRow, NEW o \in Db_step_fetch(db, h.coltypes)
    PROVE  /\ IsRequest(req) /\ h.fc = req.fc /\ req.fc = "FC_QUERY" /\ Len(req.params) = 1
           /\ Chained(base) /\ Applied(base, req, 0) = base
           /\ IF Pending THEN View(db) = Inserted(base, Row(req.params[1])) ELSE View(db) = base
           /\ o.db.stmt # NoStmt =>
                Prepared(o.db.stmt, req) /\ Binds(o.db.stmt, Row(req.params[1]))
           /\ o.db.stmt.vm = "run" => o.ok /\ o.hasRow /\ o.db.stmt.sql \in {"returning", "select", "find"}
           /\ o.ok /\ o.hasRow => IF o.db.stmt.vm = "run" /\ o.db.stmt.sql = "returning"
                                  THEN View(o.db) = Inserted(base, Row(req.params[1])) ELSE View(o.db) = base
           /\ o.ok /\ ~o.hasRow => View(o.db) = Applied(base, req, 1) /\ o.db.stmt.vm # "run"
           /\ ~o.ok => FailsTo(base, View(o.db)) /\ o.hasRow /\ o.db.stmt.vm # "run"
  <1> DEFINE r == req
             row == Row(req.params[1])
  <1>1. IsDb(db) /\ pc \in Handling
    BY DEF ServerInv, Handling
  <1>2. IsRequest(r) /\ h.fc = r.fc /\ r.fc = "FC_QUERY" /\ Len(r.params) = 1
    <2>1. IsRequest(r) /\ h.fc = r.fc /\ h \in Locals /\ Located(r, "step", h)
      BY <1>1, InHandler
    <2>2. QED
      BY <2>1 DEF Located, IsRequest
  <1>3. Progress = 0
    BY <1>2 DEF Progress
  <1>4. /\ Chained(base) /\ Applied(base, r, 0) = base
        /\ IF Pending THEN View(db) = Inserted(base, row) ELSE View(db) = base
    <2>1. Chained(base) /\ IF Pending THEN View(db) = Inserted(base, row) ELSE View(db) = Applied(base, r, 0)
      BY <1>1, <1>3 DEF DataMatches, Inserted
    <2>2. QED
      BY <1>2, <2>1, AppliedIs
  <1>5. /\ db.stmt # NoStmt => Prepared(db.stmt, r) /\ Binds(db.stmt, row)
        /\ db.stmt.vm = "run" => db.stmt.sql \in {"returning", "select", "find"}
    <2>1. AllBound
      BY <1>2 DEF AllBound
    <2>2. QED
      BY <1>1, <2>1 DEF StmtMatches
  <1>6. /\ o.db.stmt # NoStmt =>
             Prepared(o.db.stmt, r) /\ Binds(o.db.stmt, row)
        /\ o.db.stmt.vm = "run" => o.ok /\ o.hasRow /\ o.db.stmt.sql \in {"returning", "select", "find"}
        /\ o.ok /\ o.hasRow => IF o.db.stmt.vm = "run" /\ o.db.stmt.sql = "returning"
                               THEN View(o.db) = Inserted(base, row) ELSE View(o.db) = base
        /\ o.ok /\ ~o.hasRow => View(o.db) = Applied(base, r, 1) /\ o.db.stmt.vm # "run"
        /\ ~o.ok => FailsTo(base, View(o.db)) /\ o.hasRow /\ o.db.stmt.vm # "run"
    <2>1. CASE db.stmt = NoStmt
      <3>1. o.ok = FALSE /\ o.hasRow = TRUE /\ o.db = db
        BY <2>1 DEF Db_step_fetch
      <3>2. ~Pending
        BY <2>1, Nothing, NothingPending
      <3>3. QED
        BY <1>4, <2>1, <3>1, <3>2, Nothing DEF FailsTo
    <2>2. CASE db.stmt # NoStmt
      <3>1. PICK s \in step(db) :
              o.ok = s.ok /\ o.db = s.db /\ o.hasRow = IF s.ok THEN s.hasRow ELSE TRUE
        BY <2>2, StepFetchIs
      <3>2. db.stmt.sql = r.sql /\ Prepared(db.stmt, r)
        BY <1>5, <2>2 DEF Prepared
      <3>3. /\ SameStmt(db, s.db) /\ (s.db.stmt.vm = "run" <=> s.ok /\ s.hasRow)
            /\ s.ok /\ ~s.hasRow => View(s.db) = Applied(base, r, 1)
            /\ s.ok /\ s.hasRow =>
                 \/ r.sql = "returning" /\ View(s.db) = Inserted(base, row)
                 \/ r.sql \in {"select", "find"} /\ View(s.db) = base
            /\ ~s.ok => FailsTo(base, View(s.db))
        BY <1>1, <1>2, <1>4, <1>5, <2>2, <3>2, FetchCall
      <3>4. Prepared(s.db.stmt, r)
        BY <3>2, <3>3, PreparedSame
      <3>5. s.db.stmt.sql = r.sql /\ Binds(s.db.stmt, row)
        BY <1>5, <2>2, <3>2, <3>3 DEF SameStmt, Binds
      <3> HIDE DEF row
      <3>6. QED
        BY <1>5, <2>2, <3>1, <3>3, <3>4, <3>5
    <2>3. QED
      BY <2>1, <2>2
  <1> HIDE DEF row, r
  <1>7. QED
    BY <1>1, <1>2, <1>4, <1>6 DEF row, r

\* Fetching a row in _fcQuery.
LEMMA FetchRowData ==
    ASSUME ServerInv, Typed, RequestMatches, StmtMatches, DataMatches,
           FetchRow, ~Abort, UNCHANGED clientVars
    PROVE  StmtMatches' /\ DataMatches'
  <1> DEFINE r == req
             row == Row(req.params[1])
             v == View(db')
  <1>1. pc = "step" /\ h.ok /\ h.hasRow /\ IsDb(db)
    BY DEF FetchRow, ServerInv
  <1>2. PICK o \in Db_step_fetch(db, h.coltypes) :
          /\ db' = o.db /\ h' = [h EXCEPT !.ok = o.ok, !.hasRow = o.hasRow]
          /\ pc' = IF o.ok /\ o.hasRow THEN "mark" ELSE "step"
    BY DEF FetchRow
  <1>3. req' = req /\ base' = base /\ acked' = acked
    BY DEF clientVars
  <1>4. IsRequest(r) /\ h.fc = r.fc /\ h \in Locals /\ r.fc = "FC_QUERY" /\ Len(r.params) = 1
    BY <1>1, <1>2, FetchOutcome DEF Typed, TypeOK, Locals
  <1>5. h'.fc = h.fc /\ h'.ok = o.ok /\ h'.hasRow = o.hasRow
    BY <1>2, <1>4 DEF Locals
  <1>6. pc \in Handling /\ pc' \in Handling /\ pc' \in {"mark", "step"}
    BY <1>1, <1>2 DEF Handling
  <1>7. Progress = 0 /\ Progress' = IF o.hasRow THEN 0 ELSE 1
    BY <1>1, <1>4, <1>5 DEF Progress
  <1>8. Chained(base) /\ Applied(base, r, 0) = base /\ View(db) \in {Inserted(base, row), base}
    BY <1>1, <1>2, FetchOutcome
  <1>9. /\ o.db.stmt # NoStmt =>
             Prepared(o.db.stmt, r) /\ Binds(o.db.stmt, row)
        /\ o.db.stmt.vm = "run" => o.ok /\ o.hasRow /\ o.db.stmt.sql \in {"returning", "select", "find"}
        /\ o.ok /\ o.hasRow => IF o.db.stmt.vm = "run" /\ o.db.stmt.sql = "returning"
                               THEN View(o.db) = Inserted(base, row) ELSE View(o.db) = base
        /\ o.ok /\ ~o.hasRow => View(o.db) = Applied(base, r, 1) /\ o.db.stmt.vm # "run"
        /\ ~o.ok => FailsTo(base, View(o.db)) /\ o.hasRow /\ o.db.stmt.vm # "run"
    BY <1>1, <1>2, FetchOutcome
  <1> HIDE DEF row
  <1>10. Pending' <=> o.db.stmt.vm = "run" /\ o.db.stmt.sql = "returning"
    BY <1>2 DEF Pending
  <1>11. StmtMatches'
    <2>1. (Prepared(db.stmt, req))' <=> Prepared((db.stmt)', req)
      BY <1>3 DEF Prepared
    <2>2. QED
      BY <1>2, <1>3, <1>4, <1>5, <1>6, <1>9, <2>1 DEF StmtMatches, row
  <1>12. v = View(o.db) /\ v.disk = (db.disk)'
    BY <1>2, ViewIs
  <1>13. base.disk = db.disk
    <2>1. Inserted(base, row).disk = base.disk
      BY <1>8 DEF Chained, Data, Inserted
    <2>2. QED
      BY <1>8, <2>1, ViewIs
  <1>14. DataMatches'
    <2>1. CASE o.ok /\ o.hasRow
      <3>1. v = IF Pending' THEN Inserted(base, row) ELSE base
        BY <1>9, <1>10, <1>12, <2>1
      <3>2. Inserted(base, row).disk = base.disk
        BY <1>8 DEF Chained, Data, Inserted
      <3>3. IsPrefix(acked, (db.disk)')
        BY <1>12, <1>13, <3>1, <3>2 DEF DataMatches
      <3>4. ~Pending' => Chained(v)
        BY <1>8, <3>1
      <3>5. QED
        BY <1>3, <1>5, <1>6, <1>7, <1>8, <2>1, <3>1, <3>3, <3>4, HandlerData DEF Inserted, row
    <2>2. CASE o.ok /\ ~o.hasRow
      <3>1. v = Applied(base, r, 1) /\ ~Pending' /\ Progress' = 1
        BY <1>7, <1>9, <1>10, <1>12, <2>2
      <3>2. Chained(v) /\ IsPrefix(base.disk, v.disk)
        <4>1. 1 \in 0..Len(r.params)
          BY <1>4
        <4>2. QED
          BY <1>4, <1>8, <3>1, <4>1, AppliedChained
      <3>3. IsPrefix(acked, v.disk)
        BY <1>8, <1>13, <3>2, AckedKept
      <3>4. QED
        BY <1>3, <1>5, <1>6, <1>12, <2>2, <3>1, <3>2, <3>3, HandlerData
    <2>3. CASE ~o.ok
      <3>1. FailsTo(base, v) /\ ~Pending' /\ Progress' = 0
        BY <1>7, <1>9, <1>10, <1>12, <2>3
      <3>2. Chained(v) /\ v.disk = base.disk
        BY <1>8, <3>1, FailsToChained
      <3>3. IsPrefix(acked, v.disk)
        BY <1>8, <1>13, <3>2, AckedKept
      <3>4. Failed(v, 0)
        <4>1. 0 \in 0..Len(r.params)
          BY <1>4
        <4>2. QED
          BY <1>4, <1>8, <3>1, <4>1, FailedFrom
      <3>5. QED
        BY <1>3, <1>5, <1>6, <1>12, <2>3, <3>1, <3>2, <3>3, <3>4, HandlerData
    <2>4. QED
      BY <2>1, <2>2, <2>3
  <1>15. QED
    BY <1>11, <1>14

-----------------------------------------------------------------------------
\* The end of a request.

\* How far a handler can have come.
LEMMA ProgressIs ==
    ASSUME Typed, RequestMatches, pc \in Handling
    PROVE  Iterations(req) \in Nat /\ Progress \in 0..Iterations(req)
  <1>1. IsRequest(req) /\ Located(req, pc, h) /\ h.fc = req.fc /\ req.fc \in {"FC_EXEC", "FC_QUERY"}
    BY InHandler
  <1>2. Len(req.params) \in Nat
    BY <1>1 DEF IsRequest
  <1>3. CASE req.fc = "FC_EXEC"
    <2>1. h.i \in 0..Len(req.params)
      BY <1>1, <1>2, <1>3 DEF Located, GroupsRead, Handling
    <2>2. QED
      BY <1>1, <1>2, <1>3, <2>1 DEF Iterations, Progress
  <1>4. CASE req.fc # "FC_EXEC"
    BY <1>1, <1>4 DEF Iterations, Progress
  <1>5. QED
    BY <1>3, <1>4

\* The statement is finalized, and the reply says how the request has ended.
LEMMA ReplyData ==
    ASSUME ServerInv, Typed, RequestMatches, StmtMatches, DataMatches, Reply, UNCHANGED clientVars
    PROVE  StmtMatches' /\ DataMatches'
  <1>1. /\ pc = "reply" /\ pc' = "flush" /\ h' = h /\ db' \in Db_finalize(db)
        /\ wbuf' = wbuf \o Status(h.ok, Db_errmsg(db))
    BY DEF Reply, Finalize
  <1>2. req' = req /\ base' = base /\ acked' = acked
    BY DEF clientVars
  <1>3. /\ IsRequest(req) /\ h.fc = req.fc /\ req.fc \in {"FC_EXEC", "FC_QUERY"}
        /\ Located(req, "reply", h) /\ h.ok \in BOOLEAN /\ pc \in Handling
    <2>1. pc \in Handling
      BY <1>1 DEF Handling
    <2>2. QED
      BY <1>1, <2>1, InHandler DEF Locals
  <1>4. db.stmt.vm # "run" /\ ~Pending
    <2>1. db.stmt.vm = "run" => h.fc = "FC_QUERY" /\ h.hasRow /\ h.ok
      BY DEF StmtMatches, ServerInv, RunsOnlyInRows
    <2>2. ~(h.fc = "FC_QUERY" /\ h.hasRow /\ h.ok)
      BY <1>1, <1>3 DEF StmtMatches
    <2>3. QED
      BY <2>1, <2>2 DEF Pending
  <1>5. (db.stmt)' = NoStmt /\ View(db') = View(db)
    BY <1>1, <1>4, FinalizeCall DEF ServerInv
  <1>6. Outcome(View(db), h.ok)
    <2>1. Iterations(req) \in Nat /\ Progress \in 0..Iterations(req)
      BY <1>3, ProgressIs
    <2>2. CASE h.ok
      <3>1. Progress = Iterations(req)
        <4>1. CASE req.fc = "FC_EXEC"
          BY <1>3, <4>1 DEF Progress, Iterations, Located
        <4>2. CASE req.fc = "FC_QUERY"
          <5>1. ~h.hasRow
            BY <1>1, <2>2, <4>2 DEF StmtMatches
          <5>2. QED
            BY <1>3, <4>2, <5>1 DEF Progress, Iterations
        <4>3. QED
          BY <1>3, <4>1, <4>2
      <3>2. View(db) = Applied(base, req, Progress)
        BY <1>3, <1>4, <2>2 DEF DataMatches
      <3>3. QED
        BY <2>2, <3>1, <3>2 DEF Outcome
    <2>3. CASE ~h.ok
      <3>1. Failed(View(db), Progress)
        BY <1>3, <2>3 DEF DataMatches
      <3>2. Failed(View(db), Iterations(req))
        BY <2>1, <3>1, FailedLater
      <3>3. QED
        BY <2>3, <3>2 DEF Outcome
    <2>4. QED
      BY <2>2, <2>3
  <1>7. ReplyOk(wbuf') <=> h.ok
    BY <1>1, <1>3, ReplyOkIs DEF Typed
  <1>8. Chained(base) /\ Chained(View(db)) /\ acked \in Seq(AnyRow) /\ IsPrefix(acked, (db.disk)')
    <2>1. (db.disk)' = db.disk
      BY <1>5 DEF View
    <2>2. QED
      BY <1>4, <2>1 DEF DataMatches
  <1>9. StmtMatches'
    BY <1>1, <1>2, <1>5, Nothing DEF StmtMatches, Handling
  <1>10. Outcome(View(db), h.ok)'
    <2>1. View(db)' = View(db)
      BY <1>5 DEF View
    <2>2. QED
      BY <1>1, <1>2, <1>6, <2>1, SameRequest
  <1>11. ~Waiting' /\ ~Down' /\ pc' \notin Handling /\ req # QuitRequest
    BY <1>1, <1>3, QuitIs DEF Waiting, Down, Handling
  <1>12. Chained(base)' /\ Chained(View(db))'
    <2>1. View(db)' = View(db)
      BY <1>5 DEF View
    <2>2. QED
      BY <1>2, <1>8, <2>1
  <1>13. QED
    BY <1>1, <1>2, <1>7, <1>8, <1>9, <1>10, <1>11, <1>12 DEF DataMatches

\* The reply leaves.
LEMMA AppFlushData ==
    ASSUME ServerInv, Typed, RequestMatches, StmtMatches, DataMatches, AppFlush, UNCHANGED clientVars
    PROVE  StmtMatches' /\ DataMatches'
  <1>1. /\ pc = "flush" /\ pc' = IF h.fc = "FC_QUIT" THEN "quit" ELSE "fc"
        /\ stdout' = Append(stdout, wbuf) /\ Len(stdout) < PipeCap
        /\ db' = db /\ rbuf' = rbuf /\ stdin' = stdin
    BY DEF AppFlush, WriterFlush
  <1>2. req' = req /\ base' = base /\ acked' = acked /\ todo' = todo /\ got' = got /\ st' = st
    BY DEF clientVars
  <1>3. db.stmt = NoStmt /\ db.stmt.vm # "run" /\ ~Pending /\ ~Pending'
    <2>1. db.stmt = NoStmt
      BY <1>1 DEF ServerInv, NoStatementLeft
    <2>2. QED
      BY <1>1, <2>1, Nothing DEF Pending
  <1>4. h.fc = req.fc /\ h.ok \in BOOLEAN /\ Stream' = <<>>
    <2>1. Located(req, "flush", h) /\ Stream = Unread(req, "flush", h)
      BY <1>1 DEF RequestMatches
    <2>2. Stream' = Stream
      BY <1>1, <1>2 DEF Stream
    <2>3. h.ok \in BOOLEAN
      BY DEF Typed, TypeOK
    <2>4. QED
      BY <2>1, <2>2, <2>3 DEF Located, Unread
  <1>5. View(db)' = View(db) /\ Chained(base) /\ Chained(View(db))
    BY <1>1, <1>3 DEF DataMatches, View
  <1>6. Outcome(View(db), h.ok) /\ (ReplyOk(wbuf) <=> h.ok)
    BY <1>1 DEF DataMatches
  <1>7. LastFrame' = wbuf
    BY <1>1, FrameSent DEF Typed, LastFrame
  <1>8. StmtMatches'
    BY <1>1, <1>3, Nothing DEF StmtMatches, Handling
  <1>9. Chained(base)' /\ Chained(View(db))' /\ acked' \in Seq(AnyRow) /\ IsPrefix(acked', (db.disk)')
    BY <1>1, <1>2, <1>5 DEF DataMatches
  <1>10. CASE h.fc = "FC_QUIT"
    <2>1. req = QuitRequest
      BY <1>1, <1>4, <1>10, QuitIs, RequestsAssumption DEF RequestMatches, IsRequest
    <2>2. (View(db) = base)'
      BY <1>1, <1>2, <1>5, <2>1 DEF DataMatches
    <2>3. pc' = "quit" /\ ~Waiting' /\ ~Down' /\ pc' \notin Handling
      BY <1>1, <1>10 DEF Waiting, Down, Handling
    <2>4. QED
      BY <1>8, <1>9, <2>2, <2>3 DEF DataMatches
  <1>11. CASE h.fc # "FC_QUIT"
    <2>1. pc' = "fc" /\ ~Down' /\ pc' \notin Handling
      BY <1>1, <1>11 DEF Down, Handling
    <2>2. (\E ok \in BOOLEAN : Outcome(View(db), ok) /\ (ReplyOk(LastFrame) <=> ok))'
      <3>1. \A v, ok : Outcome(v, ok)' <=> Outcome(v, ok)
        BY <1>2, SameRequest
      <3>2. QED
        BY <1>4, <1>5, <1>6, <1>7, <3>1
    <2>3. req'.fc \in FunctionCodes
      BY <1>1, <1>2 DEF RequestMatches, Located, Decodable
    <2>4. QED
      BY <1>4, <1>8, <1>9, <2>1, <2>2, <2>3 DEF DataMatches
  <1>12. QED
    BY <1>10, <1>11

\* No iteration leaves the database as it was.
LEMMA AppliedZero ==
    ASSUME Typed, RequestMatches, Chained(base)
    PROVE  Iterations(req) \in Nat /\ Applied(base, req, 0) = base
  <1>1. CASE req \in Requests
    <2>1. IsRequest(req)
      BY <1>1, RequestsAssumption
    <2>2. Len(req.params) \in Nat
      BY <2>1 DEF IsRequest
    <2>3. QED
      BY <2>1, <2>2, AppliedIs DEF Iterations
  <1>2. CASE req \in {QuitRequest, NoReq}
    BY <1>2, NothingToApply
  <1>3. QED
    BY <1>1, <1>2 DEF RequestMatches

\* At any point the file holds what some prefix of the iterations has committed.
LEMMA DiskIs ==
    ASSUME ServerInv, Typed, RequestMatches, StmtMatches, DataMatches, ~Down
    PROVE  /\ db.disk \in Seq(AnyRow)
           /\ \E j \in 0..Iterations(req) : db.disk = Applied(base, req, j).disk
  <1>1. /\ Chained(base) /\ Iterations(req) \in Nat /\ Applied(base, req, 0) = base
        /\ 0 \in 0..Iterations(req)
    BY AppliedZero DEF DataMatches
  <1>2. View(db).disk = db.disk
    BY DEF View
  <1>3. base.disk \in Seq(AnyRow)
    BY <1>1 DEF Chained, Data
  <1>4. View(db) = base \/ Pending => db.disk \in Seq(AnyRow) /\ (pc \in Handling \/ ~Pending => db.disk = base.disk)
    <2>1. CASE View(db) = base
      BY <1>2, <1>3, <2>1
    <2>2. CASE Pending
      <3>1. pc \in Handling /\ h.ok
        BY <2>2 DEF Pending, ServerInv, RunsOnlyInRows, Handling
      <3>2. View(db) = [base EXCEPT !.work = Append(@, Row(req.params[1]))]
        BY <2>2, <3>1 DEF DataMatches
      <3>3. View(db).disk = base.disk
        BY <1>1, <3>2 DEF Chained, Data
      <3>4. QED
        BY <1>2, <1>3, <3>3
    <2>3. QED
      BY <2>1, <2>2
  <1>5. db.disk \in Seq(AnyRow)
    <2>1. CASE Pending
      BY <1>4, <2>1
    <2>2. CASE ~Pending
      BY <1>2, <2>2 DEF DataMatches, Chained, Data
    <2>3. QED
      BY <2>1, <2>2
  <1>6. ASSUME NEW ok, Outcome(View(db), ok)
        PROVE  \E j \in 0..Iterations(req) : db.disk = Applied(base, req, j).disk
    <2>1. CASE ok
      <3>1. View(db) = Applied(base, req, Iterations(req))
        BY <1>6, <2>1 DEF Outcome
      <3>2. Iterations(req) \in 0..Iterations(req)
        BY <1>1
      <3>3. QED
        BY <1>2, <3>1, <3>2
    <2>2. CASE ~ok
      <3>1. Failed(View(db), Iterations(req))
        BY <1>6, <2>2 DEF Outcome
      <3>2. QED
        BY <1>1, <1>2, <3>1, FailedDisk
    <2>3. QED
      BY <2>1, <2>2
  <1>7. CASE pc \in Handling
    <2>1. Progress \in 0..Iterations(req) /\ Progress \in Nat
      BY <1>1, <1>7, ProgressIs
    <2>2. CASE ~h.ok
      <3>1. Failed(View(db), Progress)
        BY <1>7, <2>2 DEF DataMatches
      <3>2. \E j \in 0..Iterations(req) : View(db).disk = Applied(base, req, j).disk
        <4> HIDE DEF Progress
        <4>1. QED
          BY <1>1, <2>1, <3>1, FailedDisk
      <3>3. QED
        BY <1>2, <1>5, <3>2
    <2>3. CASE h.ok /\ Pending
      BY <1>1, <1>4, <1>7, <2>3
    <2>4. CASE h.ok /\ ~Pending
      <3>1. View(db) = Applied(base, req, Progress)
        BY <1>7, <2>4 DEF DataMatches
      <3>2. QED
        BY <1>2, <1>5, <2>1, <3>1
    <2>5. QED
      BY <2>2, <2>3, <2>4
  <1>8. CASE pc = "quit" \/ (pc = "fc" /\ Stream # <<>>)
    <2>1. View(db) = base
      BY <1>8 DEF DataMatches
    <2>2. QED
      BY <1>1, <1>2, <1>5, <2>1
  <1>9. CASE pc = "flush" \/ Waiting
    <2>1. \E ok : Outcome(View(db), ok)
      BY <1>9 DEF DataMatches
    <2>2. QED
      BY <1>5, <1>6, <2>1
  <1>10. pc \in Handling \/ pc \in {"quit", "fc", "flush"}
    BY DEF Typed, TypeOK, Handling, Down
  <1>11. QED
    BY <1>5, <1>7, <1>8, <1>9, <1>10 DEF Waiting

\* A request of an unknown function is not served.
LEMMA UnknownData ==
    ASSUME Typed, RequestMatches, DataMatches, ~Down,
           req \in Requests \ {NoReq}, req.fc \notin {"FC_EXEC", "FC_QUERY"}
    PROVE  View(db) = base
  <1>1. req.fc \notin FunctionCodes /\ req # NoReq
    BY RequestsAssumption, UnknownIs
  <1>2. pc \notin Handling
    BY DEF RequestMatches
  <1>3. pc # "flush"
    BY <1>1 DEF RequestMatches, Located, Decodable
  <1>4. pc # "quit" /\ ~Waiting
    BY <1>1, QuitIs DEF RequestMatches, DataMatches, FunctionCodes
  <1>5. pc = "fc" /\ Stream # <<>>
    BY <1>2, <1>3, <1>4 DEF Typed, TypeOK, Handling, Down, Waiting
  <1>6. QED
    BY <1>5 DEF DataMatches

\* These are iterations that the request has.
LEMMA DiskLeft ==
    ASSUME ServerInv, Typed, RequestMatches, StmtMatches, DataMatches, ~Down
    PROVE  /\ db.disk \in Seq(AnyRow)
           /\ \E j \in 0..Iterations(req) : j <= Len(req.params) /\ db.disk = Applied(base, req, j).disk
  <1>1. Iterations(req) \in Nat /\ Applied(base, req, 0) = base
    BY AppliedZero DEF DataMatches
  <1>2. db.disk \in Seq(AnyRow)
    BY DiskIs
  <1>3. PICK j \in 0..Iterations(req) : db.disk = Applied(base, req, j).disk
    BY DiskIs
  <1>4. Len(req.params) \in Nat
    <2>1. CASE req \in Requests
      <3>1. IsRequest(req)
        BY <2>1, RequestsAssumption
      <3>2. QED
        BY <3>1 DEF IsRequest
    <2>2. CASE req \in {QuitRequest, NoReq}
      <3>1. QuitRequest.params = <<>> /\ NoReq.params = <<>>
        BY DEF QuitRequest, NoReq
      <3>2. QED
        BY <2>2, <3>1
    <2>3. QED
      BY <2>1, <2>2 DEF RequestMatches
  <1>5. CASE req \in Requests /\ req.fc \in {"FC_EXEC", "FC_QUERY"}
    <2>1. Iterations(req) = Len(req.params)
      BY <1>5, RequestsAssumption DEF Iterations, IsRequest
    <2>2. QED
      BY <1>2, <1>3, <1>4, <2>1
  <1>6. ASSUME db.disk = base.disk
        PROVE  \E i \in 0..Iterations(req) : i <= Len(req.params) /\ db.disk = Applied(base, req, i).disk
    <2>1. 0 \in 0..Iterations(req) /\ 0 <= Len(req.params)
      BY <1>1, <1>4
    <2>2. QED
      BY <1>1, <1>6, <2>1
  <1>7. CASE req \in {QuitRequest, NoReq}
    <2>1. Applied(base, req, j) = base
      BY <1>7, NothingToApply
    <2>2. QED
      BY <1>2, <1>3, <1>6, <2>1
  <1>8. CASE req \in Requests \ {NoReq} /\ req.fc \notin {"FC_EXEC", "FC_QUERY"}
    <2>1. View(db) = base
      BY <1>8, UnknownData
    <2>2. QED
      BY <1>2, <1>6, <2>1 DEF View
  <1>9. QED
    BY <1>5, <1>7, <1>8 DEF RequestMatches

\* The server ends, whatever it was doing: what is not committed is lost.
LEMMA EndedData ==
    ASSUME ServerInv, Typed, RequestMatches, StmtMatches, DataMatches, ~Down,
           db' = sqlite3_close(db), Down', UNCHANGED clientVars
    PROVE  StmtMatches' /\ DataMatches'
  <1>1. req' = req /\ base' = base /\ acked' = acked
    BY DEF clientVars
  <1>2. /\ (db.disk)' = db.disk /\ (db.work)' = db.disk /\ (db.auto)' = TRUE /\ (db.stmt)' = NoStmt
    BY DEF sqlite3_close, sqlite3_open
  <1>3. pc' \in {"dead", "closed"} /\ pc' \notin Handling
    BY DEF Down, Handling
  <1>4. /\ db.disk \in Seq(AnyRow)
        /\ \E j \in 0..Iterations(req) : j <= Len(req.params) /\ db.disk = Applied(base, req, j).disk
    BY DiskLeft
  <1>5. Chained(View(db'))
    <2>1. View(db') = [disk |-> db.disk, work |-> db.disk, auto |-> TRUE]
      BY <1>2 DEF View
    <2>2. IsPrefix(db.disk, db.disk)
      BY <1>4, PrefixIs
    <2>3. QED
      BY <1>4, <2>1, <2>2 DEF Chained, Data
  <1>6. View(db)' = View(db')
    BY DEF View
  <1>7. ~Waiting' /\ StmtMatches'
    BY <1>2, <1>3, Nothing DEF Waiting, StmtMatches
  <1>8. Chained(base)' /\ acked' \in Seq(AnyRow) /\ IsPrefix(acked', (db.disk)')
    BY <1>1, <1>2 DEF DataMatches
  <1>9. (db.work = db.disk /\ db.auto /\ \E j \in 0..Iterations(req) :
           j <= Len(req.params) /\ db.disk = Applied(base, req, j).disk)'
    BY <1>1, <1>2, <1>4
  <1>10. Chained(View(db))'
    BY <1>5, <1>6
  <1>11. QED
    BY <1>3, <1>7, <1>8, <1>9, <1>10 DEF DataMatches

-----------------------------------------------------------------------------
\* The client.

\* The last token of what the client has read is the last of the last frame.
LEMMA LastKept ==
    ASSUME NEW a, NEW b, IsSeq(a), IsSeq(b), Len(req.coltypes) \in Nat, Complete(req, b)
    PROVE  ReplyOk(a \o b) <=> ReplyOk(b)
  <1> DEFINE n == Len(b)
  <1>1. PICK T : a \in Seq(T) /\ b \in Seq(T)
    BY CommonSet
  <1>2. n \in Nat
    BY <1>1
  <1>3. n # 0
    <2>1. SUFFICES ASSUME n = 0 PROVE FALSE
      OBVIOUS
    <2>2. CASE req.fc = "FC_QUERY"
      <3>1. PICK r \in 0..n : RowStart(req, r) <= n
        BY <2>2 DEF Complete
      <3>2. r = 0 /\ RowStart(req, 0) = 1
        BY <2>1, <3>1 DEF RowStart
      <3>3. QED
        BY <2>1, <3>1, <3>2
    <2>3. CASE req.fc # "FC_QUERY"
      BY <2>1, <2>3 DEF Complete, EndsWithStatus
    <2>4. QED
      BY <2>2, <2>3
  <1>4. n \in 1..Len(b)
    BY <1>2, <1>3
  <1>5. (a \o b)[Len(a) + n] = b[n] /\ Len(a \o b) = Len(a) + n
    BY <1>1, <1>4, Shifted
  <1>6. Last(a \o b) = b[n] /\ Last(b) = b[n]
    BY <1>5 DEF Last
  <1>7. QED
    BY <1>6 DEF ReplyOk

\* A request that is sent is there to be read.
LEMMA StartStream ==
    ASSUME Typed, Stream = <<>>, NEW r \in Requests \cup {QuitRequest}, Start(r)
    PROVE  Stream' # <<>>
  <1> DEFINE e == Encode(r)
  <1>1. todo' = e /\ rbuf' = rbuf /\ stdin' = stdin
    BY DEF Start, appVars
  <1>2. rbuf = <<>> /\ stdin = <<>>
    BY EmptyStream
  <1>3. e \in Seq(Token) /\ e # <<>>
    BY EncodedIs
  <1> HIDE DEF e
  <1>4. Stream' = (<<>> \o <<>>) \o e
    BY <1>1, <1>2, FlattenEmpty DEF Stream
  <1>5. <<>> \o <<>> = <<>> /\ <<>> \o e = e
    BY <1>3, ConcatEmptySeq
  <1>6. QED
    BY <1>3, <1>4, <1>5

\* A request begins with the data as it is.
LEMMA StartData ==
    ASSUME ServerInv, Typed, ClientMatches, DataMatches,
           st = "idle", NEW r \in Requests \cup {QuitRequest}, Start(r)
    PROVE  StmtMatches' /\ DataMatches'
  <1>1. /\ todo' = Encode(r) /\ base' = View(db) /\ acked' = acked
        /\ db' = db /\ pc' = pc /\ rbuf' = rbuf /\ stdin' = stdin
    BY DEF Start, appVars
  <1>2. pc = "fc" /\ Stream = <<>>
    BY DEF ClientMatches, Waiting
  <1>3. Stream' # <<>>
    BY <1>2, StartStream
  <1>4. db.stmt = NoStmt /\ db.stmt.vm # "run" /\ ~Pending
    <2>1. db.stmt = NoStmt
      BY <1>2 DEF ServerInv, NoStatementLeft
    <2>2. QED
      BY <2>1, Nothing DEF Pending
  <1>5. Chained(View(db)) /\ View(db)' = View(db)
    BY <1>1, <1>4 DEF DataMatches, View
  <1>6. Chained(base)' /\ Chained(View(db))' /\ (View(db) = base)'
    BY <1>1, <1>5
  <1>7. acked' \in Seq(AnyRow) /\ IsPrefix(acked', (db.disk)')
    BY <1>1 DEF DataMatches
  <1>8. StmtMatches'
    BY <1>1, <1>2, <1>4 DEF StmtMatches, Handling
  <1>9. pc' = "fc" /\ pc' \notin Handling /\ ~Down' /\ ~Waiting'
    BY <1>1, <1>2, <1>3 DEF Handling, Down, Waiting
  <1>10. QED
    BY <1>6, <1>7, <1>8, <1>9 DEF DataMatches

\* The client takes as committed what is.
LEMMA ReadFrameData ==
    ASSUME ServerInv, Typed, RequestMatches, ClientMatches, ReplyMatches, StmtMatches, DataMatches,
           ReadFrame, ClientMatches'
    PROVE  StmtMatches' /\ DataMatches'
  <1> DEFINE x == Head(stdout)
             y == Tail(stdout)
             g == got \o x
  <1>1. /\ st = "reading" /\ stdout # <<>> /\ stdout' = y /\ got' = g
        /\ IF Complete(req, g)
           THEN st' = (IF req = QuitRequest THEN "bye" ELSE "idle") /\ acked' = Acknowledged(g)
           ELSE st' = st /\ acked' = acked
        /\ db' = db /\ pc' = pc /\ h' = h /\ rbuf' = rbuf /\ wbuf' = wbuf
        /\ stdin' = stdin /\ req' = req /\ todo' = todo /\ base' = base
    BY DEF ReadFrame, serverVars
  <1>2. IsSeq(stdout) /\ (\A i \in DOMAIN stdout : IsSeq(stdout[i])) /\ IsSeq(got)
    BY DEF Typed
  <1>3. /\ x = stdout[1] /\ 1 \in DOMAIN stdout /\ IsSeq(y)
        /\ Len(stdout) \in Nat \ {0} /\ Len(y) = Len(stdout) - 1
        /\ DOMAIN stdout = 1..Len(stdout) /\ DOMAIN y = 1..Len(y)
        /\ \A i \in DOMAIN y : i + 1 \in DOMAIN stdout /\ y[i] = stdout[i + 1]
    BY <1>1, <1>2, FirstFrame
  <1>4. IsSeq(x) /\ Len(req.coltypes) \in Nat
    BY <1>2, <1>3, ColumnsOf
  <1>5. Stream' = Stream /\ st' # "dead" /\ st # "dead" /\ (Waiting' <=> Waiting)
    BY <1>1 DEF Stream, Waiting
  <1> HIDE DEF x, y
  <1>6. ASSUME Waiting PROVE ReplyOk(LastFrame') <=> ReplyOk(LastFrame)
    <2>1. LastFrame = stdout[Len(stdout)] /\ LastFrame' = IF y = <<>> THEN g ELSE y[Len(y)]
      BY <1>1 DEF LastFrame
    <2> HIDE DEF g
    <2>2. CASE Len(stdout) = 1
      <3>1. Complete(req, x)
        BY <1>1, <1>3, <1>6, <2>2 DEF ReplyMatches, Replied
      <3>2. ReplyOk(g) <=> ReplyOk(x)
        BY <1>2, <1>4, <3>1, LastKept DEF g
      <3>3. y = <<>>
        <4> DEFINE R == {y[i] : i \in DOMAIN y}
        <4>1. y \in Seq(R)
          BY <1>3 DEF IsSeq
        <4> HIDE DEF R
        <4>2. Len(y) = 0
          BY <1>3, <2>2
        <4>3. QED
          BY <4>1, <4>2, EmptySeq
      <3>4. LastFrame = x /\ LastFrame' = g
        BY <1>3, <2>1, <2>2, <3>3
      <3>5. QED
        BY <3>2, <3>4
    <2>3. CASE Len(stdout) # 1
      <3>1. Len(y) \in DOMAIN y /\ Len(y) + 1 = Len(stdout)
        BY <1>3, <2>3
      <3>2. y # <<>> /\ y[Len(y)] = stdout[Len(stdout)]
        BY <1>3, <3>1
      <3>3. LastFrame' = LastFrame
        BY <2>1, <3>2
      <3>4. QED
        BY <3>3
    <2>4. QED
      BY <2>2, <2>3
  <1>7. acked' = acked \/ (acked' \in Seq(AnyRow) /\ IsPrefix(acked', db.disk))
    <2>1. SUFFICES ASSUME acked' # acked PROVE acked' \in Seq(AnyRow) /\ IsPrefix(acked', db.disk)
      OBVIOUS
    <2>2. /\ Complete(req, g) /\ ReplyOk(g) /\ req.fc = "FC_EXEC"
          /\ acked' = Applied(base, req, Iterations(req)).disk
      BY <1>1, <2>1 DEF Acknowledged
    <2>3. req # QuitRequest /\ req # NoReq /\ st' = "idle"
      BY <1>1, <2>2, QuitIs
    <2>4. Waiting /\ LastFrame' = g
      BY <1>1, <1>5, <2>3 DEF ClientMatches, LastFrame
    <2>5. ReplyOk(LastFrame)
      BY <1>6, <2>2, <2>4
    <2>6. PICK ok \in BOOLEAN : Outcome(View(db), ok) /\ (ReplyOk(LastFrame) <=> ok)
      BY <1>5, <2>3, <2>4 DEF DataMatches
    <2>7. View(db) = Applied(base, req, Iterations(req))
      BY <2>5, <2>6 DEF Outcome
    <2>8. acked' = db.disk
      BY <2>2, <2>7 DEF View
    <2>9. ~Down
      BY <2>4 DEF Waiting, Down
    <2>10. db.disk \in Seq(AnyRow)
      BY <2>9, DiskLeft
    <2>11. QED
      BY <2>8, <2>10, PrefixIs
  <1>8. UNCHANGED <<db, pc, base, req>> /\ h' = h /\ wbuf' = wbuf
    BY <1>1
  <1>9. QED
    BY <1>5, <1>6, <1>7, <1>8, SameData

\* A server and a client that have just started.
LEMMA FreshData ==
    ASSUME NEW rows \in Seq(AnyRow), db' = sqlite3_open(rows), base' = View(db)',
           pc' = "fc", rbuf' = <<>>, stdin' = <<>>, todo' = <<>>, req' = NoReq,
           acked' \in Seq(AnyRow), IsPrefix(acked', rows)
    PROVE  StmtMatches' /\ DataMatches'
  <1>1. /\ (db.disk)' = rows /\ (db.work)' = rows /\ (db.auto)' = TRUE /\ (db.stmt)' = NoStmt
    BY DEF sqlite3_open
  <1>2. Stream' = <<>>
    <2>1. Stream' = (<<>> \o <<>>) \o <<>>
      BY FlattenEmpty DEF Stream
    <2>2. QED
      BY <2>1
  <1>3. Chained(View(db)')
    <2>1. View(db)' = [disk |-> rows, work |-> rows, auto |-> TRUE]
      BY <1>1 DEF View
    <2>2. IsPrefix(rows, rows)
      BY PrefixIs
    <2>3. QED
      BY <2>1, <2>2 DEF Chained, Data
  <1>4. StmtMatches'
    BY <1>1, Nothing DEF StmtMatches, Handling
  <1>5. pc' \notin Handling /\ ~Down'
    BY DEF Handling, Down
  <1>6. (\E ok \in BOOLEAN :
           /\ Outcome(View(db), ok)
           /\ st # "dead" /\ req # NoReq => (ReplyOk(LastFrame) <=> ok))'
    <2>1. Outcome(View(db), TRUE)'
      BY NothingToApply DEF Outcome
    <2>2. QED
      BY <2>1
  <1>7. Chained(base)' /\ Chained(View(db))'
    BY <1>3
  <1>8. (acked \in Seq(AnyRow) /\ IsPrefix(acked, db.disk))'
    BY <1>1
  <1>9. QED
    BY <1>2, <1>4, <1>5, <1>6, <1>7, <1>8 DEF DataMatches

\* A new session finds what was committed.
LEMMA NewSessionData ==
    ASSUME ServerInv, DataMatches, NewSession
    PROVE  StmtMatches' /\ DataMatches'
  <1>1. /\ Down /\ db' = sqlite3_open(db.disk) /\ base' = View(db') /\ acked' = acked
        /\ pc' = "fc" /\ rbuf' = <<>> /\ stdin' = <<>> /\ todo' = <<>> /\ req' = NoReq
    BY DEF NewSession, Over
  <1>2. ~Pending
    <2>1. db.stmt = NoStmt
      BY <1>1 DEF ServerInv, NoStatementLeft, Down
    <2>2. QED
      BY <2>1, Nothing DEF Pending
  <1>3. db.disk \in Seq(AnyRow)
    <2>1. Chained(View(db)) /\ View(db).disk = db.disk
      BY <1>2 DEF DataMatches, View
    <2>2. QED
      BY <2>1 DEF Chained, Data
  <1>4. acked' \in Seq(AnyRow) /\ IsPrefix(acked', db.disk) /\ base' = View(db)'
    BY <1>1 DEF DataMatches, View
  <1>5. QED
    BY <1>1, <1>3, <1>4, FreshData

-----------------------------------------------------------------------------
\* The invariant holds from the start.
LEMMA InitData == Init => DataInv
  <1>1. SUFFICES ASSUME Init PROVE DataInv
    OBVIOUS
  <1>2. /\ db = sqlite3_open(<<>>) /\ pc = "fc" /\ rbuf = <<>> /\ stdin = <<>> /\ todo = <<>>
        /\ req = NoReq /\ base = View(db) /\ acked = <<>>
    BY <1>1 DEF Init, AppInit
  <1> DEFINE e == <<>>
  <1>3. /\ db.disk = e /\ db.work = e /\ db.auto = TRUE /\ db.stmt = NoStmt
    BY <1>2 DEF sqlite3_open
  <1>4. e \in Seq(AnyRow) /\ IsPrefix(e, e) /\ DOMAIN e = {}
    <2>1. e \in Seq(AnyRow)
      OBVIOUS
    <2>2. DOMAIN e = {}
      OBVIOUS
    <2>3. \A s \in Seq(AnyRow) : IsPrefix(s, s)
      BY PrefixIs
    <2> HIDE DEF e
    <2>4. QED
      BY <2>1, <2>2, <2>3
  <1>5. Stream = <<>>
    <2>1. Stream = (<<>> \o <<>>) \o <<>>
      BY <1>2, FlattenEmpty DEF Stream
    <2>2. QED
      BY <2>1
  <1>6. ParamsIntact
    <2>1. DOMAIN rbuf = {} /\ DOMAIN stdin = {}
      BY <1>2, <1>4
    <2>2. QED
      BY <1>2, <2>1 DEF ParamsIntact, FramesUndivided, Undivided, HeldIntact
  <1>7. StmtMatches
    BY <1>2, <1>3, Nothing DEF StmtMatches, Handling
  <1>8. DataMatches
    <2>1. acked = e
      BY <1>2
    <2> HIDE DEF e
    <2>2. Chained(View(db))
      <3>1. View(db) = [disk |-> e, work |-> e, auto |-> TRUE]
        BY <1>3 DEF View
      <3>2. QED
        BY <1>4, <3>1 DEF Chained, Data
    <2>3. Outcome(View(db), TRUE)
      BY <1>2, NothingToApply DEF Outcome
    <2>4. pc \notin Handling /\ ~Down
      BY <1>2 DEF Handling, Down
    <2>5. QED
      BY <1>2, <1>3, <1>4, <1>5, <2>1, <2>2, <2>3, <2>4 DEF DataMatches
  <1>9. QED
    BY <1>6, <1>7, <1>8 DEF DataInv

\* Every step of the server.
LEMMA ServerData ==
    ASSUME Precautions, ExchangeInv, ParamsIntact, StmtMatches, DataMatches, Server
    PROVE  StmtMatches' /\ DataMatches'
  <1>1. /\ ServerInv /\ Typed /\ RequestMatches /\ ClientMatches /\ ReplyMatches
        /\ AppNext /\ UNCHANGED clientVars
    BY DEF ExchangeInv, Server
  <1>2. ASSUME Abort, ~Down PROVE StmtMatches' /\ DataMatches'
    <2>1. db' = sqlite3_close(db) /\ Down'
      BY <1>2 DEF Abort, Down
    <2>2. QED
      BY <1>1, <1>2, <2>1, EndedData
  <1>3. CASE EndOfInput \/ ShortFrame \/ BrokenPipe \/ InvalidByte \/ BadCount
    <2>1. Abort /\ ~Down
      BY <1>3 DEF EndOfInput, ShortFrame, BrokenPipe, InvalidByte, BadCount,
                  Reading, Want, FlushDue, At, Down
    <2>2. QED
      BY <1>2, <2>1
  <1>4. CASE readNextFrameIfNeeded
    BY <1>1, <1>4, ReadData, FirstFrameData
  <1>5. CASE AppStep
    BY <1>1, <1>5, AppStepData
  <1>6. CASE AppFlush
    BY <1>1, <1>6, AppFlushData
  <1>7. CASE Shutdown
    <2>1. db' = sqlite3_close(db) /\ Down' /\ ~Down
      BY <1>7 DEF Shutdown, Db_free, Down
    <2>2. QED
      BY <1>1, <2>1, EndedData
  <1>8. CASE ReadSql
    BY <1>1, <1>8, ReadSqlData
  <1>9. CASE ReadNiter \/ ReadNparams \/ ReadParamType \/ ReadParamValue
             \/ ReadNcols \/ ReadColtype \/ MarkFrame \/ EndRows
    <2>1. pc \in Handling
      BY <1>9 DEF ReadNiter, ReadNparams, ReadParamType, ReadParamValue, ReadNcols, ReadColtype,
                  MarkFrame, EndRows, Read, At, Handling
    <2>2. QED
      BY <1>1, <1>9, <2>1, ReadData
  <1>10. CASE BindExec
    BY <1>1, <1>10, BindExecData
  <1>11. CASE BindQuery
    BY <1>1, <1>11, BindQueryData
  <1>12. CASE FetchRow
    <2>1. ~Down
      BY <1>12 DEF FetchRow, Down
    <2>2. CASE Abort
      BY <1>2, <2>1, <2>2
    <2>3. CASE ~Abort
      BY <1>1, <1>12, <2>3, FetchRowData
    <2>4. QED
      BY <2>2, <2>3
  <1>13. CASE Reply
    BY <1>1, <1>13, ReplyData
  <1>14. QED
    BY <1>1, <1>3, <1>4, <1>5, <1>6, <1>7, <1>8, <1>9, <1>10, <1>11, <1>12, <1>13 DEF AppNext

\* Every step of server and client.
LEMMA NextData == ASSUME Precautions, ExchangeInv, ExchangeInv', DataInv, [Next]_vars PROVE DataInv'
  <1>1. ParamsIntact /\ StmtMatches /\ DataMatches
    BY DEF DataInv
  <1>2. ServerInv /\ Typed /\ RequestMatches /\ ClientMatches /\ ReplyMatches /\ ClientMatches'
    BY DEF ExchangeInv
  <1>3. ParamsIntact'
    BY <1>1, NextIntact DEF Precautions
  <1>4. SUFFICES StmtMatches' /\ DataMatches'
    BY <1>3 DEF DataInv
  <1>5. CASE Server
    BY <1>1, <1>5, ServerData
  <1>6. CASE Send \/ SendQuit
    <2>1. PICK r \in Requests \cup {QuitRequest} : st = "idle" /\ Start(r)
      BY <1>6 DEF Send, SendQuit
    <2>2. QED
      BY <1>1, <1>2, <2>1, StartData
  <1>7. CASE WriteFrame \/ Lose \/ Die \/ UNCHANGED vars
    BY <1>1, <1>2, <1>7, ClientData
  <1>8. CASE ReadFrame
    BY <1>1, <1>2, <1>8, ReadFrameData
  <1>9. CASE NewSession
    BY <1>1, <1>2, <1>9, NewSessionData
  <1>10. QED
    BY <1>5, <1>6, <1>7, <1>8, <1>9 DEF Next, Terminated

\* What the database holds follows, at every point of a handler, from what it
\* held when the request was sent and the iterations executed since.
THEOREM DataInvariant == ASSUME Precautions PROVE Spec => []DataInv
  <1>1. Init => DataInv /\ ExchangeInv
    BY InitData, InitExchange
  <1>2. DataInv /\ ExchangeInv /\ [Next]_vars => (DataInv /\ ExchangeInv)'
    BY NextData, NextExchange
  <1>3. QED
    BY <1>1, <1>2, PTL DEF Spec

\* What a client has that may send its next request.
LEMMA AnswerIs ==
    ASSUME ExchangeInv, DataInv, Answered
    PROVE  \E ok \in BOOLEAN : Outcome(View(db), ok) /\ (ReplyOk(got) <=> ok)
  <1>1. Waiting /\ stdout = <<>> /\ st # "dead" /\ req # NoReq
    BY DEF Answered, ExchangeInv, ClientMatches
  <1>2. LastFrame = got
    BY <1>1 DEF LastFrame
  <1>3. QED
    BY <1>1, <1>2 DEF DataInv, DataMatches

\* A request, whichever it is, has its fields.
LEMMA RequestIs ==
    ASSUME ExchangeInv
    PROVE  [req EXCEPT !.sql = "rollback"].sql = "rollback"
  <1>1. CASE req \in Requests
    <2>1. IsRequest(req)
      BY <1>1, RequestsAssumption
    <2>2. QED
      BY <2>1 DEF IsRequest
  <1>2. CASE req \in {QuitRequest, NoReq}
    <2>1. "sql" \in DOMAIN QuitRequest /\ "sql" \in DOMAIN NoReq
      BY DEF QuitRequest, NoReq
    <2>2. QED
      BY <1>2, <2>1
  <1>3. QED
    BY <1>1, <1>2 DEF ExchangeInv, RequestMatches

\* An ok reply means that _fcExec or _fcQuery has executed every iteration, that
\* they are committed unless a transaction is open, and that nothing else is done.
THEOREM SqinnOkMeansApplied == ASSUME Precautions PROVE Spec => []OkMeansApplied
  <1>1. ASSUME ExchangeInv, DataInv PROVE OkMeansApplied
    <2>1. SUFFICES ASSUME Answered, ReplyOk(got) PROVE View(db) = Applied(base, req, Iterations(req))
      BY DEF OkMeansApplied
    <2>2. PICK ok \in BOOLEAN : Outcome(View(db), ok) /\ (ReplyOk(got) <=> ok)
      BY <1>1, <2>1, AnswerIs
    <2>3. QED
      BY <2>1, <2>2 DEF Outcome
  <1>2. QED
    BY <1>1, DataInvariant, ExchangeInvariant, PTL

\* An error reply means that the handlers have executed a proper prefix of the
\* iterations, or that an I/O error has rolled back the client's transaction.
THEOREM SqinnErrorMeansPrefix == ASSUME Precautions PROVE Spec => []ErrorMeansPrefix
  <1>1. ASSUME ExchangeInv, DataInv PROVE ErrorMeansPrefix
    <2>1. SUFFICES ASSUME Answered, ~ReplyOk(got)
                   PROVE  \/ \E j \in 0..Iterations(req) :
                               /\ j < Iterations(req) \/ j = 0
                               /\ View(db) = Applied(base, req, j)
                          \/ /\ ~base.auto /\ "ioerr" \in Faults
                             /\ View(db) = Applied(base, [req EXCEPT !.sql = "rollback"], 1)
      BY DEF ErrorMeansPrefix
    <2>2. PICK ok \in BOOLEAN : Outcome(View(db), ok) /\ (ReplyOk(got) <=> ok)
      BY <1>1, <2>1, AnswerIs
    <2>3. Failed(View(db), Iterations(req))
      BY <2>1, <2>2 DEF Outcome
    <2>4. CASE Lost(View(db))
      <3>1. Applied(base, [req EXCEPT !.sql = "rollback"], 1) = RolledBack(base)
        <4>1. [req EXCEPT !.sql = "rollback"].sql = "rollback"
          BY <1>1, RequestIs
        <4>2. QED
          BY <4>1 DEF Applied, RolledBack
      <3>2. QED
        BY <2>4, <3>1 DEF Lost
    <2>5. CASE ~Lost(View(db))
      BY <2>3, <2>5 DEF Failed
    <2>6. QED
      BY <2>4, <2>5
  <1>2. QED
    BY <1>1, DataInvariant, ExchangeInvariant, PTL

\* However the server ends, the file holds what a prefix of the iterations has
\* committed: a transaction left open when exit or main ends it leaves nothing.
THEOREM SqinnEndLeavesPrefix == ASSUME Precautions PROVE Spec => []EndLeavesPrefix
  <1>1. DataInv => EndLeavesPrefix
    BY DEF DataInv, DataMatches, EndLeavesPrefix
  <1>2. QED
    BY <1>1, DataInvariant, PTL

\* What a client has been told is committed stays, through errors, the ends of
\* client and server, and every later session.
THEOREM SqinnDurable == ASSUME Precautions PROVE Spec => []Durable
  <1>1. DataInv => Durable
    BY DEF DataInv, DataMatches, Durable
  <1>2. QED
    BY <1>1, DataInvariant, PTL

\* Rows that were there before the request, or that it carries.
OnlySent(rows) ==
    \A i \in DOMAIN rows :
        \/ i \in DOMAIN base.work /\ rows[i] = base.work[i]
        \/ \E j \in DOMAIN req.params : rows[i] = Row(req.params[j])

\* A prefix of such rows is made of such rows.
LEMMA PrefixOnlySent ==
    ASSUME NEW s \in Seq(AnyRow), NEW t \in Seq(AnyRow), IsPrefix(s, t), OnlySent(t)
    PROVE  OnlySent(s)
  <1>1. Len(s) <= Len(t) /\ \A i \in 1..Len(s) : s[i] = t[i]
    BY PrefixIs
  <1>2. Len(s) \in Nat /\ Len(t) \in Nat /\ DOMAIN s = 1..Len(s) /\ DOMAIN t = 1..Len(t)
    OBVIOUS
  <1>3. \A i \in DOMAIN s : i \in DOMAIN t /\ s[i] = t[i]
    BY <1>1, <1>2
  <1>4. QED
    BY <1>3 DEF OnlySent

\* What there was, and what is left of it, are such rows.
LEMMA BaseOnlySent ==
    ASSUME Chained(base)
    PROVE  OnlySent(base.work) /\ OnlySent(base.disk)
  <1>1. OnlySent(base.work)
    BY DEF OnlySent
  <1>2. base.disk \in Seq(AnyRow) /\ base.work \in Seq(AnyRow) /\ IsPrefix(base.disk, base.work)
    BY DEF Chained, Data
  <1>3. QED
    BY <1>1, <1>2, PrefixOnlySent

\* Iterations add only rows that the request carries.
LEMMA AppliedOnlySent ==
    ASSUME Chained(base), IsRequest(req), NEW j \in 0..Len(req.params)
    PROVE  OnlySent(Applied(base, req, j).work) /\ OnlySent(Applied(base, req, j).disk)
  <1> DEFINE v == Applied(base, req, j)
             a == base.work
             c == Carried(req, j)
             rows == a \o c
  <1>1. base \in Data /\ a \in Seq(AnyRow) /\ c \in Seq(AnyRow) /\ Len(c) = j /\ Len(req.params) \in Nat
    <2>1. base \in Data /\ a \in Seq(AnyRow)
      BY DEF Chained, Data
    <2>2. c \in Seq(AnyRow) /\ Len(c) = j
      BY CarriedIs
    <2>3. Len(req.params) \in Nat
      BY DEF IsRequest
    <2>4. QED
      BY <2>1, <2>2, <2>3
  <1>2. \A i \in 1..j : c[i] = Row(req.params[i]) /\ i \in DOMAIN req.params
    BY DEF Carried, IsRequest
  <1>3. OnlySent(a) /\ OnlySent(base.disk)
    BY BaseOnlySent
  <1>4. v.work \in {a, base.disk, rows}
    <2>1. v = CASE req.sql \in {"insert", "returning"} ->
                     [base EXCEPT !.work = rows, !.disk = IF base.auto THEN rows ELSE base.disk]
                [] req.sql = "begin" /\ j > 0 -> [base EXCEPT !.auto = FALSE]
                [] req.sql = "commit" /\ j > 0 -> [base EXCEPT !.disk = base.work, !.auto = TRUE]
                [] req.sql = "rollback" /\ j > 0 -> [base EXCEPT !.work = base.disk, !.auto = TRUE]
                [] OTHER -> base
      BY DEF Applied, Carried
    <2> HIDE DEF v, rows
    <2>2. QED
      BY <1>1, <2>1 DEF Data
  <1>5. OnlySent(rows)
    <2>1. /\ Len(rows) = Len(a) + Len(c)
          /\ \A i \in 1..Len(a) + Len(c) : rows[i] = IF i <= Len(a) THEN a[i] ELSE c[i - Len(a)]
      BY <1>1, ConcatProperties
    <2>2. rows \in Seq(AnyRow) /\ DOMAIN rows = 1..Len(rows) /\ DOMAIN a = 1..Len(a) /\ Len(a) \in Nat
      BY <1>1
    <2> HIDE DEF rows, a, c
    <2>3. SUFFICES ASSUME NEW i \in DOMAIN rows
                   PROVE  \/ i \in DOMAIN a /\ rows[i] = a[i]
                          \/ \E k \in DOMAIN req.params : rows[i] = Row(req.params[k])
      BY DEF OnlySent, a
    <2>4. i \in 1..Len(a) + Len(c) /\ rows[i] = IF i <= Len(a) THEN a[i] ELSE c[i - Len(a)]
      BY <2>1, <2>2
    <2>5. CASE i <= Len(a)
      BY <2>2, <2>4, <2>5
    <2>6. CASE ~(i <= Len(a))
      <3>1. i - Len(a) \in 1..j /\ rows[i] = c[i - Len(a)]
        BY <1>1, <2>2, <2>4, <2>6
      <3>2. QED
        BY <1>2, <3>1
    <2>7. QED
      BY <2>5, <2>6
  <1>6. OnlySent(v.work)
    BY <1>3, <1>4, <1>5
  <1>7. Chained(v)
    BY AppliedChained
  <1>8. v.disk \in Seq(AnyRow) /\ v.work \in Seq(AnyRow) /\ IsPrefix(v.disk, v.work)
    BY <1>7 DEF Chained, Data
  <1>9. QED
    BY <1>6, <1>8, PrefixOnlySent

\* So do a request's failures.
LEMMA ReachedOnlySent ==
    ASSUME Chained(base),
           req \in {QuitRequest, NoReq} \/ (IsRequest(req) /\ req.fc \in {"FC_EXEC", "FC_QUERY"}),
           NEW v, Lost(v) \/ \E j \in 0..Iterations(req) : v = Applied(base, req, j)
    PROVE  OnlySent(v.work)
  <1>1. OnlySent(base.work) /\ OnlySent(base.disk)
    BY BaseOnlySent
  <1>2. CASE Lost(v)
    <2>1. v.work = base.disk
      <3>1. v = RolledBack(base) /\ base \in Data
        BY <1>2 DEF Lost, Chained
      <3>2. QED
        BY <3>1 DEF RolledBack, Data
    <2>2. QED
      BY <1>1, <2>1
  <1>3. CASE ~Lost(v)
    <2>1. PICK j \in 0..Iterations(req) : v = Applied(base, req, j)
      BY <1>3
    <2>2. CASE req \in {QuitRequest, NoReq}
      BY <1>1, <2>1, <2>2, NothingToApply
    <2>3. CASE IsRequest(req) /\ req.fc \in {"FC_EXEC", "FC_QUERY"}
      <3>1. Iterations(req) = Len(req.params)
        BY <2>3 DEF Iterations, IsRequest
      <3>2. QED
        BY <2>1, <2>3, <3>1, AppliedOnlySent
    <2>4. QED
      BY <2>2, <2>3
  <1>4. QED
    BY <1>2, <1>3

\* A row that has been inserted and is not yet committed is one the request carries.
LEMMA PendingOnlySent ==
    ASSUME ServerInv, Typed, RequestMatches, StmtMatches, DataMatches, Pending
    PROVE  OnlySent(db.work)
  <1>1. pc \in Handling /\ h.ok /\ h.fc = "FC_QUERY" /\ db.stmt # NoStmt /\ db.stmt.sql = "returning"
    BY Nothing DEF Pending, ServerInv, RunsOnlyInRows, StmtMatches, Handling
  <1>2. IsRequest(req) /\ h.fc = req.fc
    BY <1>1, InHandler
  <1>3. Chained(base) /\ View(db) = [base EXCEPT !.work = Append(@, Row(req.params[1]))]
    BY <1>1 DEF DataMatches
  <1>4. req.sql = "returning" /\ Len(req.params) = 1
    BY <1>1, <1>2 DEF StmtMatches, Prepared, IsRequest
  <1>5. db.work = Append(base.work, Row(req.params[1]))
    <2>1. View(db).work = db.work
      BY DEF View
    <2>2. QED
      BY <1>3, <2>1 DEF Chained, Data
  <1>6. Applied(base, req, 1) = Effect(base, "returning", Row(req.params[1]))
    BY <1>2, <1>3, <1>4, AppliedIs
  <1>7. Applied(base, req, 1).work = db.work
    BY <1>3, <1>5, <1>6 DEF Effect, Chained, Data
  <1>8. 1 \in 0..Len(req.params)
    BY <1>4
  <1>9. QED
    BY <1>2, <1>3, <1>7, <1>8, AppliedOnlySent

\* At every point of every request, and after every way it may fail, the table
\* holds no row but those that were there and those that the request carries:
\* no bytes of another frame, and nothing of an earlier iteration.
THEOREM SqinnOnlySentRows == ASSUME Precautions PROVE Spec => []OnlySentRows
  <1>1. ASSUME ExchangeInv, DataInv PROVE OnlySent(db.work)
    <2>1. ServerInv /\ Typed /\ RequestMatches /\ StmtMatches /\ DataMatches
      BY <1>1 DEF ExchangeInv, DataInv
    <2>2. Chained(base) /\ View(db).work = db.work
      BY <2>1 DEF DataMatches, View
    <2>3. CASE Down
      <3>1. PICK j \in 0..Iterations(req) :
              j <= Len(req.params) /\ db.disk = Applied(base, req, j).disk /\ db.work = db.disk
        BY <2>1, <2>3 DEF DataMatches
      <3>2. CASE req \in {QuitRequest, NoReq}
        <4>1. Applied(base, req, j) = base
          BY <3>2, NothingToApply
        <4>2. QED
          BY <2>2, <3>1, <4>1, BaseOnlySent
      <3>3. CASE req \in Requests
        <4>1. IsRequest(req)
          BY <3>3, RequestsAssumption
        <4>2. j \in 0..Len(req.params)
          BY <3>1, <4>1 DEF IsRequest
        <4>3. QED
          BY <2>2, <3>1, <4>1, <4>2, AppliedOnlySent
      <3>4. QED
        BY <2>1, <3>2, <3>3 DEF RequestMatches
    <2>4. CASE /\ ~Down
               /\ req \in {QuitRequest, NoReq} \/ (IsRequest(req) /\ req.fc \in {"FC_EXEC", "FC_QUERY"})
      <3>1. CASE Pending
        BY <2>1, <3>1, PendingOnlySent
      <3>2. ASSUME Lost(View(db)) \/ \E j \in 0..Iterations(req) : View(db) = Applied(base, req, j)
            PROVE  OnlySent(db.work)
        BY <2>2, <2>4, <3>2, ReachedOnlySent
      <3>3. ASSUME NEW n \in 0..Iterations(req), Failed(View(db), n)
            PROVE  OnlySent(db.work)
        <4>1. \A j \in 0..n : j \in 0..Iterations(req)
          BY <2>1, <2>2, AppliedZero
        <4>2. QED
          BY <3>2, <3>3, <4>1 DEF Failed
      <3>4. Iterations(req) \in 0..Iterations(req)
        BY <2>1, <2>2, AppliedZero
      <3>5. CASE pc \in Handling /\ ~Pending
        <4>1. Progress \in 0..Iterations(req)
          BY <2>1, <3>5, ProgressIs
        <4>2. Failed(View(db), Progress) \/ View(db) = Applied(base, req, Progress)
          BY <2>1, <3>5 DEF DataMatches
        <4>3. QED
          BY <3>2, <3>3, <4>1, <4>2
      <3>6. CASE pc = "flush" \/ Waiting
        <4>1. \E ok : Outcome(View(db), ok)
          BY <2>1, <3>6 DEF DataMatches
        <4>2. Failed(View(db), Iterations(req)) \/ View(db) = Applied(base, req, Iterations(req))
          BY <4>1 DEF Outcome
        <4>3. QED
          BY <3>2, <3>3, <3>4, <4>2
      <3>7. CASE pc = "quit" \/ (pc = "fc" /\ Stream # <<>>)
        <4>1. View(db) = base
          BY <2>1, <3>7 DEF DataMatches
        <4>2. QED
          BY <2>2, <4>1, BaseOnlySent
      <3>8. QED
        BY <2>1, <2>4, <3>1, <3>5, <3>6, <3>7 DEF Typed, TypeOK, Down, Handling, Waiting
    <2>5. CASE ~Down /\ req \in Requests \ {NoReq} /\ req.fc \notin {"FC_EXEC", "FC_QUERY"}
      <3>1. View(db) = base
        BY <2>1, <2>5, UnknownData
      <3>2. QED
        BY <2>2, <3>1, BaseOnlySent
    <2>6. QED
      BY <2>1, <2>3, <2>4, <2>5, RequestsAssumption DEF RequestMatches
  <1>2. OnlySent(db.work) => OnlySentRows
    BY DEF OnlySent, OnlySentRows
  <1>3. QED
    BY <1>1, <1>2, DataInvariant, ExchangeInvariant, PTL

-----------------------------------------------------------------------------
\* Service.

\* The operations that are left are those of the iterations that are left.
LEMMA RestIs ==
    ASSUME NEW r, IsRequest(r), NEW i \in 0..Len(r.params)
    PROVE  LET rest == SubSeq(Ops(r), i + 1, Len(r.params))
           IN /\ i = 0 => rest = Ops(r)
              /\ i = Len(r.params) => rest = <<>>
              /\ i < Len(r.params) =>
                   /\ rest # <<>> /\ Head(rest) = [sql |-> r.sql, params |-> r.params[i + 1]]
                   /\ Tail(rest) = SubSeq(Ops(r), i + 2, Len(r.params))
  <1> DEFINE n == Len(r.params)
             ops == Ops(r)
             rest == SubSeq(ops, i + 1, n)
             T == {ops[j] : j \in 1..n}
  <1>1. n \in Nat /\ DOMAIN r.params = 1..n
    BY Parts
  <1>2. ops \in Seq(T) /\ Len(ops) = n /\ \A j \in 1..n : ops[j] = [sql |-> r.sql, params |-> r.params[j]]
    BY <1>1 DEF Ops
  <1> HIDE DEF ops, n, T
  <1>3. i \in 0..n
    BY DEF n
  <1>4. i = 0 => rest = ops
    BY <1>1, <1>2
  <1>5. i = n => rest = <<>>
    BY <1>1, <1>2, SubSeqEmpty
  <1>6. ASSUME i < n
        PROVE  rest # <<>> /\ Head(rest) = ops[i + 1] /\ Tail(rest) = SubSeq(ops, i + 2, n)
    <2>1. i + 1 \in 1..n /\ i + 1 <= n /\ i + 1 + 1 = i + 2
      BY <1>1, <1>3, <1>6
    <2>2. rest # <<>>
      BY <1>1, <1>2, <2>1
    <2>3. Head(rest) = ops[i + 1] /\ Tail(rest) = SubSeq(ops, i + 1 + 1, n)
      BY <1>1, <1>2, <2>1, HeadTailOfSubSeq
    <2>4. QED
      BY <2>1, <2>2, <2>3
  <1>7. i < n => ops[i + 1] = [sql |-> r.sql, params |-> r.params[i + 1]]
    BY <1>1, <1>2, <1>3
  <1>8. QED
    BY <1>4, <1>5, <1>6, <1>7 DEF n, ops

\* What an operation of Service does is what an iteration does.
LEMMA OpEffectIs ==
    ASSUME NEW b, Chained(b), NEW sql, NEW ps \in Seq(Param)
    PROVE  OpEffect(b, [sql |-> sql, params |-> ps]) = Effect(b, sql, Row(ps))
  <1> DEFINE x == Row(ps)
             r == [sql |-> sql, params |-> <<ps>>]
             rows == b.work \o [i \in 1..1 |-> Row(r.params[i])]
  <1>1. x \in AnyRow
    BY DEF AnyRow
  <1>2. [i \in 1..1 |-> Row(r.params[i])] = <<x>>
    <2>1. r.params[1] = ps
      OBVIOUS
    <2> HIDE DEF r
    <2>2. \A i \in 1..1 : Row(r.params[i]) = x
      BY <2>1
    <2>3. [i \in 1..1 |-> Row(r.params[i])] = [i \in 1..1 |-> x]
      BY <2>2
    <2> HIDE DEF x
    <2>4. QED
      BY <2>3
  <1>3. b.work \in Seq(AnyRow)
    BY DEF Chained, Data
  <1> HIDE DEF x
  <1>4. rows = Append(b.work, x)
    BY <1>1, <1>2, <1>3
  <1>5. r.sql = sql /\ OpEffect(b, [sql |-> sql, params |-> ps]) = Applied(b, r, 1)
    BY DEF OpEffect
  <1> HIDE DEF r
  <1>6. Applied(b, r, 1)
          = CASE sql \in {"insert", "returning"} ->
                   [b EXCEPT !.work = rows, !.disk = IF b.auto THEN rows ELSE b.disk]
              [] sql = "begin" -> [b EXCEPT !.auto = FALSE]
              [] sql = "commit" -> [b EXCEPT !.disk = b.work, !.auto = TRUE]
              [] sql = "rollback" -> [b EXCEPT !.work = b.disk, !.auto = TRUE]
              [] OTHER -> b
    BY <1>5 DEF Applied
  <1> HIDE DEF rows
  <1>7. Effect(b, sql, x) = Applied(b, r, 1)
    BY <1>4, <1>6 DEF Effect
  <1>8. QED
    BY <1>5, <1>7 DEF x

\* Without the row that has been inserted last.
LEMMA InsertedIs ==
    ASSUME NEW b, Chained(b), NEW x
    PROVE  [Inserted(b, x) EXCEPT !.work = Front(@)] = b /\ Inserted(b, x).disk = b.disk
  <1> DEFINE w == b.work
             v == Inserted(b, x)
  <1>1. b \in Data /\ w \in Seq(AnyRow)
    BY DEF Chained, Data
  <1>2. v.work = Append(w, x) /\ v.disk = b.disk
    BY <1>1 DEF Inserted, Data
  <1>3. Front(Append(w, x)) = w
    BY <1>1 DEF Front
  <1>4. v = [b EXCEPT !.work = Append(w, x)]
    BY DEF Inserted
  <1> HIDE DEF v, w
  <1>5. [v EXCEPT !.work = Front(@)] = [v EXCEPT !.work = w]
    BY <1>2, <1>3
  <1>6. [v EXCEPT !.work = w] = b
    BY <1>1, <1>4 DEF Data, w
  <1>7. QED
    BY <1>2, <1>5, <1>6 DEF v

\* The data of Service is that of the connection, but for a row that is pending.
LEMMA DataOfServerIs ==
    ASSUME ServerInv, DataMatches
    PROVE  /\ ~Pending => dataOfServer = View(db)
           /\ Pending => dataOfServer = base /\ pc \in {"step", "mark", "reply"} /\ h.ok
           /\ dataOfServer.disk = db.disk
           /\ Chained(dataOfServer)
  <1>1. ~Pending => dataOfServer = View(db) /\ Chained(View(db))
    BY DEF Pending, dataOfServer, DataMatches
  <1>2. ASSUME Pending
        PROVE  /\ dataOfServer = base /\ base.disk = db.disk
               /\ pc \in {"step", "mark", "reply"} /\ h.ok
    <2> DEFINE x == Row(req.params[1])
               v == View(db)
    <2>1. pc \in {"step", "mark", "reply"} /\ h.ok
      BY <1>2 DEF Pending, ServerInv, RunsOnlyInRows
    <2>2. v = Inserted(base, x)
      BY <1>2, <2>1 DEF DataMatches, Handling, Inserted
    <2>3. [v EXCEPT !.work = Front(@)] = base /\ v.disk = base.disk
      BY <2>2, InsertedIs DEF DataMatches
    <2>4. dataOfServer = [v EXCEPT !.work = Front(@)] /\ v.disk = db.disk
      BY <1>2, ViewIs DEF Pending, dataOfServer
    <2>5. QED
      BY <2>1, <2>3, <2>4
  <1>3. View(db).disk = db.disk /\ Chained(base)
    BY ViewIs DEF DataMatches
  <1>4. QED
    BY <1>1, <1>2, <1>3

\* Most of what a handler reads, and of what it writes, is nothing to Service.
LEMMA StillServing ==
    ASSUME dataOfServer' = dataOfServer, req' = req,
           h'.fc = h.fc, h'.ok <=> h.ok, h'.i = h.i, h'.hasRow <=> h.hasRow,
           pc' = pc \/ (pc \in Handling /\ pc' \in Handling /\ h.fc # "none"),
           pc = "flush" => wbuf' = wbuf
    PROVE  UNCHANGED S!vars
  <1>2. phaseOfServer' = phaseOfServer
    BY DEF phaseOfServer, Down, Handling
  <1>3. restOfTask' = restOfTask
    BY DEF restOfTask, Ops
  <1>4. saidInReply' = saidInReply
    BY DEF saidInReply, Handling
  <1>5. QED
    BY <1>2, <1>3, <1>4 DEF S!vars

\* The end of the server, by exit or by its run loop.
LEMMA StopIs ==
    ASSUME ServerInv, DataMatches, ~Down, Down', db' = sqlite3_close(db), h' = NoRequest
    PROVE  S!Stop
  <1>1. dataOfServer' = RolledBack(dataOfServer)
    <2>1. (db.stmt.vm)' # "run"
      BY OpenIsDb, Nothing DEF sqlite3_close
    <2>2. dataOfServer' = View(db')
      BY <2>1 DEF dataOfServer, View
    <2>3. View(db') \in OnlyData(db.disk, db.disk, TRUE)
      BY DEF sqlite3_close, sqlite3_open, View, OnlyData
    <2>4. RolledBack(dataOfServer) \in OnlyData(db.disk, db.disk, TRUE)
      <3>1. dataOfServer \in OnlyData(dataOfServer.disk, dataOfServer.work, dataOfServer.auto)
        BY DataOfServerIs DEF Chained, Data, OnlyData
      <3>2. QED
        BY <3>1, RolledBackIs, DataOfServerIs
    <2>5. QED
      BY <2>2, <2>3, <2>4, OneData
  <1>2. phaseOfServer # "down" /\ phaseOfServer' = "down"
    BY DEF phaseOfServer
  <1>3. restOfTask' = <<>> /\ saidInReply' = "none" /\ h'.ok
    <2>1. pc' # "flush" /\ h'.fc = "none" /\ h'.ok
      BY Nothing DEF Down
    <2>2. QED
      BY <2>1 DEF restOfTask, saidInReply
  <1>4. QED
    BY <1>1, <1>2, <1>3 DEF S!Stop

\* A handler's step that fails.
LEMMA FailIs ==
    ASSUME pc \in Handling, pc' \in Handling, h.fc # "none", h'.fc = h.fc, h.ok, ~h'.ok,
           dataOfServer' \in {dataOfServer, RolledBack(dataOfServer)}
    PROVE  S!Fail
  <1>1. phaseOfServer = "busy" /\ phaseOfServer' = "busy"
    BY DEF phaseOfServer, Down, Handling
  <1>2. restOfTask' = <<>>
    BY DEF restOfTask
  <1>3. saidInReply' = saidInReply
    BY DEF saidInReply, Handling
  <1>4. QED
    BY <1>1, <1>2, <1>3 DEF S!Fail

\* A handler's step that completes an iteration.
LEMMA ExecuteIs ==
    ASSUME pc \in Handling, pc' \in Handling, h.fc # "none", h'.fc = h.fc, h.ok, h'.ok,
           restOfTask # <<>>, restOfTask' = Tail(restOfTask),
           dataOfServer' = OpEffect(dataOfServer, Head(restOfTask))
    PROVE  S!Execute
  <1>1. phaseOfServer = "busy" /\ phaseOfServer' = "busy"
    BY DEF phaseOfServer, Down, Handling
  <1>2. saidInReply' = saidInReply
    BY DEF saidInReply, Handling
  <1>3. QED
    BY <1>1, <1>2 DEF S!Execute

\* The steps that read the parameters and the columns, and those that write rows.
LEMMA ReadingServes ==
    ASSUME Typed, RequestMatches, UNCHANGED clientVars,
           \/ readNextFrameIfNeeded \/ ReadNiter \/ ReadNparams \/ ReadParamType \/ ReadParamValue
           \/ ReadNcols \/ ReadColtype \/ MarkFrame \/ EndRows
    PROVE  UNCHANGED S!vars
  <1>1. h \in Locals
    BY DEF Typed, TypeOK, Locals
  <1>2. req' = req /\ dataOfServer' = dataOfServer
    <2>1. db' = db /\ req' = req
      BY DEF clientVars, readNextFrameIfNeeded, ReadNiter, ReadNparams, ReadParamType, ReadParamValue,
             ReadNcols, ReadColtype, MarkFrame, EndRows, WriterFlush
    <2>2. QED
      BY <2>1 DEF dataOfServer, View
  <1>3. h'.fc = h.fc /\ h'.ok = h.ok /\ h'.i = h.i /\ h'.hasRow = h.hasRow
    BY <1>1, ResultsKept
  <1>4. pc # "flush" /\ (pc' = pc \/ (pc \in Handling /\ pc' \in Handling))
    <2>1. CASE readNextFrameIfNeeded
      BY <2>1 DEF readNextFrameIfNeeded, Reading, Want
    <2>2. CASE ReadNiter \/ ReadNparams \/ ReadParamType \/ ReadParamValue
      BY <2>2 DEF ReadNiter, ReadNparams, ReadParamType, ReadParamValue, Read, At, NextParam, Handling
    <2>3. CASE ReadNcols \/ ReadColtype
      BY <2>3 DEF ReadNcols, ReadColtype, Read, At, NextColtype, Handling
    <2>4. CASE MarkFrame \/ EndRows
      BY <2>4 DEF MarkFrame, EndRows, WriterFlush, Handling
    <2>5. QED
      BY <2>1, <2>2, <2>3, <2>4
  <1>5. pc \in Handling => h.fc # "none"
    BY InHandler
  <1>6. QED
    BY <1>2, <1>3, <1>4, <1>5, StillServing

\* Nothing is pending while no statement is running.
LEMMA SettledIs ==
    ASSUME db.stmt.vm # "run"
    PROVE  dataOfServer = View(db) /\ ~Pending
  BY DEF dataOfServer, Pending

\* The function code: a request is taken, or the end of the session answered.
LEMMA AppStepServes ==
    ASSUME ServerInv, Typed, RequestMatches, ReplyMatches, AppStep, UNCHANGED clientVars
    PROVE  S!Take \/ S!AnswerQuit
  <1>1. /\ pc = "fc" /\ rbuf # <<>> /\ rbuf' = Tail(rbuf) /\ stdin' = stdin /\ db' = db
        /\ h' = [NoRequest EXCEPT !.fc = Head(rbuf).v]
        /\ IF Head(rbuf).v = "FC_QUIT" THEN pc' = "flush" /\ wbuf' = wbuf \o Status(TRUE, "")
           ELSE pc' = "sql" /\ wbuf' = wbuf
        /\ Head(rbuf).v \in FunctionCodes
    BY DEF AppStep, Read, At, Val
  <1>2. todo' = todo /\ req' = req
    BY DEF clientVars
  <1>3. /\ Head(rbuf) = Tok("byte", req.fc)
        /\ req \in Requests => IsRequest(req)
        /\ req.fc \in {"FC_EXEC", "FC_QUERY"} => req \in Requests
        /\ req.fc \in FunctionCodes \ {"FC_EXEC", "FC_QUERY"} => req = QuitRequest
    BY <1>1, <1>2, HeadOfRequest
  <1>4. Head(rbuf).v = req.fc /\ h'.fc = req.fc /\ h'.ok /\ h'.i = 0 /\ h'.hasRow /\ req.fc \in FunctionCodes
    <2>1. Head(rbuf).v = req.fc
      BY <1>3 DEF Tok
    <2>2. QED
      BY <1>1, <2>1 DEF NoRequest
  <1>5. h.fc = "none" /\ h.ok
    BY <1>1, Nothing DEF ServerInv, BetweenRequests
  <1>6. dataOfServer' = dataOfServer
    BY <1>1 DEF dataOfServer, View
  <1>7. phaseOfServer = "idle" /\ restOfTask = <<>> /\ saidInReply = "none"
    BY <1>1, <1>5 DEF phaseOfServer, Down, restOfTask, saidInReply
  <1>8. CASE req.fc \in {"FC_EXEC", "FC_QUERY"}
    <2>1. pc' = "sql" /\ req \in Requests /\ IsRequest(req)
      BY <1>1, <1>3, <1>4, <1>8
    <2>2. phaseOfServer' = "busy" /\ saidInReply' = "none"
      BY <1>4, <1>8, <2>1 DEF phaseOfServer, Down, saidInReply
    <2>3. restOfTask' = Ops(req)
      <3>1. 0 \in 0..Len(req.params)
        BY <2>1, Parts
      <3>2. SubSeq(Ops(req), 0 + 1, Len(req.params)) = Ops(req)
        BY <2>1, <3>1, RestIs
      <3>3. restOfTask' = IF req.fc = "FC_EXEC" THEN SubSeq(Ops(req), 0 + 1, Len(req.params)) ELSE Ops(req)
        BY <1>2, <1>4, <1>8 DEF restOfTask, Ops
      <3>4. QED
        BY <3>2, <3>3
    <2>4. S!Take
      BY <1>4, <1>5, <1>6, <1>7, <2>1, <2>2, <2>3 DEF S!Take
    <2>5. QED
      BY <2>4
  <1>9. CASE req.fc \notin {"FC_EXEC", "FC_QUERY"}
    <2>1. req.fc = "FC_QUIT" /\ pc' = "flush" /\ wbuf' = wbuf \o Status(TRUE, "")
      BY <1>1, <1>4, <1>9 DEF FunctionCodes
    <2>2. Last(wbuf').k # "string"
      BY <2>1, ReplyOkIs DEF Typed
    <2>3. phaseOfServer' = "answered" /\ restOfTask' = <<>> /\ saidInReply' = "ok"
      BY <1>4, <2>1, <2>2 DEF phaseOfServer, Down, restOfTask, saidInReply
    <2>4. S!AnswerQuit
      BY <1>4, <1>5, <1>6, <1>7, <2>3 DEF S!AnswerQuit
    <2>5. QED
      BY <2>4
  <1>10. QED
    BY <1>8, <1>9

\* Preparing the statement: a failure, or nothing to Service.
LEMMA ReadSqlServes ==
    ASSUME ServerInv, Typed, RequestMatches, StmtMatches, ReadSql, UNCHANGED clientVars
    PROVE  S!Fail \/ UNCHANGED S!vars
  <1>1. db.stmt = NoStmt /\ pc = "sql" /\ db.stmt.vm # "run" /\ IsDb(db)
    BY Nothing DEF ReadSql, At, ServerInv, NoStatementLeft
  <1>2. pc' = IF h.fc = "FC_EXEC" THEN "niter" ELSE "nparams"
    BY <1>1 DEF ReadSql
  <1>3. PICK o \in Db_prepare(db, Val) : db' = o.db /\ h' = [h EXCEPT !.ok = o.ok]
    BY <1>1 DEF ReadSql, Prepare
  <1>4. h \in Locals /\ h.fc # "none" /\ pc \in Handling /\ pc' \in Handling /\ pc # "flush" /\ h.ok
    <2>1. pc \in Handling /\ pc' \in Handling
      BY <1>1, <1>2 DEF Handling
    <2>2. QED
      BY <1>1, <2>1, InHandler DEF StmtMatches
  <1>5. h'.fc = h.fc /\ h'.i = h.i /\ h'.hasRow = h.hasRow /\ h'.ok = o.ok /\ req' = req
    BY <1>3, <1>4 DEF Locals, clientVars
  <1>6. dataOfServer' = dataOfServer
    <2>1. View(db') = View(db) /\ (db.stmt.vm)' # "run"
      BY <1>1, <1>3, PrepareCall
    <2>2. dataOfServer' = View(db')
      BY <2>1 DEF dataOfServer, View
    <2>3. QED
      BY <1>1, <2>1, <2>2, SettledIs
  <1>7. CASE ~o.ok
    BY <1>4, <1>5, <1>6, <1>7, FailIs
  <1>8. CASE o.ok
    BY <1>4, <1>5, <1>6, <1>8, StillServing
  <1>9. QED
    BY <1>7, <1>8

\* What a call that fails leaves is what was there, or the transaction undone.
LEMMA FailedData ==
    ASSUME NEW v, NEW w, FailsTo(v, w)
    PROVE  w \in {v, RolledBack(v)}
  BY DEF FailsTo

\* An iteration of _fcExec: an operation, a failure, or nothing after one.
LEMMA BindExecServes ==
    ASSUME Precautions, ServerInv, Typed, RequestMatches, ParamsIntact, StmtMatches, DataMatches,
           BindExec, UNCHANGED clientVars
    PROVE  S!Execute \/ S!Fail \/ UNCHANGED S!vars
  <1> DEFINE i == h.i + 1
             r == req
             row == Row(r.params[i])
  <1>1. /\ pc = "bind" /\ h.fc = "FC_EXEC" /\ IsDb(db) /\ db.stmt.vm # "run" /\ ~Pending
    BY NothingPending DEF BindExec, ServerInv, RunsOnlyInRows
  <1>2. PICK o \in ExecIteration(h.ok, db, h.params) :
          db' = o.db /\ h' = [h EXCEPT !.ok = o.ok, !.i = @ + 1, !.params = <<>>]
    BY DEF BindExec
  <1>3. req' = req
    BY DEF clientVars
  <1>4. IsRequest(r) /\ h.fc = r.fc /\ h \in Locals /\ r \in Requests
    BY <1>1, InHandler DEF RequestMatches, Handling
  <1>5. pc \in Handling /\ pc' \in Handling /\ pc # "flush"
    BY <1>1 DEF BindExec, NextParam, Handling
  <1>6. h'.fc = h.fc /\ h'.i = i /\ h'.hasRow = h.hasRow /\ h'.ok = o.ok /\ h.ok \in BOOLEAN
    <2> DEFINE none == <<>>
    <2>1. h' = [h EXCEPT !.ok = o.ok, !.i = @ + 1, !.params = none]
      BY <1>2
    <2> HIDE DEF none
    <2>2. QED
      BY <1>4, <2>1 DEF Locals
  <1>7. /\ h.params = r.params[i] /\ h.params \in Seq(Param) /\ Len(h.params) = r.nparams
        /\ r.nparams \in Nat /\ i \in 1..Len(r.params) /\ h.i \in Nat
    BY <1>1, GroupIs
  <1>8. Chained(View(db)) /\ dataOfServer = View(db)
    BY <1>1, SettledIs DEF DataMatches
  <1>9. db.stmt # NoStmt => Prepared(db.stmt, r)
    BY <1>1 DEF StmtMatches, Handling
  <1>10. r.sql # "returning"
    BY <1>1, <1>4 DEF Precautions
  <1>11. CASE ~h.ok
    <2>1. o.ok = FALSE /\ o.db = db
      BY <1>11 DEF ExecIteration, Result
    <2>2. dataOfServer' = dataOfServer
      BY <1>2, <2>1 DEF dataOfServer, View
    <2>3. UNCHANGED S!vars
      <3>1. phaseOfServer' = phaseOfServer
        BY <1>1, <1>5, <1>6 DEF phaseOfServer, Down, Handling
      <3>2. restOfTask' = restOfTask
        BY <1>6, <1>11, <2>1 DEF restOfTask
      <3>3. saidInReply' = saidInReply
        BY <1>5 DEF saidInReply, Handling
      <3>4. QED
        BY <1>6, <1>11, <2>1, <2>2, <3>1, <3>2, <3>3 DEF S!vars
    <2>4. QED
      BY <2>3
  <1>12. CASE h.ok
    <2>1. o \in Db_bind_step_reset(db, r.params[i])
      BY <1>7, <1>12 DEF ExecIteration
    <2>2. /\ o.ok => View(o.db) = Effect(View(db), r.sql, row)
          /\ ~o.ok => FailsTo(View(db), View(o.db))
      BY <1>1, <1>7, <1>8, <1>9, <1>10, <2>1, IterationCall
    <2>3. (db.stmt.vm)' # "run"
      BY <1>1, <1>2, <2>1, BindStepResetCall
    <2>4. dataOfServer' = View(o.db)
      BY <1>2, <2>3 DEF dataOfServer, View
    <2>5. CASE ~o.ok
      <3>1. dataOfServer' \in {dataOfServer, RolledBack(dataOfServer)}
        BY <1>8, <2>2, <2>4, <2>5, FailedData
      <3>2. S!Fail
        BY <1>1, <1>5, <1>6, <1>12, <2>5, <3>1, FailIs
      <3>3. QED
        BY <3>2
    <2>6. CASE o.ok
      <3> DEFINE op == [sql |-> r.sql, params |-> r.params[i]]
                 rest == SubSeq(Ops(r), h.i + 1, Len(r.params))
      <3>1. /\ rest # <<>> /\ Head(rest) = op
            /\ Tail(rest) = SubSeq(Ops(r), h.i + 2, Len(r.params))
        <4>1. h.i \in 0..Len(r.params) /\ h.i < Len(r.params)
          BY <1>4, <1>7, Parts
        <4>2. QED
          BY <1>4, <4>1, RestIs
      <3>2. restOfTask = rest /\ restOfTask' = SubSeq(Ops(r), h.i + 2, Len(r.params))
        <4>1. restOfTask = rest
          BY <1>1, <1>12 DEF restOfTask
        <4>2. restOfTask' = SubSeq(Ops(r), h'.i + 1, Len(r.params))
          BY <1>1, <1>3, <1>6, <2>6 DEF restOfTask, Ops
        <4>3. h'.i + 1 = h.i + 2
          BY <1>6, <1>7
        <4>4. QED
          BY <4>1, <4>2, <4>3
      <3>3. OpEffect(View(db), op) = Effect(View(db), r.sql, row)
        BY <1>7, <1>8, OpEffectIs
      <3> HIDE DEF op, rest, row
      <3>4. S!Execute
        BY <1>1, <1>5, <1>6, <1>8, <1>12, <2>2, <2>4, <2>6, <3>1, <3>2, <3>3, ExecuteIs
      <3>5. QED
        BY <3>4
    <2>7. QED
      BY <2>5, <2>6
  <1>13. QED
    BY <1>6, <1>11, <1>12

\* The parameters of _fcQuery: a failure, or nothing to Service.
LEMMA BindQueryServes ==
    ASSUME ServerInv, Typed, RequestMatches, BindQuery, UNCHANGED clientVars
    PROVE  S!Fail \/ UNCHANGED S!vars
  <1> DEFINE o == IF h.ok THEN Db_bind(db, h.params) ELSE Result(FALSE, db)
  <1>1. /\ pc = "bind" /\ h.fc = "FC_QUERY" /\ IsDb(db) /\ db.stmt.vm # "run"
        /\ pc' = "ncols" /\ db' = o.db /\ h' = [h EXCEPT !.ok = o.ok, !.params = <<>>]
    BY DEF BindQuery, ServerInv, RunsOnlyInRows
  <1>2. /\ View(o.db) = View(db) /\ o.db.stmt.vm = db.stmt.vm
        /\ ~h.ok => ~o.ok
    <2>1. CASE o = Result(FALSE, db)
      BY <2>1 DEF Result
    <2>2. CASE o = bind(db, h.params) /\ h.ok
      BY <1>1, <2>2, BindCall
    <2>3. QED
      BY <2>1, <2>2 DEF Db_bind
  <1> HIDE DEF o
  <1>3. h \in Locals /\ pc \in Handling /\ pc' \in Handling /\ pc # "flush" /\ h.fc # "none" /\ req' = req
    BY <1>1 DEF Typed, TypeOK, Locals, Handling, clientVars
  <1>4. h'.fc = h.fc /\ h'.i = h.i /\ h'.hasRow = h.hasRow /\ h'.ok = o.ok
    <2> DEFINE none == <<>>
    <2>1. h' = [h EXCEPT !.ok = o.ok, !.params = none]
      BY <1>1
    <2> HIDE DEF none
    <2>2. QED
      BY <1>3, <2>1 DEF Locals
  <1>5. dataOfServer' = dataOfServer
    <2>1. dataOfServer = View(db) /\ dataOfServer' = View(o.db)
      BY <1>1, <1>2 DEF dataOfServer, View
    <2>2. QED
      BY <1>2, <2>1
  <1>6. CASE h.ok /\ ~o.ok
    BY <1>3, <1>4, <1>5, <1>6, FailIs
  <1>7. CASE h.ok <=> o.ok
    BY <1>3, <1>4, <1>5, <1>7, StillServing
  <1>8. QED
    BY <1>2, <1>6, <1>7

\* Fetching a row: the operation of a query, a failure, or nothing to Service.
LEMMA FetchRowServes ==
    ASSUME ServerInv, Typed, RequestMatches, StmtMatches, DataMatches,
           FetchRow, ~Abort, UNCHANGED clientVars
    PROVE  S!Execute \/ S!Fail \/ UNCHANGED S!vars
  <1> DEFINE r == req
             x == Row(r.params[1])
  <1>1. pc = "step" /\ h.ok /\ h.hasRow
    BY DEF FetchRow
  <1>2. PICK o \in Db_step_fetch(db, h.coltypes) :
          /\ db' = o.db /\ h' = [h EXCEPT !.ok = o.ok, !.hasRow = o.hasRow]
          /\ pc' = IF o.ok /\ o.hasRow THEN "mark" ELSE "step"
    BY DEF FetchRow
  <1>3. /\ IsRequest(r) /\ h.fc = r.fc /\ r.fc = "FC_QUERY" /\ Len(r.params) = 1
        /\ Chained(base) /\ Applied(base, r, 0) = base
        /\ IF Pending THEN View(db) = Inserted(base, x) ELSE View(db) = base
        /\ o.ok /\ o.hasRow => IF o.db.stmt.vm = "run" /\ o.db.stmt.sql = "returning"
                               THEN View(o.db) = Inserted(base, x) ELSE View(o.db) = base
        /\ o.ok /\ ~o.hasRow => View(o.db) = Applied(base, r, 1) /\ o.db.stmt.vm # "run"
        /\ ~o.ok => FailsTo(base, View(o.db)) /\ o.hasRow /\ o.db.stmt.vm # "run"
    BY <1>1, <1>2, FetchOutcome
  <1>4. o.ok \in BOOLEAN /\ o.hasRow \in BOOLEAN
    BY StepFetchCall DEF ServerInv
  <1>5. h'.fc = h.fc /\ h'.i = h.i /\ h'.ok = o.ok /\ h'.hasRow = o.hasRow /\ req' = req
    BY <1>2 DEF Typed, TypeOK, clientVars
  <1>6. pc \in Handling /\ pc' \in Handling /\ pc # "flush" /\ h.fc # "none"
    BY <1>1, <1>2, <1>3 DEF Handling
  <1>7. dataOfServer = base
    <2>1. CASE Pending
      BY <2>1, DataOfServerIs
    <2>2. CASE ~Pending
      BY <1>3, <2>2, DataOfServerIs
    <2>3. QED
      BY <2>1, <2>2
  <1>8. dataOfServer' = IF o.db.stmt.vm = "run" /\ o.db.stmt.sql = "returning"
                        THEN [View(o.db) EXCEPT !.work = Front(@)] ELSE View(o.db)
    BY <1>2 DEF dataOfServer, View
  <1>9. CASE o.ok /\ o.hasRow
    <2>1. [Inserted(base, x) EXCEPT !.work = Front(@)] = base
      BY <1>3, InsertedIs
    <2> HIDE DEF x
    <2>2. dataOfServer' = base
      BY <1>3, <1>8, <1>9, <2>1
    <2>3. h'.ok <=> h.ok
      BY <1>1, <1>5, <1>9
    <2>4. h'.hasRow <=> h.hasRow
      BY <1>1, <1>5, <1>9
    <2>5. UNCHANGED S!vars
      BY <1>5, <1>6, <1>7, <2>2, <2>3, <2>4, StillServing
    <2>6. QED
      BY <2>5
  <1>10. CASE o.ok /\ ~o.hasRow
    <2> DEFINE op == [sql |-> r.sql, params |-> r.params[1]]
               ops == Ops(r)
    <2>1. /\ 0 \in 0..1 /\ 1 \in 0..1 /\ 1 \in 1..1 /\ 0 + 1 = 1 /\ 1 + 1 = 2 /\ 0 + 2 = 2 /\ 1 - 1 = 0
          /\ 0 < 1
      OBVIOUS
    <2>2. ops # <<>> /\ Head(ops) = op /\ Tail(ops) = SubSeq(ops, 2, 1)
      <3>1. SubSeq(ops, 1, 1) = ops
        BY <1>3, <2>1, RestIs
      <3>2. SubSeq(ops, 1, 1) # <<>> /\ Head(SubSeq(ops, 1, 1)) = op /\ Tail(SubSeq(ops, 1, 1)) = SubSeq(ops, 2, 1)
        BY <1>3, <2>1, RestIs
      <3>3. QED
        BY <3>1, <3>2
    <2>3. SubSeq(ops, 2, 1) = <<>>
      BY <1>3, <2>1, RestIs
    <2>4. restOfTask = ops /\ restOfTask' = <<>>
      BY <1>1, <1>3, <1>5, <1>10 DEF restOfTask
    <2>5. r.params[1] \in Seq(Param)
      BY <1>3 DEF IsRequest, Param
    <2>6. OpEffect(base, op) = Effect(base, r.sql, x)
      BY <1>3, <2>5, OpEffectIs
    <2>7. Applied(base, r, 1) = Effect(base, r.sql, x)
      <3>1. Applied(base, r, 1) = Effect(Applied(base, r, 1 - 1), r.sql, x)
        BY <1>3, <2>1, AppliedIs
      <3> HIDE DEF x
      <3>2. QED
        BY <1>3, <2>1, <3>1
    <2> HIDE DEF op, ops, x
    <2>8. dataOfServer' = OpEffect(base, op)
      BY <1>3, <1>8, <1>10, <2>6, <2>7
    <2>9. S!Execute
      BY <1>1, <1>5, <1>6, <1>7, <1>10, <2>2, <2>3, <2>4, <2>8, ExecuteIs
    <2>10. QED
      BY <2>9
  <1>11. CASE ~o.ok
    <2>1. View(o.db) \in {base, RolledBack(base)}
      BY <1>3, <1>11, FailedData
    <2>2. dataOfServer' \in {dataOfServer, RolledBack(dataOfServer)}
      BY <1>3, <1>7, <1>8, <1>11, <2>1
    <2>3. S!Fail
      BY <1>1, <1>5, <1>6, <1>11, <2>2, FailIs
    <2>4. QED
      BY <2>3
  <1>12. QED
    BY <1>4, <1>9, <1>10, <1>11

\* The end of a handler answers the request.
LEMMA ReplyServes ==
    ASSUME ServerInv, Typed, RequestMatches, StmtMatches, DataMatches, Reply, UNCHANGED clientVars
    PROVE  S!Answer
  <1>1. /\ pc = "reply" /\ pc' = "flush" /\ h' = h /\ db' \in Db_finalize(db)
        /\ wbuf' = wbuf \o Status(h.ok, Db_errmsg(db)) /\ req' = req
    BY DEF Reply, Finalize, clientVars
  <1>2. /\ IsRequest(req) /\ h.fc = req.fc /\ req.fc \in {"FC_EXEC", "FC_QUERY"}
        /\ Located(req, "reply", h) /\ h.ok \in BOOLEAN /\ pc \in Handling
    <2>1. pc \in Handling
      BY <1>1 DEF Handling
    <2>2. QED
      BY <1>1, <2>1, InHandler DEF Locals
  <1>3. ~(h.fc = "FC_QUERY" /\ h.hasRow /\ h.ok)
    BY <1>1, <1>2 DEF StmtMatches
  <1>4. dataOfServer' = dataOfServer
    <2>1. db.stmt.vm # "run"
      BY <1>1, <1>2, <1>3 DEF StmtMatches, ServerInv, RunsOnlyInRows
    <2>2. (db.stmt)' = NoStmt /\ View(db') = View(db)
      BY <1>1, <2>1, FinalizeCall DEF ServerInv
    <2>3. (db.stmt.vm)' # "run"
      BY <2>2, Nothing
    <2>4. dataOfServer' = View(db')
      BY <2>3 DEF dataOfServer, View
    <2>5. QED
      BY <2>1, <2>2, <2>4, SettledIs
  <1>5. restOfTask = <<>>
    <2>1. CASE h.fc = "FC_EXEC" /\ h.ok
      <3>1. h.i = Len(req.params) /\ h.i \in 0..Len(req.params)
        BY <1>2, <2>1, Parts DEF Located
      <3>2. SubSeq(Ops(req), h.i + 1, Len(req.params)) = <<>>
        BY <1>2, <3>1, RestIs
      <3>3. QED
        BY <2>1, <3>2 DEF restOfTask
    <2>2. CASE ~(h.fc = "FC_EXEC" /\ h.ok)
      BY <1>3, <2>2 DEF restOfTask
    <2>3. QED
      BY <2>1, <2>2
  <1>6. restOfTask' = restOfTask
    BY <1>1 DEF restOfTask, Ops
  <1>7. phaseOfServer = "busy" /\ phaseOfServer' = "answered"
    BY <1>1, <1>2 DEF phaseOfServer, Down
  <1>8. saidInReply' = IF ~h.ok THEN "error" ELSE "ok"
    <2>1. Last(wbuf').k = "string" <=> ~h.ok
      BY <1>1, <1>2, ReplyOkIs DEF Typed
    <2>2. QED
      BY <1>1, <2>1 DEF saidInReply
  <1>9. QED
    BY <1>1, <1>4, <1>5, <1>6, <1>7, <1>8 DEF S!Answer

\* The reply leaves.
LEMMA AppFlushServes ==
    ASSUME ServerInv, Typed, RequestMatches, StmtMatches, AppFlush, UNCHANGED clientVars
    PROVE  S!Deliver
  <1>1. /\ pc = "flush" /\ pc' \in {"quit", "fc"} /\ h' = NoRequest /\ db' = db
    BY DEF AppFlush, WriterFlush
  <1>2. Located(req, "flush", h) /\ h.fc = req.fc /\ req \in Requests \cup {QuitRequest}
    BY <1>1 DEF RequestMatches, Located
  <1>3. dataOfServer' = dataOfServer
    BY <1>1 DEF dataOfServer, View
  <1>4. restOfTask = <<>>
    <2>1. CASE h.fc = "FC_EXEC" /\ h.ok
      <3>1. IsRequest(req)
        BY <1>2, <2>1, QuitIs, RequestsAssumption
      <3>2. h.i = Len(req.params) /\ h.i \in 0..Len(req.params)
        BY <1>2, <2>1, <3>1, Parts DEF Located
      <3>3. SubSeq(Ops(req), h.i + 1, Len(req.params)) = <<>>
        BY <3>1, <3>2, RestIs
      <3>4. QED
        BY <2>1, <3>3 DEF restOfTask
    <2>2. CASE h.fc = "FC_QUERY" /\ h.ok /\ h.hasRow
      BY <1>1, <1>2, <2>2 DEF StmtMatches
    <2>3. CASE ~(h.fc = "FC_EXEC" /\ h.ok) /\ ~(h.fc = "FC_QUERY" /\ h.ok /\ h.hasRow)
      BY <2>3 DEF restOfTask
    <2>4. QED
      BY <2>1, <2>2, <2>3
  <1>5. /\ phaseOfServer = "answered" /\ phaseOfServer' = "idle" /\ saidInReply' = "none"
        /\ restOfTask' = <<>> /\ h'.ok
    BY <1>1, Nothing DEF phaseOfServer, Down, saidInReply, restOfTask
  <1>6. QED
    BY <1>3, <1>4, <1>5 DEF S!Deliver

\* The server ends by an ASSERT or exit, or by its run loop.
LEMMA EndServes ==
    ASSUME ServerInv, DataMatches, ~Down, Abort \/ Shutdown
    PROVE  S!Stop
  <1>1. Down' /\ db' = sqlite3_close(db)
    BY DEF Abort, Shutdown, Db_free, Down
  <1>2. h' = NoRequest
    BY DEF Abort, Shutdown, ServerInv, BetweenRequests
  <1>3. QED
    BY <1>1, <1>2, StopIs

\* Every step of the server.
LEMMA ServerServes ==
    ASSUME Precautions, ExchangeInv, ParamsIntact, StmtMatches, DataMatches, Server
    PROVE  [S!Next]_S!vars
  <1>1. /\ ServerInv /\ Typed /\ RequestMatches /\ ReplyMatches
        /\ AppNext /\ UNCHANGED clientVars
    BY DEF ExchangeInv, Server
  <1>2. CASE ~Down /\ (Abort \/ Shutdown)
    BY <1>1, <1>2, EndServes DEF S!Next
  <1>3. CASE EndOfInput \/ ShortFrame \/ BrokenPipe \/ InvalidByte \/ BadCount \/ Shutdown
    <2>1. ~Down /\ (Abort \/ Shutdown)
      BY <1>3 DEF EndOfInput, ShortFrame, BrokenPipe, InvalidByte, BadCount, Shutdown,
                  Reading, Want, FlushDue, At, Down
    <2>2. QED
      BY <1>2, <2>1
  <1>4. CASE \/ readNextFrameIfNeeded \/ ReadNiter \/ ReadNparams \/ ReadParamType \/ ReadParamValue
             \/ ReadNcols \/ ReadColtype \/ MarkFrame \/ EndRows
    BY <1>1, <1>4, ReadingServes
  <1>5. CASE AppStep
    BY <1>1, <1>5, AppStepServes DEF S!Next
  <1>6. CASE AppFlush
    BY <1>1, <1>6, AppFlushServes DEF S!Next
  <1>7. CASE ReadSql
    BY <1>1, <1>7, ReadSqlServes DEF S!Next
  <1>8. CASE BindExec
    BY <1>1, <1>8, BindExecServes DEF S!Next
  <1>9. CASE BindQuery
    BY <1>1, <1>9, BindQueryServes DEF S!Next
  <1>10. CASE FetchRow
    <2>1. ~Down
      BY <1>10 DEF FetchRow, Down
    <2>2. CASE ~Abort
      BY <1>1, <1>10, <2>2, FetchRowServes DEF S!Next
    <2>3. QED
      BY <1>2, <2>1, <2>2
  <1>11. CASE Reply
    BY <1>1, <1>11, ReplyServes DEF S!Next
  <1>12. QED
    BY <1>1, <1>3, <1>4, <1>5, <1>6, <1>7, <1>8, <1>9, <1>10, <1>11 DEF AppNext

\* Nothing that the client does on its own is anything to Service.
LEMMA ClientServes ==
    ASSUME ServerInv, ClientMatches, Send \/ SendQuit \/ WriteFrame \/ ReadFrame \/ Lose \/ Die \/ UNCHANGED vars
    PROVE  UNCHANGED S!vars
  <1>1. db' = db /\ pc' = pc /\ h' = h /\ wbuf' = wbuf
    BY DEF Send, SendQuit, Start, WriteFrame, ReadFrame, Lose, Die, vars, appVars, serverVars
  <1>2. req' = req \/ h.fc = "none"
    <2>1. CASE Send \/ SendQuit
      BY <2>1, Nothing DEF Send, SendQuit, ClientMatches, Waiting, ServerInv, BetweenRequests
    <2>2. CASE WriteFrame \/ ReadFrame \/ Lose \/ Die \/ UNCHANGED vars
      BY <2>2 DEF WriteFrame, ReadFrame, Lose, Die, vars, clientVars
    <2>3. QED
      BY <2>1, <2>2
  <1>3. dataOfServer' = dataOfServer /\ phaseOfServer' = phaseOfServer /\ saidInReply' = saidInReply
    BY <1>1 DEF dataOfServer, View, phaseOfServer, Down, saidInReply
  <1>4. restOfTask' = restOfTask
    BY <1>1, <1>2 DEF restOfTask, Ops
  <1>5. QED
    BY <1>1, <1>3, <1>4 DEF S!vars

\* A new session goes on with what is on disk, which is all that is left.
LEMMA NewSessionServes ==
    ASSUME ServerInv, DataMatches, NewSession
    PROVE  S!Restart
  <1>1. Down /\ db' = sqlite3_open(db.disk) /\ pc' = "fc" /\ h' = NoRequest
    BY DEF NewSession, Over
  <1>2. h = NoRequest /\ db.stmt.vm # "run"
    BY <1>1, Nothing DEF ServerInv, BetweenRequests, NoStatementLeft, Down
  <1>3. dataOfServer' = dataOfServer
    <2>1. db.work = db.disk /\ db.auto = TRUE
      BY <1>1 DEF DataMatches, ServerInv, IsDb
    <2>2. View(db) \in OnlyData(db.disk, db.disk, TRUE) /\ dataOfServer = View(db)
      BY <1>2, <2>1, ViewIs, SettledIs
    <2>3. View(db') \in OnlyData(db.disk, db.disk, TRUE) /\ (db.stmt.vm)' # "run"
      BY <1>1, Nothing DEF sqlite3_open, View, OnlyData
    <2>4. dataOfServer' = View(db')
      BY <2>3 DEF dataOfServer, View
    <2>5. QED
      BY <2>2, <2>3, <2>4, OneData
  <1>4. phaseOfServer = "down" /\ phaseOfServer' = "idle"
    BY <1>1, Nothing DEF phaseOfServer, Down
  <1>5. restOfTask = <<>> /\ restOfTask' = <<>> /\ saidInReply = "none" /\ saidInReply' = "none"
    BY <1>1, <1>2, Nothing DEF restOfTask, saidInReply, Down
  <1>6. QED
    BY <1>1, <1>2, <1>3, <1>4, <1>5 DEF S!Restart

\* Service starts as the server does.
LEMMA InitServes == Init => S!Init
  <1>1. ASSUME Init PROVE db = sqlite3_open(<<>>) /\ pc = "fc" /\ h = NoRequest
    BY <1>1 DEF Init, AppInit
  <1>2. ASSUME Init PROVE S!Init
    <2>1. sqlite3_open(<<>>).stmt = NoStmt
      BY DEF sqlite3_open
    <2>2. dataOfServer = View(sqlite3_open(<<>>))
      BY <1>1, <1>2, <2>1, Nothing, SettledIs
    <2>3. phaseOfServer = "idle" /\ restOfTask = <<>> /\ saidInReply = "none" /\ h.ok
      BY <1>1, <1>2, Nothing DEF phaseOfServer, Down, restOfTask, saidInReply
    <2>4. QED
      BY <2>2, <2>3 DEF S!Init
  <1>3. QED
    BY <1>2

\* Sqinn implements Service: seen through the refinement mapping, a step of server
\* or client executes the next operation of the request's task, records a failure
\* after which none is executed, gives the answer that tells which, ends the
\* server and with it what is not committed, or changes nothing.
THEOREM SqinnImplementsService == ASSUME Precautions PROVE Spec => ImplementsService
  <1>1. Init => S!Init
    BY InitServes
  <1>2. ASSUME ExchangeInv, DataInv, [Next]_vars
        PROVE  [S!Next]_S!vars
    <2>1. ServerInv /\ ClientMatches /\ ParamsIntact /\ StmtMatches /\ DataMatches
      BY <1>2 DEF ExchangeInv, DataInv
    <2>2. CASE Server
      BY <1>2, <2>1, <2>2, ServerServes
    <2>3. CASE Send \/ SendQuit \/ WriteFrame \/ ReadFrame \/ Lose \/ Die \/ Terminated \/ UNCHANGED vars
      BY <2>1, <2>3, ClientServes DEF Terminated
    <2>4. CASE NewSession
      BY <2>1, <2>4, NewSessionServes DEF S!Next
    <2>5. QED
      BY <1>2, <2>2, <2>3, <2>4 DEF Next
  <1>3. Spec => []ExchangeInv
    BY ExchangeInvariant
  <1>4. Spec => []DataInv
    BY DataInvariant
  <1>5. QED
    BY <1>1, <1>2, <1>3, <1>4, PTL DEF Spec, ImplementsService, S!Spec

-----------------------------------------------------------------------------
(***************************************************************************)
(* The rows of a query.                                                    *)
(*                                                                         *)
(* QueryMatches says how far the reply has come, wherever its parts are:   *)
(* it is the first k of the rows that the query has to deliver, and then   *)
(* its end; and the statement has still to return the others.              *)
(***************************************************************************)

\* What has been written of the answer to a request.
Answer == got \o FlattenSeq(stdout) \o wbuf

\* s is the first k of the rows v, which are w columns wide.
RowsAre(w, s, k, v) ==
    /\ IsSeq(s) /\ RowsIn(w, s, k) /\ Len(s) = k * (w + 1) /\ k <= Len(v)
    /\ \A q \in 0..(k - 1) : \A i \in 1..w : s[q * (w + 1) + 1 + i].v = v[q + 1][i]

\* The rows that the query has to deliver are there from the k-th on.
ToCome(k) ==
    LET rows == Matching(base, req)
    IN h.ok => IF ~h.hasRow THEN k = Len(rows)
               ELSE IF db.stmt.vm # "run" THEN k = 0
               ELSE db.stmt.todo # <<>> /\ Tail(db.stmt.todo) = SubSeq(rows, k + 1, Len(rows))

\* The answer is k rows, and then t.
Says(k, t) ==
    \E s : RowsAre(Len(req.coltypes), s, k, Selected(base, req)) /\ Answer = s \o t

EndMark == Tok("byte", FALSE)

QueryMatches ==
    req.fc = "FC_QUERY" =>
      /\ pc \in {"step", "mark"} => \E k \in Nat : Says(k, <<>>) /\ ToCome(k)
      /\ pc = "reply" => \E k \in Nat : Says(k, <<EndMark>>) /\ (h.ok => k = Len(Selected(base, req)))
      /\ pc = "flush" \/ Waiting => \E k \in Nat, ok \in BOOLEAN : \E errmsg :
           /\ Says(k, <<EndMark>> \o Status(ok, errmsg))
           /\ ok => k = Len(Selected(base, req))

-----------------------------------------------------------------------------
\* Rows.

\* No rows, followed by anything.
LEMMA NoRows ==
    ASSUME NEW w \in Nat, NEW v, Len(v) \in Nat
    PROVE  RowsAre(w, <<>>, 0, v)
  <1> DEFINE s == <<>>
  <1>1. s \in Seq({}) /\ Len(s) = 0
    OBVIOUS
  <1>2. IsSeq(s)
    BY <1>1, SeqIsSeq
  <1> HIDE DEF s
  <1>3. RowsIn(w, s, 0) /\ Len(s) = 0 * (w + 1)
    BY <1>1 DEF RowsIn
  <1>4. RowsAre(w, s, 0, v)
    BY <1>2, <1>3 DEF RowsAre
  <1>5. QED
    BY <1>4 DEF s

\* One more of the rows.
LEMMA OneRowMore ==
    ASSUME NEW w \in Nat, NEW v, Len(v) \in Nat, NEW s, NEW k \in Nat, RowsAre(w, s, k, v), k < Len(v),
           NEW x, DOMAIN x = 1..w, \A i \in 1..w : x[i] = v[k + 1][i]
    PROVE  RowsAre(w, s \o EncodeRow(x), k + 1, v)
  <1> DEFINE c == EncodeRow(x)
             z == w + 1
             t == s \o c
  <1>1. IsSeq(c) /\ Len(c) = z /\ RowsIn(w, c, 1) /\ \A i \in 1..w : c[1 + i].v = x[i]
    BY EncodedRow
  <1>2. /\ IsSeq(s) /\ RowsIn(w, s, k) /\ Len(s) = k * z
        /\ \A q \in 0..(k - 1) : \A i \in 1..w : s[q * z + 1 + i].v = v[q + 1][i]
    BY DEF RowsAre
  <1> HIDE DEF c
  <1>3. PICK T : s \in Seq(T) /\ c \in Seq(T)
    BY <1>1, <1>2, CommonSet
  <1>4. IsSeq(t) /\ RowsIn(w, t, k + 1)
    BY <1>1, <1>2, <1>3, ConcatIsSeq, RowsConcat
  <1>5. /\ Len(t) = Len(s) + Len(c)
        /\ \A i \in 1..Len(s) + Len(c) : t[i] = IF i <= Len(s) THEN s[i] ELSE c[i - Len(s)]
    BY <1>3, ConcatProperties
  <1>6. z \in Nat \ {0} /\ w < z /\ Len(s) \in Nat
    BY <1>3
  <1> HIDE DEF z, t
  <1>7. Len(t) = (k + 1) * z
    <2>1. (k + 1) * z = k * z + 1 * z
      BY <1>6, Below
    <2>2. 1 * z = z
      BY <1>6
    <2>3. QED
      BY <1>1, <1>2, <1>5, <2>1, <2>2
  <1>8. ASSUME NEW q \in 0..k, NEW i \in 1..w PROVE t[q * z + 1 + i].v = v[q + 1][i]
    <2>1. CASE q < k
      <3>1. q * z \in Nat /\ q * z + z <= Len(s)
        BY <1>2, <1>6, <2>1, Below
      <3> DEFINE p == q * z + 1 + i
      <3>2. p \in 1..Len(s) + Len(c) /\ p <= Len(s)
        BY <1>1, <1>6, <3>1
      <3>3. t[p] = s[p]
        <4> HIDE DEF p
        <4>1. QED
          BY <1>5, <3>2
      <3>4. q \in 0..(k - 1)
        BY <2>1
      <3>5. QED
        BY <1>2, <3>3, <3>4
    <2>2. CASE q = k
      <3> DEFINE p == k * z + 1 + i
      <3>1. p \in 1..Len(s) + Len(c) /\ ~(p <= Len(s)) /\ p - Len(s) = 1 + i
        BY <1>1, <1>2, <1>6
      <3>2. t[p] = c[1 + i]
        <4> HIDE DEF p
        <4>1. QED
          BY <1>5, <3>1
      <3>3. c[1 + i].v = v[k + 1][i]
        BY <1>1
      <3>4. QED
        BY <2>2, <3>2, <3>3
    <2>3. QED
      BY <2>1, <2>2
  <1>9. RowsAre(w, t, k + 1, v)
    <2>1. (k + 1) - 1 = k /\ k + 1 <= Len(v) /\ w + 1 = z
      BY DEF z
    <2>2. QED
      BY <1>4, <1>7, <1>8, <2>1 DEF RowsAre
  <1>10. QED
    BY <1>9 DEF t, c

\* Everything that is said is made of the same tokens.
LEMMA AnswerSet ==
    ASSUME Typed
    PROVE  \E T : got \in Seq(T) /\ wbuf \in Seq(T) /\ stdout \in Seq(Seq(T))
  <1> DEFINE G == {got[i] : i \in DOMAIN got}
             B == {wbuf[i] : i \in DOMAIN wbuf}
             F(j) == {stdout[j][i] : i \in DOMAIN stdout[j]}
             O == UNION {F(j) : j \in DOMAIN stdout}
             T == G \cup B \cup O
  <1>1. got \in Seq(G) /\ wbuf \in Seq(B) /\ IsSeq(stdout) /\ \A j \in DOMAIN stdout : stdout[j] \in Seq(F(j))
    BY DEF Typed, IsSeq
  <1>2. \A j \in DOMAIN stdout : F(j) \subseteq O
    OBVIOUS
  <1> HIDE DEF G, B, F, O
  <1>3. got \in Seq(T) /\ wbuf \in Seq(T)
    BY <1>1
  <1>4. \A j \in DOMAIN stdout : stdout[j] \in Seq(T)
    BY <1>1, <1>2
  <1> HIDE DEF T
  <1>5. stdout \in Seq(Seq(T))
    <2> DEFINE R == {stdout[i] : i \in DOMAIN stdout}
    <2>1. stdout \in Seq(R)
      BY <1>1 DEF IsSeq
    <2>2. R \subseteq Seq(T)
      BY <1>4
    <2> HIDE DEF R
    <2>3. QED
      BY <2>1, <2>2
  <1>6. QED
    BY <1>3, <1>5

\* More is written.
LEMMA AnswerGrows ==
    ASSUME Typed, NEW u, IsSeq(u), got' = got, stdout' = stdout, wbuf' = wbuf \o u
    PROVE  IsSeq(Answer) /\ Answer' = Answer \o u
  <1>1. PICK T : got \in Seq(T) /\ wbuf \in Seq(T) /\ stdout \in Seq(Seq(T))
    BY AnswerSet
  <1> DEFINE U == {u[i] : i \in DOMAIN u}
             V == T \cup U
             f == FlattenSeq(stdout)
             a == got \o f
  <1>2. u \in Seq(U) /\ f \in Seq(T)
    BY <1>1, FlattenType DEF IsSeq
  <1> HIDE DEF U, f
  <1>3. a \in Seq(V) /\ wbuf \in Seq(V) /\ u \in Seq(V)
    BY <1>1, <1>2
  <1> HIDE DEF V, a
  <1>4. (a \o wbuf) \o u = a \o (wbuf \o u) /\ a \o wbuf \in Seq(V)
    <2>1. \A x, y, z \in Seq(V) : (x \o y) \o z = x \o (y \o z)
      BY ONLY ConcatAssociative, SMTT(60)
    <2>2. (a \o wbuf) \o u = a \o (wbuf \o u)
      BY <1>3, <2>1, Zenon
    <2>3. a \o wbuf \in Seq(V)
      BY <1>3, ConcatProperties
    <2>4. QED
      BY <2>2, <2>3
  <1>5. IsSeq(a \o wbuf)
    BY <1>4, SeqIsSeq
  <1>6. Answer = a \o wbuf /\ Answer' = a \o (wbuf \o u)
    BY DEF Answer, a, f
  <1>7. QED
    BY <1>4, <1>5, <1>6

\* What is sent is part of the answer as it was before.
LEMMA AnswerSent ==
    ASSUME Typed, got' = got, stdout' = Append(stdout, wbuf), wbuf' = <<>>
    PROVE  Answer' = Answer
  <1>1. PICK T : got \in Seq(T) /\ wbuf \in Seq(T) /\ stdout \in Seq(Seq(T))
    BY AnswerSet
  <1> DEFINE f == FlattenSeq(stdout)
             g == FlattenSeq(Append(stdout, wbuf))
  <1>2. g = f \o wbuf /\ f \in Seq(T)
    BY <1>1, FlattenType, FlattenAppend
  <1>3. Answer' = got \o g \o <<>> /\ Answer = got \o f \o wbuf
    BY DEF Answer
  <1> HIDE DEF f, g
  <1>4. (got \o f) \o wbuf = got \o (f \o wbuf)
    <2>1. \A x, y, z \in Seq(T) : (x \o y) \o z = x \o (y \o z)
      BY ONLY ConcatAssociative, SMTT(60)
    <2>2. QED
      BY <1>1, <1>2, <2>1, Zenon
  <1>5. got \o g \in Seq(T)
    BY <1>1, <1>2
  <1>6. got \o g \o <<>> = got \o g
    BY <1>5, ConcatEmptySeq
  <1>7. QED
    BY <1>2, <1>3, <1>4, <1>6

\* And so is what is read.
LEMMA AnswerRead ==
    ASSUME Typed, stdout # <<>>, stdout' = Tail(stdout), got' = got \o Head(stdout), wbuf' = wbuf
    PROVE  Answer' = Answer
  <1>1. PICK T : got \in Seq(T) /\ wbuf \in Seq(T) /\ stdout \in Seq(Seq(T))
    BY AnswerSet
  <1> DEFINE f == FlattenSeq(stdout)
             g == FlattenSeq(Tail(stdout))
             x == Head(stdout)
  <1>2. f = x \o g
    BY <1>1, FlattenHeadTail
  <1>3. x \in Seq(T) /\ Tail(stdout) \in Seq(Seq(T))
    BY <1>1
  <1>4. g \in Seq(T)
    BY <1>3, FlattenType
  <1>5. Answer' = (got \o x) \o g \o wbuf /\ Answer = got \o f \o wbuf
    BY DEF Answer
  <1> HIDE DEF f, g, x
  <1>6. (got \o x) \o g = got \o (x \o g)
    <2>1. \A a, b, c \in Seq(T) : (a \o b) \o c = a \o (b \o c)
      BY ConcatAssociative, SMTT(60)
    <2>2. QED
      BY <1>1, <1>3, <1>4, <2>1, Zenon
  <1>7. QED
    BY <1>2, <1>5, <1>6

\* Before the request has been read nothing has been said.
LEMMA NothingSaid ==
    ASSUME got = <<>>, stdout = <<>>, wbuf = <<>>
    PROVE  Answer = <<>>
  <1>1. Answer = <<>> \o <<>> \o <<>>
    BY FlattenEmpty DEF Answer
  <1>2. QED
    BY <1>1

\* When all has been read, it has been said.
LEMMA AllRead ==
    ASSUME Typed, stdout = <<>>, wbuf = <<>>
    PROVE  Answer = got
  <1>1. Answer = got \o <<>> \o <<>>
    BY FlattenEmpty DEF Answer
  <1>2. IsSeq(got)
    BY DEF Typed
  <1>3. PICK T : got \in Seq(T)
    BY <1>2 DEF IsSeq
  <1>4. got \o <<>> = got
    BY <1>3, ConcatEmptySeq
  <1>5. QED
    BY <1>1, <1>4

\* What is said of the rows stays true as the answer goes on.
LEMMA SaysMore ==
    ASSUME Typed, NEW k, NEW t, IsSeq(t), NEW u, IsSeq(u), Says(k, t),
           got' = got, stdout' = stdout, wbuf' = wbuf \o u, base' = base, req' = req
    PROVE  Says(k, t \o u)'
  <1>1. PICK s : RowsAre(Len(req.coltypes), s, k, Selected(base, req)) /\ Answer = s \o t
    BY DEF Says
  <1>2. IsSeq(s) /\ Answer' = Answer \o u
    BY <1>1, AnswerGrows DEF RowsAre
  <1>3. (s \o t) \o u = s \o (t \o u)
    <2> DEFINE A == {s[i] : i \in DOMAIN s}
               B == {t[i] : i \in DOMAIN t}
               C == {u[i] : i \in DOMAIN u}
               D == A \cup B \cup C
    <2>1. s \in Seq(A) /\ t \in Seq(B) /\ u \in Seq(C)
      BY <1>2 DEF IsSeq
    <2> HIDE DEF A, B, C
    <2>2. s \in Seq(D) /\ t \in Seq(D) /\ u \in Seq(D)
      BY <2>1
    <2> HIDE DEF D
    <2>3. QED
      <3>1. \A x, y, z \in Seq(D) : (x \o y) \o z = x \o (y \o z)
        BY ONLY ConcatAssociative, SMTT(60)
      <3>2. QED
        BY <2>2, <3>1, Zenon
  <1>4. Answer' = s \o (t \o u)
    BY <1>1, <1>2, <1>3
  <1>5. RowsAre(Len(req'.coltypes), s, k, Selected(base', req'))
    BY <1>1
  <1>6. QED
    BY <1>4, <1>5 DEF Says

-----------------------------------------------------------------------------
\* Which rows a query returns.

\* The rows with a key are rows.
LEMMA WithKeyType ==
    ASSUME NEW T, NEW rows \in Seq(T), NEW cell
    PROVE  WithKey(cell, rows) \in Seq(T)
  <1> DEFINE one(i) == IF SameKey(<<cell>>, rows[i]) THEN <<rows[i]>> ELSE <<>>
             f == [i \in DOMAIN rows |-> one(i)]
             n == Len(rows)
  <1>1. n \in Nat /\ DOMAIN rows = 1..n /\ \A i \in 1..n : rows[i] \in T
    OBVIOUS
  <1>2. ASSUME NEW i \in 1..n PROVE one(i) \in Seq(T)
    <2>1. <<>> \in Seq(T) /\ <<rows[i]>> \in Seq(T)
      BY <1>1
    <2>2. QED
      BY <2>1
  <1> HIDE DEF one, n
  <1>3. f = [i \in 1..n |-> f[i]] /\ \A i \in 1..n : f[i] \in Seq(T)
    BY <1>1, <1>2
  <1>4. WithKey(cell, rows) = FlattenSeq(f)
    BY DEF WithKey, one
  <1> HIDE DEF f
  <1>5. f \in Seq(Seq(T))
    BY <1>1, <1>3, SeqIntro
  <1>6. QED
    BY <1>4, <1>5, FlattenType

\* The rows that a query has to deliver, and what it delivers of them.
LEMMA MatchingIs ==
    ASSUME NEW b, Chained(b), NEW r, IsRequest(r), Len(r.params) = 1
    PROVE  /\ Matching(b, r) \in Seq(AnyRow) /\ Len(Matching(b, r)) \in Nat
           /\ Selected(b, r) \in Seq({Selected(b, r)[i] : i \in DOMAIN Selected(b, r)})
           /\ Len(Selected(b, r)) = Len(Matching(b, r))
  <1> DEFINE row == Row(r.params[1])
             m == Matching(b, r)
             v == Selected(b, r)
             value(i) == [c \in DOMAIN r.coltypes |->
                            Column(IF c \in 1..2 THEN m[i][c] ELSE NullCell, r.coltypes[c])]
  <1>1. row \in AnyRow
    <2>1. r.params[1] \in Seq(Param)
      BY DEF IsRequest, Param
    <2>2. QED
      BY <2>1 DEF AnyRow
  <1>2. b.work \in Seq(AnyRow)
    BY DEF Chained, Data
  <1> HIDE DEF row
  <1>3. WithKey(row[1], b.work) \in Seq(AnyRow) /\ <<row>> \in Seq(AnyRow) /\ <<>> \in Seq(AnyRow)
    BY <1>1, <1>2, WithKeyType
  <1>4. m \in Seq(AnyRow)
    BY <1>2, <1>3 DEF Matching, row
  <1>5. v = [i \in DOMAIN m |-> value(i)]
    BY DEF Selected
  <1> HIDE DEF m, value, v
  <1>6. DOMAIN m = 1..Len(m) /\ Len(m) \in Nat
    BY <1>4
  <1> DEFINE n == Len(m)
             R == {v[i] : i \in DOMAIN v}
  <1> HIDE DEF n
  <1>7. v = [i \in 1..n |-> v[i]] /\ n \in Nat /\ DOMAIN v = 1..n /\ \A i \in 1..n : v[i] = value(i)
    BY <1>5, <1>6 DEF n
  <1>8. \A i \in 1..n : v[i] \in R
    BY <1>7
  <1>9. v \in Seq(R) /\ Len(v) = n
    <2> HIDE DEF R
    <2>1. QED
      BY <1>7, <1>8, SeqIntro
  <1>10. QED
    BY <1>4, <1>6, <1>7, <1>9 DEF n, m, v, value

\* Each of them is delivered in the wanted columns.
LEMMA SelectedIs ==
    ASSUME NEW b, Chained(b), NEW r, IsRequest(r), Len(r.params) = 1,
           NEW i \in 1..Len(Matching(b, r))
    PROVE  Selected(b, r)[i] = [c \in DOMAIN r.coltypes |->
             Column(IF c \in 1..2 THEN Matching(b, r)[i][c] ELSE NullCell, r.coltypes[c])]
  <1> DEFINE m == Matching(b, r)
             value(x) == [c \in DOMAIN r.coltypes |->
                            Column(IF c \in 1..2 THEN x[c] ELSE NullCell, r.coltypes[c])]
  <1>1. m \in Seq(AnyRow)
    BY MatchingIs
  <1>2. Selected(b, r) = [j \in DOMAIN m |-> value(m[j])]
    BY DEF Selected
  <1>3. i \in 1..Len(m)
    OBVIOUS
  <1> HIDE DEF m, value
  <1>4. i \in DOMAIN m
    BY <1>1, <1>3
  <1>5. Selected(b, r)[i] = value(m[i])
    BY <1>2, <1>4
  <1>6. QED
    BY <1>5 DEF m, value

\* The rows that the statement of the connection d returns when it is executed.
RowsOfStmt(d) ==
    CASE d.stmt.sql = "select" -> d.work
      [] d.stmt.sql = "find" -> WithKey(d.stmt.vars[1], d.work)
      [] d.stmt.sql = "returning" -> <<d.stmt.vars>>
      [] OTHER -> <<>>

\* The first step of a statement returns the first of them.
LEMMA ExecutedRows ==
    ASSUME NEW d, IsDb(d), d.stmt.sql \in Statements \ {"garbage", "empty"}, NEW o \in Execute(d)
    PROVE  /\ o.rc = "row" => RowsOfStmt(d) # <<>> /\ o.db.stmt.todo = RowsOfStmt(d)
           /\ o.rc = "done" => RowsOfStmt(d) = <<>>
  <1> DEFINE sql == d.stmt.sql
             rows == RowsOfStmt(d)
  <1>1. CASE sql \in {"begin", "commit", "rollback"}
    <2>1. o.rc # "row"
      BY <1>1 DEF Execute, Ret
    <2>2. QED
      BY <1>1, <2>1 DEF RowsOfStmt
  <1>2. CASE sql = "insert"
    <2>1. o.rc # "row"
      BY <1>2 DEF Execute, Write, Ret
    <2>2. QED
      BY <1>2, <2>1 DEF RowsOfStmt
  <1>3. CASE sql = "returning"
    <2> DEFINE w == Append(d.work, d.stmt.vars)
               e == [d EXCEPT !.work = w, !.stmt.todo = rows]
    <2>1. rows = <<d.stmt.vars>>
      BY <1>3 DEF RowsOfStmt
    <2>2. o = Ret("constraint", d) \/ o = Ret("row", e)
      BY <1>3, <2>1 DEF Execute, Write
    <2>3. rows # <<>>
      BY <2>1
    <2> HIDE DEF rows, w
    <2>4. e.stmt.todo = rows
      BY DEF IsDb, IsStmt
    <2> HIDE DEF e
    <2>5. QED
      BY <2>2, <2>3, <2>4 DEF Ret, rows
  <1>4. CASE sql \in {"select", "find"}
    <2> DEFINE e == [d EXCEPT !.stmt.todo = rows]
    <2>1. o \in Scan(d, rows)
      BY <1>4 DEF Execute, RowsOfStmt
    <2> HIDE DEF rows
    <2>2. o = Ret(IF rows = <<>> THEN "done" ELSE "row", e)
      BY <2>1 DEF Scan
    <2>3. e.stmt.todo = rows
      BY DEF IsDb, IsStmt
    <2> HIDE DEF e
    <2>4. QED
      BY <2>2, <2>3 DEF Ret, rows
  <1>5. QED
    BY <1>1, <1>2, <1>3, <1>4 DEF Statements

\* A step returns the next row, or has none to return.
LEMMA StepRows ==
    ASSUME NEW d, IsDb(d), d.stmt.sql \in Statements \ {"garbage", "empty"},
           NEW left,
           left = IF d.stmt.vm = "run" THEN Tail(d.stmt.todo) ELSE RowsOfStmt(d),
           NEW s \in step(d)
    PROVE  /\ s.ok /\ s.hasRow => left # <<>> /\ s.db.stmt.todo = left /\ s.db.stmt.vm = "run"
           /\ s.ok /\ ~s.hasRow => left = <<>>
  <1>1. PICK e, G : /\ G \subseteq Faults
                    /\ d.stmt.vm = "run" /\ ~Commits(d) => "busy" \notin G
                    /\ e \in (IF d.stmt.vm = "run" THEN Continue(d) ELSE Execute(d)) \cup Failures(d, G)
                    /\ s.ok <=> e.rc \in {"done", "row"}
                    /\ s.hasRow <=> e.rc = "row"
                    /\ IsDb(s.db) /\ SameStmt(e.db, s.db) /\ View(s.db) = View(e.db)
                    /\ s.db.stmt.vm = "run" <=> e.rc = "row"
                    /\ e.rc = "row" => s.db.stmt.todo = e.db.stmt.todo
    BY StepIs
  <1>2. CASE e \in Failures(d, G)
    <2>1. e.rc \in G
      BY <1>2 DEF Failures, Ret
    <2>2. QED
      BY <1>1, <2>1, FaultsAssumption
  <1>3. CASE d.stmt.vm # "run" /\ e \in Execute(d)
    BY <1>1, <1>3, ExecutedRows
  <1>4. CASE d.stmt.vm = "run" /\ e \in Continue(d)
    <2> DEFINE none == <<>>
               f == [d EXCEPT !.stmt.todo = left]
               g == Committed([d EXCEPT !.stmt.todo = none])
    <2>1. e = IF left # none THEN Ret("row", f) ELSE Ret("done", g)
      BY <1>4 DEF Continue
    <2>2. f.stmt.todo = left
      BY DEF IsDb, IsStmt
    <2> HIDE DEF none, f, g
    <2>3. e.rc = (IF left # none THEN "row" ELSE "done") /\ (left # none => e.db = f)
      BY <2>1 DEF Ret
    <2>4. QED
      BY <1>1, <2>2, <2>3 DEF none
  <1>5. QED
    BY <1>1, <1>2, <1>3, <1>4

\* A query that has not yet been stepped returns the rows it is to deliver.
LEMMA QueryRows ==
    ASSUME Prepared(db.stmt, req), Binds(db.stmt, Row(req.params[1])), db.work = base.work
    PROVE  RowsOfStmt(db) = Matching(base, req)
  <1> DEFINE row == Row(req.params[1])
             x == db.stmt.vars
  <1>1. db.stmt.sql = req.sql /\ req.sql \in Statements
    BY DEF Prepared
  <1>2. NVars("find") >= 1 /\ NVars("returning") = 2 /\ NVars(req.sql) \in Nat
    BY <1>1 DEF NVars, Statements
  <1>3. \A k \in 1..NVars(req.sql) : x[k] = row[k]
    BY <1>1 DEF Binds
  <1>4. CASE req.sql = "find"
    <2>1. x[1] = row[1]
      BY <1>2, <1>3, <1>4
    <2>2. QED
      BY <1>1, <1>4, <2>1 DEF RowsOfStmt, Matching
  <1>5. CASE req.sql = "returning"
    <2>1. x = row
      BY <1>2, <1>5, BoundRow
    <2>2. QED
      BY <1>1, <1>5, <2>1 DEF RowsOfStmt, Matching
  <1>6. CASE req.sql \notin {"find", "returning"}
    BY <1>1, <1>6 DEF RowsOfStmt, Matching
  <1>7. QED
    BY <1>4, <1>5, <1>6

\* What a fetch finds of the rows that are left.
LEMMA FetchedRows ==
    ASSUME ServerInv, Typed, RequestMatches, StmtMatches, DataMatches,
           pc = "step", h.ok, h.hasRow, NEW o \in Db_step_fetch(db, h.coltypes), o.ok,
           NEW left,
           left = IF db.stmt.vm = "run" THEN Tail(db.stmt.todo) ELSE Matching(base, req)
    PROVE  /\ o.hasRow => /\ left # <<>> /\ o.db.stmt.todo = left /\ o.db.stmt.vm = "run"
                          /\ o.values = fetch(o.db, req.coltypes)
           /\ ~o.hasRow => left = <<>>
  <1>1. IsDb(db) /\ h.coltypes = req.coltypes
    BY DEF ServerInv, RequestMatches, Located, Handling
  <1>2. db.stmt # NoStmt
    <2>1. ASSUME db.stmt = NoStmt PROVE o.ok = FALSE
      BY <2>1 DEF Db_step_fetch
    <2>2. QED
      BY <2>1
  <1>3. Prepared(db.stmt, req) /\ Binds(db.stmt, Row(req.params[1]))
    <2>1. req.fc = "FC_QUERY"
      BY FetchOutcome
    <2>2. AllBound /\ pc \in Handling
      BY <2>1 DEF AllBound, Handling
    <2>3. QED
      BY <1>2, <2>2 DEF StmtMatches
  <1>4. left = IF db.stmt.vm = "run" THEN Tail(db.stmt.todo) ELSE RowsOfStmt(db)
    <2>1. CASE db.stmt.vm # "run"
      <3>1. View(db) = base
        <4>1. ~Pending
          BY <2>1 DEF Pending
        <4>2. QED
          BY <4>1, FetchOutcome
      <3>2. db.work = base.work
        BY <3>1 DEF View
      <3>3. QED
        BY <1>3, <2>1, <3>2, QueryRows
    <2>2. QED
      BY <2>1
  <1>5. PICK s \in step(db) :
          o = [ok |-> s.ok, hasRow |-> IF s.ok THEN s.hasRow ELSE TRUE, db |-> s.db,
               values |-> IF s.ok /\ s.hasRow THEN fetch(s.db, h.coltypes) ELSE <<>>]
    BY <1>2 DEF Db_step_fetch
  <1>6. db.stmt.sql \in Statements \ {"garbage", "empty"}
    BY <1>3 DEF Prepared
  <1>7. /\ s.ok /\ s.hasRow => left # <<>> /\ s.db.stmt.todo = left /\ s.db.stmt.vm = "run"
        /\ s.ok /\ ~s.hasRow => left = <<>>
    BY <1>1, <1>4, <1>6, StepRows
  <1>8. /\ o.ok = s.ok /\ o.db = s.db
        /\ o.hasRow = (IF s.ok THEN s.hasRow ELSE TRUE)
        /\ o.values = (IF s.ok /\ s.hasRow THEN fetch(s.db, h.coltypes) ELSE <<>>)
    BY <1>5
  <1>9. QED
    BY <1>1, <1>7, <1>8

\* The values of a row, as far as they can be written, are those selected.
LEMMA FetchedValues ==
    ASSUME NEW b, Chained(b), NEW r, IsRequest(r), Len(r.params) = 1,
           NEW n \in 1..Len(Matching(b, r)), NEW d, Head(d.stmt.todo) = Matching(b, r)[n],
           NEW values, values = fetch(d, r.coltypes), ~Unwritable(values)
    PROVE  /\ DOMAIN values = 1..Len(r.coltypes)
           /\ \A i \in 1..Len(r.coltypes) : values[i] = Selected(b, r)[n][i]
  <1> DEFINE row == Matching(b, r)[n]
             cell(i) == IF i \in 1..2 THEN row[i] ELSE NullCell
             t == r.coltypes
             w == Len(t)
  <1>1. row \in AnyRow
    <2> DEFINE m == Matching(b, r)
    <2>1. m \in Seq(AnyRow)
      BY MatchingIs
    <2> HIDE DEF m
    <2>2. n \in 1..Len(m)
      BY DEF m
    <2>3. m[n] \in AnyRow
      BY <2>1, <2>2
    <2>4. QED
      BY <2>3 DEF m
  <1>2. DOMAIN row = 1..2
    BY <1>1, RowIs DEF AnyRow
  <1>3. DOMAIN t = 1..w
    BY DEF IsRequest
  <1>4. Selected(b, r)[n] = [c \in 1..w |-> Column(cell(c), t[c])]
    <2>1. Selected(b, r)[n] = [c \in DOMAIN r.coltypes |->
            Column(IF c \in 1..2 THEN Matching(b, r)[n][c] ELSE NullCell, r.coltypes[c])]
      BY SelectedIs
    <2>2. Selected(b, r)[n] = [c \in DOMAIN t |-> Column(cell(c), t[c])]
      BY <2>1
    <2>3. QED
      BY <1>3, <2>2
  <1> HIDE DEF row, t, w
  <1>5. values = [i \in 1..w |-> IF cell(i).class = "null" \/ t[i] \in ValueTypes \ {"VT_NULL"}
                                  THEN Column(cell(i), t[i]) ELSE [type |-> t[i], v |-> "invalid"]]
    BY <1>2, <1>3 DEF fetch, row, t
  <1>6. ASSUME NEW i \in 1..w PROVE values[i] = Column(cell(i), t[i])
    <2>1. values[i].v # "invalid"
      BY <1>5 DEF Unwritable
    <2> HIDE DEF cell
    <2>2. QED
      BY <1>5, <2>1
  <1>7. QED
    BY <1>4, <1>5, <1>6 DEF t, w

-----------------------------------------------------------------------------
\* The steps of a query.

\* What follows the first k of some rows.
LEMMA RestOfRows ==
    ASSUME NEW T, NEW rows \in Seq(T), NEW k \in Nat, k <= Len(rows)
    PROVE  LET rest == SubSeq(rows, k + 1, Len(rows))
           IN /\ rest = <<>> <=> k = Len(rows)
              /\ k = 0 => rest = rows
              /\ k < Len(rows) => Head(rest) = rows[k + 1] /\ Tail(rest) = SubSeq(rows, k + 1 + 1, Len(rows))
  <1> DEFINE n == Len(rows)
             m == k + 1
             rest == SubSeq(rows, m, n)
  <1>1. n \in Nat /\ m \in Nat \ {0}
    OBVIOUS
  <1>2. CASE k = n
    <2>1. rest = <<>>
      BY <1>1, <1>2, SubSeqEmpty
    <2>2. k = 0 => rows = <<>>
      BY <1>2, EmptySeq
    <2>3. QED
      BY <1>2, <2>1, <2>2
  <1>3. CASE k < n
    <2>1. Len(rest) = n - k /\ rest \in Seq(T)
      BY <1>1, <1>3
    <2>2. rest # <<>>
      <3> HIDE DEF rest
      <3>1. Len(rest) # 0
        BY <1>1, <1>3, <2>1
      <3>2. QED
        BY <2>1, <3>1, EmptySeq
    <2>3. k = 0 => rest = rows
      OBVIOUS
    <2>4. m \in 1..n /\ n \in m..n
      BY <1>1, <1>3
    <2> HIDE DEF m, n
    <2>5. Head(SubSeq(rows, m, Len(rows))) = rows[m] /\ Tail(SubSeq(rows, m, Len(rows))) = SubSeq(rows, m + 1, Len(rows))
      BY <2>4, HeadTailOfSubSeq DEF n
    <2>6. QED
      BY <1>3, <2>2, <2>3, <2>5 DEF m, n
  <1>4. QED
    BY <1>1, <1>2, <1>3

\* At a fetch, the first k rows have been written and the statement has the others.
LEMMA QueryAt ==
    ASSUME ServerInv, Typed, RequestMatches, StmtMatches, DataMatches, QueryMatches,
           pc = "step", h.ok, h.hasRow, NEW o \in Db_step_fetch(db, h.coltypes)
    PROVE  LET rows == Matching(base, req)
               left == IF db.stmt.vm = "run" THEN Tail(db.stmt.todo) ELSE rows
           IN \E k \in Nat : /\ Says(k, <<>>) /\ k <= Len(rows)
                             /\ left = SubSeq(rows, k + 1, Len(rows))
  <1> DEFINE rows == Matching(base, req)
             n == Len(rows)
             left == IF db.stmt.vm = "run" THEN Tail(db.stmt.todo) ELSE rows
  <1>1. req.fc = "FC_QUERY" /\ Chained(base) /\ IsRequest(req) /\ Len(req.params) = 1
    BY FetchOutcome
  <1>2. rows \in Seq(AnyRow) /\ n \in Nat /\ Len(Selected(base, req)) = n
    BY <1>1, MatchingIs
  <1>3. PICK k \in Nat : Says(k, <<>>) /\ ToCome(k)
    BY <1>1 DEF QueryMatches
  <1>4. k <= n
    BY <1>2, <1>3 DEF Says, RowsAre
  <1>5. IF db.stmt.vm # "run" THEN k = 0
        ELSE db.stmt.todo # <<>> /\ Tail(db.stmt.todo) = SubSeq(rows, k + 1, n)
    BY <1>3 DEF ToCome
  <1>6. left = SubSeq(rows, k + 1, n)
    <2> HIDE DEF rows
    <2>1. k = 0 => SubSeq(rows, k + 1, Len(rows)) = rows
      BY <1>2, <1>4, RestOfRows
    <2>2. QED
      BY <1>5, <2>1
  <1>7. QED
    BY <1>3, <1>4, <1>6

\* After t nothing is left.
LEMMA SaidBefore ==
    ASSUME Typed, NEW k, Says(k, <<>>)
    PROVE  \E s : RowsAre(Len(req.coltypes), s, k, Selected(base, req)) /\ Answer = s
  <1>1. PICK s : RowsAre(Len(req.coltypes), s, k, Selected(base, req)) /\ Answer = s \o <<>>
    BY DEF Says
  <1>2. s \in Seq({s[i] : i \in DOMAIN s})
    BY <1>1 DEF RowsAre, IsSeq
  <1>3. s \o <<>> = s
    BY <1>2, ConcatEmptySeq
  <1>4. QED
    BY <1>1, <1>3

\* And the other way round.
LEMMA SaidAfter ==
    ASSUME NEW k, NEW s, RowsAre(Len(req.coltypes), s, k, Selected(base, req)), Answer = s
    PROVE  Says(k, <<>>)
  <1>1. s \in Seq({s[i] : i \in DOMAIN s})
    BY DEF RowsAre, IsSeq
  <1>2. s \o <<>> = s
    BY <1>1, ConcatEmptySeq
  <1>3. QED
    BY <1>2 DEF Says

\* A row that is fetched is written.
LEMMA RowWritten ==
    ASSUME ServerInv, Typed, RequestMatches, StmtMatches, DataMatches, QueryMatches,
           pc = "step", h.ok, h.hasRow, NEW o \in Db_step_fetch(db, h.coltypes),
           o.ok, o.hasRow, ~Unwritable(o.values),
           db' = o.db, wbuf' = wbuf \o EncodeRow(o.values),
           h'.hasRow = TRUE,
           stdout' = stdout, got' = got, base' = base, req' = req
    PROVE  \E k \in Nat : (Says(k, <<>>) /\ ToCome(k))'
  <1> DEFINE rows == Matching(base, req)
             v == Selected(base, req)
             n == Len(rows)
             w == Len(req.coltypes)
             left == IF db.stmt.vm = "run" THEN Tail(db.stmt.todo) ELSE rows
             c == EncodeRow(o.values)
  <1>1. Chained(base) /\ IsRequest(req) /\ Len(req.params) = 1
    BY FetchOutcome
  <1>2. rows \in Seq(AnyRow) /\ n \in Nat /\ Len(v) = n /\ w \in Nat
    <2>1. rows \in Seq(AnyRow) /\ n \in Nat /\ Len(v) = n
      BY <1>1, MatchingIs
    <2>2. w \in Nat
      BY <1>1 DEF IsRequest
    <2>3. QED
      BY <2>1, <2>2
  <1>3. PICK k \in Nat : Says(k, <<>>) /\ k <= n /\ left = SubSeq(rows, k + 1, n)
    BY QueryAt
  <1>4. /\ left # <<>> /\ o.db.stmt.todo = left /\ o.db.stmt.vm = "run"
        /\ o.values = fetch(o.db, req.coltypes)
    BY FetchedRows
  <1>5. k < n /\ Head(left) = rows[k + 1] /\ Tail(left) = SubSeq(rows, k + 1 + 1, n)
    <2> HIDE DEF rows, left
    <2>1. k # n
      BY <1>2, <1>3, <1>4, RestOfRows
    <2>2. k < n
      BY <1>2, <1>3, <2>1
    <2>3. QED
      BY <1>2, <1>3, <2>2, RestOfRows
  <1>6. DOMAIN o.values = 1..w /\ \A i \in 1..w : o.values[i] = v[k + 1][i]
    <2>1. k + 1 \in 1..n /\ Head(o.db.stmt.todo) = rows[k + 1]
      BY <1>2, <1>4, <1>5
    <2> DEFINE m == k + 1
               values == o.values
    <2>2. values = fetch(o.db, req.coltypes) /\ m \in 1..Len(Matching(base, req))
      BY <1>4, <2>1
    <2> HIDE DEF m, values
    <2>3. /\ DOMAIN values = 1..Len(req.coltypes)
          /\ \A i \in 1..Len(req.coltypes) : values[i] = Selected(base, req)[m][i]
      BY <1>1, <2>1, <2>2, FetchedValues DEF m, values
    <2>4. QED
      BY <2>3 DEF m, values
  <1>7. PICK s : RowsAre(w, s, k, v) /\ Answer = s
    BY <1>3, SaidBefore
  <1>8. RowsAre(w, s \o c, k + 1, v)
    <2> HIDE DEF v, w
    <2>1. QED
      BY <1>2, <1>5, <1>6, <1>7, OneRowMore
  <1>9. Answer' = s \o c
    <2>1. IsSeq(c)
      BY <1>2, <1>6, EncodedRow
    <2>2. QED
      BY <1>7, <2>1, AnswerGrows
  <1>10. Says(k + 1, <<>>)'
    <2>1. RowsAre(Len(req'.coltypes), s \o c, k + 1, Selected(base', req'))
      BY <1>8
    <2> HIDE DEF c
    <2>2. s \o c \in Seq({(s \o c)[i] : i \in DOMAIN (s \o c)})
      BY <2>1 DEF RowsAre, IsSeq
    <2>3. (s \o c) \o <<>> = s \o c
      BY <2>2, ConcatEmptySeq
    <2>4. Answer' = (s \o c) \o <<>>
      BY <1>9, <2>3
    <2>5. QED
      BY <2>1, <2>4 DEF Says
  <1>11. ToCome(k + 1)'
    BY <1>4, <1>5 DEF ToCome
  <1>12. QED
    BY <1>10, <1>11

\* Fetching a row in _fcQuery.
LEMMA FetchRowQuery ==
    ASSUME ServerInv, Typed, RequestMatches, StmtMatches, DataMatches, QueryMatches,
           FetchRow, ~Abort, UNCHANGED clientVars
    PROVE  QueryMatches'
  <1>1. pc = "step" /\ h.ok /\ h.hasRow
    BY DEF FetchRow
  <1>2. PICK o \in Db_step_fetch(db, h.coltypes) :
          /\ ~Unwritable(o.values)
          /\ db' = o.db
          /\ h' = [h EXCEPT !.ok = o.ok, !.hasRow = o.hasRow]
          /\ wbuf' = IF o.ok /\ o.hasRow THEN wbuf \o EncodeRow(o.values) ELSE wbuf
          /\ pc' = IF o.ok /\ o.hasRow THEN "mark" ELSE "step"
          /\ UNCHANGED <<rbuf, stdin, stdout, peer>>
    BY DEF FetchRow
  <1>3. h'.ok = o.ok /\ h'.hasRow = o.hasRow
    BY <1>2 DEF Typed, TypeOK
  <1>4. stdout' = stdout /\ got' = got /\ base' = base /\ req' = req
    BY <1>2 DEF clientVars
  <1>5. \E k \in Nat : (Says(k, <<>>) /\ ToCome(k))'
    <2>1. CASE o.ok /\ o.hasRow
      <3>1. wbuf' = wbuf \o EncodeRow(o.values) /\ h'.hasRow = TRUE
        BY <1>2, <1>3, <2>1
      <3>2. QED
        BY <1>1, <1>2, <1>4, <2>1, <3>1, RowWritten
    <2>2. CASE ~(o.ok /\ o.hasRow)
      <3> DEFINE rows == Matching(base, req)
                 left == IF db.stmt.vm = "run" THEN Tail(db.stmt.todo) ELSE rows
      <3>1. PICK k \in Nat : /\ Says(k, <<>>) /\ k <= Len(rows)
                             /\ left = SubSeq(rows, k + 1, Len(rows))
        BY <1>1, <1>2, QueryAt
      <3>2. o.ok => left = <<>>
        BY <1>1, <1>2, <2>2, FetchedRows
      <3>3. o.ok => k = Len(rows)
        <4>1. rows \in Seq(AnyRow)
          BY <1>1, <1>2, FetchOutcome, MatchingIs
        <4> HIDE DEF rows, left
        <4>2. SubSeq(rows, k + 1, Len(rows)) = <<>> => k = Len(rows)
          BY <3>1, <4>1, RestOfRows
        <4>3. QED
          BY <3>1, <3>2, <4>2
      <3>4. Answer' = Answer
        BY <1>2, <1>4, <2>2 DEF Answer
      <3>5. Says(k, <<>>)'
        BY <1>4, <3>1, <3>4 DEF Says
      <3>6. ToCome(k)'
        BY <1>3, <1>4, <2>2, <3>3 DEF ToCome
      <3>7. QED
        BY <3>5, <3>6
    <2>3. QED
      BY <2>1, <2>2
  <1>6. pc' \in {"mark", "step"} /\ ~Waiting'
    BY <1>2 DEF Waiting
  <1>7. QED
    BY <1>5, <1>6 DEF QueryMatches

\* What has been said stays said.
LEMMA SaysStill ==
    ASSUME NEW k, NEW t, Says(k, t), Answer' = Answer, base' = base, req' = req
    PROVE  Says(k, t)'
  BY DEF Says

\* The end mark is a sequence of tokens.
LEMMA EndMarkIsSeq == IsSeq(<<EndMark>>) /\ IsSeq(<<>>)
  <1> DEFINE e == <<EndMark>>
  <1>1. e \in Seq({EndMark}) /\ <<>> \in Seq({EndMark})
    OBVIOUS
  <1> HIDE DEF e
  <1>2. IsSeq(e) /\ IsSeq(<<>>)
    BY <1>1, SeqIsSeq
  <1>3. QED
    BY <1>2 DEF e

\* The request of a query's handler.
LEMMA QueryIs ==
    ASSUME RequestMatches, DataMatches, pc \in Handling, req.fc = "FC_QUERY"
    PROVE  /\ Matching(base, req) \in Seq(AnyRow) /\ Len(req.coltypes) \in Nat
           /\ Len(Selected(base, req)) = Len(Matching(base, req))
           /\ Len(Selected(base, req)) \in Nat
  <1>1. IsRequest(req) /\ Chained(base)
    BY RequestsAssumption DEF RequestMatches, DataMatches
  <1>2. Len(req.params) = 1 /\ Len(req.coltypes) \in Nat
    BY <1>1 DEF IsRequest
  <1>3. QED
    BY <1>1, <1>2, MatchingIs

\* Reading the last of the columns in _fcQuery: no row has been fetched.
LEMMA ColumnsQuery ==
    ASSUME ServerInv, Typed, RequestMatches, ReplyMatches, StmtMatches, DataMatches,
           ReadNcols \/ ReadColtype, UNCHANGED clientVars
    PROVE  QueryMatches'
  <1>1. /\ pc \in {"ncols", "ctype"} /\ rbuf # <<>> /\ pc' \in {"ctype", "step"}
        /\ db' = db /\ wbuf' = wbuf /\ stdout' = stdout
    BY DEF ReadNcols, ReadColtype, Read, At, NextColtype
  <1>2. h'.ok = h.ok /\ h'.hasRow = h.hasRow
    BY DEF ReadNcols, ReadColtype, Typed, TypeOK
  <1>3. got' = got /\ base' = base /\ req' = req
    BY DEF clientVars
  <1>4. pc \in Handling \ {"step", "reply"} /\ db.stmt.vm # "run"
    BY <1>1 DEF Handling, ServerInv, RunsOnlyInRows
  <1>5. h.hasRow
    BY <1>4 DEF StmtMatches
  <1>6. Stream # <<>>
    BY <1>1, EmptyStream
  <1>7. wbuf = <<>> /\ stdout = <<>> /\ got = <<>>
    BY <1>6 DEF ReplyMatches
  <1>8. Answer = <<>> /\ Answer' = Answer
    BY <1>1, <1>3, <1>7, NothingSaid DEF Answer
  <1>9. req.fc = "FC_QUERY"
    BY <1>1 DEF RequestMatches, Located, Handling
  <1>10. Says(0, <<>>)'
    <2> DEFINE w == Len(req.coltypes)
               v == Selected(base, req)
    <2>1. w \in Nat /\ Len(v) \in Nat
      BY <1>4, <1>9, QueryIs
    <2>2. RowsAre(w, <<>>, 0, v)
      <3> HIDE DEF w, v
      <3>1. QED
        BY <2>1, NoRows
    <2>3. Says(0, <<>>)
      BY <1>8, <2>2, SaidAfter
    <2>4. QED
      BY <1>3, <1>8, <2>3, SaysStill
  <1>11. ToCome(0)'
    BY <1>1, <1>2, <1>4, <1>5 DEF ToCome
  <1>12. pc' \notin {"reply", "flush"} /\ ~Waiting' /\ 0 \in Nat
    BY <1>1 DEF Waiting
  <1>13. QED
    BY <1>10, <1>11, <1>12 DEF QueryMatches

\* Sending a full buffer, or not, between two rows.
LEMMA MarkFrameQuery ==
    ASSUME Typed, QueryMatches, MarkFrame, UNCHANGED clientVars
    PROVE  QueryMatches'
  <1>1. /\ pc = "mark" /\ pc' = "step" /\ db' = db /\ h' = h
        /\ \/ stdout' = Append(stdout, wbuf) /\ wbuf' = <<>>
           \/ stdout' = stdout /\ wbuf' = wbuf
    BY DEF MarkFrame, WriterFlush
  <1>2. got' = got /\ base' = base /\ req' = req
    BY DEF clientVars
  <1>3. Answer' = Answer
    <2>1. CASE stdout' = Append(stdout, wbuf) /\ wbuf' = <<>>
      BY <1>2, <2>1, AnswerSent
    <2>2. CASE stdout' = stdout /\ wbuf' = wbuf
      BY <1>2, <2>2 DEF Answer
    <2>3. QED
      BY <1>1, <2>1, <2>2
  <1>4. ASSUME req.fc = "FC_QUERY" PROVE \E k \in Nat : (Says(k, <<>>) /\ ToCome(k))'
    <2>1. PICK k \in Nat : Says(k, <<>>) /\ ToCome(k)
      BY <1>1, <1>4 DEF QueryMatches
    <2>2. Says(k, <<>>)'
      BY <1>2, <1>3, <2>1, SaysStill
    <2>3. ToCome(k)'
      BY <1>1, <1>2, <2>1 DEF ToCome
    <2>4. QED
      BY <2>2, <2>3
  <1>5. pc' \notin {"reply", "flush"} /\ ~Waiting'
    BY <1>1 DEF Waiting
  <1>6. QED
    BY <1>2, <1>4, <1>5 DEF QueryMatches

\* The end of the rows: all of them, unless a fetch has failed.
LEMMA EndRowsQuery ==
    ASSUME Typed, RequestMatches, DataMatches, QueryMatches, EndRows, UNCHANGED clientVars
    PROVE  QueryMatches'
  <1>1. /\ pc = "step" /\ ~(h.ok /\ h.hasRow) /\ wbuf' = Append(wbuf, EndMark)
        /\ pc' = "reply" /\ h' = h /\ stdout' = stdout
    BY DEF EndRows, EndMark
  <1>2. got' = got /\ base' = base /\ req' = req
    BY DEF clientVars
  <1>3. wbuf' = wbuf \o <<EndMark>>
    <2>1. PICK T : wbuf \in Seq(T)
      BY DEF Typed, IsSeq
    <2>2. QED
      BY <1>1, <2>1, AppendOne
  <1>4. ASSUME req.fc = "FC_QUERY"
        PROVE  \E k \in Nat : (Says(k, <<EndMark>>) /\ (h.ok => k = Len(Selected(base, req))))'
    <2>1. PICK k \in Nat : Says(k, <<>>) /\ ToCome(k)
      BY <1>1, <1>4 DEF QueryMatches
    <2>2. Says(k, <<>> \o <<EndMark>>)'
      BY <1>1, <1>2, <1>3, <2>1, EndMarkIsSeq, SaysMore
    <2>3. <<>> \o <<EndMark>> = <<EndMark>>
      OBVIOUS
    <2>4. h.ok => k = Len(Matching(base, req))
      BY <1>1, <2>1 DEF ToCome
    <2>5. pc \in Handling
      BY <1>1 DEF Handling
    <2>6. Len(Selected(base, req)) = Len(Matching(base, req))
      BY <1>4, <2>5, QueryIs
    <2>7. QED
      BY <1>1, <1>2, <2>2, <2>3, <2>4, <2>6
  <1>5. pc' \notin {"step", "mark", "flush"} /\ ~Waiting'
    BY <1>1 DEF Waiting
  <1>6. QED
    BY <1>2, <1>4, <1>5 DEF QueryMatches

\* The end of the reply says whether these were all.
LEMMA ReplyQuery ==
    ASSUME Typed, QueryMatches, Reply, UNCHANGED clientVars
    PROVE  QueryMatches'
  <1>1. PICK ok, errmsg : ok = h.ok /\ errmsg = Db_errmsg(db)
    OBVIOUS
  <1>2. pc = "reply" /\ pc' = "flush" /\ wbuf' = wbuf \o Status(ok, errmsg) /\ stdout' = stdout
    BY <1>1 DEF Reply
  <1>3. got' = got /\ base' = base /\ req' = req /\ ok \in BOOLEAN
    BY <1>1 DEF clientVars, Typed, TypeOK
  <1>4. ASSUME req.fc = "FC_QUERY"
        PROVE  \E k \in Nat : (Says(k, <<EndMark>> \o Status(ok, errmsg)) /\ (ok => k = Len(Selected(base, req))))'
    <2>1. PICK k \in Nat : Says(k, <<EndMark>>) /\ (ok => k = Len(Selected(base, req)))
      BY <1>1, <1>2, <1>4 DEF QueryMatches
    <2>2. IsSeq(<<EndMark>>) /\ IsSeq(Status(ok, errmsg))
      BY <1>3, EndMarkIsSeq, StatusIs
    <2>3. Says(k, <<EndMark>> \o Status(ok, errmsg))'
      BY <1>2, <1>3, <2>1, <2>2, SaysMore
    <2>4. QED
      BY <1>3, <2>1, <2>3
  <1>5. pc' \notin {"step", "mark", "reply"}
    BY <1>2
  <1>6. QED
    BY <1>3, <1>4, <1>5 DEF QueryMatches

\* The reply leaves, and is read: it says what it said.
LEMMA RepliedQuery ==
    ASSUME Typed, QueryMatches, pc = "flush" \/ Waiting, req' = req, base' = base, Answer' = Answer,
           pc' \notin {"step", "mark", "reply"}
    PROVE  QueryMatches'
  <1>1. ASSUME req.fc = "FC_QUERY"
        PROVE  \E k \in Nat, ok \in BOOLEAN : \E errmsg :
                 (Says(k, <<EndMark>> \o Status(ok, errmsg)) /\ (ok => k = Len(Selected(base, req))))'
    <2> DEFINE P(n, good, m) ==
                 Says(n, <<EndMark>> \o Status(good, m)) /\ (good => n = Len(Selected(base, req)))
    <2>0. PICK k \in Nat, ok \in BOOLEAN : \E errmsg : P(k, ok, errmsg)
      BY <1>1 DEF QueryMatches
    <2>1. PICK errmsg : P(k, ok, errmsg)
      BY <2>0
    <2>2. Says(k, <<EndMark>> \o Status(ok, errmsg)) /\ (ok => k = Len(Selected(base, req)))
      BY <2>1
    <2> HIDE DEF P
    <2>3. Says(k, <<EndMark>> \o Status(ok, errmsg))'
      BY <2>2, SaysStill
    <2>4. QED
      BY <2>2, <2>3
  <1>2. QED
    BY <1>1 DEF QueryMatches

\* Until a query's columns have been read, and once the server has ended, there
\* is nothing to say.
LEMMA NothingToSay ==
    ASSUME req'.fc # "FC_QUERY" \/ (pc' \notin {"step", "mark", "reply", "flush"} /\ ~Waiting')
    PROVE  QueryMatches'
  BY DEF QueryMatches

\* Sending the reply.
LEMMA AppFlushQuery ==
    ASSUME Typed, QueryMatches, AppFlush, UNCHANGED clientVars
    PROVE  QueryMatches'
  <1>1. /\ pc = "flush" /\ pc' \in {"quit", "fc"}
        /\ stdout' = Append(stdout, wbuf) /\ wbuf' = <<>>
    BY DEF AppFlush, WriterFlush
  <1>2. got' = got /\ base' = base /\ req' = req
    BY DEF clientVars
  <1>3. Answer' = Answer
    BY <1>1, <1>2, AnswerSent
  <1>4. QED
    BY <1>1, <1>2, <1>3, RepliedQuery

\* Reading a frame of it.
LEMMA ReadFrameQuery ==
    ASSUME Typed, QueryMatches, ReadFrame
    PROVE  QueryMatches'
  <1>1. /\ stdout # <<>> /\ stdout' = Tail(stdout) /\ got' = got \o Head(stdout)
        /\ db' = db /\ pc' = pc /\ h' = h /\ rbuf' = rbuf /\ wbuf' = wbuf
        /\ stdin' = stdin /\ req' = req /\ todo' = todo /\ base' = base
    BY DEF ReadFrame, serverVars
  <1>2. Answer' = Answer
    BY <1>1, AnswerRead
  <1>3. Waiting' <=> Waiting
    BY <1>1 DEF Waiting, Stream
  <1>4. ASSUME NEW k, NEW t, Says(k, t) PROVE Says(k, t)'
    BY <1>1, <1>2, <1>4, SaysStill
  <1>5. ASSUME NEW k, ToCome(k) PROVE ToCome(k)'
    BY <1>1, <1>5 DEF ToCome
  <1>6. ASSUME req.fc = "FC_QUERY", pc \in {"step", "mark"}
        PROVE  \E k \in Nat : (Says(k, <<>>) /\ ToCome(k))'
    BY <1>4, <1>5, <1>6 DEF QueryMatches
  <1>7. ASSUME req.fc = "FC_QUERY", pc = "reply"
        PROVE  \E k \in Nat : (Says(k, <<EndMark>>) /\ (h.ok => k = Len(Selected(base, req))))'
    BY <1>1, <1>4, <1>7 DEF QueryMatches
  <1>8. CASE pc = "flush" \/ Waiting
    BY <1>1, <1>2, <1>8, RepliedQuery DEF Waiting
  <1>9. CASE ~(pc = "flush" \/ Waiting)
    BY <1>1, <1>3, <1>6, <1>7, <1>9 DEF QueryMatches
  <1>10. QED
    BY <1>8, <1>9

\* Every step of the server.
LEMMA ServerQuery ==
    ASSUME ExchangeInv, ExchangeInv', StmtMatches, DataMatches, QueryMatches, Server
    PROVE  QueryMatches'
  <1>1. /\ ServerInv /\ Typed /\ RequestMatches /\ ClientMatches /\ ReplyMatches
        /\ AppNext /\ UNCHANGED clientVars /\ Typed' /\ RequestMatches'
    BY DEF ExchangeInv, Server
  <1>2. ASSUME Abort PROVE QueryMatches'
    BY <1>2, NothingToSay DEF Abort, Waiting
  <1>3. ASSUME pc' \in {"reply", "flush"}, h'.fc # "FC_QUERY" PROVE QueryMatches'
    <2>1. req'.fc # "FC_QUERY"
      BY <1>1, <1>3 DEF RequestMatches, Located, Handling
    <2>2. QED
      BY <2>1, NothingToSay
  <1>4. CASE EndOfInput \/ ShortFrame \/ BrokenPipe \/ InvalidByte \/ BadCount
    BY <1>2, <1>4 DEF EndOfInput, ShortFrame, BrokenPipe, InvalidByte, BadCount
  <1>5. CASE readNextFrameIfNeeded
    <2>1. /\ pc' = pc /\ rbuf' = Head(stdin) /\ stdin # <<>>
          /\ pc \in {"fc", "sql", "niter", "nparams", "ptype", "pvalue", "ncols", "ctype"}
      BY <1>5 DEF readNextFrameIfNeeded, Reading, Want
    <2>2. Stream # <<>>
      BY <1>1, <2>1, EmptyStream
    <2>3. Stream' # <<>>
      BY <1>1, <1>5, <2>2, FrameStream DEF readNextFrameIfNeeded, clientVars
    <2>4. QED
      BY <2>1, <2>3, NothingToSay DEF Waiting
  <1>6. CASE AppStep
    <2>1. (pc' = "flush" /\ h'.fc = "FC_QUIT") \/ pc' = "sql"
      BY <1>6 DEF AppStep, NoRequest
    <2>2. QED
      BY <1>3, <2>1, NothingToSay DEF Waiting
  <1>7. CASE AppFlush
    BY <1>1, <1>7, AppFlushQuery
  <1>8. CASE Shutdown \/ ReadNiter \/ BindQuery
    BY <1>8, NothingToSay DEF Shutdown, ReadNiter, BindQuery, Waiting
  <1>9. CASE ReadSql
    <2>1. CASE Abort
      BY <1>2, <2>1
    <2>2. CASE pc' \in {"niter", "nparams"}
      BY <2>2, NothingToSay DEF Waiting
    <2>3. QED
      BY <1>9, <2>1, <2>2 DEF ReadSql
  <1>10. CASE ReadNparams \/ ReadParamType \/ ReadParamValue \/ BindExec
    <2>1. pc' \in {"pvalue", NextParam(h')}
      BY <1>10 DEF ReadNparams, ReadParamType, ReadParamValue, BindExec
    <2>2. pc' \in {"pvalue", "bind", "ptype"} \/ (pc' = "reply" /\ h'.fc = "FC_EXEC")
      BY <2>1 DEF NextParam
    <2>3. QED
      BY <1>3, <2>2, NothingToSay DEF Waiting
  <1>11. CASE ReadNcols \/ ReadColtype
    BY <1>1, <1>11, ColumnsQuery
  <1>12. CASE FetchRow
    <2>1. CASE ~Abort
      BY <1>1, <1>12, <2>1, FetchRowQuery
    <2>2. QED
      BY <1>2, <2>1
  <1>13. CASE MarkFrame
    BY <1>1, <1>13, MarkFrameQuery
  <1>14. CASE EndRows
    BY <1>1, <1>14, EndRowsQuery
  <1>15. CASE Reply
    BY <1>1, <1>15, ReplyQuery
  <1>16. QED
    BY <1>1, <1>4, <1>5, <1>6, <1>7, <1>8, <1>9, <1>10, <1>11, <1>12, <1>13, <1>14, <1>15 DEF AppNext

\* Every step of server and client.
LEMMA NextQuery ==
    ASSUME ExchangeInv, ExchangeInv', DataInv, QueryMatches, [Next]_vars
    PROVE  QueryMatches'
  <1>1. /\ Typed /\ RequestMatches /\ ClientMatches /\ Typed' /\ ClientMatches'
        /\ StmtMatches /\ DataMatches
    BY DEF ExchangeInv, DataInv
  <1>2. CASE Server
    BY <1>1, <1>2, ServerQuery
  <1>3. CASE Send \/ SendQuit
    <2>1. st = "idle" /\ st' = "sending" /\ pc' = pc
      BY <1>3 DEF Send, SendQuit, Start, appVars
    <2>2. pc' = "fc"
      BY <1>1, <2>1 DEF ClientMatches, Waiting
    <2>3. Stream' # <<>>
      BY <1>1, <1>3, <2>1, StartStream DEF ClientMatches, Waiting, Send, SendQuit
    <2>4. QED
      BY <2>2, <2>3, NothingToSay DEF Waiting
  <1>4. CASE WriteFrame
    <2>1. st = "sending" /\ pc' = pc
      BY <1>4 DEF WriteFrame, serverVars
    <2>2. todo # <<>>
      BY <1>1, <2>1 DEF ClientMatches
    <2>3. Stream # <<>>
      BY <1>1, <2>2, EmptyStream
    <2>4. pc \notin {"step", "mark", "reply", "flush"}
      BY <1>1, <2>3 DEF RequestMatches, Unread, Handling
    <2>5. Stream' = Stream
      <3>1. PICK k \in 1..Len(todo) :
              stdin' = Append(stdin, SubSeq(todo, 1, k)) /\ todo' = SubSeq(todo, k + 1, Len(todo))
        BY <1>4 DEF WriteFrame
      <3>2. QED
        BY <1>1, <1>4, <3>1, SentStream DEF WriteFrame, serverVars
    <2>6. QED
      BY <2>1, <2>3, <2>4, <2>5, NothingToSay DEF Waiting
  <1>5. CASE ReadFrame
    BY <1>1, <1>5, ReadFrameQuery
  <1>6. CASE Lose \/ Die \/ UNCHANGED vars
    <2>1. /\ UNCHANGED <<db, pc, h, rbuf, wbuf, stdin, stdout>>
          /\ UNCHANGED <<req, todo, got, base>>
      BY <1>6 DEF Lose, Die, vars, appVars, serverVars, clientVars
    <2>2. Answer' = Answer /\ Waiting' = Waiting
      BY <2>1 DEF Answer, Waiting, Stream
    <2>3. \A k, t : Says(k, t)' <=> Says(k, t)
      BY <2>1, <2>2 DEF Says
    <2>4. \A k : ToCome(k)' <=> ToCome(k)
      BY <2>1 DEF ToCome
    <2>5. QED
      BY <2>1, <2>2, <2>3, <2>4 DEF QueryMatches
  <1>7. CASE NewSession
    <2>1. req'.fc = "none"
      BY <1>7 DEF NewSession, NoReq, QuitRequest
    <2>2. QED
      BY <2>1, NothingToSay
  <1>8. QED
    BY <1>2, <1>3, <1>4, <1>5, <1>6, <1>7 DEF Next, Terminated

\* No request has been sent.
LEMMA InitQuery == Init => QueryMatches
  <1>1. ASSUME Init PROVE req.fc = "none"
    BY <1>1 DEF Init, NoReq, QuitRequest
  <1>2. QED
    BY <1>1 DEF QueryMatches

\* At every point of a query the reply, wherever its parts are, is the first of
\* the rows that were there when the query was sent.
LEMMA QueryInvariant == ASSUME Precautions PROVE Spec => []QueryMatches
  <1>1. Init => QueryMatches
    BY InitQuery
  <1>2. ExchangeInv /\ ExchangeInv' /\ DataInv /\ QueryMatches /\ [Next]_vars => QueryMatches'
    BY NextQuery
  <1>3. Spec => []ExchangeInv
    BY ExchangeInvariant
  <1>4. Spec => []DataInv
    BY DataInvariant
  <1>5. QED
    BY <1>1, <1>2, <1>3, <1>4, PTL DEF Spec

-----------------------------------------------------------------------------
\* What the client has in the end.

\* The first k of the rows v, in the columns that r wants.
FirstRows(r, v, k) == [q \in 1..k |-> [i \in DOMAIN r.coltypes |-> v[q][i]]]

\* A client that reads k rows, the end mark and what follows it finds the k rows.
LEMMA RowsOfReply ==
    ASSUME NEW r, Len(r.coltypes) \in Nat, DOMAIN r.coltypes = 1..Len(r.coltypes),
           NEW v, NEW s, NEW k \in Nat, RowsAre(Len(r.coltypes), s, k, v),
           NEW b, IsSeq(b), Len(b) \in Nat \ {0}, b[1] = EndMark
    PROVE  RowsOf(r, s \o b) = FirstRows(r, v, k)
  <1> DEFINE w == Len(r.coltypes)
             z == w + 1
             g == s \o b
             P(n) == HasRows(r, g, n) /\ ~(\E q \in (n + 1)..Len(g) : HasRows(r, g, q))
             n == CHOOSE m \in 0..Len(g) : P(m)
  <1>1. /\ IsSeq(s) /\ RowsIn(w, s, k) /\ Len(s) = k * z
        /\ \A q \in 0..(k - 1) : \A i \in 1..w : s[q * z + 1 + i].v = v[q + 1][i]
    BY DEF RowsAre
  <1>2. PICK T : s \in Seq(T) /\ b \in Seq(T)
    BY <1>1, CommonSet
  <1>3. /\ Len(g) = Len(s) + Len(b) /\ Len(s) \in Nat /\ Len(g) \in Nat
        /\ \A i \in 1..Len(s) + Len(b) : g[i] = IF i <= Len(s) THEN s[i] ELSE b[i - Len(s)]
    BY <1>2, ConcatProperties
  <1>4. RowsIn(w, g, k)
    <2>1. RowsIn(w, b, 0)
      BY DEF RowsIn
    <2>2. Len(s) = k * (w + 1) /\ w \in Nat /\ 0 \in Nat
      BY <1>1
    <2> HIDE DEF w, z
    <2>3. RowsIn(w, s \o b, k + 0)
      BY <1>1, <1>2, <2>1, <2>2, RowsConcat
    <2>4. k + 0 = k
      OBVIOUS
    <2>5. QED
      BY <2>3, <2>4
  <1> HIDE DEF g
  <1>5. ASSUME NEW q \in Nat, k < q PROVE ~RowsIn(w, g, q)
    <2> DEFINE p == k * z + 1
    <2>1. p = Len(s) + 1
      BY <1>1
    <2> HIDE DEF p
    <2>2. p \in 1..Len(s) + Len(b) /\ ~(p <= Len(s)) /\ p - Len(s) = 1
      BY <1>3, <2>1
    <2>3. g[p] = EndMark
      BY <1>3, <2>2
    <2>4. ~EndMark.v
      BY DEF EndMark, Tok
    <2>5. ~IsRow(w, g, p)
      BY <2>3, <2>4 DEF IsRow
    <2>6. k \in 0..(q - 1)
      BY <1>5
    <2>7. QED
      BY <2>5, <2>6 DEF RowsIn, p
  <1>6. \A q \in Nat : (HasRows(r, g, q) <=> RowsIn(w, g, q)) /\ (RowsIn(w, g, q) => q \in 0..Len(g))
    BY <1>3, HasRowsIs
  <1>7. k \in 0..Len(g) /\ P(k)
    BY <1>3, <1>4, <1>5, <1>6
  <1>8. ASSUME NEW m \in 0..Len(g), P(m) PROVE m = k
    BY <1>3, <1>5, <1>6, <1>7, <1>8
  <1>9. n = k
    <2> HIDE DEF P
    <2>1. QED
      BY <1>7, <1>8
  <1>10. RowsOf(r, g) = [q \in 1..n |-> [i \in 1..w |-> g[RowStart(r, q - 1) + i].v]]
    BY DEF RowsOf
  <1> HIDE DEF n, P
  <1>11. z \in Nat \ {0} /\ w < z
    OBVIOUS
  <1>12. \A q : RowStart(r, q) = q * z + 1
    BY DEF RowStart
  <1> HIDE DEF z
  <1>13. ASSUME NEW q \in 1..k, NEW i \in 1..w PROVE g[RowStart(r, q - 1) + i].v = v[q][i]
    <2> DEFINE e == q - 1
    <2>1. e \in Nat /\ e < k /\ e \in 0..(k - 1) /\ e + 1 = q
      OBVIOUS
    <2> HIDE DEF e
    <2>2. e * z \in Nat /\ e * z + z <= Len(s)
      BY <1>1, <1>11, <2>1, Below
    <2> DEFINE p == e * z + 1 + i
    <2>3. p \in 1..Len(s) + Len(b) /\ p <= Len(s)
      BY <1>3, <1>11, <2>2
    <2>4. s[p].v = v[e + 1][i]
      BY <1>1, <2>1
    <2>5. RowStart(r, e) + i = p
      BY <1>12
    <2> HIDE DEF p
    <2>6. g[p] = s[p]
      BY <1>3, <2>3
    <2>7. QED
      BY <2>1, <2>4, <2>5, <2>6 DEF e
  <1>14. RowsOf(r, g) = [q \in 1..k |-> [i \in 1..w |-> v[q][i]]]
    BY <1>9, <1>10, <1>13
  <1>15. QED
    BY <1>14 DEF g, FirstRows

\* The first k of the rows selected, which are rows of the requested width.
LEMMA FirstSelected ==
    ASSUME NEW b, Chained(b), NEW r, IsRequest(r), Len(r.params) = 1,
           NEW k \in Nat, k <= Len(Selected(b, r)),
           NEW u, u = FirstRows(r, Selected(b, r), k)
    PROVE  /\ IsPrefix(u, Selected(b, r))
           /\ k = Len(Selected(b, r)) => u = Selected(b, r)
  <1> DEFINE v == Selected(b, r)
             n == Len(v)
             T == {v[i] : i \in DOMAIN v}
             D == DOMAIN r.coltypes
  <1>1. v \in Seq(T) /\ n \in Nat /\ n = Len(Matching(b, r))
    BY MatchingIs
  <1>2. \A q \in 1..n : v[q] = [i \in D |-> v[q][i]]
    <2>1. ASSUME NEW q \in 1..n PROVE v[q] = [i \in D |-> v[q][i]]
      <3>1. q \in 1..Len(Matching(b, r))
        BY <1>1
      <3>2. v[q] = [c \in D |->
               Column(IF c \in 1..2 THEN Matching(b, r)[q][c] ELSE NullCell, r.coltypes[c])]
        BY <3>1, SelectedIs
      <3> HIDE DEF v, D
      <3>3. QED
        BY <3>2
    <2>2. QED
      BY <2>1
  <1> HIDE DEF v, T, D
  <1>3. k <= n /\ u = [q \in 1..k |-> v[q]]
    BY <1>1, <1>2 DEF v, D, FirstRows
  <1>4. DOMAIN v = 1..n /\ \A q \in 1..n : v[q] \in T
    BY <1>1
  <1>5. u \in Seq(T) /\ Len(u) = k /\ \A q \in 1..k : u[q] = v[q]
    <2>1. u = [q \in 1..k |-> u[q]] /\ \A q \in 1..k : u[q] = v[q]
      BY <1>3
    <2>2. \A q \in 1..k : u[q] \in T
      BY <1>1, <1>3, <1>4, <2>1
    <2> HIDE DEF n
    <2>3. u \in Seq(T) /\ Len(u) = k
      BY <2>1, <2>2, SeqIntro
    <2>4. QED
      BY <2>1, <2>3
  <1>6. IsPrefix(u, v)
    BY <1>1, <1>3, <1>5, PrefixIs
  <1>7. k = n => u = v
    BY <1>1, <1>5
  <1>8. QED
    BY <1>6, <1>7 DEF v

\* A query's ok reply delivers the rows that were there when it was sent, all of
\* them, in order and as the wanted types; an error reply the first of them: no
\* row is lost, doubled or changed between the statement and the client, however
\* the reply is divided into frames.
THEOREM SqinnQueryFaithful == ASSUME Precautions PROVE Spec => []QueryFaithful
  <1>1. ASSUME ExchangeInv, DataInv, QueryMatches, Answered, req.fc = "FC_QUERY"
        PROVE  IF ReplyOk(got) THEN RowsOf(req, got) = Selected(base, req)
               ELSE IsPrefix(RowsOf(req, got), Selected(base, req))
    <2> DEFINE v == Selected(base, req)
    <2>1. Typed /\ RequestMatches /\ ClientMatches /\ ReplyMatches /\ DataMatches
      BY <1>1 DEF ExchangeInv, DataInv
    <2>2. Waiting /\ stdout = <<>> /\ wbuf = <<>>
      BY <1>1, <2>1 DEF Answered, ClientMatches, ReplyMatches, Waiting
    <2>3. Answer = got
      BY <2>1, <2>2, AllRead
    <2> DEFINE P(n, good, m) == Says(n, <<EndMark>> \o Status(good, m)) /\ (good => n = Len(v))
    <2>3a. PICK k \in Nat, ok \in BOOLEAN : \E errmsg : P(k, ok, errmsg)
      BY <1>1, <2>2 DEF QueryMatches
    <2>4. PICK errmsg : P(k, ok, errmsg)
      BY <2>3a
    <2> DEFINE e == <<EndMark>>
               t == Status(ok, errmsg)
               b == e \o t
    <2>5. PICK s : RowsAre(Len(req.coltypes), s, k, v) /\ got = s \o b
      BY <2>3, <2>4 DEF Says
    <2>6. Chained(base) /\ IsRequest(req) /\ Len(req.params) = 1
      <3>1. req \in Requests
        <4>1. QuitRequest.fc = "FC_QUIT" /\ NoReq.fc = "none"
          BY DEF QuitRequest, NoReq
        <4>2. QED
          BY <1>1, <2>1, <4>1 DEF RequestMatches
      <3>2. QED
        BY <1>1, <2>1, <3>1, RequestsAssumption DEF IsRequest, DataMatches
    <2>7. Len(req.coltypes) \in Nat /\ DOMAIN req.coltypes = 1..Len(req.coltypes)
      BY <2>6 DEF IsRequest
    <2>8. IsSeq(e) /\ IsSeq(t) /\ IsSeq(s) /\ k <= Len(v)
      BY <2>5, EndMarkIsSeq, StatusIs DEF RowsAre
    <2>9. IsSeq(b) /\ Len(b) \in Nat \ {0} /\ b[1] = EndMark
      <3>1. PICK T : e \in Seq(T) /\ t \in Seq(T)
        BY <2>8, CommonSet
      <3>2. Len(e) = 1 /\ e[1] = EndMark
        OBVIOUS
      <3> HIDE DEF e, t
      <3>3. b \in Seq(T) /\ Len(b) = 1 + Len(t) /\ b[1] = e[1] /\ Len(t) \in Nat
        BY <3>1, <3>2, ConcatProperties
      <3> HIDE DEF b
      <3>4. QED
        BY <3>2, <3>3, SeqIsSeq
    <2>10. ReplyOk(got) <=> ok
      <3>1. PICK T : s \in Seq(T) /\ e \in Seq(T) /\ t \in Seq(T)
        <4> DEFINE A == {s[i] : i \in DOMAIN s}
                   B == {e[i] : i \in DOMAIN e}
                   C == {t[i] : i \in DOMAIN t}
                   U == A \cup B \cup C
        <4>1. s \in Seq(A) /\ e \in Seq(B) /\ t \in Seq(C)
          BY <2>8 DEF IsSeq
        <4> HIDE DEF A, B, C, e, t
        <4>2. s \in Seq(U) /\ e \in Seq(U) /\ t \in Seq(U)
          BY <4>1
        <4>3. QED
          BY <4>2
      <3> HIDE DEF e
      <3>2. got = (s \o e) \o t
        <4> HIDE DEF t
        <4>1. QED
          BY <2>5, <3>1, ConcatAssociative, SMTT(60)
      <3>3. IsSeq(s \o e)
        BY <2>8, ConcatIsSeq
      <3>4. QED
        BY <3>2, <3>3, ReplyOkIs
    <2>11. RowsOf(req, got) = FirstRows(req, v, k)
      <3> HIDE DEF b, v
      <3>1. RowsAre(Len(req.coltypes), s, k, v)
        BY <2>5
      <3>2. RowsOf(req, s \o b) = FirstRows(req, v, k)
        BY <2>7, <2>9, <3>1, RowsOfReply
      <3>3. QED
        BY <2>5, <3>2
    <2>12. IsPrefix(RowsOf(req, got), v) /\ (k = Len(v) => RowsOf(req, got) = v)
      BY <2>6, <2>8, <2>11, FirstSelected
    <2>13. QED
      BY <2>4, <2>10, <2>12
  <1>2. ExchangeInv /\ DataInv /\ QueryMatches => QueryFaithful
    BY <1>1 DEF QueryFaithful
  <1>3. QED
    BY <1>2, DataInvariant, ExchangeInvariant, QueryInvariant, PTL

-----------------------------------------------------------------------------
\* Which clients a server survives.

\* Values whose address or type fails an ASSERT when they are fetched: those that
\* fetch itself makes so, and zero bytes if any request wants a blob.
BlobWanted == \E r \in Requests : \E c \in DOMAIN r.coltypes : r.coltypes[c] = "VT_BLOB"

Unreadable == {"invalid", "nullptr"} \cup (IF BlobWanted THEN {"empty"} ELSE {})

\* Requests keep to the encoding, want a type that a value can be given as, and
\* carry no value that could not be fetched.
Serviceable ==
    \A r \in Requests :
      /\ Decodable(r)
      /\ \A c \in DOMAIN r.coltypes : r.coltypes[c] \in ValueTypes \ {"VT_NULL"}
      /\ \A i \in DOMAIN r.params : \A j \in DOMAIN r.params[i] : r.params[i][j].v \notin Unreadable

\* The next token in the Reader's buffer is the next of what is to come.
LEMMA NextToken ==
    ASSUME Typed, rbuf # <<>>, NEW t \in Token, NEW rest \in Seq(Token), Stream = <<t>> \o rest
    PROVE  Head(rbuf) = t
  <1>1. rbuf \in Seq(Token) /\ FlattenSeq(stdin) \in Seq(Token) /\ todo \in Seq(Token)
    BY FlattenType DEF Typed
  <1>2. QED
    BY <1>1, HeadOfStream DEF Stream

\* What the Reader wants next is what comes next, and has a value it takes.
LEMMA WantedComes ==
    ASSUME Serviceable, Typed, RequestMatches, rbuf # <<>>,
           pc \in (Reads \ {"bind"}) \cup {"fc"}
    PROVE  /\ Head(rbuf).k = Want
           /\ pc = "fc" => Val \in FunctionCodes
           /\ pc = "ptype" => Val \in ValueTypes
           /\ pc \in {"nparams", "ncols"} => Val \in Nat
  <1>1. ASSUME NEW t \in Token, NEW rest \in Seq(Token), Stream = <<t>> \o rest
        PROVE  Head(rbuf) = t
    BY <1>1, NextToken
  <1>2. CASE pc = "fc"
    <2>1. Stream # <<>>
      BY EmptyStream
    <2>2. Stream = Encode(req) /\ req \in Requests \cup {QuitRequest}
      BY <1>2, <2>1 DEF RequestMatches
    <2>3. req.fc \in FunctionCodes /\ Tok("byte", req.fc) \in Token
          /\ \E rest \in Seq(Token) : Encode(req) = <<Tok("byte", req.fc)>> \o rest
      <3>1. CASE req = QuitRequest
        <4>1. <<>> \in Seq(Token)
          OBVIOUS
        <4>2. QED
          BY <3>1, <4>1, QuitIs DEF FunctionCodes
      <3>2. CASE req \in Requests
        <4>1. IsRequest(req) /\ req.fc \in {"FC_EXEC", "FC_QUERY"}
          BY <3>2, RequestsAssumption DEF Serviceable, Decodable, IsRequest, FunctionCodes
        <4>2. QED
          BY <4>1, EncodeIs DEF FunctionCodes
      <3>3. QED
        BY <2>2, <3>1, <3>2
    <2> DEFINE t == Tok("byte", req.fc)
    <2> HIDE DEF t
    <2>4. PICK rest \in Seq(Token) : Stream = <<t>> \o rest
      BY <2>2, <2>3 DEF t
    <2>5. Head(rbuf) = t
      BY <1>1, <2>3, <2>4 DEF t
    <2>6. QED
      BY <1>2, <2>3, <2>5 DEF t, Tok, Want, Val
  <1>3. CASE pc \in Reads \ {"bind"}
    <2>1. /\ IsRequest(req) /\ req.fc \in {"FC_EXEC", "FC_QUERY"} /\ req \in Requests
          /\ Located(req, pc, h) /\ Stream = Unread(req, pc, h) /\ h \in Locals
      BY <1>3, InHandler DEF RequestMatches, Reads, Handling
    <2>2. /\ FromSql(req) \in Seq(Token) /\ FromNiter(req) \in Seq(Token)
          /\ FromNparams(req) \in Seq(Token) /\ FromParams(req) \in Seq(Token)
          /\ Tok("string", req.sql) \in Token
          /\ Tok("int32", req.niter) \in Token /\ Tok("int32", req.nparams) \in Token
      BY <2>1, EncodeIs
    <2>3. CASE pc = "sql"
      <3> DEFINE t == Tok("string", req.sql)
                 rest == IF req.fc = "FC_EXEC" THEN FromNiter(req) ELSE FromNparams(req)
      <3>1. Stream = <<t>> \o rest
        BY <2>1, <2>3 DEF Unread, FromSql
      <3>2. t \in Token /\ rest \in Seq(Token)
        BY <2>2
      <3> HIDE DEF t, rest
      <3>3. Head(rbuf) = t
        BY <1>1, <3>1, <3>2
      <3>4. QED
        BY <2>3, <3>3 DEF t, Tok, Want
    <2>4. CASE pc = "niter"
      <3> DEFINE t == Tok("int32", req.niter)
                 rest == FromNparams(req)
      <3>1. Stream = <<t>> \o rest
        BY <2>1, <2>4 DEF Unread, FromNiter
      <3>2. t \in Token /\ rest \in Seq(Token)
        BY <2>2
      <3> HIDE DEF t, rest
      <3>3. Head(rbuf) = t
        BY <1>1, <3>1, <3>2
      <3>4. QED
        BY <2>4, <3>3 DEF t, Tok, Want
    <2>5. CASE pc = "nparams"
      <3> DEFINE t == Tok("int32", req.nparams)
                 rest == FromParams(req)
      <3>1. Stream = <<t>> \o rest
        BY <2>1, <2>5 DEF Unread, FromNparams
      <3>2. t \in Token /\ rest \in Seq(Token)
        BY <2>2
      <3>3. req.nparams \in Nat
        BY <2>1 DEF Serviceable, Decodable, IsRequest
      <3> HIDE DEF t, rest
      <3>4. Head(rbuf) = t
        BY <1>1, <3>1, <3>2
      <3>5. QED
        BY <2>5, <3>3, <3>4 DEF t, Tok, Want, Val
    <2>6. CASE pc \in {"ptype", "pvalue"}
      <3> DEFINE i == h.i + 1
                 n == Len(h.params)
      <3>1. GroupsRead(req, h) /\ h.i < Len(req.params) /\ n \in Nat
        BY <2>1, <2>6 DEF Located, Locals
      <3>2. CASE pc = "ptype"
        <4> DEFINE m == n + 1
                   p == req.params[i][m]
                   t == [k |-> "byte", v |-> p.type, g |-> i]
                   after == AfterParam(req, i, m)
                   rest == IF p.type = "VT_NULL" THEN after ELSE <<ValueTok(p, i)>> \o after
        <4>1. n < req.nparams /\ Stream = AfterParam(req, i, n)
          BY <2>1, <3>2 DEF Located, Unread
        <4>2. m \in 1..req.nparams
          BY <3>1, <4>1 DEF GroupsRead
        <4> HIDE DEF m
        <4>3. i \in DOMAIN req.params /\ m \in DOMAIN req.params[i] /\ Len(req.params[i]) = req.nparams
          BY <2>1, <3>1, <4>2, GroupParam
        <4> USE DEF m
        <4>4. n \in 0..(Len(req.params[i]) - 1)
          BY <3>1, <4>1, <4>3, SMTT(60) DEF GroupsRead
        <4>5. p.type \in ValueTypes
          BY <2>1, <4>3 DEF Serviceable, Decodable
        <4>6. t \in Token /\ rest \in Seq(Token) /\ Stream = <<t>> \o rest
          <5>1. /\ after \in Seq(Token) /\ t \in Token /\ ValueTok(p, i) \in Token
                /\ p.type = "VT_NULL" => AfterParam(req, i, n) = <<t>> \o after
                /\ p.type # "VT_NULL" => AfterParam(req, i, n) = <<t>> \o (<<ValueTok(p, i)>> \o after)
            BY <2>1, <4>3, <4>4, NextParamTokens
          <5> HIDE DEF i, n, m, p, after, t
          <5>2. QED
            BY <4>1, <5>1
        <4>7. Head(rbuf) = t
          <5> HIDE DEF t, rest
          <5>1. QED
            BY <1>1, <4>6
        <4>8. QED
          BY <3>2, <4>5, <4>7 DEF Want, Val
      <3>3. CASE pc = "pvalue"
        <4> DEFINE p == req.params[i][n]
                   t == ValueTok(p, i)
                   rest == AfterParam(req, i, n)
        <4>1. /\ n \in 1..req.nparams /\ h.params[n].type = p.type /\ p.type # "VT_NULL"
              /\ Stream = <<t>> \o rest
          BY <2>1, <3>3 DEF Located, Unread
        <4> HIDE DEF n
        <4>2. i \in DOMAIN req.params /\ n \in DOMAIN req.params[i] /\ Len(req.params[i]) = req.nparams
          BY <2>1, <3>1, <4>1, GroupParam
        <4>3. p.v # "cut"
          BY <2>1, <4>2 DEF Serviceable, Decodable
        <4>4. t \in Token /\ rest \in Seq(Token)
          <5> DEFINE m == n - 1
          <5>1. m \in 0..(Len(req.params[i]) - 1) /\ m + 1 = n
            BY <4>1, <4>2 DEF GroupsRead
          <5> HIDE DEF m
          <5>2. AfterParam(req, i, m + 1) \in Seq(Token) /\ ValueTok(req.params[i][m + 1], i) \in Token
            BY <2>1, <4>2, <5>1, NextParamTokens
          <5>3. QED
            BY <5>1, <5>2
        <4>5. Head(rbuf) = t
          <5> HIDE DEF t, rest
          <5>1. QED
            BY <1>1, <4>1, <4>4
        <4>6. Last(h.params) = h.params[n]
          BY DEF Last, n
        <4>7. QED
          BY <3>3, <4>1, <4>3, <4>5, <4>6, SMTT(60) DEF Want, ValueTok
      <3>4. QED
        BY <2>6, <3>2, <3>3
    <2>7. CASE pc = "ncols"
      <3> DEFINE n == Len(req.coltypes)
                 t == Tok("int32", n)
                 rest == Types(req)
      <3>1. Stream = <<t>> \o rest
        BY <2>1, <2>7 DEF Unread, Columns
      <3>2. n \in Nat /\ rest \in Seq(Token)
        BY <2>1, Parts
      <3>3. t \in Token
        BY <3>2 DEF Tok, Token, TokenKinds
      <3> HIDE DEF t, rest
      <3>4. Head(rbuf) = t
        BY <1>1, <3>1, <3>2, <3>3
      <3>5. QED
        BY <2>7, <3>2, <3>4 DEF t, Tok, Want, Val
    <2>8. CASE pc = "ctype"
      <3> DEFINE n == Len(h.coltypes)
                 t == Tok("byte", req.coltypes[n + 1])
                 rest == TypesAfter(req, n + 1)
      <3>1. n < Len(req.coltypes) /\ n \in Nat /\ Len(req.coltypes) \in Nat /\ Stream = TypesAfter(req, n)
        BY <2>1, <2>8 DEF Located, Unread, Locals, IsRequest
      <3>2. n \in 0..Len(req.coltypes) /\ n + 1 \in 0..Len(req.coltypes) /\ n # Len(req.coltypes)
        BY <3>1
      <3> HIDE DEF n
      <3>3. t \in Token /\ rest \in Seq(Token) /\ Stream = <<t>> \o rest
        BY <2>1, <3>1, <3>2, NextType
      <3> HIDE DEF t, rest
      <3>4. Head(rbuf) = t
        BY <1>1, <3>3
      <3>5. QED
        BY <2>8, <3>4 DEF t, Tok, Want
    <2>9. QED
      BY <1>3, <2>3, <2>4, <2>5, <2>6, <2>7, <2>8 DEF Reads
  <1>4. QED
    BY <1>2, <1>3

\* The rows that can be fetched.
ReadableRows == {x \in AnyRow : \A c \in DOMAIN x : x[c].v \notin Unreadable}

\* A request carries such rows only.
LEMMA SentReadable ==
    ASSUME Serviceable, NEW r \in Requests, NEW j \in DOMAIN r.params
    PROVE  Row(r.params[j]) \in ReadableRows
  <1> DEFINE ps == r.params[j]
             x == Row(ps)
  <1>1. IsRequest(r)
    BY RequestsAssumption
  <1>2. j \in 1..Len(r.params)
    BY <1>1, Parts
  <1>3. x \in AnyRow
    BY <1>1, <1>2, CarriedIs
  <1>4. x = [k \in 1..2 |-> IF k \in DOMAIN ps THEN Cell(ps[k]) ELSE NullCell]
    BY RowIs
  <1>5. \A k \in DOMAIN ps : ps[k].v \notin Unreadable
    BY DEF Serviceable
  <1>6. \A k : Cell(ps[k]).v = ps[k].v
    BY DEF Cell
  <1>7. NullCell.v \notin Unreadable
    BY DEF NullCell, Unreadable
  <1> HIDE DEF x, ps
  <1>8. \A k \in DOMAIN x : x[k].v \notin Unreadable
    BY <1>4, <1>5, <1>6, <1>7
  <1>9. x \in ReadableRows
    BY <1>3, <1>8 DEF ReadableRows
  <1>10. QED
    BY <1>9 DEF x, ps

\* So the database holds such rows only, if it did when the request was sent.
BaseReadable == base.work \in Seq(ReadableRows)

\* What a request adds can be fetched, and so can the rest.
LEMMA WorkReadable ==
    ASSUME Serviceable, Typed, RequestMatches, BaseReadable, OnlySentRows, db.work \in Seq(AnyRow)
    PROVE  db.work \in Seq(ReadableRows)
  <1> DEFINE rows == db.work
             n == Len(rows)
  <1>1. ASSUME NEW i \in 1..n PROVE rows[i] \in ReadableRows
    <2>1. i \in DOMAIN rows
      BY <1>1
    <2>2. CASE i \in DOMAIN base.work /\ rows[i] = base.work[i]
      BY <2>2 DEF BaseReadable
    <2>3. CASE \E j \in DOMAIN req.params : rows[i] = Row(req.params[j])
      <3>1. PICK j \in DOMAIN req.params : rows[i] = Row(req.params[j])
        BY <2>3
      <3>2. req \in Requests
        <4>1. DOMAIN QuitRequest.params = {} /\ NoReq.params = QuitRequest.params
          BY DEF QuitRequest, NoReq
        <4>2. QED
          BY <3>1, <4>1 DEF RequestMatches
      <3>3. QED
        BY <3>1, <3>2, SentReadable
    <2>4. QED
      BY <2>1, <2>2, <2>3 DEF OnlySentRows
  <1>2. rows \in [1..n -> ReadableRows] /\ n \in Nat
    BY <1>1
  <1>3. QED
    BY <1>2

\* And a query has such rows only to deliver.
LEMMA MatchingReadable ==
    ASSUME Serviceable, BaseReadable, req \in Requests, IsRequest(req), Len(req.params) = 1
    PROVE  Matching(base, req) \in Seq(ReadableRows)
  <1> DEFINE row == Row(req.params[1])
             m == Matching(base, req)
  <1>1. row \in ReadableRows
    <2>1. 1 \in DOMAIN req.params
      BY DEF IsRequest
    <2>2. QED
      BY <2>1, SentReadable
  <1>2. base.work \in Seq(ReadableRows) /\ WithKey(row[1], base.work) \in Seq(ReadableRows)
    BY WithKeyType DEF BaseReadable
  <1>3. <<row>> \in Seq(ReadableRows) /\ <<>> \in Seq(ReadableRows)
    BY <1>1
  <1>4. m \in {base.work, WithKey(row[1], base.work), <<row>>, <<>>}
    <2> HIDE DEF row
    <2>1. CASE req.sql = "select"
      BY <2>1 DEF Matching
    <2>2. CASE req.sql = "find"
      BY <2>2 DEF Matching, row
    <2>3. CASE req.sql = "returning"
      BY <2>3 DEF Matching, row
    <2>4. CASE req.sql \notin {"select", "find", "returning"}
      BY <2>4 DEF Matching
    <2>5. QED
      BY <2>1, <2>2, <2>3, <2>4
  <1> HIDE DEF m, row
  <1>5. m \in Seq(ReadableRows)
    BY <1>2, <1>3, <1>4
  <1>6. QED
    BY <1>5 DEF m

\* Nothing that is fetched from such rows fails an ASSERT.
LEMMA ReadableFetched ==
    ASSUME Serviceable, NEW r \in Requests, NEW d, Head(d.stmt.todo) \in ReadableRows
    PROVE  ~Unwritable(fetch(d, r.coltypes))
  <1> DEFINE row == Head(d.stmt.todo)
             cell(i) == IF i \in DOMAIN row THEN row[i] ELSE NullCell
             t == r.coltypes
             values == fetch(d, t)
  <1>1. ASSUME NEW i \in DOMAIN t PROVE values[i] = Column(cell(i), t[i])
    BY <1>1 DEF fetch, Serviceable
  <1>2. DOMAIN values = DOMAIN t
    BY DEF fetch
  <1>3. ASSUME NEW i \in DOMAIN t PROVE values[i].v \notin {"invalid", "nullptr"}
    <2>1. cell(i).v \notin Unreadable
      BY DEF ReadableRows, NullCell, Unreadable
    <2>2. t[i] = "VT_BLOB" => "empty" \in Unreadable
      BY <1>3 DEF Unreadable, BlobWanted
    <2>3. "invalid" \in Unreadable /\ "nullptr" \in Unreadable
      BY DEF Unreadable
    <2> HIDE DEF cell, t, values
    <2>4. Column(cell(i), t[i]).v \in {"none", "converted", cell(i).v}
          \/ (cell(i).v = "empty" /\ t[i] = "VT_BLOB")
      BY DEF Column
    <2>5. QED
      BY <1>1, <1>3, <2>1, <2>2, <2>3, <2>4
  <1>4. QED
    BY <1>2, <1>3 DEF Unwritable

\* A server that ends by an ASSERT has lost its client.
LEMMA ServerSurvivesStep ==
    ASSUME Serviceable, ExchangeInv, DataInv, QueryMatches, BaseReadable, OnlySentRows,
           Server, pc # "dead", pc' = "dead"
    PROVE  peer' = "gone"
  <1>1. /\ ServerInv /\ Typed /\ RequestMatches /\ StmtMatches /\ DataMatches
        /\ AppNext
    BY DEF ExchangeInv, DataInv, Server
  <1>2. CASE EndOfInput \/ BrokenPipe
    BY <1>2 DEF EndOfInput, BrokenPipe, Abort
  <1>3. CASE ShortFrame \/ InvalidByte \/ BadCount
    <2>1. pc \in (Reads \ {"bind"}) \cup {"fc"} /\ rbuf # <<>>
      <3>1. CASE ShortFrame
        BY <3>1 DEF ShortFrame, Reading, Want, Reads
      <3>2. CASE InvalidByte \/ BadCount
        BY <3>2 DEF InvalidByte, BadCount, At, Reads
      <3>3. QED
        BY <1>3, <3>1, <3>2
    <2>2. /\ Head(rbuf).k = Want
          /\ pc = "fc" => Val \in FunctionCodes
          /\ pc = "ptype" => Val \in ValueTypes
          /\ pc \in {"nparams", "ncols"} => Val \in Nat
      BY <1>1, <2>1, WantedComes
    <2>3. ~ShortFrame
      BY <2>2 DEF ShortFrame
    <2>4. ~InvalidByte
      BY <2>2 DEF InvalidByte, At
    <2>5. ~BadCount
      <3>1. ASSUME BadCount PROVE pc \in {"nparams", "ncols"} /\ Val < 0
        BY <3>1 DEF BadCount, At
      <3>2. QED
        BY <2>2, <3>1
    <2>6. QED
      BY <1>3, <2>3, <2>4, <2>5
  <1>4. CASE readNextFrameIfNeeded
    BY <1>4 DEF readNextFrameIfNeeded
  <1>5. CASE AppStep \/ AppFlush \/ Shutdown
    BY <1>5 DEF AppStep, AppFlush, WriterFlush, Shutdown
  <1>6. CASE ReadSql
    <2>1. db.stmt = NoStmt
      BY <1>1, <1>6 DEF ReadSql, At, ServerInv, NoStatementLeft
    <2>2. QED
      BY <1>6, <2>1 DEF ReadSql
  <1>7. CASE ReadNiter \/ ReadNparams \/ ReadParamType \/ ReadParamValue
    BY <1>7 DEF ReadNiter, ReadNparams, ReadParamType, ReadParamValue, NextParam
  <1>8. CASE BindExec \/ BindQuery
    BY <1>8 DEF BindExec, BindQuery, NextParam
  <1>9. CASE ReadNcols \/ ReadColtype
    BY <1>9 DEF ReadNcols, ReadColtype, NextColtype
  <1>10. CASE FetchRow
    <2>1. pc = "step" /\ h.ok /\ h.hasRow
      BY <1>10 DEF FetchRow
    <2>2. PICK o \in Db_step_fetch(db, h.coltypes) :
            IF Unwritable(o.values) THEN Abort
            ELSE pc' = IF o.ok /\ o.hasRow THEN "mark" ELSE "step"
      BY <1>10 DEF FetchRow
    <2>3. Unwritable(o.values)
      BY <2>2
    <2> DEFINE rows == Matching(base, req)
               n == Len(rows)
               left == IF db.stmt.vm = "run" THEN Tail(db.stmt.todo) ELSE rows
    <2>4. IsRequest(req) /\ Len(req.params) = 1 /\ Chained(base) /\ req \in Requests
      <3>1. IsRequest(req) /\ Len(req.params) = 1 /\ Chained(base)
        BY <1>1, <2>1, FetchOutcome
      <3>2. req \in Requests
        BY <1>1, <2>1 DEF RequestMatches, Handling
      <3>3. QED
        BY <3>1, <3>2
    <2>5. o.ok /\ o.hasRow
      <3>1. ~Unwritable(<<>>)
        BY DEF Unwritable
      <3>2. o.values # <<>>
        BY <2>3, <3>1
      <3>3. db.stmt # NoStmt
        <4>1. ASSUME db.stmt = NoStmt PROVE o.values = <<>>
          BY <4>1 DEF Db_step_fetch
        <4>2. QED
          BY <3>2, <4>1
      <3>4. PICK s \in step(db) :
              o = [ok |-> s.ok, hasRow |-> IF s.ok THEN s.hasRow ELSE TRUE, db |-> s.db,
                   values |-> IF s.ok /\ s.hasRow THEN fetch(s.db, h.coltypes) ELSE <<>>]
        BY <3>3 DEF Db_step_fetch
      <3>5. s.ok /\ s.hasRow
        BY <3>2, <3>4
      <3>6. QED
        BY <3>4, <3>5
    <2>6. left # <<>> /\ o.db.stmt.todo = left /\ o.values = fetch(o.db, req.coltypes)
      BY <1>1, <2>1, <2>5, FetchedRows
    <2>7. PICK k \in Nat : k <= n /\ left = SubSeq(rows, k + 1, n)
      BY <1>1, <2>1, QueryAt
    <2>8. rows \in Seq(ReadableRows)
      BY <2>4, MatchingReadable
    <2>9. Head(left) \in ReadableRows
      <3> HIDE DEF rows, left
      <3>1. k # n
        BY <2>6, <2>7, <2>8, RestOfRows
      <3>2. k < n /\ k + 1 \in 1..n
        BY <2>7, <2>8, <3>1
      <3>3. Head(left) = rows[k + 1]
        BY <2>7, <2>8, <3>2, RestOfRows
      <3>4. QED
        BY <2>8, <3>2, <3>3
    <2>10. QED
      BY <2>3, <2>4, <2>6, <2>9, ReadableFetched
  <1>11. CASE MarkFrame \/ EndRows \/ Reply
    BY <1>11 DEF MarkFrame, WriterFlush, EndRows, Reply
  <1>12. QED
    BY <1>1, <1>2, <1>3, <1>4, <1>5, <1>6, <1>7, <1>8, <1>9, <1>10, <1>11 DEF AppNext

\* What a session starts from can be fetched.
LEMMA NextReadable ==
    ASSUME Serviceable, ExchangeInv, DataInv, BaseReadable, OnlySentRows, [Next]_vars
    PROVE  BaseReadable'
  <1>1. ServerInv /\ Typed /\ RequestMatches /\ ClientMatches /\ DataMatches
    BY DEF ExchangeInv, DataInv
  <1>2. ASSUME ~Pending PROVE db.work \in Seq(ReadableRows) /\ (Down => db.disk = db.work)
    <2>1. Chained(View(db)) /\ View(db).work = db.work
      BY <1>1, <1>2 DEF DataMatches, View
    <2>2. db.work \in Seq(AnyRow)
      BY <2>1 DEF Chained, Data
    <2>3. db.work \in Seq(ReadableRows)
      BY <1>1, <2>2, WorkReadable
    <2>4. QED
      BY <1>1, <2>3 DEF DataMatches
  <1>3. ASSUME pc \in {"fc", "dead", "closed"} PROVE ~Pending
    <2>1. db.stmt = NoStmt
      BY <1>1, <1>3 DEF ServerInv, NoStatementLeft
    <2>2. QED
      BY <2>1, Nothing DEF Pending
  <1>4. CASE Send \/ SendQuit
    <2>1. st = "idle" /\ base' = View(db)
      BY <1>4 DEF Send, SendQuit, Start
    <2>2. pc = "fc"
      BY <1>1, <2>1 DEF ClientMatches, Waiting
    <2>3. base'.work = db.work
      BY <2>1 DEF View
    <2>4. QED
      BY <1>2, <1>3, <2>2, <2>3 DEF BaseReadable
  <1>5. CASE NewSession
    <2>1. Down /\ db' = sqlite3_open(db.disk) /\ base' = View(db')
      BY <1>5 DEF NewSession, Over
    <2>2. base'.work = db.disk
      BY <2>1 DEF View, sqlite3_open
    <2>3. QED
      BY <1>2, <1>3, <2>1, <2>2 DEF BaseReadable, Down
  <1>6. CASE Server \/ WriteFrame \/ ReadFrame \/ Lose \/ Die \/ UNCHANGED vars
    <2>1. base' = base
      BY <1>6 DEF Server, clientVars, WriteFrame, ReadFrame, Lose, Die, vars
    <2>2. QED
      BY <2>1 DEF BaseReadable
  <1>7. QED
    BY <1>4, <1>5, <1>6 DEF Next, Terminated

\* ServerSurvives: a client that keeps to the encoding, wants types that can be
\* given and sends nothing that cannot be fetched never makes the server end by an
\* ASSERT (app.c, db.c, io.c); it ends when its client has gone.
THEOREM SqinnServerSurvives == ASSUME Precautions, Serviceable PROVE Spec => []ServerSurvives
  <1> DEFINE Inv == BaseReadable /\ ServerSurvives
             Before == ExchangeInv /\ DataInv /\ QueryMatches /\ OnlySentRows
  <1>1. Init => Inv
    <2>1. SUFFICES ASSUME Init PROVE Inv
      OBVIOUS
    <2>2. db = sqlite3_open(<<>>) /\ pc = "fc" /\ base = View(db)
      BY <2>1 DEF Init, AppInit
    <2>3. base.work = <<>> /\ <<>> \in Seq(ReadableRows)
      BY <2>2 DEF View, sqlite3_open
    <2>4. QED
      BY <2>2, <2>3 DEF BaseReadable, ServerSurvives
  <1>2. Before /\ Inv /\ [Next]_vars => Inv'
    <2>1. SUFFICES ASSUME Before, Inv, [Next]_vars PROVE Inv'
      OBVIOUS
    <2>2. BaseReadable'
      BY <2>1, NextReadable
    <2>3. ASSUME pc' = "dead" PROVE peer' = "gone"
      <3>1. CASE pc = "dead" /\ peer' \in {peer, "gone"}
        BY <2>1, <3>1 DEF ServerSurvives
      <3>2. CASE Server /\ pc # "dead"
        BY <2>1, <2>3, <3>2, ServerSurvivesStep
      <3>3. CASE Server /\ pc = "dead"
        <4>1. ~Reading /\ ~FlushDue
          BY <3>3 DEF Reading, Want, FlushDue
        <4>2. ~AppNext
          BY <3>3, <4>1 DEF AppNext, readNextFrameIfNeeded, EndOfInput, ShortFrame, BrokenPipe, AppStep,
             InvalidByte, BadCount, AppFlush, Shutdown, ReadSql, ReadNiter, ReadNparams, ReadParamType,
             ReadParamValue, BindExec, BindQuery, ReadNcols, ReadColtype, FetchRow, MarkFrame, EndRows,
             Reply, Read, At
        <4>3. QED
          BY <3>3, <4>2 DEF Server
      <3>4. CASE NewSession
        BY <2>3, <3>4 DEF NewSession
      <3>5. CASE Send \/ SendQuit \/ WriteFrame \/ ReadFrame \/ Lose \/ Die \/ UNCHANGED vars
        <4>1. pc' = pc /\ peer' \in {peer, "gone"}
          BY <3>5 DEF Send, SendQuit, Start, WriteFrame, ReadFrame, Lose, Die, vars, appVars, serverVars
        <4>2. QED
          BY <2>3, <3>1, <4>1
      <3>6. QED
        BY <2>1, <3>2, <3>3, <3>4, <3>5 DEF Next, Terminated
    <2>4. QED
      BY <2>2, <2>3 DEF ServerSurvives
  <1>3. Spec => []Before
    BY ExchangeInvariant, DataInvariant, QueryInvariant, SqinnOnlySentRows, PTL
  <1>4. QED
    BY <1>1, <1>2, <1>3, PTL DEF Spec

-----------------------------------------------------------------------------
\* Which failures a reply can explain.

\* Requests have a statement to execute, and nothing that follows a value beyond
\* SQLite's limit in its group: a later bind that succeeds would clear the error.
Explicable ==
    \A r \in Requests :
      /\ r.fc \in {"FC_EXEC", "FC_QUERY"} => r.sql # "empty"
      /\ \A i \in DOMAIN r.params : \A j \in DOMAIN r.params[i] :
           r.params[i][j].v = "huge" => j = Len(r.params[i])

\* msg is a reason why the iteration after those that make the data v failed, or
\* an I/O error.
Why(msg, v) ==
    \/ msg \in Faults
    \/ \E j \in 0..Iterations(req) :
         (j < Iterations(req) \/ j = 0) /\ v = Applied(base, req, j) /\ Explains(msg, v, req, j + 1)

\* The error of the connection d is one for its data.
Explained(d) == Why(d.err, View(d))

\* A reason is not "ok", so it is the message.
LEMMA MessageIs == ASSUME NEW d, Explained(d) PROVE Db_errmsg(d) = d.err
  <1>1. d.err # "ok"
    BY FaultsAssumption DEF Explained, Why, Explains
  <1>2. QED
    BY <1>1 DEF Db_errmsg

\* A reason for the iteration that follows the first j.
LEMMA WhyNow ==
    ASSUME NEW msg, NEW v, NEW j \in 0..Iterations(req), j < Iterations(req) \/ j = 0,
           v = Applied(base, req, j), msg \in Faults \/ Explains(msg, v, req, j + 1)
    PROVE  Why(msg, v)
  BY DEF Why

\* Reasons are about the request and the data it found.
LEMMA SameWhy == ASSUME base' = base, req' = req PROVE \A m, v : Why(m, v)' <=> Why(m, v)
  BY DEF Why

\* A statement that is compiled, or a reason why not.
LEMMA PrepareExplains ==
    ASSUME NEW d, IsDb(d), NEW sql, sql # "empty", NEW o \in Db_prepare(d, sql)
    PROVE  /\ o.ok \in BOOLEAN
           /\ o.ok => o.db.stmt.vm = "ready"
           /\ ~o.ok => o.db.err \in Faults \/ (o.db.err = "error" /\ sql = "garbage")
  <1> DEFINE un(rc) == Ret(rc, [d EXCEPT !.err = rc, !.stmt = NoStmt])
             nulls == [i \in 1..NVars(sql) |-> NullCell]
             nothing == <<>>
             s == [sql |-> sql, vm |-> "ready", todo |-> nothing, rc |-> "ok", vars |-> nulls]
             good == Ret("ok", [d EXCEPT !.err = "ok", !.stmt = s])
  <1>1. PICK p \in sqlite3_prepare_v2(d, sql) : o = Result(p.rc = "ok", p.db)
    BY DEF Db_prepare
  <1>2. p \in {good} \cup {un(f) : f \in Faults} \/ (sql = "garbage" /\ p = un("error"))
    <2>1. CASE sql = "garbage"
      BY <2>1, ZenonT(60) DEF sqlite3_prepare_v2
    <2>2. CASE sql # "garbage"
      <3>1. sqlite3_prepare_v2(d, sql) = {good} \cup {un(f) : f \in Faults}
        BY <2>2, ZenonT(60) DEF sqlite3_prepare_v2
      <3>2. QED
        BY <3>1
    <2>3. QED
      BY <2>1, <2>2
  <1>3. good.rc = "ok" /\ good.db.stmt.vm = "ready"
    <2>1. s.vm = "ready"
      OBVIOUS
    <2> HIDE DEF s
    <2>2. QED
      BY <2>1 DEF IsDb, Ret
  <1>4. \A rc : un(rc).rc = rc /\ un(rc).db.err = rc
    BY DEF IsDb, Ret
  <1> HIDE DEF good, un
  <1>5. o.ok = (p.rc = "ok") /\ o.db = p.db
    BY <1>1 DEF Result
  <1>6. CASE p = good
    BY <1>3, <1>5, <1>6
  <1>7. CASE p # good
    <2>1. PICK rc : p = un(rc) /\ (rc \in Faults \/ (rc = "error" /\ sql = "garbage"))
      BY <1>2, <1>7
    <2>2. rc # "ok"
      BY <2>1, FaultsAssumption
    <2>3. o.db.err = rc /\ o.ok = FALSE
      BY <1>4, <1>5, <2>1, <2>2
    <2>4. QED
      BY <2>1, <2>3
  <1>8. QED
    BY <1>6, <1>7

\* The error that is left after binding is that of the last parameter, so it
\* explains why an earlier one was not bound only if the last was not either.
LEMMA BindExplains ==
    ASSUME NEW d, IsDb(d), d.stmt.vm = "ready", NEW r, Prepared(d.stmt, r),
           NEW g, r.params[g] \in Seq(Param),
           \A j \in 1..Len(r.params[g]) : r.params[g][j].v = "huge" => j = Len(r.params[g]),
           ~bind(d, r.params[g]).ok, NEW v
    PROVE  Explains(bind(d, r.params[g]).db.err, v, r, g)
  <1> DEFINE s == d.stmt
             ps == r.params[g]
             n == Len(ps)
             rc == [i \in DOMAIN ps |-> BindRc(s, i, ps[i])]
             bound == [i \in DOMAIN s.vars |-> IF i \in DOMAIN ps THEN Bound(s, i, ps[i]) ELSE s.vars[i]]
             e == [d EXCEPT !.err = rc[n], !.stmt.vars = bound]
  <1>0. ps \in Seq(Param) /\ \A j \in 1..n : ps[j].v = "huge" => j = n
    OBVIOUS
  <1>a. ASSUME NEW m, \/ m = "range" /\ n > NVars(r.sql)
                      \/ m = "toobig" /\ n \in DOMAIN ps /\ ps[n].v = "huge"
        PROVE  Explains(m, v, r, g)
    BY <1>a DEF Explains
  <1>b. s.sql = r.sql /\ s.vm = "ready"
    BY DEF Prepared
  <1>c. bind(d, r.params[g]) = bind(d, ps) /\ ~bind(d, ps).ok
    OBVIOUS
  <1> HIDE DEF ps
  <1>1. ps # <<>>
    BY <1>c DEF bind, Result
  <1>2. n \in Nat \ {0} /\ DOMAIN ps = 1..n
    BY <1>0, <1>1, EmptySeq
  <1>3. bind(d, ps) = Result(\A i \in DOMAIN rc : rc[i] = "ok", e)
    BY <1>1 DEF bind
  <1>4. PICK i \in 1..n : rc[i] # "ok"
    BY <1>2, <1>3, <1>c DEF Result
  <1>5. e.err = rc[n]
    BY DEF IsDb
  <1>6. rc[i] = BindRc(s, i, ps[i]) /\ rc[n] = BindRc(s, n, ps[n])
    <2>1. i \in DOMAIN ps /\ n \in DOMAIN ps
      <3>1. i \in 1..n
        BY <1>4
      <3> HIDE DEF n
      <3>2. QED
        BY <1>2, <3>1
    <2>2. \A k \in DOMAIN ps : rc[k] = BindRc(s, k, ps[k])
      OBVIOUS
    <2> HIDE DEF n, rc, s
    <2>3. QED
      BY <2>1, <2>2
  <1>7. Len(s.vars) = NVars(s.sql) /\ NVars(s.sql) \in Nat
    <2>1. NVars(s.sql) \in 0..2
      BY DEF NVars
    <2>2. s.vars = [k \in 1..NVars(s.sql) |-> s.vars[k]]
      BY DEF Prepared
    <2>3. QED
      BY <2>1, <2>2
  <1> HIDE DEF rc, e
  <1>8. \/ rc[n] = "range" /\ n > NVars(r.sql)
        \/ rc[n] = "toobig" /\ n \in DOMAIN ps /\ ps[n].v = "huge"
    <2>1. CASE i > Len(s.vars)
      <3>1. n > Len(s.vars)
        <4> DEFINE m == Len(s.vars)
        <4>1. n \in Nat /\ i \in 1..n /\ m \in Nat /\ i > m
          BY <1>2, <1>7, <2>1
        <4> HIDE DEF n, m
        <4>2. n > m
          BY <4>1
        <4>3. QED
          BY <4>2, SMTT(60) DEF m
      <3>2. rc[n] = "range"
        BY <1>6, <1>b, <3>1 DEF BindRc
      <3>3. QED
        BY <1>7, <1>b, <3>1, <3>2
    <2>2. CASE ~(i > Len(s.vars))
      <3>1. ps[i].v = "huge"
        BY <1>4, <1>6, <1>b, <2>2 DEF BindRc
      <3>2. i = n
        BY <1>0, <3>1
      <3>3. rc[n] = "toobig"
        BY <1>4, <1>6, <1>b, <2>2, <3>2 DEF BindRc
      <3>4. n \in DOMAIN ps
        BY <1>2
      <3>5. QED
        BY <3>1, <3>2, <3>3, <3>4
    <2>3. QED
      BY <2>1, <2>2
  <1>9. bind(d, ps).db = e
    BY <1>3 DEF Result
  <1>10. Explains(e.err, v, r, g)
    BY <1>5, <1>8, <1>a
  <1>11. QED
    BY <1>9, <1>10, <1>c

\* Executing the statement of d fails with rc because of what it asks for.
Refused(rc, d) ==
    \/ rc = "error" /\ \/ d.stmt.sql = "begin" /\ ~d.auto
                       \/ d.stmt.sql \in {"commit", "rollback"} /\ d.auto
    \/ /\ rc = "constraint" /\ d.stmt.sql \in {"insert", "returning"}
       /\ \E i \in DOMAIN d.work : SameKey(d.work[i], d.stmt.vars)

\* If its variables are bound, that is a reason.
LEMMA RefusedExplains ==
    ASSUME NEW d, NEW r, NEW j, Prepared(d.stmt, r), Binds(d.stmt, Row(r.params[j])),
           NEW m, Refused(m, d)
    PROVE  Explains(m, View(d), r, j)
  <1>1. d.stmt.sql = r.sql /\ View(d).auto = d.auto /\ View(d).work = d.work
    BY ViewIs DEF Prepared
  <1>2. CASE m = "error"
    BY <1>1, <1>2 DEF Refused, Explains
  <1>3. CASE m # "error"
    <2>1. /\ m = "constraint" /\ r.sql \in {"insert", "returning"}
          /\ \E i \in DOMAIN d.work : SameKey(d.work[i], d.stmt.vars)
      BY <1>1, <1>3 DEF Refused
    <2>2. NVars(r.sql) = 2
      BY <2>1 DEF NVars
    <2> DEFINE row == Row(r.params[j])
    <2>3. d.stmt.vars = row
      BY <2>2, BoundRow
    <2> HIDE DEF row
    <2>4. \E i \in DOMAIN View(d).work : SameKey(View(d).work[i], row)
      BY <1>1, <2>1, <2>3
    <2>5. QED
      BY <2>1, <2>4 DEF Explains, row
  <1>4. QED
    BY <1>2, <1>3

\* A statement that is not executed leaves everything alone.
LEMMA ExecuteRefuses ==
    ASSUME NEW d, NEW e \in Execute(d)
    PROVE  e.rc \in {"done", "row"} \/ (e.db = d /\ Refused(e.rc, d))
  <1>1. CASE d.stmt.sql = "begin"
    BY <1>1 DEF Execute, Ret, Refused
  <1>2. CASE d.stmt.sql \in {"commit", "rollback"}
    BY <1>2 DEF Execute, Ret, Refused
  <1>3. CASE d.stmt.sql \in {"insert", "returning"}
    <2> DEFINE dup == \E i \in DOMAIN d.work : SameKey(d.work[i], d.stmt.vars)
    <2>1. e.rc \in {"done", "row"} \/ (dup /\ e = Ret("constraint", d))
      BY <1>3 DEF Execute, Write, Ret
    <2>2. QED
      BY <1>3, <2>1 DEF Ret, Refused
  <1>4. CASE d.stmt.sql \notin {"begin", "commit", "rollback", "insert", "returning"}
    BY <1>4 DEF Execute, Scan, Ret
  <1>5. QED
    BY <1>1, <1>2, <1>3, <1>4

\* A step that fails says why, and so does the reset that follows it.
LEMMA StepExplains ==
    ASSUME NEW d, IsDb(d), NEW s \in step(d)
    PROVE  /\ s.ok \in BOOLEAN /\ IsDb(s.db) /\ s.db.stmt.vm # "none"
           /\ ~s.ok => /\ s.db.stmt.vm = "halt" /\ s.db.stmt.rc = s.db.err
                       /\ \/ s.db.err \in Faults
                          \/ d.stmt.vm # "run" /\ View(s.db) = View(d) /\ Refused(s.db.err, d)
  <1> DEFINE nothing == <<>>
             left(e) == IF e.rc = "done" THEN "ok" ELSE e.rc
             halt(e) == [e.db EXCEPT !.err = e.rc, !.stmt.vm = "halt", !.stmt.todo = nothing, !.stmt.rc = left(e)]
             row(e) == [e.db EXCEPT !.err = "row", !.stmt.vm = "run"]
             F == CASE d.stmt.sql \in {"begin", "rollback"} -> {}
                    [] d.stmt.vm = "run" /\ ~Commits(d) -> Faults \ {"busy"}
                    [] OTHER -> Faults
             outcomes == (IF d.stmt.vm = "run" THEN Continue(d) ELSE Execute(d)) \cup Failures(d, F)
  <1>1. PICK c \in sqlite3_step(d) :
          s = [ok |-> c.rc \in {"done", "row"}, hasRow |-> c.rc = "row", db |-> c.db]
    BY DEF step
  <1>2. PICK e \in outcomes : c = Ret(e.rc, IF e.rc = "row" THEN row(e) ELSE halt(e))
    BY ZenonT(60) DEF sqlite3_step
  <1>3. /\ F \subseteq Faults
        /\ e \in Failures(d, F) \/ (d.stmt.vm = "run" /\ e \in Continue(d)) \/ (d.stmt.vm # "run" /\ e \in Execute(d))
    OBVIOUS
  <1> HIDE DEF F, outcomes
  <1>4. \/ e.rc \in {"done", "row"} \/ e.rc \in Faults
        \/ d.stmt.vm # "run" /\ e.db = d /\ Refused(e.rc, d)
    <2>1. CASE e \in Failures(d, F)
      <3>1. e.rc \in F
        BY <2>1 DEF Failures, Ret
      <3>2. QED
        BY <1>3, <3>1
    <2>2. CASE e \in Continue(d)
      <3>1. PICK e1, e2 : e \in {Ret("row", e1), Ret("done", e2)}
        BY <2>2 DEF Continue
      <3>2. QED
        BY <3>1 DEF Ret
    <2>3. CASE d.stmt.vm # "run" /\ e \in Execute(d)
      BY <2>3, ExecuteRefuses
    <2>4. QED
      BY <1>3, <2>1, <2>2, <2>3
  <1>5. IsDb(e.db) /\ IsDb(s.db)
    BY <1>3, StepCall, OutcomesAreDb, FailuresAreDb
  <1>6. row(e).stmt.vm = "run"
    BY <1>5 DEF IsDb, IsStmt
  <1> HIDE DEF nothing, left
  <1>7. halt(e).stmt.vm = "halt" /\ halt(e).err = e.rc /\ halt(e).stmt.rc = left(e) /\ View(halt(e)) = View(e.db)
    BY <1>5 DEF IsDb, IsStmt, View
  <1> HIDE DEF row, halt
  <1>8. /\ s.ok = (e.rc \in {"done", "row"})
        /\ s.db = IF e.rc = "row" THEN row(e) ELSE halt(e)
    BY <1>1, <1>2 DEF Ret
  <1>9. CASE e.rc = "row"
    BY <1>5, <1>6, <1>8, <1>9
  <1>10. CASE e.rc = "done"
    BY <1>5, <1>7, <1>8, <1>10
  <1>11. CASE e.rc \notin {"row", "done"}
    <2>1. s.db = halt(e) /\ left(e) = e.rc
      BY <1>8, <1>11 DEF left
    <2>2. s.db.err = e.rc /\ s.db.stmt.vm = "halt" /\ s.db.stmt.rc = e.rc /\ View(s.db) = View(e.db)
      BY <1>7, <2>1
    <2>3. s.ok \in BOOLEAN
      BY <1>8
    <2>4. QED
      BY <1>4, <1>5, <1>11, <2>2, <2>3
  <1>12. QED
    BY <1>9, <1>10, <1>11

\* Resetting a statement makes it ready, and repeats the error it has ended with.
LEMMA ResetExplains ==
    ASSUME NEW d, IsDb(d), d.stmt.vm # "none", NEW o \in sqlite3_reset(d)
    PROVE  /\ o.db.stmt.vm = "ready"
           /\ d.stmt.vm = "halt" => o.db.err = d.stmt.rc /\ View(o.db) = View(d)
  <1> DEFINE nothing == <<>>
             ready(rc, e) == [e EXCEPT !.err = rc, !.stmt.vm = "ready", !.stmt.todo = nothing, !.stmt.rc = "ok"]
  <1>1. \A rc, e : IsDb(e) => ready(rc, e).stmt.vm = "ready" /\ ready(rc, e).err = rc
    <2> HIDE DEF nothing
    <2>1. QED
      BY DEF IsDb, IsStmt
  <1>2. CASE d.stmt.vm = "run"
    <2>1. PICK rc, e : o = Ret(rc, ready(rc, e)) /\ (e = Committed(d) \/ \E f \in Failures(d, Faults) : e = f.db)
      BY <1>2, ZenonT(60) DEF sqlite3_reset
    <2>2. IsDb(e)
      BY <2>1, CommittedIsDb, FailuresAreDb
    <2> HIDE DEF ready
    <2>3. QED
      BY <1>1, <1>2, <2>1, <2>2 DEF Ret
  <1>3. CASE d.stmt.vm = "halt"
    <2>1. o = Ret(d.stmt.rc, ready(d.stmt.rc, d))
      BY <1>3 DEF sqlite3_reset
    <2>2. View(o.db) = View(d)
      BY <1>3, ResetData
    <2> HIDE DEF ready
    <2>3. QED
      BY <1>1, <2>1, <2>2 DEF Ret
  <1>4. CASE d.stmt.vm = "ready"
    BY <1>4 DEF sqlite3_reset, Ret
  <1>5. QED
    BY <1>2, <1>3, <1>4 DEF IsDb, IsStmt

\* An iteration that fails says why.
LEMMA IterationExplains ==
    ASSUME NEW d, IsDb(d), d.stmt.vm = "ready", NEW r, Prepared(d.stmt, r), r.nparams \in Nat,
           NEW j, r.params[j] \in Seq(Param), Len(r.params[j]) = r.nparams,
           \A k \in 1..Len(r.params[j]) : r.params[j][k].v = "huge" => k = Len(r.params[j]),
           NEW o \in Db_bind_step_reset(d, r.params[j])
    PROVE  /\ o.ok \in BOOLEAN
           /\ o.ok => o.db.stmt.vm = "ready"
           /\ ~o.ok => \/ o.db.err \in Faults
                       \/ View(o.db) = View(d) /\ Explains(o.db.err, View(d), r, j)
  <1> DEFINE ps == r.params[j]
             b == bind(d, ps)
  <1>1. d.stmt # NoStmt
    BY Nothing
  <1>2. IsDb(b.db) /\ b.db.stmt.vm = "ready" /\ b.ok \in BOOLEAN /\ View(b.db) = View(d)
    BY BindCall
  <1>3. Prepared(b.db.stmt, r) /\ (b.ok => Binds(b.db.stmt, Row(ps)))
    BY BindVars
  <1>4. CASE ~b.ok
    <2>1. o = b
      BY <1>1, <1>4 DEF Db_bind_step_reset
    <2>2. Explains(b.db.err, View(d), r, j)
      BY <1>4, BindExplains
    <2> HIDE DEF b
    <2>3. QED
      BY <1>2, <1>4, <2>1, <2>2
  <1>5. CASE b.ok
    <2>1. PICK s \in step(b.db) : \E e \in reset(s.db) : o = Result(s.ok, e)
      BY <1>1, <1>5 DEF Db_bind_step_reset
    <2>2. PICK c \in sqlite3_reset(s.db) : o = Result(s.ok, c.db)
      BY <2>1 DEF reset
    <2> HIDE DEF b
    <2>3. /\ s.ok \in BOOLEAN /\ IsDb(s.db) /\ s.db.stmt.vm # "none"
          /\ ~s.ok => /\ s.db.stmt.vm = "halt" /\ s.db.stmt.rc = s.db.err
                      /\ \/ s.db.err \in Faults
                         \/ View(s.db) = View(d) /\ Refused(s.db.err, b.db)
      BY <1>2, StepExplains
    <2>4. /\ c.db.stmt.vm = "ready"
          /\ s.db.stmt.vm = "halt" => c.db.err = s.db.stmt.rc /\ View(c.db) = View(s.db)
      BY <2>3, ResetExplains
    <2>5. o.ok = s.ok /\ o.db = c.db
      BY <2>2 DEF Result
    <2>6. ASSUME NEW m, Refused(m, b.db) PROVE Explains(m, View(d), r, j)
      BY <1>2, <1>3, <1>5, <2>6, RefusedExplains DEF ps
    <2>7. QED
      BY <2>3, <2>4, <2>5, <2>6
  <1>6. QED
    BY <1>2, <1>4, <1>5

\* A reply that is ok, or whose message is a reason.
SaysWhy(a, v) == ReplyOk(a) \/ Why(Last(a).v, v)

\* Until its last parameters are bound, a request can only have run the statement
\* in iterations that have reset it.
Binding == {"niter", "nparams", "ptype", "pvalue", "bind"}

\* A request that has not failed has a statement; one that has failed has left
\* its error on the connection, until it is in the reply.
ErrorKept ==
    /\ pc \in Handling \ {"sql"} =>
         IF h.ok THEN db.stmt.vm # "none" /\ (pc \in Binding => db.stmt.vm = "ready") ELSE Explained(db)
    /\ pc = "flush" \/ (Waiting /\ req # NoReq) => SaysWhy(Answer, View(db))

\* The error of a connection that a step leaves, or returns, is explained after it.
LEMMA ExplainedThen ==
    ASSUME base' = base, req' = req, NEW d, Explained(d), db' = d
    PROVE  Explained(db)'
  BY DEF Explained, Why

\* So is the reply.
LEMMA SaysThen ==
    ASSUME base' = base, req' = req, NEW a, NEW d, SaysWhy(a, View(d)), Answer' = a, View(db') = View(d)
    PROVE  SaysWhy(Answer, View(db))'
  BY DEF SaysWhy, Why

\* A reason why the first iteration failed.
LEMMA WhyAtStart ==
    ASSUME Typed, RequestMatches, pc \in Handling, NEW d, View(d) = Applied(base, req, 0),
           d.err \in Faults \/ Explains(d.err, View(d), req, 1)
    PROVE  Explained(d)
  <1>1. Iterations(req) \in Nat
    BY ProgressIs
  <1>2. 0 \in 0..Iterations(req) /\ 0 + 1 = 1
    BY <1>1
  <1>3. QED
    BY <1>2, WhyNow DEF Explained

\* The last of two tokens that are added.
LEMMA LastOfTwo == ASSUME NEW s, IsSeq(s), NEW x, NEW y PROVE Last(s \o (<<x>> \o <<y>>)) = y
  <1> DEFINE t == <<x>> \o <<y>>
  <1>1. IsSeq(t) /\ Len(t) = 2 /\ t[2] = y
    BY Short
  <1> HIDE DEF t
  <1>2. PICK T : s \in Seq(T) /\ t \in Seq(T)
    BY <1>1, CommonSet
  <1>3. 2 \in 1..Len(t)
    BY <1>1
  <1>4. (s \o t)[Len(s) + 2] = t[2] /\ Len(s \o t) = Len(s) + Len(t)
    BY <1>2, <1>3, Shifted
  <1>5. Last(s \o t) = y
    BY <1>1, <1>4 DEF Last
  <1>6. QED
    BY <1>5 DEF t

\* The end of a reply that says what it is to say.
LEMMA StatusSaysWhy ==
    ASSUME NEW s, IsSeq(s), NEW ok \in BOOLEAN, NEW errmsg, NEW v, ok \/ Why(errmsg, v)
    PROVE  SaysWhy(s \o Status(ok, errmsg), v)
  <1>1. CASE ok
    BY <1>1, ReplyOkIs DEF SaysWhy
  <1>2. CASE ~ok
    <2> DEFINE t == Status(ok, errmsg)
               a == Tok("byte", ok)
               m == Tok("string", errmsg)
    <2>1. t = <<a>> \o <<m>>
      BY <1>2 DEF Status
    <2>2. m.v = errmsg
      BY DEF Tok
    <2> HIDE DEF a, m, t
    <2>3. Last(s \o t) = m
      <3>1. \A x, y : Last(s \o (<<x>> \o <<y>>)) = y
        BY LastOfTwo, Zenon
      <3>2. QED
        BY <2>1, <3>1, Zenon
    <2>4. QED
      BY <1>2, <2>2, <2>3 DEF SaysWhy, t
  <1>3. QED
    BY <1>1, <1>2

\* The reply is on its way, or has been read.
LEMMA StillSaysWhy ==
    ASSUME RequestMatches, ErrorKept, pc = "flush" \/ Waiting, pc' = "flush" => pc = "flush",
           pc' \notin Handling \ {"sql"}, Answer' = Answer, req' = req, base' = base, db' = db
    PROVE  ErrorKept'
  <1>1. SaysWhy(Answer, View(db)) => SaysWhy(Answer, View(db))'
    BY SaysThen
  <1>2. (Waiting /\ req # NoReq)' \/ pc' = "flush" => pc = "flush" \/ (Waiting /\ req # NoReq)
    BY DEF RequestMatches
  <1>3. QED
    BY <1>1, <1>2 DEF ErrorKept

\* The handler goes on, and calls nothing.
LEMMA StillFailed ==
    ASSUME ErrorKept, pc \in Handling \ {"sql"}, pc' \in Handling \ {"sql"}, db' = db, h'.ok = h.ok,
           pc' \in Binding => pc \in Binding \/ ~h.ok, base' = base, req' = req
    PROVE  ErrorKept'
  <1>1. pc' # "flush" /\ ~Waiting'
    BY DEF Handling, Waiting
  <1>2. Explained(db) => Explained(db)'
    BY ExplainedThen
  <1>3. QED
    BY <1>1, <1>2 DEF ErrorKept

\* The handler goes on after the call o.
LEMMA CallKept ==
    ASSUME pc' \in Handling \ {"sql"}, NEW o, db' = o.db, h'.ok = o.ok,
           o.ok => o.db.stmt.vm # "none" /\ (pc' \in Binding => o.db.stmt.vm = "ready"),
           ~o.ok => Explained(o.db), base' = base, req' = req
    PROVE  ErrorKept'
  <1>1. pc' # "flush" /\ ~Waiting'
    BY DEF Handling, Waiting
  <1>2. Explained(o.db) => Explained(db)'
    BY ExplainedThen
  <1>3. QED
    BY <1>1, <1>2 DEF ErrorKept

\* Nothing can have failed yet, or there is nobody to tell.
LEMMA NothingToExplain ==
    ASSUME pc' \notin Handling \ {"sql"}, pc' # "flush", ~Waiting' \/ req' = NoReq
    PROVE  ErrorKept'
  BY DEF ErrorKept

\* The statement is prepared, or the error says why not.
LEMMA ReadSqlExplains ==
    ASSUME Explicable, ServerInv, Typed, RequestMatches, StmtMatches, DataMatches, ReadSql,
           UNCHANGED clientVars
    PROVE  ErrorKept'
  <1>1. pc = "sql" /\ rbuf # <<>> /\ db.stmt = NoStmt /\ IsDb(db)
    BY DEF ReadSql, At, ServerInv, NoStatementLeft
  <1>2. PICK o \in Db_prepare(db, Head(rbuf).v) : db' = o.db /\ h' = [h EXCEPT !.ok = o.ok]
    BY <1>1 DEF ReadSql, Prepare, Val
  <1>3. pc' \in Handling \ {"sql"}
    BY <1>1 DEF ReadSql, Handling
  <1>4. /\ IsRequest(req) /\ req.fc \in {"FC_EXEC", "FC_QUERY"} /\ Stream = FromSql(req) /\ h \in Locals
        /\ req.sql # "empty"
    <2>1. /\ IsRequest(req) /\ req.fc \in {"FC_EXEC", "FC_QUERY"} /\ Stream = Unread(req, pc, h)
          /\ h \in Locals /\ req \in Requests
      BY <1>1, InHandler DEF Handling, RequestMatches
    <2>2. QED
      BY <1>1, <2>1 DEF Unread, Explicable
  <1>5. Head(rbuf).v = req.sql
    <2> DEFINE t == Tok("string", req.sql)
               rest == IF req.fc = "FC_EXEC" THEN FromNiter(req) ELSE FromNparams(req)
    <2>1. t \in Token /\ rest \in Seq(Token) /\ Stream = <<t>> \o rest
      BY <1>4, EncodeIs DEF FromSql
    <2>2. t.v = req.sql
      BY DEF Tok
    <2> HIDE DEF t, rest
    <2>3. Head(rbuf) = t
      BY <1>1, <2>1, NextToken
    <2>4. QED
      BY <2>2, <2>3
  <1>6. h'.ok = o.ok
    BY <1>2, <1>4 DEF Locals
  <1>7. View(o.db) = Applied(base, req, 0)
    <2>1. db.stmt.vm # "run"
      BY <1>1, Nothing
    <2>2. pc \in Handling /\ h.ok /\ ~Pending
      BY <1>1, <2>1, NothingPending DEF Handling, StmtMatches
    <2>3. View(db) = base /\ Applied(base, req, 0) = base
      BY <1>1, <2>2, NothingDone
    <2>4. QED
      BY <1>1, <1>2, <2>3, PrepareCall
  <1>8. /\ o.ok \in BOOLEAN
        /\ o.ok => o.db.stmt.vm = "ready"
        /\ ~o.ok => o.db.err \in Faults \/ (o.db.err = "error" /\ req.sql = "garbage")
    BY <1>1, <1>2, <1>4, <1>5, PrepareExplains
  <1>9. ~o.ok => Explained(o.db)
    <2>1. o.db.err = "error" /\ req.sql = "garbage" => Explains(o.db.err, View(o.db), req, 1)
      BY DEF Explains
    <2>2. pc \in Handling
      BY <1>1 DEF Handling
    <2>3. QED
      BY <1>7, <1>8, <2>1, <2>2, WhyAtStart
  <1>10. base' = base /\ req' = req
    BY DEF clientVars
  <1>11. QED
    BY <1>2, <1>3, <1>6, <1>8, <1>9, <1>10, CallKept

\* What is bound next is a statement with the parameters that were sent.
LEMMA BindingIs ==
    ASSUME Explicable, ServerInv, Typed, RequestMatches, ParamsIntact, StmtMatches, ErrorKept, pc = "bind", h.ok
    PROVE  /\ IsDb(db) /\ db.stmt.vm = "ready" /\ db.stmt # NoStmt /\ Prepared(db.stmt, req)
           /\ h.params = req.params[h.i + 1]
           /\ req.params[h.i + 1] \in Seq(Param) /\ Len(req.params[h.i + 1]) = req.nparams
           /\ req.nparams \in Nat /\ h.i + 1 \in 1..Len(req.params) /\ h.i \in Nat
           /\ \A j \in 1..Len(req.params[h.i + 1]) :
                req.params[h.i + 1][j].v = "huge" => j = Len(req.params[h.i + 1])
  <1>1. db.stmt.vm = "ready" /\ IsDb(db) /\ pc \in Handling
    BY DEF ErrorKept, Handling, Binding, ServerInv
  <1>2. db.stmt # NoStmt
    BY <1>1, Nothing
  <1>3. Prepared(db.stmt, req)
    BY <1>1, <1>2 DEF StmtMatches
  <1> DEFINE g == req.params[h.i + 1]
  <1>4. /\ h.params = g /\ h.params \in Seq(Param) /\ Len(h.params) = req.nparams
        /\ req.nparams \in Nat /\ h.i + 1 \in 1..Len(req.params) /\ h.i \in Nat
    BY GroupIs
  <1>5. IsRequest(req) /\ req \in Requests
    BY <1>1, InHandler DEF RequestMatches
  <1>6. h.i + 1 \in DOMAIN req.params
    BY <1>4, <1>5, Parts DEF IsRequest
  <1>7. \A j \in DOMAIN g : g[j].v = "huge" => j = Len(g)
    BY <1>5, <1>6, SMTT(60) DEF Explicable
  <1> HIDE DEF g
  <1>8. \A j \in 1..Len(g) : g[j].v = "huge" => j = Len(g)
    <2>1. DOMAIN g = 1..Len(g)
      BY <1>4
    <2>2. QED
      BY <1>7, <2>1
  <1>9. g \in Seq(Param) /\ Len(g) = req.nparams
    BY <1>4
  <1>10. QED
    BY <1>1, <1>2, <1>3, <1>4, <1>8, <1>9, Zenon DEF g

\* An iteration is executed, or only read.
LEMMA BindExecExplains ==
    ASSUME Explicable, ServerInv, Typed, RequestMatches, ParamsIntact, StmtMatches, DataMatches, ErrorKept,
           BindExec, UNCHANGED clientVars
    PROVE  ErrorKept'
  <1> DEFINE nothing == <<>>
  <1>1. PICK o \in ExecIteration(h.ok, db, h.params) :
          db' = o.db /\ h' = [h EXCEPT !.ok = o.ok, !.i = @ + 1, !.params = nothing]
    BY DEF BindExec
  <1>2. pc = "bind" /\ h.fc = "FC_EXEC" /\ pc \in Handling /\ pc' \in Handling \ {"sql"}
    BY DEF BindExec, NextParam, Handling
  <1>3. h \in Locals /\ h.fc = req.fc
    BY <1>2, InHandler
  <1>4. h'.ok = o.ok
    <2> HIDE DEF nothing
    <2>1. QED
      BY <1>1, <1>3 DEF Locals
  <1>5. base' = base /\ req' = req
    BY DEF clientVars
  <1>6. CASE h.ok
    <2> DEFINE j == h.i + 1
    <2>1. /\ IsDb(db) /\ db.stmt.vm = "ready" /\ Prepared(db.stmt, req)
          /\ h.params = req.params[j] /\ req.params[j] \in Seq(Param) /\ Len(req.params[j]) = req.nparams
          /\ req.nparams \in Nat /\ j \in 1..Len(req.params) /\ h.i \in Nat
          /\ \A k \in 1..Len(req.params[j]) : req.params[j][k].v = "huge" => k = Len(req.params[j])
      BY <1>2, <1>6, BindingIs
    <2>2. Iterations(req) = Len(req.params) /\ Iterations(req) \in Nat
      BY <1>2, <1>3, ProgressIs DEF Iterations
    <2>3. h.i \in 0..Iterations(req) /\ h.i < Iterations(req)
      BY <2>1, <2>2
    <2>4. View(db) = Applied(base, req, h.i)
      BY <1>2, <1>6, <2>1, NothingPending DEF DataMatches, Progress
    <2>5. o \in Db_bind_step_reset(db, req.params[j])
      BY <1>1, <1>6, <2>1 DEF ExecIteration
    <2> HIDE DEF j
    <2>6. /\ o.ok \in BOOLEAN
          /\ o.ok => o.db.stmt.vm = "ready"
          /\ ~o.ok => \/ o.db.err \in Faults
                      \/ View(o.db) = View(db) /\ Explains(o.db.err, View(db), req, j)
      BY <2>1, <2>5, IterationExplains
    <2>7. ~o.ok => Explained(o.db)
      <3>1. o.db.err \in Faults => Explained(o.db)
        BY DEF Explained, Why
      <3>2. View(o.db) = View(db) /\ Explains(o.db.err, View(db), req, j) => Explained(o.db)
        BY <2>3, <2>4, WhyNow DEF Explained, j
      <3>3. QED
        BY <2>6, <3>1, <3>2
    <2>8. QED
      BY <1>1, <1>2, <1>4, <1>5, <2>6, <2>7, CallKept
  <1>7. CASE ~h.ok
    <2>1. o.ok = h.ok /\ o.db = db
      BY <1>1, <1>7 DEF ExecIteration, Result
    <2>2. pc \in Handling \ {"sql"}
      BY <1>2 DEF Handling
    <2>3. QED
      BY <1>1, <1>2, <1>4, <1>5, <1>7, <2>1, <2>2, StillFailed
  <1>8. QED
    BY <1>6, <1>7

\* The parameters of a query are bound.
LEMMA BindQueryExplains ==
    ASSUME Explicable, ServerInv, Typed, RequestMatches, ParamsIntact, StmtMatches, DataMatches, ErrorKept,
           BindQuery, UNCHANGED clientVars
    PROVE  ErrorKept'
  <1> DEFINE nothing == <<>>
             o == IF h.ok THEN Db_bind(db, h.params) ELSE Result(FALSE, db)
  <1>1. /\ pc = "bind" /\ pc' = "ncols" /\ h.fc = "FC_QUERY"
        /\ db' = o.db /\ h' = [h EXCEPT !.ok = o.ok, !.params = nothing]
    BY DEF BindQuery
  <1>2. pc \in Handling \ {"sql"} /\ pc' \in Handling \ {"sql"} /\ pc' \notin Binding /\ h \in Locals
    BY <1>1, InHandler DEF Handling, Binding
  <1>3. h'.ok = o.ok
    <2> HIDE DEF nothing, o
    <2>1. QED
      BY <1>1, <1>2 DEF Locals
  <1>4. base' = base /\ req' = req
    BY DEF clientVars
  <1>5. CASE h.ok
    <2>1. /\ IsDb(db) /\ db.stmt.vm = "ready" /\ db.stmt # NoStmt /\ Prepared(db.stmt, req)
          /\ h.params = req.params[h.i + 1] /\ req.params[h.i + 1] \in Seq(Param)
          /\ h.i + 1 \in 1..Len(req.params) /\ h.i \in Nat
          /\ \A k \in 1..Len(req.params[h.i + 1]) :
               req.params[h.i + 1][k].v = "huge" => k = Len(req.params[h.i + 1])
      BY <1>1, <1>5, BindingIs
    <2>2. h.i + 1 = 1
      <3>1. IsRequest(req) /\ req.fc = "FC_QUERY"
        BY <1>1, <1>2, InHandler
      <3>2. Len(req.params) = 1
        BY <3>1 DEF IsRequest
      <3>3. QED
        BY <2>1, <3>2
    <2>3. o = bind(db, req.params[1])
      BY <1>5, <2>1, <2>2 DEF Db_bind
    <2>4. View(db) = Applied(base, req, 0)
      <3>1. pc \in Handling /\ h.hasRow /\ ~Pending
        BY <1>1, <1>2, <2>1, NothingPending DEF StmtMatches, Handling
      <3>2. QED
        BY <1>1, <1>5, <3>1, NothingDone
    <2> HIDE DEF o
    <2>5. o.db.stmt.vm = "ready" /\ View(o.db) = View(db)
      BY <2>1, <2>3, BindCall
    <2>6. ~o.ok => Explains(o.db.err, View(o.db), req, 1)
      BY <2>1, <2>2, <2>3, BindExplains
    <2>7. ~o.ok => Explained(o.db)
      BY <1>2, <2>4, <2>5, <2>6, WhyAtStart
    <2>8. QED
      BY <1>1, <1>2, <1>3, <1>4, <2>5, <2>7, CallKept
  <1>6. CASE ~h.ok
    <2>1. o.ok = h.ok /\ o.db = db
      <3>1. h.ok \in BOOLEAN
        BY <1>2 DEF Locals
      <3>2. QED
        BY <1>6, <3>1 DEF Result
    <2> HIDE DEF o
    <2>2. QED
      BY <1>1, <1>2, <1>3, <1>4, <2>1, StillFailed
  <1>7. QED
    BY <1>5, <1>6

\* The next row is fetched.
LEMMA FetchRowExplains ==
    ASSUME ServerInv, Typed, RequestMatches, StmtMatches, DataMatches, ErrorKept, FetchRow, ~Abort,
           UNCHANGED clientVars
    PROVE  ErrorKept'
  <1>1. pc = "step" /\ h.ok /\ h.hasRow
    BY DEF FetchRow
  <1>2. PICK o \in Db_step_fetch(db, h.coltypes) :
          /\ db' = o.db /\ h' = [h EXCEPT !.ok = o.ok, !.hasRow = o.hasRow]
          /\ pc' = IF o.ok /\ o.hasRow THEN "mark" ELSE "step"
    BY DEF FetchRow
  <1>3. pc \in Handling \ {"sql"} /\ pc' \in Handling \ {"sql"}
    BY <1>1, <1>2 DEF Handling
  <1>4. h'.ok = o.ok
    BY <1>2, <1>3, InHandler DEF Locals
  <1>5. db.stmt # NoStmt /\ IsDb(db)
    BY <1>1, <1>3, Nothing DEF ErrorKept, ServerInv
  <1>6. PICK s \in step(db) : o.ok = s.ok /\ o.db = s.db /\ o.hasRow = IF s.ok THEN s.hasRow ELSE TRUE
    BY <1>2, <1>5, StepFetchIs
  <1>7. /\ s.ok \in BOOLEAN /\ s.db.stmt.vm # "none"
        /\ ~s.ok => \/ s.db.err \in Faults
                    \/ db.stmt.vm # "run" /\ View(s.db) = View(db) /\ Refused(s.db.err, db)
    BY <1>5, StepExplains
  <1>8. h.fc = "FC_QUERY" /\ Applied(base, req, 0) = base /\ Chained(base)
    BY <1>1, <1>2, FetchOutcome
  <1>9. pc \in Handling /\ base' = base /\ req' = req
    BY <1>3 DEF clientVars
  <1>10. ASSUME ~s.ok PROVE Explained(s.db)
    <2>1. CASE s.db.err \in Faults
      BY <2>1 DEF Explained, Why
    <2>2. CASE s.db.err \notin Faults
      <3>1. db.stmt.vm # "run" /\ View(s.db) = View(db) /\ Refused(s.db.err, db)
        BY <1>7, <1>10, <2>2
      <3>2. View(db) = base
        BY <1>1, <1>8, <1>9, <3>1, NothingPending, NothingDone
      <3>3. Prepared(db.stmt, req) /\ Binds(db.stmt, Row(req.params[1]))
        <4>1. h.fc = req.fc
          BY <1>9, InHandler
        <4>2. QED
          BY <1>1, <1>5, <1>8, <1>9, <4>1 DEF StmtMatches, AllBound
      <3>4. Explains(s.db.err, View(db), req, 1)
        BY <3>1, <3>3, RefusedExplains
      <3>5. QED
        BY <1>8, <1>9, <3>1, <3>2, <3>4, WhyAtStart
    <2>3. QED
      BY <2>1, <2>2
  <1>11. ~o.ok => Explained(o.db)
    BY <1>6, <1>10
  <1>12. pc' \notin Binding
    BY <1>2 DEF Binding
  <1>13. QED
    BY <1>2, <1>3, <1>4, <1>6, <1>7, <1>9, <1>11, <1>12, CallKept

\* The reply is written.
LEMMA ReplyExplains ==
    ASSUME ServerInv, Typed, RequestMatches, ErrorKept, Reply, UNCHANGED clientVars
    PROVE  ErrorKept'
  <1>1. PICK ok, errmsg : ok = h.ok /\ errmsg = Db_errmsg(db)
    OBVIOUS
  <1>2. pc = "reply" /\ pc' = "flush" /\ wbuf' = wbuf \o Status(ok, errmsg) /\ stdout' = stdout
    BY <1>1 DEF Reply
  <1>3. got' = got /\ ok \in BOOLEAN
    BY <1>1 DEF clientVars, Typed, TypeOK
  <1>4. ok \/ (Why(errmsg, View(db)) /\ View(db') = View(db))
    <2>1. SUFFICES ASSUME ~h.ok PROVE Why(errmsg, View(db)) /\ View(db') = View(db)
      BY <1>1
    <2>2. Explained(db)
      BY <1>2, <2>1 DEF ErrorKept, Handling
    <2>3. errmsg = db.err
      BY <1>1, <2>2, MessageIs
    <2>4. IsDb(db) /\ db.stmt.vm # "run" /\ db' \in Db_finalize(db)
      BY <2>1 DEF ServerInv, RunsOnlyInRows, Reply, Finalize
    <2>5. View(db') = View(db)
      BY <2>4, FinalizeCall
    <2>6. QED
      BY <2>2, <2>3, <2>5 DEF Explained
  <1>5. IsSeq(Answer) /\ Answer' = Answer \o Status(ok, errmsg)
    BY <1>2, <1>3, StatusIs, AnswerGrows
  <1>6. base' = base /\ req' = req
    BY DEF clientVars
  <1>7. ok \/ Why(errmsg, View(db'))
    BY <1>4
  <1>8. SaysWhy(Answer', View(db'))
    BY <1>3, <1>5, <1>7, StatusSaysWhy
  <1>9. SaysWhy(Answer, View(db))'
    BY <1>6, <1>8, SaysThen
  <1>10. pc' \notin Handling
    BY <1>2 DEF Handling
  <1>11. QED
    BY <1>9, <1>10 DEF ErrorKept

\* Every step of the server.
LEMMA ServerExplains ==
    ASSUME Explicable, ExchangeInv, ParamsIntact, StmtMatches, DataMatches, ErrorKept, Server
    PROVE  ErrorKept'
  <1>1. /\ ServerInv /\ Typed /\ RequestMatches /\ ReplyMatches /\ AppNext /\ UNCHANGED clientVars
        /\ req' = req /\ got' = got /\ base' = base
    BY DEF ExchangeInv, Server, clientVars
  <1>2. ASSUME Abort PROVE ErrorKept'
    BY <1>2, NothingToExplain DEF Abort, Waiting, Handling
  <1>3. ASSUME pc \in Handling \ {"sql"}, pc' \in Handling \ {"sql"},
               \/ readNextFrameIfNeeded \/ ReadNiter \/ ReadNparams \/ ReadParamType \/ ReadParamValue
               \/ ReadNcols \/ ReadColtype \/ MarkFrame \/ EndRows,
               pc' \in Binding => pc \in Binding
        PROVE  ErrorKept'
    <2>1. h'.ok = h.ok
      BY <1>1, <1>3, InHandler, ResultsKept
    <2>2. db' = db
      BY <1>3 DEF readNextFrameIfNeeded, ReadNiter, ReadNparams, ReadParamType, ReadParamValue,
                  ReadNcols, ReadColtype, MarkFrame, EndRows, WriterFlush
    <2>3. QED
      BY <1>1, <1>3, <2>1, <2>2, StillFailed
  <1>4. CASE EndOfInput \/ ShortFrame \/ BrokenPipe \/ InvalidByte \/ BadCount
    BY <1>2, <1>4 DEF EndOfInput, ShortFrame, BrokenPipe, InvalidByte, BadCount
  <1>5. CASE readNextFrameIfNeeded
    <2>1. /\ pc' = pc /\ rbuf' = Head(stdin) /\ stdin # <<>>
          /\ pc \in {"fc", "sql", "niter", "nparams", "ptype", "pvalue", "ncols", "ctype"}
      BY <1>5 DEF readNextFrameIfNeeded, Reading, Want
    <2>2. CASE pc \in Handling \ {"sql"}
      BY <1>3, <1>5, <2>1, <2>2
    <2>3. CASE pc \notin Handling \ {"sql"}
      <3>1. Stream # <<>>
        BY <1>1, <2>1, EmptyStream
      <3>2. Stream' # <<>>
        BY <1>1, <1>5, <3>1, FrameStream DEF readNextFrameIfNeeded, clientVars
      <3>3. pc' # "flush" /\ pc' \notin Handling \ {"sql"}
        BY <2>1, <2>3
      <3>4. QED
        BY <3>2, <3>3, NothingToExplain DEF Waiting
    <2>4. QED
      BY <2>2, <2>3
  <1>6. CASE AppStep
    <2>1. CASE pc' = "sql"
      BY <2>1, NothingToExplain DEF Waiting
    <2>2. CASE pc' # "sql"
      <3>1. pc' = "flush" /\ wbuf' = wbuf \o Status(TRUE, "") /\ stdout' = stdout
        BY <1>6, <2>2 DEF AppStep, Read
      <3>2. IsSeq(Answer) /\ Answer' = Answer \o Status(TRUE, "")
        BY <1>1, <3>1, StatusIs, AnswerGrows
      <3>3. SaysWhy(Answer', View(db'))
        BY <3>2, StatusSaysWhy
      <3>4. SaysWhy(Answer, View(db))'
        BY <1>1, <3>3, SaysThen
      <3>5. QED
        BY <3>1, <3>4 DEF ErrorKept, Handling
    <2>3. QED
      BY <2>1, <2>2
  <1>7. CASE AppFlush
    <2>1. /\ pc = "flush" /\ pc' \in {"quit", "fc"} /\ db' = db
          /\ stdout' = Append(stdout, wbuf) /\ wbuf' = <<>>
      BY <1>7 DEF AppFlush, WriterFlush
    <2>2. Answer' = Answer
      BY <1>1, <2>1, AnswerSent
    <2>3. pc' \notin Handling
      BY <2>1 DEF Handling
    <2>4. QED
      BY <1>1, <2>1, <2>2, <2>3, StillSaysWhy
  <1>8. CASE Shutdown
    BY <1>8, NothingToExplain DEF Shutdown, Waiting, Handling
  <1>9. CASE ReadSql
    BY <1>1, <1>9, ReadSqlExplains
  <1>10. CASE ReadNiter \/ ReadNparams \/ ReadParamType \/ ReadParamValue
                \/ ReadNcols \/ ReadColtype \/ MarkFrame \/ EndRows
    <2>1. /\ pc \in Handling \ {"sql"} /\ pc' \in Handling \ {"sql"}
          /\ pc' \in Binding => pc \in Binding
      BY <1>10 DEF ReadNiter, ReadNparams, ReadParamType, ReadParamValue, ReadNcols, ReadColtype,
                   MarkFrame, EndRows, Read, At, NextParam, NextColtype, WriterFlush, Handling, Binding
    <2>2. QED
      BY <1>3, <1>10, <2>1
  <1>11. CASE BindExec
    BY <1>1, <1>11, BindExecExplains
  <1>12. CASE BindQuery
    BY <1>1, <1>12, BindQueryExplains
  <1>13. CASE FetchRow
    <2>1. CASE ~Abort
      BY <1>1, <1>13, <2>1, FetchRowExplains
    <2>2. QED
      BY <1>2, <2>1
  <1>14. CASE Reply
    BY <1>1, <1>14, ReplyExplains
  <1>15. QED
    BY <1>1, <1>4, <1>5, <1>6, <1>7, <1>8, <1>9, <1>10, <1>11, <1>12, <1>13, <1>14 DEF AppNext

\* Every step of server and client.
LEMMA NextExplains ==
    ASSUME Explicable, ExchangeInv, DataInv, ErrorKept, [Next]_vars
    PROVE  ErrorKept'
  <1>1. /\ Typed /\ RequestMatches /\ ClientMatches /\ ParamsIntact /\ StmtMatches /\ DataMatches
    BY DEF ExchangeInv, DataInv
  <1>2. CASE Server
    BY <1>1, <1>2, ServerExplains
  <1>3. CASE Send \/ SendQuit
    <2>1. st = "idle" /\ pc' = pc
      BY <1>3 DEF Send, SendQuit, Start, appVars
    <2>2. pc' = "fc"
      BY <1>1, <2>1 DEF ClientMatches, Waiting
    <2>3. Stream' # <<>>
      BY <1>1, <1>3, <2>1, StartStream DEF ClientMatches, Waiting, Send, SendQuit
    <2>4. QED
      BY <2>2, <2>3, NothingToExplain DEF Waiting, Handling
  <1>4. CASE WriteFrame \/ ReadFrame \/ Lose \/ Die \/ UNCHANGED vars
    <2>1. db' = db /\ pc' = pc /\ h' = h /\ req' = req /\ base' = base
      BY <1>4 DEF WriteFrame, ReadFrame, Lose, Die, vars, appVars, serverVars, clientVars
    <2>2. Answer' = Answer
      <3>1. CASE ReadFrame
        BY <1>1, <3>1, AnswerRead DEF ReadFrame, serverVars
      <3>2. CASE WriteFrame \/ Lose \/ Die \/ UNCHANGED vars
        BY <3>2 DEF WriteFrame, Lose, Die, vars, appVars, serverVars, clientVars, Answer
      <3>3. QED
        BY <1>4, <3>1, <3>2
    <2>3. Stream' = <<>> => Stream = <<>>
      <3>1. CASE WriteFrame
        <4>1. PICK k \in 1..Len(todo) :
                stdin' = Append(stdin, SubSeq(todo, 1, k)) /\ todo' = SubSeq(todo, k + 1, Len(todo))
          BY <3>1 DEF WriteFrame
        <4>2. QED
          BY <1>1, <3>1, <4>1, SentStream DEF WriteFrame, serverVars
      <3>2. CASE ReadFrame \/ Lose \/ Die \/ UNCHANGED vars
        BY <3>2 DEF ReadFrame, Lose, Die, serverVars, vars, appVars, clientVars, Stream
      <3>3. QED
        BY <1>4, <3>1, <3>2
    <2>4. Waiting' => Waiting
      BY <2>1, <2>3 DEF Waiting
    <2>5. SaysWhy(Answer, View(db)) => SaysWhy(Answer, View(db))'
      BY <2>1, <2>2, SaysThen
    <2>6. Explained(db) => Explained(db)'
      BY <2>1, ExplainedThen
    <2>7. QED
      BY <2>1, <2>4, <2>5, <2>6 DEF ErrorKept
  <1>5. CASE NewSession
    <2>1. pc' = "fc" /\ req' = NoReq
      BY <1>5 DEF NewSession
    <2>2. QED
      BY <2>1, NothingToExplain DEF Handling
  <1>6. QED
    BY <1>2, <1>3, <1>4, <1>5 DEF Next, Terminated

\* ErrorSaysWhy: the error of the call that failed is still the connection's when
\* the reply is written, so its message (errmsg in app.c) gives a reason why the
\* iteration that follows the executed ones could not be: sqlite3_reset repeats
\* the error, and what is not executed any more does not clear it.  Explicable
\* leaves out the two cases in which the code is known to break it.
THEOREM SqinnErrorSaysWhy == ASSUME Precautions, Explicable PROVE Spec => []ErrorSaysWhy
  <1>1. Init => ErrorKept
    BY DEF Init, AppInit, ErrorKept, Handling
  <1>2. ExchangeInv /\ DataInv /\ ErrorKept /\ [Next]_vars => ErrorKept'
    BY NextExplains
  <1>3. ExchangeInv /\ ErrorKept => ErrorSaysWhy
    <2>1. SUFFICES ASSUME ExchangeInv, ErrorKept, Answered, ~ReplyOk(got) PROVE Why(Last(got).v, View(db))
      BY DEF ErrorSaysWhy, Why
    <2>2. Typed /\ Waiting /\ req # NoReq /\ stdout = <<>> /\ wbuf = <<>>
      BY <2>1 DEF ExchangeInv, Answered, ClientMatches, ReplyMatches, Waiting
    <2>3. Answer = got
      BY <2>2, AllRead
    <2>4. SaysWhy(got, View(db))
      BY <2>1, <2>2, <2>3 DEF ErrorKept
    <2>5. QED
      BY <2>1, <2>4 DEF SaysWhy
  <1>4. Spec => []ExchangeInv
    BY ExchangeInvariant
  <1>5. Spec => []DataInv
    BY DataInvariant
  <1>6. QED
    BY <1>1, <1>2, <1>3, <1>4, <1>5, PTL DEF Spec
=============================================================================
