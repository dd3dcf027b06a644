-------------------------------- MODULE Wire --------------------------------
(***************************************************************************)
(* The encoding of rfc.txt, as far as App and a client depend on it: a     *)
(* message is a sequence of tokens, one per byte, int32, ..., string or    *)
(* blob, each with its kind k and value v.  Rule (c) of section 4 makes a  *)
(* token the unit that frames cannot split.  The field g numbers the       *)
(* parameter group (an iteration of FC_EXEC, the parameters of FC_QUERY)   *)
(* that a token belongs to, 0 for none; it is not on the wire.             *)
(***************************************************************************)
EXTENDS Db

Payload(type) ==
    CASE type = "VT_INT32" -> "int32"
      [] type = "VT_INT64" -> "int64"
      [] type = "VT_DOUBLE" -> "double"
      [] type = "VT_STRING" -> "string"
      [] type = "VT_BLOB" -> "blob"
      [] OTHER -> "none"

\* Strings and blobs are read as pointers into the frame that holds them.
Pointers == {"VT_STRING", "VT_BLOB"}

Tok(k, v) == [k |-> k, v |-> v, g |-> 0]

\* A value cut by the end of its frame, against rule (c), is the kind "cut".
EncodeParam(p, g) ==
    LET typ == [k |-> "byte", v |-> p.type, g |-> g]
        val == [k |-> IF p.v = "cut" THEN "cut" ELSE Payload(p.type), v |-> p.v, g |-> g]
    IN IF p.type = "VT_NULL" THEN <<typ>> ELSE <<typ, val>>

EncodeGroup(params, g) == FlattenSeq([i \in DOMAIN params |-> EncodeParam(params[i], g)])

Encode(req) ==
    CASE req.fc = "FC_EXEC" ->
           <<Tok("byte", req.fc), Tok("string", req.sql),
             Tok("int32", req.niter), Tok("int32", req.nparams)>>
           \o FlattenSeq([i \in DOMAIN req.params |-> EncodeGroup(req.params[i], i)])
      [] req.fc = "FC_QUERY" ->
           <<Tok("byte", req.fc), Tok("string", req.sql), Tok("int32", req.nparams)>>
           \o EncodeGroup(req.params[1], 1) \o <<Tok("int32", Len(req.coltypes))>>
           \o [i \in DOMAIN req.coltypes |-> Tok("byte", req.coltypes[i])]
      [] OTHER -> <<Tok("byte", req.fc)>>

-----------------------------------------------------------------------------
\* Replies.  A row is the byte TRUE and one value per column; the rows end
\* with the byte FALSE; then comes ok, and after a FALSE ok the message.
EncodeRowNoNulls(values) ==  \* the bug of writing nothing for a NULL
    <<Tok("byte", TRUE)>>
    \o FlattenSeq([i \in DOMAIN values |->
                     IF values[i].type = "VT_NULL" THEN <<>> ELSE <<Tok("value", values[i])>>])

EncodeRow(values) ==
    <<Tok("byte", TRUE)>> \o [i \in DOMAIN values |-> Tok("value", values[i])]

Status(ok, errmsg) ==
    <<Tok("byte", ok)>> \o (IF ok THEN <<>> ELSE <<Tok("string", errmsg)>>)

RowStart(req, r) == r * (Len(req.coltypes) + 1) + 1

\* The tokens of reply are r rows of the requested width and the start of what
\* follows them.
HasRows(req, reply, r) ==
    /\ RowStart(req, r) <= Len(reply) + 1
    /\ \A q \in 0..(r - 1) :
         /\ reply[RowStart(req, q)].k = "byte" /\ reply[RowStart(req, q)].v
         /\ \A i \in 1..Len(req.coltypes) : reply[RowStart(req, q) + i].k = "value"

EndsWithStatus(reply, p) ==
    /\ p <= Len(reply) /\ reply[p].k = "byte"
    /\ IF reply[p].v THEN Len(reply) = p
       ELSE Len(reply) = p + 1 /\ reply[p + 1].k = "string"

\* reply is one complete reply to req and nothing more.
Complete(req, reply) ==
    IF req.fc = "FC_QUERY"
    THEN \E r \in 0..Len(reply) :
           /\ HasRows(req, reply, r)
           /\ RowStart(req, r) <= Len(reply)
           /\ reply[RowStart(req, r)].k = "byte" /\ ~reply[RowStart(req, r)].v
           /\ EndsWithStatus(reply, RowStart(req, r) + 1)
    ELSE EndsWithStatus(reply, 1)

\* What a client that stops after a frame may have: whole rows of a query.
Partial(req, reply) ==
    /\ req.fc = "FC_QUERY"
    /\ \E r \in 0..Len(reply) : HasRows(req, reply, r) /\ RowStart(req, r) = Len(reply) + 1

ReplyOk(reply) == Last(reply).k = "byte"

\* The rows of a query's reply, as sequences of values.
RowsOf(req, reply) ==
    LET n == CHOOSE r \in 0..Len(reply) :
               HasRows(req, reply, r) /\ ~(\E q \in (r + 1)..Len(reply) : HasRows(req, reply, q))
    IN [r \in 1..n |-> [i \in DOMAIN req.coltypes |-> reply[RowStart(req, r - 1) + i].v]]
=============================================================================
