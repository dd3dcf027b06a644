------------------------------ MODULE MCSqinn ------------------------------
(***************************************************************************)
(* Requests for model-checking Sqinn.                                      *)
(***************************************************************************)
EXTENDS SqinnService

Null == [type |-> "VT_NULL", v |-> "none"]
I32(v) == [type |-> "VT_INT32", v |-> v]
I64(v) == [type |-> "VT_INT64", v |-> v]
F64(v) == [type |-> "VT_DOUBLE", v |-> v]
Str(v) == [type |-> "VT_STRING", v |-> v]
Blob(v) == [type |-> "VT_BLOB", v |-> v]

Exec(sql, nparams, params) ==
    [fc |-> "FC_EXEC", sql |-> sql, niter |-> Len(params), nparams |-> nparams, params |-> params,
     coltypes |-> <<>>]

Query(sql, params, coltypes) ==
    [fc |-> "FC_QUERY", sql |-> sql, niter |-> 0, nparams |-> Len(params), params |-> <<params>>,
     coltypes |-> coltypes]

Once == <<(<<>>)>>

Transactions ==
    {Exec("begin", 0, Once), Exec("commit", 0, Once), Exec("rollback", 0, Once)}

\* Two iterations, of which the second may clash; transactions around them; an
\* insert that is executed by the query that fetches its row.
ExecRequests ==
    Transactions \cup
    {Exec("insert", 2, <<(<<I32("a"), Str("x")>>), <<I32("b"), Null>>>>),
     Exec("insert", 2, <<(<<I32("c"), Null>>), <<I64("a"), Str("y")>>>>),
     Exec("garbage", 1, <<(<<Str("x")>>)>>),
     Query("returning", <<I32("b"), Null>>, <<"VT_INT32">>)}

\* Iterations of several parameters, read over several frames, some by value
\* and some by pointer; a value that cannot be bound; one parameter too many.
FrameRequests ==
    {Exec("insert", 2, <<(<<I32("a"), Blob("x")>>), <<Str("b"), Str("y")>>>>),
     Exec("insert", 2, <<(<<I64("a"), Str("huge")>>), <<F64("c"), Null>>>>),
     Query("find", <<Str("b")>>, <<"VT_STRING", "VT_BLOB">>),
     Exec("insert", 3, <<(<<I32("c"), Null, Blob("x")>>)>>)}

\* Results of no, one and several rows; more and fewer columns than there are;
\* conversions; an empty string; a query that inserts, and one that fails.
QueryRequests ==
    {Exec("insert", 2, <<(<<I32("a"), Str("empty")>>), <<Null, Null>>, <<I32("b"), Blob("x")>>>>),
     Query("select", <<>>, <<"VT_INT32", "VT_STRING", "VT_BLOB">>),
     Query("select", <<>>, <<>>),
     Query("find", <<I32("a")>>, <<"VT_INT64", "VT_STRING">>),
     Query("find", <<Null>>, <<"VT_INT64">>),
     Query("find", <<I32("a"), I32("b")>>, <<"VT_INT64">>),
     Query("returning", <<I32("b"), Str("y")>>, <<"VT_INT32", "VT_BLOB">>),
     Query("garbage", <<>>, <<"VT_INT32">>)}

\* Both, and a commit that fails where no transaction is open.
ExchangeRequests == FrameRequests \cup QueryRequests \cup {Exec("commit", 0, Once)}

\* A transaction; iterations that a client may leave half-sent, of which some
\* clash; a query whose rows take several frames; requests that break the
\* encoding: a value cut by its frame, a negative number of parameters and of
\* iterations, an unknown type, wanted type and code.  The negative number of
\* iterations, and on an empty table the wanted type, are answered.
CrashRequests ==
    {Exec("begin", 0, Once), Exec("commit", 0, Once),
     Exec("insert", 2, <<(<<I32("a"), Null>>), <<I32("b"), Null>>>>),
     Exec("insert", 1, <<(<<I32("a")>>), <<I32("c")>>>>),
     Query("select", <<>>, <<"VT_INT32">>),
     Exec("insert", 1, <<(<<I32("b")>>), <<Str("cut")>>>>),
     Exec("insert", -1, Once),
     [Exec("insert", 1, <<>>) EXCEPT !.niter = -1],
     Exec("insert", 1, <<(<<[type |-> "VT_BOGUS", v |-> "x"]>>)>>),
     Query("select", <<>>, <<"VT_BOGUS">>),
     [QuitRequest EXCEPT !.fc = "FC_BOGUS"]}

ReturningRequests ==
    {Exec("returning", 2, <<(<<I32("a"), Null>>)>>),
     Query("returning", <<I32("b"), Null>>, <<"VT_INT32">>)}

\* Failures that leave no error behind: a bind that fails, followed by one that
\* does not, and text that holds no statement.
UnexplainedRequests ==
    {Exec("insert", 2, <<(<<Str("huge"), Null>>)>>),
     Exec("empty", 0, Once),
     Query("empty", <<>>, <<"VT_INT32">>)}

BlobRequests ==
    {Exec("insert", 2, <<(<<I32("a"), Blob("empty")>>)>>),
     Query("select", <<>>, <<"VT_INT32", "VT_BLOB">>)}
=============================================================================
