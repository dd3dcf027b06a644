------------------------------- MODULE MCMain -------------------------------
(***************************************************************************)
(* Command lines of up to five arguments after the command, and sessions   *)
(* that take the handlers through all their ways.                          *)
(***************************************************************************)
EXTENDS Main

Insert(params) ==
    [fc |-> "FC_EXEC", sql |-> "insert", niter |-> Len(params), nparams |-> 1, params |-> params,
     coltypes |-> <<>>]

Select(sql, params, coltypes) ==
    [fc |-> "FC_QUERY", sql |-> sql, niter |-> 0, nparams |-> Len(params), params |-> <<params>>,
     coltypes |-> coltypes]

One == <<[type |-> "VT_INT32", v |-> "a"]>>

\* No iteration, a clash, an error in the SQL, a value that cannot be written;
\* rows of no column, of one, and of one that is not there.
MCRequests ==
    {Insert(<<>>), Insert(<<One, One>>), [Insert(<<One>>) EXCEPT !.sql = "garbage"],
     [Insert(<<(<<>>)>>) EXCEPT !.nparams = -1],
     Select("select", <<>>, <<"VT_INT32">>), Select("select", <<>>, <<>>),
     Select("find", One, <<"VT_INT32", "VT_STRING">>), Select("garbage", <<>>, <<"VT_INT32">>),
     Select("select", <<>>, <<"VT_BOGUS">>)}

Words == {"-db", "-loglevel", "-logfile", "-logstderr", "2", "3", "long"}

MCLength ==
    [a \in Words \cup {"sqinn", "run", "version", "", "0", ":memory:"} |->
        CASE a = "" -> 0
          [] a \in {"0", "2", "3"} -> 1
          [] a \in {"-db", "run"} -> 3
          [] a = "sqinn" -> 5
          [] a = "version" -> 7
          [] a \in {"-logfile", ":memory:"} -> 8
          [] a = "-loglevel" -> 9
          [] a = "-logstderr" -> 10
          [] a = "long" -> 511]

MCAtoi ==
    [k \in {Kept(a, 8) : a \in DOMAIN MCLength} |->
        CASE k.s = "2" -> 2 [] k.s = "3" -> 3 [] OTHER -> 0]

MCArgvs ==
    {<<"sqinn">>, <<"sqinn", "version">>, <<"sqinn", "-db">>}
    \cup {<<"sqinn", "run">> \o rest : rest \in UNION {[1..n -> Words] : n \in 0..5}}

MCUnopenable == {Kept("long", 256)}
=============================================================================
