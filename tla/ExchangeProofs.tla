--------------------------- MODULE ExchangeProofs ---------------------------
(***************************************************************************)
(* Theorems about the exchange of requests and replies: what the server    *)
(* has read of a request, and where it stands in its handler, always fit   *)
(* together, wherever the client ends its frames.                          *)
(*                                                                         *)
(* The invariant says of every point of a handler which tokens of the      *)
(* request's encoding are still to come (Unread); what is in the client's  *)
(* hands, in the pipe and in the Reader's buffer (Stream) is just that.    *)
(***************************************************************************)
EXTENDS SqinnProofs, Lemmas

\* The tokens of a request.  (That "FC_QUIT" is a STRING the provers do not know.)
TokenKinds == {"byte", "int32", "int64", "double", "string", "blob", "cut", "none"}
Token == [k : TokenKinds, v : STRING \cup Int \cup {"FC_QUIT"}, g : Nat]

Param == [type : STRING, v : STRING]

-----------------------------------------------------------------------------
\* The encoding of a request in the order in which the handlers read it.

Params(r, i) == [j \in DOMAIN r.params[i] |-> EncodeParam(r.params[i][j], i)]
Groups(r) == [i \in DOMAIN r.params |-> EncodeGroup(r.params[i], i)]
Types(r) == [i \in DOMAIN r.coltypes |-> Tok("byte", r.coltypes[i])]

ParamsAfter(r, i, j) == FlattenSeq(SubSeq(Params(r, i), j + 1, Len(Params(r, i))))
GroupsAfter(r, i) == FlattenSeq(SubSeq(Groups(r), i + 1, Len(Groups(r))))
TypesAfter(r, n) == SubSeq(Types(r), n + 1, Len(Types(r)))

Columns(r) == <<Tok("int32", Len(r.coltypes))>> \o Types(r)
AfterGroup(r, i) == IF r.fc = "FC_EXEC" THEN GroupsAfter(r, i) ELSE Columns(r)
AfterParam(r, i, j) == ParamsAfter(r, i, j) \o AfterGroup(r, i)

FromParams(r) == IF r.fc = "FC_EXEC" THEN GroupsAfter(r, 0) ELSE AfterParam(r, 1, 0)
FromNparams(r) == <<Tok("int32", r.nparams)>> \o FromParams(r)
FromNiter(r) == <<Tok("int32", r.niter)>> \o FromNparams(r)
FromSql(r) == <<Tok("string", r.sql)>> \o (IF r.fc = "FC_EXEC" THEN FromNiter(r) ELSE FromNparams(r))

\* The value of p, a parameter of group i.
ValueTok(p, i) == [k |-> IF p.v = "cut" THEN "cut" ELSE Payload(p.type), v |-> p.v, g |-> i]

\* What a handler has still to read of r at p, with the locals l.
Unread(r, p, l) ==
    CASE p = "sql" -> FromSql(r)
      [] p = "niter" -> FromNiter(r)
      [] p = "nparams" -> FromNparams(r)
      [] p = "ptype" -> AfterParam(r, l.i + 1, Len(l.params))
      [] p = "pvalue" -> <<ValueTok(r.params[l.i + 1][Len(l.params)], l.i + 1)>>
                           \o AfterParam(r, l.i + 1, Len(l.params))
      [] p = "bind" -> AfterGroup(r, l.i + 1)
      [] p = "ncols" -> Columns(r)
      [] p = "ctype" -> TypesAfter(r, Len(l.coltypes))
      [] OTHER -> <<>>

\* What has been sent, or is still to be sent, and has not been read.
Stream == rbuf \o FlattenSeq(stdin) \o todo

-----------------------------------------------------------------------------
\* The locals of a handler, as far as they have been read.

\* (TypeOK says the same.)
Locals == [fc : FunctionCodes \cup {"none"}, ok : BOOLEAN, niter : Int, nparams : Nat,
           i : Nat, params : Seq([type : ValueTypes, v : STRING \cup {"none", "stale"}]), ncols : Nat,
           coltypes : Seq(STRING), hasRow : BOOLEAN]

Handling == {"sql", "niter", "nparams", "ptype", "pvalue", "bind", "ncols", "ctype",
             "step", "mark", "reply"}

GoodParam(p) == p.type \in ValueTypes /\ p.v # "cut"
GoodGroup(ps) == \A j \in DOMAIN ps : GoodParam(ps[j])

\* p is the parameter q as it was sent, unless its bytes have been overwritten.
Arrived(p, q) == p.type = q.type /\ (p.v = q.v \/ (p.type \in Pointers /\ p.v = "stale"))

\* n parameters of the group that is being read are there.
ParamsRead(r, l, n) ==
    \A j \in 1..n : GoodParam(r.params[l.i + 1][j]) /\ Arrived(l.params[j], r.params[l.i + 1][j])

\* The counts have been read, and l.i groups.
GroupsRead(r, l) ==
    /\ r.nparams \in Nat /\ l.nparams = r.nparams
    /\ r.fc = "FC_EXEC" => l.niter = r.niter
    /\ l.i \in 0..Len(r.params)
    /\ \A i \in 1..l.i : GoodGroup(r.params[i])
    /\ l.coltypes = <<>>

Located(r, p, l) ==
    /\ l.fc = r.fc
    /\ p \in {"sql", "niter", "nparams"} => l.i = 0 /\ l.params = <<>> /\ l.coltypes = <<>>
    /\ p = "niter" => r.fc = "FC_EXEC"
    /\ p = "nparams" /\ r.fc = "FC_EXEC" => l.niter = r.niter
    /\ p \in {"ptype", "pvalue", "bind"} => GroupsRead(r, l) /\ l.i < Len(r.params)
    /\ p = "ptype" => Len(l.params) < r.nparams /\ ParamsRead(r, l, Len(l.params))
    /\ p = "pvalue" =>
         /\ Len(l.params) \in 1..r.nparams
         /\ ParamsRead(r, l, Len(l.params) - 1)
         /\ l.params[Len(l.params)].type = r.params[l.i + 1][Len(l.params)].type
         /\ l.params[Len(l.params)].type # "VT_NULL"
    /\ p = "bind" => Len(l.params) = r.nparams /\ ParamsRead(r, l, r.nparams)
    /\ p \in {"ncols", "ctype", "step", "mark"} => r.fc = "FC_QUERY"
    /\ p \in {"ncols", "ctype", "step", "mark", "reply", "flush"} => Decodable(r)
    /\ p = "ncols" => l.coltypes = <<>>
    /\ p = "ctype" => /\ l.ncols = Len(r.coltypes) /\ Len(l.coltypes) < l.ncols
                      /\ l.coltypes = SubSeq(r.coltypes, 1, Len(l.coltypes))
    /\ p \in {"step", "mark"} => l.coltypes = r.coltypes
    /\ p \in {"reply", "flush"} /\ r.fc = "FC_EXEC" => l.i = Len(r.params)

-----------------------------------------------------------------------------
\* The invariant.

IsSeq(s) == s \in Seq({s[i] : i \in DOMAIN s})

Typed ==
    /\ TypeOK
    /\ rbuf \in Seq(Token) /\ stdin \in Seq(Seq(Token)) /\ todo \in Seq(Token)
    /\ \A i \in DOMAIN stdin : stdin[i] # <<>>
    /\ IsSeq(wbuf) /\ IsSeq(got)
    /\ IsSeq(stdout) /\ \A i \in DOMAIN stdout : IsSeq(stdout[i])

RequestMatches ==
    /\ req \in Requests \cup {QuitRequest, NoReq}
    /\ pc \in Handling => req \in Requests /\ req.fc \in {"FC_EXEC", "FC_QUERY"}
    /\ pc = "flush" => req # NoReq
    /\ pc \in Handling \cup {"flush"} => Located(req, pc, h) /\ Stream = Unread(req, pc, h)
    /\ pc = "fc" /\ Stream # <<>> => Stream = Encode(req) /\ req \in Requests \cup {QuitRequest}
    /\ pc \in {"quit", "closed"} => Stream = <<>> /\ req = QuitRequest

\* Between two requests.
Waiting == pc = "fc" /\ Stream = <<>>

ClientMatches ==
    /\ peer = "gone" <=> st = "dead"
    /\ st = "sending" => todo # <<>>
    /\ todo # <<>> => st \in {"sending", "dead", "lost"}
    /\ st = "idle" => Waiting /\ stdout = <<>>
    /\ st = "bye" => pc \in {"quit", "closed"}
    /\ st = "lost" => Down
    /\ Waiting /\ st \in {"idle", "reading"} => req # QuitRequest /\ (req # NoReq => Decodable(req))

WholeRows(s) == s = <<>> \/ Partial(req, s)

Replied == Waiting \/ pc \in {"quit", "closed"}

ReplyMatches ==
    /\ pc \notin {"step", "mark", "reply", "flush"} => wbuf = <<>>
    /\ pc \in {"step", "mark"} => WholeRows(wbuf)
    /\ pc = "reply" => IF req.fc = "FC_QUERY"
                       THEN \E s : IsSeq(s) /\ WholeRows(s) /\ wbuf = Append(s, Tok("byte", FALSE))
                       ELSE wbuf = <<>>
    /\ pc = "flush" => Complete(req, wbuf)
    /\ wbuf # <<>> \/ stdout # <<>> => Stream = <<>>
    /\ Stream # <<>> => got = <<>>
    /\ st = "reading" => WholeRows(got)
    /\ st # "dead" =>
         /\ \A i \in DOMAIN stdout : i < Len(stdout) \/ ~Replied => WholeRows(stdout[i])
         /\ Replied /\ st \in {"reading", "sending"} => stdout # <<>> /\ Complete(req, stdout[Len(stdout)])

ExchangeInv == ServerInv /\ Typed /\ RequestMatches /\ ClientMatches /\ ReplyMatches

-----------------------------------------------------------------------------
\* The encoding.

\* The first of two tokens.
LEMMA OneOfTwo ==
    ASSUME NEW x \in Token, NEW y \in Token, NEW p \in Seq(Token)
    PROVE  <<x, y>> \o p = <<x>> \o (<<y>> \o p)
  <1> DEFINE a == <<x>>
             b == <<y>>
             c == <<x, y>>
  <1>1. a \in Seq(Token) /\ b \in Seq(Token) /\ c \in Seq(Token)
    OBVIOUS
  <1>2. /\ Len(a) = 1 /\ Len(c) = Len(b) + 1
        /\ c[1] = a[1] /\ \A i \in 1..Len(b) : c[i + 1] = b[i]
    OBVIOUS
  <1> HIDE DEF a, b, c
  <1>3. c \o p = a \o (b \o p)
    BY <1>1, <1>2, FirstAndRest, ZenonT(60)
  <1>4. QED
    BY <1>3 DEF a, b, c

\* The first of three tokens.
LEMMA OneOfThree ==
    ASSUME NEW x \in Token, NEW y \in Token, NEW z \in Token, NEW p \in Seq(Token)
    PROVE  <<x, y, z>> \o p = <<x>> \o (<<y, z>> \o p)
  <1> DEFINE a == <<x>>
             b == <<y, z>>
             c == <<x, y, z>>
  <1>1. a \in Seq(Token) /\ b \in Seq(Token) /\ c \in Seq(Token)
    OBVIOUS
  <1>2. /\ Len(a) = 1 /\ Len(c) = Len(b) + 1
        /\ c[1] = a[1] /\ \A i \in 1..Len(b) : c[i + 1] = b[i]
    OBVIOUS
  <1> HIDE DEF a, b, c
  <1>3. c \o p = a \o (b \o p)
    BY <1>1, <1>2, FirstAndRest, ZenonT(60)
  <1>4. QED
    BY <1>3 DEF a, b, c

\* The first of four tokens.
LEMMA OneOfFour ==
    ASSUME NEW w \in Token, NEW x \in Token, NEW y \in Token, NEW z \in Token, NEW p \in Seq(Token)
    PROVE  <<w, x, y, z>> \o p = <<w>> \o (<<x, y, z>> \o p)
  <1> DEFINE a == <<w>>
             b == <<x, y, z>>
             c == <<w, x, y, z>>
  <1>1. a \in Seq(Token) /\ b \in Seq(Token) /\ c \in Seq(Token)
    OBVIOUS
  <1>2. /\ Len(a) = 1 /\ Len(c) = Len(b) + 1
        /\ c[1] = a[1] /\ \A i \in 1..Len(b) : c[i + 1] = b[i]
    OBVIOUS
  <1> HIDE DEF a, b, c
  <1>3. c \o p = a \o (b \o p)
    BY <1>1, <1>2, FirstAndRest, ZenonT(60)
  <1>4. QED
    BY <1>3 DEF a, b, c

\* A parameter is one token, its type, or two.
LEMMA ParamTokens ==
    ASSUME NEW r, IsRequest(r), NEW i \in DOMAIN r.params, NEW j \in DOMAIN r.params[i]
    PROVE  LET p == r.params[i][j]
               typ == [k |-> "byte", v |-> p.type, g |-> i]
           IN /\ p.type \in STRING /\ p.v \in STRING
              /\ typ \in Token /\ ValueTok(p, i) \in Token
              /\ p.type = "VT_NULL" => EncodeParam(p, i) = <<typ>>
              /\ p.type # "VT_NULL" => EncodeParam(p, i) = <<typ, ValueTok(p, i)>>
              /\ EncodeParam(p, i) \in Seq(Token)
  <1> DEFINE p == r.params[i][j]
             typ == [k |-> "byte", v |-> p.type, g |-> i]
             val == ValueTok(p, i)
  <1>1. p \in Param /\ i \in Nat
    <2>1. r.params \in Seq(Seq(Param))
      BY DEF IsRequest, Param
    <2>2. r.params[i] \in Seq(Param) /\ i \in Nat
      BY <2>1
    <2>3. QED
      BY <2>2
  <1>2. p.type \in STRING /\ p.v \in STRING
    BY <1>1 DEF Param
  <1>3. typ \in Token /\ val \in Token
    <2>1. Payload(p.type) \in TokenKinds
      BY DEF Payload, TokenKinds
    <2> HIDE DEF p
    <2>2. QED
      BY <1>1, <1>2, <2>1 DEF Token, TokenKinds, ValueTok
  <1>4. EncodeParam(p, i) = IF p.type = "VT_NULL" THEN <<typ>> ELSE <<typ, val>>
    BY DEF EncodeParam, ValueTok
  <1> HIDE DEF typ, val
  <1>5. <<typ>> \in Seq(Token) /\ <<typ, val>> \in Seq(Token)
    BY <1>3
  <1>6. QED
    BY <1>2, <1>3, <1>4, <1>5 DEF typ, val

\* The parts of an encoding.
LEMMA Parts ==
    ASSUME NEW r, IsRequest(r)
    PROVE  /\ \A i \in DOMAIN r.params :
                /\ Params(r, i) \in Seq(Seq(Token)) /\ Len(Params(r, i)) = Len(r.params[i])
                /\ EncodeGroup(r.params[i], i) = FlattenSeq(Params(r, i))
           /\ Groups(r) \in Seq(Seq(Token)) /\ Len(Groups(r)) = Len(r.params)
           /\ Types(r) \in Seq(Token) /\ Len(Types(r)) = Len(r.coltypes)
           /\ Len(r.params) \in Nat /\ DOMAIN r.params = 1..Len(r.params)
           /\ \A i \in DOMAIN r.params : Len(r.params[i]) \in Nat /\ DOMAIN r.params[i] = 1..Len(r.params[i])
           /\ Len(r.coltypes) \in Nat
           /\ Columns(r) \in Seq(Token)
  <1>1. r.params \in Seq(Seq(Param)) /\ r.coltypes \in Seq(STRING)
    BY DEF IsRequest, Param
  <1>2. ASSUME NEW i \in DOMAIN r.params
        PROVE  /\ Params(r, i) \in Seq(Seq(Token)) /\ Len(Params(r, i)) = Len(r.params[i])
               /\ EncodeGroup(r.params[i], i) = FlattenSeq(Params(r, i))
               /\ EncodeGroup(r.params[i], i) \in Seq(Token)
    <2>1. r.params[i] \in Seq(Param)
      BY <1>1
    <2>2. \A j \in DOMAIN r.params[i] : EncodeParam(r.params[i][j], i) \in Seq(Token)
      BY ParamTokens
    <2>3. Params(r, i) \in Seq(Seq(Token)) /\ Len(Params(r, i)) = Len(r.params[i])
      <3> DEFINE ps == Params(r, i)
                 n == Len(r.params[i])
      <3>1. n \in Nat /\ DOMAIN r.params[i] = 1..n
        BY <2>1
      <3>2. ps = [j \in 1..n |-> ps[j]] /\ \A j \in 1..n : ps[j] \in Seq(Token)
        BY <2>2, <3>1 DEF Params
      <3> HIDE DEF ps, n
      <3>3. ps \in Seq(Seq(Token)) /\ Len(ps) = n
        BY <3>1, <3>2, SeqIntro
      <3>4. QED
        BY <3>3 DEF ps, n
    <2>4. EncodeGroup(r.params[i], i) = FlattenSeq(Params(r, i))
      BY DEF EncodeGroup, Params
    <2>5. QED
      BY <2>3, <2>4, FlattenType
  <1>3. Groups(r) \in Seq(Seq(Token)) /\ Len(Groups(r)) = Len(r.params)
    <2> DEFINE gs == Groups(r)
               n == Len(r.params)
    <2>1. n \in Nat /\ DOMAIN r.params = 1..n
      BY <1>1
    <2>2. gs = [i \in 1..n |-> gs[i]] /\ \A i \in 1..n : gs[i] \in Seq(Token)
      BY <1>2, <2>1 DEF Groups
    <2> HIDE DEF gs, n
    <2>3. gs \in Seq(Seq(Token)) /\ Len(gs) = n
      BY <2>1, <2>2, SeqIntro
    <2>4. QED
      BY <2>3 DEF gs, n
  <1>4. \A n \in DOMAIN r.coltypes : Tok("byte", r.coltypes[n]) \in Token
    BY <1>1 DEF Tok, Token, TokenKinds
  <1>5. Types(r) \in Seq(Token) /\ Len(Types(r)) = Len(r.coltypes)
    BY <1>1, <1>4 DEF Types
  <1>6. Tok("int32", Len(r.coltypes)) \in Token
    BY <1>1 DEF Tok, Token, TokenKinds
  <1>7. Columns(r) \in Seq(Token)
    BY <1>5, <1>6 DEF Columns
  <1>8. QED
    BY <1>1, <1>2, <1>3, <1>5, <1>7

\* After the last parameter of a group comes what follows the group.
LEMMA GroupEnd ==
    ASSUME NEW r, IsRequest(r), NEW i \in DOMAIN r.params
    PROVE  /\ AfterGroup(r, i) \in Seq(Token)
           /\ AfterParam(r, i, Len(r.params[i])) = AfterGroup(r, i)
           /\ r.fc = "FC_EXEC" /\ i = Len(r.params) => AfterGroup(r, i) = <<>>
  <1> DEFINE n == Len(r.params[i])
             a == ParamsAfter(r, i, n)
             b == AfterGroup(r, i)
  <1>1. a = <<>>
    <2>1. Params(r, i) \in Seq(Seq(Token)) /\ Len(Params(r, i)) = n /\ n \in 0..n
      BY Parts
    <2>2. QED
      BY <2>1, FlattenSuffix DEF ParamsAfter
  <1>2. GroupsAfter(r, i) \in Seq(Token) /\ (i = Len(r.params) => GroupsAfter(r, i) = <<>>)
    <2>1. Groups(r) \in Seq(Seq(Token)) /\ Len(Groups(r)) = Len(r.params) /\ i \in 0..Len(r.params)
      BY Parts
    <2>2. QED
      BY <2>1, FlattenSuffix DEF GroupsAfter
  <1>3. b \in Seq(Token)
    BY <1>2, Parts DEF AfterGroup
  <1>4. AfterParam(r, i, n) = a \o b
    BY DEF AfterParam
  <1>5. r.fc = "FC_EXEC" /\ i = Len(r.params) => b = <<>>
    BY <1>2 DEF AfterGroup
  <1> HIDE DEF a, b
  <1>6. a \o b = b
    BY <1>1, <1>3, ConcatEmptySeq
  <1>7. QED
    BY <1>3, <1>4, <1>5, <1>6 DEF b, n

\* The next parameter of a group.
LEMMA NextParamTokens ==
    ASSUME NEW r, IsRequest(r), NEW i \in DOMAIN r.params, NEW j \in 0..(Len(r.params[i]) - 1)
    PROVE  LET p == r.params[i][j + 1]
               typ == [k |-> "byte", v |-> p.type, g |-> i]
           IN /\ AfterParam(r, i, j + 1) \in Seq(Token)
              /\ typ \in Token /\ ValueTok(p, i) \in Token
              /\ p.type = "VT_NULL" => AfterParam(r, i, j) = <<typ>> \o AfterParam(r, i, j + 1)
              /\ p.type # "VT_NULL" =>
                   AfterParam(r, i, j) = <<typ>> \o (<<ValueTok(p, i)>> \o AfterParam(r, i, j + 1))
  <1> DEFINE p == r.params[i][j + 1]
             typ == [k |-> "byte", v |-> p.type, g |-> i]
             val == ValueTok(p, i)
             e == EncodeParam(p, i)
             a == ParamsAfter(r, i, j + 1)
             b == AfterGroup(r, i)
  <1>1. Len(r.params[i]) \in Nat /\ DOMAIN r.params[i] = 1..Len(r.params[i])
    BY Parts
  <1>2. j + 1 \in DOMAIN r.params[i] /\ j \in Nat /\ j # Len(r.params[i])
    BY <1>1
  <1>3. /\ typ \in Token /\ val \in Token /\ e \in Seq(Token)
        /\ p.type = "VT_NULL" => e = <<typ>>
        /\ p.type # "VT_NULL" => e = <<typ, val>>
    BY <1>2, ParamTokens
  <1>4. ParamsAfter(r, i, j) = e \o a /\ a \in Seq(Token)
    <2>1. /\ Params(r, i) \in Seq(Seq(Token)) /\ Len(Params(r, i)) = Len(r.params[i])
          /\ j \in 0..Len(Params(r, i)) /\ j + 1 \in 0..Len(Params(r, i))
      BY <1>1, Parts
    <2>2. Params(r, i)[j + 1] = e
      BY <1>2 DEF Params
    <2>3. FlattenSeq(SubSeq(Params(r, i), j + 1 + 1, Len(Params(r, i)))) \in Seq(Token)
      BY <2>1, FlattenSuffix
    <2>4. FlattenSeq(SubSeq(Params(r, i), j + 1, Len(Params(r, i))))
            = Params(r, i)[j + 1] \o FlattenSeq(SubSeq(Params(r, i), j + 1 + 1, Len(Params(r, i))))
      BY <1>2, <2>1, FlattenSuffix
    <2>5. QED
      BY <2>2, <2>3, <2>4 DEF ParamsAfter
  <1>5. b \in Seq(Token)
    BY GroupEnd
  <1>6. AfterParam(r, i, j) = (e \o a) \o b /\ AfterParam(r, i, j + 1) = a \o b
    BY <1>4 DEF AfterParam
  <1> HIDE DEF p, typ, val, e, a, b
  <1>7. (e \o a) \o b = e \o (a \o b)
    <2>1. \A x, y, z \in Seq(Token) : (x \o y) \o z = x \o (y \o z)
      BY ONLY ConcatAssociative, SMTT(60)
    <2>2. QED
      BY <1>3, <1>4, <1>5, <2>1, Zenon
  <1> DEFINE ab == a \o b
  <1>8. ab \in Seq(Token)
    BY <1>4, <1>5
  <1>9. AfterParam(r, i, j) = e \o ab /\ AfterParam(r, i, j + 1) = ab
    BY <1>6, <1>7
  <1> HIDE DEF ab
  <1>10. <<typ, val>> \o ab = <<typ>> \o (<<val>> \o ab)
    BY <1>3, <1>8, OneOfTwo, Zenon
  <1>11. QED
    BY <1>3, <1>8, <1>9, <1>10 DEF p, typ, val

\* The groups of FC_EXEC follow one another.
LEMMA NextGroup ==
    ASSUME NEW r, IsRequest(r), NEW i \in 0..Len(r.params)
    PROVE  /\ GroupsAfter(r, i) \in Seq(Token)
           /\ i = Len(r.params) => GroupsAfter(r, i) = <<>>
           /\ r.fc = "FC_EXEC" /\ i # Len(r.params) => GroupsAfter(r, i) = AfterParam(r, i + 1, 0)
  <1>1. Groups(r) \in Seq(Seq(Token)) /\ Len(Groups(r)) = Len(r.params) /\ i \in 0..Len(Groups(r))
    BY Parts
  <1>2. GroupsAfter(r, i) \in Seq(Token) /\ (i = Len(r.params) => GroupsAfter(r, i) = <<>>)
    BY <1>1, FlattenSuffix DEF GroupsAfter
  <1>3. CASE r.fc = "FC_EXEC" /\ i # Len(r.params)
    <2>1. i + 1 \in DOMAIN r.params /\ i \in Nat
      BY <1>3, Parts
    <2>2. GroupsAfter(r, i) = Groups(r)[i + 1] \o GroupsAfter(r, i + 1)
      BY <1>1, <1>3, FlattenSuffix DEF GroupsAfter
    <2>3. Groups(r)[i + 1] = FlattenSeq(Params(r, i + 1))
      BY <2>1, Parts DEF Groups
    <2>4. ParamsAfter(r, i + 1, 0) = FlattenSeq(Params(r, i + 1))
      <3>1. Params(r, i + 1) \in Seq(Seq(Token))
        BY <2>1, Parts
      <3>2. SubSeq(Params(r, i + 1), 0 + 1, Len(Params(r, i + 1))) = Params(r, i + 1)
        BY <3>1, SubSeqFull
      <3>3. QED
        BY <3>2 DEF ParamsAfter
    <2>5. AfterParam(r, i + 1, 0) = ParamsAfter(r, i + 1, 0) \o GroupsAfter(r, i + 1)
      BY <1>3 DEF AfterParam, AfterGroup
    <2>6. QED
      BY <1>2, <1>3, <2>2, <2>3, <2>4, <2>5
  <1>4. QED
    BY <1>2, <1>3

\* The parts of an encoding in the order in which they are read.
LEMMA EncodeIs ==
    ASSUME NEW r, IsRequest(r), r.fc \in {"FC_EXEC", "FC_QUERY"}
    PROVE  /\ Encode(r) = <<Tok("byte", r.fc)>> \o FromSql(r)
           /\ Tok("byte", r.fc) \in Token /\ Tok("string", r.sql) \in Token
           /\ Tok("int32", r.niter) \in Token /\ Tok("int32", r.nparams) \in Token
           /\ FromSql(r) \in Seq(Token) /\ FromNiter(r) \in Seq(Token)
           /\ FromNparams(r) \in Seq(Token) /\ FromParams(r) \in Seq(Token)
  <1> DEFINE f == Tok("byte", r.fc)
             s == Tok("string", r.sql)
             n == Tok("int32", r.niter)
             m == Tok("int32", r.nparams)
             p == FromParams(r)
  <1>1. f \in Token /\ s \in Token /\ n \in Token /\ m \in Token
    <2>1. /\ r.fc \in STRING /\ r.sql \in STRING /\ r.nparams \in Int
          /\ r.niter \in Int
      BY Parts DEF IsRequest
    <2>2. QED
      BY <2>1 DEF Tok, Token, TokenKinds
  <1>2. /\ GroupsAfter(r, 0) \in Seq(Token) /\ GroupsAfter(r, 0) = FlattenSeq(Groups(r))
    <2>1. 0 \in 0..Len(r.params)
      BY Parts
    <2>2. SubSeq(Groups(r), 0 + 1, Len(Groups(r))) = Groups(r)
      BY Parts, SubSeqFull
    <2>3. QED
      BY <2>1, <2>2, NextGroup DEF GroupsAfter
  <1>3. CASE r.fc = "FC_EXEC"
    <2>1. p \in Seq(Token) /\ p = FlattenSeq(Groups(r))
      BY <1>2, <1>3 DEF FromParams
    <2>2. Encode(r) = <<f, s, n, m>> \o p
      BY <1>3, <2>1, Zenon DEF Encode, Groups
    <2>3. /\ FromSql(r) = <<s>> \o FromNiter(r)
          /\ FromNiter(r) = <<n>> \o FromNparams(r)
          /\ FromNparams(r) = <<m>> \o p
      BY <1>3 DEF FromSql, FromNiter, FromNparams
    <2> HIDE DEF f, s, n, m, p
    <2>4. Encode(r) = <<f>> \o FromSql(r)
      <3>1. <<f, s, n, m>> \o p = <<f>> \o (<<s>> \o (<<n>> \o (<<m>> \o p)))
        <4>1. p \in Seq(Token) /\ <<m>> \o p \in Seq(Token)
          BY <1>1, <2>1
        <4>2. <<f, s, n, m>> \o p = <<f>> \o (<<s, n, m>> \o p)
          <5>1. \A y \in Token, z \in Token, q \in Seq(Token) :
                   <<f, s, y, z>> \o q = <<f>> \o (<<s, y, z>> \o q)
            BY <1>1, OneOfFour, Zenon
          <5>2. QED
            BY <1>1, <4>1, <5>1, Zenon
        <4>3. <<s, n, m>> \o p = <<s>> \o (<<n, m>> \o p)
          BY <1>1, <4>1, OneOfThree, ZenonT(60)
        <4>4. <<n, m>> \o p = <<n>> \o (<<m>> \o p)
          BY <1>1, <4>1, OneOfTwo, Zenon
        <4>5. QED
          BY <4>2, <4>3, <4>4, Zenon
      <3>2. QED
        BY <2>2, <2>3, <3>1
    <2>5. /\ FromNparams(r) \in Seq(Token)
          /\ FromNiter(r) \in Seq(Token)
          /\ FromSql(r) \in Seq(Token)
      BY <1>1, <2>1, <2>3
    <2>6. QED
      BY <1>1, <2>1, <2>4, <2>5 DEF f, s, n, m, p
  <1>4. CASE r.fc = "FC_QUERY"
    <2> DEFINE g == EncodeGroup(r.params[1], 1)
               c == <<Tok("int32", Len(r.coltypes))>>
               t == Types(r)
    <2>1. 1 \in DOMAIN r.params
      BY <1>4, Parts DEF IsRequest
    <2>2. g = ParamsAfter(r, 1, 0) /\ g \in Seq(Token)
      <3>1. Params(r, 1) \in Seq(Seq(Token)) /\ g = FlattenSeq(Params(r, 1))
        BY <2>1, Parts
      <3>2. SubSeq(Params(r, 1), 0 + 1, Len(Params(r, 1))) = Params(r, 1)
        BY <3>1, SubSeqFull
      <3>3. QED
        BY <3>1, <3>2, FlattenType DEF ParamsAfter
    <2>3. p = g \o (c \o t)
      BY <1>4, <2>2 DEF FromParams, AfterParam, AfterGroup, Columns
    <2>4. c \in Seq(Token) /\ t \in Seq(Token)
      <3>1. Tok("int32", Len(r.coltypes)) \in Token
        BY Parts DEF Tok, Token, TokenKinds
      <3>2. QED
        BY <3>1, Parts
    <2>5. Encode(r) = ((<<f, s, m>> \o g) \o c) \o t
      BY <1>4, Zenon DEF Encode, Types
    <2>6. FromSql(r) = <<s>> \o (<<m>> \o p) /\ FromNparams(r) = <<m>> \o p
      BY <1>4 DEF FromSql, FromNparams
    <2>7. FromNiter(r) = <<n>> \o FromNparams(r)
      BY DEF FromNiter
    <2> HIDE DEF f, s, n, m, p, g, c, t
    <2>8. p \in Seq(Token)
      BY <2>2, <2>3, <2>4
    <2>9. ((<<f, s, m>> \o g) \o c) \o t = <<f, s, m>> \o p
      <3> DEFINE a == <<f, s, m>>
      <3>1. a \in Seq(Token)
        BY <1>1
      <3> HIDE DEF a
      <3>2. (a \o g) \o c = a \o (g \o c)
        <4>1. g \in Seq(Token)
          BY <2>2
        <4>2. QED
          <5>1. \A x, y, z \in Seq(Token) : (x \o y) \o z = x \o (y \o z)
            BY ONLY ConcatAssociative, SMTT(60)
          <5>2. QED
            BY <4>1, <2>4, <3>1, <5>1, Zenon
      <3>6. (g \o c) \o t = g \o (c \o t)
        <4>1. g \in Seq(Token)
          BY <2>2
        <4>2. QED
          <5>1. \A x, y, z \in Seq(Token) : (x \o y) \o z = x \o (y \o z)
            BY ONLY ConcatAssociative, SMTT(60)
          <5>2. QED
            BY <4>1, <2>4, <5>1, Zenon
      <3> DEFINE gc == g \o c
      <3>3. gc \in Seq(Token)
        BY <2>2, <2>4
      <3> HIDE DEF gc
      <3>4. (a \o gc) \o t = a \o (gc \o t)
        <4>1. \A x, y, z \in Seq(Token) : (x \o y) \o z = x \o (y \o z)
          BY ONLY ConcatAssociative, SMTT(60)
        <4>2. QED
          BY <2>4, <3>1, <3>3, <4>1, Zenon
      <3>5. QED
        BY <2>3, <3>2, <3>6, <3>4 DEF a, gc
    <2>10. Encode(r) = <<f>> \o FromSql(r)
      <3>1. <<f, s, m>> \o p = <<f>> \o (<<s>> \o (<<m>> \o p))
        <4>1. <<f, s, m>> \o p = <<f>> \o (<<s, m>> \o p)
          BY <1>1, <2>8, OneOfThree, ZenonT(60)
        <4>2. <<s, m>> \o p = <<s>> \o (<<m>> \o p)
          BY <1>1, <2>8, OneOfTwo, Zenon
        <4>3. QED
          BY <4>1, <4>2, Zenon
      <3>2. QED
        BY <2>5, <2>6, <2>9, <3>1
    <2>11. FromNparams(r) \in Seq(Token)
      BY <1>1, <2>6, <2>8
    <2>12. FromSql(r) \in Seq(Token) /\ FromNiter(r) \in Seq(Token)
      BY <1>1, <2>6, <2>7, <2>11
    <2>13. QED
      BY <1>1, <2>8, <2>10, <2>11, <2>12 DEF f, s, n, m, p
  <1>5. QED
    BY <1>3, <1>4

\* The first parameter of all comes after the counts.
LEMMA FirstParam ==
    ASSUME NEW r, IsRequest(r), r.fc \in {"FC_EXEC", "FC_QUERY"}
    PROVE  FromParams(r) = IF r.params = <<>> THEN <<>> ELSE AfterParam(r, 1, 0)
  <1>1. /\ Len(r.params) \in Nat /\ 0 \in 0..Len(r.params) /\ DOMAIN r.params = 1..Len(r.params)
        /\ r.params = <<>> <=> Len(r.params) = 0
    BY Parts DEF IsRequest
  <1>2. r.fc = "FC_QUERY" => Len(r.params) = 1
    BY DEF IsRequest
  <1>3. QED
    BY <1>1, <1>2, NextGroup DEF FromParams

\* The wanted types follow one another.
LEMMA NextType ==
    ASSUME NEW r, IsRequest(r), NEW n \in 0..Len(r.coltypes)
    PROVE  /\ TypesAfter(r, n) \in Seq(Token)
           /\ n = Len(r.coltypes) => TypesAfter(r, n) = <<>>
           /\ n # Len(r.coltypes) =>
                /\ Tok("byte", r.coltypes[n + 1]) \in Token
                /\ TypesAfter(r, n) = <<Tok("byte", r.coltypes[n + 1])>> \o TypesAfter(r, n + 1)
           /\ TypesAfter(r, 0) = Types(r)
  <1> DEFINE t == Types(r)
  <1>1. t \in Seq(Token) /\ Len(t) = Len(r.coltypes) /\ Len(r.coltypes) \in Nat
    BY Parts
  <1>2. \A i \in 1..Len(r.coltypes) : t[i] = Tok("byte", r.coltypes[i])
    BY DEF Types, IsRequest
  <1>3. TypesAfter(r, n) = SubSeq(t, n + 1, Len(t)) /\ TypesAfter(r, n + 1) = SubSeq(t, n + 1 + 1, Len(t))
        /\ TypesAfter(r, 0) = SubSeq(t, 0 + 1, Len(t))
    BY DEF TypesAfter
  <1> HIDE DEF t
  <1>4. SubSeq(t, n + 1, Len(t)) \in Seq(Token)
    BY <1>1
  <1>5. n = Len(t) => SubSeq(t, n + 1, Len(t)) = <<>>
    BY <1>1, CutInTwo
  <1>7. SubSeq(t, 0 + 1, Len(t)) = t
    BY <1>1, SubSeqFull
  <1>6. CASE n # Len(t)
    <2>1. n + 1 \in 1..Len(t) /\ Len(t) \in (n + 1)..Len(t)
      BY <1>1, <1>6
    <2>2. SubSeq(t, n + 1, Len(t)) = <<t[n + 1]>> \o SubSeq(t, n + 1 + 1, Len(t))
      BY <1>1, <2>1, SubSeqRecursiveFirst
    <2>3. t[n + 1] \in Token /\ t[n + 1] = Tok("byte", r.coltypes[n + 1])
      BY <1>1, <1>2, <2>1
    <2>4. QED
      BY <1>1, <1>3, <1>4, <1>6, <1>7, <2>2, <2>3 DEF t
  <1>8. QED
    BY <1>1, <1>3, <1>4, <1>5, <1>6, <1>7 DEF t

-----------------------------------------------------------------------------
\* What is in the pipe.

\* Regrouping tokens.
LEMMA Regroup3 == \A a, b, c \in Seq(Token) : (a \o b) \o c = a \o (b \o c)
  BY ConcatAssociative, SMTT(60)

\* The same for four parts, of which the inner ones belong together.
LEMMA Regroup2 ==
    ASSUME NEW a \in Seq(Token), NEW b \in Seq(Token), NEW c \in Seq(Token), NEW d \in Seq(Token)
    PROVE  (a \o (b \o c)) \o d = (a \o b) \o (c \o d)
  <1> DEFINE ab == a \o b
  <1>1. ab \in Seq(Token)
    BY ConcatProperties
  <1>2. ab \o c = a \o (b \o c)
    BY Regroup3, Zenon
  <1> HIDE DEF ab
  <1>3. (ab \o c) \o d = ab \o (c \o d)
    <2>1. \A y, z \in Seq(Token) : (ab \o y) \o z = ab \o (y \o z)
      BY <1>1, Regroup3, Zenon
    <2>2. \A z \in Seq(Token) : (ab \o c) \o z = ab \o (c \o z)
      BY <2>1, Zenon
    <2>3. QED
      BY <2>2, Zenon
  <1>4. QED
    BY <1>2, <1>3, Zenon DEF ab

\* The first token of what has not been read is the first in the Reader's buffer.
LEMMA HeadOfStream ==
    ASSUME NEW a \in Seq(Token), NEW b \in Seq(Token), NEW c \in Seq(Token),
           NEW t \in Token, NEW rest \in Seq(Token)
    PROVE  a # <<>> /\ (a \o b) \o c = <<t>> \o rest
           => Tail(a) \in Seq(Token) /\ Head(a) = t /\ (Tail(a) \o b) \o c = rest
  <1> DEFINE first == <<t>>
  <1>1. ASSUME NEW one \in Seq(Token), NEW u \in Seq(Token), NEW f \in Seq(Token), Len(one) = 1 /\ Len(f) = 1
        PROVE  ((one \o u) \o b) \o c = f \o rest => one[1] = f[1] /\ (u \o b) \o c = rest
    <2> DEFINE n == (u \o b) \o c
    <2>1. ((one \o u) \o b) \o c = one \o ((u \o b) \o c)
      <3>1. (one \o u) \o b = one \o (u \o b)
        <4>1. \A y, z \in Seq(Token) : (one \o y) \o z = one \o (y \o z)
          BY Regroup3, Zenon
        <4>2. \A z \in Seq(Token) : (one \o u) \o z = one \o (u \o z)
          BY <4>1, Zenon
        <4>3. QED
          BY <4>2, Zenon
      <3> DEFINE m == u \o b
      <3>2. m \in Seq(Token)
        BY ConcatProperties
      <3> HIDE DEF m
      <3>3. (one \o m) \o c = one \o (m \o c)
        <4>1. \A y, z \in Seq(Token) : (one \o y) \o z = one \o (y \o z)
          BY Regroup3, Zenon
        <4>2. \A z \in Seq(Token) : (one \o m) \o z = one \o (m \o z)
          BY <3>2, <4>1, Zenon
        <4>3. QED
          BY <4>2, Zenon
      <3>4. QED
        BY <3>1, <3>3, Zenon DEF m
    <2>2. n \in Seq(Token)
      OBVIOUS
    <2> HIDE DEF n
    <2>3. one \o n = f \o rest => one[1] = f[1] /\ n = rest
      BY <1>1, <2>2, SameRest
    <2>4. QED
      BY <2>1, <2>3 DEF n
  <1>2. ASSUME a # <<>>, (a \o b) \o c = first \o rest
        PROVE  Tail(a) \in Seq(Token) /\ Head(a) = t /\ (Tail(a) \o b) \o c = rest
    <2> DEFINE x == Head(a)
               u == Tail(a)
               one == <<x>>
    <2>1. x \in Token /\ u \in Seq(Token) /\ a = one \o u
      BY <1>2, HeadTailProperties, HeadTailConcat
    <2>2. one \in Seq(Token) /\ first \in Seq(Token) /\ Len(one) = 1 /\ Len(first) = 1
          /\ one[1] = x /\ first[1] = t
      BY <2>1
    <2> HIDE DEF x, u, one, first
    <2>3. ((one \o u) \o b) \o c = first \o rest => one[1] = first[1] /\ (u \o b) \o c = rest
      BY <1>1, <2>1, <2>2
    <2>4. QED
      BY <1>2, <2>1, <2>2, <2>3 DEF x, u
  <1>3. QED
    BY <1>2 DEF first

\* Nothing is left in the pipe only if nothing is left anywhere.
LEMMA EmptyStream ==
    ASSUME Typed
    PROVE  Stream = <<>> <=> rbuf = <<>> /\ stdin = <<>> /\ todo = <<>>
  <1> DEFINE f == FlattenSeq(stdin)
             m == rbuf \o f
  <1>1. /\ rbuf \in Seq(Token) /\ stdin \in Seq(Seq(Token)) /\ todo \in Seq(Token)
        /\ \A i \in DOMAIN stdin : stdin[i] # <<>>
    BY DEF Typed
  <1>2. f \in Seq(Token)
    BY <1>1, FlattenType
  <1>3. f = <<>> <=> stdin = <<>>
    BY <1>1, FlattenEmpty, FlattenNothing
  <1>4. Stream = m \o todo
    BY DEF Stream
  <1> HIDE DEF f
  <1>5. m \in Seq(Token) /\ (m = <<>> <=> rbuf = <<>> /\ f = <<>>)
    BY <1>1, <1>2, ConcatProperties, ConcatEqualIffEmpty
  <1> HIDE DEF m
  <1>6. m \o todo = <<>> <=> m = <<>> /\ todo = <<>>
    BY <1>1, <1>5, ConcatEqualIffEmpty
  <1>7. QED
    BY <1>3, <1>4, <1>5, <1>6

\* Reading a frame into the buffer leaves what is to be read as it is.
LEMMA FrameStream ==
    ASSUME Typed, rbuf = <<>>, stdin # <<>>,
           rbuf' = Head(stdin), stdin' = Tail(stdin), todo' = todo
    PROVE  /\ Stream' = Stream
           /\ rbuf' \in Seq(Token) /\ stdin' \in Seq(Seq(Token))
           /\ \A i \in DOMAIN stdin' : stdin'[i] # <<>>
           /\ Len(stdin') <= Len(stdin)
  <1> DEFINE f == FlattenSeq(stdin)
             g == FlattenSeq(Tail(stdin))
             x == Head(stdin)
  <1>1. stdin \in Seq(Seq(Token)) /\ \A i \in DOMAIN stdin : stdin[i] # <<>>
    BY DEF Typed
  <1>2. /\ x \in Seq(Token) /\ Tail(stdin) \in Seq(Seq(Token))
        /\ Len(Tail(stdin)) = Len(stdin) - 1
        /\ \A i \in 1..Len(Tail(stdin)) : Tail(stdin)[i] = stdin[i + 1]
    BY <1>1, HeadTailProperties
  <1>3. f = x \o g
    BY <1>1, FlattenHeadTail
  <1>4. f \in Seq(Token)
    BY <1>1, FlattenType
  <1>5. Stream = (rbuf \o f) \o todo /\ Stream' = (x \o g) \o todo
    BY DEF Stream
  <1>6. \A i \in DOMAIN stdin' : stdin'[i] # <<>>
    <2>1. \A i \in 1..Len(Tail(stdin)) : i + 1 \in DOMAIN stdin
      BY <1>1, <1>2
    <2>2. DOMAIN Tail(stdin) = 1..Len(Tail(stdin))
      BY <1>2
    <2>3. QED
      BY <1>1, <1>2, <2>1, <2>2
  <1> HIDE DEF f, g, x
  <1>7. rbuf \o f = f
    BY <1>4, ConcatEmptySeq
  <1>8. Len(stdin') <= Len(stdin)
    BY <1>1, <1>2, SMTT(60)
  <1>9. QED
    BY <1>2, <1>3, <1>5, <1>6, <1>7, <1>8 DEF x

\* So does the client's sending of a frame.
LEMMA SentStream ==
    ASSUME Typed, NEW k \in 1..Len(todo),
           stdin' = Append(stdin, SubSeq(todo, 1, k)), todo' = SubSeq(todo, k + 1, Len(todo)),
           rbuf' = rbuf
    PROVE  /\ Stream' = Stream
           /\ stdin' \in Seq(Seq(Token)) /\ todo' \in Seq(Token)
           /\ \A i \in DOMAIN stdin' : stdin'[i] # <<>>
           /\ Len(stdin') = Len(stdin) + 1
           /\ todo' = <<>> <=> k = Len(todo)
  <1> DEFINE f == FlattenSeq(stdin)
             x == SubSeq(todo, 1, k)
             y == SubSeq(todo, k + 1, Len(todo))
  <1>1. /\ rbuf \in Seq(Token) /\ stdin \in Seq(Seq(Token)) /\ todo \in Seq(Token)
        /\ \A i \in DOMAIN stdin : stdin[i] # <<>>
    BY DEF Typed
  <1>2. k \in 0..Len(todo) /\ k # 0
    BY <1>1
  <1>3. /\ x \in Seq(Token) /\ y \in Seq(Token) /\ x \o y = todo /\ x # <<>>
        /\ y = <<>> <=> k = Len(todo)
    BY <1>1, <1>2, CutInTwo
  <1>4. f \in Seq(Token)
    BY <1>1, FlattenType
  <1> HIDE DEF x, y
  <1>5. FlattenSeq(Append(stdin, x)) = f \o x
    BY <1>1, <1>3, FlattenAppend
  <1>6. Stream = (rbuf \o f) \o todo /\ Stream' = (rbuf \o (f \o x)) \o y
    BY <1>5 DEF Stream, x, y
  <1>7. /\ Append(stdin, x) \in Seq(Seq(Token)) /\ Len(Append(stdin, x)) = Len(stdin) + 1
        /\ \A i \in DOMAIN Append(stdin, x) : Append(stdin, x)[i] # <<>>
    <2>1. /\ Append(stdin, x) \in Seq(Seq(Token)) /\ Len(Append(stdin, x)) = Len(stdin) + 1
          /\ \A i \in 1..Len(stdin) : Append(stdin, x)[i] = stdin[i]
          /\ Append(stdin, x)[Len(stdin) + 1] = x
      BY <1>1, <1>3, AppendProperties
    <2>2. DOMAIN Append(stdin, x) = 1..(Len(stdin) + 1) /\ DOMAIN stdin = 1..Len(stdin)
          /\ Len(stdin) \in Nat
      BY <1>1, <2>1
    <2> DEFINE ap == Append(stdin, x)
    <2> HIDE DEF ap
    <2>3. \A i \in DOMAIN ap : ap[i] # <<>>
      BY <1>1, <1>3, <2>1, <2>2 DEF ap
    <2>4. QED
      BY <2>1, <2>3 DEF ap
  <1> HIDE DEF f
  <1>8. (rbuf \o (f \o x)) \o y = (rbuf \o f) \o (x \o y)
    <2>1. \A b, c, d \in Seq(Token) : (rbuf \o (b \o c)) \o d = (rbuf \o b) \o (c \o d)
      BY <1>1, Regroup2, Zenon
    <2>2. \A c, d \in Seq(Token) : (rbuf \o (f \o c)) \o d = (rbuf \o f) \o (c \o d)
      BY <1>4, <2>1, Zenon
    <2>3. \A d \in Seq(Token) : (rbuf \o (f \o x)) \o d = (rbuf \o f) \o (x \o d)
      BY <1>3, <2>2, Zenon
    <2>4. QED
      BY <1>3, <2>3, Zenon
  <1>9. QED
    BY <1>3, <1>6, <1>7, <1>8 DEF x, y

\* Reading a token takes the first from what is to be read.
LEMMA TokenStream ==
    ASSUME Typed, rbuf # <<>>, rbuf' = Tail(rbuf), stdin' = stdin, todo' = todo,
           NEW t \in Token, NEW rest \in Seq(Token), Stream = <<t>> \o rest
    PROVE  Head(rbuf) = t /\ Stream' = rest /\ rbuf' \in Seq(Token)
  <1> DEFINE f == FlattenSeq(stdin)
  <1>1. rbuf \in Seq(Token) /\ stdin \in Seq(Seq(Token)) /\ todo \in Seq(Token)
    BY DEF Typed
  <1>2. f \in Seq(Token)
    BY <1>1, FlattenType
  <1>3. Stream = (rbuf \o f) \o todo /\ Stream' = (Tail(rbuf) \o f) \o todo
    BY DEF Stream
  <1> HIDE DEF f
  <1>4. (rbuf \o f) \o todo = <<t>> \o rest
    BY <1>3
  <1>5. QED
    <2>0. \A b \in Seq(Token), c \in Seq(Token), u \in Token, r \in Seq(Token) :
             rbuf # <<>> /\ (rbuf \o b) \o c = <<u>> \o r
             => Tail(rbuf) \in Seq(Token) /\ Head(rbuf) = u /\ (Tail(rbuf) \o b) \o c = r
      BY <1>1, HeadOfStream, Zenon
    <2>1. \A c \in Seq(Token), u \in Token, r \in Seq(Token) :
             rbuf # <<>> /\ (rbuf \o f) \o c = <<u>> \o r
             => Tail(rbuf) \in Seq(Token) /\ Head(rbuf) = u /\ (Tail(rbuf) \o f) \o c = r
      BY <1>2, <2>0, Zenon
    <2>2. \A u \in Token, r \in Seq(Token) :
             rbuf # <<>> /\ (rbuf \o f) \o todo = <<u>> \o r
             => Tail(rbuf) \in Seq(Token) /\ Head(rbuf) = u /\ (Tail(rbuf) \o f) \o todo = r
      BY <1>1, <2>1, Zenon
    <2>3. Tail(rbuf) \in Seq(Token) /\ Head(rbuf) = t /\ (Tail(rbuf) \o f) \o todo = rest
      BY <1>4, <2>2, Zenon
    <2>4. QED
      BY <1>3, <2>3

-----------------------------------------------------------------------------
\* The handlers.

\* The counts of a request whose group i has been reached.
LEMMA GroupShape ==
    ASSUME NEW r, IsRequest(r), r.nparams \in Nat, NEW i \in 1..Len(r.params)
    PROVE  Len(r.params[i]) = r.nparams /\ i \in DOMAIN r.params
  BY Parts DEF IsRequest

\* Where NextParam goes is where what has been read ends (the loops of _fcExec
\* and _fcQuery).
LEMMA NextPoint ==
    ASSUME NEW r, IsRequest(r), r.fc \in {"FC_EXEC", "FC_QUERY"},
           NEW l, l.fc = r.fc, GroupsRead(r, l),
           Len(l.params) \in 0..r.nparams, l.params = <<>> <=> Len(l.params) = 0,
           l.i < Len(r.params) => ParamsRead(r, l, Len(l.params)),
           l.i < Len(r.params) \/ (r.fc = "FC_EXEC" /\ l.params = <<>>)
    PROVE  /\ NextParam(l) \in {"ptype", "bind", "reply"}
           /\ NextParam(l) = "reply" => r.fc = "FC_EXEC"
           /\ Located(r, NextParam(l), l)
           /\ Unread(r, NextParam(l), l)
                = IF l.i < Len(r.params) THEN AfterParam(r, l.i + 1, Len(l.params)) ELSE <<>>
  <1>1. Len(r.params) \in Nat /\ DOMAIN r.params = 1..Len(r.params) /\ r.nparams \in Nat
        /\ l.i \in Nat
    BY Parts DEF GroupsRead
  <1>2. CASE l.i < Len(r.params)
    <2>1. l.i + 1 \in 1..Len(r.params)
      BY <1>1, <1>2
    <2>2. Len(r.params[l.i + 1]) = r.nparams /\ l.i + 1 \in DOMAIN r.params
      BY <1>1, <2>1, GroupShape
    <2>3. ~(l.fc = "FC_EXEC" /\ l.i >= l.niter)
      <3>1. r.fc = "FC_EXEC" => l.niter = Len(r.params)
        <4>1. Len(r.params) # 0
          BY <1>1, <1>2
        <4>2. r.params # <<>>
          BY <4>1, Parts
        <4>3. QED
          BY <4>2 DEF GroupsRead, IsRequest
      <3>2. QED
        BY <1>1, <1>2, <3>1
    <2>4. CASE Len(l.params) = r.nparams
      <3>1. NextParam(l) = "bind"
        BY <2>3, <2>4 DEF NextParam, GroupsRead
      <3>2. Unread(r, "bind", l) = AfterGroup(r, l.i + 1)
        BY DEF Unread
      <3>3. AfterParam(r, l.i + 1, r.nparams) = AfterGroup(r, l.i + 1)
        BY <2>2, GroupEnd
      <3>4. Located(r, "bind", l)
        BY <1>2, <2>4 DEF Located
      <3>5. QED
        BY <1>2, <2>4, <3>1, <3>2, <3>3, <3>4
    <2>5. CASE Len(l.params) # r.nparams
      <3>1. NextParam(l) = "ptype"
        BY <2>3, <2>5 DEF NextParam, GroupsRead
      <3>2. Unread(r, "ptype", l) = AfterParam(r, l.i + 1, Len(l.params))
        BY DEF Unread
      <3>3. Len(l.params) < r.nparams
        BY <1>1, <2>5
      <3>4. Located(r, "ptype", l)
        BY <1>2, <3>3 DEF Located
      <3>5. QED
        BY <1>2, <3>1, <3>2, <3>4
    <2>6. QED
      BY <2>4, <2>5
  <1>3. CASE ~(l.i < Len(r.params))
    <2>1. r.fc = "FC_EXEC" /\ l.i = Len(r.params) /\ l.niter \in Int /\ l.i >= l.niter
      <3>1. r.fc = "FC_EXEC" /\ l.i = Len(r.params) /\ l.niter = r.niter
        BY <1>1, <1>3 DEF GroupsRead
      <3>2. r.niter \in Int /\ (r.niter = Len(r.params) \/ r.niter < 0)
        BY <3>1 DEF IsRequest
      <3>3. QED
        BY <1>1, <3>1, <3>2
    <2>2. NextParam(l) = "reply"
      BY <1>1, <2>1 DEF NextParam
    <2>3. Unread(r, "reply", l) = <<>>
      BY DEF Unread
    <2>4. Decodable(r)
      BY <1>1, <2>1 DEF Decodable, FunctionCodes, GroupsRead, GoodGroup, GoodParam
    <2>5. Located(r, "reply", l)
      BY <2>1, <2>4 DEF Located
    <2>6. QED
      BY <1>3, <2>1, <2>2, <2>3, <2>5
  <1>4. QED
    BY <1>2, <1>3

\* Points at which a handler reads.
Reads == {"sql", "niter", "nparams", "ptype", "pvalue", "bind", "ncols", "ctype"}

\* While a request is read, client and reply stay as they are.
LEMMA ReadsKeep ==
    ASSUME ClientMatches, ReplyMatches, UNCHANGED <<wbuf, stdout, peer>>, UNCHANGED clientVars,
           pc \in Reads \cup {"fc"}, ~Waiting,
           pc' \in Reads \cup {"step", "reply"}, pc' = "reply" => req.fc # "FC_QUERY",
           Stream = <<>> => Stream' = <<>>
    PROVE  ClientMatches' /\ ReplyMatches'
  <1>1. /\ wbuf' = wbuf /\ stdout' = stdout /\ peer' = peer /\ st' = st /\ req' = req
        /\ todo' = todo /\ got' = got
    BY DEF clientVars
  <1>2. pc # "fc" \/ ~Waiting
    OBVIOUS
  <1>3. st \notin {"idle", "bye", "lost"}
    BY DEF ClientMatches, Reads, Waiting, Down
  <1>4. ~Replied /\ ~Replied' /\ wbuf = <<>>
    BY DEF Replied, Reads, Waiting, ReplyMatches
  <1>5. ClientMatches'
    BY <1>1, <1>3 DEF ClientMatches, Reads, Waiting, Down
  <1>6. \A s : WholeRows(s)' <=> WholeRows(s)
    BY <1>1 DEF WholeRows
  <1>7. ReplyMatches'
    BY <1>1, <1>4, <1>6 DEF ReplyMatches, Reads, WholeRows
  <1>8. QED
    BY <1>5, <1>7

\* The types of the variables that a step of a handler changes.
LEMMA TypeKept ==
    ASSUME Typed, IsDb(db'), h' \in Locals, pc' \in Handling \cup {"flush"},
           UNCHANGED <<stdin, stdout, peer>>, UNCHANGED clientVars,
           rbuf' \in Seq(Token), IsSeq(wbuf')
    PROVE  Typed'
  <1>1. (db.auto)' \in BOOLEAN /\ (db.stmt.vm)' \in {"none", "ready", "run", "halt"}
    BY DEF IsDb, IsStmt
  <1>2. TypeOK'
    BY <1>1 DEF Typed, TypeOK, Locals, Handling, clientVars
  <1>3. QED
    BY <1>2 DEF Typed, IsSeq, clientVars

\* In a handler there is a request.
LEMMA InHandler ==
    ASSUME Typed, RequestMatches, pc \in Handling
    PROVE  /\ IsRequest(req) /\ req.fc \in {"FC_EXEC", "FC_QUERY"}
           /\ Located(req, pc, h) /\ Stream = Unread(req, pc, h) /\ h.fc = req.fc
           /\ h \in Locals
  <1>1. /\ req \in Requests /\ req.fc \in {"FC_EXEC", "FC_QUERY"}
        /\ Located(req, pc, h) /\ Stream = Unread(req, pc, h)
    BY DEF RequestMatches
  <1>2. IsRequest(req)
    BY <1>1, RequestsAssumption
  <1>3. h \in Locals
    BY DEF Typed, TypeOK, Locals
  <1>4. QED
    BY <1>1, <1>2, <1>3 DEF Located

\* After a step to a point p of a handler.
LEMMA ToHandler ==
    ASSUME RequestMatches, pc \in Handling, pc' \in Handling, req' = req,
           Located(req, pc', h'), Stream' = Unread(req, pc', h')
    PROVE  RequestMatches'
  BY DEF RequestMatches, Handling

\* A step that reads the token t of a request, after which rest is to be read.
LEMMA ReadStep ==
    ASSUME Typed, RequestMatches, ClientMatches, ReplyMatches, IsDb(db'),
           pc \in Reads, pc' \in Reads \cup {"step", "reply"}, pc' = "reply" => req.fc # "FC_QUERY",
           rbuf # <<>>, rbuf' = Tail(rbuf),
           UNCHANGED <<stdin, stdout, peer, wbuf>>, UNCHANGED clientVars,
           NEW t \in Token, NEW rest \in Seq(Token), Stream = <<t>> \o rest,
           h' \in Locals, Located(req, pc', h'), Unread(req, pc', h') = rest
    PROVE  Typed' /\ RequestMatches' /\ ClientMatches' /\ ReplyMatches'
  <1>1. pc \in Handling /\ pc' \in Handling
    BY DEF Handling, Reads
  <1>2. req' = req /\ todo' = todo
    BY DEF clientVars
  <1>3. Stream' = rest /\ rbuf' \in Seq(Token)
    BY <1>2, TokenStream
  <1>4. RequestMatches'
    BY <1>1, <1>2, <1>3, ToHandler
  <1>5. Typed'
    <2>1. IsSeq(wbuf')
      BY DEF Typed, IsSeq
    <2>2. QED
      BY <1>1, <1>3, <2>1, TypeKept
  <1>6. ClientMatches' /\ ReplyMatches'
    <2>1. Stream # <<>>
      BY EmptyStream
    <2>2. ~Waiting
      BY <2>1 DEF Waiting
    <2>3. QED
      BY <2>1, <2>2, ReadsKeep
  <1>7. QED
    BY <1>4, <1>5, <1>6

\* The SQL text, after which Db_prepare may have failed.
LEMMA ReadSqlStep ==
    ASSUME Typed, RequestMatches, ClientMatches, ReplyMatches, IsDb(db'), db.stmt = NoStmt,
           ReadSql, UNCHANGED clientVars
    PROVE  Typed' /\ RequestMatches' /\ ClientMatches' /\ ReplyMatches'
  <1> DEFINE r == req
             l == h'
             rest == IF r.fc = "FC_EXEC" THEN FromNiter(r) ELSE FromNparams(r)
             t == Tok("string", r.sql)
  <1>1. /\ pc = "sql" /\ rbuf # <<>> /\ rbuf' = Tail(rbuf)
        /\ pc' = IF h.fc = "FC_EXEC" THEN "niter" ELSE "nparams"
        /\ UNCHANGED <<stdin, stdout, peer, wbuf>>
        /\ \E o \in Db_prepare(db, Val) : h' = [h EXCEPT !.ok = o.ok]
    BY DEF ReadSql, Read, At, Prepare
  <1>2. /\ IsRequest(r) /\ r.fc \in {"FC_EXEC", "FC_QUERY"}
        /\ Located(r, "sql", h) /\ Stream = Unread(r, "sql", h) /\ h.fc = r.fc /\ h \in Locals
    BY <1>1, InHandler DEF Handling
  <1>3. t \in Token /\ rest \in Seq(Token) /\ Stream = <<t>> \o rest
    BY <1>2, EncodeIs DEF Unread, FromSql
  <1>4. \E ok \in BOOLEAN : h' = [h EXCEPT !.ok = ok]
    <2>1. PICK o \in Db_prepare(db, Val) : h' = [h EXCEPT !.ok = o.ok]
      BY <1>1
    <2>2. PICK e \in sqlite3_prepare_v2(db, Val) : o = Result(e.rc = "ok", e.db)
      BY DEF Db_prepare
    <2> DEFINE ok == e.rc = "ok"
    <2>3. o = Result(ok, e.db) /\ ok \in BOOLEAN
      BY <2>2
    <2> HIDE DEF ok
    <2>4. QED
      BY <2>1, <2>3 DEF Result
  <1>5. /\ l \in Locals /\ l.fc = h.fc /\ l.i = h.i /\ l.params = h.params
        /\ l.coltypes = h.coltypes
    BY <1>2, <1>4 DEF Locals
  <1>6. Located(r, pc', l) /\ Unread(r, pc', l) = rest
    BY <1>1, <1>2, <1>5 DEF Located, Unread
  <1>7. pc \in Reads /\ pc' \in Reads \cup {"step", "reply"} /\ pc' # "reply"
    BY <1>1 DEF Reads
  <1> HIDE DEF rest, t
  <1>8. QED
    BY <1>1, <1>3, <1>5, <1>6, <1>7, ReadStep

\* The number of iterations.
LEMMA ReadNiterStep ==
    ASSUME Typed, RequestMatches, ClientMatches, ReplyMatches, IsDb(db'),
           ReadNiter, UNCHANGED clientVars
    PROVE  Typed' /\ RequestMatches' /\ ClientMatches' /\ ReplyMatches'
  <1> DEFINE r == req
             l == h'
             rest == FromNparams(r)
             t == Tok("int32", r.niter)
  <1>1. /\ pc = "niter" /\ rbuf # <<>> /\ rbuf' = Tail(rbuf) /\ pc' = "nparams"
        /\ UNCHANGED <<stdin, stdout, peer, wbuf>>
        /\ h' = [h EXCEPT !.niter = Head(rbuf).v]
    BY DEF ReadNiter, Read, At, Val
  <1>2. /\ IsRequest(r) /\ r.fc \in {"FC_EXEC", "FC_QUERY"}
        /\ Located(r, "niter", h) /\ Stream = Unread(r, "niter", h) /\ h.fc = r.fc /\ h \in Locals
    BY <1>1, InHandler DEF Handling
  <1>3. t \in Token /\ rest \in Seq(Token) /\ Stream = <<t>> \o rest /\ r.niter \in Int
    BY <1>2, EncodeIs DEF Unread, FromNiter, IsRequest
  <1>4. Head(rbuf) = t
    <2>1. todo' = todo
      BY DEF clientVars
    <2> HIDE DEF rest, t
    <2>2. QED
      BY <1>1, <1>3, <2>1, TokenStream
  <1>5. /\ l \in Locals /\ l.fc = h.fc /\ l.i = h.i /\ l.params = h.params
        /\ l.coltypes = h.coltypes /\ l.niter = r.niter
    <2>1. Head(rbuf).v = r.niter
      BY <1>4 DEF Tok
    <2> DEFINE n == r.niter
    <2>2. h' = [h EXCEPT !.niter = n] /\ n \in Int /\ h \in Locals
      <3>1. n \in Int
        BY <1>3
      <3>2. h \in Locals
        BY <1>2
      <3>3. h' = [h EXCEPT !.niter = n]
        BY <1>1, <2>1, Zenon
      <3>4. QED
        BY <3>1, <3>2, <3>3
    <2> HIDE DEF n
    <2>3. l \in Locals /\ l.fc = h.fc /\ l.i = h.i /\ l.params = h.params
          /\ l.coltypes = h.coltypes /\ l.niter = n
      BY <2>2 DEF Locals
    <2>4. QED
      BY <2>3 DEF n
  <1>6. Located(r, pc', l) /\ Unread(r, pc', l) = rest
    BY <1>1, <1>2, <1>5 DEF Located, Unread
  <1>7. pc \in Reads /\ pc' \in Reads \cup {"step", "reply"} /\ pc' # "reply"
    BY <1>1 DEF Reads
  <1> HIDE DEF rest, t
  <1>8. QED
    BY <1>1, <1>3, <1>5, <1>6, <1>7, ReadStep

\* The number of parameters.
LEMMA ReadNparamsStep ==
    ASSUME Typed, RequestMatches, ClientMatches, ReplyMatches, IsDb(db'),
           ReadNparams, UNCHANGED clientVars
    PROVE  Typed' /\ RequestMatches' /\ ClientMatches' /\ ReplyMatches'
  <1> DEFINE r == req
             l == h'
             rest == FromParams(r)
             t == Tok("int32", r.nparams)
  <1>1. /\ pc = "nparams" /\ rbuf # <<>> /\ rbuf' = Tail(rbuf) /\ pc' = NextParam(h')
        /\ UNCHANGED <<stdin, stdout, peer, wbuf>>
        /\ h' = [h EXCEPT !.nparams = Head(rbuf).v] /\ Head(rbuf).v >= 0
    BY DEF ReadNparams, Read, At, Val
  <1>2. /\ IsRequest(r) /\ r.fc \in {"FC_EXEC", "FC_QUERY"}
        /\ Located(r, "nparams", h) /\ Stream = Unread(r, "nparams", h) /\ h.fc = r.fc /\ h \in Locals
    BY <1>1, InHandler DEF Handling
  <1>3. t \in Token /\ rest \in Seq(Token) /\ Stream = <<t>> \o rest
    BY <1>2, EncodeIs DEF Unread, FromNparams
  <1>4. Head(rbuf) = t
    <2>1. todo' = todo
      BY DEF clientVars
    <2> HIDE DEF rest, t
    <2>2. QED
      BY <1>1, <1>3, <2>1, TokenStream
  <1>5. r.nparams \in Nat
    BY <1>1, <1>2, <1>4 DEF Tok, IsRequest
  <1>6. /\ l \in Locals /\ l.fc = r.fc /\ l.i = 0 /\ l.params = <<>>
        /\ l.coltypes = <<>> /\ l.nparams = r.nparams
        /\ r.fc = "FC_EXEC" => l.niter = r.niter
    <2>1. Head(rbuf).v = r.nparams
      BY <1>4 DEF Tok
    <2>2. h' = [h EXCEPT !.nparams = r.nparams]
      BY <1>1, <2>1
    <2>3. /\ h.i = 0 /\ h.params = <<>> /\ h.coltypes = <<>>
          /\ r.fc = "FC_EXEC" => h.niter = r.niter
      BY <1>2 DEF Located
    <2>4. QED
      BY <1>2, <1>5, <2>2, <2>3 DEF Locals
  <1>7. /\ NextParam(l) \in {"ptype", "bind", "reply"} /\ (NextParam(l) = "reply" => r.fc = "FC_EXEC")
        /\ Located(r, NextParam(l), l)
        /\ Unread(r, NextParam(l), l) = rest
    <2>1. /\ Len(r.params) \in Nat /\ (r.fc = "FC_QUERY" => Len(r.params) = 1)
          /\ r.params = <<>> <=> Len(r.params) = 0
      BY <1>2, Parts DEF IsRequest
    <2>2. GroupsRead(r, l)
      BY <1>5, <1>6, <2>1 DEF GroupsRead
    <2>3. Len(l.params) = 0 /\ Len(l.params) \in 0..r.nparams
      BY <1>5, <1>6
    <2>4. ParamsRead(r, l, Len(l.params))
      BY <2>3 DEF ParamsRead
    <2> HIDE DEF l
    <2>5. /\ NextParam(l) \in {"ptype", "bind", "reply"} /\ (NextParam(l) = "reply" => r.fc = "FC_EXEC")
          /\ Located(r, NextParam(l), l)
          /\ Unread(r, NextParam(l), l)
               = IF l.i < Len(r.params) THEN AfterParam(r, l.i + 1, Len(l.params)) ELSE <<>>
      <3>1. l.params = <<>> <=> Len(l.params) = 0
        BY <1>6, <2>3
      <3>2. l.i < Len(r.params) \/ (r.fc = "FC_EXEC" /\ l.params = <<>>)
        <4>1. CASE r.fc = "FC_EXEC"
          BY <1>6, <4>1
        <4>2. CASE r.fc = "FC_QUERY"
          <5>1. Len(r.params) = 1 /\ l.i = 0
            BY <1>6, <2>1, <4>2
          <5>2. QED
            BY <5>1
        <4>3. QED
          BY <1>2, <4>1, <4>2
      <3>3. IsRequest(r) /\ r.fc \in {"FC_EXEC", "FC_QUERY"} /\ l.fc = r.fc
        BY <1>2, <1>6
      <3>4. QED
        BY <2>2, <2>3, <2>4, <3>1, <3>2, <3>3, NextPoint
    <2>6. rest = IF l.i < Len(r.params) THEN AfterParam(r, l.i + 1, Len(l.params)) ELSE <<>>
      BY <1>2, <1>6, <2>1, <2>3, FirstParam
    <2>7. QED
      BY <2>5, <2>6
  <1>8. pc \in Reads /\ pc' \in Reads \cup {"step", "reply"} /\ (pc' = "reply" => r.fc # "FC_QUERY")
    BY <1>1, <1>7 DEF Reads
  <1> HIDE DEF rest, t
  <1>9. QED
    BY <1>1, <1>3, <1>6, <1>7, <1>8, ReadStep

\* The parameters that have been read, after another one.
LEMMA OneMoreParam ==
    ASSUME NEW r, IsRequest(r), NEW k \in Locals, NEW l \in Locals, NEW n \in Nat,
           GroupsRead(r, k), k.i < Len(r.params), ParamsRead(r, k, n),
           l.fc = k.fc, l.niter = k.niter, l.nparams = k.nparams, l.i = k.i, l.coltypes = k.coltypes,
           \A j \in 1..n : l.params[j] = k.params[j]
    PROVE  /\ GroupsRead(r, l) /\ ParamsRead(r, l, n)
           /\ GoodParam(r.params[l.i + 1][n + 1])
              /\ Arrived(l.params[n + 1], r.params[l.i + 1][n + 1]) => ParamsRead(r, l, n + 1)
  <1>1. GroupsRead(r, l)
    BY DEF GroupsRead
  <1>2. ParamsRead(r, l, n)
    BY DEF ParamsRead
  <1>3. \A j \in 1..(n + 1) : j \in 1..n \/ j = n + 1
    OBVIOUS
  <1>4. QED
    BY <1>1, <1>2, <1>3 DEF ParamsRead

\* The type of a parameter, with which a NULL is complete.
LEMMA ReadParamTypeStep ==
    ASSUME Typed, RequestMatches, ClientMatches, ReplyMatches, IsDb(db'),
           ReadParamType, UNCHANGED clientVars
    PROVE  Typed' /\ RequestMatches' /\ ClientMatches' /\ ReplyMatches'
  <1> DEFINE r == req
             l == h'
             i == h.i + 1
             j == Len(h.params)
             p == r.params[i][j + 1]
             t == [k |-> "byte", v |-> p.type, g |-> i]
             new == [type |-> p.type, v |-> "none"]
             after == AfterParam(r, i, j + 1)
             rest == IF p.type = "VT_NULL" THEN after ELSE <<ValueTok(p, i)>> \o after
  <1>1. /\ pc = "ptype" /\ rbuf # <<>> /\ rbuf' = Tail(rbuf)
        /\ UNCHANGED <<stdin, stdout, peer, wbuf>>
        /\ Head(rbuf).v \in ValueTypes
        /\ h' = [h EXCEPT !.params = Append(@, [type |-> Head(rbuf).v, v |-> "none"])]
        /\ pc' = IF Head(rbuf).v = "VT_NULL" THEN NextParam(h') ELSE "pvalue"
    BY DEF ReadParamType, Read, At, Val
  <1>2. /\ IsRequest(r) /\ r.fc \in {"FC_EXEC", "FC_QUERY"}
        /\ Located(r, "ptype", h) /\ Stream = Unread(r, "ptype", h) /\ h.fc = r.fc /\ h \in Locals
    BY <1>1, InHandler DEF Handling
  <1>3. /\ GroupsRead(r, h) /\ h.i < Len(r.params) /\ j < r.nparams /\ ParamsRead(r, h, j)
        /\ Stream = AfterParam(r, i, j)
    BY <1>2 DEF Located, Unread
  <1>4. /\ h.i \in Nat /\ j \in Nat /\ r.nparams \in Nat
        /\ i \in 1..Len(r.params) /\ i \in DOMAIN r.params /\ Len(r.params[i]) = r.nparams
        /\ j \in 0..(Len(r.params[i]) - 1) /\ j + 1 \in DOMAIN r.params[i]
    <2>1. h.i \in Nat /\ j \in Nat /\ r.nparams \in Nat /\ Len(r.params) \in Nat
      BY <1>2, <1>3, Parts DEF Locals, GroupsRead
    <2>2. i \in 1..Len(r.params)
      BY <1>3, <2>1
    <2>3. Len(r.params[i]) = r.nparams /\ i \in DOMAIN r.params
      BY <1>2, <2>1, <2>2, GroupShape
    <2>4. DOMAIN r.params[i] = 1..Len(r.params[i])
      BY <1>2, <2>3, Parts
    <2> HIDE DEF i, j
    <2>5. QED
      BY <1>3, <2>1, <2>2, <2>3, <2>4
  <1>5. /\ t \in Token /\ rest \in Seq(Token) /\ Stream = <<t>> \o rest
    <2>1. /\ after \in Seq(Token) /\ t \in Token /\ ValueTok(p, i) \in Token
          /\ p.type = "VT_NULL" => AfterParam(r, i, j) = <<t>> \o after
          /\ p.type # "VT_NULL" => AfterParam(r, i, j) = <<t>> \o (<<ValueTok(p, i)>> \o after)
      BY <1>2, <1>4, NextParamTokens
    <2> HIDE DEF i, j, p, after, t
    <2>2. rest \in Seq(Token)
      BY <2>1
    <2>3. QED
      BY <1>3, <2>1, <2>2, SMTT(60)
  <1>6. Head(rbuf) = t
    <2>1. todo' = todo
      BY DEF clientVars
    <2> HIDE DEF rest, t
    <2>2. QED
      BY <1>1, <1>5, <2>1, TokenStream
  <1>7. p.type \in ValueTypes /\ h' = [h EXCEPT !.params = Append(h.params, new)]
        /\ pc' = IF p.type = "VT_NULL" THEN NextParam(h') ELSE "pvalue"
    <2>1. Head(rbuf).v = p.type
      BY <1>6
    <2>2. QED
      BY <1>1, <2>1
  <1> HIDE DEF rest, t, after
  <1>8. /\ l \in Locals /\ l.fc = h.fc /\ l.niter = h.niter /\ l.nparams = h.nparams /\ l.i = h.i
        /\ l.coltypes = h.coltypes /\ l.params = Append(h.params, new)
        /\ Len(l.params) = j + 1 /\ l.params[j + 1] = new
        /\ \A n \in 1..j : l.params[n] = h.params[n]
    <2> DEFINE P == [type : ValueTypes, v : STRING \cup {"none", "stale"}]
    <2>1. h.params \in Seq(P) /\ new \in P
      BY <1>2, <1>7 DEF Locals
    <2> HIDE DEF new, P
    <2>2. /\ Append(h.params, new) \in Seq(P) /\ Len(Append(h.params, new)) = j + 1
          /\ Append(h.params, new)[j + 1] = new
          /\ \A n \in 1..j : Append(h.params, new)[n] = h.params[n]
      BY <2>1, AppendProperties
    <2> DEFINE ps == Append(h.params, new)
    <2> HIDE DEF ps
    <2>3. h' = [h EXCEPT !.params = ps] /\ h \in Locals /\ ps \in Seq(P)
      BY <1>2, <1>7, <2>2 DEF ps
    <2>4. /\ l \in Locals /\ l.fc = h.fc /\ l.niter = h.niter /\ l.nparams = h.nparams /\ l.i = h.i
          /\ l.coltypes = h.coltypes /\ l.params = ps
      BY <2>3 DEF Locals, P
    <2>5. QED
      BY <2>2, <2>4 DEF ps
  <1>9. /\ GroupsRead(r, l) /\ ParamsRead(r, l, j)
        /\ GoodParam(p) /\ Arrived(l.params[j + 1], p) => ParamsRead(r, l, j + 1)
    BY <1>2, <1>3, <1>4, <1>8, OneMoreParam
  <1>10. CASE p.type = "VT_NULL"
    <2>1. p.v = "none"
      BY <1>2, <1>4, <1>10 DEF IsRequest
    <2>2. ParamsRead(r, l, j + 1)
      BY <1>7, <1>8, <1>9, <1>10, <2>1 DEF GoodParam, Arrived
    <2> HIDE DEF l, j, i
    <2>3. Len(l.params) \in 0..r.nparams /\ ~(Len(l.params) = 0)
      BY <1>3, <1>4, <1>8
    <2>4. l.params # <<>>
      BY <2>3
    <2>5. l.i < Len(r.params) /\ ParamsRead(r, l, Len(l.params)) /\ l.fc = r.fc
      BY <1>2, <1>3, <1>8, <2>2
    <2>6. /\ NextParam(l) \in {"ptype", "bind", "reply"} /\ (NextParam(l) = "reply" => r.fc = "FC_EXEC")
          /\ Located(r, NextParam(l), l)
          /\ Unread(r, NextParam(l), l)
               = IF l.i < Len(r.params) THEN AfterParam(r, l.i + 1, Len(l.params)) ELSE <<>>
      BY <1>2, <1>9, <2>3, <2>4, <2>5, NextPoint
    <2>7. Unread(r, NextParam(l), l) = rest /\ pc' = NextParam(l)
      BY <1>7, <1>8, <1>10, <2>5, <2>6 DEF rest, after, i, l
    <2>8. pc \in Reads /\ pc' \in Reads \cup {"step", "reply"} /\ (pc' = "reply" => r.fc # "FC_QUERY")
      BY <1>1, <2>6, <2>7 DEF Reads
    <2>9. QED
      BY <1>1, <1>5, <1>8, <2>6, <2>7, <2>8, ReadStep DEF l
  <1>11. CASE p.type # "VT_NULL"
    <2>1. pc' = "pvalue"
      BY <1>7, <1>11
    <2> HIDE DEF l
    <2>2. Unread(r, pc', l) = rest
      BY <1>8, <1>11, <2>1 DEF Unread, rest, after
    <2>3. Located(r, pc', l)
      <3>1. Len(l.params) \in 1..r.nparams /\ (Len(l.params) - 1) = j
        BY <1>3, <1>4, <1>8
      <3>2. l.params[j + 1].type = p.type
        BY <1>8
      <3>3. l.fc = r.fc /\ l.i < Len(r.params)
        BY <1>2, <1>3, <1>8
      <3>4. QED
        BY <1>8, <1>9, <1>11, <2>1, <3>1, <3>2, <3>3 DEF Located
    <2>4. pc \in Reads /\ pc' \in Reads \cup {"step", "reply"} /\ (pc' = "reply" => r.fc # "FC_QUERY")
      BY <1>1, <2>1 DEF Reads
    <2>5. QED
      BY <1>1, <1>5, <1>8, <2>2, <2>3, <2>4, ReadStep DEF l
  <1>12. QED
    BY <1>10, <1>11

\* The value of a parameter.
LEMMA ReadParamValueStep ==
    ASSUME Typed, RequestMatches, ClientMatches, ReplyMatches, IsDb(db'),
           ReadParamValue, UNCHANGED clientVars
    PROVE  Typed' /\ RequestMatches' /\ ClientMatches' /\ ReplyMatches'
  <1> DEFINE r == req
             l == h'
             i == h.i + 1
             j == Len(h.params)
             p == r.params[i][j]
             t == ValueTok(p, i)
             rest == AfterParam(r, i, j)
             ps == [h.params EXCEPT ![j] = [h.params[j] EXCEPT !.v = p.v]]
  <1>1. /\ pc = "pvalue" /\ rbuf # <<>> /\ rbuf' = Tail(rbuf)
        /\ UNCHANGED <<stdin, stdout, peer, wbuf>>
        /\ Head(rbuf).k = Payload(h.params[j].type)
        /\ h' = [h EXCEPT !.params = [h.params EXCEPT ![j] = [h.params[j] EXCEPT !.v = Head(rbuf).v]]]
        /\ pc' = NextParam(h')
    BY DEF ReadParamValue, Read, At, Val, Want, Last
  <1>2. /\ IsRequest(r) /\ r.fc \in {"FC_EXEC", "FC_QUERY"}
        /\ Located(r, "pvalue", h) /\ Stream = Unread(r, "pvalue", h) /\ h.fc = r.fc /\ h \in Locals
    BY <1>1, InHandler, SMTT(60) DEF Handling
  <1>3. /\ GroupsRead(r, h) /\ h.i < Len(r.params) /\ j \in 1..r.nparams /\ ParamsRead(r, h, j - 1)
        /\ h.params[j].type = p.type /\ p.type # "VT_NULL"
        /\ Stream = <<t>> \o rest
    BY <1>2 DEF Located, Unread
  <1>4. /\ h.i \in Nat /\ j \in Nat /\ r.nparams \in Nat /\ Len(r.params) \in Nat
        /\ i \in 1..Len(r.params) /\ i \in DOMAIN r.params /\ Len(r.params[i]) = r.nparams
        /\ j - 1 \in 0..(Len(r.params[i]) - 1) /\ (j - 1) + 1 = j /\ j \in DOMAIN r.params[i]
    <2>1. h.i \in Nat /\ j \in Nat /\ r.nparams \in Nat /\ Len(r.params) \in Nat
      BY <1>2, <1>3, Parts DEF Locals, GroupsRead
    <2>2. i \in 1..Len(r.params)
      BY <1>3, <2>1
    <2>3. Len(r.params[i]) = r.nparams /\ i \in DOMAIN r.params
      BY <1>2, <2>1, <2>2, GroupShape
    <2>4. DOMAIN r.params[i] = 1..Len(r.params[i])
      BY <1>2, <2>3, Parts
    <2> HIDE DEF i, j
    <2>5. QED
      BY <1>3, <2>1, <2>2, <2>3, <2>4
  <1>5. t \in Token /\ rest \in Seq(Token) /\ p.v \in STRING
    <2>1. AfterParam(r, i, (j - 1) + 1) \in Seq(Token) /\ ValueTok(r.params[i][(j - 1) + 1], i) \in Token
      BY <1>2, <1>4, NextParamTokens
    <2>2. p.v \in STRING
      BY <1>2, <1>4, ParamTokens
    <2>3. QED
      BY <1>4, <2>1, <2>2
  <1>6. Head(rbuf) = t
    <2>1. todo' = todo
      BY DEF clientVars
    <2> HIDE DEF rest, t
    <2>2. QED
      BY <1>1, <1>3, <1>5, <2>1, TokenStream
  <1>7. /\ h.params \in Seq([type : ValueTypes, v : STRING \cup {"none", "stale"}])
        /\ j \in 1..Len(h.params) /\ p.type \in ValueTypes
    <2>1. h.params \in Seq([type : ValueTypes, v : STRING \cup {"none", "stale"}])
      BY <1>2 DEF Locals
    <2>2. j \in 1..Len(h.params)
      BY <1>3, <1>4
    <2> DEFINE P == [type : ValueTypes, v : STRING \cup {"none", "stale"}]
    <2>3. h.params[j] \in P => h.params[j].type \in ValueTypes
      OBVIOUS
    <2>4. h.params \in Seq(P)
      BY <2>1
    <2> HIDE DEF P
    <2>5. h.params[j] \in P
      BY <2>2, <2>4
    <2>6. QED
      BY <1>3, <2>1, <2>2, <2>3, <2>5
  <1>8. GoodParam(p)
    <2>1. Payload(p.type) # "cut"
      BY <1>3, <1>7 DEF Payload, ValueTypes
    <2>2. t.k = Payload(p.type)
      BY <1>1, <1>3, <1>6
    <2>3. QED
      BY <1>7, <2>1, <2>2 DEF GoodParam, ValueTok
  <1>9. h' = [h EXCEPT !.params = ps]
    <2>1. Head(rbuf).v = p.v
      BY <1>6 DEF ValueTok
    <2>2. QED
      BY <1>1, <2>1
  <1>10. /\ l \in Locals /\ l.fc = h.fc /\ l.niter = h.niter /\ l.nparams = h.nparams /\ l.i = h.i
         /\ l.coltypes = h.coltypes /\ Len(l.params) = j
         /\ \A n \in 1..(j - 1) : l.params[n] = h.params[n]
         /\ l.params[j].type = p.type /\ l.params[j].v = p.v
    <2> DEFINE P == [type : ValueTypes, v : STRING \cup {"none", "stale"}]
               new == [h.params[j] EXCEPT !.v = p.v]
    <2>1. h.params \in Seq(P) /\ h.params[j] \in P
      <3>1. h.params \in Seq(P) /\ j \in 1..Len(h.params)
        BY <1>7
      <3> HIDE DEF P
      <3>2. QED
        BY <3>1
    <2>2. new \in P /\ new.type = p.type /\ new.v = p.v
      BY <1>3, <1>5, <2>1
    <2> HIDE DEF new, P
    <2>3. /\ ps \in Seq(P) /\ Len(ps) = Len(h.params)
          /\ \A n \in 1..Len(h.params) : ps[n] = IF n = j THEN new ELSE h.params[n]
      BY <1>7, <2>1, <2>2, ExceptSeq DEF new
    <2> HIDE DEF ps
    <2>4. /\ l \in Locals /\ l.fc = h.fc /\ l.niter = h.niter /\ l.nparams = h.nparams /\ l.i = h.i
          /\ l.coltypes = h.coltypes /\ l.params = ps
      BY <1>2, <1>9, <2>3 DEF Locals, P
    <2>5. ps[j] = new /\ \A n \in 1..(j - 1) : ps[n] = h.params[n]
      <3>1. j \in 1..Len(h.params) /\ \A n \in 1..(j - 1) : n \in 1..Len(h.params) /\ n # j
        BY <1>4, <1>7
      <3>2. QED
        BY <2>3, <3>1
    <2>6. QED
      BY <2>2, <2>3, <2>4, <2>5
  <1> HIDE DEF rest, t, ps
  <1>11. ParamsRead(r, l, j) /\ GroupsRead(r, l)
    <2> DEFINE n == j - 1
    <2>1. n \in Nat /\ n + 1 = j
      BY <1>3, <1>4
    <2>2. ParamsRead(r, h, n) /\ \A k \in 1..n : l.params[k] = h.params[k]
      BY <1>3, <1>10
    <2>3. GoodParam(r.params[l.i + 1][n + 1]) /\ Arrived(l.params[n + 1], r.params[l.i + 1][n + 1])
      BY <1>8, <1>10, <2>1, SMTT(60) DEF Arrived
    <2> HIDE DEF n
    <2>4. ParamsRead(r, l, n + 1) /\ GroupsRead(r, l)
      BY <1>2, <1>3, <1>10, <2>1, <2>2, <2>3, OneMoreParam
    <2>5. QED
      BY <2>1, <2>4
  <1> HIDE DEF l, j, i, p
  <1>12. Len(l.params) \in 0..r.nparams /\ ~(Len(l.params) = 0)
    BY <1>3, <1>4, <1>10
  <1>13. l.params # <<>>
    BY <1>12
  <1>14. l.i < Len(r.params) /\ ParamsRead(r, l, Len(l.params)) /\ l.fc = r.fc
    BY <1>2, <1>3, <1>10, <1>11
  <1>15. /\ NextParam(l) \in {"ptype", "bind", "reply"} /\ (NextParam(l) = "reply" => r.fc = "FC_EXEC")
         /\ Located(r, NextParam(l), l)
         /\ Unread(r, NextParam(l), l)
              = IF l.i < Len(r.params) THEN AfterParam(r, l.i + 1, Len(l.params)) ELSE <<>>
    BY <1>2, <1>11, <1>12, <1>13, <1>14, NextPoint
  <1>16. Unread(r, NextParam(l), l) = rest /\ pc' = NextParam(l)
    BY <1>1, <1>10, <1>14, <1>15 DEF rest, i, l
  <1>17. pc \in Reads /\ pc' \in Reads \cup {"step", "reply"} /\ (pc' = "reply" => r.fc # "FC_QUERY")
    BY <1>1, <1>15, <1>16 DEF Reads
  <1>18. QED
    BY <1>1, <1>3, <1>5, <1>10, <1>15, <1>16, <1>17, ReadStep DEF l

\* The number of columns of a query.
LEMMA ReadNcolsStep ==
    ASSUME Typed, RequestMatches, ClientMatches, ReplyMatches, IsDb(db'),
           ReadNcols, UNCHANGED clientVars
    PROVE  Typed' /\ RequestMatches' /\ ClientMatches' /\ ReplyMatches'
  <1> DEFINE r == req
             l == h'
             n == Len(r.coltypes)
             t == Tok("int32", n)
             rest == Types(r)
  <1>1. /\ pc = "ncols" /\ rbuf # <<>> /\ rbuf' = Tail(rbuf)
        /\ UNCHANGED <<stdin, stdout, peer, wbuf>>
        /\ h' = [h EXCEPT !.ncols = Head(rbuf).v]
        /\ pc' = NextColtype(h')
    BY DEF ReadNcols, Read, At, Val
  <1>2. /\ IsRequest(r) /\ r.fc \in {"FC_EXEC", "FC_QUERY"}
        /\ Located(r, "ncols", h) /\ Stream = Unread(r, "ncols", h) /\ h.fc = r.fc /\ h \in Locals
    BY <1>1, InHandler DEF Handling
  <1>3. r.fc = "FC_QUERY" /\ Decodable(r) /\ h.coltypes = <<>> /\ Stream = <<t>> \o rest
    BY <1>2 DEF Located, Unread, Columns
  <1>4. /\ n \in Nat /\ t \in Token /\ rest \in Seq(Token) /\ rest = TypesAfter(r, 0)
        /\ n = 0 => rest = <<>>
    <2>1. n \in Nat /\ 0 \in 0..n /\ rest \in Seq(Token)
      BY <1>2, Parts
    <2>2. t \in Token
      BY <2>1 DEF Tok, Token, TokenKinds
    <2>3. TypesAfter(r, 0) = rest /\ (0 = n => TypesAfter(r, 0) = <<>>)
      BY <1>2, <2>1, NextType
    <2>4. QED
      BY <2>1, <2>2, <2>3
  <1>5. Head(rbuf) = t
    <2>1. todo' = todo
      BY DEF clientVars
    <2> HIDE DEF rest, t
    <2>2. QED
      BY <1>1, <1>3, <1>4, <2>1, TokenStream
  <1>6. h' = [h EXCEPT !.ncols = n]
    BY <1>1, <1>5 DEF Tok
  <1>7. r.coltypes \in Seq(STRING)
    BY <1>2 DEF IsRequest
  <1> HIDE DEF n, t, rest
  <1>8. l \in Locals /\ l.fc = r.fc /\ l.coltypes = <<>> /\ l.ncols = n
    BY <1>2, <1>3, <1>4, <1>6 DEF Locals
  <1>9. Len(l.coltypes) = 0
    BY <1>8
  <1> HIDE DEF l
  <1>10. CASE n = 0
    <2>1. pc' = "step"
      BY <1>1, <1>8, <1>9, <1>10 DEF NextColtype, l
    <2>2. l.coltypes = r.coltypes
      BY <1>7, <1>8, <1>10 DEF n
    <2>3. Located(r, pc', l) /\ Unread(r, pc', l) = rest
      BY <1>3, <1>4, <1>8, <1>10, <2>1, <2>2 DEF Located, Unread
    <2>4. pc \in Reads /\ pc' \in Reads \cup {"step", "reply"} /\ (pc' = "reply" => r.fc # "FC_QUERY")
      BY <1>1, <2>1 DEF Reads
    <2>5. QED
      BY <1>1, <1>3, <1>4, <1>8, <2>3, <2>4, ReadStep DEF l
  <1>11. CASE n # 0
    <2>1. pc' = "ctype"
      BY <1>1, <1>8, <1>9, <1>11 DEF NextColtype, l
    <2>2. l.coltypes = SubSeq(r.coltypes, 1, Len(l.coltypes))
      <3>1. SubSeq(r.coltypes, 1, 0) = <<>>
        BY SubSeqEmpty
      <3>2. QED
        BY <1>8, <1>9, <3>1
    <2>3. Len(l.coltypes) < l.ncols
      BY <1>4, <1>8, <1>9, <1>11
    <2>4. Located(r, pc', l) /\ Unread(r, pc', l) = rest
      BY <1>3, <1>4, <1>8, <1>9, <2>1, <2>2, <2>3 DEF Located, Unread, n
    <2>5. pc \in Reads /\ pc' \in Reads \cup {"step", "reply"} /\ (pc' = "reply" => r.fc # "FC_QUERY")
      BY <1>1, <2>1 DEF Reads
    <2>6. QED
      BY <1>1, <1>3, <1>4, <1>8, <2>4, <2>5, ReadStep DEF l
  <1>12. QED
    BY <1>10, <1>11

\* The wanted type of a column.
LEMMA ReadColtypeStep ==
    ASSUME Typed, RequestMatches, ClientMatches, ReplyMatches, IsDb(db'),
           ReadColtype, UNCHANGED clientVars
    PROVE  Typed' /\ RequestMatches' /\ ClientMatches' /\ ReplyMatches'
  <1> DEFINE r == req
             l == h'
             n == Len(h.coltypes)
             c == r.coltypes[n + 1]
             t == Tok("byte", c)
             rest == TypesAfter(r, n + 1)
             cs == SubSeq(r.coltypes, 1, n + 1)
  <1>1. /\ pc = "ctype" /\ rbuf # <<>> /\ rbuf' = Tail(rbuf)
        /\ UNCHANGED <<stdin, stdout, peer, wbuf>>
        /\ h' = [h EXCEPT !.coltypes = Append(h.coltypes, Head(rbuf).v)]
        /\ pc' = NextColtype(h')
    BY DEF ReadColtype, Read, At, Val
  <1>2. /\ IsRequest(r) /\ r.fc \in {"FC_EXEC", "FC_QUERY"}
        /\ Located(r, "ctype", h) /\ Stream = Unread(r, "ctype", h) /\ h.fc = r.fc /\ h \in Locals
    BY <1>1, InHandler DEF Handling
  <1>3. /\ r.fc = "FC_QUERY" /\ Decodable(r) /\ Stream = TypesAfter(r, n)
        /\ h.ncols = Len(r.coltypes) /\ n < h.ncols /\ h.coltypes = SubSeq(r.coltypes, 1, n)
    BY <1>2 DEF Located, Unread
  <1>4. /\ n \in Nat /\ Len(r.coltypes) \in Nat /\ r.coltypes \in Seq(STRING)
        /\ n \in 0..Len(r.coltypes) /\ n + 1 \in 0..Len(r.coltypes) /\ n # Len(r.coltypes)
        /\ n + 1 \in 1..Len(r.coltypes)
    <2>1. n \in Nat /\ Len(r.coltypes) \in Nat /\ r.coltypes \in Seq(STRING)
      BY <1>2, Parts DEF IsRequest, Locals
    <2> HIDE DEF n
    <2>2. QED
      BY <1>3, <2>1
  <1>5. /\ t \in Token /\ rest \in Seq(Token) /\ Stream = <<t>> \o rest
        /\ n + 1 = Len(r.coltypes) => rest = <<>>
    <2>1. t \in Token /\ TypesAfter(r, n) = <<t>> \o TypesAfter(r, n + 1)
      BY <1>2, <1>4, NextType
    <2>2. TypesAfter(r, n + 1) \in Seq(Token) /\ (n + 1 = Len(r.coltypes) => TypesAfter(r, n + 1) = <<>>)
      BY <1>2, <1>4, NextType
    <2>3. QED
      BY <1>3, <2>1, <2>2
  <1>6. Head(rbuf) = t
    <2>1. todo' = todo
      BY DEF clientVars
    <2> HIDE DEF rest, t
    <2>2. QED
      BY <1>1, <1>5, <2>1, TokenStream
  <1>7. h' = [h EXCEPT !.coltypes = Append(h.coltypes, c)] /\ c \in STRING
    <2>1. Head(rbuf).v = c
      BY <1>6 DEF Tok
    <2>2. c \in STRING
      BY <1>4
    <2>3. QED
      BY <1>1, <2>1, <2>2
  <1>8. /\ Append(h.coltypes, c) = cs /\ cs \in Seq(STRING) /\ Len(cs) = n + 1
        /\ n + 1 = Len(r.coltypes) => cs = r.coltypes
    <2>1. /\ SubSeq(r.coltypes, 1, n + 1) = Append(SubSeq(r.coltypes, 1, n), r.coltypes[n + 1])
          /\ SubSeq(r.coltypes, 1, n + 1) \in Seq(STRING)
          /\ Len(SubSeq(r.coltypes, 1, n + 1)) = n + 1
      BY <1>4, PrefixGrows
    <2>2. Append(h.coltypes, c) = cs
      BY <1>3, <2>1
    <2>3. n + 1 = Len(r.coltypes) => cs = r.coltypes
      BY <1>4, SubSeqFull
    <2>4. QED
      BY <2>1, <2>2, <2>3
  <1> HIDE DEF rest, t, cs
  <1>9. l \in Locals /\ l.fc = r.fc /\ l.coltypes = cs /\ l.ncols = Len(r.coltypes)
    <2>1. h' = [h EXCEPT !.coltypes = cs] /\ cs \in Seq(STRING)
      BY <1>7, <1>8
    <2>2. QED
      BY <1>2, <1>3, <2>1 DEF Locals
  <1> HIDE DEF l, n, c
  <1>10. CASE n + 1 = Len(r.coltypes)
    <2>1. pc' = "step"
      BY <1>1, <1>8, <1>9, <1>10 DEF NextColtype, l
    <2>2. l.coltypes = r.coltypes /\ rest = <<>>
      BY <1>5, <1>8, <1>9, <1>10
    <2>3. Located(r, pc', l) /\ Unread(r, pc', l) = rest
      BY <1>3, <1>9, <2>1, <2>2 DEF Located, Unread
    <2>4. pc \in Reads /\ pc' \in Reads \cup {"step", "reply"} /\ (pc' = "reply" => r.fc # "FC_QUERY")
      BY <1>1, <2>1 DEF Reads
    <2>5. QED
      BY <1>1, <1>5, <1>9, <2>3, <2>4, ReadStep DEF l
  <1>11. CASE n + 1 # Len(r.coltypes)
    <2>1. pc' = "ctype"
      BY <1>1, <1>8, <1>9, <1>11 DEF NextColtype, l
    <2>2. l.coltypes = SubSeq(r.coltypes, 1, Len(l.coltypes)) /\ Len(l.coltypes) < l.ncols
      BY <1>4, <1>8, <1>9, <1>11 DEF cs
    <2>3. Unread(r, pc', l) = rest
      BY <1>8, <1>9, <2>1 DEF Unread, rest
    <2>4. Located(r, pc', l)
      BY <1>3, <1>9, <2>1, <2>2 DEF Located
    <2>5. pc \in Reads /\ pc' \in Reads \cup {"step", "reply"} /\ (pc' = "reply" => r.fc # "FC_QUERY")
      BY <1>1, <2>1 DEF Reads
    <2>6. QED
      BY <1>1, <1>5, <1>9, <2>3, <2>4, <2>5, ReadStep DEF l
  <1>12. QED
    BY <1>10, <1>11


-----------------------------------------------------------------------------
\* Replies.

\* Every sequence is one of its own elements.
LEMMA SeqIsSeq == ASSUME NEW S, NEW s \in Seq(S) PROVE IsSeq(s) /\ Len(s) \in Nat
  <1> DEFINE R == {s[i] : i \in DOMAIN s}
  <1>1. \A i \in 1..Len(s) : s[i] \in R
    OBVIOUS
  <1>2. Len(s) \in Nat /\ s = [i \in 1..Len(s) |-> s[i]]
    OBVIOUS
  <1> HIDE DEF R
  <1>3. s \in Seq(R)
    BY <1>1, <1>2, SeqIntro
  <1>4. QED
    BY <1>2, <1>3 DEF IsSeq, R

\* Two sequences are sequences over one set, so that the library's theorems apply.
LEMMA CommonSet ==
    ASSUME NEW a, NEW b, IsSeq(a), IsSeq(b)
    PROVE  \E S : a \in Seq(S) /\ b \in Seq(S)
  <1> DEFINE A == {a[i] : i \in DOMAIN a}
             B == {b[i] : i \in DOMAIN b}
             S == A \cup B
  <1>1. a \in Seq(A) /\ b \in Seq(B)
    BY DEF IsSeq
  <1> HIDE DEF A, B
  <1>2. a \in Seq(S) /\ b \in Seq(S)
    BY <1>1
  <1>3. QED
    BY <1>2

\* Nothing is said of the elements of what is concatenated.
LEMMA ConcatIsSeq == ASSUME NEW a, NEW b, IsSeq(a), IsSeq(b) PROVE IsSeq(a \o b)
  <1>1. PICK S : a \in Seq(S) /\ b \in Seq(S)
    BY CommonSet
  <1>2. a \o b \in Seq(S)
    BY <1>1
  <1>3. QED
    BY <1>2, SeqIsSeq

\* Sequences of one and of two elements.
LEMMA Short ==
    ASSUME NEW x, NEW y
    PROVE  /\ IsSeq(<<x>>) /\ Len(<<x>>) = 1 /\ <<x>>[1] = x
           /\ IsSeq(<<x>> \o <<y>>) /\ Len(<<x>> \o <<y>>) = 2
           /\ (<<x>> \o <<y>>)[1] = x /\ (<<x>> \o <<y>>)[2] = y
  <1> DEFINE a == <<x>>
             b == <<y>>
             c == a \o b
  <1>1. /\ a \in Seq({x, y}) /\ Len(a) = 1 /\ a[1] = x
        /\ b \in Seq({x, y}) /\ Len(b) = 1 /\ b[1] = y
    OBVIOUS
  <1> HIDE DEF a, b
  <1>2. /\ Len(c) = Len(a) + Len(b)
        /\ \A i \in 1..Len(a) + Len(b) : c[i] = IF i <= Len(a) THEN a[i] ELSE b[i - Len(a)]
    BY <1>1, ConcatProperties
  <1>3. IsSeq(a) /\ IsSeq(b)
    BY <1>1, SeqIsSeq
  <1>4. IsSeq(c)
    BY <1>3, ConcatIsSeq
  <1> HIDE DEF c
  <1>5. Len(c) = 2 /\ c[1] = x /\ c[2] = y
    BY <1>1, <1>2
  <1>6. QED
    BY <1>1, <1>3, <1>4, <1>5 DEF a, b, c

\* Rows of z tokens.
LEMMA Below ==
    ASSUME NEW z \in Nat \ {0}, NEW q \in Nat, NEW n \in Nat
    PROVE  /\ q * z \in Nat /\ n * z \in Nat /\ n <= n * z
           /\ q < n => q * z + z <= n * z
           /\ (q + n) * z = q * z + n * z
  <1>1. q * z \in Nat /\ n * z \in Nat /\ (q + n) * z = q * z + n * z
    OBVIOUS
  <1>2. n <= n * z
    <2>1. n * (z - 1) \in Nat
      OBVIOUS
    <2>2. n * z = n * (z - 1) + n
      OBVIOUS
    <2>3. QED
      BY <1>1, <2>1, <2>2
  <1>3. ASSUME q < n PROVE q * z + z <= n * z
    <2> DEFINE d == n - q - 1
    <2>1. d \in Nat /\ n = d + q + 1
      BY <1>3
    <2> HIDE DEF d
    <2>2. d * z \in Nat
      BY <2>1
    <2>3. n * z = d * z + q * z + z
      BY <2>1
    <2>4. QED
      BY <1>1, <2>2, <2>3
  <1>4. QED
    BY <1>1, <1>2, <1>3

IsRow(w, s, p) == s[p].k = "byte" /\ s[p].v /\ \A i \in 1..w : s[p + i].k = "value"

\* s begins with n rows of w values.
RowsIn(w, s, n) ==
    /\ n \in Nat /\ n * (w + 1) <= Len(s)
    /\ \A q \in 0..(n - 1) : IsRow(w, s, q * (w + 1) + 1)

\* HasRows of Sqinn counts rows in the same way, and they are no more than the values.
LEMMA HasRowsIs ==
    ASSUME NEW r, Len(r.coltypes) \in Nat, NEW s, Len(s) \in Nat, NEW n \in Nat
    PROVE  /\ HasRows(r, s, n) <=> RowsIn(Len(r.coltypes), s, n)
           /\ RowStart(r, n) = n * (Len(r.coltypes) + 1) + 1
           /\ RowsIn(Len(r.coltypes), s, n) => n \in 0..Len(s)
  <1> DEFINE w == Len(r.coltypes)
  <1>1. n * (w + 1) \in Nat /\ n <= n * (w + 1)
    <2> DEFINE z == w + 1
    <2>1. z \in Nat \ {0}
      OBVIOUS
    <2> HIDE DEF z
    <2>2. n * z \in Nat /\ n <= n * z
      BY <2>1, Below
    <2>3. QED
      BY <2>2 DEF z
  <1>2. HasRows(r, s, n) <=> RowsIn(w, s, n)
    <2>1. RowStart(r, n) <= Len(s) + 1 <=> n * (w + 1) <= Len(s)
      <3> DEFINE x == n * (w + 1)
      <3>1. RowStart(r, n) = x + 1 /\ x \in Nat
        BY <1>1 DEF RowStart
      <3> HIDE DEF x
      <3>2. RowStart(r, n) <= Len(s) + 1 <=> x <= Len(s)
        BY <3>1
      <3>3. QED
        BY <3>2 DEF x
    <2>2. \A q : RowStart(r, q) = q * (w + 1) + 1
      BY DEF RowStart
    <2> DEFINE start(q) == q * (w + 1) + 1
               H(q) == IsRow(w, s, RowStart(r, q))
               R(q) == IsRow(w, s, start(q))
    <2>3. \A q : H(q) <=> R(q)
      BY <2>2
    <2>4. HasRows(r, s, n) <=> RowStart(r, n) <= Len(s) + 1 /\ \A q \in 0..(n - 1) : H(q)
      BY DEF HasRows, IsRow
    <2>5. RowsIn(w, s, n) <=> n * (w + 1) <= Len(s) /\ \A q \in 0..(n - 1) : R(q)
      BY DEF RowsIn
    <2> HIDE DEF H, R
    <2>6. QED
      BY <2>1, <2>3, <2>4, <2>5
  <1>3. QED
    BY <1>1, <1>2 DEF RowStart, RowsIn

\* Rows, and what follows them.
LEMMA RowsConcat ==
    ASSUME NEW S, NEW a \in Seq(S), NEW b \in Seq(S), NEW w \in Nat, NEW m \in Nat, NEW n \in Nat,
           RowsIn(w, a, m), Len(a) = m * (w + 1), RowsIn(w, b, n)
    PROVE  RowsIn(w, a \o b, m + n)
  <1> DEFINE c == a \o b
             z == w + 1
  <1>1. /\ Len(c) = Len(a) + Len(b)
        /\ \A i \in 1..Len(a) + Len(b) : c[i] = IF i <= Len(a) THEN a[i] ELSE b[i - Len(a)]
    BY ConcatProperties
  <1>2. z \in Nat \ {0} /\ Len(a) \in Nat /\ Len(b) \in Nat
    OBVIOUS
  <1>3. /\ \A q \in 0..(m - 1) : IsRow(w, a, q * z + 1)
        /\ \A q \in 0..(n - 1) : IsRow(w, b, q * z + 1)
        /\ Len(a) = m * z /\ n * z <= Len(b)
    BY DEF RowsIn
  <1> HIDE DEF c, z
  <1>4. (m + n) * z <= Len(c)
    BY <1>1, <1>2, <1>3, Below
  <1>5. ASSUME NEW q \in 0..(m + n - 1) PROVE IsRow(w, c, q * z + 1)
    <2>1. CASE q < m
      <3>1. q \in 0..(m - 1) /\ q \in Nat
        BY <2>1
      <3>2. q * z \in Nat /\ q * z + z <= Len(a)
        <4>1. q * z \in Nat /\ q * z + z <= m * z
          BY <1>2, <2>1, <3>1, Below
        <4>2. QED
          BY <1>3, <4>1
      <3>3. w + 1 = z
        BY DEF z
      <3>4. \A i \in 0..w : c[q * z + 1 + i] = a[q * z + 1 + i]
        BY <1>1, <1>2, <3>2, <3>3
      <3>5. c[q * z + 1 + 0] = a[q * z + 1 + 0] /\ \A i \in 1..w : c[q * z + 1 + i] = a[q * z + 1 + i]
        BY <3>4
      <3>6. c[q * z + 1] = a[q * z + 1]
        BY <3>2, <3>5
      <3>7. IsRow(w, a, q * z + 1)
        BY <1>3, <3>1
      <3> DEFINE p == q * z + 1
      <3> HIDE DEF p
      <3>8. QED
        BY <3>5, <3>6, <3>7 DEF IsRow, p
    <2>2. CASE ~(q < m)
      <3> DEFINE e == q - m
      <3>1. e \in 0..(n - 1) /\ e \in Nat /\ q = m + e /\ e < n
        BY <2>2
      <3> HIDE DEF e
      <3>2. e * z \in Nat /\ e * z + z <= n * z /\ q * z = m * z + e * z /\ n * z \in Nat /\ m * z \in Nat
        BY <1>2, <3>1, Below
      <3>3. w + 1 = z
        BY DEF z
      <3>4. \A i \in 0..w : c[q * z + 1 + i] = b[e * z + 1 + i]
        <4> DEFINE x == e * z
                   y == q * z
        <4>1. x \in Nat /\ y = Len(a) + x /\ x + z <= Len(b)
          BY <1>2, <1>3, <3>2
        <4> HIDE DEF x, y
        <4>2. ASSUME NEW i \in 0..w PROVE c[y + 1 + i] = b[x + 1 + i]
          <5>1. /\ y + 1 + i \in 1..Len(a) + Len(b) /\ ~(y + 1 + i <= Len(a))
                /\ (y + 1 + i) - Len(a) = x + 1 + i
            BY <1>2, <3>3, <4>1
          <5>2. c[y + 1 + i] = b[(y + 1 + i) - Len(a)]
            BY <1>1, <5>1
          <5>3. QED
            BY <5>1, <5>2
        <4>3. QED
          BY <4>2 DEF x, y
      <3>5. c[q * z + 1 + 0] = b[e * z + 1 + 0] /\ \A i \in 1..w : c[q * z + 1 + i] = b[e * z + 1 + i]
        BY <3>4
      <3>6. c[q * z + 1] = b[e * z + 1]
        BY <3>2, <3>5
      <3>7. IsRow(w, b, e * z + 1)
        BY <1>3, <3>1
      <3> DEFINE p == q * z + 1
                 o == e * z + 1
      <3> HIDE DEF p, o
      <3>8. QED
        BY <3>5, <3>6, <3>7 DEF IsRow, p, o
    <2>3. QED
      BY <2>1, <2>2
  <1>6. QED
    BY <1>4, <1>5 DEF RowsIn, c, z

\* WholeRows, written with RowsIn.
LEMMA WholeRowsIs ==
    ASSUME NEW s, IsSeq(s), Len(req.coltypes) \in Nat
    PROVE  /\ WholeRows(s) /\ req.fc # "FC_QUERY" => s = <<>>
           /\ req.fc = "FC_QUERY" =>
                (WholeRows(s) <=> \E n \in Nat : /\ RowsIn(Len(req.coltypes), s, n)
                                                 /\ Len(s) = n * (Len(req.coltypes) + 1))
  <1> DEFINE w == Len(req.coltypes)
  <1>1. Len(s) \in Nat
    BY DEF IsSeq
  <1>2. WholeRows(s) /\ req.fc # "FC_QUERY" => s = <<>>
    BY DEF WholeRows, Partial
  <1>3. ASSUME req.fc = "FC_QUERY", Partial(req, s)
        PROVE  \E n \in Nat : RowsIn(w, s, n) /\ Len(s) = n * (w + 1)
    <2>1. PICK n \in 0..Len(s) : HasRows(req, s, n) /\ RowStart(req, n) = Len(s) + 1
      BY <1>3 DEF Partial
    <2>2. n \in Nat /\ RowsIn(w, s, n) /\ RowStart(req, n) = n * (w + 1) + 1
      BY <1>1, <2>1, HasRowsIs
    <2> DEFINE x == n * (w + 1)
    <2>3. x \in Int
      BY <2>2
    <2>4. x + 1 = Len(s) + 1
      BY <2>1, <2>2
    <2> HIDE DEF x
    <2>5. x = Len(s)
      BY <1>1, <2>3, <2>4
    <2>6. QED
      BY <2>2, <2>5 DEF x
  <1>4. s = <<>> => RowsIn(w, s, 0) /\ Len(s) = 0 * (w + 1)
    BY DEF RowsIn
  <1>5. ASSUME req.fc = "FC_QUERY", NEW n \in Nat, RowsIn(w, s, n), Len(s) = n * (w + 1)
        PROVE  Partial(req, s)
    <2>1. HasRows(req, s, n) /\ n \in 0..Len(s) /\ RowStart(req, n) = n * (w + 1) + 1
      BY <1>1, <1>5, HasRowsIs
    <2>2. RowStart(req, n) = Len(s) + 1
      BY <1>5, <2>1
    <2>3. QED
      BY <1>5, <2>1, <2>2 DEF Partial
  <1>6. 0 \in Nat
    OBVIOUS
  <1>7. QED
    BY <1>2, <1>3, <1>4, <1>5, <1>6 DEF WholeRows

\* Whole rows after whole rows are whole rows.
LEMMA MoreRows ==
    ASSUME NEW a, NEW b, IsSeq(a), IsSeq(b), Len(req.coltypes) \in Nat,
           WholeRows(a), WholeRows(b)
    PROVE  WholeRows(a \o b)
  <1> DEFINE w == Len(req.coltypes)
             c == a \o b
  <1>1. PICK S : a \in Seq(S) /\ b \in Seq(S)
    BY CommonSet
  <1>2. IsSeq(c)
    BY ConcatIsSeq
  <1>3. CASE req.fc = "FC_QUERY"
    <2>1. PICK m \in Nat : RowsIn(w, a, m) /\ Len(a) = m * (w + 1)
      BY <1>3, WholeRowsIs
    <2>2. PICK n \in Nat : RowsIn(w, b, n) /\ Len(b) = n * (w + 1)
      BY <1>3, WholeRowsIs
    <2>3. RowsIn(w, c, m + n)
      BY <1>1, <2>1, <2>2, RowsConcat
    <2>4. Len(c) = Len(a) + Len(b)
      BY <1>1, ConcatProperties
    <2>5. (m + n) * (w + 1) = m * (w + 1) + n * (w + 1) /\ m + n \in Nat
      <3> DEFINE z == w + 1
      <3>1. z \in Nat \ {0}
        OBVIOUS
      <3> HIDE DEF z
      <3>2. (m + n) * z = m * z + n * z /\ m + n \in Nat
        BY <3>1, Below
      <3>3. QED
        BY <3>2 DEF z
    <2> HIDE DEF c
    <2>6. Len(c) = (m + n) * (w + 1)
      BY <2>1, <2>2, <2>4, <2>5
    <2>7. \E k \in Nat : RowsIn(w, c, k) /\ Len(c) = k * (w + 1)
      BY <2>3, <2>5, <2>6
    <2>8. WholeRows(c)
      BY <1>2, <1>3, <2>7, WholeRowsIs
    <2>9. QED
      BY <2>8 DEF c
  <1>4. CASE req.fc # "FC_QUERY"
    <2>1. a = <<>> /\ b = <<>>
      BY <1>4, WholeRowsIs
    <2>2. QED
      BY <2>1 DEF WholeRows
  <1>5. QED
    BY <1>3, <1>4

\* The place p of b in a \o b.
LEMMA Shifted ==
    ASSUME NEW S, NEW a \in Seq(S), NEW b \in Seq(S), NEW p \in 1..Len(b)
    PROVE  (a \o b)[Len(a) + p] = b[p] /\ Len(a \o b) = Len(a) + Len(b)
  <1>1. /\ Len(a \o b) = Len(a) + Len(b)
        /\ \A i \in 1..Len(a) + Len(b) : (a \o b)[i] = IF i <= Len(a) THEN a[i] ELSE b[i - Len(a)]
    BY ConcatProperties
  <1> DEFINE c == a \o b
  <1>2. Len(a) \in Nat /\ Len(b) \in Nat
    OBVIOUS
  <1> HIDE DEF c
  <1>3. /\ Len(c) = Len(a) + Len(b)
        /\ \A i \in 1..Len(a) + Len(b) : c[i] = IF i <= Len(a) THEN a[i] ELSE b[i - Len(a)]
    BY <1>1 DEF c
  <1>4. Len(a) + p \in 1..Len(a) + Len(b) /\ ~(Len(a) + p <= Len(a)) /\ (Len(a) + p) - Len(a) = p
    BY <1>2
  <1>5. c[Len(a) + p] = b[(Len(a) + p) - Len(a)]
    BY <1>3, <1>4
  <1>6. QED
    BY <1>3, <1>4, <1>5 DEF c

\* The end of a reply is one wherever it stands.
LEMMA StatusShifted ==
    ASSUME NEW S, NEW a \in Seq(S), NEW b \in Seq(S), NEW p \in Nat \ {0}, EndsWithStatus(b, p)
    PROVE  EndsWithStatus(a \o b, Len(a) + p)
  <1> DEFINE c == a \o b
  <1>1. Len(a) \in Nat /\ Len(b) \in Nat
    OBVIOUS
  <1>2. p \in 1..Len(b)
    BY <1>1 DEF EndsWithStatus
  <1>3. c[Len(a) + p] = b[p] /\ Len(c) = Len(a) + Len(b)
    BY <1>2, Shifted
  <1>4. CASE b[p].v
    <2> HIDE DEF c
    <2>1. QED
      BY <1>1, <1>3, <1>4 DEF EndsWithStatus, c
  <1>5. CASE ~b[p].v
    <2>1. Len(b) = p + 1 /\ b[p + 1].k = "string" /\ p + 1 \in 1..Len(b)
      BY <1>1, <1>5 DEF EndsWithStatus
    <2>2. c[Len(a) + (p + 1)] = b[p + 1]
      BY <2>1, Shifted
    <2> HIDE DEF c
    <2>3. (Len(a) + p) + 1 = Len(a) + (p + 1) /\ Len(a) + p <= Len(c) /\ Len(c) = (Len(a) + p) + 1
      BY <1>1, <1>3, <2>1
    <2>4. c[Len(a) + p].k = "byte" /\ ~c[Len(a) + p].v
      BY <1>3, <1>5 DEF EndsWithStatus
    <2>5. c[(Len(a) + p) + 1].k = "string"
      BY <2>1, <2>2, <2>3
    <2>6. EndsWithStatus(c, Len(a) + p)
      BY <2>3, <2>4, <2>5 DEF EndsWithStatus
    <2>7. QED
      BY <2>6 DEF c
  <1>6. QED
    BY <1>4, <1>5

\* Whole rows before a complete reply make a complete reply.
LEMMA RowsThenEnd ==
    ASSUME NEW a, NEW b, IsSeq(a), IsSeq(b), Len(req.coltypes) \in Nat,
           WholeRows(a), Complete(req, b)
    PROVE  Complete(req, a \o b)
  <1> DEFINE w == Len(req.coltypes)
             c == a \o b
  <1>1. PICK S : a \in Seq(S) /\ b \in Seq(S)
    BY CommonSet
  <1>2. Len(a) \in Nat /\ Len(b) \in Nat /\ Len(c) \in Nat
    BY <1>1
  <1>3. CASE req.fc = "FC_QUERY"
    <2>1. PICK m \in Nat : RowsIn(w, a, m) /\ Len(a) = m * (w + 1)
      BY <1>3, WholeRowsIs
    <2>2. PICK n \in 0..Len(b) :
            /\ HasRows(req, b, n)
            /\ RowStart(req, n) <= Len(b)
            /\ b[RowStart(req, n)].k = "byte" /\ ~b[RowStart(req, n)].v
            /\ EndsWithStatus(b, RowStart(req, n) + 1)
      BY <1>3 DEF Complete
    <2> DEFINE p == RowStart(req, n)
               o == RowStart(req, m + n)
    <2>3. n \in Nat /\ m + n \in Nat /\ RowsIn(w, b, n) /\ p = n * (w + 1) + 1
      BY <1>2, <2>2, HasRowsIs
    <2>4. RowsIn(w, c, m + n)
      BY <1>1, <2>1, <2>3, RowsConcat
    <2>5. HasRows(req, c, m + n) /\ m + n \in 0..Len(c) /\ o = (m + n) * (w + 1) + 1
      <3> HIDE DEF c, o
      <3>1. HasRows(req, c, m + n) /\ m + n \in 0..Len(c) /\ RowStart(req, m + n) = (m + n) * (w + 1) + 1
        BY <1>2, <2>3, <2>4, HasRowsIs
      <3>2. QED
        BY <3>1 DEF o
    <2>6. o = Len(a) + p /\ p \in 1..Len(b) /\ p \in Nat \ {0}
      <3>1. (m + n) * (w + 1) = m * (w + 1) + n * (w + 1) /\ n * (w + 1) \in Nat
        <4> DEFINE z == w + 1
        <4>1. z \in Nat \ {0}
          OBVIOUS
        <4> HIDE DEF z
        <4>2. (m + n) * z = m * z + n * z /\ n * z \in Nat
          BY <2>3, <4>1, Below
        <4>3. QED
          BY <4>2 DEF z
      <3> HIDE DEF o, p
      <3> DEFINE x == n * (w + 1)
                 y == m * (w + 1)
      <3>2. o = (y + x) + 1 /\ p = x + 1 /\ x \in Nat /\ Len(a) = y
        BY <2>1, <2>3, <2>5, <3>1
      <3> HIDE DEF x, y
      <3>3. QED
        BY <1>2, <2>2, <3>2 DEF p
    <2>7. c[Len(a) + p] = b[p] /\ Len(c) = Len(a) + Len(b)
      BY <1>1, <2>6, Shifted
    <2>8. EndsWithStatus(c, Len(a) + (p + 1))
      <3>1. p + 1 \in Nat \ {0} /\ EndsWithStatus(b, p + 1)
        BY <2>2, <2>6
      <3>2. QED
        BY <1>1, <3>1, StatusShifted
    <2> HIDE DEF c, p, o
    <2>9. o <= Len(c) /\ Len(a) + (p + 1) = o + 1
      BY <1>2, <2>6, <2>7
    <2>10. c[o].k = "byte" /\ ~c[o].v
      BY <2>2, <2>6, <2>7 DEF p
    <2>11. EndsWithStatus(c, o + 1)
      BY <2>8, <2>9
    <2>12. Complete(req, c)
      BY <1>3, <2>5, <2>9, <2>10, <2>11 DEF Complete, o
    <2>13. QED
      BY <2>12 DEF c
  <1>4. CASE req.fc # "FC_QUERY"
    <2>1. a = <<>>
      BY <1>4, WholeRowsIs
    <2>2. <<>> \o b = b
      BY <1>1, ConcatEmptySeq
    <2>3. QED
      BY <2>1, <2>2
  <1>5. QED
    BY <1>3, <1>4

\* Whole rows are no complete reply: a client goes on reading.
LEMMA RowsAreNotAll ==
    ASSUME NEW s, IsSeq(s), Len(req.coltypes) \in Nat, WholeRows(s)
    PROVE  ~Complete(req, s)
  <1> DEFINE w == Len(req.coltypes)
  <1>1. Len(s) \in Nat
    BY DEF IsSeq
  <1>2. CASE req.fc = "FC_QUERY"
    <2>1. PICK m \in Nat : RowsIn(w, s, m) /\ Len(s) = m * (w + 1)
      BY <1>2, WholeRowsIs
    <2>2. SUFFICES ASSUME NEW n \in 0..Len(s), RowStart(req, n) <= Len(s), ~s[RowStart(req, n)].v
                   PROVE FALSE
      BY <1>2 DEF Complete
    <2>3. n \in Nat /\ RowStart(req, n) = n * (w + 1) + 1
      BY <1>1 DEF RowStart
    <2>4. n < m
      <3> DEFINE z == w + 1
      <3>1. z \in Nat \ {0} /\ n * z + 1 <= m * z
        BY <2>1, <2>2, <2>3
      <3> HIDE DEF z
      <3>2. /\ n * z \in Nat /\ m * z \in Nat
            /\ m < n => m * z + z <= n * z
        BY <2>3, <3>1, Below
      <3>3. QED
        BY <2>3, <3>1, <3>2
    <2>5. IsRow(w, s, n * (w + 1) + 1)
      BY <2>1, <2>3, <2>4 DEF RowsIn
    <2>6. QED
      BY <2>2, <2>3, <2>5 DEF IsRow
  <1>3. CASE req.fc # "FC_QUERY"
    <2>1. Len(s) = 0
      BY <1>3, WholeRowsIs
    <2>2. QED
      BY <1>3, <2>1 DEF Complete, EndsWithStatus
  <1>4. QED
    BY <1>2, <1>3

\* The end of a reply.
LEMMA StatusIs ==
    ASSUME NEW ok \in BOOLEAN, NEW errmsg
    PROVE  IsSeq(Status(ok, errmsg)) /\ EndsWithStatus(Status(ok, errmsg), 1)
  <1> DEFINE t == Tok("byte", TRUE)
             f == Tok("byte", FALSE)
             m == Tok("string", errmsg)
  <1>1. t.k = "byte" /\ t.v /\ f.k = "byte" /\ ~f.v /\ m.k = "string"
    BY DEF Tok
  <1>2. Status(ok, errmsg) = <<Tok("byte", ok)>> \o (IF ok THEN <<>> ELSE <<m>>)
    BY DEF Status
  <1> HIDE DEF t, f, m
  <1>3. CASE ok
    <2>1. Status(ok, errmsg) = <<t>> \o <<>>
      BY <1>2, <1>3 DEF t
    <2>2. <<t>> \o <<>> = <<t>>
      OBVIOUS
    <2> DEFINE a == <<t>>
    <2>3. IsSeq(a) /\ Len(a) = 1 /\ a[1] = t
      BY Short
    <2> HIDE DEF a
    <2>4. EndsWithStatus(a, 1)
      BY <1>1, <2>3 DEF EndsWithStatus
    <2>5. QED
      BY <2>1, <2>2, <2>3, <2>4 DEF a
  <1>4. CASE ~ok
    <2>1. Tok("byte", ok) = f
      BY <1>4 DEF f
    <2>2. Status(ok, errmsg) = <<f>> \o <<m>>
      BY <1>2, <1>4, <2>1
    <2> DEFINE a == <<f>> \o <<m>>
    <2>3. IsSeq(a) /\ Len(a) = 2 /\ a[1] = f /\ a[2] = m
      BY Short
    <2> HIDE DEF a
    <2>4. EndsWithStatus(a, 1)
      BY <1>1, <2>3 DEF EndsWithStatus
    <2>5. QED
      BY <2>2, <2>3, <2>4 DEF a
  <1>5. QED
    BY <1>3, <1>4

\* The end of the rows and of the reply.
LEMMA EndOfRows ==
    ASSUME NEW ok \in BOOLEAN, NEW errmsg, Len(req.coltypes) \in Nat, req.fc = "FC_QUERY"
    PROVE  Complete(req, <<Tok("byte", FALSE)>> \o Status(ok, errmsg))
  <1> DEFINE a == <<Tok("byte", FALSE)>>
             b == Status(ok, errmsg)
             c == a \o b
  <1>1. IsSeq(a) /\ Len(a) = 1 /\ a[1].k = "byte" /\ ~a[1].v
    <2> DEFINE t == Tok("byte", FALSE)
    <2>1. t.k = "byte" /\ ~t.v
      BY DEF Tok
    <2> HIDE DEF t
    <2>2. IsSeq(<<t>>) /\ Len(<<t>>) = 1 /\ <<t>>[1] = t
      BY Short
    <2>3. QED
      BY <2>1, <2>2 DEF t
  <1>2. IsSeq(b) /\ EndsWithStatus(b, 1)
    BY StatusIs
  <1> HIDE DEF a, b
  <1>3. PICK S : a \in Seq(S) /\ b \in Seq(S)
    BY <1>1, <1>2, CommonSet
  <1>4. EndsWithStatus(c, Len(a) + 1)
    BY <1>2, <1>3, StatusShifted
  <1>5. Len(c) = Len(a) + Len(b)
    BY <1>3, ConcatProperties
  <1>6. c[1] = a[1] /\ 1 <= Len(c) /\ Len(c) \in Nat
    <2>1. \A i \in 1..Len(a) + Len(b) : c[i] = IF i <= Len(a) THEN a[i] ELSE b[i - Len(a)]
      BY <1>3, ConcatProperties
    <2>2. Len(b) \in Nat
      BY <1>3
    <2> HIDE DEF c
    <2>3. QED
      BY <1>1, <1>5, <2>1, <2>2
  <1> HIDE DEF c
  <1>7. RowStart(req, 0) = 1 /\ HasRows(req, c, 0)
    BY <1>6 DEF RowStart, HasRows
  <1>8. EndsWithStatus(c, 1 + 1)
    BY <1>1, <1>4
  <1>9. Complete(req, c)
    BY <1>1, <1>6, <1>7, <1>8 DEF Complete
  <1>10. QED
    BY <1>9 DEF a, b, c

\* EncodeRow makes one row of the values it is given.
LEMMA EncodedRow ==
    ASSUME NEW w \in Nat, NEW values, DOMAIN values = 1..w
    PROVE  /\ IsSeq(EncodeRow(values)) /\ Len(EncodeRow(values)) = w + 1
           /\ RowsIn(w, EncodeRow(values), 1)
           /\ \A i \in 1..w : EncodeRow(values)[1 + i].v = values[i]
  <1> DEFINE a == <<Tok("byte", TRUE)>>
             b == [i \in DOMAIN values |-> Tok("value", values[i])]
             c == a \o b
  <1>1. IsSeq(a) /\ Len(a) = 1 /\ a[1].k = "byte" /\ a[1].v
    <2> DEFINE t == Tok("byte", TRUE)
    <2>1. t.k = "byte" /\ t.v
      BY DEF Tok
    <2> HIDE DEF t
    <2>2. IsSeq(<<t>>) /\ Len(<<t>>) = 1 /\ <<t>>[1] = t
      BY Short
    <2>3. QED
      BY <2>1, <2>2 DEF t
  <1>2. IsSeq(b) /\ Len(b) = w /\ \A i \in 1..w : b[i].k = "value" /\ b[i].v = values[i]
    <2>1. b = [i \in 1..w |-> b[i]] /\ \A i \in 1..w : b[i].k = "value" /\ b[i].v = values[i]
      BY DEF Tok
    <2> DEFINE R == {b[i] : i \in DOMAIN b}
    <2>2. DOMAIN b = 1..w
      BY <2>1
    <2>3. \A i \in 1..w : b[i] \in R
      BY <2>2
    <2> HIDE DEF b
    <2>4. b \in Seq(R) /\ Len(b) = w
      <3> HIDE DEF R
      <3>1. QED
        BY <2>1, <2>3, SeqIntro
    <2>5. QED
      BY <2>1, <2>4 DEF IsSeq
  <1> HIDE DEF a, b
  <1>3. PICK S : a \in Seq(S) /\ b \in Seq(S)
    BY <1>1, <1>2, CommonSet
  <1>4. IsSeq(c)
    BY <1>1, <1>2, ConcatIsSeq
  <1>5. /\ Len(c) = Len(a) + Len(b)
        /\ \A i \in 1..Len(a) + Len(b) : c[i] = IF i <= Len(a) THEN a[i] ELSE b[i - Len(a)]
    BY <1>3, ConcatProperties
  <1> HIDE DEF c
  <1>6. Len(c) = w + 1 /\ c[1] = a[1]
    BY <1>1, <1>2, <1>5
  <1>7. \A i \in 1..w : c[1 + i] = b[i]
    <2>1. \A i \in 1..w : 1 + i \in 1..Len(a) + Len(b) /\ ~(1 + i <= 1) /\ (1 + i) - 1 = i
      BY <1>1, <1>2
    <2>2. \A i \in 1..w : c[1 + i] = b[(1 + i) - 1]
      BY <1>1, <1>5, <2>1
    <2>3. QED
      BY <2>1, <2>2
  <1>8. IsRow(w, c, 1)
    <2>1. \A i \in 1..w : c[1 + i].k = "value"
      BY <1>2, <1>7
    <2>2. c[1].k = "byte" /\ c[1].v
      BY <1>1, <1>6
    <2>3. QED
      BY <2>1, <2>2 DEF IsRow
  <1>9. RowsIn(w, c, 1)
    <2>1. \A q \in 0..(1 - 1) : q * (w + 1) + 1 = 1
      OBVIOUS
    <2>2. QED
      BY <1>6, <1>8, <2>1 DEF RowsIn
  <1>10. EncodeRow(values) = c
    BY DEF EncodeRow, a, b, c
  <1>11. QED
    BY <1>2, <1>4, <1>6, <1>7, <1>9, <1>10

\* A row of as many values as there are wanted types.
LEMMA OneRow ==
    ASSUME NEW values, Len(req.coltypes) \in Nat, req.fc = "FC_QUERY",
           DOMAIN values = 1..Len(req.coltypes)
    PROVE  IsSeq(EncodeRow(values)) /\ WholeRows(EncodeRow(values))
  <1> DEFINE w == Len(req.coltypes)
             c == EncodeRow(values)
  <1>1. IsSeq(c) /\ Len(c) = 1 * (w + 1) /\ RowsIn(w, c, 1)
    BY EncodedRow
  <1> HIDE DEF c
  <1>2. \E n \in Nat : RowsIn(w, c, n) /\ Len(c) = n * (w + 1)
    BY <1>1
  <1>3. WholeRows(c)
    BY <1>1, <1>2, WholeRowsIs
  <1>4. QED
    BY <1>1, <1>3 DEF c

-----------------------------------------------------------------------------
\* The other steps of the handlers.

\* A step that binds the group that has been read.
LEMMA BindStep ==
    ASSUME Typed, RequestMatches, ClientMatches, ReplyMatches, IsDb(db'),
           pc = "bind", pc' \in Reads \cup {"reply"}, pc' = "reply" => req.fc # "FC_QUERY",
           UNCHANGED <<rbuf, stdin, stdout, peer, wbuf>>, UNCHANGED clientVars,
           h' \in Locals, Located(req, pc', h'), Unread(req, pc', h') = AfterGroup(req, h.i + 1)
    PROVE  Typed' /\ RequestMatches' /\ ClientMatches' /\ ReplyMatches'
  <1>1. pc \in Handling /\ pc' \in Handling /\ pc \in Reads
    BY DEF Handling, Reads
  <1>2. req' = req /\ todo' = todo /\ rbuf' = rbuf /\ wbuf' = wbuf /\ stdin' = stdin
    BY DEF clientVars
  <1>3. Stream' = Stream
    BY <1>2 DEF Stream
  <1>4. Stream = AfterGroup(req, h.i + 1)
    BY <1>1, InHandler DEF Unread
  <1>5. RequestMatches'
    BY <1>1, <1>2, <1>3, <1>4, ToHandler
  <1>6. Typed'
    <2>1. IsSeq(wbuf') /\ rbuf' \in Seq(Token)
      BY <1>2 DEF Typed, IsSeq
    <2>2. QED
      BY <1>1, <2>1, TypeKept
  <1>7. ClientMatches' /\ ReplyMatches'
    <2>1. ~Waiting
      BY DEF Waiting
    <2>2. QED
      BY <1>1, <1>3, <2>1, ReadsKeep
  <1>8. QED
    BY <1>5, <1>6, <1>7

\* An iteration of _fcExec, executed or not.
LEMMA BindExecStep ==
    ASSUME ServerInv, Typed, RequestMatches, ClientMatches, ReplyMatches, IsDb(db'),
           BindExec, UNCHANGED clientVars
    PROVE  Typed' /\ RequestMatches' /\ ClientMatches' /\ ReplyMatches'
  <1> DEFINE r == req
             l == h'
  <1>1. /\ pc = "bind" /\ h.fc = "FC_EXEC" /\ pc' = NextParam(l)
        /\ UNCHANGED <<rbuf, stdin, stdout, peer, wbuf>>
    BY DEF BindExec
  <1>2. /\ IsRequest(r) /\ r.fc \in {"FC_EXEC", "FC_QUERY"}
        /\ Located(r, "bind", h) /\ h.fc = r.fc /\ h \in Locals
    BY <1>1, InHandler DEF Handling
  <1>3. \E ok \in BOOLEAN : h' = [h EXCEPT !.ok = ok, !.i = h.i + 1, !.params = <<>>]
    <2>1. PICK o \in ExecIteration(h.ok, db, h.params) :
                 h' = [h EXCEPT !.ok = o.ok, !.i = @ + 1, !.params = <<>>]
      BY DEF BindExec
    <2>2. o.ok \in BOOLEAN
      <3>1. db.stmt.vm # "run" /\ IsDb(db)
        BY <1>1 DEF ServerInv, RunsOnlyInRows
      <3>2. CASE h.ok
        BY <3>1, <3>2, BindStepResetCall DEF ExecIteration
      <3>3. CASE ~h.ok
        BY <3>3, <1>2 DEF ExecIteration, Result, Locals
      <3>4. QED
        BY <3>2, <3>3
    <2>3. QED
      BY <2>1, <2>2
  <1>4. /\ l \in Locals /\ l.fc = h.fc /\ l.niter = h.niter /\ l.nparams = h.nparams
        /\ l.i = h.i + 1 /\ l.params = <<>> /\ l.coltypes = h.coltypes
    <2>1. PICK ok \in BOOLEAN : h' = [h EXCEPT !.ok = ok, !.i = h.i + 1, !.params = <<>>]
      BY <1>3
    <2> DEFINE P == [type : ValueTypes, v : STRING \cup {"none", "stale"}]
               e == <<>>
               n == h.i + 1
    <2>2. e \in Seq(P) /\ n \in Nat
      BY <1>2 DEF Locals
    <2> HIDE DEF e, P, n
    <2>3. h' = [h EXCEPT !.ok = ok, !.i = n, !.params = e]
      BY <2>1 DEF e, n
    <2>4. /\ l \in Locals /\ l.fc = h.fc /\ l.niter = h.niter /\ l.nparams = h.nparams
          /\ l.i = n /\ l.params = e /\ l.coltypes = h.coltypes
      BY <1>2, <2>2, <2>3 DEF Locals, P
    <2>5. QED
      BY <2>4 DEF e, n
  <1>5. /\ GroupsRead(r, h) /\ h.i < Len(r.params) /\ ParamsRead(r, h, r.nparams)
        /\ h.i \in Nat /\ Len(r.params) \in Nat
    BY <1>2, Parts DEF Located, Locals
  <1>6. h.i + 1 \in 1..Len(r.params)
    BY <1>5
  <1> HIDE DEF l
  <1>7. GroupsRead(r, l)
    <2>1. GoodGroup(r.params[h.i + 1])
      <3>1. Len(r.params[h.i + 1]) = r.nparams /\ DOMAIN r.params[h.i + 1] = 1..r.nparams
        <4> DEFINE g == h.i + 1
        <4>1. IsRequest(r) /\ r.nparams \in Nat /\ g \in 1..Len(r.params)
          BY <1>2, <1>5, <1>6 DEF GroupsRead
        <4> HIDE DEF g
        <4>2. Len(r.params[g]) = r.nparams /\ g \in DOMAIN r.params
          BY <4>1, GroupShape
        <4>3. DOMAIN r.params[g] = 1..Len(r.params[g])
          BY <4>1, <4>2, Parts
        <4>4. QED
          BY <4>2, <4>3 DEF g
      <3>2. QED
        BY <1>5, <3>1 DEF ParamsRead, GoodGroup
    <2>2. \A n \in 1..(h.i + 1) : n \in 1..h.i \/ n = h.i + 1
      BY <1>5
    <2>3. \A n \in 1..l.i : GoodGroup(r.params[n])
      BY <1>4, <1>5, <2>1, <2>2 DEF GroupsRead
    <2>4. l.i \in 0..Len(r.params)
      BY <1>4, <1>5
    <2>5. QED
      BY <1>4, <1>5, <2>3, <2>4 DEF GroupsRead
  <1>8. Len(l.params) = 0 /\ r.nparams \in Nat
    BY <1>4, <1>5 DEF GroupsRead
  <1>9. ParamsRead(r, l, Len(l.params))
    BY <1>8 DEF ParamsRead
  <1>10. /\ NextParam(l) \in {"ptype", "bind", "reply"}
         /\ NextParam(l) = "reply" => r.fc = "FC_EXEC"
         /\ Located(r, NextParam(l), l)
         /\ Unread(r, NextParam(l), l)
              = IF l.i < Len(r.params) THEN AfterParam(r, l.i + 1, Len(l.params)) ELSE <<>>
    <2>1. Len(l.params) \in 0..r.nparams /\ (l.params = <<>> <=> Len(l.params) = 0) /\ l.fc = r.fc
      BY <1>2, <1>4, <1>8
    <2>2. l.i < Len(r.params) \/ (r.fc = "FC_EXEC" /\ l.params = <<>>)
      BY <1>1, <1>2, <1>4
    <2>3. QED
      BY <1>2, <1>7, <1>9, <2>1, <2>2, NextPoint
  <1>11. Unread(r, NextParam(l), l) = AfterGroup(r, h.i + 1)
    <2>1. h.i + 1 \in 0..Len(r.params) /\ r.fc = "FC_EXEC"
      BY <1>1, <1>2, <1>6
    <2>2. AfterGroup(r, h.i + 1) = GroupsAfter(r, h.i + 1)
      BY <2>1 DEF AfterGroup
    <2>3. GroupsAfter(r, h.i + 1) = IF h.i + 1 # Len(r.params) THEN AfterParam(r, h.i + 1 + 1, 0) ELSE <<>>
      BY <1>2, <2>1, NextGroup
    <2>4. l.i < Len(r.params) <=> h.i + 1 # Len(r.params)
      BY <1>4, <1>5
    <2>5. QED
      BY <1>4, <1>8, <1>10, <2>2, <2>3, <2>4
  <1>12. pc' \in Reads \cup {"reply"} /\ (pc' = "reply" => r.fc # "FC_QUERY")
    BY <1>1, <1>10 DEF Reads
  <1>13. QED
    BY <1>1, <1>4, <1>10, <1>11, <1>12, BindStep DEF l

\* The parameters of _fcQuery, bound or not.
LEMMA BindQueryStep ==
    ASSUME ServerInv, Typed, RequestMatches, ClientMatches, ReplyMatches, IsDb(db'),
           BindQuery, UNCHANGED clientVars
    PROVE  Typed' /\ RequestMatches' /\ ClientMatches' /\ ReplyMatches'
  <1> DEFINE r == req
             l == h'
  <1>1. /\ pc = "bind" /\ h.fc = "FC_QUERY" /\ pc' = "ncols"
        /\ UNCHANGED <<rbuf, stdin, stdout, peer, wbuf>>
    BY DEF BindQuery
  <1>2. /\ IsRequest(r) /\ r.fc \in {"FC_EXEC", "FC_QUERY"}
        /\ Located(r, "bind", h) /\ h.fc = r.fc /\ h \in Locals
    BY <1>1, InHandler DEF Handling
  <1>3. \E ok \in BOOLEAN : h' = [h EXCEPT !.ok = ok, !.params = <<>>]
    <2>1. \E o : /\ o \in {Result(FALSE, db), bind(db, h.params)}
                 /\ h' = [h EXCEPT !.ok = o.ok, !.params = <<>>]
      BY DEF BindQuery, Db_bind
    <2>2. bind(db, h.params).ok \in BOOLEAN /\ Result(FALSE, db).ok = FALSE
      BY BindCall DEF ServerInv, Result
    <2>3. QED
      BY <2>1, <2>2
  <1>4. l \in Locals /\ l.fc = h.fc /\ l.coltypes = h.coltypes
    <2>1. PICK ok \in BOOLEAN : h' = [h EXCEPT !.ok = ok, !.params = <<>>]
      BY <1>3
    <2> DEFINE P == [type : ValueTypes, v : STRING \cup {"none", "stale"}]
               e == <<>>
    <2>2. e \in Seq(P)
      OBVIOUS
    <2> HIDE DEF e, P
    <2>3. h' = [h EXCEPT !.ok = ok, !.params = e]
      BY <2>1 DEF e
    <2>4. QED
      BY <1>2, <2>2, <2>3 DEF Locals, P
  <1>5. /\ GroupsRead(r, h) /\ h.i < Len(r.params) /\ ParamsRead(r, h, r.nparams)
        /\ h.i \in Nat /\ Len(r.params) = 1 /\ r.fc = "FC_QUERY"
    BY <1>1, <1>2 DEF Located, Locals, IsRequest
  <1> HIDE DEF l
  <1>6. Decodable(r)
    <2>1. h.i = 0 /\ 1 \in 1..Len(r.params) /\ DOMAIN r.params = 1..1
      BY <1>2, <1>5, Parts
    <2>2. DOMAIN r.params[1] = 1..r.nparams /\ r.nparams \in Nat
      <3>1. r.nparams \in Nat
        BY <1>5 DEF GroupsRead
      <3>2. Len(r.params[1]) = r.nparams /\ 1 \in DOMAIN r.params
        BY <1>2, <2>1, <3>1, GroupShape
      <3>3. DOMAIN r.params[1] = 1..Len(r.params[1])
        BY <1>2, <3>2, Parts
      <3>4. QED
        BY <3>1, <3>2, <3>3
    <2>3. \A j \in 1..r.nparams : GoodParam(r.params[1][j])
      BY <1>5, <2>1 DEF ParamsRead
    <2>4. QED
      BY <1>5, <2>1, <2>2, <2>3 DEF Decodable, FunctionCodes, GoodParam
  <1>7. Located(r, "ncols", l)
    BY <1>2, <1>4, <1>5, <1>6 DEF Located, GroupsRead
  <1>8. Unread(r, "ncols", l) = AfterGroup(r, h.i + 1)
    BY <1>5 DEF Unread, AfterGroup
  <1>9. "ncols" \in Reads
    BY DEF Reads
  <1>10. QED
    BY <1>1, <1>4, <1>7, <1>8, <1>9, BindStep DEF l

\* Encoding the request to end the session.
LEMMA QuitIs ==
    LET t == Tok("byte", "FC_QUIT")
    IN /\ Encode(QuitRequest) = <<t>> \o <<>> /\ t \in Token
       /\ QuitRequest.fc = "FC_QUIT" /\ QuitRequest.coltypes = <<>>
       /\ Decodable(QuitRequest)
       /\ NoReq.fc = "none" /\ NoReq.coltypes = <<>>
  <1> DEFINE t == Tok("byte", "FC_QUIT")
  <1>1. t \in Token
    BY DEF Tok, Token, TokenKinds
  <1>2. QuitRequest.fc = "FC_QUIT" /\ QuitRequest.coltypes = <<>>
    BY DEF QuitRequest
  <1>3. Encode(QuitRequest) = <<t>>
    BY <1>2 DEF Encode
  <1>4. <<t>> = <<t>> \o <<>>
    <2> HIDE DEF t
    <2>1. QED
      BY <1>1
  <1>5. Decodable(QuitRequest)
    BY DEF Decodable, QuitRequest, FunctionCodes
  <1>6. NoReq.fc = "none" /\ NoReq.coltypes = <<>>
    BY DEF NoReq, QuitRequest
  <1>7. QED
    BY <1>1, <1>2, <1>3, <1>4, <1>5, <1>6

\* A request of a function that App_step does not know is one byte.
LEMMA UnknownIs ==
    ASSUME NEW r, IsRequest(r), r.fc \notin {"FC_EXEC", "FC_QUERY"}
    PROVE  /\ Encode(r) = <<Tok("byte", r.fc)>> \o <<>> /\ Tok("byte", r.fc) \in Token
           /\ r.fc \notin FunctionCodes
  <1> DEFINE t == Tok("byte", r.fc)
  <1>1. r.fc \in STRING \ {"FC_QUIT"}
    BY DEF IsRequest
  <1>2. t \in Token
    BY <1>1 DEF Tok, Token, TokenKinds
  <1>3. Encode(r) = <<t>>
    BY DEF Encode
  <1>4. <<t>> = <<t>> \o <<>>
    <2> HIDE DEF t
    <2>1. QED
      BY <1>2
  <1>5. r.fc \notin FunctionCodes
    BY <1>1 DEF FunctionCodes
  <1>6. QED
    BY <1>2, <1>3, <1>4, <1>5

\* Every request begins with its function code.
LEMMA HeadOfRequest ==
    ASSUME Typed, RequestMatches, pc = "fc", rbuf # <<>>,
           rbuf' = Tail(rbuf), stdin' = stdin, todo' = todo
    PROVE  /\ Head(rbuf) = Tok("byte", req.fc) /\ rbuf' \in Seq(Token)
           /\ req \in Requests \cup {QuitRequest} /\ Stream # <<>>
           /\ req \in Requests => IsRequest(req)
           /\ req.fc \in {"FC_EXEC", "FC_QUERY"} => Stream' = FromSql(req) /\ req \in Requests
           /\ req.fc \notin {"FC_EXEC", "FC_QUERY"} => Stream' = <<>>
           /\ req.fc \in FunctionCodes \ {"FC_EXEC", "FC_QUERY"} => req = QuitRequest
  <1>1. Stream # <<>>
    BY EmptyStream
  <1>2. Stream = Encode(req) /\ req \in Requests \cup {QuitRequest}
    BY <1>1 DEF RequestMatches
  <1>3. req \in Requests => IsRequest(req)
    BY RequestsAssumption
  <1>4. \E rest \in Seq(Token) :
          /\ Stream = <<Tok("byte", req.fc)>> \o rest /\ Tok("byte", req.fc) \in Token
          /\ req.fc \in {"FC_EXEC", "FC_QUERY"} => rest = FromSql(req) /\ req \in Requests
          /\ req.fc \notin {"FC_EXEC", "FC_QUERY"} => rest = <<>>
          /\ req.fc \in FunctionCodes \ {"FC_EXEC", "FC_QUERY"} => req = QuitRequest
    <2>1. CASE req \in Requests /\ req.fc \in {"FC_EXEC", "FC_QUERY"}
      BY <1>2, <1>3, <2>1, EncodeIs
    <2>2. CASE req \in Requests /\ req.fc \notin {"FC_EXEC", "FC_QUERY"}
      <3>1. /\ Encode(req) = <<Tok("byte", req.fc)>> \o <<>> /\ Tok("byte", req.fc) \in Token
            /\ req.fc \notin FunctionCodes
        BY <1>3, <2>2, UnknownIs
      <3>2. <<>> \in Seq(Token)
        OBVIOUS
      <3>3. QED
        BY <1>2, <2>2, <3>1, <3>2
    <2>3. CASE req = QuitRequest
      <3>1. /\ Encode(req) = <<Tok("byte", req.fc)>> \o <<>> /\ Tok("byte", req.fc) \in Token
            /\ req.fc \notin {"FC_EXEC", "FC_QUERY"}
        BY <2>3, QuitIs
      <3>2. <<>> \in Seq(Token)
        OBVIOUS
      <3>3. QED
        BY <1>2, <2>3, <3>1, <3>2
    <2>4. QED
      BY <1>2, <2>1, <2>2, <2>3
  <1>5. PICK rest \in Seq(Token) :
          /\ Stream = <<Tok("byte", req.fc)>> \o rest /\ Tok("byte", req.fc) \in Token
          /\ req.fc \in {"FC_EXEC", "FC_QUERY"} => rest = FromSql(req) /\ req \in Requests
          /\ req.fc \notin {"FC_EXEC", "FC_QUERY"} => rest = <<>>
          /\ req.fc \in FunctionCodes \ {"FC_EXEC", "FC_QUERY"} => req = QuitRequest
    BY <1>4
  <1> DEFINE t == Tok("byte", req.fc)
  <1> HIDE DEF t
  <1>6. Head(rbuf) = t /\ Stream' = rest /\ rbuf' \in Seq(Token)
    BY <1>5, TokenStream DEF t
  <1>7. QED
    BY <1>1, <1>2, <1>3, <1>5, <1>6 DEF t

\* The function code, after which a request to end is answered at once.
LEMMA AppStepStep ==
    ASSUME Typed, RequestMatches, ClientMatches, ReplyMatches, IsDb(db'),
           AppStep, UNCHANGED clientVars
    PROVE  Typed' /\ RequestMatches' /\ ClientMatches' /\ ReplyMatches'
  <1> DEFINE f == Head(rbuf).v
  <1>1. /\ pc = "fc" /\ rbuf # <<>> /\ rbuf' = Tail(rbuf)
        /\ UNCHANGED <<stdin, stdout, peer>>
        /\ f \in FunctionCodes /\ h' = [NoRequest EXCEPT !.fc = f]
        /\ IF f = "FC_QUIT" THEN pc' = "flush" /\ wbuf' = wbuf \o Status(TRUE, "")
           ELSE pc' = "sql" /\ wbuf' = wbuf
    BY DEF AppStep, Read, At, Val
  <1>2. /\ todo' = todo /\ req' = req /\ st' = st /\ got' = got
        /\ stdin' = stdin /\ stdout' = stdout /\ peer' = peer
    BY <1>1 DEF clientVars
  <1>3. /\ Head(rbuf) = Tok("byte", req.fc) /\ rbuf' \in Seq(Token)
        /\ req \in Requests \cup {QuitRequest} /\ Stream # <<>>
        /\ req \in Requests => IsRequest(req)
        /\ req.fc \in {"FC_EXEC", "FC_QUERY"} => Stream' = FromSql(req) /\ req \in Requests
        /\ req.fc \notin {"FC_EXEC", "FC_QUERY"} => Stream' = <<>>
        /\ req.fc \in FunctionCodes \ {"FC_EXEC", "FC_QUERY"} => req = QuitRequest
    BY <1>1, <1>2, HeadOfRequest
  <1>4. f = req.fc
    BY <1>3 DEF Tok
  <1> HIDE DEF f
  <1>5. /\ h' \in Locals /\ h'.fc = f /\ h'.i = 0 /\ h'.params = <<>> /\ h'.coltypes = <<>>
    <2> DEFINE P == [type : ValueTypes, v : STRING \cup {"none", "stale"}]
               e == <<>>
    <2>1. e \in Seq(P) /\ e \in Seq(STRING)
      OBVIOUS
    <2>2. NoRequest = [fc |-> "none", ok |-> TRUE, niter |-> 0, nparams |-> 0, i |-> 0,
                       params |-> e, ncols |-> 0, coltypes |-> e, hasRow |-> TRUE]
      BY DEF NoRequest
    <2> HIDE DEF P, e
    <2> DEFINE l == [fc |-> f, ok |-> TRUE, niter |-> 0, nparams |-> 0, i |-> 0,
                     params |-> e, ncols |-> 0, coltypes |-> e, hasRow |-> TRUE]
    <2>3. h' = l
      BY <1>1, <2>2
    <2>4. l \in Locals
      <3>1. f \in FunctionCodes /\ e \in Seq(P) /\ e \in Seq(STRING)
        BY <1>1, <2>1
      <3>2. Locals = [fc : FunctionCodes \cup {"none"}, ok : BOOLEAN, niter : Int, nparams : Nat,
                      i : Nat, params : Seq(P), ncols : Nat,
                      coltypes : Seq(STRING), hasRow : BOOLEAN]
        BY DEF Locals, P
      <3>3. QED
        BY <3>1, <3>2
    <2>5. l.fc = f /\ l.i = 0 /\ l.params = e /\ l.coltypes = e
      OBVIOUS
    <2> HIDE DEF l
    <2>6. QED
      BY <2>3, <2>4, <2>5 DEF e
  <1>6. ~Waiting /\ wbuf = <<>>
    BY <1>1, <1>3 DEF Waiting, ReplyMatches
  <1>7. CASE f \in {"FC_EXEC", "FC_QUERY"}
    <2>1. pc' = "sql" /\ wbuf' = wbuf /\ Stream' = FromSql(req) /\ req \in Requests
      BY <1>1, <1>3, <1>4, <1>7
    <2>2. Located(req, "sql", h') /\ Unread(req, "sql", h') = FromSql(req)
      BY <1>4, <1>5 DEF Located, Unread
    <2>3. RequestMatches'
      BY <1>2, <1>4, <1>7, <2>1, <2>2 DEF RequestMatches, Handling
    <2>4. Typed'
      <3>1. IsSeq(wbuf') /\ pc' \in Handling
        BY <2>1 DEF Typed, IsSeq, Handling
      <3>2. QED
        BY <1>1, <1>3, <1>5, <3>1, TypeKept
    <2>5. ClientMatches' /\ ReplyMatches'
      BY <1>1, <1>3, <1>6, <2>1, ReadsKeep DEF Reads
    <2>6. QED
      BY <2>3, <2>4, <2>5
  <1>8. CASE f \notin {"FC_EXEC", "FC_QUERY"}
    <2>1. req = QuitRequest /\ f = "FC_QUIT" /\ Stream' = <<>>
      BY <1>1, <1>3, <1>4, <1>8 DEF FunctionCodes
    <2>2. pc' = "flush" /\ wbuf' = Status(TRUE, "")
      <3>1. pc' = "flush" /\ wbuf' = <<>> \o Status(TRUE, "")
        BY <1>1, <1>6, <2>1
      <3>2. IsSeq(Status(TRUE, ""))
        BY StatusIs
      <3> DEFINE s == Status(TRUE, "")
      <3> HIDE DEF s
      <3>3. <<>> \o s = s
        BY <3>2, ConcatEmptySeq DEF IsSeq, s
      <3>4. QED
        BY <3>1, <3>3 DEF s
    <2>3. Complete(req, wbuf') /\ IsSeq(wbuf')
      <3>1. req.fc # "FC_QUERY"
        BY <2>1, QuitIs
      <3>2. IsSeq(Status(TRUE, "")) /\ EndsWithStatus(Status(TRUE, ""), 1)
        BY StatusIs
      <3>3. QED
        BY <2>2, <3>1, <3>2 DEF Complete
    <2>4. Located(req, "flush", h') /\ Unread(req, "flush", h') = <<>>
      BY <1>4, <1>5, <2>1, QuitIs DEF Located, Unread
    <2>5. RequestMatches'
      <3>1. req # NoReq
        BY <2>1, QuitIs
      <3>2. QED
        BY <1>2, <2>1, <2>2, <2>4, <3>1 DEF RequestMatches, Handling
    <2>6. Typed'
      BY <1>1, <1>3, <1>5, <2>2, <2>3, TypeKept
    <2>7. st \notin {"idle", "bye", "lost"} /\ ~Waiting' /\ ~Replied /\ ~Replied'
      BY <1>1, <1>6, <2>2 DEF ClientMatches, Down, Waiting, Replied
    <2>8. ClientMatches'
      BY <1>2, <2>7 DEF ClientMatches
    <2>9. \A s : WholeRows(s)' <=> WholeRows(s)
      BY <1>2 DEF WholeRows
    <2>10. ReplyMatches'
      BY <1>2, <1>3, <2>1, <2>2, <2>3, <2>7, <2>9 DEF ReplyMatches, WholeRows
    <2>11. QED
      BY <2>5, <2>6, <2>8, <2>10
  <1>9. QED
    BY <1>7, <1>8

\* Pointers to a frame whose place has been taken keep their types.
LEMMA StaleIs ==
    ASSUME NEW ps, ps \in Seq([type : ValueTypes, v : STRING \cup {"none", "stale"}]),
           NEW qs \in {ps, Stale(ps)}
    PROVE  /\ qs \in Seq([type : ValueTypes, v : STRING \cup {"none", "stale"}])
           /\ Len(qs) = Len(ps) /\ (ps = <<>> => qs = <<>>)
           /\ \A j \in 1..Len(ps) :
                /\ qs[j].type = ps[j].type
                /\ qs[j].v = ps[j].v \/ (ps[j].type \in Pointers /\ qs[j].v = "stale")
  <1> DEFINE V == STRING \cup {"none", "stale"}
             P == [type : ValueTypes, v : V]
             n == Len(ps)
             new(j) == IF ps[j].type \in Pointers THEN [ps[j] EXCEPT !.v = "stale"] ELSE ps[j]
             s == [j \in 1..n |-> new(j)]
  <1>1. ps \in Seq(P) /\ n \in Nat /\ DOMAIN ps = 1..n /\ \A j \in 1..n : ps[j] \in P
    <2>1. ps \in Seq(P)
      OBVIOUS
    <2> HIDE DEF P
    <2>2. QED
      BY <2>1
  <1>2. "stale" \in V
    OBVIOUS
  <1>3. Stale(ps) = s
    BY <1>1 DEF Stale
  <1> HIDE DEF V
  <1>4. \A j \in 1..n : /\ new(j) \in P /\ new(j).type = ps[j].type
                        /\ new(j).v = ps[j].v \/ (ps[j].type \in Pointers /\ new(j).v = "stale")
    BY <1>1, <1>2
  <1>5. \A j \in 1..n : s[j] = new(j)
    OBVIOUS
  <1> HIDE DEF new, P
  <1>6. \A j \in 1..n : s[j] \in P
    BY <1>4, <1>5
  <1>7. s = [j \in 1..n |-> s[j]]
    OBVIOUS
  <1> HIDE DEF s
  <1>8. s \in Seq(P) /\ Len(s) = n
    BY <1>1, <1>6, <1>7, SeqIntro
  <1>9. ps = <<>> => s = <<>>
    BY <1>8, EmptySeq
  <1>10. CASE qs = ps
    BY <1>10 DEF P, V
  <1>11. CASE qs = s
    <2>1. \A j \in 1..n : /\ s[j].type = ps[j].type
                          /\ s[j].v = ps[j].v \/ (ps[j].type \in Pointers /\ s[j].v = "stale")
      BY <1>4, <1>5
    <2>2. QED
      BY <1>8, <1>9, <1>11, <2>1 DEF P, V
  <1>12. QED
    BY <1>3, <1>10, <1>11

\* The next frame comes into the buffer.
LEMMA FrameStep ==
    ASSUME Typed, RequestMatches, ClientMatches, ReplyMatches,
           readNextFrameIfNeeded, UNCHANGED clientVars
    PROVE  Typed' /\ RequestMatches' /\ ClientMatches' /\ ReplyMatches'
  <1> DEFINE l == h'
             P == [type : ValueTypes, v : STRING \cup {"none", "stale"}]
  <1>1. /\ rbuf = <<>> /\ stdin # <<>> /\ rbuf' = Head(stdin) /\ stdin' = Tail(stdin)
        /\ \E params \in {h.params, Stale(h.params)} : h' = [h EXCEPT !.params = params]
        /\ UNCHANGED <<db, pc, wbuf, stdout, peer>>
    BY DEF readNextFrameIfNeeded
  <1>2. /\ todo' = todo /\ req' = req /\ st' = st /\ got' = got /\ sent' = sent
        /\ pc' = pc /\ wbuf' = wbuf /\ stdout' = stdout /\ peer' = peer /\ db' = db
    BY <1>1 DEF clientVars
  <1>3. /\ Stream' = Stream
        /\ rbuf' \in Seq(Token) /\ stdin' \in Seq(Seq(Token))
        /\ \A i \in DOMAIN stdin' : stdin'[i] # <<>>
        /\ Len(stdin') <= Len(stdin)
    BY <1>1, <1>2, FrameStream
  <1>4. h \in Locals
    BY DEF Typed, TypeOK, Locals
  <1>5. PICK qs \in {h.params, Stale(h.params)} : h' = [h EXCEPT !.params = qs]
    BY <1>1
  <1>6. h.params \in Seq(P)
    BY <1>4 DEF Locals
  <1>7. /\ qs \in Seq(P) /\ Len(qs) = Len(h.params) /\ (h.params = <<>> => qs = <<>>)
        /\ \A j \in 1..Len(h.params) :
             /\ qs[j].type = h.params[j].type
             /\ qs[j].v = h.params[j].v \/ (h.params[j].type \in Pointers /\ qs[j].v = "stale")
    BY <1>6, StaleIs
  <1>8. /\ l \in Locals /\ l.fc = h.fc /\ l.niter = h.niter /\ l.nparams = h.nparams /\ l.i = h.i
        /\ l.params = qs /\ l.coltypes = h.coltypes /\ l.ncols = h.ncols
    <2>1. Locals = [fc : FunctionCodes \cup {"none"}, ok : BOOLEAN, niter : Int, nparams : Nat,
                    i : Nat, params : Seq(P), ncols : Nat,
                    coltypes : Seq(STRING), hasRow : BOOLEAN]
      BY DEF Locals
    <2> HIDE DEF P
    <2>2. QED
      BY <1>4, <1>5, <1>7, <2>1
  <1>9. Typed'
    <2>1. TypeOK'
      <3>1. Len(stdin') <= PipeCap
        <4>1. Len(stdin) \in Nat /\ Len(stdin') \in Nat /\ PipeCap \in Nat /\ Len(stdin) <= PipeCap
          BY <1>3, PipeCapAssumption DEF Typed, TypeOK
        <4>2. QED
          BY <1>3, <4>1
      <3>2. QED
        BY <1>2, <1>8, <3>1 DEF Typed, TypeOK, Locals
    <2>2. QED
      BY <1>2, <1>3, <2>1 DEF Typed, IsSeq
  <1>10. RequestMatches'
    <2>1. pc \in Handling \cup {"flush"} => Located(req, pc, l) /\ Unread(req, pc, l) = Unread(req, pc, h)
      <3>1. SUFFICES ASSUME pc \in Handling \cup {"flush"}
                     PROVE Located(req, pc, l) /\ Unread(req, pc, l) = Unread(req, pc, h)
        OBVIOUS
      <3>2. Located(req, pc, h)
        BY <3>1 DEF RequestMatches
      <3>3. Unread(req, pc, l) = Unread(req, pc, h)
        BY <1>7, <1>8 DEF Unread
      <3>4. GroupsRead(req, h) => GroupsRead(req, l)
        BY <1>8 DEF GroupsRead
      <3>5. ASSUME NEW n, n \in Nat, n <= Len(h.params), ParamsRead(req, h, n)
            PROVE ParamsRead(req, l, n)
        <4>1. \A j \in 1..n : j \in 1..Len(h.params)
          BY <1>6, <3>5
        <4>2. ASSUME NEW j \in 1..n, NEW q, Arrived(h.params[j], q) PROVE Arrived(qs[j], q)
          BY <1>7, <4>1, <4>2 DEF Arrived
        <4>3. QED
          BY <1>8, <3>5, <4>2 DEF ParamsRead
      <3> HIDE DEF l, P
      <3>6. pc = "ptype" => Len(l.params) < req.nparams /\ ParamsRead(req, l, Len(l.params))
        <4>1. Len(h.params) \in Nat
          BY <1>6
        <4>2. QED
          BY <1>7, <1>8, <3>2, <3>5, <4>1 DEF Located
      <3>7. ASSUME pc = "pvalue"
            PROVE  /\ Len(l.params) \in 1..req.nparams
                   /\ ParamsRead(req, l, Len(l.params) - 1)
                   /\ l.params[Len(l.params)].type = req.params[l.i + 1][Len(l.params)].type
                   /\ l.params[Len(l.params)].type # "VT_NULL"
        <4> DEFINE m == Len(h.params)
        <4>1. /\ m \in 1..req.nparams /\ ParamsRead(req, h, m - 1)
              /\ h.params[m].type = req.params[h.i + 1][m].type /\ h.params[m].type # "VT_NULL"
          BY <3>2, <3>7 DEF Located
        <4>2. m \in Nat
          BY <1>6
        <4>3. Len(l.params) = m /\ \A j \in 1..m : l.params[j].type = h.params[j].type
          BY <1>7, <1>8
        <4> HIDE DEF m
        <4>4. m \in 1..m /\ m - 1 \in Nat /\ m - 1 <= m
          BY <4>1, <4>2
        <4>5. ParamsRead(req, l, m - 1)
          BY <3>5, <4>1, <4>4 DEF m
        <4>6. QED
          BY <1>8, <4>1, <4>3, <4>4, <4>5
      <3>8. pc = "bind" => Len(l.params) = req.nparams /\ ParamsRead(req, l, req.nparams)
        <4>1. Len(h.params) \in Nat /\ Len(h.params) <= Len(h.params)
          BY <1>6
        <4>2. QED
          BY <1>7, <1>8, <3>2, <3>5, <4>1 DEF Located
      <3>9. Located(req, pc, l)
        BY <1>7, <1>8, <3>2, <3>4, <3>6, <3>7, <3>8 DEF Located
      <3>10. QED
        BY <3>3, <3>9
    <2>2. QED
      BY <1>2, <1>3, <2>1 DEF RequestMatches
  <1>11. ClientMatches'
    BY <1>2, <1>3 DEF ClientMatches, Waiting, Down
  <1>12. ReplyMatches'
    <2>1. \A s : WholeRows(s)' <=> WholeRows(s)
      BY <1>2 DEF WholeRows
    <2>2. Replied' <=> Replied
      BY <1>2, <1>3 DEF Replied, Waiting
    <2>3. QED
      BY <1>2, <1>3, <2>1, <2>2 DEF ReplyMatches
  <1>13. QED
    BY <1>9, <1>10, <1>11, <1>12

\* Every request has columns, if only none.
LEMMA ColumnsOf ==
    ASSUME RequestMatches
    PROVE  Len(req.coltypes) \in Nat /\ (req \in Requests => IsRequest(req))
  <1>1. CASE req \in Requests
    <2>1. IsRequest(req)
      BY <1>1, RequestsAssumption
    <2>2. QED
      BY <2>1, Parts
  <1>2. CASE req \in {QuitRequest, NoReq}
    <2>1. req.coltypes = <<>>
      BY <1>2, QuitIs
    <2>2. Len(req.coltypes) = 0
      BY <2>1
    <2>3. req \in Requests => IsRequest(req)
      BY RequestsAssumption
    <2>4. QED
      BY <2>2, <2>3
  <1>3. QED
    BY <1>1, <1>2 DEF RequestMatches

\* What has been written of a reply before its end; nothing is left to be read.
Replying == {"step", "mark", "reply"}

\* While a reply is being written the request has been read, and the client waits for the rest.
LEMMA InReply ==
    ASSUME Typed, RequestMatches, ClientMatches, pc \in Replying
    PROVE  /\ Stream = <<>> /\ Located(req, pc, h) /\ h \in Locals
           /\ req \in Requests /\ req.fc \in {"FC_EXEC", "FC_QUERY"}
           /\ ~Waiting /\ ~Replied /\ st \notin {"idle", "sending", "bye", "lost"}
  <1>1. pc \in Handling
    BY DEF Handling, Replying
  <1>2. /\ Located(req, pc, h) /\ Stream = Unread(req, pc, h) /\ h \in Locals
        /\ req \in Requests /\ req.fc \in {"FC_EXEC", "FC_QUERY"}
    BY <1>1, InHandler DEF RequestMatches
  <1>3. Stream = <<>>
    BY <1>2 DEF Unread, Replying
  <1>4. ~Waiting /\ ~Replied
    BY DEF Waiting, Replied, Replying
  <1>5. todo = <<>>
    BY <1>3, EmptyStream
  <1>6. QED
    BY <1>2, <1>3, <1>4, <1>5 DEF ClientMatches, Replying, Waiting, Down

\* A step of a handler that writes to the reply, or sends what it has written.
LEMMA WriteStep ==
    ASSUME Typed, RequestMatches, ClientMatches, IsDb(db'),
           pc \in Replying, pc' \in Replying \cup {"flush"},
           pc' \in {"step", "mark"} => pc \in {"step", "mark"},
           pc' = "reply" => pc = "step", pc' = "flush" => pc = "reply",
           UNCHANGED <<rbuf, stdin, peer>>, UNCHANGED clientVars,
           h' \in Locals, h'.fc = h.fc, h'.i = h.i, h'.coltypes = h.coltypes,
           IsSeq(wbuf'), IsSeq(stdout'), \A i \in DOMAIN stdout' : IsSeq(stdout'[i]),
           Len(stdout') <= PipeCap
    PROVE  /\ Typed' /\ RequestMatches' /\ ClientMatches'
           /\ Stream' = <<>> /\ ~Replied' /\ \A s : WholeRows(s)' <=> WholeRows(s)
  <1>1. /\ Stream = <<>> /\ Located(req, pc, h) /\ h \in Locals
        /\ req \in Requests /\ req.fc \in {"FC_EXEC", "FC_QUERY"}
        /\ ~Waiting /\ ~Replied /\ st \notin {"idle", "sending", "bye", "lost"}
    BY InReply
  <1>2. /\ todo' = todo /\ req' = req /\ st' = st /\ got' = got /\ sent' = sent
        /\ rbuf' = rbuf /\ stdin' = stdin /\ peer' = peer
    BY DEF clientVars
  <1>3. Stream' = <<>>
    BY <1>1, <1>2 DEF Stream
  <1>4. Located(req, pc', h')
    BY <1>1 DEF Located, Replying
  <1>5. Unread(req, pc', h') = <<>>
    BY DEF Unread, Replying
  <1>6. RequestMatches'
    <2>1. NoReq.fc = "none"
      BY QuitIs
    <2>2. req # NoReq
      BY <1>1, <2>1
    <2>3. QED
      BY <1>1, <1>2, <1>3, <1>4, <1>5, <2>2 DEF RequestMatches, Handling, Replying
  <1>7. Typed'
    <2>1. (db.auto)' \in BOOLEAN /\ (db.stmt.vm)' \in {"none", "ready", "run", "halt"}
      BY DEF IsDb, IsStmt
    <2>2. TypeOK'
      BY <1>2, <2>1 DEF Typed, TypeOK, Locals, Replying
    <2>3. QED
      BY <1>2, <2>2 DEF Typed, IsSeq
  <1>8. ~Waiting' /\ ~Replied'
    BY DEF Waiting, Replied, Replying
  <1>9. ClientMatches'
    BY <1>1, <1>2, <1>8 DEF ClientMatches
  <1>10. \A s : WholeRows(s)' <=> WholeRows(s)
    BY <1>2 DEF WholeRows
  <1>11. QED
    BY <1>3, <1>6, <1>7, <1>8, <1>9, <1>10

\* One more frame in a pipe of frames.
LEMMA FrameSent ==
    ASSUME IsSeq(stdout), \A i \in DOMAIN stdout : IsSeq(stdout[i]), IsSeq(wbuf),
           Len(stdout) < PipeCap, stdout' = Append(stdout, wbuf)
    PROVE  /\ IsSeq(stdout') /\ (\A i \in DOMAIN stdout' : IsSeq(stdout'[i]))
           /\ Len(stdout) \in Nat /\ Len(stdout') = Len(stdout) + 1 /\ Len(stdout') <= PipeCap
           /\ stdout'[Len(stdout')] = wbuf /\ stdout' # <<>>
           /\ \A i \in DOMAIN stdout' :
                IF i < Len(stdout') THEN i \in DOMAIN stdout /\ stdout'[i] = stdout[i]
                ELSE stdout'[i] = wbuf
  <1> DEFINE S == {stdout[i] : i \in DOMAIN stdout} \cup {wbuf}
             n == Len(stdout)
  <1>1. stdout \in Seq(S) /\ wbuf \in S
    <2> DEFINE R == {stdout[i] : i \in DOMAIN stdout}
    <2>1. stdout \in Seq(R)
      BY DEF IsSeq
    <2> HIDE DEF R
    <2>2. stdout \in Seq(R \cup {wbuf})
      BY <2>1
    <2>3. QED
      BY <2>2 DEF R
  <1> HIDE DEF S
  <1>2. n \in Nat /\ DOMAIN stdout = 1..n
    BY <1>1
  <1>3. /\ stdout' \in Seq(S) /\ Len(stdout') = n + 1
        /\ \A i \in 1..n : stdout'[i] = stdout[i]
        /\ stdout'[n + 1] = wbuf
    BY <1>1, AppendProperties
  <1>4. IsSeq(stdout')
    BY <1>3, SeqIsSeq
  <1>5. DOMAIN stdout' = 1..(n + 1)
    BY <1>3
  <1> HIDE DEF n
  <1>6. \A i \in DOMAIN stdout' :
           IF i < Len(stdout') THEN i \in DOMAIN stdout /\ stdout'[i] = stdout[i]
           ELSE stdout'[i] = wbuf
    BY <1>2, <1>3, <1>5
  <1>7. \A i \in DOMAIN stdout' : IsSeq(stdout'[i])
    BY <1>6
  <1>8. n + 1 <= PipeCap
    BY <1>2, PipeCapAssumption DEF n
  <1>9. stdout' # <<>>
    BY <1>2, <1>3
  <1>10. QED
    BY <1>2, <1>3, <1>4, <1>6, <1>7, <1>8, <1>9 DEF n

\* Writer_markFrame, which may send the rows written so far.
LEMMA MarkFrameStep ==
    ASSUME Typed, RequestMatches, ClientMatches, ReplyMatches, IsDb(db'),
           MarkFrame, UNCHANGED clientVars
    PROVE  Typed' /\ RequestMatches' /\ ClientMatches' /\ ReplyMatches'
  <1>1. /\ pc = "mark" /\ pc' = "step" /\ h' = h /\ UNCHANGED <<rbuf, stdin, peer>>
        /\ \/ wbuf' = wbuf /\ stdout' = stdout
           \/ Len(stdout) < PipeCap /\ stdout' = Append(stdout, wbuf) /\ wbuf' = <<>>
    BY DEF MarkFrame, WriterFlush
  <1>2. /\ Stream = <<>> /\ h \in Locals /\ ~Replied
        /\ st \notin {"idle", "sending", "bye", "lost"}
    BY <1>1, InReply DEF Replying
  <1>3. todo' = todo /\ req' = req /\ st' = st /\ got' = got
    BY DEF clientVars
  <1>4. /\ IsSeq(stdout) /\ (\A i \in DOMAIN stdout : IsSeq(stdout[i])) /\ IsSeq(wbuf)
        /\ Len(stdout) <= PipeCap
    BY DEF Typed, TypeOK
  <1>5. /\ WholeRows(wbuf) /\ (st = "reading" => WholeRows(got))
        /\ st # "dead" => \A i \in DOMAIN stdout : WholeRows(stdout[i])
    BY <1>1, <1>2 DEF ReplyMatches
  <1>6. /\ IsSeq(stdout') /\ (\A i \in DOMAIN stdout' : IsSeq(stdout'[i])) /\ IsSeq(wbuf')
        /\ Len(stdout') <= PipeCap
        /\ WholeRows(wbuf')
        /\ st # "dead" => \A i \in DOMAIN stdout' : WholeRows(stdout'[i])
    <2>1. CASE wbuf' = wbuf /\ stdout' = stdout
      <3>1. IsSeq(stdout') /\ (\A i \in DOMAIN stdout' : IsSeq(stdout'[i])) /\ IsSeq(wbuf')
        BY <1>4, <2>1 DEF IsSeq
      <3>2. QED
        BY <1>4, <1>5, <2>1, <3>1
    <2>2. CASE Len(stdout) < PipeCap /\ stdout' = Append(stdout, wbuf) /\ wbuf' = <<>>
      <3>1. /\ IsSeq(stdout') /\ (\A i \in DOMAIN stdout' : IsSeq(stdout'[i]))
            /\ Len(stdout') <= PipeCap
            /\ \A i \in DOMAIN stdout' :
                 IF i < Len(stdout') THEN i \in DOMAIN stdout /\ stdout'[i] = stdout[i]
                 ELSE stdout'[i] = wbuf
        BY <1>4, <2>2, FrameSent
      <3>2. <<>> \in Seq({}) /\ WholeRows(<<>>)
        BY DEF WholeRows
      <3>3. IsSeq(wbuf')
        BY <2>2, <3>2, SeqIsSeq
      <3>4. QED
        BY <1>5, <2>2, <3>1, <3>2, <3>3
    <2>3. QED
      BY <1>1, <2>1, <2>2
  <1>7. /\ Typed' /\ RequestMatches' /\ ClientMatches'
        /\ Stream' = <<>> /\ ~Replied' /\ \A s : WholeRows(s)' <=> WholeRows(s)
    BY <1>1, <1>2, <1>6, WriteStep DEF Replying
  <1>8. ReplyMatches'
    BY <1>1, <1>3, <1>5, <1>6, <1>7 DEF ReplyMatches
  <1>9. QED
    BY <1>7, <1>8

\* The byte after the last row.
LEMMA EndRowsStep ==
    ASSUME Typed, RequestMatches, ClientMatches, ReplyMatches, IsDb(db'),
           EndRows, UNCHANGED clientVars
    PROVE  Typed' /\ RequestMatches' /\ ClientMatches' /\ ReplyMatches'
  <1> DEFINE t == Tok("byte", FALSE)
  <1>1. /\ pc = "step" /\ pc' = "reply" /\ h' = h /\ wbuf' = Append(wbuf, t)
        /\ UNCHANGED <<rbuf, stdin, stdout, peer>>
    BY DEF EndRows
  <1> HIDE DEF t
  <1>2. /\ Stream = <<>> /\ Located(req, "step", h) /\ h \in Locals /\ ~Replied
        /\ st \notin {"idle", "sending", "bye", "lost"}
    BY <1>1, InReply DEF Replying
  <1>3. todo' = todo /\ req' = req /\ st' = st /\ got' = got /\ stdout' = stdout
    BY <1>1 DEF clientVars
  <1>4. IsSeq(wbuf) /\ IsSeq(wbuf') /\ Len(stdout') <= PipeCap
    <2>1. IsSeq(wbuf)
      BY DEF Typed
    <2> DEFINE S == {wbuf[i] : i \in DOMAIN wbuf}
    <2>2. wbuf \in Seq(S)
      BY <2>1 DEF IsSeq
    <2> HIDE DEF S
    <2>3. Append(wbuf, t) \in Seq(S \cup {t})
      BY <2>2
    <2>4. IsSeq(Append(wbuf, t))
      BY <2>3, SeqIsSeq
    <2>5. QED
      BY <1>1, <1>3, <2>1, <2>4 DEF Typed, TypeOK
  <1>5. /\ WholeRows(wbuf) /\ (st = "reading" => WholeRows(got))
        /\ st # "dead" => \A i \in DOMAIN stdout : WholeRows(stdout[i])
    BY <1>1, <1>2 DEF ReplyMatches
  <1>6. IsSeq(stdout') /\ \A i \in DOMAIN stdout' : IsSeq(stdout'[i])
    BY <1>3 DEF Typed, IsSeq
  <1>7. /\ Typed' /\ RequestMatches' /\ ClientMatches'
        /\ Stream' = <<>> /\ ~Replied' /\ \A s : WholeRows(s)' <=> WholeRows(s)
    BY <1>1, <1>2, <1>4, <1>6, WriteStep DEF Replying
  <1>8. req.fc = "FC_QUERY"
    BY <1>2 DEF Located
  <1>9. ReplyMatches'
    BY <1>1, <1>3, <1>4, <1>5, <1>7, <1>8 DEF ReplyMatches, t, IsSeq
  <1>10. QED
    BY <1>7, <1>9

\* A row that Db_step_fetch returns has a value for every wanted type.
LEMMA FetchedRow ==
    ASSUME NEW d, NEW cs, NEW o \in Db_step_fetch(d, cs), o.ok, o.hasRow
    PROVE  DOMAIN o.values = DOMAIN cs
  <1>1. CASE d.stmt = NoStmt
    <2>1. o = [ok |-> FALSE, hasRow |-> TRUE, values |-> <<>>, db |-> d]
      BY <1>1 DEF Db_step_fetch
    <2>2. QED
      BY <2>1
  <1>2. CASE d.stmt # NoStmt
    <2>1. PICK s \in step(d) :
             o = [ok |-> s.ok, hasRow |-> IF s.ok THEN s.hasRow ELSE TRUE, db |-> s.db,
                  values |-> IF s.ok /\ s.hasRow THEN fetch(s.db, cs) ELSE <<>>]
      BY <1>2 DEF Db_step_fetch
    <2>2. o.ok = s.ok /\ o.hasRow = (IF s.ok THEN s.hasRow ELSE TRUE)
          /\ o.values = IF s.ok /\ s.hasRow THEN fetch(s.db, cs) ELSE <<>>
      BY <2>1
    <2>3. o.values = fetch(s.db, cs)
      BY <2>2
    <2>4. DOMAIN fetch(s.db, cs) = DOMAIN cs
      BY DEF fetch
    <2>5. QED
      BY <2>3, <2>4
  <1>3. QED
    BY <1>1, <1>2

\* A row, the end of the rows, or a failure.
LEMMA FetchRowStep ==
    ASSUME ServerInv, Typed, RequestMatches, ClientMatches, ReplyMatches, IsDb(db'),
           FetchRow, ~Abort, UNCHANGED clientVars
    PROVE  Typed' /\ RequestMatches' /\ ClientMatches' /\ ReplyMatches'
  <1>1. PICK o \in Db_step_fetch(db, h.coltypes) :
              /\ h' = [h EXCEPT !.ok = o.ok, !.hasRow = o.hasRow]
              /\ wbuf' = IF o.ok /\ o.hasRow THEN wbuf \o EncodeRow(o.values) ELSE wbuf
              /\ pc' = IF o.ok /\ o.hasRow THEN "mark" ELSE "step"
              /\ UNCHANGED <<rbuf, stdin, stdout, peer>>
    BY DEF FetchRow
  <1>2. pc = "step"
    BY DEF FetchRow
  <1>3. /\ Stream = <<>> /\ Located(req, "step", h) /\ h \in Locals /\ ~Replied /\ req \in Requests
        /\ st \notin {"idle", "sending", "bye", "lost"}
    BY <1>2, InReply DEF Replying
  <1>4. todo' = todo /\ req' = req /\ st' = st /\ got' = got /\ stdout' = stdout
    BY <1>1 DEF clientVars
  <1>5. o.ok \in BOOLEAN /\ o.hasRow \in BOOLEAN
    BY StepFetchCall DEF ServerInv
  <1>6. h' \in Locals /\ h'.fc = h.fc /\ h'.i = h.i /\ h'.coltypes = h.coltypes
    <2> DEFINE P == [type : ValueTypes, v : STRING \cup {"none", "stale"}]
    <2>1. Locals = [fc : FunctionCodes \cup {"none"}, ok : BOOLEAN, niter : Int, nparams : Nat,
                    i : Nat, params : Seq(P), ncols : Nat,
                    coltypes : Seq(STRING), hasRow : BOOLEAN]
      BY DEF Locals
    <2> HIDE DEF P
    <2>2. QED
      BY <1>1, <1>3, <1>5, <2>1
  <1>7. /\ IsSeq(wbuf) /\ WholeRows(wbuf) /\ (st = "reading" => WholeRows(got))
        /\ st # "dead" => \A i \in DOMAIN stdout : WholeRows(stdout[i])
    BY <1>2, <1>3 DEF ReplyMatches, Typed
  <1>8. IsSeq(wbuf') /\ WholeRows(wbuf')
    <2>1. CASE o.ok /\ o.hasRow
      <3>1. DOMAIN o.values = DOMAIN h.coltypes
        BY <2>1, FetchedRow
      <3>2. req.fc = "FC_QUERY" /\ h.coltypes = req.coltypes
        BY <1>3 DEF Located
      <3>3. Len(req.coltypes) \in Nat /\ DOMAIN req.coltypes = 1..Len(req.coltypes)
        BY <1>3, RequestsAssumption DEF IsRequest
      <3>4. IsSeq(EncodeRow(o.values)) /\ WholeRows(EncodeRow(o.values))
        <4> DEFINE vs == o.values
        <4>1. DOMAIN vs = 1..Len(req.coltypes)
          BY <3>1, <3>2, <3>3
        <4> HIDE DEF vs
        <4>2. IsSeq(EncodeRow(vs)) /\ WholeRows(EncodeRow(vs))
          BY <3>2, <3>3, <4>1, OneRow
        <4>3. QED
          BY <4>2 DEF vs
      <3> DEFINE row == EncodeRow(o.values)
      <3> HIDE DEF row
      <3>5. IsSeq(wbuf \o row) /\ WholeRows(wbuf \o row)
        BY <1>7, <3>3, <3>4, ConcatIsSeq, MoreRows DEF row
      <3>6. QED
        BY <1>1, <2>1, <3>5 DEF row
    <2>2. CASE ~(o.ok /\ o.hasRow)
      <3>1. wbuf' = wbuf
        BY <1>1, <2>2
      <3>2. QED
        BY <1>7, <3>1
    <2>3. QED
      BY <2>1, <2>2
  <1>9. IsSeq(stdout') /\ (\A i \in DOMAIN stdout' : IsSeq(stdout'[i])) /\ Len(stdout') <= PipeCap
    <2>1. IsSeq(stdout) /\ (\A i \in DOMAIN stdout : IsSeq(stdout[i])) /\ Len(stdout) <= PipeCap
      BY DEF Typed, TypeOK
    <2> DEFINE out == stdout'
    <2>2. out = stdout
      BY <1>4
    <2> HIDE DEF out
    <2>3. IsSeq(out) /\ (\A i \in DOMAIN out : IsSeq(out[i])) /\ Len(out) <= PipeCap
      BY <2>1, <2>2
    <2>4. QED
      BY <2>3 DEF out
  <1>10. pc' \in {"step", "mark"}
    BY <1>1
  <1>11. /\ Typed' /\ RequestMatches' /\ ClientMatches'
         /\ Stream' = <<>> /\ ~Replied' /\ \A s : WholeRows(s)' <=> WholeRows(s)
    BY <1>1, <1>2, <1>6, <1>8, <1>9, <1>10, WriteStep DEF Replying
  <1>12. ReplyMatches'
    BY <1>4, <1>7, <1>8, <1>10, <1>11 DEF ReplyMatches
  <1>13. QED
    BY <1>11, <1>12

\* The status that ends a reply.
LEMMA ReplyStep ==
    ASSUME Typed, RequestMatches, ClientMatches, ReplyMatches, IsDb(db'),
           Reply, UNCHANGED clientVars
    PROVE  Typed' /\ RequestMatches' /\ ClientMatches' /\ ReplyMatches'
  <1> DEFINE s == Status(h.ok, Db_errmsg(db))
             t == Tok("byte", FALSE)
  <1>1. /\ pc = "reply" /\ pc' = "flush" /\ h' = h /\ wbuf' = wbuf \o s
        /\ UNCHANGED <<rbuf, stdin, stdout, peer>>
    BY DEF Reply
  <1>2. /\ Stream = <<>> /\ Located(req, "reply", h) /\ h \in Locals /\ ~Replied
        /\ st \notin {"idle", "sending", "bye", "lost"}
    BY <1>1, InReply DEF Replying
  <1>3. todo' = todo /\ req' = req /\ st' = st /\ got' = got /\ stdout' = stdout
    BY <1>1 DEF clientVars
  <1>4. h.ok \in BOOLEAN
    BY <1>2 DEF Locals
  <1>5. IsSeq(s) /\ EndsWithStatus(s, 1)
    BY <1>4, StatusIs
  <1>6. Len(req.coltypes) \in Nat
    BY ColumnsOf
  <1>7. req.fc = "FC_QUERY" => Complete(req, <<t>> \o s)
    BY <1>4, <1>6, EndOfRows
  <1>8. /\ IF req.fc = "FC_QUERY"
           THEN \E a : IsSeq(a) /\ WholeRows(a) /\ wbuf = Append(a, t)
           ELSE wbuf = <<>>
        /\ st = "reading" => WholeRows(got)
        /\ st # "dead" => \A i \in DOMAIN stdout : WholeRows(stdout[i])
        /\ IsSeq(wbuf)
    BY <1>1, <1>2 DEF ReplyMatches, Typed
  <1> HIDE DEF s, t
  <1>9. IsSeq(wbuf')
    BY <1>1, <1>5, <1>8, ConcatIsSeq
  <1>10. Complete(req, wbuf')
    <2>1. CASE req.fc = "FC_QUERY"
      <3>1. PICK a : IsSeq(a) /\ WholeRows(a) /\ wbuf = Append(a, t)
        BY <1>8, <2>1
      <3>2. IsSeq(<<t>>)
        BY Short
      <3>3. PICK S : a \in Seq(S) /\ s \in Seq(S)
        BY <1>5, <3>1, CommonSet
      <3> DEFINE R == S \cup {t}
      <3>4. a \in Seq(R) /\ s \in Seq(R) /\ t \in R
        BY <3>3
      <3> HIDE DEF R
      <3>5. Append(a, t) = a \o <<t>>
        BY <3>4, AppendOne
      <3> DEFINE b == <<t>>
      <3>6. b \in Seq(R)
        BY <3>4
      <3> HIDE DEF b
      <3>7. (a \o b) \o s = a \o (b \o s)
        <4>1. \A x, y, z \in Seq(R) : (x \o y) \o z = x \o (y \o z)
          BY ONLY ConcatAssociative, SMTT(60)
        <4>2. QED
          BY <3>4, <3>6, <4>1, Zenon
      <3>8. IsSeq(b \o s) /\ Complete(req, b \o s)
        BY <1>5, <1>7, <2>1, <3>2, ConcatIsSeq DEF b
      <3>9. Complete(req, a \o (b \o s))
        BY <1>6, <3>1, <3>8, RowsThenEnd
      <3>10. wbuf' = a \o (b \o s)
        BY <1>1, <3>1, <3>5, <3>7 DEF b
      <3>11. QED
        BY <3>9, <3>10
    <2>2. CASE req.fc # "FC_QUERY"
      <3>1. wbuf' = <<>> \o s
        BY <1>1, <1>8, <2>2
      <3>2. <<>> \o s = s
        BY <1>5, ConcatEmptySeq DEF IsSeq
      <3>3. QED
        BY <1>5, <2>2, <3>1, <3>2 DEF Complete
    <2>3. QED
      BY <2>1, <2>2
  <1>11. IsSeq(stdout') /\ (\A i \in DOMAIN stdout' : IsSeq(stdout'[i])) /\ Len(stdout') <= PipeCap
    <2>1. IsSeq(stdout) /\ (\A i \in DOMAIN stdout : IsSeq(stdout[i])) /\ Len(stdout) <= PipeCap
      BY DEF Typed, TypeOK
    <2> DEFINE out == stdout'
    <2>2. out = stdout
      BY <1>3
    <2> HIDE DEF out
    <2>3. IsSeq(out) /\ (\A i \in DOMAIN out : IsSeq(out[i])) /\ Len(out) <= PipeCap
      BY <2>1, <2>2
    <2>4. QED
      BY <2>3 DEF out
  <1>12. /\ Typed' /\ RequestMatches' /\ ClientMatches'
         /\ Stream' = <<>> /\ ~Replied' /\ \A a : WholeRows(a)' <=> WholeRows(a)
    BY <1>1, <1>2, <1>9, <1>11, WriteStep DEF Replying
  <1>13. ReplyMatches'
    <2>1. Complete(req, wbuf)'
      BY <1>3, <1>10
    <2>2. QED
      BY <1>1, <1>3, <1>8, <1>12, <2>1 DEF ReplyMatches
  <1>14. QED
    BY <1>12, <1>13

\* No handler's locals.
LEMMA NoLocals == NoRequest \in Locals /\ NoRequest.fc = "none"
  <1> DEFINE P == [type : ValueTypes, v : STRING \cup {"none", "stale"}]
             e == <<>>
             l == [fc |-> "none", ok |-> TRUE, niter |-> 0, nparams |-> 0, i |-> 0,
                   params |-> e, ncols |-> 0, coltypes |-> e, hasRow |-> TRUE]
  <1>1. e \in Seq(P) /\ e \in Seq(STRING)
    OBVIOUS
  <1>2. Locals = [fc : FunctionCodes \cup {"none"}, ok : BOOLEAN, niter : Int, nparams : Nat,
                  i : Nat, params : Seq(P), ncols : Nat,
                  coltypes : Seq(STRING), hasRow : BOOLEAN]
    BY DEF Locals
  <1>3. NoRequest = l
    BY DEF NoRequest
  <1> HIDE DEF P, e
  <1>4. l \in Locals
    BY <1>1, <1>2
  <1>5. QED
    BY <1>3, <1>4

\* The reply leaves in its last frame.
LEMMA AppFlushStep ==
    ASSUME Typed, RequestMatches, ClientMatches, ReplyMatches,
           AppFlush, UNCHANGED clientVars
    PROVE  Typed' /\ RequestMatches' /\ ClientMatches' /\ ReplyMatches'
  <1>1. /\ pc = "flush" /\ h' = NoRequest /\ pc' = IF h.fc = "FC_QUIT" THEN "quit" ELSE "fc"
        /\ Len(stdout) < PipeCap /\ stdout' = Append(stdout, wbuf) /\ wbuf' = <<>>
        /\ rbuf' = rbuf /\ stdin' = stdin /\ peer' = peer /\ db' = db
    BY DEF AppFlush, WriterFlush
  <1>2. /\ Located(req, "flush", h) /\ Stream = Unread(req, "flush", h) /\ req # NoReq
        /\ req \in Requests \cup {QuitRequest, NoReq}
    BY <1>1 DEF RequestMatches
  <1>3. Stream = <<>> /\ h.fc = req.fc /\ Decodable(req)
    BY <1>2 DEF Unread, Located
  <1>4. todo' = todo /\ req' = req /\ st' = st /\ got' = got /\ sent' = sent
    BY DEF clientVars
  <1>5. /\ IsSeq(stdout) /\ (\A i \in DOMAIN stdout : IsSeq(stdout[i])) /\ IsSeq(wbuf)
    BY DEF Typed
  <1>6. /\ IsSeq(stdout') /\ (\A i \in DOMAIN stdout' : IsSeq(stdout'[i]))
        /\ Len(stdout') <= PipeCap
        /\ stdout'[Len(stdout')] = wbuf /\ stdout' # <<>>
        /\ \A i \in DOMAIN stdout' :
             IF i < Len(stdout') THEN i \in DOMAIN stdout /\ stdout'[i] = stdout[i]
             ELSE stdout'[i] = wbuf
    BY <1>1, <1>5, FrameSent
  <1>7. Stream' = <<>>
    BY <1>1, <1>3, <1>4 DEF Stream
  <1>8. todo = <<>>
    BY <1>3, EmptyStream
  <1>9. st \notin {"idle", "sending", "bye", "lost"} /\ ~Replied
    BY <1>1, <1>8 DEF ClientMatches, Waiting, Down, Replied
  <1>10. req.fc = "FC_QUIT" <=> req = QuitRequest
    BY <1>2, RequestsAssumption, QuitIs DEF IsRequest
  <1>11. Typed'
    <2>1. TypeOK'
      BY <1>1, <1>4, <1>6, NoLocals DEF Typed, TypeOK, Locals
    <2>2. IsSeq(wbuf')
      <3>1. <<>> \in Seq({})
        OBVIOUS
      <3>2. QED
        BY <1>1, <3>1, SeqIsSeq
    <2>3. QED
      BY <1>1, <1>4, <1>6, <2>1, <2>2 DEF Typed
  <1>12. RequestMatches'
    BY <1>1, <1>2, <1>3, <1>4, <1>7, <1>10 DEF RequestMatches, Handling
  <1>13. ClientMatches'
    BY <1>1, <1>3, <1>4, <1>7, <1>9, <1>10 DEF ClientMatches, Waiting
  <1>14. ReplyMatches'
    <2>1. \A s : WholeRows(s)' <=> WholeRows(s)
      BY <1>4 DEF WholeRows
    <2>2. Complete(req, wbuf) /\ (st = "reading" => WholeRows(got))
          /\ (st # "dead" => \A i \in DOMAIN stdout : WholeRows(stdout[i]))
      BY <1>1, <1>9 DEF ReplyMatches
    <2>3. Replied'
      BY <1>1, <1>7 DEF Replied, Waiting
    <2>4. ASSUME st' # "dead", NEW i \in DOMAIN stdout', i < Len(stdout')
          PROVE  WholeRows(stdout'[i])
      BY <1>4, <1>6, <2>2, <2>4
    <2>5. Complete(req', stdout'[Len(stdout')])
      BY <1>4, <1>6, <2>2
    <2>6. pc' \in {"quit", "fc"}
      BY <1>1
    <2>7. QED
      BY <1>1, <1>4, <1>6, <1>7, <2>1, <2>2, <2>3, <2>4, <2>5, <2>6 DEF ReplyMatches
  <1>15. QED
    BY <1>11, <1>12, <1>13, <1>14

\* main's loop ends.
LEMMA ShutdownStep ==
    ASSUME Typed, RequestMatches, ClientMatches, ReplyMatches, IsDb(db'),
           Shutdown, UNCHANGED clientVars
    PROVE  Typed' /\ RequestMatches' /\ ClientMatches' /\ ReplyMatches'
  <1>1. /\ pc = "quit" /\ pc' = "closed" /\ h' = h
        /\ rbuf' = rbuf /\ wbuf' = wbuf /\ stdin' = stdin /\ stdout' = stdout /\ peer' = peer
        /\ todo' = todo /\ req' = req /\ st' = st /\ got' = got /\ sent' = sent
    BY DEF Shutdown, clientVars
  <1>2. Stream' = Stream /\ Replied /\ Replied' /\ ~Waiting /\ ~Waiting'
    BY <1>1 DEF Stream, Replied, Waiting
  <1>3. Typed'
    <2>1. (db.auto)' \in BOOLEAN /\ (db.stmt.vm)' \in {"none", "ready", "run", "halt"}
      BY DEF IsDb, IsStmt
    <2>2. TypeOK'
      BY <1>1, <2>1 DEF Typed, TypeOK
    <2>3. QED
      BY <1>1, <2>2 DEF Typed, IsSeq
  <1>4. RequestMatches'
    BY <1>1, <1>2 DEF RequestMatches, Handling
  <1>5. ClientMatches'
    BY <1>1, <1>2 DEF ClientMatches, Down
  <1>6. ReplyMatches'
    <2>1. \A s : WholeRows(s)' <=> WholeRows(s)
      BY <1>1 DEF WholeRows
    <2>2. QED
      BY <1>1, <1>2, <2>1 DEF ReplyMatches
  <1>7. QED
    BY <1>3, <1>4, <1>5, <1>6

\* The server ends without an answer.
LEMMA AbortStep ==
    ASSUME Typed, RequestMatches, ClientMatches, ReplyMatches, IsDb(db'),
           Abort, ~Replied \/ peer = "gone", UNCHANGED clientVars
    PROVE  Typed' /\ RequestMatches' /\ ClientMatches' /\ ReplyMatches'
  <1>1. /\ pc' = "dead" /\ h' = NoRequest
        /\ rbuf' = <<>> /\ wbuf' = <<>> /\ stdin' = stdin /\ stdout' = stdout /\ peer' = peer
        /\ todo' = todo /\ req' = req /\ st' = st /\ got' = got /\ sent' = sent
    BY DEF Abort, clientVars
  <1>2. ~Replied' /\ ~Waiting'
    BY <1>1 DEF Replied, Waiting
  <1>3. st \notin {"idle", "bye"}
    BY DEF ClientMatches, Replied
  <1>4. ~Replied \/ st = "dead"
    BY DEF ClientMatches
  <1>5. Stream = <<>> => Stream' = <<>>
    <2>1. SUFFICES ASSUME Stream = <<>> PROVE Stream' = <<>>
      OBVIOUS
    <2>2. rbuf = <<>>
      BY <2>1, EmptyStream
    <2>3. QED
      BY <1>1, <2>1, <2>2 DEF Stream
  <1>6. Typed'
    <2>1. (db.auto)' \in BOOLEAN /\ (db.stmt.vm)' \in {"none", "ready", "run", "halt"}
      BY DEF IsDb, IsStmt
    <2>2. TypeOK'
      BY <1>1, <2>1, NoLocals DEF Typed, TypeOK, Locals
    <2>3. IsSeq(wbuf') /\ rbuf' \in Seq(Token)
      <3>1. <<>> \in Seq({}) /\ <<>> \in Seq(Token)
        OBVIOUS
      <3>2. QED
        BY <1>1, <3>1, SeqIsSeq
    <2>4. QED
      BY <1>1, <2>2, <2>3 DEF Typed, IsSeq
  <1>7. RequestMatches'
    BY <1>1 DEF RequestMatches, Handling
  <1>8. ClientMatches'
    BY <1>1, <1>2, <1>3 DEF ClientMatches, Down
  <1>9. ReplyMatches'
    <2>1. \A s : WholeRows(s)' <=> WholeRows(s)
      BY <1>1 DEF WholeRows
    <2>2. QED
      BY <1>1, <1>2, <1>4, <1>5, <2>1 DEF ReplyMatches
  <1>10. QED
    BY <1>6, <1>7, <1>8, <1>9

\* Every step of the server.
LEMMA ServerStep ==
    ASSUME ExchangeInv, ServerInv', Server
    PROVE  Typed' /\ RequestMatches' /\ ClientMatches' /\ ReplyMatches'
  <1>1. /\ ServerInv /\ Typed /\ RequestMatches /\ ClientMatches /\ ReplyMatches
        /\ IsDb(db') /\ AppNext /\ UNCHANGED clientVars
    BY DEF ExchangeInv, ServerInv, Server
  <1>2. Reading => pc \notin {"quit", "closed"}
    BY DEF Reading, Want
  <1>3. rbuf # <<>> => ~Waiting
    BY <1>1, EmptyStream DEF Waiting
  <1>4. CASE readNextFrameIfNeeded
    BY <1>1, <1>4, FrameStep
  <1>5. CASE EndOfInput \/ BrokenPipe
    <2>1. Abort /\ peer = "gone"
      BY <1>5 DEF EndOfInput, BrokenPipe
    <2>2. QED
      BY <1>1, <2>1, AbortStep
  <1>6. CASE ShortFrame \/ InvalidByte \/ BadCount
    <2>1. Abort /\ rbuf # <<>> /\ (Reading \/ pc \notin {"quit", "closed"})
      BY <1>6 DEF ShortFrame, InvalidByte, BadCount, At
    <2>2. ~Replied
      BY <1>2, <1>3, <2>1 DEF Replied
    <2>3. QED
      BY <1>1, <2>1, <2>2, AbortStep
  <1>7. CASE AppStep
    BY <1>1, <1>7, AppStepStep
  <1>8. CASE AppFlush
    BY <1>1, <1>8, AppFlushStep
  <1>9. CASE Shutdown
    BY <1>1, <1>9, ShutdownStep
  <1>10. CASE ReadSql
    <2>1. db.stmt = NoStmt
      BY <1>1, <1>10 DEF ServerInv, NoStatementLeft, ReadSql, At
    <2>2. QED
      BY <1>1, <1>10, <2>1, ReadSqlStep
  <1>11. CASE ReadNiter
    BY <1>1, <1>11, ReadNiterStep
  <1>12. CASE ReadNparams
    BY <1>1, <1>12, ReadNparamsStep
  <1>13. CASE ReadParamType
    BY <1>1, <1>13, ReadParamTypeStep
  <1>14. CASE ReadParamValue
    BY <1>1, <1>14, ReadParamValueStep
  <1>15. CASE BindExec
    BY <1>1, <1>15, BindExecStep
  <1>16. CASE BindQuery
    BY <1>1, <1>16, BindQueryStep
  <1>17. CASE ReadNcols
    BY <1>1, <1>17, ReadNcolsStep
  <1>18. CASE ReadColtype
    BY <1>1, <1>18, ReadColtypeStep
  <1>19. CASE FetchRow
    <2>1. CASE Abort
      <3>1. ~Replied
        BY <1>19 DEF FetchRow, Replied, Waiting
      <3>2. QED
        BY <1>1, <2>1, <3>1, AbortStep
    <2>2. CASE ~Abort
      BY <1>1, <1>19, <2>2, FetchRowStep
    <2>3. QED
      BY <2>1, <2>2
  <1>20. CASE MarkFrame
    BY <1>1, <1>20, MarkFrameStep
  <1>21. CASE EndRows
    BY <1>1, <1>21, EndRowsStep
  <1>22. CASE Reply
    BY <1>1, <1>22, ReplyStep
  <1>23. QED
    BY <1>1, <1>4, <1>5, <1>6, <1>7, <1>8, <1>9, <1>10, <1>11, <1>12, <1>13, <1>14, <1>15,
       <1>16, <1>17, <1>18, <1>19, <1>20, <1>21, <1>22 DEF AppNext

-----------------------------------------------------------------------------
\* The client.

\* The encoding of a request is never empty.
LEMMA EncodedIs ==
    ASSUME NEW r \in Requests \cup {QuitRequest}
    PROVE  Encode(r) \in Seq(Token) /\ Encode(r) # <<>>
  <1>1. \E t \in Token, rest \in Seq(Token) : Encode(r) = <<t>> \o rest
    <2>1. <<>> \in Seq(Token)
      OBVIOUS
    <2>2. CASE r \in Requests /\ r.fc \in {"FC_EXEC", "FC_QUERY"}
      BY <2>2, RequestsAssumption, EncodeIs
    <2>3. CASE r \in Requests /\ r.fc \notin {"FC_EXEC", "FC_QUERY"}
      BY <2>1, <2>3, RequestsAssumption, UnknownIs
    <2>4. CASE r = QuitRequest
      BY <2>1, <2>4, QuitIs
    <2>5. QED
      BY <2>2, <2>3, <2>4
  <1>2. PICK t \in Token, rest \in Seq(Token) : Encode(r) = <<t>> \o rest
    BY <1>1
  <1> DEFINE a == <<t>>
             c == a \o rest
  <1>3. a \in Seq(Token) /\ Len(a) = 1
    OBVIOUS
  <1> HIDE DEF a
  <1>4. c \in Seq(Token) /\ Len(c) = 1 + Len(rest) /\ Len(rest) \in Nat
    <2>1. Len(c) = Len(a) + Len(rest)
      BY <1>3, ConcatProperties
    <2>2. c \in Seq(Token) /\ Len(rest) \in Nat
      BY <1>3
    <2>3. QED
      BY <1>3, <2>1, <2>2
  <1> HIDE DEF c
  <1>5. c # <<>>
    BY <1>4
  <1>6. Encode(r) = c
    BY <1>2 DEF c, a
  <1>7. QED
    BY <1>4, <1>5, <1>6

\* A client begins a request only when it has the reply to the last.
LEMMA StartStep ==
    ASSUME Typed, RequestMatches, ClientMatches, ReplyMatches,
           st = "idle", NEW r \in Requests \cup {QuitRequest}, Start(r), sent' \in 0..MaxRequests
    PROVE  Typed' /\ RequestMatches' /\ ClientMatches' /\ ReplyMatches'
  <1>1. /\ st' = "sending" /\ req' = r /\ todo' = Encode(r) /\ got' = <<>>
        /\ db' = db /\ pc' = pc /\ h' = h /\ rbuf' = rbuf /\ wbuf' = wbuf
        /\ stdin' = stdin /\ stdout' = stdout /\ peer' = peer
    BY DEF Start, appVars
  <1>2. pc = "fc" /\ Stream = <<>> /\ stdout = <<>> /\ wbuf = <<>> /\ peer # "gone"
    BY DEF ClientMatches, Waiting, ReplyMatches
  <1>3. rbuf = <<>> /\ stdin = <<>>
    BY <1>2, EmptyStream
  <1> DEFINE e == Encode(r)
  <1>4. e \in Seq(Token) /\ e # <<>>
    BY EncodedIs
  <1> HIDE DEF e
  <1>5. Stream' = e
    <2>1. Stream' = (<<>> \o <<>>) \o e
      BY <1>1, <1>3, FlattenEmpty DEF Stream, e
    <2>2. <<>> \o <<>> = <<>> /\ <<>> \o e = e
      BY <1>4, ConcatEmptySeq
    <2>3. QED
      BY <2>1, <2>2
  <1>6. Typed'
    <2>1. TypeOK'
      BY <1>1 DEF Typed, TypeOK
    <2>2. IsSeq(got')
      <3>1. <<>> \in Seq({})
        OBVIOUS
      <3>2. QED
        BY <1>1, <3>1, SeqIsSeq
    <2>3. QED
      BY <1>1, <1>4, <2>1, <2>2, ZenonT(60) DEF Typed, IsSeq, e
  <1>7. RequestMatches'
    BY <1>1, <1>2, <1>5 DEF RequestMatches, Handling, e
  <1>8. ~Waiting' /\ ~Replied'
    BY <1>1, <1>2, <1>4, <1>5 DEF Waiting, Replied
  <1>9. ClientMatches'
    BY <1>1, <1>2, <1>4, <1>8 DEF ClientMatches, e
  <1>10. ReplyMatches'
    BY <1>1, <1>2, <1>8 DEF ReplyMatches
  <1>11. QED
    BY <1>6, <1>7, <1>8, <1>9, <1>10

\* A frame of the request enters the pipe.
LEMMA WriteFrameStep ==
    ASSUME Typed, RequestMatches, ClientMatches, ReplyMatches, WriteFrame
    PROVE  Typed' /\ RequestMatches' /\ ClientMatches' /\ ReplyMatches'
  <1>1. PICK k \in 1..Len(todo) :
          /\ stdin' = Append(stdin, SubSeq(todo, 1, k))
          /\ todo' = SubSeq(todo, k + 1, Len(todo))
          /\ st' = IF k = Len(todo) THEN "reading" ELSE "sending"
    BY DEF WriteFrame
  <1>2. /\ st = "sending" /\ ~Down /\ Len(stdin) < PipeCap
        /\ db' = db /\ pc' = pc /\ h' = h /\ rbuf' = rbuf /\ wbuf' = wbuf
        /\ stdout' = stdout /\ peer' = peer /\ req' = req /\ got' = got /\ sent' = sent
    BY DEF WriteFrame, serverVars
  <1>3. /\ Stream' = Stream
        /\ stdin' \in Seq(Seq(Token)) /\ todo' \in Seq(Token)
        /\ \A i \in DOMAIN stdin' : stdin'[i] # <<>>
        /\ Len(stdin') = Len(stdin) + 1
        /\ todo' = <<>> <=> k = Len(todo)
    BY <1>1, <1>2, SentStream
  <1>4. Stream # <<>>
    BY <1>2, EmptyStream DEF ClientMatches
  <1>5. stdout = <<>> /\ got = <<>> /\ peer # "gone"
    BY <1>2, <1>4 DEF ReplyMatches, ClientMatches
  <1>6. ~Waiting /\ ~Waiting' /\ ~Replied /\ ~Replied'
    BY <1>2, <1>3, <1>4 DEF Waiting, Replied, RequestMatches
  <1>7. Typed'
    <2>1. Len(stdin') <= PipeCap
      <3>1. Len(stdin) \in Nat
        BY DEF Typed
      <3>2. QED
        BY <1>2, <1>3, <3>1, PipeCapAssumption
    <2>2. TypeOK'
      BY <1>1, <1>2, <2>1 DEF Typed, TypeOK
    <2>3. QED
      BY <1>2, <1>3, <2>2 DEF Typed, IsSeq
  <1>8. RequestMatches'
    BY <1>2, <1>3 DEF RequestMatches
  <1>9. ClientMatches'
    BY <1>1, <1>2, <1>3, <1>5, <1>6 DEF ClientMatches
  <1>10. ReplyMatches'
    <2>1. \A s : WholeRows(s)' <=> WholeRows(s)
      BY <1>2 DEF WholeRows
    <2>2. WholeRows(got)
      BY <1>5 DEF WholeRows
    <2>3. \A i \in DOMAIN stdout : FALSE
      BY <1>5
    <2>4. QED
      BY <1>1, <1>2, <1>3, <1>5, <1>6, <2>1, <2>2, <2>3 DEF ReplyMatches
  <1>11. QED
    BY <1>7, <1>8, <1>9, <1>10

\* The first of some frames.
LEMMA FirstFrame ==
    ASSUME NEW fs, IsSeq(fs), fs # <<>>
    PROVE  /\ Head(fs) = fs[1] /\ 1 \in DOMAIN fs /\ IsSeq(Tail(fs))
           /\ Len(fs) \in Nat \ {0} /\ Len(Tail(fs)) = Len(fs) - 1
           /\ DOMAIN fs = 1..Len(fs) /\ DOMAIN Tail(fs) = 1..Len(Tail(fs))
           /\ \A i \in DOMAIN Tail(fs) : i + 1 \in DOMAIN fs /\ Tail(fs)[i] = fs[i + 1]
  <1> DEFINE S == {fs[i] : i \in DOMAIN fs}
             g == Tail(fs)
  <1>1. fs \in Seq(S)
    BY DEF IsSeq
  <1> HIDE DEF S
  <1>2. Len(fs) \in Nat \ {0} /\ DOMAIN fs = 1..Len(fs)
    BY <1>1, EmptySeq
  <1>3. /\ Head(fs) = fs[1] /\ g \in Seq(S) /\ Len(g) = Len(fs) - 1
        /\ \A i \in 1..Len(g) : g[i] = fs[i + 1]
    BY <1>1, HeadTailProperties
  <1> HIDE DEF g
  <1>4. IsSeq(g) /\ DOMAIN g = 1..Len(g)
    <2>1. g \in Seq(S)
      BY <1>3
    <2>2. IsSeq(g)
      BY <2>1, SeqIsSeq
    <2>3. QED
      BY <2>1, <2>2
  <1>5. 1 \in DOMAIN fs /\ \A i \in 1..Len(g) : i + 1 \in DOMAIN fs
    BY <1>2, <1>3
  <1>6. QED
    BY <1>2, <1>3, <1>4, <1>5 DEF g

\* A frame of the reply leaves the pipe; the client is done when it was the last.
LEMMA ReadFrameStep ==
    ASSUME Typed, RequestMatches, ClientMatches, ReplyMatches, ReadFrame
    PROVE  Typed' /\ RequestMatches' /\ ClientMatches' /\ ReplyMatches'
  <1> DEFINE x == Head(stdout)
             y == Tail(stdout)
             g == got \o x
  <1>1. /\ st = "reading" /\ stdout # <<>> /\ stdout' = y /\ got' = g
        /\ st' = IF Complete(req, g) THEN IF req = QuitRequest THEN "bye" ELSE "idle" ELSE st
        /\ db' = db /\ pc' = pc /\ h' = h /\ rbuf' = rbuf /\ wbuf' = wbuf
        /\ stdin' = stdin /\ peer' = peer /\ req' = req /\ todo' = todo /\ sent' = sent
    BY DEF ReadFrame, serverVars
  <1>2. IsSeq(stdout) /\ (\A i \in DOMAIN stdout : IsSeq(stdout[i])) /\ IsSeq(got)
    BY DEF Typed
  <1>3. /\ x = stdout[1] /\ 1 \in DOMAIN stdout /\ IsSeq(y)
        /\ Len(stdout) \in Nat \ {0} /\ Len(y) = Len(stdout) - 1
        /\ DOMAIN stdout = 1..Len(stdout) /\ DOMAIN y = 1..Len(y)
        /\ \A i \in DOMAIN y : i + 1 \in DOMAIN stdout /\ y[i] = stdout[i + 1]
    BY <1>1, <1>2, FirstFrame
  <1>4. Stream = <<>> /\ Stream' = Stream /\ peer # "gone"
    BY <1>1 DEF ReplyMatches, ClientMatches, Stream
  <1>5. todo = <<>>
    BY <1>4, EmptyStream
  <1>6. (Waiting' <=> Waiting) /\ (Replied' <=> Replied)
    BY <1>1, <1>4 DEF Waiting, Replied
  <1>7. Len(req.coltypes) \in Nat
    BY ColumnsOf
  <1>8. /\ WholeRows(got)
        /\ \A i \in DOMAIN stdout : i < Len(stdout) \/ ~Replied => WholeRows(stdout[i])
        /\ Replied => Complete(req, stdout[Len(stdout)])
    BY <1>1 DEF ReplyMatches
  <1>9. IsSeq(x)
    BY <1>2, <1>3
  <1> HIDE DEF x, y
  <1>10. IsSeq(g)
    BY <1>2, <1>9, ConcatIsSeq
  <1>11. Typed'
    <2>1. Len(y) <= PipeCap
      BY <1>3, PipeCapAssumption DEF Typed, TypeOK
    <2>2. st' \in {"idle", "bye", "reading"}
      BY <1>1
    <2> HIDE DEF g
    <2>3. TypeOK'
      BY <1>1, <2>1, <2>2 DEF Typed, TypeOK
    <2>4. \A i \in DOMAIN y : IsSeq(y[i])
      BY <1>2, <1>3
    <2>5. IsSeq(stdout') /\ (\A i \in DOMAIN stdout' : IsSeq(stdout'[i])) /\ IsSeq(got')
      BY <1>1, <1>3, <1>10, <2>4
    <2>6. IsSeq(wbuf')
      BY <1>1 DEF Typed, IsSeq
    <2>7. QED
      BY <1>1, <2>3, <2>5, <2>6 DEF Typed
  <1>12. RequestMatches'
    BY <1>1, <1>4 DEF RequestMatches
  <1>13. \A s : WholeRows(s)' <=> WholeRows(s)
    BY <1>1 DEF WholeRows
  <1>14. CASE Len(stdout) = 1 /\ Replied
    <2>1. Complete(req, x)
      BY <1>3, <1>8, <1>14
    <2>2. Complete(req, g)
      BY <1>2, <1>7, <1>8, <1>9, <2>1, RowsThenEnd
    <2>3. st' = IF req = QuitRequest THEN "bye" ELSE "idle"
      BY <1>1, <2>2
    <2> HIDE DEF g
    <2>4. Len(y) = 0
      BY <1>3, <1>14
    <2>5. y = <<>>
      <3>1. y \in Seq({y[i] : i \in DOMAIN y})
        BY <1>3 DEF IsSeq
      <3> DEFINE R == {y[i] : i \in DOMAIN y}
      <3> HIDE DEF R
      <3>2. y \in Seq(R)
        BY <3>1 DEF R
      <3>3. QED
        BY <2>4, <3>2, EmptySeq
    <2>6. ClientMatches'
      <3>1. CASE Waiting
        <4>1. req # QuitRequest /\ st' = "idle" /\ (req # NoReq => Decodable(req))
          BY <1>1, <2>3, <3>1 DEF ClientMatches
        <4>2. Decodable(req)' <=> Decodable(req)
          BY <1>1
        <4>3. QED
          BY <1>1, <1>4, <1>5, <1>6, <2>5, <3>1, <4>1, <4>2 DEF ClientMatches
      <3>2. CASE ~Waiting
        <4>1. pc \in {"quit", "closed"} /\ req = QuitRequest
          BY <1>14, <3>2 DEF Replied, RequestMatches
        <4>2. st' = "bye" /\ pc' \in {"quit", "closed"}
          BY <1>1, <2>3, <4>1
        <4>3. QED
          BY <1>1, <1>4, <1>5, <1>6, <3>2, <4>2 DEF ClientMatches
      <3>3. QED
        BY <3>1, <3>2
    <2>7. st' \in {"bye", "idle"}
      BY <2>3
    <2>8. \A i \in DOMAIN y : FALSE
      BY <1>3, <2>4
    <2>9. ReplyMatches'
      BY <1>1, <1>4, <1>6, <1>13, <2>5, <2>7, <2>8 DEF ReplyMatches
    <2>10. QED
      BY <1>11, <1>12, <2>6, <2>9
  <1>15. CASE ~(Len(stdout) = 1 /\ Replied)
    <2>1. WholeRows(x)
      BY <1>3, <1>8, <1>15
    <2>2. WholeRows(g)
      BY <1>2, <1>7, <1>8, <1>9, <2>1, MoreRows
    <2>3. ~Complete(req, g)
      BY <1>7, <1>10, <2>2, RowsAreNotAll
    <2>4. st' = "reading"
      BY <1>1, <2>3
    <2> HIDE DEF g
    <2>5. ClientMatches'
      <3>1. Decodable(req)' <=> Decodable(req)
        BY <1>1
      <3>2. QED
        BY <1>1, <1>4, <1>5, <1>6, <2>4, <3>1 DEF ClientMatches
    <2>6. \A i \in DOMAIN y : i < Len(y) \/ ~Replied => WholeRows(y[i])
      <3>1. \A i \in DOMAIN y : i < Len(y) => i + 1 < Len(stdout)
        BY <1>3
      <3>2. QED
        BY <1>3, <1>8, <3>1
    <2>7. Replied => y # <<>> /\ Complete(req, y[Len(y)])
      <3>1. SUFFICES ASSUME Replied PROVE y # <<>> /\ Complete(req, y[Len(y)])
        OBVIOUS
      <3>2. Len(y) \in Nat \ {0} /\ Len(y) \in DOMAIN y /\ Len(y) + 1 = Len(stdout)
        BY <1>3, <1>15, <3>1
      <3>3. y[Len(y)] = stdout[Len(stdout)]
        BY <1>3, <3>2
      <3>4. y # <<>>
        BY <3>2
      <3>5. QED
        BY <1>8, <3>1, <3>3, <3>4
    <2>8. pc' = pc /\ wbuf' = wbuf /\ stdout' = y /\ got' = g
      BY <1>1
    <2>9. ReplyMatches'
      BY <1>1, <1>4, <1>6, <1>13, <2>2, <2>4, <2>6, <2>7, <2>8 DEF ReplyMatches
    <2>10. QED
      BY <1>11, <1>12, <2>5, <2>9
  <1>16. QED
    BY <1>14, <1>15

\* A client that loses its server, or dies.
LEMMA GoneStep ==
    ASSUME Typed, RequestMatches, ClientMatches, ReplyMatches, Lose \/ Die
    PROVE  Typed' /\ RequestMatches' /\ ClientMatches' /\ ReplyMatches'
  <1>1. /\ db' = db /\ pc' = pc /\ h' = h /\ rbuf' = rbuf /\ wbuf' = wbuf
        /\ stdin' = stdin /\ stdout' = stdout
        /\ req' = req /\ todo' = todo /\ got' = got /\ sent' = sent
        /\ \/ st \in {"sending", "reading"} /\ st' = "lost" /\ peer' = peer /\ Down
           \/ st' = "dead" /\ peer' = "gone"
    BY DEF Lose, Die, appVars, serverVars
  <1>2. Stream' = Stream
    BY <1>1 DEF Stream
  <1>3. (Waiting' <=> Waiting) /\ (Replied' <=> Replied) /\ (Down' <=> Down)
    BY <1>1, <1>2 DEF Waiting, Replied, Down
  <1>4. Typed'
    <2>1. TypeOK'
      BY <1>1 DEF Typed, TypeOK
    <2>2. QED
      BY <1>1, <2>1 DEF Typed, IsSeq
  <1>5. RequestMatches'
    BY <1>1, <1>2 DEF RequestMatches
  <1>6. ClientMatches'
    BY <1>1, <1>2, <1>3 DEF ClientMatches
  <1>7. ReplyMatches'
    <2>1. \A s : WholeRows(s)' <=> WholeRows(s)
      BY <1>1 DEF WholeRows
    <2>2. QED
      BY <1>1, <1>2, <1>3, <2>1 DEF ReplyMatches
  <1>8. QED
    BY <1>4, <1>5, <1>6, <1>7

\* A server and a client that have just started.
LEMMA FreshStart ==
    ASSUME IsDb(db'), pc' = "fc", h' = NoRequest, rbuf' = <<>>, wbuf' = <<>>,
           stdin' = <<>>, stdout' = <<>>, peer' = "open", st' = "idle", req' = NoReq,
           todo' = <<>>, got' = <<>>, sent' \in 0..MaxRequests
    PROVE  Typed' /\ RequestMatches' /\ ClientMatches' /\ ReplyMatches'
  <1>1. /\ <<>> \in Seq(Token) /\ <<>> \in Seq(Seq(Token)) /\ <<>> \in Seq({})
        /\ (\A i \in DOMAIN <<>> : FALSE) /\ Len(<<>>) = 0
    OBVIOUS
  <1>2. IsSeq(<<>>)
    BY <1>1, SeqIsSeq
  <1>3. Stream' = <<>>
    <2>1. Stream' = (<<>> \o <<>>) \o <<>>
      BY FlattenEmpty DEF Stream
    <2>2. QED
      BY <2>1
  <1> DEFINE e == <<>>
  <1>4. /\ e \in Seq(Token) /\ e \in Seq(Seq(Token)) /\ (\A i \in DOMAIN e : FALSE) /\ Len(e) = 0
        /\ IsSeq(e) /\ rbuf' = e /\ wbuf' = e /\ stdin' = e /\ stdout' = e /\ todo' = e /\ got' = e
        /\ Stream' = e
    BY <1>1, <1>2, <1>3
  <1>5. Typed'
    <2>1. (db.auto)' \in BOOLEAN /\ (db.stmt.vm)' \in {"none", "ready", "run", "halt"}
      BY DEF IsDb, IsStmt
    <2> HIDE DEF e
    <2>2. TypeOK'
      BY <1>4, <2>1, NoLocals, PipeCapAssumption DEF TypeOK, Locals
    <2>3. QED
      BY <1>4, <2>2 DEF Typed
  <1>6. RequestMatches'
    BY <1>4 DEF RequestMatches, Handling
  <1>7. req' # QuitRequest
    BY QuitIs
  <1>8. ClientMatches'
    BY <1>4, <1>7 DEF ClientMatches, Waiting
  <1>9. ReplyMatches'
    <2> HIDE DEF e
    <2>1. \A i \in DOMAIN stdout' : FALSE
      BY <1>4
    <2>2. wbuf' = <<>> /\ stdout' = <<>> /\ got' = <<>> /\ pc' = "fc" /\ st' = "idle"
      OBVIOUS
    <2>3. QED
      BY <2>1, <2>2 DEF ReplyMatches
  <1>10. QED
    BY <1>5, <1>6, <1>8, <1>9

-----------------------------------------------------------------------------
\* The invariant holds from the start.
LEMMA InitExchange == Init => ExchangeInv
  <1>1. SUFFICES ASSUME Init PROVE ExchangeInv
    OBVIOUS
  <1>2. /\ db = sqlite3_open(<<>>) /\ pc = "fc" /\ h = NoRequest
        /\ rbuf = <<>> /\ wbuf = <<>> /\ stdin = <<>> /\ stdout = <<>> /\ peer = "open"
        /\ st = "idle" /\ req = NoReq /\ todo = <<>> /\ got = <<>> /\ sent = 0
    BY <1>1 DEF Init, AppInit
  <1>3. IsDb(db)
    BY <1>2, OpenIsDb
  <1>4. sent \in 0..MaxRequests
    BY <1>2, MaxRequestsAssumption
  <1>5. ServerInv
    BY <1>1, InitInv
  <1>6. /\ <<>> \in Seq(Token) /\ <<>> \in Seq(Seq(Token)) /\ <<>> \in Seq({})
        /\ (\A i \in DOMAIN <<>> : FALSE) /\ Len(<<>>) = 0
    OBVIOUS
  <1>7. IsSeq(<<>>)
    BY <1>6, SeqIsSeq
  <1>8. Stream = <<>>
    <2>1. Stream = (<<>> \o <<>>) \o <<>>
      BY <1>2, FlattenEmpty DEF Stream
    <2>2. QED
      BY <2>1
  <1> DEFINE e == <<>>
  <1>9. /\ e \in Seq(Token) /\ e \in Seq(Seq(Token)) /\ (\A i \in DOMAIN e : FALSE) /\ Len(e) = 0
        /\ IsSeq(e) /\ rbuf = e /\ wbuf = e /\ stdin = e /\ stdout = e /\ todo = e /\ got = e
        /\ Stream = e
    BY <1>2, <1>6, <1>7, <1>8
  <1>10. Typed
    <2>1. db.auto \in BOOLEAN /\ db.stmt.vm \in {"none", "ready", "run", "halt"}
      BY <1>3 DEF IsDb, IsStmt
    <2> HIDE DEF e
    <2>2. TypeOK
      BY <1>2, <1>4, <1>9, <2>1, NoLocals, PipeCapAssumption DEF TypeOK, Locals
    <2>3. QED
      BY <1>9, <2>2 DEF Typed
  <1>11. RequestMatches
    BY <1>2, <1>9 DEF RequestMatches, Handling
  <1>12. ClientMatches
    <2>1. req # QuitRequest
      BY <1>2, QuitIs
    <2>2. QED
      BY <1>2, <1>9, <2>1 DEF ClientMatches, Waiting
  <1>13. ReplyMatches
    <2> HIDE DEF e
    <2>1. \A i \in DOMAIN stdout : FALSE
      BY <1>9
    <2>2. QED
      BY <1>2, <2>1 DEF ReplyMatches
  <1>14. QED
    BY <1>5, <1>10, <1>11, <1>12, <1>13 DEF ExchangeInv

\* Every step keeps it.
LEMMA NextExchange == ExchangeInv /\ [Next]_vars => ExchangeInv'
  <1>1. SUFFICES ASSUME ExchangeInv, [Next]_vars PROVE ExchangeInv'
    OBVIOUS
  <1>2. ServerInv /\ Typed /\ RequestMatches /\ ClientMatches /\ ReplyMatches
    BY <1>1 DEF ExchangeInv
  <1>3. ServerInv'
    BY <1>1, <1>2, NextInv
  <1>4. sent \in 0..MaxRequests /\ sent \in Nat /\ MaxRequests \in Nat
    BY <1>2, MaxRequestsAssumption DEF Typed, TypeOK
  <1>5. SUFFICES Typed' /\ RequestMatches' /\ ClientMatches' /\ ReplyMatches'
    BY <1>3 DEF ExchangeInv
  <1>6. CASE Server
    BY <1>1, <1>3, <1>6, ServerStep
  <1>7. CASE Send
    <2>1. PICK r \in Requests : st = "idle" /\ sent < MaxRequests /\ Start(r) /\ sent' = sent + 1
      BY <1>7 DEF Send
    <2>2. sent' \in 0..MaxRequests
      BY <1>4, <2>1
    <2>3. QED
      BY <1>2, <2>1, <2>2, StartStep
  <1>8. CASE SendQuit
    <2>1. st = "idle" /\ Start(QuitRequest) /\ sent' = sent
      BY <1>8 DEF SendQuit
    <2>2. sent' \in 0..MaxRequests
      BY <1>4, <2>1
    <2>3. QED
      BY <1>2, <2>1, <2>2, StartStep
  <1>9. CASE WriteFrame
    BY <1>2, <1>9, WriteFrameStep
  <1>10. CASE ReadFrame
    BY <1>2, <1>10, ReadFrameStep
  <1>11. CASE Lose \/ Die
    BY <1>2, <1>11, GoneStep
  <1>12. CASE NewSession
    <2>1. /\ db' = sqlite3_open(db.disk) /\ pc' = "fc" /\ h' = NoRequest /\ rbuf' = <<>>
          /\ wbuf' = <<>> /\ stdin' = <<>> /\ stdout' = <<>> /\ peer' = "open"
          /\ st' = "idle" /\ req' = NoReq /\ todo' = <<>> /\ got' = <<>> /\ sent' = sent
      BY <1>12 DEF NewSession
    <2>2. IsDb(db') /\ sent' \in 0..MaxRequests
      BY <1>4, <2>1, OpenIsDb
    <2>3. QED
      BY <2>1, <2>2, FreshStart
  <1>13. CASE UNCHANGED vars
    <2>1. /\ db' = db /\ pc' = pc /\ h' = h /\ rbuf' = rbuf /\ wbuf' = wbuf
          /\ stdin' = stdin /\ stdout' = stdout /\ peer' = peer /\ st' = st
          /\ req' = req /\ todo' = todo /\ got' = got /\ sent' = sent
      BY <1>13 DEF vars, appVars, clientVars
    <2>2. Stream' = Stream
      BY <2>1 DEF Stream
    <2>3. (Waiting' <=> Waiting) /\ (Replied' <=> Replied) /\ (Down' <=> Down)
      BY <2>1, <2>2 DEF Waiting, Replied, Down
    <2>4. Typed'
      <3>1. TypeOK'
        BY <1>2, <2>1 DEF Typed, TypeOK
      <3>2. QED
        BY <1>2, <2>1, <3>1 DEF Typed, IsSeq
    <2>5. RequestMatches'
      BY <1>2, <2>1, <2>2 DEF RequestMatches
    <2>6. ClientMatches'
      BY <1>2, <2>1, <2>2, <2>3 DEF ClientMatches
    <2>7. \A s : WholeRows(s)' <=> WholeRows(s)
      BY <2>1 DEF WholeRows
    <2>8. ReplyMatches'
      BY <1>2, <2>1, <2>2, <2>3, <2>7 DEF ReplyMatches
    <2>9. QED
      BY <2>4, <2>5, <2>6, <2>8
  <1>14. QED
    BY <1>1, <1>6, <1>7, <1>8, <1>9, <1>10, <1>11, <1>12, <1>13 DEF Next, Terminated

\* What has been read of a request and where the server stands in its handler
\* fit together at all times, for every client and every way to cut frames.
THEOREM ExchangeInvariant == Spec => []ExchangeInv
  BY InitExchange, NextExchange, PTL DEF Spec

\* Every variable has its type; the pipes hold no more frames than they can,
\* and Read and AppStep put nothing into the locals of a handler that is of
\* another type than the code gives them.
THEOREM SqinnTypeOK == Spec => []TypeOK
  <1>1. ExchangeInv => TypeOK
    BY DEF ExchangeInv, Typed
  <1>2. QED
    BY <1>1, ExchangeInvariant, PTL

\* When a client may send its next request, App_step waits for one, with
\* nothing of the last left in the Reader, the Writer, the pipes or the Db.
THEOREM SqinnInStep == Spec => []InStep
  <1>1. ExchangeInv => InStep
    <2>1. SUFFICES ASSUME ExchangeInv, st = "idle"
                   PROVE  /\ pc = "fc" /\ h = NoRequest /\ db.stmt = NoStmt
                          /\ stdin = <<>> /\ rbuf = <<>> /\ stdout = <<>> /\ wbuf = <<>>
      BY DEF InStep
    <2>2. /\ ServerInv /\ Typed /\ pc = "fc" /\ Stream = <<>> /\ stdout = <<>> /\ wbuf = <<>>
      BY <2>1 DEF ExchangeInv, ClientMatches, ReplyMatches, Waiting
    <2>3. h = NoRequest /\ db.stmt = NoStmt
      BY <2>2 DEF ServerInv, NoStatementLeft, BetweenRequests
    <2>4. stdin = <<>> /\ rbuf = <<>>
      BY <2>2, EmptyStream
    <2>5. QED
      BY <2>2, <2>3, <2>4
  <1>2. QED
    BY <1>1, ExchangeInvariant, PTL

\* The handlers write nothing of a reply before they have read all of the
\* request, so that server and client never wait for each other to make room.
THEOREM SqinnReadsBeforeItWrites == Spec => []ReadsBeforeItWrites
  <1>1. ExchangeInv => ReadsBeforeItWrites
    <2>1. SUFFICES ASSUME ExchangeInv, wbuf # <<>> \/ stdout # <<>>
                   PROVE  todo = <<>> /\ stdin = <<>> /\ rbuf = <<>>
      BY DEF ReadsBeforeItWrites
    <2>2. Typed /\ Stream = <<>>
      BY <2>1 DEF ExchangeInv, ReplyMatches
    <2>3. QED
      BY <2>2, EmptyStream
  <1>2. QED
    BY <1>1, ExchangeInvariant, PTL

\* A client that has read a frame of a reply and not the last has whole rows:
\* Writer_markFrame is called only between rows.
THEOREM SqinnReplyInWholeRows == Spec => []ReplyInWholeRows
  <1>1. ExchangeInv => ReplyInWholeRows
    BY DEF ExchangeInv, ReplyMatches, WholeRows, ReplyInWholeRows
  <1>2. QED
    BY <1>1, ExchangeInvariant, PTL

-----------------------------------------------------------------------------
\* The types of the values that are sent.

Known(t) == t.k = "value" => t.v.type \in ValueTypes
AllKnown(s) == \A i \in DOMAIN s : Known(s[i])

TypesKnown == AllKnown(got) /\ AllKnown(wbuf) /\ \A n \in DOMAIN stdout : AllKnown(stdout[n])

\* One sequence after another.
LEMMA KnownConcat ==
    ASSUME NEW a, NEW b, IsSeq(a), IsSeq(b), AllKnown(a), AllKnown(b)
    PROVE  AllKnown(a \o b)
  <1>1. PICK T : a \in Seq(T) /\ b \in Seq(T)
    BY CommonSet
  <1> DEFINE c == a \o b
  <1>2. /\ DOMAIN c = 1..(Len(a) + Len(b)) /\ DOMAIN a = 1..Len(a) /\ DOMAIN b = 1..Len(b)
        /\ \A i \in 1..(Len(a) + Len(b)) : c[i] = IF i <= Len(a) THEN a[i] ELSE b[i - Len(a)]
    BY <1>1, ConcatProperties
  <1>3. Len(a) \in Nat /\ Len(b) \in Nat
    BY <1>1
  <1> HIDE DEF c
  <1>4. ASSUME NEW i \in DOMAIN c PROVE Known(c[i])
    <2>1. CASE i <= Len(a)
      BY <1>2, <1>3, <2>1 DEF AllKnown
    <2>2. CASE ~(i <= Len(a))
      <3>1. i - Len(a) \in 1..Len(b)
        BY <1>2, <1>3, <2>2
      <3>2. QED
        BY <1>2, <2>2, <3>1 DEF AllKnown
    <2>3. QED
      BY <2>1, <2>2
  <1>5. QED
    BY <1>4 DEF AllKnown, c

\* A byte is no value, nor is a message.
LEMMA KnownStatus ==
    ASSUME NEW ok \in BOOLEAN, NEW errmsg
    PROVE  AllKnown(Status(ok, errmsg)) /\ AllKnown(<<Tok("byte", ok)>>)
  <1> DEFINE t == Tok("byte", ok)
             m == Tok("string", errmsg)
             end == IF ok THEN <<>> ELSE <<m>>
  <1>1. Known(t) /\ Known(m)
    BY DEF Known, Tok
  <1> HIDE DEF t, m
  <1>2. IsSeq(<<t>>) /\ AllKnown(<<t>>) /\ IsSeq(<<m>>) /\ AllKnown(<<m>>)
    <2>1. /\ IsSeq(<<t>>) /\ Len(<<t>>) = 1 /\ <<t>>[1] = t
          /\ IsSeq(<<m>>) /\ Len(<<m>>) = 1 /\ <<m>>[1] = m
      BY Short
    <2>2. DOMAIN <<t>> = {1} /\ DOMAIN <<m>> = {1}
      OBVIOUS
    <2>3. QED
      BY <1>1, <2>1, <2>2 DEF AllKnown
  <1>3. IsSeq(end) /\ AllKnown(end)
    <2>1. IsSeq(<<>>) /\ AllKnown(<<>>)
      <3> DEFINE e == <<>>
      <3>1. e \in Seq({}) /\ DOMAIN e = {}
        OBVIOUS
      <3> HIDE DEF e
      <3>2. IsSeq(e) /\ AllKnown(e)
        BY <3>1, SeqIsSeq DEF AllKnown
      <3>3. QED
        BY <3>2 DEF e
    <2>2. QED
      BY <1>2, <2>1
  <1> HIDE DEF end
  <1>4. AllKnown(<<t>> \o end)
    BY <1>2, <1>3, KnownConcat
  <1>5. QED
    BY <1>2, <1>4 DEF Status, t, m, end

\* fetch gives no value of an unknown type: it fails an ASSERT instead, and
\* reads what is NULL as NULL.
LEMMA KnownFetched ==
    ASSUME NEW d, NEW coltypes, NEW w \in Nat, DOMAIN coltypes = 1..w,
           ~Unwritable(fetch(d, coltypes))
    PROVE  IsSeq(EncodeRow(fetch(d, coltypes))) /\ AllKnown(EncodeRow(fetch(d, coltypes)))
  <1> DEFINE values == fetch(d, coltypes)
             row == Head(d.stmt.todo)
             cell(i) == IF i \in DOMAIN row THEN row[i] ELSE NullCell
             a == <<Tok("byte", TRUE)>>
             b == [i \in DOMAIN values |-> Tok("value", values[i])]
  <1>1. /\ DOMAIN values = 1..w
        /\ \A i \in 1..w :
             values[i] = IF cell(i).class = "null" \/ coltypes[i] \in ValueTypes \ {"VT_NULL"}
                         THEN Column(cell(i), coltypes[i])
                         ELSE [type |-> coltypes[i], v |-> "invalid"]
    BY DEF fetch
  <1>2. \A i \in 1..w : values[i].v # "invalid"
    BY <1>1 DEF Unwritable
  <1> HIDE DEF cell, values
  <1>3. ASSUME NEW i \in 1..w PROVE values[i].type \in ValueTypes
    <2>1. CASE cell(i).class = "null"
      BY <1>1, <2>1 DEF Column, ValueTypes
    <2>2. CASE cell(i).class # "null" /\ coltypes[i] \in ValueTypes
      <3>1. values[i] = Column(cell(i), coltypes[i]) \/ values[i].type = coltypes[i]
        BY <1>1
      <3>2. Column(cell(i), coltypes[i]).type = coltypes[i]
        BY <2>2 DEF Column
      <3>3. QED
        BY <2>2, <3>1, <3>2
    <2>3. CASE cell(i).class # "null" /\ coltypes[i] \notin ValueTypes
      <3>1. values[i] = [type |-> coltypes[i], v |-> "invalid"]
        BY <1>1, <2>3
      <3>2. QED
        BY <1>2, <3>1
    <2>4. QED
      BY <2>1, <2>2, <2>3
  <1>4. IsSeq(b) /\ AllKnown(b)
    <2>1. DOMAIN b = 1..w /\ \A i \in 1..w : b[i] = Tok("value", values[i])
      BY <1>1
    <2>2. b \in Seq({b[i] : i \in DOMAIN b})
      <3>1. b \in [1..w -> {b[i] : i \in DOMAIN b}]
        BY <2>1
      <3> HIDE DEF b
      <3>2. QED
        BY <3>1
    <2> HIDE DEF b
    <2>3. \A i \in 1..w : Known(b[i])
      BY <1>3, <2>1 DEF Known, Tok
    <2>4. QED
      BY <2>1, <2>2, <2>3 DEF IsSeq, AllKnown
  <1>5. IsSeq(a) /\ AllKnown(a)
    <2> DEFINE t == Tok("byte", TRUE)
    <2> HIDE DEF t
    <2>1. IsSeq(<<t>>)
      BY Short
    <2>2. QED
      BY <2>1, KnownStatus DEF t
  <1> HIDE DEF a, b
  <1>6. IsSeq(a \o b) /\ AllKnown(a \o b)
    BY <1>4, <1>5, ConcatIsSeq, KnownConcat
  <1>7. EncodeRow(values) = a \o b
    BY DEF EncodeRow, a, b
  <1>8. QED
    BY <1>6, <1>7, Zenon DEF values, cell

\* The buffers after a step that only moves what is in them.
LEMMA KnownMoved ==
    ASSUME Typed, TypesKnown,
           \/ stdout' = Append(stdout, wbuf) /\ wbuf' = <<>>
           \/ stdout' = stdout /\ wbuf' \in {wbuf, <<>>},
           got' \in {got, <<>>}
    PROVE  TypesKnown'
  <1>1. AllKnown(<<>>)
    BY DEF AllKnown
  <1>2. AllKnown(got)' /\ AllKnown(wbuf)'
    BY <1>1 DEF TypesKnown, AllKnown, Known
  <1>3. AllKnown(got') /\ AllKnown(wbuf')
    BY <1>2 DEF AllKnown, Known
  <1>4. ASSUME NEW n \in DOMAIN stdout' PROVE AllKnown(stdout'[n])
    <2>1. CASE stdout' = stdout
      BY <1>4, <2>1 DEF TypesKnown
    <2>2. CASE stdout' = Append(stdout, wbuf)
      <3>1. PICK T : stdout \in Seq(T)
        BY DEF Typed, IsSeq
      <3>2. stdout'[n] = wbuf \/ (n \in DOMAIN stdout /\ stdout'[n] = stdout[n])
        BY <1>4, <2>2, <3>1
      <3>3. QED
        BY <3>2 DEF TypesKnown
    <2>3. QED
      BY <2>1, <2>2
  <1>5. QED
    BY <1>3, <1>4 DEF TypesKnown, AllKnown, Known

\* The buffers after a step that writes u.
LEMMA KnownWritten ==
    ASSUME Typed, TypesKnown, NEW u, IsSeq(u), AllKnown(u), wbuf' = wbuf \o u,
           got' = got, stdout' = stdout
    PROVE  TypesKnown'
  <1>1. AllKnown(wbuf \o u)
    BY KnownConcat DEF Typed, TypesKnown
  <1>2. QED
    BY <1>1 DEF TypesKnown, AllKnown, Known

\* Whatever the server does, it writes no value of an unknown type.
LEMMA ServerKnown ==
    ASSUME ExchangeInv, TypesKnown, Server
    PROVE  TypesKnown'
  <1>1. Typed /\ RequestMatches /\ AppNext /\ got' = got
    BY DEF ExchangeInv, Server, clientVars
  <1>2. ASSUME wbuf' \in {wbuf, <<>>}, stdout' = stdout PROVE TypesKnown'
    BY <1>1, <1>2, KnownMoved
  <1>3. ASSUME stdout' = Append(stdout, wbuf), wbuf' = <<>> PROVE TypesKnown'
    BY <1>1, <1>3, KnownMoved
  <1>4. CASE Abort
    BY <1>2, <1>4 DEF Abort
  <1>5. CASE readNextFrameIfNeeded \/ EndOfInput \/ ShortFrame \/ BrokenPipe \/ InvalidByte \/ BadCount
    BY <1>2, <1>4, <1>5
       DEF readNextFrameIfNeeded, EndOfInput, ShortFrame, BrokenPipe, InvalidByte, BadCount
  <1>6. CASE AppStep
    <2>1. PICK e : /\ stdout' = stdout
                   /\ wbuf' = wbuf \/ wbuf' = wbuf \o Status(TRUE, e)
      BY <1>6, Zenon DEF AppStep, Read
    <2>2. CASE wbuf' = wbuf
      BY <1>2, <2>1, <2>2
    <2>3. CASE wbuf' = wbuf \o Status(TRUE, e)
      <3> DEFINE u == Status(TRUE, e)
      <3>1. IsSeq(u) /\ AllKnown(u)
        BY StatusIs, KnownStatus
      <3>2. wbuf' = wbuf \o u
        BY <2>3
      <3> HIDE DEF u
      <3>3. QED
        BY <1>1, <2>1, <3>1, <3>2, KnownWritten
    <2>4. QED
      BY <2>1, <2>2, <2>3, Zenon
  <1>7. CASE AppFlush
    BY <1>3, <1>7 DEF AppFlush, WriterFlush
  <1>8. CASE Shutdown \/ ReadSql \/ ReadNiter \/ ReadNparams \/ ReadParamType \/ ReadParamValue
    BY <1>2, <1>4, <1>8
       DEF Shutdown, ReadSql, ReadNiter, ReadNparams, ReadParamType, ReadParamValue, Read
  <1>9. CASE BindExec \/ BindQuery \/ ReadNcols \/ ReadColtype
    <2>1. ASSUME BindExec \/ BindQuery PROVE wbuf' = wbuf /\ stdout' = stdout
      BY <2>1, Zenon DEF BindExec, BindQuery
    <2>2. ASSUME ReadNcols \/ ReadColtype PROVE wbuf' = wbuf /\ stdout' = stdout
      BY <2>2 DEF ReadNcols, ReadColtype, Read
    <2>3. QED
      BY <1>2, <1>9, <2>1, <2>2
  <1>10. CASE FetchRow
    <2>1. PICK o \in Db_step_fetch(db, h.coltypes) :
            IF Unwritable(o.values) THEN Abort
            ELSE /\ wbuf' = IF o.ok /\ o.hasRow THEN wbuf \o EncodeRow(o.values) ELSE wbuf
                 /\ stdout' = stdout
      BY <1>10 DEF FetchRow
    <2>2. CASE Abort
      BY <1>4, <2>2
    <2>3. CASE ~Unwritable(o.values) /\ ~(o.ok /\ o.hasRow)
      BY <1>2, <2>1, <2>3
    <2>4. CASE ~Unwritable(o.values) /\ o.ok /\ o.hasRow
      <3>1. PICK d : o.values = fetch(d, h.coltypes)
        <4>1. CASE db.stmt = NoStmt
          <5>1. o.ok = FALSE
            BY <2>1, <4>1 DEF Db_step_fetch
          <5>2. QED
            BY <2>4, <5>1
        <4> SUFFICES ASSUME db.stmt # NoStmt PROVE \E d : o.values = fetch(d, h.coltypes)
          BY <4>1
        <4>2. PICK s \in step(db) :
                o = [ok |-> s.ok, hasRow |-> IF s.ok THEN s.hasRow ELSE TRUE, db |-> s.db,
                     values |-> IF s.ok /\ s.hasRow THEN fetch(s.db, h.coltypes) ELSE <<>>]
          BY <2>1, Zenon DEF Db_step_fetch
        <4>3. s.ok /\ s.hasRow
          BY <2>4, <4>2
        <4>4. o.values = fetch(s.db, h.coltypes)
          BY <4>2, <4>3
        <4>5. QED
          BY <4>4
      <3>2. Len(h.coltypes) \in Nat /\ DOMAIN h.coltypes = 1..Len(h.coltypes)
        BY <1>1 DEF Typed, TypeOK
      <3> DEFINE u == EncodeRow(o.values)
      <3>3. IsSeq(u) /\ AllKnown(u)
        BY <2>4, <3>1, <3>2, KnownFetched
      <3>4. wbuf' = wbuf \o u /\ stdout' = stdout
        BY <2>1, <2>4
      <3> HIDE DEF u
      <3>5. QED
        BY <1>1, <3>3, <3>4, KnownWritten
    <2>5. QED
      BY <2>1, <2>2, <2>3, <2>4
  <1>11. CASE MarkFrame
    BY <1>2, <1>3, <1>11 DEF MarkFrame, WriterFlush
  <1>12. CASE EndRows
    <2> DEFINE t == Tok("byte", FALSE)
    <2>1. stdout' = stdout /\ wbuf' = Append(wbuf, t)
      BY <1>12 DEF EndRows
    <2>2. AllKnown(<<t>>)
      BY KnownStatus
    <2> HIDE DEF t
    <2>3. IsSeq(<<t>>)
      BY Short
    <2>4. wbuf' = wbuf \o <<t>>
      <3>1. PICK T : wbuf \in Seq(T)
        BY <1>1 DEF Typed, IsSeq
      <3>2. QED
        BY <2>1, <3>1, AppendOne
    <2>5. QED
      BY <1>1, <2>1, <2>2, <2>3, <2>4, KnownWritten
  <1>13. CASE Reply
    <2> DEFINE u == Status(h.ok, Db_errmsg(db))
    <2>1. stdout' = stdout /\ wbuf' = wbuf \o u
      BY <1>13 DEF Reply
    <2>2. h.ok \in BOOLEAN
      BY <1>1 DEF Typed, TypeOK
    <2>3. IsSeq(u) /\ AllKnown(u)
      BY <2>2, StatusIs, KnownStatus
    <2> HIDE DEF u
    <2>4. QED
      BY <1>1, <2>1, <2>3, KnownWritten
  <1>14. QED
    BY <1>1, <1>5, <1>6, <1>7, <1>8, <1>9, <1>10, <1>11, <1>12, <1>13 DEF AppNext

\* Nor does the client read one.
LEMMA NextKnown == ASSUME ExchangeInv, TypesKnown, [Next]_vars PROVE TypesKnown'
  <1>1. Typed
    BY DEF ExchangeInv
  <1>2. ASSUME wbuf' = wbuf, stdout' = stdout, got' \in {got, <<>>} PROVE TypesKnown'
    BY <1>1, <1>2, KnownMoved
  <1>3. CASE Server
    BY <1>3, ServerKnown
  <1>4. CASE Send \/ SendQuit \/ WriteFrame \/ Lose \/ Die \/ UNCHANGED vars
    BY <1>2, <1>4 DEF Send, SendQuit, Start, WriteFrame, Lose, Die, vars, appVars, serverVars, clientVars
  <1>5. CASE ReadFrame
    <2>1. /\ stdout # <<>> /\ stdout' = Tail(stdout) /\ got' = got \o Head(stdout) /\ wbuf' = wbuf
      BY <1>5 DEF ReadFrame, serverVars
    <2>2. PICK T : stdout \in Seq(T)
      BY <1>1 DEF Typed, IsSeq
    <2>3. /\ 1 \in DOMAIN stdout /\ Head(stdout) = stdout[1]
          /\ \A n \in DOMAIN stdout' : n + 1 \in DOMAIN stdout /\ stdout'[n] = stdout[n + 1]
      BY <2>1, <2>2
    <2>4. AllKnown(got \o Head(stdout))
      BY <1>1, <2>3, KnownConcat DEF Typed, TypesKnown
    <2>5. \A n \in DOMAIN stdout' : AllKnown(stdout'[n])
      BY <2>3 DEF TypesKnown
    <2>6. QED
      BY <2>1, <2>4, <2>5 DEF TypesKnown, AllKnown, Known
  <1>6. CASE NewSession
    <2>1. wbuf' = <<>> /\ stdout' = <<>> /\ got' = <<>>
      BY <1>6 DEF NewSession
    <2>2. QED
      BY <2>1 DEF TypesKnown, AllKnown
  <1>7. QED
    BY <1>3, <1>4, <1>5, <1>6 DEF Next, Terminated

\* A request with an unknown function code or parameter type, a negative number
\* of parameters or a value cut short fails an ASSERT, and one that is
\* answered gets no value of a type that is none: fetch fails an ASSERT on it.
THEOREM SqinnAnsweredAreDecodable == Spec => []AnsweredAreDecodable
  <1>1. ExchangeInv /\ TypesKnown => AnsweredAreDecodable
    BY DEF ExchangeInv, ClientMatches, TypesKnown, AllKnown, Known, AnsweredAreDecodable, Answered
  <1>2. Init => TypesKnown
    <2>1. Init => got = <<>> /\ wbuf = <<>> /\ stdout = <<>>
      BY DEF Init, AppInit
    <2>2. QED
      BY <2>1 DEF TypesKnown, AllKnown
  <1>3. ExchangeInv /\ TypesKnown /\ [Next]_vars => TypesKnown'
    BY NextKnown
  <1>4. QED
    BY <1>1, <1>2, <1>3, ExchangeInvariant, PTL DEF Spec
=============================================================================
