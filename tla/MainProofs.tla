----------------------------- MODULE MainProofs -----------------------------
(***************************************************************************)
(* The memory of the server process, for all command lines, requests,      *)
(* clients and I/O faults, and for counters of any width; and the options  *)
(* it takes from its command line.                                         *)
(*                                                                         *)
(* HeapIsNeeded is not inductive: that the parameters are freed once and   *)
(* only after the last iteration needs that the handler reads parameters   *)
(* only while there are iterations left (InIteration), and this needs that *)
(* reading and binding keep the handler's locals, which is the invariant   *)
(* of SqinnProofs.  That no leak is reported needs that the counters,      *)
(* which may have wrapped, differ by the number of blocks (Agree).         *)
(***************************************************************************)
EXTENDS Main, SqinnProofs, Lemmas, FiniteSetTheorems

InIteration ==
    pc \in {"ptype", "pvalue", "bind"} => ~(h.fc = "FC_EXEC" /\ h.i >= h.niter)

Blocks == Objects \cup {"rbuf", "params", "coltypes", "values"}

\* The counters differ by the number of blocks, up to a multiple of their range.
Agree == \E k \in Int : mallocs - frees - Cardinality(heap \ {"log"}) = k * CounterRange

RunHeap ==
    /\ heap \ {"rbuf"} = Objects \cup Locals
    /\ rbuf # <<>> => "rbuf" \in heap
    /\ pc \notin {"closed", "dead"}
    /\ InIteration

HeapInv ==
    /\ phase \in {"start", "log", "db", "run", "exit"}
    /\ phase \in {"start", "log", "db"} => pc = "fc" /\ rbuf = <<>>
    /\ phase = "start" => heap = {}
    /\ phase = "log" => heap = {"log"}
    /\ phase = "db" => heap = {"log", "db"}
    /\ phase = "run" => RunHeap
    /\ heap \subseteq Blocks
    /\ mallocs \in 0..(CounterRange - 1) /\ frees \in 0..(CounterRange - 1)
    /\ phase \in {"db", "run"} => Agree
    /\ leak \in BOOLEAN /\ code \in {0, 1}
    /\ phase # "exit" => ~leak
    /\ CleanExit

-----------------------------------------------------------------------------
\* Where a step of App goes, and what it leaves of the handler's locals.

\* The handler replies only after the last iteration of a FC_EXEC.
LEMMA NextParamIs ==
    ASSUME NEW hh
    PROVE  /\ NextParam(hh) \in {"reply", "bind", "ptype"}
           /\ NextParam(hh) = "reply" <=> hh.fc = "FC_EXEC" /\ hh.i >= hh.niter
BY DEF NextParam

\* Reading a frame allocates the buffer, and moves the handler nowhere.
LEMMA FrameStep ==
    ASSUME ServerInv, RunHeap, readNextFrameIfNeeded, Mem({"rbuf"} \ heap, {}, Dump)
    PROVE  RunHeap'
<1>1. PICK params \in {h.params, Stale(h.params)} : h' = [h EXCEPT !.params = params]
    BY DEF readNextFrameIfNeeded
<1>2. h'.fc = h.fc /\ h'.i = h.i /\ h'.niter = h.niter /\ pc' = pc
    BY <1>1 DEF readNextFrameIfNeeded, ServerInv, IsLocals
<1>3. InIteration' BY <1>2 DEF RunHeap, InIteration
<1>4. heap' = heap \cup {"rbuf"} BY DEF Mem
<1>5. Locals' = Locals BY <1>2 DEF Locals
<1> QED BY <1>2, <1>3, <1>4, <1>5 DEF RunHeap

\* The parameters are allocated once and freed once.
LEMMA ParamsStep ==
    ASSUME ServerInv, RunHeap,
           \/ ReadNparams /\ Mem({"params"}, FreedWithParams, 0)
           \/ BindExec /\ Mem({}, FreedWithParams, 0)
           \/ BindQuery /\ Mem({}, {"params"}, 0)
    PROVE  RunHeap'
<1>1. CASE ReadNparams /\ Mem({"params"}, FreedWithParams, 0)
    <2>1. /\ pc = "nparams" /\ pc' = NextParam(h') /\ rbuf # <<>>
          /\ heap' = (heap \cup {"params"}) \ FreedWithParams
        BY <1>1 DEF ReadNparams, Read, At, Mem
    <2>2. InIteration' BY <2>1, NextParamIs DEF InIteration
    <2>3. pc' \in {"reply", "bind", "ptype"} BY <2>1, NextParamIs
    <2> QED BY <2>1, <2>2, <2>3 DEF RunHeap, Locals, FreedWithParams, Objects
<1>2. CASE BindExec /\ Mem({}, FreedWithParams, 0)
    <2>1. /\ pc = "bind" /\ pc' = NextParam(h') /\ rbuf' = rbuf
          /\ heap' = heap \ FreedWithParams
        BY <1>2 DEF BindExec, Mem
    <2>2. InIteration' BY <2>1, NextParamIs DEF InIteration
    <2>3. pc' \in {"reply", "bind", "ptype"} BY <2>1, NextParamIs
    <2> QED BY <2>1, <2>2, <2>3 DEF RunHeap, Locals, FreedWithParams, Objects
<1>3. CASE BindQuery /\ Mem({}, {"params"}, 0)
    <2>1. pc = "bind" /\ pc' = "ncols" /\ rbuf' = rbuf /\ heap' = heap \ {"params"}
        BY <1>3 DEF BindQuery, Mem
    <2> QED BY <2>1 DEF RunHeap, Locals, Objects, InIteration
<1> QED BY <1>1, <1>2, <1>3

\* So are the column types and values.
LEMMA ColumnsStep ==
    ASSUME RunHeap,
           \/ ReadNcols /\ Mem({"coltypes"} \cup AllocatedWithColtypes, {}, 0)
           \/ ReadColtype /\ Mem(AllocatedWithColtypes, {}, 0)
           \/ EndRows /\ Mem({}, RowsFreed, 0)
    PROVE  RunHeap'
<1>1. CASE ReadNcols /\ Mem({"coltypes"} \cup AllocatedWithColtypes, {}, 0)
    <2>1. /\ pc = "ncols" /\ pc' \in {"step", "ctype"} /\ rbuf # <<>>
          /\ heap' = heap \cup {"coltypes"} \cup AllocatedWithColtypes
        BY <1>1 DEF ReadNcols, Read, At, NextColtype, Mem
    <2> QED BY <2>1 DEF RunHeap, Locals, AllocatedWithColtypes, Objects, InIteration
<1>2. CASE ReadColtype /\ Mem(AllocatedWithColtypes, {}, 0)
    <2>1. /\ pc = "ctype" /\ pc' \in {"step", "ctype"} /\ rbuf # <<>>
          /\ heap' = heap \cup AllocatedWithColtypes
        BY <1>2 DEF ReadColtype, Read, At, NextColtype, Mem
    <2> QED BY <2>1 DEF RunHeap, Locals, AllocatedWithColtypes, Objects, InIteration
<1>3. CASE EndRows /\ Mem({}, RowsFreed, 0)
    <2>1. pc = "step" /\ pc' = "reply" /\ rbuf' = rbuf /\ heap' = heap \ {"values", "coltypes"}
        BY <1>3 DEF EndRows, Mem, RowsFreed
    <2> QED BY <2>1 DEF RunHeap, Locals, Objects, InIteration
<1> QED BY <1>1, <1>2, <1>3

\* Steps that allocate nothing, or only dumps.
LEMMA OtherStep ==
    ASSUME ServerInv, RunHeap, heap' = heap,
           \/ EndOfInput \/ ShortFrame \/ BrokenPipe \/ InvalidByte \/ BadCount
           \/ AppStep \/ ReadSql \/ ReadNiter \/ ReadParamType \/ ReadParamValue
           \/ FetchRow \/ Reply \/ MarkFrame \/ AppFlush
    PROVE  pc' = "dead" \/ RunHeap'
<1>1. CASE EndOfInput \/ ShortFrame \/ BrokenPipe \/ InvalidByte \/ BadCount
    BY <1>1 DEF EndOfInput, ShortFrame, BrokenPipe, InvalidByte, BadCount, Abort
<1>2. CASE AppStep
    <2>1. pc = "fc" /\ pc' \in {"flush", "sql"} /\ rbuf # <<>>
        BY <1>2 DEF AppStep, Read, At
    <2> QED BY <2>1 DEF RunHeap, Locals, InIteration
<1>3. CASE ReadSql
    <2>1. pc' = "dead" \/ (pc = "sql" /\ pc' \in {"niter", "nparams"} /\ rbuf # <<>>)
        BY <1>3 DEF ReadSql, Read, At, Abort
    <2> QED BY <2>1 DEF RunHeap, Locals, InIteration
<1>4. CASE ReadNiter
    <2>1. pc = "niter" /\ pc' = "nparams" /\ rbuf # <<>> BY <1>4 DEF ReadNiter, Read, At
    <2> QED BY <2>1 DEF RunHeap, Locals, InIteration
<1>5. CASE ReadParamType
    <2>1. /\ pc = "ptype" /\ rbuf # <<>> /\ pc' \in {NextParam(h'), "pvalue"}
          /\ h'.fc = h.fc /\ h'.i = h.i /\ h'.niter = h.niter
        BY <1>5 DEF ReadParamType, Read, At, ServerInv, IsLocals
    <2>2. ~(h'.fc = "FC_EXEC" /\ h'.i >= h'.niter) BY <2>1 DEF RunHeap, InIteration
    <2>3. pc' \in {"bind", "ptype", "pvalue"} BY <2>1, <2>2, NextParamIs
    <2> QED BY <2>1, <2>2, <2>3 DEF RunHeap, Locals, InIteration
<1>6. CASE ReadParamValue
    <2>1. /\ pc = "pvalue" /\ rbuf # <<>> /\ pc' = NextParam(h')
          /\ h'.fc = h.fc /\ h'.i = h.i /\ h'.niter = h.niter
        BY <1>6 DEF ReadParamValue, Read, At, ServerInv, IsLocals
    <2>2. ~(h'.fc = "FC_EXEC" /\ h'.i >= h'.niter) BY <2>1 DEF RunHeap, InIteration
    <2>3. pc' \in {"bind", "ptype"} BY <2>1, <2>2, NextParamIs
    <2> QED BY <2>1, <2>2, <2>3 DEF RunHeap, Locals, InIteration
<1>7. CASE FetchRow
    <2>1. pc' = "dead" \/ (pc = "step" /\ pc' \in {"mark", "step"} /\ rbuf' = rbuf)
        BY <1>7 DEF FetchRow, Abort
    <2> QED BY <2>1 DEF RunHeap, Locals, InIteration
<1>8. CASE Reply
    <2>1. pc = "reply" /\ pc' = "flush" /\ rbuf' = rbuf BY <1>8 DEF Reply
    <2> QED BY <2>1 DEF RunHeap, Locals, InIteration
<1>9. CASE MarkFrame
    <2>1. pc = "mark" /\ pc' = "step" /\ rbuf' = rbuf BY <1>9 DEF MarkFrame, WriterFlush
    <2> QED BY <2>1 DEF RunHeap, Locals, InIteration
<1>10. CASE AppFlush
    <2>1. pc = "flush" /\ pc' \in {"quit", "fc"} /\ rbuf' = rbuf BY <1>10 DEF AppFlush, WriterFlush
    <2> QED BY <2>1 DEF RunHeap, Locals, InIteration
<1> QED BY <1>1, <1>2, <1>3, <1>4, <1>5, <1>6, <1>7, <1>8, <1>9, <1>10

\* A step of the run loop ends the process or leaves what the code needs.
LEMMA RunStep ==
    ASSUME ServerInv, RunHeap, AppStepWithMemory
    PROVE  AppNext /\ (pc' = "dead" \/ RunHeap')
<1>1. AppNext BY DEF AppStepWithMemory, AppNext
<1>2. MarkFrame /\ Mem({}, {}, IF FlushDue THEN Dump ELSE 0) => heap' = heap BY DEF Mem
<1>3. AppFlush /\ Mem({}, {}, Dump) => heap' = heap BY DEF Mem
<1> QED BY <1>1, <1>2, <1>3, FrameStep, ParamsStep, ColumnsStep, OtherStep DEF AppStepWithMemory, NoMem
-----------------------------------------------------------------------------
\* The counters.

\* There are finitely many blocks.
LEMMA FiniteHeap == ASSUME NEW s \in SUBSET Blocks PROVE IsFiniteSet(s)
<1>1. /\ IsFiniteSet({"log"} \cup {"db"}) /\ IsFiniteSet({"reader"} \cup {"writer"})
      /\ IsFiniteSet({"wbuf"} \cup {"app"}) /\ IsFiniteSet({"rbuf"} \cup {"params"})
      /\ IsFiniteSet({"coltypes"} \cup {"values"})
    BY FS_Singleton, FS_Union
<1>2. IsFiniteSet((({"log"} \cup {"db"}) \cup ({"reader"} \cup {"writer"}))
                  \cup (({"wbuf"} \cup {"app"}) \cup ({"rbuf"} \cup {"params"})))
    BY <1>1, FS_Union
<1>3. IsFiniteSet(((({"log"} \cup {"db"}) \cup ({"reader"} \cup {"writer"}))
                   \cup (({"wbuf"} \cup {"app"}) \cup ({"rbuf"} \cup {"params"})))
                  \cup ({"coltypes"} \cup {"values"}))
    BY <1>1, <1>2, FS_Union
<1>4. IsFiniteSet(Blocks) BY <1>3 DEF Blocks, Objects
<1> QED BY <1>4, FS_Subset

\* An int that is counted up wraps around, and stays within its range.
LEMMA CountIs ==
    ASSUME NEW c \in Nat, NEW n \in Nat
    PROVE  /\ Count(c, n) \in 0..(CounterRange - 1)
           /\ \E q \in Int : Count(c, n) = c + n - q * CounterRange
<1> DEFINE v == c + n
<1>1. v \in Int OBVIOUS
<1> DEFINE q == v \div CounterRange
           r == v % CounterRange
<1>2. Count(c, n) = r BY DEF Count
<1> HIDE DEF v
<1>3. q \in Int /\ r \in 0..(CounterRange - 1) /\ v = q * CounterRange + r
    BY <1>1, DivModBasics, CounterRangeAssumption
<1> HIDE DEF q, r
<1>4. q * CounterRange \in Int BY <1>3, CounterRangeAssumption
<1>5. r = v - q * CounterRange BY <1>3, <1>4, CounterRangeAssumption
<1> QED BY <1>2, <1>3, <1>5, CounterRangeAssumption DEF v

\* The number of blocks after new ones and frees.
LEMMA BlocksCount ==
    ASSUME heap \subseteq Blocks, NEW new \in SUBSET Blocks, NEW gone \in SUBSET Blocks,
           new \cap heap = {}, gone \subseteq heap \cup new,
           "log" \notin new, "log" \notin gone
    PROVE  Cardinality(((heap \cup new) \ gone) \ {"log"}) =
               Cardinality(heap \ {"log"}) + Cardinality(new) - Cardinality(gone)
<1> DEFINE old == heap \ {"log"}
<1>1. IsFiniteSet(old) /\ IsFiniteSet(new) /\ IsFiniteSet(gone)
    BY FiniteHeap
<1>2. old \cap new = {} /\ (old \cup new) \cap gone = gone OBVIOUS
<1>3. ((heap \cup new) \ gone) \ {"log"} = (old \cup new) \ gone OBVIOUS
<1> HIDE DEF old
<1>4. /\ IsFiniteSet(old \cup new)
      /\ Cardinality(old \cup new) = Cardinality(old) + Cardinality(new) - Cardinality({})
    BY <1>1, <1>2, FS_Union
<1>5. Cardinality((old \cup new) \ gone) = Cardinality(old \cup new) - Cardinality(gone)
    BY <1>2, <1>4, FS_Difference, ZenonT(60)
<1>6. Cardinality(old) \in Nat /\ Cardinality(new) \in Nat /\ Cardinality(gone) \in Nat
    BY <1>1, FS_CardinalityType
<1>7. Cardinality(old \cup new) = Cardinality(old) + Cardinality(new)
    BY <1>4, <1>6, FS_EmptySet
<1>8. Cardinality((old \cup new) \ gone) =
          Cardinality(old) + Cardinality(new) - Cardinality(gone)
    BY <1>5, <1>6, <1>7
<1> QED BY <1>3, <1>8 DEF old

Counters == mallocs \in 0..(CounterRange - 1) /\ frees \in 0..(CounterRange - 1)

\* What is allocated was not allocated, and what is freed is.
Sound(new, gone, dumps) ==
    /\ new \in SUBSET Blocks /\ gone \in SUBSET Blocks /\ dumps \in Nat
    /\ new \cap heap = {} /\ gone \subseteq heap \cup new
    /\ "log" \notin new /\ "log" \notin gone

\* The counters stay in their range.
LEMMA MemCounters ==
    ASSUME Counters, NEW new \in SUBSET Blocks, NEW gone \in SUBSET Blocks, NEW dumps \in Nat,
           Mem(new, gone, dumps)
    PROVE  Counters'
<1>1. Cardinality(new) \in Nat /\ Cardinality(gone) \in Nat
    BY FiniteHeap, FS_CardinalityType
<1>2. mallocs \in Nat /\ frees \in Nat BY CounterRangeAssumption DEF Counters
<1>3. Cardinality(new) + dumps \in Nat /\ Cardinality(gone) + dumps \in Nat BY <1>1
<1> QED BY <1>2, <1>3, CountIs DEF Mem, Counters

\* The counters go on agreeing with the blocks.
LEMMA MemAgrees ==
    ASSUME Counters, Agree, heap \subseteq Blocks, NEW new, NEW gone, NEW dumps,
           Sound(new, gone, dumps), Mem(new, gone, dumps)
    PROVE  Counters' /\ Agree' /\ heap' \subseteq Blocks
<1>0. /\ new \in SUBSET Blocks /\ gone \in SUBSET Blocks /\ dumps \in Nat
      /\ new \cap heap = {} /\ gone \subseteq heap \cup new
      /\ "log" \notin new /\ "log" \notin gone
    BY DEF Sound
<1> DEFINE c == Cardinality(heap \ {"log"})
           a == Cardinality(new)
           b == Cardinality(gone)
<1>1. a \in Nat /\ b \in Nat /\ c \in Nat
    BY <1>0, FiniteHeap, FS_CardinalityType
<1>2. Cardinality(heap' \ {"log"}) = c + a - b BY <1>0, BlocksCount DEF Mem
<1>3. mallocs \in Nat /\ frees \in Nat BY CounterRangeAssumption DEF Counters
<1>4. mallocs' = Count(mallocs, a + dumps) /\ frees' = Count(frees, b + dumps) BY DEF Mem
<1>5. PICK k \in Int : mallocs - frees - c = k * CounterRange BY DEF Agree
<1> HIDE DEF a, b, c
<1> DEFINE x == a + dumps
           y == b + dumps
<1>6. c \in Int /\ x \in Nat /\ y \in Nat /\ c + x - y = c + a - b BY <1>0, <1>1
<1> HIDE DEF x, y
<1>7. PICK p \in Int : mallocs' = mallocs + x - p * CounterRange BY <1>3, <1>4, <1>6, CountIs DEF x
<1>8. PICK q \in Int : frees' = frees + y - q * CounterRange BY <1>3, <1>4, <1>6, CountIs DEF y
<1> DEFINE k1 == k - p + q
<1>9. mallocs' - frees' - (c + a - b) = k1 * CounterRange
    BY <1>1, <1>3, <1>5, <1>6, <1>7, <1>8, CounterRangeAssumption
<1> HIDE DEF k1
<1>10. mallocs' - frees' - Cardinality(heap' \ {"log"}) = k1 * CounterRange BY <1>2, <1>9
<1>11. k1 \in Int BY DEF k1
<1>12. Agree' BY <1>10, <1>11 DEF Agree
<1>13. Counters' BY <1>0, MemCounters
<1>14. heap' \subseteq Blocks BY <1>0 DEF Mem
<1> QED BY <1>12, <1>13, <1>14

-----------------------------------------------------------------------------
\* The steps of main.

\* In the run loop every block is allocated and freed once.
LEMMA RunMemory ==
    ASSUME RunHeap, heap \subseteq Blocks, Counters, Agree, AppStepWithMemory
    PROVE  Counters' /\ Agree' /\ heap' \subseteq Blocks
<1>1. Dump \in Nat BY DEF Dump
<1>2. CASE \/ readNextFrameIfNeeded /\ Mem({"rbuf"} \ heap, {}, Dump)
           \/ MarkFrame /\ Mem({}, {}, IF FlushDue THEN Dump ELSE 0)
           \/ AppFlush /\ Mem({}, {}, Dump)
    <2>1. /\ Sound({"rbuf"} \ heap, {}, Dump) /\ Sound({}, {}, Dump) /\ Sound({}, {}, 0)
        BY <1>1 DEF Sound, Blocks
    <2> QED BY <1>2, <2>1, MemAgrees
<1>3. CASE ReadNparams /\ Mem({"params"}, FreedWithParams, 0)
    <2>1. "params" \notin heap BY <1>3 DEF ReadNparams, Read, At, RunHeap, Locals, Objects
    <2>2. Sound({"params"}, FreedWithParams, 0) BY <2>1 DEF Sound, Blocks, FreedWithParams
    <2> QED BY <1>3, <2>2, MemAgrees
<1>4. CASE (BindExec /\ Mem({}, FreedWithParams, 0)) \/ (BindQuery /\ Mem({}, {"params"}, 0))
    <2>1. "params" \in heap BY <1>4 DEF BindExec, BindQuery, RunHeap, Locals, Objects
    <2>2. Sound({}, FreedWithParams, 0) /\ Sound({}, {"params"}, 0)
        BY <2>1 DEF Sound, Blocks, FreedWithParams
    <2> QED BY <1>4, <2>2, MemAgrees
<1>5. CASE ReadNcols /\ Mem({"coltypes"} \cup AllocatedWithColtypes, {}, 0)
    <2>1. "coltypes" \notin heap /\ "values" \notin heap
        BY <1>5 DEF ReadNcols, Read, At, RunHeap, Locals, Objects
    <2>2. Sound({"coltypes"} \cup AllocatedWithColtypes, {}, 0)
        BY <2>1 DEF Sound, Blocks, AllocatedWithColtypes
    <2> QED BY <1>5, <2>2, MemAgrees
<1>6. CASE ReadColtype /\ Mem(AllocatedWithColtypes, {}, 0)
    <2>1. "values" \notin heap BY <1>6 DEF ReadColtype, Read, At, RunHeap, Locals, Objects
    <2>2. Sound(AllocatedWithColtypes, {}, 0) BY <2>1 DEF Sound, Blocks, AllocatedWithColtypes
    <2> QED BY <1>6, <2>2, MemAgrees
<1>7. CASE EndRows /\ Mem({}, RowsFreed, 0)
    <2>1. "values" \in heap /\ "coltypes" \in heap BY <1>7 DEF EndRows, RunHeap, Locals, Objects
    <2>2. Sound({}, RowsFreed, 0) BY <2>1 DEF Sound, Blocks, RowsFreed
    <2> QED BY <1>7, <2>2, MemAgrees
<1>8. CASE NoMem BY <1>8 DEF NoMem, Counters, Agree
<1> QED BY <1>2, <1>3, <1>4, <1>5, <1>6, <1>7, <1>8 DEF AppStepWithMemory

\* The run loop keeps the invariant.
LEMMA RunInv == ASSUME ServerInv, HeapInv, Run PROVE ServerInv' /\ HeapInv'
<1>1. RunHeap /\ Counters /\ Agree /\ heap \subseteq Blocks BY DEF Run, HeapInv, Counters
<1>2. AppNext /\ (pc' = "dead" \/ RunHeap') BY <1>1, RunStep DEF Run
<1>3. Counters' /\ Agree' /\ heap' \subseteq Blocks BY <1>1, RunMemory DEF Run
<1>4. ServerInv' BY <1>2, NextInv DEF Run, Next, Server
<1>5. /\ phase = "run" /\ leak' = leak
      /\ IF pc' = "dead" THEN phase' = "exit" /\ code' = 1 ELSE phase' = phase /\ code' = code
    BY DEF Run
<1> QED BY <1>2, <1>3, <1>4, <1>5 DEF HeapInv, Counters, CleanExit

\* What is freed at the end is what is left, and the counters show it.
LEMMA EndInv == ASSUME ServerInv, HeapInv, End PROVE ServerInv' /\ HeapInv'
<1>1. phase = "run" /\ pc = "quit" /\ RunHeap /\ Counters /\ Agree /\ heap \subseteq Blocks
    BY DEF End, Shutdown, HeapInv, Counters
<1>2. heap \ {"log"} = FreedAtExit BY <1>1 DEF RunHeap, Locals, Objects, FreedAtExit
<1>3. heap' = {} BY <1>2 DEF End, Mem
<1>4. FreedAtExit \cup {"log"} \in SUBSET Blocks BY DEF FreedAtExit, Blocks, Objects
<1>5. Counters' BY <1>1, <1>4, MemCounters DEF End
<1> DEFINE n == Cardinality(FreedAtExit)
<1>6. n \in Nat BY <1>4, FiniteHeap, FS_CardinalityType
<1>7. PICK k \in Int : mallocs - frees - n = k * CounterRange BY <1>1, <1>2 DEF Agree
<1> HIDE DEF n
<1>8. mallocs \in Nat /\ frees \in Nat BY <1>1, CounterRangeAssumption DEF Counters
<1>9. PICK q \in Int : Count(frees, n) = frees + n - q * CounterRange BY <1>6, <1>8, CountIs
<1>10. Count(frees, n) \in 0..(CounterRange - 1) BY <1>6, <1>8, CountIs
<1> DEFINE d == k + q
<1>11. mallocs - Count(frees, n) = d * CounterRange
    BY <1>6, <1>7, <1>8, <1>9, CounterRangeAssumption
<1>12. d \in Int OBVIOUS
<1> HIDE DEF d
<1>13. -CounterRange < mallocs - Count(frees, n) /\ mallocs - Count(frees, n) < CounterRange
    BY <1>1, <1>8, <1>10, CounterRangeAssumption DEF Counters
<1>14. d = 0 BY <1>11, <1>12, <1>13, SmallMultiple, CounterRangeAssumption
<1>15. mallocs = Count(frees, n) BY <1>8, <1>10, <1>11, <1>14, CounterRangeAssumption
<1>16. leak' = FALSE BY <1>15 DEF End, n
<1>17. phase' = "exit" /\ code' = 0 BY DEF End
<1>18. ServerInv' BY ShutdownInv DEF End
<1> QED BY <1>3, <1>5, <1>16, <1>17, <1>18 DEF HeapInv, Counters, CleanExit

\* The invariant holds before main.
LEMMA MainInitInv == MainInit => ServerInv /\ HeapInv
<1> SUFFICES ASSUME MainInit PROVE ServerInv /\ HeapInv OBVIOUS
<1>1. ServerInv BY InitInv DEF MainInit
<1>2. 0 \in 0..(CounterRange - 1) BY CounterRangeAssumption
<1> QED BY <1>1, <1>2 DEF MainInit, Init, AppInit, HeapInv, CleanExit

\* makeLog keeps the invariant.
LEMMA MakeLogInv == ASSUME ServerInv, HeapInv, MakeLog PROVE ServerInv' /\ HeapInv'
<1>1. phase = "start" /\ phase' = "log" /\ heap = {} /\ heap' = {"log"} /\ Counters
    BY DEF MakeLog, HeapInv, Mem, Counters
<1>2. {"log"} \in SUBSET Blocks BY DEF Blocks, Objects
<1>3. Counters' BY <1>1, <1>2, MemCounters DEF MakeLog
<1>4. ServerInv' BY ClientInv DEF MakeLog
<1>5. UNCHANGED <<pc, rbuf, leak, code>> BY DEF MakeLog, vars, appVars
<1> QED BY <1>1, <1>2, <1>3, <1>4, <1>5 DEF HeapInv, Counters, CleanExit

\* So do initMem and makeDb, whether or not the database opens.
LEMMA MakeDbInv == ASSUME ServerInv, HeapInv, MakeDb PROVE ServerInv' /\ HeapInv'
<1>1. /\ phase = "log" /\ heap' = {"log", "db"}
      /\ mallocs' = Count(0, 1) /\ frees' = 0 /\ UNCHANGED leak
    BY DEF MakeDb, HeapInv, CountedAtStart
<1>2. PICK q \in Int : mallocs' = 0 + 1 - q * CounterRange BY <1>1, CountIs
<1>3. Counters' BY <1>1, CountIs, CounterRangeAssumption DEF Counters
<1>4. Cardinality(heap' \ {"log"}) = 1
    <2>1. heap' \ {"log"} = {"db"} BY <1>1
    <2> QED BY <2>1, FS_Singleton
<1>5. mallocs' - frees' - Cardinality(heap' \ {"log"}) = (0 - q) * CounterRange
    BY <1>1, <1>2, <1>4, CounterRangeAssumption
<1>6. Agree' BY <1>5 DEF Agree
<1>7. heap' \subseteq Blocks BY <1>1 DEF Blocks, Objects
<1>8. CASE Abort /\ phase' = "exit" /\ code' = 1
    <2>1. ServerInv' BY <1>8, AbortInv
    <2> QED BY <2>1, <1>1, <1>3, <1>7, <1>8 DEF HeapInv, Counters, CleanExit
<1>9. CASE UNCHANGED vars /\ phase' = "db" /\ code' = code
    <2>1. ServerInv' BY <1>9, ClientInv
    <2>2. UNCHANGED <<pc, rbuf>> BY <1>9 DEF vars, appVars
    <2> QED BY <2>1, <2>2, <1>1, <1>3, <1>6, <1>7, <1>9 DEF HeapInv, Counters, CleanExit
<1> QED BY <1>8, <1>9 DEF MakeDb

\* So do newStdinReader, newStdoutWriter and newApp.
LEMMA MakeAppInv == ASSUME ServerInv, HeapInv, MakeApp PROVE ServerInv' /\ HeapInv'
<1> DEFINE new == {"reader", "writer", "wbuf", "app"}
<1>1. /\ phase = "db" /\ phase' = "run" /\ heap = {"log", "db"} /\ Mem(new, {}, 0)
      /\ pc = "fc" /\ rbuf = <<>> /\ Counters /\ Agree /\ heap \subseteq Blocks
    BY DEF MakeApp, HeapInv, Counters
<1>2. Sound(new, {}, 0) BY <1>1 DEF Sound, Blocks, Objects
<1>3. Counters' /\ Agree' /\ heap' \subseteq Blocks BY <1>1, <1>2, MemAgrees
<1>4. heap' = Objects BY <1>1 DEF Mem, Objects
<1>5. UNCHANGED <<pc, rbuf, leak, code>> BY DEF MakeApp, vars, appVars
<1>6. RunHeap' BY <1>1, <1>4, <1>5 DEF RunHeap, Locals, InIteration, Objects
<1>7. ServerInv' BY ClientInv DEF MakeApp
<1> QED BY <1>1, <1>3, <1>5, <1>6, <1>7 DEF HeapInv, Counters, CleanExit

\* So do the other commands.
LEMMA OtherCommandInv == ASSUME ServerInv, HeapInv, OtherCommand PROVE ServerInv' /\ HeapInv'
<1>1. /\ phase = "start" /\ phase' = "exit" /\ heap = {} /\ pc = "fc" /\ pc' = "closed"
      /\ UNCHANGED <<db, h, heap, mallocs, frees, leak, code>>
    BY DEF OtherCommand, HeapInv
<1>2. ServerInv' BY <1>1, OwnStepInv DEF ServerInv, NoStatementLeft, BetweenRequests, RunsOnlyInRows
<1> QED BY <1>1, <1>2 DEF HeapInv, CleanExit

\* The client does not touch the process.
LEMMA MainClientInv ==
    ASSUME ServerInv, HeapInv, Client \/ Ended \/ UNCHANGED allVars
    PROVE  ServerInv' /\ HeapInv'
<1>1. ServerInv' BY ClientInv DEF Client, Ended, allVars
<1>2. UNCHANGED <<pc, rbuf, h, phase, heap, mallocs, frees, leak, code>>
    BY DEF Client, Ended, allVars, mainVars, vars, appVars, serverVars,
           Send, SendQuit, Start, WriteFrame, ReadFrame, Lose, Die
<1> QED BY <1>1, <1>2 DEF HeapInv, RunHeap, Locals, InIteration, Agree, CleanExit

\* The invariant of the process holds whatever its command line, client, SQLite and I/O do.
THEOREM HeapInvariant == MainSpec => [](ServerInv /\ HeapInv)
<1>1. ServerInv /\ HeapInv /\ [MainNext]_allVars => (ServerInv /\ HeapInv)'
    BY MakeLogInv, MakeDbInv, MakeAppInv, OtherCommandInv, RunInv, EndInv, MainClientInv
    DEF MainNext
<1> QED BY <1>1, MainInitInv, PTL DEF MainSpec

\* At every point of _fcExec and _fcQuery exactly the blocks whose variables are
\* live there are allocated, whichever calls have failed and whatever frames the
\* request came in: each call of memFree is where it has to be, and none is
\* missing.  It says nothing of pointers into a block that has been reallocated.
THEOREM MainHeapIsNeeded == MainSpec => []HeapIsNeeded
<1>1. HeapInv => HeapIsNeeded BY DEF HeapInv, RunHeap, HeapIsNeeded
<1> QED BY <1>1, HeapInvariant, PTL

\* mallocs and frees differ by the number of blocks, even after they have
\* wrapped around, for counters of any width.
THEOREM MainCountersAgree == MainSpec => []CountersAgree
<1>1. Agree => (mallocs - frees - Cardinality(heap \ {"log"})) % CounterRange = 0
    <2> SUFFICES ASSUME NEW k \in Int, NEW d, d = k * CounterRange PROVE d % CounterRange = 0
        BY DEF Agree
    <2>1. 0 \in 0..(CounterRange - 1) /\ k * CounterRange = k * CounterRange + 0
        BY CounterRangeAssumption
    <2> QED BY <2>1, DivModUnique, CounterRangeAssumption
<1>2. HeapInv => CountersAgree BY <1>1 DEF HeapInv, CountersAgree
<1> QED BY <1>2, HeapInvariant, PTL

\* A server that ends by FC_QUIT has freed everything it allocated and reports
\* no leak, however many requests it has served and however they failed.
THEOREM MainCleanExit == MainSpec => []CleanExit
<1>1. HeapInv => CleanExit BY DEF HeapInv
<1> QED BY <1>1, HeapInvariant, PTL

\* The variables of main hold what they may.
THEOREM MainTypes == MainSpec => []MainTypeOK
<1>1. HeapInv => MainTypeOK BY DEF HeapInv, Blocks, MainTypeOK
<1> QED BY <1>1, HeapInvariant, PTL

-----------------------------------------------------------------------------
\* The command line.

\* What main has taken of the command line at each point of its start.
OptsInv ==
    /\ phase \in {"start", "log", "db"} => argv \in Argvs
    /\ phase = "start" => opts = NoOptions
    /\ phase = "log" => opts = makeLog(argv, NoOptions)
    /\ phase = "db" => opts = [makeLog(argv, NoOptions) EXCEPT !.db = dbname(argv)]

\* Nothing but makeLog and makeDb touches the options before the server runs.
LEMMA OptsStep == ASSUME OptsInv, [MainNext]_allVars PROVE OptsInv'
<1>1. CASE MakeLog BY <1>1 DEF MakeLog, OptsInv
<1>2. CASE MakeDb BY <1>2 DEF MakeDb, OptsInv
<1>3. CASE MakeApp \/ OtherCommand \/ End BY <1>3 DEF MakeApp, OtherCommand, End, OptsInv
<1>4. CASE Run BY <1>4 DEF Run, OptsInv
<1>5. CASE Client \/ Ended \/ UNCHANGED allVars
    BY <1>5 DEF Client, Ended, allVars, mainVars, OptsInv
<1> QED BY <1>1, <1>2, <1>3, <1>4, <1>5 DEF MainNext

\* What makeLog and makeDb make of the four options.
OptionsOf(level, logfile, stderr, file) ==
    [NoOptions EXCEPT !.level = level, !.logfile = logfile, !.logstderr = stderr, !.db = file]

\* Each is in its place.
LEMMA OptionsAre ==
    ASSUME NEW level, NEW logfile, NEW stderr \in BOOLEAN, NEW file, NEW o,
           o = OptionsOf(level, logfile, stderr, file)
    PROVE  o.level = level /\ o.logfile = logfile /\ o.logstderr = stderr /\ o.db = file
<1>1. o = [level |-> level, logfile |-> logfile, logstderr |-> stderr, db |-> file]
    BY DEF OptionsOf, NoOptions
<1> QED BY <1>1

\* A buffer holds its argument, or as much of it as fits.
LEMMA KeptHolds ==
    ASSUME NEW arg \in DOMAIN Length, NEW n \in Nat \ {0}
    PROVE  Holds(Kept(arg, n), arg, n)
<1>1. Length[arg] \in Nat BY LengthAssumption
<1> QED BY <1>1 DEF Kept, Holds

\* On a command line as the help text has it a value option stands before its
\* value, once, so that the first argument of its name is the option.
LEMMA OptionAt ==
    ASSUME NEW args \in Seq(DOMAIN Length), WellFormedArgs(args),
           NEW name \in ValueOptions, NEW i \in 1..Len(args), args[i] = name
    PROVE  /\ i \in 3..(Len(args) - 1)
           /\ \A j \in 1..Len(args) : args[j] = name => j = i
<1>1. name \in OptionNames BY DEF OptionNames
<1>2. \A j \in 1..Len(args) : args[j] = name => j >= 3 BY <1>1 DEF WellFormedArgs
<1>3. \A j, k \in 3..Len(args) : args[j] \in OptionNames /\ args[j] = args[k] => j = k
    BY DEF WellFormedArgs
<1>4. args[Len(args)] \notin ValueOptions BY DEF WellFormedArgs, Last
<1>5. Len(args) \in Nat OBVIOUS
<1>6. i \in 3..Len(args) /\ i # Len(args) BY <1>2, <1>4, <1>5
<1>7. \A j \in 1..Len(args) : args[j] = name => j \in 3..Len(args) BY <1>2, <1>5
<1> QED BY <1>1, <1>3, <1>5, <1>6, <1>7

\* getOption finds the argument given for an option, or takes the default.
LEMMA GetsGiven ==
    ASSUME NEW args \in Seq(DOMAIN Length), WellFormedArgs(args),
           NEW name \in ValueOptions, NEW n, NEW default \in DOMAIN Length
    PROVE  /\ getOption(args, name, n, default) = Kept(Given(args, name, default), n)
           /\ Given(args, name, default) \in DOMAIN Length
<1> DEFINE at == {i \in 1..(Len(args) - 1) : args[i] = name}
<1>0. Len(args) \in Nat OBVIOUS
<1>1. CASE \E i \in 3..Len(args) : args[i] = name
    <2>1. PICK i \in 3..Len(args) : args[i] = name BY <1>1
    <2>2. i \in 1..Len(args) BY <1>0, <2>1
    <2>3. i \in 3..(Len(args) - 1) /\ \A j \in 1..Len(args) : args[j] = name => j = i
        BY <2>1, <2>2, OptionAt
    <2>4. at = {i} BY <1>0, <2>1, <2>3
    <2>5. Min({i}) = i BY <2>2 DEF Min
    <2>6. (CHOOSE j \in 3..Len(args) : args[j] = name) = i BY <1>0, <2>1, <2>3
    <2>7. Given(args, name, default) = args[i + 1] BY <1>1, <2>6 DEF Given
    <2>8. getOption(args, name, n, default) = Kept(args[i + 1], n)
        BY <2>4, <2>5 DEF getOption
    <2>9. i + 1 \in 1..Len(args) BY <1>0, <2>3
    <2> QED BY <2>7, <2>8, <2>9
<1>2. CASE ~\E i \in 3..Len(args) : args[i] = name
    <2>1. \A i \in 1..Len(args) : args[i] # name BY <1>0, <1>2, OptionAt
    <2>2. at = {} BY <1>0, <2>1
    <2> QED BY <1>2, <2>2 DEF Given, getOption
<1> QED BY <1>1, <1>2

\* On every command line as the help text has it, of any length and with the
\* options in any order, getOption and makeLog of main.c take from it the
\* database, the log file and the level that it gives, each cut to its buffer,
\* and a level that is none means off.
THEOREM MainOptionsAsGiven == MainSpec => []OptionsAsGiven
<1>1. MainInit => OptsInv BY DEF MainInit, OptsInv
<1>2. OptsInv /\ [MainNext]_allVars => OptsInv' BY OptsStep
<1>3. OptsInv => OptionsAsGiven
    <2> SUFFICES ASSUME OptsInv, phase = "db", WellFormedArgs(argv)
                 PROVE  /\ Holds(opts.db, Given(argv, "-db", ":memory:"), 256)
                        /\ Holds(opts.logfile, Given(argv, "-logfile", NoLogfile), 512)
                        /\ \E kept \in DOMAIN Atoi :
                              /\ Holds(kept, Given(argv, "-loglevel", "0"), 8)
                              /\ opts.level = IF Atoi[kept] \in 0..2 THEN Atoi[kept] ELSE 0
                        /\ opts.logstderr <=> "-logstderr" \in Range(argv)
        BY DEF OptionsAsGiven
    <2>1. argv \in Seq(DOMAIN Length) BY ArgvsAssumption DEF OptsInv
    <2>2. /\ opts.db = dbname(argv)
          /\ opts.logfile = getOption(argv, "-logfile", 512, NoLogfile)
          /\ opts.level = LogLevel(argv)
          /\ opts.logstderr = hasOption(argv, "-logstderr")
        <3> DEFINE le == LogLevel(argv)
                   lf == getOption(argv, "-logfile", 512, NoLogfile)
                   ls == hasOption(argv, "-logstderr")
                   fi == dbname(argv)
        <3>1. ls \in BOOLEAN BY DEF hasOption
        <3>2. opts = OptionsOf(le, lf, ls, fi) BY DEF OptsInv, makeLog, OptionsOf
        <3> HIDE DEF le, lf, ls, fi
        <3>3. opts.level = le /\ opts.logfile = lf /\ opts.logstderr = ls /\ opts.db = fi
            BY ONLY <3>1, <3>2, OptionsAre
        <3> QED BY <3>3 DEF le, lf, ls, fi
    <2>3. /\ "-db" \in ValueOptions /\ "-logfile" \in ValueOptions
          /\ "-loglevel" \in ValueOptions
        BY DEF ValueOptions
    <2>4. NoLogfile \in DOMAIN Length /\ "0" \in DOMAIN Length /\ ":memory:" \in DOMAIN Length
        BY LengthAssumption
    <2> DEFINE file == Given(argv, "-db", ":memory:")
               log == Given(argv, "-logfile", NoLogfile)
               level == Given(argv, "-loglevel", "0")
    <2>5. opts.db = Kept(file, 256) /\ file \in DOMAIN Length
        BY <2>1, <2>2, <2>3, <2>4, GetsGiven DEF dbname
    <2>6. opts.logfile = Kept(log, 512) /\ log \in DOMAIN Length
        BY <2>1, <2>2, <2>3, <2>4, GetsGiven
    <2>7. getOption(argv, "-loglevel", 8, "0") = Kept(level, 8) /\ level \in DOMAIN Length
        BY <2>1, <2>3, <2>4, GetsGiven
    <2> HIDE DEF file, log, level
    <2>8. Holds(opts.db, file, 256) /\ Holds(opts.logfile, log, 512) /\ Holds(Kept(level, 8), level, 8)
        BY <2>5, <2>6, <2>7, KeptHolds
    <2>9. Kept(level, 8) \in DOMAIN Atoi /\ Atoi[Kept(level, 8)] \in Int BY <2>7, AtoiAssumption
    <2>10. opts.level = IF Atoi[Kept(level, 8)] \in 0..2 THEN Atoi[Kept(level, 8)] ELSE 0
        BY <2>2, <2>7, <2>9 DEF LogLevel, LevelOff, LevelDebug
    <2>11. opts.logstderr <=> "-logstderr" \in Range(argv)
        BY <2>1, <2>2 DEF hasOption, Range
    <2> QED BY <2>8, <2>9, <2>10, <2>11 DEF file, log, level
<1> QED BY <1>1, <1>2, <1>3, PTL DEF MainSpec
=============================================================================
