-------------------------------- MODULE Main --------------------------------
(***************************************************************************)
(* One server process from its command line to its exit: main of           *)
(* src/lib/main.c around the App of Sqinn, with the memory that            *)
(* src/lib/utl.c allocates and counts for it.                              *)
(*                                                                         *)
(* A block of memory is named after the variable that points to it.  An    *)
(* action of App allocates and frees what the lines it stands for do; a    *)
(* hexdump that is freed where it was made is only counted.                *)
(***************************************************************************)
EXTENDS Sqinn, Options

CONSTANTS
    Argvs,        \* command lines
    Unopenable,   \* what sqlite3_open fails to open
    CounterRange  \* mallocs and frees wrap around: 2^32

ASSUME CounterRangeAssumption == CounterRange \in Nat \ {0}

ASSUME ArgvsAssumption == \A args \in Argvs : args \in Seq(DOMAIN Length)

VARIABLES
    phase,   \* of main: "start", "log", "db", "run", "exit"
    argv,    \* until the options have been read
    opts,
    heap,    \* the blocks that are allocated
    mallocs, frees,
    leak,    \* "found memory leaks" has been logged
    code     \* the exit code

mainVars == <<phase, argv, opts, heap, mallocs, frees, leak, code>>
allVars == <<vars, mainVars>>

MainInit ==
    /\ Init
    /\ phase = "start" /\ argv \in Argvs /\ opts = NoOptions
    /\ heap = {} /\ mallocs = 0 /\ frees = 0
    /\ leak = FALSE /\ code = 0

-----------------------------------------------------------------------------
\* Memory.

CountForever(counter, n) == counter + n   \* as if an int had no end

Count(counter, n) == (counter + n) % CounterRange

\* The blocks new are allocated, then the blocks gone freed; dumps more are
\* both.
Mem(new, gone, dumps) ==
    /\ heap' = (heap \cup new) \ gone
    /\ mallocs' = Count(mallocs, Cardinality(new) + dumps)
    /\ frees' = Count(frees, Cardinality(gone) + dumps)

NoMem == UNCHANGED <<heap, mallocs, frees>>

\* A frame is dumped when it is read and when it is written.
Dump == IF opts.level >= LevelDebug THEN 1 ELSE 0

-----------------------------------------------------------------------------
\* Starting.

\* memAlloc in newLog is counted, but initMem forgets it.
MakeLog ==
    /\ phase = "start" /\ hasCommand(argv, "run")
    /\ phase' = "log"
    /\ opts' = makeLog(argv, opts)
    /\ Mem({"log"}, {}, 0)
    /\ UNCHANGED <<vars, argv, leak, code>>

CountedWithLog == mallocs   \* the bug of calling initMem before makeLog

\* initMem.
CountedAtStart == 0

\* newDb fails an ASSERT if the database does not open.
MakeDb ==
    /\ phase = "log"
    /\ opts' = [opts EXCEPT !.db = dbname(argv)]
    /\ heap' = heap \cup {"db"} /\ mallocs' = Count(CountedAtStart, 1) /\ frees' = 0
    /\ IF opts'.db \in Unopenable
       THEN /\ phase' = "exit" /\ code' = 1
            /\ Abort /\ UNCHANGED clientVars
       ELSE /\ phase' = "db"
            /\ UNCHANGED <<vars, code>>
    /\ UNCHANGED <<argv, leak>>

\* newStdinReader, newStdoutWriter and newApp.
MakeApp ==
    /\ phase = "db"
    /\ phase' = "run" /\ argv' = <<>>
    /\ Mem({"reader", "writer", "wbuf", "app"}, {}, 0)
    /\ UNCHANGED <<vars, opts, leak, code>>

\* The other commands print something, or test the program, and end.
OtherCommand ==
    /\ phase = "start" /\ ~hasCommand(argv, "run")
    /\ phase' = "exit" /\ pc' = "closed" /\ argv' = <<>>
    /\ UNCHANGED <<db, h, rbuf, wbuf, stdin, stdout, peer, clientVars>>
    /\ UNCHANGED <<opts, heap, mallocs, frees, leak, code>>

-----------------------------------------------------------------------------
\* The run loop.

FreedWithParams == IF pc' = "reply" THEN {"params"} ELSE {}

AllocatedWithColtypes == IF pc' = "step" THEN {"values"} ELSE {}

RowsFreedIfOk == IF h.ok THEN {"values", "coltypes"} ELSE {"coltypes"}  \* a forgotten free

RowsFreed == {"values", "coltypes"}

\* The buffer is allocated for the first frame and reallocated, uncounted, for
\* the others.
AppStepWithMemory ==
    \/ readNextFrameIfNeeded /\ Mem({"rbuf"} \ heap, {}, Dump)
    \/ ReadNparams /\ Mem({"params"}, FreedWithParams, 0)
    \/ BindExec /\ Mem({}, FreedWithParams, 0)
    \/ BindQuery /\ Mem({}, {"params"}, 0)
    \/ ReadNcols /\ Mem({"coltypes"} \cup AllocatedWithColtypes, {}, 0)
    \/ ReadColtype /\ Mem(AllocatedWithColtypes, {}, 0)
    \/ EndRows /\ Mem({}, RowsFreed, 0)
    \/ MarkFrame /\ Mem({}, {}, IF FlushDue THEN Dump ELSE 0)
    \/ AppFlush /\ Mem({}, {}, Dump)
    \/ /\ \/ EndOfInput \/ ShortFrame \/ BrokenPipe \/ InvalidByte \/ BadCount
          \/ AppStep \/ ReadSql \/ ReadNiter \/ ReadParamType \/ ReadParamValue
          \/ FetchRow \/ Reply
       /\ NoMem

\* exit(1) ends the process wherever it is.
Run ==
    /\ phase = "run"
    /\ AppStepWithMemory
    /\ IF pc' = "dead" THEN phase' = "exit" /\ code' = 1 ELSE UNCHANGED <<phase, code>>
    /\ UNCHANGED <<clientVars, argv, opts, leak>>

AtExitNoBuffer == {"app", "wbuf", "writer", "reader", "db"}  \* the bug of a Reader that owns none

\* App_free, Writer_free, Reader_free, which frees its buffer if there is one,
\* and Db_free.
FreedAtExit == {"app", "wbuf", "writer", "reader", "db"} \cup (heap \cap {"rbuf"})

\* The leak check comes before Log_free.
End ==
    /\ phase = "run"
    /\ Shutdown /\ UNCHANGED clientVars
    /\ Mem({}, FreedAtExit \cup {"log"}, 0)
    /\ leak' = (mallocs # Count(frees, Cardinality(FreedAtExit)))
    /\ phase' = "exit" /\ code' = 0
    /\ UNCHANGED <<argv, opts>>

Client ==
    /\ phase \in {"run", "exit"}
    /\ Send \/ SendQuit \/ WriteFrame \/ ReadFrame \/ Lose \/ Die
    /\ UNCHANGED mainVars

Ended == phase = "exit" /\ Over /\ UNCHANGED allVars

MainNext == MakeLog \/ MakeDb \/ MakeApp \/ OtherCommand \/ Run \/ End \/ Client \/ Ended

MainSpec == MainInit /\ [][MainNext]_allVars

-----------------------------------------------------------------------------
\* Properties.

Objects == {"log", "db", "reader", "writer", "wbuf", "app"}

\* What the handlers' code between two points uses.
Locals ==
    CASE pc \in {"ptype", "pvalue", "bind"} -> {"params"}
      [] pc = "ctype" -> {"coltypes"}
      [] pc \in {"step", "mark"} -> {"coltypes", "values"}
      [] OTHER -> {}

\* While the server runs, exactly the blocks whose variables are live at this
\* point of the code are allocated: on no path through a handler, whatever
\* fails, has memFree been called too early or left out.  Old pointers into
\* rbuf, which the Reader reallocates, are not its subject: OnlySentRows is.
HeapIsNeeded ==
    phase = "run" =>
        /\ heap \ {"rbuf"} = Objects \cup Locals
        /\ rbuf # <<>> => "rbuf" \in heap

\* The counters differ by the number of blocks allocated since initMem, even
\* after they have wrapped around.
CountersAgree ==
    phase \in {"db", "run"} =>
        (mallocs - frees - Cardinality(heap \ {"log"})) % CounterRange = 0

\* A server that ends as it should has freed everything, and reports no leak.
CleanExit == phase = "exit" /\ code = 0 => heap = {} /\ ~leak

MainTypeOK ==
    /\ phase \in {"start", "log", "db", "run", "exit"}
    /\ heap \subseteq Objects \cup {"rbuf", "params", "coltypes", "values"}
    /\ mallocs \in 0..(CounterRange - 1) /\ frees \in 0..(CounterRange - 1)
    /\ leak \in BOOLEAN /\ code \in {0, 1}

-----------------------------------------------------------------------------
\* The command line as the help text has it: "sqinn <command> [options...]",
\* where all options but -logstderr are followed by a value.

ValueOptions == {"-db", "-loglevel", "-logfile"}
OptionNames == ValueOptions \cup {"-logstderr"}

\* Position i holds an option; otherwise it holds the value of one.
HoldsOption(args) ==
    LET at[i \in 3..Len(args)] == i = 3 \/ ~(at[i - 1] /\ args[i - 1] \in ValueOptions)
    IN at

WellFormedArgs(args) ==
    /\ Len(args) >= 2
    /\ \A i \in 1..Len(args) :
          args[i] \in OptionNames <=> i >= 3 /\ HoldsOption(args)[i]
    /\ \A i, j \in 3..Len(args) :
          args[i] \in OptionNames /\ args[i] = args[j] => i = j
    /\ Last(args) \notin ValueOptions

Given(args, name, default) ==
    IF \E i \in 3..Len(args) : args[i] = name
    THEN args[(CHOOSE i \in 3..Len(args) : args[i] = name) + 1] ELSE default

\* What a buffer of n bytes holds is the argument, or as much of it as leaves
\* room for the terminating zero.
Holds(kept, arg, n) ==
    /\ kept.s = arg
    /\ kept.len = Length[arg] \/ (kept.len < Length[arg] /\ kept.len = n - 1)
    /\ kept.len < n

\* Options in any order mean what they say, and a level that is none means off.
OptionsAsGiven ==
    phase = "db" /\ WellFormedArgs(argv) =>
        /\ Holds(opts.db, Given(argv, "-db", ":memory:"), 256)
        /\ Holds(opts.logfile, Given(argv, "-logfile", NoLogfile), 512)
        /\ \E kept \in DOMAIN Atoi :
              /\ Holds(kept, Given(argv, "-loglevel", "0"), 8)
              /\ opts.level = IF Atoi[kept] \in 0..2 THEN Atoi[kept] ELSE 0
        /\ opts.logstderr <=> "-logstderr" \in Range(argv)
=============================================================================
