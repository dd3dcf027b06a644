------------------------------ MODULE Options ------------------------------
(***************************************************************************)
(* The command line as src/lib/main.c takes it apart.  An argument is a    *)
(* string with a name; what strncpy leaves of it in a buffer is a record   *)
(* of the string and the number of its characters that were kept.          *)
(* argv[1] is the program, as TLA+ counts from 1.                          *)
(***************************************************************************)
EXTENDS Integers, Sequences, FiniteSetsExt

NoLogfile == ""

CONSTANTS
    Length,  \* the length of each argument, and of the defaults
    Atoi     \* atoi of what is kept of an argument

ASSUME LengthAssumption ==
    /\ {NoLogfile, "0", ":memory:"} \subseteq DOMAIN Length
    /\ \A a \in DOMAIN Length : Length[a] \in Nat

hasCommand(argv, name) == Len(argv) >= 2 /\ argv[2] = name

hasOption(argv, name) == \E i \in DOMAIN argv : argv[i] = name

Kept(arg, n) == [s |-> arg, len |-> IF Length[arg] < n THEN Length[arg] ELSE n - 1]

\* atoi makes an int of any string; -loglevel is copied to a buffer of 8 bytes.
ASSUME AtoiAssumption ==
    \A a \in DOMAIN Length : Kept(a, 8) \in DOMAIN Atoi /\ Atoi[Kept(a, 8)] \in Int

getOptionInPairs(argv, name, n, defaultValue) ==  \* the bug of skipping two at a time
    LET at == {i \in 1..(Len(argv) - 1) : i % 2 = 1 /\ argv[i] = name}
    IN IF at = {} THEN Kept(defaultValue, n) ELSE Kept(argv[Min(at) + 1], n)

\* The argument after the first one of that name, whatever either of them was
\* meant as; an option at the very end is not seen.  n is sizeof(value).
getOption(argv, name, n, defaultValue) ==
    LET at == {i \in 1..(Len(argv) - 1) : argv[i] = name}
    IN IF at = {} THEN Kept(defaultValue, n) ELSE Kept(argv[Min(at) + 1], n)

LevelOff == 0
LevelDebug == 2

LogLevel(argv) ==
    LET level == Atoi[getOption(argv, "-loglevel", 8, "0")]
    IN IF level < LevelOff \/ level > LevelDebug THEN LevelOff ELSE level

NoOptions == [level |-> LevelOff, logfile |-> Kept(NoLogfile, 512), logstderr |-> FALSE,
              db |-> Kept(":memory:", 256)]

makeLog(argv, opts) ==
    [opts EXCEPT !.level = LogLevel(argv),
                 !.logfile = getOption(argv, "-logfile", 512, NoLogfile),
                 !.logstderr = hasOption(argv, "-logstderr")]

dbname(argv) == getOption(argv, "-db", 256, ":memory:")
=============================================================================
