------------------------------ MODULE Service ------------------------------
(***************************************************************************)
(* What Sqinn promises of a request, without frames, buffers, statements   *)
(* or a client: a task is a sequence of operations, which are executed one *)
(* after another, each wholly or not at all, up to the first that fails;   *)
(* then the request is answered, and the answer is ok only if all of them  *)
(* have been executed.  The data changes in no other way, except that what *)
(* is not committed is lost when the server ends.                          *)
(***************************************************************************)
EXTENDS Sequences

CONSTANTS
    Tasks,         \* the sequences of operations that may be asked for
    Effect(_, _),  \* the data after an operation that succeeds
    Undone(_),     \* the data after the open transaction is rolled back
    InitData

VARIABLES
    data,
    phase,   \* "idle", "busy", "answered" or "down"
    rest,    \* operations of the task still to be executed
    failed,  \* one has failed
    said     \* the answer that is on its way

vars == <<data, phase, rest, failed, said>>

Init ==
    /\ data = InitData /\ phase = "idle"
    /\ rest = <<>> /\ failed = FALSE /\ said = "none"

Take ==
    /\ phase = "idle" /\ phase' = "busy"
    /\ rest' \in Tasks
    /\ UNCHANGED <<data, failed, said>>

Execute ==
    /\ phase = "busy" /\ rest # <<>>
    /\ UNCHANGED <<phase, failed, said>>
    /\ rest' = Tail(rest)
    /\ data' = Effect(data, Head(rest))

\* The operation has no effect, unless its failure ends the transaction.
Fail ==
    /\ phase = "busy" /\ ~failed
    /\ failed' = TRUE /\ rest' = <<>>
    /\ data' \in {data, Undone(data)}
    /\ UNCHANGED <<phase, said>>

Answer ==
    /\ phase = "busy" /\ rest = <<>>
    /\ phase' = "answered"
    /\ said' = IF failed THEN "error" ELSE "ok"
    /\ UNCHANGED <<data, rest, failed>>

\* A request to end the session is answered at once.
AnswerQuit ==
    /\ phase = "idle" /\ phase' = "answered" /\ said' = "ok"
    /\ UNCHANGED <<data, rest, failed>>

Deliver ==
    /\ phase = "answered" /\ phase' = "idle"
    /\ failed' = FALSE /\ said' = "none"
    /\ UNCHANGED <<data, rest>>

Stop ==
    /\ phase # "down" /\ phase' = "down"
    /\ data' = Undone(data)
    /\ rest' = <<>> /\ failed' = FALSE /\ said' = "none"

Restart ==
    /\ phase = "down" /\ phase' = "idle"
    /\ UNCHANGED <<data, rest, failed, said>>

Next ==
    \/ Take \/ Execute \/ Fail \/ Answer \/ AnswerQuit \/ Deliver \/ Stop \/ Restart

Spec == Init /\ [][Next]_vars
=============================================================================
