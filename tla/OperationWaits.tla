---------------------------- MODULE OperationWaits ---------------------------
(***************************************************************************)
(* The wait of the Python and JavaScript clients and the wait of the Go    *)
(* client over one service, held to the same promises.                     *)
(*                                                                         *)
(* The two machines share what they both keep: the cursor, the position of *)
(* the stream, the drain, and the limit of the caller, which is a deadline *)
(* for the first and a context for the second.                             *)
(***************************************************************************)
EXTENDS WaitOperation

CONSTANT DrainBound     \* bound on the reads of an unlimited drain in Go

ASSUME DrainAssumption == DrainBound \in Nat

VARIABLES
    client,         \* "python" or "go"
    eof,            \* Go: the stream ended with io.EOF
    readTerminal    \* Go: the last status read was terminal

goOnly == <<eof, readTerminal>>
bothVars == <<allVars, client, goOnly>>

Go == INSTANCE GoWait WITH
          lastID <- last, parsed <- seen, attemptID <- before,
          draining <- terminal, drainAttempts <- drains, ctxDone <- late,
          terminal <- readTerminal

BothInit ==
    /\ eof = FALSE /\ readTerminal = FALSE
    /\ \/ client = "python" /\ WaitInit
       \/ client = "go" /\ Go!WaitInit /\ result = "none"

InPython(A) == client = "python" /\ A /\ UNCHANGED <<client, goOnly>>
InGo(A) == client = "go" /\ A /\ UNCHANGED <<client, result>>

BothNext == InPython(WaitNext) \/ InGo(Go!WaitNext)

\* Either caller keeps running; the service may stop at any point.
BothSpec ==
    /\ BothInit /\ [][BothNext]_bothVars
    /\ WF_bothVars(InPython(Caller)) /\ WF_bothVars(InGo(Go!Caller))
=============================================================================
