---------------------------- MODULE OperationLog ----------------------------
(***************************************************************************)
(* The service as the event followers see it: the event log of one         *)
(* operation, its status, and one event-stream response.  None of it is    *)
(* in the repository: it is what operations.iter_operation_events and      *)
(* get_operation_status say of the endpoints.                              *)
(***************************************************************************)
EXTENDS Integers

CONSTANTS
    N,          \* events of the operation; the last is its completion
    Blank,      \* ids of frames without a payload
    MaxFaults   \* bound on what goes wrong

ASSUME LogAssumption ==
    /\ N \in Nat \ {0} /\ Blank \subseteq 1 .. (N - 1)
    /\ MaxFaults \in Nat

VARIABLES
    produced,   \* events in the log
    finished,   \* the status is terminal
    early,      \* history: it was so before the log was complete
    conn,       \* "none", or a response: "open", "hung" (nothing arrives any
                \* more) or "ended" (its last byte is sent)
    sent,       \* the last event sent on it
    faults      \* bound

logVars == <<produced, finished, early, conn, sent, faults>>

LogTypeOK ==
    /\ produced \in 0 .. N
    /\ finished \in BOOLEAN /\ early \in BOOLEAN
    /\ conn \in {"none", "open", "hung", "ended"}
    /\ sent \in 0 .. N
    /\ faults \in 0 .. MaxFaults

LogInit ==
    /\ produced = 0 /\ finished = FALSE /\ early = FALSE
    /\ conn = "none" /\ sent = 0
    /\ faults = 0

Fault == faults < MaxFaults /\ faults' = faults + 1

Produce ==
    /\ produced < N
    /\ produced' = produced + 1
    /\ UNCHANGED <<finished, early, conn, sent, faults>>

\* Nothing in the client's sources says that the log is complete by then.
FinishOperation ==
    /\ ~ finished
    /\ finished' = TRUE
    /\ early' = (produced # N)
    /\ UNCHANGED <<produced, conn, sent, faults>>

SendEvent ==
    /\ conn = "open" /\ sent < produced
    /\ sent' = sent + 1
    /\ UNCHANGED <<produced, finished, early, conn, faults>>

\* A retained read ends with the log's last event; following, only the log of
\* an operation that is over does.
EndStream(follow) ==
    /\ conn = "open" /\ sent = produced
    /\ follow => finished
    /\ conn' = "ended"
    /\ UNCHANGED <<produced, finished, early, sent, faults>>

\* A followed stream ends early, or the connection goes silent.
StreamFault(follow) ==
    /\ conn = "open"
    /\ Fault
    /\ conn' \in {"hung"} \cup (IF follow THEN {"ended"} ELSE {})
    /\ UNCHANGED <<produced, finished, early, sent>>

\* The response to a request with this Last-Event-Id.
Opened(cursor) ==
    /\ conn' = "open" /\ sent' = cursor
    /\ UNCHANGED <<produced, finished, early, faults>>

Closed == conn' = "none" /\ UNCHANGED <<produced, finished, early, sent>>
=============================================================================
