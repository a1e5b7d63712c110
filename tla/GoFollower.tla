----------------------------- MODULE GoFollower -----------------------------
(***************************************************************************)
(* operationEventFollower of the Go client (go/v1/operation_helpers.go)    *)
(* over eventStream (go/v1/stream.go).  It differs from the Python loop in *)
(* that the cursor is taken from the stream's parser after every call of   *)
(* Next, a retained log that ends without its completion is read again,    *)
(* and the caller's context takes the place of the deadline.               *)
(***************************************************************************)
EXTENDS OperationLog

CONSTANTS
    Starts,     \* LastEventID of the options; 0 stands for nil
    MaxDrains,  \* retry.MaxAttempts (0 for unlimited), 3 without a policy
    DrainBound  \* bound on the reads of an unlimited drain

VARIABLES
    start,
    idle,       \* IdleTimeout is not 0
    pc,         \* "open" a stream, "reading" it, "recover", "pause", "done"
    lastID,
    parsed,     \* the stream's lastID: the last frame it parsed
    attemptID,  \* lastID when the stream was opened
    eof,        \* the stream ended with io.EOF
    draining,
    drainAttempts,
    ctxDone,
    delivered,  \* history: the last event the caller got
    outcome

clientVars == <<start, idle, pc, lastID, parsed, attemptID, eof, draining, drainAttempts, ctxDone, delivered, outcome>>
vars == <<logVars, clientVars>>

Init ==
    /\ LogInit
    /\ start \in Starts /\ idle \in BOOLEAN
    /\ pc = "open"
    /\ lastID = start /\ parsed = start /\ attemptID = start
    /\ eof = FALSE /\ draining = FALSE /\ ctxDone = FALSE
    /\ drainAttempts = 0
    /\ delivered = start /\ outcome = "none"

-----------------------------------------------------------------------------

Finish(how) == pc' = "done" /\ outcome' = how

\* Every loop of Next looks at the context, a read is cancelled by it, and so
\* are the probe and the wait.
ContextEnds ==
    /\ ctxDone /\ pc # "done"
    /\ Finish("timeout")
    /\ Closed /\ UNCHANGED <<faults, start, idle, lastID, parsed, attemptID, eof, draining, drainAttempts, ctxDone, delivered>>

\* The LastEventID a stream is opened with.
Cursor == lastID

OpenStream ==
    /\ pc = "open" /\ ~ ctxDone
    /\ drainAttempts < DrainBound
    /\ attemptID' = lastID
    /\ drainAttempts' = IF draining THEN drainAttempts + 1 ELSE drainAttempts
    /\ \/ pc' = "reading" /\ Opened(Cursor) /\ parsed' = Cursor
       \/ pc' = "recover" /\ Closed /\ Fault /\ UNCHANGED parsed
    /\ eof' = FALSE
    /\ UNCHANGED <<start, idle, lastID, draining, ctxDone, delivered, outcome>>

\* A status that neither the policy nor the follower retries.
Refused ==
    /\ pc = "open" \/ (pc = "recover" /\ ~ draining)
    /\ Finish("refused")
    /\ UNCHANGED <<logVars, start, idle, lastID, parsed, attemptID, eof, draining, drainAttempts, ctxDone, delivered>>

\* A frame without a payload: parsed, and kept from the caller.
SkipBlank ==
    /\ pc = "reading" /\ parsed < sent /\ parsed + 1 \in Blank
    /\ parsed' = parsed + 1
    /\ UNCHANGED <<logVars, start, idle, pc, lastID, attemptID, eof, draining, drainAttempts, ctxDone, delivered, outcome>>

Deliver ==
    /\ pc = "reading" /\ parsed < sent /\ parsed + 1 \notin Blank
    /\ parsed' = parsed + 1 /\ lastID' = parsed + 1 /\ delivered' = parsed + 1
    /\ IF parsed + 1 = N
       THEN Finish("returned") /\ Closed /\ UNCHANGED faults
       ELSE UNCHANGED <<logVars, pc, outcome>>
    /\ UNCHANGED <<start, idle, attemptID, eof, draining, drainAttempts, ctxDone>>

\* Seeded fault: the cursor is moved behind what the connection received.
CapturedAhead == sent

\* captureLastEventID.
Captured == parsed

\* Next of the stream returns an error or io.EOF and the stream is closed.
StreamEnds ==
    /\ pc = "reading"
    /\ \/ conn = "ended" /\ parsed = sent /\ eof' = TRUE /\ UNCHANGED faults
       \/ eof' = FALSE /\ Fault
       \/ conn = "hung" /\ idle /\ eof' = FALSE /\ UNCHANGED faults
    /\ lastID' = Captured
    /\ pc' = "recover"
    /\ Closed /\ UNCHANGED <<start, idle, parsed, attemptID, draining, drainAttempts, ctxDone, delivered, outcome>>

\* allowDrainEOF.
MayEndAtEof == eof /\ start # 0

DrainsLeft == MaxDrains = 0 \/ drainAttempts < MaxDrains

\* recoverStream while draining.
RecoverDrain ==
    /\ pc = "recover" /\ draining
    /\ \/ MayEndAtEof /\ Finish("returned")
       \/ ~ MayEndAtEof /\ ~ DrainsLeft /\ Finish("raised")
       \/ ~ MayEndAtEof /\ DrainsLeft /\ pc' = "pause" /\ UNCHANGED outcome
    /\ UNCHANGED <<logVars, start, idle, lastID, parsed, attemptID, eof, draining, drainAttempts, ctxDone, delivered>>

\* recoverStream while following: OperationTerminal, whose transient failures
\* count as not terminal.
RecoverFollow ==
    /\ pc = "recover" /\ ~ draining
    /\ \/ draining' = finished /\ UNCHANGED faults
       \/ draining' = FALSE /\ Fault
    /\ pc' = IF ~ draining' /\ lastID = attemptID THEN "pause" ELSE "open"
    /\ UNCHANGED <<produced, finished, early, conn, sent>>
    /\ UNCHANGED <<start, idle, lastID, parsed, attemptID, eof, drainAttempts, ctxDone, delivered, outcome>>

WaitOver ==
    /\ pc = "pause"
    /\ pc' = "open"
    /\ UNCHANGED <<logVars, start, idle, lastID, parsed, attemptID, eof, draining, drainAttempts, ctxDone, delivered, outcome>>

CallerCancels ==
    /\ ~ ctxDone
    /\ ctxDone' = TRUE
    /\ UNCHANGED <<logVars, start, idle, pc, lastID, parsed, attemptID, eof, draining, drainAttempts, delivered, outcome>>

Server ==
    /\ Produce \/ FinishOperation \/ SendEvent \/ EndStream(~ draining)
    /\ UNCHANGED clientVars

ServerFault == StreamFault(~ draining) /\ UNCHANGED clientVars

Client ==
    \/ ContextEnds \/ OpenStream \/ Refused \/ SkipBlank \/ Deliver \/ StreamEnds
    \/ RecoverDrain \/ RecoverFollow \/ WaitOver
=============================================================================
