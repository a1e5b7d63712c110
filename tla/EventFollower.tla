---------------------------- MODULE EventFollower ---------------------------
(***************************************************************************)
(* follow_operation_events of the Python clients                           *)
(* (client/contree_client/base.py) over iter_operation_events: read a      *)
(* stream, on any interruption ask for the operation's status, reconnect   *)
(* behind the last event, and once the status is terminal drain the        *)
(* retained log.  followOperationEvents of the JavaScript client is the    *)
(* same loop.                                                              *)
(***************************************************************************)
EXTENDS OperationLog

CONSTANTS
    Starts,     \* explicit last_event_id of the caller; 0 stands for none
    MaxDrains   \* policy.max_attempts (0 for None), 3 without a policy

ASSUME FollowerAssumption ==
    /\ Starts \subseteq 0 .. N /\ MaxDrains \in Nat

VARIABLES
    start,
    idle,       \* idle_timeout is not 0
    pc,         \* "head" of the loop, "opening", "reading", "probe", "pause",
                \* "backoff", "done"
    last,       \* last_id
    seen,       \* last_seen of the stream being read
    before,     \* events_before
    terminal,
    drains,     \* drain_attempts
    late,       \* the deadline has elapsed
    delivered,  \* history: the last event the caller got
    outcome

clientVars == <<start, idle, pc, last, seen, before, terminal, drains, late, delivered, outcome>>
vars == <<logVars, clientVars>>

TypeOK ==
    /\ LogTypeOK
    /\ start \in Starts /\ idle \in BOOLEAN
    /\ pc \in {"head", "opening", "reading", "probe", "pause", "backoff", "done"}
    /\ last \in 0 .. N /\ seen \in 0 .. N /\ before \in 0 .. N
    /\ terminal \in BOOLEAN
    /\ drains \in Nat
    /\ late \in BOOLEAN
    /\ delivered \in 0 .. N
    /\ outcome \in {"none", "returned", "raised", "refused", "timeout"}

Init ==
    /\ LogInit
    /\ start \in Starts /\ idle \in BOOLEAN
    /\ pc = "head"
    /\ last = start /\ seen = start /\ before = start
    /\ terminal = FALSE /\ drains = 0
    /\ late = FALSE
    /\ delivered = start /\ outcome = "none"

-----------------------------------------------------------------------------

Finish(how) == pc' = "done" /\ outcome' = how

\* Seeded fault: only the loop head looks at the deadline.
ExpiresAtHead ==
    /\ late /\ pc = "head"
    /\ Finish("timeout")
    /\ Closed /\ UNCHANGED <<faults, start, idle, last, seen, before, terminal, drains, late, delivered>>

\* check_deadline, and the timeouts of the transport, which never exceed what
\* is left of the deadline.
Expires ==
    /\ late /\ pc \in {"head", "opening", "reading", "probe"}
    /\ Finish("timeout")
    /\ Closed /\ UNCHANGED <<faults, start, idle, last, seen, before, terminal, drains, late, delivered>>

Head ==
    /\ pc = "head" /\ ~ late
    /\ before' = last
    /\ drains' = IF terminal THEN drains + 1 ELSE drains
    /\ pc' = "opening"
    /\ UNCHANGED <<logVars, start, idle, last, seen, terminal, late, delivered, outcome>>

\* The Last-Event-Id a stream is opened with.
Cursor == last

Open ==
    /\ pc = "opening"
    /\ Opened(Cursor)
    /\ seen' = Cursor
    /\ pc' = "reading"
    /\ UNCHANGED <<start, idle, last, before, terminal, drains, late, delivered, outcome>>

DrainsLeft == MaxDrains = 0 \/ drains < MaxDrains

\* What a retryable error of the stream leads to.
AfterError ==
    \/ terminal /\ ~ DrainsLeft /\ Finish("raised")
    \/ terminal /\ DrainsLeft /\ pc' = "backoff" /\ UNCHANGED outcome
    \/ ~ terminal /\ pc' = "probe" /\ UNCHANGED outcome

\* Seeded fault: the cursor is moved behind what was received, not yielded.
StreamBreaksAhead ==
    /\ pc = "reading" /\ Fault
    /\ last' = sent
    /\ AfterError
    /\ Closed /\ UNCHANGED <<start, idle, seen, before, terminal, drains, late, delivered>>

\* The stream cannot be opened, or breaks, or says nothing for idle_timeout;
\* frames on their way are lost.
StreamBreaks ==
    /\ pc \in {"opening", "reading"}
    /\ \/ Fault
       \/ pc = "reading" /\ conn = "hung" /\ idle /\ UNCHANGED faults
    /\ AfterError
    /\ Closed /\ UNCHANGED <<start, idle, last, seen, before, terminal, drains, late, delivered>>

\* An sse_error frame closes the stream; its last_event_id is the cursor.
SseError ==
    /\ pc = "reading" /\ conn = "open" /\ seen = sent
    /\ Fault
    /\ last' = seen
    /\ AfterError
    /\ Closed /\ UNCHANGED <<start, idle, seen, before, terminal, drains, late, delivered>>

\* A status the policy does not retry.
Refused ==
    /\ pc \in {"opening", "probe"}
    /\ Finish("refused")
    /\ Closed /\ UNCHANGED <<faults, start, idle, last, seen, before, terminal, drains, late, delivered>>

SkipBlank ==
    /\ pc = "reading" /\ seen < sent /\ seen + 1 \in Blank
    /\ seen' = seen + 1
    /\ UNCHANGED <<logVars, start, idle, pc, last, before, terminal, drains, late, delivered, outcome>>

\* An event is yielded; completion ends the iteration and closes the stream.
Deliver ==
    /\ pc = "reading" /\ seen < sent /\ seen + 1 \notin Blank
    /\ seen' = seen + 1 /\ last' = seen + 1 /\ delivered' = seen + 1
    /\ IF seen + 1 = N
       THEN Finish("returned") /\ Closed /\ UNCHANGED faults
       ELSE UNCHANGED <<logVars, pc, outcome>>
    /\ UNCHANGED <<start, idle, before, terminal, drains, late>>

\* Only a read the caller positioned may end without the completion event.
MayEndAtEof == start # 0

EndOfStream ==
    /\ pc = "reading" /\ conn = "ended" /\ seen = sent
    /\ \/ terminal /\ MayEndAtEof /\ Finish("returned")
       \/ terminal /\ ~ MayEndAtEof /\ Finish("raised")
       \/ ~ terminal /\ pc' = "probe" /\ UNCHANGED outcome
    /\ Closed /\ UNCHANGED <<faults, start, idle, last, seen, before, terminal, drains, late, delivered>>

\* operation_terminal: a probe that fails counts as not terminal.  Without
\* progress the loop pauses.
Probe ==
    /\ pc = "probe"
    /\ \/ terminal' = finished /\ UNCHANGED faults
       \/ terminal' = FALSE /\ Fault
    /\ pc' = IF ~ terminal' /\ last = before THEN "pause" ELSE "head"
    /\ UNCHANGED <<produced, finished, early, conn, sent>>
    /\ UNCHANGED <<start, idle, last, seen, before, drains, late, delivered, outcome>>

Resume ==
    /\ pc \in {"pause", "backoff"}
    /\ pc' = "head"
    /\ UNCHANGED <<logVars, start, idle, last, seen, before, terminal, drains, late, delivered, outcome>>

\* The caller may have given a timeout.
DeadlineElapses ==
    /\ ~ late /\ late' = TRUE
    /\ UNCHANGED <<logVars, start, idle, pc, last, seen, before, terminal, drains, delivered, outcome>>

Server ==
    /\ Produce \/ FinishOperation \/ SendEvent \/ EndStream(~ terminal)
    /\ UNCHANGED clientVars

ServerFault == StreamFault(~ terminal) /\ UNCHANGED clientVars

Client ==
    \/ Expires \/ Head \/ Open \/ StreamBreaks \/ SseError \/ Refused
    \/ SkipBlank \/ Deliver \/ EndOfStream \/ Probe \/ Resume

Next == Client \/ Server \/ ServerFault \/ DeadlineElapses

Spec == Init /\ [][Next]_vars

-----------------------------------------------------------------------------
(* Properties                                                              *)

\* The cursor a reconnect resumes from is not ahead of the caller: between
\* the last event delivered and the cursor there is nothing but frames
\* without a payload.
CursorSound ==
    /\ delivered <= last
    /\ (delivered + 1) .. last \subseteq Blank

\* Retained reads are tried max_attempts times and no more.
DrainsBounded == MaxDrains # 0 => drains <= MaxDrains

\* The follower delivers every event once and in order, whatever breaks in
\* between, and ends normally only after the completion; a read the
\* caller positioned may also end with a log that has none.
Delivery == INSTANCE EventDelivery WITH excused <- start # 0 /\ early
ImplementsDelivery == Delivery!Spec
=============================================================================
