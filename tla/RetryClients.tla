------------------------------ MODULE RetryClients -----------------------------
(***************************************************************************)
(* The retry loops of the Python, the JavaScript and the Go client side by *)
(* side: one call of any of them, or one stream of the JavaScript client,  *)
(* judged by the same promises.                                            *)
(*                                                                         *)
(* The four machines share what they all keep; no policy is a policy of a  *)
(* single attempt, as PyCall has it.                                       *)
(***************************************************************************)
EXTENDS PyCall

CONSTANTS
    JsPolicies, GoPolicies,
    Timeouts, MaxAttempts       \* Go: timeouts; bound of an unlimited policy

NoPolicy == [max |-> 1, unsafe |-> FALSE]

ASSUME RetryAssumption ==
    /\ JsPolicies \cup GoPolicies \subseteq [max : Nat, unsafe : BOOLEAN] \ {NoPolicy}
    /\ Timeouts \subseteq Nat /\ MaxAttempts \in Nat

VARIABLES
    client,                     \* "python", "js", "stream" or "go"
    limit, timer,               \* JavaScript: the deadline and the abort timer
    aborted, since, reader,     \* of a stream
    timeout, ctxDone, status    \* of the Go client

pythonOnly == <<async, deadline, limited, at>>
jsOnly == <<limit, timer>>
streamOnly == <<aborted, since, reader>>
goOnly == <<timeout, ctxDone, status>>
clientVars == <<vars, client, jsOnly, streamOnly, goOnly>>

Js == INSTANCE JsCall WITH Policies <- JsPolicies, deadline <- limit
Stream == INSTANCE JsStream WITH Policies <- JsPolicies, deadline <- limit, MaxWait <- MaxTime
Go == INSTANCE GoExecute WITH Policies <- GoPolicies

NoPython == async = FALSE /\ deadline = Never /\ limited = FALSE /\ at = "start"
NoJs == limit = Never /\ timer = 0
NoStream == aborted = FALSE /\ since = 0 /\ reader = "none"
NoGo == timeout = 0 /\ ctxDone = FALSE /\ status = "ok"

ClientsInit ==
    \/ client = "python" /\ Init /\ NoJs /\ NoStream /\ NoGo
    \/ client = "js" /\ Js!Init /\ NoPython /\ NoStream /\ NoGo /\ started = 0
    \/ client = "stream" /\ Stream!Init /\ NoPython /\ NoGo /\ started = 0
    \/ client = "go" /\ Go!Init /\ NoPython /\ NoJs /\ NoStream

InPython(A) == client = "python" /\ A /\ UNCHANGED <<client, jsOnly, streamOnly, goOnly>>
InJs(A) == client = "js" /\ A /\ UNCHANGED <<client, pythonOnly, streamOnly, goOnly, started>>
InStream(A) == client = "stream" /\ A /\ UNCHANGED <<client, pythonOnly, goOnly, started>>
InGo(A) == client = "go" /\ A /\ UNCHANGED <<client, pythonOnly, jsOnly, streamOnly>>

ClientsNext == InPython(Next) \/ InJs(Js!Next) \/ InStream(Stream!Next) \/ InGo(Go!Next)

\* Each client's own steps and the clock; the server may never answer.
ClientsSpec ==
    /\ ClientsInit /\ [][ClientsNext]_clientVars
    /\ WF_clientVars(InPython(Attempt \/ DeadlineAtTop \/ Cancelled \/ Wake))
    /\ WF_clientVars(InPython(Tick))
    /\ WF_clientVars(InJs(Js!Request \/ Js!RequestTooLate \/ Js!Wake))
    /\ WF_clientVars(InJs(Js!ConnectionError("TimeoutError"))) /\ WF_clientVars(InJs(Js!Tick))
    /\ WF_clientVars(InStream(Stream!Connect \/ Stream!DeadlineAtTop \/ Stream!Wake))
    /\ WF_clientVars(InStream(Stream!ConnectFails("TimeoutError") \/ Stream!ReadFails("TimeoutError")))
    /\ WF_clientVars(InStream(Stream!TimerFires)) /\ WF_clientVars(InStream(Stream!Tick))
    /\ WF_clientVars(InGo(\/ Go!ContextAtTop \/ Go!Attempt \/ Go!OpenFails \/ Go!WaitOver
                          \/ Go!WaitInterrupted))
    /\ WF_clientVars(InGo(Go!ConnectionError("context"))) /\ WF_clientVars(InGo(Go!Tick))

-----------------------------------------------------------------------------
(* Properties; with them ImplementsContract, LateMeansTimeout, SameBytes   *)
(* and AsyncEndsByDeadline of PyCall.                                      *)

\* The policy bounds the requests of a call, the first included; without one
\* there is a single request, and in JavaScript one reconnect; a
\* ReadableStream, which is spent by the first, and a stream whose request may
\* not be repeated, are sent once.
RequestsBounded ==
    /\ client = "python" => AttemptsBounded
    /\ client = "js" => Js!AttemptsBounded
    /\ client = "stream" => Stream!AttemptsBounded
    /\ client = "go" => Go!AttemptsBounded

\* JavaScript: one deadline spans all of a call, whatever the server does: its
\* reconnect, its retries, the sleeps and the body; each attempt's timer and
\* each sleep is cut to what is left of it.
JsEndsByDeadline == client = "js" => Js!EndsByDeadline

\* A JavaScript stream is neither late nor early: no chunk is handed over
\* behind the deadline, and it times out only behind the deadline or when the
\* transport was silent for as long as that wait allows.
StreamTimely == [][client = "stream" => Stream!TimelyStep]_clientVars

\* JavaScript: a response's body is given back however its stream ends, but
\* for a response whose headers come after the deadline.
BodyReleased == client = "stream" => Stream!BodyReleased

\* Go: a call on a one-shot body ends with what its one request met; it is
\* never at the loop head again, where the body would not open.
OneShotOutcomeKept == client = "go" => Go!OneShotOutcomeKept

\* A call ends though the server never answers: in JavaScript by the abort
\* timer, and so does a stream's wait for headers, or for a chunk if it has a
\* limit; in Go by the timeout when attempts are limited and by the caller's
\* context otherwise; in Python if its requests end, each socket having a
\* timeout.
CallsEnd ==
    /\ client = "js" \/ (client = "go" /\ (ctxDone \/ (timeout # 0 /\ policy.max > 0))) ~> pc = "done"
    /\ client = "stream" /\ pc = "connecting" ~> pc # "connecting"
    /\ client = "stream" /\ pc = "reading" /\ timer # Never ~> pc # "reading"
    /\ WF_clientVars(InPython(Step)) => (client = "python" ~> pc = "done")
=============================================================================
