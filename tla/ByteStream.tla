------------------------------ MODULE ByteStream -----------------------------
(***************************************************************************)
(* stream() of the six Python adapters: a request whose body is handed to  *)
(* the caller chunk by chunk.  The generator stands at a yield between two *)
(* chunks, for as long as the caller likes.                                *)
(*                                                                         *)
(* The server may stop in the middle, in every way the framing of the body *)
(* (Content-Length or chunked) and its coding (identity or gzip) allow.    *)
(* What a library makes of that is external, and is taken from the native  *)
(* errors its adapter names.                                               *)
(***************************************************************************)
EXTENDS Integers

CONSTANTS
    ReadTimeouts,   \* timeouts of a client and of a stream, in ticks; either
                    \* may also be Never
    Deadlines, Never,
    MaxClock        \* bound on the time the caller keeps a chunk, and on the
                    \* clock while a wait without a limit goes on

ASSUME StreamAssumption ==
    /\ ReadTimeouts \subseteq Nat \ {0} /\ MaxClock \in Nat
    /\ Deadlines \subseteq Nat /\ Never \notin Nat

VARIABLES
    adapter, inflate,   \* the adapter, and auto_decompress
    reply,      \* how the server answers: ok, framing, coding and bytes
    timeout,    \* the client's own; Never without one
    read_maximum,       \* how long a read may be silent; Never for idle_timeout 0
    deadline, clock,
    at,         \* "start", waiting for "headers", "reading", reading the body of
                \* a "refused" request, "handed" (at a yield) or "done"
    since,      \* when the read under way began
    limit,      \* the socket timeout of that read; Never without one
    got,        \* bytes handed to the caller
    socket,     \* "none", "open", "closed" or back in its "pool"
    raised,     \* how the stream ended
    cut         \* history: the body stopped early, "framing" or "trailer" missing

settings == <<adapter, inflate, reply, timeout, read_maximum, deadline>>
streamVars == <<adapter, inflate, reply, timeout, read_maximum, deadline, clock, at, since, limit, got,
                socket, raised, cut>>

Adapters == {"http", "requests", "urllib3", "httpx", "httpx_async", "aiohttp"}
Waiting == {"headers", "reading", "refused"}

\* Any deadline with any read timeout, as a RequestSpec may carry them.  Only
\* http looks at both timeouts once it is connected; what the timeout of the
\* others may be is all the same.
StreamInit(bytes) ==
    /\ adapter \in Adapters /\ inflate \in BOOLEAN
    /\ reply \in [ok : BOOLEAN, framing : {"length", "chunked"}, coding : {"identity", "gzip"}, bytes : {bytes}]
    /\ timeout \in ReadTimeouts \cup {Never} /\ read_maximum \in ReadTimeouts \cup {Never}
    /\ adapter # "http" => timeout = read_maximum
    /\ deadline \in Deadlines \cup {Never}
    /\ clock = 0 /\ at = "start" /\ since = 0 /\ limit = 0 /\ got = 0
    /\ socket = "none" /\ raised = "none" /\ cut = "no"

-----------------------------------------------------------------------------
(* What each adapter's normalize_errors makes of an expired deadline, a    *)
(* socket timeout, a lost connection, a body cut short and a body that     *)
(* cannot be inflated: APIConnectionError ("connection", "timed_out"),     *)
(* TimeoutError ("deadline") or the native error ("native").               *)

http_errors ==
    [deadline |-> "timed_out", timeout |-> "timed_out", reset |-> "connection",
     cut |-> "connection", corrupt |-> "native"]
requests_errors ==
    [deadline |-> "deadline", timeout |-> "timed_out", reset |-> "connection",
     cut |-> "connection", corrupt |-> "native"]
urllib3_errors == requests_errors
httpx_errors == requests_errors
aiohttp_errors ==
    [deadline |-> "timed_out", timeout |-> "timed_out", reset |-> "connection",
     cut |-> "connection", corrupt |-> "native"]

normalize_errors ==
    [http |-> http_errors, requests |-> requests_errors, urllib3 |-> urllib3_errors,
     httpx |-> httpx_errors, httpx_async |-> httpx_errors, aiohttp |-> aiohttp_errors][adapter]

\* Seeded fault: an interrupted error body hides the status.
StatusLost(e) == e

\* The body of a refused request is read inside preserve_response_status.
preserve_response_status(e) == IF e \in {"connection", "timed_out"} THEN "status" ELSE e

-----------------------------------------------------------------------------
Expired == deadline # Never /\ clock >= deadline

\* Seeded fault: without a maximum there is no limit, deadline or not.
RemainingUnlimited(maximum) ==
    IF deadline = Never \/ maximum = Never \/ deadline - clock > maximum THEN maximum ELSE deadline - clock

\* remaining_timeout(deadline, maximum) of a deadline that has not elapsed;
\* Never, for None, when neither limits the wait.
remaining_timeout(maximum) ==
    IF deadline = Never \/ (maximum # Never /\ deadline - clock > maximum)
    THEN maximum ELSE deadline - clock

\* How long the server may take to answer at all: http has its client's
\* timeout end that, too.
header_maximum ==
    IF adapter = "http" /\ timeout # Never /\ (read_maximum = Never \/ timeout < read_maximum)
    THEN timeout ELSE read_maximum

\* An error body is inflated whatever auto_decompress says.
Inflating == reply.coding = "gzip" /\ (inflate \/ at = "refused")

\* asyncio.wait_for around a read, and the total timeout of aiohttp.
Cancels == adapter = "aiohttp" \/ (adapter = "httpx_async" /\ at # "headers")

\* Seeded fault: the stream is released before it is closed.
SettledReleased(whole) ==
    IF socket = "none" THEN "none" ELSE IF adapter = "http" THEN "closed" ELSE "pool"

\* Where the connection goes: http has one of its own and closes it; the
\* libraries take back one whose body was read to its end.
Settled(whole) ==
    IF socket = "none" THEN "none" ELSE IF adapter # "http" /\ whole THEN "pool" ELSE "closed"

Finish(how, whole) ==
    /\ at' = "done" /\ raised' = how /\ socket' = Settled(whole)
    /\ UNCHANGED <<clock, since, limit, got>>

\* An error while the stream waits.
Fail(kind) ==
    LET e == normalize_errors[kind]
    IN  Finish(IF at = "refused" THEN preserve_response_status(e) ELSE e, FALSE)

\* The next read begins; it waits for maximum ticks at most.
Read(maximum) ==
    /\ at' = "reading" /\ since' = clock /\ limit' = maximum
    /\ UNCHANGED <<clock, got, socket, raised>>

-----------------------------------------------------------------------------
(* The steps of a stream.                                                  *)

Open ==
    /\ at = "start"
    /\ IF Expired THEN Fail("deadline")
       ELSE /\ at' = "headers" /\ since' = clock /\ limit' = remaining_timeout(header_maximum)
            /\ socket' = "open" /\ UNCHANGED <<clock, got, raised>>
    /\ UNCHANGED cut

Refused ==
    /\ at = "headers" /\ ~ reply.ok
    /\ at' = "refused" /\ since' = clock
    /\ UNCHANGED <<clock, limit, got, socket, raised, cut>>

\* The whole error body arrived.
RefusalRead == at = "refused" /\ Finish("status", TRUE) /\ UNCHANGED cut

\* The first read, after a check of the deadline or not.
FirstRead(checked, maximum) ==
    /\ at = "headers" /\ reply.ok
    /\ IF checked /\ Expired THEN Fail("deadline") ELSE Read(maximum)
    /\ UNCHANGED cut

\* The caller asks for the next chunk.
NextRead(checked, maximum) ==
    /\ at = "handed"
    /\ IF checked /\ Expired THEN Fail("deadline") ELSE Read(maximum)
    /\ UNCHANGED cut

\* Seeded fault: the deadline is not checked once a read returned.
ArriveUnchecked(n) ==
    /\ at = "reading" /\ got + n <= reply.bytes
    /\ got' = got + n /\ at' = "handed" /\ UNCHANGED <<clock, since, limit, socket, raised>>
    /\ UNCHANGED cut

\* A chunk arrived; no adapter hands one over once the deadline is past.
Arrive(n) ==
    /\ at = "reading" /\ got + n <= reply.bytes
    /\ IF Expired THEN Fail("deadline")
       ELSE got' = got + n /\ at' = "handed" /\ UNCHANGED <<clock, since, limit, socket, raised>>
    /\ UNCHANGED cut

\* The body ended where it should.
EndOfBody(checked) ==
    /\ at = "reading" /\ got = reply.bytes
    /\ IF checked /\ Expired THEN Fail("deadline") ELSE Finish("ended", TRUE)
    /\ UNCHANGED cut

\* The caller closes the generator at a yield.
Abandon == at = "handed" /\ Finish("closed", FALSE) /\ UNCHANGED cut

LimitReached == limit # Never /\ clock - since >= limit

ReadTimeout == at \in Waiting /\ LimitReached /\ Fail("timeout") /\ UNCHANGED cut
DeadlineTimer == Cancels /\ at \in Waiting /\ Expired /\ Fail("deadline") /\ UNCHANGED cut
Reset == at \in Waiting /\ Fail("reset") /\ UNCHANGED cut
Corrupt == at \in {"reading", "refused"} /\ Inflating /\ Fail("corrupt") /\ UNCHANGED cut

\* The server closed the connection before the framing said so.
ConnectionCut ==
    /\ at \in {"reading", "refused"}
    /\ got < reply.bytes \/ reply.framing = "chunked" \/ reply.coding = "gzip"
    /\ cut' = "framing"

\* The framing is whole and the gzip trailer is missing.
TrailerMissing == at \in {"reading", "refused"} /\ reply.coding = "gzip" /\ cut' = "trailer"

-----------------------------------------------------------------------------
(* The adapters.                                                           *)

\* Seeded fault: flush accepts a stream without its trailer.
FlushLenient == Finish("ended", TRUE)

\* GzipStreamDecoder.flush and IdentityStreamDecoder.flush at the end of the
\* body: EOFError without the trailer.
Flush_decoder == IF Inflating THEN Fail("cut") ELSE Finish("ended", TRUE)

\* read1 of http.client notices a cut of a chunked body, never one of a body
\* with a Content-Length: it returns b"", as at the end.
HttpStream ==
    /\ adapter = "http"
    /\ \/ FirstRead(TRUE, remaining_timeout(read_maximum))
       \/ NextRead(TRUE, remaining_timeout(read_maximum))
       \/ EndOfBody(TRUE)
       \/ /\ ConnectionCut /\ at = "reading"
          /\ IF reply.framing = "chunked" THEN Fail("cut")
             ELSE IF Expired THEN Fail("deadline") ELSE Flush_decoder
       \/ /\ TrailerMissing /\ at = "reading"
          /\ IF Expired THEN Fail("deadline") ELSE Flush_decoder

\* read_response of a refused request: read() notices a cut of either framing,
\* and gzip.decompress a missing trailer.
HttpRefusal ==
    /\ adapter = "http" /\ at = "refused"
    /\ \/ ConnectionCut /\ Fail("cut")
       \/ TrailerMissing /\ Fail("cut")

\* The libraries notice a cut of either framing; a missing trailer they may
\* notice, as data they cannot inflate, or not.
LibraryCut ==
    \/ ConnectionCut /\ Fail("cut")
    \/ TrailerMissing /\ Inflating /\ Fail("corrupt")
    \/ TrailerMissing /\ Finish(IF at = "refused" THEN "status" ELSE "ended", TRUE)

\* requests and urllib3 set the timeout of every read when they open.
RequestsStream ==
    /\ adapter = "requests"
    /\ \/ FirstRead(FALSE, limit) \/ NextRead(FALSE, limit) \/ EndOfBody(FALSE) \/ LibraryCut

Urllib3Stream ==
    /\ adapter = "urllib3"
    /\ \/ FirstRead(FALSE, limit) \/ NextRead(FALSE, limit) \/ EndOfBody(FALSE) \/ LibraryCut

HttpxStream ==
    /\ adapter = "httpx"
    /\ \/ FirstRead(FALSE, limit) \/ NextRead(TRUE, limit) \/ EndOfBody(FALSE) \/ LibraryCut

HttpxAsyncStream ==
    /\ adapter = "httpx_async"
    /\ \/ FirstRead(TRUE, limit) \/ NextRead(TRUE, limit) \/ EndOfBody(FALSE) \/ LibraryCut

\* Without auto_decompress aiohttp leaves the error body to gzip.decompress,
\* whose EOFError no handler names.
AiohttpStream ==
    /\ adapter = "aiohttp"
    /\ \/ FirstRead(TRUE, limit) \/ NextRead(TRUE, limit) \/ EndOfBody(FALSE)
       \/ LibraryCut /\ (at = "refused" => inflate \/ cut' # "trailer")
       \/ TrailerMissing /\ at = "refused" /\ ~ inflate /\ Finish("native", TRUE)

AdapterStep ==
    /\ \/ Open \/ Refused \/ RefusalRead \/ Abandon
       \/ ReadTimeout \/ DeadlineTimer \/ Reset \/ Corrupt
       \/ HttpStream \/ HttpRefusal \/ RequestsStream \/ Urllib3Stream
       \/ HttpxStream \/ HttpxAsyncStream \/ AiohttpStream
    /\ UNCHANGED settings

\* Timers fire when they are due; a caller keeps a chunk as long as it likes.
Tick ==
    /\ \/ at \in Waiting /\ ~ LimitReached /\ ~ (Cancels /\ Expired) /\ (limit = Never => clock < MaxClock)
       \/ at = "handed" /\ clock < MaxClock
       \/ at = "start" /\ clock < MaxClock
    /\ clock' = clock + 1
    /\ UNCHANGED <<settings, at, since, limit, got, socket, raised, cut>>

\* A stream by itself, with a body of any length in chunks of any size.
StreamNext ==
    \/ AdapterStep
    \/ \E n \in Nat \ {0} : Arrive(n) /\ UNCHANGED settings
    \/ Tick

StreamSpec == (\E bytes \in Nat : StreamInit(bytes)) /\ [][StreamNext]_streamVars

-----------------------------------------------------------------------------
(* Properties                                                              *)

\* No adapter hands over a chunk once the deadline is past, and only the ones
\* that set the timeout of every read when they open wait for the server then.
DeadlineKept ==
    [][/\ got' # got => ~ Expired
       /\ at' = "reading" /\ deadline # Never /\ clock' > deadline =>
             adapter \in {"requests", "urllib3"} \/ (adapter = "httpx" /\ since' <= deadline)]_streamVars

\* A refused request whose error body is interrupted raises its status all the
\* same: all that can hide it is a body that cannot be inflated, and for the
\* asynchronous httpx adapter the deadline.
RefusalsKept ==
    [][at = "refused" /\ at' = "done" =>
        \/ raised' = "status"
        \/ raised' = "native" /\ reply.coding = "gzip" /\ cut' # "framing"
        \/ raised' = "deadline" /\ adapter = "httpx_async" /\ Expired]_streamVars

\* No connection stays with a stream that is over, and none goes back to a
\* pool with a body half read.
ConnectionSettled ==
    at = "done" =>
        /\ socket # "open"
        /\ socket = "pool" => raised \in {"ended", "status", "native"} /\ cut # "framing"

\* A limit on silence, or a deadline, ends every wait for a server that fell
\* silent; without the limit (idle_timeout 0, the default) the deadline still
\* bounds the stream.  With neither the caller waits as long as the server is
\* silent, but for the headers over http.client if the client has a timeout.
WaitsEnd ==
    /\ at \in Waiting /\ (deadline # Never \/ read_maximum # Never) ~> at \in {"handed", "done"}
    /\ at = "headers" /\ adapter = "http" /\ timeout # Never ~> at # "headers"
=============================================================================
