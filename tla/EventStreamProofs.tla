-------------------------- MODULE EventStreamProofs --------------------------
(***************************************************************************)
(* Proofs about ByteStream and EventStream, for every adapter, body,       *)
(* timeout and deadline: nothing comes late, a refusal keeps its status, a *)
(* connection is let go, and a stream that ends without an error brought   *)
(* every byte.                                                             *)
(*                                                                         *)
(* StreamInv says of each stage what the clock may show: the wait for the  *)
(* headers ends at the deadline whoever waits, and how far a read may pass *)
(* it depends on when its adapter sets the timeouts.  EventInv adds, for a *)
(* stream that feeds a parser, that the parser had every byte the caller   *)
(* had; what the parser makes of them is proved in SSEParserProofs.        *)
(***************************************************************************)
EXTENDS EventStream, SSEParserProofs

-----------------------------------------------------------------------------
(* A stream by itself                                                      *)

Stages == {"start", "headers", "reading", "refused", "handed", "done"}

StreamTypeOK ==
    /\ adapter \in Adapters /\ inflate \in BOOLEAN
    /\ timeout \in Nat \cup {Never} /\ read_maximum \in Nat \cup {Never}
    /\ deadline \in Nat \cup {Never}
    /\ clock \in Nat /\ since \in Nat /\ limit \in Nat \cup {Never}
    /\ at \in Stages

\* A wait ends with its timeout, and the timeouts respect the deadline as far
\* as the adapter renews them.
Waits ==
    /\ at \in Waiting => since <= clock /\ (limit # Never => clock <= since + limit)
    /\ at = "headers" /\ deadline # Never => limit # Never /\ since + limit <= deadline
    /\ at = "reading" /\ deadline # Never =>
          /\ adapter = "http" => limit # Never /\ since + limit <= deadline
          /\ adapter \in {"httpx_async", "aiohttp"} => clock <= deadline
          /\ adapter = "httpx" => since <= deadline

Sockets ==
    /\ at = "start" => socket = "none"
    /\ at \in Waiting \cup {"handed"} => socket = "open"
    /\ at # "done" => cut = "no"
    /\ ConnectionSettled

StreamInv == StreamTypeOK /\ Waits /\ Sockets

\* What normalize_errors makes of each error, whatever the adapter.
LEMMA ErrorsNamed ==
    ASSUME adapter \in Adapters
    PROVE  /\ normalize_errors["timeout"] = "timed_out"
           /\ normalize_errors["reset"] = "connection"
           /\ normalize_errors["cut"] = "connection"
           /\ normalize_errors["corrupt"] = "native"
           /\ normalize_errors["deadline"] \in {"timed_out", "deadline"}
           /\ adapter = "aiohttp" => normalize_errors["deadline"] = "timed_out"
<1>1. CASE adapter = "http" BY <1>1 DEF normalize_errors, http_errors
<1>2. CASE adapter = "requests" BY <1>2 DEF normalize_errors, requests_errors
<1>3. CASE adapter = "urllib3" BY <1>3 DEF normalize_errors, urllib3_errors, requests_errors
<1>4. CASE adapter = "httpx" BY <1>4 DEF normalize_errors, httpx_errors, requests_errors
<1>5. CASE adapter = "httpx_async" BY <1>5 DEF normalize_errors, httpx_errors, requests_errors
<1>6. CASE adapter = "aiohttp" BY <1>6 DEF normalize_errors, aiohttp_errors
<1>. QED BY <1>1, <1>2, <1>3, <1>4, <1>5, <1>6 DEF Adapters

\* A maximum that respects the deadline.
LEMMA RemainingBounded ==
    ASSUME deadline \in Nat \cup {Never}, clock \in Nat, ~ Expired,
           NEW maximum \in Nat \cup {Never}
    PROVE  /\ remaining_timeout(maximum) \in Nat \cup {Never}
           /\ deadline # Never => /\ remaining_timeout(maximum) # Never
                                 /\ clock + remaining_timeout(maximum) <= deadline
BY StreamAssumption DEF Expired, remaining_timeout

\* The end of a stream whose body was not read to its end, or was and may be.
LEMMA FinishSettles ==
    ASSUME StreamInv, at # "done", NEW how, NEW whole \in BOOLEAN, Finish(how, whole),
           UNCHANGED settings,
           whole => how \in {"ended", "status", "native"} /\ (adapter # "http" => cut' # "framing")
    PROVE  StreamInv'
<1>1. socket' \in {"none", "closed", "pool"} /\ (socket' = "pool" => whole /\ adapter # "http")
  BY DEF Finish, Settled
<1>2. at' = "done" /\ raised' = how /\ UNCHANGED <<clock, since, limit>>
  BY DEF Finish
<1>. QED BY <1>1, <1>2 DEF StreamInv, StreamTypeOK, Waits, Sockets, ConnectionSettled, Stages, Waiting, settings

\* An error ends a stream that waits, and closes its connection.
LEMMA FailSettles ==
    ASSUME StreamInv, at # "done", NEW kind, Fail(kind), UNCHANGED settings
    PROVE  StreamInv'
BY FinishSettles DEF Fail

\* A stream that is not over has not been cut.
LEMMA Uncut == ASSUME StreamInv, at # "done" PROVE cut = "no"
BY DEF StreamInv, Sockets

\* A read begins when the deadline still allows it, as far as its adapter looks.
LEMMA ReadsKeep ==
    ASSUME StreamInv, NEW checked \in BOOLEAN, NEW maximum,
           FirstRead(checked, maximum) \/ NextRead(checked, maximum), UNCHANGED settings,
           ~ Expired => maximum \in Nat \cup {Never},
           ~ checked => maximum = limit,
           adapter = "http" => checked /\ maximum = remaining_timeout(read_maximum),
           adapter \in {"httpx_async", "aiohttp"} => checked,
           adapter = "httpx" => checked \/ at = "headers"
    PROVE  StreamInv'
<1>1. at \in {"headers", "handed"} /\ cut' = cut
  BY DEF FirstRead, NextRead
<1>2. CASE checked /\ Expired
  BY <1>1, <1>2, FailSettles DEF FirstRead, NextRead
<1>3. CASE ~ (checked /\ Expired)
  <2>1. /\ at' = "reading" /\ since' = clock /\ limit' = maximum
        /\ UNCHANGED <<clock, socket, raised, cut, settings>>
    BY <1>1, <1>3 DEF FirstRead, NextRead, Read
  <2>2. maximum \in Nat \cup {Never} /\ StreamTypeOK'
    BY <1>3, <2>1 DEF StreamInv, StreamTypeOK, Stages, settings
  <2>3. Sockets'
    BY <1>1, <2>1 DEF StreamInv, Sockets, Waiting, ConnectionSettled
  <2>4. CASE deadline = Never
    BY <2>1, <2>2, <2>3, <2>4 DEF StreamInv, StreamTypeOK, Waits, settings
  <2>5. CASE deadline # Never
    <3>1. /\ deadline \in Nat /\ clock \in Nat /\ since \in Nat
          /\ limit \in Nat \cup {Never} /\ read_maximum \in Nat \cup {Never}
      BY <2>5 DEF StreamInv, StreamTypeOK
    <3>2. checked => clock < deadline
      BY <1>3, <2>5, <3>1 DEF Expired
    <3>3. at = "headers" => clock <= deadline
      BY <2>5, <3>1 DEF StreamInv, Waits, Waiting
    <3>4. adapter = "http" => maximum # Never /\ clock + maximum <= deadline
      BY <1>3, <2>5, <3>1, <3>2, RemainingBounded
    <3>5. Waits'
      BY <2>1, <2>2, <3>1, <3>2, <3>3, <3>4 DEF Waits, settings
    <3>. QED BY <2>2, <2>3, <3>5 DEF StreamInv
  <2>. QED BY <2>4, <2>5
<1>. QED BY <1>2, <1>3

\* The body read to its end.
LEMMA EndsKeep ==
    ASSUME StreamInv, NEW checked, EndOfBody(checked), UNCHANGED settings
    PROVE  StreamInv'
<1>1. at = "reading" /\ cut' = "no"
  BY Uncut DEF EndOfBody
<1>2. CASE Fail("deadline")
  BY <1>1, <1>2, FailSettles
<1>3. CASE Finish("ended", TRUE)
  BY <1>1, <1>3, FinishSettles
<1>. QED BY <1>2, <1>3 DEF EndOfBody

\* What the libraries make of a body cut short.
LEMMA CutsKeep ==
    ASSUME StreamInv, LibraryCut, UNCHANGED settings
    PROVE  StreamInv'
<1>1. at \in {"reading", "refused"}
  BY DEF LibraryCut, ConnectionCut, TrailerMissing
<1>2. CASE Fail("cut") \/ Fail("corrupt")
  BY <1>1, <1>2, FailSettles
<1>3. ASSUME NEW how \in {"status", "ended"}, TrailerMissing, Finish(how, TRUE) PROVE StreamInv'
  BY <1>1, <1>3, FinishSettles DEF TrailerMissing
<1>. QED BY <1>2, <1>3 DEF LibraryCut

\* The steps of the http.client adapter, whose timeout follows the deadline.
LEMMA HttpKeeps ==
    ASSUME StreamInv, HttpStream \/ HttpRefusal, UNCHANGED settings
    PROVE  StreamInv'
<1>1. adapter = "http"
  BY DEF HttpStream, HttpRefusal
<1>2. ~ Expired => remaining_timeout(read_maximum) \in Nat \cup {Never}
  BY RemainingBounded DEF StreamInv, StreamTypeOK
<1>3. CASE \/ FirstRead(TRUE, remaining_timeout(read_maximum))
           \/ NextRead(TRUE, remaining_timeout(read_maximum))
  BY <1>1, <1>2, <1>3, ReadsKeep
<1>4. CASE EndOfBody(TRUE)
  BY <1>4, EndsKeep
<1>5. CASE at \in {"reading", "refused"} /\ (Fail("cut") \/ Fail("deadline"))
  BY <1>5, FailSettles
<1>6. CASE at = "reading" /\ Finish("ended", TRUE)
  BY <1>1, <1>6, FinishSettles
<1>. QED BY <1>3, <1>4, <1>5, <1>6 DEF HttpStream, HttpRefusal, ConnectionCut, TrailerMissing, Flush_decoder

\* The steps of the adapters over a library.
LEMMA LibrariesKeep ==
    ASSUME StreamInv, UNCHANGED settings,
           RequestsStream \/ Urllib3Stream \/ HttpxStream \/ HttpxAsyncStream \/ AiohttpStream
    PROVE  StreamInv'
<1>1. limit \in Nat \cup {Never}
  BY DEF StreamInv, StreamTypeOK
<1>2. CASE RequestsStream
  BY <1>1, <1>2, ReadsKeep, EndsKeep, CutsKeep DEF RequestsStream
<1>3. CASE Urllib3Stream
  BY <1>1, <1>3, ReadsKeep, EndsKeep, CutsKeep DEF Urllib3Stream
<1>4. CASE HttpxStream
  <2>1. CASE FirstRead(FALSE, limit)
    BY <1>1, <1>4, <2>1, ReadsKeep DEF HttpxStream, FirstRead
  <2>2. CASE NextRead(TRUE, limit)
    BY <1>1, <1>4, <2>2, ReadsKeep DEF HttpxStream
  <2>. QED BY <1>4, <2>1, <2>2, EndsKeep, CutsKeep DEF HttpxStream
<1>5. CASE HttpxAsyncStream
  BY <1>1, <1>5, ReadsKeep, EndsKeep, CutsKeep DEF HttpxAsyncStream
<1>6. CASE AiohttpStream
  <2>1. CASE TrailerMissing /\ Finish("native", TRUE)
    BY <2>1, FinishSettles DEF TrailerMissing
  <2>. QED BY <1>1, <1>6, <2>1, ReadsKeep, EndsKeep, CutsKeep DEF AiohttpStream
<1>. QED BY <1>2, <1>3, <1>4, <1>5, <1>6

\* The request goes out with what is left of the deadline.
LEMMA OpenKeeps ==
    ASSUME StreamInv, Open, UNCHANGED settings
    PROVE  StreamInv'
<1>1. at = "start" /\ cut' = cut
  BY DEF Open
<1>2. CASE Expired
  BY <1>1, <1>2, FailSettles DEF Open
<1>3. CASE ~ Expired
  <2>1. /\ at' = "headers" /\ since' = clock /\ limit' = remaining_timeout(header_maximum) /\ socket' = "open"
        /\ UNCHANGED <<clock, settings, cut>>
    BY <1>1, <1>3 DEF Open
  <2>2. header_maximum \in Nat \cup {Never}
    BY DEF header_maximum, StreamInv, StreamTypeOK
  <2>3. /\ limit' \in Nat \cup {Never}
        /\ deadline # Never => limit' # Never /\ clock + limit' <= deadline
    BY <1>3, <2>1, <2>2, RemainingBounded DEF StreamInv, StreamTypeOK
  <2>4. StreamTypeOK'
    BY <2>1, <2>3 DEF StreamInv, StreamTypeOK, Stages, settings
  <2>5. Waits'
    BY <2>1, <2>3, <2>4 DEF Waits, StreamTypeOK, settings
  <2>6. Sockets'
    BY <1>1, <2>1 DEF StreamInv, Sockets, Waiting, ConnectionSettled
  <2>. QED BY <2>4, <2>5, <2>6 DEF StreamInv
<1>. QED BY <1>2, <1>3

\* Time passes no further than the wait under way.
LEMMA TickKeeps ==
    ASSUME StreamInv, Tick
    PROVE  StreamInv'
<1>1. clock' = clock + 1 /\ UNCHANGED <<settings, at, since, limit, got, socket, raised, cut>>
  BY DEF Tick
<1>2. StreamTypeOK' /\ Sockets'
  BY <1>1 DEF StreamInv, StreamTypeOK, Sockets, ConnectionSettled, Waiting, settings
<1>3. at \in Waiting /\ limit # Never => clock + 1 <= since + limit
  BY DEF Tick, LimitReached, Waiting, StreamInv, StreamTypeOK
<1>4. at = "reading" /\ adapter \in {"httpx_async", "aiohttp"} /\ deadline # Never => clock + 1 <= deadline
  BY DEF Tick, Waiting, Cancels, Expired, StreamInv, StreamTypeOK
<1>5. Waits'
  BY <1>1, <1>2, <1>3, <1>4 DEF StreamInv, StreamTypeOK, Waits, Waiting, settings
<1>. QED BY <1>2, <1>5 DEF StreamInv

\* StreamInv is inductive.
LEMMA StepKeeps ==
    ASSUME StreamInv, [StreamNext]_streamVars
    PROVE  StreamInv'
<1>1. CASE Open /\ UNCHANGED settings
  BY <1>1, OpenKeeps
<1>2. CASE Refused /\ UNCHANGED settings
  BY <1>2 DEF Refused, StreamInv, StreamTypeOK, Stages, Waits, Sockets, Waiting, ConnectionSettled, settings
<1>3. CASE RefusalRead /\ UNCHANGED settings
  BY <1>3, Uncut, FinishSettles DEF RefusalRead
<1>4. CASE Abandon /\ UNCHANGED settings
  BY <1>4, FinishSettles DEF Abandon
<1>5. CASE (ReadTimeout \/ DeadlineTimer \/ Reset \/ Corrupt) /\ UNCHANGED settings
  <2>1. at # "done" /\ (Fail("timeout") \/ Fail("deadline") \/ Fail("reset") \/ Fail("corrupt"))
    BY <1>5 DEF ReadTimeout, DeadlineTimer, Reset, Corrupt, Waiting
  <2>. QED BY <1>5, <2>1, FailSettles
<1>6. CASE (HttpStream \/ HttpRefusal) /\ UNCHANGED settings
  BY <1>6, HttpKeeps
<1>7. CASE /\ RequestsStream \/ Urllib3Stream \/ HttpxStream \/ HttpxAsyncStream \/ AiohttpStream
           /\ UNCHANGED settings
  BY <1>7, LibrariesKeep
<1>8. ASSUME NEW n \in Nat \ {0}, Arrive(n), UNCHANGED settings PROVE StreamInv'
  <2>1. CASE Expired
    BY <1>8, <2>1, FailSettles DEF Arrive
  <2>2. CASE ~ Expired
    BY <1>8, <2>2 DEF Arrive, StreamInv, StreamTypeOK, Stages, Waits, Sockets, Waiting, ConnectionSettled, settings
  <2>. QED BY <2>1, <2>2
<1>9. CASE Tick
  BY <1>9, TickKeeps
<1>10. CASE UNCHANGED streamVars
  BY <1>10 DEF streamVars, StreamInv, StreamTypeOK, Waits, Sockets, Waiting, ConnectionSettled
<1>. QED BY <1>1, <1>2, <1>3, <1>4, <1>5, <1>6, <1>7, <1>8, <1>9, <1>10 DEF StreamNext, AdapterStep

\* StreamInv holds of a stream that has not begun.
LEMMA InitKeeps ==
    ASSUME NEW bytes \in Nat, StreamInit(bytes)
    PROVE  StreamInv
BY StreamAssumption DEF StreamInit, StreamInv, StreamTypeOK, Stages, Waits, Sockets, Waiting, ConnectionSettled

\* StreamInv holds in every reachable state of a stream.
THEOREM StreamInvariant == StreamSpec => []StreamInv
<1>1. (\E bytes \in Nat : StreamInit(bytes)) => StreamInv
  BY InitKeeps
<1>2. StreamInv /\ [StreamNext]_streamVars => StreamInv'
  BY StepKeeps
<1>. QED BY <1>1, <1>2, PTL DEF StreamSpec

\* Whatever ends a stream, its connection is closed, or back in the pool with
\* nothing of the body left in it.
THEOREM StreamConnectionSettled == StreamSpec => []ConnectionSettled
<1>1. StreamInv => ConnectionSettled
  BY DEF StreamInv, Sockets
<1>. QED BY <1>1, StreamInvariant, PTL

\* Only an arrival hands something to the caller.
LEMMA AdapterHandsNothing == ASSUME AdapterStep PROVE got' = got
<1>1. ASSUME NEW c, NEW m, FirstRead(c, m) \/ NextRead(c, m) PROVE got' = got
  BY <1>1 DEF FirstRead, NextRead, Fail, Finish, Read
<1>2. ASSUME NEW c, EndOfBody(c) PROVE got' = got
  BY <1>2 DEF EndOfBody, Fail, Finish
<1>3. LibraryCut => got' = got
  BY DEF LibraryCut, Fail, Finish
<1>4. HttpStream \/ HttpRefusal => got' = got
  BY <1>1, <1>2 DEF HttpStream, HttpRefusal, Flush_decoder, Fail, Finish
<1>5. RequestsStream \/ Urllib3Stream \/ HttpxStream \/ HttpxAsyncStream \/ AiohttpStream => got' = got
  BY <1>1, <1>2, <1>3 DEF RequestsStream, Urllib3Stream, HttpxStream, HttpxAsyncStream, AiohttpStream, Finish
<1>6. Open \/ Refused \/ RefusalRead \/ Abandon => got' = got
  BY DEF Open, Refused, RefusalRead, Abandon, Fail, Finish
<1>7. ReadTimeout \/ DeadlineTimer \/ Reset \/ Corrupt => got' = got
  BY DEF ReadTimeout, DeadlineTimer, Reset, Corrupt, Fail, Finish
<1>. QED BY <1>4, <1>5, <1>6, <1>7 DEF AdapterStep

\* And it does so in time.
LEMMA StepInTime ==
    ASSUME StreamInv, StreamNext
    PROVE  got' # got => ~ Expired
<1>1. ASSUME NEW n \in Nat \ {0}, Arrive(n) PROVE got' # got => ~ Expired
  BY <1>1 DEF Arrive, Fail, Finish
<1>2. CASE Tick
  BY <1>2 DEF Tick
<1>. QED BY <1>1, <1>2, AdapterHandsNothing DEF StreamNext

\* DeadlineKept of one step.
LEMMA DeadlineStep ==
    ASSUME StreamInv, StreamInv', StreamNext
    PROVE  /\ got' # got => ~ Expired
           /\ at' = "reading" /\ deadline # Never /\ clock' > deadline =>
                adapter \in {"requests", "urllib3"} \/ (adapter = "httpx" /\ since' <= deadline)
<1>1. got' # got => ~ Expired
  BY StepInTime
<1>2. adapter' = adapter /\ deadline' = deadline
  BY DEF StreamNext, AdapterStep, Tick, settings
<1>3. ASSUME at' = "reading", deadline # Never, clock' > deadline
      PROVE  adapter \in {"requests", "urllib3"} \/ (adapter = "httpx" /\ since' <= deadline)
  <2>1. /\ limit' # Never => clock' <= since' + limit' /\ limit' \in Nat
        /\ clock' \in Nat /\ since' \in Nat /\ deadline \in Nat
    BY <1>2, <1>3 DEF StreamInv, StreamTypeOK, Waits, Waiting
  <2>2. /\ adapter = "http" => limit' # Never /\ since' + limit' <= deadline
        /\ adapter \in {"httpx_async", "aiohttp"} => clock' <= deadline
        /\ adapter = "httpx" => since' <= deadline
    BY <1>2, <1>3 DEF StreamInv, Waits
  <2>3. adapter \in Adapters
    BY DEF StreamInv, StreamTypeOK
  <2>4. adapter # "http"
    <3>1. \A m, n, k, d \in Nat : m > d /\ m <= n + k => ~ (n + k <= d)
      OBVIOUS
    <3>. QED BY <1>3, <2>1, <2>2, <3>1
  <2>5. ~ (clock' <= deadline)
    <3>1. \A m, n \in Nat : m > n => ~ (m <= n)
      OBVIOUS
    <3>. QED BY <1>3, <2>1, <3>1
  <2>. QED BY <2>2, <2>3, <2>4, <2>5 DEF Adapters
<1>. QED BY <1>1, <1>3

\* In every adapter a chunk is handed over before the deadline only, and a
\* read is still under way past it only where the adapter never renews the
\* socket timeout, or began before the deadline.
THEOREM StreamDeadlineKept == StreamSpec => DeadlineKept
<1>1. StreamInv /\ StreamInv' /\ StreamNext =>
          /\ got' # got => ~ Expired
          /\ at' = "reading" /\ deadline # Never /\ clock' > deadline =>
                adapter \in {"requests", "urllib3"} \/ (adapter = "httpx" /\ since' <= deadline)
  BY DeadlineStep
<1>. QED BY <1>1, StreamInvariant, PTL DEF StreamSpec, DeadlineKept

\* What may end a refused request: named by the errors of its adapter.
Refusal(how) ==
    \/ how = "status"
    \/ how = "native" /\ reply.coding = "gzip" /\ cut' # "framing"
    \/ how = "deadline" /\ adapter = "httpx_async" /\ Expired

\* What an error makes of a refusal.
LEMMA RefusedFails ==
    ASSUME StreamInv, at = "refused", NEW kind, Fail(kind)
    PROVE  /\ kind \in {"timeout", "reset", "cut"} => raised' = "status"
           /\ kind = "corrupt" => raised' = "native"
           /\ kind = "deadline" => raised' = "status" \/ (raised' = "deadline" /\ adapter # "aiohttp")
BY ErrorsNamed DEF Fail, Finish, preserve_response_status, StreamInv, StreamTypeOK

\* RefusalsKept of one step.
LEMMA RefusalStep ==
    ASSUME StreamInv, at = "refused", at' = "done", StreamNext
    PROVE  Refusal(raised')
<1>1. cut = "no"
  BY Uncut
<1>2. CASE RefusalRead
  BY <1>2 DEF RefusalRead, Finish, Refusal
<1>3. CASE ReadTimeout \/ Reset
  BY <1>3, RefusedFails DEF ReadTimeout, Reset, Refusal
<1>4. CASE DeadlineTimer
  <2>1. Fail("deadline") /\ Expired /\ adapter \in {"aiohttp", "httpx_async"}
    BY <1>4 DEF DeadlineTimer, Cancels
  <2>. QED BY <2>1, RefusedFails DEF Refusal
<1>5. CASE Corrupt
  <2>1. Fail("corrupt") /\ reply.coding = "gzip" /\ cut' = "no"
    BY <1>1, <1>5 DEF Corrupt, Inflating
  <2>. QED BY <2>1, RefusedFails DEF Refusal
<1>6. CASE HttpRefusal
  <2>1. Fail("cut")
    BY <1>6 DEF HttpRefusal
  <2>. QED BY <2>1, RefusedFails DEF Refusal
<1>7. CASE LibraryCut
  <2>1. CASE ConnectionCut /\ Fail("cut")
    BY <2>1, RefusedFails DEF Refusal
  <2>2. CASE TrailerMissing /\ Inflating /\ Fail("corrupt")
    <3>1. reply.coding = "gzip" /\ cut' = "trailer"
      BY <2>2 DEF TrailerMissing
    <3>. QED BY <2>2, <3>1, RefusedFails DEF Refusal
  <2>3. CASE Finish(IF at = "refused" THEN "status" ELSE "ended", TRUE)
    BY <2>3 DEF Finish, Refusal
  <2>. QED BY <1>7, <2>1, <2>2, <2>3 DEF LibraryCut
<1>8. CASE TrailerMissing /\ Finish("native", TRUE)
  BY <1>8 DEF TrailerMissing, Finish, Refusal
<1>9. RefusalRead \/ ReadTimeout \/ Reset \/ DeadlineTimer \/ Corrupt \/ HttpRefusal
         \/ LibraryCut \/ (TrailerMissing /\ Finish("native", TRUE))
  <2>1. ~ Tick /\ \A n : ~ Arrive(n)
    BY DEF Tick, Arrive
  <2>2. ~ HttpStream
    BY DEF HttpStream, FirstRead, NextRead, EndOfBody
  <2>3. \A c, m : ~ FirstRead(c, m) /\ ~ NextRead(c, m) /\ ~ EndOfBody(c)
    BY DEF FirstRead, NextRead, EndOfBody
  <2>4. ~ Open /\ ~ Refused /\ ~ Abandon
    BY DEF Open, Refused, Abandon
  <2>. QED BY <2>1, <2>2, <2>3, <2>4 DEF StreamNext, AdapterStep, RequestsStream, Urllib3Stream,
           HttpxStream, HttpxAsyncStream, AiohttpStream
<1>. QED BY <1>2, <1>3, <1>4, <1>5, <1>6, <1>7, <1>8, <1>9

\* An interrupted error body hides the status of a refused request from no
\* adapter: only a body that cannot be inflated does, and the deadline of the
\* asynchronous httpx adapter.
THEOREM StreamRefusalsKept == StreamSpec => RefusalsKept
<1>1. StreamInv /\ StreamNext /\ at = "refused" /\ at' = "done" => Refusal(raised')
  BY RefusalStep
<1>. QED BY <1>1, StreamInvariant, PTL DEF StreamSpec, RefusalsKept, Refusal
-----------------------------------------------------------------------------
(* How a stream ends                                                       *)

Cuts == {"no", "framing", "trailer"}

\* The three ways a stream may end without an error.
EndKnown ==
    /\ reply.framing \in {"length", "chunked"} /\ cut \in Cuts
    /\ at # "done" => raised = "none"
    /\ raised = "ended" =>
        /\ cut = "no" => got = reply.bytes
        /\ cut = "framing" => adapter = "http" /\ reply.framing = "length" /\ ~ Inflating
        /\ cut = "trailer" => adapter # "http" \/ ~ Inflating

\* A step that does not end the stream, or ends it with an error.
Unended ==
    /\ at # "done" /\ cut' \in Cuts
    /\ raised' # "ended" /\ (at' # "done" => raised' = raised)

LEMMA UnendedKeeps ==
    ASSUME EndKnown, Unended, UNCHANGED settings
    PROVE  EndKnown'
BY DEF EndKnown, Unended, settings

Errors == {"deadline", "timeout", "reset", "cut", "corrupt"}

\* normalize_errors names no error as an end.
LEMMA FailUnended ==
    ASSUME adapter \in Adapters, at # "done", cut' \in Cuts, NEW kind \in Errors, Fail(kind)
    PROVE  Unended
BY ErrorsNamed DEF Fail, Finish, preserve_response_status, Errors, Unended

LEMMA ReadsUnended ==
    ASSUME adapter \in Adapters, EndKnown, NEW checked, NEW maximum,
           FirstRead(checked, maximum) \/ NextRead(checked, maximum)
    PROVE  Unended
<1>1. at \in {"headers", "handed"} /\ cut' = cut /\ cut \in Cuts /\ raised = "none"
  BY DEF FirstRead, NextRead, EndKnown
<1>2. CASE Fail("deadline")
  BY <1>1, <1>2, FailUnended DEF Errors
<1>3. CASE Read(maximum)
  BY <1>1, <1>3 DEF Read, Unended
<1>. QED BY <1>2, <1>3 DEF FirstRead, NextRead

\* The body read to its end brought all its bytes.
LEMMA EndOfBodyKnown ==
    ASSUME StreamInv, EndKnown, NEW checked, EndOfBody(checked), UNCHANGED settings
    PROVE  EndKnown'
<1>1. at = "reading" /\ got = reply.bytes /\ cut' = "no"
  BY Uncut DEF EndOfBody
<1>2. CASE Fail("deadline")
  BY <1>1, <1>2, FailUnended, UnendedKeeps DEF Errors, Cuts, StreamInv, StreamTypeOK
<1>3. CASE Finish("ended", TRUE)
  BY <1>1, <1>3 DEF Finish, EndKnown, Cuts, settings
<1>. QED BY <1>2, <1>3 DEF EndOfBody

\* What http.client and the decoder's flush notice of a cut.
LEMMA HttpEndKnown ==
    ASSUME StreamInv, EndKnown, HttpStream \/ HttpRefusal, UNCHANGED settings
    PROVE  EndKnown'
<1>1. adapter = "http" /\ adapter \in Adapters
  BY DEF HttpStream, HttpRefusal, StreamInv, StreamTypeOK
<1>2. ASSUME NEW c, NEW m, FirstRead(c, m) \/ NextRead(c, m) PROVE EndKnown'
  BY <1>1, <1>2, ReadsUnended, UnendedKeeps
<1>3. CASE EndOfBody(TRUE)
  BY <1>3, EndOfBodyKnown
<1>4. ASSUME at \in {"reading", "refused"}, cut' \in Cuts, Fail("cut") \/ Fail("deadline")
      PROVE  EndKnown'
  BY <1>1, <1>4, FailUnended, UnendedKeeps DEF Errors
<1>5. CASE at = "reading" /\ ~ Inflating /\ Finish("ended", TRUE)
           /\ \/ cut' = "framing" /\ reply.framing # "chunked"
              \/ cut' = "trailer"
  BY <1>1, <1>5 DEF Finish, EndKnown, Inflating, Cuts, settings
<1>. QED BY <1>2, <1>3, <1>4, <1>5
     DEF HttpStream, HttpRefusal, ConnectionCut, TrailerMissing, Flush_decoder, Cuts

\* A library that takes no notice of a missing trailer ends the stream.
LEMMA LibraryEndKnown ==
    ASSUME StreamInv, EndKnown, UNCHANGED settings,
           RequestsStream \/ Urllib3Stream \/ HttpxStream \/ HttpxAsyncStream \/ AiohttpStream
    PROVE  EndKnown'
<1>1. adapter # "http" /\ adapter \in Adapters
  BY DEF RequestsStream, Urllib3Stream, HttpxStream, HttpxAsyncStream, AiohttpStream, StreamInv,
         StreamTypeOK
<1>2. ASSUME NEW c, NEW m, FirstRead(c, m) \/ NextRead(c, m) PROVE EndKnown'
  BY <1>1, <1>2, ReadsUnended, UnendedKeeps
<1>3. ASSUME NEW c, EndOfBody(c) PROVE EndKnown'
  BY <1>3, EndOfBodyKnown
<1>4. CASE LibraryCut
  <2>1. at \in {"reading", "refused"} /\ cut' \in Cuts
    BY <1>4 DEF LibraryCut, ConnectionCut, TrailerMissing, Cuts
  <2>2. CASE Fail("cut") \/ Fail("corrupt")
    BY <1>1, <2>1, <2>2, FailUnended, UnendedKeeps DEF Errors
  <2>3. CASE TrailerMissing /\ Finish(IF at = "refused" THEN "status" ELSE "ended", TRUE)
    BY <1>1, <2>1, <2>3 DEF TrailerMissing, Finish, EndKnown, settings
  <2>. QED BY <1>4, <2>2, <2>3 DEF LibraryCut
<1>5. CASE TrailerMissing /\ Finish("native", TRUE)
  BY <1>5, UnendedKeeps DEF TrailerMissing, Finish, Unended, Cuts
<1>. QED BY <1>2, <1>3, <1>4, <1>5
     DEF RequestsStream, Urllib3Stream, HttpxStream, HttpxAsyncStream, AiohttpStream

LEMMA EndStep ==
    ASSUME StreamInv, EndKnown, StreamNext
    PROVE  EndKnown' /\ UNCHANGED settings
<1> USE DEF StreamInv, StreamTypeOK
<1>1. CASE AdapterStep
  <2>1. UNCHANGED settings
    BY <1>1 DEF AdapterStep
  <2>2. CASE Open \/ Refused \/ RefusalRead \/ Abandon
    <3>1. at # "done" /\ cut' = cut /\ cut \in Cuts /\ raised = "none"
      BY <2>2 DEF Open, Refused, RefusalRead, Abandon, EndKnown
    <3>2. CASE Fail("deadline")
      BY <2>1, <3>1, <3>2, FailUnended, UnendedKeeps DEF Errors
    <3>3. CASE ~ Fail("deadline")
      BY <2>1, <2>2, <3>1, <3>3, UnendedKeeps
         DEF Open, Refused, RefusalRead, Abandon, Finish, Unended
    <3>. QED BY <3>2, <3>3
  <2>3. CASE ReadTimeout \/ DeadlineTimer \/ Reset \/ Corrupt
    <3>1. /\ at # "done" /\ cut' \in Cuts
          /\ \E kind \in Errors : Fail(kind)
      BY <2>3 DEF ReadTimeout, DeadlineTimer, Reset, Corrupt, Waiting, EndKnown, Errors
    <3>. QED BY <2>1, <3>1, FailUnended, UnendedKeeps
  <2>4. CASE HttpStream \/ HttpRefusal
    BY <2>1, <2>4, HttpEndKnown
  <2>5. CASE RequestsStream \/ Urllib3Stream \/ HttpxStream \/ HttpxAsyncStream \/ AiohttpStream
    BY <2>1, <2>5, LibraryEndKnown
  <2>. QED BY <1>1, <2>1, <2>2, <2>3, <2>4, <2>5 DEF AdapterStep
<1>2. ASSUME NEW n \in Nat \ {0}, Arrive(n), UNCHANGED settings PROVE EndKnown'
  <2>1. at = "reading" /\ cut' = cut /\ cut \in Cuts
    BY <1>2 DEF Arrive, EndKnown
  <2>2. CASE Fail("deadline")
    BY <1>2, <2>1, <2>2, FailUnended, UnendedKeeps DEF Errors
  <2>3. CASE at' = "handed" /\ raised' = raised
    BY <1>2, <2>1, <2>3, UnendedKeeps DEF Unended, EndKnown
  <2>. QED BY <1>2, <2>2, <2>3 DEF Arrive
<1>3. CASE Tick
  <2>1. at # "done" /\ UNCHANGED << settings, at, raised, cut >>
    BY <1>3 DEF Tick, Waiting
  <2>. QED BY <2>1, UnendedKeeps DEF Unended, EndKnown
<1>. QED BY <1>1, <1>2, <1>3 DEF StreamNext, Tick

-----------------------------------------------------------------------------
(* A stream that feeds the parser                                          *)

\* The parser has had every byte that was handed over, and one that gave up
\* gets no more.
Fed ==
    /\ stream \in Seq(STRING) /\ reply.bytes = Len(stream)
    /\ Parsed => pos = got
    /\ failed => at \in {"handed", "done"} /\ raised # "ended"

EventInv ==
    /\ adapter = "none" => at = "done" /\ socket = "none"
    /\ adapter # "none" => StreamInv /\ EndKnown /\ Fed

\* No step is left to a stream that is over.
LEMMA NotOver == StreamNext => at # "done"
<1>1. \A c, m : FirstRead(c, m) \/ NextRead(c, m) \/ EndOfBody(c) => at # "done"
  BY DEF FirstRead, NextRead, EndOfBody
<1>2. LibraryCut \/ TrailerMissing \/ ConnectionCut => at # "done"
  BY DEF LibraryCut, ConnectionCut, TrailerMissing
<1>3. Tick \/ (\E n \in Nat \ {0} : Arrive(n)) => at # "done"
  BY DEF Tick, Arrive, Waiting
<1>4. Open \/ Refused \/ RefusalRead \/ Abandon => at # "done"
  BY DEF Open, Refused, RefusalRead, Abandon
<1>5. ReadTimeout \/ DeadlineTimer \/ Reset \/ Corrupt => at # "done"
  BY DEF ReadTimeout, DeadlineTimer, Reset, Corrupt, Waiting
<1>. QED BY <1>1, <1>2, <1>3, <1>4, <1>5
     DEF StreamNext, AdapterStep, HttpStream, HttpRefusal, RequestsStream, Urllib3Stream,
         HttpxStream, HttpxAsyncStream, AiohttpStream

\* The caller's check of the deadline behind an event is the one step that
\* ByteStream does not have.
LEMMA EventStreamStep == EventNext => StreamNext \/ DeadlinePassed \/ UNCHANGED streamVars
<1>1. CASE FedAlone
  BY <1>1 DEF FedAlone
<1>2. CASE Handed
  <2>1. PICK n \in 1 .. MaxChunk : Arrive(n) /\ UNCHANGED settings
    BY <1>2 DEF Handed
  <2>2. n \in Nat \ {0}
    BY ParserAssumption
  <2>. QED BY <2>1, <2>2 DEF StreamNext
<1>3. CASE GivenUp
  BY <1>3 DEF GivenUp, StreamNext, AdapterStep
<1>4. CASE Streamed \/ Passing
  BY <1>4 DEF Streamed, Passing, StreamNext
<1>. QED BY <1>1, <1>2, <1>3, <1>4 DEF EventNext

\* A chunk goes to the parser with the step that hands it over.
LEMMA FedStep ==
    ASSUME adapter # "none", StreamInv, EndKnown, Fed, EventNext, UNCHANGED settings
    PROVE  Fed'
<1>1. Parsed' = Parsed
  BY DEF Parsed, settings
<1>2. CASE Handed
  <2>1. PICK n \in 1 .. MaxChunk :
          /\ Arrive(n)
          /\ IF at' = "handed" /\ Parsed THEN Feed(n) ELSE UNCHANGED vars
    BY <1>2 DEF Handed
  <2>2. at = "reading" /\ ~ failed
    BY <2>1 DEF Arrive, Fed
  <2>3. CASE at' = "handed" /\ Parsed
    <3>1. stream' = stream /\ pos' = pos + n /\ got' = got + n /\ raised' # "ended"
      BY <2>1, <2>2, <2>3 DEF Feed, Arrive, Fail, Finish, EndKnown
    <3>. QED BY <1>1, <2>3, <3>1 DEF Fed, settings
  <2>4. CASE ~ (at' = "handed" /\ Parsed)
    <3>1. UNCHANGED vars
      BY <2>1, <2>4
    <3>2. Parsed => got' = got
      BY <2>1, <2>4 DEF Arrive, Fail, Finish
    <3>. QED BY <1>1, <2>2, <3>1, <3>2 DEF Fed, vars, settings
  <2>. QED BY <2>3, <2>4
<1>3. CASE GivenUp \/ DeadlinePassed
  <2>1. UNCHANGED << vars, got >> /\ at' = "done" /\ raised' # "ended"
    BY <1>3 DEF GivenUp, DeadlinePassed, Abandon, Finish
  <2>. QED BY <1>1, <2>1 DEF Fed, vars, settings
<1>4. CASE Streamed
  <2>1. UNCHANGED vars /\ ~ (at = "handed" /\ failed) /\ at # "done" /\ AdapterStep
    BY <1>4, NotOver DEF Streamed, StreamNext
  <2>2. got' = got
    BY <2>1, AdapterHandsNothing
  <2>3. ~ failed
    BY <2>1 DEF Fed
  <2>. QED BY <1>1, <2>1, <2>2, <2>3 DEF Fed, vars, settings
<1>5. CASE Passing
  BY <1>1, <1>5 DEF Passing, Tick, Fed, vars, settings
<1>6. CASE FedAlone
  BY <1>6 DEF FedAlone
<1>. QED BY <1>2, <1>3, <1>4, <1>5, <1>6 DEF EventNext

LEMMA EventStep == ASSUME EventInv, [EventNext]_eventVars PROVE EventInv'
<1>1. CASE UNCHANGED eventVars
  <2>1. UNCHANGED << streamVars, vars >>
    BY <1>1 DEF eventVars
  <2>2. adapter # "none" => StreamInv'
    BY <2>1, StepKeeps DEF EventInv
  <2>. QED BY <2>1, <2>2 DEF EventInv, EndKnown, Fed, Parsed, Inflating, streamVars, vars
<1>2. CASE EventNext /\ adapter = "none"
  <2>1. UNCHANGED streamVars
    BY <1>2, EventStreamStep, NotOver DEF EventInv, DeadlinePassed
  <2>. QED BY <1>2, <2>1 DEF EventInv, streamVars
<1>3. CASE EventNext /\ adapter # "none"
  <2>1. StreamInv /\ EndKnown /\ Fed
    BY <1>3 DEF EventInv
  <2>2. CASE StreamNext
    <3>1. StreamInv' /\ EndKnown' /\ UNCHANGED settings
      BY <2>1, <2>2, StepKeeps, EndStep
    <3>2. Fed'
      BY <1>3, <2>1, <3>1, FedStep
    <3>. QED BY <1>3, <3>1, <3>2 DEF EventInv, settings
  <2>3. CASE DeadlinePassed
    <3>1. /\ at = "handed" /\ Finish("deadline", FALSE) /\ UNCHANGED << cut, settings >>
      BY <2>3 DEF DeadlinePassed
    <3>2. StreamInv'
      BY <2>1, <3>1, FinishSettles
    <3>3. EndKnown'
      BY <2>1, <3>1, UnendedKeeps DEF Finish, Unended, EndKnown
    <3>4. Fed'
      BY <1>3, <2>1, <3>1, FedStep
    <3>. QED BY <1>3, <3>1, <3>2, <3>3, <3>4 DEF EventInv, settings
  <2>4. CASE UNCHANGED streamVars
    <3>1. StreamInv' /\ UNCHANGED settings
      BY <2>1, <2>4, StepKeeps DEF streamVars, settings
    <3>2. EndKnown'
      BY <2>1, <2>4 DEF EndKnown, Inflating, streamVars
    <3>3. Fed'
      BY <1>3, <2>1, <3>1, FedStep
    <3>. QED BY <1>3, <3>1, <3>2, <3>3 DEF EventInv, settings
  <2>. QED BY <1>3, <2>2, <2>3, <2>4, EventStreamStep
<1>. QED BY <1>1, <1>2, <1>3

\* Connection, clock, bytes and parser of a stream fit together in every
\* reachable state.
THEOREM EventsInvariant == EventSpec => []EventInv
<1>1. EventInit => EventInv
  <2>1. CASE Alone
    BY <2>1 DEF Alone, EventInv
  <2>2. CASE /\ stream \in ServedStreams /\ pos = 0 /\ failed = FALSE
             /\ StreamInit(Len(stream))
    <3>1. stream \in Seq(STRING) /\ Len(stream) \in Nat
      BY <2>2, StreamsAssumption
    <3>2. StreamInv
      BY <2>2, <3>1, InitKeeps
    <3>3. EndKnown /\ Fed
      BY <2>2, <3>1 DEF StreamInit, EndKnown, Cuts, Fed
    <3>4. adapter # "none"
      BY <3>2 DEF StreamInv, StreamTypeOK, Adapters
    <3>. QED BY <3>2, <3>3, <3>4 DEF EventInv
  <2>. QED BY <2>1, <2>2 DEF EventInit
<1>2. EventInv /\ [EventNext]_eventVars => EventInv'
  BY EventStep
<1>. QED BY <1>1, <1>2, PTL DEF EventSpec

\* The connection of iter_operation_events is given back, too, when its parser
\* gives up or the deadline passes behind an event.
THEOREM EventsConnectionSettled == EventSpec => []ConnectionSettled
<1>1. EventInv => ConnectionSettled
  BY DEF EventInv, StreamInv, Sockets, ConnectionSettled
<1>. QED BY <1>1, EventsInvariant, PTL

\* Feeding a parser delays no chunk past the deadline.
THEOREM EventsDeadlineKept == EventSpec => DeadlineKept
<1>1. ASSUME EventInv, EventInv', [EventNext]_eventVars
      PROVE  [/\ got' # got => ~ Expired
              /\ at' = "reading" /\ deadline # Never /\ clock' > deadline =>
                    \/ adapter \in {"requests", "urllib3"}
                    \/ adapter = "httpx" /\ since' <= deadline]_streamVars
  <2>1. CASE StreamNext
    <3>1. at # "done" /\ UNCHANGED settings
      BY <2>1, NotOver DEF StreamNext, AdapterStep, Tick
    <3>2. StreamInv /\ StreamInv'
      BY <1>1, <3>1 DEF EventInv, settings
    <3>. QED BY <2>1, <3>2, DeadlineStep
  <2>2. CASE DeadlinePassed
    BY <2>2 DEF DeadlinePassed, Finish
  <2>3. CASE UNCHANGED streamVars
    BY <2>3
  <2>. QED BY <1>1, <2>1, <2>2, <2>3, EventStreamStep DEF eventVars
<1>. QED BY <1>1, EventsInvariant, PTL DEF EventSpec, DeadlineKept

\* Nor does it change what ends a refused request.
THEOREM EventsRefusalsKept == EventSpec => RefusalsKept
<1>1. ASSUME EventInv, [EventNext]_eventVars
      PROVE  [at = "refused" /\ at' = "done" => Refusal(raised')]_streamVars
  <2>1. CASE StreamNext
    <3>1. StreamInv
      BY <1>1, <2>1, NotOver DEF EventInv
    <3>. QED BY <2>1, <3>1, RefusalStep
  <2>2. CASE DeadlinePassed
    BY <2>2 DEF DeadlinePassed
  <2>3. CASE UNCHANGED streamVars
    BY <2>3
  <2>. QED BY <1>1, <2>1, <2>2, <2>3, EventStreamStep DEF eventVars
<1>. QED BY <1>1, EventsInvariant, PTL DEF EventSpec, RefusalsKept, Refusal

\* What EndIsWhole says of the bytes.
BytesWhole ==
    adapter # "none" /\ raised = "ended" /\ cut = "no" => got = Len(stream) /\ (Parsed => pos = got)

\* A stream that ends without an error, and was not cut, handed every byte
\* over, and its parser had every one of them.
THEOREM EventsBytesWhole == EventSpec => []BytesWhole
<1>1. EventInv => BytesWhole
  BY DEF EventInv, EndKnown, Fed, BytesWhole
<1>. QED BY <1>1, EventsInvariant, PTL

-----------------------------------------------------------------------------
(* What the parser makes of the bytes                                      *)

\* The parser is fed bytes of the stream in order, whoever feeds it: ParserInv
\* of SSEParserProofs holds in every reachable state.
THEOREM EventsParsed == EventSpec => []ParserInv
<1>1. EventInit => ParserInv
  <2>1. CASE Alone
    <3>1. stream \in Seq(STRING)
      BY <2>1, ParserAssumption DEF Alone, Init
    <3>. QED BY <2>1, <3>1, ParserStarts DEF Alone, Init
  <2>2. CASE stream \in ServedStreams /\ pos = 0 /\ buffer = << >> /\ pending = NoFrame
             /\ frames = << >> /\ failed = FALSE
    <3>1. stream \in Seq(STRING)
      BY <2>2, StreamsAssumption
    <3>. QED BY <2>2, <3>1, ParserStarts
  <2>. QED BY <2>1, <2>2 DEF EventInit
<1>2. ASSUME ParserInv, [EventNext]_eventVars
      PROVE  ParserInv'
  <2>1. ASSUME NEW n \in 1 .. MaxChunk, Feed(n) PROVE ParserInv'
    BY <1>2, <2>1, ParserAssumption, FeedStep
  <2>2. CASE UNCHANGED vars
    BY <1>2, <2>2 DEF vars, ParserInv
  <2>3. CASE FedAlone
    BY <2>1, <2>3 DEF FedAlone, Next
  <2>4. CASE Handed
    BY <2>1, <2>2, <2>4 DEF Handed
  <2>5. CASE GivenUp \/ DeadlinePassed \/ Streamed \/ Passing \/ UNCHANGED eventVars
    BY <2>2, <2>5 DEF GivenUp, DeadlinePassed, Streamed, Passing, eventVars
  <2>. QED BY <1>2, <2>3, <2>4, <2>5 DEF EventNext
<1>. QED BY <1>1, <1>2, PTL DEF EventSpec

\* Whatever the bytes, in whatever chunks they come and whatever the cap, the
\* frames that SSEParser.feed returns are those of the bytes as a whole, until
\* it gives up.
THEOREM EventsFramesAsWhole == EventSpec => []FramesAsWhole
<1>. QED BY EventsParsed, FramesKept, PTL

\* Nor does what SSEParser holds, the line begun and the data values of the
\* frame begun, ever pass max_buffer.
THEOREM EventsValuesCapped == EventSpec => []ValuesCapped
<1>. QED BY EventsParsed, CapKept, PTL

\* A stream that ends without an error brought every byte and every frame, or
\* was cut in one of the two ways that pass unnoticed.
THEOREM EventsEndIsWhole == EventSpec => []EndIsWhole
<1>1. ASSUME EventInv, FramesAsWhole, adapter # "none", raised = "ended"
      PROVE  CASE cut = "no"      -> got = Len(stream) /\ (Parsed => frames = FramesOf(stream))
               [] cut = "framing" -> adapter = "http" /\ reply.framing = "length" /\ ~ Inflating
               [] cut = "trailer" -> adapter # "http" \/ ~ Inflating
  <2>1. EndKnown /\ Fed
    BY <1>1 DEF EventInv
  <2>2. CASE cut = "no"
    <3>1. got = Len(stream) /\ stream \in Seq(STRING) /\ (Parsed => pos = got) /\ ~ failed
      BY <1>1, <2>1, <2>2 DEF EndKnown, Fed
    <3>2. SubSeq(stream, 1, Len(stream)) = stream
      BY <3>1
    <3>3. Parsed => frames = FramesOf(stream)
      BY <1>1, <3>1, <3>2 DEF FramesAsWhole
    <3>. QED BY <2>2, <3>1, <3>3
  <2>3. CASE cut = "framing"
    BY <1>1, <2>1, <2>3 DEF EndKnown
  <2>4. CASE cut = "trailer"
    BY <1>1, <2>1, <2>4 DEF EndKnown
  <2>. QED BY <2>1, <2>2, <2>3, <2>4 DEF EndKnown, Cuts
<1>2. EventInv /\ FramesAsWhole => EndIsWhole
  BY <1>1 DEF EndIsWhole
<1>. QED BY <1>2, EventsInvariant, EventsFramesAsWhole, PTL
=============================================================================
