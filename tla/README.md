# contree-client: a TLA+ verification project

contree-client is a set of client libraries (Python, JavaScript, Go) for one
HTTP service that runs operations in container images. The three libraries are
generated from one API description for the parts that differ from endpoint to
endpoint, and written by hand for the parts that are hard: connections, retries,
deadlines and event streams. This directory models the hand-written core, the
generated API surface of the Python client, and the step that publishes generated
files.

* [1. The system](#1-the-system): the components, their state, how they interact
* [2. The modules](#2-the-modules): what each models and how it maps to the code
* [3. The runs](#3-the-runs): what TLC checks, the bounds, the fairness
* [4. The proofs](#4-the-proofs): what TLAPS proves and along which argument
* [5. What the code does not do](#5-what-the-code-does-not-do): the six violations
* [6. Limits](#6-limits): abstractions, assumptions, what is not modelled
* [7. Plan](#7-plan): the order of the modules, and what comes next

Source paths are relative to the repository root. `PROJECT.json` maps each
definition to its lines.

## 1. The system

### Components

| Component | Where | State it keeps | Operations |
|---|---|---|---|
| Connection pool | `client/contree_client/http.py` 107-189 | deque of idle connections, counter `created`, a `threading.Condition` and its queue | `acquire`, `release`, `discard`, `close` |
| http.client adapter | same, 192-400 | the pool; per call a borrowed connection and a body position | `request`, `stream`, `close` |
| other Python adapters | `aiohttp.py`, `httpx.py`, `urllib3.py`, `requests.py` | a session of the library, owned or borrowed | the same three |
| Python retry loop | `base.py` `call` (sync 306-390, async 2654-2758) | attempts, delays, deadline | one buffered call |
| JavaScript retry loop | `client-js/lib/client.js` 178-329 | attempts, abort timer | `request`, `_reconnecting`, `call` |
| Go retry loop | `go/v1/client.go` 327-559 | attempts, a context for each attempt | `do`, `execute` |
| SSE parser | `runtime.py` 565-654; `runtime.js`; `stream.go` | unterminated line, pending frame, its size | `feed`, `flush` |
| Python/JS event follower | `base.py` 432-611; `client.js` | cursor, terminal flag, drain counter, open stream | `follow_operation_events`, `operation_terminal` |
| Go event follower | `go/v1/operation_helpers.go` 53-386 | the same, plus the parser's last id | `Next`, `recoverStream`, `OperationTerminal` |
| `wait_operation` | `base.py` 445-503 and the async, JS and Go twins | kind, last status | one composed call |
| JS and Go streams | `client.js` 331-469; `client.go`, `stream.go` | abort or idle timer, open body | `stream`, `doStream`, `Next`, `Close` |
| pagination | `base.py` `iter_*`; `go/v1/pagination.go`; `client.js` | offset, number fetched | iteration |
| `ensure_file` | `base.py` 624-646, `runtime.py` `file_sha256` and the twins | the position of the caller's file | one composed call |
| models | `models.py` | none; `from_dict`, `to_dict`, `parse_event_data` | reading and writing JSON |
| operations and client methods | `operations.py`; `base.py` (47 methods of each client) | none that outlives a call, but an open stream | `build_*`, `parse_*`, one method each |
| test doubles | `testing.py`, `testing.js`, `testing.go` | queue of outcomes for each operation | `mock`, `take` |
| code generator | `codegen/api_generator` | IR; a staging directory | `generate` |
| profiles, generated code of JavaScript and Go, docs, CI | see `PROJECT.json` | none that changes | |

### How they interact

A caller's method builds a `RequestSpec` and hands it to `call`, the retry loop,
which calls `request` of an adapter once for each attempt. The `http.client`
adapter borrows a connection from the pool, shared by all threads of a client,
and may send a request again by itself when the pooled connection turns out to be
stale. Event streams go around the retry loop: `iter_operation_events` reads
`stream` of an adapter, through the gzip decoder, the SSE parser and
`decode_event_frame`; `follow_operation_events` opens such a stream again behind
its cursor whenever it breaks, and asks for the operation's status in between;
`wait_operation` reads the status, runs the follower, and polls the status at the
end. One deadline, an instant of the monotonic clock, is passed through all of it.

    wait_operation -> follow_operation_events -> iter_operation_events -> stream
          |                    |                   (SSEParser)
          +---- status --------+-----> call ---> request ---> ConnectionPool
                                    (retry loop)

### What is hard, and what makes each component correct

* **Pool.** Threads race for a deque, a counter and a wait queue, a wait may time
  out while a notify is on its way, a dial may fail with its slot taken, and the
  server closes idle connections whenever it likes. Correct: the slot count is
  exact and under the cap, no connection is shared, and nobody sleeps beside free
  capacity.
* **Adapter.** A request may fail at any stage and the connection with it. Correct:
  a non-idempotent request is not executed twice, a response is read by the thread
  that asked for it, a body is sent from its start, and every exit hands the
  connection back once.
* **Retry loops.** An attempt that failed may have been executed, may still be
  executed after the call is over, and may fail because of the very deadline that
  bounds the call. Correct: a request that is not safe to replay is executed at
  most once, attempts are bounded, the deadline and the caller's cancellation win
  over a late answer, the call ends.
* **Followers.** Streams break, hang, end early; events arrive while the status is
  being read; the status turns terminal before the tail of the log was received.
  Correct: every event once and in order, no normal end before the completion, an
  end in every case.
* **wait_operation.** Correct: it does not return before the operation is over, nor
  with a status that was read too early, and the deadline ends it.
* **SSE parser.** Bytes arrive in chunks cut anywhere. Correct: the frames are those
  of the whole stream, and memory is bounded.
* **Byte streams.** The body stops anywhere, in its framing or in its compressed data;
  the caller keeps a chunk as long as it likes while a deadline passes; six adapters
  set their timeouts at different points. Correct: an end without an error is a whole
  body, a refusal shows its status, nothing is handed over late, a deadline or a limit
  on silence ends each wait, and the connection is closed or back in its pool with nothing left in it.
* **Operations and models.** An unset field, a null, a zero and a False differ on the
  wire; a newer server sends more. Correct: a request says what the caller said, a
  documented answer loses nothing, a refusal raises, and the connection of a stream
  is released when the method's generator ends, however it ends.
* **Pagination and `ensure_file`.** Other callers change the listing and the stored files
  in between. Correct: a deletion costs at most one record and a creation repeats at most
  one, and the record returned is the one of the caller's bytes.
* **Publication.** A failure between two replacements. The docstring promises that none
  shows; section 5.
* **Test doubles and Go's own streams** are planned below.

The hazards are listed at their lines in `PROJECT.json`, each with the properties
that would catch it going wrong.

## 2. The modules

| Module | Models | Composed from |
|---|---|---|
| `ConnectionPool` | the pool, one action for each critical section | |
| `ConnectionLease` | what the pool promises, without queue, lock or order | |
| `HttpRequest` | `request` of the http.client adapter over the pool | instance of `ConnectionPool` |
| `RetryContract` | what every retry loop promises | |
| `PyCall`, `JsCall`, `GoExecute` | the three retry loops, with server, network and clock | each refines `RetryContract` |
| `OperationLog` | the service: event log, status, one stream response | |
| `EventDelivery` | what a follower promises | |
| `EventFollower`, `GoFollower` | the two followers | extend `OperationLog`, refine `EventDelivery` |
| `WaitOperation` | `wait_operation` around the follower | extends `EventFollower` |
| `GoWait` | `WaitOperation` of the Go client | extends `GoFollower` |
| `OperationWaits` | both waits over one service, held to the same promises | extends `WaitOperation`, instance of `GoWait` |
| `JsStream` | `stream` of the JavaScript client: connect loop, read loop, abort timer | |
| `RetryClients` | one call of any of the three clients, or one JavaScript stream, held to the same promises | extends `PyCall`, instances of `JsCall`, `JsStream`, `GoExecute` |
| `SSEParser` | the SSE parser | |
| `ByteStream` | `stream()` of the six Python adapters, with server, network and clock | |
| `EventStream` | one connection of `iter_operation_events` | extends `SSEParser` and `ByteStream` |
| `Wire` | how a model is read from JSON and written as JSON | |
| `Models`, `Documents` | the model classes; the documents a server may send for each | extend `Wire` |
| `Operations` | `build_*` and `parse_*` of each operation | extends `Models` |
| `ApiCall`, `SyncClient`, `AsyncClient` | one call of a method; the methods of the two clients | `ApiCall` extends `Operations`, `Documents`, `Pagination`, `EnsureFile`; the clients extend it |
| `Pagination` | the loop of the `iter_*` methods over a listing that changes | |
| `EnsureFile` | `ensure_file` and `file_sha256` | |
| `ApiClient` | a caller of the two clients, of an iterator, or of `ensure_file` | extends `SyncClient`, `AsyncClient` |
| `Publication` | `generate` of the code generator | |
| `MC*` | the instances TLC checks | |
| `*Proofs`, `FoldLemmas` | theorems | |

Definitions named like `...Not`, `...Any`, `...Leaks`, each with a comment "Seeded
fault", are wrong versions of the definition that follows them. No specification
uses them: they are there to see that each property notices the bug it is about.

**ConnectionPool.** `idle`, `created` and `waiters` are the deque, the counter and
the Condition's queue; `pc`, `held` and `reused` are the locals of each thread;
`health` is what the server did to a connection, `late` the threads whose deadline
has passed. `acquire` is `Call`, then one of `GiveUp`, `TakeWarm`, `Reserve`,
`Block` under the lock, then `DialOk` or `DialFails` outside it. `TakeWarm` and
`Reserve` include the inner loop that drops stale connections, with the notify of
each. `Block` puts the thread into the queue, where it stays when its wait times
out (`WaitTimesOut`) until it has the lock again (`ResumeExpired`), as in
`threading.Condition.wait`: a notify may be spent on it. `discard` is two actions,
since it closes the connection before it takes the lock.

**HttpRequest.** `stage` is where the thread is in `request`; every step that touches
the pool conjoins the pool's own action. `wire` says whose responses a connection
still carries, so that a connection handed back with unread bytes is noticed by the
next borrower. `SendFails` covers an error before, while or after the server
executed the request. Releasing or discarding after a response is a choice
(`will_close`).

**PyCall, JsCall, GoExecute.** One call each, with `executed`, the number of times the
server ran it, and `stray`, the attempts given up that may still reach it. Time
advances by `Tick`, between the steps and not only between attempts. A policy is
`max` (0 for unlimited) and `unsafe`; a status is `"early"` (425, 429: not
processed), `"busy"` (the rest of the policy's list) or `"final"`. `PyCall` has the
synchronous and the asynchronous loop, which differ in `Cancelled`
(`asyncio.wait_for`); `JsCall` has the abort timer and the reconnect; `GoExecute` has
the caller's context, the context of each attempt, and the reading of the body
inside the attempt.

**JsStream.** `pc` is where the generator is: at the head of the connect loop, waiting for
headers, asleep between two attempts, waiting for a chunk, or `"handed"`, at a yield. `timer`
is when the one abort timer fires, `aborted` the signal it fires into, `since` a history of
when the wait under way began. Every way out behind the connect loop is `Finish`, which
disarms and cancels the reader if there is one.

**OperationLog, EventFollower, GoFollower.** Events are numbers `1 .. N`, `N` is the
completion; those in `Blank` are frames with an id and no payload. A response holds
the events up to `sent`; a following one ends when the operation is over and all is
sent, or early by a fault; it may also go silent. The status may turn terminal
before the log is complete (`early`), since nothing in the sources says otherwise.
In `EventFollower` `Head` is the head of the loop, `Open` to `EndOfStream` the body of
the `try`, `Probe` the call of `operation_terminal`. `GoFollower` takes its cursor from
the parser after every `Next` (`Captured`) and has a context for the deadline.

**RetryClients, OperationWaits.** `client` says which machine runs. The machines share the
variables they have in common, so that one promise is stated once for all; the variables
of the others stand still.

**WaitOperation, GoWait.** `mode` is the argument `follow_events`, or `"iterate"` for a caller
that follows by itself; `at` is where the wait is; the follower's steps happen at
`"follow"`.

**SSEParser.** `Feed(n)` is one call of `feed` with the next `n` bytes; `Flush` and
`TakeLine` are the operators it folds over the lines. `FramesOf` is the reference
definition: the frames of a byte sequence read off its lines, without a parser state. `Streams` are
the byte sequences that may be sent; the runs take all of a few lines, the proofs any.

**ByteStream.** `reply` is what the server does: accept or refuse, `Content-Length` or
chunked, identity or gzip, and how many bytes. `at` is where the generator is:
waiting for the headers, for a part of the body or of a refusal's body, or `"handed"`, at
a yield. `since` and `limit` are the wait under way and its socket timeout, `Never` if it has none.
`timeout` is the client's own, `read_maximum` the call's limit on silence: `Never` for an
`idle_timeout` of 0, the default (`read_timeout` is then None), and the client's timeout for
a plain stream. `header_maximum` is where http.client falls back on the client's timeout for
the headers. Each adapter
is one action made of the same parts; they differ in whether a step looks at the deadline
(the argument of `FirstRead`, `NextRead`, `EndOfBody`), in whether the timeout is set again
for each read, in a timer that cancels (`DeadlineTimer`), and in what `normalize_errors`
makes of an error. `cut` is a history: the body stopped early, in its framing or behind
it, where only the gzip trailer is missing. What the libraries make of that
(`LibraryCut`) is external.

**EventStream.** A chunk that is handed over is fed to the parser in the same step. The same
run also feeds the parser by itself, with every stream of lines (`Alone`).

**Wire, Models, Documents.** A JSON value is a record whose only field says its kind. A class
is its list of fields, in the order of the code: name, required or not, null or not, and
the conversion of `parse_fields`. `from_dict` folds over the fields and raises what Python
raises: a missing key, a conversion of a wrong kind, in the order in which the code gets to
it. `Documents` gives, for each class, the complete document, the one with each optional
field missing or null, one for each choice of a nested value, the one of a newer server,
and the ones that miss the schema in one place (`Mangled`).

**Operations, SyncClient, AsyncClient.** One operator for each function of `operations.py` and
one action for each method, under the source's names (behind `async_` for the asynchronous
client). The choice of a client is made with each call. A method names its parameters,
those that default to None and to `...`, the builder, the parser and what the service
documents. `Buffered`, `Checked`, `Streamed` and `Events` of `ApiCall` are the four shapes a
method has. What lies under `call()` is one step here: the retry loop is `PyCall`.
A generator of a stream ends in one of five ways: the body ends, the transport raises, a
frame or the deadline raises in the generator itself, the caller closes it (`Close`), or the
caller forgets it (`Drop`). The first two close the transport's stream from below. In the
next two only `closing_iterator` or `aclosing` does (`Released`). What becomes of a
generator nobody holds is up to Python's collector, in the asynchronous client to the
event loop's hook: it is dropped and not followed, and nothing is promised of it.

**Pagination.** `rank` is the listing: the place of each record. `Create` and `Delete` are the
other callers, between any two steps. A page is what the server had at `Fetch`; records
are yielded from it one by one.

**EnsureFile.** The content is named by the place in the caller's file it starts at, and so is
its digest. `Digest`, `Probe` and `Upload` are the three steps; `Again` is the caller's next call
on the same file, and `OtherUploads` the rest of the world.

**Publication.** A file is the generation of the description it was rendered from. `Raises` is a
step that fails, `Killed` the process that ends; JavaScript's page of the documentation is
published behind the package.

## 3. The runs

| Run | Instance | Shows |
|---|---|---|
| `pool_safety` | 4 threads (1 with deadlines), 2 slots, 3 connection names | cap, exclusive connections, refinement of the lease, no lost wakeup while no deadline passes, timed borrowers leave |
| `pool_lost_wakeup` | 3 threads, 1 slot | **violation**: see section 5 |
| `http_requests` | 2 threads (1 with deadlines), 1 slot, all kinds of body, 3 requests | no double execution, own response, whole body, requests end (and so connections are handed back) |
| `http_resent_once` | 2 threads, 2 slots | **violation** |
| `retry_clients` | sync and async Python, JavaScript and its streams, Go; 2 or 3 policies each, deadlines, timeouts, kinds of body | contract, attempts, bytes, outcome of a one-shot body, deadline, ends; a stream is neither late nor early, its body given back |
| `go_whole_timeout` | Go with the same policies | **violation** |
| `operation_waits` | Python/JavaScript and Go; 4 events (1 blank), 3 faults, 3 drains, all modes | delivery, cursor, wait behind completion, ends, deadline and context |
| `event_streams` | the parser: all streams of up to 4 lines of 9 forms, all cuts into chunks of 1 to 3 bytes, cap 6; six adapters: 3 streams, both framings and codings, deadlines 1 and 3 or none, timeout 2 or none | frames as of the whole, cap, whole bodies, statuses of refusals, deadline, connections, waits with a deadline or a limit end |
| `sse_frame_cap` | data lines without value | **violation** |
| `api_calls` | 47 methods of each of two clients, about 1000 documents, 17 statuses; listings of up to 4 records with 2 changes; a file of 2 bytes | requests, answers, undocumented successes, refusals, ended streams released, pages, `ensure_file` |
| `event_data_lenient` | the same with events that miss their schema | **violation** |
| `publication` | the three emitters with their files, one change of the description | **violation** |

### Bounds, and why they are enough

* *Pool.* Half as many slots as threads, so that two borrowers wait while two
  hold; one connection name more than slots, so that a fresh connection differs from
  a stale one still in the deque. A wakeup needs a giver, a woken thread, a waiter
  behind it and a thread that overtakes: four. `Threads` is fixed; nothing else is
  bounded, calls repeat without end. `pool_lost_wakeup` needs three threads only.
* *http_requests.* `MaxCalls` 3: one request leaves a connection, one meets it stale,
  one competes. One slot makes every hand-back matter. With two threads the pool's
  lost wakeup cannot occur (it takes two waiters), so `RequestEnds` is about the
  resend loop and not about that finding. `http_resent_once` needs two idle
  connections, hence two slots.
* *Calls.* `Timeout` 2 and a deadline of 0 or 3 make the attempt's timeout fall before
  and after the deadline, also across a retry; delays 0 and 2 fit and do not fit into
  what is left. `MaxTime` (`PyCall`) bounds the time requests take: beyond it every
  deadline has passed. `MaxAttempts` (`GoExecute`) bounds an unlimited policy; the guard
  is past the largest finite `max`. `MaxTime` is also `MaxWait` of `JsStream`: the last wait of a
  stream begins by then, past every deadline, so that a chunk can be kept past its timeout
  and past the deadline. No policy is a policy of one attempt in `RetryClients`,
  as the Python loop has it; it differs from every policy of the other two clients.
* *Followers.* Four events allow one behind the cursor, a blank one, one on its way,
  and the completion; three faults reach `MaxDrains`, so drains are used up in some
  behaviours and not in others. `DrainBound` in `GoFollower` bounds an unlimited drain
  and is not reached with `MaxDrains` 3.
* *SSE.* Chunks of up to three bytes cut inside a line, in front of a newline, between
  carriage return and newline and between frames; four lines make a frame followed by
  another; the cap of six is passed by some frames and not by others. `MaxChunk` is
  below the cap, as 64 KiB is below 4 MiB.
* *Streams.* Seven and six bytes allow a cut in front of, inside and behind a frame, and a
  line of eight is past the parser's cap, so the parser gives up in the middle. A
  deadline of 1 passes in the first wait, one of 3 behind a timeout of 2 has begun again;
  without a timeout only the deadline is left, or nothing. `MaxClock` bounds how long the
  caller keeps a chunk, past every deadline, and how long a wait without a limit is
  watched. `StreamSpec`
  has bodies of any length and is what the proofs are about.
* *Operations.* A method is called with the least and the most arguments, and with one
  argument away from either, so that no two arguments can hide each other; a nested
  document differs from the complete one in one choice. `MaxChunks` 2 leaves a stream in
  front of, between and behind chunks.
* *Pages.* Four records, pages of one, two and three: the listing ends inside a page, at
  its end, and is empty; two changes are a deletion and a creation, on either side of the
  boundary. `MaxFetched` is past what two changes can make an iteration yield.
* *ensure_file.* Two bytes are three places: the start, the middle and the end, where
  nothing is left to read.
* *Publication.* One change of the description is two generations; the files are the
  real ones.

### Fairness, and why the code justifies it

* *Pool, adapter:* weak fairness for each thread's own steps: threads are scheduled, a
  released lock is taken, and a dial, a send and a read end because the sockets carry
  the client's timeout. Nothing is assumed of `Call`, deadlines, the server or `Close`.
  Fairness is per thread and over the disjunction of its steps: which way an attempt
  goes stays open.
* *Calls:* weak fairness for the client's own steps and for time. The server may never
  answer: `ServerExecutes`, responses and errors of the network are under no
  fairness. The synchronous Python client has no timer of its own, so `CallsEnd` is
  conditional for Python on its requests ending (`WF_clientVars(InPython(Step)) =>`);
  `AsyncEndsByDeadline` is not. In JavaScript and Go the timer and the context are
  fair, since the runtime fires them. Of a stream, each wait for headers, and each wait for a
  chunk that has a limit, ends; how long the caller keeps a chunk is open, and so is an
  event stream without an inactivity limit.
* *Waits and followers:* weak fairness for the caller's steps, which includes receiving what
  was sent. `WaitEnds` assumes in its statement that the service keeps serving and that an
  idle timeout is set; `DeadlineEndsWait` assumes neither.
* *Byte streams:* weak fairness for the caller, who asks for the next chunk, leaves, or runs
  into its deadline; for the expiry of a socket timeout and of the deadline's timer; and for
  the clock. Nothing is assumed of the server, which may fall silent at any point. A
  stream with neither a deadline nor a limit on silence waits as long as the server is
  silent: the docstring of `iter_operation_events` says that 0 disables the limit, so
  `WaitsEnd` leaves that stream out, and says so.
* *API calls:* the caller of an iterator asks for the next record. Nothing is assumed of the
  garbage collector.
* `CHECK_DEADLOCK FALSE` stands where a behaviour ends: a call, a wait and a stream are
  over at some point, a run of requests is bounded, and so are the changes to a listing. The
  pool's runs check deadlock.

## 4. The proofs

| Module | Theorems | For every |
|---|---|---|
| `ConnectionPoolProofs` | `PoolTypeCorrect`, `PoolSlotsAccounted`, `PoolConnectionsExclusive`, `PoolNoStrandedWaiter`, `PoolImplementsLease`, `PoolLiveConnectionsCapped` | finite set of threads, set of connections, cap |
| `HttpRequestProofs` | `RequestsUsePool`, `RequestsPoolInvariant`, `RequestsNonIdempotentOnce`, `RequestsOwnResponse`, `RequestsSendWholeBody` | the same, and number of calls |
| `RetryClientsProofs` | of `PyCall` alone: `CallTypeCorrect`, `CallAttemptsBounded`, `CallLateMeansTimeout`, `CallSleepsWithinDeadline`, `CallNoLateAttempt`, `CallSameBytes`, `CallImplementsContract` | set of policies, delays, timeout, deadlines |
| | of all clients: `ClientsRequestsBounded`, `ClientsJsEndsByDeadline`, `ClientsBodyReleased`, `ClientsOneShotOutcomeKept`, `ClientsStreamTimely`, `ClientsLateMeansTimeout`, `ClientsSameBytes`, `ClientsImplementContract` | the same |
| `OperationWaitsProofs` | of Python and JavaScript: `FollowerTypeCorrect`, `FollowerCursorSound`, `FollowerDrainsBounded`, `FollowerImplementsDelivery`, `WaitImplementsFollower`, `WaitImplementsDelivery`, `WaitReturnsAfterCompletion` | log length, set of blank frames, number of faults, policy |
| | of all clients: `WaitsCursorSound`, `WaitsDrainsBounded`, `WaitsReturnAfterCompletion`, `WaitsImplementDelivery` | the same |
| `PagesAndFilesProofs` | `IterationSkipsBounded`, `IterationRepeatsBounded`, `IterationExactWhenStill` | finite set of records, page sizes, limits, number of changes |
| | `EnsureRecordOfContent` | size of the file |
| `EventStreamProofs` | of any body: `StreamConnectionSettled`, `StreamDeadlineKept`, `StreamRefusalsKept` | adapter, body, read timeout, deadline |
| | of event streams: `EventsConnectionSettled`, `EventsDeadlineKept`, `EventsRefusalsKept`, `EventsBytesWhole`, `EventsEndIsWhole`, `EventsFramesAsWhole`, `EventsValuesCapped` | the same, for every byte sequence, cap and cut into chunks |
| `SSEParserProofs`, `FoldLemmas` | the lemmas that the last three rest on | every byte sequence; every operator that is folded |

Each also states the invariant it is proved from as a theorem of its own
(`PoolInvariant`, `RequestsInvariant`, `ClientsInvariant`, `WaitsInvariant` and so on).
TLC checked each of these invariants on the run of its module before it was proved.

Assumptions: those named `...Assumption` in the modules, which say that the constants
are what the code takes (a cap of at least one, natural numbers for delays, the
completion is not a blank frame, streams are sequences of characters). TLC evaluates them
in every run.

**The pool.** `IInv` is the type, the slot count and the exclusive ownership, together.
None is inductive alone: the count `created = Len(idle) + Cardinality(Owners)` is kept
by `Release` only because the connection put back was not idle already, which is
ownership; ownership is kept by `DialOk` because a connection in use is not fresh.
Lemmas about `Suffix`, `Without` and `MoveAndNotify` say that a notify moves waiting
threads only and so leaves the owners alone.

**No stranded waiter.** `WakeInv` adds that the queue holds waiting threads, each once,
and that there are at least as many woken threads as idle connections and free
slots while anybody waits. It is inductive only while `late = {}`: the theorem is
about behaviours in which no deadline passes, and `pool_lost_wakeup` shows that it has
to be. A step that frees one unit wakes one waiter (`Release`, `FreeSlot`) and a step
that takes one is made by a woken thread or by one that leaves no unit unclaimed.

**The lease.** Each action of the pool is an action of `ConnectionLease` or a stutter. That a
reservation stays under the lease's cap counts three sets (kept, lent, slots), which
`IInv` bounds through the exact counter; the count is of sets in the lease and of a
sequence in the pool, so it also needs that the deque has at least as many entries as
connections. `LiveConnectionsCapped` adds `LiveAccounted`: a connection that the client
has not closed is idle or lent, which `TakeWarm` keeps because it closes every
connection it skips.

**Requests over the pool.** Every step of `request()` is a step of the pool or leaves it
alone (`RequestsUsePool`), so an instance of the pool's theorems gives the pool's `IInv`
under any requests (`RequestsPoolInvariant`). `RequestInv` is proved on top of it. `HeldInFlight`
says that a call is sending or reading just while its thread holds a connection; with the exclusive
ownership of the pool it makes `OnlyOwn` inductive: a response lies only on the
connection of the thread that is reading it, since a connection is handed back drained or
closed. `NonIdempotentOnce` needs `Unexecuted`: a call that is about to be sent, and is not
idempotent, was not executed, because `MayResend` lets it go back only from a stage
before the server has the request. `FromStart` says the same of the body's position.

**The retry loops.** `UnsafeUntouched` carries the contract: a request that is not safe to
replay is at the loop head only when no attempt was executed or can be any more. It
needs `Counted` (in Python `AttemptsCovered`: executed and stray attempts are covered by the
attempts made) and `AttemptsLeft` (another attempt follows only below the limit). Every loop has
an invariant of this kind, `IInv` for Python, `JsInv`, `StreamInv` and `GoInv`, which differ
where the code does: JavaScript has the one transparent reconnect, which counts as an
attempt left without a policy; Go never comes back to the head with a body that opens
once. `ClientsInv` joins them by client. `StreamInv` adds the abort timer: it is armed for the
wait under way, or it has fired and the deadline or the silence it stands for is past.
`JsTimely` in `JsInv` is why a JavaScript call ends by its deadline: with one, no timer and no
sleep is set past it, so time cannot pass it by more than the tick a timer may be late.
`ImplementsContract` follows step by step, per client.

**The followers.** `CursorSound` is not inductive: a reader may have consumed blank frames
beyond the cursor (`ReadSound`), and `ImplementsDelivery` needs that a drained read which
ends has sent the whole log unless the status was early (`TerminalSound`). Go's follower
learns of the end of a read in a variable of its own, so `GoInv` adds `EofSound`: a read of
a terminal log that met the end of the stream has delivered all of it, unless the status was
early.

**The waits.** `WaitImplementsFollower` proves `WaitSpec => Spec` of the follower, so its
theorems hold inside a wait. `WaitInv` and `GoWaitSound` say what a wait knows at each
place: behind the events it has had all of them (`EndSound`), and a terminal status it has
read is still true. `BothInv` joins the two clients.

**Pages.** `Lost` are the records that were there throughout and will not come any more,
behind the boundary the loop has asked up to (`Passed`). A deletion in front of the boundary
moves one record over it, and so does nothing else; the loop moves the boundary only
over records on its page. `RepeatInv` counts the other direction: the records that are on
the page, or ahead of the boundary, although they were yielded. Both bounds are
Cardinalities, so the lemmas say by how much a set grows in a step (`OneMore`). For the
listing that does not change, `Exactly` says what was yielded: the first `fetched` records, by
rank, with the next ones on the page. It needs `NoGap`, that the ranks of a listing are
1 to its length, which is a bijection between finite sets at the start.

**Byte streams.** `StreamInv` says what each stage knows of the clock: the wait for the headers
never passes the deadline, since it was set from what is left; a wait for the body does
not in the http.client adapter, which sets the timeout again, nor in the two
asynchronous ones, whose timer cancels; in httpx it began before the deadline. `DeadlineKept`
follows of every step. `Sockets` is inductive because every way to end a stream is
`Finish`, which closes what was not read to its end; the lemma `FinishSettles` is where each
end is checked for that. `RefusalsKept` comes from `ErrorsNamed`, the table of
`normalize_errors`: `preserve_response_status` covers exactly the transport's errors.

**Event streams.** A step of an event stream is one of `ByteStream` that feeds the parser what
it hands over, or `DeadlinePassed`, the one step `ByteStream` lacks (`EventStreamStep`). `EventInv`
adds `Fed` (the parser had each byte handed over, no more and no less) and `EndKnown`, which
lists the ways to end without an error: the whole body came, or it was cut where
http.client does not notice (a plain body with a length), or in front of the trailer
where nobody asks for it. `EventsEndIsWhole` joins it to `EventsFramesAsWhole`: a whole body is
whole frames.

**The parser.** `FramesAsWhole` compares two ways to read bytes. `feed` folds `TakeLine` over the
lines of each chunk; `FramesOf` picks sets of newlines out of the whole: the blank lines, the
field lines in front of each, the last one of a name. `MadeOf(b, i)` is the second way cut off in
front of the place `i`: the frames of the blank lines before it, and what the field lines since
the last of them make of a frame. `ParserInv` says that the buffer is the line begun at some `q`, and
that the pending frame and the frames are `MadeOf(stream, q + 1)`. `MadeOfLine` proves that one more line
does the same to `MadeOf` as `TakeLine` does: a blank line ends the block, a comment leaves it
alone, a field line joins it and is the last of its name. Positions are put in order by
`InOrder`, and the lemma `InOrderGrows` says that one behind all others comes last, whence an `Append`.
`HoldingTaken` goes from one line to all lines of a chunk, `HoldingSize` says that no line adds more to
the pending size than it has bytes, so the sum the cap is asked about does not grow while the chunk is
taken apart (`CapKept`). `FramesOfPart` closes the circle without a word about prefixes: the bytes fed and the
stream have the same lines before `q`, so the same fold.

Each of these is an induction, over the lines of a chunk, over a sum or over the sets that
the community modules define `FoldLeft` with. The induction theorems of the library take an operator as
a parameter and are out of reach; a least counterexample is not. `FoldLemmas` takes it
from the well-founded orders of the library: a nonempty set of naturals has a least
element (`LeastNat`), one of subsets of a finite set a minimal one (`LeastSubset`). From these it
proves that the recursive function behind `FoldLeft` exists and is unique, and hence that a fold ends
where any function ends that takes the same steps (`FoldInSteps`). The operator is its constant;
`SSEParserProofs` instantiates it with `TakeLine` and with the sum of lengths.

**ensure_file.** The file stands where the caller left it until the upload begins, and the
digest, once there, is of what follows that position (`FileInv`).

Left to TLC:

* everything under `~>` or `<>`: liveness and `ENABLED` are beyond the prover;
* the promises of `ApiClient` (`RequestCarriesArguments`, `DocumentedAnswersRead`,
  `RefusalsRaise`, `EndedStreamsReleased`), whose models are recursive operators; that a client runs the page loop and
  `ensure_file` of the proved modules is checked with them and not proved;
* `Publication`, whose one run is a counterexample.

## 5. What the code does not do

Six statements of the repository's docs and comments are not what the code does.
Each has a run that finds a counterexample.

1. **A borrower sleeps beside a free slot** (`pool_lost_wakeup`, `http.py:143`). A thread
   with a deadline waits, is notified, and the deadline passes before it has the lock
   again: the loop head raises `TimeoutError` and the notify is gone. The same when the
   notify finds a thread whose wait has timed out already. A thread without a
   deadline behind it in the queue sleeps on beside a free slot until the next
   return. The docstring promises that returning or discarding a connection wakes a
   blocked borrower.
2. **A request is sent again more than once** (`http_resent_once`, `http.py:305`). The
   loop goes back to `acquire`, which may hand out the next stale connection. The
   comments speak of one resend on a fresh connection.
3. **Go's timeout is per attempt** (`go_whole_timeout`, `client.go:355`). With a policy
   the call outlives the timeout; the comment of `WithTimeout` calls it the deadline of
   the whole request, retries included.
4. **Empty data lines are not counted** (`sse_frame_cap`, `runtime.py:617`). A data line
   without a value adds nothing to the size of the pending frame, though it adds a
   line and a newline to the event. The comment says that many short lines must
   not grow the event without bound.
5. **An event that misses its schema ends the stream** (`event_data_lenient`,
   `models.py:2973`). `parse_event_data` catches `KeyError`, `TypeError` and `ValueError`, but a
   nested `from_dict` on a text or a number raises `AttributeError`. The docstring says that
   such payloads are returned as they are instead of failing the stream.
6. **A failed generation leaves two generations** (`publication`, `emitter.py:66`). The files
   are replaced one after another, and a failure behind the first leaves the rest old. The
   docstring says that a failure at any step leaves the previous package untouched; the
   repository's test lets the validation fail, which comes before.

`EndIsWhole` names two cases in which a body that stopped early ends without an error, in
its statement: the http.client adapter reads with `read1`, which says nothing of an
identity body that is shorter than its `Content-Length` (a compressed one is noticed by
`flush`); and a library that inflates may accept a gzip body without its trailer. No
document says otherwise, so they are exclusions and not violations. `BodyReleased` names a
third: a JavaScript response whose headers come as the deadline passes is dropped before it
has a reader, with its body neither read nor cancelled. `RefusalsKept` names
that an error body which cannot be inflated raises the native error, and that the
asynchronous httpx adapter raises the deadline instead of the status.

## 6. Limits

* **Data.** Bodies are three kinds, connections and events are names or numbers; the
  layout of JSON and of URLs is left out (a query, a header or a path keeps its parameters and
  whether they are quoted), and compressed bytes count as the bytes they inflate to; texts are
  one of a few spellings, and a number stands for true and false too. An SSE field name with its colon is one byte,
  and the optional space behind the colon is left out.
* **Time** is counted in ticks; a timer may be a tick early (Python sockets) or late
  (JavaScript, Go).
* **Connections.** What `connection_alive` sees is the state of the connection at that
  moment; a connection the server closes later is found when it is used.
* **The service.** A retained read ends with the whole log (an early clean end of it is
  taken not to happen); a status read in `WaitOperation` is one step, whose retries are
  `PyCall` and `JsCall`; `last_event_id=0` is not told from none; the filters `spid` and
  `since` are left out.
* **JavaScript** with the timeout set to `null` is left out: only a deadline would end a
  request then. A ReadableStream as the body of a stream is a request that may not be repeated.
* **Types.** `ConnectionPool`, `PyCall` and `EventFollower` have a `TypeOK`, which the proofs
  establish; no run checks it again.
* **Byte streams.** A chunk that inflates to nothing is left out, and so is the size of an
  inflated chunk, which the parser compares with its cap. The adapters other than
  http.client have only their `stream()` modelled; their `request()` is what `PyCall` sees of
  any adapter.
* **ensure_file.** A cancelled asynchronous call whose worker thread goes on reading the file
  is left out. A call that is repeated after a failed upload, without rewinding the file,
  stores what is left of it: `RecordOfContent` is about the position the caller left it at.
* **API calls.** A success the API does not document is read like the documented one
  (any 2xx is accepted), and a stream hands over the body of any status below 400, of
  a 302 or a 304 too, as content: `http.py:372` looks for 400 and above only. No document says
  otherwise, so `DocumentedAnswersRead` and `RefusalsRaise` say what is read and what
  raises in these terms. The helpers of `StreamRepr` for payloads and the metadata of fields are left
  out. JavaScript and Go have their own emitters and are not modelled there.
* **Not modelled** are the components with that status in `PROJECT.json`, each with its
  reason. The largest is the code generator's rendering, whose output is text.

## 7. Plan

Order so far: the pool and its lease; the adapter over the pool; the three retry loops
under one contract, and JavaScript's streams beside them; the log, the delivery contract and the followers; the waits; the SSE
parser; byte streams in front of it; models, operations and the two API clients; pages
and `ensure_file`; publication; proofs next to each once its run passed.

Next, in this order:

1. **Go's `doStream` and `idleStreamBody`**: the timer against the read.
2. **The JavaScript and Go parsers**, and the size of inflated chunks.
3. **Test doubles and sessions of the other adapters**: short sequences of calls.
4. **The IR of the code generator**: cycles among schemas.

Proofs: the refinements, and every invariant and action property of a passing run but
those under "Left to TLC", are proved. Next are a bound on the resends of `HttpRequest`
and what `Publication` does leave untouched when a generation fails.

A run of TLC exists for each question and not for each module: where new modules are
added, runs are merged (a composed module replaces the run of its part, as
`operation_waits` and `retry_clients` did).
