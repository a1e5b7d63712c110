------------------------------ MODULE EventStream ----------------------------
(***************************************************************************)
(* One connection of iter_operation_events: the chunks of a byte stream    *)
(* feed the parser, whose frames go to the caller.  ByteStream says how    *)
(* the bytes arrive and end, SSEParser what becomes of them.               *)
(*                                                                         *)
(* A gzip stream that nothing inflates is a download: no parser reads it.  *)
(* A parser on its own, fed with any chunks, is the other start.           *)
(***************************************************************************)
EXTENDS SSEParser, ByteStream

CONSTANT ServedStreams  \* what the server of a byte stream sends

ASSUME StreamsAssumption == ServedStreams \subseteq Seq(STRING)

VARIABLE yielded        \* the caller holds an event, or a chunk of a download

eventVars == <<vars, streamVars, yielded>>

Parsed == reply.coding = "identity" \/ inflate

Alone ==
    /\ Init /\ yielded = FALSE
    /\ adapter = "none" /\ inflate = FALSE /\ reply = << >> /\ timeout = 0 /\ read_maximum = 0
    /\ deadline = Never /\ clock = 0 /\ at = "done" /\ since = 0 /\ limit = 0
    /\ got = 0 /\ socket = "none" /\ raised = "none" /\ cut = "no"

EventInit ==
    \/ Alone
    \/ /\ stream \in ServedStreams
       /\ pos = 0 /\ buffer = << >> /\ pending = NoFrame /\ frames = << >> /\ failed = FALSE
       /\ StreamInit(Len(stream)) /\ yielded = FALSE
       /\ ~ Parsed => read_maximum = timeout

FedAlone == adapter = "none" /\ Next /\ UNCHANGED <<streamVars, yielded>>

\* A chunk is fed as soon as the generator hands it over.
Handed == \E n \in 1 .. MaxChunk :
    /\ Arrive(n) /\ UNCHANGED settings
    /\ IF at' = "handed" /\ Parsed THEN Feed(n) ELSE UNCHANGED vars
    /\ yielded' = (at' = "handed" /\ (Parsed => frames' # frames))

\* A parser that gives up closes the stream.
GivenUp == failed /\ Abandon /\ UNCHANGED <<settings, vars, yielded>>

\* The deadline is looked at behind every event the caller had.
DeadlinePassed ==
    /\ at = "handed" /\ Parsed /\ yielded /\ Expired
    /\ Finish("deadline", FALSE)
    /\ UNCHANGED <<cut, settings, vars, yielded>>

Streamed ==
    /\ AdapterStep
    /\ at = "handed" => ~ failed /\ (Parsed /\ yielded => ~ Expired)
    /\ UNCHANGED <<vars, yielded>>

\* Time passes at the caller only while it holds something.
Passing == Tick /\ (at = "handed" => yielded) /\ UNCHANGED <<vars, yielded>>

EventNext == FedAlone \/ Handed \/ GivenUp \/ DeadlinePassed \/ Streamed \/ Passing

\* The caller goes on with the stream or closes it, timers fire and time
\* passes; nothing obliges the server.
EventSpec ==
    /\ EventInit /\ [][EventNext]_eventVars
    /\ WF_eventVars(at \in {"start", "handed"} /\ (Streamed \/ GivenUp \/ DeadlinePassed))
    /\ WF_eventVars((ReadTimeout \/ DeadlineTimer) /\ UNCHANGED <<settings, vars, yielded>>)
    /\ WF_eventVars(Passing)

-----------------------------------------------------------------------------
\* A stream that ends without an error brought every byte and so every frame,
\* whatever became of the connection.  Two cuts pass unnoticed: http.client says
\* nothing of a body shorter than its Content-Length, which only the gzip
\* trailer then gives away, and the libraries need not miss that trailer.
EndIsWhole ==
    adapter # "none" /\ raised = "ended" =>
        CASE cut = "no"      -> got = Len(stream) /\ (Parsed => frames = FramesOf(stream))
          [] cut = "framing" -> adapter = "http" /\ reply.framing = "length" /\ ~ Inflating
          [] cut = "trailer" -> adapter # "http" \/ ~ Inflating
=============================================================================
