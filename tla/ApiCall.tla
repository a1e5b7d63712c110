--------------------------------- MODULE ApiCall -------------------------------
(***************************************************************************)
(* One call of a method of the Python clients (client/contree_client/      *)
(* base.py): the caller's arguments, the request built of them, the answer *)
(* that the transport and the retry loop bring, and what the caller gets.  *)
(* SyncClient and AsyncClient give one action per method, made of          *)
(* Buffered, Checked, Streamed and Events.                                 *)
(***************************************************************************)
EXTENDS Operations, Documents, Pagination, EnsureFile

CONSTANTS
    MaxChunks,      \* chunks of a streamed body
    MangledEvents   \* the server's events may miss their schema

VARIABLES
    phase,      \* "unused", "idle", "sent", "streaming", "returned", or "left"
                \* by a caller that dropped its stream
    method,     \* the method called, its parameters and what it documents
    args,       \* what the caller gave
    spec,       \* the RequestSpec
    answer,     \* the response, or the event of the last frame
    result,     \* what the caller got last
    chunks,     \* chunks yielded so far
    source      \* the transport's stream: "none", "open", "closed", or "dropped"
                \* without a close()

vars == << phase, method, args, spec, answer, result, chunks, source >>

\* An iteration over pages and ensure_file keep a state of their own.
elsewhere == << pageVars, fileVars >>

Takes(required, none, unset, flags) ==
    [required |-> required, none |-> none, unset |-> unset, flags |-> flags]
Optionals(sig) == sig.none \cup sig.unset \cup sig.flags
Params(sig) == sig.required \cup Optionals(sig)

-----------------------------------------------------------------------------
(* What a caller may give. *)

Instances(C) == {from_dict(C, Complete(C)), from_dict(C, Minimal(C))}

ModelParams ==
    [registry |-> ImageImportRegistry, networking |-> InstanceNetworking,
     stdin |-> ClosableStreamRepr]

Numbers ==
    {"limit", "offset", "spid", "last_event_id", "max_count", "max_total", "before",
     "after", "timeout", "truncate_output_at", "uid", "gid"}
Booleans ==
    {"disposable", "shell", "preserve_env", "preserve_cwd", "close", "unpack",
     "replace", "merge"}
Sequences == {"pattern", "path", "glob"}

\* The iterators ask for one record at least.
Iterators == {"iter_images", "iter_files", "iter_operations"}

Values(m, p) ==
    CASE p = "limit" /\ m \in Iterators -> {Number(7)}
      [] p \in Numbers -> {Number(0), Number(7)}
      [] p \in Booleans -> {Number(0), Number(1)}
      [] p \in {"since", "until"} -> {Datetime("t1"), Number(0), Text("1w")}
      [] p = "status" -> {Status("PENDING"), Text("PENDING")}
      [] p = "content" -> {Bytes("content")}
      [] p \in {"tag", "env"} -> {Text(p), Null}
      [] p = "cidrs" -> {Array(<< i >>) : i \in Instances(NetworkPolicyCIDRRule)}
      [] p = "files" -> {Object([key \in {"k"} |-> from_dict(FileSpec, d)])
                            : d \in {With(Complete(FileSpec), "mode", Number(420)),
                                     Complete(FileSpec)}}
      [] p = "resources_limits" ->
            Instances(IF m = "spawn_instance" THEN InstanceResourcesLimits
                      ELSE ProcessResourcesLimits)
      [] p \in DOMAIN ModelParams -> Instances(ModelParams[p])
      [] p \in Sequences -> {Text(p), Array(<< Text(p), Text("other") >>)}
      [] OTHER -> {Text(p)}

\* None is an argument only where the signature says so.
Accepts(m, sig, p) ==
    {v \in Values(m, p) : v = Null => \/ p \in sig.none
                                      \/ p \in sig.unset /\ p \in {"tag", "env"}}

Default(sig, p) ==
    IF p \in sig.none THEN Null ELSE IF p \in sig.unset THEN Unset ELSE Number(0)
Sample(m, sig, p) ==
    IF p \in sig.flags THEN Number(1) ELSE CHOOSE v \in Accepts(m, sig, p) : v # Null

Everything(m, sig) == [p \in Params(sig) |-> Sample(m, sig, p)]
Omitted(m, sig) ==
    [p \in Params(sig) |-> IF p \in sig.required THEN Sample(m, sig, p) ELSE Default(sig, p)]

\* The least, the most, and one parameter away from either.
Arguments(m, sig) ==
    {Everything(m, sig), Omitted(m, sig)}
    \cup UNION {{[a EXCEPT ![p] = v] : a \in {Everything(m, sig), Omitted(m, sig)},
                                       v \in Accepts(m, sig, p)}
                : p \in Params(sig) \ sig.flags}
    \cup {[Omitted(m, sig) EXCEPT ![p] = Number(1)] : p \in sig.flags}
    \cup {[Everything(m, sig) EXCEPT ![p] = Default(sig, p)] : p \in Optionals(sig)}

-----------------------------------------------------------------------------
(* What a server may answer. *)

Reply(status, body) == [status |-> status, body |-> body, location |-> Unset]

Gives(C) == [status |-> 200, reads |-> "model", class |-> C]
Found(C) == [status |-> 302, reads |-> "model", class |-> C]
ListOf(C) == [status |-> 200, reads |-> "models", class |-> C]
Page(C, name) == [status |-> 200, reads |-> "page", class |-> C, name |-> name]
Member(name, v) == [status |-> 200, reads |-> "member", name |-> name, member |-> v]
Located == [status |-> 302, reads |-> "location"]
SomeBytes == [status |-> 200, reads |-> "bytes"]
NoAnswer == [status |-> 204, reads |-> "nothing"]
Exists == [status |-> 200, reads |-> "existence"]
Stream(closing) == [status |-> 200, reads |-> "stream", closing |-> closing]
EventStream(closing) == [status |-> 200, reads |-> "events", closing |-> closing]

Bodies(doc) ==
    CASE doc.reads \in {"model", "page"} -> Valid(doc.class) \cup {Newer(doc.class)}
      [] doc.reads = "models" ->
            {Array(<< >>), Array(<< Minimal(doc.class), Complete(doc.class) >>)}
            \cup {Array(<< d >>) : d \in Valid(doc.class)}
      [] doc.reads = "member" -> {Object([key \in {doc.name, "added_later"} |-> doc.member])}
      [] doc.reads = "bytes" -> {Bytes("content"), Bytes("")}
      [] OTHER -> {Bytes("")}

Statuses == {200, 202, 204, 302, 304, 400, 401, 403, 404, 409, 410, 418, 422, 425, 429,
             500, 503}

Documented(doc) ==
    IF doc.reads = "location"
    THEN {[status |-> 302, body |-> Bytes(""), location |-> [tail |-> "u"]]}
    ELSE {Reply(doc.status, body) : body \in Bodies(doc)}

\* Another success comes with a documented body or with none at all; any other
\* status with an error object, or with a text that is no JSON.
Siblings(doc) ==
    {Reply(s, b) : s \in {t \in Statuses : t < 300 /\ t # doc.status},
                   b \in {CHOOSE body \in Bodies(doc) : TRUE, Bytes("")}}
Others(doc) ==
    Siblings(doc)
    \cup {Reply(s, b) : s \in {t \in Statuses : t >= 300 /\ t # doc.status},
                        b \in {Object([key \in {"error"} |-> Text("e")]), Bytes("error")}}

\* An answer does not depend on the arguments: one of them sees them all.
Replies(doc) ==
    IF args = Everything(method.name, method.sig)
    THEN Documented(doc) \cup Others(doc) ELSE {CHOOSE r \in Documented(doc) : TRUE}

-----------------------------------------------------------------------------

ERROR_CLASSES ==
    (400 :> "BadRequestError" @@ 401 :> "AuthenticationError" @@ 403 :> "PermissionDeniedError"
     @@ 404 :> "NotFoundError" @@ 409 :> "ConflictError" @@ 410 :> "GoneError"
     @@ 422 :> "UnprocessableEntityError" @@ 425 :> "TooEarlyError" @@ 429 :> "RateLimitError")

error_for_response(status) ==
    IF status \in DOMAIN ERROR_CLASSES THEN ERROR_CLASSES[status]
    ELSE IF status >= 500 THEN "ServerError" ELSE "APIStatusError"

\* call(): a response that is an error is raised.
Called(r, value) == IF r.status >= 400 THEN Raise(error_for_response(r.status)) ELSE value

Build(m, sig, build(_), doc) ==
    /\ phase = "idle"
    /\ \E a \in Arguments(m, sig) : args' = a /\ spec' = build(a)
    /\ phase' = "sent" /\ method' = [name |-> m, sig |-> sig, doc |-> doc]
    /\ UNCHANGED << answer, result, chunks, source, elsewhere >>

Return(r, value) ==
    /\ answer' = r /\ result' = value
    /\ phase' = "returned"
    /\ UNCHANGED << method, args, spec, chunks, source, elsewhere >>

Buffered(m, sig, build(_), parse(_), doc) ==
    \/ Build(m, sig, build, doc)
    \/ /\ phase = "sent" /\ method.name = m
       /\ \E r \in Replies(doc) : Return(r, Called(r, parse(r)))

\* One page of an iterator: the size and the offset of its loop, the filters
\* of its caller; Items is what the loop then yields.
Items(value, name) ==
    IF Is("raises", value) THEN value
    ELSE IF Is("array", value.instance.attrs[name]) THEN value.instance.attrs[name]
         ELSE Array(<< >>)

Paged(m, filters, flags, build(_), parse(_), doc) ==
    Buffered(m, Takes({"limit", "offset"}, filters, {}, flags), build, parse, doc)

\* resolve_image of a UUID: it is the answer, nothing is sent.  A tag, behind
\* "tag:" or bare, is looked up.
Resolved(m) ==
    /\ phase = "idle" /\ phase' = "returned"
    /\ method' = [name |-> m] /\ result' = Text("uuid")
    /\ UNCHANGED << args, spec, answer, chunks, source, elsewhere >>

\* Seeded fault: every refusal says that there is nothing.
FoundAnyRefusal(r, value) == IF r.status >= 400 THEN Number(0) ELSE value

\* except NotFoundError: return False
FoundOrNot(r, value) ==
    IF Called(r, value) = Raise("NotFoundError") THEN Number(0) ELSE Called(r, value)

Checked(m, sig, build(_), parse(_)) ==
    \/ Build(m, sig, build, Exists)
    \/ /\ phase = "sent" /\ method.name = m
       /\ \E r \in Replies(Exists) : Return(r, FoundOrNot(r, parse(r)))

-----------------------------------------------------------------------------

\* An answer below 400 is content, whatever its status.
Open(m) ==
    /\ phase = "sent" /\ method.name = m
    /\ \E r \in Replies(method.doc) :
          \/ r.status >= 400 /\ Return(r, Called(r, Null))
          \/ /\ r.status < 400
             /\ answer' = r
             /\ phase' = "streaming" /\ source' = "open"
             /\ UNCHANGED << method, args, spec, result, chunks, elsewhere >>

\* The body ends, or the transport raises; its generator has closed by then.
Finish(value) ==
    /\ result' = value
    /\ phase' = "returned" /\ source' = "closed"
    /\ UNCHANGED << method, args, spec, answer, chunks, elsewhere >>

\* The method's generator is over before its source is: closing_iterator or
\* aclosing closes the source; without it the source is only dropped.
Released == IF method.doc.closing THEN "closed" ELSE "dropped"

\* The generator stands at a yield: the caller has a chunk or an event.
AtYield(m) == phase = "streaming" /\ method.name = m /\ result # Null

\* The caller leaves its loop and closes the generator.
Close(m) ==
    /\ AtYield(m)
    /\ phase' = "returned" /\ source' = Released
    /\ UNCHANGED << method, args, spec, answer, result, chunks, elsewhere >>

\* The caller leaves its loop and forgets the generator, whose "with" does not
\* run: what becomes of it is Python's, and not followed.
Drop(m) ==
    /\ AtYield(m)
    /\ phase' = "left" /\ source' = "dropped"
    /\ UNCHANGED << method, args, spec, answer, result, chunks, elsewhere >>

Streamed(m, sig, build(_), closing) ==
    \/ Build(m, sig, build, Stream(closing))
    \/ Open(m)
    \/ /\ phase = "streaming" /\ method.name = m /\ chunks < MaxChunks
       /\ chunks' = chunks + 1 /\ result' = Bytes("chunk")
       /\ UNCHANGED << phase, method, args, spec, answer, source, elsewhere >>
    \/ /\ phase = "streaming" /\ method.name = m
       /\ \E value \in {Null, Raise("APIConnectionError")} : Finish(value)
    \/ Close(m)
    \/ Drop(m)

\* decode_event_frame: what a frame yields, Null when it carries no event.
\* Data that is no JSON stands in "bytes".
decode_event_frame(frame) ==
    IF frame.event = "sse_error" THEN Raise("APIConnectionError")
    ELSE IF frame.data = Bytes("") THEN Null
    ELSE IF Is("bytes", frame.data) THEN Raise("ValueError")
    ELSE IF ~ Is("object", frame.data) THEN Null
    ELSE from_dict(OperationEvent, frame.data)

SchemaMissed ==
    UNION {{With(With(Complete(OperationEvent), "type", Text(type)), "data", d)
              : d \in Mangled(EVENT_DATA_PARSERS[type])} : type \in DOMAIN EVENT_DATA_PARSERS}

Frames ==
    {[event |-> "event", data |-> d]
        : d \in (IF MangledEvents THEN SchemaMissed ELSE {})
                  \cup Valid(OperationEvent) \cup {Newer(OperationEvent)}}
    \cup {[event |-> "sse_error", data |-> Bytes("message")],
          [event |-> "event", data |-> Bytes("")],
          [event |-> "event", data |-> Array(<< >>)]}

\* What arrives does not depend on the arguments: one of them sees it all.
Received ==
    IF args = Everything(method.name, method.sig)
    THEN Frames ELSE {[event |-> "event", data |-> Complete(OperationEvent)]}

\* A frame that cannot be decoded and a deadline that passed end the generator
\* from within.
Events(m, sig, build(_), closing) ==
    \/ Build(m, sig, build, EventStream(closing))
    \/ Open(m)
    \/ /\ phase = "streaming" /\ method.name = m /\ chunks < MaxChunks
       /\ \E frame \in Received :
            LET event == decode_event_frame(frame) IN
            /\ answer' = frame /\ chunks' = chunks + 1 /\ result' = event
            /\ IF Is("raises", event) THEN phase' = "returned" /\ source' = Released
               ELSE UNCHANGED << phase, source >>
            /\ UNCHANGED << method, args, spec, elsewhere >>
    \/ /\ phase = "streaming" /\ method.name = m
       /\ \E value \in {Null, Raise("APIConnectionError")} : Finish(value)
    \/ /\ phase = "streaming" /\ method.name = m /\ chunks > 0
       /\ result' = Raise("TimeoutError")
       /\ phase' = "returned" /\ source' = Released
       /\ UNCHANGED << method, args, spec, answer, chunks, elsewhere >>
    \/ Close(m)
    \/ Drop(m)

\* Nothing of a call is kept for the next one.
NoCall ==
    /\ method = Null /\ args = Null /\ spec = Null
    /\ answer = Null /\ result = Null /\ chunks = 0 /\ source = "none"

NextCall ==
    /\ phase \in {"returned", "left"}
    /\ phase' = "idle" /\ method' = Null /\ args' = Null /\ spec' = Null
    /\ answer' = Null /\ result' = Null /\ chunks' = 0 /\ source' = "none"
    /\ UNCHANGED elsewhere

=============================================================================
