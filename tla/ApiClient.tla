-------------------------------- MODULE ApiClient ------------------------------
(***************************************************************************)
(* A caller of the synchronous or of the asynchronous Python client: one   *)
(* call after the other, an iteration over pages, or ensure_file.  What a  *)
(* call must carry and what it must return.                                *)
(***************************************************************************)
EXTENDS SyncClient, AsyncClient

allvars == << vars, elsewhere >>

\* The three do not share state: the ones not in use stay at a first state.
PagesAtRest ==
    /\ rank = EmptyPage /\ total = 0 /\ created = {} /\ deleted = {}
    /\ pageSize = 1 /\ limit = NoLimit /\ pageAt = "unused"
    /\ fetched = 0 /\ offset = 0 /\ size = 0 /\ upto = 0
    /\ page = EmptyPage /\ yielded = {}
FilesAtRest ==
    /\ content = "bytes" /\ known = FALSE /\ fileAt = "unused" /\ stored = {}
    /\ start = 0 /\ position = 0 /\ digest = NoDigest /\ record = NoDigest

Init ==
    /\ NoCall
    /\ \/ phase = "idle" /\ PagesAtRest /\ FilesAtRest
       \/ phase = "unused" /\ PagesInit /\ FilesAtRest
       \/ phase = "unused" /\ PagesAtRest /\ EnsureInit

\* Bound on what an iteration yields, beyond all that may come twice.
MaxFetched == 2 * (Cardinality(Records) + MaxChanges)
Iterating == Loop /\ fetched' <= MaxFetched /\ UNCHANGED << vars, fileVars >>

Listed == pageAt # "unused" /\ OtherCallers /\ UNCHANGED << vars, fileVars >>

Ensuring == fileAt # "unused" /\ EnsureNext /\ UNCHANGED << vars, pageVars >>

\* A call is made of either client.
Next ==
    \/ SyncNext \/ AsyncNext \/ NextCall
    \/ Iterating \/ Listed \/ Ensuring

\* The caller of an iterator goes on asking for the next record.
Spec == Init /\ [][Next]_allvars /\ WF_allvars(Iterating)

-----------------------------------------------------------------------------
(* Where the request carries an argument, and in which form. *)

LocalParams == {"compressed"}

Given(p) ==
    /\ p \notin LocalParams
    /\ \/ p \in method.sig.required
       \/ p \in method.sig.none /\ args[p] # Null
       \/ p \in method.sig.unset /\ args[p] # Unset
       \/ p \in method.sig.flags /\ args[p] = Number(1)

InPath == {<< p, args[p] >> : p \in {q \in Params(method.sig) :
              q \in DOMAIN spec.path.params /\ spec.path.params[q] = [quoted |-> Str(args[q])]}}
InQuery == {<< p, args[p] >> : p \in {q \in Params(method.sig) :
              /\ q \in DOMAIN spec.query
              /\ spec.query[q] = IF q \in method.sig.flags THEN Text("1") ELSE Str(args[q])}}
InHeaders == {<< p, args[p] >> : p \in {q \in Params(method.sig) :
              q \in DOMAIN spec.headers /\ spec.headers[q] = Str(args[q])}}
InBody ==
    CASE Is("object", spec.body) ->
            {<< p, args[p] >> : p \in {q \in Params(method.sig) :
                /\ q \in DOMAIN spec.body.object
                /\ wire_value(spec.body.object[q]) = wire_value(args[q])}}
      [] Is("bytes", spec.body) -> {<< p, args[p] >> : p \in {q \in Params(method.sig) :
                args[q] = spec.body}}
      [] OTHER -> {}

Slots ==
    Cardinality(DOMAIN spec.path.params) + Cardinality(DOMAIN spec.query)
    + Cardinality(DOMAIN spec.headers)
    + IF Is("object", spec.body) THEN Cardinality(DOMAIN spec.body.object)
      ELSE IF spec.body = NoBody THEN 0 ELSE 1

\* The request says what the caller said: every argument that was given, a
\* zero, a False and an explicit None included, is in exactly one of the
\* path, the query, the headers and the body, in the form of that place and
\* quoted where it is part of the path; an argument that was left out is
\* nowhere, and nothing else is sent.  A request that the retry loop may
\* send again is one that HTTP calls idempotent.
RequestCarriesArguments ==
    phase = "sent" =>
        /\ InPath \cup InQuery \cup InHeaders \cup InBody
             = {<< p, args[p] >> : p \in {q \in Params(method.sig) : Given(q)}}
        /\ Slots = Cardinality({q \in Params(method.sig) : Given(q)})
        /\ spec.idempotent <=> spec.method \in {"GET", "HEAD", "PUT", "DELETE"}

-----------------------------------------------------------------------------

IsStream == method.doc.reads \in {"stream", "events"}

\* A redirect that is documented is the one success; else any 2xx is.
Accepted(status) == IF method.doc.status = 302 THEN status = 302 ELSE status \in 200 .. 299

\* A document was to be read and there is none.
Bodiless ==
    method.doc.reads \in {"model", "models", "page", "member"} /\ answer.body = Bytes("")

Loaded(C, d, v) ==
    /\ Is("instance", v) /\ v.instance.class = C.name
    /\ Says(C, d, wire_value(v))
    /\ from_dict(C, wire_value(v)) = v

\* What the API documents is read, and nothing of it is lost: every document
\* that satisfies the schema, optional fields missing or null, discriminated
\* payloads, and the one of a newer server with a field more, becomes an
\* instance of the documented class that says the same when it is written
\* back, and reads back as itself; an event of a stream likewise.  An
\* undocumented success with a documented body is read the same, and one
\* without a body where a document was to be read is a ValueError.
DocumentedAnswersRead ==
    /\ phase = "returned" /\ "status" \in DOMAIN answer /\ ~ IsStream /\ Accepted(answer.status) =>
        IF Bodiless THEN result = Raise("ValueError") ELSE
        CASE method.doc.reads = "model" -> Loaded(method.doc.class, answer.body, result)
          [] method.doc.reads = "models" ->
                /\ Is("array", result)
                /\ Len(result.array) = Len(answer.body.array)
                /\ \A i \in DOMAIN answer.body.array :
                      Loaded(method.doc.class, answer.body.array[i], result.array[i])
          [] method.doc.reads = "page" ->
                LET d == answer.body.object
                    items == IF method.doc.name \in DOMAIN d THEN d[method.doc.name].array
                             ELSE << >>
                    C == FieldOf(method.doc.class, method.doc.name).as.class
                IN  /\ Len(result.array) = Len(items)
                    /\ \A i \in DOMAIN items : Loaded(C, items[i], result.array[i])
          [] method.doc.reads = "member" -> result = method.doc.member
          [] method.doc.reads = "location" -> result = Text(answer.location.tail)
          [] method.doc.reads = "bytes" -> result = answer.body
          [] method.doc.reads = "existence" -> result = Number(1)
          [] OTHER -> result = Null
    /\ phase = "streaming" /\ "event" \in DOMAIN answer /\ Is("object", answer.data) =>
        Loaded(OperationEvent, answer.data, result)

\* A refusal is never an answer.  A status of 400 or more raises the class of
\* that status, from a call and from a stream, except that an existence check
\* answers False to a 404, and to nothing else.  Below 400 a call raises a
\* ValueError for what it does not accept: a redirect, a 304, or a 2xx where
\* the redirect is the answer.  A stream has no such check: it hands over
\* whatever comes with a status below 400, that of a redirect included.
RefusalsRaise ==
    "status" \in DOMAIN answer /\ phase \in {"streaming", "returned"} =>
        /\ answer.status >= 400 =>
              /\ phase = "returned" /\ source = "none"
              /\ result = IF method.doc = Exists /\ answer.status = 404 THEN Number(0)
                          ELSE Raise(error_for_response(answer.status))
        /\ answer.status < 400 =>
              IF IsStream THEN source # "none"
              ELSE Accepted(answer.status) \/ result = Raise("ValueError")

\* Downloads and archives of the synchronous client have no "with" around
\* their source.
LeftToCollector ==
    {"inspect_instance_download_stream", "inspect_instance_archive",
     "inspect_image_download_stream", "inspect_image_archive"}

\* A stream is released before the caller can send another request, however
\* its generator ended: read to the end, by an error of the transport, by one
\* of its own, or closed half-way.  Closed half-way the synchronous downloads
\* and archives alone leave it to the collector.
EndedStreamsReleased ==
    phase = "returned" =>
        \/ source \in {"none", "closed"}
        \/ source = "dropped" /\ ~ Is("raises", result) /\ method.name \in LeftToCollector

\* An event whose payload misses its schema does not end the stream: its
\* payload is handed over as it is (the docstring of parse_event_data).
UnmatchedEventsHandedOver ==
    "event" \in DOMAIN answer /\ answer.event = "event" /\ Is("object", answer.data)
    => ~ Is("raises", result)

=============================================================================
