------------------------------ MODULE SSEParser ------------------------------
(***************************************************************************)
(* The incremental parser of text/event-stream bytes                       *)
(* (client/contree_client/runtime.py, class SSEParser): chunks of any size *)
(* go in, complete frames come out, and the bytes it may hold are capped.  *)
(*                                                                         *)
(* A byte is a string here.  A field name with its colon is one byte, so   *)
(* <<"data:", "x">> is a data line with a value of one byte; the optional  *)
(* space behind the colon is left out.                                     *)
(***************************************************************************)
EXTENDS Integers, SequencesExt

CONSTANTS
    Streams,    \* the bytes that may be sent
    MAX_BUFFER,
    MaxChunk    \* bound on the bytes of a chunk

ASSUME ParserAssumption ==
    Streams \subseteq Seq(STRING) /\ MAX_BUFFER \in Nat /\ MaxChunk \in Nat \ {0}

VARIABLES
    stream,     \* the bytes the server sends
    pos,        \* how many of them have been fed
    buffer,     \* the unterminated line
    pending,    \* the frame accumulated so far
    frames,     \* history: the frames returned
    failed      \* feed raised ValueError

vars == <<stream, pos, buffer, pending, frames, failed>>

Fields == {"id:", "event:", "data:", "retry:"}
Digits == {"1", "2"}
None == << >>

\* The attributes event, event_id, data_lines, pending_size and dirty.
NoFrame == [event |-> None, id |-> None, data |-> << >>, size |-> 0, dirty |-> FALSE]

Init ==
    /\ stream \in Streams /\ pos = 0
    /\ buffer = << >> /\ pending = NoFrame
    /\ frames = << >> /\ failed = FALSE

-----------------------------------------------------------------------------

\* int(value), or None for what int() refuses.
Number(value) == IF Range(value) \subseteq Digits THEN value ELSE None

Field(p, name, value) ==
    LET q == [p EXCEPT !.dirty = TRUE] IN
    CASE name = "id:"    -> [q EXCEPT !.id = Number(value)]
      [] name = "event:" -> [q EXCEPT !.event = value]
      [] name = "data:"  -> [q EXCEPT !.data = Append(@, value), !.size = @ + Len(value)]
      [] OTHER           -> q

\* Seeded fault: the id of a frame stays for the next one.
FlushKeepsId(s) ==
    IF ~ s.frame.dirty THEN s
    ELSE [frame |-> [NoFrame EXCEPT !.id = s.frame.id],
          out   |-> Append(s.out, [id |-> s.frame.id, event |-> s.frame.event, data |-> s.frame.data])]

\* The pending frame, if any, is returned and the attributes are reset.
Flush(s) ==
    IF ~ s.frame.dirty THEN s
    ELSE [frame |-> NoFrame,
          out   |-> Append(s.out, [id |-> s.frame.id, event |-> s.frame.event, data |-> s.frame.data])]

WithoutCr(raw) == IF raw # << >> /\ Last(raw) = "cr" THEN Front(raw) ELSE raw

\* What one line does to the pending frame and the frames so far.
TakeLine(s, raw) ==
    LET line == WithoutCr(raw) IN
    CASE line = << >>   -> Flush(s)
      [] line # << >> /\ Head(line) = ":" -> s
      [] OTHER -> [s EXCEPT !.frame = Field(@, Head(line), Tail(line))]

\* The positions of a set, the first one first.
InOrder(S) ==
    [k \in 1 .. Cardinality(S) |-> CHOOSE i \in S : Cardinality({j \in S : j <= i}) = k]

\* The positions of the newlines, behind a 0.
Newlines(bytes) == <<0>> \o InOrder({i \in DOMAIN bytes : bytes[i] = "lf"})

\* The terminated lines of the buffer, without their newlines.
Lines(bytes) ==
    LET at == Newlines(bytes) IN
    [i \in 1 .. (Len(at) - 1) |-> SubSeq(bytes, at[i] + 1, at[i + 1] - 1)]

Unterminated(bytes) == SubSeq(bytes, Last(Newlines(bytes)) + 1, Len(bytes))

\* Seeded fault: the cap covers the buffer and not the pending frame.
TooLargeBuffer(held) == Len(held) > MAX_BUFFER

TooLarge(held) == Len(held) + pending.size > MAX_BUFFER

\* feed(chunk).  The cap is checked before the chunk is taken apart.
Feed(n) ==
    LET held == buffer \o SubSeq(stream, pos + 1, pos + n)
        fed  == FoldLeft(TakeLine, [frame |-> pending, out |-> frames], Lines(held))
    IN  /\ ~ failed /\ pos + n <= Len(stream)
        /\ pos' = pos + n
        /\ IF TooLarge(held)
           THEN failed' = TRUE /\ buffer' = held /\ UNCHANGED <<pending, frames>>
           ELSE /\ buffer' = Unterminated(held)
                /\ pending' = fed.frame /\ frames' = fed.out
                /\ UNCHANGED failed
        /\ UNCHANGED stream

Next == \E n \in 1 .. MaxChunk : Feed(n)

-----------------------------------------------------------------------------
(* Properties                                                              *)

\* The frames of a byte sequence, from its lines alone.  LineEndingAt(b, i) is
\* the line that the newline at i ends; Block(b, i) are the newlines of the
\* field lines of the frame that the blank line at i ends.
NewlineSet(b) == {i \in DOMAIN b : b[i] = "lf"}
LineEndingAt(b, i) ==
    WithoutCr(SubSeq(b, 1 + (IF \E j \in NewlineSet(b) : j < i
                             THEN Max({j \in NewlineSet(b) : j < i}) ELSE 0), i - 1))
Blanks(b) == {i \in NewlineSet(b) : LineEndingAt(b, i) = << >>}
Block(b, i) ==
    {j \in NewlineSet(b) \ Blanks(b) :
        /\ j < i /\ ~ \E k \in Blanks(b) : j < k /\ k < i
        /\ Head(LineEndingAt(b, j)) # ":"}
Named(b, i, name) == {j \in Block(b, i) : Head(LineEndingAt(b, j)) = name}
ValueOf(b, i, name) ==
    IF Named(b, i, name) = {} THEN None ELSE Tail(LineEndingAt(b, Max(Named(b, i, name))))
FrameEndingAt(b, i) ==
    LET data == InOrder(Named(b, i, "data:")) IN
    [id    |-> Number(ValueOf(b, i, "id:")),
     event |-> ValueOf(b, i, "event:"),
     data  |-> [k \in DOMAIN data |-> Tail(LineEndingAt(b, data[k]))]]
FramesOf(b) ==
    LET ends == InOrder({i \in Blanks(b) : Block(b, i) # {}}) IN
    [k \in DOMAIN ends |-> FrameEndingAt(b, ends[k])]

\* However the bytes are cut into chunks, the frames returned are those of the
\* whole: none is lost, doubled or mixed with its neighbour.
FramesAsWhole == ~ failed => frames = FramesOf(SubSeq(stream, 1, pos))

WithLength(n, line) == n + Len(line)
SizeOf(lines) == FoldLeft(WithLength, 0, lines)

\* The data values and the unterminated line held never pass the cap.
ValuesCapped == ~ failed => Len(buffer) + SizeOf(pending.data) <= MAX_BUFFER

\* What the comment in feed says of the cap: it covers the unterminated line
\* and the frame accumulated so far, which is its data lines joined.
FrameCapped ==
    ~ failed => Len(buffer) + SizeOf(pending.data) + Len(pending.data) - 1 <= MAX_BUFFER
=============================================================================
