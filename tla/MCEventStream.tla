----------------------------- MODULE MCEventStream -----------------------------
(* Small instances of EventStream for TLC.                                 *)
EXTENDS EventStream

\* Blank lines, carriage returns, comments, every field, ids good and bad, an
\* empty value.
AllForms == { << >>, <<"cr">>, <<":", "x">>, <<"id:", "1">>, <<"id:", "x">>,
              <<"event:", "x", "cr">>, <<"data:", "x", "x">>, <<"data:">>, <<"retry:", "1">> }

\* One whole frame, a frame behind a comment, and a line longer than the cap.
FrameStreams == { <<"id:", "1", "lf", "data:", "x", "lf", "lf">>, <<":", "lf", "lf", "data:", "lf", "lf">>,
                  <<"data:", "x", "x", "x", "x", "x", "x", "lf">> }

\* The streams of up to n lines of these forms.
StreamsOf(forms, n) ==
    {FlattenSeq([i \in DOMAIN ls |-> Append(ls[i], "lf")]) :
        ls \in UNION {[1 .. m -> forms] : m \in 0 .. n}}

MaxLines == 4
AllStreams == StreamsOf(AllForms, MaxLines)
EmptyData == StreamsOf({ <<"data:">> }, 2 * MaxLines)
=============================================================================
