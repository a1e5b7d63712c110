------------------------ MODULE OperationWaitsProofs ------------------------
(***************************************************************************)
(* Proofs about the event followers and the waits, for every log, every    *)
(* fault and every policy.                                                 *)
(*                                                                         *)
(* First the follower of the Python and JavaScript clients alone: however  *)
(* often the streams break, its cursor is sound, drained reads are         *)
(* bounded, and it implements EventDelivery.  Then the wait around it,     *)
(* whose steps are the follower's or leave it alone, and which returns     *)
(* only behind the completion.  Last the follower and the wait of the Go   *)
(* client, and both clients together, held to the same promises.           *)
(***************************************************************************)
EXTENDS OperationWaits, TLAPS

-----------------------------------------------------------------------------
(* follow_operation_events and followOperationEvents                       *)

\* A stream is open exactly while the follower reads, and the iteration has
\* an outcome exactly when it is over.
Phases ==
    /\ pc = "reading" <=> conn # "none"
    /\ outcome = "none" <=> pc # "done"
    /\ pc \in {"probe", "pause"} => ~ terminal

\* While a stream is read, what was consumed of it beyond the cursor has no
\* payload, and it was sent.
ReadSound ==
    pc = "reading" => /\ last <= seen /\ seen <= sent
                      /\ (last + 1) .. seen \subseteq Blank

\* Attempts are left before every drained read.
DrainsCounted ==
    /\ ~ terminal => drains = 0
    /\ MaxDrains # 0 =>
        /\ drains <= MaxDrains
        /\ terminal /\ pc \in {"head", "pause", "backoff"} => drains < MaxDrains

\* The follower takes the status for terminal only if it is; then the log is
\* complete, and a retained read ends only with all of it sent.
TerminalSound ==
    /\ terminal => finished
    /\ finished /\ ~ early => produced = N
    /\ conn = "ended" /\ terminal /\ ~ early => sent = N

IInv == TypeOK /\ Phases /\ ReadSound /\ CursorSound /\ DrainsCounted /\ TerminalSound

\* The constants as the prover likes them.
LEMMA Constants ==
    /\ N \in Nat \ {0} /\ MaxFaults \in Nat /\ MaxDrains \in Nat
    /\ N \notin Blank
    /\ \A s \in Starts : s \in 0 .. N
  BY LogAssumption, FollowerAssumption

LEMMA InitInv == Init => IInv
  <1> SUFFICES ASSUME Init PROVE IInv
    OBVIOUS
  <1> USE Constants
  <1>2. start \in 0 .. N
    BY DEF Init
  <1>1. TypeOK
    <2>1. 0 \in 0 .. N /\ 0 \in 0 .. MaxFaults /\ 0 \in Nat
      OBVIOUS
    <2>2. LogTypeOK
      BY <2>1 DEF Init, LogInit, LogTypeOK
    <2> QED
      BY <1>2, <2>1, <2>2, Zenon DEF Init, TypeOK
  <1>3. CursorSound
    BY <1>2 DEF Init, CursorSound
  <1>4. Phases /\ ReadSound /\ DrainsCounted /\ TerminalSound
    BY DEF Init, LogInit, Phases, ReadSound, DrainsCounted, TerminalSound
  <1> QED
    BY <1>1, <1>3, <1>4 DEF IInv

\* A step that ends the iteration, or leaves the stream, keeps the invariant
\* if it leaves the cursor and the server's log alone.
LEMMA LeaveStream ==
    ASSUME IInv, Closed, faults' \in 0 .. MaxFaults,
           UNCHANGED <<start, idle, last, seen, before, drains, late, delivered, terminal>>,
           \/ pc' = "done" /\ outcome' \in {"returned", "raised", "refused", "timeout"}
           \/ pc' = "probe" /\ outcome' = outcome /\ outcome = "none" /\ ~ terminal
           \/ pc' = "backoff" /\ outcome' = outcome /\ outcome = "none" /\ DrainsLeft
    PROVE  IInv'
  <1> USE DEF Closed
  <1>1. TypeOK'
    BY DEF IInv, TypeOK, LogTypeOK
  <1>2. Phases' /\ ReadSound'
    BY DEF Phases, ReadSound
  <1>3. CursorSound'
    BY DEF IInv, CursorSound
  <1>4. DrainsCounted'
    BY DEF IInv, DrainsCounted, DrainsLeft
  <1>5. TerminalSound'
    BY DEF IInv, TerminalSound
  <1> QED
    BY <1>1, <1>2, <1>3, <1>4, <1>5 DEF IInv

LEMMA ExpiresInv == IInv /\ Expires => IInv'
  <1> SUFFICES ASSUME IInv, Expires PROVE IInv'
    OBVIOUS
  <1>1. faults' \in 0 .. MaxFaults
    BY DEF Expires, IInv, TypeOK, LogTypeOK
  <1> QED
    BY <1>1, LeaveStream DEF Expires, Finish

LEMMA RefusedInv == IInv /\ Refused => IInv'
  <1> SUFFICES ASSUME IInv, Refused PROVE IInv'
    OBVIOUS
  <1>1. faults' \in 0 .. MaxFaults
    BY DEF Refused, IInv, TypeOK, LogTypeOK
  <1> QED
    BY <1>1, LeaveStream DEF Refused, Finish

LEMMA StreamBreaksInv == IInv /\ StreamBreaks => IInv'
  <1> SUFFICES ASSUME IInv, StreamBreaks PROVE IInv'
    OBVIOUS
  <1>1. faults' \in 0 .. MaxFaults
    BY Constants DEF StreamBreaks, Fault, IInv, TypeOK, LogTypeOK
  <1>2. outcome = "none"
    BY DEF StreamBreaks, IInv, Phases
  <1> QED
    BY <1>1, <1>2, LeaveStream DEF StreamBreaks, AfterError, Finish

LEMMA EndOfStreamInv == IInv /\ EndOfStream => IInv'
  <1> SUFFICES ASSUME IInv, EndOfStream PROVE IInv'
    OBVIOUS
  <1>1. faults' \in 0 .. MaxFaults
    BY DEF EndOfStream, IInv, TypeOK, LogTypeOK
  <1>2. outcome = "none"
    BY DEF EndOfStream, IInv, Phases
  <1> QED
    BY <1>1, <1>2, LeaveStream DEF EndOfStream, Finish

LEMMA SseErrorInv == IInv /\ SseError => IInv'
  <1> SUFFICES ASSUME IInv, SseError PROVE IInv'
    OBVIOUS
  <1>0. /\ pc = "reading" /\ Closed /\ last' = seen
        /\ UNCHANGED <<start, idle, seen, before, terminal, drains, late, delivered>>
        /\ outcome = "none"
    BY DEF SseError, IInv, Phases
  <1>1. /\ pc' \in {"done", "backoff", "probe"}
        /\ outcome' \in {"none", "raised"}
        /\ outcome' = "none" <=> pc' # "done"
        /\ pc' = "backoff" => DrainsLeft
        /\ pc' = "probe" => ~ terminal
    BY <1>0 DEF SseError, AfterError, Finish
  <1>2. TypeOK'
    BY <1>0, <1>1, Constants DEF SseError, Fault, Closed, IInv, TypeOK, LogTypeOK
  <1>3. CursorSound'
    <2>1. delivered <= last /\ last <= seen
      BY <1>0 DEF IInv, CursorSound, ReadSound
    <2>2. (delivered + 1) .. last \subseteq Blank /\ (last + 1) .. seen \subseteq Blank
      BY <1>0 DEF IInv, CursorSound, ReadSound
    <2>3. (delivered + 1) .. seen \subseteq Blank
      BY <2>1, <2>2 DEF IInv, TypeOK
    <2> QED
      BY <1>0, <2>1, <2>3 DEF CursorSound, IInv, TypeOK
  <1>4. Phases' /\ ReadSound'
    BY <1>0, <1>1 DEF Closed, Phases, ReadSound
  <1>5. DrainsCounted'
    BY <1>0, <1>1 DEF IInv, DrainsCounted, DrainsLeft
  <1>6. TerminalSound'
    BY <1>0 DEF Closed, IInv, TerminalSound
  <1> QED
    BY <1>2, <1>3, <1>4, <1>5, <1>6 DEF IInv

LEMMA HeadInv == IInv /\ Head => IInv'
  <1> SUFFICES ASSUME IInv, Head PROVE IInv'
    OBVIOUS
  <1> USE DEF Head, logVars
  <1>1. TypeOK'
    BY DEF IInv, TypeOK, LogTypeOK
  <1>2. Phases' /\ ReadSound'
    BY DEF IInv, Phases, ReadSound
  <1>3. CursorSound' /\ TerminalSound'
    BY DEF IInv, CursorSound, TerminalSound
  <1>4. DrainsCounted'
    BY Constants DEF IInv, TypeOK, DrainsCounted
  <1> QED
    BY <1>1, <1>2, <1>3, <1>4 DEF IInv

LEMMA OpenInv == IInv /\ Open => IInv'
  <1> SUFFICES ASSUME IInv, Open PROVE IInv'
    OBVIOUS
  <1> USE DEF Open, Opened, Cursor
  <1>1. TypeOK'
    BY DEF IInv, TypeOK, LogTypeOK
  <1>2. Phases'
    BY DEF IInv, Phases
  <1>3. ReadSound'
    BY DEF IInv, TypeOK, ReadSound
  <1>4. CursorSound' /\ TerminalSound'
    BY DEF IInv, CursorSound, TerminalSound
  <1>5. DrainsCounted'
    BY DEF IInv, DrainsCounted
  <1> QED
    BY <1>1, <1>2, <1>3, <1>4, <1>5 DEF IInv

LEMMA SkipBlankInv == IInv /\ SkipBlank => IInv'
  <1> SUFFICES ASSUME IInv, SkipBlank PROVE IInv'
    OBVIOUS
  <1> USE DEF SkipBlank, logVars
  <1>1. TypeOK'
    BY Constants DEF IInv, TypeOK, LogTypeOK
  <1>2. ReadSound'
    BY DEF IInv, TypeOK, LogTypeOK, ReadSound
  <1>3. Phases' /\ CursorSound' /\ TerminalSound' /\ DrainsCounted'
    BY DEF IInv, Phases, CursorSound, TerminalSound, DrainsCounted
  <1> QED
    BY <1>1, <1>2, <1>3 DEF IInv

LEMMA DeliverInv == IInv /\ Deliver => IInv'
  <1> SUFFICES ASSUME IInv, Deliver PROVE IInv'
    OBVIOUS
  <1>0. /\ pc = "reading" /\ seen < sent
        /\ seen' = seen + 1 /\ last' = seen + 1 /\ delivered' = seen + 1
        /\ UNCHANGED <<start, idle, before, terminal, drains, late>>
        /\ seen \in Nat /\ seen + 1 \in 0 .. N
    BY Constants DEF Deliver, IInv, TypeOK, LogTypeOK
  <1>1. CursorSound'
    BY <1>0 DEF CursorSound
  <1>2. CASE seen + 1 = N
    <2> USE <1>0, <1>2 DEF Deliver, Finish, Closed
    <2>1. TypeOK'
      BY DEF IInv, TypeOK, LogTypeOK
    <2>2. Phases' /\ ReadSound' /\ TerminalSound' /\ DrainsCounted'
      BY DEF IInv, Phases, ReadSound, TerminalSound, DrainsCounted
    <2> QED
      BY <1>1, <2>1, <2>2 DEF IInv
  <1>3. CASE seen + 1 # N
    <2> USE <1>0, <1>3 DEF Deliver, logVars
    <2>1. TypeOK'
      BY DEF IInv, TypeOK, LogTypeOK
    <2>2. ReadSound'
      BY DEF IInv, TypeOK, LogTypeOK, ReadSound
    <2>3. Phases' /\ TerminalSound' /\ DrainsCounted'
      BY DEF IInv, Phases, TerminalSound, DrainsCounted
    <2> QED
      BY <1>1, <2>1, <2>2, <2>3 DEF IInv
  <1> QED
    BY <1>2, <1>3

LEMMA ProbeInv == IInv /\ Probe => IInv'
  <1> SUFFICES ASSUME IInv, Probe PROVE IInv'
    OBVIOUS
  <1>0. (terminal' = finished \/ terminal' = FALSE) /\ faults' \in 0 .. MaxFaults
    <2>1. terminal' = finished \/ terminal' = FALSE
      BY Zenon DEF Probe
    <2>2. faults' = faults \/ (faults < MaxFaults /\ faults' = faults + 1)
      BY DEF Probe, Fault
    <2>3. faults \in 0 .. MaxFaults /\ MaxFaults \in Nat
      BY Constants DEF IInv, TypeOK, LogTypeOK
    <2>4. faults' \in 0 .. MaxFaults
      BY <2>2, <2>3
    <2> QED
      BY <2>1, <2>4
  <1>1. /\ pc = "probe" /\ pc' \in {"pause", "head"} /\ (pc' = "pause" => ~ terminal')
        /\ UNCHANGED <<produced, finished, early, conn, sent>>
        /\ UNCHANGED <<start, idle, last, seen, before, drains, late, delivered, outcome>>
    BY DEF Probe
  <1>2. TypeOK'
    <2>1. LogTypeOK'
      BY <1>0, <1>1 DEF IInv, TypeOK, LogTypeOK
    <2>2. terminal' \in BOOLEAN
      BY <1>0, Zenon DEF IInv, TypeOK, LogTypeOK
    <2> QED
      BY <1>1, <2>1, <2>2 DEF IInv, TypeOK
  <1>3. Phases' /\ ReadSound' /\ CursorSound'
    BY <1>1 DEF IInv, Phases, ReadSound, CursorSound
  <1>4. ~ terminal
    BY <1>1 DEF IInv, Phases
  <1>5. DrainsCounted'
    BY <1>1, <1>4, Constants DEF IInv, DrainsCounted
  <1>6. TerminalSound'
    <2>1. conn' # "ended"
      BY <1>1 DEF IInv, Phases, TypeOK, LogTypeOK
    <2>2. terminal' => finished
      BY <1>0, Zenon
    <2>3. (terminal' => finished') /\ (finished' /\ ~ early' => produced' = N)
      BY <1>1, <2>2, Zenon DEF IInv, TerminalSound
    <2> QED
      BY <2>1, <2>3, Zenon DEF TerminalSound
  <1> QED
    BY <1>2, <1>3, <1>5, <1>6 DEF IInv

LEMMA OthersInv ==
    ASSUME IInv, Resume \/ DeadlineElapses
    PROVE  IInv'
  <1> USE DEF Resume, DeadlineElapses, logVars
  <1>1. TypeOK'
    <2>1. CASE Resume
      BY <2>1 DEF IInv, TypeOK, LogTypeOK
    <2>2. CASE DeadlineElapses
      BY <2>2 DEF IInv, TypeOK, LogTypeOK
    <2> QED
      BY <2>1, <2>2
  <1>2. Phases' /\ ReadSound' /\ CursorSound' /\ TerminalSound'
    BY DEF IInv, Phases, ReadSound, CursorSound, TerminalSound
  <1>3. DrainsCounted'
    BY DEF IInv, DrainsCounted
  <1> QED
    BY <1>1, <1>2, <1>3 DEF IInv

LEMMA ServerInv == IInv /\ (Server \/ ServerFault) => IInv'
  <1> SUFFICES ASSUME IInv, Server \/ ServerFault PROVE IInv'
    OBVIOUS
  <1> USE DEF clientVars, logVars
  <1>0. UNCHANGED clientVars
    BY DEF Server, ServerFault
  <1>1. CASE Produce
    BY <1>0, <1>1, Constants DEF Produce, IInv, TypeOK, LogTypeOK, Phases, ReadSound, CursorSound, DrainsCounted, TerminalSound
  <1>2. CASE FinishOperation
    BY <1>0, <1>2 DEF FinishOperation, IInv, TypeOK, LogTypeOK, Phases, ReadSound, CursorSound, DrainsCounted, TerminalSound
  <1>3. CASE SendEvent
    BY <1>0, <1>3, Constants DEF SendEvent, IInv, TypeOK, LogTypeOK, Phases, ReadSound, CursorSound, DrainsCounted, TerminalSound
  <1>4. CASE EndStream(~ terminal)
    BY <1>0, <1>4 DEF EndStream, IInv, TypeOK, LogTypeOK, Phases, ReadSound, CursorSound, DrainsCounted, TerminalSound
  <1>5. CASE StreamFault(~ terminal)
    <2>1. faults' \in 0 .. MaxFaults
      BY <1>5, Constants DEF StreamFault, Fault, IInv, TypeOK, LogTypeOK
    <2>2. conn' = "hung" \/ (conn' = "ended" /\ ~ terminal)
      BY <1>5 DEF StreamFault
    <2>3. UNCHANGED <<produced, finished, early, sent>> /\ conn = "open"
      BY <1>5 DEF StreamFault
    <2> QED
      BY <1>0, <2>1, <2>2, <2>3 DEF IInv, TypeOK, LogTypeOK, Phases, ReadSound, CursorSound, DrainsCounted, TerminalSound
  <1> QED
    BY <1>1, <1>2, <1>3, <1>4, <1>5 DEF Server, ServerFault

LEMMA NextInv == IInv /\ [Next]_vars => IInv'
  <1>1. IInv /\ UNCHANGED vars => IInv'
    BY DEF vars, clientVars, logVars, IInv, TypeOK, LogTypeOK, Phases, ReadSound, CursorSound, DrainsCounted, TerminalSound
  <1> QED
    BY <1>1, ExpiresInv, HeadInv, OpenInv, StreamBreaksInv, SseErrorInv, RefusedInv, SkipBlankInv,
       DeliverInv, EndOfStreamInv, ProbeInv, OthersInv, ServerInv
    DEF Next, Client

THEOREM FollowerInvariant == Spec => []IInv
  BY InitInv, NextInv, PTL DEF Spec

\* The follower's variables keep their types.
THEOREM FollowerTypeCorrect == Spec => []TypeOK
  <1>1. IInv => TypeOK
    BY DEF IInv
  <1> QED
    BY <1>1, FollowerInvariant, PTL

\* The cursor never passes an event the caller has not got.
THEOREM FollowerCursorSound == Spec => []CursorSound
  <1>1. IInv => CursorSound
    BY DEF IInv
  <1> QED
    BY <1>1, FollowerInvariant, PTL

\* Retained reads are bounded by the policy.
THEOREM FollowerDrainsBounded == Spec => []DrainsBounded
  <1>1. IInv => DrainsBounded
    BY DEF IInv, DrainsCounted, DrainsBounded
  <1> QED
    BY <1>1, FollowerInvariant, PTL

-----------------------------------------------------------------------------
(* The follower's delivery contract                                        *)

LEMMA DeliveryInit == Init => Delivery!Init
  BY Constants DEF Init, Delivery!Init

\* An event is handed out behind the last one, with only blanks between.
LEMMA DeliverDelivers == ASSUME IInv, Deliver PROVE Delivery!Deliver
  <1>1. /\ outcome = "none" /\ delivered' = seen + 1 /\ seen < sent /\ sent \in 0 .. N
        /\ delivered <= last /\ last <= seen
        /\ delivered \in Nat /\ last \in Nat /\ seen \in Nat
    BY DEF Deliver, IInv, TypeOK, LogTypeOK, Phases, CursorSound, ReadSound
  <1>2. (delivered + 1) .. last \subseteq Blank /\ (last + 1) .. seen \subseteq Blank
    BY DEF Deliver, IInv, CursorSound, ReadSound
  <1>3. (delivered + 1) .. (delivered' - 1) \subseteq Blank
    BY <1>1, <1>2
  <1>4. delivered' \in (delivered + 1) .. N
    BY <1>1, Constants
  <1>5. /\ outcome' \in {"none", "returned"}
        /\ outcome' = "returned" => delivered' = N
    BY <1>1 DEF Deliver, Finish
  <1> QED
    BY <1>1, <1>3, <1>4, <1>5 DEF Delivery!Deliver

\* A normal end behind a drained, complete log: everything was delivered.
LEMMA EndedAtCompletion ==
    ASSUME IInv, EndOfStream, outcome' = "returned", ~ early
    PROVE  delivered = N
  <1>1. terminal /\ conn = "ended" /\ seen = sent /\ pc = "reading"
    BY DEF EndOfStream, Finish, IInv, Phases
  <1>2. seen = N
    BY <1>1 DEF IInv, TerminalSound
  <1>3. /\ delivered \in 0 .. N /\ last \in 0 .. N
        /\ delivered <= last /\ last <= N
        /\ (delivered + 1) .. last \subseteq Blank /\ (last + 1) .. N \subseteq Blank
    BY <1>1, <1>2 DEF IInv, TypeOK, CursorSound, ReadSound
  <1>4. N \notin (delivered + 1) .. last /\ N \notin (last + 1) .. N
    BY <1>3, Constants
  <1> QED
    BY <1>3, <1>4, Constants

LEMMA DeliveryStep ==
    ASSUME IInv, [Next]_vars
    PROVE  [Delivery!Deliver \/ Delivery!End]_<<delivered, outcome>>
  <1>1. CASE Deliver
    BY <1>1, DeliverDelivers
  <1>2. CASE EndOfStream
    <2>1. delivered' = delivered /\ outcome = "none"
      BY <1>2 DEF EndOfStream, IInv, Phases
    <2>2. outcome' = outcome \/ outcome' \in {"returned", "raised"}
      BY <1>2 DEF EndOfStream, Finish
    <2>3. ASSUME outcome' = "returned" PROVE delivered = N \/ (start # 0 /\ early)
      <3>1. start # 0
        BY <1>2, <2>1, <2>3 DEF EndOfStream, Finish, MayEndAtEof
      <3> QED
        BY <1>2, <2>3, <3>1, EndedAtCompletion
    <2> QED
      BY <2>1, <2>2, <2>3 DEF Delivery!End
  <1>3. CASE Expires \/ Refused
    BY <1>3 DEF Expires, Refused, Finish, IInv, Phases, Delivery!End
  <1>4. CASE StreamBreaks \/ SseError
    BY <1>4 DEF StreamBreaks, SseError, AfterError, Finish, IInv, Phases, Delivery!End
  <1>5. CASE Head \/ Open \/ SkipBlank \/ Probe \/ Resume \/ DeadlineElapses
    BY <1>5 DEF Head, Open, SkipBlank, Probe, Resume, DeadlineElapses
  <1>6. CASE Server \/ ServerFault \/ UNCHANGED vars
    BY <1>6 DEF Server, ServerFault, clientVars, vars
  <1> QED
    BY <1>1, <1>2, <1>3, <1>4, <1>5, <1>6 DEF Next, Client

\* follow_operation_events implements the delivery contract: every event
\* once, in order, none skipped, and a normal end only at the completion; a
\* read the caller positioned may also end with a log that was not complete
\* when the status turned terminal.
THEOREM FollowerImplementsDelivery == Spec => ImplementsDelivery
  <1>1. Init => Delivery!Init
    BY DeliveryInit
  <1>2. IInv /\ [Next]_vars => [Delivery!Deliver \/ Delivery!End]_<<delivered, outcome>>
    BY DeliveryStep
  <1> QED
    BY <1>1, <1>2, FollowerInvariant, PTL DEF Spec, ImplementsDelivery, Delivery!Spec
-----------------------------------------------------------------------------
(* wait_operation and waitOperation: the follower's steps                  *)

LEMMA WaitStep == WaitNext => [Next]_vars
  <1> SUFFICES ASSUME WaitNext PROVE [Next]_vars
    OBVIOUS
  <1>1. CASE StatusRead \/ StatusFails \/ Followed \/ Wake
    BY <1>1 DEF StatusRead, StatusFails, Followed, Wake
  <1>2. CASE Follow \/ Service
    BY <1>2 DEF Follow, Service, Next
  <1>3. CASE ServerFault \/ DeadlineElapses
    BY <1>3 DEF Next
  <1> QED
    BY <1>1, <1>2, <1>3 DEF WaitNext, Caller

\* A wait uses the follower as any caller does: every step of a wait is a step
\* of follow_operation_events and its service, or leaves them alone.
THEOREM WaitImplementsFollower == WaitSpec => Spec
  <1>1. WaitInit => Init
    BY DEF WaitInit
  <1>2. [WaitNext]_allVars => [Next]_vars
    BY WaitStep DEF allVars
  <1> QED
    BY <1>1, <1>2, PTL DEF WaitSpec, Spec

\* So a wait, too, gets every event once and in order.
THEOREM WaitImplementsDelivery == WaitSpec => ImplementsDelivery
  BY WaitImplementsFollower, FollowerImplementsDelivery

-----------------------------------------------------------------------------
(* A wait returns behind the completion                                    *)

\* An iteration from the first event ends normally only at the last.
EndSound == outcome = "returned" /\ start = 0 => delivered = N

\* Behind the events a wait knows that it has them all; a terminal status it
\* has read is still terminal.
WaitSound ==
    /\ mode # "iterate" => start = 0
    /\ at = "kind" => mode = "auto"
    /\ at = "follow" => mode = "iterate" \/ FollowsEvents
    /\ at \in {"status", "sleep"} => mode # "iterate" /\ (FollowsEvents => delivered = N)
    /\ result = "terminal" => finished
    /\ at \in {"kind", "follow", "status", "sleep"} => answer = "none"

WaitInv == EndSound /\ WaitSound /\ ReturnsAfterCompletion

LEMMA EndSoundStep == ASSUME IInv, EndSound, [Next]_vars PROVE EndSound'
  <1>1. CASE outcome' = outcome
    <2>1. start' = start
      BY DEF Next, Client, Expires, Head, Open, StreamBreaks, SseError, Refused, SkipBlank, Deliver,
             EndOfStream, Probe, Resume, Server, ServerFault, DeadlineElapses, clientVars, vars
    <2>2. CASE outcome = "none"
      BY <1>1, <2>2 DEF EndSound
    <2>3. CASE outcome # "none"
      <3>1. delivered' = delivered
        BY <2>3, DeliveryStep DEF Delivery!Deliver, Delivery!End
      <3> QED
        BY <1>1, <2>1, <3>1 DEF EndSound
    <2> QED
      BY <2>2, <2>3
  <1>2. CASE outcome' # outcome
    <2>1. Delivery!Deliver \/ Delivery!End
      BY <1>2, DeliveryStep
    <2>2. outcome' = "returned" => delivered' = N \/ start # 0
      BY <2>1 DEF Delivery!Deliver, Delivery!End
    <2>3. start' = start
      BY DEF Next, Client, Expires, Head, Open, StreamBreaks, SseError, Refused, SkipBlank, Deliver,
             EndOfStream, Probe, Resume, Server, ServerFault, DeadlineElapses, clientVars, vars
    <2> QED
      BY <2>2, <2>3 DEF EndSound
  <1> QED
    BY <1>1, <1>2

\* What the log and the iteration keep while a wait is not following.
LEMMA ServiceKeeps ==
    ASSUME Server \/ ServerFault \/ DeadlineElapses \/ UNCHANGED vars
    PROVE  /\ UNCHANGED <<start, delivered, outcome>>
           /\ finished => finished'
  BY DEF Server, ServerFault, DeadlineElapses, Produce, FinishOperation, SendEvent, EndStream,
         StreamFault, clientVars, logVars, vars

LEMMA ClientKeeps == ASSUME Client PROVE UNCHANGED <<start, finished>>
  BY DEF Client, Expires, Head, Open, StreamBreaks, SseError, Refused, SkipBlank, Deliver,
         EndOfStream, Probe, Resume, Closed, Opened, logVars

LEMMA WaitInvStep == ASSUME IInv, WaitInv, [WaitNext]_allVars PROVE WaitInv'
  <1>1. EndSound'
    BY EndSoundStep, WaitStep DEF WaitInv, allVars
  <1>2. CASE StatusRead
    BY <1>1, <1>2 DEF StatusRead, Polled, End, WaitInv, WaitSound, ReturnsAfterCompletion, FollowsEvents, vars, clientVars, logVars
  <1>3. CASE StatusFails
    BY <1>1, <1>3 DEF StatusFails, End, WaitInv, WaitSound, ReturnsAfterCompletion, FollowsEvents, vars, clientVars, logVars
  <1>4. CASE Follow
    BY <1>1, <1>4, ClientKeeps DEF Follow, WaitInv, WaitSound, ReturnsAfterCompletion, FollowsEvents, waitVars
  <1>5. CASE Followed
    <2>1. UNCHANGED <<start, delivered, outcome, finished, mode, import, result>>
      BY <1>5 DEF Followed, vars, clientVars, logVars
    <2>2. CASE mode # "iterate" /\ outcome = "returned"
      <3>1. delivered = N /\ at' = "status" /\ answer' = answer /\ answer = "none"
        BY <1>5, <2>2 DEF Followed, WaitInv, WaitSound, EndSound
      <3> QED
        BY <1>1, <2>1, <2>2, <3>1 DEF WaitInv, WaitSound, ReturnsAfterCompletion, FollowsEvents
    <2>3. CASE ~ (mode # "iterate" /\ outcome = "returned")
      BY <1>1, <1>5, <2>1, <2>3 DEF Followed, End, WaitInv, WaitSound, ReturnsAfterCompletion, FollowsEvents
    <2> QED
      BY <2>2, <2>3
  <1>6. CASE Wake
    BY <1>1, <1>6 DEF Wake, WaitInv, WaitSound, ReturnsAfterCompletion, FollowsEvents, vars, clientVars, logVars
  <1>7. CASE Service \/ ((ServerFault \/ DeadlineElapses) /\ UNCHANGED waitVars) \/ UNCHANGED allVars
    <2>1. UNCHANGED waitVars /\ UNCHANGED <<start, delivered, outcome>> /\ (finished => finished')
      BY <1>7, ServiceKeeps DEF Service, allVars
    <2> QED
      BY <1>1, <2>1 DEF WaitInv, WaitSound, ReturnsAfterCompletion, FollowsEvents, waitVars
  <1> QED
    BY <1>2, <1>3, <1>4, <1>5, <1>6, <1>7 DEF WaitNext, Caller

\* A wait that returns has read a status that was terminal, and one that
\* follows the events has had them all, for every log and all faults.
THEOREM WaitReturnsAfterCompletion == WaitSpec => []ReturnsAfterCompletion
  <1>1. WaitInit => WaitInv
    BY DEF WaitInit, Init, WaitInv, EndSound, WaitSound, ReturnsAfterCompletion, FollowsEvents
  <1>2. IInv /\ WaitInv /\ [WaitNext]_allVars => WaitInv'
    BY WaitInvStep
  <1>3. WaitSpec => []IInv
    BY WaitImplementsFollower, FollowerInvariant
  <1>4. WaitInv => ReturnsAfterCompletion
    BY DEF WaitInv
  <1> QED
    BY <1>1, <1>2, <1>3, <1>4, PTL DEF WaitSpec

-----------------------------------------------------------------------------
(* The Go client's follower                                                *)

\* GoFollower's variables are called here what OperationWaits calls them:
\* last is lastID, seen is parsed, before is attemptID, terminal is draining.
GoTyped ==
    /\ LogTypeOK
    /\ start \in Starts
    /\ pc \in {"open", "reading", "recover", "pause", "done"}
    /\ last \in 0 .. N /\ seen \in 0 .. N /\ before \in 0 .. N
    /\ drains \in Nat
    /\ delivered \in 0 .. N
    /\ outcome \in {"none", "returned", "raised", "refused", "timeout"}

GoPhases ==
    /\ pc = "reading" <=> conn # "none"
    /\ outcome = "none" <=> pc # "done"

\* Attempts are left before every drained read.
GoDrainsCounted ==
    /\ ~ terminal => drains = 0
    /\ MaxDrains # 0 =>
        /\ drains <= MaxDrains
        /\ terminal /\ pc \in {"open", "pause"} => drains < MaxDrains

\* A drained read that met the end of the stream had it all.
EofSound == pc = "recover" /\ eof /\ terminal /\ ~ early => delivered = N

GoInv ==
    /\ GoTyped /\ GoPhases /\ ReadSound /\ CursorSound /\ GoDrainsCounted
    /\ TerminalSound /\ EofSound /\ EndSound

-----------------------------------------------------------------------------
(* The Go client's wait, and both clients                                  *)

\* Behind the events a wait knows that it has them all.
GoWaitSound ==
    /\ mode # "iterate" => start = 0
    /\ at = "kind" => mode \in {"auto", "poll"}
    /\ at = "follow" => mode = "iterate" \/ FollowsEvents
    /\ at \in {"status", "wait"} => mode # "iterate" /\ (FollowsEvents => delivered = N)
    /\ at \in {"kind", "follow", "status", "wait"} => answer = "none"

BothInv ==
    /\ client \in {"python", "go"}
    /\ client = "python" => IInv /\ WaitInv
    /\ client = "go" => GoInv /\ GoWaitSound /\ ReturnsAfterCompletion

-----------------------------------------------------------------------------
(* A step of the Go client's follower                                      *)

\* A step that leaves the stream, or is on none, keeps the invariant if it
\* leaves the cursor and the server's log alone.
LEMMA GoAside ==
    ASSUME GoInv, Go!Closed, faults' \in 0 .. MaxFaults,
           UNCHANGED << start, last, seen, before, terminal, drains, delivered, eof >>,
           \/ pc' = "done" /\ outcome' \in {"raised", "refused", "timeout"}
           \/ pc' = "done" /\ outcome' = "returned" /\ start # 0
           \/ pc = "recover" /\ pc' = "pause" /\ outcome' = outcome /\ (terminal => Go!DrainsLeft)
           \/ pc = "pause" /\ pc' = "open" /\ outcome' = outcome
    PROVE  GoInv'
  <1> USE DEF Go!Closed
  <1>1. GoTyped'
    BY DEF GoInv, GoTyped, LogTypeOK
  <1>2. GoPhases' /\ ReadSound' /\ EofSound' /\ EndSound'
    BY DEF GoInv, GoPhases, ReadSound, EofSound, EndSound
  <1>3. CursorSound' /\ TerminalSound'
    BY DEF GoInv, CursorSound, TerminalSound
  <1>4. GoDrainsCounted'
    BY Constants DEF GoInv, GoTyped, GoDrainsCounted, Go!DrainsLeft
  <1> QED
    BY <1>1, <1>2, <1>3, <1>4 DEF GoInv

LEMMA GoEndsInv ==
    ASSUME GoInv, Go!ContextEnds \/ Go!Refused
    PROVE  GoInv'
  <1>1. CASE Go!ContextEnds
    <2>1. faults' \in 0 .. MaxFaults
      BY <1>1 DEF Go!ContextEnds, GoInv, GoTyped, LogTypeOK
    <2> QED
      BY <1>1, <2>1, GoAside DEF Go!ContextEnds, Go!Finish
  <1>2. CASE Go!Refused
    <2>1. conn = "none" /\ UNCHANGED logVars
      BY <1>2 DEF Go!Refused, Go!logVars, logVars, GoInv, GoPhases
    <2>2. Go!Closed /\ faults' \in 0 .. MaxFaults
      BY <2>1 DEF Go!Closed, logVars, GoInv, GoTyped, LogTypeOK
    <2> QED
      BY <1>2, <2>2, GoAside DEF Go!Refused, Go!Finish
  <1> QED
    BY <1>1, <1>2

LEMMA GoPauseInv ==
    ASSUME GoInv, Go!RecoverDrain \/ Go!WaitOver
    PROVE  GoInv'
  <1>1. pc \in {"recover", "pause"} /\ UNCHANGED logVars
    BY DEF Go!RecoverDrain, Go!WaitOver, Go!logVars, logVars
  <1>2. Go!Closed /\ faults' \in 0 .. MaxFaults
    BY <1>1 DEF Go!Closed, logVars, GoInv, GoTyped, LogTypeOK, GoPhases
  <1>3. CASE Go!RecoverDrain
    BY <1>2, <1>3, GoAside DEF Go!RecoverDrain, Go!Finish, Go!MayEndAtEof
  <1>4. CASE Go!WaitOver
    BY <1>2, <1>4, GoAside DEF Go!WaitOver
  <1> QED
    BY <1>3, <1>4

LEMMA GoOpenInv == ASSUME GoInv, Go!OpenStream PROVE GoInv'
  <1>1. /\ pc = "open" /\ before' = last /\ eof' = FALSE
        /\ drains' = IF terminal THEN drains + 1 ELSE drains
        /\ UNCHANGED << start, last, terminal, delivered, outcome, produced, finished, early >>
    BY DEF Go!OpenStream, Go!Opened, Go!Closed
  <1>2. \/ pc' = "reading" /\ conn' = "open" /\ sent' = last /\ seen' = last /\ faults' = faults
        \/ pc' = "recover" /\ conn' = "none" /\ sent' = sent /\ seen' = seen
           /\ faults < MaxFaults /\ faults' = faults + 1
    BY DEF Go!OpenStream, Go!Opened, Go!Cursor, Go!Closed, Go!Fault
  <1>3. GoTyped'
    <2>1. faults' \in 0 .. MaxFaults
      BY <1>2, Constants DEF GoInv, GoTyped, LogTypeOK
    <2>2. drains' \in Nat
      BY <1>1 DEF GoInv, GoTyped
    <2>3. sent' \in 0 .. N /\ seen' \in 0 .. N
      BY <1>2 DEF GoInv, GoTyped, LogTypeOK
    <2> QED
      BY <1>1, <1>2, <2>1, <2>2, <2>3 DEF GoInv, GoTyped, LogTypeOK
  <1>4. GoPhases' /\ EndSound'
    BY <1>1, <1>2 DEF GoInv, GoPhases, EndSound
  <1>5. ReadSound'
    BY <1>1, <1>2 DEF GoInv, GoTyped, ReadSound
  <1>6. CursorSound' /\ TerminalSound'
    BY <1>1, <1>2 DEF GoInv, CursorSound, TerminalSound
  <1>7. GoDrainsCounted'
    BY <1>1, <1>2, Constants DEF GoInv, GoTyped, GoDrainsCounted
  <1>8. EofSound'
    BY <1>1 DEF EofSound
  <1> QED
    BY <1>3, <1>4, <1>5, <1>6, <1>7, <1>8 DEF GoInv

LEMMA GoSkipBlankInv == ASSUME GoInv, Go!SkipBlank PROVE GoInv'
  <1> USE DEF Go!SkipBlank, Go!logVars
  <1>1. GoTyped'
    BY Constants DEF GoInv, GoTyped, LogTypeOK
  <1>2. ReadSound'
    BY DEF GoInv, GoTyped, LogTypeOK, ReadSound
  <1>3. GoPhases' /\ CursorSound' /\ TerminalSound' /\ GoDrainsCounted' /\ EofSound' /\ EndSound'
    BY DEF GoInv, GoPhases, CursorSound, TerminalSound, GoDrainsCounted, EofSound, EndSound
  <1> QED
    BY <1>1, <1>2, <1>3 DEF GoInv

LEMMA GoDeliverInv == ASSUME GoInv, Go!Deliver PROVE GoInv'
  <1>1. /\ pc = "reading" /\ seen < sent
        /\ seen' = seen + 1 /\ last' = seen + 1 /\ delivered' = seen + 1
        /\ UNCHANGED << start, before, terminal, drains, eof >>
        /\ seen \in Nat /\ seen + 1 \in 0 .. N /\ outcome = "none"
    BY Constants DEF Go!Deliver, GoInv, GoTyped, LogTypeOK, GoPhases
  <1>2. CursorSound'
    BY <1>1 DEF CursorSound
  <1>3. CASE seen + 1 = N
    <2> USE <1>1, <1>3 DEF Go!Deliver, Go!Finish, Go!Closed
    <2>1. GoTyped'
      BY DEF GoInv, GoTyped, LogTypeOK
    <2>2. GoPhases' /\ ReadSound' /\ TerminalSound' /\ GoDrainsCounted' /\ EofSound' /\ EndSound'
      BY DEF GoInv, GoPhases, ReadSound, TerminalSound, GoDrainsCounted, EofSound, EndSound
    <2> QED
      BY <1>2, <2>1, <2>2 DEF GoInv
  <1>4. CASE seen + 1 # N
    <2> USE <1>1, <1>4 DEF Go!Deliver, Go!logVars
    <2>1. GoTyped'
      BY DEF GoInv, GoTyped, LogTypeOK
    <2>2. ReadSound'
      BY DEF GoInv, GoTyped, LogTypeOK, ReadSound
    <2>3. GoPhases' /\ TerminalSound' /\ GoDrainsCounted' /\ EofSound' /\ EndSound'
      BY DEF GoInv, GoPhases, TerminalSound, GoDrainsCounted, EofSound, EndSound
    <2> QED
      BY <1>2, <2>1, <2>2, <2>3 DEF GoInv
  <1> QED
    BY <1>3, <1>4

\* Between two points of the log with nothing but blanks between them, the
\* completion is not.
LEMMA NotPastCompletion ==
    ASSUME NEW a \in 0 .. N, NEW b \in 0 .. N, a <= b, (a + 1) .. b \subseteq Blank, b = N
    PROVE  a = N
  <1>1. N \notin (a + 1) .. b
    BY Constants
  <1> QED
    BY <1>1, Constants

\* The cursor moves over what was parsed behind the last event: blanks.
LEMMA GoStreamEndsInv == ASSUME GoInv, Go!StreamEnds PROVE GoInv'
  <1>1. /\ pc = "reading" /\ last' = seen /\ pc' = "recover" /\ conn' = "none"
        /\ UNCHANGED << produced, finished, early, sent >>
        /\ UNCHANGED << start, seen, before, terminal, drains, delivered, outcome >>
    BY DEF Go!StreamEnds, Go!Captured, Go!Closed
  <1>2. faults' \in 0 .. MaxFaults
    BY Constants DEF Go!StreamEnds, Go!Fault, GoInv, GoTyped, LogTypeOK
  <1>3. eof' => conn = "ended" /\ seen = sent
    BY DEF Go!StreamEnds
  <1>4. /\ delivered \in 0 .. N /\ last \in 0 .. N /\ seen \in 0 .. N
        /\ delivered <= last /\ last <= seen
        /\ (delivered + 1) .. last \subseteq Blank /\ (last + 1) .. seen \subseteq Blank
    BY <1>1 DEF GoInv, GoTyped, ReadSound, CursorSound
  <1>5. delivered <= seen /\ (delivered + 1) .. seen \subseteq Blank
    BY <1>4
  <1>6. GoTyped'
    BY <1>1, <1>2 DEF GoInv, GoTyped, LogTypeOK
  <1>7. GoPhases' /\ ReadSound' /\ GoDrainsCounted' /\ TerminalSound' /\ EndSound'
    BY <1>1 DEF GoInv, GoPhases, ReadSound, GoDrainsCounted, TerminalSound, EndSound
  <1>8. CursorSound'
    BY <1>1, <1>4, <1>5 DEF CursorSound
  <1>9. EofSound'
    <2> SUFFICES ASSUME eof', terminal, ~ early PROVE delivered = N
      BY <1>1 DEF EofSound
    <2>1. seen = N
      BY <1>3 DEF GoInv, TerminalSound
    <2> QED
      BY <1>4, <1>5, <2>1, NotPastCompletion
  <1> QED
    BY <1>6, <1>7, <1>8, <1>9 DEF GoInv

\* OperationTerminal starts the drain only behind a terminal status.
LEMMA GoRecoverFollowInv == ASSUME GoInv, Go!RecoverFollow PROVE GoInv'
  <1>1. /\ pc = "recover" /\ ~ terminal /\ pc' \in {"open", "pause"}
        /\ UNCHANGED << produced, finished, early, conn, sent >>
        /\ UNCHANGED << start, last, seen, before, drains, delivered, outcome >>
    BY DEF Go!RecoverFollow
  <1>2. terminal' => finished
    BY Zenon DEF Go!RecoverFollow
  <1>3. faults' \in 0 .. MaxFaults
    <2>1. faults' = faults \/ (faults < MaxFaults /\ faults' = faults + 1)
      BY DEF Go!RecoverFollow, Go!Fault
    <2> QED
      BY <2>1, Constants DEF GoInv, GoTyped, LogTypeOK
  <1>4. GoTyped'
    BY <1>1, <1>3 DEF GoInv, GoTyped, LogTypeOK
  <1>5. GoPhases' /\ ReadSound' /\ CursorSound' /\ EofSound' /\ EndSound'
    BY <1>1 DEF GoInv, GoPhases, ReadSound, CursorSound, EofSound, EndSound
  <1>6. GoDrainsCounted'
    BY <1>1, Constants DEF GoInv, GoDrainsCounted
  <1>7. TerminalSound'
    <2>1. conn' # "ended"
      BY <1>1 DEF GoInv, GoPhases
    <2>2. (terminal' => finished') /\ (finished' /\ ~ early' => produced' = N)
      BY <1>1, <1>2, Zenon DEF GoInv, TerminalSound
    <2> QED
      BY <2>1, <2>2, Zenon DEF TerminalSound
  <1> QED
    BY <1>4, <1>5, <1>6, <1>7 DEF GoInv

LEMMA GoServerInv ==
    ASSUME GoInv, Go!Server \/ Go!ServerFault \/ Go!CallerCancels
    PROVE  GoInv'
  <1> USE DEF GoInv, GoTyped, LogTypeOK, GoPhases, ReadSound, CursorSound, GoDrainsCounted,
              TerminalSound, EofSound, EndSound
  <1>1. CASE Go!CallerCancels
    BY <1>1 DEF Go!CallerCancels, Go!logVars
  <1>2. CASE Go!Produce /\ UNCHANGED Go!clientVars
    BY <1>2, Constants DEF Go!Produce, Go!clientVars
  <1>3. CASE Go!FinishOperation /\ UNCHANGED Go!clientVars
    BY <1>3 DEF Go!FinishOperation, Go!clientVars
  <1>4. CASE Go!SendEvent /\ UNCHANGED Go!clientVars
    BY <1>4, Constants DEF Go!SendEvent, Go!clientVars
  <1>5. CASE Go!EndStream(~ terminal) /\ UNCHANGED Go!clientVars
    BY <1>5 DEF Go!EndStream, Go!clientVars
  <1>6. CASE Go!ServerFault
    <2>1. faults' \in 0 .. MaxFaults
      BY <1>6, Constants DEF Go!ServerFault, Go!StreamFault, Go!Fault
    <2>2. /\ conn = "open" /\ (conn' = "hung" \/ (conn' = "ended" /\ ~ terminal))
          /\ UNCHANGED << produced, finished, early, sent >> /\ UNCHANGED Go!clientVars
      BY <1>6 DEF Go!ServerFault, Go!StreamFault
    <2> QED
      BY <2>1, <2>2 DEF Go!clientVars
  <1> QED
    BY <1>1, <1>2, <1>3, <1>4, <1>5, <1>6 DEF Go!Server

LEMMA GoInvUnchanged == ASSUME GoInv, UNCHANGED Go!vars PROVE GoInv'
  BY DEF Go!vars, Go!logVars, Go!clientVars, GoInv, GoTyped, LogTypeOK, GoPhases, ReadSound,
         CursorSound, GoDrainsCounted, TerminalSound, EofSound, EndSound

\* A step of the Go client's iteration and its service.
GoStep == Go!Client \/ Go!Server \/ Go!ServerFault \/ Go!CallerCancels

LEMMA GoStepInv == ASSUME GoInv, GoStep PROVE GoInv'
  BY GoEndsInv, GoPauseInv, GoOpenInv, GoSkipBlankInv, GoDeliverInv, GoStreamEndsInv,
     GoRecoverFollowInv, GoServerInv
  DEF GoStep, Go!Client

\* What the Go follower hands out, and how it ends, keeps the contract.
LEMMA GoDeliveryStep ==
    ASSUME GoInv, GoStep
    PROVE  [Delivery!Deliver \/ Delivery!End]_<<delivered, outcome>>
  <1>1. CASE Go!Deliver
    <2>1. /\ outcome = "none" /\ delivered' = seen + 1 /\ seen < sent /\ sent \in 0 .. N
          /\ delivered <= last /\ last <= seen
          /\ delivered \in Nat /\ last \in Nat /\ seen \in Nat
          /\ (delivered + 1) .. last \subseteq Blank /\ (last + 1) .. seen \subseteq Blank
      BY <1>1 DEF Go!Deliver, GoInv, GoTyped, LogTypeOK, GoPhases, CursorSound, ReadSound
    <2>2. (delivered + 1) .. (delivered' - 1) \subseteq Blank /\ delivered' \in (delivered + 1) .. N
      BY <2>1, Constants
    <2>3. /\ outcome' \in {"none", "returned"}
          /\ outcome' = "returned" => delivered' = N
      BY <1>1, <2>1 DEF Go!Deliver, Go!Finish
    <2> QED
      BY <2>1, <2>2, <2>3 DEF Delivery!Deliver
  <1>2. CASE Go!RecoverDrain
    <2>1. delivered' = delivered /\ outcome = "none"
      BY <1>2 DEF Go!RecoverDrain, GoInv, GoPhases
    <2>2. outcome' = outcome \/ outcome' \in {"returned", "raised"}
      BY <1>2 DEF Go!RecoverDrain, Go!Finish
    <2>3. outcome' = "returned" => delivered = N \/ (start # 0 /\ early)
      BY <1>2, <2>1 DEF Go!RecoverDrain, Go!Finish, Go!MayEndAtEof, GoInv, EofSound
    <2> QED
      BY <2>1, <2>2, <2>3 DEF Delivery!End
  <1>3. CASE Go!ContextEnds \/ Go!Refused
    BY <1>3 DEF Go!ContextEnds, Go!Refused, Go!Finish, GoInv, GoPhases, Delivery!End
  <1>4. CASE Go!OpenStream \/ Go!SkipBlank \/ Go!StreamEnds \/ Go!RecoverFollow \/ Go!WaitOver
    BY <1>4 DEF Go!OpenStream, Go!SkipBlank, Go!StreamEnds, Go!RecoverFollow, Go!WaitOver
  <1>5. CASE Go!Server \/ Go!ServerFault \/ Go!CallerCancels
    BY <1>5 DEF Go!Server, Go!ServerFault, Go!CallerCancels, Go!clientVars
  <1> QED
    BY <1>1, <1>2, <1>3, <1>4, <1>5 DEF GoStep, Go!Client

-----------------------------------------------------------------------------
(* A step of the Go client's wait                                          *)

LEMMA GoWaitStep == Go!WaitNext => GoStep \/ UNCHANGED Go!vars
  <1>1. CASE Go!GetOperationStatus \/ Go!StatusFails \/ Go!Followed \/ Go!WaitForRetry
    BY <1>1 DEF Go!GetOperationStatus, Go!StatusFails, Go!Followed, Go!WaitForRetry
  <1>2. CASE Go!Follow \/ Go!Service \/ Go!Cancels \/ Go!ServerFault
    BY <1>2 DEF Go!Follow, Go!Service, Go!Cancels, GoStep
  <1> QED
    BY <1>1, <1>2 DEF Go!WaitNext, Go!Caller

\* The client's own steps leave the status alone, and nobody takes a terminal
\* status or the caller's starting point back.
LEMMA GoStepKeeps ==
    ASSUME GoStep
    PROVE  start' = start /\ (finished => finished') /\ (~ Go!Client => delivered' = delivered)
  BY DEF GoStep, Go!Client, Go!ContextEnds, Go!OpenStream, Go!Refused, Go!SkipBlank, Go!Deliver,
         Go!StreamEnds, Go!RecoverDrain, Go!RecoverFollow, Go!WaitOver, Go!CallerCancels, Go!Server,
         Go!ServerFault, Go!Produce, Go!FinishOperation, Go!SendEvent, Go!EndStream, Go!StreamFault,
         Go!Opened, Go!Closed, Go!clientVars, Go!logVars

LEMMA GoWaitInvStep ==
    ASSUME GoInv, GoWaitSound, ReturnsAfterCompletion, Go!WaitNext
    PROVE  GoWaitSound' /\ ReturnsAfterCompletion'
  <1> USE DEF GoWaitSound, ReturnsAfterCompletion, FollowsEvents
  <1>1. CASE Go!GetOperationStatus
    <2>1. UNCHANGED << start, delivered, finished, mode, import >> /\ at \in {"kind", "status"}
      BY <1>1 DEF Go!GetOperationStatus, Go!vars, Go!clientVars, Go!logVars
    <2>2. readTerminal' => finished
      BY <1>1, Zenon DEF Go!GetOperationStatus
    <2>3. \/ at = "kind" /\ Go!UseEvents /\ at' = "follow" /\ answer' = answer
          \/ /\ ~ (at = "kind" /\ Go!UseEvents)
             /\ \/ readTerminal' /\ at' = "end" /\ answer' = "returned"
                \/ at' = "wait" /\ answer' = answer
      BY <1>1 DEF Go!GetOperationStatus, Go!Loop, Go!End
    <2> QED
      BY <2>1, <2>2, <2>3 DEF Go!UseEvents
  <1>2. CASE Go!StatusFails
    BY <1>2 DEF Go!StatusFails, Go!End, Go!vars, Go!clientVars, Go!logVars
  <1>3. CASE Go!Follow
    <2>1. GoStep /\ at = "follow" /\ UNCHANGED << mode, import, at, answer >>
      BY <1>3 DEF Go!Follow, Go!waitVars, GoStep
    <2> QED
      BY <2>1, GoStepKeeps
  <1>4. CASE Go!Followed
    <2>1. UNCHANGED << start, delivered, finished, mode, import >>
      BY <1>4 DEF Go!Followed, Go!vars, Go!clientVars, Go!logVars
    <2>2. CASE mode # "iterate" /\ outcome = "returned"
      <3>1. delivered = N /\ at' = "status" /\ answer' = answer /\ answer = "none"
        BY <1>4, <2>2 DEF Go!Followed, GoInv, EndSound
      <3> QED
        BY <2>1, <2>2, <3>1
    <2>3. CASE ~ (mode # "iterate" /\ outcome = "returned")
      BY <1>4, <2>1, <2>3 DEF Go!Followed, Go!End
    <2> QED
      BY <2>2, <2>3
  <1>5. CASE Go!WaitForRetry
    BY <1>5 DEF Go!WaitForRetry, Go!End, Go!vars, Go!clientVars, Go!logVars
  <1>6. CASE /\ Go!Server \/ Go!ServerFault \/ Go!CallerCancels
             /\ UNCHANGED Go!waitVars
    <2>1. UNCHANGED << start, delivered, mode, import, at, answer >> /\ (finished => finished')
      BY <1>6 DEF Go!Server, Go!ServerFault, Go!CallerCancels, Go!Produce, Go!FinishOperation,
                  Go!SendEvent, Go!EndStream, Go!StreamFault, Go!clientVars, Go!logVars, Go!waitVars
    <2> QED
      BY <2>1
  <1> QED
    BY <1>1, <1>2, <1>3, <1>4, <1>5, <1>6 DEF Go!WaitNext, Go!Caller, Go!Service, Go!Cancels

-----------------------------------------------------------------------------
(* Both clients                                                            *)

LEMMA BothInit1 == BothInit => BothInv
  <1> SUFFICES ASSUME BothInit PROVE BothInv
    OBVIOUS
  <1>1. CASE client = "python" /\ WaitInit
    BY <1>1, InitInv DEF WaitInit, Init, BothInv, WaitInv, EndSound, WaitSound,
                         ReturnsAfterCompletion, FollowsEvents
  <1>2. CASE client = "go" /\ Go!WaitInit
    <2>1. start \in 0 .. N /\ 0 \in 0 .. N /\ 0 \in 0 .. MaxFaults /\ 0 \in Nat
      BY <1>2, Constants DEF Go!WaitInit, Go!Init
    <2>2. GoTyped
      BY <1>2, <2>1 DEF Go!WaitInit, Go!Init, Go!LogInit, GoTyped, LogTypeOK
    <2>3. GoPhases /\ ReadSound /\ GoDrainsCounted /\ TerminalSound /\ EofSound /\ EndSound
      BY <1>2, Constants DEF Go!WaitInit, Go!Init, Go!LogInit, GoPhases, ReadSound, GoDrainsCounted,
                             TerminalSound, EofSound, EndSound
    <2>4. CursorSound
      BY <1>2, <2>1 DEF Go!WaitInit, Go!Init, CursorSound
    <2>5. GoWaitSound /\ ReturnsAfterCompletion
      BY <1>2 DEF Go!WaitInit, GoWaitSound, ReturnsAfterCompletion, FollowsEvents
    <2> QED
      BY <1>2, <2>2, <2>3, <2>4, <2>5 DEF BothInv, GoInv
  <1> QED
    BY <1>1, <1>2 DEF BothInit

LEMMA BothStep == ASSUME BothInv, [BothNext]_bothVars PROVE BothInv'
  <1>1. CASE InPython(WaitNext)
    <2>1. client = "python" /\ client' = "python" /\ WaitNext /\ IInv /\ WaitInv
      BY <1>1 DEF InPython, BothInv
    <2>2. IInv' /\ WaitInv'
      BY <2>1, WaitStep, NextInv, WaitInvStep
    <2> QED
      BY <2>1, <2>2 DEF BothInv
  <1>2. CASE InGo(Go!WaitNext)
    <2>1. /\ client = "go" /\ client' = "go" /\ Go!WaitNext
          /\ GoInv /\ GoWaitSound /\ ReturnsAfterCompletion
      BY <1>2 DEF InGo, BothInv
    <2>2. GoInv'
      BY <2>1, GoWaitStep, GoStepInv, GoInvUnchanged
    <2>3. GoWaitSound' /\ ReturnsAfterCompletion'
      BY <2>1, GoWaitInvStep
    <2> QED
      BY <2>1, <2>2, <2>3 DEF BothInv
  <1>3. CASE UNCHANGED bothVars
    <2>1. UNCHANGED << allVars, client >>
      BY <1>3 DEF bothVars
    <2>2. CASE client = "python"
      <3>1. IInv' /\ WaitInv'
        BY <2>1, <2>2, NextInv, WaitInvStep DEF BothInv, allVars
      <3> QED
        BY <2>1, <2>2, <3>1 DEF BothInv
    <2>3. CASE client = "go"
      <3>1. GoInv'
        BY <1>3, <2>3, GoInvUnchanged
           DEF BothInv, bothVars, allVars, vars, logVars, clientVars, goOnly, Go!vars, Go!logVars,
               Go!clientVars
      <3>2. GoWaitSound' /\ ReturnsAfterCompletion'
        BY <2>1, <2>3 DEF BothInv, allVars, vars, logVars, clientVars, waitVars, GoWaitSound,
                          ReturnsAfterCompletion, FollowsEvents
      <3> QED
        BY <2>1, <2>3, <3>1, <3>2 DEF BothInv
    <2> QED
      BY <2>2, <2>3 DEF BothInv
  <1> QED
    BY <1>1, <1>2, <1>3 DEF BothNext

\* The followers and the waits of all clients keep their cursor, their drain
\* and what they know of the log sound in every reachable state.
THEOREM WaitsInvariant == BothSpec => []BothInv
  BY BothInit1, BothStep, PTL DEF BothSpec

\* captureLastEventID and the last_id of the other clients: wherever a
\* reconnect resumes, no event that the caller has not got is behind it.
THEOREM WaitsCursorSound == BothSpec => []CursorSound
  <1>1. BothInv => CursorSound
    BY DEF BothInv, IInv, GoInv
  <1> QED
    BY <1>1, WaitsInvariant, PTL

\* A retained log is read again no more often than the policy allows, by any
\* client and through any failures.
THEOREM WaitsDrainsBounded == BothSpec => []DrainsBounded
  <1>1. BothInv => DrainsBounded
    BY DEF BothInv, IInv, GoInv, DrainsCounted, GoDrainsCounted, DrainsBounded
  <1> QED
    BY <1>1, WaitsInvariant, PTL

\* Neither wait returns before it has read a terminal status and, when it
\* follows the events, handed out all of them.
THEOREM WaitsReturnAfterCompletion == BothSpec => []ReturnsAfterCompletion
  <1>1. BothInv => ReturnsAfterCompletion
    BY DEF BothInv, WaitInv
  <1> QED
    BY <1>1, WaitsInvariant, PTL

\* Every follower, called by an iterating caller or by a wait, implements the
\* delivery contract.
THEOREM WaitsImplementDelivery == BothSpec => ImplementsDelivery
  <1>1. BothInit => Delivery!Init
    <2>1. BothInit => start \in 0 .. N /\ delivered = start /\ outcome = "none"
      BY Constants DEF BothInit, WaitInit, Init, Go!WaitInit, Go!Init
    <2> QED
      BY <2>1 DEF Delivery!Init
  <1>2. ASSUME BothInv, [BothNext]_bothVars
        PROVE  [Delivery!Deliver \/ Delivery!End]_<<delivered, outcome>>
    <2>1. CASE InPython(WaitNext)
      BY <1>2, <2>1, WaitStep, DeliveryStep DEF InPython, BothInv
    <2>2. CASE InGo(Go!WaitNext)
      BY <1>2, <2>2, GoWaitStep, GoDeliveryStep DEF InGo, BothInv, Go!vars, Go!clientVars
    <2>3. CASE UNCHANGED bothVars
      BY <2>3 DEF bothVars, allVars, vars, clientVars
    <2> QED
      BY <1>2, <2>1, <2>2, <2>3 DEF BothNext
  <1> QED
    BY <1>1, <1>2, WaitsInvariant, PTL DEF BothSpec, ImplementsDelivery, Delivery!Spec
=============================================================================
