---------------------------- MODULE TuiLinkProofs ----------------------------
(***************************************************************************)
(* What of TuiLink holds for any kinds of telemetry, limits and number of  *)
(* keys: the mutex is held exactly where a frame is waited for and during  *)
(* the fix-up, and no feedback is open for a command whose reply was       *)
(* applied.                                                                *)
(***************************************************************************)
EXTENDS TuiLink, LinkQueues, TLAPS

-----------------------------------------------------------------------------
(* Types.                                                                  *)

\* The parts of TypeOK.
PcOK == /\ conn \in Threads \cup {"free"}
        /\ pc \in [recv     : {"top", "refresh", "lock", "receive", "handshake", "ids"},
                   retry    : {"unborn", "sleep", "refresh", "done"},
                   watchdog : {"sleep", "probe", "rtl"},
                   ui       : {"idle", "startConn", "fixup"}
                                 \cup {"send arm", "send mode", "send start"}]
        /\ conn = "recv" <=> pc["recv"] = "receive"
        /\ conn = "ui" <=> pc["ui"] = "fixup"
ThreadsOK == /\ streams \in [handshake : BOOLEAN, asked : BOOLEAN, attempts : 0 .. MaxAttempts]
             /\ coverage \subseteq Kinds
             /\ watch \in [outage : 0 .. RtlAfter, rtlSent : BOOLEAN]
CommandsOK == /\ keys \in 0 .. MaxKeys
              /\ pending \in [of : Commands \cup {Nothing}, warned : BOOLEAN]
              /\ toFC \in Seq(Commands)
              /\ acks \in Seq(Commands)
              /\ frames \in Seq(Commands)
              /\ applied \subseteq Commands

\* The streams are retried at most MaxAttempts times: the thread goes to
\* request them only below.
AttemptsOK == pc["retry"] = "refresh" => streams.attempts < MaxAttempts
\* A key that is served was pressed.
Serving == {"startConn", "fixup", "send arm", "send mode", "send start"}
PressedOK == pc["ui"] \in Serving => keys > 0

TypeInv == PcOK /\ ThreadsOK /\ CommandsOK /\ AttemptsOK /\ PressedOK

LEMMA SendSteps == /\ DOMAIN SendOf = {"arm", "mode"}
                   /\ SendOf["arm"] = "send arm" /\ SendOf["mode"] = "send mode"
  BY DEF SendOf

LEMMA PcNext == PcOK /\ [Next]_vars => PcOK'
<1> SUFFICES ASSUME PcOK, [Next]_vars PROVE PcOK'
  OBVIOUS
<1> USE DEF PcOK, Threads
<1>1. CASE RecvStep
  BY <1>1 DEF RecvStep, RecvAsked, RecvRefresh, RecvLock, RecvHandshake, RecvIds, GoTo, WithConn
<1>2. CASE RecvFrame
  BY <1>2 DEF RecvFrame, RecvTelemetry, RecvHeartbeat, RecvAck, Receives, GoTo
<1>3. CASE RetryStep
  BY <1>3 DEF RetryStep, RetryWakes, RetryRefresh, GoTo, WithConn
<1>4. CASE Probe \/ SendRtl
  BY <1>4 DEF Probe, WatchWakes, ProbeOnline, ProbeOffline, SendRtl, GoTo, WithConn
<1>5. CASE KeyStreams \/ KeyCommand \/ KeyStart
  <2>1. CASE KeyCommand
    <3>1. PICK to \in {"send arm", "send mode"} : GoTo("ui", "idle", to) /\ UNCHANGED conn
      BY <2>1, SendSteps DEF KeyCommand
    <3> QED
      BY <3>1 DEF GoTo
  <2>2. CASE KeyStreams \/ KeyStart
    BY <2>2 DEF KeyStreams, KeyStart, GoTo
  <2> QED
    BY <1>5, <2>1, <2>2
<1>6. CASE UiSends \/ FixupEnds
  <2>1. CASE SendCommand \/ SendStart
    <3>1. PICK from : GoTo("ui", from, "idle") /\ UNCHANGED conn
      BY <2>1 DEF SendCommand, SendStart, WithConn
    <3>2. pc["ui"] # "fixup"
      BY <2>1 DEF SendCommand, SendStart, WithConn
    <3> QED
      BY <3>1, <3>2 DEF GoTo
  <2>2. CASE StartConn \/ FixupEnds
    BY <2>2 DEF StartConn, FixupEnds, GoTo
  <2> QED
    BY <1>6, <2>1, <2>2 DEF UiSends
<1>7. CASE UiTurn \/ FcAcks \/ UNCHANGED vars
  BY <1>7 DEF UiTurn, UiAck, UiMode, UiWarns, FcAcks, vars
<1> QED
  BY <1>1, <1>2, <1>3, <1>4, <1>5, <1>6, <1>7 DEF Next

LEMMA ThreadsNext == TypeInv /\ [Next]_vars => ThreadsOK' /\ AttemptsOK'
<1> SUFFICES ASSUME TypeInv, [Next]_vars PROVE ThreadsOK' /\ AttemptsOK'
  OBVIOUS
<1>1. ThreadsOK /\ AttemptsOK /\ PcOK
  BY DEF TypeInv
<1>2. CASE UNCHANGED recvVars /\ UNCHANGED watch /\ pc'["retry"] = pc["retry"]
  BY <1>1, <1>2 DEF ThreadsOK, AttemptsOK, recvVars
<1>3. \A t, from, to : GoTo(t, from, to) /\ t # "retry" => pc'["retry"] = pc["retry"]
  BY <1>1 DEF GoTo, PcOK
<1>4. CASE RecvAsked \/ RecvIds \/ KeyStreams
  <2>1. pc'["retry"] = pc["retry"]
    BY <1>3, <1>4 DEF RecvAsked, RecvIds, KeyStreams
  <2> QED
    BY <1>1, <1>4, <2>1 DEF RecvAsked, RecvIds, KeyStreams, ThreadsOK, AttemptsOK, uiVars
<1>5. CASE RecvTelemetry
  <2>1. pc'["retry"] = pc["retry"]
    BY <1>3, <1>5 DEF RecvTelemetry, Receives
  <2> QED
    BY <1>1, <1>5, <2>1 DEF RecvTelemetry, ThreadsOK, AttemptsOK
<1>6. CASE RecvHandshake
  <2>1. pc'["retry"] = "sleep"
    BY <1>1, <1>6 DEF RecvHandshake, PcOK
  <2> QED
    BY <1>1, <1>6, <2>1 DEF RecvHandshake, ThreadsOK, AttemptsOK, recvVars
<1>7. CASE RetryWakes
  <2>1. pc'["retry"] = "refresh" => streams.attempts # MaxAttempts
    BY <1>1, <1>7 DEF RetryWakes, GoTo, PcOK
  <2> QED
    BY <1>1, <1>7, <2>1, BoundsAssumption DEF RetryWakes, ThreadsOK, AttemptsOK, recvVars
<1>8. CASE RetryRefresh
  <2>1. pc'["retry"] = "sleep" /\ pc["retry"] = "refresh"
    BY <1>1, <1>8 DEF RetryRefresh, GoTo, PcOK
  <2>2. streams.attempts + 1 \in 0 .. MaxAttempts
    BY <1>1, <2>1, BoundsAssumption DEF ThreadsOK, AttemptsOK
  <2> QED
    BY <1>1, <1>8, <2>1, <2>2 DEF RetryRefresh, ThreadsOK, AttemptsOK
<1>9. CASE ProbeOnline
  <2>1. pc'["retry"] = pc["retry"]
    BY <1>3, <1>9 DEF ProbeOnline
  <2> QED
    BY <1>1, <1>9, <2>1, BoundsAssumption DEF ProbeOnline, ThreadsOK, AttemptsOK, recvVars
<1>10. CASE ProbeOffline
  <2>1. pc'["retry"] = pc["retry"]
    BY <1>3, <1>10 DEF ProbeOffline
  <2>2. \E n \in 1 .. RtlAfter : watch' = [watch EXCEPT !.outage = n]
    BY <1>10 DEF ProbeOffline
  <2>3. watch' \in [outage : 0 .. RtlAfter, rtlSent : BOOLEAN]
    BY <1>1, <2>2 DEF ThreadsOK
  <2> QED
    BY <1>1, <1>10, <2>1, <2>3 DEF ProbeOffline, ThreadsOK, AttemptsOK, recvVars
<1>11. CASE SendRtl
  <2>1. pc'["retry"] = pc["retry"]
    BY <1>3, <1>11 DEF SendRtl
  <2> QED
    BY <1>1, <1>11, <2>1 DEF SendRtl, ThreadsOK, AttemptsOK, recvVars
<1>12. CASE RecvRefresh \/ RecvLock \/ RecvHeartbeat \/ RecvAck \/ WatchWakes
  BY <1>2, <1>3, <1>12 DEF RecvRefresh, RecvLock, RecvHeartbeat, RecvAck, Receives, WatchWakes
<1>13. CASE KeyCommand \/ KeyStart \/ UiSends \/ FixupEnds \/ UiTurn \/ FcAcks \/ UNCHANGED vars
  BY <1>2, <1>3, <1>13 DEF KeyCommand, KeyStart, UiSends, SendCommand, SendStart, StartConn, FixupEnds,
     UiTurn, UiAck, UiMode, UiWarns, FcAcks, vars, recvVars
<1> QED
  BY <1>4, <1>5, <1>6, <1>7, <1>8, <1>9, <1>10, <1>11, <1>12, <1>13
     DEF Next, RecvStep, RecvFrame, RetryStep, Probe

LEMMA PressedNext == TypeInv /\ [Next]_vars => PressedOK' /\ keys' \in 0 .. MaxKeys
<1> SUFFICES ASSUME TypeInv, [Next]_vars PROVE PressedOK' /\ keys' \in 0 .. MaxKeys
  OBVIOUS
<1>1. keys \in 0 .. MaxKeys /\ PressedOK /\ PcOK
  BY DEF TypeInv, CommandsOK
<1>2. CASE /\ UNCHANGED keys
           /\ \/ pc'["ui"] = pc["ui"] \/ pc["ui"] \in Serving
              \/ pc'["ui"] \notin Serving
  BY <1>1, <1>2 DEF PressedOK
<1>3. CASE Press
  <2>1. keys' > 0 /\ keys' \in 0 .. MaxKeys
    BY <1>1, <1>3, BoundsAssumption DEF Press
  <2> QED
    BY <2>1 DEF PressedOK
<1>4. \A t, from, to : GoTo(t, from, to) /\ t # "ui" => pc'["ui"] = pc["ui"]
  BY <1>1 DEF GoTo, PcOK
<1>5. \A from, to : GoTo("ui", from, to) => pc'["ui"] = to
  BY <1>1 DEF GoTo, PcOK
<1>6. CASE KeyStreams \/ KeyCommand \/ KeyStart
  BY <1>3, <1>6 DEF KeyStreams, KeyCommand, KeyStart
<1>7. CASE UiSends \/ FixupEnds
  <2>1. CASE SendCommand \/ SendStart
    <3>1. pc'["ui"] = "idle" /\ UNCHANGED keys
      BY <1>5, <2>1 DEF SendCommand, SendStart
    <3> QED
      BY <1>2, <3>1 DEF Serving
  <2>2. CASE StartConn \/ FixupEnds
    <3>1. pc["ui"] \in {"startConn", "fixup"} /\ UNCHANGED keys
      BY <2>2 DEF StartConn, FixupEnds, GoTo, uiVars
    <3> QED
      BY <1>2, <3>1 DEF Serving
  <2> QED
    BY <1>7, <2>1, <2>2 DEF UiSends
<1>8. CASE RecvHandshake
  <2>1. pc'["ui"] = pc["ui"]
    BY <1>1, <1>8 DEF RecvHandshake, PcOK
  <2> QED
    BY <1>2, <1>8, <2>1 DEF RecvHandshake, uiVars
<1>9. CASE (RecvStep /\ ~RecvHandshake) \/ RecvFrame
  BY <1>2, <1>4, <1>9 DEF RecvStep, RecvAsked, RecvRefresh, RecvLock, RecvIds, RecvFrame,
     RecvTelemetry, RecvHeartbeat, RecvAck, Receives, uiVars
<1>10. CASE RetryStep \/ Probe \/ SendRtl
  BY <1>2, <1>4, <1>10 DEF RetryStep, RetryWakes, RetryRefresh, Probe, WatchWakes, ProbeOnline,
     ProbeOffline, SendRtl, uiVars
<1>11. CASE UiTurn \/ FcAcks \/ UNCHANGED vars
  BY <1>2, <1>11 DEF UiTurn, UiAck, UiMode, UiWarns, FcAcks, vars, uiVars
<1> QED
  BY <1>6, <1>7, <1>8, <1>9, <1>10, <1>11 DEF Next, RecvStep

LEMMA PendingTypes == /\ NoFeedback \in [of : Commands \cup {Nothing}, warned : BOOLEAN]
                      /\ \A c \in Commands :
                            Feedback(c) \in [of : Commands \cup {Nothing}, warned : BOOLEAN]
  BY DEF NoFeedback, Feedback

Sending == pc["ui"] \in Serving

\* What the UI sends has the number of the last key, and so does what the
\* feedback is of.
Sent == {c \in Commands : c.key = keys}

LEMMA SentCommand ==
    ASSUME TypeInv, SendCommand \/ SendStart
    PROVE  /\ Sending /\ pc'["ui"] = "idle"
           /\ \/ toFC' = toFC
              \/ \E c \in Sent : toFC' = Append(toFC, c)
              \/ \E c, d \in Sent : toFC' = Append(Append(toFC, c), d)
           /\ pending' = NoFeedback \/ \E c \in Sent : pending' = Feedback(c)
<1>1. PcOK /\ PressedOK /\ keys \in 0 .. MaxKeys
  BY DEF TypeInv, CommandsOK
<1>2. Sending /\ pc'["ui"] = "idle"
  <2>1. CASE SendCommand
    <3>1. PICK cmd \in {"arm", "mode"} : GoTo("ui", SendOf[cmd], "idle")
      BY <2>1, SendSteps DEF SendCommand
    <3>2. pc["ui"] \in {"send arm", "send mode"} /\ pc'["ui"] = "idle"
      BY <1>1, <3>1, SendSteps DEF GoTo, PcOK
    <3> QED
      BY <3>2 DEF Sending, Serving
  <2>2. CASE SendStart
    BY <1>1, <2>2 DEF SendStart, GoTo, PcOK, Sending, Serving
  <2> QED
    BY <2>1, <2>2
<1>3. keys \in 1 .. MaxKeys
  BY <1>1, <1>2, BoundsAssumption DEF PressedOK, Sending
<1>4. \A cmd \in {"arm", "mode", "start"} : [key |-> keys, cmd |-> cmd] \in Sent
  BY <1>3 DEF Commands, Sent
<1>5. CASE SendCommand
  <2>1. PICK cmd \in {"arm", "mode"} :
            LET command == [key |-> keys, cmd |-> cmd] IN
              \/ toFC' = Append(toFC, command) /\ pending' = Feedback(command)
              \/ UNCHANGED toFC /\ pending' = NoFeedback
    BY <1>5, SendSteps DEF SendCommand
  <2> QED
    BY <1>2, <1>4, <2>1
<1>6. CASE SendStart
  BY <1>2, <1>4, <1>6 DEF SendStart
<1> QED
  BY <1>5, <1>6

LEMMA CommandsNext == TypeInv /\ [Next]_vars => CommandsOK'
<1> SUFFICES ASSUME TypeInv, [Next]_vars PROVE CommandsOK'
  OBVIOUS
<1>1. CommandsOK
  BY DEF TypeInv
<1>2. keys' \in 0 .. MaxKeys
  BY PressedNext
<1>3. CASE UNCHANGED <<pending, applied, linkVars>>
  BY <1>1, <1>2, <1>3 DEF CommandsOK, linkVars
<1>4. CASE RecvStep \/ RecvTelemetry \/ RecvHeartbeat
  BY <1>3, <1>4 DEF RecvStep, RecvAsked, RecvRefresh, RecvLock, RecvHandshake, RecvIds,
     RecvTelemetry, RecvHeartbeat, uiVars
<1>5. CASE RecvAck
  BY <1>1, <1>2, <1>5, QueueTypes DEF RecvAck, CommandsOK, uiVars
<1>6. CASE RetryStep \/ Probe \/ SendRtl
  BY <1>3, <1>6 DEF RetryStep, RetryWakes, RetryRefresh, Probe, WatchWakes, ProbeOnline,
     ProbeOffline, SendRtl, uiVars
<1>7. CASE KeyStreams \/ KeyCommand \/ KeyStart \/ StartConn \/ FixupEnds \/ UNCHANGED vars
  BY <1>3, <1>7 DEF KeyStreams, KeyCommand, KeyStart, StartConn, FixupEnds, vars, uiVars, linkVars
<1>8. CASE SendCommand \/ SendStart
  <2>1. toFC \in Seq(Commands) /\ Sent \subseteq Commands
    BY <1>1 DEF CommandsOK, Sent
  <2>2. \A c, d \in Sent : /\ Append(toFC, c) \in Seq(Commands)
                          /\ Append(Append(toFC, c), d) \in Seq(Commands)
    BY <2>1, QueueTypes
  <2>3. toFC' \in Seq(Commands)
    BY <1>8, <2>1, <2>2, SentCommand
  <2>4. pending' \in [of : Commands \cup {Nothing}, warned : BOOLEAN]
    BY <1>8, <2>1, SentCommand, PendingTypes
  <2> QED
    BY <1>1, <1>2, <1>8, <2>3, <2>4 DEF SendCommand, SendStart, CommandsOK
<1>9. CASE UiAck
  <2>1. Head(frames) \in Commands /\ Tail(frames) \in Seq(Commands)
    BY <1>1, <1>9, QueueTypes DEF UiAck, CommandsOK
  <2>2. pending' \in [of : Commands \cup {Nothing}, warned : BOOLEAN]
    BY <1>1, <1>9, PendingTypes DEF UiAck, CommandsOK
  <2> QED
    BY <1>1, <1>2, <1>9, <2>1, <2>2 DEF UiAck, CommandsOK
<1>10. CASE UiMode
  BY <1>1, <1>2, <1>10, PendingTypes DEF UiMode, CommandsOK, linkVars
<1>11. CASE UiWarns
  BY <1>1, <1>2, <1>11 DEF UiWarns, CommandsOK, linkVars
<1>12. CASE FcAcks
  <2>1. acks' \in Seq(Commands) /\ toFC' \in Seq(Commands)
    <3>1. toFC \in Seq(Commands) /\ acks \in Seq(Commands) /\ toFC # << >>
      BY <1>1, <1>12 DEF FcAcks, CommandsOK
    <3>2. Head(toFC) \in Commands /\ Tail(toFC) \in Seq(Commands)
      BY <3>1, QueueTypes
    <3>3. Append(acks, Head(toFC)) \in Seq(Commands)
      BY <3>1, <3>2, QueueTypes
    <3> QED
      BY <1>12, <3>1, <3>2, <3>3 DEF FcAcks
  <2> QED
    BY <1>1, <1>2, <1>12, <2>1 DEF FcAcks, CommandsOK, uiVars
<1> QED
  BY <1>4, <1>5, <1>6, <1>7, <1>8, <1>9, <1>10, <1>11, <1>12 DEF Next, RecvFrame, UiSends, UiTurn

LEMMA TypeInit == Init => TypeInv
<1> SUFFICES ASSUME Init PROVE TypeInv
  OBVIOUS
<1>1. PcOK
  BY DEF Init, PcOK, Threads
<1>2. ThreadsOK
  BY BoundsAssumption DEF Init, ThreadsOK
<1>3. CommandsOK
  BY BoundsAssumption, PendingTypes DEF Init, CommandsOK
<1>4. AttemptsOK /\ PressedOK
  BY DEF Init, AttemptsOK, PressedOK, Serving
<1> QED
  BY <1>1, <1>2, <1>3, <1>4 DEF TypeInv

LEMMA TypeInvariant == Spec => []TypeInv
<1>1. TypeInv /\ [Next]_vars => TypeInv'
  BY PcNext, ThreadsNext, PressedNext, CommandsNext DEF TypeInv
<1> QED
  BY <1>1, TypeInit, PTL DEF Spec

\* The mutex is held exactly where a frame is waited for and during the fix-up
\* of m (src/src/bin/tui/recv.rs, ui_loop.rs), the streams are retried at most
\* STREAM_AUTO_RETRY_MAX_ATTEMPTS times, and every queue holds commands.
THEOREM TypeCorrect == Spec => []TypeOK
<1>1. TypeInv => TypeOK
  BY DEF TypeInv, PcOK, ThreadsOK, CommandsOK, TypeOK
<1> QED
  BY <1>1, TypeInvariant, PTL
-----------------------------------------------------------------------------
(* The feedback.                                                           *)

InFlight == Elems(toFC) \cup Elems(acks) \cup Elems(frames)

\* The key that is being served has a number nobody has used, so what it sends
\* is new.
Known == InFlight \cup applied \cup {pending.of}
FeedbackInv == /\ \A c \in Known : c.key <= keys /\ (Sending => c.key < keys)
               /\ pending.of \notin applied

\* What is under way is commands, with numbers that were given out.
LEMMA FlightTypes ==
    ASSUME CommandsOK
    PROVE  /\ keys \in Nat /\ InFlight \subseteq Commands
           /\ Known \subseteq Commands \cup {Nothing} /\ \A c \in Known : c.key \in Nat
           /\ Nothing.key = 0 /\ Nothing \notin applied
<1>1. InFlight \subseteq Commands
  BY QueueElems DEF InFlight, CommandsOK
<1>2. keys \in Nat /\ applied \subseteq Commands /\ pending.of \in Commands \cup {Nothing}
  BY BoundsAssumption DEF CommandsOK
<1>3. \A c \in Commands : c.key \in Nat /\ c.key > 0
  BY BoundsAssumption DEF Commands
<1>4. Nothing.key = 0
  BY DEF Nothing
<1> QED
  BY <1>1, <1>2, <1>3, <1>4 DEF Known

\* Nothing new is on its way, and a feedback at most ends.
LEMMA FeedbackKept ==
    ASSUME TypeInv, FeedbackInv, InFlight' \subseteq InFlight, UNCHANGED applied,
           pending'.of = pending.of \/ pending'.of = Nothing,
           \/ keys' = keys /\ (Sending' => Sending)
           \/ keys' = keys + 1
    PROVE  FeedbackInv'
<1>1. /\ keys \in Nat /\ \A c \in Known : c.key \in Nat
      /\ Nothing.key = 0 /\ Nothing \notin applied
  BY FlightTypes DEF TypeInv
<1>2. pending'.of \notin applied'
  BY <1>1 DEF FeedbackInv
<1>3. Known' \subseteq Known \cup {Nothing}
  BY DEF Known
<1>4. pending.of.key \in Nat /\ pending.of.key <= keys /\ (Sending => pending.of.key < keys)
  BY <1>1 DEF FeedbackInv, Known
<1>5. ASSUME NEW c \in Known' PROVE c.key <= keys' /\ (Sending' => c.key < keys')
  <2>1. c.key \in Nat /\ c.key <= keys /\ (Sending => c.key < keys)
    <3>1. CASE c \in Known
      BY <1>1, <3>1 DEF FeedbackInv
    <3>2. CASE c = Nothing
      BY <1>1, <1>4, <3>2
    <3> QED
      BY <1>3, <3>1, <3>2
  <2> QED
    BY <1>1, <2>1
<1> QED
  BY <1>2, <1>5 DEF FeedbackInv

\* What is sent is new: nothing has its number yet.
LEMMA FeedbackOpens ==
    ASSUME TypeInv, FeedbackInv, SendCommand \/ SendStart
    PROVE  FeedbackInv'
<1>1. /\ Sending /\ pc'["ui"] = "idle"
      /\ \/ toFC' = toFC
         \/ \E c \in Sent : toFC' = Append(toFC, c)
         \/ \E c, d \in Sent : toFC' = Append(Append(toFC, c), d)
      /\ pending' = NoFeedback \/ \E c \in Sent : pending' = Feedback(c)
  BY SentCommand
<1>2. CommandsOK /\ keys' = keys /\ UNCHANGED <<applied, acks, frames>>
  BY DEF SendCommand, SendStart, TypeInv
<1>3. ~Sending'
  BY <1>1 DEF Sending, Serving
<1>4. /\ keys \in Nat /\ \A c \in Known : c.key \in Nat /\ c.key < keys
      /\ Nothing.key = 0 /\ Nothing \notin applied /\ pending.of.key < keys
  BY <1>1, <1>2, FlightTypes DEF FeedbackInv, Known
<1>5. Elems(toFC') \subseteq Elems(toFC) \cup Sent
  <2>1. toFC \in Seq(Commands) /\ Sent \subseteq Commands
    BY <1>2 DEF CommandsOK, Sent
  <2>2. ASSUME NEW c \in Sent
        PROVE  /\ Append(toFC, c) \in Seq(Commands)
               /\ Elems(Append(toFC, c)) = Elems(toFC) \cup {c}
    BY <2>1, QueueTypes, QueueElems
  <2>3. ASSUME NEW c \in Sent, NEW d \in Sent
        PROVE  Elems(Append(Append(toFC, c), d)) = Elems(toFC) \cup {c} \cup {d}
    <3> DEFINE q == Append(toFC, c)
    <3>1. q \in Seq(Commands) /\ d \in Commands /\ Elems(q) = Elems(toFC) \cup {c}
      BY <2>1, <2>2
    <3> HIDE DEF q
    <3>2. Elems(Append(q, d)) = Elems(q) \cup {d}
      BY <3>1, QueueElems
    <3> QED
      BY <3>1, <3>2 DEF q
  <2>4. CASE toFC' = toFC
    BY <2>4
  <2>5. CASE \E c \in Sent : toFC' = Append(toFC, c)
    BY <2>2, <2>5
  <2>6. CASE \E c, d \in Sent : toFC' = Append(Append(toFC, c), d)
    BY <2>3, <2>6
  <2> QED
    BY <1>1, <2>4, <2>5, <2>6
<1>6. Known' \subseteq Known \cup Sent \cup {Nothing}
  <2>1. Elems(acks') = Elems(acks) /\ Elems(frames') = Elems(frames)
    BY <1>2
  <2>2. InFlight' = Elems(toFC') \cup Elems(acks') \cup Elems(frames')
    BY DEF InFlight, Elems
  <2>3. pending'.of \in Sent \cup {Nothing}
    BY <1>1 DEF NoFeedback, Feedback
  <2> QED
    BY <1>2, <1>5, <2>1, <2>2, <2>3 DEF Known, InFlight
<1>7. \A c \in Known' : c.key <= keys'
  BY <1>2, <1>4, <1>6 DEF Sent
<1>8. pending'.of \notin applied'
  <2>1. \A c \in Sent : c \notin applied
    BY <1>4 DEF Known, Sent
  <2> QED
    BY <1>1, <1>2, <1>4, <2>1 DEF NoFeedback, Feedback
<1> QED
  BY <1>3, <1>7, <1>8 DEF FeedbackInv

\* The reply to an open feedback closes it, whatever else it answers.
LEMMA FeedbackAnswered ==
    ASSUME TypeInv, FeedbackInv, UiAck
    PROVE  FeedbackInv'
<1>1. /\ CommandsOK /\ frames \in Seq(Commands) /\ frames # << >>
      /\ frames' = Tail(frames)
      /\ UNCHANGED <<toFC, acks, keys, pc>>
      /\ pc["ui"] = "idle"
  BY DEF UiAck, TypeInv, CommandsOK
<1> DEFINE h == Head(frames)
<1>2. h \in InFlight
  BY <1>1, QueueElems DEF InFlight
<1>3. InFlight' \subseteq InFlight
  <2>1. Elems(Tail(frames)) \subseteq Elems(frames)
    BY <1>1, QueueElems
  <2>2. Elems(toFC') = Elems(toFC) /\ Elems(acks') = Elems(acks)
        /\ Elems(frames') \subseteq Elems(frames)
    BY <1>1, <2>1
  <2>3. InFlight' = Elems(toFC') \cup Elems(acks') \cup Elems(frames')
    BY DEF InFlight, Elems
  <2> QED
    BY <2>2, <2>3 DEF InFlight
<1>4. applied' = applied \cup {h}
  BY DEF UiAck
<1>5. \/ pending' = NoFeedback
      \/ pending' = pending /\ pending.of.cmd # h.cmd
  BY DEF UiAck
<1> HIDE DEF h
<1>6. /\ keys \in Nat /\ InFlight \subseteq Commands
      /\ Nothing.key = 0 /\ Nothing \notin applied /\ \A c \in Commands : c.key > 0
  BY <1>1, FlightTypes, BoundsAssumption DEF Commands
<1>7. pending'.of = Nothing \/ (pending'.of = pending.of /\ pending.of # h)
  BY <1>5 DEF NoFeedback
<1>8. pending'.of \notin applied'
  BY <1>2, <1>4, <1>6, <1>7 DEF FeedbackInv
<1>9. Known' \subseteq Known \cup {Nothing}
  BY <1>2, <1>3, <1>4, <1>7 DEF Known
<1>10. \A c \in Known' : c.key <= keys'
  <2>1. keys' = keys /\ 0 <= keys
    BY <1>1, <1>6
  <2> QED
    BY <1>6, <1>9, <2>1 DEF FeedbackInv
<1>11. ~Sending'
  BY <1>1 DEF Sending, Serving
<1> QED
  BY <1>8, <1>10, <1>11 DEF FeedbackInv

\* A number stays that of one command, whatever is sent, lost, answered or applied.
LEMMA FeedbackNext == TypeInv /\ FeedbackInv /\ [Next]_vars => FeedbackInv'
<1> SUFFICES ASSUME TypeInv, FeedbackInv, [Next]_vars PROVE FeedbackInv'
  OBVIOUS
<1>1. CommandsOK /\ PcOK
  BY DEF TypeInv
<1>2. \A t, from, to : GoTo(t, from, to) /\ t # "ui" => pc'["ui"] = pc["ui"]
  BY <1>1 DEF GoTo, PcOK
<1>3. \A from, to : GoTo("ui", from, to) => pc'["ui"] = to
  BY <1>1 DEF GoTo, PcOK
<1>4. UNCHANGED linkVars => InFlight' = InFlight
  BY DEF linkVars, InFlight, Elems
<1>5. InFlight' = Elems(toFC') \cup Elems(acks') \cup Elems(frames')
  BY DEF InFlight, Elems
<1>6. CASE UNCHANGED <<pending, applied, keys, linkVars>> /\ pc'["ui"] = pc["ui"]
  BY <1>4, <1>6, FeedbackKept DEF Sending
<1>7. CASE RecvHandshake
  <2>1. pc'["ui"] = pc["ui"]
    BY <1>1, <1>7 DEF RecvHandshake, PcOK
  <2> QED
    BY <1>6, <1>7, <2>1 DEF RecvHandshake, uiVars
<1>8. CASE RecvAsked \/ RecvRefresh \/ RecvLock \/ RecvIds \/ RecvTelemetry \/ RecvHeartbeat
  BY <1>2, <1>6, <1>8 DEF RecvAsked, RecvRefresh, RecvLock, RecvIds, RecvTelemetry, RecvHeartbeat,
     Receives, uiVars
<1>9. CASE RetryStep \/ Probe \/ SendRtl
  BY <1>2, <1>6, <1>9 DEF RetryStep, RetryWakes, RetryRefresh, Probe, WatchWakes, ProbeOnline,
     ProbeOffline, SendRtl, uiVars
<1>10. CASE RecvAck
  <2>1. /\ acks \in Seq(Commands) /\ acks # << >> /\ frames \in Seq(Commands)
        /\ acks' = Tail(acks) /\ frames' = Append(frames, Head(acks)) /\ toFC' = toFC
    BY <1>1, <1>10 DEF RecvAck, CommandsOK
  <2>2. /\ Elems(Tail(acks)) \subseteq Elems(acks) /\ Head(acks) \in Elems(acks)
        /\ Head(acks) \in Commands
    BY <2>1, QueueElems
  <2>3. Elems(Append(frames, Head(acks))) = Elems(frames) \cup {Head(acks)}
    BY <2>1, <2>2, QueueElems
  <2>4. InFlight' \subseteq InFlight
    BY <1>5, <2>1, <2>2, <2>3 DEF InFlight
  <2>5. pc'["ui"] = pc["ui"]
    BY <1>2, <1>10 DEF RecvAck, Receives
  <2> QED
    BY <1>10, <2>4, <2>5, FeedbackKept DEF RecvAck, Sending, uiVars
<1>11. CASE KeyStreams \/ KeyCommand \/ KeyStart
  <2>1. keys' = keys + 1 /\ UNCHANGED <<pending, applied, linkVars>>
    BY <1>11 DEF KeyStreams, KeyCommand, KeyStart, Press
  <2> QED
    BY <1>4, <2>1, FeedbackKept
<1>12. CASE StartConn \/ FixupEnds
  <2>1. Sending
    BY <1>12 DEF StartConn, FixupEnds, GoTo, Sending, Serving
  <2>2. UNCHANGED <<pending, applied, keys, linkVars>>
    BY <1>12 DEF StartConn, FixupEnds, uiVars
  <2> QED
    BY <1>4, <2>1, <2>2, FeedbackKept
<1>13. CASE UiMode \/ UiWarns
  <2>1. UNCHANGED <<keys, applied, linkVars, pc>>
    BY <1>13 DEF UiMode, UiWarns
  <2>2. pending'.of = pending.of \/ pending'.of = Nothing
    BY <1>1, <1>13 DEF UiMode, UiWarns, NoFeedback, CommandsOK
  <2> QED
    BY <1>4, <2>1, <2>2, FeedbackKept DEF Sending
<1>14. CASE FcAcks
  <2>1. /\ toFC \in Seq(Commands) /\ toFC # << >> /\ acks \in Seq(Commands)
        /\ toFC' = Tail(toFC) /\ acks' \in {acks, Append(acks, Head(toFC))} /\ frames' = frames
    BY <1>1, <1>14 DEF FcAcks, CommandsOK
  <2>2. /\ Elems(Tail(toFC)) \subseteq Elems(toFC) /\ Head(toFC) \in Elems(toFC)
        /\ Head(toFC) \in Commands
    BY <2>1, QueueElems
  <2>3. Elems(Append(acks, Head(toFC))) = Elems(acks) \cup {Head(toFC)}
    BY <2>1, <2>2, QueueElems
  <2>4. InFlight' \subseteq InFlight
    BY <1>5, <2>1, <2>2, <2>3 DEF InFlight
  <2> QED
    BY <1>14, <2>4, FeedbackKept DEF FcAcks, Sending, uiVars
<1>15. CASE UNCHANGED vars
  BY <1>6, <1>15 DEF vars, linkVars
<1> QED
  BY <1>7, <1>8, <1>9, <1>10, <1>11, <1>12, <1>13, <1>14, <1>15, FeedbackOpens, FeedbackAnswered
     DEF Next, RecvStep, RecvFrame, UiSends, UiTurn

LEMMA FeedbackInit == Init => FeedbackInv
<1> SUFFICES ASSUME Init PROVE FeedbackInv
  OBVIOUS
<1>1. InFlight = {}
  BY DEF Init, InFlight, Elems
<1>2. Known = {Nothing} /\ Nothing.key = 0 /\ pending.of = Nothing
  BY <1>1 DEF Init, Known, NoFeedback, Nothing
<1>3. ~Sending
  BY DEF Init, Sending, Serving
<1> QED
  BY <1>1, <1>2, <1>3 DEF Init, FeedbackInv

\* No hint of a missing reply for a command whose COMMAND_ACK the UI applied
\* (src/src/bin/tui/ui_loop.rs, telemetry.rs).
THEOREM FeedbackIsOpen == Spec => []NoReplyIsMissed
<1>1. FeedbackInv => NoReplyIsMissed
  BY DEF FeedbackInv, NoReplyIsMissed
<1> QED
  BY <1>1, FeedbackInit, FeedbackNext, TypeInvariant, PTL DEF Spec
=============================================================================
