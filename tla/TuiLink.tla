------------------------------ MODULE TuiLink -------------------------------
(***************************************************************************)
(* The connection of the TUI (src/src/bin/tui), which four threads share   *)
(* under one mutex: the recv thread, which keeps it locked while it waits  *)
(* for a frame; the thread that retries the streams; the internet          *)
(* watchdog, which sends the failsafe RTL; and the UI thread, with the     *)
(* feedback it shows on the commands it sent.  (What the recv thread and   *)
(* the keys do with the mission is in Tui.)                                *)
(*                                                                         *)
(* Nothing says that frames keep coming, or that the fix-up of the key m,  *)
(* during which the UI holds the mutex, ends: see Held below.              *)
(***************************************************************************)
EXTENDS Integers, Sequences

CONSTANTS Kinds,       \* the kinds of telemetry in TelemetryCoverage
          MaxAttempts, \* STREAM_AUTO_RETRY_MAX_ATTEMPTS
          RtlAfter,    \* INTERNET_OFFLINE_RTL_AFTER_SECS, in probes
          MaxKeys      \* bound: keys pressed

ASSUME BoundsAssumption == /\ MaxAttempts \in Nat \ {0}
                           /\ RtlAfter \in Nat \ {0, 1}
                           /\ MaxKeys \in Nat

VARIABLES conn,     \* the thread that holds the connection, or free
          pc,       \* the step each thread is at
          streams,  \* the handshake, a refresh asked for, attempts
          coverage, \* TelemetryCoverage: the kinds seen
          watch,    \* NetWatchdogStatus
          keys,     \* keys pressed so far: a command has the number of its key
          pending,  \* pending_feedback
          toFC,     \* commands on the way to the FC
          acks,     \* their COMMAND_ACKs on the way to the recv thread
          frames,   \* COMMAND_ACKs in the channel to the UI
          applied   \* history: the commands whose ACK the UI applied

vars == <<conn, pc, streams, coverage, watch, keys, pending, toFC, acks, frames, applied>>
recvVars == <<streams, coverage>>
uiVars == <<keys, pending, applied>>
linkVars == <<toFC, acks, frames>>

Threads == {"recv", "retry", "watchdog", "ui"}
\* ARM and DISARM are one MAV_CMD; a mode also shows in heartbeats; m sends
\* two commands, the mode AUTO and MISSION_START.
Commands == [key : 1 .. MaxKeys, cmd : {"arm", "mode", "start"}]
Nothing == [key |-> 0, cmd |-> "none"]

\* Type invariant.
TypeOK ==
    /\ conn \in Threads \cup {"free"}
    /\ pc \in [recv     : {"top", "refresh", "lock", "receive", "handshake", "ids"},
               retry    : {"unborn", "sleep", "refresh", "done"},
               watchdog : {"sleep", "probe", "rtl"},
               ui       : {"idle", "startConn", "fixup"}
                             \cup {"send arm", "send mode", "send start"}]
    /\ conn = "recv" <=> pc["recv"] = "receive"
    /\ conn = "ui" <=> pc["ui"] = "fixup"
    /\ streams \in [handshake : BOOLEAN, asked : BOOLEAN, attempts : 0 .. MaxAttempts]
    /\ coverage \subseteq Kinds
    /\ watch \in [outage : 0 .. RtlAfter, rtlSent : BOOLEAN]
    /\ keys \in 0 .. MaxKeys
    /\ pending \in [of : Commands \cup {Nothing}, warned : BOOLEAN]
    /\ toFC \in Seq(Commands)
    /\ acks \in Seq(Commands)
    /\ frames \in Seq(Commands)
    /\ applied \subseteq Commands

NoFeedback == [of |-> Nothing, warned |-> FALSE]

Init == /\ conn = "free"
        /\ pc = [recv |-> "top", retry |-> "unborn", watchdog |-> "sleep", ui |-> "idle"]
        /\ streams = [handshake |-> FALSE, asked |-> FALSE, attempts |-> 0]
        /\ coverage = {}
        /\ watch = [outage |-> 0, rtlSent |-> FALSE]
        /\ keys = 0
        /\ pending = NoFeedback
        /\ toFC = << >>
        /\ acks = << >>
        /\ frames = << >>
        /\ applied = {}

GoTo(t, from, to) == pc[t] = from /\ pc' = [pc EXCEPT ![t] = to]

\* A section that sends under the mutex.
WithConn == conn = "free" /\ UNCHANGED conn
-----------------------------------------------------------------------------
(* The recv thread.                                                        *)

\* The keys s pressed meanwhile count as one.
RecvAsked == /\ streams.asked
             /\ GoTo("recv", "top", "refresh")
             /\ streams' = [streams EXCEPT !.asked = FALSE]
             /\ UNCHANGED <<conn, coverage, watch, uiVars, linkVars>>

RecvRefresh == /\ GoTo("recv", "refresh", "lock")
               /\ WithConn
               /\ UNCHANGED <<recvVars, watch, uiVars, linkVars>>

\* A key s that comes now is seen the next time.
RecvLock == /\ \/ ~streams.asked /\ GoTo("recv", "top", "receive")
               \/ GoTo("recv", "lock", "receive")
            /\ conn = "free"
            /\ conn' = "recv"
            /\ UNCHANGED <<recvVars, watch, uiVars, linkVars>>

\* Mutant of Receives: the mutex is still held while the frame is handled.
ReceivesKeeps(to) == GoTo("recv", "receive", to) /\ UNCHANGED conn

Receives(to) == /\ GoTo("recv", "receive", to)
                /\ conn' = "free"

\* A frame with telemetry, or one the coverage does not count, or an error.
RecvTelemetry == /\ Receives("top")
                 /\ \E seen \in SUBSET Kinds : coverage' = coverage \cup seen
                 /\ UNCHANGED <<streams, watch, uiVars, linkVars>>

\* The first heartbeat of the autopilot.
RecvHeartbeat == /\ ~streams.handshake
                 /\ Receives("handshake")
                 /\ UNCHANGED <<recvVars, watch, uiVars, linkVars>>

\* It requests the streams and starts the thread that retries.
RecvHandshake == /\ pc["recv"] = "handshake"
                 /\ pc' = [pc EXCEPT !["recv"] = "ids", !["retry"] = "sleep"]
                 /\ WithConn
                 /\ UNCHANGED <<recvVars, watch, uiVars, linkVars>>

\* From here on the watchdog has the ids of the vehicle.
RecvIds == /\ GoTo("recv", "ids", "top")
           /\ streams' = [streams EXCEPT !.handshake = TRUE]
           /\ UNCHANGED <<conn, coverage, watch, uiVars, linkVars>>

\* A COMMAND_ACK is only passed on to the UI.
RecvAck == /\ acks # << >>
           /\ Receives("top")
           /\ acks' = Tail(acks)
           /\ frames' = Append(frames, Head(acks))
           /\ UNCHANGED <<recvVars, watch, uiVars, toFC>>
-----------------------------------------------------------------------------
(* The thread that retries the streams until all kinds were seen.          *)

Complete == coverage = Kinds

RetryWakes ==
    /\ GoTo("retry", "sleep",
            IF Complete \/ streams.attempts = MaxAttempts THEN "done" ELSE "refresh")
    /\ UNCHANGED <<conn, recvVars, watch, uiVars, linkVars>>

\* Mutant of RetryRefresh: the attempts are not counted.
RetryRefreshUncounted == /\ GoTo("retry", "refresh", "sleep")
                         /\ WithConn
                         /\ UNCHANGED <<recvVars, watch, uiVars, linkVars>>

RetryRefresh == /\ GoTo("retry", "refresh", "sleep")
                /\ WithConn
                /\ streams' = [streams EXCEPT !.attempts = @ + 1]
                /\ UNCHANGED <<coverage, watch, uiVars, linkVars>>
-----------------------------------------------------------------------------
(* The internet watchdog.                                                  *)

WatchWakes == /\ GoTo("watchdog", "sleep", "probe")
              /\ UNCHANGED <<conn, recvVars, watch, uiVars, linkVars>>

ProbeOnline == /\ GoTo("watchdog", "probe", "sleep")
               /\ watch' = [outage |-> 0, rtlSent |-> FALSE]
               /\ UNCHANGED <<conn, recvVars, uiVars, linkVars>>

\* Mutant of Decides: the first failed probe after the limit decides alone.
DecidesOnce(before, after) == before < RtlAfter /\ after = RtlAfter

Decides(before, after) == after = RtlAfter

\* outage is 1 at the first failed probe, offline_since; each later one finds
\* more time gone, up to RtlAfter.
ProbeOffline ==
    \E n \in 1 .. RtlAfter :
       /\ IF watch.outage = 0 THEN n = 1 ELSE n > watch.outage \/ n = RtlAfter
       /\ watch' = [watch EXCEPT !.outage = n]
       /\ GoTo("watchdog", "probe",
               IF Decides(watch.outage, n) /\ ~watch.rtlSent /\ streams.handshake
                 THEN "rtl" ELSE "sleep")
       /\ UNCHANGED <<conn, recvVars, uiVars, linkVars>>

\* The result of the send is ignored.
SendRtl == /\ GoTo("watchdog", "rtl", "sleep")
           /\ WithConn
           /\ watch' = [watch EXCEPT !.rtlSent = TRUE]
           /\ UNCHANGED <<recvVars, uiVars, linkVars>>
-----------------------------------------------------------------------------
(* The UI thread: each turn handles the keys, then the frames and lines of *)
(* the channels, then the timeout of the feedback.                         *)

Press == keys < MaxKeys /\ keys' = keys + 1

KeyStreams == /\ GoTo("ui", "idle", "idle")
              /\ Press
              /\ streams' = [streams EXCEPT !.asked = TRUE]
              /\ UNCHANGED <<conn, coverage, watch, pending, applied, linkVars>>

SendOf == [arm |-> "send arm", mode |-> "send mode"]

KeyCommand == /\ \E cmd \in DOMAIN SendOf : GoTo("ui", "idle", SendOf[cmd])
              /\ Press
              /\ UNCHANGED <<conn, recvVars, watch, pending, applied, linkVars>>

\* A command that could be sent waits for its reply.
Feedback(command) == [of |-> command, warned |-> FALSE]

\* log_outgoing: the feedback is of the last command, if it could be sent.
SendCommand == \E cmd \in DOMAIN SendOf :
                  /\ GoTo("ui", SendOf[cmd], "idle")
                  /\ WithConn
                  /\ LET command == [key |-> keys, cmd |-> cmd] IN
                       \/ toFC' = Append(toFC, command) /\ pending' = Feedback(command)
                       \/ UNCHANGED toFC /\ pending' = NoFeedback
                  /\ UNCHANGED <<recvVars, watch, keys, applied, acks, frames>>

\* m: the mutex is held for as long as the fix-up of the mission takes.
KeyStart == /\ GoTo("ui", "idle", "startConn")
            /\ Press
            /\ UNCHANGED <<conn, recvVars, watch, pending, applied, linkVars>>

StartConn == /\ GoTo("ui", "startConn", "fixup")
             /\ conn = "free"
             /\ conn' = "ui"
             /\ UNCHANGED <<recvVars, watch, uiVars, linkVars>>

\* The mission is started, or the fix-up failed or the mission was refused.
FixupEnds == /\ \E to \in {"idle", "send start"} : GoTo("ui", "fixup", to)
             /\ conn' = "free"
             /\ UNCHANGED <<recvVars, watch, uiVars, linkVars>>

\* log_outgoing_two: the second message goes out though the first could not be
\* sent; there is feedback, of the second, only if both could.
SendStart == /\ GoTo("ui", "send start", "idle")
             /\ WithConn
             /\ LET auto == [key |-> keys, cmd |-> "mode"]
                    start == [key |-> keys, cmd |-> "start"]
                IN \/ /\ toFC' = Append(Append(toFC, auto), start)
                      /\ pending' = Feedback(start)
                   \/ /\ toFC' \in {toFC, Append(toFC, auto), Append(toFC, start)}
                      /\ pending' = NoFeedback
             /\ UNCHANGED <<recvVars, watch, keys, applied, acks, frames>>

\* Mutant of UiAck: a reply after the hint is not taken for one.
UiAckInTime == /\ pc["ui"] = "idle"
               /\ frames # << >>
               /\ frames' = Tail(frames)
               /\ pending' = IF pending.of.cmd = Head(frames).cmd /\ ~pending.warned
                               THEN NoFeedback ELSE pending
               /\ applied' = applied \cup {Head(frames)}
               /\ UNCHANGED <<conn, pc, recvVars, watch, keys, toFC, acks>>

\* apply_message, COMMAND_ACK: the feedback it answers is over.
UiAck == /\ pc["ui"] = "idle"
         /\ frames # << >>
         /\ frames' = Tail(frames)
         /\ pending' = IF pending.of.cmd = Head(frames).cmd THEN NoFeedback ELSE pending
         /\ applied' = applied \cup {Head(frames)}
         /\ UNCHANGED <<conn, pc, recvVars, watch, keys, toFC, acks>>

\* apply_message, HEARTBEAT: the mode that was asked for.
UiMode == /\ pc["ui"] = "idle"
          /\ pending.of.cmd = "mode"
          /\ pending' = NoFeedback
          /\ UNCHANGED <<conn, pc, recvVars, watch, keys, applied, linkVars>>

\* check_pending_feedback_timeout.
UiWarns == /\ pc["ui"] = "idle"
           /\ pending.of # Nothing
           /\ ~pending.warned
           /\ pending' = [pending EXCEPT !.warned = TRUE]
           /\ UNCHANGED <<conn, pc, recvVars, watch, keys, applied, linkVars>>
-----------------------------------------------------------------------------
(* External: the FC answers a command, or it or the answer is lost.        *)

FcAcks == /\ toFC # << >>
          /\ toFC' = Tail(toFC)
          /\ acks' \in {acks, Append(acks, Head(toFC))}
          /\ UNCHANGED <<conn, pc, recvVars, watch, uiVars, frames>>
-----------------------------------------------------------------------------
RecvStep == RecvAsked \/ RecvRefresh \/ RecvLock \/ RecvHandshake \/ RecvIds
RecvFrame == RecvTelemetry \/ RecvHeartbeat \/ RecvAck
RetryStep == RetryWakes \/ RetryRefresh
Probe == WatchWakes \/ ProbeOnline \/ ProbeOffline
UiSends == SendCommand \/ StartConn \/ SendStart
UiTurn == UiAck \/ UiMode \/ UiWarns

Next == \/ RecvStep \/ RecvFrame
        \/ RetryStep
        \/ Probe \/ SendRtl
        \/ KeyStreams \/ KeyCommand \/ KeyStart \/ UiSends \/ FixupEnds \/ UiTurn
        \/ FcAcks

Spec == Init /\ [][Next]_vars

\* The threads run, and take a mutex that stays free.
Fairness == /\ WF_vars(RecvStep)
            /\ WF_vars(RetryStep)
            /\ WF_vars(Probe)
            /\ WF_vars(SendRtl)

FairSpec == Spec /\ Fairness
-----------------------------------------------------------------------------
(* Properties.                                                             *)

\* The mutex is not given back: no frame comes, or the fix-up does not end.
Held == <>[](conn # "free")

\* A hypothesis, which std::sync::Mutex does not promise: a thread that waits
\* for the mutex is not passed over for ever, though the recv thread takes it
\* again at once for each next frame (recv.rs:57).
FairMutex == SF_vars(RetryStep) /\ SF_vars(SendRtl)

\* The hint that the FC did not reply, and any feedback still open, is of a
\* command whose reply the UI has not applied: keys are handled, and their
\* feedback recorded, before the frames (ui_loop.rs:48-49, telemetry.rs:33).
NoReplyIsMissed == pending.of \notin applied

\* The internet was away for 30 s and the vehicle is known: the RTL is sent
\* (watchdog.rs:56-80), unless the internet is back or the mutex is held.
FailsafeFires ==
    FairMutex => \/ /\ watch.outage = RtlAfter /\ streams.handshake
                        ~> watch.rtlSent \/ watch.outage = 0
                 \/ Held

\* The streams are not requested for ever: the thread ends once all kinds
\* were seen or its attempts are used up (recv.rs:81-110).
RetryEnds == FairMutex => (pc["retry"] = "sleep" ~> pc["retry"] = "done") \/ Held
=============================================================================
