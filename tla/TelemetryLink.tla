---------------------------- MODULE TelemetryLink ----------------------------
(***************************************************************************)
(* The MAVLink connection of drone-http and what it feeds: the connector   *)
(* thread that opens the link, runs one recv thread on it and cleans up    *)
(* (spawn_mavlink_connector in src/src/bin/drone_http.rs), the part of the *)
(* recv thread that keeps the telemetry cache and notices a silent link    *)
(* (src/src/mavlink_http_runtime.rs), the telemetry hub with its WebSocket *)
(* clients (src/src/telemetry_hub.rs, ws_telemetry), and the two gates that *)
(* read the cache, of a disarm and of a takeoff (src/src/flight_safety.rs). *)
(*                                                                         *)
(* Time is the age of what was last heard, in ticks up to one past         *)
(* TELEM_STALE.  Of the cache the module keeps the ages of the last frame  *)
(* and the last position, whether the GPS has a 3D fix, and the relative   *)
(* altitude as on the ground (below DISARM_BLOCK_ALT_M) or in the air.     *)
(***************************************************************************)
EXTENDS Integers, Sequences

CONSTANTS Clients, \* WebSocket clients
          Stale,   \* TELEM_STALE, in ticks
          Lag      \* capacity of the broadcast channel

ASSUME LinkBounds == Stale \in Nat \ {0} /\ Lag \in Nat \ {0}

Never == -1
Ages == 0 .. (Stale + 1)
Snapshots == [ok : BOOLEAN, position : BOOLEAN, link : {"up", "down"}]
LinkDown == [ok |-> FALSE, position |-> FALSE, link |-> "down"]

VARIABLES heard,     \* external: frames of the FC get through
          connector, \* the step the connector thread is at
          conn,      \* AppState::conn holds a connection
          linkInfo,  \* AppState::link
          recv,      \* the recv thread
          silence,   \* the age of last_ok, local to the recv thread
          telem,     \* AppState::telem, the TelemetryCache
          gate,      \* the 10 Hz gate of the hub is open
          client,    \* the step each client's task is at
          queue,     \* what each subscription holds
          view,      \* what each client was sent last
          request    \* a disarm or takeoff request: its step, and whether the
                     \* recv thread ran when it decided on an altitude

threads == <<connector, conn, linkInfo, recv, silence>>
hub == <<gate, client, queue, view>>
vars == <<heard, threads, telem, hub, request>>

Steps == {"open", "setConn", "setLink", "spawn", "join", "clearConn", "clearTelem",
          "clearLink", "publish"}
Cache == [frame : Ages \cup {Never}, positioned : Ages \cup {Never}, fix : BOOLEAN,
          altitude : {"none", "ground", "air"}]
NoTelem == [frame |-> Never, positioned |-> Never, fix |-> FALSE, altitude |-> "none"]

NoRequest == [at |-> "idle", linked |-> FALSE]

\* Type invariant: no subscription holds more than the channel does, and the
\* altitude comes with a position (TelemetryCache, LinkInfo, TelemetrySnapshot).
TypeOK == /\ heard \in BOOLEAN
          /\ connector \in Steps
          /\ conn \in BOOLEAN
          /\ linkInfo \in {"up", "down"}
          /\ recv \in {"none", "running", "ended"}
          /\ silence \in Ages
          /\ telem \in Cache
          /\ telem.altitude = "none" <=> telem.positioned = Never
          /\ gate \in BOOLEAN
          /\ client \in [Clients -> {"away", "subscribed", "open"}]
          /\ queue \in [Clients -> Seq(Snapshots)]
          /\ \A c \in Clients : Len(queue[c]) <= Lag
          /\ view \in [Clients -> Snapshots]
          /\ request \in [at : {"idle", "send", "climb", "complete"}, linked : BOOLEAN]

Init == /\ heard \in BOOLEAN
        /\ connector = "open"
        /\ conn = FALSE
        /\ linkInfo = "down"
        /\ recv = "none"
        /\ silence = 0
        /\ telem = NoTelem
        /\ gate = TRUE
        /\ client = [c \in Clients |-> "away"]
        /\ queue = [c \in Clients |-> << >>]
        /\ view = [c \in Clients |-> LinkDown]
        /\ request = NoRequest
-----------------------------------------------------------------------------
(* TelemetryCache and TelemetryHub.                                        *)

Fresh(age) == age # Never /\ age <= Stale
LinkLive(t) == Fresh(t.frame)
LivePosition(t) == LinkLive(t) /\ t.fix /\ Fresh(t.positioned)
FromCache(link, t) == [ok |-> LinkLive(t), position |-> LivePosition(t), link |-> link]

Subscribed(c) == client[c] # "away"

\* A subscription that lags loses its oldest message.
Pushed(q, s) == IF Len(q) < Lag THEN Append(q, s) ELSE Append(Tail(q), s)

Publish(s) == /\ queue' = [c \in Clients |-> IF Subscribed(c) THEN Pushed(queue[c], s)
                                                              ELSE queue[c]]
              /\ UNCHANGED <<client, view>>

MaybePublish(s) == IF gate THEN gate' = FALSE /\ Publish(s) ELSE UNCHANGED hub
-----------------------------------------------------------------------------
(* The connector thread.                                                   *)

GoTo(from, to) == connector = from /\ connector' = to

\* open_connection waits for a heartbeat of the autopilot.
Open == /\ heard
        /\ GoTo("open", "setConn")
        /\ UNCHANGED <<heard, conn, linkInfo, recv, silence, telem, hub, request>>

OpenFails == /\ connector = "open"
             /\ linkInfo' = "down"
             /\ UNCHANGED <<heard, connector, conn, recv, silence, telem, hub, request>>

SetConn == /\ GoTo("setConn", "setLink")
           /\ conn' = TRUE
           /\ UNCHANGED <<heard, linkInfo, recv, silence, telem, hub, request>>

SetLink == /\ GoTo("setLink", "spawn")
           /\ linkInfo' = "up"
           /\ UNCHANGED <<heard, conn, recv, silence, telem, hub, request>>

Spawn == /\ GoTo("spawn", "join")
         /\ recv' = "running"
         /\ silence' = 0
         /\ UNCHANGED <<heard, conn, linkInfo, telem, hub, request>>

\* Mutant of Join: the connector does not wait for the recv thread.
JoinNot == /\ GoTo("join", "clearConn")
           /\ UNCHANGED <<heard, conn, linkInfo, recv, silence, telem, hub, request>>

Join == /\ recv = "ended"
        /\ GoTo("join", "clearConn")
        /\ UNCHANGED <<heard, conn, linkInfo, recv, silence, telem, hub, request>>

ClearConn == /\ GoTo("clearConn", "clearTelem")
             /\ conn' = FALSE
             /\ UNCHANGED <<heard, linkInfo, recv, silence, telem, hub, request>>

ClearTelem == /\ GoTo("clearTelem", "clearLink")
              /\ telem' = NoTelem
              /\ UNCHANGED <<heard, conn, linkInfo, recv, silence, hub, request>>

ClearLink == /\ GoTo("clearLink", "publish")
             /\ linkInfo' = "down"
             /\ UNCHANGED <<heard, conn, recv, silence, telem, hub, request>>

\* Mutant of PublishLinkDown: the loop goes back to the thread that ended.
PublishThenJoin == /\ GoTo("publish", "join")
                   /\ Publish(LinkDown)
                   /\ UNCHANGED <<heard, conn, linkInfo, recv, silence, telem, gate, request>>

\* Mutant of PublishLinkDown: nobody is told.
PublishLinkDownNot == /\ GoTo("publish", "open")
                      /\ UNCHANGED <<heard, conn, linkInfo, recv, silence, telem, hub, request>>

PublishLinkDown == /\ GoTo("publish", "open")
                   /\ Publish(LinkDown)
                   /\ UNCHANGED <<heard, conn, linkInfo, recv, silence, telem, gate, request>>

Connector == \/ Open \/ SetConn \/ SetLink \/ Spawn \/ Join
             \/ ClearConn \/ ClearTelem \/ ClearLink \/ PublishLinkDown
-----------------------------------------------------------------------------
(* The recv thread.                                                        *)

\* telem_update_from_frame: a position, a GPS fix, or any other frame.
Updates == {[telem EXCEPT !.frame = 0, !.positioned = 0, !.altitude = a] : a \in {"ground", "air"}}
             \cup {[telem EXCEPT !.frame = 0, !.fix = f] : f \in BOOLEAN}
             \cup {[telem EXCEPT !.frame = 0]}

RecvFrame == /\ recv = "running"
             /\ heard
             /\ silence' = 0
             /\ \E t \in Updates : telem' = t /\ MaybePublish(FromCache("up", t))
             /\ UNCHANGED <<heard, connector, conn, linkInfo, recv, request>>

\* Mutants of RecvEnds: the altitude stays in the cache; the thread goes on with
\* a silent link.
RecvEndsKeepingAltitude == /\ recv = "running"
                           /\ silence > Stale
                           /\ telem' = [NoTelem EXCEPT !.altitude = telem.altitude]
                           /\ recv' = "ended"
                           /\ UNCHANGED <<heard, connector, conn, linkInfo, silence, hub,
                                          request>>

RecvEndsNever == /\ recv = "running"
                 /\ silence > Stale
                 /\ telem' = NoTelem
                 /\ UNCHANGED <<heard, threads, hub, request>>

\* Nothing was received for longer than TELEM_STALE.
RecvEnds == /\ recv = "running"
            /\ silence > Stale
            /\ telem' = NoTelem
            /\ recv' = "ended"
            /\ UNCHANGED <<heard, connector, conn, linkInfo, silence, hub, request>>
-----------------------------------------------------------------------------
(* A WebSocket client: handle_telemetry_ws.                                *)

Subscribe(c) == /\ client[c] = "away"
                /\ client' = [client EXCEPT ![c] = "subscribed"]
                /\ queue' = [queue EXCEPT ![c] = << >>]
                /\ UNCHANGED <<heard, threads, telem, gate, view, request>>

\* The first message, made with the cache and the link info locked.
SendSnapshot(c) == /\ client[c] = "subscribed"
                   /\ client' = [client EXCEPT ![c] = "open"]
                   /\ view' = [view EXCEPT ![c] = FromCache(linkInfo, telem)]
                   /\ UNCHANGED <<heard, threads, telem, gate, queue, request>>

Forward(c) == /\ client[c] = "open"
              /\ queue[c] # << >>
              /\ view' = [view EXCEPT ![c] = Head(queue[c])]
              /\ queue' = [queue EXCEPT ![c] = Tail(@)]
              /\ UNCHANGED <<heard, threads, telem, gate, client, request>>

\* The client closes, or a send to it fails.
Leave(c) == /\ client[c] # "away"
            /\ client' = [client EXCEPT ![c] = "away"]
            /\ queue' = [queue EXCEPT ![c] = << >>]
            /\ UNCHANGED <<heard, threads, telem, gate, view, request>>
-----------------------------------------------------------------------------
(* A request that a gate guards; time; the FC (external).                  *)

Request(from, to) ==
    /\ request.at = from
    /\ request' = IF to = "idle" THEN NoRequest ELSE [at |-> to, linked |-> recv = "running"]
    /\ UNCHANGED <<heard, threads, telem, hub>>

\* disarm_block_reason: refused in the air and without an altitude, whatever
\* the mode.
CheckDisarm == telem.altitude = "ground" /\ Request("idle", "send")

\* require_conn, and the command.
SendDisarm == Request("send", "idle")

\* A takeoff was acknowledged, be the link up still or not: its request waits
\* for the climb.
HoldTakeoff == Request("idle", "climb")

\* wait_for_takeoff_altitude: some altitude is high enough, a low one for a low
\* target; or the deadline passes.
Climbed == telem.altitude # "none" /\ Request("climb", "complete")

EndTakeoff == Request("climb", "idle") \/ Request("complete", "idle")

Older(age) == IF age = Never \/ age > Stale THEN age ELSE age + 1

Tick == /\ silence' = Older(silence)
        /\ telem' = [telem EXCEPT !.frame = Older(@), !.positioned = Older(@)]
        /\ gate' = TRUE
        /\ UNCHANGED <<heard, connector, conn, linkInfo, recv, client, queue, view, request>>

GateOpens == /\ gate' = TRUE
             /\ UNCHANGED <<heard, threads, telem, client, queue, view, request>>

LinkChanges == /\ heard' = ~heard
               /\ UNCHANGED <<threads, telem, hub, request>>
-----------------------------------------------------------------------------
RequestStep == CheckDisarm \/ SendDisarm \/ HoldTakeoff \/ Climbed \/ EndTakeoff

Next == \/ Connector \/ OpenFails \/ RecvFrame \/ RecvEnds
        \/ \E c \in Clients : Subscribe(c) \/ SendSnapshot(c) \/ Forward(c) \/ Leave(c)
        \/ RequestStep \/ Tick \/ GateOpens \/ LinkChanges

Spec == Init /\ [][Next]_vars

\* Threads and tasks run and time passes; an FC whose frames get through sends
\* them.  The link need not come back.
Fairness == /\ WF_vars(Connector)
            /\ WF_vars(RecvFrame) /\ WF_vars(RecvEnds)
            /\ WF_vars(Tick)
            /\ \A c \in Clients : WF_vars(SendSnapshot(c)) /\ WF_vars(Forward(c))

FairSpec == Spec /\ Fairness
-----------------------------------------------------------------------------
(* Properties.                                                             *)

CaughtUp(c) == client[c] = "open" /\ queue[c] = << >>

\* "so subscribers do not keep the last live pin" (src/src/telemetry_hub.rs:128):
\* once the connector has given the link up, a client that has been sent all
\* there is shows neither a live link nor a position.
NoPinWithoutLink ==
    connector \in {"open", "setConn", "setLink", "spawn"} =>
        \A c \in Clients : CaughtUp(c) => ~view[c].ok /\ ~view[c].position

\* A new connection starts without the telemetry of the one before: what the
\* gates and the position see was heard on this link.
StartsWithoutTelemetry == connector \in {"open", "setConn", "setLink", "spawn"} => telem = NoTelem

\* "Apply-tool safety gates that need live telemetry" (src/src/flight_safety.rs:1):
\* a disarm is let through, and a takeoff reported complete, only on an altitude
\* heard on the link that is up then, however late the connector cleans up.
GatesReadThisLink == request.at \in {"send", "complete"} => request.linked

\* A client with a live pin loses it, or the link is heard again, or the client
\* leaves: a link that falls silent is noticed, and every client is told.
SilenceIsShown ==
    \A c \in Clients :
        view[c].ok /\ client[c] = "open" ~> ~view[c].ok \/ heard \/ client[c] = "away"

\* A link that stays up is opened, again and again if it must be.
LinkIsOpened == heard ~> (recv = "running" /\ conn /\ linkInfo = "up") \/ ~heard
=============================================================================
