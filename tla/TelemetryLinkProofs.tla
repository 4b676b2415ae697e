------------------------- MODULE TelemetryLinkProofs -------------------------
(***************************************************************************)
(* What of TelemetryLink holds for every number of clients, every          *)
(* TELEM_STALE and every capacity of the broadcast channel: the types, and *)
(* that nothing of a link that was given up is left in the telemetry cache *)
(* or on a client's map.                                                   *)
(***************************************************************************)
EXTENDS TelemetryLink, TLAPS

Unlinked == {"open", "setConn", "setLink", "spawn"}
Cleaning == {"clearConn", "clearTelem", "clearLink", "publish"}

\* The parts of TypeOK that different steps disturb.
ThreadsOK == /\ heard \in BOOLEAN
             /\ connector \in Steps
             /\ conn \in BOOLEAN
             /\ linkInfo \in {"up", "down"}
             /\ recv \in {"none", "running", "ended"}
             /\ silence \in Ages
             /\ request \in [at : {"idle", "send", "climb", "complete"}, linked : BOOLEAN]
TelemOK == telem \in Cache /\ (telem.altitude = "none" <=> telem.positioned = Never)
HubOK == /\ gate \in BOOLEAN
         /\ client \in [Clients -> {"away", "subscribed", "open"}]
         /\ queue \in [Clients -> Seq(Snapshots)]
         /\ \A c \in Clients : Len(queue[c]) <= Lag
         /\ view \in [Clients -> Snapshots]

LEMMA TypeParts == TypeOK <=> ThreadsOK /\ TelemOK /\ HubOK
  BY DEF TypeOK, ThreadsOK, TelemOK, HubOK

\* An age stays an age, and what was never heard stays unheard.
LEMMA OlderAge ==
  /\ \A age \in Ages : Older(age) \in Ages
  /\ Older(Never) = Never
  /\ Never \notin Ages
  BY LinkBounds DEF Older, Ages, Never

\* A tick of the clock keeps the cache a cache.
LEMMA OlderCache == ASSUME TelemOK
                    PROVE  /\ [telem EXCEPT !.frame = Older(@), !.positioned = Older(@)] \in Cache
                           /\ Older(telem.positioned) = Never <=> telem.positioned = Never
<1>1. Older(telem.frame) \in Ages \cup {Never} /\ Older(telem.positioned) \in Ages \cup {Never}
  BY OlderAge DEF TelemOK, Cache
<1>2. [telem EXCEPT !.frame = Older(@), !.positioned = Older(@)] \in Cache
  BY <1>1 DEF TelemOK, Cache
<1>3. Older(telem.positioned) = Never <=> telem.positioned = Never
  BY OlderAge DEF TelemOK, Cache
<1> QED
  BY <1>2, <1>3

\* What is pushed to a subscription is the last it holds, and it stays in bounds.
LEMMA PushedLast ==
  ASSUME NEW q \in Seq(Snapshots), Len(q) <= Lag, NEW s \in Snapshots
  PROVE  /\ Pushed(q, s) \in Seq(Snapshots)
         /\ Len(Pushed(q, s)) <= Lag
         /\ Pushed(q, s) # << >>
         /\ Pushed(q, s)[Len(Pushed(q, s))] = s
<1>1. CASE Len(q) < Lag
  <2>1. Pushed(q, s) = Append(q, s)
    BY <1>1 DEF Pushed
  <2> QED
    BY <1>1, <2>1, LinkBounds
<1>2. CASE Len(q) = Lag
  <2>1. Pushed(q, s) = Append(Tail(q), s)
    BY <1>2, LinkBounds DEF Pushed
  <2>2. q # << >>
    BY <1>2, LinkBounds
  <2>3. Tail(q) \in Seq(Snapshots) /\ Len(Tail(q)) = Len(q) - 1
    BY <2>2
  <2> QED
    BY <1>2, <2>1, <2>3, LinkBounds
<1> QED
  BY <1>1, <1>2, LinkBounds

\* A snapshot is one, and none of an empty cache is live.
LEMMA SnapshotFacts ==
  /\ LinkDown \in Snapshots
  /\ \A link \in {"up", "down"}, t \in Cache : FromCache(link, t) \in Snapshots
  /\ \A link \in {"up", "down"} : ~FromCache(link, NoTelem).ok /\ ~FromCache(link, NoTelem).position
  BY DEF LinkDown, Snapshots, FromCache, LinkLive, LivePosition, Fresh, NoTelem, Cache

\* A publish reaches every subscription and leaves none longer than the channel.
LEMMA PublishOK == ASSUME HubOK, NEW s \in Snapshots, Publish(s)
                   PROVE  /\ queue' \in [Clients -> Seq(Snapshots)]
                          /\ \A c \in Clients : Len(queue'[c]) <= Lag
                          /\ client' = client
                          /\ view' = view
<1>1. \A c \in Clients : Pushed(queue[c], s) \in Seq(Snapshots) /\ Len(Pushed(queue[c], s)) <= Lag
  BY PushedLast DEF HubOK
<1> QED
  BY <1>1 DEF HubOK, Publish
-----------------------------------------------------------------------------
(* Types.                                                                  *)

LEMMA TypeInit == Init => TypeOK
<1> SUFFICES ASSUME Init PROVE TypeOK
  OBVIOUS
<1>1. ThreadsOK
  <2>1. 0 \in Ages
    BY LinkBounds DEF Ages
  <2>2. NoRequest \in [at : {"idle", "send", "climb", "complete"}, linked : BOOLEAN]
    BY DEF NoRequest
  <2> QED
    BY <2>1, <2>2 DEF Init, ThreadsOK, Steps
<1>2. TelemOK
  BY DEF Init, TelemOK, Cache, NoTelem
<1>3. << >> \in Seq(Snapshots) /\ Len(<< >>) <= Lag
  BY LinkBounds
<1>4. HubOK
  BY <1>3, SnapshotFacts DEF Init, HubOK
<1> QED
  BY <1>1, <1>2, <1>4, TypeParts

LEMMA UpdatesOK == ASSUME TelemOK, NEW t \in Updates
                   PROVE  t \in Cache /\ (t.altitude = "none" <=> t.positioned = Never)
<1>1. 0 \in Ages /\ 0 # Never
  BY LinkBounds DEF Ages, Never
<1> QED
  BY <1>1 DEF TelemOK, Updates, Cache

LEMMA ThreadsNext == TypeOK /\ [Next]_vars => ThreadsOK'
<1> SUFFICES ASSUME TypeOK, [Next]_vars PROVE ThreadsOK'
  OBVIOUS
<1> USE DEF ThreadsOK
<1>0. ThreadsOK /\ TelemOK /\ 0 \in Ages
  BY TypeParts, LinkBounds DEF Ages
<1>1. CASE Connector
  BY <1>0, <1>1 DEF Connector, Open, SetConn, SetLink, Spawn, Join, ClearConn, ClearTelem,
     ClearLink, PublishLinkDown, GoTo, Steps
<1>2. CASE OpenFails
  BY <1>0, <1>2 DEF OpenFails
<1>3. CASE RecvFrame
  BY <1>0, <1>3 DEF RecvFrame
<1>4. CASE RecvEnds
  BY <1>0, <1>4 DEF RecvEnds
<1>5. CASE \E c \in Clients : Subscribe(c) \/ SendSnapshot(c) \/ Forward(c) \/ Leave(c)
  BY <1>0, <1>5 DEF Subscribe, SendSnapshot, Forward, Leave, threads
<1>6. ASSUME NEW from, NEW to \in {"idle", "send", "climb", "complete"}, Request(from, to)
      PROVE  ThreadsOK'
  BY <1>0, <1>6 DEF Request, NoRequest, threads
<1>7. CASE RequestStep
  BY <1>6, <1>7 DEF RequestStep, CheckDisarm, SendDisarm, HoldTakeoff, Climbed, EndTakeoff
<1>8. CASE Tick
  BY <1>0, <1>8, OlderAge DEF Tick
<1>9. CASE GateOpens \/ LinkChanges
  BY <1>0, <1>9 DEF GateOpens, LinkChanges, threads
<1>10. CASE UNCHANGED vars
  BY <1>0, <1>10 DEF vars, threads
<1> QED
  BY <1>1, <1>2, <1>3, <1>4, <1>5, <1>7, <1>8, <1>9, <1>10 DEF Next

LEMMA TelemNext == TypeOK /\ [Next]_vars => TelemOK'
<1> SUFFICES ASSUME TypeOK, [Next]_vars PROVE TelemOK'
  OBVIOUS
<1>0. TelemOK /\ NoTelem \in Cache /\ NoTelem.positioned = Never /\ NoTelem.altitude = "none"
  BY TypeParts DEF NoTelem, Cache
<1>1. CASE telem' = NoTelem
  BY <1>0, <1>1 DEF TelemOK
<1>2. CASE telem' = telem
  BY <1>0, <1>2 DEF TelemOK
<1>3. CASE RecvFrame
  BY <1>0, <1>3, UpdatesOK DEF RecvFrame, TelemOK
<1>4. CASE Tick
  <2>1. telem' \in Cache /\ (telem'.positioned = Never <=> telem.positioned = Never)
    BY <1>0, <1>4, OlderCache DEF Tick, TelemOK, Cache
  <2>2. telem'.altitude = telem.altitude
    BY <1>0, <1>4 DEF Tick, TelemOK, Cache
  <2> QED
    BY <1>0, <2>1, <2>2 DEF TelemOK
<1>5. telem' = NoTelem \/ telem' = telem \/ RecvFrame \/ Tick
  BY DEF Next, Connector, Open, SetConn, SetLink, Spawn, Join, ClearConn, ClearTelem, ClearLink,
     PublishLinkDown, OpenFails, RecvEnds, Subscribe, SendSnapshot, Forward, Leave, RequestStep, CheckDisarm,
     SendDisarm, HoldTakeoff, Climbed, EndTakeoff, Request, GateOpens, LinkChanges, vars
<1> QED
  BY <1>1, <1>2, <1>3, <1>4, <1>5

LEMMA HubNext == TypeOK /\ [Next]_vars => HubOK'
<1> SUFFICES ASSUME TypeOK, [Next]_vars PROVE HubOK'
  OBVIOUS
<1>0. ThreadsOK /\ TelemOK /\ HubOK
  BY TypeParts
<1>1. CASE UNCHANGED <<client, queue, view>> /\ gate' \in BOOLEAN
  BY <1>0, <1>1 DEF HubOK
<1>2. CASE PublishLinkDown
  BY <1>0, <1>2, SnapshotFacts, PublishOK DEF PublishLinkDown, HubOK
<1>3. CASE RecvFrame
  <2>1. PICK t \in Updates : MaybePublish(FromCache("up", t))
    BY <1>3 DEF RecvFrame
  <2>2. FromCache("up", t) \in Snapshots
    BY <1>0, SnapshotFacts, UpdatesOK
  <2>3. CASE gate
    BY <1>0, <2>1, <2>2, <2>3, PublishOK DEF MaybePublish, HubOK
  <2>4. CASE ~gate
    BY <1>0, <2>1, <2>4 DEF MaybePublish, hub, HubOK
  <2> QED
    BY <2>3, <2>4
<1>4. ASSUME NEW c \in Clients, Subscribe(c) \/ Leave(c)
      PROVE  HubOK'
  <2>1. queue' = [queue EXCEPT ![c] = << >>] /\ view' = view /\ gate' = gate
    BY <1>4 DEF Subscribe, Leave
  <2>2. client' \in [Clients -> {"away", "subscribed", "open"}]
    BY <1>0, <1>4 DEF Subscribe, Leave, HubOK
  <2>3. << >> \in Seq(Snapshots) /\ Len(<< >>) <= Lag
    BY LinkBounds
  <2>4. queue' \in [Clients -> Seq(Snapshots)] /\ \A d \in Clients : Len(queue'[d]) <= Lag
    BY <1>0, <2>1, <2>3 DEF HubOK
  <2> QED
    BY <1>0, <2>1, <2>2, <2>4 DEF HubOK
<1>5. ASSUME NEW c \in Clients, SendSnapshot(c)
      PROVE  HubOK'
  <2>1. FromCache(linkInfo, telem) \in Snapshots
    BY <1>0, SnapshotFacts DEF ThreadsOK, TelemOK
  <2> QED
    BY <1>0, <1>5, <2>1 DEF SendSnapshot, HubOK
<1>6. ASSUME NEW c \in Clients, Forward(c)
      PROVE  HubOK'
  <2>1. /\ Head(queue[c]) \in Snapshots
        /\ Tail(queue[c]) \in Seq(Snapshots)
        /\ Len(Tail(queue[c])) <= Lag
    BY <1>0, <1>6, LinkBounds DEF Forward, HubOK
  <2> QED
    BY <1>0, <1>6, <2>1 DEF Forward, HubOK
<1>7. \/ UNCHANGED <<client, queue, view>> /\ gate' \in BOOLEAN
      \/ PublishLinkDown \/ RecvFrame
      \/ \E c \in Clients : Subscribe(c) \/ SendSnapshot(c) \/ Forward(c) \/ Leave(c)
  BY <1>0 DEF HubOK, Next, Connector, Open, SetConn, SetLink, Spawn, Join, ClearConn, ClearTelem,
     ClearLink, OpenFails, RecvEnds, RequestStep, CheckDisarm,
     SendDisarm, HoldTakeoff, Climbed, EndTakeoff, Request, Tick, GateOpens, LinkChanges,
     vars, hub
<1> QED
  BY <1>1, <1>2, <1>3, <1>4, <1>5, <1>6, <1>7

\* The connector, the cache, the hub and its clients keep their types, and no
\* subscription outgrows the channel, for any number of clients
\* (spawn_mavlink_connector, TelemetryCache, TelemetryHub).
THEOREM TypeCorrect == Spec => []TypeOK
<1>1. TypeOK /\ [Next]_vars => TypeOK'
  <2>1. TypeOK' <=> ThreadsOK' /\ TelemOK' /\ HubOK'
    BY DEF TypeOK, ThreadsOK, TelemOK, HubOK
  <2> QED
    BY <2>1, ThreadsNext, TelemNext, HubNext
<1> QED
  BY <1>1, TypeInit, PTL DEF Spec
-----------------------------------------------------------------------------
(* A link that was given up.                                               *)

\* While a recv thread runs, the connector waits for it; until the next one is
\* spawned the cache is empty, and it is empty from ClearTelem on.
LinkInv == /\ recv = "running" => connector = "join"
           /\ connector \in Cleaning => recv = "ended"
           /\ connector \in Unlinked \cup {"clearLink", "publish"} => telem = NoTelem

LEMMA LinkNext == TypeOK /\ LinkInv /\ [Next]_vars => LinkInv'
<1> SUFFICES ASSUME TypeOK, LinkInv, [Next]_vars PROVE LinkInv'
  OBVIOUS
<1> USE DEF LinkInv, Unlinked, Cleaning
<1>1. CASE Connector
  BY <1>1 DEF Connector, Open, SetConn, SetLink, Spawn, Join, ClearConn, ClearTelem, ClearLink,
     PublishLinkDown, GoTo
<1>2. CASE RecvFrame
  BY <1>2 DEF RecvFrame
<1>3. CASE RecvEnds
  BY <1>3 DEF RecvEnds
<1>4. CASE Tick
  <2>1. ASSUME telem = NoTelem PROVE telem' = NoTelem
    <3>1. telem' = [NoTelem EXCEPT !.frame = Older(Never), !.positioned = Older(Never)]
      BY <1>4, <2>1 DEF Tick, NoTelem
    <3>2. telem' = [NoTelem EXCEPT !.frame = Never, !.positioned = Never]
      BY <3>1, OlderAge
    <3> QED
      BY <3>2 DEF NoTelem
  <2> QED
    BY <1>4, <2>1 DEF Tick
<1>5. CASE UNCHANGED <<connector, recv, telem>>
  BY <1>5
<1>6. Connector \/ RecvFrame \/ RecvEnds \/ Tick \/ UNCHANGED <<connector, recv, telem>>
  BY DEF Next, OpenFails, Subscribe, SendSnapshot, Forward, Leave, RequestStep, CheckDisarm,
     SendDisarm, HoldTakeoff, Climbed, EndTakeoff, Request, GateOpens, LinkChanges, threads, vars
<1> QED
  BY <1>1, <1>2, <1>3, <1>4, <1>5, <1>6

\* The connector waits in join while a recv thread runs, and clears the cache after it.
LEMMA LinkAlways == Spec => []LinkInv
<1>1. Init => LinkInv
  BY DEF Init, LinkInv, Cleaning
<1> QED
  BY <1>1, LinkNext, TypeCorrect, PTL DEF Spec

\* A new connection starts without the telemetry of the one before
\* (spawn_mavlink_connector resets the cache after it joined the recv thread).
THEOREM StartsClean == Spec => []StartsWithoutTelemetry
<1>1. LinkInv => StartsWithoutTelemetry
  BY DEF LinkInv, StartsWithoutTelemetry, Unlinked
<1> QED
  BY <1>1, LinkAlways, PTL

\* An altitude is in the cache only while the recv thread that heard it runs, so
\* a gate that finds one decides on this link.
GateInv == /\ telem.altitude # "none" => recv = "running"
           /\ GatesReadThisLink

\* The altitude in the cache, and the one a gate decides on, is of the link that is up.
LEMMA GateNext == TypeOK /\ GateInv /\ [Next]_vars => GateInv'
<1> SUFFICES ASSUME TypeOK, GateInv, [Next]_vars PROVE GateInv'
  OBVIOUS
<1> USE DEF GateInv, GatesReadThisLink
<1>0. TelemOK /\ NoTelem.altitude = "none"
  BY TypeParts DEF NoTelem
<1>1. ASSUME NEW from, NEW to \in {"idle", "send", "climb", "complete"}, Request(from, to),
             to \in {"send", "complete"} => telem.altitude # "none"
      PROVE  GateInv'
  BY <1>1 DEF Request, NoRequest, threads
<1>2. CASE RequestStep
  BY <1>1, <1>2 DEF RequestStep, CheckDisarm, SendDisarm, HoldTakeoff, Climbed, EndTakeoff
<1>3. CASE RecvFrame
  BY <1>3 DEF RecvFrame
<1>4. CASE telem' = NoTelem /\ UNCHANGED request
  BY <1>0, <1>4
<1>5. CASE Tick
  <2>1. telem'.altitude = telem.altitude
    BY <1>0, <1>5 DEF Tick, TelemOK, Cache
  <2> QED
    BY <1>5, <2>1 DEF Tick
<1>6. CASE UNCHANGED <<telem, request>> /\ (recv' = recv \/ recv' = "running")
  BY <1>6
<1>7. \/ RequestStep \/ RecvFrame \/ Tick
      \/ telem' = NoTelem /\ UNCHANGED request
      \/ UNCHANGED <<telem, request>> /\ (recv' = recv \/ recv' = "running")
  BY DEF Next, Connector, Open, SetConn, SetLink, Spawn, Join, ClearConn, ClearTelem, ClearLink,
     PublishLinkDown, OpenFails, RecvEnds, Subscribe, SendSnapshot, Forward, Leave, GateOpens,
     LinkChanges, threads, vars
<1> QED
  BY <1>2, <1>3, <1>4, <1>5, <1>6, <1>7

\* A disarm is let through, and a takeoff reported complete, only on an altitude
\* heard on the link that is up (disarm_block_reason, wait_for_takeoff_altitude).
THEOREM GatesDecideOnThisLink == Spec => []GatesReadThisLink
<1>1. Init => GateInv
  BY DEF Init, GateInv, GatesReadThisLink, NoTelem, NoRequest
<1>2. GateInv => GatesReadThisLink
  BY DEF GateInv
<1> QED
  BY <1>1, <1>2, GateNext, TypeCorrect, PTL DEF Spec

Dead(s) == ~s.ok /\ ~s.position

\* With the link given up, the last word to each client is that it is: at the
\* end of what its subscription holds, or else in what it was sent.
LastWord == connector \in Unlinked =>
              \A c \in Clients :
                 /\ Subscribed(c) /\ queue[c] # << >> => Dead(queue[c][Len(queue[c])])
                 /\ CaughtUp(c) => Dead(view[c])

\* With the link given up, the last message of a subscription says so.
LEMMA LastWordNext == TypeOK /\ LinkInv /\ LastWord /\ [Next]_vars => LastWord'
<1> SUFFICES ASSUME TypeOK, LinkInv, LastWord, [Next]_vars, connector' \in Unlinked,
                    NEW d \in Clients
             PROVE  /\ Subscribed(d)' /\ queue'[d] # << >> => Dead(queue'[d][Len(queue'[d])])
                    /\ CaughtUp(d)' => Dead(view'[d])
  BY DEF LastWord
<1>0. ThreadsOK /\ TelemOK /\ HubOK
  BY TypeParts
<1> USE DEF Subscribed, CaughtUp
<1>1. CASE PublishLinkDown
  <2>1. Len(queue[d]) <= Lag /\ queue[d] \in Seq(Snapshots)
    BY <1>0 DEF HubOK
  <2>2. Subscribed(d) => queue'[d] = Pushed(queue[d], LinkDown)
    BY <1>0, <1>1 DEF PublishLinkDown, Publish, HubOK
  <2>3. client' = client
    BY <1>1 DEF PublishLinkDown, Publish
  <2>4. Dead(LinkDown)
    BY DEF Dead, LinkDown
  <2> QED
    BY <2>1, <2>2, <2>3, <2>4, PushedLast, SnapshotFacts
<1>2. CASE connector \in Unlinked /\ UNCHANGED <<client, queue, view>>
  BY <1>2 DEF LastWord
<1>3. ASSUME NEW c \in Clients, Subscribe(c) \/ Leave(c), connector \in Unlinked
      PROVE  /\ Subscribed(d)' /\ queue'[d] # << >> => Dead(queue'[d][Len(queue'[d])])
             /\ CaughtUp(d)' => Dead(view'[d])
  <2>1. CASE c = d
    BY <1>0, <1>3, <2>1 DEF Subscribe, Leave, HubOK
  <2>2. CASE c # d
    BY <1>0, <1>3, <2>2 DEF Subscribe, Leave, HubOK, LastWord
  <2> QED
    BY <2>1, <2>2
<1>4. ASSUME NEW c \in Clients, SendSnapshot(c), connector \in Unlinked
      PROVE  /\ Subscribed(d)' /\ queue'[d] # << >> => Dead(queue'[d][Len(queue'[d])])
             /\ CaughtUp(d)' => Dead(view'[d])
  <2>1. Dead(FromCache(linkInfo, telem))
    BY <1>0, <1>4, SnapshotFacts DEF LinkInv, ThreadsOK, Dead
  <2>2. CASE c = d
    BY <1>0, <1>4, <2>1, <2>2 DEF SendSnapshot, HubOK, LastWord
  <2>3. CASE c # d
    BY <1>0, <1>4, <2>3 DEF SendSnapshot, HubOK, LastWord
  <2> QED
    BY <2>2, <2>3
<1>5. ASSUME NEW c \in Clients, Forward(c), connector \in Unlinked
      PROVE  /\ Subscribed(d)' /\ queue'[d] # << >> => Dead(queue'[d][Len(queue'[d])])
             /\ CaughtUp(d)' => Dead(view'[d])
  <2>1. CASE c = d
    <3> DEFINE q == queue[c]
    <3>1. q \in Seq(Snapshots) /\ q # << >> /\ Dead(q[Len(q)])
      BY <1>0, <1>5, <2>1 DEF Forward, HubOK, LastWord
    <3>2. queue'[d] = Tail(q) /\ view'[d] = Head(q)
      BY <1>0, <1>5, <2>1 DEF Forward, HubOK
    <3>3. Tail(q) # << >> => Tail(q)[Len(Tail(q))] = q[Len(q)]
      BY <3>1
    <3>4. Tail(q) = << >> => Head(q) = q[Len(q)]
      <4>1. Len(Tail(q)) = Len(q) - 1 /\ Head(q) = q[1]
        BY <3>1
      <4> HIDE DEF q
      <4>2. ASSUME Tail(q) = << >> PROVE Len(q) = 1
        BY <3>1, <4>1, <4>2
      <4> QED
        BY <4>1, <4>2
    <3> QED
      BY <3>1, <3>2, <3>3, <3>4
  <2>2. CASE c # d
    BY <1>0, <1>5, <2>2 DEF Forward, HubOK, LastWord
  <2> QED
    BY <2>1, <2>2
<1>6. \/ PublishLinkDown
      \/ connector \in Unlinked /\ UNCHANGED <<client, queue, view>>
      \/ /\ connector \in Unlinked
         /\ \E c \in Clients : Subscribe(c) \/ SendSnapshot(c) \/ Forward(c) \/ Leave(c)
  <2>1. ~RecvFrame
    BY DEF RecvFrame, LinkInv, Unlinked
  <2>2. connector \in Unlinked \/ PublishLinkDown
    BY <2>1 DEF Next, Connector, Open, SetConn, SetLink, Spawn, Join, ClearConn, ClearTelem,
       ClearLink, GoTo, Unlinked, OpenFails, RecvEnds, Subscribe, SendSnapshot, Forward, Leave,
       RequestStep, CheckDisarm,
     SendDisarm, HoldTakeoff, Climbed, EndTakeoff, Request, Tick, GateOpens, LinkChanges, threads, vars
  <2>3. \/ PublishLinkDown \/ UNCHANGED <<client, queue, view>>
        \/ \E c \in Clients : Subscribe(c) \/ SendSnapshot(c) \/ Forward(c) \/ Leave(c)
    BY <2>1 DEF Next, Connector, Open, SetConn, SetLink, Spawn, Join, ClearConn, ClearTelem,
       ClearLink, OpenFails, RecvEnds, RequestStep, CheckDisarm,
     SendDisarm, HoldTakeoff, Climbed, EndTakeoff, Request, Tick, GateOpens, LinkChanges,
       vars, hub
  <2> QED
    BY <2>2, <2>3
<1> QED
  BY <1>1, <1>2, <1>3, <1>4, <1>5, <1>6

\* Subscribers do not keep the last live pin: once the connector has given the
\* link up, a client that has been sent all there is shows neither a live link
\* nor a position, whatever the 10 Hz gate and a lagging subscription dropped.
THEOREM NoPinIsKept == Spec => []NoPinWithoutLink
<1>1. Init => LastWord
  BY DEF Init, LastWord, Subscribed, CaughtUp
<1>2. LastWord => NoPinWithoutLink
  BY DEF LastWord, NoPinWithoutLink, Unlinked, Dead
<1> QED
  BY <1>1, <1>2, LastWordNext, LinkAlways, TypeCorrect, PTL DEF Spec
=============================================================================
