-------------------------------- MODULE Tui ---------------------------------
(***************************************************************************)
(* The mission in the TUI (src/src/bin/tui): the recv thread and the UI    *)
(* thread with its keys, around one mutex for the connection, one for the  *)
(* mission store and one for the override state.  (The watchdog, the       *)
(* streams and the feedback on commands are in TuiLink.)                   *)
(*                                                                         *)
(* The recv thread holds the connection mutex while it waits for a frame,  *)
(* and the key m holds it for as long as it fixes up the mission on the    *)
(* flight controller (FC).  A section with one mutex is one step, which    *)
(* needs it free; a section inside another mutex is a step of its own.     *)
(*                                                                         *)
(* A list of items is none, bare (without a takeoff) or takeoff, and has   *)
(* Length items; coordinates, the seq of the current item and the count of *)
(* a download are left out (they are in MissionOverride, MissionDownload). *)
(* An override in the TUI always has one waypoint.                         *)
(***************************************************************************)
EXTENDS Integers, Sequences

CONSTANTS Length,   \* the number of items of a mission
          MaxKeys,  \* bound: keys pressed
          MaxFaults \* bound: frames lost and transfers the FC refuses

ASSUME BoundsAssumption == /\ Length \in Nat \ {0}
                           /\ MaxKeys \in Nat
                           /\ MaxFaults \in Nat

VARIABLES holder,   \* the thread that holds each mutex
          pc,       \* the step each thread is at
          override, \* OverrideState
          store,    \* MissionStore, as far as it matters here
          inHand,   \* the request or ACK the recv thread handles
          fc,       \* the item the FC waits for, or NoSession
          toFC,     \* frames on the way to the FC
          toGCS,    \* frames on the way to the recv thread
          budget,   \* keys and faults left
          crossed   \* history: a resume met another transfer or its ACK

vars == <<holder, pc, override, store, inHand, fc, toFC, toGCS, budget, crossed>>
missionVars == <<override, store, crossed>>
linkVars == <<fc, toFC, toGCS, inHand>>

Mutexes == {"conn", "store", "override"}
Threads == {"recv", "ui"}
Lists == {"none", "bare", "takeoff"}
Seqs == 0 .. (Length - 1)
NoSession == -1

ClearAll == [type |-> "CLEAR_ALL"]
Count == [type |-> "COUNT"]
Item(i) == [type |-> "ITEM", seq |-> i]
Request(i) == [type |-> "REQUEST", seq |-> i]
Ack(ok) == [type |-> "ACK", accepted |-> ok]
NoFrame == [type |-> "NONE"]

FcFrames == {ClearAll, Count} \cup {Item(i) : i \in Seqs}
GcsFrames == {Request(i) : i \in Seqs} \cup {Ack(ok) : ok \in BOOLEAN}

\* Steps that hold a mutex and want another.
FixupSteps == {"fixCheck", "fixBusy", "fixAwait", "fixEndClear", "fixPending",
               "fixPoll", "fixAbandon"}
FixupSends == {"fixClear", "fixCount"}
ConnHeld == FixupSteps \cup FixupSends \cup {"receive"}
OverrideHeld == {"snapshotStore", "hoverStore", "waypointStore"}
StoreHeld == {"answer", "cancelReset"}

RecvSteps == {"top", "receive", "cache", "cacheItem", "askNext", "request", "answer", "ack",
              "ackStore", "resumeDone", "resumeStart", "resumeEnd", "position",
              "snapshotStore", "endPending", "endCount", "endResume", "endPause"}
UiSteps == {"idle", "send", "startConn", "validate", "start", "hoverStore", "hover",
            "waypoint", "waypointStore", "cancelPending", "cancelCount",
            "cancelResume", "cancelReset"} \cup FixupSteps \cup FixupSends
StepsOf == [recv |-> RecvSteps, ui |-> UiSteps]

State(s) == [state |-> s, reached |-> FALSE, resumeAfter |-> FALSE]
Active(resumeAfter) ==
    [state |-> "OverrideActive", reached |-> FALSE, resumeAfter |-> resumeAfter]

\* Type invariant: a mutex is held exactly at the steps inside its section.
TypeOK ==
    /\ holder \in [Mutexes -> Threads \cup {"free"}]
    /\ pc \in [Threads -> RecvSteps \cup UiSteps]
    /\ \A t \in Threads : /\ pc[t] \in StepsOf[t]
                          /\ holder["conn"] = t <=> pc[t] \in ConnHeld
                          /\ holder["override"] = t <=> pc[t] \in OverrideHeld
                          /\ holder["store"] = t <=> pc[t] \in StoreHeld
    /\ override \in [state : {"MissionRunning", "Paused", "OverrideActive", "Resuming"},
                     reached : BOOLEAN, resumeAfter : BOOLEAN]
    /\ store \in [items : Lists, current : BOOLEAN, snapshot : Lists, pending : Lists,
                  awaitingClear : BOOLEAN, done : BOOLEAN, failed : BOOLEAN,
                  sent : SUBSET Seqs]
    /\ inHand \in GcsFrames \cup {NoFrame}
    /\ fc \in Seqs \cup {NoSession}
    /\ toFC \in Seq(FcFrames)
    /\ toGCS \in Seq(GcsFrames)
    /\ budget \in [keys : 0 .. MaxKeys, faults : 0 .. MaxFaults]
    /\ crossed \in BOOLEAN

Init ==
    /\ holder = [m \in Mutexes |-> "free"]
    /\ pc = [t \in Threads |-> IF t = "recv" THEN "top" ELSE "idle"]
    /\ override = State("MissionRunning")
    /\ store = [items |-> "none", current |-> FALSE, snapshot |-> "none",
                pending |-> "none", awaitingClear |-> FALSE, done |-> FALSE,
                failed |-> FALSE, sent |-> {}]
    /\ inHand = NoFrame
    /\ fc = NoSession
    /\ toFC = << >>
    /\ toGCS = << >>
    /\ budget = [keys |-> MaxKeys, faults |-> MaxFaults]
    /\ crossed = FALSE

GoTo(t, from, to) == pc[t] = from /\ pc' = [pc EXCEPT ![t] = to]

\* A section inside one mutex, which is free before and after it.
Within(m) == holder[m] = "free" /\ UNCHANGED holder
Take(t, m) == holder[m] = "free" /\ holder' = [holder EXCEPT ![m] = t]
Release(m) == holder' = [holder EXCEPT ![m] = "free"]

\* Mutant of Inside: the outer mutex is never released.
InsideKeeps(outer, inner) == holder[inner] = "free" /\ UNCHANGED holder

\* The last section inside two mutexes: both guards go out of scope.
Inside(outer, inner) == holder[inner] = "free" /\ Release(outer)

ToFC(frame) == toFC' = Append(toFC, frame)
-----------------------------------------------------------------------------
(* MissionStore.                                                           *)

Busy == store.pending # "none" \/ store.awaitingClear

\* Mutant of CanSnapshot: the override goes on without a snapshot.
CanSnapshotAnyway == TRUE

CanSnapshot == store.snapshot # "none" \/ (store.current /\ store.items # "none")

\* Mutant of EnsureSnapshot: the snapshot is forgotten.
EnsureSnapshotNot == UNCHANGED store

EnsureSnapshot ==
    store' = [store EXCEPT !.snapshot = IF @ # "none" THEN @ ELSE store.items]

SetUploadPending(list) ==
    store' = [store EXCEPT !.pending = list, !.done = FALSE, !.failed = FALSE, !.sent = {}]

\* For the history: a transfer is under way, or a resume.
MissionInTransfer == \/ Busy \/ toGCS # << >> \/ inHand # NoFrame \/ fc # NoSession
                     \/ override.state = "Resuming"
                     \/ pc["ui"] \in {"cancelCount", "cancelResume"}
                     \/ pc["recv"] \in {"endCount", "endResume", "resumeDone", "resumeStart"}

\* A resume uploads the snapshot it has.
SetResumePending == /\ SetUploadPending(store.snapshot)
                    /\ crossed' = (crossed \/ MissionInTransfer)

UploadEnded(st) ==
    [st EXCEPT !.pending = "none", !.done = TRUE, !.failed = FALSE,
               !.awaitingClear = FALSE, !.sent = {}]
-----------------------------------------------------------------------------
(* The recv thread.                                                        *)

RecvLock == /\ GoTo("recv", "top", "receive")
            /\ Take("recv", "conn")
            /\ UNCHANGED <<missionVars, linkVars, budget>>

\* recv_frame returned a frame, or an error, and the loop begins again.
Receives(to) == /\ GoTo("recv", "receive", to)
                /\ Release("conn")
                /\ UNCHANGED <<missionVars, fc, toFC, budget>>

RecvTelemetry == /\ \E to \in {"top", "cache", "position"} : Receives(to)
                 /\ UNCHANGED <<toGCS, inHand>>

RecvMission == /\ toGCS # << >>
               /\ Receives(IF Head(toGCS).type = "ACK" THEN "ack" ELSE "request")
               /\ inHand' = Head(toGCS)
               /\ toGCS' = Tail(toGCS)

\* MISSION_COUNT or MISSION_ITEM_INT, ignored during a transfer; an item is
\* cached in a section of its own, and the next one may have to be requested.
RecvDownload ==
    /\ Within("store")
    /\ \E to \in IF Busy THEN {"top"} ELSE {"top", "askNext", "cacheItem"} :
          GoTo("recv", "cache", to)
    /\ UNCHANGED <<missionVars, linkVars, budget>>

RecvItem ==
    /\ \E to \in {"top", "askNext"} : GoTo("recv", "cacheItem", to)
    /\ Within("store")
    /\ \E list \in {store.items, "bare", "takeoff"} : store' = [store EXCEPT !.items = list]
    /\ UNCHANGED <<override, crossed, linkVars, budget>>

RecvAskNext == /\ GoTo("recv", "askNext", "top")
               /\ Within("conn")
               /\ UNCHANGED <<missionVars, linkVars, budget>>

RecvCurrent == /\ GoTo("recv", "cache", "top")
               /\ Within("store")
               /\ store' = [store EXCEPT !.current = TRUE]
               /\ UNCHANGED <<override, crossed, linkVars, budget>>

\* MISSION_REQUEST: the store's guard is held while the connection is locked.
RecvRequest == /\ GoTo("recv", "request", "answer")
               /\ Take("recv", "store")
               /\ UNCHANGED <<missionVars, linkVars, budget>>

RecvAnswer == /\ GoTo("recv", "answer", "top")
              /\ Inside("store", "conn")
              /\ IF store.pending # "none"
                   THEN /\ ToFC(Item(inHand.seq))
                        /\ store' = [store EXCEPT !.sent = @ \cup {inHand.seq}]
                   ELSE UNCHANGED <<toFC, store>>
              /\ inHand' = NoFrame
              /\ UNCHANGED <<override, crossed, fc, toGCS, budget>>

\* MISSION_ACK: in Resuming any ACK starts the mission, whatever it says.
RecvAck == /\ GoTo("recv", "ack", IF override.state = "Resuming" THEN "resumeDone"
                                                                 ELSE "ackStore")
           /\ Within("override")
           /\ UNCHANGED <<missionVars, linkVars, budget>>

RecvResumeDone == /\ GoTo("recv", "resumeDone", "resumeStart")
                  /\ Within("store")
                  /\ store' = UploadEnded(store)
                  /\ inHand' = NoFrame
                  /\ crossed' = (crossed \/ pc["ui"] = "cancelResume")
                  /\ UNCHANGED <<override, fc, toFC, toGCS, budget>>

\* The seq to resume at, AUTO, MISSION_START.
RecvResumeStart == /\ GoTo("recv", "resumeStart", "resumeEnd")
                   /\ Within("conn")
                   /\ UNCHANGED <<missionVars, linkVars, budget>>

\* Mutant of RecvResumeEnd: the override state is left as it was.
RecvResumeEndNot == /\ GoTo("recv", "resumeEnd", "top")
                    /\ Within("override")
                    /\ UNCHANGED <<missionVars, linkVars, budget>>

RecvResumeEnd == /\ GoTo("recv", "resumeEnd", "top")
                 /\ Within("override")
                 /\ override' = State("MissionRunning")
                 /\ UNCHANGED <<store, crossed, linkVars, budget>>

AllSent == \A i \in Seqs : i \in store.sent

RecvAckStore ==
    /\ GoTo("recv", "ackStore", "top")
    /\ Within("store")
    /\ store' = CASE store.awaitingClear -> [store EXCEPT !.awaitingClear = FALSE]
                  [] ~store.awaitingClear /\ store.pending # "none" /\ ~inHand.accepted ->
                        [store EXCEPT !.pending = "none", !.failed = TRUE, !.sent = {}]
                  [] ~store.awaitingClear /\ store.pending # "none" /\ inHand.accepted
                        /\ AllSent ->
                        UploadEnded([store EXCEPT !.items = store.pending,
                                                  !.current = TRUE])
                  [] OTHER -> store
    /\ inHand' = NoFrame
    /\ crossed' = (crossed \/ pc["ui"] = "cancelResume" \/ override.state = "Resuming")
    /\ UNCHANGED <<override, fc, toFC, toGCS, budget>>

\* A position; within reach of the waypoint the override ends.
RecvPosition ==
    /\ IF override.state = "OverrideActive" /\ ~override.reached
         THEN \/ /\ override' = [override EXCEPT !.reached = TRUE]
                 /\ IF override.resumeAfter
                      THEN GoTo("recv", "position", "snapshotStore") /\ Take("recv", "override")
                      ELSE GoTo("recv", "position", "endPause") /\ Within("override")
              \/ GoTo("recv", "position", "top") /\ Within("override") /\ UNCHANGED override
         ELSE GoTo("recv", "position", "top") /\ Within("override") /\ UNCHANGED override
    /\ UNCHANGED <<store, crossed, linkVars, budget>>

\* Without a snapshot the frame is dropped: the override stays, past its end.
RecvSnapshot ==
    /\ GoTo("recv", "snapshotStore", IF store.snapshot # "none" THEN "endPending" ELSE "top")
    /\ Inside("override", "store")
    /\ UNCHANGED <<missionVars, linkVars, budget>>

\* The snapshot was copied; what follows happens in sections of their own.
RecvEndPending == /\ GoTo("recv", "endPending", "endCount")
                  /\ Within("store")
                  /\ SetResumePending
                  /\ UNCHANGED <<override, linkVars, budget>>

\* Mutant of RecvEndCount: the mission is started without waiting for the ACK.
RecvEndCountStarts == /\ GoTo("recv", "endCount", "resumeStart")
                      /\ Within("conn")
                      /\ ToFC(Count)
                      /\ UNCHANGED <<missionVars, fc, toGCS, inHand, budget>>

RecvEndCount == /\ GoTo("recv", "endCount", "endResume")
                /\ Within("conn")
                /\ ToFC(Count)
                /\ UNCHANGED <<missionVars, fc, toGCS, inHand, budget>>

RecvEnd == /\ \/ GoTo("recv", "endResume", "top") /\ override' = State("Resuming")
              \/ GoTo("recv", "endPause", "top") /\ override' = State("Paused")
           /\ Within("override")
           /\ UNCHANGED <<store, crossed, linkVars, budget>>
-----------------------------------------------------------------------------
(* The UI thread.  A key that is refused at once is not a step.  The mode  *)
(* that i depends on is what the UI saw last, which may be AUTO whenever    *)
(* the FC, another GCS or the radio set it.                                *)

Press == budget.keys > 0 /\ budget' = [budget EXCEPT !.keys = @ - 1]

\* a, d, g, u, t, f, r and l send one command.
KeyCommand == /\ GoTo("ui", "idle", "send")
              /\ Press
              /\ UNCHANGED <<holder, missionVars, linkVars>>

\* The commands of a, d, g, u, t, f, r, l; of m; and GUIDED with a position.
SendCommand == /\ \E from \in {"send", "start", "hover"} : GoTo("ui", from, "idle")
               /\ Within("conn")
               /\ UNCHANGED <<missionVars, linkVars, budget>>

\* m: start the mission, after ensure_nav_takeoff_on_fc.
KeyStart == /\ GoTo("ui", "idle", "startConn")
            /\ Press
            /\ Within("store")
            /\ store.items # "none"
            /\ UNCHANGED <<missionVars, linkVars>>

StartConn == /\ GoTo("ui", "startConn", "fixCheck")
             /\ Take("ui", "conn")
             /\ UNCHANGED <<missionVars, linkVars, budget>>

\* A step of the fix-up, all inside the connection mutex.
Fixup(from, to) == GoTo("ui", from, to) /\ Within("store")

\* It ends, and the connection is released.
FixupEnds(from, to) == GoTo("ui", from, to) /\ Inside("conn", "store")

FixCheck == /\ IF store.items = "bare" THEN Fixup("fixCheck", "fixBusy")
                                       ELSE FixupEnds("fixCheck", "validate")
            /\ UNCHANGED <<missionVars, linkVars, budget>>

\* Mutant of FixBusy: the connection is not released by a refusal.
FixBusyKeeps == /\ Fixup("fixBusy", IF store.pending # "none" THEN "idle" ELSE "fixAwait")
                /\ UNCHANGED <<missionVars, linkVars, budget>>

FixBusy == /\ IF store.pending # "none" THEN FixupEnds("fixBusy", "idle")
                                        ELSE Fixup("fixBusy", "fixAwait")
           /\ UNCHANGED <<missionVars, linkVars, budget>>

FixAwait == /\ Fixup("fixAwait", "fixClear")
            /\ store' = [store EXCEPT !.awaitingClear = TRUE]
            /\ UNCHANGED <<override, crossed, linkVars, budget>>

FixSend(from, to, frame) == /\ GoTo("ui", from, to)
                            /\ ToFC(frame)
                            /\ UNCHANGED <<holder, missionVars, fc, toGCS, inHand,
                                           budget>>

FixClear == FixSend("fixClear", "fixEndClear", ClearAll)
FixCount == FixSend("fixCount", "fixPoll", Count)

\* The polls saw the flag go, or ran out.
FixEndClear == /\ Fixup("fixEndClear", "fixPending")
               /\ store' = [store EXCEPT !.awaitingClear = FALSE]
               /\ UNCHANGED <<override, crossed, linkVars, budget>>

FixPending == /\ Fixup("fixPending", "fixCount")
              /\ SetUploadPending("takeoff")
              /\ crossed' = TRUE
              /\ UNCHANGED <<override, linkVars, budget>>

\* A poll that shows neither result is the last one, or no step.
FixPoll == /\ CASE store.failed -> FixupEnds("fixPoll", "idle")
                [] ~store.failed /\ store.done -> FixupEnds("fixPoll", "validate")
                [] OTHER -> Fixup("fixPoll", "fixAbandon")
           /\ UNCHANGED <<missionVars, linkVars, budget>>

FixAbandon == /\ FixupEnds("fixAbandon", "idle")
              /\ store' = [store EXCEPT !.pending = "none", !.done = FALSE, !.failed = FALSE,
                                        !.awaitingClear = FALSE, !.sent = {}]
              /\ UNCHANGED <<override, crossed, linkVars, budget>>

Validate == /\ GoTo("ui", "validate", IF store.items = "takeoff" THEN "start" ELSE "idle")
            /\ Within("store")
            /\ UNCHANGED <<missionVars, linkVars, budget>>

\* i, in AUTO and with a position: hover here.
KeyInterrupt == /\ GoTo("ui", "idle", "hoverStore")
                /\ Press
                /\ override.state # "OverrideActive"
                /\ Take("ui", "override")
                /\ UNCHANGED <<missionVars, linkVars>>

\* The snapshot and the new state, inside both mutexes; or a refusal.
Snapshots(from, new) ==
    /\ GoTo("ui", from, IF CanSnapshot THEN "hover" ELSE "idle")
    /\ Inside("override", "store")
    /\ IF CanSnapshot THEN EnsureSnapshot /\ override' = new
                      ELSE UNCHANGED <<store, override>>
    /\ UNCHANGED <<crossed, linkVars, budget>>

HoverStore == Snapshots("hoverStore", State("Paused"))

\* w: the operator types a waypoint, and presses Enter or Esc.
KeyWaypoint == /\ GoTo("ui", "idle", "waypoint")
               /\ Press
               /\ Within("override")
               /\ override.state \in {"MissionRunning", "Paused"}
               /\ UNCHANGED <<missionVars, linkVars>>

WaypointEnter ==
    /\ \/ /\ override.state = "OverrideActive"
          /\ GoTo("ui", "waypoint", "idle") /\ Within("override")
          /\ UNCHANGED override
       \/ /\ override.state = "Paused"
          /\ GoTo("ui", "waypoint", "hover") /\ Within("override")
          /\ override' = Active(FALSE)
       \/ /\ override.state \notin {"OverrideActive", "Paused"}
          /\ GoTo("ui", "waypoint", "waypointStore") /\ Take("ui", "override")
          /\ UNCHANGED override
    /\ UNCHANGED <<store, crossed, linkVars, budget>>

WaypointEsc == /\ GoTo("ui", "waypoint", "idle")
               /\ UNCHANGED <<holder, missionVars, linkVars, budget>>

WaypointStore == Snapshots("waypointStore", Active(TRUE))

\* c: resume the mission, or without a snapshot forget the override.
KeyCancel == /\ \/ /\ store.snapshot = "none"
                   /\ GoTo("ui", "idle", "cancelReset") /\ Take("ui", "store")
                \/ /\ store.snapshot # "none"
                   /\ GoTo("ui", "idle", "cancelPending") /\ Within("store")
             /\ Press
             /\ UNCHANGED <<missionVars, linkVars>>

CancelReset == /\ GoTo("ui", "cancelReset", "idle")
               /\ Inside("store", "override")
               /\ override' = State("MissionRunning")
               /\ UNCHANGED <<store, crossed, linkVars, budget>>

CancelPending == /\ GoTo("ui", "cancelPending", "cancelCount")
                 /\ Within("store")
                 /\ SetResumePending
                 /\ UNCHANGED <<override, linkVars, budget>>

CancelCount == /\ GoTo("ui", "cancelCount", "cancelResume")
               /\ Within("conn")
               /\ ToFC(Count)
               /\ UNCHANGED <<missionVars, fc, toGCS, inHand, budget>>

CancelResume == /\ GoTo("ui", "cancelResume", "idle")
                /\ Within("override")
                /\ override' = State("Resuming")
                /\ UNCHANGED <<store, crossed, linkVars, budget>>
-----------------------------------------------------------------------------
(* External: the FC, and a link that may lose frames.                      *)

FcTakes == /\ toFC # << >>
           /\ toFC' = Tail(toFC)
           /\ LET f == Head(toFC)
                  Answers(session, frames) == fc' = session /\ toGCS' = toGCS \o frames
              IN CASE f.type = "CLEAR_ALL" -> Answers(fc, <<Ack(fc = NoSession)>>)
                   [] f.type = "COUNT" -> Answers(0, <<Request(0)>>)
                   [] f.type = "ITEM" ->
                        CASE f.seq # fc -> Answers(fc, << >>)
                          [] f.seq = fc /\ fc + 1 < Length -> Answers(fc + 1, <<Request(fc + 1)>>)
                          [] f.seq = fc /\ fc + 1 = Length -> Answers(NoSession, <<Ack(TRUE)>>)
           /\ UNCHANGED <<holder, pc, missionVars, inHand, budget>>

Fault == budget.faults > 0 /\ budget' = [budget EXCEPT !.faults = @ - 1]

\* A transfer the FC refuses, or that takes too long.
FcRefuses == /\ fc # NoSession
             /\ Fault
             /\ fc' = NoSession
             /\ toGCS' = Append(toGCS, Ack(FALSE))
             /\ UNCHANGED <<holder, pc, missionVars, toFC, inHand>>

Lose == /\ Fault
        /\ \/ /\ toFC # << >>
              /\ toFC' = Tail(toFC)
              /\ UNCHANGED toGCS
           \/ /\ toGCS # << >>
              /\ toGCS' = Tail(toGCS)
              /\ UNCHANGED toFC
        /\ UNCHANGED <<holder, pc, missionVars, fc, inHand>>
-----------------------------------------------------------------------------
RecvFrame == RecvTelemetry \/ RecvMission

RecvStep == \/ RecvLock
            \/ RecvDownload \/ RecvItem \/ RecvAskNext \/ RecvCurrent
            \/ RecvRequest \/ RecvAnswer
            \/ RecvAck \/ RecvResumeDone \/ RecvResumeStart \/ RecvResumeEnd \/ RecvAckStore
            \/ RecvPosition \/ RecvSnapshot \/ RecvEndPending \/ RecvEndCount \/ RecvEnd

Keys == \/ KeyCommand \/ KeyStart \/ KeyInterrupt \/ KeyWaypoint \/ KeyCancel
        \/ WaypointEnter \/ WaypointEsc

UiStep == \/ SendCommand \/ StartConn \/ FixCheck \/ FixBusy \/ FixAwait \/ FixClear
          \/ FixEndClear \/ FixPending \/ FixCount \/ FixPoll \/ FixAbandon \/ Validate
          \/ HoverStore \/ WaypointStore
          \/ CancelReset \/ CancelPending \/ CancelCount \/ CancelResume

Next == \/ RecvFrame \/ RecvStep
        \/ Keys \/ UiStep
        \/ FcTakes \/ FcRefuses \/ Lose

Spec == Init /\ [][Next]_vars

Fairness == /\ WF_vars(RecvFrame \/ RecvStep)
            /\ SF_vars(RecvMission)
            /\ SF_vars(UiStep)
            /\ WF_vars(FcTakes)

FairSpec == Spec /\ Fairness
-----------------------------------------------------------------------------
(* Properties.                                                             *)

Wants(t) ==
    CASE pc[t] \in {"top", "askNext", "answer", "resumeStart", "endCount",
                    "send", "start", "startConn", "hover", "cancelCount"} -> "conn"
      [] pc[t] \in FixupSteps \cup {"cache", "cacheItem", "request", "resumeDone",
                    "ackStore", "snapshotStore", "endPending", "validate", "hoverStore",
                    "waypointStore", "cancelPending"} -> "store"
      [] pc[t] \in {"ack", "resumeEnd", "position", "endResume", "endPause",
                    "cancelReset", "cancelResume"} -> "override"
      [] OTHER -> "nothing"

CircularWait == \E s, t \in Threads, m, n \in Mutexes :
                   /\ s # t
                   /\ holder[m] = s /\ Wants(s) = n
                   /\ holder[n] = t /\ Wants(t) = m

\* Locks are taken in one order, but for one pair of sections: the answer to a
\* MISSION_REQUEST (store, then connection: recv.rs:183) and the fix-up of m
\* (connection, then store: ui_loop.rs:231-242).  When these two meet the TUI
\* hangs for good.  c without a snapshot takes the store, then the override
\* state (ui_loop.rs:422-430), the reverse of the end of an override
\* (recv.rs:239-258), yet those two never meet.
OnlyFixupCrosses == CircularWait => pc["ui"] \in FixupSteps /\ pc["recv"] = "answer"

\* Whenever the mission is not simply running there is a snapshot to resume it
\* from (ui_loop.rs:78-90, 386-390, 421-457; recv.rs:262-288): the frame that
\* ends an override is never dropped for want of one, and c can always resume.
SnapshotBehindOverride == override.state # "MissionRunning" => store.snapshot # "none"

\* AUTO and MISSION_START are sent on the ACK of the resume's own transfer, when
\* the FC has the whole mission (recv.rs:192-210), as long as the resume met no
\* other transfer, the link lost nothing and the FC refused nothing: the
\* handler itself takes any MISSION_ACK, whatever it says.
ResumesWhatFcHas ==
    pc["recv"] = "resumeStart" => \/ fc = NoSession /\ Count \notin {toFC[i] : i \in DOMAIN toFC}
                                  \/ crossed
                                  \/ budget.faults < MaxFaults

\* No thread waits for ever for a mutex, but in the one circular wait: a key
\* that was pressed is served, and the recv thread comes back for a frame.
EveryoneIsServed ==
    /\ pc["ui"] \notin {"idle", "waypoint"} ~> pc["ui"] = "idle" \/ CircularWait
    /\ pc["recv"] # "receive" ~> pc["recv"] = "receive" \/ CircularWait

\* A resume ends, on the same conditions: Resuming is set after MISSION_COUNT
\* was sent (ui_loop.rs:446-457, recv.rs:273-282), and an ACK that is handled
\* in between would leave it for ever.
ResumeEnds ==
    override.state = "Resuming" ~> \/ override.state # "Resuming"
                                   \/ crossed
                                   \/ budget.faults < MaxFaults
                                   \/ CircularWait

\* Violated.  After i the vehicle hovers until c (ui_loop.rs:356): the recv
\* thread does not take the pause back.  It does when i comes while it handles
\* the ACK of a resume, whose end writes MissionRunning (recv.rs:193-213).
PauseHolds ==
    [][override.state = "Paused" /\ pc'["recv"] # pc["recv"] => override' = override]_vars
=============================================================================
