------------------------------ MODULE TuiProofs ------------------------------
(***************************************************************************)
(* What of Tui holds for missions of every length and any number of keys   *)
(* and faults: each mutex is held exactly inside its sections, an override *)
(* always has a snapshot to resume from, two threads block each other in   *)
(* one pair of sections only, and a resume starts the mission that the     *)
(* flight controller has.                                                  *)
(***************************************************************************)
EXTENDS Tui, LinkQueues, TLAPS

-----------------------------------------------------------------------------
(* The mutexes.                                                            *)

Holding(step, m) == \/ m = "conn" /\ step \in ConnHeld
                    \/ m = "override" /\ step \in OverrideHeld
                    \/ m = "store" /\ step \in StoreHeld

LocksOK == /\ holder \in [Mutexes -> Threads \cup {"free"}]
           /\ pc \in [Threads -> RecvSteps \cup UiSteps]
           /\ \A t \in Threads : /\ pc[t] \in StepsOf[t]
                                 /\ \A m \in Mutexes : holder[m] = t <=> Holding(pc[t], m)

\* The rest of TypeOK; a request in hand is one while it is answered.
DataOK ==
    /\ override \in [state : {"MissionRunning", "Paused", "OverrideActive", "Resuming"},
                     reached : BOOLEAN, resumeAfter : BOOLEAN]
    /\ store \in [items : Lists, current : BOOLEAN, snapshot : Lists, pending : Lists,
                  awaitingClear : BOOLEAN, done : BOOLEAN, failed : BOOLEAN,
                  sent : SUBSET Seqs]
    /\ inHand \in GcsFrames \cup {NoFrame}
    /\ fc \in Seqs \cup {NoSession}
    /\ toFC \in Seq(FcFrames)
    /\ toGCS \in Seq(GcsFrames)
    /\ budget \in [keys : 0 .. MaxKeys, faults : 0 .. MaxFaults]
    /\ crossed \in BOOLEAN
InHandOK == pc["recv"] \in {"request", "answer"} => \E i \in Seqs : inHand = Request(i)

LEMMA TypeParts == TypeOK <=> LocksOK /\ DataOK
<1>1. \A t \in Threads : (\A m \in Mutexes : holder[m] = t <=> Holding(pc[t], m))
          <=> /\ holder["conn"] = t <=> pc[t] \in ConnHeld
              /\ holder["override"] = t <=> pc[t] \in OverrideHeld
              /\ holder["store"] = t <=> pc[t] \in StoreHeld
  BY DEF Mutexes, Holding
<1> QED
  BY <1>1 DEF TypeOK, LocksOK, DataOK

\* A step of thread t to another step, which takes or releases what it says.
LEMMA LocksStep ==
    ASSUME LocksOK, NEW t \in Threads, NEW from, NEW to \in StepsOf[t], GoTo(t, from, to),
           holder' \in [Mutexes -> Threads \cup {"free"}],
           \A m \in Mutexes : holder'[m] = t <=> Holding(to, m),
           \A m \in Mutexes, u \in Threads : u # t => (holder'[m] = u <=> holder[m] = u)
    PROVE  LocksOK'
<1>1. StepsOf[t] \subseteq RecvSteps \cup UiSteps
  BY DEF StepsOf, Threads
<1>2. /\ pc' \in [Threads -> RecvSteps \cup UiSteps]
      /\ pc'[t] = to
      /\ \A u \in Threads : u # t => pc'[u] = pc[u]
  BY <1>1 DEF LocksOK, GoTo
<1>3. ASSUME NEW u \in Threads
      PROVE  pc'[u] \in StepsOf[u] /\ \A m \in Mutexes : holder'[m] = u <=> Holding(pc'[u], m)
  <2>1. CASE u = t
    BY <1>2, <2>1
  <2>2. CASE u # t
    BY <1>2, <2>2 DEF LocksOK
  <2> QED
    BY <2>1, <2>2
<1>4. \A u \in Threads, m \in Mutexes : Holding(pc[u], m)' <=> Holding(pc'[u], m)
  BY DEF Holding, ConnHeld, OverrideHeld, StoreHeld, FixupSteps, FixupSends
<1> QED
  BY <1>2, <1>3, <1>4 DEF LocksOK

SameHeld(from, to) == \A m \in Mutexes : Holding(from, m) <=> Holding(to, m)

\* A step that takes and releases nothing, between steps that hold the same, ...
LEMMA LocksKept ==
    ASSUME LocksOK, NEW t \in Threads, NEW from, NEW to \in StepsOf[t], GoTo(t, from, to),
           UNCHANGED holder, SameHeld(from, to)
    PROVE  LocksOK'
<1>1. \A m \in Mutexes : holder[m] = t <=> Holding(from, m)
  BY DEF LocksOK, GoTo
<1> QED
  BY <1>1, LocksStep DEF SameHeld, LocksOK

\* ... one that takes m, ...
LEMMA LocksTaken ==
    ASSUME LocksOK, NEW t \in Threads, NEW from, NEW to \in StepsOf[t], GoTo(t, from, to),
           NEW m \in Mutexes, Take(t, m),
           \A n \in Mutexes : Holding(to, n) <=> n = m \/ Holding(from, n)
    PROVE  LocksOK'
<1>1. \A n \in Mutexes : holder[n] = t <=> Holding(from, n)
  BY DEF LocksOK, GoTo
<1>2. t # "free"
  BY DEF Threads
<1>3. /\ holder' \in [Mutexes -> Threads \cup {"free"}]
      /\ \A n \in Mutexes : holder'[n] = IF n = m THEN t ELSE holder[n]
  BY DEF Take, LocksOK
<1>4. holder[m] = "free"
  BY DEF Take
<1>5. "free" \notin Threads
  BY DEF Threads
<1> QED
  BY <1>1, <1>3, <1>4, <1>5, LocksStep

\* ... and one that releases m keep the mutexes right.
LEMMA LocksReleased ==
    ASSUME LocksOK, NEW t \in Threads, NEW from, NEW to \in StepsOf[t], GoTo(t, from, to),
           NEW m \in Mutexes, Release(m), Holding(from, m),
           \A n \in Mutexes : Holding(to, n) <=> n # m /\ Holding(from, n)
    PROVE  LocksOK'
<1>1. \A n \in Mutexes : holder[n] = t <=> Holding(from, n)
  BY DEF LocksOK, GoTo
<1>2. "free" \notin Threads
  BY DEF Threads
<1>3. /\ holder' \in [Mutexes -> Threads \cup {"free"}]
      /\ \A n \in Mutexes : holder'[n] = IF n = m THEN "free" ELSE holder[n]
  BY DEF Release, LocksOK
<1> QED
  BY <1>1, <1>2, <1>3, LocksStep

\* Steps outside every section: a step from one to another leaves the mutexes.
Outside == (RecvSteps \cup UiSteps) \ (ConnHeld \cup OverrideHeld \cup StoreHeld)

LEMMA LocksUntouched ==
    ASSUME LocksOK, NEW t \in Threads, NEW from \in Outside, NEW to \in Outside \cap StepsOf[t],
           GoTo(t, from, to), UNCHANGED holder
    PROVE  LocksOK'
<1>1. SameHeld(from, to)
  BY DEF SameHeld, Outside, Holding
<1> QED
  BY <1>1, LocksKept

LEMMA RecvLocks == ASSUME LocksOK, RecvFrame \/ RecvStep PROVE LocksOK'
<1> USE DEF Outside, RecvSteps, StepsOf, Threads, Mutexes, ConnHeld, OverrideHeld, StoreHeld,
            FixupSteps, FixupSends, Holding
<1>1. CASE RecvLock
  BY <1>1, LocksTaken DEF RecvLock
<1>2. CASE RecvFrame
  <2>1. ASSUME NEW to \in {"top", "cache", "position", "ack", "request"}, Receives(to)
        PROVE  LocksOK'
    BY <2>1, LocksReleased DEF Receives
  <2> QED
    BY <1>2, <2>1 DEF RecvFrame, RecvTelemetry, RecvMission
<1>3. CASE RecvDownload \/ RecvItem \/ RecvAskNext \/ RecvCurrent
  BY <1>3, LocksUntouched DEF RecvDownload, RecvItem, RecvAskNext, RecvCurrent, Within
<1>4. CASE RecvRequest
  BY <1>4, LocksTaken DEF RecvRequest
<1>5. CASE RecvAnswer
  BY <1>5, LocksReleased DEF RecvAnswer, Inside
<1>6. CASE RecvAck \/ RecvResumeDone \/ RecvResumeStart \/ RecvResumeEnd \/ RecvAckStore
  BY <1>6, LocksUntouched DEF RecvAck, RecvResumeDone, RecvResumeStart, RecvResumeEnd,
     RecvAckStore, Within
<1>7. CASE RecvPosition
  <2>1. CASE GoTo("recv", "position", "snapshotStore") /\ Take("recv", "override")
    BY <2>1, LocksTaken
  <2>2. ASSUME NEW to \in {"endPause", "top"}, GoTo("recv", "position", to), UNCHANGED holder
        PROVE  LocksOK'
    BY <2>2, LocksUntouched
  <2> QED
    BY <1>7, <2>1, <2>2 DEF RecvPosition, Within
<1>8. CASE RecvSnapshot
  BY <1>8, LocksReleased DEF RecvSnapshot, Inside
<1>9. CASE RecvEndPending \/ RecvEndCount \/ RecvEnd
  BY <1>9, LocksUntouched DEF RecvEndPending, RecvEndCount, RecvEnd, Within
<1> QED
  BY <1>1, <1>2, <1>3, <1>4, <1>5, <1>6, <1>7, <1>8, <1>9 DEF RecvStep

LEMMA UiLocks == ASSUME LocksOK, Keys \/ UiStep PROVE LocksOK'
<1> USE DEF Outside, UiSteps, StepsOf, Threads, Mutexes, ConnHeld, OverrideHeld, StoreHeld,
            FixupSteps, FixupSends, Holding
<1>1. CASE KeyCommand \/ KeyStart \/ KeyWaypoint \/ WaypointEsc \/ SendCommand
  BY <1>1, LocksUntouched
     DEF KeyCommand, KeyStart, KeyWaypoint, WaypointEsc, SendCommand, Within
<1>2. CASE StartConn \/ KeyInterrupt
  BY <1>2, LocksTaken DEF StartConn, KeyInterrupt
<1>3. ASSUME NEW from \in FixupSteps \cup FixupSends, NEW to \in FixupSteps \cup FixupSends,
             GoTo("ui", from, to), UNCHANGED holder
      PROVE  LocksOK'
  BY <1>3, LocksKept DEF SameHeld
<1>4. ASSUME NEW from \in FixupSteps, NEW to \in {"idle", "validate"}, FixupEnds(from, to)
      PROVE  LocksOK'
  BY <1>4, LocksReleased DEF FixupEnds, Inside
<1>5. CASE FixCheck \/ FixBusy \/ FixPoll \/ FixAbandon
  BY <1>3, <1>4, <1>5 DEF FixCheck, FixBusy, FixPoll, FixAbandon, Fixup, Within
<1>6. CASE FixAwait \/ FixClear \/ FixEndClear \/ FixPending \/ FixCount
  BY <1>3, <1>6 DEF FixAwait, FixClear, FixEndClear, FixPending, FixCount, FixSend, Fixup, Within
<1>7. CASE Validate \/ CancelPending \/ CancelCount \/ CancelResume
  BY <1>7, LocksUntouched DEF Validate, CancelPending, CancelCount, CancelResume, Within
<1>8. CASE HoverStore \/ WaypointStore
  <2>1. ASSUME NEW from \in {"hoverStore", "waypointStore"}, NEW to \in {"hover", "idle"},
               GoTo("ui", from, to), Release("override")
        PROVE  LocksOK'
    BY <2>1, LocksReleased
  <2> QED
    BY <1>8, <2>1 DEF HoverStore, WaypointStore, Snapshots, Inside
<1>9. CASE WaypointEnter
  <2>1. CASE GoTo("ui", "waypoint", "waypointStore") /\ Take("ui", "override")
    BY <2>1, LocksTaken
  <2>2. ASSUME NEW to \in {"idle", "hover"}, GoTo("ui", "waypoint", to), UNCHANGED holder
        PROVE  LocksOK'
    BY <2>2, LocksUntouched
  <2> QED
    BY <1>9, <2>1, <2>2 DEF WaypointEnter, Within
<1>10. CASE KeyCancel
  <2>1. CASE GoTo("ui", "idle", "cancelReset") /\ Take("ui", "store")
    BY <2>1, LocksTaken
  <2>2. CASE GoTo("ui", "idle", "cancelPending") /\ UNCHANGED holder
    BY <2>2, LocksUntouched
  <2> QED
    BY <1>10, <2>1, <2>2 DEF KeyCancel, Within
<1>11. CASE CancelReset
  BY <1>11, LocksReleased DEF CancelReset, Inside
<1> QED
  BY <1>1, <1>2, <1>5, <1>6, <1>7, <1>8, <1>9, <1>10, <1>11 DEF Keys, UiStep

LEMMA LocksNext == LocksOK /\ [Next]_vars => LocksOK'
<1> SUFFICES ASSUME LocksOK, [Next]_vars PROVE LocksOK'
  OBVIOUS
<1>1. CASE UNCHANGED <<holder, pc>>
  BY <1>1 DEF LocksOK, Holding
<1> QED
  BY <1>1, RecvLocks, UiLocks DEF Next, FcTakes, FcRefuses, Lose, vars
-----------------------------------------------------------------------------
(* The data.                                                               *)

LEMMA FrameTypes ==
    /\ 0 \in Seqs
    /\ ClearAll \in FcFrames /\ Count \in FcFrames
    /\ \A i \in Seqs : Item(i) \in FcFrames /\ Request(i) \in GcsFrames
    /\ \A ok \in BOOLEAN : Ack(ok) \in GcsFrames
  BY BoundsAssumption DEF Seqs, FcFrames, GcsFrames

\* A frame that is no ACK is a request.
LEMMA GcsFrameKinds ==
    ASSUME NEW f \in GcsFrames
    PROVE  \/ f.type = "ACK"
           \/ f.type # "ACK" /\ \E i \in Seqs : f = Request(i)
  BY DEF GcsFrames, Request, Ack

TypeInv == LocksOK /\ DataOK /\ InHandOK

LEMMA InHandNext == TypeInv /\ [Next]_vars => InHandOK'
<1> SUFFICES ASSUME TypeInv, [Next]_vars PROVE InHandOK'
  OBVIOUS
<1>1. pc \in [Threads -> RecvSteps \cup UiSteps] /\ Threads = {"recv", "ui"}
  BY DEF TypeInv, LocksOK, Threads
<1>2. CASE RecvMission
  <2>1. Head(toGCS) \in GcsFrames
    BY <1>2, QueueTypes DEF RecvMission, TypeInv, DataOK
  <2> QED
    BY <1>1, <1>2, <2>1, GcsFrameKinds DEF RecvMission, Receives, GoTo, InHandOK
<1>3. CASE RecvRequest
  BY <1>1, <1>3 DEF RecvRequest, GoTo, InHandOK, TypeInv, linkVars
<1>4. CASE pc'["recv"] \notin {"request", "answer"}
  BY <1>4 DEF InHandOK
<1>5. CASE UNCHANGED inHand /\ pc'["recv"] = pc["recv"]
  BY <1>5 DEF InHandOK, TypeInv
<1>6. CASE RecvTelemetry \/ (RecvStep /\ ~RecvRequest)
  BY <1>1, <1>4, <1>6 DEF RecvTelemetry, Receives, RecvStep, RecvLock, RecvDownload, RecvItem,
     RecvAskNext, RecvCurrent, RecvAnswer, RecvAck, RecvResumeDone, RecvResumeStart,
     RecvResumeEnd, RecvAckStore, RecvPosition, RecvSnapshot, RecvEndPending, RecvEndCount,
     RecvEnd, GoTo
<1>7. CASE Keys \/ UiStep
  BY <1>1, <1>5, <1>7 DEF Keys, UiStep, KeyCommand, KeyStart, KeyInterrupt, KeyWaypoint, KeyCancel,
     WaypointEnter, WaypointEsc, SendCommand, StartConn, FixCheck, FixBusy, FixAwait, FixClear,
     FixEndClear, FixPending, FixCount, FixPoll, FixAbandon, Validate, HoverStore, WaypointStore,
     CancelReset, CancelPending, CancelCount, CancelResume, Fixup, FixupEnds, FixSend, Snapshots,
     GoTo, linkVars
<1>8. CASE FcTakes \/ FcRefuses \/ Lose \/ UNCHANGED vars
  BY <1>5, <1>8 DEF FcTakes, FcRefuses, Lose, vars
<1> QED
  BY <1>2, <1>3, <1>6, <1>7, <1>8 DEF Next, RecvFrame

OverrideTypes == [state : {"MissionRunning", "Paused", "OverrideActive", "Resuming"},
                  reached : BOOLEAN, resumeAfter : BOOLEAN]
StoreTypes == [items : Lists, current : BOOLEAN, snapshot : Lists, pending : Lists,
               awaitingClear : BOOLEAN, done : BOOLEAN, failed : BOOLEAN, sent : SUBSET Seqs]

\* The methods of the cache keep its shape (src/src/mission_store.rs).
LEMMA StoreMethods ==
    ASSUME NEW st \in StoreTypes
    PROVE  /\ UploadEnded(st) \in StoreTypes
           /\ \A list \in Lists : [st EXCEPT !.items = list] \in StoreTypes
           /\ \A list \in Lists : [st EXCEPT !.items = list, !.current = TRUE] \in StoreTypes
           /\ [st EXCEPT !.current = TRUE] \in StoreTypes
           /\ \A i \in Seqs : [st EXCEPT !.sent = @ \cup {i}] \in StoreTypes
           /\ \A b \in BOOLEAN : [st EXCEPT !.awaitingClear = b] \in StoreTypes
           /\ [st EXCEPT !.pending = "none", !.failed = TRUE, !.sent = {}] \in StoreTypes
           /\ \A list \in Lists : [st EXCEPT !.pending = list, !.done = FALSE, !.failed = FALSE,
                                             !.sent = {}] \in StoreTypes
           /\ [st EXCEPT !.pending = "none", !.done = FALSE, !.failed = FALSE,
                         !.awaitingClear = FALSE, !.sent = {}] \in StoreTypes
           /\ [st EXCEPT !.snapshot = IF @ # "none" THEN @ ELSE st.items] \in StoreTypes
           /\ {st.items, st.snapshot, st.pending} \subseteq Lists
  BY DEF StoreTypes, UploadEnded, Lists

LEMMA StoreNext == TypeInv /\ [Next]_vars => store' \in StoreTypes
<1> SUFFICES ASSUME TypeInv, [Next]_vars PROVE store' \in StoreTypes
  OBVIOUS
<1>1. store \in StoreTypes /\ {"none", "bare", "takeoff"} \subseteq Lists
  BY DEF TypeInv, DataOK, StoreTypes, Lists
<1>2. CASE UNCHANGED store
  BY <1>1, <1>2
<1>3. CASE RecvItem
  <2>1. PICK list \in {store.items, "bare", "takeoff"} : store' = [store EXCEPT !.items = list]
    BY <1>3 DEF RecvItem
  <2>2. store.items \in Lists
    BY <1>1, StoreMethods
  <2>3. list \in Lists
    BY <1>1, <2>2
  <2>4. [store EXCEPT !.items = list] \in StoreTypes
    BY <1>1, <2>3, StoreMethods
  <2> QED
    BY <2>1, <2>4
<1>4. CASE RecvCurrent
  BY <1>1, <1>4, StoreMethods DEF RecvCurrent
<1>5. CASE RecvAnswer
  <2>1. PICK i \in Seqs : inHand.seq = i
    BY <1>5 DEF RecvAnswer, GoTo, TypeInv, InHandOK, Request
  <2> QED
    BY <1>1, <1>5, <2>1, StoreMethods DEF RecvAnswer
<1>6. CASE RecvResumeDone
  BY <1>1, <1>6, StoreMethods DEF RecvResumeDone
<1>7. CASE RecvAckStore
  <2> DEFINE mirrored == [store EXCEPT !.items = store.pending, !.current = TRUE]
  <2>1. UploadEnded(mirrored) \in StoreTypes
    BY <1>1, StoreMethods
  <2>2. [store EXCEPT !.awaitingClear = FALSE] \in StoreTypes
    BY <1>1, StoreMethods
  <2>3. [store EXCEPT !.pending = "none", !.failed = TRUE, !.sent = {}] \in StoreTypes
    BY <1>1, StoreMethods
  <2> HIDE DEF mirrored
  <2>4. \/ store' = store
        \/ store' = UploadEnded(mirrored)
        \/ store' = [store EXCEPT !.awaitingClear = FALSE]
        \/ store' = [store EXCEPT !.pending = "none", !.failed = TRUE, !.sent = {}]
    BY <1>7 DEF RecvAckStore, mirrored
  <2> QED
    BY <1>1, <2>1, <2>2, <2>3, <2>4
<1>8. CASE RecvEndPending \/ CancelPending \/ FixPending
  <2>1. PICK list \in {store.snapshot, "takeoff"} : SetUploadPending(list)
    BY <1>8 DEF RecvEndPending, CancelPending, FixPending, SetResumePending
  <2>2. store.snapshot \in Lists
    BY <1>1, StoreMethods
  <2>3. list \in Lists
    BY <1>1, <2>2
  <2> DEFINE given == [store EXCEPT !.pending = list, !.done = FALSE, !.failed = FALSE,
                                    !.sent = {}]
  <2>4. given \in StoreTypes
    BY <1>1, <2>3, StoreMethods
  <2>5. store' = given
    BY <2>1 DEF SetUploadPending
  <2> QED
    BY <2>4, <2>5
<1>9. CASE FixAwait \/ FixEndClear \/ FixAbandon
  BY <1>1, <1>9, StoreMethods DEF FixAwait, FixEndClear, FixAbandon
<1>10. CASE HoverStore \/ WaypointStore
  BY <1>1, <1>10, StoreMethods DEF HoverStore, WaypointStore, Snapshots, EnsureSnapshot
<1>11. CASE RecvFrame \/ FcTakes \/ FcRefuses \/ Lose \/ UNCHANGED vars
  BY <1>2, <1>11 DEF RecvFrame, RecvTelemetry, RecvMission, Receives, FcTakes, FcRefuses, Lose,
     vars, missionVars
<1>12. CASE Keys
  BY <1>2, <1>12 DEF Keys, KeyCommand, KeyStart, KeyInterrupt, KeyWaypoint, KeyCancel,
     WaypointEnter, WaypointEsc, missionVars
<1>13. CASE UiStep
  BY <1>2, <1>8, <1>9, <1>10, <1>13 DEF UiStep, SendCommand, StartConn, FixCheck, FixBusy,
     FixClear, FixCount, FixSend, FixPoll, Validate, CancelReset, CancelCount, CancelResume,
     missionVars
<1>14. CASE RecvStep
  BY <1>2, <1>3, <1>4, <1>5, <1>6, <1>7, <1>8, <1>14 DEF RecvStep, RecvLock, RecvDownload,
     RecvAskNext, RecvRequest, RecvAck, RecvResumeStart, RecvResumeEnd, RecvPosition,
     RecvSnapshot, RecvEndCount, RecvEnd, missionVars
<1> QED
  BY <1>11, <1>12, <1>13, <1>14 DEF Next

LEMMA OverrideNext == TypeInv /\ [Next]_vars => override' \in OverrideTypes
<1> SUFFICES ASSUME TypeInv, [Next]_vars PROVE override' \in OverrideTypes
  OBVIOUS
<1>1. /\ override \in OverrideTypes
      /\ [override EXCEPT !.reached = TRUE] \in OverrideTypes
  BY DEF TypeInv, DataOK, OverrideTypes
<1>2. /\ \A s \in {"MissionRunning", "Paused", "OverrideActive", "Resuming"} :
            State(s) \in OverrideTypes
      /\ \A b \in BOOLEAN : Active(b) \in OverrideTypes
  BY DEF State, Active, OverrideTypes
<1>3. CASE UNCHANGED override
  BY <1>1, <1>3
<1>4. CASE RecvStep
  BY <1>1, <1>2, <1>4 DEF RecvStep, RecvLock, RecvDownload, RecvItem, RecvAskNext, RecvCurrent,
     RecvRequest, RecvAnswer, RecvAck, RecvResumeDone, RecvResumeStart, RecvResumeEnd,
     RecvAckStore, RecvPosition, RecvSnapshot, RecvEndPending, RecvEndCount, RecvEnd, missionVars
<1>5. CASE Keys
  BY <1>1, <1>2, <1>5 DEF Keys, KeyCommand, KeyStart, KeyInterrupt, KeyWaypoint, KeyCancel,
     WaypointEnter, WaypointEsc, missionVars
<1>6. CASE UiStep
  BY <1>1, <1>2, <1>6 DEF UiStep, SendCommand, StartConn, FixCheck, FixBusy, FixAwait, FixClear,
     FixEndClear, FixPending, FixCount, FixSend, FixPoll, FixAbandon, Validate, HoverStore,
     WaypointStore, Snapshots, CancelReset, CancelPending, CancelCount, CancelResume, missionVars
<1>7. CASE RecvFrame \/ FcTakes \/ FcRefuses \/ Lose \/ UNCHANGED vars
  BY <1>3, <1>7 DEF RecvFrame, RecvTelemetry, RecvMission, Receives, FcTakes, FcRefuses, Lose,
     vars, missionVars
<1> QED
  BY <1>4, <1>5, <1>6, <1>7 DEF Next

LEMMA CrossedNext == TypeInv /\ [Next]_vars => crossed' \in BOOLEAN
<1> SUFFICES ASSUME TypeInv, [Next]_vars PROVE crossed' \in BOOLEAN
  OBVIOUS
<1>1. CASE UNCHANGED crossed
  BY <1>1 DEF TypeInv, DataOK
<1>2. CASE SetResumePending \/ RecvResumeDone \/ RecvAckStore \/ FixPending
  BY <1>2 DEF SetResumePending, RecvResumeDone, RecvAckStore, FixPending
<1>3. CASE RecvStep
  BY <1>1, <1>2, <1>3 DEF RecvStep, RecvLock, RecvDownload, RecvItem, RecvAskNext, RecvCurrent,
     RecvRequest, RecvAnswer, RecvAck, RecvResumeStart, RecvResumeEnd,
     RecvPosition, RecvSnapshot, RecvEndPending, RecvEndCount, RecvEnd, missionVars
<1>4. CASE Keys
  BY <1>1, <1>4 DEF Keys, KeyCommand, KeyStart, KeyInterrupt, KeyWaypoint, KeyCancel,
     WaypointEnter, WaypointEsc, missionVars
<1>5. CASE UiStep
  BY <1>1, <1>2, <1>5 DEF UiStep, SendCommand, StartConn, FixCheck, FixBusy, FixAwait, FixClear,
     FixEndClear, FixCount, FixSend, FixPoll, FixAbandon, Validate, HoverStore,
     WaypointStore, Snapshots, CancelReset, CancelPending, CancelCount, CancelResume, missionVars
<1>6. CASE RecvFrame \/ FcTakes \/ FcRefuses \/ Lose \/ UNCHANGED vars
  BY <1>1, <1>6 DEF RecvFrame, RecvTelemetry, RecvMission, Receives, FcTakes, FcRefuses, Lose,
     vars, missionVars
<1> QED
  BY <1>3, <1>4, <1>5, <1>6 DEF Next

LinkOK == /\ inHand \in GcsFrames \cup {NoFrame}
          /\ fc \in Seqs \cup {NoSession}
          /\ toFC \in Seq(FcFrames)
          /\ toGCS \in Seq(GcsFrames)

\* What the FC answers a frame with.
LEMMA FcTypes == LinkOK /\ FcTakes => LinkOK'
<1> SUFFICES ASSUME LinkOK, FcTakes PROVE LinkOK'
  OBVIOUS
<1>1. Head(toFC) \in FcFrames /\ toFC' \in Seq(FcFrames)
  BY QueueTypes DEF LinkOK, FcTakes
<1>2. \A i \in Seqs : i + 1 < Length => i + 1 \in Seqs
  BY BoundsAssumption DEF Seqs
<1>3. ASSUME NEW session \in Seqs \cup {NoSession}, NEW frames \in Seq(GcsFrames),
             fc' = session, toGCS' = toGCS \o frames
      PROVE  LinkOK'
  BY <1>1, <1>3 DEF LinkOK, FcTakes
<1>4. /\ << >> \in Seq(GcsFrames)
      /\ \A f \in GcsFrames : <<f>> \in Seq(GcsFrames)
  OBVIOUS
<1>5. CASE Head(toFC).type = "CLEAR_ALL"
  <2>1. fc' = fc /\ toGCS' = toGCS \o <<Ack(fc = NoSession)>>
    BY <1>5 DEF FcTakes
  <2>2. Ack(fc = NoSession) \in GcsFrames
    BY FrameTypes
  <2>3. fc \in Seqs \cup {NoSession}
    BY DEF LinkOK
  <2> QED
    BY <1>3, <1>4, <2>1, <2>2, <2>3
<1>6. CASE Head(toFC).type = "COUNT"
  <2>1. fc' = 0 /\ toGCS' = toGCS \o <<Request(0)>>
    BY <1>6 DEF FcTakes
  <2> QED
    BY <1>3, <1>4, <2>1, FrameTypes
<1>7. CASE Head(toFC).type = "ITEM"
  <2>1. CASE Head(toFC).seq # fc
    BY <1>3, <1>4, <1>7, <2>1 DEF FcTakes, LinkOK
  <2>2. CASE Head(toFC).seq = fc
    <3>1. Head(toFC).seq \in Seqs
      BY <1>1, <1>7 DEF FcFrames, ClearAll, Count, Item
    <3>2. CASE fc + 1 < Length
      <4> DEFINE more == <<Request(fc + 1)>>
      <4>1. fc + 1 \in Seqs
        BY <1>2, <2>2, <3>1, <3>2
      <4>2. fc' = fc + 1 /\ toGCS' = toGCS \o more
        <5>1. fc + 1 # Length
          BY <2>2, <3>1, <3>2, BoundsAssumption DEF Seqs
        <5> QED
          BY <1>7, <2>2, <3>2, <5>1 DEF FcTakes
      <4>3. more \in Seq(GcsFrames)
        BY <1>4, <4>1, FrameTypes
      <4> HIDE DEF more
      <4> QED
        BY <1>3, <4>1, <4>2, <4>3
    <3>3. CASE fc + 1 = Length
      <4> DEFINE done == <<Ack(TRUE)>>
      <4>1. fc' = NoSession /\ toGCS' = toGCS \o done
        <5>1. Length \in Nat /\ ~(fc + 1 < Length)
          BY <3>3, BoundsAssumption
        <5> QED
          BY <1>7, <2>2, <3>3, <5>1 DEF FcTakes
      <4>2. done \in Seq(GcsFrames)
        BY <1>4, FrameTypes
      <4> HIDE DEF done
      <4> QED
        BY <1>3, <4>1, <4>2
    <3> QED
      BY <2>2, <3>1, <3>2, <3>3, BoundsAssumption DEF Seqs
  <2> QED
    BY <2>1, <2>2
<1> QED
  BY <1>1, <1>5, <1>6, <1>7 DEF FcFrames, ClearAll, Count, Item

LEMMA LinkNext == TypeInv /\ [Next]_vars => LinkOK'
<1> SUFFICES ASSUME TypeInv, [Next]_vars PROVE LinkOK'
  OBVIOUS
<1>1. LinkOK
  BY DEF TypeInv, DataOK, LinkOK
<1>2. CASE UNCHANGED linkVars
  BY <1>1, <1>2 DEF LinkOK, linkVars
<1>3. ASSUME UNCHANGED <<fc, toFC, toGCS>>, inHand' = NoFrame
      PROVE  LinkOK'
  BY <1>1, <1>3 DEF LinkOK
<1>4. ASSUME UNCHANGED <<fc, toGCS, inHand>>, NEW f \in FcFrames, ToFC(f)
      PROVE  LinkOK'
  BY <1>1, <1>4 DEF LinkOK, ToFC
<1>5. CASE RecvAnswer
  <2>1. PICK i \in Seqs : inHand.seq = i
    BY <1>5 DEF RecvAnswer, GoTo, TypeInv, InHandOK, Request
  <2>2. toFC' \in Seq(FcFrames)
    BY <1>1, <1>5, <2>1, FrameTypes, QueueTypes DEF RecvAnswer, ToFC, LinkOK
  <2> QED
    BY <1>1, <1>5, <2>2 DEF RecvAnswer, LinkOK
<1>6. CASE RecvMission
  <2>1. Head(toGCS) \in GcsFrames /\ Tail(toGCS) \in Seq(GcsFrames)
    BY <1>1, <1>6, QueueTypes DEF RecvMission, LinkOK
  <2> QED
    BY <1>1, <1>6, <2>1 DEF RecvMission, Receives, LinkOK
<1>7. CASE RecvEndCount \/ CancelCount \/ FixCount
  BY <1>4, <1>7, FrameTypes DEF RecvEndCount, CancelCount, FixCount, FixSend
<1>8. CASE FixClear
  BY <1>4, <1>8, FrameTypes DEF FixClear, FixSend
<1>9. CASE RecvResumeDone \/ RecvAckStore
  BY <1>3, <1>9 DEF RecvResumeDone, RecvAckStore
<1>10. CASE RecvStep
  BY <1>2, <1>5, <1>7, <1>9, <1>10 DEF RecvStep, RecvLock, RecvDownload, RecvItem, RecvAskNext,
     RecvCurrent, RecvRequest, RecvAck, RecvResumeStart, RecvResumeEnd, RecvPosition,
     RecvSnapshot, RecvEndPending, RecvEnd
<1>11. CASE Keys
  BY <1>2, <1>11 DEF Keys, KeyCommand, KeyStart, KeyInterrupt, KeyWaypoint, KeyCancel,
     WaypointEnter, WaypointEsc
<1>12. CASE UiStep
  BY <1>2, <1>7, <1>8, <1>12 DEF UiStep, SendCommand, StartConn, FixCheck, FixBusy, FixAwait,
     FixEndClear, FixPending, FixPoll, FixAbandon, Validate, HoverStore,
     WaypointStore, Snapshots, CancelReset, CancelPending, CancelResume
<1>13. CASE RecvTelemetry \/ UNCHANGED vars
  BY <1>2, <1>13 DEF RecvTelemetry, Receives, vars, linkVars
<1>14. CASE FcRefuses
  <2>1. toGCS' \in Seq(GcsFrames)
    BY <1>1, <1>14, FrameTypes, QueueTypes DEF FcRefuses, LinkOK
  <2> QED
    BY <1>1, <1>14, <2>1 DEF FcRefuses, LinkOK
<1>15. CASE Lose
  BY <1>1, <1>15, QueueTypes DEF Lose, LinkOK
<1> QED
  BY <1>1, <1>6, <1>10, <1>11, <1>12, <1>13, <1>14, <1>15, FcTypes DEF Next, RecvFrame

LEMMA BudgetNext ==
    TypeInv /\ [Next]_vars => budget' \in [keys : 0 .. MaxKeys, faults : 0 .. MaxFaults]
<1> SUFFICES ASSUME TypeInv, [Next]_vars
             PROVE  budget' \in [keys : 0 .. MaxKeys, faults : 0 .. MaxFaults]
  OBVIOUS
<1>1. budget \in [keys : 0 .. MaxKeys, faults : 0 .. MaxFaults]
  BY DEF TypeInv, DataOK
<1>2. CASE UNCHANGED budget
  BY <1>1, <1>2
<1>3. CASE Press \/ Fault
  BY <1>1, <1>3, BoundsAssumption DEF Press, Fault
<1>4. CASE RecvFrame \/ RecvStep
  BY <1>2, <1>4 DEF RecvFrame, RecvTelemetry, RecvMission, Receives, RecvStep, RecvLock,
     RecvDownload, RecvItem, RecvAskNext, RecvCurrent, RecvRequest, RecvAnswer, RecvAck,
     RecvResumeDone, RecvResumeStart, RecvResumeEnd, RecvAckStore, RecvPosition, RecvSnapshot,
     RecvEndPending, RecvEndCount, RecvEnd
<1>5. CASE Keys
  BY <1>2, <1>3, <1>5 DEF Keys, KeyCommand, KeyStart, KeyInterrupt, KeyWaypoint, KeyCancel,
     WaypointEnter, WaypointEsc
<1>6. CASE UiStep
  BY <1>2, <1>6 DEF UiStep, SendCommand, StartConn, FixCheck, FixBusy, FixAwait, FixClear,
     FixEndClear, FixPending, FixCount, FixSend, FixPoll, FixAbandon, Validate, HoverStore,
     WaypointStore, Snapshots, CancelReset, CancelPending, CancelCount, CancelResume
<1> QED
  BY <1>2, <1>3, <1>4, <1>5, <1>6 DEF Next, FcTakes, FcRefuses, Lose, vars

LEMMA TypeInit == Init => TypeInv
<1> SUFFICES ASSUME Init PROVE TypeInv
  OBVIOUS
<1>1. LocksOK
  BY DEF Init, LocksOK, Holding, Mutexes, Threads, StepsOf, RecvSteps, UiSteps, ConnHeld,
     OverrideHeld, StoreHeld, FixupSteps, FixupSends
<1>2. budget \in [keys : 0 .. MaxKeys, faults : 0 .. MaxFaults]
  BY BoundsAssumption DEF Init
<1>3. DataOK
  <2>1. /\ override \in OverrideTypes
        /\ store \in StoreTypes
        /\ crossed \in BOOLEAN
    BY DEF Init, OverrideTypes, StoreTypes, State, Lists
  <2>2. LinkOK
    BY DEF Init, LinkOK
  <2> QED
    BY <1>2, <2>1, <2>2 DEF DataOK, OverrideTypes, StoreTypes, LinkOK
<1>4. InHandOK
  BY DEF Init, InHandOK, Threads
<1> QED
  BY <1>1, <1>3, <1>4 DEF TypeInv

LEMMA TypeNext == TypeInv /\ [Next]_vars => TypeInv'
<1> SUFFICES ASSUME TypeInv, [Next]_vars PROVE TypeInv'
  OBVIOUS
<1>1. LocksOK' /\ InHandOK'
  BY LocksNext, InHandNext DEF TypeInv
<1>2. DataOK'
  BY OverrideNext, StoreNext, LinkNext, BudgetNext, CrossedNext
     DEF DataOK, OverrideTypes, StoreTypes, LinkOK
<1> QED
  BY <1>1, <1>2 DEF TypeInv

LEMMA TypeInvariant == Spec => []TypeInv
BY TypeInit, TypeNext, PTL DEF Spec

\* A mutex is held exactly at the steps inside its section, whichever way they
\* are left (src/src/bin/tui/recv.rs, ui_loop.rs).
THEOREM TypeCorrect == Spec => []TypeOK
<1>1. TypeInv => TypeOK
  BY TypeParts DEF TypeInv
<1> QED
  BY <1>1, TypeInvariant, PTL
-----------------------------------------------------------------------------
(* The snapshot.                                                           *)

\* Only i and w take a snapshot, and nothing drops it.
LEMMA SnapshotKept ==
    ASSUME TypeInv, [Next]_vars, ~HoverStore, ~WaypointStore
    PROVE  store'.snapshot = store.snapshot
<1>1. store \in StoreTypes
  BY DEF TypeInv, DataOK, StoreTypes
<1>2. \A st \in StoreTypes : UploadEnded(st).snapshot = st.snapshot
  BY DEF StoreTypes, UploadEnded
<1>3. CASE UNCHANGED store
  BY <1>3
<1>4. CASE RecvItem \/ RecvCurrent
  BY <1>1, <1>4 DEF RecvItem, RecvCurrent, StoreTypes
<1>5. CASE RecvAnswer
  BY <1>1, <1>5 DEF RecvAnswer, StoreTypes
<1>6. CASE RecvResumeDone
  BY <1>1, <1>2, <1>6 DEF RecvResumeDone
<1>7. CASE RecvAckStore
  <2> DEFINE mirrored == [store EXCEPT !.items = store.pending, !.current = TRUE]
  <2>1. mirrored \in StoreTypes /\ mirrored.snapshot = store.snapshot
    BY <1>1, StoreMethods DEF StoreTypes
  <2> HIDE DEF mirrored
  <2>2. \/ store' = store
        \/ store' = UploadEnded(mirrored)
        \/ store' = [store EXCEPT !.awaitingClear = FALSE]
        \/ store' = [store EXCEPT !.pending = "none", !.failed = TRUE, !.sent = {}]
    BY <1>7 DEF RecvAckStore, mirrored
  <2> QED
    BY <1>1, <1>2, <2>1, <2>2 DEF StoreTypes
<1>8. ASSUME NEW list, SetUploadPending(list) PROVE store'.snapshot = store.snapshot
  BY <1>1, <1>8 DEF SetUploadPending, StoreTypes
<1>9. CASE RecvEndPending \/ CancelPending \/ FixPending
  BY <1>8, <1>9 DEF RecvEndPending, CancelPending, FixPending, SetResumePending
<1>10. CASE FixAwait \/ FixEndClear \/ FixAbandon
  BY <1>1, <1>10 DEF FixAwait, FixEndClear, FixAbandon, StoreTypes
<1>11. CASE RecvFrame \/ FcTakes \/ FcRefuses \/ Lose \/ UNCHANGED vars
  BY <1>3, <1>11 DEF RecvFrame, RecvTelemetry, RecvMission, Receives, FcTakes, FcRefuses, Lose,
     vars, missionVars
<1>12. CASE Keys
  BY <1>3, <1>12 DEF Keys, KeyCommand, KeyStart, KeyInterrupt, KeyWaypoint, KeyCancel,
     WaypointEnter, WaypointEsc, missionVars
<1>13. CASE UiStep
  BY <1>3, <1>9, <1>10, <1>13 DEF UiStep, SendCommand, StartConn, FixCheck, FixBusy,
     FixClear, FixCount, FixSend, FixPoll, Validate, CancelReset, CancelCount, CancelResume,
     missionVars
<1>14. CASE RecvStep
  BY <1>3, <1>4, <1>5, <1>6, <1>7, <1>9, <1>14 DEF RecvStep, RecvLock, RecvDownload,
     RecvAskNext, RecvRequest, RecvAck, RecvResumeStart, RecvResumeEnd, RecvPosition,
     RecvSnapshot, RecvEndCount, RecvEnd, missionVars
<1> QED
  BY <1>11, <1>12, <1>13, <1>14 DEF Next

\* i and w override the mission with a snapshot, or not at all.
LEMMA SnapshotTaken ==
    ASSUME TypeInv, NEW from \in UiSteps, NEW new, Snapshots(from, new)
    PROVE  /\ \/ store'.snapshot # "none"
              \/ UNCHANGED <<store, override>>
           /\ pc' = [pc EXCEPT !["ui"] = "hover"] \/ pc' = [pc EXCEPT !["ui"] = "idle"]
<1>1. store \in StoreTypes
  BY DEF TypeInv, DataOK, StoreTypes
<1>2. CASE CanSnapshot
  <2>1. store'.snapshot = IF store.snapshot # "none" THEN store.snapshot ELSE store.items
    BY <1>1, <1>2 DEF Snapshots, EnsureSnapshot, StoreTypes
  <2> QED
    BY <1>2, <2>1 DEF Snapshots, CanSnapshot, GoTo
<1>3. CASE ~CanSnapshot
  BY <1>3 DEF Snapshots, GoTo
<1> QED
  BY <1>2, <1>3

\* Whoever is about to use the snapshot has found one.
HasSnapshot == store.snapshot # "none"
SnapshotInUse == \/ override.state # "MissionRunning"
                 \/ pc["ui"] \in {"cancelPending", "cancelCount", "cancelResume"}
                 \/ pc["recv"] \in {"endPending", "endCount", "endResume", "endPause"}
SnapshotInv == SnapshotInUse => HasSnapshot

LEMMA SnapshotInvNext == TypeInv /\ SnapshotInv /\ [Next]_vars => SnapshotInv'
<1> SUFFICES ASSUME TypeInv, SnapshotInv, [Next]_vars PROVE SnapshotInv'
  OBVIOUS
<1>1. /\ override \in OverrideTypes
      /\ pc \in [Threads -> RecvSteps \cup UiSteps]
      /\ Threads = {"recv", "ui"}
  BY DEF TypeInv, DataOK, LocksOK, OverrideTypes, Threads
<1>2. CASE HoverStore \/ WaypointStore
  BY <1>1, <1>2, SnapshotTaken
     DEF HoverStore, WaypointStore, SnapshotInv, SnapshotInUse, HasSnapshot, UiSteps
<1>3. CASE ~HoverStore /\ ~WaypointStore
  <2>1. HasSnapshot' <=> HasSnapshot
    BY <1>3, SnapshotKept DEF HasSnapshot
  <2>2. SUFFICES SnapshotInUse' => HasSnapshot
    BY <2>1 DEF SnapshotInv
  <2> USE DEF SnapshotInv, SnapshotInUse, HasSnapshot
  <2>3. CASE UNCHANGED <<override, pc>>
    BY <2>3
  <2>4. CASE RecvFrame
    BY <1>1, <2>4 DEF RecvFrame, RecvTelemetry, RecvMission, Receives, GoTo, missionVars
  <2>5. CASE RecvLock \/ RecvDownload \/ RecvItem \/ RecvAskNext \/ RecvCurrent \/ RecvRequest
             \/ RecvAnswer \/ RecvAck \/ RecvResumeDone \/ RecvResumeStart \/ RecvAckStore
    BY <1>1, <2>5 DEF RecvLock, RecvDownload, RecvItem, RecvAskNext, RecvCurrent, RecvRequest,
       RecvAnswer, RecvAck, RecvResumeDone, RecvResumeStart, RecvAckStore, GoTo, missionVars
  <2>6. CASE RecvResumeEnd \/ RecvEnd
    BY <1>1, <2>6 DEF RecvResumeEnd, RecvEnd, GoTo, State
  <2>7. CASE RecvPosition
    <3>1. override' # override => override.state = "OverrideActive"
      BY <2>7 DEF RecvPosition
    <3>2. pc'["ui"] = pc["ui"] /\ (pc'["recv"] = "endPause" => override.state = "OverrideActive")
      BY <1>1, <2>7 DEF RecvPosition, GoTo
    <3>3. pc'["recv"] \in {"snapshotStore", "endPause", "top"}
      BY <1>1, <2>7 DEF RecvPosition, GoTo
    <3> QED
      BY <3>1, <3>2, <3>3
  <2>8. CASE RecvSnapshot \/ RecvEndPending \/ RecvEndCount
    BY <1>1, <2>8 DEF RecvSnapshot, RecvEndPending, RecvEndCount, SetResumePending, GoTo,
       missionVars
  <2>9. CASE KeyCommand \/ KeyStart \/ KeyInterrupt \/ KeyWaypoint \/ KeyCancel \/ WaypointEsc
    BY <1>1, <2>9 DEF KeyCommand, KeyStart, KeyInterrupt, KeyWaypoint, KeyCancel, WaypointEsc,
       GoTo, missionVars
  <2>10. CASE WaypointEnter
    <3>1. \A to : GoTo("ui", "waypoint", to) => pc'["recv"] = pc["recv"] /\ pc'["ui"] = to
      BY <1>1 DEF GoTo
    <3>2. pc'["recv"] = pc["recv"] /\ pc'["ui"] \in {"idle", "hover", "waypointStore"}
      BY <2>10, <3>1 DEF WaypointEnter
    <3>3. UNCHANGED override \/ override.state = "Paused"
      BY <2>10 DEF WaypointEnter
    <3> QED
      BY <3>2, <3>3
  <2>11. CASE SendCommand \/ StartConn \/ FixCheck \/ FixBusy \/ FixAwait \/ FixClear
              \/ FixEndClear \/ FixPending \/ FixCount \/ FixPoll \/ FixAbandon \/ Validate
    BY <1>1, <2>11 DEF SendCommand, StartConn, FixCheck, FixBusy, FixAwait, FixClear, FixEndClear,
       FixPending, FixCount, FixSend, FixPoll, FixAbandon, Validate, Fixup, FixupEnds, GoTo,
       missionVars
  <2>12. CASE CancelReset
    BY <1>1, <2>12 DEF CancelReset, GoTo, State
  <2>13. CASE CancelPending \/ CancelCount \/ CancelResume
    BY <1>1, <2>13 DEF CancelPending, CancelCount, CancelResume, SetResumePending, GoTo, State,
       missionVars
  <2> QED
    BY <1>3, <2>3, <2>4, <2>5, <2>6, <2>7, <2>8, <2>9, <2>10, <2>11, <2>12, <2>13
       DEF Next, RecvStep, Keys, UiStep, FcTakes, FcRefuses, Lose, vars, missionVars
<1> QED
  BY <1>2, <1>3

LEMMA SnapshotInvariant == Spec => []SnapshotInv
<1>1. Init => SnapshotInv
  BY DEF Init, SnapshotInv, SnapshotInUse, State, Threads
<1> QED
  BY <1>1, SnapshotInvNext, TypeInvariant, PTL DEF Spec

\* An override always has a snapshot to resume from: the frame that ends it is
\* never dropped for want of one (src/src/bin/tui/recv.rs, ui_loop.rs).
THEOREM OverrideHasSnapshot == Spec => []SnapshotBehindOverride
<1>1. SnapshotInv => SnapshotBehindOverride
  BY DEF SnapshotInv, SnapshotInUse, HasSnapshot, SnapshotBehindOverride
<1> QED
  BY <1>1, SnapshotInvariant, PTL
-----------------------------------------------------------------------------
(* The one circular wait.                                                  *)

\* c holds the store because there is no snapshot; the end of an override
\* holds the override state because an override is active.
CrossInv == /\ pc["ui"] = "cancelReset" => ~HasSnapshot
            /\ pc["recv"] = "snapshotStore" => override.state = "OverrideActive"

LEMMA CrossInvNext == TypeInv /\ CrossInv /\ [Next]_vars => CrossInv'
<1> SUFFICES ASSUME TypeInv, CrossInv, [Next]_vars PROVE CrossInv'
  OBVIOUS
<1>1. /\ override \in OverrideTypes
      /\ pc \in [Threads -> RecvSteps \cup UiSteps]
      /\ Threads = {"recv", "ui"}
  BY DEF TypeInv, DataOK, LocksOK, OverrideTypes, Threads
<1>2. /\ pc["recv"] = "snapshotStore" => holder["override"] = "recv"
      /\ pc["ui"] \in {"hoverStore", "waypointStore"} => holder["override"] = "ui"
  BY <1>1 DEF TypeInv, LocksOK, Holding, OverrideHeld, Mutexes
<1>3. \A t \in Threads : \A from, to :
         GoTo(t, from, to) => /\ pc[t] = from /\ pc'[t] = to
                              /\ \A u \in Threads : u # t => pc'[u] = pc[u]
  BY <1>1 DEF GoTo
<1>4. ASSUME pc'["ui"] = pc["ui"] \/ pc'["ui"] # "cancelReset" \/ store.snapshot = "none",
             ~HoverStore, ~WaypointStore
      PROVE  (pc["ui"] = "cancelReset" => ~HasSnapshot)'
  BY <1>4, SnapshotKept DEF CrossInv, HasSnapshot
<1>5. CASE HoverStore \/ WaypointStore
  <2>1. pc["recv"] # "snapshotStore"
    BY <1>1, <1>2, <1>3, <1>5 DEF HoverStore, WaypointStore, Snapshots
  <2>2. pc'["recv"] = pc["recv"] /\ pc'["ui"] \in {"hover", "idle"}
    BY <1>1, <1>3, <1>5 DEF HoverStore, WaypointStore, Snapshots
  <2> QED
    BY <2>1, <2>2 DEF CrossInv
<1>6. CASE ~HoverStore /\ ~WaypointStore
  <2>1. (pc["ui"] = "cancelReset" => ~HasSnapshot)'
    <3>1. CASE KeyCancel
      BY <1>1, <1>3, <1>4, <1>6, <3>1 DEF KeyCancel
    <3>2. CASE UNCHANGED pc \/ RecvFrame \/ RecvStep
      <4>1. CASE UNCHANGED pc
        BY <1>4, <1>6, <4>1
      <4>2. CASE RecvFrame \/ RecvStep
        <5>1. PICK from, to : GoTo("recv", from, to)
          BY <4>2 DEF RecvFrame, RecvTelemetry, RecvMission, Receives, RecvStep,
             RecvLock, RecvDownload, RecvItem, RecvAskNext, RecvCurrent, RecvRequest, RecvAnswer,
             RecvAck, RecvResumeDone, RecvResumeStart, RecvResumeEnd, RecvAckStore, RecvPosition,
             RecvSnapshot, RecvEndPending, RecvEndCount, RecvEnd
        <5>2. pc'["ui"] = pc["ui"]
          BY <1>1, <1>3, <5>1
        <5> QED
          BY <1>4, <1>6, <5>2
      <4> QED
        BY <3>2, <4>1, <4>2
    <3>3. CASE (Keys \/ UiStep) /\ ~KeyCancel
      <4>1. ASSUME NEW from, NEW to, to # "cancelReset", GoTo("ui", from, to)
            PROVE  pc'["ui"] # "cancelReset"
        BY <1>1, <1>3, <4>1
      <4>2. CASE Keys
        BY <3>3, <4>1, <4>2 DEF Keys, KeyCommand, KeyStart, KeyInterrupt, KeyWaypoint,
           WaypointEnter, WaypointEsc
      <4>3. CASE FixCheck \/ FixBusy \/ FixAwait \/ FixClear \/ FixEndClear \/ FixPending
                 \/ FixCount \/ FixPoll \/ FixAbandon
        BY <4>1, <4>3 DEF FixCheck, FixBusy, FixAwait, FixClear, FixEndClear, FixPending, FixCount,
           FixSend, FixPoll, FixAbandon, Fixup, FixupEnds
      <4>4. CASE StartConn \/ Validate \/ CancelReset \/ CancelPending \/ CancelCount
                 \/ CancelResume
        BY <4>1, <4>4 DEF StartConn, Validate, CancelReset, CancelPending, CancelCount, CancelResume
      <4>5. CASE SendCommand
        <5>1. PICK from : GoTo("ui", from, "idle")
          BY <4>5 DEF SendCommand
        <5> QED
          BY <4>1, <5>1
      <4> QED
        BY <1>6, <3>3, <4>2, <4>3, <4>4, <4>5 DEF UiStep
    <3> QED
      BY <3>1, <3>2, <3>3 DEF Next, FcTakes, FcRefuses, Lose, vars
  <2>2. (pc["recv"] = "snapshotStore" => override.state = "OverrideActive")'
    <3>1. CASE UNCHANGED override /\ pc'["recv"] = pc["recv"]
      BY <3>1 DEF CrossInv
    <3>2. CASE pc'["recv"] # "snapshotStore"
      BY <3>2
    <3>3. CASE RecvPosition
      BY <1>1, <1>3, <3>3 DEF RecvPosition, OverrideTypes
    <3>4. CASE (RecvFrame \/ RecvStep) /\ ~RecvPosition
      BY <1>1, <1>3, <3>2, <3>4 DEF RecvFrame, RecvTelemetry, RecvMission, Receives, RecvStep,
         RecvLock, RecvDownload, RecvItem, RecvAskNext, RecvCurrent, RecvRequest, RecvAnswer,
         RecvAck, RecvResumeDone, RecvResumeStart, RecvResumeEnd, RecvAckStore, RecvSnapshot,
         RecvEndPending, RecvEndCount, RecvEnd
    <3>5. CASE Keys \/ UiStep
      <4>1. pc'["recv"] = pc["recv"]
        BY <1>1, <1>3, <1>6, <3>5 DEF Keys, KeyCommand, KeyStart, KeyInterrupt, KeyWaypoint,
           KeyCancel, WaypointEnter, WaypointEsc, UiStep, SendCommand, StartConn, FixCheck,
           FixBusy, FixAwait, FixClear, FixEndClear, FixPending, FixCount, FixSend, FixPoll,
           FixAbandon, Validate, CancelReset, CancelPending, CancelCount, CancelResume, Fixup,
           FixupEnds
      <4>2. UNCHANGED override \/ holder["override"] = "free"
        BY <1>6, <3>5 DEF Keys, KeyCommand, KeyStart, KeyInterrupt, KeyWaypoint,
           KeyCancel, WaypointEnter, WaypointEsc, UiStep, SendCommand, StartConn, FixCheck,
           FixBusy, FixAwait, FixClear, FixEndClear, FixPending, FixCount, FixSend, FixPoll,
           FixAbandon, Validate, CancelReset, CancelPending, CancelCount, CancelResume, Within,
           Inside, missionVars
      <4> QED
        BY <1>2, <3>1, <4>1, <4>2
    <3> QED
      BY <3>1, <3>3, <3>4, <3>5 DEF Next, FcTakes, FcRefuses, Lose, vars, missionVars
  <2> QED
    BY <2>1, <2>2 DEF CrossInv
<1> QED
  BY <1>5, <1>6

\* What each thread holds and wants, where it holds one mutex and wants another.
LEMMA RecvWants ==
    ASSUME LocksOK, NEW m \in Mutexes, holder[m] = "recv", Wants("recv") \in Mutexes
    PROVE  \/ pc["recv"] = "answer" /\ m = "store" /\ Wants("recv") = "conn"
           \/ pc["recv"] = "snapshotStore" /\ m = "override" /\ Wants("recv") = "store"
<1>1. pc["recv"] \in RecvSteps /\ Holding(pc["recv"], m)
  BY DEF LocksOK, Threads, StepsOf
<1>2. pc["recv"] \in {"receive", "answer", "snapshotStore"}
  BY <1>1 DEF Holding, RecvSteps, ConnHeld, OverrideHeld, StoreHeld, FixupSteps, FixupSends
<1>3. pc["recv"] # "receive"
  BY DEF Wants, Mutexes, FixupSteps
<1>4. CASE pc["recv"] = "answer"
  BY <1>1, <1>4 DEF Wants, Holding, ConnHeld, OverrideHeld, FixupSteps, FixupSends
<1>5. CASE pc["recv"] = "snapshotStore"
  BY <1>1, <1>5 DEF Wants, Holding, ConnHeld, StoreHeld, FixupSteps, FixupSends
<1> QED
  BY <1>2, <1>3, <1>4, <1>5

\* What the UI thread can hold while it waits for another mutex.
LEMMA UiWants ==
    ASSUME LocksOK, NEW m \in Mutexes, holder[m] = "ui", Wants("ui") \in Mutexes
    PROVE  \/ pc["ui"] \in FixupSteps /\ m = "conn" /\ Wants("ui") = "store"
           \/ m = "override" /\ Wants("ui") = "store"
           \/ pc["ui"] = "cancelReset" /\ m = "store" /\ Wants("ui") = "override"
<1>1. pc["ui"] \in UiSteps /\ Holding(pc["ui"], m)
  BY DEF LocksOK, Threads, StepsOf
<1>2. CASE pc["ui"] \in FixupSteps
  BY <1>1, <1>2 DEF Wants, Holding, OverrideHeld, StoreHeld, FixupSteps
<1>3. CASE pc["ui"] \in FixupSends
  BY <1>3 DEF Wants, Mutexes, FixupSteps, FixupSends
<1>4. CASE pc["ui"] \in {"hoverStore", "waypointStore"}
  BY <1>1, <1>4 DEF Wants, Holding, ConnHeld, StoreHeld, FixupSteps, FixupSends
<1>5. CASE pc["ui"] = "cancelReset"
  BY <1>1, <1>5 DEF Wants, Holding, ConnHeld, OverrideHeld, FixupSteps, FixupSends
<1> QED
  BY <1>1, <1>2, <1>3, <1>4, <1>5
     DEF Holding, UiSteps, ConnHeld, OverrideHeld, StoreHeld

\* Of the pairs of sections only the fix-up and a request can block each other.
LEMMA CrossHere == TypeInv /\ SnapshotInv /\ CrossInv => OnlyFixupCrosses
<1> SUFFICES ASSUME TypeInv, SnapshotInv, CrossInv, CircularWait
             PROVE  pc["ui"] \in FixupSteps /\ pc["recv"] = "answer"
  BY DEF OnlyFixupCrosses
<1>1. LocksOK
  BY DEF TypeInv
<1>2. PICK m, n \in Mutexes : /\ holder[m] = "recv" /\ Wants("recv") = n
                              /\ holder[n] = "ui" /\ Wants("ui") = m
  BY DEF CircularWait, Threads
<1>3. \/ pc["recv"] = "answer" /\ m = "store" /\ n = "conn"
      \/ pc["recv"] = "snapshotStore" /\ m = "override" /\ n = "store"
  BY <1>1, <1>2, RecvWants
<1>4. \/ pc["ui"] \in FixupSteps /\ n = "conn" /\ m = "store"
      \/ n = "override" /\ m = "store"
      \/ pc["ui"] = "cancelReset" /\ n = "store" /\ m = "override"
  BY <1>1, <1>2, UiWants
<1>5. ~(pc["recv"] = "snapshotStore" /\ pc["ui"] = "cancelReset")
  BY DEF CrossInv, SnapshotInv, SnapshotInUse
<1> QED
  BY <1>3, <1>4, <1>5

\* Two threads block each other only where a MISSION_REQUEST is answered while
\* m fixes up the mission (recv.rs:183, ui_loop.rs:231-242).
THEOREM OneCircularWait == Spec => []OnlyFixupCrosses
<1>1. Init => CrossInv
  BY DEF Init, CrossInv, Threads
<1> QED
  BY <1>1, CrossInvNext, CrossHere, TypeInvariant, SnapshotInvariant, PTL DEF Spec
-----------------------------------------------------------------------------
(* What a resume finds: AUTO and MISSION_START are sent when the flight    *)
(* controller (FC) has the whole mission, as long as the resume met no     *)
(* other transfer and the link and the FC did their part.                  *)

\* No resume met another transfer, and nothing was lost or refused.
Clean == ~crossed /\ budget.faults = MaxFaults

\* The recv thread is at these steps with an ACK in hand.
AckInHand == pc["recv"] \in {"ack", "ackStore", "resumeDone"} => inHand.type = "ACK"

AckComes == inHand.type = "ACK" \/ \E f \in Elems(toGCS) : f.type = "ACK"

\* m goes on to a transfer of its own, and holds the connection.
FixupBegins == pc["ui"] \in {"fixAwait", "fixClear", "fixEndClear", "fixPending"}

\* A resume is about to send its count.
ResumeBegins == pc["ui"] = "cancelCount" \/ (pc["recv"] = "endCount" /\ ~FixupBegins)

\* The count is on its way to the FC, or the FC pulls items.
Transfers == Count \in Elems(toFC) \/ fc # NoSession

\* A transfer of m is one that is met.
FixupInv == /\ pc["ui"] \notin {"fixCount", "fixPoll", "fixAbandon"}
            /\ ClearAll \in Elems(toFC) => pc["ui"] \in {"fixEndClear", "fixPending"}

\* Until a resume sends its count nothing of a transfer is under way.
BeginInv == ResumeBegins => /\ ~Transfers /\ ~AckComes
                            /\ store.pending # "none"
                            /\ pc["recv"] # "resumeStart"
                            /\ ~(pc["ui"] = "cancelCount" /\ pc["recv"] = "endCount")

\* During a transfer there is one count, and no ACK before the end.
TransferInv == /\ Count \in Elems(toFC) => fc = NoSession /\ ~Ahead(toFC, Count, Count)
               /\ Transfers => /\ ~AckComes
                               /\ store.pending # "none"
                               /\ ~FixupBegins
                               /\ pc["recv"] # "resumeStart"

ResumeInv == AckInHand /\ (Clean => FixupInv /\ BeginInv /\ TransferInv)
-----------------------------------------------------------------------------
(* Frames and steps.                                                       *)

LEMMA FrameKinds ==
    /\ Count \notin {ClearAll, NoFrame} \cup {Item(i) : i \in Seqs}
    /\ ClearAll \notin {Item(i) : i \in Seqs}
    /\ Count.type = "COUNT" /\ ClearAll.type = "CLEAR_ALL"
    /\ \A i : Item(i).type = "ITEM" /\ Item(i).seq = i
    /\ \A i : Request(i).type # "ACK"
    /\ \A ok : Ack(ok).type = "ACK"
    /\ NoFrame.type # "ACK"
  BY DEF Count, ClearAll, Item, Request, Ack, NoFrame

LEMMA FcFrameKinds ==
    ASSUME NEW f \in FcFrames
    PROVE  f = ClearAll \/ f = Count \/ \E i \in Seqs : f = Item(i)
  BY DEF FcFrames
-----------------------------------------------------------------------------
(* What a step can do.                                                     *)

\* To the step of each thread.
LEMMA UiMoves ==
    ASSUME TypeInv, [Next]_vars
    PROVE  /\ pc'["ui"] = "cancelCount" => pc["ui"] = "cancelCount" \/ CancelPending
           /\ FixupBegins' => FixupBegins \/ (pc["ui"] = "fixBusy" /\ store.pending = "none")
           /\ FixupBegins => FixupBegins' \/ FixPending
           /\ pc'["ui"] \in {"fixCount", "fixPoll", "fixAbandon"} =>
                 pc["ui"] \in {"fixCount", "fixPoll", "fixAbandon"} \/ FixPending
           /\ pc["ui"] \in {"fixEndClear", "fixPending"} =>
                 pc'["ui"] \in {"fixEndClear", "fixPending"} \/ FixPending
<1>1. pc \in [Threads -> RecvSteps \cup UiSteps] /\ Threads = {"recv", "ui"}
  BY DEF TypeInv, LocksOK, Threads
<1> USE DEF FixupBegins
<1>2. CASE pc'["ui"] = pc["ui"]
  BY <1>2
<1>3. CASE RecvFrame \/ RecvStep
  BY <1>1, <1>2, <1>3 DEF RecvFrame, RecvTelemetry, RecvMission, Receives, RecvStep, RecvLock,
     RecvDownload, RecvItem, RecvAskNext, RecvCurrent, RecvRequest, RecvAnswer, RecvAck,
     RecvResumeDone, RecvResumeStart, RecvResumeEnd, RecvAckStore, RecvPosition, RecvSnapshot,
     RecvEndPending, RecvEndCount, RecvEnd, GoTo
<1>4. CASE Keys
  BY <1>1, <1>4 DEF Keys, KeyCommand, KeyStart, KeyInterrupt, KeyWaypoint, KeyCancel,
     WaypointEnter, WaypointEsc, GoTo
<1>5. CASE SendCommand \/ StartConn \/ FixCheck \/ Validate \/ HoverStore \/ WaypointStore
           \/ CancelReset \/ CancelPending \/ CancelCount \/ CancelResume
  BY <1>1, <1>5 DEF SendCommand, StartConn, FixCheck, Validate, HoverStore, WaypointStore, Snapshots,
     CancelReset, CancelPending, CancelCount, CancelResume, Fixup, FixupEnds, GoTo
<1>6. CASE FixBusy \/ FixAwait \/ FixClear \/ FixEndClear \/ FixPending \/ FixCount \/ FixPoll
           \/ FixAbandon
  BY <1>1, <1>6 DEF FixBusy, FixAwait, FixClear, FixEndClear, FixPending, FixCount, FixSend, FixPoll,
     FixAbandon, Fixup, FixupEnds, GoTo
<1> QED
  BY <1>2, <1>3, <1>4, <1>5, <1>6 DEF Next, UiStep, FcTakes, FcRefuses, Lose, vars

\* How the recv thread comes to the steps that end a resume or handle an ACK.
LEMMA RecvMoves ==
    ASSUME TypeInv, [Next]_vars
    PROVE  /\ pc'["recv"] = "endCount" => pc["recv"] = "endCount" \/ RecvEndPending
           /\ pc'["recv"] = "resumeStart" => pc["recv"] = "resumeStart" \/ RecvResumeDone
           /\ pc'["recv"] \in {"ack", "ackStore", "resumeDone"} =>
                 \/ pc["recv"] \in {"ack", "ackStore", "resumeDone"} /\ UNCHANGED inHand
                 \/ RecvMission /\ inHand'.type = "ACK"
<1>1. pc \in [Threads -> RecvSteps \cup UiSteps] /\ Threads = {"recv", "ui"}
  BY DEF TypeInv, LocksOK, Threads
<1>2. CASE pc'["recv"] = pc["recv"] /\ UNCHANGED inHand
  BY <1>2
<1>3. CASE RecvMission
  BY <1>1, <1>3 DEF RecvMission, Receives, GoTo
<1>4. CASE RecvAck
  BY <1>1, <1>4 DEF RecvAck, GoTo, linkVars
<1>5. CASE RecvTelemetry \/ (RecvStep /\ ~RecvAck)
  BY <1>1, <1>5 DEF RecvTelemetry, Receives, RecvStep, RecvLock,
     RecvDownload, RecvItem, RecvAskNext, RecvCurrent, RecvRequest, RecvAnswer,
     RecvResumeDone, RecvResumeStart, RecvResumeEnd, RecvAckStore, RecvPosition, RecvSnapshot,
     RecvEndPending, RecvEndCount, RecvEnd, GoTo
<1>6. CASE Keys \/ UiStep
  BY <1>1, <1>2, <1>6 DEF Keys, UiStep, KeyCommand, KeyStart, KeyInterrupt, KeyWaypoint, KeyCancel,
     WaypointEnter, WaypointEsc, SendCommand, StartConn, FixCheck, FixBusy, FixAwait, FixClear,
     FixEndClear, FixPending, FixCount, FixPoll, FixAbandon, Validate, HoverStore, WaypointStore,
     CancelReset, CancelPending, CancelCount, CancelResume, Fixup, FixupEnds, FixSend, Snapshots,
     GoTo, linkVars
<1> QED
  BY <1>2, <1>3, <1>4, <1>5, <1>6 DEF Next, RecvFrame, FcTakes, FcRefuses, Lose, vars

\* To the frames on their way to the FC: a thread sends at most one.
Sends(f) == \/ f \in {Item(i) : i \in Seqs}
            \/ f = Count /\ (CancelCount \/ RecvEndCount \/ FixCount)
            \/ f = ClearAll /\ FixClear

\* Whatever is newly on the way to the FC was sent in this step, and is behind the rest.
LEMMA ToFCNext ==
    ASSUME TypeInv, [Next]_vars
    PROVE  /\ \A f \in Elems(toFC') : f \in Elems(toFC) \/ Sends(f)
           /\ \A f, g : Ahead(toFC', f, g) =>
                 Ahead(toFC, f, g) \/ (f \in Elems(toFC) /\ Sends(g))
<1> DEFINE Goal == /\ \A f \in Elems(toFC') : f \in Elems(toFC) \/ Sends(f)
                   /\ \A f, g : Ahead(toFC', f, g) =>
                         Ahead(toFC, f, g) \/ (f \in Elems(toFC) /\ Sends(g))
<1>1. toFC \in Seq(FcFrames)
  BY DEF TypeInv, DataOK
<1>2. ASSUME UNCHANGED toFC PROVE Goal
  BY <1>2
<1>3. ASSUME toFC # << >>, toFC' = Tail(toFC) PROVE Goal
  BY <1>1, <1>3, QueueElems, QueueOrder
<1>4. ASSUME NEW x \in FcFrames, ToFC(x), Sends(x) PROVE Goal
  <2>1. Elems(toFC') = Elems(toFC) \cup {x}
    BY <1>1, <1>4, QueueElems DEF ToFC
  <2>2. \A f, g : Ahead(toFC', f, g) => Ahead(toFC, f, g) \/ (f \in Elems(toFC) /\ g = x)
    BY <1>1, <1>4, QueueOrder DEF ToFC
  <2> QED
    BY <1>4, <2>1, <2>2
<1>5. CASE RecvAnswer
  <2>1. PICK i \in Seqs : inHand.seq = i
    BY <1>5 DEF RecvAnswer, GoTo, TypeInv, InHandOK, Request
  <2>2. ToFC(Item(i)) \/ UNCHANGED toFC
    BY <1>5, <2>1 DEF RecvAnswer
  <2>3. Sends(Item(i))
    BY DEF Sends
  <2>4. Item(i) \in FcFrames
    BY FrameTypes
  <2> QED
    BY <1>2, <1>4, <2>2, <2>3, <2>4
<1>6. CASE CancelCount \/ RecvEndCount \/ FixCount
  <2>1. Sends(Count) /\ ToFC(Count)
    BY <1>6 DEF Sends, CancelCount, RecvEndCount, FixCount, FixSend
  <2> QED
    BY <1>4, <2>1, FrameTypes
<1>7. CASE FixClear
  <2>1. Sends(ClearAll) /\ ToFC(ClearAll)
    BY <1>7 DEF Sends, FixClear, FixSend
  <2> QED
    BY <1>4, <2>1, FrameTypes
<1>8. CASE FcTakes
  BY <1>3, <1>8 DEF FcTakes
<1>9. CASE FcRefuses \/ Lose
  BY <1>2, <1>3, <1>9 DEF FcRefuses, Lose
<1>10. CASE RecvFrame
  BY <1>2, <1>10 DEF RecvFrame, RecvTelemetry, RecvMission, Receives
<1>11. CASE RecvStep
  BY <1>2, <1>5, <1>6, <1>11 DEF RecvStep, RecvLock, RecvDownload, RecvItem, RecvAskNext,
     RecvCurrent, RecvRequest, RecvAck, RecvResumeDone, RecvResumeStart, RecvResumeEnd,
     RecvAckStore, RecvPosition, RecvSnapshot, RecvEndPending, RecvEnd, linkVars
<1>12. CASE Keys
  BY <1>2, <1>12 DEF Keys, KeyCommand, KeyStart, KeyInterrupt, KeyWaypoint, KeyCancel,
     WaypointEnter, WaypointEsc, linkVars
<1>13. CASE UiStep
  BY <1>2, <1>6, <1>7, <1>13 DEF UiStep, SendCommand, StartConn, FixCheck, FixBusy, FixAwait,
     FixEndClear, FixPending, FixPoll, FixAbandon, Validate, HoverStore,
     WaypointStore, Snapshots, CancelReset, CancelPending, CancelResume, linkVars
<1> QED
  BY <1>2, <1>8, <1>9, <1>10, <1>11, <1>12, <1>13 DEF Next, vars

\* To the session and the answers of the FC.
LEMMA FcNext ==
    ASSUME TypeInv, [Next]_vars
    PROVE  \/ fc' = fc /\ (AckComes' => AckComes)
           \/ FcRefuses
           \/ /\ FcTakes /\ Head(toFC) = ClearAll /\ fc' = fc
           \/ /\ FcTakes /\ Head(toFC) = Count /\ (AckComes' => AckComes)
           \/ /\ FcTakes /\ fc # NoSession
              /\ (fc' # NoSession => (AckComes' => AckComes))
<1>1. toFC \in Seq(FcFrames) /\ toGCS \in Seq(GcsFrames) /\ fc \in Seqs \cup {NoSession}
  BY DEF TypeInv, DataOK
<1>2. ASSUME UNCHANGED <<toGCS, inHand>> PROVE AckComes' => AckComes
  BY <1>2 DEF AckComes
<1>3. ASSUME UNCHANGED toGCS, inHand' = NoFrame PROVE AckComes' => AckComes
  BY <1>3, FrameKinds DEF AckComes
<1>4. CASE RecvMission
  <2>1. /\ Elems(toGCS) = {Head(toGCS)} \cup Elems(Tail(toGCS))
        /\ inHand' = Head(toGCS) /\ toGCS' = Tail(toGCS)
    BY <1>1, <1>4, QueueElems DEF RecvMission
  <2>2. AckComes' => AckComes
    BY <2>1 DEF AckComes
  <2> QED
    BY <1>4, <2>2 DEF RecvMission, Receives
<1>5. CASE RecvAnswer \/ RecvResumeDone \/ RecvAckStore
  BY <1>3, <1>5 DEF RecvAnswer, RecvResumeDone, RecvAckStore
<1>6. CASE Lose
  <2>1. Elems(toGCS') \subseteq Elems(toGCS)
    <3>1. Taken(toGCS, toGCS')
      BY <1>6 DEF Lose, Taken
    <3> QED
      BY <1>1, <3>1, TakenFacts
  <2>2. AckComes' => AckComes
    BY <1>6, <2>1 DEF AckComes, Lose
  <2> QED
    BY <1>6, <2>2 DEF Lose
<1>7. CASE FcTakes
  <2> DEFINE f == Head(toFC)
  <2>1. f \in FcFrames
    BY <1>1, <1>7, QueueTypes DEF FcTakes
  <2>2. CASE f = ClearAll
    <3>1. fc' = fc
      BY <1>7, <2>2, FrameKinds DEF FcTakes
    <3> QED
      BY <1>7, <2>2, <3>1
  <2>3. CASE f = Count
    <3>1. toGCS' = toGCS \o <<Request(0)>> /\ UNCHANGED inHand
      BY <1>7, <2>3, FrameKinds DEF FcTakes
    <3> DEFINE x == Request(0)
    <3>2. x \in GcsFrames /\ toGCS' = toGCS \o <<x>> /\ x.type # "ACK"
      BY <3>1, FrameTypes, FrameKinds
    <3> HIDE DEF x
    <3>4. Elems(toGCS') = Elems(toGCS) \cup {x}
      BY <1>1, <3>2, QueueConcat
    <3>3. AckComes' => AckComes
      BY <3>1, <3>2, <3>4 DEF AckComes
    <3> QED
      BY <1>7, <2>3, <3>3
  <2>4. ASSUME NEW i \in Seqs, f = Item(i), i # fc
        PROVE  fc' = fc /\ UNCHANGED <<toGCS, inHand>>
    <3>1. fc' = fc /\ toGCS' = toGCS \o << >> /\ UNCHANGED inHand
      BY <1>7, <2>4, FrameKinds DEF FcTakes
    <3> QED
      BY <1>1, <3>1
  <2>5. ASSUME NEW i \in Seqs, f = Item(i), i = fc
        PROVE  fc # NoSession /\ (fc' # NoSession => (AckComes' => AckComes))
    <3>1. fc # NoSession /\ fc \in Nat /\ fc < Length
      BY <2>5, BoundsAssumption DEF Seqs, NoSession
    <3>2. CASE fc + 1 < Length
      <4> DEFINE x == Request(fc + 1)
      <4>1. toGCS' = toGCS \o <<x>> /\ UNCHANGED inHand
        <5>1. fc + 1 # Length
          BY <3>1, <3>2, BoundsAssumption
        <5>2. f.type = "ITEM" /\ f.seq = fc
          BY <2>5, FrameKinds
        <5> QED
          BY <1>7, <3>2, <5>1, <5>2 DEF FcTakes
      <4>2. fc + 1 \in Seqs
        BY <3>1, <3>2, BoundsAssumption DEF Seqs
      <4>3. x \in GcsFrames /\ x.type # "ACK"
        BY <4>2, FrameTypes, FrameKinds
      <4> HIDE DEF x
      <4>4. Elems(toGCS') = Elems(toGCS) \cup {x}
        BY <1>1, <4>1, <4>3, QueueConcat
      <4>5. AckComes' => AckComes
        BY <4>1, <4>3, <4>4 DEF AckComes
      <4> QED
        BY <3>1, <4>5
    <3>3. CASE ~(fc + 1 < Length)
      <4>1. fc + 1 = Length
        BY <3>1, <3>3, BoundsAssumption
      <4>2. fc' = NoSession
        BY <1>7, <2>5, <3>3, <4>1, FrameKinds DEF FcTakes
      <4> QED
        BY <3>1, <4>2
    <3> QED
      BY <3>2, <3>3
  <2> QED
    BY <1>2, <1>7, <2>1, <2>2, <2>3, <2>4, <2>5, FcFrameKinds
<1>8. CASE UNCHANGED <<fc, toGCS, inHand>>
  BY <1>2, <1>8
<1>9. CASE RecvTelemetry
  BY <1>8, <1>9 DEF RecvTelemetry, Receives
<1>10. CASE RecvStep
  BY <1>5, <1>8, <1>10 DEF RecvStep, RecvLock, RecvDownload, RecvItem, RecvAskNext,
     RecvCurrent, RecvRequest, RecvAck, RecvResumeStart, RecvResumeEnd,
     RecvPosition, RecvSnapshot, RecvEndPending, RecvEndCount, RecvEnd, linkVars
<1>11. CASE Keys
  BY <1>8, <1>11 DEF Keys, KeyCommand, KeyStart, KeyInterrupt, KeyWaypoint, KeyCancel,
     WaypointEnter, WaypointEsc, linkVars
<1>12. CASE UiStep
  BY <1>8, <1>12 DEF UiStep, SendCommand, StartConn, FixCheck, FixBusy, FixAwait, FixClear, FixCount,
     FixSend, FixEndClear, FixPending, FixPoll, FixAbandon, Validate, HoverStore,
     WaypointStore, Snapshots, CancelReset, CancelPending, CancelCount, CancelResume, linkVars
<1> QED
  BY <1>4, <1>6, <1>7, <1>8, <1>9, <1>10, <1>11, <1>12 DEF Next, RecvFrame, vars

\* To the upload that is pending: only its end forgets it.
LEMMA PendingNext ==
    ASSUME TypeInv, SnapshotInv, [Next]_vars, store.pending # "none"
    PROVE  store'.pending # "none" \/ RecvResumeDone \/ RecvAckStore \/ FixAbandon
<1>1. store \in StoreTypes
  BY DEF TypeInv, DataOK, StoreTypes
<1>2. CASE UNCHANGED store
  BY <1>2
<1>3. CASE RecvItem \/ RecvCurrent \/ RecvAnswer \/ FixAwait \/ FixEndClear
  BY <1>1, <1>3 DEF RecvItem, RecvCurrent, RecvAnswer, FixAwait, FixEndClear, StoreTypes
<1>4. ASSUME NEW list, SetUploadPending(list) PROVE store'.pending = list
  BY <1>1, <1>4 DEF SetUploadPending, StoreTypes
<1>5. CASE FixPending
  BY <1>4, <1>5 DEF FixPending
<1>6. CASE RecvEndPending \/ CancelPending
  <2>1. store.snapshot # "none"
    BY <1>6 DEF RecvEndPending, CancelPending, GoTo, SnapshotInv, SnapshotInUse, HasSnapshot
  <2> QED
    BY <1>4, <1>6, <2>1 DEF RecvEndPending, CancelPending, SetResumePending
<1>7. CASE HoverStore \/ WaypointStore
  BY <1>1, <1>7 DEF HoverStore, WaypointStore, Snapshots, EnsureSnapshot, StoreTypes
<1>8. CASE RecvStep
  BY <1>2, <1>3, <1>6, <1>8 DEF RecvStep, RecvLock, RecvDownload,
     RecvAskNext, RecvRequest, RecvAck, RecvResumeStart, RecvResumeEnd, RecvPosition,
     RecvSnapshot, RecvEndCount, RecvEnd, missionVars
<1>9. CASE Keys
  BY <1>2, <1>9 DEF Keys, KeyCommand, KeyStart, KeyInterrupt, KeyWaypoint, KeyCancel,
     WaypointEnter, WaypointEsc, missionVars
<1>10. CASE UiStep
  BY <1>2, <1>3, <1>5, <1>6, <1>7, <1>10 DEF UiStep, SendCommand, StartConn, FixCheck, FixBusy,
     FixClear, FixCount, FixSend, FixPoll, Validate, CancelReset, CancelCount, CancelResume,
     missionVars
<1>11. CASE RecvFrame \/ FcTakes \/ FcRefuses \/ Lose \/ UNCHANGED vars
  BY <1>2, <1>11 DEF RecvFrame, RecvTelemetry, RecvMission, Receives, FcTakes, FcRefuses, Lose,
     vars, missionVars
<1> QED
  BY <1>8, <1>9, <1>10, <1>11 DEF Next

\* A meeting of transfers is not forgotten.
LEMMA CrossedGrows == [Next]_vars /\ crossed => crossed'
<1> SUFFICES ASSUME [Next]_vars, crossed PROVE crossed'
  OBVIOUS
<1>1. CASE UNCHANGED crossed
  BY <1>1
<1>2. CASE RecvResumeDone \/ RecvAckStore \/ RecvEndPending \/ FixPending \/ CancelPending
  BY <1>2 DEF RecvResumeDone, RecvAckStore, RecvEndPending, FixPending, CancelPending, SetResumePending
<1>3. CASE RecvFrame
  BY <1>1, <1>3 DEF RecvFrame, RecvTelemetry, RecvMission, Receives, missionVars
<1>4. CASE RecvStep
  BY <1>1, <1>2, <1>4 DEF RecvStep, RecvLock, RecvDownload, RecvItem, RecvAskNext, RecvCurrent,
     RecvRequest, RecvAnswer, RecvAck, RecvResumeStart, RecvResumeEnd, RecvPosition, RecvSnapshot,
     RecvEndCount, RecvEnd, missionVars
<1>5. CASE Keys
  BY <1>1, <1>5 DEF Keys, KeyCommand, KeyStart, KeyInterrupt, KeyWaypoint, KeyCancel,
     WaypointEnter, WaypointEsc, missionVars
<1>6. CASE UiStep
  BY <1>1, <1>2, <1>6 DEF UiStep, SendCommand, StartConn, FixCheck, FixBusy, FixAwait, FixClear,
     FixEndClear, FixCount, FixSend, FixPoll, FixAbandon, Validate, HoverStore,
     WaypointStore, Snapshots, CancelReset, CancelCount, CancelResume, missionVars
<1>7. CASE FcTakes \/ FcRefuses \/ Lose \/ UNCHANGED vars
  BY <1>1, <1>7 DEF FcTakes, FcRefuses, Lose, vars, missionVars
<1> QED
  BY <1>3, <1>4, <1>5, <1>6, <1>7 DEF Next

\* To the history.
LEMMA CleanNext ==
    ASSUME TypeInv, [Next]_vars, Clean'
    PROVE  /\ Clean /\ ~FixPending /\ ~FcRefuses /\ ~Lose
           /\ RecvEndPending \/ CancelPending => ~MissionInTransfer
           /\ RecvResumeDone => pc["ui"] # "cancelResume"
<1>1. ~crossed' /\ budget'.faults = MaxFaults
  BY DEF Clean
<1>2. budget \in [keys : 0 .. MaxKeys, faults : 0 .. MaxFaults]
  BY DEF TypeInv, DataOK
<1>3. ~FixPending
  BY <1>1 DEF FixPending
<1>4. Fault => budget'.faults = budget.faults - 1
  BY <1>2 DEF Fault
<1>5. ~FcRefuses /\ ~Lose
  <2>1. budget.faults \in 0 .. MaxFaults
    BY <1>2
  <2>2. budget.faults - 1 # MaxFaults
    BY <2>1, BoundsAssumption
  <2> QED
    BY <1>1, <1>4, <2>2 DEF FcRefuses, Lose
<1>6. budget'.faults = budget.faults
  <2>1. Press => budget'.faults = budget.faults
    BY <1>2 DEF Press
  <2>2. Keys => Press \/ UNCHANGED budget
    BY DEF Keys, KeyCommand, KeyStart, KeyInterrupt, KeyWaypoint, KeyCancel, WaypointEnter, WaypointEsc
  <2>3. RecvFrame \/ RecvStep => UNCHANGED budget
    BY DEF RecvFrame, RecvTelemetry, RecvMission, Receives, RecvStep, RecvLock,
       RecvDownload, RecvItem, RecvAskNext, RecvCurrent, RecvRequest, RecvAnswer, RecvAck,
       RecvResumeDone, RecvResumeStart, RecvResumeEnd, RecvAckStore, RecvPosition, RecvSnapshot,
       RecvEndPending, RecvEndCount, RecvEnd
  <2>4. UiStep => UNCHANGED budget
    BY DEF UiStep, SendCommand, StartConn, FixCheck, FixBusy, FixAwait, FixClear,
       FixEndClear, FixPending, FixCount, FixSend, FixPoll, FixAbandon, Validate, HoverStore,
       WaypointStore, Snapshots, CancelReset, CancelPending, CancelCount, CancelResume
  <2> QED
    BY <1>5, <2>1, <2>2, <2>3, <2>4 DEF Next, FcTakes, vars
<1>7. SetResumePending => ~crossed /\ ~MissionInTransfer
  BY <1>1 DEF SetResumePending
<1>8. ~crossed
  BY <1>1, CrossedGrows
<1> QED
  BY <1>1, <1>3, <1>5, <1>6, <1>7, <1>8 DEF Clean, RecvEndPending, CancelPending, RecvResumeDone
-----------------------------------------------------------------------------
(* The resume.                                                             *)

\* What ends an upload in the store has an ACK in hand, or is of m.
LEMMA EndsOnAck ==
    ASSUME ResumeInv, Clean, RecvResumeDone \/ RecvAckStore \/ FixAbandon
    PROVE  AckComes
<1>1. ~FixAbandon
  BY DEF ResumeInv, FixupInv, FixAbandon, FixupEnds, GoTo
<1> QED
  BY <1>1 DEF ResumeInv, AckInHand, AckComes, RecvResumeDone, RecvAckStore, GoTo

\* The parts of ResumeInv: a transfer of m is one that is met, ...
LEMMA FixupNext == TypeInv /\ ResumeInv /\ [Next]_vars /\ Clean' => FixupInv'
<1> SUFFICES ASSUME TypeInv, ResumeInv, [Next]_vars, Clean' PROVE FixupInv'
  OBVIOUS
<1>1. FixupInv /\ ~FixPending
  BY CleanNext DEF ResumeInv
<1>2. pc'["ui"] \notin {"fixCount", "fixPoll", "fixAbandon"}
  BY <1>1, UiMoves DEF FixupInv
<1>3. ASSUME ClearAll \in Elems(toFC') PROVE pc'["ui"] \in {"fixEndClear", "fixPending"}
  <2>1. CASE ClearAll \in Elems(toFC)
    BY <1>1, <2>1, UiMoves DEF FixupInv
  <2>2. CASE FixClear
    BY <2>2 DEF FixClear, FixSend, GoTo, TypeInv, LocksOK, Threads
  <2>3. ClearAll \in Elems(toFC) \/ FixClear
    BY <1>3, ToFCNext, FrameKinds DEF Sends
  <2> QED
    BY <2>1, <2>2, <2>3
<1> QED
  BY <1>2, <1>3 DEF FixupInv

\* Without a transfer no ACK comes but of the clear of m.
LEMMA NoAckNext ==
    ASSUME TypeInv, ResumeInv, [Next]_vars, Clean', ~AckComes, ~FixupBegins,
           fc # NoSession => fc' # NoSession
    PROVE  ~AckComes'
<1>1. FixupInv /\ ~FcRefuses
  BY CleanNext DEF ResumeInv
<1>2. FcTakes => Head(toFC) # ClearAll
  <2>1. FcTakes => Head(toFC) \in Elems(toFC)
    BY QueueElems DEF FcTakes, TypeInv, DataOK
  <2> QED
    BY <1>1, <2>1 DEF FixupInv, FixupBegins
<1> QED
  BY <1>1, <1>2, FcNext

\* ... a resume begins with nothing of a transfer under way, ...
LEMMA BeginNext == TypeInv /\ SnapshotInv /\ ResumeInv /\ [Next]_vars /\ Clean' => BeginInv'
<1> SUFFICES ASSUME TypeInv, SnapshotInv, ResumeInv, [Next]_vars, Clean', ResumeBegins' PROVE BeginInv'
  BY DEF BeginInv
<1> DEFINE Nothing == /\ ~Transfers /\ ~AckComes
                      /\ store.pending # "none" \/ RecvEndPending \/ CancelPending
                      /\ pc["recv"] # "resumeStart" /\ ~FixupBegins
                      /\ ~(pc["ui"] = "cancelCount" /\ pc["recv"] = "endCount")
<1>1. Clean /\ FixupInv /\ BeginInv /\ TransferInv
  BY CleanNext DEF ResumeInv
<1>2. pc \in [Threads -> RecvSteps \cup UiSteps] /\ Threads = {"recv", "ui"}
  BY DEF TypeInv, LocksOK, Threads
\* It begins with this step, while nothing is transferred, or has begun.
<1>3. CASE RecvEndPending \/ CancelPending
  <2>1. ~MissionInTransfer
    BY <1>3, CleanNext
  <2>2. /\ store.pending = "none" /\ toGCS = << >> /\ inHand = NoFrame /\ fc = NoSession
        /\ pc["ui"] # "cancelCount" /\ pc["recv"] \notin {"endCount", "resumeStart"}
    BY <2>1 DEF MissionInTransfer, Busy
  <2>3. ~Transfers /\ ~AckComes
    BY <1>1, <2>2, FrameKinds DEF TransferInv, Transfers, AckComes, Elems
  <2>4. UNCHANGED <<fc, toFC, toGCS, inHand>>
    BY <1>3 DEF RecvEndPending, CancelPending, linkVars
  <2>5. ~Transfers' /\ ~AckComes'
    BY <2>3, <2>4 DEF Transfers, AckComes
  <2>6. store'.pending # "none"
    <3>1. store \in StoreTypes
      BY DEF TypeInv, DataOK, StoreTypes
    <3>2. store.snapshot # "none"
      BY <1>3 DEF RecvEndPending, CancelPending, GoTo, SnapshotInv, SnapshotInUse, HasSnapshot
    <3> QED
      BY <1>3, <3>1, <3>2
         DEF RecvEndPending, CancelPending, SetResumePending, SetUploadPending, StoreTypes
  <2>7. pc'["recv"] # "resumeStart" /\ ~(pc'["ui"] = "cancelCount" /\ pc'["recv"] = "endCount")
    BY <1>2, <1>3, <2>2 DEF RecvEndPending, CancelPending, GoTo
  <2> QED
    BY <2>5, <2>6, <2>7 DEF BeginInv
<1>4. CASE ~RecvEndPending /\ ~CancelPending
  <2>1. ResumeBegins
    BY <1>4, CleanNext, UiMoves, RecvMoves DEF ResumeBegins
  <2>2. /\ ~Transfers /\ ~AckComes /\ store.pending # "none" /\ pc["recv"] # "resumeStart"
        /\ ~(pc["ui"] = "cancelCount" /\ pc["recv"] = "endCount")
    BY <1>1, <2>1 DEF BeginInv
  <2>3. ~FixupBegins
    BY <2>1 DEF ResumeBegins, FixupBegins
  <2>4. ~RecvResumeDone /\ ~RecvAckStore /\ ~FixAbandon
    BY <1>1, <2>2, EndsOnAck
  <2>5. store'.pending # "none"
    BY <2>2, <2>4, PendingNext
  <2>6. ~AckComes'
    BY <2>2, <2>3, NoAckNext DEF Transfers
  <2>7. pc'["recv"] # "resumeStart" /\ ~(pc'["ui"] = "cancelCount" /\ pc'["recv"] = "endCount")
    BY <1>4, <2>2, <2>4, UiMoves, RecvMoves
  <2>8. ~CancelCount /\ ~RecvEndCount /\ ~FixCount
    <3>1. ~FixCount
      BY <1>1 DEF FixupInv, FixCount, FixSend, GoTo
    <3>2. CancelCount => ~ResumeBegins'
      BY <1>2, <2>2 DEF CancelCount, GoTo, ResumeBegins
    <3>3. RecvEndCount => ~ResumeBegins'
      BY <1>2, <2>2 DEF RecvEndCount, GoTo, ResumeBegins
    <3> QED
      BY <3>1, <3>2, <3>3
  <2>9. ~Transfers'
    <3>1. Count \notin Elems(toFC')
      BY <2>2, <2>8, ToFCNext, FrameKinds DEF Sends, Transfers
    <3>2. FcTakes => Head(toFC) \in Elems(toFC)
      BY QueueElems DEF FcTakes, TypeInv, DataOK
    <3>3. fc' = NoSession
      BY <2>2, <3>2, FcNext, CleanNext DEF Transfers
    <3> QED
      BY <3>1, <3>3 DEF Transfers
  <2> QED
    BY <2>5, <2>6, <2>7, <2>9 DEF BeginInv
<1> QED
  BY <1>3, <1>4

\* ... and while it lasts no ACK comes.
LEMMA TransferNext == TypeInv /\ SnapshotInv /\ ResumeInv /\ [Next]_vars /\ Clean' => TransferInv'
<1> SUFFICES ASSUME TypeInv, SnapshotInv, ResumeInv, [Next]_vars, Clean' PROVE TransferInv'
  OBVIOUS
<1>1. Clean /\ FixupInv /\ BeginInv /\ TransferInv /\ ~FcRefuses
  BY CleanNext DEF ResumeInv
<1>2. pc \in [Threads -> RecvSteps \cup UiSteps] /\ Threads = {"recv", "ui"}
  BY DEF TypeInv, LocksOK, Threads
<1>3. ~FixCount
  BY <1>1 DEF FixupInv, FixCount, FixSend, GoTo
<1>4. RecvEndCount => ResumeBegins
  <2>1. RecvEndCount => holder["conn"] = "free" /\ pc["recv"] = "endCount"
    BY DEF RecvEndCount, Within, GoTo
  <2>2. FixupBegins => holder["conn"] = "ui"
    BY <1>2 DEF FixupBegins, TypeInv, LocksOK, Holding, ConnHeld, FixupSteps, FixupSends, Mutexes
  <2> QED
    BY <2>1, <2>2 DEF ResumeBegins
<1>5. CancelCount => ResumeBegins
  BY DEF CancelCount, GoTo, ResumeBegins
<1>6. FcTakes => /\ Head(toFC) \in Elems(toFC) /\ toFC' = Tail(toFC)
                 /\ \A g \in Elems(Tail(toFC)) : Ahead(toFC, Head(toFC), g)
  BY QueueElems, QueueOrder DEF FcTakes, TypeInv, DataOK
<1>7. ASSUME Count \in Elems(toFC') PROVE fc' = NoSession /\ ~Ahead(toFC', Count, Count)
  <2>1. CASE Count \in Elems(toFC)
    <3>1. fc = NoSession /\ ~Ahead(toFC, Count, Count) /\ ~ResumeBegins
      BY <1>1, <2>1 DEF TransferInv, BeginInv, Transfers
    <3>2. ~CancelCount /\ ~RecvEndCount
      BY <1>4, <1>5, <3>1
    <3>3. ~Ahead(toFC', Count, Count)
      BY <1>3, <3>1, <3>2, ToFCNext, FrameKinds DEF Sends
    <3>4. FcTakes => Head(toFC) # Count
      BY <1>6, <1>7, <3>1
    <3>5. fc' = NoSession
      BY <1>1, <3>1, <3>4, FcNext
    <3> QED
      BY <3>3, <3>5
  <2>2. CASE Count \notin Elems(toFC)
    <3>1. CancelCount \/ RecvEndCount
      BY <1>3, <1>7, <2>2, ToFCNext, FrameKinds DEF Sends
    <3>2. fc = NoSession /\ UNCHANGED fc
      BY <1>1, <1>4, <1>5, <3>1 DEF BeginInv, Transfers, CancelCount, RecvEndCount
    <3>3. ~Ahead(toFC, Count, Count)
      BY <2>2 DEF Ahead, Elems
    <3> QED
      BY <2>2, <3>2, <3>3, ToFCNext
  <2> QED
    BY <2>1, <2>2
<1>8. ASSUME Transfers'
      PROVE  /\ ~AckComes' /\ store'.pending # "none" /\ ~FixupBegins' /\ pc'["recv"] # "resumeStart"
  <2>1. Transfers \/ CancelCount \/ RecvEndCount
    <3>1. Count \in Elems(toFC') => Count \in Elems(toFC) \/ CancelCount \/ RecvEndCount
      BY <1>3, ToFCNext, FrameKinds DEF Sends
    <3>2. fc' # NoSession => Transfers
      BY <1>1, <1>6, FcNext DEF Transfers, FixupInv
    <3> QED
      BY <1>8, <3>1, <3>2 DEF Transfers
  <2>2. /\ ~AckComes /\ store.pending # "none" /\ pc["recv"] # "resumeStart"
        /\ ~FixupBegins
    <3>1. CASE Transfers
      BY <1>1, <3>1 DEF TransferInv
    <3>2. CASE ResumeBegins
      <4>1. ~FixupBegins
        BY <3>2 DEF ResumeBegins, FixupBegins
      <4> QED
        BY <1>1, <3>2, <4>1 DEF BeginInv
    <3> QED
      BY <1>4, <1>5, <2>1, <3>1, <3>2
  <2>3. ~RecvResumeDone /\ ~RecvAckStore /\ ~FixAbandon
    BY <1>1, <2>2, EndsOnAck
  <2>4. store'.pending # "none" /\ pc'["recv"] # "resumeStart"
    BY <2>2, <2>3, PendingNext, RecvMoves
  <2>5. ~FixupBegins'
    BY <2>2, UiMoves
  <2>6. ~AckComes'
    <3>1. fc # NoSession => fc' # NoSession
      <4>1. ASSUME fc # NoSession, fc' = NoSession PROVE FALSE
        <5>1. Count \in Elems(toFC')
          BY <1>8, <4>1 DEF Transfers
        <5>2. Count \notin Elems(toFC) /\ ~ResumeBegins
          BY <1>1, <4>1 DEF TransferInv, BeginInv, Transfers
        <5> QED
          BY <1>3, <1>4, <1>5, <5>1, <5>2, ToFCNext, FrameKinds DEF Sends
      <4> QED
        BY <4>1
    <3> QED
      BY <2>2, <3>1, NoAckNext
  <2> QED
    BY <2>4, <2>5, <2>6
<1> QED
  BY <1>7, <1>8 DEF TransferInv

LEMMA ResumeNext == TypeInv /\ SnapshotInv /\ ResumeInv /\ [Next]_vars => ResumeInv'
<1> SUFFICES ASSUME TypeInv, SnapshotInv, ResumeInv, [Next]_vars PROVE ResumeInv'
  OBVIOUS
<1>1. AckInHand'
  BY RecvMoves DEF ResumeInv, AckInHand
<1> QED
  BY <1>1, FixupNext, BeginNext, TransferNext DEF ResumeInv

LEMMA ResumeInit == Init => ResumeInv
<1> SUFFICES ASSUME Init PROVE ResumeInv
  OBVIOUS
<1>1. /\ pc["recv"] = "top" /\ pc["ui"] = "idle" /\ fc = NoSession
      /\ Elems(toFC) = {}
  BY DEF Init, Elems, Threads
<1> QED
  BY <1>1 DEF ResumeInv, AckInHand, FixupInv, BeginInv, ResumeBegins, TransferInv, Transfers

\* AUTO and MISSION_START of a resume are sent when the FC has the whole mission,
\* as long as the resume met no other transfer, the link lost nothing and the FC
\* refused nothing: until then there is no ACK the recv thread could mistake for
\* the one of the resume (src/src/bin/tui/recv.rs, ui_loop.rs).
THEOREM ResumesWithTheMission == Spec => []ResumesWhatFcHas
<1>1. Spec => [](TypeInv /\ ResumeInv)
  BY ResumeInit, ResumeNext, TypeInvariant, SnapshotInvariant, PTL DEF Spec
<1>2. TypeInv /\ ResumeInv => ResumesWhatFcHas
  <2> SUFFICES ASSUME TypeInv, ResumeInv, pc["recv"] = "resumeStart", ~crossed,
                      ~(budget.faults < MaxFaults)
               PROVE  fc = NoSession /\ Count \notin {toFC[i] : i \in DOMAIN toFC}
    BY DEF ResumesWhatFcHas
  <2>1. budget.faults = MaxFaults
    <3>1. budget.faults \in 0 .. MaxFaults
      BY DEF TypeInv, DataOK
    <3> QED
      BY <3>1, BoundsAssumption
  <2>2. ~Transfers
    BY <2>1 DEF ResumeInv, Clean, TransferInv
  <2>3. Elems(toFC) = {toFC[i] : i \in DOMAIN toFC}
    <3>1. DOMAIN toFC = 1 .. Len(toFC)
      BY DEF TypeInv, DataOK
    <3> QED
      BY <3>1 DEF Elems
  <2> QED
    BY <2>2, <2>3 DEF Transfers
<1> QED
  BY <1>1, <1>2, PTL
=============================================================================
