-------------------------- MODULE MissionTransfer ---------------------------
(***************************************************************************)
(* Mission upload and clear: the HTTP workers that run                     *)
(* upload_mission_items and mission_clear (src/src/mission_upload.rs), the *)
(* MAVLink recv thread that answers the flight controller's requests and   *)
(* takes its acknowledgements (src/src/mavlink_http_runtime.rs), and the   *)
(* flight controller itself at the other end of a link that keeps order    *)
(* and may lose frames.                                                    *)
(*                                                                         *)
(* A worker takes the store lock and the override lock several times in    *)
(* one upload and sends between; each such section is one action, so that  *)
(* the recv thread and the other workers run between any two of them.  The *)
(* recv thread handles a frame with the store lock held from the test to   *)
(* the last assignment, so one frame is one action.                        *)
(***************************************************************************)
EXTENDS MissionStore, Sequences

CONSTANTS Workers,        \* threads that serve an upload or a clear
          MaxJobs,        \* bound: uploads and clears started
          MaxLoss,        \* bound: frames the link loses
          MaxRetries,     \* bound: requests the FC repeats
          SendMayFail,    \* a send may return an error
          FcMayReject,    \* the FC may reject a count or an item
          PollMayTimeOut, \* a polling loop may run out
          PollMayRace     \* ... before the FC's own, shorter timeout

ASSUME BoundsAssumption == /\ MaxJobs \in Nat
                           /\ MaxLoss \in Nat
                           /\ MaxRetries \in Nat
ASSUME SwitchAssumption == /\ SendMayFail \in BOOLEAN
                           /\ FcMayReject \in BOOLEAN
                           /\ PollMayTimeOut \in BOOLEAN
                           /\ PollMayRace \in BOOLEAN

VARIABLES store,     \* Arc<Mutex<MissionStore>>
          override,  \* Arc<Mutex<HttpOverrideState>>
          pc,        \* the step each worker is at
          job,       \* the mission each worker uploads
          result,    \* what each worker's last call returned
          toFC,      \* frames on the way to the flight controller
          toGCS,     \* frames on the way to the recv thread
          fc,        \* the flight controller's mission and upload session
          budget     \* jobs, losses and retries left

vars == <<store, override, pc, job, result, toFC, toGCS, fc, budget>>
workerVars == <<pc, job, result>>
-----------------------------------------------------------------------------
(* Frames.  The FC numbers its requests; an ACK carries accepted or not.   *)

ClearAll == [type |-> "CLEAR_ALL"]
Count(n) == [type |-> "COUNT", count |-> n]
Item(i, m) == [type |-> "ITEM", seq |-> i, mission |-> m]
Request(i) == [type |-> "REQUEST", seq |-> i]
Ack(ok) == [type |-> "ACK", accepted |-> ok]

FcFrames == {ClearAll} \cup {Count(n) : n \in 1 .. MaxSize}
                \cup {Item(i, m) : i \in Seqs, m \in Missions}
GcsFrames == {Request(i) : i \in Seqs} \cup {Ack(ok) : ok \in BOOLEAN}

\* The override states that uploads and clears read and write; pause, resume
\* and inject bring in the others, and nothing on this path sets Resuming.
OverrideStates == {"MissionRunning", "Uploading"}

UploadSteps == {"claimOverride", "awaitClear", "sendClear", "pollClear",
                "endClear", "setPending", "sendCount", "pollAck",
                "abandon", "release"}
ClearSteps == {"clearOverride", "clearSend", "clearLocal"}
Results == {"none", "ok", "cleared", "busy", "rejected", "timedOut",
            "sendError"}
FcStates == [items : ItemLists, count : 0 .. MaxSize, next : Seqs]

\* Every worker is at a step, with a mission in hand while it uploads.
WorkersOK == /\ pc \in [Workers -> {"idle"} \cup UploadSteps \cup ClearSteps]
             /\ job \in [Workers -> Missions \cup {NoMission}]
             /\ \A w \in Workers : pc[w] \in UploadSteps => job[w] \in Missions
             /\ result \in [Workers -> Results]

\* Type invariant: every variable keeps the shape of the Rust value it stands
\* for (MissionStore, HttpOverrideState, the frames of the handshake), and only
\* items of a real mission and requests for a real slot are ever sent.
TypeOK == /\ store \in Stores
          /\ override \in OverrideStates
          /\ WorkersOK
          /\ toFC \in Seq(FcFrames)
          /\ toGCS \in Seq(GcsFrames)
          /\ fc \in FcStates
          /\ budget \in [jobs : Nat, loss : Nat, retries : Nat]

Init == /\ store = DefaultStore
        /\ override = "MissionRunning"
        /\ pc = [w \in Workers |-> "idle"]
        /\ job = [w \in Workers |-> NoMission]
        /\ result = [w \in Workers |-> "none"]
        /\ toFC = << >>
        /\ toGCS = << >>
        /\ fc = [items |-> NoItems, count |-> 0, next |-> 0]
        /\ budget = [jobs |-> MaxJobs, loss |-> MaxLoss, retries |-> MaxRetries]
-----------------------------------------------------------------------------
(* upload_mission_items, one action for each lock section and each send.   *)

GoTo(w, from, to) == pc[w] = from /\ pc' = [pc EXCEPT ![w] = to]

\* Return outcome r from the step called from.
Return(w, from, r) == /\ GoTo(w, from, "idle")
                      /\ result' = [result EXCEPT ![w] = r]
                      /\ UNCHANGED job

\* GoTo inside a call that does not return yet.
Continue(w, from, to) == GoTo(w, from, to) /\ UNCHANGED <<job, result>>

\* A new call enters its first check of the store.
Enter(w) == /\ pc[w] = "idle"
            /\ budget.jobs > 0
            /\ budget' = [budget EXCEPT !.jobs = @ - 1]

StartUpload(w, m) == /\ Enter(w)
                     /\ store.pending = NoMission
                     /\ GoTo(w, "idle", "claimOverride")
                     /\ job' = [job EXCEPT ![w] = m]
                     /\ result' = [result EXCEPT ![w] = "none"]
                     /\ UNCHANGED <<store, override, toFC, toGCS, fc>>

\* Both calls refuse while another upload is pending.
RefuseBusy(w) == /\ Enter(w)
                 /\ store.pending # NoMission
                 /\ Return(w, "idle", "busy")
                 /\ UNCHANGED <<store, override, toFC, toGCS, fc>>

\* The override state is not looked at: an upload may claim it from another.
ClaimOverride(w) == /\ Continue(w, "claimOverride", "awaitClear")
                    /\ override' = "Uploading"
                    /\ UNCHANGED <<store, toFC, toGCS, fc, budget>>

AwaitClear(w) == /\ Continue(w, "awaitClear", "sendClear")
                 /\ store' = [store EXCEPT !.awaitingClear = TRUE]
                 /\ UNCHANGED <<override, toFC, toGCS, fc, budget>>

SendClear(w) == /\ Continue(w, "sendClear", "pollClear")
                /\ toFC' = Append(toFC, ClearAll)
                /\ UNCHANGED <<store, override, toGCS, fc, budget>>

\* The error returns at once: awaiting_clear_ack and Uploading stay set.
SendClearFails(w) == /\ SendMayFail
                     /\ Return(w, "sendClear", "sendError")
                     /\ UNCHANGED <<store, override, toFC, toGCS, fc, budget>>

Receiving == fc.count > 0

\* The polls run out, after 5 s for the clear and 30 s for the upload.  Unless
\* PollMayRace, what was on the link has arrived and the FC, which drops a
\* silent session after some seconds, has none open.
PollsRunOut == /\ PollMayTimeOut
               /\ \/ PollMayRace
                  \/ toFC = << >> /\ toGCS = << >> /\ ~Receiving

\* Mutant of PollClear: the loop has no bound.
PollClearForever(w) == /\ ~store.awaitingClear
                       /\ Continue(w, "pollClear", "endClear")
                       /\ UNCHANGED <<store, override, toFC, toGCS, fc, budget>>

\* The loop ends when the ACK came or the polls ran out, without telling which.
PollClear(w) == /\ PollsRunOut \/ ~store.awaitingClear
                /\ Continue(w, "pollClear", "endClear")
                /\ UNCHANGED <<store, override, toFC, toGCS, fc, budget>>

EndClear(w) == /\ Continue(w, "endClear", "setPending")
               /\ store' = [store EXCEPT !.awaitingClear = FALSE]
               /\ UNCHANGED <<override, toFC, toGCS, fc, budget>>

SetPending(w) == /\ Continue(w, "setPending", "sendCount")
                 /\ store' = SetUploadPending(store, job[w])
                 /\ UNCHANGED <<override, toFC, toGCS, fc, budget>>

SendCount(w) == /\ Continue(w, "sendCount", "pollAck")
                /\ toFC' = Append(toFC, Count(Size[job[w]]))
                /\ UNCHANGED <<store, override, toGCS, fc, budget>>

\* The error returns at once: upload_pending and Uploading stay set.
SendCountFails(w) == /\ SendMayFail
                     /\ Return(w, "sendCount", "sendError")
                     /\ UNCHANGED <<store, override, toFC, toGCS, fc, budget>>

PollFailed(w) == /\ store.failed
                 /\ Return(w, "pollAck", "rejected")
                 /\ UNCHANGED <<store, override, toFC, toGCS, fc, budget>>

PollDone(w) == /\ store.done
               /\ ~store.failed
               /\ Return(w, "pollAck", "ok")
               /\ UNCHANGED <<store, override, toFC, toGCS, fc, budget>>

\* The last poll saw neither flag; the lock is free before the cleanup.
PollTimesOut(w) == /\ PollsRunOut
                   /\ ~store.done
                   /\ ~store.failed
                   /\ Continue(w, "pollAck", "abandon")
                   /\ UNCHANGED <<store, override, toFC, toGCS, fc, budget>>

\* Mutant of Abandon: the timeout forgets to drop the pending items.
AbandonKeepsPending(w) == /\ Continue(w, "abandon", "release")
                          /\ store' = [store EXCEPT !.done = FALSE]
                          /\ UNCHANGED <<override, toFC, toGCS, fc, budget>>

Abandon(w) == /\ Continue(w, "abandon", "release")
              /\ store' = [store EXCEPT !.pending = NoMission, !.done = FALSE,
                                        !.failed = FALSE, !.sent = {},
                                        !.awaitingClear = FALSE]
              /\ UNCHANGED <<override, toFC, toGCS, fc, budget>>

Release(w) == /\ Return(w, "release", "timedOut")
              /\ override' = "MissionRunning"
              /\ UNCHANGED <<store, toFC, toGCS, fc, budget>>
-----------------------------------------------------------------------------
(* mission_clear.                                                          *)

StartClear(w) == /\ Enter(w)
                 /\ store.pending = NoMission
                 /\ GoTo(w, "idle", "clearOverride")
                 /\ job' = [job EXCEPT ![w] = NoMission]
                 /\ result' = [result EXCEPT ![w] = "none"]
                 /\ UNCHANGED <<store, override, toFC, toGCS, fc>>

ClearOverride(w) == /\ override # "Uploading"
                    /\ Continue(w, "clearOverride", "clearSend")
                    /\ override' = "MissionRunning"
                    /\ UNCHANGED <<store, toFC, toGCS, fc, budget>>

ClearRefused(w) == /\ override = "Uploading"
                   /\ Return(w, "clearOverride", "busy")
                   /\ UNCHANGED <<store, override, toFC, toGCS, fc, budget>>

\* The clear does not wait for the FC's ACK, nor does it ask to ignore it.
ClearSend(w) == /\ Continue(w, "clearSend", "clearLocal")
                /\ toFC' = Append(toFC, ClearAll)
                /\ UNCHANGED <<store, override, toGCS, fc, budget>>

ClearSendFails(w) == /\ SendMayFail
                     /\ Return(w, "clearSend", "sendError")
                     /\ UNCHANGED <<store, override, toFC, toGCS, fc, budget>>

ClearStore(w) == /\ Return(w, "clearLocal", "cleared")
                 /\ store' = ClearLocal
                 /\ UNCHANGED <<override, toFC, toGCS, fc, budget>>
-----------------------------------------------------------------------------
(* The recv thread.                                                        *)

Receives(frame) == toGCS # << >> /\ Head(toGCS) = frame /\ toGCS' = Tail(toGCS)

\* A request is answered from the pending items, whoever set them; an item that
\* cannot be sent is one of the frames lost.
RecvRequest(i) == /\ Receives(Request(i))
                  /\ IF TakeUploadItem(store, i)
                       THEN \/ /\ toFC' = Append(toFC, Item(i, store.pending))
                               /\ store' = NoteUploadItemSent(store, i)
                               /\ UNCHANGED budget
                            \/ /\ SendMayFail /\ budget.loss > 0
                               /\ budget' = [budget EXCEPT !.loss = @ - 1]
                               /\ UNCHANGED <<toFC, store>>
                       ELSE UNCHANGED <<toFC, store, budget>>
                  /\ UNCHANGED <<override, workerVars, fc>>

\* Mutant of EndUploading: the recv thread leaves the override state alone.
EndUploadingNot == UNCHANGED override

\* After an upload ended, the override state falls back if it is still its own.
EndUploading == override' = IF override = "Uploading" THEN "MissionRunning"
                                                      ELSE override

\* The ACK of MISSION_CLEAR_ALL, whatever it says.
RecvClearAck(ok) == /\ Receives(Ack(ok))
                    /\ store.awaitingClear
                    /\ store' = [store EXCEPT !.awaitingClear = FALSE]
                    /\ UNCHANGED <<override, workerVars, toFC, fc, budget>>

RecvRejected == /\ Receives(Ack(FALSE))
                /\ ~store.awaitingClear
                /\ store.pending # NoMission
                /\ store' = MarkUploadFailed(store)
                /\ EndUploading
                /\ UNCHANGED <<workerVars, toFC, fc, budget>>

RecvAccepted ==
    /\ Receives(Ack(TRUE))
    /\ ~store.awaitingClear
    /\ UploadReadyForAck(store)
    /\ store' = SetUploadDone([store EXCEPT !.items = ItemsOf(store.pending),
                                            !.currentSeq = 0])
    /\ EndUploading
    /\ UNCHANGED <<workerVars, toFC, fc, budget>>

\* No upload, or an acceptance before every item was sent.
RecvStrayAck(ok) == /\ Receives(Ack(ok))
                    /\ ~store.awaitingClear
                    /\ IF ok THEN ~UploadReadyForAck(store)
                             ELSE store.pending = NoMission
                    /\ UNCHANGED <<store, override, workerVars, toFC, fc, budget>>
-----------------------------------------------------------------------------
(* The flight controller (external): it refuses to clear during an upload, *)
(* starts over on a count, asks for the items in order, writes each into   *)
(* its slot and acknowledges the last.                                     *)

FcTakes(frame) == toFC # << >> /\ Head(toFC) = frame /\ toFC' = Tail(toFC)
FcSends(frame) == toGCS' = Append(toGCS, frame)
FcOnly == UNCHANGED <<store, override, workerVars>>

FcClear == /\ FcTakes(ClearAll)
           /\ FcSends(Ack(~Receiving))
           /\ fc' = IF Receiving THEN fc ELSE [fc EXCEPT !.items = NoItems]
           /\ FcOnly /\ UNCHANGED budget

FcCount(n) == /\ FcTakes(Count(n))
              /\ FcSends(Request(0))
              /\ fc' = [fc EXCEPT !.count = n, !.next = 0]
              /\ FcOnly /\ UNCHANGED budget

FcItem(i, m) == /\ FcTakes(Item(i, m))
                /\ Receiving
                /\ i = fc.next
                /\ IF i + 1 < fc.count
                     THEN /\ FcSends(Request(i + 1))
                          /\ fc' = [fc EXCEPT !.items[i] = m, !.next = i + 1]
                     ELSE /\ FcSends(Ack(TRUE))
                          /\ fc' = [items |-> [k \in Seqs |->
                                       CASE k < i -> fc.items[k]
                                         [] k = i -> m
                                         [] OTHER -> NoMission],
                                    count |-> 0, next |-> 0]
                /\ FcOnly /\ UNCHANGED budget

\* An item out of turn is dropped.
FcStrayItem(i, m) == /\ FcTakes(Item(i, m))
                     /\ ~(Receiving /\ i = fc.next)
                     /\ FcOnly /\ UNCHANGED <<toGCS, fc, budget>>

\* A count or an item the FC does not accept ends the session.
FcRejects == /\ FcMayReject
             /\ \E n \in 1 .. MaxSize, i \in Seqs, m \in Missions :
                   FcTakes(Count(n)) \/ (FcTakes(Item(i, m)) /\ Receiving)
             /\ FcSends(Ack(FALSE))
             /\ fc' = [fc EXCEPT !.count = 0, !.next = 0]
             /\ FcOnly /\ UNCHANGED budget

\* The FC asks again for an item that did not come ...
FcRetry == /\ Receiving
           /\ budget.retries > 0
           /\ budget' = [budget EXCEPT !.retries = @ - 1]
           /\ FcSends(Request(fc.next))
           /\ FcOnly /\ UNCHANGED <<toFC, fc>>

\* ... and in the end gives up.
FcCancels == /\ FcMayReject
             /\ Receiving
             /\ FcSends(Ack(FALSE))
             /\ fc' = [fc EXCEPT !.count = 0, !.next = 0]
             /\ FcOnly /\ UNCHANGED <<toFC, budget>>

\* The link loses a frame.
Lose == /\ budget.loss > 0
        /\ budget' = [budget EXCEPT !.loss = @ - 1]
        /\ \/ toFC # << >> /\ toFC' = Tail(toFC) /\ UNCHANGED toGCS
           \/ toGCS # << >> /\ toGCS' = Tail(toGCS) /\ UNCHANGED toFC
        /\ UNCHANGED <<store, override, workerVars, fc>>
-----------------------------------------------------------------------------
Upload(w) == \/ ClaimOverride(w) \/ AwaitClear(w) \/ SendClear(w)
             \/ SendClearFails(w) \/ PollClear(w) \/ EndClear(w)
             \/ SetPending(w) \/ SendCount(w) \/ SendCountFails(w)
             \/ PollFailed(w) \/ PollDone(w) \/ PollTimesOut(w)
             \/ Abandon(w) \/ Release(w)

Clear(w) == \/ ClearOverride(w) \/ ClearRefused(w) \/ ClearSend(w)
            \/ ClearSendFails(w) \/ ClearStore(w)

Start(w) == \/ \E m \in Missions : StartUpload(w, m)
            \/ StartClear(w)
            \/ RefuseBusy(w)

Recv == \/ \E i \in Seqs : RecvRequest(i)
        \/ \E ok \in BOOLEAN : RecvClearAck(ok) \/ RecvStrayAck(ok)
        \/ RecvRejected
        \/ RecvAccepted

FlightController ==
    \/ FcClear
    \/ \E n \in 1 .. MaxSize : FcCount(n)
    \/ \E i \in Seqs, m \in Missions : FcItem(i, m) \/ FcStrayItem(i, m)
    \/ FcRejects

Next == \/ \E w \in Workers : Start(w) \/ Upload(w) \/ Clear(w)
        \/ Recv
        \/ FlightController
        \/ FcRetry
        \/ FcCancels
        \/ Lose

Spec == Init /\ [][Next]_vars

\* The OS runs every thread that can run, and the FC handles what it gets and
\* drops a session in which nothing comes; neither a new call, a retry nor a
\* loss has to happen.
Fairness == /\ \A w \in Workers : WF_vars(Upload(w) \/ Clear(w))
            /\ WF_vars(Recv)
            /\ WF_vars(FlightController)
            /\ WF_vars(FcCancels)

FairSpec == Spec /\ Fairness
-----------------------------------------------------------------------------
(* Properties.                                                             *)

\* "mission upload: ok (n items on FC)" (src/src/bin/drone_http.rs): when an
\* upload is about to report success, the FC holds the whole of its mission,
\* and the cache says so, whatever was lost, repeated or left over before.
OkMeansOnFC ==
    \A w \in Workers : pc[w] = "pollAck" /\ store.done =>
        /\ fc.items = ItemsOf(job[w])
        /\ store.items = fc.items

\* The cached mission changes only to what the FC holds at that moment, or to
\* nothing in a clear: a rejected, timed-out or stray ACK never rewrites it.
CacheFollowsFC ==
    [][store'.items # store.items => store'.items \in {fc.items, NoItems}]_vars

\* The steps between taking and giving back each busy flag.
ClearHolder == {"sendClear", "pollClear", "endClear"}
PendingHolder == {"sendCount", "pollAck", "abandon"}
OverrideHolder == UploadSteps \ {"claimOverride"}

Held(steps) == \E w \in Workers : pc[w] \in steps

\* No transfer is abandoned: while the cache is busy, or the override state is
\* Uploading, some worker is still there to end it.  Otherwise every later
\* upload, clear and download would be refused for good.
NoAbandonedTransfer ==
    /\ store.pending # NoMission => Held(PendingHolder)
    /\ store.awaitingClear => Held(ClearHolder)
    /\ override = "Uploading" => Held(OverrideHolder)

\* The handshake runs to its end by itself: an upload that reports a timeout
\* lost a frame.  The requests, the items and the bookkeeping of what was sent
\* never wait for each other, whatever the FC repeats or refuses.
NoNeedlessTimeout ==
    \A w \in Workers : result[w] = "timedOut" => budget.loss < MaxLoss

\* Every call returns: no upload waits for ever for an FC that does not answer.
EveryCallReturns == \A w \in Workers : pc[w] # "idle" ~> pc[w] = "idle"
=============================================================================
