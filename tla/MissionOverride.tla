--------------------------- MODULE MissionOverride ---------------------------
(***************************************************************************)
(* Pause, resume and waypoint inject over HTTP                             *)
(* (src/src/http_mission_tools.rs) beside mission upload and clear         *)
(* (src/src/mission_upload.rs) and the recv thread                         *)
(* (src/src/mavlink_http_runtime.rs): the override state, the snapshot the *)
(* mission is resumed from, and the two mutexes around them.               *)
(*                                                                         *)
(* Some sections hold one mutex while they take the other.  Such a section *)
(* is two steps: the first takes the outer mutex, the second needs the     *)
(* inner one and releases both.  A section with one mutex is one step,     *)
(* which needs it free.  Calls that are refused before they change         *)
(* anything are not steps.                                                 *)
(*                                                                         *)
(* Of the store the module keeps what the override depends on: how many    *)
(* items it holds, the current seq, the snapshot's seq and the number of   *)
(* items pending in an upload (the rest is in MissionStore).  Over HTTP an *)
(* override has one waypoint, so its index is 0 or past the end, and       *)
(* nothing ever sets Resuming.                                             *)
(***************************************************************************)
EXTENDS Integers

CONSTANTS Workers,  \* threads that serve requests
          MaxSize   \* bound: the longest mission

ASSUME WorkersAssumption == {"recv", "free"} \cap Workers = {}
ASSUME SizeAssumption == MaxSize \in Nat \ {0}

VARIABLES override,     \* HttpOverrideState
          store,        \* MissionStore, as far as it matters here
          overrideLock, \* the thread that holds the override mutex
          storeLock,    \* the thread that holds the store mutex
          pc,           \* the step each thread is at
          served,       \* history: the kinds of request served so far
          sendFailed    \* history: since the last claim of Uploading an upload
                        \* returned because a message was not sent

vars == <<override, store, overrideLock, storeLock, pc, served, sendFailed>>
locks == <<overrideLock, storeLock>>

Requests == {"pause", "inject", "resume", "clear", "upload"}
Threads == Workers \cup {"recv"}
Seqs == 0 .. (MaxSize - 1)
NoSeq == -1

\* Steps that hold the override mutex and want the store's, and the reverse.
OverrideThenStore == {"pauseStore", "injectStore", "readSnapshot"}
StoreThenOverride == {"resumeReset", "ackUploading", "ackRelease"}
Steps == OverrideThenStore \cup StoreThenOverride
            \cup {"idle", "resumeSend", "resumeDone", "clearOverride", "clearStore",
                  "claim", "sendClear", "setPending", "sendCount", "poll",
                  "release", "endResume", "endPause", "ack"}

State(s) == [state |-> s, reached |-> FALSE, resumeAfter |-> FALSE]
Active(resumeAfter) ==
    [state |-> "OverrideActive", reached |-> FALSE, resumeAfter |-> resumeAfter]

\* Type invariant: a mutex is held exactly at the steps between two lock calls.
TypeOK ==
    /\ override \in [state       : {"MissionRunning", "Paused", "OverrideActive",
                                    "Uploading"},
                     reached     : BOOLEAN,
                     resumeAfter : BOOLEAN]
    /\ store \in [length   : 0 .. MaxSize,
                  seq      : Seqs \cup {NoSeq},
                  snapshot : Seqs \cup {NoSeq},
                  pending  : 0 .. MaxSize,
                  ended    : BOOLEAN]
    /\ served \subseteq Requests
    /\ sendFailed \in BOOLEAN
    /\ pc \in [Threads -> Steps]
    /\ overrideLock \in Threads \cup {"free"}
    /\ storeLock \in Threads \cup {"free"}
    /\ \A t \in Threads : /\ overrideLock = t <=> pc[t] \in OverrideThenStore
                          /\ storeLock = t <=> pc[t] \in StoreThenOverride

EmptyStore == [length |-> 0, seq |-> NoSeq, snapshot |-> NoSeq, pending |-> 0,
               ended |-> FALSE]

Init == /\ override = State("MissionRunning")
        /\ store = EmptyStore
        /\ served = {}
        /\ sendFailed = FALSE
        /\ overrideLock = "free"
        /\ storeLock = "free"
        /\ pc = [t \in Threads |-> "idle"]

GoTo(t, from, to) == pc[t] = from /\ pc' = [pc EXCEPT ![t] = to]

\* A step inside one mutex, which is free before and after it.
WithOverride == overrideLock = "free" /\ UNCHANGED locks
WithStore == storeLock = "free" /\ UNCHANGED locks

TakeOverride(t) == overrideLock = "free" /\ overrideLock' = t /\ UNCHANGED storeLock
TakeStore(t) == storeLock = "free" /\ storeLock' = t /\ UNCHANGED overrideLock

\* The inner mutex is free; the guards of both go out of scope.
StoreInside == storeLock = "free" /\ overrideLock' = "free" /\ UNCHANGED storeLock
OverrideInside == overrideLock = "free" /\ storeLock' = "free" /\ UNCHANGED overrideLock
-----------------------------------------------------------------------------
(* MissionStore.                                                           *)

HasSnapshot == store.snapshot # NoSeq

\* ensure_snapshot_for_pause: a snapshot that is there is kept, however old.
CanSnapshot == HasSnapshot \/ (store.seq # NoSeq /\ store.length > 0)

\* Mutant of EnsureSnapshot: the snapshot is not there yet when it is needed.
EnsureSnapshotNot == UNCHANGED store

EnsureSnapshot == store' = [store EXCEPT !.snapshot = IF HasSnapshot THEN @ ELSE store.seq]

\* Mutant of UpdateCurrentSeq: the snapshot stays where it was taken.
UpdateCurrentSeqOnly(s) == store' = [store EXCEPT !.seq = s]

UpdateCurrentSeq(s) ==
    store' = [store EXCEPT !.seq = s, !.snapshot = IF HasSnapshot THEN s ELSE NoSeq]
-----------------------------------------------------------------------------
(* pause, waypoint_inject, resume.                                         *)

\* The cached mode is AUTO and no override is active.
PauseEnter(w) == /\ override.state # "OverrideActive"
                 /\ GoTo(w, "idle", "pauseStore")
                 /\ TakeOverride(w)
                 /\ UNCHANGED <<override, store>>

PauseSnapshot(w) == /\ GoTo(w, "pauseStore", "idle")
                    /\ StoreInside
                    /\ IF CanSnapshot
                         THEN EnsureSnapshot /\ override' = State("Paused")
                         ELSE UNCHANGED <<store, override>>

\* From Paused the store is not asked, and the override returns to Paused.
InjectPaused(w) == /\ override.state = "Paused"
                   /\ GoTo(w, "idle", "idle")
                   /\ WithOverride
                   /\ override' = Active(FALSE)
                   /\ UNCHANGED store

InjectEnter(w) == /\ override.state \notin {"OverrideActive", "Paused"}
                  /\ GoTo(w, "idle", "injectStore")
                  /\ TakeOverride(w)
                  /\ UNCHANGED <<override, store>>

InjectSnapshot(w) == /\ GoTo(w, "injectStore", "idle")
                     /\ StoreInside
                     /\ IF CanSnapshot
                          THEN EnsureSnapshot /\ override' = Active(TRUE)
                          ELSE UNCHANGED <<store, override>>

ResumeEnter(w) == /\ HasSnapshot
                  /\ GoTo(w, "idle", "resumeSend")
                  /\ WithStore
                  /\ UNCHANGED <<override, store>>

\* Without a snapshot the override state is reset, the store still locked.
ResumeNoSnapshot(w) == /\ ~HasSnapshot
                       /\ GoTo(w, "idle", "resumeReset")
                       /\ TakeStore(w)
                       /\ UNCHANGED <<override, store>>

ResumeReset(w) == /\ GoTo(w, "resumeReset", "idle")
                  /\ OverrideInside
                  /\ override' = State("MissionRunning")
                  /\ UNCHANGED store

\* AUTO, the snapshot's seq, MISSION_START; an error ends the call.
ResumeSend(w) == /\ \/ GoTo(w, "resumeSend", "resumeDone")
                    \/ GoTo(w, "resumeSend", "idle")
                 /\ UNCHANGED <<override, store, locks>>

\* The override state is written without a look at what it has become.
ResumeDone(w) == /\ GoTo(w, "resumeDone", "idle")
                 /\ WithOverride
                 /\ override' = State("MissionRunning")
                 /\ UNCHANGED store
-----------------------------------------------------------------------------
(* mission_clear and upload_mission_items.                                 *)

\* Mutant of ClearEnter: the store's guard lives on into the next section.
ClearEnterHolding(w) == /\ store.pending = 0
                        /\ GoTo(w, "idle", "clearOverride")
                        /\ TakeStore(w)
                        /\ UNCHANGED <<override, store>>

ClearEnter(w) == /\ store.pending = 0
                 /\ GoTo(w, "idle", "clearOverride")
                 /\ WithStore
                 /\ UNCHANGED <<override, store>>

\* Refused during an upload; afterwards the send may fail.
ClearOverride(w) == /\ WithOverride
                    /\ UNCHANGED store
                    /\ IF override.state = "Uploading"
                         THEN GoTo(w, "clearOverride", "idle") /\ UNCHANGED override
                         ELSE /\ override' = State("MissionRunning")
                              /\ \/ GoTo(w, "clearOverride", "clearStore")
                                 \/ GoTo(w, "clearOverride", "idle")

ClearStore(w) ==
    /\ GoTo(w, "clearStore", "idle")
    /\ WithStore
    /\ store' = EmptyStore
    /\ UNCHANGED override

UploadEnter(w) == /\ store.pending = 0
                  /\ GoTo(w, "idle", "claim")
                  /\ WithStore
                  /\ UNCHANGED <<override, store>>

Claim(w) == /\ GoTo(w, "claim", "sendClear")
            /\ WithOverride
            /\ override' = State("Uploading")
            /\ UNCHANGED store

\* MISSION_CLEAR_ALL, and the wait for its ACK (the flag the recv thread clears
\* then is not in this module: RecvAckNone is any ACK that ends nothing).
SendClear(w) == GoTo(w, "sendClear", "setPending") /\ UNCHANGED <<override, store, locks>>

SetPending(w) == /\ GoTo(w, "setPending", "sendCount")
                 /\ WithStore
                 /\ \E n \in 1 .. MaxSize :
                       store' = [store EXCEPT !.pending = n, !.ended = FALSE]
                 /\ UNCHANGED override

SendCount(w) == GoTo(w, "sendCount", "poll") /\ UNCHANGED <<override, store, locks>>

\* A message that is not sent ends the upload there and then: the override state
\* stays Uploading, and behind MISSION_COUNT the items stay pending.
SendFails(w) == /\ \/ GoTo(w, "sendClear", "idle")
                   \/ GoTo(w, "sendCount", "idle")
                /\ UNCHANGED <<override, store, locks>>

\* The loop saw upload_done or upload_failed ...
PollEnds(w) == /\ store.ended
               /\ GoTo(w, "poll", "idle")
               /\ WithStore
               /\ UNCHANGED <<override, store>>

\* ... or ran out.
PollTimesOut(w) == /\ GoTo(w, "poll", "release")
                   /\ WithStore
                   /\ store' = [store EXCEPT !.pending = 0, !.ended = FALSE]
                   /\ UNCHANGED override

Release(w) == /\ GoTo(w, "release", "idle")
              /\ WithOverride
              /\ override' = State("MissionRunning")
              /\ UNCHANGED store
-----------------------------------------------------------------------------
(* The recv thread.                                                        *)

\* MISSION_ITEM_INT of the next slot, ignored while items are pending.
RecvItem == /\ pc["recv"] = "idle"
            /\ WithStore
            /\ store.pending = 0
            /\ store.length < MaxSize
            /\ store' = [store EXCEPT !.length = @ + 1]
            /\ UNCHANGED <<override, pc>>

RecvCurrent(s) == /\ pc["recv"] = "idle"
                  /\ WithStore
                  /\ UpdateCurrentSeq(s)
                  /\ UNCHANGED <<override, pc>>

\* A position within reach of the active waypoint ends the override: it resumes
\* the mission, or goes back to Paused.
RecvReached(resumeAfter) ==
    /\ override = Active(resumeAfter)
    /\ override' = [override EXCEPT !.reached = TRUE]
    /\ IF resumeAfter
         THEN TakeOverride("recv") /\ GoTo("recv", "idle", "readSnapshot")
         ELSE WithOverride /\ GoTo("recv", "idle", "endPause")
    /\ UNCHANGED store

\* Mutant of RecvReadSnapshot: the store's guard outlives the block.
RecvReadSnapshotHolding ==
    /\ storeLock = "free"
    /\ overrideLock' = "free"
    /\ storeLock' = "recv"
    /\ GoTo("recv", "readSnapshot", "ackRelease")
    /\ UNCHANGED <<override, store>>

\* Without a snapshot the frame is dropped: the override stays, past its end.
RecvReadSnapshot == /\ GoTo("recv", "readSnapshot", IF HasSnapshot THEN "endResume" ELSE "idle")
                    /\ StoreInside
                    /\ UNCHANGED <<override, store>>

\* Mutant of RecvEnd: the override is left in place.
RecvEndNot == /\ \/ GoTo("recv", "endResume", "idle")
                 \/ GoTo("recv", "endPause", "idle")
              /\ WithOverride
              /\ UNCHANGED <<override, store>>

\* The mutex was released in between; the state is written without a look.
RecvEnd == /\ WithOverride
           /\ UNCHANGED store
           /\ \/ GoTo("recv", "endResume", "idle") /\ override' = State("MissionRunning")
              \/ GoTo("recv", "endPause", "idle") /\ override' = State("Paused")

\* MISSION_ACK: the override mutex for a look, then the store's, and inside it
\* the override's again, once to look and once to write.
RecvAck == /\ GoTo("recv", "idle", "ack")
           /\ WithOverride
           /\ UNCHANGED <<override, store>>

\* No upload, the ACK of the clear, or an acceptance before the last item.
RecvAckNone == /\ GoTo("recv", "ack", "idle")
               /\ WithStore
               /\ UNCHANGED <<override, store>>

RecvAckEnds ==
    /\ store.pending # 0
    /\ GoTo("recv", "ack", "ackUploading")
    /\ TakeStore("recv")
    /\ \/ store' = [store EXCEPT !.pending = 0, !.ended = TRUE]
       \/ store' = [store EXCEPT !.length = store.pending, !.seq = 0,
                                 !.pending = 0, !.ended = TRUE]
    /\ UNCHANGED override

RecvAckUploading == /\ UNCHANGED <<override, store>>
                    /\ IF override.state = "Uploading"
                         THEN /\ overrideLock = "free"
                              /\ UNCHANGED locks
                              /\ GoTo("recv", "ackUploading", "ackRelease")
                         ELSE OverrideInside /\ GoTo("recv", "ackUploading", "idle")

\* Mutant of RecvAckRelease: the override state stays Uploading.
RecvAckReleaseNot == /\ GoTo("recv", "ackRelease", "idle")
                     /\ OverrideInside
                     /\ UNCHANGED <<override, store>>

RecvAckRelease == /\ GoTo("recv", "ackRelease", "idle")
                  /\ OverrideInside
                  /\ override' = State("MissionRunning")
                  /\ UNCHANGED store
-----------------------------------------------------------------------------
\* A step in the service of a request; the recv thread serves none.
Serve(request) == served' = served \cup {request}
Serves(request) == Serve(request) /\ UNCHANGED sendFailed
ServesNone == UNCHANGED <<served, sendFailed>>

Pause(w) == (PauseEnter(w) \/ PauseSnapshot(w)) /\ Serves("pause")
Inject(w) == (InjectPaused(w) \/ InjectEnter(w) \/ InjectSnapshot(w)) /\ Serves("inject")
Resume(w) == (ResumeEnter(w) \/ ResumeNoSnapshot(w) \/ ResumeReset(w)
                \/ ResumeSend(w) \/ ResumeDone(w)) /\ Serves("resume")
Clear(w) == (ClearEnter(w) \/ ClearOverride(w) \/ ClearStore(w)) /\ Serves("clear")
UploadClaims(w) == Claim(w) /\ Serve("upload") /\ sendFailed' = FALSE
UploadFails(w) == SendFails(w) /\ Serve("upload") /\ sendFailed' = TRUE
UploadGoesOn(w) == (UploadEnter(w) \/ SendClear(w) \/ SetPending(w) \/ SendCount(w)
                      \/ PollEnds(w) \/ PollTimesOut(w) \/ Release(w)) /\ Serves("upload")
Upload(w) == UploadClaims(w) \/ UploadFails(w) \/ UploadGoesOn(w)

Reached == \E resumeAfter \in BOOLEAN : RecvReached(resumeAfter)
PositionEnds == RecvReadSnapshot \/ RecvEnd
Position == (Reached \/ PositionEnds) /\ ServesNone
AckEnds == RecvAckNone \/ RecvAckEnds \/ RecvAckUploading \/ RecvAckRelease
MissionAck == (RecvAck \/ AckEnds) /\ ServesNone
Mirror == (RecvItem \/ \E s \in Seqs : RecvCurrent(s)) /\ ServesNone

Next == \/ \E w \in Workers : Pause(w) \/ Inject(w) \/ Resume(w) \/ Clear(w) \/ Upload(w)
        \/ Position \/ MissionAck \/ Mirror

Spec == Init /\ [][Next]_vars

\* Threads that may run do run; the vehicle gets to the waypoint, and among the
\* frames the recv thread handles, one after the other, positions come again
\* and again.
Fairness == /\ \A w \in Workers : /\ WF_vars(PauseSnapshot(w) /\ Serves("pause"))
                                  /\ WF_vars(InjectSnapshot(w) /\ Serves("inject"))
            /\ SF_vars(Reached /\ ServesNone)
            /\ WF_vars(PositionEnds /\ ServesNone)
            /\ WF_vars(AckEnds /\ ServesNone)

FairSpec == Spec /\ Fairness
-----------------------------------------------------------------------------
(* Properties.                                                             *)

\* A thread waits for the store while another that holds it waits for the
\* override mutex of the first.
CircularWait ==
    \E s, t \in Threads : /\ pc[s] \in OverrideThenStore /\ overrideLock = s
                          /\ pc[t] \in StoreThenOverride /\ storeLock = t

\* "resume: no snapshot; override state reset" (src/src/http_mission_tools.rs:89):
\* a resume that found no snapshot, and has the override state to reset, gets to
\* it; nobody who holds it waits for the store, which the resume holds.
ResumeResets ==
    \A w \in Workers : pc[w] = "resumeReset" /\ override.state # "MissionRunning" =>
        ~\E t \in Threads : pc[t] \in OverrideThenStore /\ overrideLock = t

\* Pause, inject and clear beside the recv thread nest the two mutexes in one
\* order: until a resume or an upload is served, there is no circular wait.
LocksAreOrdered == served \cap {"resume", "upload"} = {} => ~CircularWait

\* "update its seq so it stays in sync" (src/src/mission_store.rs:94): a resume
\* goes to the item the FC last reported, never to one remembered from before.
SnapshotInSync == HasSnapshot => store.snapshot = store.seq

\* As long as no upload replaced the mission under it, the snapshot keeps pace
\* with MISSION_CURRENT through every pause, inject, resume and clear.
SnapshotInSyncUntilUpload == "upload" \notin served => SnapshotInSync

\* While the mission is paused, or flown past by an override, there is a
\* snapshot to go back to, unless a clear dropped it.
OverrideHasSnapshot ==
    /\ "clear" \notin served
    /\ override.state \in {"Paused", "OverrideActive"}
    => HasSnapshot

\* Uploading is left behind by a failed send only: while it is the override
\* state some upload, or the recv thread that ended it, is still there to take
\* it back, unless an upload returned on a failed send since it was claimed;
\* otherwise every later clear would be refused.
UploadingIsHeld ==
    override.state = "Uploading" /\ ~sendFailed =>
        \/ \E w \in Workers : pc[w] \in {"sendClear", "setPending", "sendCount", "poll",
                                       "release"}
        \/ pc["recv"] \in {"ackUploading", "ackRelease"}

\* An override ends once the vehicle is at its waypoint, unless a clear took
\* the snapshot it would resume from, or an upload crossed the mutexes.
OverrideEnds ==
    override.state = "OverrideActive" ~>
        \/ override.state # "OverrideActive"
        \/ served \cap {"clear", "upload"} # {}
=============================================================================
