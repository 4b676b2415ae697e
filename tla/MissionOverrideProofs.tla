----------------------- MODULE MissionOverrideProofs ------------------------
(***************************************************************************)
(* Proofs about MissionOverride for any number of workers and any size of  *)
(* mission.  Most properties hold until one kind of request is served; the *)
(* proofs need to know which request each thread and each flag belongs to. *)
(***************************************************************************)
EXTENDS MissionOverride, TLAPS

LEMMA ThreadFacts == /\ "recv" \in Threads
                     /\ "free" \notin Threads
                     /\ Workers \subseteq Threads
                     /\ "recv" \notin Workers
  BY WorkersAssumption DEF Threads
-----------------------------------------------------------------------------
(* The type invariant in three parts: mutexes and steps, override, store.  *)

LocksOK ==
    /\ pc \in [Threads -> Steps]
    /\ overrideLock \in Threads \cup {"free"}
    /\ storeLock \in Threads \cup {"free"}
    /\ \A t \in Threads : /\ overrideLock = t <=> pc[t] \in OverrideThenStore
                          /\ storeLock = t <=> pc[t] \in StoreThenOverride

Overrides == [state       : {"MissionRunning", "Paused", "OverrideActive", "Uploading"},
              reached     : BOOLEAN,
              resumeAfter : BOOLEAN]

Caches == [length   : 0 .. MaxSize,
           seq      : Seqs \cup {NoSeq},
           snapshot : Seqs \cup {NoSeq},
           pending  : 0 .. MaxSize,
           ended    : BOOLEAN]

\* TypeOK in the parts that are proved one by one.
LEMMA TypeParts ==
    TypeOK <=> /\ LocksOK /\ override \in Overrides /\ store \in Caches
               /\ served \subseteq Requests /\ sendFailed \in BOOLEAN
  BY DEF TypeOK, LocksOK, Overrides, Caches

\* Steps that hold neither mutex.
Neutral == Steps \ (OverrideThenStore \cup StoreThenOverride)

\* A step of thread t from a to b that takes and releases as a and b say.
LockStep(t, a, b) ==
    /\ GoTo(t, a, b)
    /\ \/ UNCHANGED locks /\ a \in Neutral /\ b \in Neutral
       \/ UNCHANGED locks /\ a \in StoreThenOverride /\ b \in StoreThenOverride
       \/ TakeOverride(t) /\ a \in Neutral /\ b \in OverrideThenStore
       \/ TakeStore(t) /\ a \in Neutral /\ b \in StoreThenOverride
       \/ StoreInside /\ a \in OverrideThenStore /\ b \in Neutral
       \/ OverrideInside /\ a \in StoreThenOverride /\ b \in Neutral

\* Which steps are inside a nesting and which outside.
LEMMA StepKinds == /\ OverrideThenStore \cap StoreThenOverride = {}
                   /\ OverrideThenStore \subseteq Steps
                   /\ StoreThenOverride \subseteq Steps
                   /\ {"idle", "resumeSend", "resumeDone", "clearOverride",
                       "clearStore", "claim", "sendClear", "setPending", "sendCount",
                       "poll", "release", "endResume", "endPause", "ack"} \subseteq Neutral
  BY DEF Steps, Neutral, OverrideThenStore, StoreThenOverride

\* A lock call takes or releases what the steps before and after it say.
LEMMA LockStepOK ==
    ASSUME LocksOK, NEW t \in Threads, NEW a, NEW b, LockStep(t, a, b)
    PROVE  LocksOK'
<1>1. /\ pc[t] = a /\ b \in Steps
      /\ pc' \in [Threads -> Steps]
      /\ pc'[t] = b /\ \A s \in Threads \ {t} : pc'[s] = pc[s]
  BY StepKinds DEF LockStep, LocksOK, GoTo, Neutral
<1>2. /\ overrideLock = t <=> a \in OverrideThenStore
      /\ storeLock = t <=> a \in StoreThenOverride
  BY <1>1 DEF LocksOK
<1>3. /\ overrideLock' \in Threads \cup {"free"}
      /\ storeLock' \in Threads \cup {"free"}
      /\ overrideLock' = t <=> b \in OverrideThenStore
      /\ storeLock' = t <=> b \in StoreThenOverride
      /\ \A s \in Threads \ {t} : /\ overrideLock' = s <=> overrideLock = s
                                  /\ storeLock' = s <=> storeLock = s
  BY <1>2, StepKinds, ThreadFacts
     DEF LockStep, LocksOK, TakeOverride, TakeStore, StoreInside, OverrideInside,
         Neutral, locks
<1> QED
  BY <1>1, <1>3 DEF LocksOK

LEMMA LocksNext == LocksOK /\ [Next]_vars => LocksOK'
<1> SUFFICES ASSUME LocksOK, [Next]_vars PROVE LocksOK'
  OBVIOUS
<1>2. CASE UNCHANGED vars
  BY <1>2 DEF vars, LocksOK
<1>3. ASSUME NEW t \in Threads, \E a, b : LockStep(t, a, b) PROVE LocksOK'
  BY <1>3, LockStepOK
<1>4. {"pauseStore", "injectStore", "readSnapshot"} = OverrideThenStore
         /\ {"resumeReset", "ackUploading", "ackRelease"} = StoreThenOverride
  BY DEF OverrideThenStore, StoreThenOverride
<1> USE StepKinds, <1>4 DEF LockStep, WithOverride, WithStore
<1>5. ASSUME NEW w \in Workers, Pause(w) PROVE \E a, b : LockStep(w, a, b)
  <2>1. PauseEnter(w) => LockStep(w, "idle", "pauseStore")
    BY DEF PauseEnter
  <2>2. PauseSnapshot(w) => LockStep(w, "pauseStore", "idle")
    BY DEF PauseSnapshot
  <2> QED
    BY <1>5, <2>1, <2>2 DEF Pause
<1>6. ASSUME NEW w \in Workers, Inject(w) PROVE \E a, b : LockStep(w, a, b)
  <2>1. InjectPaused(w) => LockStep(w, "idle", "idle")
    BY DEF InjectPaused
  <2>2. InjectEnter(w) => LockStep(w, "idle", "injectStore")
    BY DEF InjectEnter
  <2>3. InjectSnapshot(w) => LockStep(w, "injectStore", "idle")
    BY DEF InjectSnapshot
  <2> QED
    BY <1>6, <2>1, <2>2, <2>3 DEF Inject
<1>7. ASSUME NEW w \in Workers, Resume(w) PROVE \E a, b : LockStep(w, a, b)
  <2>1. ResumeEnter(w) => LockStep(w, "idle", "resumeSend")
    BY DEF ResumeEnter
  <2>2. ResumeNoSnapshot(w) => LockStep(w, "idle", "resumeReset")
    BY DEF ResumeNoSnapshot
  <2>3. ResumeReset(w) => LockStep(w, "resumeReset", "idle")
    BY DEF ResumeReset
  <2>4. ResumeSend(w) => \E b : LockStep(w, "resumeSend", b)
    BY DEF ResumeSend
  <2>5. ResumeDone(w) => LockStep(w, "resumeDone", "idle")
    BY DEF ResumeDone
  <2> QED
    BY <1>7, <2>1, <2>2, <2>3, <2>4, <2>5 DEF Resume
<1>8. ASSUME NEW w \in Workers, Clear(w) PROVE \E a, b : LockStep(w, a, b)
  <2>1. ClearEnter(w) => LockStep(w, "idle", "clearOverride")
    BY DEF ClearEnter
  <2>2. ClearOverride(w) => \E b : LockStep(w, "clearOverride", b)
    BY DEF ClearOverride
  <2>3. ClearStore(w) => LockStep(w, "clearStore", "idle")
    BY DEF ClearStore
  <2> QED
    BY <1>8, <2>1, <2>2, <2>3 DEF Clear
<1>9. ASSUME NEW w \in Workers, Upload(w) PROVE \E a, b : LockStep(w, a, b)
  <2>1. UploadEnter(w) => LockStep(w, "idle", "claim")
    BY DEF UploadEnter
  <2>2. Claim(w) => LockStep(w, "claim", "sendClear")
    BY DEF Claim
  <2>3. SetPending(w) => LockStep(w, "setPending", "sendCount")
    BY DEF SetPending
  <2>4. PollEnds(w) => LockStep(w, "poll", "idle")
    BY DEF PollEnds
  <2>5. PollTimesOut(w) => LockStep(w, "poll", "release")
    BY DEF PollTimesOut
  <2>6. Release(w) => LockStep(w, "release", "idle")
    BY DEF Release
  <2>7. SendClear(w) => LockStep(w, "sendClear", "setPending")
    BY DEF SendClear
  <2>8. SendCount(w) => LockStep(w, "sendCount", "poll")
    BY DEF SendCount
  <2>9. SendFails(w) => \E a : LockStep(w, a, "idle")
    BY DEF SendFails
  <2> QED
    BY <1>9, <2>1, <2>2, <2>3, <2>4, <2>5, <2>6, <2>7, <2>8, <2>9
       DEF Upload, UploadClaims, UploadFails, UploadGoesOn
<1>10. CASE Mirror
  BY <1>10 DEF Mirror, RecvItem, RecvCurrent, LocksOK, locks
<1>11. CASE Position
  <2>1. Reached => \E b : LockStep("recv", "idle", b)
    BY DEF Reached, RecvReached
  <2>2. RecvReadSnapshot => \E b : LockStep("recv", "readSnapshot", b)
    <3>1. \A b : b \in {"endResume", "idle"} => b \in Neutral
      OBVIOUS
    <3> QED
      BY <3>1 DEF RecvReadSnapshot
  <2>3. RecvEnd => \E a, b : LockStep("recv", a, b)
    BY DEF RecvEnd
  <2> QED
    BY <1>3, <1>11, <2>1, <2>2, <2>3, ThreadFacts DEF Position, PositionEnds
<1>12. CASE MissionAck
  <2>1. RecvAck => LockStep("recv", "idle", "ack")
    BY DEF RecvAck
  <2>2. RecvAckNone => LockStep("recv", "ack", "idle")
    BY DEF RecvAckNone
  <2>3. RecvAckEnds => LockStep("recv", "ack", "ackUploading")
    BY DEF RecvAckEnds
  <2>4. RecvAckUploading => \E b : LockStep("recv", "ackUploading", b)
    BY DEF RecvAckUploading
  <2>5. RecvAckRelease => LockStep("recv", "ackRelease", "idle")
    BY DEF RecvAckRelease
  <2> QED
    BY <1>3, <1>12, <2>1, <2>2, <2>3, <2>4, <2>5, ThreadFacts DEF MissionAck, AckEnds
<1> QED
  BY <1>2, <1>3, <1>5, <1>6, <1>7, <1>8, <1>9, <1>10, <1>11, <1>12, ThreadFacts DEF Next
-----------------------------------------------------------------------------
(* What a step may do to the override state and to the store.              *)

LEMMA OverrideSteps ==
    ASSUME [Next]_vars
    PROVE  \/ override' = override
           \/ \E s \in {"MissionRunning", "Paused", "Uploading"} : override' = State(s)
           \/ \E b \in BOOLEAN : override' = Active(b)
           \/ \E b \in BOOLEAN : override = Active(b)
                                   /\ override' = [override EXCEPT !.reached = TRUE]
<1>1. CASE UNCHANGED vars
  BY <1>1 DEF vars
<1>2. CASE \E w \in Workers : Pause(w)
  BY <1>2 DEF Pause, PauseEnter, PauseSnapshot
<1>3. CASE \E w \in Workers : Inject(w)
  BY <1>3 DEF Inject, InjectPaused, InjectEnter, InjectSnapshot
<1>4. CASE \E w \in Workers : Resume(w)
  BY <1>4 DEF Resume, ResumeEnter, ResumeNoSnapshot, ResumeReset, ResumeSend, ResumeDone
<1>5. CASE \E w \in Workers : Clear(w)
  BY <1>5 DEF Clear, ClearEnter, ClearOverride, ClearStore
<1>6. CASE \E w \in Workers : Upload(w)
  BY <1>6 DEF Upload, UploadClaims, UploadFails, UploadGoesOn, UploadEnter, Claim, SendClear,
              SendFails, SetPending, SendCount, PollEnds, PollTimesOut, Release
<1>7. CASE Position
  BY <1>7 DEF Position, PositionEnds, Reached, RecvReached, RecvReadSnapshot, RecvEnd
<1>8. CASE MissionAck \/ Mirror
  BY <1>8 DEF MissionAck, AckEnds, RecvAck, RecvAckNone, RecvAckEnds, RecvAckUploading,
              RecvAckRelease, Mirror, RecvItem, RecvCurrent
<1> QED
  BY <1>1, <1>2, <1>3, <1>4, <1>5, <1>6, <1>7, <1>8 DEF Next

LEMMA OverrideNext == override \in Overrides /\ [Next]_vars => override' \in Overrides
<1> SUFFICES ASSUME override \in Overrides, [Next]_vars PROVE override' \in Overrides
  OBVIOUS
<1>1. CASE \E b \in BOOLEAN : override = Active(b)
                                /\ override' = [override EXCEPT !.reached = TRUE]
  BY <1>1 DEF Overrides
<1>2. CASE \E s \in {"MissionRunning", "Paused", "Uploading"} : override' = State(s)
  BY <1>2 DEF Overrides, State
<1>3. CASE \E b \in BOOLEAN : override' = Active(b)
  BY <1>3 DEF Overrides, Active
<1> QED
  BY <1>1, <1>2, <1>3, OverrideSteps

\* What a step may do to the store, and who may clear or replace it.
LEMMA StoreSteps ==
    ASSUME [Next]_vars
    PROVE  \/ store' = store
           \/ CanSnapshot /\ EnsureSnapshot
           \/ (\E w \in Workers : pc[w] = "clearStore") /\ store' = EmptyStore
           \/ \E n \in 0 .. MaxSize, b \in BOOLEAN :
                 store' = [store EXCEPT !.pending = n, !.ended = b]
           \/ store.length < MaxSize /\ store' = [store EXCEPT !.length = @ + 1]
           \/ \E s \in Seqs : UpdateCurrentSeq(s)
           \/ store.pending # 0
                /\ store' = [store EXCEPT !.length = store.pending, !.seq = 0,
                                          !.pending = 0, !.ended = TRUE]
<1>1. CASE UNCHANGED vars
  BY <1>1 DEF vars
<1>2. CASE \E w \in Workers : Pause(w)
  BY <1>2 DEF Pause, PauseEnter, PauseSnapshot
<1>3. CASE \E w \in Workers : Inject(w)
  BY <1>3 DEF Inject, InjectPaused, InjectEnter, InjectSnapshot
<1>4. CASE \E w \in Workers : Resume(w)
  BY <1>4 DEF Resume, ResumeEnter, ResumeNoSnapshot, ResumeReset, ResumeSend, ResumeDone
<1>5. CASE \E w \in Workers : Clear(w)
  BY <1>5 DEF Clear, ClearEnter, ClearOverride, ClearStore, GoTo
<1>6. CASE \E w \in Workers : Upload(w)
  <2>1. PICK w \in Workers : Upload(w)
    BY <1>6
  <2>2. CASE SetPending(w)
    <3>1. PICK n \in 1 .. MaxSize : store' = [store EXCEPT !.pending = n, !.ended = FALSE]
      BY <2>2 DEF SetPending
    <3>2. n \in 0 .. MaxSize /\ FALSE \in BOOLEAN
      BY SizeAssumption
    <3> QED
      BY <3>1, <3>2
  <2>3. CASE PollTimesOut(w)
    <3>1. store' = [store EXCEPT !.pending = 0, !.ended = FALSE]
      BY <2>3 DEF PollTimesOut
    <3>2. 0 \in 0 .. MaxSize /\ FALSE \in BOOLEAN
      BY SizeAssumption
    <3> QED
      BY <3>1, <3>2
  <2>4. CASE UploadEnter(w) \/ Claim(w) \/ PollEnds(w) \/ Release(w)
    BY <2>4 DEF UploadEnter, Claim, PollEnds, Release
  <2>5. CASE SendClear(w) \/ SendCount(w) \/ SendFails(w)
    BY <2>5 DEF SendClear, SendCount, SendFails
  <2> QED
    BY <2>1, <2>2, <2>3, <2>4, <2>5 DEF Upload, UploadClaims, UploadFails, UploadGoesOn
<1>7. CASE Mirror
  BY <1>7 DEF Mirror, RecvItem, RecvCurrent
<1>8. CASE Position
  BY <1>8 DEF Position, PositionEnds, Reached, RecvReached, RecvReadSnapshot, RecvEnd
<1>9. CASE RecvAck \/ RecvAckNone \/ RecvAckUploading \/ RecvAckRelease
  BY <1>9 DEF RecvAck, RecvAckNone, RecvAckUploading, RecvAckRelease
<1>10. CASE RecvAckEnds
  <2>1. CASE store' = [store EXCEPT !.pending = 0, !.ended = TRUE]
    <3>1. 0 \in 0 .. MaxSize /\ TRUE \in BOOLEAN
      BY SizeAssumption
    <3> QED
      BY <2>1, <3>1
  <2> QED
    BY <1>10, <2>1 DEF RecvAckEnds
<1> QED
  BY <1>1, <1>2, <1>3, <1>4, <1>5, <1>6, <1>7, <1>8, <1>9, <1>10
     DEF Next, MissionAck, AckEnds

LEMMA StoreNext == store \in Caches /\ [Next]_vars => store' \in Caches
<1> SUFFICES ASSUME store \in Caches, [Next]_vars PROVE store' \in Caches
  OBVIOUS
<1> USE SizeAssumption DEF Caches, Seqs, NoSeq
<1>1. CASE EnsureSnapshot
  BY <1>1 DEF EnsureSnapshot
<1>2. CASE store' = EmptyStore
  BY <1>2 DEF EmptyStore
<1>3. CASE \E n \in 0 .. MaxSize, b \in BOOLEAN :
              store' = [store EXCEPT !.pending = n, !.ended = b]
  BY <1>3
<1>4. CASE store.length < MaxSize /\ store' = [store EXCEPT !.length = @ + 1]
  <2>1. store.length + 1 \in 0 .. MaxSize
    BY <1>4
  <2> QED
    BY <1>4, <2>1
<1>5. CASE \E s \in Seqs : UpdateCurrentSeq(s)
  BY <1>5 DEF UpdateCurrentSeq
<1>6. CASE store' = [store EXCEPT !.length = store.pending, !.seq = 0,
                                  !.pending = 0, !.ended = TRUE]
  <2>1. 0 \in Seqs /\ 0 \in 0 .. MaxSize /\ store.pending \in 0 .. MaxSize
    OBVIOUS
  <2> QED
    BY <1>6, <2>1
<1> QED
  BY <1>1, <1>2, <1>3, <1>4, <1>5, <1>6, StoreSteps

LEMMA ServedNext == served \subseteq Requests /\ [Next]_vars => served' \subseteq Requests
  BY DEF Next, Pause, Inject, Resume, Clear, Upload, UploadClaims, UploadFails, UploadGoesOn,
         Serve, Serves, ServesNone, Position, MissionAck, Mirror, Requests, vars

LEMMA SendFailedNext == sendFailed \in BOOLEAN /\ [Next]_vars => sendFailed' \in BOOLEAN
  BY DEF Next, Pause, Inject, Resume, Clear, Upload, UploadClaims, UploadFails, UploadGoesOn,
         Serves, ServesNone, Position, MissionAck, Mirror, vars

LEMMA TypeInit == Init => TypeOK
<1> SUFFICES ASSUME Init PROVE TypeOK
  OBVIOUS
<1>1. LocksOK
  BY ThreadFacts DEF Init, LocksOK, Steps, OverrideThenStore, StoreThenOverride
<1>2. override \in Overrides
  BY DEF Init, Overrides, State
<1>3. store \in Caches
  BY SizeAssumption DEF Init, EmptyStore, Caches, Seqs, NoSeq
<1>4. served \subseteq Requests /\ sendFailed \in BOOLEAN
  BY DEF Init
<1> QED
  BY <1>1, <1>2, <1>3, <1>4, TypeParts

\* The type invariant (HttpOverrideState, MissionStore and the two mutexes).
THEOREM TypeCorrect == Spec => []TypeOK
<1>1. TypeOK /\ [Next]_vars => TypeOK'
  <2>1. TypeOK' <=> /\ LocksOK' /\ (override' \in Overrides)
                    /\ (store' \in Caches) /\ (served' \subseteq Requests)
                    /\ (sendFailed' \in BOOLEAN)
    BY DEF TypeOK, LocksOK, Overrides, Caches, Seqs
  <2> QED
    BY <2>1, TypeParts, LocksNext, OverrideNext, StoreNext, ServedNext, SendFailedNext
<1> QED
  BY <1>1, TypeInit, PTL DEF Spec
-----------------------------------------------------------------------------
(* Who serves what: a thread is only at the steps of requests that were    *)
(* made, and items are pending only after an upload.                       *)

ClearSteps == {"clearOverride", "clearStore"}
UploadSteps == {"claim", "sendClear", "setPending", "sendCount", "poll", "release"}
AckSteps == {"ackUploading", "ackRelease"}

ServedOnly == /\ store.pending # 0 => "upload" \in served
              /\ \A t \in Threads :
                    /\ pc[t] \in ClearSteps => "clear" \in served
                    /\ pc[t] = "resumeReset" => "resume" \in served
                    /\ pc[t] \in UploadSteps \cup AckSteps => "upload" \in served

\* Items are pending only once an upload was served.
LEMMA PendingNext ==
    TypeOK /\ ServedOnly /\ [Next]_vars => (store'.pending # 0 => "upload" \in served')
<1> SUFFICES ASSUME TypeOK, ServedOnly, [Next]_vars, store'.pending # 0
             PROVE  "upload" \in served'
  OBVIOUS
<1>1. store \in Caches /\ served \subseteq served'
  BY TypeParts
     DEF Next, Pause, Inject, Resume, Clear, Upload, UploadClaims, UploadFails, UploadGoesOn,
         Serve, Serves, ServesNone, Position, MissionAck, Mirror, vars
<1>2. CASE \E w \in Workers : Upload(w)
  BY <1>2 DEF Upload, UploadClaims, UploadFails, UploadGoesOn, Serve, Serves
<1>3. CASE ~\E w \in Workers : Upload(w)
  <2>1. store'.pending = store.pending \/ store'.pending = 0
    <3> USE DEF Caches, GoTo
    <3>1. CASE UNCHANGED vars
      BY <3>1 DEF vars
    <3>2. CASE \E w \in Workers : Pause(w) \/ Inject(w)
      BY <1>1, <3>2 DEF Pause, PauseEnter, PauseSnapshot, Inject, InjectPaused, InjectEnter,
                        InjectSnapshot, EnsureSnapshot
    <3>3. CASE \E w \in Workers : Resume(w)
      BY <3>3 DEF Resume, ResumeEnter, ResumeNoSnapshot, ResumeReset, ResumeSend, ResumeDone
    <3>4. CASE \E w \in Workers : Clear(w)
      BY <3>4 DEF Clear, ClearEnter, ClearOverride, ClearStore, EmptyStore
    <3>5. CASE Position
      BY <3>5 DEF Position, PositionEnds, Reached, RecvReached, RecvReadSnapshot, RecvEnd
    <3>6. CASE MissionAck
      BY <1>1, <3>6 DEF MissionAck, AckEnds, RecvAck, RecvAckNone, RecvAckEnds,
                        RecvAckUploading, RecvAckRelease
    <3>7. CASE Mirror
      BY <1>1, <3>7 DEF Mirror, RecvItem, RecvCurrent, UpdateCurrentSeq
    <3> QED
      BY <1>3, <3>1, <3>2, <3>3, <3>4, <3>5, <3>6, <3>7 DEF Next
  <2> QED
    BY <1>1, <2>1 DEF ServedOnly
<1> QED
  BY <1>2, <1>3

\* A step is reached only by the kinds of request that have it.
LEMMA ServedOnlyNext == TypeOK /\ ServedOnly /\ [Next]_vars => ServedOnly'
<1> SUFFICES ASSUME TypeOK, ServedOnly, [Next]_vars PROVE ServedOnly'
  OBVIOUS
<1>1. store'.pending # 0 => "upload" \in served'
  BY PendingNext
<1> USE ThreadFacts DEF ServedOnly, ClearSteps, UploadSteps, AckSteps, GoTo, Serve, Serves, ServesNone
<1>2. pc \in [Threads -> Steps]
  BY DEF TypeOK
<1>3. CASE UNCHANGED vars
  BY <1>3 DEF vars
<1>4. ASSUME NEW w \in Workers, Pause(w) PROVE ServedOnly'
  BY <1>1, <1>2, <1>4 DEF Pause, PauseEnter, PauseSnapshot
<1>5. ASSUME NEW w \in Workers, Inject(w) PROVE ServedOnly'
  BY <1>1, <1>2, <1>5 DEF Inject, InjectPaused, InjectEnter, InjectSnapshot
<1>6. ASSUME NEW w \in Workers, Resume(w) PROVE ServedOnly'
  BY <1>1, <1>2, <1>6
     DEF Resume, ResumeEnter, ResumeNoSnapshot, ResumeReset, ResumeSend, ResumeDone
<1>7. ASSUME NEW w \in Workers, Clear(w) PROVE ServedOnly'
  BY <1>1, <1>2, <1>7 DEF Clear, ClearEnter, ClearOverride, ClearStore
<1>8. ASSUME NEW w \in Workers, Upload(w) PROVE ServedOnly'
  BY <1>1, <1>2, <1>8
     DEF Upload, UploadClaims, UploadFails, UploadGoesOn, UploadEnter, Claim, SendClear, SendFails,
         SetPending, SendCount, PollEnds, PollTimesOut, Release
<1>9. CASE Mirror
  BY <1>1, <1>9 DEF Mirror, RecvItem, RecvCurrent
<1>10. CASE Position
  BY <1>1, <1>2, <1>10
     DEF Position, PositionEnds, Reached, RecvReached, RecvReadSnapshot, RecvEnd
<1>11. CASE MissionAck
  BY <1>1, <1>2, <1>11
     DEF MissionAck, AckEnds, RecvAck, RecvAckNone, RecvAckEnds, RecvAckUploading,
         RecvAckRelease
<1> QED
  BY <1>3, <1>4, <1>5, <1>6, <1>7, <1>8, <1>9, <1>10, <1>11 DEF Next

LEMMA ServedAlways == Spec => [](TypeOK /\ ServedOnly)
<1>1. Init => ServedOnly
  BY DEF Init, EmptyStore, ServedOnly, ClearSteps, UploadSteps, AckSteps
<1> QED
  BY <1>1, TypeCorrect, ServedOnlyNext, PTL DEF Spec

\* Pause, inject and clear beside the recv thread take the two mutexes in one
\* order: until a resume or an upload, no thread waits for another in a circle.
THEOREM OrderedLocksNeverCross == Spec => []LocksAreOrdered
<1>1. ServedOnly => LocksAreOrdered
  BY DEF ServedOnly, AckSteps, LocksAreOrdered, CircularWait, StoreThenOverride
<1> QED
  BY <1>1, ServedAlways, PTL
-----------------------------------------------------------------------------
(* The snapshot.                                                           *)

\* Until an upload, the seq a resume goes to is the one the FC last reported
\* (MissionStore::update_current_seq keeps the snapshot in step).
THEOREM SnapshotStaysInSync == Spec => []SnapshotInSyncUntilUpload
<1>1. Init => SnapshotInSyncUntilUpload
  BY DEF Init, EmptyStore, SnapshotInSyncUntilUpload, SnapshotInSync, HasSnapshot
<1>2. TypeOK /\ ServedOnly /\ SnapshotInSyncUntilUpload /\ [Next]_vars
         => SnapshotInSyncUntilUpload'
  <2> SUFFICES ASSUME TypeOK, ServedOnly, SnapshotInSyncUntilUpload, [Next]_vars,
                      "upload" \notin served'
               PROVE  SnapshotInSync'
    BY DEF SnapshotInSyncUntilUpload
  <2>1. "upload" \notin served
    BY DEF Next, Pause, Inject, Resume, Clear, Upload, UploadClaims, UploadFails,
           UploadGoesOn, Serve, Serves, ServesNone, Position, MissionAck, Mirror, vars
  <2>2. store \in Caches /\ store.pending = 0 /\ SnapshotInSync
    BY <2>1, TypeParts DEF ServedOnly, SnapshotInSyncUntilUpload
  <2> USE DEF SnapshotInSync, HasSnapshot, Caches
  <2>3. CASE store' = store
    BY <2>2, <2>3
  <2>4. CASE CanSnapshot /\ EnsureSnapshot
    BY <2>2, <2>4 DEF EnsureSnapshot
  <2>5. CASE store' = EmptyStore
    BY <2>5 DEF EmptyStore
  <2>6. CASE \E n \in 0 .. MaxSize, b \in BOOLEAN :
                store' = [store EXCEPT !.pending = n, !.ended = b]
    BY <2>2, <2>6
  <2>7. CASE store' = [store EXCEPT !.length = @ + 1]
    BY <2>2, <2>7
  <2>8. CASE \E s \in Seqs : UpdateCurrentSeq(s)
    BY <2>2, <2>8 DEF UpdateCurrentSeq
  <2> QED
    BY <2>2, <2>3, <2>4, <2>5, <2>6, <2>7, <2>8, StoreSteps
<1> QED
  BY <1>1, <1>2, ServedAlways, PTL DEF Spec

\* Until a clear, whoever is overridden, or about to go back to Paused, has a
\* snapshot.
KeepsSnapshot ==
    "clear" \notin served /\ (\/ override.state \in {"Paused", "OverrideActive"}
                             \/ pc["recv"] = "endPause")
        => HasSnapshot

\* Until a clear, a paused or overridden mission can always be gone back to
\* (MissionStore::ensure_snapshot_for_pause; nothing but a clear drops it).
THEOREM OverrideKeepsSnapshot == Spec => []OverrideHasSnapshot
<1>1. Init => KeepsSnapshot
  BY ThreadFacts DEF Init, KeepsSnapshot, State
<1>2. TypeOK /\ ServedOnly /\ KeepsSnapshot /\ [Next]_vars => KeepsSnapshot'
  <2> SUFFICES ASSUME TypeOK, ServedOnly, KeepsSnapshot, [Next]_vars,
                      "clear" \notin served'
               PROVE  KeepsSnapshot'
    BY DEF KeepsSnapshot
  <2>0. "clear" \notin served
    BY DEF Next, Pause, Inject, Resume, Clear, Upload, UploadClaims, UploadFails,
           UploadGoesOn, Serve, Serves, ServesNone, Position, MissionAck, Mirror, vars
  <2>1. store \in Caches /\ pc \in [Threads -> Steps] /\ override \in Overrides
    BY TypeParts DEF LocksOK
  <2>2. \A w \in Workers : pc[w] # "clearStore"
    BY <2>0, ThreadFacts DEF ServedOnly, ClearSteps
  \* A snapshot that is there stays.
  <2>3. HasSnapshot => HasSnapshot'
    <3> USE DEF HasSnapshot, Caches, Seqs, NoSeq
    <3>1. CASE EnsureSnapshot
      BY <2>1, <3>1 DEF EnsureSnapshot
    <3>2. CASE \E s \in Seqs : UpdateCurrentSeq(s)
      BY <2>1, <3>2 DEF UpdateCurrentSeq
    <3>3. CASE store' = [store EXCEPT !.length = store.pending, !.seq = 0,
                                      !.pending = 0, !.ended = TRUE]
      BY <2>1, <3>3
    <3>4. CASE \E n \in 0 .. MaxSize, b \in BOOLEAN :
                  store' = [store EXCEPT !.pending = n, !.ended = b]
      BY <2>1, <3>4
    <3>5. CASE store' = [store EXCEPT !.length = @ + 1]
      BY <2>1, <3>5
    <3> QED
      BY <2>2, <3>1, <3>2, <3>3, <3>4, <3>5, StoreSteps
  <2>4. ASSUME override' = override, pc'["recv"] = "endPause" => pc["recv"] = "endPause"
        PROVE  KeepsSnapshot'
    BY <2>0, <2>3, <2>4 DEF KeepsSnapshot
  <2>5. ASSUME NEW w \in Workers, NEW a, NEW b, GoTo(w, a, b)
        PROVE  pc'["recv"] = pc["recv"]
    BY <2>1, <2>5, ThreadFacts DEF GoTo
  <2>6. ASSUME override' \in {State("MissionRunning"), State("Uploading")},
               pc'["recv"] # "endPause" \/ pc'["recv"] = pc["recv"]
        PROVE  KeepsSnapshot'
    BY <2>0, <2>3, <2>6 DEF KeepsSnapshot, State
  <2>7. CanSnapshot /\ EnsureSnapshot => HasSnapshot'
    BY <2>1 DEF CanSnapshot, EnsureSnapshot, HasSnapshot, Caches
  <2>8. CASE UNCHANGED vars
    BY <2>4, <2>8 DEF vars
  <2>9. CASE \E w \in Workers : Pause(w)
    BY <2>4, <2>5, <2>7, <2>9 DEF Pause, PauseEnter, PauseSnapshot, KeepsSnapshot
  <2>10. CASE \E w \in Workers : Inject(w)
    BY <2>0, <2>3, <2>4, <2>5, <2>7, <2>10
       DEF Inject, InjectPaused, InjectEnter, InjectSnapshot, KeepsSnapshot
  <2>11. CASE \E w \in Workers : Resume(w)
    BY <2>4, <2>5, <2>6, <2>11
       DEF Resume, ResumeEnter, ResumeNoSnapshot, ResumeReset, ResumeSend, ResumeDone
  <2>12. CASE \E w \in Workers : Clear(w)
    BY <2>12 DEF Clear, Serve, Serves
  <2>13. CASE \E w \in Workers : Upload(w)
    BY <2>4, <2>5, <2>6, <2>13
       DEF Upload, UploadClaims, UploadFails, UploadGoesOn, UploadEnter, Claim, SendClear, SendFails,
           SetPending, SendCount, PollEnds, PollTimesOut, Release
  <2>14. CASE Mirror
    BY <2>4, <2>14 DEF Mirror, RecvItem, RecvCurrent
  <2>15. CASE Reached
    <3>1. override.state = "OverrideActive"
      BY <2>15 DEF Reached, RecvReached, Active
    <3> QED
      BY <2>0, <2>3, <3>1 DEF KeepsSnapshot
  <2>16. CASE RecvReadSnapshot
    BY <2>1, <2>4, <2>16, ThreadFacts DEF RecvReadSnapshot, GoTo
  <2>17. CASE RecvEnd
    <3>1. CASE GoTo("recv", "endResume", "idle") /\ override' = State("MissionRunning")
      BY <2>1, <2>6, <3>1, ThreadFacts DEF GoTo
    <3>2. CASE GoTo("recv", "endPause", "idle") /\ override' = State("Paused")
      BY <2>0, <2>3, <3>2 DEF GoTo, KeepsSnapshot
    <3> QED
      BY <2>17, <3>1, <3>2 DEF RecvEnd
  <2>18. CASE MissionAck
    <3>1. pc'["recv"] # "endPause"
      BY <2>1, <2>18, ThreadFacts
         DEF MissionAck, AckEnds, RecvAck, RecvAckNone, RecvAckEnds, RecvAckUploading,
             RecvAckRelease, GoTo
    <3>2. override' = override \/ override' = State("MissionRunning")
      BY <2>18
         DEF MissionAck, AckEnds, RecvAck, RecvAckNone, RecvAckEnds, RecvAckUploading,
             RecvAckRelease
    <3> QED
      BY <2>4, <2>6, <3>1, <3>2
  <2> QED
    BY <2>8, <2>9, <2>10, <2>11, <2>12, <2>13, <2>14, <2>15, <2>16, <2>17, <2>18
       DEF Next, Position, PositionEnds
<1>3. KeepsSnapshot => OverrideHasSnapshot
  BY DEF KeepsSnapshot, OverrideHasSnapshot
<1> QED
  BY <1>1, <1>2, <1>3, ServedAlways, PTL DEF Spec
-----------------------------------------------------------------------------
(* Uploading.                                                              *)

\* Once an upload ended, and the recv thread is through with its ACK, the
\* override state can be Uploading only for a next upload that claimed it and
\* has not set its items.
UploadingInv ==
    /\ UploadingIsHeld
    /\ override.state = "Uploading" /\ ~sendFailed /\ store.ended =>
          \/ \E w \in Workers : pc[w] \in {"sendClear", "setPending"}
          \/ pc["recv"] \in AckSteps

\* Whoever else is served, an upload, or the recv thread in its name, takes
\* Uploading back (upload_mission_items and the MISSION_ACK handler), unless a
\* send failed since it was claimed.
THEOREM UploadingIsGivenBack == Spec => []UploadingIsHeld
<1>1. Init => UploadingInv
  BY DEF Init, EmptyStore, UploadingInv, UploadingIsHeld, State
<1>2. TypeOK /\ UploadingInv /\ [Next]_vars => UploadingInv'
  <2> SUFFICES ASSUME TypeOK, UploadingInv, [Next]_vars, override'.state = "Uploading",
                      ~sendFailed'
               PROVE  UploadingInv'
    BY DEF UploadingInv, UploadingIsHeld
  <2> USE ThreadFacts DEF UploadingInv, UploadingIsHeld, AckSteps, GoTo, Serves, ServesNone
  <2>1. pc \in [Threads -> Steps] /\ store \in Caches
    BY TypeParts DEF LocksOK
  <2>2. CASE UNCHANGED vars
    BY <2>2 DEF vars
  \* Steps of other requests leave the upload's threads and flags alone.
  <2>3. ASSUME NEW t \in Threads, NEW a, NEW b, GoTo(t, a, b),
               a \notin {"sendClear", "setPending", "sendCount", "poll", "release",
                           "ackUploading", "ackRelease"},
               override' = override, store'.ended = store.ended, sendFailed' = sendFailed
        PROVE  UploadingInv'
    <3>1. \A u \in Threads : \/ pc'[u] = pc[u]
                              \/ pc[u] \notin {"sendClear", "setPending", "sendCount", "poll",
                                                 "release", "ackUploading", "ackRelease"}
      BY <2>1, <2>3
    <3> QED
      BY <2>3, <3>1
  <2>4. CASE \E w \in Workers : Pause(w)
    BY <2>1, <2>3, <2>4
       DEF Pause, PauseEnter, PauseSnapshot, EnsureSnapshot, State, Caches
  <2>5. CASE \E w \in Workers : Inject(w)
    BY <2>1, <2>3, <2>5
       DEF Inject, InjectPaused, InjectEnter, InjectSnapshot, EnsureSnapshot, Active, Caches
  <2>6. CASE \E w \in Workers : Resume(w)
    BY <2>3, <2>6 DEF Resume, ResumeEnter, ResumeNoSnapshot, ResumeReset, ResumeSend,
                      ResumeDone, State
  <2>7. CASE \E w \in Workers : Clear(w)
    <3>1. PICK w \in Workers : Clear(w)
      BY <2>7
    <3>2. CASE ClearStore(w)
      <4>1. override' = override /\ sendFailed' = sendFailed /\ ~store'.ended
        BY <3>1, <3>2 DEF Clear, ClearStore, EmptyStore
      <4>2. \A t \in Threads : pc'[t] = pc[t] \/ pc[t] = "clearStore"
        BY <2>1, <3>2 DEF ClearStore
      <4> QED
        BY <4>1, <4>2
    <3> QED
      BY <2>3, <3>1, <3>2 DEF Clear, ClearEnter, ClearOverride, State
  <2>8. CASE \E w \in Workers : Upload(w)
    <3>1. PICK w \in Workers : Upload(w)
      BY <2>8
    <3> USE DEF UploadClaims, UploadFails, UploadGoesOn
    <3>2. CASE UploadClaims(w)
      BY <2>1, <3>2 DEF Claim
    <3>3. CASE UploadGoesOn(w)
      <4>0. sendFailed' = sendFailed
        BY <3>3
      <4>1. CASE UploadEnter(w)
        BY <2>3, <4>0, <4>1 DEF UploadEnter
      <4>2. CASE SendClear(w)
        BY <2>1, <4>0, <4>2 DEF SendClear
      <4>3. CASE SetPending(w)
        BY <2>1, <4>0, <4>3 DEF SetPending, Caches
      <4>4. CASE SendCount(w)
        <5>1. pc'[w] = "poll" /\ \A t \in Threads \ {w} : pc'[t] = pc[t]
          BY <2>1, <4>4 DEF SendCount
        <5> QED
          BY <4>0, <4>4, <5>1 DEF SendCount
      <4>5. CASE PollEnds(w)
        <5>1. pc["recv"] \notin AckSteps
          BY <4>5 DEF PollEnds, WithStore, TypeOK, StoreThenOverride
        <5>2. PICK v \in Workers : pc[v] \in {"sendClear", "setPending"}
          BY <4>0, <4>5, <5>1 DEF PollEnds
        <5>3. pc'[v] = pc[v]
          BY <2>1, <4>5, <5>2 DEF PollEnds
        <5> QED
          BY <5>2, <5>3
      <4>6. CASE PollTimesOut(w)
        BY <2>1, <4>0, <4>6 DEF PollTimesOut, Caches
      <4>7. CASE Release(w)
        BY <4>7 DEF Release, State
      <4> QED
        BY <3>3, <4>1, <4>2, <4>3, <4>4, <4>5, <4>6, <4>7
    <3> QED
      BY <3>1, <3>2, <3>3 DEF Upload
  <2>9. CASE Position
    BY <2>1, <2>3, <2>9
       DEF Position, PositionEnds, Reached, RecvReached, RecvReadSnapshot, RecvEnd, State,
           Active
  <2>10. CASE MissionAck
    <3>0. sendFailed' = sendFailed
      BY <2>10 DEF MissionAck
    <3>1. CASE RecvAck \/ RecvAckNone
      BY <2>3, <3>0, <3>1 DEF RecvAck, RecvAckNone
    <3>2. CASE RecvAckEnds
      BY <2>1, <3>0, <3>2 DEF RecvAckEnds
    <3>3. CASE RecvAckUploading
      BY <2>1, <3>0, <3>3 DEF RecvAckUploading
    <3>4. CASE RecvAckRelease
      BY <3>4 DEF RecvAckRelease, State
    <3> QED
      BY <2>10, <3>1, <3>2, <3>3, <3>4 DEF MissionAck, AckEnds
  <2>11. CASE Mirror
    BY <2>1, <2>11 DEF Mirror, RecvItem, RecvCurrent, UpdateCurrentSeq, Caches
  <2> QED
    BY <2>2, <2>4, <2>5, <2>6, <2>7, <2>8, <2>9, <2>10, <2>11 DEF Next
<1> QED
  BY <1>1, <1>2, TypeCorrect, PTL DEF Spec, UploadingInv
=============================================================================
