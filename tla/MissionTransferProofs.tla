----------------------- MODULE MissionTransferProofs ------------------------
(***************************************************************************)
(* Proofs about MissionTransfer for missions of any size and any number of *)
(* calls, losses and retries.  Its types, and that no transfer is left     *)
(* behind, hold for any number of workers and every timing; that what an   *)
(* upload reports is true, for one upload or clear at a time whose polling *)
(* loops outlast the session of the flight controller.                     *)
(***************************************************************************)
EXTENDS MissionTransfer, LinkQueues, TLAPS

\* The empty list and every mission's list are lists of items.
LEMMA ItemListTypes ==
    /\ NoItems \in ItemLists
    /\ \A m \in Missions : ItemsOf(m) \in ItemLists
    /\ DefaultStore \in Stores
    /\ 0 \in Seqs
  BY SizeAssumption DEF ItemLists, NoItems, ItemsOf, DefaultStore, Stores, Seqs

\* The methods of the cache keep its shape (src/src/mission_store.rs).
LEMMA StoreTypes ==
    ASSUME NEW st \in Stores
    PROVE  /\ \A m \in Missions : SetUploadPending(st, m) \in Stores
           /\ \A i \in Seqs : NoteUploadItemSent(st, i) \in Stores
           /\ MarkUploadFailed(st) \in Stores
           /\ SetUploadDone(st) \in Stores
           /\ ClearLocal \in Stores
           /\ \A b \in BOOLEAN : [st EXCEPT !.awaitingClear = b] \in Stores
  BY ItemListTypes
     DEF Stores, SetUploadPending, NoteUploadItemSent, MarkUploadFailed,
         SetUploadDone, ClearLocal

\* A worker's step leaves every worker at a step of its own.
LEMMA ContinueTypes ==
    ASSUME WorkersOK, NEW w \in Workers, NEW from, NEW to, Continue(w, from, to),
           \/ from \in UploadSteps /\ to \in UploadSteps
           \/ to \in ClearSteps
    PROVE  WorkersOK'
  BY DEF WorkersOK, Continue, GoTo, UploadSteps, ClearSteps

\* A worker that returns reports a result.
LEMMA ReturnTypes ==
    ASSUME WorkersOK, NEW w \in Workers, NEW from, NEW r \in Results, Return(w, from, r)
    PROVE  WorkersOK'
  BY DEF WorkersOK, Return, GoTo, UploadSteps, ClearSteps

\* Each frame that is sent is a frame.
LEMMA FrameTypes ==
    /\ ClearAll \in FcFrames
    /\ \A n \in 1 .. MaxSize : Count(n) \in FcFrames
    /\ \A i \in Seqs, m \in Missions : Item(i, m) \in FcFrames
    /\ \A i \in Seqs : Request(i) \in GcsFrames
    /\ \A ok \in BOOLEAN : Ack(ok) \in GcsFrames
  BY DEF FcFrames, GcsFrames

\* The types every step starts from.
LEMMA TypeInit == Init => TypeOK
<1> SUFFICES ASSUME Init PROVE TypeOK
  OBVIOUS
<1>1. store \in Stores /\ override \in OverrideStates
  BY ItemListTypes DEF Init, OverrideStates
<1>2. WorkersOK
  BY DEF Init, WorkersOK, UploadSteps, Results
<1>3. fc \in FcStates
  BY ItemListTypes, SizeAssumption DEF Init, FcStates
<1>4. budget \in [jobs : Nat, loss : Nat, retries : Nat]
  BY BoundsAssumption DEF Init
<1> QED
  BY <1>1, <1>2, <1>3, <1>4 DEF Init, TypeOK

LEMMA TypeStart ==
    ASSUME TypeOK, NEW w \in Workers, Start(w)
    PROVE  TypeOK'
<1>1. budget' \in [jobs : Nat, loss : Nat, retries : Nat]
  BY DEF TypeOK, Start, StartUpload, StartClear, RefuseBusy, Enter
<1>2. WorkersOK'
  <2>1. CASE \E m \in Missions : StartUpload(w, m)
    BY <2>1 DEF TypeOK, WorkersOK, StartUpload, GoTo, UploadSteps, Results
  <2>2. CASE StartClear(w)
    BY <2>2 DEF TypeOK, WorkersOK, StartClear, GoTo, UploadSteps, ClearSteps, Results
  <2>3. CASE RefuseBusy(w)
    BY <2>3, ReturnTypes DEF TypeOK, RefuseBusy, Results
  <2> QED
    BY <2>1, <2>2, <2>3 DEF Start
<1>3. UNCHANGED <<store, override, toFC, toGCS, fc>>
  BY DEF Start, StartUpload, StartClear, RefuseBusy
<1> QED
  BY <1>1, <1>2, <1>3 DEF TypeOK, FcFrames, GcsFrames, Stores

LEMMA TypeUpload ==
    ASSUME TypeOK, NEW w \in Workers, Upload(w)
    PROVE  TypeOK'
<1>1. WorkersOK'
  <2>1. CASE \E from \in UploadSteps, to \in UploadSteps : Continue(w, from, to)
    BY <2>1, ContinueTypes DEF TypeOK
  <2>2. CASE \E from \in UploadSteps, r \in Results : Return(w, from, r)
    BY <2>2, ReturnTypes DEF TypeOK
  <2> QED
    BY <2>1, <2>2
       DEF Upload, UploadSteps, Results, ClaimOverride, AwaitClear, SendClear,
           SendClearFails, PollClear, EndClear, SetPending, SendCount,
           SendCountFails, PollFailed, PollDone, PollTimesOut, Abandon, Release
<1>2. store' \in Stores
  <2>1. CASE AwaitClear(w) \/ EndClear(w)
    BY <2>1, StoreTypes DEF TypeOK, AwaitClear, EndClear
  <2>2. CASE SetPending(w)
    BY <2>2, StoreTypes DEF TypeOK, WorkersOK, SetPending, Continue, GoTo, UploadSteps
  <2>3. CASE Abandon(w)
    BY <2>3 DEF TypeOK, Abandon, Stores
  <2>4. CASE UNCHANGED store
    BY <2>4 DEF TypeOK
  <2> QED
    BY <2>1, <2>2, <2>3, <2>4
       DEF Upload, ClaimOverride, SendClear, SendClearFails, PollClear,
           SendCount, SendCountFails, PollFailed, PollDone, PollTimesOut, Release
<1>3. toFC' \in Seq(FcFrames)
  <2>1. CASE SendClear(w)
    BY <2>1, FrameTypes, QueueTypes DEF TypeOK, SendClear
  <2>2. CASE SendCount(w)
    <3>1. Size[job[w]] \in 1 .. MaxSize
      BY <2>2, SizeAssumption
         DEF TypeOK, WorkersOK, SendCount, Continue, GoTo, UploadSteps
    <3> QED
      BY <2>2, <3>1, FrameTypes, QueueTypes DEF TypeOK, SendCount
  <2>3. CASE UNCHANGED toFC
    BY <2>3 DEF TypeOK
  <2> QED
    BY <2>1, <2>2, <2>3
       DEF Upload, ClaimOverride, AwaitClear, SendClearFails, PollClear, EndClear,
           SetPending, SendCountFails, PollFailed, PollDone, PollTimesOut,
           Abandon, Release
<1>4. override' \in OverrideStates /\ UNCHANGED <<toGCS, fc, budget>>
  BY DEF TypeOK, OverrideStates, Upload, ClaimOverride, AwaitClear, SendClear,
         SendClearFails, PollClear, EndClear, SetPending, SendCount,
         SendCountFails, PollFailed, PollDone, PollTimesOut, Abandon, Release
<1> QED
  BY <1>1, <1>2, <1>3, <1>4 DEF TypeOK

LEMMA TypeClear ==
    ASSUME TypeOK, NEW w \in Workers, Clear(w)
    PROVE  TypeOK'
<1>1. WorkersOK'
  <2>1. CASE \E from, to \in ClearSteps : Continue(w, from, to)
    BY <2>1, ContinueTypes DEF TypeOK
  <2>2. CASE \E from \in ClearSteps, r \in Results : Return(w, from, r)
    BY <2>2, ReturnTypes DEF TypeOK
  <2> QED
    BY <2>1, <2>2 DEF Clear, ClearSteps, Results, ClearOverride, ClearRefused,
                      ClearSend, ClearSendFails, ClearStore
<1>2. store' \in Stores
  BY StoreTypes DEF TypeOK, Clear, ClearOverride, ClearRefused, ClearSend,
                    ClearSendFails, ClearStore
<1>3. toFC' \in Seq(FcFrames)
  BY FrameTypes, QueueTypes
     DEF TypeOK, Clear, ClearOverride, ClearRefused, ClearSend, ClearSendFails,
         ClearStore
<1>4. override' \in OverrideStates /\ UNCHANGED <<toGCS, fc, budget>>
  BY DEF TypeOK, OverrideStates, Clear, ClearOverride, ClearRefused, ClearSend,
         ClearSendFails, ClearStore
<1> QED
  BY <1>1, <1>2, <1>3, <1>4 DEF TypeOK

LEMMA TypeRecv ==
    ASSUME TypeOK, Recv
    PROVE  TypeOK'
<1>1. toGCS' \in Seq(GcsFrames)
  BY QueueTypes
     DEF TypeOK, Recv, RecvRequest, RecvClearAck, RecvStrayAck, RecvRejected,
         RecvAccepted, Receives
<1>2. store' \in Stores
  <2>1. CASE \E i \in Seqs : RecvRequest(i)
    BY <2>1, StoreTypes DEF TypeOK, RecvRequest
  <2>2. CASE \E ok \in BOOLEAN : RecvClearAck(ok) \/ RecvStrayAck(ok)
    BY <2>2, StoreTypes DEF TypeOK, RecvClearAck, RecvStrayAck
  <2>3. CASE RecvRejected
    BY <2>3, StoreTypes DEF TypeOK, RecvRejected
  <2>4. CASE RecvAccepted
    <3> DEFINE mirrored == [store EXCEPT !.items = ItemsOf(store.pending),
                                         !.currentSeq = 0]
    <3>1. store.pending \in Missions
      BY <2>4 DEF TypeOK, RecvAccepted, UploadReadyForAck, Stores
    <3>2. mirrored \in Stores
      BY <3>1, ItemListTypes DEF TypeOK, Stores
    <3> HIDE DEF mirrored
    <3>3. SetUploadDone(mirrored) \in Stores
      BY <3>2, StoreTypes
    <3> QED
      BY <2>4, <3>3 DEF RecvAccepted, mirrored
  <2> QED
    BY <2>1, <2>2, <2>3, <2>4 DEF Recv
<1>3. toFC' \in Seq(FcFrames)
  <2>1. CASE \E i \in Seqs : RecvRequest(i)
    <3>1. PICK i \in Seqs : RecvRequest(i)
      BY <2>1
    <3>2. TakeUploadItem(store, i) => store.pending \in Missions
      BY DEF TypeOK, TakeUploadItem, Stores
    <3> QED
      BY <3>1, <3>2, FrameTypes, QueueTypes DEF TypeOK, RecvRequest
  <2>2. CASE UNCHANGED toFC
    BY <2>2 DEF TypeOK
  <2> QED
    BY <2>1, <2>2 DEF Recv, RecvClearAck, RecvStrayAck, RecvRejected, RecvAccepted
<1>4. override' \in OverrideStates
  BY DEF TypeOK, OverrideStates, Recv, RecvRequest, RecvClearAck, RecvStrayAck,
         RecvRejected, RecvAccepted, EndUploading
<1>5. UNCHANGED <<workerVars, fc>>
  BY DEF Recv, RecvRequest, RecvClearAck, RecvStrayAck, RecvRejected, RecvAccepted
<1>6. budget' \in [jobs : Nat, loss : Nat, retries : Nat]
  <2>1. budget.loss > 0 => [budget EXCEPT !.loss = @ - 1] \in [jobs : Nat, loss : Nat, retries : Nat]
    BY DEF TypeOK
  <2>2. \/ UNCHANGED budget
        \/ budget.loss > 0 /\ budget' = [budget EXCEPT !.loss = @ - 1]
    BY DEF Recv, RecvRequest, RecvClearAck, RecvStrayAck, RecvRejected, RecvAccepted
  <2> QED
    BY <2>1, <2>2 DEF TypeOK
<1> QED
  BY <1>1, <1>2, <1>3, <1>4, <1>5, <1>6 DEF TypeOK, WorkersOK, workerVars

LEMMA TypeFlightController ==
    ASSUME TypeOK, FlightController \/ FcRetry \/ FcCancels
    PROVE  TypeOK'
<1>1. fc' \in FcStates
  <2>1. CASE FcClear
    BY <2>1, ItemListTypes DEF TypeOK, FcClear, FcStates
  <2>2. CASE \E n \in 1 .. MaxSize : FcCount(n)
    <3>1. PICK n \in 1 .. MaxSize : fc' = [fc EXCEPT !.count = n, !.next = 0]
      BY <2>2 DEF FcCount
    <3>2. n \in 0 .. MaxSize /\ 0 \in Seqs
      BY SizeAssumption, ItemListTypes
    <3> QED
      BY <3>1, <3>2 DEF TypeOK, FcStates
  <2>3. CASE \E i \in Seqs, m \in Missions : FcItem(i, m)
    <3>1. PICK i \in Seqs, m \in Missions : FcItem(i, m)
      BY <2>3
    <3>2. CASE i + 1 < fc.count
      <4>1. i + 1 \in Seqs
        BY <3>2, SizeAssumption DEF TypeOK, FcStates, Seqs
      <4>2. [fc.items EXCEPT ![i] = m] \in ItemLists
        BY DEF TypeOK, FcStates, ItemLists
      <4>3. fc' = [fc EXCEPT !.items[i] = m, !.next = i + 1]
        BY <3>1, <3>2 DEF FcItem
      <4> QED
        BY <4>1, <4>2, <4>3 DEF TypeOK, FcStates
    <3>3. CASE ~(i + 1 < fc.count)
      <4> DEFINE list == [k \in Seqs |-> CASE k < i -> fc.items[k]
                                           [] k = i -> m
                                           [] OTHER -> NoMission]
      <4>1. list \in ItemLists
        BY DEF TypeOK, FcStates, ItemLists, Seqs
      <4>2. fc' = [items |-> list, count |-> 0, next |-> 0]
        BY <3>1, <3>3 DEF FcItem
      <4> HIDE DEF list
      <4> QED
        BY <4>1, <4>2, ItemListTypes, SizeAssumption DEF FcStates
    <3> QED
      BY <3>2, <3>3
  <2>4. CASE FcRejects \/ FcCancels
    <3>1. fc' = [fc EXCEPT !.count = 0, !.next = 0]
      BY <2>4 DEF FcRejects, FcCancels
    <3>2. 0 \in 0 .. MaxSize /\ 0 \in Seqs
      BY SizeAssumption, ItemListTypes
    <3> QED
      BY <3>1, <3>2 DEF TypeOK, FcStates
  <2>5. CASE UNCHANGED fc
    BY <2>5 DEF TypeOK
  <2> QED
    BY <2>1, <2>2, <2>3, <2>4, <2>5 DEF FlightController, FcStrayItem, FcRetry
<1>2. toFC' \in Seq(FcFrames)
  BY QueueTypes
     DEF TypeOK, FlightController, FcClear, FcCount, FcItem, FcStrayItem,
         FcRejects, FcRetry, FcCancels, FcTakes
<1>3. toGCS' \in Seq(GcsFrames)
  <2>1. (~Receiving) \in BOOLEAN
    BY DEF Receiving
  <2>2. CASE FcClear
    BY <2>1, <2>2, FrameTypes, QueueTypes DEF TypeOK, FcClear, FcSends
  <2>3. CASE \E i \in Seqs, m \in Missions : FcItem(i, m)
    <3>1. PICK i \in Seqs, m \in Missions : FcItem(i, m)
      BY <2>3
    <3>2. i + 1 < fc.count => i + 1 \in Seqs
      BY SizeAssumption DEF TypeOK, FcStates, Seqs
    <3>3. toGCS' = Append(toGCS, IF i + 1 < fc.count THEN Request(i + 1)
                                                     ELSE Ack(TRUE))
      BY <3>1 DEF FcItem, FcSends
    <3>4. (IF i + 1 < fc.count THEN Request(i + 1) ELSE Ack(TRUE)) \in GcsFrames
      BY <3>2, FrameTypes
    <3> QED
      BY <3>3, <3>4, QueueTypes DEF TypeOK
  <2>4. CASE \E n \in 1 .. MaxSize : FcCount(n)
    BY <2>4, ItemListTypes, FrameTypes, QueueTypes DEF TypeOK, FcCount, FcSends
  <2>5. CASE FcRejects \/ FcCancels
    <3>1. toGCS' = Append(toGCS, Ack(FALSE))
      BY <2>5 DEF FcRejects, FcCancels, FcSends
    <3> QED
      BY <3>1, FrameTypes, QueueTypes DEF TypeOK
  <2>6. CASE FcRetry
    BY <2>6, FrameTypes, QueueTypes DEF TypeOK, FcStates, FcRetry, FcSends
  <2>7. CASE UNCHANGED toGCS
    BY <2>7 DEF TypeOK
  <2> QED
    BY <2>2, <2>3, <2>4, <2>5, <2>6, <2>7 DEF FlightController, FcStrayItem
<1>4. budget' \in [jobs : Nat, loss : Nat, retries : Nat]
  <2>1. CASE FcRetry
    BY <2>1 DEF TypeOK, FcRetry
  <2>2. CASE UNCHANGED budget
    BY <2>2 DEF TypeOK
  <2> QED
    BY <2>1, <2>2 DEF FlightController, FcClear, FcCount, FcItem, FcStrayItem,
                      FcRejects, FcCancels
<1>5. UNCHANGED <<store, override, workerVars>>
  BY DEF FlightController, FcClear, FcCount, FcItem, FcStrayItem, FcRejects,
         FcRetry, FcCancels, FcOnly
<1> QED
  BY <1>1, <1>2, <1>3, <1>4, <1>5 DEF TypeOK, WorkersOK, workerVars

LEMMA TypeLose == ASSUME TypeOK, Lose PROVE TypeOK'
<1>1. toFC' \in Seq(FcFrames) /\ toGCS' \in Seq(GcsFrames)
  BY QueueTypes DEF TypeOK, Lose
<1>2. budget' \in [jobs : Nat, loss : Nat, retries : Nat]
  BY DEF TypeOK, Lose
<1>3. UNCHANGED <<store, override, workerVars, fc>>
  BY DEF Lose
<1> QED
  BY <1>1, <1>2, <1>3 DEF TypeOK, WorkersOK, workerVars

LEMMA TypeNext == TypeOK /\ [Next]_vars => TypeOK'
<1> SUFFICES ASSUME TypeOK, [Next]_vars PROVE TypeOK'
  OBVIOUS
<1>1. CASE UNCHANGED vars
  BY <1>1 DEF TypeOK, WorkersOK, vars
<1>2. CASE \E w \in Workers : Start(w) \/ Upload(w) \/ Clear(w)
  BY <1>2, TypeStart, TypeUpload, TypeClear
<1>3. CASE Recv
  BY <1>3, TypeRecv
<1>4. CASE FlightController \/ FcRetry \/ FcCancels
  BY <1>4, TypeFlightController
<1>5. CASE Lose
  BY <1>5, TypeLose
<1> QED
  BY <1>1, <1>2, <1>3, <1>4, <1>5 DEF Next

\* The type invariant, whatever the calls, the losses and the timing.
THEOREM TypeCorrect == Spec => []TypeOK
  BY TypeInit, TypeNext, PTL DEF Spec
-----------------------------------------------------------------------------
(* No transfer is abandoned, as long as sends succeed.  Uploading has two  *)
(* kinds of holder: a worker that has yet to set its pending items, which  *)
(* clears both result flags when it does, and one past that step as long   *)
(* as no result has come, because the result itself resets the state.      *)

SettingUp == {"awaitClear", "sendClear", "pollClear", "endClear", "setPending"}
Handshaking == {"sendCount", "pollAck", "abandon", "release"}

OverrideHeld ==
    override = "Uploading" =>
        \/ Held(SettingUp)
        \/ ~store.done /\ ~store.failed /\ Held(Handshaking)

TransferInv ==
    /\ TypeOK
    /\ store.done \/ store.failed => store.pending = NoMission
    /\ store.pending # NoMission => Held(PendingHolder)
    /\ store.awaitingClear => Held(ClearHolder)
    /\ OverrideHeld

LEMMA TransferInit == Init => TransferInv
  BY TypeInit DEF Init, TransferInv, DefaultStore, OverrideHeld

\* A worker that moves on leaves no other worker's place.
LEMMA HeldByOthers ==
    ASSUME TypeOK, NEW w \in Workers, NEW from, NEW to, GoTo(w, from, to), NEW S
    PROVE  /\ Held(S) /\ (from \notin S \/ to \in S) => Held(S)'
           /\ to \in S => Held(S)'
  BY DEF TypeOK, WorkersOK, Held, GoTo

LEMMA TransferStart ==
    ASSUME TransferInv, NEW w \in Workers, Start(w)
    PROVE  TransferInv'
<1>1. TypeOK'
  BY TypeStart DEF TransferInv
<1>2. UNCHANGED <<store, override>>
  BY DEF Start, StartUpload, StartClear, RefuseBusy
<1>3. PICK to : GoTo(w, "idle", to)
  BY DEF Start, StartUpload, StartClear, RefuseBusy, Return
<1>4. \A S \in {PendingHolder, ClearHolder, SettingUp, Handshaking} :
         Held(S) => Held(S)'
  BY <1>3, HeldByOthers
     DEF TransferInv, PendingHolder, ClearHolder, SettingUp, Handshaking
<1> QED
  BY <1>1, <1>2, <1>4 DEF TransferInv, OverrideHeld

LEMMA TransferUpload ==
    ASSUME ~SendMayFail, TransferInv, NEW w \in Workers, Upload(w)
    PROVE  TransferInv'
<1> USE DEF Continue, Return, PendingHolder, ClearHolder, SettingUp, Handshaking
<1>1. TypeOK /\ TypeOK'
  BY TypeUpload DEF TransferInv
<1>2. CASE ClaimOverride(w)
  BY <1>1, <1>2, HeldByOthers DEF TransferInv, OverrideHeld, ClaimOverride
<1>3. CASE AwaitClear(w)
  BY <1>1, <1>3, HeldByOthers DEF TransferInv, OverrideHeld, AwaitClear, TypeOK, Stores
<1>4. CASE SendClear(w)
  BY <1>1, <1>4, HeldByOthers DEF TransferInv, OverrideHeld, SendClear
<1>5. CASE PollClear(w)
  BY <1>1, <1>5, HeldByOthers DEF TransferInv, OverrideHeld, PollClear
<1>6. CASE EndClear(w)
  BY <1>1, <1>6, HeldByOthers DEF TransferInv, OverrideHeld, EndClear, TypeOK, Stores
<1>7. CASE SetPending(w)
  BY <1>1, <1>7, HeldByOthers
     DEF TransferInv, OverrideHeld, SetPending, SetUploadPending, TypeOK, Stores
<1>8. CASE SendCount(w)
  BY <1>1, <1>8, HeldByOthers DEF TransferInv, OverrideHeld, SendCount
<1>9. CASE PollFailed(w) \/ PollDone(w)
  BY <1>1, <1>9, HeldByOthers DEF TransferInv, OverrideHeld, PollFailed, PollDone
<1>10. CASE PollTimesOut(w)
  BY <1>1, <1>10, HeldByOthers DEF TransferInv, OverrideHeld, PollTimesOut
<1>11. CASE Abandon(w)
  BY <1>1, <1>11, HeldByOthers DEF TransferInv, OverrideHeld, Abandon, TypeOK, Stores
<1>12. CASE Release(w)
  BY <1>1, <1>12, HeldByOthers DEF TransferInv, OverrideHeld, Release
<1> QED
  BY <1>2, <1>3, <1>4, <1>5, <1>6, <1>7, <1>8, <1>9, <1>10, <1>11, <1>12
     DEF Upload, SendClearFails, SendCountFails

LEMMA TransferClear ==
    ASSUME TransferInv, NEW w \in Workers, Clear(w)
    PROVE  TransferInv'
<1>1. TypeOK'
  BY TypeClear DEF TransferInv
<1>2. CASE ClearStore(w)
  <2>1. store' = DefaultStore /\ UNCHANGED override
    BY <1>2 DEF ClearStore, ClearLocal
  <2>2. PICK from \in ClearSteps : GoTo(w, from, "idle")
    BY <1>2 DEF ClearStore, Return, ClearSteps
  <2>3. \A S \in {SettingUp, Handshaking} : Held(S) => Held(S)'
    BY <2>2, HeldByOthers DEF TransferInv, SettingUp, Handshaking, ClearSteps
  <2> QED
    BY <1>1, <2>1, <2>3 DEF TransferInv, OverrideHeld, DefaultStore
<1>3. CASE ~ClearStore(w)
  <2>1. UNCHANGED store /\ (override' = override \/ override' = "MissionRunning")
    BY <1>3 DEF Clear, ClearOverride, ClearRefused, ClearSend, ClearSendFails
  <2>2. PICK from \in ClearSteps, to \in ClearSteps \cup {"idle"} : GoTo(w, from, to)
    BY <1>3 DEF Clear, ClearOverride, ClearRefused, ClearSend, ClearSendFails,
                Continue, Return, ClearSteps
  <2>3. \A S \in {PendingHolder, ClearHolder, SettingUp, Handshaking} :
           Held(S) => Held(S)'
    BY <2>2, HeldByOthers
       DEF TransferInv, PendingHolder, ClearHolder, SettingUp, Handshaking, ClearSteps
  <2> QED
    BY <1>1, <2>1, <2>3 DEF TransferInv, OverrideHeld
<1> QED
  BY <1>2, <1>3

LEMMA TransferRecv ==
    ASSUME TransferInv, Recv
    PROVE  TransferInv'
<1>1. TypeOK'
  BY TypeRecv DEF TransferInv
<1>2. UNCHANGED pc
  BY DEF Recv, RecvRequest, RecvClearAck, RecvRejected, RecvAccepted,
         RecvStrayAck, workerVars
<1>3. \A S : Held(S)' <=> Held(S)
  BY <1>2 DEF Held
<1>4. store \in Stores
  BY DEF TransferInv, TypeOK
<1>5. CASE \E i \in Seqs : RecvRequest(i)
  BY <1>1, <1>3, <1>4, <1>5
     DEF TransferInv, OverrideHeld, RecvRequest, NoteUploadItemSent, Stores
<1>6. CASE \E ok \in BOOLEAN : RecvClearAck(ok) \/ RecvStrayAck(ok)
  BY <1>1, <1>3, <1>4, <1>6
     DEF TransferInv, OverrideHeld, RecvClearAck, RecvStrayAck, Stores
<1>7. CASE RecvRejected
  BY <1>1, <1>3, <1>4, <1>7
     DEF TransferInv, OverrideHeld, RecvRejected, MarkUploadFailed, EndUploading, Stores
<1>8. CASE RecvAccepted
  BY <1>1, <1>3, <1>4, <1>8
     DEF TransferInv, OverrideHeld, RecvAccepted, SetUploadDone, EndUploading, Stores
<1> QED
  BY <1>5, <1>6, <1>7, <1>8 DEF Recv

\* What leaves the cache, the override state and the workers alone keeps the invariant.
LEMMA TransferElsewhere ==
    ASSUME TransferInv, UNCHANGED <<store, override, pc>>, TypeOK'
    PROVE  TransferInv'
  BY DEF TransferInv, OverrideHeld, Held

LEMMA TransferNext == ~SendMayFail /\ TransferInv /\ [Next]_vars => TransferInv'
<1> SUFFICES ASSUME ~SendMayFail, TransferInv, [Next]_vars PROVE TransferInv'
  OBVIOUS
<1>1. TypeOK'
  BY TypeNext DEF TransferInv
<1>2. CASE \E w \in Workers : Start(w) \/ Upload(w) \/ Clear(w)
  BY <1>2, TransferStart, TransferUpload, TransferClear
<1>3. CASE Recv
  BY <1>3, TransferRecv
<1>4. CASE FlightController \/ FcRetry \/ FcCancels \/ Lose \/ UNCHANGED vars
  <2>1. UNCHANGED <<store, override, pc>>
    BY <1>4 DEF FlightController, FcClear, FcCount, FcItem, FcStrayItem, FcRejects,
                FcRetry, FcCancels, FcOnly, Lose, workerVars, vars
  <2> QED
    BY <1>1, <2>1, TransferElsewhere
<1> QED
  BY <1>2, <1>3, <1>4 DEF Next

LEMMA TransferImplies == TransferInv => NoAbandonedTransfer
<1> SUFFICES ASSUME TransferInv PROVE NoAbandonedTransfer
  OBVIOUS
<1>1. Held(SettingUp) \/ Held(Handshaking) => Held(OverrideHolder)
  BY DEF Held, SettingUp, Handshaking, OverrideHolder, UploadSteps
<1> QED
  BY <1>1 DEF TransferInv, OverrideHeld, NoAbandonedTransfer

\* If no send fails, no interleaving of uploads, clears, answers and timeouts
\* leaves the cache busy or the override state Uploading with nobody to end it
\* (upload_mission_items, src/src/mission_upload.rs).
THEOREM TransferNeverAbandoned == ~SendMayFail => (Spec => []NoAbandonedTransfer)
<1> SUFFICES ASSUME ~SendMayFail PROVE Spec => []NoAbandonedTransfer
  OBVIOUS
<1>1. TransferInv /\ [Next]_vars => TransferInv'
  BY TransferNext
<1> QED
  BY <1>1, TransferInit, TransferImplies, PTL DEF Spec
-----------------------------------------------------------------------------
(* What an upload reports, with one worker.  The flight controller runs at *)
(* most one session, that of the upload whose worker polls for its result, *)
(* and every frame of it lies between that upload's COUNT and its last ACK. *)

Only == CHOOSE w \in Workers : TRUE
OneWorker == Workers = {Only}

Counts(f) == f.type = "COUNT"
Asks(f) == f.type = "REQUEST"
NoCount == \A f \in Elems(toFC) : ~Counts(f)
OnlyClearAcks == Elems(toGCS) \subseteq {Ack(TRUE)}
LinkEmpty == toFC = << >> /\ toGCS = << >>

\* An upload is in session from its COUNT until its result is known.
Live == pc[Only] = "pollAck" /\ ~store.done /\ ~store.failed
Mission == job[Only]
AllSent == \A i \in Seqs : i < Size[Mission] => i \in store.sent

NotPending == {"claimOverride", "awaitClear", "sendClear", "pollClear", "endClear",
               "setPending", "clearOverride", "clearSend", "clearLocal", "release"}
PastClear == {"setPending", "sendCount", "pollAck", "abandon", "release"}

\* The cache at each step of the worker.
StepInv ==
    /\ pc[Only] \in NotPending => store.pending = NoMission
    /\ pc[Only] \in PastClear => ~store.awaitingClear
    /\ pc[Only] = "sendCount" => /\ store.pending = Mission /\ store.sent = {}
                                 /\ ~store.done /\ ~store.failed
    /\ pc[Only] = "pollAck" =>
          store.pending = IF Live THEN Mission ELSE NoMission
    /\ pc[Only] = "abandon" => LinkEmpty

\* Outside a session nothing of one is left, neither on the link nor at the FC.
QuietInv ==
    ~Live => /\ ~Receiving /\ NoCount /\ OnlyClearAcks
             /\ store.pending # NoMission => store.sent = {} \/ LinkEmpty

\* Until the COUNT arrives only clears are ahead of it and their ACKs under way.
CountInv ==
    Live => \A f \in Elems(toFC) : Counts(f) =>
        /\ f.count = Size[Mission]
        /\ Last(toFC, f)
        /\ ~Receiving /\ OnlyClearAcks /\ store.sent = {}

\* After it only items of the mission are, each of them noted as sent ...
ItemInv ==
    Live /\ NoCount =>
        \A f \in Elems(toFC) : \E i \in store.sent : f = Item(i, Mission)

\* ... and the FC holds what it asked for so far.
SessionInv ==
    Live /\ Receiving =>
        /\ fc.count = Size[Mission]
        /\ fc.next < fc.count
        /\ \A i \in Seqs : i < fc.next => i \in store.sent /\ fc.items[i] = Mission

\* A rejection ends the session, and nothing follows it.  An acceptance does
\* too, unless it answers a clear: then it is ahead of every request.
Rejected == Ack(FALSE) \in Elems(toGCS)
Accepted == Ack(TRUE) \in Elems(toGCS)
FromClear == /\ store.sent = {}
             /\ \A f \in Elems(toGCS) : Asks(f) => ~Ahead(toGCS, f, Ack(TRUE))
Ended(ok) == ~Receiving /\ NoCount /\ Last(toGCS, Ack(ok))
AckInv ==
    Live => /\ Rejected => Ended(FALSE)
            /\ Accepted => \/ FromClear
                           \/ Ended(TRUE) /\ fc.items = ItemsOf(Mission)

\* A reported success is still true when it is read.
DoneInv ==
    pc[Only] = "pollAck" /\ store.done =>
        /\ fc.items = ItemsOf(Mission)
        /\ store.items = fc.items
        /\ ClearAll \notin Elems(toFC)

SuccessInv == /\ TypeOK /\ StepInv /\ QuietInv /\ CountInv /\ ItemInv
              /\ SessionInv /\ AckInv /\ DoneInv

\* Frames of different kinds differ.
LEMMA Distinct ==
    /\ ~Counts(ClearAll)
    /\ \A n : Counts(Count(n)) /\ Count(n).count = n
    /\ \A i, m : ~Counts(Item(i, m)) /\ Item(i, m) # ClearAll
    /\ \A i, m, j, n : Item(i, m) = Item(j, n) => i = j /\ m = n
    /\ \A i : Asks(Request(i))
    /\ ~Asks(Ack(TRUE)) /\ ~Asks(Ack(FALSE))
    /\ \A i : Request(i) # Ack(TRUE) /\ Request(i) # Ack(FALSE)
    /\ Ack(TRUE) # Ack(FALSE)
<1>1. \A i, m : Item(i, m).seq = i /\ Item(i, m).mission = m
  BY DEF Item
<1>2. Ack(TRUE) # Ack(FALSE)
  BY DEF Ack
<1>3. ~Counts(ClearAll) /\ \A n : Counts(Count(n)) /\ Count(n).count = n
  BY DEF Counts, ClearAll, Count
<1>4. \A i, m : Item(i, m).type = "ITEM" /\ ClearAll.type = "CLEAR_ALL"
  BY DEF Item, ClearAll
<1>5. \A i : Asks(Request(i))
  BY DEF Asks, Request
<1>6. ~Asks(Ack(TRUE)) /\ ~Asks(Ack(FALSE))
  BY DEF Asks, Ack
<1>7. \A i, m, j, n : Item(i, m) = Item(j, n) => i = j /\ m = n
  <2> SUFFICES ASSUME NEW i, NEW m, NEW j, NEW n, Item(i, m) = Item(j, n)
               PROVE  i = j /\ m = n
    OBVIOUS
  <2> QED
    BY <1>1
<1>8. \A i, m : ~Counts(Item(i, m)) /\ Item(i, m) # ClearAll
  <2> SUFFICES ASSUME NEW i, NEW m
               PROVE  ~Counts(Item(i, m)) /\ Item(i, m) # ClearAll
    OBVIOUS
  <2>1. ~Counts(Item(i, m))
    BY <1>4 DEF Counts
  <2>2. Item(i, m) # ClearAll
    BY <1>4
  <2> QED
    BY <2>1, <2>2
<1>9. \A i : Request(i) # Ack(TRUE) /\ Request(i) # Ack(FALSE)
  BY <1>5, <1>6
<1> QED
  BY <1>2, <1>3, <1>5, <1>6, <1>7, <1>8, <1>9

\* The queues hold frames, and the first is one of them.
LEMMA LinkTypes ==
    ASSUME TypeOK
    PROVE  /\ toFC \in Seq(FcFrames) /\ toGCS \in Seq(GcsFrames)
           /\ toFC # << >> => Head(toFC) \in Elems(toFC)
           /\ toGCS # << >> => Head(toGCS) \in Elems(toGCS)
           /\ Elems(<< >>) = {}
<1>1. toFC \in Seq(FcFrames) /\ toGCS \in Seq(GcsFrames)
  BY DEF TypeOK
<1> QED
  BY <1>1, QueueTail, QueueElems

\* A frame put on the way to the recv thread is behind all others.
LEMMA Answered ==
    ASSUME TypeOK, NEW x \in GcsFrames, toGCS' = Append(toGCS, x)
    PROVE  /\ Elems(toGCS') = Elems(toGCS) \cup {x}
           /\ \A f, g : Ahead(toGCS', f, g) =>
                 f \in Elems(toGCS) /\ (g = x \/ Ahead(toGCS, f, g))
           /\ \A f : f \notin Elems(toGCS) => Last(toGCS', f)
<1>1. toGCS \in Seq(GcsFrames)
  BY DEF TypeOK
<1>2. \A f, g : Ahead(toGCS, f, g) => f \in Elems(toGCS)
  BY DEF Ahead, Elems
<1> QED
  BY <1>1, <1>2, QueueAppend

LEMMA Acks == Ack(TRUE) \in GcsFrames /\ Ack(FALSE) \in GcsFrames
  BY DEF GcsFrames
-----------------------------------------------------------------------------
(* Steps that only take frames off the link.                               *)

LEMMA Shortened ==
    ASSUME SuccessInv, TypeOK', UNCHANGED <<store, pc, job, fc>>,
           Taken(toFC, toFC'), Taken(toGCS, toGCS')
    PROVE  SuccessInv'
<1>1. /\ Elems(toFC') \subseteq Elems(toFC) /\ Elems(toGCS') \subseteq Elems(toGCS)
      /\ \A f : Last(toFC, f) => Last(toFC', f)
      /\ \A f : Last(toGCS, f) => Last(toGCS', f)
      /\ \A f, g : Ahead(toGCS', f, g) => Ahead(toGCS, f, g)
      /\ \A f \in Elems(toFC) : Last(toFC, f) /\ f \notin Elems(toFC') => Elems(toFC') = {}
  <2>1. toFC \in Seq(FcFrames) /\ toGCS \in Seq(GcsFrames)
    BY LinkTypes DEF SuccessInv
  <2> QED
    BY <2>1, TakenFacts
<1>2. /\ Live' = Live /\ Mission' = Mission /\ Receiving' = Receiving
      /\ (LinkEmpty => LinkEmpty')
      /\ (NoCount => NoCount') /\ (OnlyClearAcks => OnlyClearAcks')
  <2>1. Live' = Live /\ Mission' = Mission /\ Receiving' = Receiving
    BY DEF Live, Mission, Receiving
  <2>2. LinkEmpty => LinkEmpty'
    BY DEF LinkEmpty, Taken
  <2>3. (NoCount => NoCount') /\ (OnlyClearAcks => OnlyClearAcks')
    BY <1>1 DEF NoCount, OnlyClearAcks
  <2> QED
    BY <2>1, <2>2, <2>3
<1>3. StepInv'
  BY <1>2 DEF SuccessInv, StepInv
<1>4. QuietInv'
  BY <1>2 DEF SuccessInv, QuietInv
<1>5. CountInv'
  BY <1>1, <1>2 DEF SuccessInv, CountInv
<1>6. ItemInv'
  <2>1. CASE Live /\ ~NoCount /\ NoCount'
    <3>1. PICK f \in Elems(toFC) : Counts(f)
      BY <2>1 DEF NoCount
    <3>2. f \notin Elems(toFC')
      BY <2>1, <3>1 DEF NoCount
    <3>3. Elems(toFC') = {}
      BY <1>1, <2>1, <3>1, <3>2 DEF SuccessInv, CountInv
    <3> QED
      BY <3>3 DEF ItemInv
  <2>2. CASE NoCount
    BY <1>1, <1>2, <2>2 DEF SuccessInv, ItemInv
  <2> QED
    BY <1>2, <2>1, <2>2 DEF ItemInv
<1>7. SessionInv'
  BY <1>2 DEF SuccessInv, SessionInv
<1>8. AckInv'
  <2>1. /\ (Rejected' => Rejected) /\ (Accepted' => Accepted)
        /\ \A ok \in BOOLEAN : Ended(ok) => Ended(ok)'
    BY <1>1, <1>2 DEF Rejected, Accepted, Ended
  <2>2. FromClear => FromClear'
    BY <1>1 DEF FromClear
  <2> QED
    BY <1>2, <2>1, <2>2 DEF SuccessInv, AckInv
<1>9. DoneInv'
  BY <1>1, <1>2 DEF SuccessInv, DoneInv
<1> QED
  BY <1>3, <1>4, <1>5, <1>6, <1>7, <1>8, <1>9 DEF SuccessInv
-----------------------------------------------------------------------------
(* The flight controller's steps.                                          *)

\* Outside a session it only clears, or drops an item out of turn.
LEMMA QuietFlightController ==
    ASSUME SuccessInv, ~Live, FlightController \/ FcRetry \/ FcCancels, TypeOK'
    PROVE  SuccessInv'
<1>1. /\ ~Receiving /\ NoCount /\ OnlyClearAcks
      /\ store.pending # NoMission => store.sent = {} \/ LinkEmpty
  BY DEF SuccessInv, QuietInv
<1>2. ASSUME NEW f, FcTakes(f) PROVE f \in Elems(toFC) /\ ~Counts(f)
  BY <1>1, <1>2, LinkTypes DEF FcTakes, SuccessInv, NoCount
<1>3. FcClear \/ \E i \in Seqs, m \in Missions : FcStrayItem(i, m)
  <2>1. ~FcRetry /\ ~FcCancels /\ ~\E i \in Seqs, m \in Missions : FcItem(i, m)
    BY <1>1 DEF FcRetry, FcCancels, FcItem
  <2>2. \A n : ~FcTakes(Count(n))
    BY <1>2, Distinct
  <2>3. ~FcRejects
    BY <1>1, <2>2 DEF FcRejects
  <2>4. ~\E n \in 1 .. MaxSize : FcCount(n)
    BY <2>2 DEF FcCount
  <2> QED
    BY <2>1, <2>3, <2>4 DEF FlightController
<1>4. CASE \E i \in Seqs, m \in Missions : FcStrayItem(i, m)
  <2>1. UNCHANGED <<store, pc, job, fc, toGCS>> /\ Taken(toFC, toFC')
    BY <1>4 DEF FcStrayItem, FcTakes, FcOnly, workerVars, Taken
  <2> QED
    BY <2>1, Shortened DEF Taken
<1>5. CASE FcClear
  <2>1. /\ UNCHANGED <<store, pc, job>>
        /\ toFC # << >> /\ toFC' = Tail(toFC)
        /\ toGCS' = Append(toGCS, Ack(TRUE))
        /\ fc' = [fc EXCEPT !.items = NoItems]
    BY <1>1, <1>5 DEF FcClear, FcTakes, FcSends, FcOnly, workerVars
  <2>2. Elems(toFC') \subseteq Elems(toFC)
    BY <2>1, LinkTypes, QueueTail DEF SuccessInv
  <2>3. Elems(toGCS') = Elems(toGCS) \cup {Ack(TRUE)}
    BY <2>1, LinkTypes, FrameTypes, QueueAppend DEF SuccessInv
  <2>4. ClearAll \in Elems(toFC)
    BY <1>2, <1>5 DEF FcClear
  <2>5. ~Live' /\ ~Receiving' /\ ~LinkEmpty
    <3>1. fc'.count = fc.count
      BY <2>1 DEF SuccessInv, TypeOK, FcStates
    <3> QED
      BY <1>1, <2>1, <3>1 DEF Live, Receiving, LinkEmpty
  <2>6. StepInv'
    BY <2>1, <2>5 DEF SuccessInv, StepInv, Live, Mission
  <2>7. QuietInv'
    BY <1>1, <2>1, <2>2, <2>3, <2>5 DEF QuietInv, NoCount, OnlyClearAcks
  <2>8. DoneInv'
    BY <2>1, <2>4 DEF SuccessInv, DoneInv
  <2> QED
    BY <2>5, <2>6, <2>7, <2>8
       DEF SuccessInv, CountInv, ItemInv, SessionInv, AckInv
<1> QED
  BY <1>3, <1>4, <1>5

\* In a session, a clear at the head of the queue is one sent before the COUNT.
LEMMA LiveClear ==
    ASSUME SuccessInv, Live, FcClear, TypeOK'
    PROVE  SuccessInv'
<1>1. /\ UNCHANGED <<store, pc, job>>
      /\ toFC # << >> /\ Head(toFC) = ClearAll /\ toFC' = Tail(toFC)
  BY DEF FcClear, FcTakes, FcOnly, workerVars
<1>2. ClearAll \in Elems(toFC)
  BY <1>1, LinkTypes DEF SuccessInv
<1>3. PICK f \in Elems(toFC) : Counts(f)
  BY <1>2, Distinct DEF SuccessInv, ItemInv, NoCount
<1>4. ~Receiving /\ OnlyClearAcks /\ store.sent = {} /\ f.count = Size[Mission]
  BY <1>3 DEF SuccessInv, CountInv
<1>5. toGCS' = Append(toGCS, Ack(TRUE)) /\ fc' = [fc EXCEPT !.items = NoItems]
  BY <1>4 DEF FcClear, FcSends
<1>6. Elems(toFC) = {ClearAll} \cup Elems(toFC') /\ \A g : Last(toFC, g) => Last(toFC', g)
  BY <1>1, LinkTypes, QueueElems, QueueTail DEF SuccessInv
<1>7. Elems(toGCS') \subseteq {Ack(TRUE)}
  BY <1>4, <1>5, Acks, Answered DEF SuccessInv, OnlyClearAcks
<1>8. Live' /\ Mission' = Mission /\ ~Receiving' /\ ~NoCount'
  <2>1. fc'.count = fc.count
    BY <1>5 DEF SuccessInv, TypeOK, FcStates
  <2>2. f \in Elems(toFC')
    BY <1>3, <1>6, Distinct
  <2> QED
    BY <1>1, <1>3, <1>4, <2>1, <2>2 DEF Live, Mission, Receiving, NoCount
<1>9. StepInv'
  BY <1>1, <1>8 DEF SuccessInv, StepInv, Live
<1>10. CountInv'
  BY <1>1, <1>4, <1>6, <1>7, <1>8 DEF SuccessInv, CountInv, OnlyClearAcks
<1>11. AckInv'
  <2>1. ~Rejected'
    BY <1>7, Distinct DEF Rejected
  <2>2. FromClear'
    BY <1>1, <1>4, <1>7, Distinct DEF FromClear
  <2> QED
    BY <2>1, <2>2 DEF AckInv
<1>12. DoneInv'
  BY <1>8 DEF DoneInv, Live
<1> QED
  BY <1>8, <1>9, <1>10, <1>11, <1>12
     DEF SuccessInv, QuietInv, ItemInv, SessionInv

\* The COUNT opens the session: nothing else is on the way to the FC then.
LEMMA LiveCountTaken ==
    ASSUME SuccessInv, NEW f, Counts(f), FcTakes(f)
    PROVE  /\ Live => /\ Elems(toFC') = {} /\ OnlyClearAcks /\ store.sent = {}
                      /\ f.count = Size[Mission] /\ ~Receiving
           /\ Live
<1>1. f \in Elems(toFC) /\ toFC # << >> /\ Head(toFC) = f /\ toFC' = Tail(toFC)
  BY LinkTypes DEF SuccessInv, FcTakes
<1>2. Live
  BY <1>1 DEF SuccessInv, QuietInv, NoCount
<1>3. Last(toFC, f) /\ OnlyClearAcks /\ store.sent = {} /\ f.count = Size[Mission] /\ ~Receiving
  BY <1>1, <1>2 DEF SuccessInv, CountInv
<1>4. Elems(toFC') = {}
  BY <1>1, <1>3, LinkTypes, QueueTail DEF SuccessInv
<1> QED
  BY <1>2, <1>3, <1>4

\* The COUNT opens the session with nothing of it under way.
LEMMA LiveCount ==
    ASSUME SuccessInv, Live, NEW n \in 1 .. MaxSize, FcCount(n), TypeOK'
    PROVE  SuccessInv'
<1>1. /\ UNCHANGED <<store, pc, job>> /\ FcTakes(Count(n))
      /\ toGCS' = Append(toGCS, Request(0))
      /\ fc' = [fc EXCEPT !.count = n, !.next = 0]
  BY DEF FcCount, FcOnly, FcSends, workerVars
<1>2. /\ Elems(toFC') = {} /\ OnlyClearAcks /\ store.sent = {}
      /\ n = Size[Mission]
  <2>1. Counts(Count(n)) /\ Count(n).count = n
    BY Distinct
  <2> QED
    BY <1>1, <2>1, LiveCountTaken
<1>3. /\ Elems(toGCS') = Elems(toGCS) \cup {Request(0)}
      /\ \A f, g : Ahead(toGCS', f, g) =>
            f \in Elems(toGCS) /\ (g = Request(0) \/ Ahead(toGCS, f, g))
  <2>1. Request(0) \in GcsFrames
    BY FrameTypes, ItemListTypes
  <2> QED
    BY <1>1, <2>1, Answered DEF SuccessInv
<1>4. Live' /\ Mission' = Mission
  BY <1>1 DEF Live, Mission
<1>5. fc'.count = n /\ fc'.next = 0
  BY <1>1 DEF SuccessInv, TypeOK, FcStates
<1>6. StepInv'
  BY <1>1, <1>4 DEF SuccessInv, StepInv, Live
<1>7. CountInv' /\ ItemInv'
  BY <1>2 DEF CountInv, ItemInv
<1>8. SessionInv'
  BY <1>2, <1>4, <1>5 DEF SessionInv, Seqs
<1>9. AckInv'
  <2>1. ~Rejected'
    BY <1>2, <1>3, Distinct DEF Rejected, OnlyClearAcks
  <2>2. \A f \in Elems(toGCS') : Asks(f) => ~Ahead(toGCS', f, Ack(TRUE))
    <3> SUFFICES ASSUME NEW f \in Elems(toGCS'), Asks(f), Ahead(toGCS', f, Ack(TRUE))
                 PROVE  FALSE
      OBVIOUS
    <3>1. Ack(TRUE) # Request(0)
      BY Distinct
    <3>2. f \in Elems(toGCS)
      BY <1>3, <3>1
    <3> QED
      BY <1>2, <3>2, Distinct DEF OnlyClearAcks
  <2>3. FromClear'
    BY <1>1, <1>2, <2>2 DEF FromClear
  <2> QED
    BY <2>1, <2>3 DEF AckInv
<1>10. DoneInv'
  BY <1>4 DEF DoneInv, Live
<1> QED
  BY <1>4, <1>6, <1>7, <1>8, <1>9, <1>10 DEF SuccessInv, QuietInv

\* While the session is open no end of it is under way, and no COUNT.
LEMMA OpenSession ==
    ASSUME SuccessInv, Receiving
    PROVE  /\ Live /\ NoCount /\ ~Rejected
           /\ Accepted => FromClear
<1>1. Live
  BY DEF SuccessInv, QuietInv
<1>2. NoCount
  BY <1>1 DEF SuccessInv, CountInv, NoCount
<1> QED
  BY <1>1, <1>2 DEF SuccessInv, AckInv, Ended

\* The FC asks for an item: after any clear's ACK.
LEMMA LiveAsks ==
    ASSUME SuccessInv, Receiving, TypeOK', NEW i \in Seqs,
           UNCHANGED <<store, pc, job>>, Taken(toFC, toFC'),
           toGCS' = Append(toGCS, Request(i)), SessionInv', Receiving'
    PROVE  SuccessInv'
<1>1. /\ Live /\ NoCount /\ ~Rejected
      /\ Accepted => FromClear
  BY OpenSession
<1>2. Live' /\ Mission' = Mission
  BY <1>1 DEF Live, Mission
<1>3. Elems(toFC') \subseteq Elems(toFC)
  BY LinkTypes, TakenFacts DEF SuccessInv
<1>4. /\ Elems(toGCS') = Elems(toGCS) \cup {Request(i)}
      /\ \A f, g : Ahead(toGCS', f, g) =>
            f \in Elems(toGCS) /\ (g = Request(i) \/ Ahead(toGCS, f, g))
  BY FrameTypes, Answered DEF SuccessInv
<1>5. NoCount'
  BY <1>1, <1>3 DEF NoCount
<1>6. StepInv'
  BY <1>1, <1>2 DEF SuccessInv, StepInv, Live
<1>7. CountInv'
  BY <1>5 DEF CountInv, NoCount
<1>8. ItemInv'
  BY <1>1, <1>2, <1>3 DEF SuccessInv, ItemInv
<1>9. AckInv'
  <2>1. ~Rejected' /\ (Accepted' => Accepted)
    BY <1>1, <1>4, Distinct DEF Rejected, Accepted
  <2>2. ASSUME Accepted' PROVE FromClear'
    <3>1. FromClear /\ Accepted
      BY <1>1, <2>1, <2>2
    <3> SUFFICES ASSUME NEW f \in Elems(toGCS'), Asks(f), Ahead(toGCS', f, Ack(TRUE))
                 PROVE  FALSE
      BY <3>1 DEF FromClear
    <3>2. Ack(TRUE) # Request(i)
      BY Distinct
    <3>3. f \in Elems(toGCS) /\ Ahead(toGCS, f, Ack(TRUE))
      BY <1>4, <3>2
    <3> QED
      BY <3>1, <3>3 DEF FromClear
  <2> QED
    BY <2>1, <2>2 DEF AckInv
<1>10. DoneInv'
  BY <1>2 DEF DoneInv, Live
<1> QED
  BY <1>2, <1>6, <1>7, <1>8, <1>9, <1>10 DEF SuccessInv, QuietInv

\* The FC ends the session with a rejection.
LEMMA LiveRejects ==
    ASSUME SuccessInv, FcRejects \/ FcCancels, TypeOK'
    PROVE  SuccessInv'
<1>1. /\ UNCHANGED <<store, pc, job>> /\ Taken(toFC, toFC')
      /\ toGCS' = Append(toGCS, Ack(FALSE))
      /\ fc' = [fc EXCEPT !.count = 0, !.next = 0]
  BY DEF FcRejects, FcCancels, FcTakes, FcSends, FcOnly, workerVars, Taken
<1>2. /\ Live /\ ~Rejected /\ (Accepted => FromClear)
      /\ NoCount' /\ (NoCount \/ Elems(toFC') = {})
  <2>1. CASE Receiving
    <3>1. Elems(toFC') \subseteq Elems(toFC)
      BY <1>1, LinkTypes, TakenFacts DEF SuccessInv
    <3> QED
      BY <2>1, <3>1, OpenSession DEF NoCount
  <2>2. CASE \E n : FcTakes(Count(n))
    <3>1. PICK n : FcTakes(Count(n))
      BY <2>2
    <3>2. Live /\ Elems(toFC') = {} /\ OnlyClearAcks /\ store.sent = {}
      BY <3>1, Distinct, LiveCountTaken
    <3>3. ~Rejected /\ FromClear /\ NoCount'
      BY <3>2, Distinct DEF Rejected, FromClear, OnlyClearAcks, NoCount
    <3> QED
      BY <3>2, <3>3
  <2> QED
    BY <2>1, <2>2 DEF FcRejects, FcCancels
<1>3. Live' /\ Mission' = Mission /\ ~Receiving'
  <2>1. fc'.count = 0
    BY <1>1 DEF SuccessInv, TypeOK, FcStates
  <2> QED
    BY <1>1, <1>2, <2>1 DEF Live, Mission, Receiving
<1>4. Elems(toFC') \subseteq Elems(toFC)
  BY <1>1, LinkTypes, TakenFacts DEF SuccessInv
<1>5. /\ Elems(toGCS') = Elems(toGCS) \cup {Ack(FALSE)}
      /\ \A f, g : Ahead(toGCS', f, g) =>
            f \in Elems(toGCS) /\ (g = Ack(FALSE) \/ Ahead(toGCS, f, g))
      /\ \A f : f \notin Elems(toGCS) => Last(toGCS', f)
  BY <1>1, Acks, Answered DEF SuccessInv
<1>6. StepInv'
  BY <1>1, <1>2, <1>3 DEF SuccessInv, StepInv, Live
<1>7. CountInv'
  BY <1>2 DEF CountInv, NoCount
<1>8. ItemInv'
  BY <1>1, <1>2, <1>3, <1>4 DEF SuccessInv, ItemInv
<1>9. AckInv'
  <2>1. Ended(FALSE)'
    BY <1>2, <1>3, <1>5 DEF Ended, Rejected
  <2>2. ASSUME Accepted' PROVE FromClear'
    <3>1. FromClear /\ Accepted
      BY <1>2, <1>5, <2>2, Distinct DEF Accepted
    <3> SUFFICES ASSUME NEW f \in Elems(toGCS'), Asks(f), Ahead(toGCS', f, Ack(TRUE))
                 PROVE  FALSE
      BY <1>1, <3>1 DEF FromClear
    <3>2. f \in Elems(toGCS) /\ Ahead(toGCS, f, Ack(TRUE))
      BY <1>5, Distinct
    <3> QED
      BY <3>1, <3>2 DEF FromClear
  <2> QED
    BY <2>1, <2>2 DEF AckInv
<1>10. DoneInv'
  BY <1>3 DEF DoneInv, Live
<1> QED
  BY <1>3, <1>6, <1>7, <1>8, <1>9, <1>10 DEF SuccessInv, QuietInv, SessionInv

\* The item the FC waits for fills the slot it asks about ...
LEMMA LiveItem ==
    ASSUME SuccessInv, NEW i \in Seqs, NEW m \in Missions, FcItem(i, m), TypeOK'
    PROVE  SuccessInv'
<1>1. /\ UNCHANGED <<store, pc, job>> /\ FcTakes(Item(i, m)) /\ Taken(toFC, toFC')
      /\ Receiving /\ i = fc.next
  BY DEF FcItem, FcTakes, FcOnly, workerVars, Taken
<1>2. /\ Live /\ NoCount /\ ~Rejected /\ (Accepted => FromClear)
      /\ fc.count = Size[Mission] /\ fc.next < fc.count
      /\ \A k \in Seqs : k < fc.next => k \in store.sent /\ fc.items[k] = Mission
  BY <1>1, OpenSession DEF SuccessInv, SessionInv
<1>3. i \in store.sent /\ m = Mission
  <2>1. Item(i, m) \in Elems(toFC)
    BY <1>1, LinkTypes DEF FcTakes, SuccessInv
  <2>2. PICK j \in store.sent : Item(i, m) = Item(j, Mission)
    BY <1>2, <2>1 DEF SuccessInv, ItemInv
  <2> QED
    BY <2>2, Distinct
<1>4. /\ fc.count \in Nat /\ fc.next \in Nat /\ fc.items \in ItemLists
      /\ fc \in FcStates
  BY DEF SuccessInv, TypeOK, FcStates, Seqs
<1>5. CASE i + 1 < fc.count
  <2>1. /\ toGCS' = Append(toGCS, Request(i + 1))
        /\ fc' = [fc EXCEPT !.items[i] = m, !.next = i + 1]
    BY <1>5 DEF FcItem, FcSends
  <2>2. i + 1 \in Seqs
    BY <1>2, <1>4, <1>5, SizeAssumption DEF SuccessInv, TypeOK, FcStates, Seqs
  <2>3. /\ fc'.count = fc.count /\ fc'.next = i + 1
        /\ \A k \in Seqs : fc'.items[k] = IF k = i THEN m ELSE fc.items[k]
    BY <1>4, <2>1 DEF FcStates, ItemLists
  <2>4. Receiving' /\ Mission' = Mission
    BY <1>1, <2>3 DEF Receiving, Mission
  <2>5. SessionInv'
    <3> SUFFICES ASSUME NEW k \in Seqs, k < i + 1
                 PROVE  k \in store.sent /\ fc'.items[k] = Mission
      BY <1>1, <1>2, <1>5, <2>3, <2>4 DEF SessionInv
    <3>1. k = i \/ k < fc.next
      BY <1>1, <1>4 DEF Seqs
    <3>2. k < fc.next => k # i
      BY <1>1, <1>4
    <3> QED
      BY <1>2, <1>3, <2>3, <3>1, <3>2
  <2> QED
    BY <1>1, <2>1, <2>2, <2>4, <2>5, LiveAsks
<1>6. CASE ~(i + 1 < fc.count)
  <2> DEFINE list == [k \in Seqs |-> CASE k < i -> fc.items[k]
                                       [] k = i -> m
                                       [] OTHER -> NoMission]
  <2>1. toGCS' = Append(toGCS, Ack(TRUE)) /\ fc' = [items |-> list, count |-> 0, next |-> 0]
    BY <1>6 DEF FcItem, FcSends
  <2>2. list = ItemsOf(Mission)
    <3>1. Size[Mission] = i + 1
      BY <1>1, <1>2, <1>4, <1>6
    <3>2. ASSUME NEW k \in Seqs
          PROVE  list[k] = IF k < Size[Mission] THEN Mission ELSE NoMission
      <4>1. CASE k < i
        BY <1>1, <1>2, <1>4, <3>1, <4>1 DEF Seqs
      <4>2. CASE k = i
        BY <1>1, <1>3, <1>4, <3>1, <4>2 DEF Seqs
      <4>3. CASE k > i
        BY <1>1, <1>4, <3>1, <4>3 DEF Seqs
      <4> QED
        BY <1>1, <1>4, <4>1, <4>2, <4>3 DEF Seqs
    <3> QED
      BY <3>2 DEF ItemsOf
  <2> HIDE DEF list
  <2>3. fc'.items = ItemsOf(Mission) /\ ~Receiving' /\ Live' /\ Mission' = Mission
    <3>1. fc'.count = 0 /\ fc'.items = list
      BY <2>1
    <3> QED
      BY <1>1, <1>2, <2>2, <3>1 DEF Receiving, Live, Mission
  <2>4. /\ Elems(toGCS') = Elems(toGCS) \cup {Ack(TRUE)}
        /\ \A f : f \notin Elems(toGCS) => Last(toGCS', f)
    BY <2>1, Acks, Answered DEF SuccessInv
  <2>5. Elems(toFC') \subseteq Elems(toFC)
    BY <1>1, LinkTypes, TakenFacts DEF SuccessInv
  <2>6. NoCount'
    BY <1>2, <2>5 DEF NoCount
  <2>7. StepInv'
    BY <1>1, <1>2, <2>3 DEF SuccessInv, StepInv, Live
  <2>8. CountInv' /\ ItemInv'
    <3>1. CountInv'
      BY <2>6 DEF CountInv, NoCount
    <3>2. ItemInv'
      BY <1>1, <1>2, <2>3, <2>5 DEF SuccessInv, ItemInv
    <3> QED
      BY <3>1, <3>2
  <2>9. AckInv'
    <3>1. ~Rejected'
      BY <1>2, <2>4, Distinct DEF Rejected
    <3>2. Ack(TRUE) \notin Elems(toGCS)
      BY <1>2, <1>3 DEF Accepted, FromClear
    <3>3. Ended(TRUE)'
      BY <2>3, <2>4, <2>6, <3>2 DEF Ended
    <3> QED
      BY <2>3, <3>1, <3>3 DEF AckInv
  <2>10. DoneInv'
    BY <2>3 DEF DoneInv, Live
  <2> QED
    BY <2>3, <2>7, <2>8, <2>9, <2>10 DEF SuccessInv, QuietInv, SessionInv
<1> QED
  BY <1>5, <1>6

LEMMA SuccessFlightController ==
    ASSUME SuccessInv, FlightController \/ FcRetry \/ FcCancels, TypeOK'
    PROVE  SuccessInv'
<1>1. CASE ~Live
  BY <1>1, QuietFlightController
<1>2. CASE Live /\ FcClear
  BY <1>2, LiveClear
<1>3. CASE Live /\ \E n \in 1 .. MaxSize : FcCount(n)
  BY <1>3, LiveCount
<1>4. CASE \E i \in Seqs, m \in Missions : FcItem(i, m)
  BY <1>4, LiveItem
<1>5. CASE \E i \in Seqs, m \in Missions : FcStrayItem(i, m)
  <2>1. UNCHANGED <<store, pc, job, fc, toGCS>> /\ Taken(toFC, toFC')
    BY <1>5 DEF FcStrayItem, FcTakes, FcOnly, workerVars, Taken
  <2> QED
    BY <2>1, Shortened DEF Taken
<1>6. CASE FcRejects \/ FcCancels
  BY <1>6, LiveRejects
<1>7. CASE FcRetry
  <2>1. /\ Receiving /\ UNCHANGED <<store, pc, job, fc, toFC>>
        /\ toGCS' = Append(toGCS, Request(fc.next)) /\ fc.next \in Seqs
    BY <1>7 DEF FcRetry, FcSends, FcOnly, workerVars, SuccessInv, TypeOK, FcStates
  <2>2. SessionInv' /\ Receiving'
    BY <2>1 DEF SuccessInv, SessionInv, Receiving, Live, Mission
  <2> QED
    BY <2>1, <2>2, LiveAsks DEF Taken
<1> QED
  BY <1>1, <1>2, <1>3, <1>4, <1>5, <1>6, <1>7 DEF FlightController
-----------------------------------------------------------------------------
(* The recv thread's steps.                                                *)

\* A request means a session is or was open; its answer is noted as sent.
LEMMA SuccessRequest ==
    ASSUME SuccessInv, NEW i \in Seqs, RecvRequest(i), TypeOK'
    PROVE  SuccessInv'
<1>1. /\ UNCHANGED <<pc, job, fc>> /\ Taken(toGCS, toGCS')
      /\ toGCS # << >> /\ Head(toGCS) = Request(i) /\ toGCS' = Tail(toGCS)
      /\ Request(i) \in Elems(toGCS)
  BY LinkTypes DEF RecvRequest, Receives, workerVars, Taken, SuccessInv
<1>2. CASE UNCHANGED <<toFC, store>>
  BY <1>1, <1>2, Shortened DEF Taken
<1>3. CASE ~UNCHANGED <<toFC, store>>
  <2>1. /\ TakeUploadItem(store, i)
        /\ toFC' = Append(toFC, Item(i, store.pending))
        /\ store' = NoteUploadItemSent(store, i)
    BY <1>3 DEF RecvRequest
  <2>2. Live /\ NoCount
    <3>1. ~OnlyClearAcks
      BY <1>1, Distinct DEF OnlyClearAcks
    <3> QED
      BY <3>1 DEF SuccessInv, QuietInv, CountInv, NoCount
  <2>3. store.pending = Mission /\ Mission \in Missions
    <3>1. store.pending = Mission
      BY <2>2 DEF SuccessInv, StepInv, Live
    <3>2. store.pending \in Missions
      BY <2>1 DEF SuccessInv, TypeOK, Stores, TakeUploadItem
    <3> QED
      BY <3>1, <3>2
  <2>4. /\ store'.sent = store.sent \cup {i} /\ store'.pending = store.pending
        /\ store'.done = store.done /\ store'.failed = store.failed
        /\ store'.awaitingClear = store.awaitingClear
    BY <2>1 DEF NoteUploadItemSent, SuccessInv, TypeOK, Stores
  <2>5. Elems(toFC') = Elems(toFC) \cup {Item(i, Mission)}
    BY <2>1, <2>3, LinkTypes, FrameTypes, QueueAppend DEF SuccessInv
  <2>6. /\ Elems(toGCS') \subseteq Elems(toGCS)
        /\ \A f : Last(toGCS, f) => Last(toGCS', f)
        /\ \A g \in Elems(toGCS') : Ahead(toGCS, Request(i), g)
    BY <1>1, LinkTypes, QueueTail DEF SuccessInv
  <2>7. Live' /\ Mission' = Mission /\ NoCount' /\ Receiving' = Receiving
    BY <1>1, <2>2, <2>4, <2>5, Distinct DEF Live, Mission, NoCount, Receiving
  <2>8. StepInv'
    BY <1>1, <2>2, <2>4, <2>7 DEF SuccessInv, StepInv, Live
  <2>9. CountInv' /\ ItemInv'
    <3>1. CountInv'
      BY <2>7 DEF CountInv, NoCount
    <3>2. ItemInv'
      BY <2>2, <2>4, <2>5, <2>7 DEF SuccessInv, ItemInv
    <3> QED
      BY <3>1, <3>2
  <2>10. SessionInv'
    BY <1>1, <2>2, <2>4, <2>7 DEF SuccessInv, SessionInv
  <2>11. AckInv'
    <3>1. Rejected' => Rejected
      BY <2>6 DEF Rejected
    <3>2. \A ok \in BOOLEAN : Ended(ok) => Ended(ok)'
      BY <2>6, <2>7 DEF Ended
    <3>3. Accepted' => Accepted /\ ~FromClear
      BY <1>1, <2>6, Distinct DEF Accepted, FromClear
    <3> QED
      BY <1>1, <2>2, <2>7, <3>1, <3>2, <3>3 DEF SuccessInv, AckInv
  <2>12. DoneInv'
    BY <2>7 DEF DoneInv, Live
  <2> QED
    BY <2>7, <2>8, <2>9, <2>10, <2>11, <2>12 DEF SuccessInv, QuietInv
<1> QED
  BY <1>2, <1>3

\* The end of a session: its last ACK was the last frame of the link's side.
LEMMA LastAck ==
    ASSUME SuccessInv, NEW ok \in BOOLEAN, Receives(Ack(ok)), Ended(ok)
    PROVE  Elems(toGCS') = {}
  BY LinkTypes, QueueTail DEF SuccessInv, Receives, Ended

\* A rejection belongs to the session: it ends with the cache not done.
LEMMA SuccessRejected ==
    ASSUME SuccessInv, RecvRejected, TypeOK'
    PROVE  SuccessInv' /\ Live
<1>1. UNCHANGED <<pc, job, toFC, fc>> /\ Receives(Ack(FALSE)) /\ store' = MarkUploadFailed(store)
  BY DEF RecvRejected, workerVars
<1>2. Rejected
  BY <1>1, LinkTypes DEF Receives, Rejected, SuccessInv
<1>3. Live
  BY <1>2, Distinct DEF Rejected, SuccessInv, QuietInv, OnlyClearAcks
<1>4. Ended(FALSE)
  BY <1>2, <1>3 DEF SuccessInv, AckInv
<1>5. Elems(toGCS') = {}
  BY <1>1, <1>4, LastAck
<1>6. /\ store'.pending = NoMission /\ store'.failed /\ store'.done = store.done
      /\ store'.awaitingClear = store.awaitingClear
  BY <1>1 DEF MarkUploadFailed, SuccessInv, TypeOK, Stores
<1>7. ~Live' /\ ~Receiving' /\ NoCount'
  BY <1>1, <1>4, <1>6 DEF Live, Ended, Receiving, NoCount
<1>8. StepInv'
  BY <1>1, <1>3, <1>6, <1>7 DEF SuccessInv, StepInv, Live
<1>9. QuietInv'
  BY <1>5, <1>6, <1>7 DEF QuietInv, OnlyClearAcks
<1>10. DoneInv'
  BY <1>3, <1>6 DEF DoneInv, Live
<1> QED
  BY <1>3, <1>7, <1>8, <1>9, <1>10 DEF SuccessInv, CountInv, ItemInv, SessionInv, AckInv

\* The acceptance that the recv thread believes is the one of the session, not one
\* left over from a clear: the FC has the mission then.
LEMMA AcceptedTruth ==
    ASSUME SuccessInv, RecvAccepted
    PROVE  /\ Live /\ Ended(TRUE) /\ store.pending = Mission
           /\ fc.items = ItemsOf(Mission)
<1>1. Receives(Ack(TRUE)) /\ UploadReadyForAck(store)
  BY DEF RecvAccepted
<1>2. Accepted /\ ~LinkEmpty
  BY <1>1, LinkTypes DEF Receives, Accepted, SuccessInv, LinkEmpty
<1>3. store.pending \in Missions /\ store.sent # {}
  <2>1. store.pending \in Missions
    BY <1>1 DEF UploadReadyForAck, SuccessInv, TypeOK, Stores
  <2>2. 0 \in Seqs /\ 0 < Size[store.pending]
    BY <2>1, SizeAssumption, ItemListTypes
  <2> QED
    BY <1>1, <2>1, <2>2 DEF UploadReadyForAck
<1>4. Live
  BY <1>2, <1>3, MissionsAssumption DEF SuccessInv, QuietInv
<1>5. store.pending = Mission
  BY <1>4 DEF SuccessInv, StepInv, Live
<1> QED
  BY <1>2, <1>3, <1>4, <1>5 DEF SuccessInv, AckInv, FromClear

LEMMA SuccessAccepted ==
    ASSUME SuccessInv, RecvAccepted, TypeOK'
    PROVE  SuccessInv'
<1>1. /\ UNCHANGED <<pc, job, toFC, fc>> /\ Receives(Ack(TRUE))
      /\ store' = SetUploadDone([store EXCEPT !.items = ItemsOf(store.pending),
                                              !.currentSeq = 0])
  BY DEF RecvAccepted, workerVars
<1>2. /\ Live /\ Ended(TRUE) /\ store.pending = Mission
      /\ fc.items = ItemsOf(Mission)
  BY AcceptedTruth
<1>3. Elems(toGCS') = {}
  BY <1>1, <1>2, LastAck
<1>4. /\ store'.pending = NoMission /\ store'.done /\ ~store'.failed
      /\ ~store'.awaitingClear /\ store'.items = ItemsOf(Mission)
  BY <1>1, <1>2 DEF SetUploadDone, SuccessInv, TypeOK, Stores
<1>5. ~Live' /\ ~Receiving' /\ NoCount' /\ Mission' = Mission
  BY <1>1, <1>2, <1>4 DEF Live, Ended, Receiving, NoCount, Mission
<1>6. StepInv'
  BY <1>1, <1>2, <1>4, <1>5 DEF SuccessInv, StepInv, Live
<1>7. QuietInv'
  BY <1>3, <1>4, <1>5 DEF QuietInv, OnlyClearAcks
<1>8. DoneInv'
  <2>1. ClearAll \notin Elems(toFC)
    BY <1>2, Distinct DEF SuccessInv, ItemInv, Ended
  <2> QED
    BY <1>1, <1>2, <1>4, <1>5, <2>1 DEF DoneInv
<1> QED
  BY <1>5, <1>6, <1>7, <1>8 DEF SuccessInv, CountInv, ItemInv, SessionInv, AckInv

\* The ACK of a clear ends no session.
LEMMA SuccessClearAck ==
    ASSUME SuccessInv, NEW ok \in BOOLEAN, RecvClearAck(ok), TypeOK'
    PROVE  SuccessInv'
<1>1. /\ UNCHANGED <<pc, job, toFC, fc>> /\ Receives(Ack(ok))
      /\ store' = [store EXCEPT !.awaitingClear = FALSE]
      /\ store.awaitingClear
  BY DEF RecvClearAck, workerVars
<1>2. pc[Only] \notin PastClear /\ ~Live
  BY <1>1 DEF SuccessInv, StepInv, Live, PastClear
<1>3. /\ store'.pending = store.pending /\ store'.sent = store.sent
      /\ store'.done = store.done /\ store'.failed = store.failed
  BY <1>1 DEF SuccessInv, TypeOK, Stores
<1>4. Elems(toGCS') \subseteq Elems(toGCS) /\ ~LinkEmpty
  BY <1>1, LinkTypes, QueueTail DEF SuccessInv, Receives, LinkEmpty
<1>5. ~Live' /\ Receiving' = Receiving /\ NoCount' = NoCount
  BY <1>1, <1>2, <1>3 DEF Live, Receiving, NoCount
<1>6. StepInv'
  BY <1>1, <1>2, <1>3 DEF SuccessInv, StepInv, PastClear
<1>7. QuietInv'
  BY <1>2, <1>3, <1>4, <1>5 DEF SuccessInv, QuietInv, OnlyClearAcks
<1>8. DoneInv'
  BY <1>1, <1>2 DEF DoneInv, PastClear
<1> QED
  BY <1>5, <1>6, <1>7, <1>8 DEF SuccessInv, CountInv, ItemInv, SessionInv, AckInv

LEMMA SuccessRecv ==
    ASSUME SuccessInv, Recv, TypeOK'
    PROVE  SuccessInv'
<1>1. CASE \E ok \in BOOLEAN : RecvStrayAck(ok)
  <2>1. UNCHANGED <<store, pc, job, fc, toFC>> /\ Taken(toGCS, toGCS')
    BY <1>1 DEF RecvStrayAck, Receives, workerVars, Taken
  <2> QED
    BY <2>1, Shortened DEF Taken
<1>2. CASE \E i \in Seqs : RecvRequest(i)
  BY <1>2, SuccessRequest
<1>3. CASE \E ok \in BOOLEAN : RecvClearAck(ok)
  BY <1>3, SuccessClearAck
<1>4. CASE RecvRejected \/ RecvAccepted
  BY <1>4, SuccessRejected, SuccessAccepted
<1> QED
  BY <1>1, <1>2, <1>3, <1>4 DEF Recv
-----------------------------------------------------------------------------
(* The worker's steps.                                                     *)

LEMMA OnlyMoves ==
    ASSUME OneWorker, TypeOK, NEW w \in Workers, NEW from, NEW to, GoTo(w, from, to)
    PROVE  pc[Only] = from /\ pc'[Only] = to /\ w = Only
<1>1. w = Only
  BY DEF OneWorker
<1> QED
  BY <1>1 DEF TypeOK, WorkersOK, GoTo

\* A step outside a session that sends nothing, or a clear.
LEMMA QuietMove ==
    ASSUME SuccessInv, TypeOK', StepInv', ~Live, UNCHANGED <<fc, toGCS>>,
           pc'[Only] # "pollAck",
           \/ /\ toFC' = toFC
              /\ store'.pending # NoMission =>
                    \/ store'.sent = {}
                    \/ store'.pending = store.pending /\ store'.sent = store.sent
           \/ toFC' = Append(toFC, ClearAll) /\ store'.pending = NoMission
    PROVE  SuccessInv'
<1>1. ~Live' /\ Receiving' = Receiving /\ OnlyClearAcks' = OnlyClearAcks
  BY DEF Live, Receiving, OnlyClearAcks
<1>2. NoCount => NoCount'
  <2>1. CASE toFC' = Append(toFC, ClearAll)
    <3>1. Elems(toFC') = Elems(toFC) \cup {ClearAll}
      BY <2>1, LinkTypes, FrameTypes, QueueAppend DEF SuccessInv
    <3> QED
      BY <3>1, Distinct DEF NoCount
  <2>2. CASE toFC' = toFC
    BY <2>2 DEF NoCount
  <2> QED
    BY <2>1, <2>2
<1>3. QuietInv'
  BY <1>1, <1>2 DEF SuccessInv, QuietInv, LinkEmpty
<1>4. DoneInv'
  BY DEF DoneInv
<1> QED
  BY <1>1, <1>3, <1>4 DEF SuccessInv, CountInv, ItemInv, SessionInv, AckInv

\* A call starts with no session at the FC and nothing of one on the link.
LEMMA SuccessStart ==
    ASSUME OneWorker, SuccessInv, NEW w \in Workers, Start(w), TypeOK'
    PROVE  SuccessInv'
<1>1. /\ UNCHANGED <<store, toFC, toGCS, fc>>
      /\ \/ GoTo(w, "idle", "idle")
         \/ store.pending = NoMission /\ \/ GoTo(w, "idle", "claimOverride")
                                         \/ GoTo(w, "idle", "clearOverride")
  BY DEF Start, StartUpload, StartClear, RefuseBusy, Return
<1>2. /\ pc[Only] = "idle"
      /\ \/ pc'[Only] = "idle"
         \/ pc'[Only] \in {"claimOverride", "clearOverride"} /\ store.pending = NoMission
  BY <1>1, OnlyMoves DEF SuccessInv
<1>3. StepInv'
  BY <1>1, <1>2 DEF StepInv, NotPending, PastClear
<1>4. ~Live
  BY <1>2 DEF Live
<1> QED
  BY <1>1, <1>2, <1>3, <1>4, QuietMove

\* Up to the step that sets the pending items, and after a result, an upload
\* is outside a session.
LEMMA SuccessQuietUpload ==
    ASSUME OneWorker, SuccessInv, NEW w \in Workers, Upload(w), TypeOK',
           ~SendCount(w), ~PollTimesOut(w)
    PROVE  SuccessInv'
<1> USE DEF Continue, Return
<1>1. TypeOK /\ store \in Stores /\ StepInv
  BY DEF SuccessInv, TypeOK
<1>2. CASE ClaimOverride(w) \/ SendClearFails(w) \/ PollClear(w) \/ SendCountFails(w)
  <2>1. UNCHANGED <<store, toFC, toGCS, fc, job>>
    BY <1>2 DEF ClaimOverride, SendClearFails, PollClear, SendCountFails
  <2>2. \/ pc[Only] = "claimOverride" /\ pc'[Only] = "awaitClear"
        \/ pc[Only] = "sendClear" /\ pc'[Only] = "idle"
        \/ pc[Only] = "pollClear" /\ pc'[Only] = "endClear"
        \/ pc[Only] = "sendCount" /\ pc'[Only] = "idle"
    BY <1>1, <1>2, OnlyMoves DEF ClaimOverride, SendClearFails, PollClear, SendCountFails
  <2>3. StepInv' /\ ~Live
    BY <1>1, <2>1, <2>2 DEF StepInv, NotPending, PastClear, Live
  <2> QED
    BY <2>1, <2>2, <2>3, QuietMove
<1>3. CASE AwaitClear(w) \/ EndClear(w)
  <2>1. /\ UNCHANGED <<toFC, toGCS, fc, job>>
        /\ store'.pending = store.pending /\ store'.sent = store.sent
        /\ EndClear(w) => ~store'.awaitingClear
    BY <1>1, <1>3 DEF AwaitClear, EndClear, Stores
  <2>2. \/ pc[Only] = "awaitClear" /\ pc'[Only] = "sendClear"
        \/ pc[Only] = "endClear" /\ pc'[Only] = "setPending" /\ ~store'.awaitingClear
    BY <1>1, <1>3, <2>1, OnlyMoves DEF AwaitClear, EndClear
  <2>3. StepInv' /\ ~Live
    BY <1>1, <2>1, <2>2 DEF StepInv, NotPending, PastClear, Live
  <2> QED
    BY <2>1, <2>2, <2>3, QuietMove
<1>4. CASE SendClear(w)
  <2>1. UNCHANGED <<store, toGCS, fc, job>> /\ toFC' = Append(toFC, ClearAll)
    BY <1>4 DEF SendClear
  <2>2. pc[Only] = "sendClear" /\ pc'[Only] = "pollClear"
    BY <1>1, <1>4, OnlyMoves DEF SendClear
  <2>3. StepInv' /\ ~Live /\ store'.pending = NoMission
    BY <1>1, <2>1, <2>2 DEF StepInv, NotPending, PastClear, Live
  <2> QED
    BY <2>1, <2>2, <2>3, QuietMove
<1>5. CASE SetPending(w)
  <2>1. pc[Only] = "setPending" /\ pc'[Only] = "sendCount" /\ w = Only
    BY <1>1, <1>5, OnlyMoves DEF SetPending
  <2>2. /\ UNCHANGED <<toFC, toGCS, fc, job>>
        /\ store'.pending = Mission /\ store'.sent = {}
        /\ ~store'.done /\ ~store'.failed
        /\ store'.awaitingClear = store.awaitingClear
    BY <1>1, <1>5, <2>1 DEF SetPending, SetUploadPending, Stores, Mission
  <2>3. StepInv' /\ ~Live
    BY <1>1, <2>1, <2>2 DEF StepInv, NotPending, PastClear, Live, Mission
  <2> QED
    BY <2>1, <2>2, <2>3, QuietMove
<1>6. CASE PollFailed(w) \/ PollDone(w)
  <2>1. /\ UNCHANGED <<store, toFC, toGCS, fc, job>>
        /\ store.done \/ store.failed
    BY <1>6 DEF PollFailed, PollDone
  <2>2. pc[Only] = "pollAck" /\ pc'[Only] = "idle"
    BY <1>1, <1>6, OnlyMoves DEF PollFailed, PollDone
  <2>3. StepInv' /\ ~Live
    BY <1>1, <2>1, <2>2 DEF StepInv, NotPending, PastClear, Live
  <2> QED
    BY <2>1, <2>2, <2>3, QuietMove
<1>7. CASE Abandon(w) \/ Release(w)
  <2>1. /\ UNCHANGED <<toFC, toGCS, fc, job>>
        /\ \/ /\ pc[Only] = "abandon" /\ pc'[Only] = "release"
              /\ store'.pending = NoMission /\ ~store'.awaitingClear
           \/ pc[Only] = "release" /\ pc'[Only] = "idle" /\ store' = store
    BY <1>1, <1>7, OnlyMoves DEF Abandon, Release, Stores
  <2>2. StepInv' /\ ~Live
    BY <1>1, <2>1 DEF StepInv, NotPending, PastClear, Live
  <2> QED
    BY <2>1, <2>2, QuietMove
<1> QED
  BY <1>2, <1>3, <1>4, <1>5, <1>6, <1>7 DEF Upload

\* The COUNT is behind everything left over from before.
LEMMA SuccessSendCount ==
    ASSUME OneWorker, SuccessInv, NEW w \in Workers, SendCount(w), TypeOK'
    PROVE  SuccessInv'
<1>1. pc[Only] = "sendCount" /\ pc'[Only] = "pollAck" /\ w = Only
  BY OnlyMoves DEF SendCount, Continue, SuccessInv
<1>2. /\ UNCHANGED <<store, job, toGCS, fc>>
      /\ toFC' = Append(toFC, Count(Size[Mission]))
  BY <1>1 DEF SendCount, Continue, Mission
<1>3. ~Live /\ ~Receiving /\ NoCount /\ OnlyClearAcks
  BY <1>1 DEF SuccessInv, QuietInv, Live
<1>4. /\ store.pending = Mission /\ store.sent = {} /\ ~store.done /\ ~store.failed
      /\ ~store.awaitingClear
  BY <1>1 DEF SuccessInv, StepInv, PastClear
<1>5. Live' /\ Mission' = Mission /\ ~Receiving' /\ OnlyClearAcks'
  BY <1>1, <1>2, <1>3, <1>4 DEF Live, Mission, Receiving, OnlyClearAcks
<1>6. Count(Size[Mission]) \in FcFrames
  <2>1. Size[Mission] \in 1 .. MaxSize
    BY <1>1, SizeAssumption DEF SuccessInv, TypeOK, WorkersOK, UploadSteps, OneWorker, Mission
  <2> QED
    BY <2>1, FrameTypes
<1>7. /\ Elems(toFC') = Elems(toFC) \cup {Count(Size[Mission])}
      /\ \A f : f \notin Elems(toFC) => Last(toFC', f)
  BY <1>2, <1>6, LinkTypes, QueueAppend DEF SuccessInv
<1>8. StepInv'
  BY <1>1, <1>2, <1>4, <1>5 DEF StepInv, NotPending, PastClear
<1>9. CountInv'
  <2>1. ASSUME NEW f \in Elems(toFC'), Counts(f)
        PROVE  f = Count(Size[Mission]) /\ f \notin Elems(toFC)
    BY <1>3, <1>7, <2>1, Distinct DEF NoCount
  <2> QED
    BY <1>2, <1>4, <1>5, <1>7, <2>1, Distinct DEF CountInv
<1>10. ~NoCount'
  BY <1>7, Distinct DEF NoCount
<1>11. AckInv'
  <2>1. ~Rejected'
    BY <1>5, Distinct DEF Rejected, OnlyClearAcks
  <2>2. FromClear'
    BY <1>2, <1>4, <1>5, Distinct DEF FromClear, OnlyClearAcks
  <2> QED
    BY <2>1, <2>2 DEF AckInv
<1> QED
  BY <1>5, <1>8, <1>9, <1>10, <1>11 DEF SuccessInv, QuietInv, ItemInv, SessionInv, DoneInv, Live

\* When the polls run out, no frame and no session is left: the FC's own
\* timeout is the shorter one.
LEMMA SuccessTimesOut ==
    ASSUME OneWorker, ~PollMayRace, SuccessInv, NEW w \in Workers, PollTimesOut(w),
           TypeOK'
    PROVE  SuccessInv'
<1>1. pc[Only] = "pollAck" /\ pc'[Only] = "abandon"
  BY OnlyMoves DEF PollTimesOut, Continue, SuccessInv
<1>2. /\ UNCHANGED <<store, toFC, toGCS, fc, job>>
      /\ ~store.done /\ ~store.failed /\ LinkEmpty /\ ~Receiving
  BY DEF PollTimesOut, Continue, PollsRunOut, LinkEmpty
<1>3. ~Live' /\ ~Receiving' /\ LinkEmpty' /\ NoCount' /\ OnlyClearAcks'
  BY <1>1, <1>2, LinkTypes
     DEF Live, Receiving, LinkEmpty, NoCount, OnlyClearAcks, SuccessInv
<1>4. StepInv'
  BY <1>1, <1>2, <1>3 DEF SuccessInv, StepInv, NotPending, PastClear
<1> QED
  BY <1>1, <1>3, <1>4
     DEF SuccessInv, QuietInv, CountInv, ItemInv, SessionInv, AckInv, DoneInv

LEMMA SuccessClear ==
    ASSUME OneWorker, SuccessInv, NEW w \in Workers, Clear(w), TypeOK'
    PROVE  SuccessInv'
<1> USE DEF Continue, Return
<1>1. TypeOK /\ StepInv
  BY DEF SuccessInv
<1>2. CASE ClearStore(w)
  <2>1. /\ pc[Only] = "clearLocal" /\ pc'[Only] = "idle"
        /\ UNCHANGED <<toFC, toGCS, fc>> /\ store'.pending = NoMission
    BY <1>1, <1>2, OnlyMoves DEF ClearStore, ClearLocal, DefaultStore
  <2>2. StepInv' /\ ~Live
    BY <2>1 DEF StepInv, NotPending, PastClear, Live
  <2> QED
    BY <2>1, <2>2, QuietMove
<1>3. CASE ClearSend(w)
  <2>1. /\ pc[Only] = "clearSend" /\ pc'[Only] = "clearLocal"
        /\ UNCHANGED <<store, toGCS, fc>> /\ toFC' = Append(toFC, ClearAll)
    BY <1>1, <1>3, OnlyMoves DEF ClearSend
  <2>2. StepInv' /\ ~Live /\ store'.pending = NoMission
    BY <1>1, <2>1 DEF StepInv, NotPending, PastClear, Live
  <2> QED
    BY <2>1, <2>2, QuietMove
<1>4. CASE ClearOverride(w) \/ ClearRefused(w) \/ ClearSendFails(w)
  <2>1. /\ UNCHANGED <<store, toFC, toGCS, fc>>
        /\ \/ pc[Only] = "clearOverride" /\ pc'[Only] = "clearSend"
           \/ pc[Only] \in {"clearOverride", "clearSend"} /\ pc'[Only] = "idle"
    BY <1>1, <1>4, OnlyMoves DEF ClearOverride, ClearRefused, ClearSendFails
  <2>2. StepInv' /\ ~Live
    BY <1>1, <2>1 DEF StepInv, NotPending, PastClear, Live
  <2> QED
    BY <2>1, <2>2, QuietMove
<1> QED
  BY <1>2, <1>3, <1>4 DEF Clear

LEMMA SuccessNext ==
    OneWorker /\ ~PollMayRace /\ SuccessInv /\ [Next]_vars => SuccessInv'
<1> SUFFICES ASSUME OneWorker, ~PollMayRace, SuccessInv, [Next]_vars PROVE SuccessInv'
  OBVIOUS
<1>1. TypeOK'
  BY TypeNext DEF SuccessInv
<1>2. CASE \E w \in Workers : Start(w) \/ Upload(w) \/ Clear(w)
  BY <1>1, <1>2, SuccessStart, SuccessQuietUpload, SuccessSendCount, SuccessTimesOut,
     SuccessClear
<1>3. CASE Recv
  BY <1>1, <1>3, SuccessRecv
<1>4. CASE FlightController \/ FcRetry \/ FcCancels
  BY <1>1, <1>4, SuccessFlightController
<1>5. CASE Lose \/ UNCHANGED vars
  <2>1. UNCHANGED <<store, pc, job, fc>> /\ Taken(toFC, toFC') /\ Taken(toGCS, toGCS')
    BY <1>5 DEF Lose, workerVars, vars, Taken
  <2> QED
    BY <1>1, <2>1, Shortened
<1> QED
  BY <1>2, <1>3, <1>4, <1>5 DEF Next

LEMMA SuccessInit == OneWorker /\ Init => SuccessInv
<1> SUFFICES ASSUME OneWorker, Init PROVE SuccessInv
  OBVIOUS
<1>1. TypeOK
  BY TypeInit
<1>2. pc[Only] = "idle" /\ store = DefaultStore /\ toFC = << >> /\ toGCS = << >> /\ fc.count = 0
  BY DEF OneWorker, Init
<1>3. ~Live /\ ~Receiving /\ NoCount /\ OnlyClearAcks
  <2>1. ~Live /\ ~Receiving
    BY <1>2 DEF Live, Receiving
  <2>2. Elems(toFC) = {} /\ Elems(toGCS) = {}
    BY <1>1, <1>2, LinkTypes
  <2> QED
    BY <2>1, <2>2 DEF NoCount, OnlyClearAcks
<1>4. StepInv /\ QuietInv /\ DoneInv
  BY <1>2, <1>3 DEF StepInv, NotPending, PastClear, QuietInv, DoneInv, DefaultStore
<1> QED
  BY <1>1, <1>3, <1>4 DEF SuccessInv, CountInv, ItemInv, SessionInv, AckInv

\* With one upload or clear at a time, and the FC giving up a silent session
\* before the polling loops do, a success the upload is about to report is true
\* ("mission upload: ok (n items on FC)", src/src/bin/drone_http.rs): no frame
\* left over from an earlier call, repeated, lost or refused can fake it.
THEOREM SuccessIsTrue == OneWorker /\ ~PollMayRace => (Spec => []OkMeansOnFC)
<1> SUFFICES ASSUME OneWorker, ~PollMayRace PROVE Spec => []OkMeansOnFC
  OBVIOUS
<1>1. Init => SuccessInv
  BY SuccessInit
<1>2. SuccessInv /\ [Next]_vars => SuccessInv'
  BY SuccessNext
<1>3. SuccessInv => OkMeansOnFC
  BY DEF OneWorker, SuccessInv, DoneInv, OkMeansOnFC, Mission
<1> QED
  BY <1>1, <1>2, <1>3, PTL DEF Spec

\* Who writes the cached items.
LEMMA ItemsWritten ==
    ASSUME TypeOK, [Next]_vars, store'.items # store.items
    PROVE  RecvAccepted \/ \E w \in Workers : ClearStore(w)
<1>1. store \in Stores
  BY DEF TypeOK
<1>2. CASE \E w \in Workers : Start(w) \/ Clear(w)
  BY <1>2 DEF Start, StartUpload, StartClear, RefuseBusy, Clear, ClearOverride,
              ClearRefused, ClearSend, ClearSendFails
<1>3. ASSUME NEW w \in Workers, Upload(w) PROVE FALSE
  BY <1>1, <1>3
     DEF Upload, ClaimOverride, AwaitClear, SendClear, SendClearFails, PollClear,
         EndClear, SetPending, SendCount, SendCountFails, PollFailed, PollDone,
         PollTimesOut, Abandon, Release, SetUploadPending, Stores
<1>4. CASE Recv
  BY <1>1, <1>4
     DEF Recv, RecvRequest, RecvClearAck, RecvRejected, RecvStrayAck,
         NoteUploadItemSent, MarkUploadFailed, Stores
<1>5. CASE FlightController \/ FcRetry \/ FcCancels \/ Lose \/ UNCHANGED vars
  BY <1>5 DEF FlightController, FcClear, FcCount, FcItem, FcStrayItem, FcRejects,
              FcRetry, FcCancels, FcOnly, Lose, vars
<1> QED
  BY <1>2, <1>3, <1>4, <1>5 DEF Next

\* Under the same conditions the cached mission is only ever replaced by what
\* the FC holds at that moment, or emptied by a clear (RecvAccepted, the
\* MISSION_ACK arm of src/src/mavlink_http_runtime.rs, and clear_local).
THEOREM CacheShowsTheFC == OneWorker /\ ~PollMayRace => (Spec => CacheFollowsFC)
<1> SUFFICES ASSUME OneWorker, ~PollMayRace PROVE Spec => CacheFollowsFC
  OBVIOUS
<1>1. Init => SuccessInv
  BY SuccessInit
<1>2. SuccessInv /\ [Next]_vars => SuccessInv'
  BY SuccessNext
<1>3. SuccessInv /\ [Next]_vars =>
         [store'.items # store.items => store'.items \in {fc.items, NoItems}]_vars
  <2> SUFFICES ASSUME SuccessInv, [Next]_vars, store'.items # store.items
               PROVE  store'.items \in {fc.items, NoItems}
    OBVIOUS
  <2>1. CASE RecvAccepted
    BY <2>1, AcceptedTruth DEF RecvAccepted, SetUploadDone, SuccessInv, TypeOK, Stores
  <2>2. CASE \E w \in Workers : ClearStore(w)
    BY <2>2 DEF ClearStore, ClearLocal, DefaultStore
  <2> QED
    BY <2>1, <2>2, ItemsWritten DEF SuccessInv
<1> QED
  BY <1>1, <1>2, <1>3, PTL DEF Spec, CacheFollowsFC
-----------------------------------------------------------------------------
(* No needless timeout: as long as nothing was lost, the session's next    *)
(* event is always under way.                                              *)

Pending == ~NoCount \/ Receiving \/ Rejected \/ (Accepted /\ AllSent)

\* Nothing but the worker starts a session.
LEMMA LiveStays ==
    ASSUME SuccessInv, Recv \/ FlightController \/ FcRetry \/ FcCancels, Live'
    PROVE  Live
<1>1. UNCHANGED pc /\ (Recv \/ UNCHANGED store)
  BY DEF Recv, RecvRequest, RecvClearAck, RecvRejected, RecvAccepted, RecvStrayAck,
         FlightController, FcClear, FcCount, FcItem, FcStrayItem, FcRejects, FcRetry,
         FcCancels, FcOnly, workerVars
<1>2. store \in Stores
  BY DEF SuccessInv, TypeOK
<1>3. CASE Recv
  <2>1. RecvAccepted \/ (store.done => store'.done)
    BY <1>2, <1>3 DEF Recv, RecvRequest, RecvClearAck, RecvRejected, RecvStrayAck,
                      NoteUploadItemSent, MarkUploadFailed, Stores
  <2>2. RecvAccepted \/ (store.failed => store'.failed)
    BY <1>2, <1>3 DEF Recv, RecvRequest, RecvClearAck, RecvRejected, RecvStrayAck,
                      NoteUploadItemSent, MarkUploadFailed, Stores
  <2>3. RecvAccepted => Live
    BY AcceptedTruth
  <2> QED
    BY <1>1, <2>1, <2>2, <2>3 DEF Live
<1>4. CASE UNCHANGED store
  BY <1>1, <1>4 DEF Live
<1> QED
  BY <1>1, <1>3, <1>4

\* The recv thread takes the end of a session for what it is.
LEMMA PendingRecv ==
    ASSUME OneWorker, SuccessInv, TypeOK', Recv, Live, Pending, Live'
    PROVE  Pending'
<1>1. /\ Mission' = Mission /\ Receiving' = Receiving
      /\ toGCS # << >> /\ toGCS' = Tail(toGCS)
  BY DEF Recv, RecvRequest, RecvClearAck, RecvRejected, RecvAccepted, RecvStrayAck,
         Receives, workerVars, Mission, Receiving
<1>2. Elems(toGCS) = {Head(toGCS)} \cup Elems(toGCS')
  BY <1>1, LinkTypes, QueueElems DEF SuccessInv
<1>3. store.pending = Mission /\ Mission # NoMission /\ ~store.awaitingClear
  <2>1. store.pending = Mission /\ ~store.awaitingClear
    BY DEF SuccessInv, StepInv, Live, PastClear
  <2>2. Mission # NoMission
    BY MissionsAssumption
       DEF OneWorker, Live, Mission, SuccessInv, TypeOK, WorkersOK, UploadSteps
  <2> QED
    BY <2>1, <2>2
<1>4. store \in Stores
  BY DEF SuccessInv, TypeOK
<1>5. CASE \E i \in Seqs : RecvRequest(i)
  <2>1. PICK i \in Seqs : RecvRequest(i)
    BY <1>5
  <2>2. Head(toGCS) = Request(i)
    BY <2>1 DEF RecvRequest, Receives
  <2>3. store.sent \subseteq store'.sent
    BY <1>4, <2>1 DEF RecvRequest, NoteUploadItemSent, Stores
  <2>4. Elems(toFC) \subseteq Elems(toFC')
    <3>1. CASE toFC' = toFC
      BY <3>1
    <3>2. CASE toFC' = Append(toFC, Item(i, store.pending))
      <4>1. Item(i, store.pending) \in FcFrames
        BY <1>3, <1>4, FrameTypes DEF Stores
      <4> QED
        BY <3>2, <4>1, LinkTypes, QueueAppend DEF SuccessInv
    <3> QED
      BY <2>1, <3>1, <3>2 DEF RecvRequest
  <2>5. (Rejected => Rejected') /\ (Accepted => Accepted')
    BY <1>2, <2>2, Distinct DEF Rejected, Accepted
  <2>6. (~NoCount => ~NoCount') /\ (AllSent => AllSent')
    BY <1>1, <2>3, <2>4 DEF NoCount, AllSent
  <2> QED
    BY <1>1, <2>5, <2>6 DEF Pending
<1>6. CASE \E ok \in BOOLEAN : RecvStrayAck(ok)
  <2>1. PICK ok \in BOOLEAN : RecvStrayAck(ok)
    BY <1>6
  <2>2. ok /\ ~UploadReadyForAck(store) /\ UNCHANGED <<store, toFC>>
    BY <1>3, <2>1 DEF RecvStrayAck
  <2>3. Head(toGCS) = Ack(TRUE)
    BY <2>1, <2>2 DEF RecvStrayAck, Receives
  <2>4. ~AllSent
    BY <1>3, <2>2 DEF UploadReadyForAck, AllSent
  <2>5. Rejected => Rejected'
    BY <1>2, <2>3, Distinct DEF Rejected
  <2> QED
    BY <1>1, <2>2, <2>4, <2>5 DEF Pending, NoCount
<1>7. ~RecvRejected /\ ~RecvAccepted
  <2>1. RecvRejected => store'.failed
    BY <1>4 DEF RecvRejected, MarkUploadFailed, Stores
  <2>2. RecvAccepted => store'.done
    BY <1>4 DEF RecvAccepted, SetUploadDone, Stores
  <2> QED
    BY <2>1, <2>2 DEF Live
<1> QED
  BY <1>3, <1>5, <1>6, <1>7 DEF Recv, RecvClearAck

\* The FC answers what opens, feeds and ends a session.
LEMMA PendingFlightController ==
    ASSUME SuccessInv, TypeOK', FlightController \/ FcRetry \/ FcCancels, Live, Pending
    PROVE  Pending'
<1>1. Mission' = Mission /\ AllSent' = AllSent
  BY DEF FlightController, FcClear, FcCount, FcItem, FcStrayItem, FcRejects, FcRetry,
         FcCancels, FcOnly, workerVars, Mission, AllSent
<1>2. ASSUME NEW f, FcTakes(f), ~Counts(f) PROVE ~NoCount => ~NoCount'
  <2>1. Elems(toFC) = {f} \cup Elems(toFC')
    BY <1>2, LinkTypes, QueueElems DEF FcTakes, SuccessInv
  <2> QED
    BY <1>2, <2>1 DEF NoCount
<1>3. CASE FcClear
  <2>1. /\ ~NoCount => ~NoCount'
        /\ Receiving' = Receiving
        /\ toGCS' = Append(toGCS, Ack(~Receiving))
    BY <1>2, <1>3, Distinct
       DEF FcClear, FcSends, Receiving, SuccessInv, TypeOK, FcStates
  <2>2. Ack(~Receiving) \in GcsFrames
    BY Acks DEF GcsFrames, Receiving
  <2>3. Elems(toGCS) \subseteq Elems(toGCS')
    BY <2>1, <2>2, Answered DEF SuccessInv
  <2> QED
    BY <1>1, <2>1, <2>3 DEF Pending, Rejected, Accepted
<1>4. CASE \E n \in 1 .. MaxSize : FcCount(n)
  <2>1. fc'.count > 0
    BY <1>4, SizeAssumption DEF FcCount, SuccessInv, TypeOK, FcStates
  <2> QED
    BY <2>1 DEF Pending, Receiving
<1>5. CASE \E i \in Seqs, m \in Missions : FcItem(i, m)
  <2>1. PICK i \in Seqs, m \in Missions : FcItem(i, m)
    BY <1>5
  <2>2. CASE i + 1 < fc.count
    <3>1. fc'.count = fc.count
      BY <2>1, <2>2 DEF FcItem, SuccessInv, TypeOK, FcStates
    <3> QED
      BY <2>1, <3>1 DEF FcItem, Pending, Receiving
  <2>3. CASE ~(i + 1 < fc.count)
    <3>1. toGCS' = Append(toGCS, Ack(TRUE)) /\ FcTakes(Item(i, m)) /\ Receiving /\ i = fc.next
      BY <2>1, <2>3 DEF FcItem, FcSends
    <3>2. Accepted'
      BY <3>1, Acks, Answered DEF SuccessInv, Accepted
    <3>3. i \in store.sent
      <4>1. Item(i, m) \in Elems(toFC)
        BY <3>1, LinkTypes DEF FcTakes, SuccessInv
      <4>2. PICK j \in store.sent : Item(i, m) = Item(j, Mission)
        BY <3>1, <4>1, OpenSession DEF SuccessInv, ItemInv
      <4> QED
        BY <4>2, Distinct
    <3>4. /\ fc.count = Size[Mission]
          /\ \A k \in Seqs : k < fc.next => k \in store.sent
      BY <3>1 DEF SuccessInv, SessionInv
    <3>5. AllSent
      <4> SUFFICES ASSUME NEW k \in Seqs, k < Size[Mission] PROVE k \in store.sent
        BY DEF AllSent
      <4>1. k < i \/ k = i
        BY <2>3, <3>4 DEF Seqs, SuccessInv, TypeOK, FcStates
      <4> QED
        BY <3>1, <3>3, <3>4, <4>1
    <3> QED
      BY <1>1, <3>2, <3>5 DEF Pending
  <2> QED
    BY <2>2, <2>3
<1>6. CASE \E i \in Seqs, m \in Missions : FcStrayItem(i, m)
  <2>1. (~NoCount => ~NoCount') /\ UNCHANGED <<toGCS, fc>>
    BY <1>2, <1>6, Distinct DEF FcStrayItem
  <2> QED
    BY <1>1, <2>1 DEF Pending, Receiving, Rejected, Accepted
<1>7. CASE FcRejects \/ FcCancels
  <2>1. toGCS' = Append(toGCS, Ack(FALSE))
    BY <1>7 DEF FcRejects, FcCancels, FcSends
  <2>2. Rejected'
    BY <2>1, Acks, Answered DEF SuccessInv, Rejected
  <2> QED
    BY <2>2 DEF Pending
<1>8. CASE FcRetry
  BY <1>8 DEF FcRetry, Pending, Receiving
<1> QED
  BY <1>3, <1>4, <1>5, <1>6, <1>7, <1>8 DEF FlightController

\* No frame is ever put back into the budget of losses.
LEMMA LossShrinks ==
    ASSUME TypeOK, [Next]_vars
    PROVE  /\ budget'.loss <= budget.loss
           /\ Lose => budget'.loss < budget.loss
<1>1. budget \in [jobs : Nat, loss : Nat, retries : Nat]
  BY DEF TypeOK
<1>2. Lose => budget'.loss = budget.loss - 1
  BY <1>1 DEF Lose
<1>3. Recv => budget'.loss <= budget.loss
  <2> SUFFICES ASSUME Recv PROVE budget'.loss <= budget.loss
    OBVIOUS
  <2>1. \/ budget' = budget
        \/ budget.loss > 0 /\ budget' = [budget EXCEPT !.loss = @ - 1]
    BY DEF Recv, RecvRequest, RecvClearAck, RecvRejected, RecvAccepted, RecvStrayAck
  <2> QED
    BY <1>1, <2>1
<1>4. ASSUME NEW w \in Workers, Start(w) PROVE budget'.loss = budget.loss
  BY <1>1, <1>4 DEF Start, StartUpload, StartClear, RefuseBusy, Enter
<1>5. ASSUME NEW w \in Workers, Upload(w) \/ Clear(w) PROVE budget'.loss = budget.loss
  BY <1>5 DEF Upload, ClaimOverride, AwaitClear, SendClear, SendClearFails, PollClear,
              EndClear, SetPending, SendCount, SendCountFails, PollFailed, PollDone,
              PollTimesOut, Abandon, Release, Clear, ClearOverride, ClearRefused,
              ClearSend, ClearSendFails, ClearStore
<1>6. FlightController \/ FcRetry \/ FcCancels \/ UNCHANGED vars => budget'.loss = budget.loss
  <2> SUFFICES ASSUME FlightController \/ FcRetry \/ FcCancels \/ UNCHANGED vars
               PROVE  budget'.loss = budget.loss
    OBVIOUS
  <2>1. budget' = budget \/ budget' = [budget EXCEPT !.retries = @ - 1]
    BY DEF FlightController, FcClear, FcCount, FcItem, FcStrayItem, FcRejects,
           FcRetry, FcCancels, vars
  <2> QED
    BY <1>1, <2>1
<1>7. budget.loss \in Nat
  BY <1>1
<1> QED
  BY <1>2, <1>3, <1>4, <1>5, <1>6, <1>7 DEF Next

\* How a session begins, and how a timeout comes about.
LEMMA WorkerResults ==
    ASSUME OneWorker, TypeOK, NEW w \in Workers, Start(w) \/ Upload(w) \/ Clear(w)
    PROVE  /\ Live' => SendCount(w)
           /\ pc'[Only] \in {"abandon", "release"} \/ result'[Only] = "timedOut" =>
                 \/ pc[Only] \in {"abandon", "release"} \/ result[Only] = "timedOut"
                 \/ PollTimesOut(w)
<1>1. ASSUME NEW from, NEW to, Continue(w, from, to)
      PROVE  pc[Only] = from /\ pc'[Only] = to /\ result'[Only] = result[Only]
  BY <1>1, OnlyMoves DEF Continue
<1>2. ASSUME NEW from, NEW r, Return(w, from, r)
      PROVE  pc[Only] = from /\ pc'[Only] = "idle" /\ result'[Only] = r
  <2>1. pc[Only] = from /\ pc'[Only] = "idle" /\ w = Only
    BY <1>2, OnlyMoves DEF Return
  <2> QED
    BY <1>2, <2>1 DEF Return, TypeOK, WorkersOK
<1>3. CASE Start(w)
  <2>1. CASE RefuseBusy(w)
    BY <1>2, <2>1 DEF RefuseBusy, Live
  <2>2. CASE StartClear(w) \/ \E m \in Missions : StartUpload(w, m)
    <3>1. /\ pc'[Only] \in {"claimOverride", "clearOverride"}
          /\ result' = [result EXCEPT ![w] = "none"] /\ w = Only
      BY <2>2, OnlyMoves DEF StartClear, StartUpload
    <3>2. result'[Only] = "none"
      BY <3>1 DEF TypeOK, WorkersOK
    <3> QED
      BY <3>1, <3>2 DEF Live
  <2> QED
    BY <1>3, <2>1, <2>2 DEF Start
<1>4. CASE Clear(w)
  BY <1>1, <1>2, <1>4 DEF Clear, ClearOverride, ClearRefused, ClearSend, ClearSendFails,
                          ClearStore, Live
<1>5. CASE Upload(w)
  <2>1. CASE ClaimOverride(w) \/ AwaitClear(w) \/ SendClear(w) \/ PollClear(w)
             \/ EndClear(w) \/ SetPending(w)
    <3>1. /\ result'[Only] = result[Only]
          /\ pc'[Only] \in {"awaitClear", "sendClear", "pollClear", "endClear",
                            "setPending", "sendCount"}
      BY <1>1, <2>1 DEF ClaimOverride, AwaitClear, SendClear, PollClear, EndClear,
                        SetPending
    <3> QED
      BY <3>1 DEF Live
  <2>2. CASE SendClearFails(w) \/ SendCountFails(w) \/ PollFailed(w) \/ PollDone(w)
             \/ Release(w)
    BY <1>2, <2>2 DEF SendClearFails, SendCountFails, PollFailed, PollDone, Release, Live
  <2>3. CASE Abandon(w)
    BY <1>1, <2>3 DEF Abandon, Live
  <2>4. CASE SendCount(w)
    BY <1>1, <2>4 DEF SendCount
  <2>5. CASE PollTimesOut(w)
    BY <1>1, <2>5 DEF PollTimesOut, Live
  <2> QED
    BY <1>5, <2>1, <2>2, <2>3, <2>4, <2>5 DEF Upload
<1> QED
  BY <1>3, <1>4, <1>5

\* A timeout, reported or about to be, means a loss; and with nothing lost the
\* upload in session has something to wait for.
LossInv ==
    /\ budget.loss <= MaxLoss
    /\ pc[Only] \in {"abandon", "release"} \/ result[Only] = "timedOut" =>
          budget.loss < MaxLoss
    /\ Live /\ budget.loss = MaxLoss => Pending

LEMMA LossNext ==
    OneWorker /\ ~PollMayRace /\ SuccessInv /\ LossInv /\ [Next]_vars => LossInv'
<1> SUFFICES ASSUME OneWorker, ~PollMayRace, SuccessInv, LossInv, [Next]_vars
             PROVE  LossInv'
  OBVIOUS
<1>1. TypeOK /\ TypeOK' /\ SuccessInv'
  BY TypeNext, SuccessNext DEF SuccessInv
<1>2. /\ budget.loss \in Nat /\ budget'.loss \in Nat /\ MaxLoss \in Nat
      /\ budget'.loss <= budget.loss
      /\ Lose => budget'.loss < budget.loss
  BY <1>1, LossShrinks, BoundsAssumption DEF TypeOK
<1>3. budget'.loss <= MaxLoss /\ (budget'.loss = MaxLoss => budget.loss = MaxLoss /\ ~Lose)
  BY <1>2 DEF LossInv
<1>4. CASE \E w \in Workers : Start(w) \/ Upload(w) \/ Clear(w)
  <2>1. PICK w \in Workers : Start(w) \/ Upload(w) \/ Clear(w)
    BY <1>4
  <2>2. Live' => Pending'
    <3>1. SUFFICES ASSUME SendCount(w) PROVE Pending'
      BY <1>1, <2>1, WorkerResults
    <3>2. toFC' = Append(toFC, Count(Size[job[w]])) /\ job[w] \in Missions
      BY <1>1, <3>1 DEF SendCount, Continue, GoTo, TypeOK, WorkersOK, UploadSteps
    <3>3. Count(Size[job[w]]) \in FcFrames
      BY <3>2, FrameTypes, SizeAssumption
    <3>4. Count(Size[job[w]]) \in Elems(toFC')
      BY <1>1, <3>2, <3>3, LinkTypes, QueueAppend
    <3> QED
      BY <3>4, Distinct DEF Pending, NoCount
  <2>3. PollTimesOut(w) => budget.loss < MaxLoss
    <3> SUFFICES ASSUME PollTimesOut(w), budget.loss = MaxLoss PROVE FALSE
      BY <1>2 DEF LossInv
    <3>1. Live /\ toFC = << >> /\ toGCS = << >> /\ ~Receiving
      BY <1>1, OnlyMoves DEF PollTimesOut, PollsRunOut, Continue, Live
    <3>2. ~Pending
      <4>1. Elems(toFC) = {} /\ Elems(toGCS) = {}
        BY <1>1, <3>1, LinkTypes
      <4> QED
        BY <3>1, <4>1 DEF Pending, NoCount, Rejected, Accepted
    <3> QED
      BY <3>1, <3>2 DEF LossInv
  <2>4. pc'[Only] \in {"abandon", "release"} \/ result'[Only] = "timedOut" =>
           budget.loss < MaxLoss
    BY <1>1, <2>1, <2>3, WorkerResults DEF LossInv
  <2> QED
    BY <1>2, <1>3, <2>2, <2>4 DEF LossInv
<1>5. CASE Recv \/ FlightController \/ FcRetry \/ FcCancels
  <2>1. UNCHANGED <<pc, result>>
    BY <1>5 DEF Recv, RecvRequest, RecvClearAck, RecvRejected, RecvAccepted,
                RecvStrayAck, FlightController, FcClear, FcCount, FcItem, FcStrayItem,
                FcRejects, FcRetry, FcCancels, FcOnly, workerVars
  <2>2. ASSUME Live', budget'.loss = MaxLoss PROVE Pending'
    <3>1. Live
      BY <1>1, <1>5, <2>1, <2>2, LiveStays
    <3>2. Pending
      BY <1>3, <2>2, <3>1 DEF LossInv
    <3> QED
      BY <1>1, <1>5, <2>2, <3>1, <3>2, PendingRecv, PendingFlightController
  <2> QED
    BY <1>2, <1>3, <2>1, <2>2 DEF LossInv
<1>6. CASE UNCHANGED vars
  BY <1>6 DEF LossInv, Live, Pending, NoCount, Receiving, Rejected, Accepted, AllSent,
              Mission, vars
<1>7. CASE Lose
  <2>1. UNCHANGED <<pc, result>>
    BY <1>7 DEF Lose, workerVars
  <2> QED
    BY <1>2, <1>3, <1>7, <2>1 DEF LossInv
<1> QED
  BY <1>4, <1>5, <1>6, <1>7 DEF Next

\* With one upload or clear at a time, and the FC giving up a silent session
\* before the polling loops do, an upload reports a timeout only if the link
\* lost a frame: the requests, the items and the note of what was sent never
\* wait for each other (upload_mission_items, src/src/mission_upload.rs).
THEOREM TimeoutMeansLoss == OneWorker /\ ~PollMayRace => (Spec => []NoNeedlessTimeout)
<1> SUFFICES ASSUME OneWorker, ~PollMayRace PROVE Spec => []NoNeedlessTimeout
  OBVIOUS
<1>1. Init => SuccessInv /\ LossInv
  <2> SUFFICES ASSUME Init PROVE SuccessInv /\ LossInv
    OBVIOUS
  <2>1. pc[Only] = "idle" /\ result[Only] = "none" /\ budget.loss = MaxLoss
    BY DEF OneWorker, Init
  <2> QED
    BY <2>1, SuccessInit, BoundsAssumption DEF LossInv, Live
<1>2. SuccessInv /\ LossInv /\ [Next]_vars => SuccessInv' /\ LossInv'
  BY SuccessNext, LossNext
<1>3. LossInv => NoNeedlessTimeout
  BY DEF OneWorker, LossInv, NoNeedlessTimeout
<1> QED
  BY <1>1, <1>2, <1>3, PTL DEF Spec
=============================================================================
