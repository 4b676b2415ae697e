------------------------ MODULE MissionDownloadProofs ------------------------
(***************************************************************************)
(* What of MissionDownload holds for any size of mission, number of        *)
(* uploads and clears, and number of frames under way: its types, that the *)
(* mirror shows no item the FC does not have, and that a download which    *)
(* was counted goes on.                                                    *)
(***************************************************************************)
EXTENDS MissionDownload, LinkQueues, TLAPS

-----------------------------------------------------------------------------
(* Frames under way: which there are, and which is ahead of which.         *)

ToFCFrames == [type : {"list", "clear", "upload"}] \cup [type : {"request"}, seq : Seqs]
                 \cup [type : {"items"}, mission : Missions]
ToGCSFrames == [type : {"count"}, count : 0 .. MaxSize]
                  \cup [type : {"item"}, seq : Seqs, item : Items]
                  \cup [type : {"pull"}] \cup [type : {"ack"}, accepted : BOOLEAN]

(* The inductive invariants.                                               *)

\* Steps between StartUpload and the end.
UploadSteps == {"sendClear", "await", "setPending", "sendCount", "poll"}

\* The parts of TypeOK, and the frames under way.
StoreOK == /\ fc \in Missions
           /\ items \in [Seqs -> Items \cup {NoItem}]
           /\ troubles \subseteq {"upload", "clear", "failure", "loss", "empty"}
WorkerOK == /\ pending \in Missions \cup {NoUpload}
            /\ sent \in BOOLEAN
            /\ awaiting \in BOOLEAN
            /\ worker \in Steps
            /\ jobs \in 0 .. MaxJobs
            /\ worker \in UploadSteps => jobs \in Items
            /\ sent => pending # NoUpload
            /\ pending # NoUpload => worker \in {"sendCount", "poll"} \/ "failure" \in troubles
            /\ awaiting => worker \in {"sendClear", "await"} \/ "failure" \in troubles
RecvOK == /\ count \in 0 .. MaxSize \cup {NoCount}
          /\ recv \in [at : {"idle", "store", "request"}, seq : Seqs, item : Items \cup {NoItem}]
FramesOK == toFC \in Seq(ToFCFrames) /\ toGCS \in Seq(ToGCSFrames)

TypeInv == StoreOK /\ WorkerOK /\ RecvOK /\ FramesOK

\* No upload failed, no clear was served.
Clean == troubles \cap {"clear", "failure"} = {}

\* The upload waits for the FC's answer; as long as the items were not sent, it
\* has not pulled them.
Polls == worker = "poll" /\ pending # NoUpload
Unsent == Polls /\ ~sent

\* The frames of an upload are under way one at a time, in their order, and only
\* while the upload polls: MISSION_COUNT, the request for the items, the items,
\* the ACK.  A clear is ahead of them.
RoundInv ==
    /\ Clean =>
         /\ worker = "sendCount" => pending # NoUpload /\ ~sent
         /\ \A f \in Elems(toFC) :
               /\ f.type = "clear" => worker \in {"await", "setPending", "sendCount"} \/ Unsent
               /\ f.type = "upload" => Unsent
               /\ f.type = "items" => worker = "poll" /\ sent /\ f.mission = pending
         /\ \A f \in Elems(toGCS) : f.type = "pull" => Unsent
         /\ \A f, g \in Elems(toFC) : Ahead(toFC, f, g) =>
               /\ f.type = "upload" => g.type \notin {"clear", "upload"}
               /\ f.type = "items" => g.type # "items"
         /\ \A f, g \in Elems(toGCS) : Ahead(toGCS, f, g) /\ f.type = "pull" =>
               g.type \notin {"pull", "ack"}
         /\ \A f \in Elems(toFC), g \in Elems(toGCS) :
               /\ f.type \in {"clear", "upload"} => g.type # "pull"
               /\ f.type = "items" => g.type # "ack"
    /\ worker = "clearStore" => "clear" \in troubles

\* An item is one of the FC's.
OfFC(s, item) == item = Contents(fc)[s]
Accepts(f) == f.type = "ack" /\ f.accepted /\ sent

\* While the acceptance of an upload is under way the FC has its mission, and no
\* item of the mission before follows it.
AcceptInv ==
    Clean => \A f \in Elems(toGCS) : Accepts(f) =>
        /\ fc = pending
        /\ \A g \in Elems(toGCS) : Ahead(toGCS, f, g) /\ g.type = "item" => OfFC(g.seq, g.item)

\* No upload is under way, or it was accepted.
Settled == worker \in {"idle", "clearSend"} \/ (worker = "poll" /\ pending = NoUpload)

\* Then all items, under way, in hand and in the store, are the FC's.
SettledInv ==
    Clean /\ Settled =>
        /\ \A g \in Elems(toGCS) : g.type = "item" => OfFC(g.seq, g.item)
        /\ recv.at = "store" => OfFC(recv.seq, recv.item)
        /\ \A s \in Seqs : items[s] # NoItem => OfFC(s, items[s])

MirrorInv == RoundInv /\ AcceptInv /\ SettledInv

\* Before any trouble the mission on the FC stays as it is, and a request, a
\* count and an item are within it.
ServedInv ==
    troubles = {} =>
        /\ worker \in {"idle", "sendClear", "clearSend"}
        /\ \A f \in Elems(toFC) : /\ f.type \in {"list", "request"}
                                  /\ f.type = "request" => f.seq < fc.size
        /\ \A f \in Elems(toGCS) : /\ f.type \in {"count", "item"}
                                   /\ f.type = "count" => f.count = fc.size
        /\ recv.at = "request" => recv.seq < fc.size
        /\ count # NoCount =>
             /\ count = fc.size
             /\ \/ recv.at # "idle"
                \/ \E f \in Elems(toFC) : f.type = "request"
                \/ \E f \in Elems(toGCS) : f.type = "item"
-----------------------------------------------------------------------------
(* Types.                                                                  *)

LEMMA Frames ==
    /\ [type |-> "list"] \in ToFCFrames
    /\ [type |-> "clear"] \in ToFCFrames
    /\ \A s \in Seqs : [type |-> "request", seq |-> s] \in ToFCFrames
    /\ [type |-> "upload"] \in ToFCFrames
    /\ \A m \in Missions : [type |-> "items", mission |-> m] \in ToFCFrames
    /\ \A n \in 0 .. MaxSize : [type |-> "count", count |-> n] \in ToGCSFrames
    /\ \A s \in Seqs, i \in Items : [type |-> "item", seq |-> s, item |-> i] \in ToGCSFrames
    /\ [type |-> "pull"] \in ToGCSFrames
    /\ \A b \in BOOLEAN : [type |-> "ack", accepted |-> b] \in ToGCSFrames
  BY DEF ToFCFrames, ToGCSFrames

\* The fields of a frame by its kind.
LEMMA FrameFields ==
    /\ \A f \in ToFCFrames : /\ f.type \in {"list", "clear", "request", "upload", "items"}
                             /\ f.type = "request" => f.seq \in Seqs
                             /\ f.type = "items" => f.mission \in Missions
    /\ \A f \in ToGCSFrames :
          /\ f.type \in {"count", "item", "pull", "ack"}
          /\ f.type = "count" => f.count \in 0 .. MaxSize
          /\ f.type = "item" => f.seq \in Seqs /\ f.item \in Items
          /\ f.type = "ack" => f.accepted \in BOOLEAN
  BY DEF ToFCFrames, ToGCSFrames

\* A mission of any length has its contents, and the empty mission is one.
LEMMA Sizes == /\ 0 \in Seqs
               /\ \A m \in Missions : /\ Empty(m) \in Missions
                                      /\ Contents(m) \in [Seqs -> Items \cup {NoItem}]
                                      /\ m # NoUpload
  BY DownloadBounds DEF Seqs, Missions, Items, Empty, Contents, NoUpload

LEMMA TypeInit == Init => TypeInv
<1> SUFFICES ASSUME Init PROVE TypeInv
  OBVIOUS
<1>1. 0 \in Items /\ 0 \in 0 .. MaxJobs
  BY DownloadBounds DEF Items
<1>2. StoreOK
  BY <1>1 DEF Init, StoreOK, Missions
<1>3. WorkerOK
  BY <1>1 DEF Init, WorkerOK, Steps, UploadSteps
<1>4. RecvOK
  BY Sizes DEF Init, RecvOK, AtIdle
<1>5. FramesOK
  BY DEF Init, FramesOK
<1> QED
  BY <1>2, <1>3, <1>4, <1>5 DEF TypeInv

\* The frame that is taken is one of its direction.
LEMMA HeadFrames ==
    ASSUME FramesOK
    PROVE  /\ toFC # << >> => Head(toFC) \in ToFCFrames
           /\ toGCS # << >> => Head(toGCS) \in ToGCSFrames
  BY QueueTypes DEF FramesOK

\* What a step does to the frames under way.
LEMMA FramesNext == TypeInv /\ [Next]_vars => FramesOK'
<1> SUFFICES ASSUME TypeInv, [Next]_vars PROVE FramesOK'
  OBVIOUS
<1>1. /\ toFC \in Seq(ToFCFrames) /\ toGCS \in Seq(ToGCSFrames)
      /\ fc \in Missions
      /\ pending \in Missions \cup {NoUpload}
      /\ recv.seq \in Seqs
  BY DEF TypeInv, FramesOK, StoreOK, WorkerOK, RecvOK
<1>2. /\ \A f \in ToFCFrames : Append(toFC, f) \in Seq(ToFCFrames)
      /\ toFC # << >> => Tail(toFC) \in Seq(ToFCFrames) /\ Head(toFC) \in ToFCFrames
  BY <1>1, QueueTypes
<1>3. /\ \A f \in ToGCSFrames : Append(toGCS, f) \in Seq(ToGCSFrames)
      /\ toGCS # << >> => Tail(toGCS) \in Seq(ToGCSFrames) /\ Head(toGCS) \in ToGCSFrames
  BY <1>1, QueueTypes
<1>4. fc.size \in 0 .. MaxSize /\ fc.number \in Items
  BY <1>1 DEF Missions
<1>5. CASE RecvCount \/ RecvItem \/ RecvPull \/ RecvAck
  BY <1>1, <1>2, <1>3, <1>5, Frames
     DEF RecvCount, RecvItem, RecvPull, RecvAck, Received, ToFC, FramesOK
<1>6. CASE StoreItem \/ SendRequest
  BY <1>1, <1>2, <1>6, Frames DEF StoreItem, SendRequest, ToFC, link, FramesOK
<1>7. CASE Transfer \/ StartUpload \/ StartClear
  <2>1. CASE SendCount
    BY <1>1, <1>2, <2>1, Frames DEF SendCount, ToFC, FramesOK
  <2>2. CASE SendClear \/ SendClearAll
    BY <1>1, <1>2, <2>2, Frames DEF SendClear, SendClearAll, ToFC, FramesOK
  <2>3. CASE SendClearFails \/ EndClear \/ SetPending \/ SendCountFails \/ EndUpload
             \/ SendClearAllFails \/ ClearStore \/ StartUpload \/ StartClear
    BY <1>1, <2>3 DEF SendClearFails, EndClear, SetPending, SendCountFails, EndUpload,
                      SendClearAllFails, ClearStore, StartUpload, StartClear, link, FramesOK
  <2> QED
    BY <1>7, <2>1, <2>2, <2>3 DEF Transfer
<1>8. CASE RequestList \/ Reconnect \/ Lose
  <2>1. <<[type |-> "list"]>> \in Seq(ToFCFrames) /\ << >> \in Seq(ToGCSFrames)
    BY Frames
  <2> QED
    BY <1>1, <1>2, <1>3, <1>8, <2>1, Frames DEF RequestList, Reconnect, Lose, ToFC, FramesOK
<1>9. CASE FcList
  BY <1>1, <1>2, <1>3, <1>4, <1>9, Frames DEF FcList, FcHandles, Answers, FramesOK
<1>10. CASE FcRequest
  <2>1. Head(toFC).seq \in Seqs
    BY <1>2, <1>10, FrameFields DEF FcRequest, FcHandles
  <2> QED
    BY <1>1, <1>2, <1>3, <1>4, <1>10, <2>1, Frames DEF FcRequest, FcHandles, Answers, FramesOK
<1>11. CASE FcClear
  BY <1>1, <1>2, <1>3, <1>11, Frames DEF FcClear, FcHandles, Answers, FramesOK
<1>12. CASE FcUpload \/ FcItems
  <2>1. FcItems => Head(toFC).mission \in Missions
    BY <1>2, FrameFields DEF FcItems, FcHandles
  <2> QED
    BY <1>1, <1>2, <1>3, <1>12, <2>1, Frames DEF FcUpload, FcItems, FcHandles, Answers, FramesOK
<1>13. CASE UNCHANGED vars
  BY <1>1, <1>13 DEF vars, link, FramesOK
<1> QED
  BY <1>5, <1>6, <1>7, <1>8, <1>9, <1>10, <1>11, <1>12, <1>13 DEF Next, Recv, FlightController

LEMMA RecvOKNext == TypeInv /\ [Next]_vars => RecvOK'
<1> SUFFICES ASSUME TypeInv, [Next]_vars PROVE RecvOK'
  OBVIOUS
<1> DEFINE Hands == [at : {"idle", "store", "request"}, seq : Seqs, item : Items \cup {NoItem}]
<1>1. /\ count \in 0 .. MaxSize \cup {NoCount} /\ recv \in Hands
      /\ toGCS # << >> => Head(toGCS) \in ToGCSFrames
  BY HeadFrames DEF TypeInv, RecvOK
<1>2. /\ AtIdle \in Hands
      /\ \A s \in Seqs : [AtIdle EXCEPT !.at = "request", !.seq = s] \in Hands
      /\ [AtIdle EXCEPT !.at = "request"] \in Hands
      /\ \A s \in Seqs, i \in Items : [at |-> "store", seq |-> s, item |-> i] \in Hands
  BY Sizes DEF AtIdle
<1>3. RecvOK' <=> count' \in 0 .. MaxSize \cup {NoCount} /\ recv' \in Hands
  BY DEF RecvOK, Seqs, Items
<1> HIDE DEF Hands
<1>4. CASE RecvCount
  BY <1>1, <1>2, <1>3, <1>4, FrameFields DEF RecvCount, Received
<1>5. CASE RecvItem
  BY <1>1, <1>2, <1>3, <1>5, FrameFields DEF RecvItem, Received
<1>6. CASE StoreItem
  <2>1. RequestsNext(recv.seq) => recv.seq + 1 \in Seqs
    <3>1. recv.seq \in Seqs
      BY <1>1 DEF Hands
    <3> QED
      BY <1>1, <3>1, DownloadBounds DEF RequestsNext, Seqs, NoCount
  <2> QED
    BY <1>1, <1>2, <1>3, <1>6, <2>1 DEF StoreItem
<1>7. CASE SendRequest \/ Reconnect
  BY <1>1, <1>2, <1>3, <1>7 DEF SendRequest, Reconnect
<1>8. CASE RecvPull \/ RecvAck \/ Transfer \/ StartUpload \/ StartClear \/ RequestList
           \/ FlightController \/ Lose \/ UNCHANGED vars
  BY <1>1, <1>3, <1>8
     DEF RecvPull, RecvAck, Transfer, SendClear, SendClearFails, EndClear, SetPending, SendCount, SendCountFails,
         EndUpload, SendClearAll, SendClearAllFails, ClearStore,
         StartUpload, StartClear, RequestList, FlightController, FcList, FcRequest, FcClear,
         FcUpload, FcItems, FcHandles, Lose, vars
<1> QED
  BY <1>4, <1>5, <1>6, <1>7, <1>8 DEF Next, Recv

LEMMA StoreOKNext == TypeInv /\ [Next]_vars => StoreOK'
<1> SUFFICES ASSUME TypeInv, [Next]_vars PROVE StoreOK'
  OBVIOUS
<1> DEFINE Mirrors == [Seqs -> Items \cup {NoItem}]
           Kinds == {"upload", "clear", "failure", "loss", "empty"}
<1>1. fc \in Missions /\ items \in Mirrors /\ troubles \subseteq Kinds
  BY DEF TypeInv, StoreOK
<1>2. /\ pending \in Missions \cup {NoUpload} /\ FramesOK
      /\ recv.seq \in Seqs /\ recv.item \in Items \cup {NoItem}
      /\ sent => pending # NoUpload
  BY DEF TypeInv, WorkerOK, RecvOK
<1>3. StoreOK' <=> fc' \in Missions /\ items' \in Mirrors /\ troubles' \subseteq Kinds
  BY DEF StoreOK, Missions, Seqs, Items
<1>4. [s \in Seqs |-> NoItem] \in Mirrors
  OBVIOUS
<1> HIDE DEF Mirrors
<1>5. CASE RecvCount
  BY <1>1, <1>3, <1>5 DEF RecvCount, Trouble, store
<1>6. CASE StoreItem
  <2>1. [items EXCEPT ![recv.seq] = recv.item] \in Mirrors
    BY <1>1, <1>2 DEF Mirrors
  <2> QED
    BY <1>1, <1>3, <1>6, <2>1 DEF StoreItem
<1>7. CASE RecvAck
  <2>1. UNCHANGED fc /\ troubles' \subseteq Kinds
    BY <1>1, <1>7 DEF RecvAck, Trouble
  <2>2. items' = items \/ (pending # NoUpload /\ items' = Contents(pending))
    BY <1>2, <1>7 DEF RecvAck, TakeMission, store
  <2>3. pending # NoUpload => Contents(pending) \in Mirrors
    BY <1>2, Sizes DEF Mirrors
  <2> QED
    BY <1>1, <1>3, <2>1, <2>2, <2>3
<1>8. CASE Transfer
  BY <1>1, <1>3, <1>4, <1>8
     DEF Transfer, SendClear, SendClearFails, EndClear, SetPending, SendCount, SendCountFails,
         EndUpload, SendClearAll, SendClearAllFails, ClearStore,
         Trouble, store
<1>9. CASE FcClear \/ FcItems
  <2>1. Head(toFC).type = "items" /\ toFC # << >> => Head(toFC).mission \in Missions
    BY <1>2, HeadFrames, FrameFields
  <2>2. fc' \in Missions
    BY <1>1, <1>9, <2>1, Sizes DEF FcClear, FcItems, FcHandles
  <2> QED
    BY <1>1, <1>3, <1>9, <2>2 DEF FcClear, FcItems, FcHandles, store
<1>10. CASE RecvPull \/ RecvItem \/ SendRequest \/ StartUpload \/ StartClear \/ RequestList \/ Reconnect
            \/ FcList \/ FcRequest \/ FcUpload \/ Lose \/ UNCHANGED vars
  BY <1>1, <1>3, <1>10
     DEF RecvPull, RecvItem, SendRequest, StartUpload, StartClear, RequestList, Reconnect, FcList, FcRequest,
         FcUpload, FcHandles, Lose, Trouble, store, vars
<1> QED
  BY <1>5, <1>6, <1>7, <1>8, <1>9, <1>10 DEF Next, Recv, FlightController

\* Troubles are not forgotten.
LEMMA TroublesGrow == [Next]_vars => troubles \subseteq troubles'
<1> SUFFICES ASSUME [Next]_vars PROVE troubles \subseteq troubles'
  OBVIOUS
<1>1. CASE Next
  BY <1>1
     DEF Next, Recv, RecvCount, RecvItem, StoreItem, SendRequest, RecvPull, RecvAck, Transfer,
         SendClear, SendClearFails, EndClear, SetPending, SendCount, SendCountFails,
         EndUpload, SendClearAll, SendClearAllFails, ClearStore,
         StartUpload, StartClear, RequestList, Reconnect, FlightController, FcList, FcRequest,
         FcClear, FcUpload, FcItems, FcHandles, Lose, Trouble
<1>2. CASE UNCHANGED vars
  BY <1>2 DEF vars
<1> QED
  BY <1>1, <1>2

\* The steps of the worker, with what each does to the upload.
LEMMA TransferSteps ==
    ASSUME Transfer
    PROVE  /\ UNCHANGED <<jobs, count, recv, toGCS, fc>>
           /\ \/ SendClear /\ worker = "sendClear" /\ worker' = "await" /\ UNCHANGED store
              \/ EndClear /\ worker = "await" /\ worker' = "setPending"
                   /\ UNCHANGED <<items, pending, sent, toFC>> /\ ~awaiting'
              \/ SetPending /\ worker = "setPending" /\ worker' = "sendCount"
                   /\ pending' \in [number : {jobs}, size : 2 .. MaxSize] /\ ~sent'
                   /\ UNCHANGED <<items, awaiting, toFC>>
              \/ SendCount /\ worker = "sendCount" /\ worker' = "poll" /\ UNCHANGED store
              \/ /\ \/ SendClearFails /\ worker = "sendClear"
                    \/ SendCountFails /\ worker = "sendCount"
                 /\ worker' = "idle" /\ "failure" \in troubles' /\ UNCHANGED <<store, toFC>>
              \/ EndUpload /\ worker = "poll" /\ worker' = "idle" /\ pending' = NoUpload /\ ~sent'
                   /\ (pending # NoUpload => "failure" \in troubles')
                   /\ UNCHANGED <<items, awaiting, toFC>>
              \/ SendClearAll /\ worker = "clearSend" /\ worker' = "clearStore"
                   /\ "clear" \in troubles' /\ UNCHANGED store
              \/ SendClearAllFails /\ worker = "clearSend" /\ worker' = "idle"
                   /\ UNCHANGED <<store, toFC>>
              \/ ClearStore /\ worker = "clearStore" /\ worker' = "idle" /\ UNCHANGED toFC
                   /\ pending' = NoUpload /\ ~sent' /\ ~awaiting'
<1>1. CASE SendClear \/ EndClear \/ SetPending \/ SendCount
  BY <1>1 DEF SendClear, EndClear, SetPending, SendCount, GoTo, store, link
<1>2. CASE SendClearFails \/ SendCountFails \/ SendClearAllFails
  BY <1>2 DEF SendClearFails, SendCountFails, SendClearAllFails, GoTo, Trouble, store, link
<1>3. CASE EndUpload \/ SendClearAll \/ ClearStore
  BY <1>3 DEF EndUpload, SendClearAll, ClearStore, GoTo, Trouble, store, link
<1> QED
  BY <1>1, <1>2, <1>3 DEF Transfer

LEMMA WorkerOKNext == TypeInv /\ [Next]_vars => WorkerOK'
<1> SUFFICES ASSUME TypeInv, [Next]_vars PROVE WorkerOK'
  OBVIOUS
<1>1. WorkerOK /\ troubles \subseteq troubles'
  BY TroublesGrow DEF TypeInv
<1>2. CASE UNCHANGED <<pending, sent, awaiting, worker, jobs>>
  BY <1>1, <1>2 DEF WorkerOK, Items
<1>3. CASE StartUpload
  <2>1. jobs + 1 \in 0 .. MaxJobs /\ jobs + 1 \in Items /\ jobs' = jobs + 1
    BY <1>1, <1>3, DownloadBounds DEF StartUpload, WorkerOK, Items
  <2> QED
    BY <1>1, <1>3, <2>1 DEF StartUpload, GoTo, WorkerOK, Steps, UploadSteps, Items
<1>4. CASE StartClear
  <2>1. jobs + 1 \in 0 .. MaxJobs /\ jobs' = jobs + 1
    BY <1>1, <1>4, DownloadBounds DEF StartClear, WorkerOK
  <2> QED
    BY <1>1, <1>4, <2>1 DEF StartClear, GoTo, WorkerOK, Steps, UploadSteps, store
<1>5. CASE RecvPull \/ RecvAck
  BY <1>1, <1>5 DEF RecvPull, RecvAck, WorkerOK, Items, store
<1>6. CASE Transfer
  <2>1. CASE SetPending
    <3>1. /\ worker = "setPending" /\ worker' = "sendCount" /\ ~sent'
          /\ pending' \in [number : {jobs}, size : 2 .. MaxSize]
          /\ awaiting' = awaiting /\ jobs' = jobs
      BY <2>1 DEF SetPending, GoTo
    <3>2. jobs \in Items
      BY <1>1, <3>1 DEF WorkerOK, UploadSteps
    <3>3. pending' \in Missions
      BY <3>1, <3>2 DEF Missions
    <3>4. sent' \in BOOLEAN
      BY <2>1 DEF SetPending
    <3> QED
      BY <1>1, <3>1, <3>2, <3>3, <3>4 DEF WorkerOK, Steps, UploadSteps, Items
  <2>2. CASE SendClear \/ SendClearFails \/ SendCount \/ SendCountFails \/ SendClearAll
             \/ SendClearAllFails
    BY <1>1, <2>2
       DEF SendClear, SendClearFails, SendCount, SendCountFails, SendClearAll, SendClearAllFails,
           GoTo, Trouble, WorkerOK, Steps, UploadSteps, Items, store
  <2>3. CASE EndClear
    BY <1>1, <2>3 DEF EndClear, GoTo, WorkerOK, Steps, UploadSteps, Items
  <2>4. CASE EndUpload \/ ClearStore
    <3>1. /\ worker' = "idle" /\ pending' = NoUpload /\ sent' = FALSE /\ jobs' = jobs
          /\ \/ awaiting' = FALSE
             \/ worker = "poll" /\ awaiting' = awaiting
      BY <2>4 DEF EndUpload, ClearStore, GoTo
    <3>2. awaiting' \in BOOLEAN /\ (awaiting' => "failure" \in troubles')
      <4>1. CASE awaiting' = FALSE
        BY <4>1
      <4>2. CASE worker = "poll" /\ awaiting' = awaiting
        <5>1. awaiting \in BOOLEAN /\ (awaiting => "failure" \in troubles)
          BY <1>1, <4>2 DEF WorkerOK
        <5> QED
          BY <1>1, <4>2, <5>1
      <4> QED
        BY <3>1, <4>1, <4>2
    <3> QED
      BY <1>1, <3>1, <3>2 DEF WorkerOK, Steps, UploadSteps
  <2> QED
    BY <1>6, <2>1, <2>2, <2>3, <2>4 DEF Transfer
<1>7. CASE RecvCount \/ RecvItem \/ StoreItem \/ SendRequest \/ RequestList \/ Reconnect
           \/ FlightController \/ Lose \/ UNCHANGED vars
  BY <1>2, <1>7
     DEF RecvCount, RecvItem, StoreItem, SendRequest, RequestList, Reconnect, FlightController,
         FcList, FcRequest, FcClear, FcUpload, FcItems, FcHandles, Lose, store, vars
<1> QED
  BY <1>3, <1>4, <1>5, <1>6, <1>7 DEF Next, Recv

LEMMA TypeNext == TypeInv /\ [Next]_vars => TypeInv'
  BY FramesNext, RecvOKNext, StoreOKNext, WorkerOKNext DEF TypeInv

LEMMA TypeInvImplies == TypeInv => TypeOK
<1> SUFFICES ASSUME TypeInv PROVE TypeOK
  OBVIOUS
<1>1. \A i \in 1 .. Len(toGCS) : toGCS[i] \in ToGCSFrames
  BY DEF TypeInv, FramesOK
<1> QED
  BY <1>1, FrameFields DEF TypeOK, TypeInv, StoreOK, WorkerOK, RecvOK

\* Type correctness: every item under way, in hand or stored is one of a mission
\* that was built, and the flags that pause downloads are set only at the steps
\* of an upload, or once one failed (mission_transfer_busy).
THEOREM TypeCorrect == Spec => []TypeOK
<1>1. Spec => []TypeInv
  BY TypeInit, TypeNext, PTL DEF Spec
<1> QED
  BY <1>1, TypeInvImplies, PTL
-----------------------------------------------------------------------------
(* What a step can do to the link, the troubles and the upload.            *)

\* A frame that the step sends to the FC; one that the FC sends.
SentToFC(f) == \/ f.type = "list"
               \/ f.type = "request" /\ f.seq = recv.seq /\ SendRequest
               \/ f.type = "clear" /\ (SendClear \/ SendClearAll)
               \/ f.type = "upload" /\ SendCount
               \/ f.type = "items" /\ f.mission = pending /\ pending # NoUpload /\ RecvPull
SentToGCS(f) == \/ f.type = "count" /\ f.count = fc.size
                \/ f.type = "item" /\ OfFC(f.seq, f.item) /\ FcRequest
                \/ f.type = "pull" /\ FcUpload
                \/ f.type = "ack" /\ (FcClear \/ FcUpload)
                \/ f.type = "ack" /\ FcItems /\ (f.accepted => fc' = Head(toFC).mission)

\* A queue of one frame.
LEMMA Single == ASSUME NEW x PROVE Elems(<<x>>) = {x} /\ \A f, g : ~Ahead(<<x>>, f, g)
<1>1. Len(<<x>>) = 1 /\ <<x>>[1] = x
  OBVIOUS
<1> QED
  BY <1>1 DEF Elems, Ahead

\* Whatever is newly on the way to the FC was sent in this step, and is behind the rest.
LEMMA ToFCNext ==
    ASSUME TypeInv, [Next]_vars
    PROVE  /\ \A f \in Elems(toFC') : f \in Elems(toFC) \/ SentToFC(f)
           /\ \A f, g : Ahead(toFC', f, g) =>
                 Ahead(toFC, f, g) \/ (f \in Elems(toFC) /\ SentToFC(g))
<1> DEFINE Goal == /\ \A f \in Elems(toFC') : f \in Elems(toFC) \/ SentToFC(f)
                   /\ \A f, g : Ahead(toFC', f, g) =>
                         Ahead(toFC, f, g) \/ (f \in Elems(toFC) /\ SentToFC(g))
<1>1. /\ toFC \in Seq(ToFCFrames) /\ recv.seq \in Seqs
      /\ pending \in Missions \cup {NoUpload}
  BY DEF TypeInv, FramesOK, WorkerOK, RecvOK
<1>2. ASSUME UNCHANGED toFC PROVE Goal
  BY <1>2
<1>3. ASSUME toFC # << >>, toFC' = Tail(toFC) PROVE Goal
  BY <1>1, <1>3, QueueElems, QueueOrder
<1>4. ASSUME NEW x \in ToFCFrames, toFC' = Append(toFC, x), SentToFC(x) PROVE Goal
  <2>1. Elems(toFC') = Elems(toFC) \cup {x}
    BY <1>1, <1>4, QueueElems
  <2>2. \A f, g : Ahead(toFC', f, g) => Ahead(toFC, f, g) \/ (f \in Elems(toFC) /\ g = x)
    BY <1>1, <1>4, QueueOrder
  <2> QED
    BY <1>4, <2>1, <2>2
<1>5. CASE SendRequest \/ RequestList
  <2>1. PICK x \in ToFCFrames :
           /\ toFC' = Append(toFC, x)
           /\ x.type = "list" \/ (x.type = "request" /\ x.seq = recv.seq /\ SendRequest)
    <3>1. CASE SendRequest
      <4> DEFINE x == [type |-> "request", seq |-> recv.seq]
      <4>1. x \in ToFCFrames /\ toFC' = Append(toFC, x) /\ x.type = "request" /\ x.seq = recv.seq
        BY <1>1, <3>1, Frames DEF SendRequest, ToFC
      <4> HIDE DEF x
      <4> QED
        BY <3>1, <4>1
    <3>2. CASE RequestList
      BY <3>2, Frames DEF RequestList, ToFC
    <3> QED
      BY <1>5, <3>1, <3>2
  <2>2. SentToFC(x)
    BY <2>1 DEF SentToFC
  <2> QED
    BY <1>4, <2>1, <2>2
<1>6. CASE SendClear \/ SendClearAll
  <2> DEFINE x == [type |-> "clear"]
  <2>1. x \in ToFCFrames /\ toFC' = Append(toFC, x) /\ x.type = "clear"
    BY <1>6, Frames DEF SendClear, SendClearAll, ToFC
  <2>2. SentToFC(x)
    BY <1>6, <2>1 DEF SentToFC
  <2> HIDE DEF x
  <2> QED
    BY <1>4, <2>1, <2>2
<1>7. CASE SendCount
  <2> DEFINE x == [type |-> "upload"]
  <2>1. x \in ToFCFrames /\ toFC' = Append(toFC, x) /\ x.type = "upload"
    BY <1>7, Frames DEF SendCount, ToFC
  <2>2. SentToFC(x)
    BY <1>7, <2>1 DEF SentToFC
  <2> HIDE DEF x
  <2> QED
    BY <1>4, <2>1, <2>2
<1>8. CASE Reconnect
  <2> DEFINE x == [type |-> "list"]
  <2>1. toFC' = <<x>> /\ x.type = "list"
    BY <1>8 DEF Reconnect
  <2>2. SentToFC(x)
    BY <2>1 DEF SentToFC
  <2> HIDE DEF x
  <2> QED
    BY <2>1, <2>2, Single
<1>9. CASE FlightController
  BY <1>3, <1>9 DEF FlightController, FcList, FcRequest, FcClear, FcUpload, FcItems, FcHandles
<1>10. CASE Lose
  BY <1>2, <1>3, <1>10 DEF Lose
<1>11. CASE RecvPull
  <2> DEFINE x == [type |-> "items", mission |-> pending]
  <2>1. CASE pending # NoUpload
    <3>1. pending \in Missions
      BY <1>1, <2>1
    <3>2. x \in ToFCFrames /\ toFC' = Append(toFC, x) /\ x.type = "items" /\ x.mission = pending
      BY <1>11, <2>1, <3>1, Frames DEF RecvPull, ToFC
    <3>3. SentToFC(x)
      BY <1>11, <2>1, <3>2 DEF SentToFC
    <3> HIDE DEF x
    <3> QED
      BY <1>4, <3>2, <3>3
  <2>2. CASE pending = NoUpload
    BY <1>2, <1>11, <2>2 DEF RecvPull
  <2> QED
    BY <2>1, <2>2
<1>12. CASE SendClearFails \/ EndClear \/ SetPending \/ SendCountFails \/ EndUpload
            \/ SendClearAllFails \/ ClearStore
  BY <1>2, <1>12
     DEF SendClearFails, EndClear, SetPending, SendCountFails, EndUpload, SendClearAllFails,
         ClearStore, link
<1>13. CASE RecvCount \/ RecvItem \/ StoreItem \/ RecvAck \/ StartUpload \/ StartClear
            \/ UNCHANGED vars
  BY <1>2, <1>13 DEF RecvCount, RecvItem, StoreItem, RecvAck, StartUpload, StartClear, link, vars
<1> QED
  BY <1>5, <1>6, <1>7, <1>8, <1>9, <1>10, <1>11, <1>12, <1>13 DEF Next, Recv, Transfer

\* The same for the frames on the way back.
LEMMA ToGCSNext ==
    ASSUME TypeInv, [Next]_vars
    PROVE  /\ \A f \in Elems(toGCS') : f \in Elems(toGCS) \/ SentToGCS(f)
           /\ \A f, g : Ahead(toGCS', f, g) =>
                 Ahead(toGCS, f, g) \/ (f \in Elems(toGCS) /\ SentToGCS(g))
<1> DEFINE Goal == /\ \A f \in Elems(toGCS') : f \in Elems(toGCS) \/ SentToGCS(f)
                   /\ \A f, g : Ahead(toGCS', f, g) =>
                         Ahead(toGCS, f, g) \/ (f \in Elems(toGCS) /\ SentToGCS(g))
<1>1. /\ toGCS \in Seq(ToGCSFrames) /\ fc \in Missions
      /\ toFC # << >> => Head(toFC) \in ToFCFrames
  BY HeadFrames DEF TypeInv, FramesOK, StoreOK
<1>2. ASSUME UNCHANGED toGCS PROVE Goal
  BY <1>2
<1>3. ASSUME toGCS # << >>, toGCS' = Tail(toGCS) PROVE Goal
  BY <1>1, <1>3, QueueElems, QueueOrder
<1>4. ASSUME NEW x \in ToGCSFrames, toGCS' = Append(toGCS, x), SentToGCS(x) PROVE Goal
  <2>1. Elems(toGCS') = Elems(toGCS) \cup {x}
    BY <1>1, <1>4, QueueElems
  <2>2. \A f, g : Ahead(toGCS', f, g) => Ahead(toGCS, f, g) \/ (f \in Elems(toGCS) /\ g = x)
    BY <1>1, <1>4, QueueOrder
  <2> QED
    BY <1>4, <2>1, <2>2
<1>5. fc.size \in 0 .. MaxSize /\ fc.number \in Items
  BY <1>1 DEF Missions
<1>6. CASE FcList
  <2> DEFINE x == [type |-> "count", count |-> fc.size]
  <2>1. x \in ToGCSFrames /\ toGCS' = Append(toGCS, x) /\ x.type = "count" /\ x.count = fc.size
    BY <1>5, <1>6, Frames DEF FcList, Answers
  <2>2. SentToGCS(x)
    BY <2>1 DEF SentToGCS
  <2> HIDE DEF x
  <2> QED
    BY <1>4, <2>1, <2>2
<1>7. CASE FcRequest
  <2> DEFINE s == Head(toFC).seq
             x == [type |-> "item", seq |-> s, item |-> fc.number]
  <2>1. s \in Seqs
    BY <1>1, <1>7, FrameFields DEF FcRequest, FcHandles
  <2>2. CASE s < fc.size
    <3>1. x \in ToGCSFrames /\ toGCS' = Append(toGCS, x)
      BY <1>5, <1>7, <2>1, <2>2, Frames DEF FcRequest, Answers
    <3>2. x.type = "item" /\ OfFC(x.seq, x.item)
      BY <2>1, <2>2 DEF OfFC, Contents
    <3>3. SentToGCS(x)
      BY <1>7, <3>2 DEF SentToGCS
    <3> HIDE DEF x
    <3> QED
      BY <1>4, <3>1, <3>3
  <2>3. CASE ~(s < fc.size)
    BY <1>2, <1>7, <2>3 DEF FcRequest
  <2> QED
    BY <2>2, <2>3
<1>8. CASE FcClear
  <2> DEFINE x == [type |-> "ack", accepted |-> TRUE]
  <2>1. x \in ToGCSFrames /\ toGCS' = Append(toGCS, x) /\ x.type = "ack"
    BY <1>8, Frames DEF FcClear, Answers
  <2>2. SentToGCS(x)
    BY <1>8, <2>1 DEF SentToGCS
  <2> HIDE DEF x
  <2> QED
    BY <1>4, <2>1, <2>2
<1>9. CASE FcUpload \/ FcItems
  <2>1. PICK x \in ToGCSFrames :
           /\ toGCS' = Append(toGCS, x)
           /\ \/ x.type \in {"pull", "ack"} /\ FcUpload
              \/ x.type = "ack" /\ FcItems /\ (x.accepted => fc' = Head(toFC).mission)
    BY <1>9, Frames DEF FcUpload, FcItems, Answers
  <2>2. SentToGCS(x)
    BY <2>1 DEF SentToGCS
  <2> QED
    BY <1>4, <2>1, <2>2
<1>10. CASE RecvCount \/ RecvItem \/ RecvPull \/ RecvAck
  BY <1>3, <1>10 DEF RecvCount, RecvItem, RecvPull, RecvAck, Received
<1>11. CASE Reconnect
  BY <1>1, <1>11, QueueElems, QueueOrder DEF Reconnect
<1>12. CASE Lose
  BY <1>2, <1>3, <1>12 DEF Lose
<1>13. CASE StoreItem \/ SendRequest \/ Transfer \/ StartUpload \/ StartClear \/ RequestList
            \/ UNCHANGED vars
  BY <1>2, <1>13
     DEF StoreItem, SendRequest, Transfer, SendClear, SendClearFails, EndClear, SetPending, SendCount, SendCountFails,
         EndUpload, SendClearAll, SendClearAllFails, ClearStore,
         StartUpload, StartClear, RequestList, link, vars
<1> QED
  BY <1>6, <1>7, <1>8, <1>9, <1>10, <1>11, <1>12, <1>13 DEF Next, Recv, FlightController
-----------------------------------------------------------------------------
(* The mirror.                                                             *)

LEMMA FrameTypes == TypeInv => /\ Elems(toFC) \subseteq ToFCFrames
                               /\ Elems(toGCS) \subseteq ToGCSFrames
  BY QueueElems DEF TypeInv, FramesOK

\* The frame taken is one that was on the way ...
LEMMA Heads == TypeInv => /\ toFC # << >> => Head(toFC) \in Elems(toFC)
                          /\ toGCS # << >> => Head(toGCS) \in Elems(toGCS)
  BY QueueElems DEF TypeInv, FramesOK

\* ... and all that remain are behind it.
LEMMA Tails == TypeInv => /\ toFC # << >> => \A g \in Elems(Tail(toFC)) : Ahead(toFC, Head(toFC), g)
                          /\ toGCS # << >> =>
                               \A g \in Elems(Tail(toGCS)) : Ahead(toGCS, Head(toGCS), g)
  BY QueueOrder DEF TypeInv, FramesOK

LEMMA CleanBefore == [Next]_vars /\ Clean' => Clean
  BY TroublesGrow DEF Clean

\* What a step does to the upload.
LEMMA UploadNext ==
    ASSUME TypeInv, [Next]_vars
    PROVE  \/ UNCHANGED <<worker, pending, sent>>
           \/ RecvPull /\ UNCHANGED <<worker, pending>> /\ sent' /\ pending # NoUpload
           \/ RecvAck /\ UNCHANGED worker
           \/ Transfer
           \/ /\ StartUpload \/ StartClear
              /\ worker = "idle" /\ worker' \in {"sendClear", "clearSend"}
              /\ UNCHANGED <<pending, sent>>
<1>1. CASE RecvCount \/ RecvItem \/ StoreItem \/ SendRequest \/ RequestList \/ Reconnect
           \/ FlightController \/ Lose \/ UNCHANGED vars
  BY <1>1
     DEF RecvCount, RecvItem, StoreItem, SendRequest, RequestList, Reconnect, FlightController,
         FcList, FcRequest, FcClear, FcUpload, FcItems, FcHandles, Lose, store, vars
<1>2. CASE RecvPull \/ RecvAck
  BY <1>2 DEF RecvPull, RecvAck
<1>3. CASE StartUpload \/ StartClear
  BY <1>3 DEF StartUpload, StartClear, GoTo, store
<1> QED
  BY <1>1, <1>2, <1>3 DEF Next, Recv

\* An ACK that no failure comes of leaves the upload as it is, or completes it.
LEMMA AckClean ==
    ASSUME TypeInv, RecvAck, Clean'
    PROVE  \/ UNCHANGED <<items, pending, sent>>
           \/ /\ Head(toGCS) \in Elems(toGCS) /\ Accepts(Head(toGCS))
              /\ pending' = NoUpload /\ ~sent' /\ items' = Contents(pending)
<1>1. toGCS # << >> /\ Head(toGCS) \in Elems(toGCS) /\ Head(toGCS).type = "ack"
  BY Heads DEF RecvAck, Received
<1>2. \/ UNCHANGED <<items, pending, sent>>
      \/ Trouble("failure")
      \/ /\ sent /\ Head(toGCS).accepted
         /\ pending' = NoUpload /\ ~sent' /\ items' = Contents(pending)
  BY DEF RecvAck, TakeMission, store
<1> QED
  BY <1>1, <1>2 DEF Accepts, Trouble, Clean

\* The items are requested while the upload polls and has not sent them, with no
\* other frame of an upload, and no ACK, behind the request.
LEMMA PullClean ==
    ASSUME TypeInv, RoundInv, RecvPull, Clean
    PROVE  /\ Unsent
           /\ toGCS' = Tail(toGCS)
           /\ \A f \in Elems(toFC) : f.type \notin {"clear", "upload"}
           /\ \A g \in Elems(toGCS') : g.type \notin {"pull", "ack"}
<1>1. /\ toGCS # << >> /\ toGCS' = Tail(toGCS)
      /\ Head(toGCS) \in Elems(toGCS) /\ Head(toGCS).type = "pull"
  BY Heads DEF RecvPull, Received
<1>2. \A g \in Elems(toGCS') : g \in Elems(toGCS) /\ Ahead(toGCS, Head(toGCS), g)
  BY <1>1, QueueElems, Tails DEF TypeInv, FramesOK
<1> QED
  BY <1>1, <1>2 DEF RoundInv

\* What has become of the upload after a step that no failure comes of.
LEMMA RoundSteps ==
    ASSUME TypeInv, RoundInv, [Next]_vars, Clean'
    PROVE  /\ Clean
           /\ worker \in {"await", "setPending", "sendCount"} =>
                worker' \in {"await", "setPending", "sendCount"} \/ Unsent'
           /\ Unsent => Unsent' \/ RecvPull
           /\ sent => /\ worker = "poll" /\ pending # NoUpload
                      /\ \/ UNCHANGED <<worker, pending, sent>>
                         \/ RecvAck /\ Accepts(Head(toGCS)) /\ ~sent' /\ pending' = NoUpload
           /\ sent' => sent \/ RecvPull
<1>1. Clean /\ "failure" \notin troubles' /\ "clear" \notin troubles'
  BY CleanBefore DEF Clean
<1>2. worker = "sendCount" => pending # NoUpload /\ ~sent
  BY <1>1 DEF RoundInv
<1>3. sent => worker = "poll" /\ pending # NoUpload
  BY <1>1, <1>2 DEF TypeInv, WorkerOK, Clean
<1>4. CASE UNCHANGED <<worker, pending, sent>>
  BY <1>1, <1>3, <1>4 DEF Unsent, Polls
<1>5. CASE RecvPull /\ UNCHANGED <<worker, pending>>
  BY <1>1, <1>3, <1>5, PullClean DEF Unsent, Polls
<1>6. CASE RecvAck /\ UNCHANGED worker
  BY <1>1, <1>3, <1>6, AckClean DEF Unsent, Polls, Accepts
<1>7. CASE Transfer
  BY <1>1, <1>2, <1>3, <1>7, TransferSteps DEF Unsent, Polls, store
<1>8. CASE worker = "idle" /\ UNCHANGED <<pending, sent>>
  BY <1>1, <1>3, <1>8 DEF Unsent, Polls
<1> QED
  BY <1>4, <1>5, <1>6, <1>7, <1>8, UploadNext

\* What the FC takes of an upload is what was sent to it.
LEMMA FcTakes ==
    ASSUME TypeInv, FcClear \/ FcUpload \/ FcItems
    PROVE  /\ Head(toFC) \in Elems(toFC)
           /\ FcClear => Head(toFC).type = "clear"
           /\ FcUpload => Head(toFC).type = "upload"
           /\ FcItems => Head(toFC).type = "items"
           /\ UNCHANGED <<worker, pending, sent>>
           /\ \A f \in Elems(toFC') : f \in Elems(toFC) /\ Ahead(toFC, Head(toFC), f)
<1>1. /\ toFC # << >> /\ toFC' = Tail(toFC)
      /\ FcClear => Head(toFC).type = "clear"
      /\ FcUpload => Head(toFC).type = "upload"
      /\ FcItems => Head(toFC).type = "items"
      /\ UNCHANGED <<worker, pending, sent>>
  BY DEF FcClear, FcUpload, FcItems, FcHandles, store
<1>2. Head(toFC) \in Elems(toFC) /\ \A f \in Elems(Tail(toFC)) : Ahead(toFC, Head(toFC), f)
  BY <1>1, Heads, Tails
<1>3. Elems(Tail(toFC)) \subseteq Elems(toFC)
  BY <1>1, QueueElems DEF TypeInv, FramesOK
<1> QED
  BY <1>1, <1>2, <1>3

\* The invariants, each kept by every step: the frames of an upload come one
\* after the other, ...
LEMMA RoundNext == TypeInv /\ RoundInv /\ [Next]_vars => RoundInv'
<1> SUFFICES ASSUME TypeInv, RoundInv, [Next]_vars PROVE RoundInv'
  OBVIOUS
<1>1. ASSUME Clean', worker' = "sendCount" PROVE pending' # NoUpload /\ ~sent'
  <2>1. Clean /\ "failure" \notin troubles'
    BY <1>1, CleanBefore DEF Clean
  <2>2. CASE SetPending /\ pending' \in [number : {jobs}, size : 2 .. MaxSize] /\ ~sent'
    <3>1. worker = "setPending"
      BY <2>2 DEF SetPending, GoTo
    <3>2. jobs \in Items
      BY <3>1 DEF TypeInv, WorkerOK, UploadSteps
    <3>3. pending' \in Missions
      BY <2>2, <3>2 DEF Missions
    <3> QED
      BY <2>2, <3>3, Sizes
  <2>3. CASE worker = "sendCount"
    <3>1. pending # NoUpload /\ ~sent
      BY <2>1, <2>3 DEF RoundInv
    <3>2. ~RecvPull
      BY <2>1, <2>3, PullClean DEF Unsent, Polls
    <3>3. UNCHANGED <<pending, sent>>
      BY <1>1, <2>3, <3>1, <3>2, UploadNext, AckClean, TransferSteps DEF Accepts
    <3> QED
      BY <3>1, <3>3
  <2> QED
    BY <1>1, <2>2, <2>3, UploadNext, TransferSteps
<1>2. ASSUME Clean', NEW f \in Elems(toFC'), f.type = "clear"
      PROVE  worker' \in {"await", "setPending", "sendCount"} \/ Unsent'
  <2>1. CASE f \in Elems(toFC)
    <3>1. Clean /\ (worker \in {"await", "setPending", "sendCount"} \/ Unsent) /\ ~RecvPull
      BY <1>2, <2>1, RoundSteps, PullClean DEF RoundInv
    <3> QED
      BY <1>2, <3>1, RoundSteps
  <2>2. CASE SendClear
    BY <2>2 DEF SendClear, GoTo
  <2>3. CASE SendClearAll
    BY <1>2, <2>3 DEF SendClearAll, Trouble, Clean
  <2> QED
    BY <1>2, <2>1, <2>2, <2>3, ToFCNext DEF SentToFC
<1>3. ASSUME Clean', NEW f \in Elems(toFC'), f.type = "upload" PROVE Unsent'
  <2>1. CASE f \in Elems(toFC)
    <3>1. Clean /\ Unsent /\ ~RecvPull
      BY <1>3, <2>1, RoundSteps, PullClean DEF RoundInv
    <3> QED
      BY <1>3, <3>1, RoundSteps
  <2>2. CASE SendCount
    <3>1. worker = "sendCount" /\ worker' = "poll" /\ UNCHANGED <<pending, sent>>
      BY <2>2 DEF SendCount, GoTo, store
    <3> QED
      BY <1>3, <3>1, CleanBefore DEF RoundInv, Unsent, Polls
  <2> QED
    BY <1>3, <2>1, <2>2, ToFCNext DEF SentToFC
<1>4. ASSUME Clean', NEW f \in Elems(toFC'), f.type = "items"
      PROVE  worker' = "poll" /\ sent' /\ f.mission = pending'
  <2>1. CASE f \in Elems(toFC)
    <3>1. Clean /\ worker = "poll" /\ sent /\ f.mission = pending
      BY <1>4, <2>1, CleanBefore DEF RoundInv
    <3>2. ~(RecvAck /\ Accepts(Head(toGCS)))
      <4>1. RecvAck => Head(toGCS) \in Elems(toGCS)
        BY Heads DEF RecvAck, Received
      <4> QED
        BY <1>4, <2>1, <3>1, <4>1 DEF RoundInv, Accepts
    <3> QED
      BY <1>4, <3>1, <3>2, RoundSteps
  <2>2. CASE RecvPull /\ pending # NoUpload /\ f.mission = pending
    <3>1. UNCHANGED <<worker, pending>> /\ sent'
      BY <2>2 DEF RecvPull
    <3> QED
      BY <1>4, <2>2, <3>1, CleanBefore, PullClean DEF Unsent, Polls
  <2> QED
    BY <1>4, <2>1, <2>2, ToFCNext DEF SentToFC
<1>5. ASSUME Clean', NEW g \in Elems(toGCS'), g.type = "pull" PROVE Unsent'
  <2>1. Clean
    BY <1>5, CleanBefore
  <2>2. CASE g \in Elems(toGCS)
    BY <1>5, <2>1, <2>2, RoundSteps, PullClean DEF RoundInv
  <2>3. CASE FcUpload
    BY <2>1, <2>3, FcTakes DEF RoundInv, Unsent, Polls
  <2> QED
    BY <1>5, <2>2, <2>3, ToGCSNext DEF SentToGCS
<1>6. ASSUME Clean', NEW f \in Elems(toFC'), NEW g \in Elems(toFC'), Ahead(toFC', f, g)
      PROVE  /\ f.type = "upload" => g.type \notin {"clear", "upload"}
             /\ f.type = "items" => g.type # "items"
  <2>1. Clean
    BY <1>6, CleanBefore
  <2>2. CASE Ahead(toFC, f, g)
    <3>1. f \in Elems(toFC) /\ g \in Elems(toFC)
      BY <2>2 DEF Ahead, Elems
    <3> QED
      BY <2>1, <2>2, <3>1 DEF RoundInv
  <2>3. CASE f \in Elems(toFC) /\ SentToFC(g)
    <3>1. f.type \in {"upload", "items"} => worker = "poll"
      BY <2>1, <2>3 DEF RoundInv, Unsent, Polls
    <3>2. worker = "poll" => ~SendClear /\ ~SendClearAll /\ ~SendCount
      BY DEF SendClear, SendClearAll, SendCount, GoTo
    <3>3. f.type = "items" => ~RecvPull
      BY <2>1, <2>3, PullClean DEF RoundInv, Unsent
    <3> QED
      BY <2>3, <3>1, <3>2, <3>3 DEF SentToFC
  <2> QED
    BY <1>6, <2>2, <2>3, ToFCNext
\* What the FC takes is not there together with the request for the items.
<1>7. ASSUME Clean, NEW g \in Elems(toGCS), g.type = "pull"
      PROVE  ~FcClear /\ ~FcUpload /\ ~FcItems
  <2>1. Unsent /\ \A f \in Elems(toFC) : f.type \notin {"clear", "upload"}
    BY <1>7 DEF RoundInv
  <2>2. \A f \in Elems(toFC) : f.type # "items"
    BY <1>7, <2>1 DEF RoundInv, Unsent
  <2> QED
    BY <2>1, <2>2, FcTakes
<1>8. ASSUME Clean', NEW f \in Elems(toGCS'), NEW g \in Elems(toGCS'), Ahead(toGCS', f, g),
             f.type = "pull"
      PROVE  g.type \notin {"pull", "ack"}
  <2>1. Clean
    BY <1>8, CleanBefore
  <2>2. CASE Ahead(toGCS, f, g)
    <3>1. f \in Elems(toGCS) /\ g \in Elems(toGCS)
      BY <2>2 DEF Ahead, Elems
    <3> QED
      BY <1>8, <2>1, <2>2, <3>1 DEF RoundInv
  <2>3. CASE f \in Elems(toGCS) /\ SentToGCS(g)
    BY <1>7, <1>8, <2>1, <2>3 DEF SentToGCS
  <2> QED
    BY <1>8, <2>2, <2>3, ToGCSNext
<1>9. ASSUME Clean', NEW f \in Elems(toFC'), NEW g \in Elems(toGCS'),
             f.type \in {"clear", "upload"}, g.type = "pull"
      PROVE  FALSE
  <2>1. Clean
    BY <1>9, CleanBefore
  <2>2. CASE g \in Elems(toGCS)
    <3>1. worker = "poll"
      BY <1>9, <2>1, <2>2 DEF RoundInv, Unsent, Polls
    <3>2. f \in Elems(toFC)
      BY <1>9, <3>1, ToFCNext DEF SentToFC, SendClear, SendClearAll, SendCount, GoTo
    <3> QED
      BY <1>9, <2>1, <2>2, <3>2 DEF RoundInv
  <2>3. CASE FcUpload
    BY <1>9, <2>1, <2>3, FcTakes DEF RoundInv
  <2> QED
    BY <1>9, <2>2, <2>3, ToGCSNext DEF SentToGCS
<1>10. ASSUME Clean', NEW f \in Elems(toFC'), NEW g \in Elems(toGCS'),
              f.type = "items", g.type = "ack"
       PROVE  FALSE
  <2>1. Clean
    BY <1>10, CleanBefore
  <2>2. CASE RecvPull
    BY <1>10, <2>1, <2>2, PullClean
  <2>3. CASE ~RecvPull
    <3>1. f \in Elems(toFC)
      BY <1>10, <2>3, ToFCNext DEF SentToFC
    <3>2. worker = "poll" /\ sent
      BY <1>10, <2>1, <3>1 DEF RoundInv
    <3>3. ~FcClear /\ ~FcUpload
      BY <2>1, <3>2, FcTakes DEF RoundInv, Unsent
    <3>4. ~FcItems
      BY <1>10, <2>1, FcTakes DEF RoundInv
    <3>5. g \in Elems(toGCS)
      BY <1>10, <3>3, <3>4, ToGCSNext DEF SentToGCS
    <3> QED
      BY <1>10, <2>1, <3>1, <3>5 DEF RoundInv
  <2> QED
    BY <2>2, <2>3
<1>11. ASSUME worker' = "clearStore" PROVE "clear" \in troubles'
  <2>1. troubles \subseteq troubles'
    BY TroublesGrow
  <2>2. CASE worker = "clearStore"
    BY <2>1, <2>2 DEF RoundInv
  <2>3. CASE worker # "clearStore"
    BY <1>11, <2>3, UploadNext, TransferSteps
  <2> QED
    BY <2>2, <2>3
<1> QED
  BY <1>1, <1>2, <1>3, <1>4, <1>5, <1>6, <1>8, <1>9, <1>10, <1>11 DEF RoundInv

\* Only a clear and the items of an upload change the mission on the FC.
LEMMA FcKept == ASSUME [Next]_vars, ~FcClear, ~FcItems PROVE fc' = fc
<1>1. CASE Next
  BY <1>1
     DEF Next, Recv, RecvCount, RecvItem, StoreItem, SendRequest, RecvPull, RecvAck, Transfer,
         SendClear, SendClearFails, EndClear, SetPending, SendCount, SendCountFails,
         EndUpload, SendClearAll, SendClearAllFails, ClearStore,
         StartUpload, StartClear, RequestList, Reconnect, FlightController, FcList, FcRequest,
         FcUpload, Lose
<1> QED
  BY <1>1 DEF vars

\* Only an item, an accepted upload and a clear change the items in the store.
LEMMA ItemsKept == ASSUME [Next]_vars, ~StoreItem, ~RecvAck, ~ClearStore PROVE items' = items
<1>1. CASE Next
  BY <1>1
     DEF Next, Recv, RecvCount, RecvItem, SendRequest, RecvPull, Transfer,
         SendClear, SendClearFails, EndClear, SetPending, SendCount, SendCountFails, EndUpload,
         SendClearAll, SendClearAllFails, StartUpload, StartClear, RequestList, Reconnect,
         FlightController, FcList, FcRequest, FcClear, FcUpload, FcItems, FcHandles, Lose, store
<1> QED
  BY <1>1 DEF vars, store

\* The item in hand is the one that was received.
LEMMA HandNext ==
    ASSUME TypeInv, [Next]_vars, recv'.at = "store"
    PROVE  recv' = recv \/ (RecvItem /\ recv' = [at |-> "store", seq |-> Head(toGCS).seq,
                                                 item |-> Head(toGCS).item])
<1>1. \A s : [AtIdle EXCEPT !.at = "request", !.seq = s].at = "request"
  BY DEF AtIdle
<1>2. AtIdle.at = "idle" /\ [AtIdle EXCEPT !.at = "request"].at = "request"
  BY DEF AtIdle
<1>3. CASE RecvCount \/ RecvItem \/ StoreItem \/ SendRequest \/ RecvAck \/ Reconnect
  BY <1>1, <1>2, <1>3 DEF RecvCount, RecvItem, StoreItem, SendRequest, RecvAck, Reconnect
<1>4. CASE RecvPull \/ Transfer \/ StartUpload \/ StartClear \/ RequestList
           \/ FlightController \/ Lose \/ UNCHANGED vars
  BY <1>4
     DEF RecvPull, Transfer, SendClear, SendClearFails, EndClear, SetPending, SendCount, SendCountFails,
         EndUpload, SendClearAll, SendClearAllFails, ClearStore,
         StartUpload, StartClear, RequestList, FlightController, FcList, FcRequest, FcClear,
         FcUpload, FcItems, FcHandles, Lose, vars
<1> QED
  BY <1>3, <1>4 DEF Next, Recv

\* ... an acceptance is behind the items of the mission before, ...
LEMMA AcceptNext == TypeInv /\ MirrorInv /\ [Next]_vars => AcceptInv'
<1> SUFFICES ASSUME TypeInv, MirrorInv, [Next]_vars, Clean',
                    NEW f \in Elems(toGCS'), Accepts(f)'
             PROVE  /\ fc' = pending'
                    /\ \A g \in Elems(toGCS') :
                          Ahead(toGCS', f, g) /\ g.type = "item" => g.item = Contents(fc')[g.seq]
  BY DEF AcceptInv, OfFC
<1>1. RoundInv /\ AcceptInv /\ Clean
  BY CleanBefore DEF MirrorInv
<1>2. f.type = "ack" /\ f.accepted /\ sent'
  BY DEF Accepts
\* An ACK is not behind the request for the items: they were sent before.
<1>3. sent /\ worker = "poll" /\ UNCHANGED <<worker, pending, sent>>
  <2>1. ~RecvPull
    BY <1>1, <1>2, PullClean
  <2> QED
    BY <1>1, <1>2, <2>1, RoundSteps
<1>4. ~FcClear /\ ~FcUpload
  BY <1>1, <1>3, FcTakes DEF RoundInv, Unsent
<1>5. CASE f \in Elems(toGCS)
  <2>1. /\ fc = pending
        /\ \A g \in Elems(toGCS) : Ahead(toGCS, f, g) /\ g.type = "item" => OfFC(g.seq, g.item)
    BY <1>1, <1>2, <1>3, <1>5 DEF AcceptInv, Accepts
  <2>2. ~FcItems
    BY <1>1, <1>2, <1>5, FcTakes DEF RoundInv
  <2>3. fc' = fc
    BY <1>4, <2>2, FcKept
  <2>4. ASSUME NEW g \in Elems(toGCS'), Ahead(toGCS', f, g), g.type = "item"
        PROVE  OfFC(g.seq, g.item)
    <3>1. CASE Ahead(toGCS, f, g)
      <4>1. g \in Elems(toGCS)
        BY <3>1 DEF Ahead, Elems
      <4> QED
        BY <2>1, <2>4, <3>1, <4>1
    <3>2. CASE SentToGCS(g)
      BY <2>4, <3>2 DEF SentToGCS
    <3> QED
      BY <2>4, <3>1, <3>2, ToGCSNext
  <2> QED
    BY <1>3, <2>1, <2>3, <2>4 DEF OfFC
<1>6. CASE f \notin Elems(toGCS)
  <2>1. FcItems /\ fc' = Head(toFC).mission
    BY <1>2, <1>4, <1>6, ToGCSNext DEF SentToGCS
  <2>2. Head(toFC).mission = pending
    BY <1>1, <2>1, FcTakes DEF RoundInv
  <2>3. ASSUME NEW g, Ahead(toGCS', f, g) PROVE FALSE
    <3>1. Ahead(toGCS, f, g)
      BY <1>6, <2>3, ToGCSNext
    <3> QED
      BY <1>6, <3>1 DEF Ahead, Elems
  <2> QED
    BY <1>3, <2>1, <2>2, <2>3
<1> QED
  BY <1>5, <1>6

\* ... and once no upload is undecided, all items are of the mission on the FC.
LEMMA SettledNext == TypeInv /\ MirrorInv /\ [Next]_vars => SettledInv'
<1> SUFFICES ASSUME TypeInv, MirrorInv, [Next]_vars, Clean', Settled'
             PROVE  /\ \A g \in Elems(toGCS') : g.type = "item" => g.item = Contents(fc')[g.seq]
                    /\ recv'.at = "store" => recv'.item = Contents(fc')[recv'.seq]
                    /\ \A s \in Seqs : items'[s] # NoItem => items'[s] = Contents(fc')[s]
  BY DEF SettledInv, OfFC, Seqs
<1>1. RoundInv /\ AcceptInv /\ SettledInv /\ Clean
  BY CleanBefore DEF MirrorInv
<1>2. CASE Settled
  <2>1. /\ \A g \in Elems(toGCS) : g.type = "item" => OfFC(g.seq, g.item)
        /\ recv.at = "store" => OfFC(recv.seq, recv.item)
        /\ \A s \in Seqs : items[s] # NoItem => OfFC(s, items[s])
    BY <1>1, <1>2 DEF SettledInv
  <2>2. worker \in {"idle", "clearSend", "poll"} /\ pending = NoUpload /\ ~sent
    BY <1>1, <1>2 DEF Settled, TypeInv, WorkerOK, Clean
  <2>3. \A g \in Elems(toFC) : g.type \notin {"clear", "upload", "items"}
    BY <1>1, <2>2 DEF RoundInv, Unsent, Polls
  <2>4. fc' = fc
    BY <2>3, FcTakes, FcKept
  <2>5. ASSUME NEW g \in Elems(toGCS'), g.type = "item" PROVE OfFC(g.seq, g.item)
    BY <2>1, <2>5, ToGCSNext DEF SentToGCS
  <2>6. ASSUME recv'.at = "store" PROVE OfFC(recv'.seq, recv'.item)
    <3>1. recv' = recv \/ (RecvItem /\ recv' = [at |-> "store", seq |-> Head(toGCS).seq,
                                                item |-> Head(toGCS).item])
      BY <2>6, HandNext
    <3>2. RecvItem => Head(toGCS) \in Elems(toGCS) /\ Head(toGCS).type = "item"
      BY Heads DEF RecvItem, Received
    <3> QED
      BY <2>1, <2>6, <3>1, <3>2
  <2>7. ASSUME NEW s \in Seqs, items'[s] # NoItem PROVE OfFC(s, items'[s])
    <3>1. CASE items' = items
      BY <2>1, <2>7, <3>1
    <3>2. CASE StoreItem
      <4>1. items' = [items EXCEPT ![recv.seq] = recv.item] /\ recv.at = "store"
        BY <3>2 DEF StoreItem
      <4>2. items \in [Seqs -> Items \cup {NoItem}]
        BY DEF TypeInv, StoreOK
      <4> QED
        BY <2>1, <2>7, <4>1, <4>2
    <3>3. CASE ClearStore
      BY <2>2, <3>3 DEF ClearStore, GoTo
    <3>4. CASE RecvAck
      BY <2>1, <2>2, <2>7, <3>4, AckClean DEF Accepts
    <3> QED
      BY <3>1, <3>2, <3>3, <3>4, ItemsKept
  <2> QED
    BY <2>4, <2>5, <2>6, <2>7 DEF OfFC
<1>3. CASE ~Settled
  <2>1. RecvAck /\ worker' = worker /\ pending' # pending
    <3>1. CASE UNCHANGED <<worker, pending>>
      BY <1>3, <3>1 DEF Settled
    <3>2. CASE Transfer
      <4>1. "failure" \notin troubles' /\ "clear" \notin troubles'
        BY DEF Clean
      <4>2. worker # "clearStore"
        BY <1>1 DEF RoundInv, Clean
      <4>3. worker = "sendCount" => pending # NoUpload
        BY <1>1 DEF RoundInv
      <4> QED
        BY <1>3, <3>2, <4>1, <4>2, <4>3, TransferSteps DEF Settled, store
    <3>3. CASE worker = "idle"
      BY <1>3, <3>3 DEF Settled
    <3>4. CASE RecvAck /\ UNCHANGED worker
      BY <3>1, <3>4
    <3> QED
      BY <3>1, <3>2, <3>3, <3>4, UploadNext
  <2>2. Head(toGCS) \in Elems(toGCS) /\ Accepts(Head(toGCS)) /\ items' = Contents(pending)
    BY <2>1, AckClean
  <2>3. /\ fc = pending
        /\ \A g \in Elems(toGCS) : Ahead(toGCS, Head(toGCS), g) /\ g.type = "item" => OfFC(g.seq, g.item)
    BY <1>1, <2>2 DEF AcceptInv
  <2>4. /\ toGCS # << >> /\ toGCS' = Tail(toGCS) /\ fc' = fc /\ recv' = recv /\ recv.at = "idle"
    BY <2>1 DEF RecvAck, Received
  <2>5. Elems(toGCS') \subseteq Elems(toGCS) /\ \A g \in Elems(toGCS') : Ahead(toGCS, Head(toGCS), g)
    BY <2>4, QueueElems, Tails DEF TypeInv, FramesOK
  <2> QED
    BY <2>2, <2>3, <2>4, <2>5 DEF OfFC
<1> QED
  BY <1>2, <1>3

LEMMA MirrorNext == TypeInv /\ MirrorInv /\ [Next]_vars => MirrorInv'
  BY RoundNext, AcceptNext, SettledNext DEF MirrorInv

LEMMA MirrorInit == Init => MirrorInv
<1> SUFFICES ASSUME Init PROVE MirrorInv
  OBVIOUS
<1>1. Elems(toFC) = {} /\ Elems(toGCS) = {} /\ worker = "idle" /\ recv.at = "idle"
      /\ items = [s \in Seqs |-> NoItem]
  BY DEF Init, Elems, AtIdle
<1> QED
  BY <1>1 DEF MirrorInv, RoundInv, AcceptInv, SettledInv

\* The mirror never shows an item the FC does not have, unless an upload failed
\* or a clear was served: an acceptance reaches the recv thread after every item
\* of the mission before, and the flags drop those that are read until then.
THEOREM MirrorShowsTheFC == Spec => []MirrorIsOfFC
<1>1. Spec => [](TypeInv /\ MirrorInv)
  BY TypeInit, TypeNext, MirrorInit, MirrorNext, PTL DEF Spec
<1>2. MirrorInv => MirrorIsOfFC
  BY DEF MirrorInv, SettledInv, Clean, Settled, OfFC, MirrorIsOfFC
<1> QED
  BY <1>1, <1>2, PTL
-----------------------------------------------------------------------------
(* A download that was counted.                                            *)

\* Before any trouble nothing that changes the mission is under way.
LEMMA ServedTypes ==
    ASSUME TypeInv, ServedInv, [Next]_vars, troubles' = {}
    PROVE  /\ troubles = {}
           /\ ~RecvPull /\ ~RecvAck /\ ~FcClear /\ ~FcUpload /\ ~FcItems
           /\ ~SendClear /\ ~SendCount /\ ~SendClearAll
           /\ Transfer => SendClearAllFails /\ worker' = "idle"
           /\ ~Lose /\ ~Reconnect
           /\ fc' = fc
<1>1. troubles = {}
  BY TroublesGrow
<1>2. /\ worker \in {"idle", "sendClear", "clearSend"}
      /\ \A f \in Elems(toFC) : f.type \in {"list", "request"}
      /\ \A f \in Elems(toGCS) : f.type \in {"count", "item"}
  BY <1>1 DEF ServedInv
<1>3. /\ ~RecvPull /\ ~RecvAck /\ ~FcClear /\ ~FcUpload /\ ~FcItems
  BY <1>2, Heads DEF RecvPull, RecvAck, Received, FcClear, FcUpload, FcItems, FcHandles
<1>4. ~SendClear /\ ~SendCount /\ ~SendClearAll
  BY <1>2 DEF SendClear, SendCount, SendClearAll, GoTo, Trouble
<1>5. Transfer => SendClearAllFails /\ worker' = "idle"
  BY <1>2, <1>4, TransferSteps
<1>6. ~Lose /\ ~Reconnect
  BY DEF Lose, Reconnect, Trouble
<1> QED
  BY <1>1, <1>3, <1>4, <1>5, <1>6, FcKept

\* The steps that touch neither the hand of the recv thread nor the link.
LEMMA QuietNext ==
    ASSUME [Next]_vars, ~RecvPull, ~RecvAck, Transfer => SendClearAllFails, ~Lose, ~Reconnect
    PROVE  \/ RecvCount \/ RecvItem \/ StoreItem \/ SendRequest
           \/ FlightController /\ UNCHANGED <<count, recv>>
           \/ RequestList /\ UNCHANGED <<count, recv>>
           \/ UNCHANGED <<count, recv, toFC, toGCS>>
<1>1. FlightController => UNCHANGED <<count, recv>>
  BY DEF FlightController, FcList, FcRequest, FcClear, FcUpload, FcItems, FcHandles
<1>2. RequestList => UNCHANGED <<count, recv>>
  BY DEF RequestList
<1>3. StartUpload \/ StartClear \/ SendClearAllFails => UNCHANGED <<count, recv, toFC, toGCS>>
  BY DEF StartUpload, StartClear, SendClearAllFails, link
<1>4. UNCHANGED vars => UNCHANGED <<count, recv, toFC, toGCS>>
  BY DEF vars, link
<1> QED
  BY <1>1, <1>2, <1>3, <1>4 DEF Next, Recv

\* A counted download keeps a request or an item under way until its last item.
LEMMA ServedNext == TypeInv /\ ServedInv /\ [Next]_vars => ServedInv'
<1> SUFFICES ASSUME TypeInv, ServedInv, [Next]_vars, troubles' = {} PROVE ServedInv'
  BY DEF ServedInv
<1> DEFINE Served == \/ recv.at # "idle"
                     \/ \E f \in Elems(toFC) : f.type = "request"
                     \/ \E f \in Elems(toGCS) : f.type = "item"
<1>1. /\ troubles = {}
      /\ ~RecvPull /\ ~RecvAck /\ ~FcClear /\ ~FcUpload /\ ~FcItems
      /\ ~SendClear /\ ~SendCount /\ ~SendClearAll
      /\ Transfer => SendClearAllFails /\ worker' = "idle"
      /\ ~Lose /\ ~Reconnect
      /\ fc' = fc
  BY ServedTypes
<1>2. /\ worker \in {"idle", "sendClear", "clearSend"}
      /\ \A f \in Elems(toFC) : f.type \in {"list", "request"}
      /\ \A f \in Elems(toFC) : f.type = "request" => f.seq < fc.size
      /\ \A f \in Elems(toGCS) : f.type \in {"count", "item"}
      /\ \A f \in Elems(toGCS) : f.type = "count" => f.count = fc.size
      /\ recv.at = "request" => recv.seq < fc.size
      /\ count # NoCount => count = fc.size /\ Served
  BY <1>1 DEF ServedInv
<1>3. /\ toFC \in Seq(ToFCFrames) /\ toGCS \in Seq(ToGCSFrames)
      /\ recv.seq \in Seqs /\ fc.size \in Nat /\ fc.size # NoCount /\ fc \in Missions
  BY DEF TypeInv, FramesOK, RecvOK, StoreOK, Missions, NoCount
<1>4. /\ toFC # << >> => Elems(toFC) = {Head(toFC)} \cup Elems(Tail(toFC))
      /\ \A f \in ToFCFrames : Elems(Append(toFC, f)) = Elems(toFC) \cup {f}
      /\ toGCS # << >> => Elems(toGCS) = {Head(toGCS)} \cup Elems(Tail(toGCS))
      /\ \A f \in ToGCSFrames : Elems(Append(toGCS, f)) = Elems(toGCS) \cup {f}
  BY <1>3, QueueElems
<1>5. worker' \in {"idle", "sendClear", "clearSend"}
  BY <1>1, <1>2, UploadNext
<1>6. \A f \in Elems(toFC') : /\ f.type \in {"list", "request"}
                              /\ f.type = "request" => f.seq < fc.size
  <2>1. SendRequest => recv.at = "request"
    BY DEF SendRequest
  <2> QED
    BY <1>1, <1>2, <2>1, ToFCNext DEF SentToFC
<1>7. \A f \in Elems(toGCS') : /\ f.type \in {"count", "item"}
                               /\ f.type = "count" => f.count = fc.size
  BY <1>1, <1>2, ToGCSNext DEF SentToGCS
<1>8. recv'.at = "request" => recv'.seq < fc.size
  <2>1. CASE RecvCount
    <3>1. recv' = recv \/ (recv' = [AtIdle EXCEPT !.at = "request"] /\ Head(toGCS).count > 0)
      BY <2>1 DEF RecvCount
    <3>2. Head(toGCS).count = fc.size
      BY <1>2, <2>1, Heads DEF RecvCount, Received
    <3>3. [AtIdle EXCEPT !.at = "request"].seq = 0
      BY DEF AtIdle
    <3> QED
      BY <1>2, <1>3, <3>1, <3>2, <3>3
  <2>2. CASE StoreItem
    <3>1. \/ recv' = AtIdle
          \/ /\ recv' = [AtIdle EXCEPT !.at = "request", !.seq = recv.seq + 1]
             /\ RequestsNext(recv.seq)
      BY <2>2 DEF StoreItem
    <3>2. /\ [AtIdle EXCEPT !.at = "request", !.seq = recv.seq + 1].seq = recv.seq + 1
          /\ AtIdle.at = "idle"
      BY DEF AtIdle
    <3>3. RequestsNext(recv.seq) => recv.seq + 1 < fc.size
      BY <1>2 DEF RequestsNext
    <3> QED
      BY <3>1, <3>2, <3>3
  <2>3. CASE RecvItem \/ SendRequest
    BY <1>2, <2>3 DEF RecvItem, SendRequest, AtIdle
  <2>4. CASE UNCHANGED recv
    BY <1>2, <2>4
  <2> QED
    BY <1>1, <2>1, <2>2, <2>3, <2>4, QuietNext
<1>9. ASSUME count' # NoCount PROVE count' = fc.size /\ Served'
  <2>1. CASE RecvCount
    <3>1. /\ toGCS # << >> /\ toGCS' = Tail(toGCS) /\ UNCHANGED toFC
          /\ Head(toGCS).type = "count" /\ Head(toGCS).count = fc.size
          /\ recv.at = "idle"
      BY <1>2, <2>1, Heads DEF RecvCount, Received
    <3>2. CASE UNCHANGED <<count, recv>>
      <4>1. \/ \E f \in Elems(toFC) : f.type = "request"
            \/ \E f \in Elems(Tail(toGCS)) : f.type = "item"
        BY <1>2, <1>4, <1>9, <3>1, <3>2
      <4> QED
        BY <1>2, <1>9, <3>1, <3>2, <4>1
    <3>3. CASE ~UNCHANGED <<count, recv>>
      <4>1. count' = fc.size /\ (fc.size > 0 => recv' = [AtIdle EXCEPT !.at = "request"])
        BY <2>1, <3>1, <3>3 DEF RecvCount
      <4>2. ~(fc.size > 0) => troubles' # {}
        BY <2>1, <3>1, <3>3 DEF RecvCount, Trouble
      <4>3. [AtIdle EXCEPT !.at = "request"].at = "request"
        BY DEF AtIdle
      <4> QED
        BY <4>1, <4>2, <4>3
    <3> QED
      BY <3>2, <3>3
  <2>2. CASE RecvItem
    <3>1. count' = count /\ recv' = [at |-> "store", seq |-> Head(toGCS).seq, item |-> Head(toGCS).item]
      BY <1>9, <2>2 DEF RecvItem
    <3> QED
      BY <1>2, <1>9, <3>1
  <2>3. CASE StoreItem
    <3>1. count' = count /\ recv' = [AtIdle EXCEPT !.at = "request", !.seq = recv.seq + 1]
      BY <1>9, <2>3 DEF StoreItem
    <3>2. recv'.at = "request"
      BY <3>1 DEF AtIdle
    <3> QED
      BY <1>2, <1>9, <3>1, <3>2
  <2>4. CASE SendRequest
    <3> DEFINE x == [type |-> "request", seq |-> recv.seq]
    <3>1. x \in ToFCFrames /\ toFC' = Append(toFC, x) /\ x.type = "request" /\ UNCHANGED count
      BY <1>3, <2>4, Frames DEF SendRequest, ToFC
    <3> HIDE DEF x
    <3>2. x \in Elems(toFC')
      BY <1>4, <3>1
    <3> QED
      BY <1>2, <1>9, <3>1, <3>2
  <2>5. CASE FcList
    <3> DEFINE x == [type |-> "count", count |-> fc.size]
    <3>1. /\ toFC # << >> /\ toFC' = Tail(toFC) /\ Head(toFC).type = "list"
          /\ toGCS' = Append(toGCS, x) /\ UNCHANGED <<count, recv>>
      BY <2>5 DEF FcList, FcHandles, Answers
    <3>2. fc.size \in 0 .. MaxSize
      BY <1>3 DEF Missions
    <3>3. x \in ToGCSFrames
      BY <3>2, Frames
    <3> HIDE DEF x
    <3>4. Elems(toGCS) \subseteq Elems(toGCS')
      BY <1>4, <3>1, <3>3
    <3>5. \A f \in Elems(toFC) : f.type = "request" => f \in Elems(toFC')
      BY <1>4, <3>1
    <3> QED
      BY <1>2, <1>9, <3>1, <3>4, <3>5
  <2>6. CASE FcRequest
    <3> DEFINE x == [type |-> "item", seq |-> Head(toFC).seq, item |-> fc.number]
    <3>1. toFC # << >> /\ Head(toFC).type = "request" /\ UNCHANGED <<count, recv>>
      BY <2>6 DEF FcRequest, FcHandles
    <3>2. Head(toFC) \in Elems(toFC) /\ Head(toFC).seq \in Seqs
      BY <3>1, Heads, FrameTypes, FrameFields
    <3>3. toGCS' = Append(toGCS, x)
      BY <1>2, <2>6, <3>1, <3>2 DEF FcRequest, Answers
    <3>4. fc.number \in Items
      BY <1>3 DEF Missions
    <3>5. x \in ToGCSFrames /\ x.type = "item"
      BY <3>2, <3>4, Frames
    <3> HIDE DEF x
    <3>6. x \in Elems(toGCS')
      BY <1>4, <3>3, <3>5
    <3> QED
      BY <1>2, <1>9, <3>1, <3>5, <3>6
  <2>7. CASE RequestList
    <3> DEFINE x == [type |-> "list"]
    <3>1. x \in ToFCFrames /\ toFC' = Append(toFC, x) /\ UNCHANGED <<count, recv, toGCS>>
      BY <2>7, Frames DEF RequestList, ToFC
    <3> HIDE DEF x
    <3>2. Elems(toFC) \subseteq Elems(toFC')
      BY <1>4, <3>1
    <3> QED
      BY <1>2, <1>9, <3>1, <3>2
  <2>8. CASE UNCHANGED <<count, recv, toFC, toGCS>>
    BY <1>2, <1>9, <2>8
  <2> QED
    BY <1>1, <2>1, <2>2, <2>3, <2>4, <2>5, <2>6, <2>7, <2>8, QuietNext DEF FlightController
<1> QED
  BY <1>1, <1>5, <1>6, <1>7, <1>8, <1>9 DEF ServedInv

\* A mission that was counted is requested to its last item: unless the mission
\* is empty, a frame is lost, or a clear or an upload comes, there is always a
\* request or an item under way for it, so mission_count is given up again.
THEOREM CountGoesOn == Spec => []CountIsServed
<1>1. Init => ServedInv
  <2> SUFFICES ASSUME Init PROVE ServedInv
    OBVIOUS
  <2>1. Elems(toFC) = {} /\ Elems(toGCS) = {} /\ worker = "idle" /\ recv.at = "idle" /\ count = NoCount
    BY DEF Init, Elems, AtIdle
  <2> QED
    BY <2>1 DEF ServedInv
<1>2. ServedInv => CountIsServed
  BY DEF ServedInv, CountIsServed, Elems
<1>3. Spec => [](TypeInv /\ ServedInv)
  BY <1>1, TypeInit, TypeNext, ServedNext, PTL DEF Spec
<1> QED
  BY <1>2, <1>3, PTL
=============================================================================
