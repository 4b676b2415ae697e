--------------------------- MODULE MissionDownload ---------------------------
(***************************************************************************)
(* The mirror of the FC's mission in the mission store: the download by    *)
(* the recv thread (MISSION_COUNT and MISSION_ITEM_INT in                  *)
(* src/src/mavlink_http_runtime.rs, update_from_item in                    *)
(* src/src/mission_store.rs) beside an upload or a clear                   *)
(* (src/src/mission_upload.rs) that replaces the mission under it, over a  *)
(* link that may lose frames or be opened anew.                            *)
(*                                                                         *)
(* The upload appears here only as far as a download can tell: the two     *)
(* flags that pause downloads, the MISSION_CLEAR_ALL, and the pull of all  *)
(* items as one request and one frame of items (MissionTransfer has them   *)
(* one by one).  One worker serves uploads and clears; a message it cannot *)
(* send ends them.                                                         *)
(*                                                                         *)
(* A mission is told apart by its number and its size, an item by its seq  *)
(* and the number of its mission.  That update_from_item keeps a takeoff   *)
(* which the FC reports as a waypoint is left out.                         *)
(***************************************************************************)
EXTENDS Integers, Sequences

CONSTANTS MaxSize,    \* bound: items of a mission, the home slot included
          MaxJobs,    \* bound: uploads and clears
          MaxFrames   \* bound: frames under way when a download is asked for

ASSUME DownloadBounds == /\ MaxSize \in Nat /\ MaxSize >= 2
                         /\ MaxJobs \in Nat
                         /\ MaxFrames \in Nat \ {0}

NoItem == -1
NoCount == -1

Seqs == 0 .. (MaxSize - 1)
Items == 0 .. MaxJobs
Missions == [number : Items, size : 0 .. MaxSize]
Contents(m) == [s \in Seqs |-> IF s < m.size THEN m.number ELSE NoItem]
Empty(m) == [m EXCEPT !.size = 0]

VARIABLES fc,       \* the mission on the FC
          items,    \* MissionStore::items, by seq
          pending,  \* MissionStore::upload_pending
          sent,     \* MissionStore::upload_ready_for_ack: the pending items were sent
          awaiting, \* MissionStore::awaiting_clear_ack
          worker,   \* the step the upload or clear is at
          jobs,     \* how many uploads and clears began
          count,    \* mission_count, local to the recv thread
          recv,     \* where the recv thread is in its handler, and for which item
          toFC,     \* frames on the way to the FC
          toGCS,    \* frames on the way to the recv thread
          troubles  \* history: what got between the FC and its mirror so far

store == <<items, pending, sent, awaiting>>
link == <<toFC, toGCS>>
vars == <<fc, store, worker, jobs, count, recv, link, troubles>>

NoUpload == [number |-> -1, size |-> 0]
Steps == {"idle", "sendClear", "await", "setPending", "sendCount", "poll",
          "clearSend", "clearStore"}
AtIdle == [at |-> "idle", seq |-> 0, item |-> NoItem]

\* Type invariant: an item under way or in the store is one of a mission that
\* was built, and the flags of a transfer are set only while there is one, or
\* after one that failed (MissionStore, and the locals of the recv thread).
TypeOK == /\ fc \in Missions
          /\ items \in [Seqs -> Items \cup {NoItem}]
          /\ pending \in Missions \cup {NoUpload}
          /\ sent \in BOOLEAN
          /\ awaiting \in BOOLEAN
          /\ worker \in Steps
          /\ sent => pending # NoUpload
          /\ pending # NoUpload => worker \in {"sendCount", "poll"} \/ "failure" \in troubles
          /\ awaiting => worker \in {"sendClear", "await"} \/ "failure" \in troubles
          /\ jobs \in 0 .. MaxJobs
          /\ count \in 0 .. MaxSize \cup {NoCount}
          /\ recv \in [at : {"idle", "store", "request"}, seq : Seqs,
                       item : Items \cup {NoItem}]
          /\ \A i \in 1 .. Len(toGCS) :
                toGCS[i].type = "item" => toGCS[i].seq \in Seqs /\ toGCS[i].item \in Items
          /\ troubles \subseteq {"upload", "clear", "failure", "loss", "empty"}

Init == /\ fc \in [number : {0}, size : 0 .. MaxSize]
        /\ items = [s \in Seqs |-> NoItem]
        /\ pending = NoUpload
        /\ sent = FALSE
        /\ awaiting = FALSE
        /\ worker = "idle"
        /\ jobs = 0
        /\ count = NoCount
        /\ recv = AtIdle
        /\ toFC = << >>
        /\ toGCS = << >>
        /\ troubles = {}

\* mission_transfer_busy.
Busy == pending # NoUpload \/ awaiting

ToFC(frame) == toFC' = Append(toFC, frame)
Trouble(kind) == troubles' = troubles \cup {kind}
-----------------------------------------------------------------------------
(* The recv thread.                                                        *)

\* What arrived is the frame of the given type.
Received(type) == /\ recv.at = "idle"
                  /\ toGCS # << >>
                  /\ Head(toGCS).type = type
                  /\ toGCS' = Tail(toGCS)

\* MISSION_COUNT, ignored while a download or a transfer is in progress.  A
\* mission without items is counted, too, and nothing is requested.
RecvCount ==
    /\ Received("count")
    /\ IF count = NoCount /\ ~Busy
         THEN LET n == Head(toGCS).count IN
              /\ count' = n
              /\ IF n > 0
                   THEN recv' = [AtIdle EXCEPT !.at = "request"] /\ UNCHANGED troubles
                   ELSE UNCHANGED recv /\ Trouble("empty")
         ELSE UNCHANGED <<count, recv, troubles>>
    /\ UNCHANGED <<fc, store, worker, jobs, toFC>>

\* MISSION_ITEM_INT: the busy test has a lock section of its own.
RecvItem == /\ Received("item")
            /\ IF Busy
                 THEN count' = NoCount /\ UNCHANGED recv
                 ELSE /\ recv' = [at |-> "store", seq |-> Head(toGCS).seq,
                                  item |-> Head(toGCS).item]
                      /\ UNCHANGED count
            /\ UNCHANGED <<fc, store, worker, jobs, toFC, troubles>>

\* Mutants of RequestsNext: one item too many; one too few.
RequestsOneMore(s) == count # NoCount /\ s + 1 <= count
RequestsOneLess(s) == count # NoCount /\ s + 2 < count

\* The item that is stored is not the last of the count.
RequestsNext(s) == count # NoCount /\ s + 1 < count

\* update_from_item, and the next request.
StoreItem ==
    /\ recv.at = "store"
    /\ items' = [items EXCEPT ![recv.seq] = recv.item]
    /\ IF RequestsNext(recv.seq)
         THEN /\ recv' = [AtIdle EXCEPT !.at = "request", !.seq = recv.seq + 1]
              /\ UNCHANGED count
         ELSE recv' = AtIdle /\ count' = NoCount
    /\ UNCHANGED <<fc, pending, sent, awaiting, worker, jobs, link, troubles>>

SendRequest == /\ recv.at = "request"
               /\ ToFC([type |-> "request", seq |-> recv.seq])
               /\ recv' = AtIdle
               /\ UNCHANGED <<fc, store, worker, jobs, count, toGCS, troubles>>

\* Mutant of TakeMission: the items stay those of the mission before.
TakeMissionNot(m) == UNCHANGED items

\* The items of an accepted upload become the mirror.
TakeMission(m) == items' = Contents(m)

\* MISSION_REQUEST_INT for each of the items; without a pending upload nothing
\* is answered.
RecvPull == /\ Received("pull")
            /\ IF pending # NoUpload
                 THEN ToFC([type |-> "items", mission |-> pending]) /\ sent' = TRUE
                 ELSE UNCHANGED <<toFC, sent>>
            /\ UNCHANGED <<fc, items, pending, awaiting, worker, jobs, count, recv,
                           troubles>>

\* MISSION_ACK: of a clear that is awaited, of the pending upload, or nobody's.
\* An acceptance counts once all items were sent.
RecvAck ==
    /\ Received("ack")
    /\ LET accepted == Head(toGCS).accepted IN
         CASE awaiting -> awaiting' = FALSE /\ UNCHANGED <<items, pending, sent, troubles>>
           [] ~awaiting /\ pending # NoUpload /\ ~accepted ->
                /\ pending' = NoUpload
                /\ sent' = FALSE
                /\ Trouble("failure")
                /\ UNCHANGED <<items, awaiting>>
           [] ~awaiting /\ sent /\ accepted ->
                /\ TakeMission(pending)
                /\ pending' = NoUpload
                /\ sent' = FALSE
                /\ UNCHANGED <<awaiting, troubles>>
           [] OTHER -> UNCHANGED <<store, troubles>>
    /\ UNCHANGED <<fc, worker, jobs, count, recv, toFC>>
-----------------------------------------------------------------------------
(* The download is asked for (refresh_mavlink_streams at the handshake,    *)
(* and the tool retry_streams); the link is opened anew, with a new recv   *)
(* thread; uploads and clears.                                             *)

RequestList == /\ Len(toFC) + Len(toGCS) < MaxFrames
               /\ ToFC([type |-> "list"])
               /\ UNCHANGED <<fc, store, worker, jobs, count, recv, toGCS, troubles>>

Reconnect == /\ count' = NoCount
             /\ recv' = AtIdle
             /\ toFC' = <<[type |-> "list"]>>
             /\ toGCS' = << >>
             /\ Trouble("loss")
             /\ UNCHANGED <<fc, store, worker, jobs>>

GoTo(from, to) == worker = from /\ worker' = to

StartUpload == /\ pending = NoUpload
               /\ jobs < MaxJobs
               /\ GoTo("idle", "sendClear")
               /\ awaiting' = TRUE
               /\ jobs' = jobs + 1
               /\ UNCHANGED <<fc, items, pending, sent, count, recv, link, troubles>>

SendClear == /\ GoTo("sendClear", "await")
             /\ ToFC([type |-> "clear"])
             /\ Trouble("upload")
             /\ UNCHANGED <<fc, store, jobs, count, recv, toGCS>>

\* The send fails and the upload returns, the ACK still awaited.
SendClearFails == /\ GoTo("sendClear", "idle")
                  /\ Trouble("failure")
                  /\ UNCHANGED <<fc, store, jobs, count, recv, link>>

\* The ACK came, or the polls ran out.
EndClear == /\ GoTo("await", "setPending")
            /\ awaiting' = FALSE
            /\ UNCHANGED <<fc, items, pending, sent, jobs, count, recv, link, troubles>>

\* The items of the mission, the home slot and at least one more.
SetPending == /\ GoTo("setPending", "sendCount")
              /\ pending' \in [number : {jobs}, size : 2 .. MaxSize]
              /\ sent' = FALSE
              /\ UNCHANGED <<fc, items, awaiting, jobs, count, recv, link, troubles>>

SendCount == /\ GoTo("sendCount", "poll")
             /\ ToFC([type |-> "upload"])
             /\ UNCHANGED <<fc, store, jobs, count, recv, toGCS, troubles>>

\* The send fails and the upload returns, its items still pending.
SendCountFails == /\ GoTo("sendCount", "idle")
                  /\ Trouble("failure")
                  /\ UNCHANGED <<fc, store, jobs, count, recv, link>>

\* Mutant of EndUpload: an upload that was not decided stays pending.
EndUploadKeepsPending == /\ GoTo("poll", "idle")
                         /\ UNCHANGED <<fc, store, jobs, count, recv, link, troubles>>

\* The upload was decided, or the polls ran out.
EndUpload == /\ GoTo("poll", "idle")
             /\ pending' = NoUpload
             /\ sent' = FALSE
             /\ IF pending # NoUpload THEN Trouble("failure") ELSE UNCHANGED troubles
             /\ UNCHANGED <<fc, items, awaiting, jobs, count, recv, link>>

StartClear == /\ pending = NoUpload
              /\ jobs < MaxJobs
              /\ GoTo("idle", "clearSend")
              /\ jobs' = jobs + 1
              /\ UNCHANGED <<fc, store, count, recv, link, troubles>>

SendClearAll == /\ GoTo("clearSend", "clearStore")
                /\ ToFC([type |-> "clear"])
                /\ Trouble("clear")
                /\ UNCHANGED <<fc, store, jobs, count, recv, toGCS>>

SendClearAllFails == /\ GoTo("clearSend", "idle")
                     /\ UNCHANGED <<fc, store, jobs, count, recv, link, troubles>>

ClearStore == /\ GoTo("clearStore", "idle")
              /\ items' = [s \in Seqs |-> NoItem]
              /\ pending' = NoUpload
              /\ sent' = FALSE
              /\ awaiting' = FALSE
              /\ UNCHANGED <<fc, jobs, count, recv, link, troubles>>
-----------------------------------------------------------------------------
(* The flight controller and the link (external).                          *)

Answers(frame) == toGCS' = Append(toGCS, frame)

FcHandles(type) == /\ toFC # << >>
                   /\ Head(toFC).type = type
                   /\ toFC' = Tail(toFC)
                   /\ UNCHANGED <<store, worker, jobs, count, recv, troubles>>

FcList == /\ FcHandles("list")
          /\ Answers([type |-> "count", count |-> fc.size])
          /\ UNCHANGED fc

\* A request past the end is dropped.
FcRequest == /\ FcHandles("request")
             /\ LET s == Head(toFC).seq IN
                  IF s < fc.size
                    THEN Answers([type |-> "item", seq |-> s, item |-> fc.number])
                    ELSE UNCHANGED toGCS
             /\ UNCHANGED fc

FcClear == /\ FcHandles("clear")
           /\ fc' = Empty(fc)
           /\ Answers([type |-> "ack", accepted |-> TRUE])

\* MISSION_COUNT: the items are requested, or the mission is rejected.
FcUpload == /\ FcHandles("upload")
            /\ \/ Answers([type |-> "pull"])
               \/ Answers([type |-> "ack", accepted |-> FALSE])
            /\ UNCHANGED fc

\* The items came, and the mission is accepted; or it is not.
FcItems == /\ FcHandles("items")
           /\ \/ fc' = Head(toFC).mission /\ Answers([type |-> "ack", accepted |-> TRUE])
              \/ UNCHANGED fc /\ Answers([type |-> "ack", accepted |-> FALSE])

FlightController == FcList \/ FcRequest \/ FcClear \/ FcUpload \/ FcItems

Lose == /\ \/ toFC # << >> /\ toFC' = Tail(toFC) /\ UNCHANGED toGCS
           \/ toGCS # << >> /\ toGCS' = Tail(toGCS) /\ UNCHANGED toFC
        /\ Trouble("loss")
        /\ UNCHANGED <<fc, store, worker, jobs, count, recv>>
-----------------------------------------------------------------------------
Recv == RecvCount \/ RecvItem \/ StoreItem \/ SendRequest \/ RecvPull \/ RecvAck
Transfer == \/ SendClear \/ SendClearFails \/ EndClear \/ SetPending
            \/ SendCount \/ SendCountFails \/ EndUpload
            \/ SendClearAll \/ SendClearAllFails \/ ClearStore

Next == Recv \/ Transfer \/ StartUpload \/ StartClear \/ RequestList \/ Reconnect
        \/ FlightController \/ Lose

Spec == Init /\ [][Next]_vars

\* The recv thread and the worker run, the FC answers; a loss, a reconnect, a
\* request or an upload need never come.
FairSpec == Spec /\ WF_vars(Recv) /\ WF_vars(Transfer) /\ WF_vars(FlightController)
-----------------------------------------------------------------------------
(* Properties.                                                             *)

Complete == items = Contents(fc)

\* The mirror never shows an item that the FC does not have: what was under way
\* when an upload began is dropped or replaced, whatever frames are lost or
\* repeated, unless an upload failed or a clear was served.
MirrorIsOfFC ==
    troubles \cap {"clear", "failure"} = {} /\ worker = "idle" =>
        \A s \in Seqs : items[s] # NoItem => items[s] = Contents(fc)[s]

\* A download that was counted goes on: a request or an item is under way for
\* it, unless the mission was empty, a frame was lost, or a clear or an upload
\* took the mission away.  (It would ignore every later MISSION_COUNT.)
CountIsServed ==
    count # NoCount /\ troubles = {} =>
        \/ recv.at # "idle"
        \/ \E i \in 1 .. Len(toFC) : toFC[i].type = "request"
        \/ \E i \in 1 .. Len(toGCS) : toGCS[i].type = "item"

\* A download that was asked for completes: the mirror becomes the FC's mission,
\* though uploads come in between.
DownloadCompletes ==
    (\E i \in 1 .. Len(toFC) : toFC[i].type = "list")
        ~> Complete \/ troubles \cap {"clear", "failure", "loss"} # {}
=============================================================================
