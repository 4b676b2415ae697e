---------------------------- MODULE MissionStore ----------------------------
(***************************************************************************)
(* The ground station's mission cache, src/src/mission_store.rs: the items *)
(* it believes are on the flight controller (FC) and the flags of the      *)
(* upload in progress.  The cache is one record behind one mutex, so the   *)
(* methods are operators from a record to a record; the modules that use   *)
(* them put each call inside the step that holds the lock.                 *)
(*                                                                         *)
(* A mission is a model value with a size, and the item in slot i of       *)
(* mission m is represented by m itself: a list of items is the function   *)
(* from slots to the mission the slot's item came from (NoMission where    *)
(* the list has no item).  The code keeps its lists sorted by seq with one *)
(* item for each seq, and every uploaded list is numbered 0 .. n-1.        *)
(***************************************************************************)
EXTENDS Integers, FiniteSets

CONSTANTS Missions,     \* the missions a planner may upload
          NoMission,    \* None
          MaxSize,      \* the longest mission
          Size          \* the number of items of each mission

ASSUME MissionsAssumption == NoMission \notin Missions
ASSUME SizeAssumption == /\ MaxSize \in Nat \ {0}
                         /\ Size \in [Missions -> 1 .. MaxSize]

Seqs == 0 .. (MaxSize - 1)
ItemLists == [Seqs -> Missions \cup {NoMission}]

NoItems == [i \in Seqs |-> NoMission]
ItemsOf(m) == [i \in Seqs |-> IF i < Size[m] THEN m ELSE NoMission]

Stores == [items         : ItemLists,
           currentSeq    : Seqs \cup {-1},
           pending       : Missions \cup {NoMission},
           done          : BOOLEAN,
           failed        : BOOLEAN,
           awaitingClear : BOOLEAN,
           sent          : SUBSET Seqs]

\* MissionStore::default; -1 is the absent current_seq.
DefaultStore == [items         |-> NoItems,
                 currentSeq    |-> -1,
                 pending       |-> NoMission,
                 done          |-> FALSE,
                 failed        |-> FALSE,
                 awaitingClear |-> FALSE,
                 sent          |-> {}]
-----------------------------------------------------------------------------
SetUploadPending(st, m) ==
    [st EXCEPT !.pending = m, !.done = FALSE, !.failed = FALSE, !.sent = {}]

\* Mutant of TakeUploadItem: no upload has to be pending.
TakeUploadItemAlways(st, seq) == seq \in Seqs

\* The request for slot seq can be answered from the pending items.
TakeUploadItem(st, seq) == st.pending # NoMission /\ seq < Size[st.pending]

NoteUploadItemSent(st, seq) == [st EXCEPT !.sent = @ \cup {seq}]

\* Mutants of UploadReadyForAck: any acceptance counts; the last item need not
\* have been sent; one item more than there are.
UploadReadyOnAnyAck(st) == st.pending # NoMission
UploadReadyBeforeLast(st) ==
    /\ st.pending # NoMission
    /\ \A i \in Seqs : i + 1 < Size[st.pending] => i \in st.sent
UploadReadyBeyondLast(st) ==
    /\ st.pending # NoMission
    /\ \A i \in Seqs : i <= Size[st.pending] => i \in st.sent

UploadReadyForAck(st) ==
    /\ st.pending # NoMission
    /\ \A i \in Seqs : i < Size[st.pending] => i \in st.sent

MarkUploadFailed(st) ==
    [st EXCEPT !.pending = NoMission, !.failed = TRUE, !.sent = {}]

SetUploadDone(st) ==
    [st EXCEPT !.pending = NoMission, !.done = TRUE, !.failed = FALSE,
               !.awaitingClear = FALSE, !.sent = {}]

ClearLocal == DefaultStore
=============================================================================
