# edge-ai-telemetry in TLA+

A verification project for the `drone-server` crate of edge-ai-telemetry: TLA+
models of the `drone-http` server, of the TUI and of the library behind both, TLC
runs on small instances, and TLAPS proofs of the results that matter for every instance.
Paths are relative to this repository, `src/README.md` being the crate's own
README and `src/src/` its source.

## 1. The system

`drone-http` is a ground-side HTTP and WebSocket server for one ArduPilot
vehicle. It has these threads: a **connector** thread that opens the MAVLink
link and runs one **recv thread** on it, a blocking **worker** for each HTTP
request that talks to the flight controller (FC), and a tokio task for each
WebSocket client. They share a connection slot, the mission store, the override
state, the telemetry cache, the command completion hub, the telemetry hub and
the logs hub (`AppState`, `bin/drone_http.rs:55`), each behind a mutex of its
own. Nothing is persisted.

The TUI (`bin/tui/`) is a second program over the same library: a **recv thread**, a
**UI thread** that handles keys and draws, a thread that **retries the streams**, and an
**internet watchdog** that sends a failsafe RTL. They share the connection, the
mission store and the override state, each behind a mutex (`bin/tui/main.rs:54`).

### 1.1 Components

| component (source) | state | operations | hard behaviour | correct when |
|---|---|---|---|---|
| mission cache (`mission_store.rs`) | items, current seq, snapshot, pending upload with its sent items, done/failed, awaiting_clear_ack | update_from_item, update_current_seq, ensure_snapshot_for_pause, set_upload_pending, note_upload_item_sent, take_upload_item, set_upload_done, mark_upload_failed, clear_local | written by workers and the recv thread between each other's lock sections | it shows what the FC has; its busy flags belong to someone |
| mission upload and clear (`mission_upload.rs`) | none of its own (store, override state) | upload_mission_items, mission_clear | a handshake of six frames with polling loops, early returns on send errors, check and act in different lock sections | a success means the mission is on the FC; nothing stays busy; every call returns |
| mission download (recv thread) | `mission_count` | MISSION_COUNT, MISSION_ITEM_INT | items of a mission that is being replaced, lost frames | the mirror becomes the FC's mission and shows nothing else |
| override state and mission tools (`http_mission_tools.rs`) | state, waypoint index, snapshot in the store | pause, resume, waypoint_inject; position and MISSION_ACK handlers | two mutexes in both nesting orders; state read before an unlock and written after it | no circular wait; a resume goes to where the mission was; an override ends; Uploading is given back unless a send failed |
| command completion hub (`command_completion.rs`) | a FIFO of step ids for each command, results by step id | register, unregister, on_command_ack, wait | a condition variable, a deadline racing the ACK, ids chosen by clients | a request is decided by its own command, keeps its result, is woken, leaves nothing behind |
| apply-tool handler (`bin/drone_http.rs:845`, `tool_dispatch.rs`, `cmd.rs`) | none | gates, registration, dispatch, wait | many ways out | every request answers |
| link connector (`bin/drone_http.rs:93`, `mavlink_connect.rs`) | connection slot, link info | open, spawn, join, clean up, retry | cleanup in four lock sections while workers and clients read | a link that is up is opened; nothing of the last link survives |
| telemetry cache and hub (`mavlink_http_runtime.rs:190`, `telemetry_hub.rs`) | values with the time of the last frame and position; 10 Hz gate; subscriptions | telem_update_from_frame, publish, maybe_publish, subscribe; `ws_telemetry` | a lagging subscription, the gate, a first snapshot racing a publish | a client ends on the truth |
| flight safety gates (`flight_safety.rs`) | none | disarm_block_reason, wait_for_takeoff_altitude | a cached value that is stale when used, a link lost during the wait | gates decide on the telemetry of the link that is up |
| TUI: mission (`bin/tui/recv.rs`, `ui_loop.rs`) | override state, its own mission store | keys m, i, w, c; MISSION_REQUEST, MISSION_ACK, positions | three mutexes in several nesting orders; the connection locked while a frame is waited for, or through a whole upload; states read before an unlock and written after it | threads block each other nowhere but where it is known; an override has a snapshot to resume from; a resume ends, and starts the mission the FC has |
| TUI: connection (`bin/tui/`) | stream handshake and coverage, `NetWatchdogStatus`, `pending_feedback` | recv loop, stream retries, watchdog, commands and their feedback | a thread that takes its mutex again at once; an outage, a timeout or a retry racing an answer | if waiters are not passed over, the failsafe fires and the retries end; a reply that came is not reported missing |
| logs hub (`logs_hub.rs`) | two bounded logs, broadcast | push, clear, snapshot | broadcast after the unlock | not modelled (section 5) |

How they interact: workers send MAVLink frames themselves and read the results
out of the shared state that the recv thread writes (by polling the store every
50 ms in an upload, by a condition variable in the hub). The recv thread also
sends: mission items the FC requests, requests of a download, and the commands
that end an override. The connector joins the recv thread, which ends by itself
when it hears nothing for `TELEM_STALE`.

`PROJECT.json` lists every hazard of the code that is hard to test, at its line,
with the properties that cover it or the reason none does.

## 2. Modules

| module | models | extends |
|---|---|---|
| `MissionStore` | the fields of the store a transfer uses, with one operator per method | FiniteSets |
| `MissionTransfer` | upload and clear workers, the recv thread's transfer handlers, the FC and a lossy FIFO link | MissionStore |
| `MissionDownload` | the download beside one upload or clear at a time, reconnects | – |
| `MissionOverride` | pause, inject, resume, clear and upload beside the recv thread, both mutexes explicit | – |
| `CommandCompletion` | the hub, the workers of apply-tool, the FC's ACKs; implements AckedRequests | INSTANCE AckedRequests |
| `AckedRequests` | abstract: what a client of apply-tool is promised, one ACK that fits and one answer that follows it | – |
| `TelemetryLink` | connector, telemetry part of the recv thread, hub, WebSocket client, the disarm gate and the takeoff wait | – |
| `Tui` | the mission in the TUI: recv thread, keys, the fix-up of m, an FC; three mutexes explicit | – |
| `TuiLink` | the connection mutex of the TUI: recv loop, stream retries, watchdog, commands and their feedback | – |
| `MCMissionTransfer`, `MCMissionOverride`, `MCCommandCompletion` | values of constants for TLC | the module they name |
| `MissionTransferProofs`, `MissionDownloadProofs`, `MissionOverrideProofs`, `CommandCompletionProofs`, `TelemetryLinkProofs`, `TuiProofs`, `TuiLinkProofs` | the theorems | the module they name, TLAPS |
| `LinkQueues` | lemmas about queues of frames: what is on the way, and what is ahead of what, after a frame is put, taken or lost; used by the five proof modules with a link | TLAPS |

Definitions keep the code's names: an action `SetPending` is the lock section
that calls `set_upload_pending`, and `map` in `PROJECT.json` gives the lines of
every definition. A definition whose comment begins with "Mutant of" is a
deliberately wrong form of the definition that follows it; no specification uses
it, it shows that a property can fail.

**One lock section is one action.** Workers lock, read or write, unlock, send or
sleep, and lock again; each section is an action, with the sends and polls
between them actions of their own, so every interleaving that the mutexes permit
is a behaviour. A polling loop is one action per outcome (the condition it waits
for, or its last iteration), since an iteration that finds nothing changes
nothing. Lock poisoning (a panic with a mutex held) is left out.

**The grain differs with the question.** `MissionTransfer` follows every frame
of the handshake and lets the recv thread run its MISSION_ACK handler in one
action; `MissionOverride` splits that handler into its lock calls and leaves the
frames out; `MissionDownload` keeps of an upload the clear, the COUNT, the ACKs and
the flags, with all its items in one request and one frame. Calls the code refuses before they change anything are not
steps in `MissionOverride`; in `MissionTransfer` they are (`RefuseBusy`,
`ClearRefused`), because their result is a property's subject. `Tui` has both the
frames and the lock sections, with missions that differ only in having a
takeoff; `TuiLink` has neither the store nor the override state, and lets the
fix-up of m end at any time or never.

**What is external.** The FC follows the MAVLink mission protocol as the code
expects it: it answers a clear and a list request, pulls a counted mission item
by item, may reject, repeat a request, or give the session up. The link is a
FIFO in each direction that may lose frames. Of time there are deadlines that may
pass at any moment, and in `TelemetryLink` ages in ticks.

### State and code

* `MissionTransfer`: `store` is the `MissionStore` record (`items`, `pending`,
  `sent`, `awaitingClear`, `done`, `failed`), `override` the `HttpOverrideState`,
  `pc`/`job`/`result` a worker's place in `upload_mission_items` or
  `mission_clear`, its mission and what it returned. `fc`, `toFC`, `toGCS` are
  the FC and the link. `budget` holds the bounds.
* `MissionOverride`: `overrideLock` and `storeLock` name the holder of each
  mutex. A section that nests them is two actions: one takes the outer mutex, the
  other needs the inner one free and releases both. `served` remembers which kinds
  of request were served, `sendFailed` that a send of an upload failed since Uploading
  was claimed last; no guard reads them.
* `CommandCompletion`: `waiting` holds the entries of all the `VecDeque`s,
  numbered by arrival; `byId` the results; `asleep`, `expired` and `notifiers`
  the condition variable, the deadlines and the `notify_all`s that follow an
  unlock. `owner` and `by` (whose entry, whose ACK) and `answer`, `served` are
  history.
* `MissionDownload`: `count` and `recv` are locals of the recv thread, whose
  MISSION_ITEM_INT handler is three actions (busy test; `update_from_item`; the
  next request). `pending`, `sent` and `awaiting` are `upload_pending`,
  `upload_ready_for_ack` and `awaiting_clear_ack`; an ACK says only whether it
  accepts, and as in the code counts for whichever of them is set. A failed send ends
  the upload or clear at once and leaves them set. `troubles` is history: what came
  between the FC and its mirror.
* `TelemetryLink`: `connector` is the step of the loop in
  `spawn_mavlink_connector`; `telem` the cache as ages, fix and altitude class;
  `queue[c]` a broadcast receiver that drops its oldest message when it lags.
  `request` is the worker of a disarm or a takeoff: where it is in its gate, and
  whether the altitude it decided on was heard on the link that is up.
* `Tui`: `holder` names the thread that holds each mutex, `pc` the step of each
  thread. A section inside another (recv answers a MISSION_REQUEST under the store
  and then locks the connection; m holds the connection and locks the store
  at each step of `upload_mission_items`) is a step that needs the inner mutex free.
  `inHand` is the frame the recv thread handles; `crossed` is history: a resume
  met another transfer or its ACK. Whether i finds the vehicle in AUTO depends on
  the mode the UI saw last, which the radio or another ground station may set: it
  may be either. The renderer's look at the override state is left out.
* `TuiLink`: `watch.outage` counts failed probes from `offline_since` up to the
  limit; a command has the number of its key, so that a reply can be told from the
  reply of another command of the same kind; `applied` is history. The start of the
  mission sends two commands, and has feedback of the second if both could be sent.

## 3. Runs

States and times are with two to four TLC workers. All runs say
`CHECK_DEADLOCK FALSE`: the system may be idle, and bounded models stop when
the bounds are used up. The runs that could hide a real deadlock state its
absence as a property (`LocksAreOrdered`, `OnlyFixupCrosses`, the liveness
properties).

| run | question | instance | distinct states |
|---|---|---|---|
| `upload_one` | is a reported success true, does the cache follow the FC, is a timeout justified, does every call return? | 1 worker, 3 calls, missions of 1 and 2 items, 2 losses, 3 repeats, rejections, failing sends, fairness | 43 309 |
| `upload_pair` | are flags given back when calls and timeouts interleave? | 2 workers (symmetric), 3 calls, rejections, timeouts that race the ACK | 1 299 300 |
| `ack_requests` | is each request decided rightly, woken, finished, and gone from the hub? | 3 requests (inject, goto, a stream retry) with ids of their own, failing sends, losses, deadlines, fairness | 171 796 |
| `override_requests` | lock order, snapshot, Uploading, end of an override | 2 clients, any request each time, failing sends, missions of up to 2 items, fairness | 847 686 |
| `mission_download` | is the mirror the FC's, does a download go on and complete? | missions of up to 3 items, 2 uploads or clears, rejections, failing sends, losses, reconnects, fairness | 931 454 |
| `telemetry_link` | does a client ever keep a live pin, does telemetry survive a link, do the gates decide on the link that is up, is silence shown, is a link that is up opened? | 1 client, TELEM_STALE of 2 ticks, channel of 2, fairness | 42 550 |
| `tui` | which sections block each other for good, has an override a snapshot, when does a resume start the mission, do keys and resumes end? | missions of 1 item, 3 keys, 1 frame lost or transfer refused, fairness | 258 511 |
| `tui_link` | is a reply that came reported missing; if waiters are not passed over, is the failsafe sent, do the retries end? | 2 kinds of telemetry, 1 attempt, a limit of 2 probes, 2 keys, fairness | 619 686 |
| `upload_send_leak` | *violated*: `NoAbandonedTransfer` with failing sends | 1 worker, 2 calls | |
| `ack_shared_id` | *violated*: `DecidedByOwnCommand` with the default step id | takeoff and land under one id | |
| `override_deadlock` | *violated*: `ResumeResets` | 2 clients | |
| `tui_interrupt` | *violated*: `PauseHolds` | 2 keys | |

### What the passing runs show

* **Uploads.** `OkMeansOnFC`: when an upload is about to return success, the FC
  holds the whole mission and the cache says so. It rests on the acceptance
  counting only after the last item was seen sent (`upload_ready_for_ack`).
  `CacheFollowsFC`: the cache is rewritten only with what the FC has at that
  moment, or wiped by a clear. `NoAbandonedTransfer`: pending items,
  awaiting_clear_ack and Uploading always have a worker that will take them back,
  with two workers and timeouts racing the ACK, too. `NoNeedlessTimeout`: without
  a lost frame no upload times out. `EveryCallReturns`.
* **ACKs.** `DecidedByOwnCommand`, `NoLostResult`, `NoLostWakeup`,
  `NothingLeftBehind`, `EveryRequestAnswers`, for requests with distinct ids, two
  of which wait for the same command. `ClientsAreServed`: the module implements
  `AckedRequests`. What a client was given is mapped to the result under its step
  id until it answers, and to the ACK it answered with from then on; so a result
  that is overwritten, taken away, or of another command breaks the refinement,
  as does an answer that disagrees with it.
* **Override.** `LocksAreOrdered` (until a resume or an upload is served),
  `SnapshotInSyncUntilUpload`, `OverrideHasSnapshot` (until a clear),
  `UploadingIsHeld` (unless a send of an upload failed, which leaves Uploading behind as
  `upload_send_leak` shows), `OverrideEnds` (unless a clear or an upload came).
* **Download.** `MirrorIsOfFC`: while no transfer runs, no item of the mirror is
  one the FC does not have, unless an upload failed or a clear was served.
  `CountIsServed`: a counted download has a request or an item under way for it,
  so that a later MISSION_COUNT is not ignored for good, as long as nothing was
  lost or replaced. `DownloadCompletes`: a download that was asked for ends with
  the mirror equal to the FC's mission, though uploads come in between.
* **Link.** `NoPinWithoutLink`, `StartsWithoutTelemetry`, `SilenceIsShown`,
  `LinkIsOpened`. `GatesReadThisLink`: a disarm is let through, and a takeoff
  reported complete, only on an altitude heard on the link that is up then,
  though the connector tears a link down and builds the next one in several lock
  sections while a worker waits for up to its deadline.
* **TUI, mission.** `OnlyFixupCrosses`: of all pairs of sections that nest two
  mutexes only one can meet, the answer to a MISSION_REQUEST and the fix-up of
  m. The nesting of c without a snapshot and that of the end of an override cross
  in the code and never meet, because of the snapshot. `SnapshotBehindOverride`,
  `ResumesWhatFcHas`, `EveryoneIsServed`, `ResumeEnds`.
* **TUI, connection.** `NoReplyIsMissed`. `FailsafeFires`, `RetryEnds`: if no thread
  that waits for the mutex is passed over for ever (`FairMutex`), and unless the mutex is
  held for ever, by a recv thread to which no frame comes or by a fix-up (`Held`).

### What the violated runs show

Each is a disagreement between the code and what it says of itself; `findings`
quotes the line.

1. `upload_send_leak`: a send that fails returns with awaiting_clear_ack or
   upload_pending set. A leaked upload_pending refuses every later upload and
   clear; downloads stay paused.
2. `ack_shared_id`: requests without a step id share one for the process, and
   one takes the result of the other's command.
3. `override_deadlock`: a `resume` without a snapshot, which means to reset the override
   state, holds the store and waits for the override state, while a `pause` holds the
   override state and waits for the store; the reset never comes. (In the run an
   upload whose send failed left the state Uploading. The MISSION_ACK handler
   nests the mutexes as `resume` does; `waypoint_inject` and the position handler nest
   them as `pause` does.)
4. `tui_interrupt`: i pauses the mission while the recv thread is between reading
   Resuming and writing MissionRunning; the pause is overwritten, after AUTO and
   MISSION_START.

### What the runs say of the code besides

Nothing in the repository claims otherwise, so no run is expected to fail here; the
properties name these cases.

* Two uploads can be in progress at once: the busy check and the assignment it
  protects are two lock sections with up to 5 s of handshake between them.
  `upload_pair` checks what holds all the same.
* A gate takes an altitude of this link however old it is, up to TELEM_STALE
  and the time the connector needs: `GatesReadThisLink` is about the link.
* When m fixes up a mission without a takeoff, the recv thread needs the connection,
  which m holds: if a MISSION_REQUEST arrives while m is in its polling loop, the recv
  thread waits for the connection with the store locked, m for the store, and the
  TUI stands still for good, its failsafe RTL included (`CircularWait`). If not, the
  upload cannot succeed either, since nobody answers the FC: after CLEAR_ALL has
  removed the mission of the FC it runs into its timeouts (about 35 s) and fails.
* In Resuming any MISSION_ACK, accepted or not, starts the mission, and an ACK that
  is handled before Resuming is set leaves it set (`crossed`).
* While no frame comes, the recv thread holds the connection: neither keys nor the
  failsafe RTL get through (`Held`). The RTL is sent once for an outage, and its
  result ignored.
* The ACK of an ARM can end the feedback of a DISARM that followed it: the two are
  one MAV_CMD.

The qualifications in the passing properties ("until an upload", "unless a
clear") mark where the code gives no guarantee; each was found by running the
property without it.

### Bounds

* **Two workers** are enough for every race of a pair of calls; three calls in
  all let one call meet what two earlier ones left. Two missions of different
  length tell "all items" from "the last item of another mission".
* **Missions of one and two items** in the transfer, up to three in the download:
  first, middle and last item differ.
* **Losses and repeats** are bounded because a repeat adds a frame to the link.
  One is enough to make a frame stray into a later call or go missing from this
  one; `upload_one` allows two losses and three repeats, so that they combine.
* **Two requests for one command** exercise the FIFO; a third is the request
  that awaits nothing.
* **TELEM_STALE of two ticks** tells just heard, fresh, stale and never heard
  apart; a channel of two can lag and still hold a message before the last.
* **Three keys in the TUI** are i or w, c, and one that meets what they left; with
  two of them m comes beside a resume. A mission of one item has a first request
  that is the last; the seqs of a transfer are the matter of `MissionTransfer`. One
  lost frame or refused transfer is enough for a resume to lose its ACK.
* **Two probes** are the least limit that tells a first failed probe from the one
  that decides; two keys are a command and one that replaces its feedback, or a
  command beside m; two kinds of telemetry can be seen one after the other.
* `upload_one` sets `PollMayRace = FALSE`: a polling loop runs
  out only after the FC's own session ended and the link is drained (the FC's
  session timeout is far below the 30 s of the loop). Without that assumption an
  ACK of a session that timed out can be taken for the next one: ACKs carry no
  transfer id, and the code relies on the timeouts. `upload_pair` drops it
  for the flags.

### Fairness

In the modules of the server weak fairness only, and only for what runs by itself:
workers and the recv thread (the OS schedules every thread that can run, and no
thread holds a mutex while it sleeps), the clock, `notify_all` after an unlock, and
the FC answering what it got in the modules where a property needs it
(`EveryCallReturns`, `DownloadCompletes`). `EveryRequestAnswers` assumes nothing of
the FC. In `TelemetryLink` an FC whose frames get through is assumed to send them.

In the TUI the recv thread locks the connection again as soon as it has handled a
frame, so a thread that waits for it can run only now and then, and
`std::sync::Mutex` does not promise that it ever does. The specification of `TuiLink`
assumes weak fairness only, under which a waiter may be passed over for ever; its two
liveness properties name the fairness of the mutex as a hypothesis (`FairMutex`: one that
is released over and over is not taken from the retries and the RTL for ever). They
show that nothing else in the protocol stops the failsafe and the retries, not that
the mutex is fair: without the hypothesis TLC finds both violated, already with no key
pressed. `TuiLink` assumes nothing about frames, nor that a fix-up ends:
`Held`, the mutex kept for ever, is the alternative. `Tui` assumes that fairness of the
mutexes in its specification, so `EveryoneIsServed` and `ResumeEnds` stand under the
same hypothesis: they are about the circular waits, and about the
steps of a resume. In `Tui` the FC answers, and `SF_vars(RecvMission)` says that a mission
frame that waits is not passed over for telemetry for ever (the link is a FIFO).

No key, call, loss, repeat, reconnect, probe result or recovery of the link is ever
assumed to happen.

## 4. Proofs

For every value of the constants that meets the named assumptions (disjoint
threads, bounds that are natural numbers, a channel that holds a message):

| module | theorem | states |
|---|---|---|
| `MissionTransferProofs` | `TypeCorrect`, `TransferNeverAbandoned` | `TypeOK`; if sends do not fail, `NoAbandonedTransfer` |
| | `SuccessIsTrue`, `CacheShowsTheFC`, `TimeoutMeansLoss` | with one worker and `~PollMayRace`, `OkMeansOnFC`, `CacheFollowsFC`, `NoNeedlessTimeout` |
| `MissionDownloadProofs` | `TypeCorrect`, `MirrorShowsTheFC`, `CountGoesOn` | `TypeOK`, `MirrorIsOfFC`, `CountIsServed` |
| `CommandCompletionProofs` | `TypeCorrect`, `WakeupsAreKept` | `TypeOK`, `NoLostWakeup` for any step ids |
| | `DecisionsFit`, `ResultsAreKept`, `HubIsLeftClean`, `ServesClients` | with distinct step ids, `DecidedByOwnCommand`, `NoLostResult`, `NothingLeftBehind`, and the refinement `ClientsAreServed` |
| `MissionOverrideProofs` | `TypeCorrect`, `OrderedLocksNeverCross`, `SnapshotStaysInSync`, `OverrideKeepsSnapshot`, `UploadingIsGivenBack` | `TypeOK`, `LocksAreOrdered`, `SnapshotInSyncUntilUpload`, `OverrideHasSnapshot`, `UploadingIsHeld` |
| `TelemetryLinkProofs` | `TypeCorrect`, `StartsClean`, `GatesDecideOnThisLink`, `NoPinIsKept` | `TypeOK`, `StartsWithoutTelemetry`, `GatesReadThisLink`, `NoPinWithoutLink` |
| `TuiProofs` | `TypeCorrect`, `OverrideHasSnapshot`, `OneCircularWait`, `ResumesWithTheMission` | `TypeOK`, `SnapshotBehindOverride`, `OnlyFixupCrosses`, `ResumesWhatFcHas` |
| `TuiLinkProofs` | `TypeCorrect`, `FeedbackIsOpen` | `TypeOK`, `NoReplyIsMissed` |

The arguments:

* **NoAbandonedTransfer** is not inductive: a worker that releases Uploading
  must know that no other worker still counts on it. `TransferInv` adds that a
  result (done or failed) and pending items exclude each other, and that
  Uploading is held either by a worker that has yet to set its items (which
  clears the result flags when it does) or by one in the handshake while no
  result has come, because the result itself resets the state. The assumption
  `~SendMayFail` is needed: `upload_send_leak` is the counterexample.
* **A reported success.** `OkMeansOnFC` is about one step of the worker, and true
  because of the whole handshake: `SuccessInv` says what it is. The FC is in at most one
  session, that of the upload whose worker polls, and every frame of the session lies
  between that upload's COUNT and its last ACK. Before (`QuietInv`) nothing of a
  session is left, on the link or at the FC, so a call starts clean; until the
  COUNT arrives only CLEAR_ALLs are ahead of it (`CountInv`); then the items under way are
  noted as sent and the FC holds what it asked for (`ItemInv`, `SessionInv`). ACKs carry no id, so the
  acceptance of a CLEAR_ALL must be told from the upload's own (`AckInv`): the first is
  ahead of every REQUEST, and the recv thread handles it before it could have sent all
  items, when `upload_ready_for_ack` is still false; the second is the last frame of the
  session. What was accepted stays true until it is reported, because no CLEAR_ALL is
  under way (`DoneInv`). `CacheFollowsFC` follows from the same invariant. For
  `NoNeedlessTimeout`, `LossInv` adds that with nothing lost the next event of the session is
  under way (`Pending`): the COUNT, a REQUEST or item, a rejection, or an acceptance after
  the last item was noted. Both hypotheses are needed: dropping either, TLC finds `OkMeansOnFC` and
  `NoNeedlessTimeout` violated. With two workers a second upload passes the busy
  check during the handshake of the first; `upload_pair` checks what is left
  then. With `PollMayRace` a session outlives the call it belongs to; the FC gives up a
  silent session after seconds, the loop waits 30 s.
* **The download.** An item is stored only while no transfer is under way, but the frames
  it came in were sent before. `RoundInv` orders them: the frames of an upload (COUNT, the
  request for its items, the items, the ACK) are under way one at a time and only while it
  polls, a clear ahead of them, unless an upload failed or a clear was served. So an
  acceptance is behind every item of the mission before (`AcceptInv`), and is the
  event that ends the upload; and when none is undecided, every item under way, in hand
  or stored is the FC's (`SettledInv`). `ServedInv` carries a counted download from frame
  to frame.
* **The hub.** `NoLostWakeup` is inductive as it stands. The others need that
  with distinct ids an entry and a result belong to one request, that entries are
  of requests that still wait for that command, and that a served request has its
  result in `by_id` until it takes it (`HubInv`). The refinement adds that a request
  has an outcome exactly from the end of its wait or its dispatch on
  (`OutcomesTimely`): with it each step of the worker is one step of
  `AckedRequests` or none, and an ACK is given at most once because an entry's
  owner has not been served. `ack_shared_id` shows that
  distinct ids are needed.
* **Locks and override.** `TypeOK` ties each mutex to the steps between its lock
  and its unlock. `ServedOnly` says which steps are reachable with what has been
  served; the lock order follows from it at once. For the snapshot it is carried
  through the steps that hold a mutex; for Uploading, `UploadingInv` adds that
  once an upload has ended only a new claimant or the ACK handler can account
  for the state. That no send failed since the claim (`sendFailed`) is needed: a worker
  that returns on a failed send gives nothing back.
* **The link.** `LinkInv`: while a recv thread runs the connector waits in
  `join`, and the cache is empty from `ClearTelem` until the next spawn.
  `LastWord`: with the link given up, the last message of each subscription, or
  what the client was sent if it has none, is dead. A lagging subscription keeps
  this because it drops its oldest message.

* **The TUI's mutexes.** `LocksOK` says that a mutex is held by a thread exactly at
  the steps inside its section. `SnapshotInv` follows the snapshot through every
  step that is about to use it (the end of an override, c): nothing drops one,
  since only i and w write it. `CrossInv` says why the two crossing sections exclude
  each other: c holds the store because there is no snapshot, the end of an
  override holds the override state because an override is active, and an active
  override has a snapshot. Listing what each thread holds and wants then leaves
  one circular wait.
* **The TUI's resume.** The handler takes any MISSION_ACK, so `ResumesWhatFcHas` needs that
  there is no other: `ResumeInv` says that a resume begins with nothing of a transfer under way
  (`BeginInv`), that from its COUNT on there is one COUNT or one session and no ACK,
  on the link or in hand (`TransferInv`), and that m sends nothing of a transfer beside it
  unless the two met (`FixupInv`), which the property excepts.
* **The feedback.** While a key is being served, nothing under way, applied or open has
  its number (`FeedbackInv`), so feedback is opened for a command that was not answered
  before; and the reply that is applied closes the feedback it belongs to.
* **The link as a queue.** `LinkQueues` has what these proofs share: the set of frames on the
  way (`Elems`) and their order (`Ahead`, `Last`), with a lemma for each thing that happens to
  a FIFO: a frame is appended, taken or lost at the head. The modules
  add for their own steps that what is newly on the way was sent in this step and is behind
  the rest (`ToFCNext`, `ToGCSNext`).

The inductive invariants of the transfer, the download and the resume were model-checked on the runs' instances before they were
proved, `SuccessInv` and `LossInv` also on more calls, losses and items than `upload_one` has.

Every invariant and every action property of a passing run is proved, and the one
refinement. Only model-checked: the liveness properties (`EveryCallReturns`,
`EveryRequestAnswers`, `OverrideEnds`, `DownloadCompletes`, `SilenceIsShown`,
`LinkIsOpened`, `EveryoneIsServed`, `ResumeEnds`, `FailsafeFires`, `RetryEnds`): fairness and ENABLED are beyond the prover. For the
first two violated runs the hypotheses `~SendMayFail` and `UniqueIds` exclude the
counterexample, for the third (`LocksAreOrdered`) that no resume or upload was
served, and the rest is proved.

## 5. Not modelled

* Coordinates, altitudes and commands of items (`build_mission_items`, the takeoff
  that `update_from_item` keeps, `start_seq_for`), JSON, HTTP status codes,
  logging and wording. They are arithmetic on one item at a time, which tests reach.
* `start_auto_mission`: a sequence of commands modelled elsewhere, with no shared
  state of its own. (`ensure_nav_takeoff_on_fc` is the fix-up of `Tui`.)
* A send that fails inside pause or inject: it comes after the last lock section,
  and changes only what the caller is told. A send that fails in the fix-up of
  `Tui`. (Failing sends of resume, clear and upload are modelled in `MissionTransfer`,
  `MissionOverride` and `MissionDownload`, those of commands in `TuiLink`.)
* A request that keeps an old connection across a reconnect: its frames go nowhere,
  and its timeouts are those of `MissionTransfer`.
* The choice of a device and the pinning of a UDP peer in `mavlink_connect.rs`: input
  and output, of which the models keep that a link opens when a heartbeat comes.
* The logs hub (`logs_hub.rs`, `mavlink_log.rs`, `flight_log.rs`): bounded logs with a
  broadcast, independent of the control of the vehicle; no comment or test says
  what a subscriber may rely on, so there is nothing to hold the code to.
* The TUI's drawing and formatting (`bin/tui/render.rs`, `format.rs`), its telemetry
  fields, and which messages are asked for at which rate (`mavlink_streams.rs`).
* `bin/raw.rs`, `geo.rs`, `lib.rs`: input and output, arithmetic, re-exports.

## 6. Plan

Done, in the order the behaviour matters: uploads and clears; the completion
hub; override, pause and resume with the mutexes; downloads; the link,
telemetry and the gates of disarm and takeoff; the TUI's mission and its connection
with the failsafe; proofs of the safety of all of them.

Left: an abstract specification of what the client of an upload is promised,
which `MissionTransfer` with one worker would be shown to implement (the
invariant it needs is `SuccessInv`), and what a success still means when two uploads
overlap.

## 7. Running it

    tlc -workers 2 -config upload_pair.cfg MCMissionTransfer
    tlapm MissionTransferProofs.tla

`PROJECT.json` names the module of each configuration.
