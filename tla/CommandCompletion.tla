------------------------- MODULE CommandCompletion --------------------------
(***************************************************************************)
(* The apply-tool requests of drone-http and the hub that gives each the   *)
(* COMMAND_ACK it waits for: src/src/command_completion.rs, and the worker *)
(* of post_apply_tool in src/src/bin/drone_http.rs that registers, sends,  *)
(* waits and unregisters.  The hub is one mutex and one condition          *)
(* variable; every method is one step with the lock held, and its          *)
(* notify_all, which comes after the unlock, is a step of its own.         *)
(*                                                                         *)
(* The hub's queues, one VecDeque of step ids for each command, are a set  *)
(* of entries numbered by arrival; the front of a queue is the entry of    *)
(* that command with the least number.  The fields owner of an entry and   *)
(* by of an ACK are not in the code: they say which request an entry and   *)
(* an ACK belong to, and no guard reads them.                              *)
(***************************************************************************)
EXTENDS Integers, Sequences, FiniteSets

CONSTANTS Requests,     \* POST /apply-tool requests
          StepIds,      \* strings used as step ids
          StepOf,       \* the step id of each request
          ToolOf,       \* the tool each request applies
          Awaits,       \* the requests with wait_for = "ack"
          NoAck,        \* no result
          SendMayFail,  \* a send, or a gate before it, may return an error
          WaitMayExpire \* ack_timeout_ms may pass

SetMode == "DO_SET_MODE"
ArmDisarm == "COMPONENT_ARM_DISARM"
Reposition == "DO_REPOSITION"
SetCurrent == "DO_SET_MISSION_CURRENT"
MissionStart == "MISSION_START"
Takeoff == "NAV_TAKEOFF"
Land == "NAV_LAND"
NoCommand == "None"
Commands == {SetMode, ArmDisarm, Reposition, SetCurrent, MissionStart, Takeoff,
             Land}

\* arm stands for disarm and force_arm, loiter for the other mode tools, land
\* for return_to_home.
Tools == {"arm", "takeoff", "land", "loiter", "goto_location", "waypoint_inject",
          "set_current_waypoint", "start_mission", "pause", "resume",
          "move_forward", "retry_streams"}

\* The commands each tool sends, in order.
SentCommands ==
    [t \in Tools |->
        CASE t = "arm" -> <<ArmDisarm>>
          [] t = "takeoff" -> <<Takeoff>>
          [] t = "land" -> <<Land>>
          [] t \in {"loiter", "move_forward"} -> <<SetMode>>
          [] t = "goto_location" -> <<Reposition>>
          [] t = "set_current_waypoint" -> <<SetCurrent>>
          [] t \in {"waypoint_inject", "pause"} -> <<SetMode, Reposition>>
          [] t = "start_mission" -> <<SetCurrent, SetMode, MissionStart>>
          [] t = "resume" -> <<SetMode, SetCurrent, MissionStart>>
          [] t = "retry_streams" -> << >>]

\* expected_ack_command: the one command whose ACK decides the request.
ExpectedAck ==
    [t \in Tools |->
        CASE t = "arm" -> ArmDisarm
          [] t = "takeoff" -> Takeoff
          [] t = "land" -> Land
          [] t = "loiter" -> SetMode
          [] t \in {"goto_location", "waypoint_inject"} -> Reposition
          [] t = "set_current_waypoint" -> SetCurrent
          [] t = "start_mission" -> MissionStart
          [] OTHER -> NoCommand]

Acks == [cmd : Commands, by : Requests, accepted : BOOLEAN]

ASSUME RequestsAssumption == /\ StepOf \in [Requests -> StepIds]
                             /\ ToolOf \in [Requests -> Tools]
                             /\ Awaits \in SUBSET Requests
ASSUME NoAckAssumption == NoAck \notin Acks

\* The commands of request r, and the one it waits for.
SentBy(r) == SentCommands[ToolOf[r]]
Expects(r) == IF r \in Awaits THEN ExpectedAck[ToolOf[r]] ELSE NoCommand

\* Mutant of Waiter: every request is registered, awaited or not.
WaiterAlways(r) == TRUE

Waiter(r) == Expects(r) # NoCommand

VARIABLES pc,        \* the step each request is at
          sent,      \* how many of its commands each request has sent
          asleep,    \* the requests blocked in Condvar::wait_timeout
          expired,   \* the requests whose deadline has passed
          notifiers, \* those between unlock and notify_all ("recv" or a request)
          waiting,   \* HubInner::queues
          byId,      \* HubInner::by_id
          arrivals,  \* the number the next entry gets
          outcome,   \* the completion_status each request answered with
          answer,    \* history: the ACK each request was decided by
          served,    \* history: the requests an ACK was popped for
          toFC,      \* commands on the way to the FC
          toGCS      \* COMMAND_ACKs on the way to the recv thread

hub == <<waiting, byId, arrivals>>
link == <<toFC, toGCS>>
vars == <<pc, sent, asleep, expired, notifiers, hub, outcome, answer, served, link>>

Steps == {"new", "send", "wait", "unregister", "dropped", "done"}
Outcomes == {"none", "acked", "rejected", "timeout", "not_applicable", "sent",
             "dispatch_failed"}
Entries == [id : StepIds, cmd : Commands, number : Nat, owner : Requests]

\* Type invariant: queue entries carry real commands and step ids, results
\* carry ACKs (HubInner, CompletionStatus in src/src/command_completion.rs).
TypeOK == /\ pc \in [Requests -> Steps]
          /\ sent \in [Requests -> Nat]
          /\ asleep \in SUBSET Requests
          /\ expired \in SUBSET Requests
          /\ notifiers \in SUBSET (Requests \cup {"recv"})
          /\ waiting \in SUBSET Entries
          /\ byId \in [StepIds -> Acks \cup {NoAck}]
          /\ arrivals \in Nat
          /\ outcome \in [Requests -> Outcomes]
          /\ answer \in [Requests -> Acks \cup {NoAck}]
          /\ served \in SUBSET Requests
          /\ toFC \in Seq([cmd : Commands, by : Requests])
          /\ toGCS \in Seq(Acks)

Init == /\ pc = [r \in Requests |-> "new"]
        /\ sent = [r \in Requests |-> 0]
        /\ asleep = {}
        /\ expired = {}
        /\ notifiers = {}
        /\ waiting = {}
        /\ byId = [id \in StepIds |-> NoAck]
        /\ arrivals = 0
        /\ outcome = [r \in Requests |-> "none"]
        /\ answer = [r \in Requests |-> NoAck]
        /\ served = {}
        /\ toFC = << >>
        /\ toGCS = << >>
-----------------------------------------------------------------------------
(* The hub's data.                                                         *)

\* retain(|id| id != step_id) on every queue, and by_id.remove.
Without(id) == {e \in waiting : e.id # id}
Forget(id) == [byId EXCEPT ![id] = NoAck]

\* Mutant of Queue: one queue for all commands.
QueueOfAll(cmd) == waiting

Queue(cmd) == {e \in waiting : e.cmd = cmd}
IsFront(e) == \A f \in Queue(e.cmd) : e.number <= f.number

\* A request moves on; its own notify_all comes first.
GoTo(r, from, to) == /\ pc[r] = from
                     /\ r \notin notifiers
                     /\ pc' = [pc EXCEPT ![r] = to]
-----------------------------------------------------------------------------
(* The worker of post_apply_tool.                                          *)

Register(r) == /\ Waiter(r)
               /\ GoTo(r, "new", "send")
               /\ byId' = Forget(StepOf[r])
               /\ waiting' = waiting \cup {[id |-> StepOf[r], cmd |-> Expects(r),
                                            number |-> arrivals, owner |-> r]}
               /\ arrivals' = arrivals + 1
               /\ notifiers' = notifiers \cup {r}
               /\ UNCHANGED <<sent, asleep, expired, outcome, answer, served, link>>

\* No ACK is asked for, or the tool expects none: nothing is registered.
SkipRegister(r) == /\ ~Waiter(r)
                   /\ GoTo(r, "new", "send")
                   /\ UNCHANGED <<sent, asleep, expired, notifiers, hub, outcome,
                                  answer, served, link>>

Send(r) == /\ sent[r] < Len(SentBy(r))
           /\ GoTo(r, "send", "send")
           /\ sent' = [sent EXCEPT ![r] = @ + 1]
           /\ toFC' = Append(toFC, [cmd |-> SentBy(r)[sent[r] + 1], by |-> r])
           /\ UNCHANGED <<asleep, expired, notifiers, hub, outcome, answer, served,
                          toGCS>>

\* The hub is told only when an ACK was asked for.
SendFails(r) ==
    /\ SendMayFail
    /\ GoTo(r, "send", IF r \in Awaits THEN "dropped" ELSE "done")
    /\ outcome' = [outcome EXCEPT ![r] = "dispatch_failed"]
    /\ UNCHANGED <<sent, asleep, expired, notifiers, hub, answer, served, link>>

EndSend(r) ==
    /\ sent[r] = Len(SentBy(r))
    /\ GoTo(r, "send", IF Waiter(r) THEN "wait" ELSE "done")
    /\ outcome' = [outcome EXCEPT ![r] = CASE Waiter(r) -> "none"
                                           [] ~Waiter(r) /\ r \in Awaits ->
                                                "not_applicable"
                                           [] OTHER -> "sent"]
    /\ UNCHANGED <<sent, asleep, expired, notifiers, hub, answer, served, link>>

\* wait: with the lock held, a result is taken before the clock is looked at ...
WaitTakes(r) ==
    /\ r \notin asleep
    /\ byId[StepOf[r]] # NoAck
    /\ GoTo(r, "wait", "unregister")
    /\ answer' = [answer EXCEPT ![r] = byId[StepOf[r]]]
    /\ outcome' = [outcome EXCEPT ![r] = IF byId[StepOf[r]].accepted THEN "acked"
                                                                    ELSE "rejected"]
    /\ byId' = Forget(StepOf[r])
    /\ UNCHANGED <<sent, asleep, expired, notifiers, waiting, arrivals, served, link>>

\* Mutant of WaitTimesOut: the deadline is looked at before the result.
WaitTimesOutFirst(r) ==
    /\ r \notin asleep
    /\ r \in expired
    /\ GoTo(r, "wait", "unregister")
    /\ outcome' = [outcome EXCEPT ![r] = "timeout"]
    /\ waiting' = Without(StepOf[r])
    /\ byId' = Forget(StepOf[r])
    /\ UNCHANGED <<sent, asleep, expired, notifiers, arrivals, answer, served, link>>

\* ... then the deadline ...
WaitTimesOut(r) ==
    /\ r \notin asleep
    /\ byId[StepOf[r]] = NoAck
    /\ r \in expired
    /\ GoTo(r, "wait", "unregister")
    /\ outcome' = [outcome EXCEPT ![r] = "timeout"]
    /\ waiting' = Without(StepOf[r])
    /\ byId' = Forget(StepOf[r])
    /\ UNCHANGED <<sent, asleep, expired, notifiers, arrivals, answer, served, link>>

\* Mutant of WaitSleeps: the result is not looked at again before sleeping.
WaitSleepsBlind(r) ==
    /\ r \notin asleep
    /\ r \notin expired
    /\ GoTo(r, "wait", "wait")
    /\ asleep' = asleep \cup {r}
    /\ UNCHANGED <<sent, expired, notifiers, hub, outcome, answer, served, link>>

\* ... and otherwise the wait releases the lock and sleeps.
WaitSleeps(r) ==
    /\ r \notin asleep
    /\ byId[StepOf[r]] = NoAck
    /\ r \notin expired
    /\ GoTo(r, "wait", "wait")
    /\ asleep' = asleep \cup {r}
    /\ UNCHANGED <<sent, expired, notifiers, hub, outcome, answer, served, link>>

\* Mutant of Expire: the wait has no timeout of its own.
ExpireUnnoticed(r) == /\ WaitMayExpire
                      /\ pc[r] = "wait"
                      /\ r \notin expired
                      /\ expired' = expired \cup {r}
                      /\ UNCHANGED <<pc, sent, asleep, notifiers, hub, outcome, answer,
                                     served, link>>

\* The deadline passes, and wakes the request if it sleeps.
Expire(r) == /\ WaitMayExpire
             /\ pc[r] = "wait"
             /\ r \notin expired
             /\ expired' = expired \cup {r}
             /\ asleep' = asleep \ {r}
             /\ UNCHANGED <<pc, sent, notifiers, hub, outcome, answer, served, link>>

\* Mutant of Unregister: only the result is dropped.
UnregisterResult(r) == /\ \/ GoTo(r, "unregister", "done")
                          \/ GoTo(r, "dropped", "done")
                       /\ byId' = Forget(StepOf[r])
                       /\ notifiers' = notifiers \cup {r}
                       /\ UNCHANGED <<sent, asleep, expired, waiting, arrivals, outcome,
                                      answer, served, link>>

\* unregister, after a wait and after a failed dispatch.
Unregister(r) == /\ \/ GoTo(r, "unregister", "done")
                    \/ GoTo(r, "dropped", "done")
                 /\ waiting' = Without(StepOf[r])
                 /\ byId' = Forget(StepOf[r])
                 /\ notifiers' = notifiers \cup {r}
                 /\ UNCHANGED <<sent, asleep, expired, arrivals, outcome, answer,
                                served, link>>

NotifyAll(n) == /\ n \in notifiers
                /\ notifiers' = notifiers \ {n}
                /\ asleep' = {}
                /\ UNCHANGED <<pc, sent, expired, hub, outcome, answer, served, link>>
-----------------------------------------------------------------------------
(* The recv thread: an ACK goes to the front of its command's queue.       *)

\* Mutant of Deliver: the waiter that was served stays in the queue.
DeliverKeepsEntry(ack) ==
    \/ \E e \in Queue(ack.cmd) : /\ IsFront(e)
                                 /\ byId' = [byId EXCEPT ![e.id] = ack]
                                 /\ served' = served \cup {e.owner}
                                 /\ UNCHANGED waiting
    \/ Queue(ack.cmd) = {} /\ UNCHANGED <<waiting, byId, served>>

Deliver(ack) ==
    \/ \E e \in Queue(ack.cmd) : /\ IsFront(e)
                                 /\ waiting' = waiting \ {e}
                                 /\ byId' = [byId EXCEPT ![e.id] = ack]
                                 /\ served' = served \cup {e.owner}
    \/ Queue(ack.cmd) = {} /\ UNCHANGED <<waiting, byId, served>>

OnCommandAck == /\ toGCS # << >>
                /\ "recv" \notin notifiers
                /\ Deliver(Head(toGCS))
                /\ toGCS' = Tail(toGCS)
                /\ notifiers' = notifiers \cup {"recv"}
                /\ UNCHANGED <<pc, sent, asleep, expired, arrivals, outcome, answer,
                               toFC>>

\* The flight controller (external) answers each command once.
FcAcks(ok) == /\ toFC # << >>
              /\ toFC' = Tail(toFC)
              /\ toGCS' = Append(toGCS, [cmd |-> Head(toFC).cmd, by |-> Head(toFC).by,
                                         accepted |-> ok])
              /\ UNCHANGED <<pc, sent, asleep, expired, notifiers, hub, outcome, answer,
                             served>>

\* The link loses a command or its ACK.
Lose == /\ toFC # << >>
        /\ toFC' = Tail(toFC)
        /\ UNCHANGED <<pc, sent, asleep, expired, notifiers, hub, outcome, answer,
                       served, toGCS>>
-----------------------------------------------------------------------------
Work(r) == \/ Register(r) \/ SkipRegister(r) \/ Send(r) \/ SendFails(r)
           \/ EndSend(r) \/ WaitTakes(r) \/ WaitTimesOut(r) \/ WaitSleeps(r)
           \/ Unregister(r)

Next == \/ \E r \in Requests : Work(r) \/ Expire(r)
        \/ \E n \in notifiers : NotifyAll(n)
        \/ OnCommandAck
        \/ \E ok \in BOOLEAN : FcAcks(ok)
        \/ Lose

Spec == Init /\ [][Next]_vars

\* Threads run and the clock advances; the FC need not answer.
Fairness == /\ \A r \in Requests : WF_vars(Work(r) \/ Expire(r))
            /\ \A n \in Requests \cup {"recv"} : WF_vars(NotifyAll(n))
            /\ WF_vars(OnCommandAck)

FairSpec == Spec /\ Fairness
-----------------------------------------------------------------------------
(* Properties.                                                             *)

UniqueIds == \A r, s \in Requests : StepOf[r] = StepOf[s] => r = s

\* "Correlate outbound MAVLink commands with inbound COMMAND_ACK": a request is
\* decided by an ACK of the command it sent, never by one of another command.
DecidedByOwnCommand ==
    \A r \in Requests : answer[r] # NoAck => answer[r].cmd = Expects(r)

\* A request that reports a timeout was not given an ACK that it then dropped,
\* however late the ACK came before the deadline was looked at.
NoLostResult == \A r \in Requests : outcome[r] = "timeout" => r \notin served

\* A request that has answered leaves nothing behind: no entry that would eat
\* the next ACK of its command, no result under its step id.
NothingLeftBehind ==
    \A r \in Requests : pc[r] = "done" =>
        /\ byId[StepOf[r]] = NoAck
        /\ \A e \in waiting : e.id # StepOf[r]

\* No wake-up is lost: a request that sleeps over its result is about to be
\* woken by a notify_all that comes after the result was put there.
NoLostWakeup ==
    \A r \in asleep : byId[StepOf[r]] # NoAck => "recv" \in notifiers

\* The clients' view: until a request answers, what it was given is the result
\* under its step id, afterwards the ACK it was decided by.
Given == [r \in Requests |-> IF outcome[r] = "none" THEN byId[StepOf[r]] ELSE answer[r]]

Client == INSTANCE AckedRequests
            WITH given <- Given,
                 Waiters <- {r \in Requests : Waiter(r)},
                 AcksFor <- [r \in Requests |-> {ack \in Acks : ack.cmd = Expects(r)}]

\* The hub and the workers keep what the clients are promised: one ACK that
\* fits, never replaced or lost, and one answer that says what it says.
ClientsAreServed == Client!Spec

\* Every request answers, though the FC may not.
EveryRequestAnswers == <>(\A r \in Requests : pc[r] = "done")
=============================================================================
