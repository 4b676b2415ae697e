---------------------- MODULE CommandCompletionProofs -----------------------
(***************************************************************************)
(* Proofs about CommandCompletion for any set of requests and tools, any   *)
(* delay, loss and order of steps.                                         *)
(***************************************************************************)
EXTENDS CommandCompletion, SequenceTheorems, LinkQueues, TLAPS

\* The two tables of src/src/tool_dispatch.rs name commands.
LEMMA TableTypes ==
    /\ SentCommands \in [Tools -> Seq(Commands)]
    /\ ExpectedAck \in [Tools -> Commands \cup {NoCommand}]
    /\ NoCommand \notin Commands
<1> USE DEF Commands, NoCommand, SetMode, ArmDisarm, Reposition, SetCurrent,
            MissionStart, Takeoff, Land
<1>1. \A t \in Tools : SentCommands[t] \in Seq(Commands)
  <2>1. \A c \in Commands : <<c>> \in Seq(Commands)
    OBVIOUS
  <2>2. \A c, d \in Commands : <<c, d>> \in Seq(Commands)
    OBVIOUS
  <2>3. \A c, d, e \in Commands : <<c, d, e>> \in Seq(Commands)
    OBVIOUS
  <2>4. << >> \in Seq(Commands)
    OBVIOUS
  <2>5. {SetMode, ArmDisarm, Reposition, SetCurrent, MissionStart, Takeoff, Land}
           \subseteq Commands
    OBVIOUS
  <2> HIDE DEF Commands, SetMode, ArmDisarm, Reposition, SetCurrent, MissionStart,
               Takeoff, Land
  <2>6. ASSUME NEW t \in Tools PROVE SentCommands[t] \in Seq(Commands)
    <3>1. SentCommands[t] \in
             {<<ArmDisarm>>, <<Takeoff>>, <<Land>>, <<SetMode>>, <<Reposition>>,
              <<SetCurrent>>, <<SetMode, Reposition>>, << >>,
              <<SetCurrent, SetMode, MissionStart>>,
              <<SetMode, SetCurrent, MissionStart>>}
      BY Zenon DEF Tools, SentCommands
    <3> QED
      BY <2>1, <2>2, <2>3, <2>4, <2>5, <3>1
  <2> QED
    BY <2>6
<1>2. \A t \in Tools : ExpectedAck[t] \in Commands \cup {NoCommand}
  BY DEF Tools, ExpectedAck
<1>3. NoCommand \notin Commands
  OBVIOUS
<1> QED
  BY <1>1, <1>2, <1>3 DEF SentCommands, ExpectedAck

\* What a request waits for is a command, and what it sends next is one.
LEMMA RequestTypes ==
    ASSUME NEW r \in Requests
    PROVE  /\ SentBy(r) \in Seq(Commands)
           /\ Len(SentBy(r)) \in Nat
           /\ Waiter(r) => Expects(r) \in Commands
           /\ Waiter(r) => r \in Awaits
           /\ StepOf[r] \in StepIds
  BY RequestsAssumption, TableTypes DEF SentBy, Waiter, Expects

\* Forgetting a step id and filtering it out keep the shape of the hub.
LEMMA ForgetTypes ==
    ASSUME TypeOK, NEW r \in Requests
    PROVE  /\ Without(StepOf[r]) \in SUBSET Entries
           /\ Forget(StepOf[r]) \in [StepIds -> Acks \cup {NoAck}]
  BY DEF TypeOK, Without, Forget

LEMMA TypeInit == Init => TypeOK
  BY DEF Init, TypeOK, Steps, Outcomes

LEMMA TypeWork ==
    ASSUME TypeOK, NEW r \in Requests, Work(r)
    PROVE  TypeOK'
<1> USE DEF Steps, Outcomes, GoTo, hub, link
<1>1. CASE Register(r)
  <2>1. [id |-> StepOf[r], cmd |-> Expects(r), number |-> arrivals, owner |-> r]
           \in Entries
    BY <1>1, RequestTypes DEF Register, Entries, TypeOK
  <2>2. waiting' \in SUBSET Entries
    BY <1>1, <2>1 DEF Register, TypeOK
  <2> QED
    BY <1>1, <2>2, ForgetTypes DEF Register, TypeOK
<1>2. CASE SkipRegister(r)
  BY <1>2 DEF SkipRegister, TypeOK
<1>3. CASE Send(r)
  <2>1. SentBy(r)[sent[r] + 1] \in Commands
    BY <1>3, RequestTypes, ElementOfSeq DEF Send, TypeOK
  <2>2. toFC' \in Seq([cmd : Commands, by : Requests])
    BY <1>3, <2>1, QueueTypes DEF Send, TypeOK
  <2> QED
    BY <1>3, <2>2 DEF Send, TypeOK
<1>4. CASE SendFails(r)
  BY <1>4 DEF SendFails, TypeOK
<1>5. CASE EndSend(r)
  BY <1>5 DEF EndSend, TypeOK
<1>6. CASE WaitTakes(r)
  BY <1>6, RequestTypes, ForgetTypes DEF WaitTakes, TypeOK
<1>7. CASE WaitTimesOut(r)
  BY <1>7, ForgetTypes DEF WaitTimesOut, TypeOK
<1>8. CASE WaitSleeps(r)
  BY <1>8 DEF WaitSleeps, TypeOK
<1>9. CASE Unregister(r)
  <2>1. pc' \in [Requests -> Steps]
    BY <1>9 DEF Unregister, TypeOK
  <2>2. /\ waiting' \in SUBSET Entries
        /\ byId' \in [StepIds -> Acks \cup {NoAck}]
        /\ notifiers' \in SUBSET (Requests \cup {"recv"})
    BY <1>9, ForgetTypes DEF Unregister, TypeOK
  <2> QED
    BY <1>9, <2>1, <2>2 DEF Unregister, TypeOK
<1> QED
  BY <1>1, <1>2, <1>3, <1>4, <1>5, <1>6, <1>7, <1>8, <1>9 DEF Work

LEMMA TypeRecv == ASSUME TypeOK, OnCommandAck PROVE TypeOK'
<1>1. Head(toGCS) \in Acks /\ toGCS' \in Seq(Acks)
  BY QueueTypes DEF OnCommandAck, TypeOK
<1>2. /\ waiting' \in SUBSET Entries
      /\ byId' \in [StepIds -> Acks \cup {NoAck}]
      /\ served' \in SUBSET Requests
  <2>1. CASE \E e \in Queue(Head(toGCS).cmd) :
                /\ waiting' = waiting \ {e}
                /\ byId' = [byId EXCEPT ![e.id] = Head(toGCS)]
                /\ served' = served \cup {e.owner}
    <3>1. PICK e \in waiting : /\ waiting' = waiting \ {e}
                               /\ byId' = [byId EXCEPT ![e.id] = Head(toGCS)]
                               /\ served' = served \cup {e.owner}
      BY <2>1 DEF Queue
    <3>2. e.id \in StepIds /\ e.owner \in Requests
      BY DEF TypeOK, Entries
    <3> QED
      BY <1>1, <3>1, <3>2 DEF TypeOK
  <2>2. CASE UNCHANGED <<waiting, byId, served>>
    BY <2>2 DEF TypeOK
  <2> QED
    BY <2>1, <2>2 DEF OnCommandAck, Deliver
<1> QED
  BY <1>1, <1>2 DEF OnCommandAck, TypeOK

LEMMA TypeLink ==
    ASSUME TypeOK, (\E ok \in BOOLEAN : FcAcks(ok)) \/ Lose
    PROVE  TypeOK'
<1>1. CASE \E ok \in BOOLEAN : FcAcks(ok)
  <2>1. PICK ok \in BOOLEAN : FcAcks(ok)
    BY <1>1
  <2>2. Head(toFC) \in [cmd : Commands, by : Requests]
    BY <2>1, QueueTypes DEF FcAcks, TypeOK
  <2>3. [cmd |-> Head(toFC).cmd, by |-> Head(toFC).by, accepted |-> ok] \in Acks
    BY <2>2 DEF Acks
  <2>4. toFC' \in Seq([cmd : Commands, by : Requests]) /\ toGCS' \in Seq(Acks)
    BY <2>1, <2>3, QueueTypes DEF FcAcks, TypeOK
  <2> QED
    BY <2>1, <2>4 DEF FcAcks, TypeOK, hub
<1>2. CASE Lose
  <2>1. toFC' \in Seq([cmd : Commands, by : Requests])
    BY <1>2, QueueTypes DEF Lose, TypeOK
  <2> QED
    BY <1>2, <2>1 DEF Lose, TypeOK, hub
<1> QED
  BY <1>1, <1>2

LEMMA TypeNext == TypeOK /\ [Next]_vars => TypeOK'
<1> SUFFICES ASSUME TypeOK, [Next]_vars PROVE TypeOK'
  OBVIOUS
<1>1. CASE UNCHANGED vars
  BY <1>1 DEF TypeOK, vars, hub, link
<1>2. CASE \E r \in Requests : Work(r)
  BY <1>2, TypeWork
<1>3. CASE \E r \in Requests : Expire(r)
  BY <1>3 DEF Expire, TypeOK, hub, link
<1>4. CASE \E n \in notifiers : NotifyAll(n)
  BY <1>4 DEF NotifyAll, TypeOK, hub, link
<1>5. CASE OnCommandAck
  BY <1>5, TypeRecv
<1>6. CASE (\E ok \in BOOLEAN : FcAcks(ok)) \/ Lose
  BY <1>6, TypeLink
<1> QED
  BY <1>1, <1>2, <1>3, <1>4, <1>5, <1>6 DEF Next

\* The type invariant, for any requests, whether or not they share step ids.
THEOREM TypeCorrect == Spec => []TypeOK
  BY TypeInit, TypeNext, PTL DEF Spec
-----------------------------------------------------------------------------
(* Wake-ups.  This invariant is inductive as it stands.                    *)

LEMMA WakeupNext == TypeOK /\ NoLostWakeup /\ [Next]_vars => NoLostWakeup'
<1> SUFFICES ASSUME TypeOK, NoLostWakeup, [Next]_vars PROVE NoLostWakeup'
  OBVIOUS
<1> USE DEF NoLostWakeup, hub, link
<1>1. CASE UNCHANGED vars
  BY <1>1 DEF vars
<1>2. ASSUME NEW r \in Requests, Work(r) PROVE NoLostWakeup'
  \* Sleep is only entered without a result; every other step forgets results,
  \* or leaves both as they are.
  <2>1. ASSUME byId' = Forget(StepOf[r]), asleep' = asleep, notifiers \subseteq notifiers'
        PROVE  NoLostWakeup'
    BY <2>1, RequestsAssumption DEF Forget, TypeOK
  <2>2. ASSUME byId' = byId, asleep' = asleep, notifiers' = notifiers
        PROVE  NoLostWakeup'
    BY <2>2
  <2>3. CASE Register(r)
    BY <2>1, <2>3 DEF Register
  <2>4. CASE SkipRegister(r) \/ Send(r) \/ SendFails(r) \/ EndSend(r)
    BY <2>2, <2>4 DEF SkipRegister, Send, SendFails, EndSend
  <2>5. CASE WaitTakes(r) \/ WaitTimesOut(r)
    BY <2>1, <2>5 DEF WaitTakes, WaitTimesOut
  <2>6. CASE WaitSleeps(r)
    BY <2>6 DEF WaitSleeps
  <2>7. CASE Unregister(r)
    BY <2>1, <2>7 DEF Unregister
  <2> QED
    BY <1>2, <2>3, <2>4, <2>5, <2>6, <2>7 DEF Work
<1>3. CASE \E r \in Requests : Expire(r)
  BY <1>3 DEF Expire
<1>4. CASE \E n \in notifiers : NotifyAll(n)
  BY <1>4 DEF NotifyAll
<1>5. CASE OnCommandAck
  BY <1>5 DEF OnCommandAck
<1>6. CASE \E ok \in BOOLEAN : FcAcks(ok)
  BY <1>6 DEF FcAcks
<1>7. CASE Lose
  BY <1>7 DEF Lose
<1> QED
  BY <1>1, <1>2, <1>3, <1>4, <1>5, <1>6, <1>7 DEF Next

\* No wake-up is lost (HubInner and its Condvar): whoever sleeps over a result
\* is still to be woken, also when requests share a step id.
THEOREM WakeupsAreKept == Spec => []NoLostWakeup
<1>1. Init => NoLostWakeup
  BY DEF Init, NoLostWakeup
<1> QED
  BY <1>1, WakeupNext, TypeCorrect, PTL DEF Spec
-----------------------------------------------------------------------------
(* With step ids of their own, the requests do not disturb each other.     *)

\* A request whose entry or result the hub may hold.
Open(r) == pc[r] \in {"send", "wait", "dropped"}

\* An entry belongs to an open request that has not been served, and is the
\* only one of that request.
EntriesOwned ==
    /\ \A e \in waiting : /\ e.id = StepOf[e.owner]
                          /\ e.cmd = Expects(e.owner)
                          /\ Open(e.owner)
                          /\ e.owner \notin served
    /\ \A e, f \in waiting : e.owner = f.owner => e = f

\* A result belongs to an open request that was served, and fits it.
ResultsOwned ==
    \A r \in Requests : byId[StepOf[r]] # NoAck =>
        /\ byId[StepOf[r]].cmd = Expects(r)
        /\ Open(r)
        /\ r \in served

\* What a request was served it still has when it comes to wait for it.
ServedKept ==
    \A r \in served : /\ pc[r] # "new"
                      /\ pc[r] \in {"send", "wait"} => byId[StepOf[r]] # NoAck

\* A timeout is the end, and only of a request that was never served.
TimeoutsTrue ==
    \A r \in Requests : outcome[r] = "timeout" =>
        pc[r] \in {"unregister", "done"} /\ r \notin served

HubInv == EntriesOwned /\ ResultsOwned /\ ServedKept /\ TimeoutsTrue /\ DecidedByOwnCommand

LEMMA HubInit == Init => HubInv
  BY RequestsAssumption
     DEF Init, HubInv, EntriesOwned, ResultsOwned, ServedKept, TimeoutsTrue,
         DecidedByOwnCommand

\* Without and Forget touch nothing of a request with another step id.
LEMMA OthersUntouched ==
    ASSUME UniqueIds, TypeOK, EntriesOwned, NEW r \in Requests
    PROVE  /\ Without(StepOf[r]) = {e \in waiting : e.owner # r}
           /\ \A s \in Requests : Forget(StepOf[r])[StepOf[s]] =
                                      IF s = r THEN NoAck ELSE byId[StepOf[s]]
<1>1. \A e \in waiting : e.id = StepOf[r] <=> e.owner = r
  BY DEF UniqueIds, TypeOK, EntriesOwned, Entries
<1>2. \A s \in Requests : StepOf[s] = StepOf[r] <=> s = r
  BY DEF UniqueIds
<1> QED
  BY <1>1, <1>2, RequestsAssumption DEF Without, Forget, TypeOK

\* No step of a worker breaks the ownership of entries and results.
LEMMA HubWork ==
    ASSUME UniqueIds, TypeOK, HubInv, NEW r \in Requests, Work(r)
    PROVE  HubInv'
<1> USE DEF GoTo, Open, hub, link
<1>0. Without(StepOf[r]) = {e \in waiting : e.owner # r}
  BY OthersUntouched DEF HubInv
<1>1. \A s \in Requests : Forget(StepOf[r])[StepOf[s]] =
                              IF s = r THEN NoAck ELSE byId[StepOf[s]]
  BY OthersUntouched DEF HubInv
<1>2. \A e \in waiting : e.owner \in Requests
  BY DEF TypeOK, Entries
<1>3. pc \in [Requests -> Steps] /\ outcome \in [Requests -> Outcomes]
  BY DEF TypeOK
<1>4. answer \in [Requests -> Acks \cup {NoAck}] /\ served \in SUBSET Requests
  BY DEF TypeOK
<1>  DEFINE Known(s) == \/ byId[StepOf[s]] # NoAck
                        \/ \E e \in waiting : e.owner = s
<1>14. \A s \in Requests : Known(s) => Waiter(s)
  BY TableTypes, RequestsAssumption, NoAckAssumption
     DEF HubInv, EntriesOwned, ResultsOwned, TypeOK, Entries, Acks, Waiter
<1>5. CASE Register(r)
  <2> DEFINE n == [id |-> StepOf[r], cmd |-> Expects(r), number |-> arrivals, owner |-> r]
  <2>1. waiting' = waiting \cup {n} /\ n.id = StepOf[r] /\ n.cmd = Expects(r)
                     /\ n.owner = r
    BY <1>5 DEF Register
  <2> HIDE DEF n
  <2>2. pc[r] = "new" /\ pc' = [pc EXCEPT ![r] = "send"]
    BY <1>5 DEF Register
  <2>3. \A e \in waiting : e.owner # r
    BY <2>2 DEF HubInv, EntriesOwned
  <2>4. r \notin served
    BY <2>2 DEF HubInv, ServedKept
  <2>5. EntriesOwned'
    BY <1>2, <1>3, <1>5, <2>1, <2>2, <2>3, <2>4 DEF Register, HubInv, EntriesOwned, Expects
  <2>6. ResultsOwned' /\ ServedKept' /\ TimeoutsTrue' /\ DecidedByOwnCommand'
    BY <1>1, <1>3, <1>4, <1>5, <2>2, <2>4
       DEF Register, HubInv, ResultsOwned, ServedKept, TimeoutsTrue,
           DecidedByOwnCommand, Expects
  <2> QED
    BY <2>5, <2>6 DEF HubInv
<1>6. CASE SkipRegister(r)
  <2>1. Expects(r) = NoCommand
    BY <1>6 DEF SkipRegister, Waiter
  <2> QED
    BY <1>2, <1>3, <1>4, <1>6, <2>1
       DEF SkipRegister, HubInv, EntriesOwned, ResultsOwned, ServedKept,
           TimeoutsTrue, DecidedByOwnCommand, Expects
<1>7. CASE Send(r)
  BY <1>2, <1>3, <1>4, <1>7
     DEF Send, HubInv, EntriesOwned, ResultsOwned, ServedKept, TimeoutsTrue,
         DecidedByOwnCommand, Expects
<1>8. CASE SendFails(r)
  <2>1. pc[r] = "send" /\ pc' = [pc EXCEPT ![r] = IF r \in Awaits THEN "dropped" ELSE "done"]
    BY <1>8 DEF SendFails
  <2>2. Known(r) => pc'[r] = "dropped"
    BY <1>3, <1>14, <2>1, RequestTypes
  <2>3. EntriesOwned' /\ ResultsOwned'
    BY <1>2, <1>3, <1>8, <2>1, <2>2
       DEF SendFails, HubInv, EntriesOwned, ResultsOwned, Expects
  <2>4. ServedKept' /\ TimeoutsTrue' /\ DecidedByOwnCommand'
    BY <1>3, <1>4, <1>8, <2>1
       DEF SendFails, HubInv, ServedKept, TimeoutsTrue, DecidedByOwnCommand, Expects
  <2> QED
    BY <2>3, <2>4 DEF HubInv
<1>9. CASE EndSend(r)
  <2>1. pc[r] = "send" /\ pc' = [pc EXCEPT ![r] = IF Waiter(r) THEN "wait" ELSE "done"]
    BY <1>9 DEF EndSend
  <2>2. Known(r) => pc'[r] = "wait"
    BY <1>3, <1>14, <2>1
  <2>3. PICK o : o # "timeout" /\ outcome' = [outcome EXCEPT ![r] = o]
    <3>1. \A w, a \in BOOLEAN : (CASE w -> "none"
                                   [] ~w /\ a -> "not_applicable"
                                   [] OTHER -> "sent") # "timeout"
      OBVIOUS
    <3> QED
      BY <1>9, <3>1 DEF EndSend, Waiter
  <2>4. UNCHANGED <<hub, answer, served>>
    BY <1>9 DEF EndSend
  <2>5. EntriesOwned' /\ ResultsOwned'
    BY <1>2, <1>3, <2>1, <2>2, <2>4 DEF HubInv, EntriesOwned, ResultsOwned, Expects
  <2>6. ServedKept' /\ TimeoutsTrue' /\ DecidedByOwnCommand'
    BY <1>3, <1>4, <2>1, <2>3, <2>4
       DEF HubInv, ServedKept, TimeoutsTrue, DecidedByOwnCommand, Expects
  <2> QED
    BY <2>5, <2>6 DEF HubInv
<1>10. CASE WaitTakes(r)
  <2>1. /\ pc[r] = "wait" /\ pc' = [pc EXCEPT ![r] = "unregister"]
        /\ r \in served /\ byId[StepOf[r]].cmd = Expects(r)
        /\ \A e \in waiting : e.owner # r
    BY <1>10 DEF WaitTakes, HubInv, ResultsOwned, EntriesOwned
  <2>2. EntriesOwned' /\ ServedKept' /\ TimeoutsTrue'
    BY <1>1, <1>2, <1>3, <1>4, <1>10, <2>1
       DEF WaitTakes, HubInv, EntriesOwned, ServedKept, TimeoutsTrue, Expects
  <2>3. ResultsOwned' /\ DecidedByOwnCommand'
    BY <1>1, <1>3, <1>4, <1>10, <2>1
       DEF WaitTakes, HubInv, ResultsOwned, DecidedByOwnCommand, Expects
  <2> QED
    BY <2>2, <2>3 DEF HubInv
<1>11. CASE WaitTimesOut(r)
  <2>1. /\ pc[r] = "wait" /\ pc' = [pc EXCEPT ![r] = "unregister"]
        /\ r \notin served
    BY <1>11 DEF WaitTimesOut, HubInv, ServedKept
  <2>2. EntriesOwned' /\ ServedKept' /\ TimeoutsTrue'
    BY <1>0, <1>1, <1>2, <1>3, <1>4, <1>11, <2>1
       DEF WaitTimesOut, HubInv, EntriesOwned, ServedKept, TimeoutsTrue, Expects
  <2>3. ResultsOwned' /\ DecidedByOwnCommand'
    BY <1>1, <1>3, <1>4, <1>11, <2>1
       DEF WaitTimesOut, HubInv, ResultsOwned, DecidedByOwnCommand, Expects
  <2> QED
    BY <2>2, <2>3 DEF HubInv
<1>12. CASE WaitSleeps(r)
  BY <1>2, <1>3, <1>4, <1>12
     DEF WaitSleeps, HubInv, EntriesOwned, ResultsOwned, ServedKept, TimeoutsTrue,
         DecidedByOwnCommand, Expects
<1>13. CASE Unregister(r)
  <2>1. pc[r] \in {"unregister", "dropped"} /\ pc' = [pc EXCEPT ![r] = "done"]
    BY <1>13 DEF Unregister
  <2>2. EntriesOwned' /\ ServedKept' /\ TimeoutsTrue'
    BY <1>0, <1>1, <1>2, <1>3, <1>4, <1>13, <2>1
       DEF Unregister, HubInv, EntriesOwned, ServedKept, TimeoutsTrue, Expects
  <2>3. ResultsOwned' /\ DecidedByOwnCommand'
    BY <1>1, <1>3, <1>4, <1>13, <2>1
       DEF Unregister, HubInv, ResultsOwned, DecidedByOwnCommand, Expects
  <2> QED
    BY <2>2, <2>3 DEF HubInv
<1> QED
  BY <1>5, <1>6, <1>7, <1>8, <1>9, <1>10, <1>11, <1>12, <1>13 DEF Work

\* An ACK goes to the only entry of an open request of the same command.
LEMMA HubRecv ==
    ASSUME UniqueIds, TypeOK, HubInv, OnCommandAck
    PROVE  HubInv'
<1> USE DEF Open, link
<1> DEFINE ack == Head(toGCS)
<1>1. ack \in Acks
  BY QueueTypes DEF OnCommandAck, TypeOK
<1>2. CASE UNCHANGED <<waiting, byId, served>>
  BY <1>2 DEF OnCommandAck, HubInv, EntriesOwned, ResultsOwned, ServedKept,
              TimeoutsTrue, DecidedByOwnCommand, Expects
<1>3. CASE \E e \in Queue(ack.cmd) : /\ waiting' = waiting \ {e}
                                     /\ byId' = [byId EXCEPT ![e.id] = ack]
                                     /\ served' = served \cup {e.owner}
  <2>1. PICK e \in waiting : /\ e.cmd = ack.cmd
                             /\ waiting' = waiting \ {e}
                             /\ byId' = [byId EXCEPT ![e.id] = ack]
                             /\ served' = served \cup {e.owner}
    BY <1>3 DEF Queue
  <2>2. e.owner \in Requests /\ e.id = StepOf[e.owner] /\ ack.cmd = Expects(e.owner)
           /\ Open(e.owner)
    BY <2>1 DEF TypeOK, Entries, HubInv, EntriesOwned
  <2>3. \A s \in Requests : byId'[StepOf[s]] = IF s = e.owner THEN ack
                                                               ELSE byId[StepOf[s]]
    BY <2>1, <2>2, RequestsAssumption DEF UniqueIds, TypeOK
  <2>4. UNCHANGED <<pc, outcome, answer>>
    BY DEF OnCommandAck
  <2>5. EntriesOwned'
    BY <2>1, <2>2, <2>4 DEF HubInv, EntriesOwned, Expects
  <2>6. ResultsOwned'
    BY <2>1, <2>2, <2>3, <2>4 DEF HubInv, ResultsOwned, Expects
  <2>7. ServedKept' /\ DecidedByOwnCommand'
    BY <1>1, <2>1, <2>2, <2>3, <2>4, NoAckAssumption
       DEF HubInv, ServedKept, DecidedByOwnCommand, Expects, TypeOK
  <2>8. TimeoutsTrue'
    BY <2>1, <2>2, <2>4 DEF HubInv, TimeoutsTrue
  <2> QED
    BY <2>4, <2>5, <2>6, <2>7, <2>8 DEF HubInv
<1> QED
  BY <1>2, <1>3 DEF OnCommandAck, Deliver

LEMMA HubNext == UniqueIds /\ TypeOK /\ HubInv /\ [Next]_vars => HubInv'
<1> SUFFICES ASSUME UniqueIds, TypeOK, HubInv, [Next]_vars PROVE HubInv'
  OBVIOUS
<1> USE DEF Open, hub, link
<1>1. CASE \E r \in Requests : Work(r)
  BY <1>1, HubWork
<1>2. CASE OnCommandAck
  BY <1>2, HubRecv
<1>3. ASSUME UNCHANGED <<pc, hub, outcome, answer, served>> PROVE HubInv'
  BY <1>3 DEF HubInv, EntriesOwned, ResultsOwned, ServedKept, TimeoutsTrue,
              DecidedByOwnCommand, Expects
<1>4. CASE UNCHANGED vars
  BY <1>3, <1>4 DEF vars
<1>5. CASE \E r \in Requests : Expire(r)
  BY <1>3, <1>5 DEF Expire
<1>6. CASE \E n \in notifiers : NotifyAll(n)
  BY <1>3, <1>6 DEF NotifyAll
<1>7. CASE (\E ok \in BOOLEAN : FcAcks(ok)) \/ Lose
  BY <1>3, <1>7 DEF FcAcks, Lose
<1> QED
  BY <1>1, <1>2, <1>4, <1>5, <1>6, <1>7 DEF Next

LEMMA HubAlways == ASSUME UniqueIds PROVE Spec => [](TypeOK /\ HubInv)
<1>1. TypeOK /\ HubInv /\ [Next]_vars => (TypeOK /\ HubInv)'
  BY TypeNext, HubNext
<1> QED
  BY <1>1, TypeInit, HubInit, PTL DEF Spec

\* With unique step ids, a request is only ever decided by an ACK of its own
\* command (CommandCompletionHub::on_command_ack).
THEOREM DecisionsFit == ASSUME UniqueIds PROVE Spec => []DecidedByOwnCommand
<1>1. HubInv => DecidedByOwnCommand
  BY DEF HubInv
<1> QED
  BY <1>1, HubAlways, PTL

\* With unique step ids, a request that reports a timeout was given no ACK
\* (CommandCompletionHub::wait looks at the result before the deadline).
THEOREM ResultsAreKept == ASSUME UniqueIds PROVE Spec => []NoLostResult
<1>1. HubInv => NoLostResult
  BY DEF HubInv, TimeoutsTrue, NoLostResult
<1> QED
  BY <1>1, HubAlways, PTL

\* With unique step ids, a request that has answered has left the hub
\* (CommandCompletionHub::unregister, or nothing registered to begin with).
THEOREM HubIsLeftClean == ASSUME UniqueIds PROVE Spec => []NothingLeftBehind
<1>1. TypeOK /\ HubInv => NothingLeftBehind
  <2> SUFFICES ASSUME TypeOK, HubInv, NEW r \in Requests, pc[r] = "done"
               PROVE  /\ byId[StepOf[r]] = NoAck
                      /\ \A e \in waiting : e.id # StepOf[r]
    BY DEF NothingLeftBehind
  <2>1. byId[StepOf[r]] = NoAck
    BY DEF HubInv, ResultsOwned, Open
  <2>2. ASSUME NEW e \in waiting PROVE e.id # StepOf[r]
    <3>1. e.owner \in Requests /\ e.id = StepOf[e.owner] /\ Open(e.owner)
      BY DEF TypeOK, Entries, HubInv, EntriesOwned
    <3> QED
      BY <3>1 DEF Open, UniqueIds
  <2> QED
    BY <2>1, <2>2
<1> QED
  BY <1>1, HubAlways, PTL
-----------------------------------------------------------------------------
(* The hub and the workers implement what the clients are promised.        *)

\* A request has an outcome exactly from the end of its wait, or its dispatch,
\* on, and no ACK decided it before.
OutcomesTimely ==
    \A r \in Requests :
        /\ outcome[r] = "none" <=> pc[r] \in {"new", "send", "wait"}
        /\ outcome[r] = "none" => answer[r] = NoAck
        /\ pc[r] = "wait" => Waiter(r)

\* An outcome is recorded exactly from the end of a wait or a dispatch on.
LEMMA OutcomesNext ==
    ASSUME TypeOK, OutcomesTimely, [Next]_vars
    PROVE  OutcomesTimely'
<1>1. /\ pc \in [Requests -> Steps] /\ outcome \in [Requests -> Outcomes]
      /\ answer \in [Requests -> Acks \cup {NoAck}]
  BY DEF TypeOK
<1>2. ASSUME NEW r \in Requests, Work(r) PROVE OutcomesTimely'
  <2> USE DEF OutcomesTimely, GoTo
  <2>1. CASE Register(r)
    BY <1>1, <2>1 DEF Register
  <2>2. CASE SkipRegister(r)
    BY <1>1, <2>2 DEF SkipRegister
  <2>3. CASE Send(r)
    BY <1>1, <2>3 DEF Send
  <2>4. CASE SendFails(r)
    <3>1. pc'[r] \in {"dropped", "done"} /\ outcome'[r] = "dispatch_failed"
      BY <1>1, <2>4, RequestTypes DEF SendFails
    <3> QED
      BY <1>1, <2>4, <3>1 DEF SendFails
  <2>5. CASE EndSend(r)
    <3>1. CASE Waiter(r)
      BY <1>1, <2>5, <3>1 DEF EndSend
    <3>2. CASE ~Waiter(r)
      <4>1. pc' = [pc EXCEPT ![r] = "done"] /\ pc[r] = "send"
        BY <2>5, <3>2 DEF EndSend
      <4>2. \/ outcome' = [outcome EXCEPT ![r] = "not_applicable"]
            \/ outcome' = [outcome EXCEPT ![r] = "sent"]
        BY <2>5, <3>2 DEF EndSend
      <4> QED
        BY <1>1, <2>5, <4>1, <4>2 DEF EndSend
    <3> QED
      BY <3>1, <3>2
  <2>6. CASE WaitTakes(r)
    BY <1>1, <2>6 DEF WaitTakes
  <2>7. CASE WaitTimesOut(r)
    BY <1>1, <2>7 DEF WaitTimesOut
  <2>8. CASE WaitSleeps(r)
    BY <1>1, <2>8 DEF WaitSleeps
  <2>9. CASE Unregister(r)
    BY <1>1, <2>9 DEF Unregister
  <2> QED
    BY <1>2, <2>1, <2>2, <2>3, <2>4, <2>5, <2>6, <2>7, <2>8, <2>9 DEF Work
<1>3. CASE UNCHANGED <<pc, outcome, answer>>
  BY <1>3 DEF OutcomesTimely
<1>4. (\E r \in Requests : Work(r)) \/ UNCHANGED <<pc, outcome, answer>>
  BY DEF Next, vars, Expire, NotifyAll, OnCommandAck, FcAcks, Lose
<1> QED
  BY <1>2, <1>3, <1>4

\* A step of one request changes nothing of what the others were given.
LEMMA OthersGiven ==
    ASSUME UniqueIds, TypeOK, NEW r \in Requests,
           \A s \in Requests \ {r} : outcome'[s] = outcome[s] /\ answer'[s] = answer[s],
           byId' = byId \/ byId' = Forget(StepOf[r])
    PROVE  \A s \in Requests \ {r} : Given'[s] = Given[s]
<1>1. \A s \in Requests \ {r} : StepOf[s] \in StepIds /\ StepOf[s] # StepOf[r]
  BY RequestsAssumption DEF UniqueIds
<1>2. \A s \in Requests \ {r} : byId'[StepOf[s]] = byId[StepOf[s]]
  BY <1>1 DEF Forget, TypeOK
<1> QED
  BY <1>2 DEF Given

\* With that, what a step does to its own request is all it does.
LEMMA GivenFunction ==
    ASSUME NEW r \in Requests,
           \A s \in Requests \ {r} : Given'[s] = Given[s]
    PROVE  Given' = [Given EXCEPT ![r] = Given'[r]]
  BY DEF Given

\* A step of a worker is one step of AckedRequests or none.
LEMMA ClientWork ==
    ASSUME UniqueIds, TypeOK, HubInv, OutcomesTimely, NEW r \in Requests, Work(r)
    PROVE  Client!Next \/ UNCHANGED <<Given, outcome>>
<1>1. /\ pc \in [Requests -> Steps] /\ outcome \in [Requests -> Outcomes]
      /\ answer \in [Requests -> Acks \cup {NoAck}]
      /\ byId \in [StepIds -> Acks \cup {NoAck}]
      /\ StepOf[r] \in StepIds
  BY RequestsAssumption DEF TypeOK
<1>2. \A s \in Requests \ {r} : outcome'[s] = outcome[s] /\ answer'[s] = answer[s]
  BY <1>1 DEF Work, Register, SkipRegister, Send, SendFails, EndSend, WaitTakes,
              WaitTimesOut, WaitSleeps, Unregister
<1>3. byId' = byId \/ byId' = Forget(StepOf[r])
  BY DEF Work, Register, SkipRegister, Send, SendFails, EndSend, WaitTakes, WaitTimesOut,
         WaitSleeps, Unregister, hub
<1>4. \A s \in Requests \ {r} : Given'[s] = Given[s]
  BY <1>2, <1>3, OthersGiven
<1>5. byId' = Forget(StepOf[r]) => byId'[StepOf[r]] = NoAck
  BY <1>1 DEF Forget
<1>6. Given[r] = IF outcome[r] = "none" THEN byId[StepOf[r]] ELSE answer[r]
  BY DEF Given
<1>7. Given'[r] = IF outcome'[r] = "none" THEN byId'[StepOf[r]] ELSE answer'[r]
  BY DEF Given
<1>8. ASSUME Given'[r] = Given[r] PROVE Given' = Given
  BY <1>4, <1>8 DEF Given
<1>9. CASE UNCHANGED <<outcome, answer>> /\ pc[r] \in {"new", "send", "wait", "unregister", "dropped"}
           /\ (byId'[StepOf[r]] = byId[StepOf[r]] \/ outcome[r] # "none")
  BY <1>6, <1>7, <1>8, <1>9
<1>10. CASE Register(r)
  <2>1. byId[StepOf[r]] = NoAck
    BY <1>10 DEF Register, GoTo, HubInv, ResultsOwned, Open
  <2> QED
    BY <1>5, <1>9, <1>10, <2>1 DEF Register, GoTo
<1>11. CASE SkipRegister(r) \/ Send(r) \/ WaitSleeps(r)
  BY <1>9, <1>11 DEF SkipRegister, Send, WaitSleeps, GoTo, hub
<1>12. CASE Unregister(r)
  <2>1. outcome[r] # "none"
    BY <1>12 DEF Unregister, GoTo, OutcomesTimely
  <2> QED
    BY <1>9, <1>12, <2>1 DEF Unregister, GoTo
<1>13. CASE SendFails(r)
  <2>1. outcome[r] = "none" /\ answer[r] = NoAck
    BY <1>13 DEF SendFails, GoTo, OutcomesTimely
  <2>2. outcome' = [outcome EXCEPT ![r] = "dispatch_failed"] /\ answer' = answer
    BY <1>13 DEF SendFails
  <2>3. Given' = [Given EXCEPT ![r] = NoAck]
    <3>1. Given'[r] = NoAck
      BY <1>1, <1>7, <2>1, <2>2
    <3> QED
      BY <1>4, <3>1, GivenFunction
  <2>4. Client!Fail(r)
    BY <2>1, <2>2, <2>3 DEF Client!Fail, Client!Answers
  <2> QED
    BY <2>4 DEF Client!Next
<1>14. CASE EndSend(r)
  <2>1. outcome[r] = "none" /\ answer[r] = NoAck
    BY <1>14 DEF EndSend, GoTo, OutcomesTimely
  <2>2. CASE Waiter(r)
    <3>1. outcome' = [outcome EXCEPT ![r] = "none"]
      BY <1>14, <2>2 DEF EndSend
    <3>2. outcome' = outcome
      BY <1>1, <2>1, <3>1
    <3> QED
      BY <1>9, <1>14, <3>2 DEF EndSend, GoTo, hub
  <2>3. CASE ~Waiter(r)
    <3>1. \/ outcome' = [outcome EXCEPT ![r] = "not_applicable"]
          \/ outcome' = [outcome EXCEPT ![r] = "sent"]
      BY <1>14, <2>3 DEF EndSend
    <3>2. byId[StepOf[r]] = NoAck
      BY <2>3, TableTypes, RequestsAssumption, NoAckAssumption, <1>1
         DEF HubInv, ResultsOwned, Waiter, Acks
    <3>3. Given' = Given
      BY <1>1, <1>6, <1>7, <1>8, <1>14, <2>1, <3>1, <3>2 DEF EndSend
    <3>4. Client!EndUnawaited(r)
      BY <2>1, <2>3, <3>1, <3>3 DEF Client!EndUnawaited, Client!Answers
    <3> QED
      BY <3>4 DEF Client!Next
  <2> QED
    BY <2>2, <2>3
<1>15. CASE WaitTakes(r)
  <2>1. outcome[r] = "none" /\ byId[StepOf[r]] # NoAck
    BY <1>15 DEF WaitTakes, GoTo, OutcomesTimely
  <2>2. /\ answer' = [answer EXCEPT ![r] = byId[StepOf[r]]]
        /\ outcome' = [outcome EXCEPT ![r] = IF byId[StepOf[r]].accepted THEN "acked"
                                                                        ELSE "rejected"]
    BY <1>15 DEF WaitTakes
  <2>3. outcome'[r] # "none" /\ answer'[r] = byId[StepOf[r]]
    BY <1>1, <2>2
  <2>4. Given' = Given
    BY <1>6, <1>7, <1>8, <2>1, <2>3
  <2>5. Client!Decide(r)
    BY <1>6, <2>1, <2>2, <2>4 DEF Client!Decide, Client!Answers
  <2> QED
    BY <2>5 DEF Client!Next
<1>16. CASE WaitTimesOut(r)
  <2>1. outcome[r] = "none" /\ answer[r] = NoAck /\ byId[StepOf[r]] = NoAck
    BY <1>16 DEF WaitTimesOut, GoTo, OutcomesTimely
  <2>2. outcome' = [outcome EXCEPT ![r] = "timeout"] /\ answer' = answer
    BY <1>16 DEF WaitTimesOut
  <2>3. Given' = Given
    BY <1>1, <1>6, <1>7, <1>8, <2>1, <2>2
  <2>4. Waiter(r)
    BY <1>16 DEF WaitTimesOut, GoTo, OutcomesTimely
  <2>5. Client!TimeOut(r)
    BY <1>6, <2>1, <2>2, <2>3, <2>4 DEF Client!TimeOut, Client!Answers
  <2> QED
    BY <2>5 DEF Client!Next
<1> QED
  BY <1>10, <1>11, <1>12, <1>13, <1>14, <1>15, <1>16 DEF Work

\* An ACK that finds an entry is an ACK given in AckedRequests, any other none.
LEMMA ClientRecv ==
    ASSUME UniqueIds, TypeOK, HubInv, OutcomesTimely, OnCommandAck
    PROVE  Client!Next \/ UNCHANGED <<Given, outcome>>
<1> DEFINE ack == Head(toGCS)
<1>1. ack \in Acks
  BY QueueTypes DEF OnCommandAck, TypeOK
<1>2. UNCHANGED <<pc, outcome, answer>>
  BY DEF OnCommandAck
<1>3. CASE UNCHANGED <<waiting, byId, served>>
  BY <1>2, <1>3 DEF Given
<1>4. ASSUME NEW e \in Queue(ack.cmd), byId' = [byId EXCEPT ![e.id] = ack]
      PROVE  Client!Next \/ UNCHANGED <<Given, outcome>>
  <2> DEFINE r == e.owner
  <2>1. /\ r \in Requests /\ e.id = StepOf[r] /\ ack.cmd = Expects(r)
        /\ r \notin served
    BY DEF Queue, TypeOK, Entries, HubInv, EntriesOwned
  <2>2. \A s \in Requests : byId'[StepOf[s]] = IF s = r THEN ack ELSE byId[StepOf[s]]
    BY <1>4, <2>1, RequestsAssumption DEF UniqueIds, TypeOK
  <2>3. byId[StepOf[r]] = NoAck
    BY <2>1 DEF HubInv, ResultsOwned
  <2> HIDE DEF ack, r
  <2>4. \A s \in Requests \ {r} : Given'[s] = Given[s]
    BY <1>2, <2>2 DEF Given
  <2>5. CASE outcome[r] # "none"
    BY <1>2, <2>1, <2>4, <2>5 DEF Given
  <2>6. CASE outcome[r] = "none"
    <3>1. Given[r] = NoAck /\ Given'[r] = ack
      BY <1>2, <2>1, <2>2, <2>3, <2>6 DEF Given
    <3>2. Given' = [Given EXCEPT ![r] = ack]
      BY <2>1, <2>4, <3>1, GivenFunction
    <3>3. Waiter(r)
      BY <1>1, <2>1, TableTypes DEF Waiter, Acks
    <3>4. ack \in [q \in Requests |-> {a \in Acks : a.cmd = Expects(q)}][r]
      BY <1>1, <2>1
    <3>5. Client!Give(r)
      BY <1>2, <2>1, <2>6, <3>1, <3>2, <3>3, <3>4 DEF Client!Give
    <3> QED
      BY <2>1, <3>5 DEF Client!Next
  <2> QED
    BY <2>5, <2>6
<1> QED
  BY <1>3, <1>4 DEF OnCommandAck, Deliver

LEMMA ClientNext ==
    ASSUME UniqueIds, TypeOK, HubInv, OutcomesTimely, [Next]_vars
    PROVE  [Client!Next]_(Client!vars)
<1>1. CASE \E r \in Requests : Work(r)
  BY <1>1, ClientWork DEF Client!vars
<1>2. CASE OnCommandAck
  BY <1>2, ClientRecv DEF Client!vars
<1>3. CASE UNCHANGED <<byId, outcome, answer>>
  BY <1>3 DEF Given, Client!vars
<1>4. \/ \E r \in Requests : Work(r)
      \/ OnCommandAck
      \/ UNCHANGED <<byId, outcome, answer>>
  BY DEF Next, vars, hub, Expire, NotifyAll, FcAcks, Lose
<1> QED
  BY <1>1, <1>2, <1>3, <1>4

LEMMA ClientInit == ASSUME Init PROVE Client!Init
  BY RequestsAssumption DEF Init, Client!Init, Given

\* With unique step ids the hub and the workers implement what the clients are
\* promised (CommandCompletionHub, post_apply_tool).
THEOREM ServesClients == ASSUME UniqueIds PROVE Spec => ClientsAreServed
<1>1. Init => OutcomesTimely
  BY DEF Init, OutcomesTimely
<1>2. TypeOK /\ OutcomesTimely /\ [Next]_vars => OutcomesTimely'
  BY OutcomesNext
<1>3. Spec => []OutcomesTimely
  BY <1>1, <1>2, TypeCorrect, PTL DEF Spec
<1>4. TypeOK /\ HubInv /\ OutcomesTimely /\ [Next]_vars => [Client!Next]_(Client!vars)
  BY ClientNext
<1>5. Init => Client!Init
  BY ClientInit
<1> QED
  BY <1>3, <1>4, <1>5, HubAlways, PTL DEF Spec, ClientsAreServed, Client!Spec
=============================================================================
