---------------------------- MODULE AckedRequests ----------------------------
(***************************************************************************)
(* What the clients of POST /apply-tool are promised, without step ids,    *)
(* queues, locks or deadlines: a request that awaits a command is given at *)
(* most one ACK, one that fits it and that nothing takes away or replaces, *)
(* and answers once, as its ACK says.  It reports a timeout only if it was *)
(* given none; only a dispatch that failed passes over an ACK.             *)
(* CommandCompletion implements this specification.                        *)
(***************************************************************************)
CONSTANTS Requests, \* POST /apply-tool requests
          Waiters,  \* those that wait for an ACK
          AcksFor,  \* the ACKs that fit each request
          NoAck     \* no ACK

VARIABLES given,   \* the ACK each request was given
          outcome  \* the completion_status each request answers with

vars == <<given, outcome>>

Init == /\ given = [r \in Requests |-> NoAck]
        /\ outcome = [r \in Requests |-> "none"]

Answers(r, o) == /\ outcome[r] = "none"
                 /\ outcome' = [outcome EXCEPT ![r] = o]

Give(r) == /\ r \in Waiters
           /\ outcome[r] = "none"
           /\ given[r] = NoAck
           /\ \E ack \in AcksFor[r] : given' = [given EXCEPT ![r] = ack]
           /\ UNCHANGED outcome

Decide(r) == /\ given[r] # NoAck
             /\ Answers(r, IF given[r].accepted THEN "acked" ELSE "rejected")
             /\ UNCHANGED given

TimeOut(r) == /\ r \in Waiters
              /\ given[r] = NoAck
              /\ Answers(r, "timeout")
              /\ UNCHANGED given

EndUnawaited(r) == /\ r \notin Waiters
                   /\ \/ Answers(r, "sent")
                      \/ Answers(r, "not_applicable")
                   /\ UNCHANGED given

Fail(r) == /\ Answers(r, "dispatch_failed")
           /\ given' = [given EXCEPT ![r] = NoAck]

Next == \E r \in Requests :
            Give(r) \/ Decide(r) \/ TimeOut(r) \/ EndUnawaited(r) \/ Fail(r)

Spec == Init /\ [][Next]_vars
=============================================================================
