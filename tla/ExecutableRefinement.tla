------------------------ MODULE ExecutableRefinement ------------------------
(***************************************************************************)
(* The loop of Executable keeps the promise of Request; and what it does   *)
(* about nodes that are busy or penalised, told by an observer of requests. *)
(***************************************************************************)
EXTENDS Executable, Functions

(* The answer a request has last seen, in the promise's words.             *)
VerdictOf(r) ==
    LET status == DetermineStatus(Kind[r], reply[r].response)
    IN IF reply[r].grpc = NoAnswer THEN "none"
       ELSE IF reply[r].grpc \in NodeUnusable THEN "again"
       ELSE CASE status = "SUCCESS"       -> "accepted"
              [] status = "REQUEST_ERROR" -> "rejected"
              [] OTHER                    -> "again"

PhaseOf(r) == CASE pc[r] = "start" -> "idle"
                [] pc[r] = "call"  -> "waiting"
                [] pc[r] = "done"  -> "ended"
                [] OTHER           -> "ready"

(* attempt counts the attempts that are over; the current one is used up once the call starts or   *)
(* the connection has failed.                                                                      *)
TriesOf(r) ==
    IF pc[r] \in {"call", "penalize", "reward", "waitForRetry"}
       \/ outcome[r] \in {"success", "PrecheckStatus", "ResponseThrew"}
    THEN attempt[r] + 1 ELSE attempt[r]

Promise == INSTANCE Request WITH
    phase   <- [r \in Requests |-> PhaseOf(r)],
    tries   <- [r \in Requests |-> TriesOf(r)],
    verdict <- [r \in Requests |-> VerdictOf(r)],
    result  <- [r \in Requests |-> IF outcome[r] = NoAnswer THEN "none" ELSE outcome[r]]

(* Every step of the loop is a step of Request, or changes nothing that Request speaks of: no call *)
(* follows the answer that settles the request, and every ending is the one that answer calls for. *)
KeepsPromise == Promise!PromiseSpec

-----------------------------------------------------------------------------
(* The observer remembers, for each request, the nodes whose last answer was BUSY, and forgets      *)
(* them when the request backs off after a server error.  It also remembers whether the node a      *)
(* request has chosen was penalised for another request since this one asked for its health.        *)
VARIABLES busyNodes, overtaken

observerVars == <<busyNodes, overtaken>>

ObserverInit ==
    /\ busyNodes = [r \in Requests |-> {}]
    /\ overtaken = [r \in Requests |-> FALSE]

Heard(r) == IF reply[r].response.precheck # "BUSY" THEN busyNodes[r] \ {NodeOf(r)}
            ELSE IF pc'[r] = "waitForRetry" THEN {}
            ELSE busyNodes[r] \cup {NodeOf(r)}

Chosen == {"waitForNode", "connect", "connecting", "submit"}

PenalisedByAnother(r) ==
    \E q \in Requests \ {r} : pc[q] = "penalize" /\ pc'[q] # "penalize" /\ NodeOf(q) = NodeOf(r)

ObserverNext ==
    /\ busyNodes' = [r \in Requests |->
                        IF pc[r] = "reward" /\ pc'[r] # "reward" THEN Heard(r) ELSE busyNodes[r]]
    /\ overtaken' = [r \in Requests |->
                        pc'[r] \in Chosen /\ (overtaken[r] \/ PenalisedByAnother(r))]

ObservedInit == Init /\ ObserverInit

ObservedSpec == ObservedInit /\ [][Next /\ ObserverNext]_<<vars, observerVars>>

ObservedFairSpec == ObservedSpec /\ Fairness

(* Executable.cc: "If all nodes have returned a BUSY signal, backoff".  Once every node of the list *)
(* has answered BUSY, the request does not go on to its next attempt without having slept.         *)
AllBusyBacksOff ==
    \A r \in Requests : pc[r] # "done" => ~(Range(nodeList[r]) \subseteq busyNodes[r])

(* And it sleeps after a server error for no other reason.                                         *)
BacksOffOnlyWhenAllBusy ==
    [][\A r \in Requests :
          /\ pc[r] = "reward" /\ pc'[r] = "waitForRetry"
          /\ reply[r].response.precheck \in ServerErrors
          => Range(nodeList[r]) \subseteq busyNodes[r] \cup {NodeOf(r)}]_<<vars, observerVars>>

(* impl/BaseNode.h calls a node's backoff "the minimum amount of time to wait to use this BaseNode  *)
(* after it has received a bad gRPC status".  The health check, the sleep, the connection and the   *)
(* call are separate steps, and the mutex is let go between them: a call starts at a node before    *)
(* its readmit time only when another request had the node penalised after this one's check.        *)
BackoffRespected ==
    [][\A r \in Requests :
          pc[r] = "submit" /\ pc'[r] = "call" => readmitIn[NodeOf(r)] <= 0 \/ overtaken[r]]_<<vars, observerVars>>

=============================================================================
