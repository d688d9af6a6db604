----------------------------- MODULE Executable -----------------------------
(***************************************************************************)
(* Executable::execute, the loop behind every query and every transaction, *)
(* run by several threads over nodes they share: choose a node, wait until  *)
(* it may be used, connect, submit, and then retry, give up or return.      *)
(* Each thread is named after the request it executes; its program counter  *)
(* stands between two accesses to a node, a sleep, or a blocking call.      *)
(***************************************************************************)
EXTENDS BaseNode, Sequences, FiniteSets

CONSTANTS
    NodeLists,      \* the vectors getNodesFromNodeAccountIds may return
    Kind,           \* the class of each request
    GrpcCodes,      \* the gRPC status codes a call may end with
    Replies,        \* the responses a node may send
    MaxAttempts,    \* mCurrentMaxAttempts
    MinBackoff,     \* mCurrentMinBackoff
    MaxBackoff,     \* mCurrentMaxBackoff
    GrpcDeadline,   \* mCurrentGrpcDeadline
    RequestTimeout, \* the timeout argument of execute
    ConnectTimeout, \* GET_STATE_TIMEOUT
    RegenerateTransactionId, \* the policy for an expired transaction
    Reconfigurable  \* may the client's TLS policy change, or the client be closed, meanwhile?

Requests == Threads

ASSUME RequestAssumption ==
    /\ NodeLists \subseteq Seq(Nodes) \ {<<>>}
    /\ Kind \in [Requests -> {"transaction", "query", "receiptQuery"}]
    /\ MaxAttempts \in Nat
    /\ MinBackoff \in Nat /\ MaxBackoff \in Nat
    /\ GrpcDeadline \in Nat /\ RequestTimeout \in Nat /\ ConnectTimeout \in Nat
    /\ RegenerateTransactionId \in BOOLEAN /\ Reconfigurable \in BOOLEAN
    /\ GrpcCodes \subseteq STRING
    /\ Replies \subseteq [precheck : STRING, receipt : STRING]

VARIABLES
    pc,           \* where each thread is
    nodeList,     \* nodes
    attempt,      \* attempt
    scan,         \* getNodeIndexForExecute: i, candidateNodeIndex and candidateDelay
    nodeIndex,    \* nodeIndex
    backoff,      \* mCurrentBackoff
    timeLeft,     \* timeoutTime, relative to now
    attemptLeft,  \* attemptTimeout, relative to now
    timer,        \* what is left of the sleep or of the wait for the channel
    nodeResponses, \* nodeResponses
    reply,        \* status and response of the last call
    outcome       \* how execute ended

requestVars == <<pc, nodeList, attempt, scan, nodeIndex, backoff, timeLeft, attemptLeft, timer,
                 nodeResponses, reply, outcome>>
vars == <<nodeVars, requestVars>>

-----------------------------------------------------------------------------
NoAnswer == "no answer"

(* No status code of gRPC is the mark for a request that was not answered yet.                      *)
ASSUME AnswerAssumption == NoAnswer \notin GrpcCodes

NoScan == [at |-> 1, best |-> 1, delay |-> -1]
ScanFrom(i) == [at |-> i, best |-> 0, delay |-> 0]

(* A response nobody filled in: every protobuf enumeration starts at OK.                           *)
EmptyResponse == [precheck |-> "OK", receipt |-> "OK"]
NoReply == [grpc |-> NoAnswer, response |-> EmptyResponse]

NodeUnusable == {"UNAVAILABLE", "RESOURCE_EXHAUSTED", "INTERNAL"}
ServerErrors == {"PLATFORM_TRANSACTION_NOT_CREATED", "PLATFORM_NOT_ACTIVE", "BUSY"}
NotReady == {"UNKNOWN", "RECEIPT_NOT_FOUND", "RECORD_NOT_FOUND"}

(* A status code of a later version of the network: looking it up throws.                          *)
Unrecognized == "UNRECOGNIZED"

(* Executable::determineStatus and its overrides in Transaction and TransactionReceiptQuery.       *)
BaseStatus(status) ==
    CASE status \in ServerErrors -> "SERVER_ERROR"
      [] status = "OK"           -> "SUCCESS"
      [] OTHER                   -> "REQUEST_ERROR"

TransactionStatus(status) ==
    IF status # "TRANSACTION_EXPIRED" THEN BaseStatus(status)
    ELSE IF RegenerateTransactionId THEN "RETRY" ELSE "REQUEST_ERROR"

(* Mutant: a receipt whose status is the default one counts as a receipt.                          *)
ReceiptStatusTakingDefault(response) ==
    CASE BaseStatus(response.precheck) = "SERVER_ERROR" -> "SERVER_ERROR"
      [] response.precheck \in NotReady -> "RETRY"
      [] response.precheck = "OK" ->
            IF response.receipt = Unrecognized THEN "UNREADABLE" ELSE
            IF response.receipt \in NotReady \cup {"BUSY"} THEN "RETRY" ELSE "SUCCESS"
      [] OTHER -> "REQUEST_ERROR"

ReceiptStatus(response) ==
    CASE BaseStatus(response.precheck) = "SERVER_ERROR" -> "SERVER_ERROR"
      [] response.precheck \in NotReady -> "RETRY"
      [] response.precheck = "OK" ->
            IF response.receipt = Unrecognized THEN "UNREADABLE" ELSE
            IF response.receipt \in NotReady \cup {"BUSY", "OK"} THEN "RETRY" ELSE "SUCCESS"
      [] OTHER -> "REQUEST_ERROR"

DetermineStatus(kind, response) ==
    IF response.precheck = Unrecognized THEN "UNREADABLE"
    ELSE CASE kind = "transaction"  -> TransactionStatus(response.precheck)
           [] kind = "receiptQuery" -> ReceiptStatus(response)
           [] OTHER                 -> BaseStatus(response.precheck)

(* What is done about a response throws when its status is not known, when it is a result that     *)
(* mapResponse cannot read, and when a transaction that expired cannot be signed again.             *)
MayThrow(kind, status) ==
    status \in {"SUCCESS", "UNREADABLE"} \/ (status = "RETRY" /\ kind = "transaction")

NodeOf(r) == nodeList[r][nodeIndex[r]]

(* Every node of the list has answered, and the last answer of each was BUSY.  nodeResponses is a  *)
(* map, so its size counts different nodes, where nodes.size() counts positions of the list.       *)
Answered(responses) == {n \in Nodes : responses[n] # NoAnswer}
(* Mutants: a comparison off by one, and a comparison left out.                                    *)
AllBusyOffByOne(list, responses) ==
    /\ Cardinality(Answered(responses)) > Len(list)
    /\ \A n \in Answered(responses) : responses[n] = "BUSY"
AllBusySoFar(list, responses) == \A n \in Answered(responses) : responses[n] = "BUSY"

AllBusy(list, responses) ==
    /\ Cardinality(Answered(responses)) = Len(list)
    /\ \A n \in Answered(responses) : responses[n] = "BUSY"

NoResponses == [n \in Nodes |-> NoAnswer]

(* The attempts run over the list cyclically.                                                      *)
FirstIndex(list, k) == (k % Len(list)) + 1

-----------------------------------------------------------------------------
Init ==
    /\ NodeInit
    /\ pc = [r \in Requests |-> "start"]
    /\ nodeList \in [Requests -> NodeLists]
    /\ attempt = [r \in Requests |-> 0]
    /\ scan = [r \in Requests |-> NoScan]
    /\ nodeIndex = [r \in Requests |-> 1]
    /\ backoff = [r \in Requests |-> MinBackoff]
    /\ timeLeft = [r \in Requests |-> 0]
    /\ attemptLeft = [r \in Requests |-> 0]
    /\ timer = [r \in Requests |-> 0]
    /\ nodeResponses = [r \in Requests |-> NoResponses]
    /\ reply = [r \in Requests |-> NoReply]
    /\ outcome = [r \in Requests |-> NoAnswer]

Goto(r, from, to) == pc[r] = from /\ pc' = [pc EXCEPT ![r] = to]

(* What the end of an execution leaves of its local variables.  An exception leaves execute: one    *)
(* thrown before a response is there (RequestThrew), or by what is done about it (ResponseThrew).   *)
Return(r, result) ==
    /\ pc' = [pc EXCEPT ![r] = "done"]
    /\ outcome' = [outcome EXCEPT ![r] = result]
    /\ timeLeft' = [timeLeft EXCEPT ![r] = 0]
    /\ attemptLeft' = [attemptLeft EXCEPT ![r] = 0]
    /\ nodeResponses' = [nodeResponses EXCEPT ![r] = NoResponses]

(* The call of execute: the parameters are resolved, the nodes looked up, the timeout started.     *)
Execute(r) ==
    /\ Goto(r, "start", "attempt")
    /\ backoff' = [backoff EXCEPT ![r] = MinBackoff]
    /\ timeLeft' = [timeLeft EXCEPT ![r] = RequestTimeout]
    /\ UNCHANGED <<nodeVars, nodeList, attempt, scan, nodeIndex, attemptLeft, timer,
                   nodeResponses, reply, outcome>>

(* onExecute, the lookup of the nodes and makeRequest may throw, and so may submitRequest for a     *)
(* request that the node does not know, which gives back the mutex it took.                         *)
RequestThrows(r) ==
    /\ pc[r] \in {"start", "submit"}
    /\ Return(r, "RequestThrew")
    /\ UNCHANGED <<nodeVars, nodeList, attempt, scan, nodeIndex, backoff, timer, reply>>

(* The head of the loop.  The deadline of the attempt is fixed here, before any waiting.           *)
(* Mutant: one attempt too many.                                                                   *)
BeginAttemptTooMany(r) ==
    /\ attempt[r] <= MaxAttempts
    /\ Goto(r, "attempt", "scan")
    /\ attemptLeft' = [attemptLeft EXCEPT ![r] = Smaller(GrpcDeadline, timeLeft[r])]
    /\ scan' = [scan EXCEPT ![r] = ScanFrom(FirstIndex(nodeList[r], attempt[r]))]
    /\ UNCHANGED <<nodeVars, nodeList, attempt, nodeIndex, backoff, timeLeft, timer,
                   nodeResponses, reply, outcome>>

BeginAttempt(r) ==
    /\ attempt[r] < MaxAttempts
    /\ Goto(r, "attempt", "scan")
    /\ attemptLeft' = [attemptLeft EXCEPT ![r] = Smaller(GrpcDeadline, timeLeft[r])]
    /\ scan' = [scan EXCEPT ![r] = ScanFrom(FirstIndex(nodeList[r], attempt[r]))]
    /\ UNCHANGED <<nodeVars, nodeList, attempt, nodeIndex, backoff, timeLeft, timer,
                   nodeResponses, reply, outcome>>

(* Mutant: the last attempt is never made.                                                         *)
GiveUpEarly(r) ==
    /\ pc[r] = "attempt"
    /\ attempt[r] >= MaxAttempts - 1
    /\ Return(r, "MaxAttemptsExceeded")
    /\ UNCHANGED <<nodeVars, nodeList, attempt, scan, nodeIndex, backoff, timer, reply>>

GiveUp(r) ==
    /\ pc[r] = "attempt"
    /\ attempt[r] >= MaxAttempts
    /\ Return(r, "MaxAttemptsExceeded")
    /\ UNCHANGED <<nodeVars, nodeList, attempt, scan, nodeIndex, backoff, timer, reply>>

(* getNodeIndexForExecute, one node at a time: the first healthy one, or after the last position   *)
(* the one seen with the shortest delay.                                                           *)
ScanUpdate(s, i, delay) ==
    IF s.best = 0 \/ delay < s.delay THEN [at |-> i, best |-> i, delay |-> delay] ELSE s

Choose(r, i) ==
    /\ Goto(r, "scan", "check")
    /\ nodeIndex' = [nodeIndex EXCEPT ![r] = i]
    /\ scan' = [scan EXCEPT ![r] = NoScan]

ScanNode(r) ==
    LET i == scan[r].at
        n == nodeList[r][i]
        seen == ScanUpdate(scan[r], i, RemainingTimeForBackoff(n))
    IN /\ pc[r] = "scan"
       /\ LockFree(n)
       /\ \/ IsHealthy(n) /\ Choose(r, i)
          \/ ~IsHealthy(n) /\ i = Len(nodeList[r]) /\ Choose(r, seen.best)
          \/ /\ ~IsHealthy(n) /\ i < Len(nodeList[r])
             /\ scan' = [scan EXCEPT ![r] = [seen EXCEPT !.at = i + 1]]
             /\ UNCHANGED <<pc, nodeIndex>>
       /\ UNCHANGED <<nodeVars, nodeList, attempt, backoff, timeLeft, attemptLeft, timer,
                      nodeResponses, reply, outcome>>

(* The chosen node is asked once more, and slept for if it is not healthy now.                     *)
CheckHealthy(r) ==
    LET n == NodeOf(r)
    IN /\ LockFree(n)
       /\ \/ IsHealthy(n) /\ Goto(r, "check", "connect") /\ UNCHANGED timer
          \/ /\ ~IsHealthy(n) /\ Goto(r, "check", "waitForNode")
             /\ timer' = [timer EXCEPT ![r] = RemainingTimeForBackoff(n)]
       /\ UNCHANGED <<nodeVars, nodeList, attempt, scan, nodeIndex, backoff, timeLeft, attemptLeft,
                      nodeResponses, reply, outcome>>

(* Mutant: the sleep may end before its time.                                                      *)
WakeForNodeEarly(r) ==
    /\ Goto(r, "waitForNode", "connect")
    /\ UNCHANGED <<nodeVars, nodeList, attempt, scan, nodeIndex, backoff, timeLeft, attemptLeft,
                   timer, nodeResponses, reply, outcome>>

WakeForNode(r) ==
    /\ timer[r] = 0
    /\ Goto(r, "waitForNode", "connect")
    /\ UNCHANGED <<nodeVars, nodeList, attempt, scan, nodeIndex, backoff, timeLeft, attemptLeft,
                   timer, nodeResponses, reply, outcome>>

-----------------------------------------------------------------------------
(* channelFailedToConnect                                                                          *)
ConnectedAlready(r) ==
    /\ AlreadyConnected(NodeOf(r))
    /\ Goto(r, "connect", "submit")
    /\ UNCHANGED <<nodeVars, nodeList, attempt, scan, nodeIndex, backoff, timeLeft, attemptLeft,
                   timer, nodeResponses, reply, outcome>>

Connect(r) ==
    /\ StartConnecting(r, NodeOf(r))
    /\ Goto(r, "connect", "connecting")
    /\ timer' = [timer EXCEPT ![r] = ConnectTimeout]
    /\ UNCHANGED <<nodeList, attempt, scan, nodeIndex, backoff, timeLeft, attemptLeft,
                   nodeResponses, reply, outcome>>

ConnectReturns(r) ==
    /\ \/ FinishConnecting(r, NodeOf(r), TRUE) /\ Goto(r, "connecting", "submit")
       \/ /\ timer[r] = 0
          /\ FinishConnecting(r, NodeOf(r), FALSE) /\ Goto(r, "connecting", "penalize")
    /\ timer' = [timer EXCEPT ![r] = 0]
    /\ UNCHANGED <<nodeList, attempt, scan, nodeIndex, backoff, timeLeft, attemptLeft,
                   nodeResponses, reply, outcome>>

(* The call itself.                                                                                *)
SubmitRequest(r) ==
    /\ StartCall(r, NodeOf(r))
    /\ Goto(r, "submit", "call")
    /\ UNCHANGED <<nodeList, attempt, scan, nodeIndex, backoff, timeLeft, attemptLeft, timer,
                   nodeResponses, reply, outcome>>

SubmitCrashes(r) ==
    /\ pc[r] = "submit"
    /\ CallThroughNullStub(NodeOf(r))
    /\ Return(r, "crash")
    /\ UNCHANGED <<nodeVars, nodeList, attempt, scan, nodeIndex, backoff, timer, reply>>

(* A call ends with whatever the server or the transport answers, until the deadline: from then    *)
(* on gRPC itself ends it.  Only a call that ends with OK has filled the response in.              *)
PossibleReplies(r) ==
    IF attemptLeft[r] = 0 THEN {[grpc |-> "DEADLINE_EXCEEDED", response |-> EmptyResponse]}
    ELSE {[grpc |-> code, response |-> EmptyResponse] : code \in GrpcCodes}
         \cup {[grpc |-> "OK", response |-> response] : response \in Replies}

CallReturns(r) ==
    /\ FinishCall(r, NodeOf(r))
    /\ \E answer \in PossibleReplies(r) :
          /\ reply' = [reply EXCEPT ![r] = answer]
          /\ Goto(r, "call", IF answer.grpc \in NodeUnusable THEN "penalize" ELSE "reward")
    /\ attemptLeft' = [attemptLeft EXCEPT ![r] = 0]
    /\ UNCHANGED <<nodeList, attempt, scan, nodeIndex, backoff, timeLeft, timer, nodeResponses,
                   outcome>>

(* The node is put off, and the loop goes on at once with the next attempt.                        *)
(* Mutant: an attempt that reached no server is not counted.                                       *)
PenalizeUncounted(r) ==
    /\ IncreaseBackoff(NodeOf(r))
    /\ Goto(r, "penalize", "attempt")
    /\ attemptLeft' = [attemptLeft EXCEPT ![r] = 0]
    /\ UNCHANGED <<nodeList, attempt, scan, nodeIndex, backoff, timeLeft, timer, nodeResponses,
                   reply, outcome>>

Penalize(r) ==
    /\ IncreaseBackoff(NodeOf(r))
    /\ Goto(r, "penalize", "attempt")
    /\ attempt' = [attempt EXCEPT ![r] = @ + 1]
    /\ attemptLeft' = [attemptLeft EXCEPT ![r] = 0]
    /\ UNCHANGED <<nodeList, scan, nodeIndex, backoff, timeLeft, timer, nodeResponses, reply,
                   outcome>>

(* The node is trusted again; the status of its response decides how the loop goes on.             *)
TryNextNode(r, responses) ==
    /\ ~AllBusy(nodeList[r], responses)
    /\ pc' = [pc EXCEPT ![r] = "attempt"]
    /\ attempt' = [attempt EXCEPT ![r] = @ + 1]
    /\ nodeResponses' = [nodeResponses EXCEPT ![r] = responses]
    /\ UNCHANGED <<timeLeft, attemptLeft, timer, outcome>>

BackOff(r, responses) ==
    /\ pc' = [pc EXCEPT ![r] = "waitForRetry"]
    /\ timer' = [timer EXCEPT ![r] = backoff[r]]
    /\ nodeResponses' = [nodeResponses EXCEPT ![r] = responses]
    /\ UNCHANGED <<attempt, timeLeft, attemptLeft, outcome>>

HandleResponse(r) ==
    LET status == DetermineStatus(Kind[r], reply[r].response)
        responses == [nodeResponses[r] EXCEPT ![NodeOf(r)] = reply[r].response.precheck]
    IN /\ pc[r] = "reward"
       /\ DecreaseBackoff(NodeOf(r))
       /\ \/ status = "SERVER_ERROR" /\ TryNextNode(r, responses)
          \/ /\ status = "SERVER_ERROR" /\ AllBusy(nodeList[r], responses)
             /\ BackOff(r, NoResponses)
          \/ status = "RETRY" /\ BackOff(r, responses)
          \/ /\ status = "REQUEST_ERROR"
             /\ Return(r, "PrecheckStatus") /\ UNCHANGED <<attempt, timer>>
          \/ /\ status = "SUCCESS"
             /\ Return(r, "success") /\ UNCHANGED <<attempt, timer>>
          \/ /\ MayThrow(Kind[r], status)
             /\ Return(r, "ResponseThrew") /\ UNCHANGED <<attempt, timer>>
       /\ UNCHANGED <<nodeList, scan, nodeIndex, backoff, reply>>

(* Awake after the request's own backoff, which doubles up to the maximum.                         *)
WakeForRetry(r) ==
    /\ timer[r] = 0
    /\ Goto(r, "waitForRetry", "attempt")
    /\ backoff' = [backoff EXCEPT ![r] = Smaller(2 * @, MaxBackoff)]
    /\ attempt' = [attempt EXCEPT ![r] = @ + 1]
    /\ UNCHANGED <<nodeVars, nodeList, scan, nodeIndex, timeLeft, attemptLeft, timer,
                   nodeResponses, reply, outcome>>

-----------------------------------------------------------------------------
(* Client::setTransportSecurity gives every node another address, and Client::close closes every   *)
(* node: both drop a node's channel.  One node at a time, as the calls of different nodes          *)
(* interleave with the requests.                                                                   *)
DropChannel(n) ==
    /\ Reconfigurable
    /\ channelOpen[n]
    /\ CloseChannel(n)
    /\ UNCHANGED requestVars

Countdown(f) == [r \in Requests |-> Larger(f[r] - 1, 0)]

Tick ==
    /\ NodeTick
    /\ timeLeft' = Countdown(timeLeft)
    /\ attemptLeft' = Countdown(attemptLeft)
    /\ timer' = Countdown(timer)
    /\ UNCHANGED <<currentBackoff, badGrpcStatusCount, isConnected, channelOpen, nodeLock,
                   pc, nodeList, attempt, scan, nodeIndex, backoff, nodeResponses, reply, outcome>>

Step(r) ==
    \/ Execute(r) \/ RequestThrows(r) \/ BeginAttempt(r) \/ GiveUp(r)
    \/ ScanNode(r) \/ CheckHealthy(r) \/ WakeForNode(r)
    \/ ConnectedAlready(r) \/ Connect(r) \/ ConnectReturns(r)
    \/ SubmitRequest(r) \/ SubmitCrashes(r) \/ CallReturns(r)
    \/ Penalize(r) \/ HandleResponse(r) \/ WakeForRetry(r)

(* A segmentation fault ends the process.                                                          *)
Alive == \A r \in Requests : outcome[r] # "crash"

Next ==
    /\ Alive
    /\ \/ \E r \in Requests : Step(r)
       \/ \E n \in Nodes : DropChannel(n)
       \/ Tick

(* Threads are scheduled, time passes, and every call returns by its deadline.                     *)
Fairness == /\ \A r \in Requests : WF_vars(Alive /\ Step(r))
            /\ WF_vars(Alive /\ Tick)

Spec == Init /\ [][Next]_vars
FairSpec == Spec /\ Fairness

-----------------------------------------------------------------------------
(* Every variable has its type: in particular no request asks for an attempt past MaxAttempts, no  *)
(* node is chosen outside the list, and no sleep is longer than the two backoffs allow.            *)
LongestSleep == Larger(Larger(MinBackoff, MaxBackoff), Larger(MaxNodeBackoff, ConnectTimeout))

PCs == {"start", "attempt", "scan", "check", "waitForNode", "connect", "connecting", "submit",
        "call", "penalize", "reward", "waitForRetry", "done"}

Outcomes == {"success", "PrecheckStatus", "MaxAttemptsExceeded", "RequestThrew", "ResponseThrew",
             "crash"}

GrpcStatuses == GrpcCodes \cup {"OK", "DEADLINE_EXCEEDED", NoAnswer}
Responses == Replies \cup {EmptyResponse}
Prechecks == {NoAnswer} \cup {response.precheck : response \in Responses}

ControlTypeOK ==
    /\ pc \in [Requests -> PCs]
    /\ attempt \in [Requests -> 0..MaxAttempts]
    /\ outcome \in [Requests -> {NoAnswer} \cup Outcomes]

ChoiceTypeOK ==
    /\ nodeList \in [Requests -> NodeLists]
    /\ nodeIndex \in [Requests -> Nat \ {0}]
    /\ scan \in [Requests -> [at : Nat \ {0}, best : Nat, delay : -1..MaxNodeBackoff]]
    /\ \A r \in Requests : /\ nodeIndex[r] <= Len(nodeList[r])
                            /\ scan[r].at <= Len(nodeList[r]) /\ scan[r].best <= Len(nodeList[r])

TimeTypeOK ==
    /\ backoff \in [Requests -> 0..Larger(MinBackoff, MaxBackoff)]
    /\ timeLeft \in [Requests -> 0..RequestTimeout]
    /\ attemptLeft \in [Requests -> 0..GrpcDeadline]
    /\ timer \in [Requests -> 0..LongestSleep]

AnswerTypeOK ==
    /\ nodeResponses \in [Requests -> [Nodes -> Prechecks]]
    /\ reply \in [Requests -> [grpc : GrpcStatuses, response : Responses]]

TypeOK ==
    NodeTypeOK /\ ControlTypeOK /\ ChoiceTypeOK /\ TimeTypeOK /\ AnswerTypeOK

(* A thread holds the mutex of a node exactly while it waits for that node's channel or for a call *)
(* to it: no path of the loop leaves a mutex behind, so no thread can wait forever for one.         *)
Blocking(r) == pc[r] \in {"connecting", "call"}

MutexHeldWhileBlocking ==
    \A n \in Nodes, r \in Requests : nodeLock[n] = r <=> Blocking(r) /\ NodeOf(r) = n

(* Two requests that share a node never have calls to it under way together: the second one waits  *)
(* in submitRequest for as long as the first one's call takes.                                     *)
OneCallPerNode ==
    \A r, q \in Requests : r # q /\ Blocking(r) /\ Blocking(q) => NodeOf(r) # NodeOf(q)

(* impl/BaseNode.h says of mIsConnected: "Is the gRPC channel being utilized by this BaseNode to    *)
(* communicate with its remote node initialized?"  A channel dropped by setAddress or close leaves  *)
(* the flag set.                                                                                   *)
ConnectedMeansChannel == \A n \in Nodes : isConnected[n] => channelOpen[n]

(* Executable.h says execute returns "the SdkResponseType object sent from the Hedera network that  *)
(* contains the result of the request": a success rests on a response that a node sent.            *)
ResultSentByNetwork == \A r \in Requests : outcome[r] = "success" => reply[r].grpc = "OK"

(* A receipt query never hands out a receipt that is not final, in particular not the empty one a   *)
(* call that ended without a response leaves behind.                                               *)
ReceiptIsFinal ==
    \A r \in Requests : Kind[r] = "receiptQuery" /\ outcome[r] = "success"
        => reply[r].grpc = "OK" /\ reply[r].response.receipt \notin NotReady \cup {"BUSY", "OK"}

(* Every execution ends: with a result, with an exception, or with the process.                    *)
Termination == <>(~Alive \/ \A r \in Requests : pc[r] = "done")

=============================================================================
