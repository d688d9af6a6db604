-------------------------- MODULE ExecutableProofs --------------------------
(***************************************************************************)
(* Theorems about Executable, for any number of requests, nodes, attempts   *)
(* and clock units.                                                         *)
(***************************************************************************)
EXTENDS Executable, BaseNodeProofs

-----------------------------------------------------------------------------
(* The node a request has chosen is a node.                                                        *)
LEMMA NodeOfType ==
    ASSUME ChoiceTypeOK, NEW r \in Requests
    PROVE  NodeOf(r) \in Nodes
<1>1. nodeList[r] \in Seq(Nodes)
  BY RequestAssumption DEF ChoiceTypeOK
<1>2. nodeIndex[r] \in 1..Len(nodeList[r])
  BY <1>1 DEF ChoiceTypeOK
<1>. QED
  BY <1>1, <1>2 DEF NodeOf

(* A list of nodes is a sequence with at least one element, so that a position in it can be drawn. *)
LEMMA NodeListType ==
    ASSUME NEW list \in NodeLists
    PROVE  list \in Seq(Nodes) /\ Len(list) \in Nat \ {0}
BY RequestAssumption

LEMMA FirstIndexType ==
    ASSUME NEW list \in NodeLists, NEW k \in Nat
    PROVE  FirstIndex(list, k) \in Nat \ {0} /\ FirstIndex(list, k) <= Len(list)
BY NodeListType DEF FirstIndex

LEMMA InitType == Init => TypeOK
<1> SUFFICES ASSUME Init
             PROVE  ControlTypeOK /\ ChoiceTypeOK /\ TimeTypeOK /\ AnswerTypeOK
  BY NodeInitType DEF Init, TypeOK
<1>1. \A r \in Requests : nodeList[r] \in NodeLists /\ Len(nodeList[r]) \in Nat \ {0}
  BY NodeListType DEF Init
<1>2. /\ nodeIndex \in [Requests -> Nat \ {0}]
      /\ scan \in [Requests -> [at : Nat \ {0}, best : Nat, delay : -1..MaxNodeBackoff]]
      /\ \A r \in Requests : nodeIndex[r] = 1 /\ scan[r].at = 1 /\ scan[r].best = 1
  BY BackoffAssumption DEF Init, NoScan
<1>3. /\ reply \in [Requests -> [grpc : GrpcStatuses, response : Responses]]
      /\ nodeResponses \in [Requests -> [Nodes -> Prechecks]]
  BY DEF Init, NoReply, NoResponses, Prechecks, Responses, GrpcStatuses
<1>4. /\ backoff \in [Requests -> 0..Larger(MinBackoff, MaxBackoff)]
      /\ timer \in [Requests -> 0..LongestSleep]
  BY RequestAssumption, BackoffAssumption DEF Init, Larger, LongestSleep
<1>5. /\ attempt \in [Requests -> 0..MaxAttempts]
      /\ timeLeft \in [Requests -> 0..RequestTimeout]
      /\ attemptLeft \in [Requests -> 0..GrpcDeadline]
  BY RequestAssumption DEF Init
<1>6. /\ pc \in [Requests -> PCs]
      /\ nodeList \in [Requests -> NodeLists]
      /\ outcome \in [Requests -> {NoAnswer} \cup Outcomes]
  BY DEF Init, PCs
<1>. QED
  BY <1>1, <1>2, <1>3, <1>4, <1>5, <1>6
  DEF ControlTypeOK, ChoiceTypeOK, TimeTypeOK, AnswerTypeOK

(* Whatever a request or the clock does, the nodes keep their types.                               *)
LEMMA NodeStep ==
    ASSUME TypeOK, [Next]_vars
    PROVE  NodeTypeOK'
<1> USE DEF TypeOK
<1>1. CASE UNCHANGED nodeVars
  BY <1>1 DEF nodeVars, NodeTypeOK
<1>2. ASSUME NEW r \in Requests, Step(r)
      PROVE  NodeTypeOK'
  <2>1. NodeOf(r) \in Nodes
    BY NodeOfType
  <2>2. CASE Connect(r)
    BY <2>1, <2>2, ChannelUseType DEF Connect, Requests
  <2>3. CASE ConnectReturns(r)
    BY <2>1, <2>3, ChannelUseType DEF ConnectReturns, Requests
  <2>4. CASE SubmitRequest(r)
    BY <2>1, <2>4, ChannelUseType DEF SubmitRequest, Requests
  <2>5. CASE CallReturns(r)
    BY <2>1, <2>5, ChannelUseType DEF CallReturns, Requests
  <2>6. CASE Penalize(r)
    BY <2>1, <2>6, IncreaseBackoffType DEF Penalize
  <2>7. CASE HandleResponse(r)
    BY <2>1, <2>7, DecreaseBackoffType DEF HandleResponse
  <2>8. CASE UNCHANGED nodeVars
    BY <2>8, <1>1
  <2>. QED
    BY <1>2, <2>2, <2>3, <2>4, <2>5, <2>6, <2>7, <2>8
    DEF Step, Execute, RequestThrows, BeginAttempt, GiveUp, ScanNode, CheckHealthy, WakeForNode,
        ConnectedAlready, SubmitCrashes, WakeForRetry
<1>3. ASSUME NEW n \in Nodes, DropChannel(n)
      PROVE  NodeTypeOK'
  BY <1>3 DEF DropChannel, CloseChannel, NodeTypeOK
<1>4. CASE Tick
  BY <1>4, NodeTickType DEF Tick
<1>. QED
  BY <1>1, <1>2, <1>3, <1>4 DEF Next, vars

(* The loop enters an attempt only while one is left, and an attempt is counted when it is over.   *)
AttemptLeft ==
    \A r \in Requests : pc[r] \notin {"start", "attempt", "done"} => attempt[r] < MaxAttempts

(* Counting down keeps a span of time within its range.                                            *)
LEMMA CountdownType ==
    ASSUME NEW K \in Nat, NEW f \in [Requests -> 0..K]
    PROVE  Countdown(f) \in [Requests -> 0..K]
BY DEF Countdown, Larger

(* The control of a request: its place in the loop and the attempts it has used.                   *)
LEMMA ControlStep ==
    ASSUME ControlTypeOK, AttemptLeft, NEW r \in Requests, Step(r)
    PROVE  ControlTypeOK' /\ AttemptLeft'
<1> USE RequestAssumption DEF ControlTypeOK, AttemptLeft, Goto, PCs, Return
<1>1. CASE Execute(r)
  BY <1>1 DEF Execute
<1>2. CASE BeginAttempt(r)
  BY <1>2 DEF BeginAttempt
<1>3. CASE GiveUp(r)
  BY <1>3 DEF GiveUp, Outcomes
<1>4. CASE ScanNode(r)
  BY <1>4 DEF ScanNode, Choose
<1>5. CASE CheckHealthy(r)
  BY <1>5 DEF CheckHealthy
<1>6. CASE WakeForNode(r)
  BY <1>6 DEF WakeForNode
<1>7. CASE ConnectedAlready(r)
  BY <1>7 DEF ConnectedAlready
<1>8. CASE Connect(r)
  BY <1>8 DEF Connect
<1>9. CASE ConnectReturns(r)
  BY <1>9 DEF ConnectReturns
<1>10. CASE SubmitRequest(r)
  BY <1>10 DEF SubmitRequest
<1>11. CASE SubmitCrashes(r)
  BY <1>11 DEF SubmitCrashes, Outcomes
<1>12. CASE CallReturns(r)
  BY <1>12 DEF CallReturns
<1>13. CASE Penalize(r)
  BY <1>13 DEF Penalize
<1>14. CASE HandleResponse(r)
  <2>1. pc[r] = "reward"
    BY <1>14 DEF HandleResponse
  <2>2. \/ /\ pc' = [pc EXCEPT ![r] = "attempt"]
           /\ attempt' = [attempt EXCEPT ![r] = @ + 1] /\ UNCHANGED outcome
        \/ pc' = [pc EXCEPT ![r] = "waitForRetry"] /\ UNCHANGED <<attempt, outcome>>
        \/ /\ pc' = [pc EXCEPT ![r] = "done"] /\ UNCHANGED attempt
           /\ \E result \in {"PrecheckStatus", "success", "ResponseThrew"} :
                 outcome' = [outcome EXCEPT ![r] = result]
    BY <1>14, Zenon DEF HandleResponse, TryNextNode, BackOff
  <2>3. CASE /\ pc' = [pc EXCEPT ![r] = "attempt"]
             /\ attempt' = [attempt EXCEPT ![r] = @ + 1] /\ UNCHANGED outcome
    BY <2>1, <2>3
  <2>4. CASE pc' = [pc EXCEPT ![r] = "waitForRetry"] /\ UNCHANGED <<attempt, outcome>>
    BY <2>1, <2>4
  <2>5. CASE /\ pc' = [pc EXCEPT ![r] = "done"] /\ UNCHANGED attempt
             /\ \E result \in {"PrecheckStatus", "success", "ResponseThrew"} :
                   outcome' = [outcome EXCEPT ![r] = result]
    BY <2>1, <2>5 DEF Outcomes
  <2>. QED
    BY <2>2, <2>3, <2>4, <2>5
<1>15. CASE WakeForRetry(r)
  BY <1>15 DEF WakeForRetry
<1>16. CASE RequestThrows(r)
  BY <1>16 DEF RequestThrows, Outcomes
<1>. QED
  BY <1>1, <1>2, <1>3, <1>4, <1>5, <1>6, <1>7, <1>8, <1>9, <1>10, <1>11, <1>12, <1>13, <1>14,
     <1>15, <1>16 DEF Step

(* Time passing and channels being dropped change no control.                                      *)
LEMMA ControlNext ==
    ASSUME ControlTypeOK, AttemptLeft, [Next]_vars
    PROVE  ControlTypeOK' /\ AttemptLeft'
<1>1. CASE UNCHANGED <<pc, attempt, outcome>>
  BY <1>1 DEF ControlTypeOK, AttemptLeft
<1>. QED
  BY <1>1, ControlStep DEF Next, Tick, DropChannel, vars, requestVars

(* The choice of a node: the position stays within the list of nodes.                              *)
LEMMA ChoiceStep ==
    ASSUME TypeOK, NEW r \in Requests, Step(r)
    PROVE  ChoiceTypeOK'
<1> USE DEF ChoiceTypeOK
<1>1. ChoiceTypeOK /\ attempt[r] \in Nat
  BY RequestAssumption DEF TypeOK, ControlTypeOK
<1>2. nodeList[r] \in NodeLists /\ nodeList[r] \in Seq(Nodes) /\ Len(nodeList[r]) \in Nat \ {0}
  BY <1>1, NodeListType
<1>3. MaxNodeBackoff \in Nat
  BY BackoffAssumption
<1>4. CASE BeginAttempt(r)
  <2> DEFINE s == ScanFrom(FirstIndex(nodeList[r], attempt[r]))
  <2>1. FirstIndex(nodeList[r], attempt[r]) \in Nat \ {0}
        /\ FirstIndex(nodeList[r], attempt[r]) <= Len(nodeList[r])
    BY <1>1, <1>2, FirstIndexType
  <2>2. /\ s \in [at : Nat \ {0}, best : Nat, delay : -1..MaxNodeBackoff]
        /\ s.at <= Len(nodeList[r]) /\ s.best <= Len(nodeList[r])
    BY <1>2, <1>3, <2>1 DEF ScanFrom
  <2>3. scan' = [scan EXCEPT ![r] = s] /\ UNCHANGED <<nodeList, nodeIndex>>
    BY <1>4 DEF BeginAttempt
  <2> HIDE DEF s
  <2>. QED
    BY <1>1, <2>2, <2>3
<1>5. CASE ScanNode(r)
  <2> DEFINE i == scan[r].at
             seen == ScanUpdate(scan[r], i, RemainingTimeForBackoff(nodeList[r][i]))
             further == [seen EXCEPT !.at = i + 1]
  <2>1. i \in Nat \ {0} /\ i <= Len(nodeList[r]) /\ nodeList[r][i] \in Nodes
    BY <1>1, <1>2
  <2>2. RemainingTimeForBackoff(nodeList[r][i]) \in -1..MaxNodeBackoff
    BY <2>1 DEF TypeOK, NodeTypeOK, RemainingTimeForBackoff
  <2>3. scan[r] \in [at : Nat \ {0}, best : Nat, delay : -1..MaxNodeBackoff]
        /\ scan[r].best <= Len(nodeList[r])
    BY <1>1
  <2>4. /\ seen \in [at : Nat \ {0}, best : Nat \ {0}, delay : -1..MaxNodeBackoff]
        /\ seen.best <= Len(nodeList[r])
    BY <2>1, <2>2, <2>3 DEF ScanUpdate
  <2>5. \/ Choose(r, i)
        \/ Choose(r, seen.best)
        \/ i < Len(nodeList[r]) /\ scan' = [scan EXCEPT ![r] = further] /\ UNCHANGED nodeIndex
    BY <1>5 DEF ScanNode
  <2>6. UNCHANGED nodeList
    BY <1>5 DEF ScanNode
  <2>7. i < Len(nodeList[r]) =>
            /\ further \in [at : Nat \ {0}, best : Nat, delay : -1..MaxNodeBackoff]
            /\ further.at <= Len(nodeList[r]) /\ further.best <= Len(nodeList[r])
    BY <1>2, <2>1, <2>4
  <2>8. /\ NoScan \in [at : Nat \ {0}, best : Nat, delay : -1..MaxNodeBackoff]
        /\ NoScan.at = 1 /\ NoScan.best = 1
    BY <1>3 DEF NoScan
  <2> HIDE DEF i, seen, further
  <2>9. ASSUME NEW k \in Nat \ {0}, k <= Len(nodeList[r]), Choose(r, k)
        PROVE  ChoiceTypeOK'
    BY <1>1, <1>2, <2>6, <2>8, <2>9 DEF Choose
  <2>10. ASSUME i < Len(nodeList[r]), scan' = [scan EXCEPT ![r] = further], UNCHANGED nodeIndex
         PROVE  ChoiceTypeOK'
    BY <1>1, <1>2, <2>6, <2>7, <2>10
  <2>11. seen.best \in Nat \ {0}
    BY <2>4
  <2>. QED
    BY <2>1, <2>4, <2>5, <2>9, <2>10, <2>11
<1>6. CASE UNCHANGED <<nodeList, nodeIndex, scan>>
  BY <1>1, <1>6
<1>. QED
  BY <1>4, <1>5, <1>6
  DEF Step, Execute, RequestThrows, GiveUp, CheckHealthy, WakeForNode, ConnectedAlready, Connect,
      ConnectReturns, SubmitRequest, SubmitCrashes, CallReturns, Penalize, HandleResponse, WakeForRetry

(* Clocks: what is left of a span never exceeds the span that was started.                         *)
LEMMA TimeStep ==
    ASSUME TypeOK, NEW r \in Requests, Step(r)
    PROVE  TimeTypeOK'
<1> USE DEF TimeTypeOK
<1>1. TimeTypeOK /\ readmitIn[NodeOf(r)] \in -1..MaxNodeBackoff
  BY NodeOfType DEF TypeOK, NodeTypeOK
<1> DEFINE L == Larger(MinBackoff, MaxBackoff)
<1>2. /\ L \in Nat /\ MinBackoff \in 0..L /\ MaxBackoff \in 0..L
      /\ LongestSleep \in Nat /\ L <= LongestSleep
      /\ MaxNodeBackoff <= LongestSleep /\ ConnectTimeout \in 0..LongestSleep
      /\ GrpcDeadline \in Nat /\ RequestTimeout \in Nat /\ MaxNodeBackoff \in Nat
  BY RequestAssumption, BackoffAssumption DEF Larger, LongestSleep
<1>3. /\ backoff \in [Requests -> 0..L] /\ timeLeft \in [Requests -> 0..RequestTimeout]
      /\ attemptLeft \in [Requests -> 0..GrpcDeadline] /\ timer \in [Requests -> 0..LongestSleep]
  BY <1>1
<1> SUFFICES /\ backoff' \in [Requests -> 0..L] /\ timeLeft' \in [Requests -> 0..RequestTimeout]
             /\ attemptLeft' \in [Requests -> 0..GrpcDeadline]
             /\ timer' \in [Requests -> 0..LongestSleep]
  OBVIOUS
<1> HIDE DEF L
<1>4. CASE Execute(r)
  BY <1>2, <1>3, <1>4 DEF Execute
<1>5. CASE BeginAttempt(r)
  BY <1>2, <1>3, <1>5 DEF BeginAttempt, Smaller
<1>6. CASE GiveUp(r) \/ SubmitCrashes(r) \/ RequestThrows(r)
  BY <1>2, <1>3, <1>6 DEF GiveUp, SubmitCrashes, RequestThrows, Return
<1>7. CASE CheckHealthy(r)
  BY <1>1, <1>2, <1>3, <1>7 DEF CheckHealthy, IsHealthy, RemainingTimeForBackoff
<1>8. CASE Connect(r)
  BY <1>2, <1>3, <1>8 DEF Connect
<1>9. CASE ConnectReturns(r)
  BY <1>2, <1>3, <1>9 DEF ConnectReturns
<1>10. CASE CallReturns(r) \/ Penalize(r)
  BY <1>2, <1>3, <1>10 DEF CallReturns, Penalize
<1>11. CASE HandleResponse(r)
  <2>1. \/ UNCHANGED <<timeLeft, attemptLeft, timer>>
        \/ timer' = [timer EXCEPT ![r] = backoff[r]] /\ UNCHANGED <<timeLeft, attemptLeft>>
        \/ /\ timeLeft' = [timeLeft EXCEPT ![r] = 0]
           /\ attemptLeft' = [attemptLeft EXCEPT ![r] = 0] /\ UNCHANGED timer
    BY <1>11, Zenon DEF HandleResponse, TryNextNode, BackOff, Return
  <2>2. UNCHANGED backoff
    BY <1>11 DEF HandleResponse
  <2>. QED
    BY <1>2, <1>3, <2>1, <2>2
<1>12. CASE WakeForRetry(r)
  BY <1>2, <1>3, <1>12 DEF WakeForRetry, Smaller
<1>13. CASE UNCHANGED <<backoff, timeLeft, attemptLeft, timer>>
  BY <1>3, <1>13
<1>. QED
  BY <1>4, <1>5, <1>6, <1>7, <1>8, <1>9, <1>10, <1>11, <1>12, <1>13
  DEF Step, ScanNode, WakeForNode, ConnectedAlready, SubmitRequest

(* Answers: what is recorded of a node is something that was answered.                             *)
LEMMA AnswerStep ==
    ASSUME TypeOK, NEW r \in Requests, Step(r)
    PROVE  AnswerTypeOK'
<1> USE DEF AnswerTypeOK
<1>1. AnswerTypeOK /\ NodeOf(r) \in Nodes
  BY NodeOfType DEF TypeOK
<1>2. NoResponses \in [Nodes -> Prechecks]
  BY DEF NoResponses, Prechecks
<1>3. CASE GiveUp(r) \/ SubmitCrashes(r) \/ RequestThrows(r)
  BY <1>1, <1>2, <1>3 DEF GiveUp, SubmitCrashes, RequestThrows, Return
<1>4. CASE CallReturns(r)
  <2>1. \A answer \in PossibleReplies(r) : answer \in [grpc : GrpcStatuses, response : Responses]
    BY DEF PossibleReplies, GrpcStatuses, Responses
  <2>. QED
    BY <1>1, <1>4, <2>1 DEF CallReturns
<1>5. CASE HandleResponse(r)
  <2> DEFINE responses == [nodeResponses[r] EXCEPT ![NodeOf(r)] = reply[r].response.precheck]
  <2>1. reply[r].response.precheck \in Prechecks
    BY <1>1 DEF Prechecks
  <2>2. responses \in [Nodes -> Prechecks]
    BY <1>1, <2>1
  <2>3. \/ nodeResponses' = [nodeResponses EXCEPT ![r] = responses]
        \/ nodeResponses' = [nodeResponses EXCEPT ![r] = NoResponses]
    BY <1>5, Zenon DEF HandleResponse, TryNextNode, BackOff, Return
  <2>4. UNCHANGED reply
    BY <1>5 DEF HandleResponse
  <2> HIDE DEF responses
  <2>. QED
    BY <1>1, <1>2, <2>2, <2>3, <2>4
<1>6. CASE UNCHANGED <<nodeResponses, reply>>
  BY <1>1, <1>6
<1>. QED
  BY <1>3, <1>4, <1>5, <1>6
  DEF Step, Execute, BeginAttempt, ScanNode, CheckHealthy, WakeForNode, ConnectedAlready, Connect,
      ConnectReturns, SubmitRequest, Penalize, WakeForRetry

(* Together, with the clock: the type invariant and the bound on attempts are inductive.           *)
TypeInvariant == TypeOK /\ AttemptLeft

LEMMA TypeStep ==
    ASSUME TypeInvariant, [Next]_vars
    PROVE  TypeInvariant'
<1> USE DEF TypeInvariant
<1>1. NodeTypeOK'
  BY NodeStep
<1>2. ControlTypeOK' /\ AttemptLeft'
  BY ControlNext DEF TypeOK
<1>3. ChoiceTypeOK'
  <2>1. CASE UNCHANGED <<nodeList, nodeIndex, scan>>
    BY <2>1 DEF TypeOK, ChoiceTypeOK
  <2>. QED
    BY <2>1, ChoiceStep DEF Next, Tick, DropChannel, vars, requestVars
<1>4. TimeTypeOK'
  <2>1. CASE Tick
    <3>1. Larger(MinBackoff, MaxBackoff) \in Nat /\ LongestSleep \in Nat
          /\ RequestTimeout \in Nat /\ GrpcDeadline \in Nat
      BY RequestAssumption, BackoffAssumption DEF Larger, LongestSleep
    <3>. QED
      BY <2>1, <3>1, CountdownType DEF Tick, TypeOK, TimeTypeOK
  <2>2. CASE UNCHANGED <<backoff, timeLeft, attemptLeft, timer>>
    BY <2>2 DEF TypeOK, TimeTypeOK
  <2>. QED
    BY <2>1, <2>2, TimeStep DEF Next, DropChannel, vars, requestVars
<1>5. AnswerTypeOK'
  <2>1. CASE UNCHANGED <<nodeResponses, reply>>
    BY <2>1 DEF TypeOK, AnswerTypeOK
  <2>. QED
    BY <2>1, AnswerStep DEF Next, Tick, DropChannel, vars, requestVars
<1>. QED
  BY <1>1, <1>2, <1>3, <1>4, <1>5 DEF TypeOK

(* Both hold in every state the SDK can reach.                                                      *)
LEMMA TypeInductive == Spec => []TypeInvariant
<1>1. Init => TypeInvariant
  BY InitType DEF TypeInvariant, AttemptLeft, Init
<1>2. TypeInvariant /\ [Next]_vars => TypeInvariant'
  BY TypeStep
<1>. QED
  BY <1>1, <1>2, PTL DEF Spec

(* execute never asks for more attempts than it was given, never chooses a node outside its list,  *)
(* and never sleeps longer than its backoffs allow, however many requests share the nodes.         *)
THEOREM TypeCorrect == Spec => []TypeOK
<1>1. TypeInvariant => TypeOK
  BY DEF TypeInvariant
<1>. QED
  BY <1>1, TypeInductive, PTL

-----------------------------------------------------------------------------
(* The mutex of a node.  A step of a request either takes the mutex of the node it is about to     *)
(* wait for, or gives back the one it has waited with, or touches none and waits for nothing.      *)
Takes(r) ==
    /\ ~Blocking(r) /\ LockFree(NodeOf(r))
    /\ pc' \in {[pc EXCEPT ![r] = "connecting"], [pc EXCEPT ![r] = "call"]}
    /\ nodeLock' = [nodeLock EXCEPT ![NodeOf(r)] = r]
    /\ UNCHANGED <<nodeList, nodeIndex>>

GivesBack(r) ==
    /\ Blocking(r)
    /\ \E to \in PCs \ {"connecting", "call"} : pc' = [pc EXCEPT ![r] = to]
    /\ nodeLock' = [nodeLock EXCEPT ![NodeOf(r)] = NoThread]
    /\ UNCHANGED <<nodeList, nodeIndex>>

Leaves(r) ==
    /\ ~Blocking(r)
    /\ \E to \in PCs \ {"connecting", "call"} : pc' = [pc EXCEPT ![r] = to]
    /\ \E k \in Nat \ {0} : nodeIndex' = [nodeIndex EXCEPT ![r] = k]
    /\ UNCHANGED <<nodeLock, nodeList>>

LEMMA MutexUse ==
    ASSUME TypeOK, NEW r \in Requests, Step(r)
    PROVE  Takes(r) \/ GivesBack(r) \/ Leaves(r)
<1> USE DEF Blocking, PCs, Goto
<1>1. /\ pc \in [Requests -> PCs] /\ nodeIndex \in [Requests -> Nat \ {0}]
      /\ nodeIndex = [nodeIndex EXCEPT ![r] = nodeIndex[r]]
      /\ pc = [pc EXCEPT ![r] = pc[r]]
  BY DEF TypeOK, ControlTypeOK, ChoiceTypeOK
<1>2. CASE Connect(r) \/ SubmitRequest(r)
  BY <1>2 DEF Connect, StartConnecting, SubmitRequest, StartCall, Takes
<1>3. CASE ConnectReturns(r)
  BY <1>3 DEF ConnectReturns, FinishConnecting, GivesBack
<1>4. CASE CallReturns(r)
  <2>1. pc[r] = "call" /\ (\/ pc' = [pc EXCEPT ![r] = "penalize"]
                           \/ pc' = [pc EXCEPT ![r] = "reward"])
    BY <1>4 DEF CallReturns
  <2>2. /\ nodeLock' = [nodeLock EXCEPT ![NodeOf(r)] = NoThread]
        /\ UNCHANGED <<nodeList, nodeIndex>>
    BY <1>4 DEF CallReturns, FinishCall
  <2>. QED
    BY <2>1, <2>2 DEF GivesBack
<1>5. CASE ScanNode(r)
  <2>1. pc[r] = "scan" /\ UNCHANGED <<nodeLock, nodeList>>
    BY <1>5 DEF ScanNode, nodeVars
  <2>2. \/ UNCHANGED <<pc, nodeIndex>>
        \/ /\ pc' = [pc EXCEPT ![r] = "check"]
           /\ \E k : nodeIndex' = [nodeIndex EXCEPT ![r] = k]
    BY <1>5 DEF ScanNode, Choose
  <2>3. nodeIndex' \in [Requests -> Nat \ {0}]
    BY <1>5, ChoiceStep DEF ChoiceTypeOK, Step
  <2>4. \E k \in Nat \ {0} : nodeIndex' = [nodeIndex EXCEPT ![r] = k]
    <3>1. CASE UNCHANGED nodeIndex
      BY <3>1, <1>1
    <3>2. ASSUME NEW k, nodeIndex' = [nodeIndex EXCEPT ![r] = k]
          PROVE  k \in Nat \ {0}
      BY <3>2, <2>3, <1>1
    <3>. QED
      BY <2>2, <3>1, <3>2
  <2>5. \E to \in PCs \ {"connecting", "call"} : pc' = [pc EXCEPT ![r] = to]
    BY <2>1, <2>2, <1>1
  <2>. QED
    BY <2>1, <2>4, <2>5 DEF Leaves
<1>6. CASE HandleResponse(r)
  <2>1. pc[r] = "reward" /\ UNCHANGED <<nodeLock, nodeList, nodeIndex>>
    BY <1>6 DEF HandleResponse, DecreaseBackoff
  <2>2. \/ pc' = [pc EXCEPT ![r] = "attempt"]
        \/ pc' = [pc EXCEPT ![r] = "waitForRetry"]
        \/ pc' = [pc EXCEPT ![r] = "done"]
    BY <1>6, Zenon DEF HandleResponse, TryNextNode, BackOff, Return
  <2>. QED
    BY <2>1, <2>2, <1>1 DEF Leaves
<1>7. CASE GiveUp(r) \/ SubmitCrashes(r) \/ RequestThrows(r)
  BY <1>1, <1>7 DEF GiveUp, SubmitCrashes, RequestThrows, Return, Leaves, nodeVars
<1>8. CASE \/ Execute(r) \/ BeginAttempt(r) \/ CheckHealthy(r) \/ WakeForNode(r)
           \/ ConnectedAlready(r) \/ WakeForRetry(r) \/ Penalize(r)
  <2>1. UNCHANGED <<nodeLock, nodeList, nodeIndex>>
    BY <1>8 DEF Execute, BeginAttempt, CheckHealthy, WakeForNode, ConnectedAlready, WakeForRetry,
                Penalize, IncreaseBackoff, nodeVars
  <2>2. ~Blocking(r) /\ \E to \in PCs \ {"connecting", "call"} : pc' = [pc EXCEPT ![r] = to]
    BY <1>8 DEF Execute, BeginAttempt, CheckHealthy, WakeForNode, ConnectedAlready, WakeForRetry,
                Penalize
  <2>. QED
    BY <2>1, <2>2, <1>1 DEF Leaves
<1>. QED
  BY <1>2, <1>3, <1>4, <1>5, <1>6, <1>7, <1>8 DEF Step

LEMMA MutexStep ==
    ASSUME TypeOK, MutexHeldWhileBlocking, [Next]_vars
    PROVE  MutexHeldWhileBlocking'
<1> SUFFICES ASSUME NEW n \in Nodes, NEW q \in Requests
             PROVE  (nodeLock[n] = q <=> Blocking(q) /\ NodeOf(q) = n)'
  BY DEF MutexHeldWhileBlocking
<1>1. nodeLock[n] = q <=> Blocking(q) /\ NodeOf(q) = n
  BY DEF MutexHeldWhileBlocking
<1>2. CASE UNCHANGED <<nodeLock, pc, nodeList, nodeIndex>>
  BY <1>1, <1>2 DEF Blocking, NodeOf
<1>3. ASSUME NEW r \in Requests, Step(r)
      PROVE  (nodeLock[n] = q <=> Blocking(q) /\ NodeOf(q) = n)'
  <2>1. /\ NodeOf(r) \in Nodes /\ nodeLock \in [Nodes -> Threads \cup {NoThread}]
        /\ pc \in [Requests -> PCs] /\ nodeIndex \in [Requests -> Nat \ {0}]
    BY NodeOfType DEF TypeOK, NodeTypeOK, ControlTypeOK, ChoiceTypeOK
  <2>2. q # NoThread /\ r # NoThread
    BY NoThreadAssumption DEF Requests
  <2>3. nodeLock[n] = r <=> Blocking(r) /\ NodeOf(r) = n
    BY DEF MutexHeldWhileBlocking
  <2>4. CASE Takes(r)
    <3>1. NodeOf(q)' = NodeOf(q)
      BY <2>4 DEF Takes, NodeOf
    <3>2. Blocking(q)' <=> q = r \/ Blocking(q)
      BY <2>1, <2>4 DEF Takes, Blocking
    <3>3. nodeLock'[n] = IF n = NodeOf(r) THEN r ELSE nodeLock[n]
      BY <2>1, <2>4 DEF Takes
    <3>4. nodeLock[NodeOf(r)] = NoThread
      BY <2>4 DEF Takes, LockFree
    <3>. QED
      BY <1>1, <2>2, <2>3, <2>4, <3>1, <3>2, <3>3, <3>4 DEF Takes
  <2>5. CASE GivesBack(r)
    <3>1. NodeOf(q)' = NodeOf(q)
      BY <2>5 DEF GivesBack, NodeOf
    <3>2. Blocking(q)' <=> q # r /\ Blocking(q)
      BY <2>1, <2>5 DEF GivesBack, Blocking
    <3>3. nodeLock'[n] = IF n = NodeOf(r) THEN NoThread ELSE nodeLock[n]
      BY <2>1, <2>5 DEF GivesBack
    <3>4. nodeLock[NodeOf(r)] = r
      BY <2>1, <2>5 DEF GivesBack, MutexHeldWhileBlocking
    <3>. QED
      BY <1>1, <2>2, <2>3, <3>1, <3>2, <3>3, <3>4
  <2>6. CASE Leaves(r)
    <3>1. q # r => NodeOf(q)' = NodeOf(q)
      BY <2>1, <2>6 DEF Leaves, NodeOf
    <3>2. Blocking(q)' <=> q # r /\ Blocking(q)
      BY <2>1, <2>6 DEF Leaves, Blocking
    <3>3. nodeLock'[n] = nodeLock[n] /\ ~Blocking(r)
      BY <2>6 DEF Leaves
    <3>. QED
      BY <1>1, <2>3, <3>1, <3>2, <3>3
  <2>. QED
    BY <1>3, <2>4, <2>5, <2>6, MutexUse
<1>. QED
  BY <1>2, <1>3 DEF Next, Tick, DropChannel, CloseChannel, vars, nodeVars, requestVars

(* Every path of execute that waits for a channel or for a call gives the node's mutex back: a      *)
(* thread that holds one is waiting for the network, never for another mutex.                      *)
THEOREM MutexCorrect == Spec => []MutexHeldWhileBlocking
<1>1. Init => MutexHeldWhileBlocking
  BY NoThreadAssumption DEF Init, NodeInit, MutexHeldWhileBlocking, Blocking, Requests
<1>2. TypeOK /\ MutexHeldWhileBlocking /\ [Next]_vars => MutexHeldWhileBlocking'
  BY MutexStep
<1>. QED
  BY <1>1, <1>2, TypeCorrect, PTL DEF Spec

(* Requests that share a node take turns: its stubs never carry two calls at a time.               *)
THEOREM OneCallAtATime == Spec => []OneCallPerNode
<1>1. TypeOK /\ MutexHeldWhileBlocking => OneCallPerNode
  BY NodeOfType DEF TypeOK, MutexHeldWhileBlocking, OneCallPerNode
<1>. QED
  BY <1>1, TypeCorrect, MutexCorrect, PTL

-----------------------------------------------------------------------------
(* A response that nobody sent is the empty one, and the result of an execution is judged from the *)
(* last response, which nothing overwrites any more.                                               *)
VerdictInvariant ==
    \A r \in Requests :
        /\ reply[r].grpc # "OK" => reply[r].response = EmptyResponse
        /\ outcome[r] = "success" => /\ pc[r] = "done"
                                     /\ DetermineStatus(Kind[r], reply[r].response) = "SUCCESS"

LEMMA VerdictStep ==
    ASSUME TypeOK, VerdictInvariant, NEW r \in Requests, Step(r)
    PROVE  VerdictInvariant'
<1> USE DEF VerdictInvariant, Goto
<1>1. /\ pc \in [Requests -> PCs] /\ reply \in [Requests -> [grpc : GrpcStatuses, response : Responses]]
      /\ DOMAIN outcome = Requests
  BY DEF TypeOK, ControlTypeOK, AnswerTypeOK
<1>2. CASE CallReturns(r)
  <2>1. pc[r] = "call" /\ UNCHANGED outcome
    BY <1>2 DEF CallReturns
  <2>2. PICK answer \in PossibleReplies(r) : reply' = [reply EXCEPT ![r] = answer]
    BY <1>2 DEF CallReturns
  <2>3. answer.grpc # "OK" => answer.response = EmptyResponse
    BY <2>2 DEF PossibleReplies
  <2>4. \A q \in Requests : pc[q] = "done" => q # r /\ pc'[q] = "done" /\ reply'[q] = reply[q]
    BY <1>1, <1>2, <2>1, <2>2 DEF CallReturns
  <2>. QED
    BY <1>1, <2>1, <2>2, <2>3, <2>4
<1>3. CASE HandleResponse(r)
  <2>1. UNCHANGED reply /\ pc[r] = "reward"
    BY <1>3 DEF HandleResponse
  <2>2. \/ /\ UNCHANGED outcome
           /\ \/ pc' = [pc EXCEPT ![r] = "attempt"]
              \/ pc' = [pc EXCEPT ![r] = "waitForRetry"]
        \/ /\ pc' = [pc EXCEPT ![r] = "done"]
           /\ \/ outcome' = [outcome EXCEPT ![r] = "PrecheckStatus"]
              \/ outcome' = [outcome EXCEPT ![r] = "ResponseThrew"]
        \/ /\ pc' = [pc EXCEPT ![r] = "done"] /\ outcome' = [outcome EXCEPT ![r] = "success"]
           /\ DetermineStatus(Kind[r], reply[r].response) = "SUCCESS"
    BY <1>3, Zenon DEF HandleResponse, TryNextNode, BackOff, Return
  <2>. QED
    BY <1>1, <2>1, <2>2
<1>4. CASE GiveUp(r) \/ SubmitCrashes(r) \/ RequestThrows(r)
  <2>1. /\ pc' = [pc EXCEPT ![r] = "done"] /\ UNCHANGED reply
        /\ \/ outcome' = [outcome EXCEPT ![r] = "MaxAttemptsExceeded"]
           \/ outcome' = [outcome EXCEPT ![r] = "crash"]
           \/ outcome' = [outcome EXCEPT ![r] = "RequestThrew"]
    BY <1>4 DEF GiveUp, SubmitCrashes, RequestThrows, Return
  <2>. QED
    BY <1>1, <2>1
<1>5. CASE /\ UNCHANGED <<reply, outcome>> /\ pc[r] # "done"
           /\ \E to : pc' = [pc EXCEPT ![r] = to]
  BY <1>1, <1>5
<1>6. CASE UNCHANGED <<reply, outcome, pc>>
  BY <1>6
<1>7. CASE ScanNode(r)
  BY <1>1, <1>7, <1>5, <1>6 DEF ScanNode, Choose
<1>8. CASE \/ Execute(r) \/ BeginAttempt(r) \/ CheckHealthy(r) \/ WakeForNode(r)
           \/ ConnectedAlready(r) \/ Connect(r) \/ ConnectReturns(r) \/ SubmitRequest(r)
           \/ Penalize(r) \/ WakeForRetry(r)
  BY <1>5, <1>8 DEF Execute, BeginAttempt, CheckHealthy, WakeForNode, ConnectedAlready, Connect,
                    ConnectReturns, SubmitRequest, Penalize, WakeForRetry
<1>. QED
  BY <1>2, <1>3, <1>4, <1>7, <1>8 DEF Step

(* A receipt query that succeeds hands out a receipt that a node sent and that is final, however   *)
(* its calls ended.                                                                                *)
THEOREM ReceiptsAreFinal == Spec => []ReceiptIsFinal
<1>1. Init => VerdictInvariant
  <2> SUFFICES ASSUME Init, NEW r \in Requests
               PROVE  reply[r].response = EmptyResponse /\ outcome[r] # "success"
    BY DEF VerdictInvariant
  <2>1. reply[r] = NoReply /\ outcome[r] = NoAnswer
    BY DEF Init
  <2>2. NoReply.response = EmptyResponse
    BY DEF NoReply
  <2>. QED
    BY <2>1, <2>2 DEF NoAnswer
<1>2. TypeOK /\ VerdictInvariant /\ [Next]_vars => VerdictInvariant'
  <2> SUFFICES ASSUME TypeOK, VerdictInvariant, [Next]_vars PROVE VerdictInvariant'
    OBVIOUS
  <2>1. CASE UNCHANGED <<pc, reply, outcome>>
    BY <2>1 DEF VerdictInvariant
  <2>. QED
    BY <2>1, VerdictStep DEF Next, Tick, DropChannel, vars, requestVars
<1>3. VerdictInvariant => ReceiptIsFinal
  <2> SUFFICES ASSUME VerdictInvariant, NEW r \in Requests, Kind[r] = "receiptQuery",
                      outcome[r] = "success"
               PROVE  reply[r].grpc = "OK"
                      /\ reply[r].response.receipt \notin NotReady \cup {"BUSY", "OK"}
    BY DEF ReceiptIsFinal
  <2>1. ReceiptStatus(reply[r].response) = "SUCCESS"
    BY DEF VerdictInvariant, DetermineStatus
  <2>2. reply[r].response.receipt \notin NotReady \cup {"BUSY", "OK"}
    BY <2>1 DEF ReceiptStatus, BaseStatus
  <2>3. reply[r].response # EmptyResponse
    BY <2>2 DEF EmptyResponse
  <2>. QED
    BY <2>2, <2>3 DEF VerdictInvariant
<1>. QED
  BY <1>1, <1>2, <1>3, TypeCorrect, PTL DEF Spec

=============================================================================
