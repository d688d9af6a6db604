--------------------------- MODULE RefinementProofs ---------------------------
(***************************************************************************)
(* The loop of Executable implements Request, for any number of requests,  *)
(* nodes and attempts, and deals with busy and penalised nodes as its       *)
(* observer demands.                                                        *)
(***************************************************************************)
EXTENDS ExecutableRefinement, ExecutableProofs, FiniteSetTheorems

ResultOf(r) == IF outcome[r] = NoAnswer THEN "none" ELSE outcome[r]

Undecided(r) == VerdictOf(r) \in {"none", "again"}

(* A request that goes on has not been given an answer that settles it; one that looks at a        *)
(* response was given it by a call; and it has a result exactly when it is over.                    *)
InLoop(r) ==
    /\ pc[r] \notin {"reward", "done"} => Undecided(r)
    /\ pc[r] = "reward" => reply[r].grpc \notin NodeUnusable \cup {NoAnswer}
    /\ outcome[r] # NoAnswer <=> pc[r] = "done"

PromiseInvariant == \A r \in Requests : InLoop(r)

(* A step of one request changes nothing of another.                                               *)
Alone(r) == \A q \in Requests \ {r} :
    /\ pc'[q] = pc[q] /\ attempt'[q] = attempt[q]
    /\ reply'[q] = reply[q] /\ outcome'[q] = outcome[q]
    /\ timer'[q] = timer[q] /\ NodeOf(q)' = NodeOf(q)

LEMMA StepAlone ==
    ASSUME TypeOK, NEW r \in Requests, Step(r)
    PROVE  Alone(r)
<1> USE DEF Alone, Goto, NodeOf
<1>1. /\ pc \in [Requests -> PCs] /\ DOMAIN attempt = Requests
      /\ DOMAIN reply = Requests /\ DOMAIN outcome = Requests
      /\ DOMAIN timer = Requests /\ DOMAIN nodeIndex = Requests
  BY DEF TypeOK, ControlTypeOK, AnswerTypeOK, TimeTypeOK, ChoiceTypeOK
<1>2. CASE HandleResponse(r)
  <2>1. UNCHANGED <<reply, nodeList, nodeIndex>>
    BY <1>2 DEF HandleResponse
  <2>2. /\ \E to : pc' = [pc EXCEPT ![r] = to]
        /\ UNCHANGED timer \/ timer' = [timer EXCEPT ![r] = backoff[r]]
        /\ UNCHANGED attempt \/ attempt' = [attempt EXCEPT ![r] = @ + 1]
        /\ UNCHANGED outcome \/ \E res : outcome' = [outcome EXCEPT ![r] = res]
    BY <1>2, Zenon DEF HandleResponse, TryNextNode, BackOff, Return
  <2>. QED
    BY <1>1, <2>1, <2>2
<1>3. CASE ScanNode(r)
  BY <1>1, <1>3 DEF ScanNode, Choose
<1>4. CASE CallReturns(r)
  BY <1>1, <1>4 DEF CallReturns
<1>5. CASE GiveUp(r) \/ SubmitCrashes(r) \/ RequestThrows(r)
  BY <1>1, <1>5 DEF GiveUp, SubmitCrashes, RequestThrows, Return
<1>6. CASE \/ Execute(r) \/ BeginAttempt(r) \/ CheckHealthy(r) \/ WakeForNode(r)
           \/ ConnectedAlready(r) \/ Connect(r) \/ ConnectReturns(r) \/ SubmitRequest(r)
           \/ Penalize(r) \/ WakeForRetry(r)
  BY <1>1, <1>6 DEF Execute, BeginAttempt, CheckHealthy, WakeForNode, ConnectedAlready, Connect,
                    ConnectReturns, SubmitRequest, Penalize, WakeForRetry
<1>. QED
  BY <1>2, <1>3, <1>4, <1>5, <1>6 DEF Step

(* What the promise sees of another request stays as it is.                                        *)
LEMMA AloneKeeps ==
    ASSUME NEW r \in Requests, Alone(r), NEW q \in Requests \ {r}
    PROVE  /\ PhaseOf(q)' = PhaseOf(q) /\ TriesOf(q)' = TriesOf(q)
           /\ VerdictOf(q)' = VerdictOf(q) /\ ResultOf(q)' = ResultOf(q)
           /\ Undecided(q)' <=> Undecided(q)
BY DEF Alone, PhaseOf, TriesOf, VerdictOf, ResultOf, Undecided

(* The verdict of a call that was answered depends on the class of its response alone.             *)
VerdictTable(r) ==
    LET status == DetermineStatus(Kind[r], reply[r].response) IN
    /\ reply[r].grpc # NoAnswer => VerdictOf(r) \in {"accepted", "rejected", "again"}
    /\ reply[r].grpc \in NodeUnusable => Undecided(r)
    /\ reply[r].grpc \notin NodeUnusable \cup {NoAnswer} =>
          /\ status = "SUCCESS" => VerdictOf(r) = "accepted"
          /\ status = "REQUEST_ERROR" => VerdictOf(r) = "rejected"
          /\ status \notin {"SUCCESS", "REQUEST_ERROR"} => Undecided(r)

LEMMA VerdictCases == \A r \in Requests : VerdictTable(r)
<1> SUFFICES ASSUME NEW r \in Requests PROVE VerdictTable(r)
  OBVIOUS
<1> DEFINE status == DetermineStatus(Kind[r], reply[r].response)
           code == reply[r].grpc
<1>1. VerdictOf(r) = IF code = NoAnswer THEN "none"
                     ELSE IF code \in NodeUnusable THEN "again"
                     ELSE CASE status = "SUCCESS"       -> "accepted"
                            [] status = "REQUEST_ERROR" -> "rejected"
                            [] OTHER                    -> "again"
  BY DEF VerdictOf
<1>2. NoAnswer \notin NodeUnusable
  BY DEF NoAnswer, NodeUnusable
<1> HIDE DEF status, code
<1>3. /\ code # NoAnswer => VerdictOf(r) \in {"accepted", "rejected", "again"}
      /\ code \in NodeUnusable => Undecided(r)
      /\ code \notin NodeUnusable \cup {NoAnswer} =>
            /\ status = "SUCCESS" => VerdictOf(r) = "accepted"
            /\ status = "REQUEST_ERROR" => VerdictOf(r) = "rejected"
            /\ status \notin {"SUCCESS", "REQUEST_ERROR"} => Undecided(r)
  BY <1>1, <1>2 DEF Undecided
<1>. QED
  BY <1>3 DEF VerdictTable, status, code

LEMMA VerdictCasesNext == (\A r \in Requests : VerdictTable(r))'
BY VerdictCases, PTL

-----------------------------------------------------------------------------
(* The moves of Request, told of one request.                                                      *)
Same(r) ==
    /\ PhaseOf(r)' = PhaseOf(r) /\ TriesOf(r)' = TriesOf(r)
    /\ VerdictOf(r)' = VerdictOf(r) /\ ResultOf(r)' = ResultOf(r)

Begins(r) ==
    /\ PhaseOf(r) = "idle" /\ PhaseOf(r)' = "ready"
    /\ TriesOf(r)' = TriesOf(r) /\ VerdictOf(r)' = VerdictOf(r) /\ ResultOf(r)' = ResultOf(r)

Tries(r) ==
    /\ PhaseOf(r) = "ready" /\ PhaseOf(r)' \in {"ready", "waiting"}
    /\ Undecided(r) /\ TriesOf(r) < MaxAttempts /\ TriesOf(r)' = TriesOf(r) + 1
    /\ VerdictOf(r)' = VerdictOf(r) /\ ResultOf(r)' = ResultOf(r)

Answers(r) ==
    /\ PhaseOf(r) = "waiting" /\ PhaseOf(r)' = "ready"
    /\ VerdictOf(r)' \in {"accepted", "rejected", "again"}
    /\ TriesOf(r)' = TriesOf(r) /\ ResultOf(r)' = ResultOf(r)

Refuses(r) ==
    /\ PhaseOf(r) = "idle" /\ PhaseOf(r)' = "ended"
    /\ ResultOf(r)' = "RequestThrew"
    /\ TriesOf(r)' = TriesOf(r) /\ VerdictOf(r)' = VerdictOf(r)

Finishes(r) ==
    /\ PhaseOf(r) = "ready" /\ PhaseOf(r)' = "ended"
    /\ \/ VerdictOf(r) = "accepted" /\ ResultOf(r)' = "success"
       \/ VerdictOf(r) = "rejected" /\ ResultOf(r)' = "PrecheckStatus"
       \/ VerdictOf(r) \in {"accepted", "again"} /\ ResultOf(r)' = "ResponseThrew"
       \/ Undecided(r) /\ ResultOf(r)' = "MaxAttemptsExceeded" /\ TriesOf(r) = MaxAttempts
       \/ Undecided(r) /\ ResultOf(r)' \in {"RequestThrew", "crash"}
    /\ TriesOf(r)' = TriesOf(r) /\ VerdictOf(r)' = VerdictOf(r)

(* Places of the loop between which a request moves without the promise taking notice: before the  *)
(* attempt is used up, and after.                                                                  *)
Unused == {"attempt", "scan", "check", "waitForNode", "connect", "connecting", "submit"}
Used == {"penalize", "reward", "waitForRetry"}

(* What is shown of a request at each of its places.                                               *)
PlaceTable(r) ==
    pc[r] \in PCs /\ InLoop(r) =>
        /\ pc[r] = "start" => PhaseOf(r) = "idle" /\ TriesOf(r) = attempt[r]
        /\ pc[r] = "call" => PhaseOf(r) = "waiting" /\ TriesOf(r) = attempt[r] + 1
        /\ pc[r] \in Unused => PhaseOf(r) = "ready" /\ TriesOf(r) = attempt[r]
        /\ pc[r] \in Used => PhaseOf(r) = "ready" /\ TriesOf(r) = attempt[r] + 1
        /\ pc[r] = "done" =>
              /\ PhaseOf(r) = "ended"
              /\ TriesOf(r) = IF outcome[r] \in {"success", "PrecheckStatus", "ResponseThrew"}
                              THEN attempt[r] + 1 ELSE attempt[r]
        /\ pc[r] # "done" => ResultOf(r) = "none"
        /\ pc[r] = "done" => ResultOf(r) = outcome[r]

LEMMA PlaceCases == \A r \in Requests : PlaceTable(r)
<1> SUFFICES ASSUME NEW r \in Requests, pc[r] \in PCs, InLoop(r) PROVE PlaceTable(r)
  BY DEF PlaceTable
<1>1. pc[r] # "done" => outcome[r] = NoAnswer
  BY DEF InLoop
<1>2. PhaseOf(r) = CASE pc[r] = "start" -> "idle"
                     [] pc[r] = "call"  -> "waiting"
                     [] pc[r] = "done"  -> "ended"
                     [] OTHER           -> "ready"
  BY DEF PhaseOf
<1>3. pc[r] \in Unused \cup Used => PhaseOf(r) = "ready"
  BY <1>2 DEF Unused, Used
<1>4. /\ pc[r] = "start" => PhaseOf(r) = "idle"
      /\ pc[r] = "call" => PhaseOf(r) = "waiting"
      /\ pc[r] = "done" => PhaseOf(r) = "ended"
  BY <1>2
<1>5. NoAnswer \notin {"success", "PrecheckStatus", "ResponseThrew"}
  BY DEF NoAnswer
<1>6. /\ pc[r] \in {"start"} \cup Unused => TriesOf(r) = attempt[r]
      /\ pc[r] \in {"call"} \cup Used => TriesOf(r) = attempt[r] + 1
      /\ pc[r] = "done" => TriesOf(r) = IF outcome[r] \in {"success", "PrecheckStatus", "ResponseThrew"}
                                        THEN attempt[r] + 1 ELSE attempt[r]
  BY <1>1, <1>5 DEF TriesOf, Unused, Used
<1>7. /\ pc[r] # "done" => ResultOf(r) = "none"
      /\ pc[r] = "done" => ResultOf(r) = outcome[r]
  BY <1>1 DEF ResultOf, InLoop
<1>. QED
  BY <1>3, <1>4, <1>6, <1>7 DEF PlaceTable

LEMMA PlaceCasesNext == (\A r \in Requests : PlaceTable(r))'
BY PlaceCases, PTL

-----------------------------------------------------------------------------
(* What a step does to the variables the mapping reads, and from it, which move it is.             *)
LEMMA SilentMove ==
    ASSUME NEW r \in Requests, pc[r] \in PCs, InLoop(r), attempt[r] \in Nat,
           reply'[r] = reply[r], outcome'[r] = outcome[r],
           \/ pc[r] \in Unused /\ pc'[r] \in Unused /\ attempt'[r] = attempt[r]
           \/ pc[r] \in Used /\ pc'[r] = "attempt" /\ attempt'[r] = attempt[r] + 1 /\ Undecided(r)
           \/ pc[r] \in Used /\ pc'[r] = "waitForRetry" /\ attempt'[r] = attempt[r] /\ Undecided(r)
    PROVE  Same(r) /\ InLoop(r)'
<1>1. PlaceTable(r) /\ PlaceTable(r)'
  BY PlaceCases, PlaceCasesNext
<1>2. VerdictOf(r)' = VerdictOf(r) /\ ResultOf(r)' = ResultOf(r) /\ Undecided(r)' = Undecided(r)
  BY DEF VerdictOf, ResultOf, Undecided
<1>3. pc'[r] \in PCs \ {"start", "call", "reward", "done"}
  BY DEF PCs, Unused, Used
<1>4. pc[r] # "done" /\ Undecided(r)
  BY DEF InLoop, Unused, Used
<1>5. InLoop(r)'
  BY <1>2, <1>3, <1>4 DEF InLoop
<1>. QED
  BY <1>1, <1>2, <1>3, <1>5 DEF PlaceTable, Same, Unused, Used

LEMMA TryMove ==
    ASSUME NEW r \in Requests, pc[r] \in PCs, InLoop(r), attempt[r] \in Nat,
           attempt[r] < MaxAttempts, MaxAttempts \in Nat,
           reply'[r] = reply[r], outcome'[r] = outcome[r], attempt'[r] = attempt[r],
           pc[r] \in Unused, pc'[r] \in {"penalize", "call"}
    PROVE  Tries(r) /\ InLoop(r)'
<1>1. PlaceTable(r) /\ PlaceTable(r)'
  BY PlaceCases, PlaceCasesNext
<1>2. VerdictOf(r)' = VerdictOf(r) /\ ResultOf(r)' = ResultOf(r) /\ Undecided(r)' = Undecided(r)
  BY DEF VerdictOf, ResultOf, Undecided
<1>3. pc[r] # "done" /\ Undecided(r)
  BY DEF InLoop, Unused
<1>4. InLoop(r)'
  BY <1>2, <1>3 DEF InLoop
<1>5. pc'[r] \in PCs
  BY DEF PCs
<1>. QED
  BY <1>1, <1>2, <1>3, <1>4, <1>5 DEF PlaceTable, Tries, Used

LEMMA AnswerMove ==
    ASSUME NEW r \in Requests, pc[r] = "call", InLoop(r), attempt[r] \in Nat,
           outcome'[r] = outcome[r], attempt'[r] = attempt[r],
           reply'[r].grpc # NoAnswer,
           pc'[r] = IF reply'[r].grpc \in NodeUnusable THEN "penalize" ELSE "reward"
    PROVE  Answers(r) /\ InLoop(r)'
<1>1. PlaceTable(r) /\ PlaceTable(r)'
  BY PlaceCases, PlaceCasesNext
<1>2. VerdictTable(r)'
  BY VerdictCasesNext
<1>3. ResultOf(r)' = ResultOf(r)
  BY DEF ResultOf
<1>4. outcome'[r] = NoAnswer
  BY DEF InLoop
<1>5. VerdictOf(r)' \in {"accepted", "rejected", "again"}
  BY <1>2 DEF VerdictTable
<1>6. reply'[r].grpc \in NodeUnusable => Undecided(r)'
  BY <1>2 DEF VerdictTable
<1>7. InLoop(r)'
  BY <1>4, <1>6 DEF InLoop
<1>8. pc[r] \in PCs /\ pc'[r] \in PCs /\ pc'[r] \in Used
  BY DEF PCs, Used
<1>. QED
  BY <1>1, <1>3, <1>5, <1>7, <1>8 DEF PlaceTable, Answers

LEMMA FinishMove ==
    ASSUME NEW r \in Requests, pc[r] \in PCs, InLoop(r), attempt[r] \in 0..MaxAttempts,
           MaxAttempts \in Nat, reply'[r] = reply[r], attempt'[r] = attempt[r],
           pc'[r] = "done",
           \/ pc[r] = "reward" /\ VerdictOf(r) = "accepted" /\ outcome'[r] = "success"
           \/ pc[r] = "reward" /\ VerdictOf(r) = "rejected" /\ outcome'[r] = "PrecheckStatus"
           \/ /\ pc[r] = "reward" /\ VerdictOf(r) \in {"accepted", "again"}
              /\ outcome'[r] = "ResponseThrew"
           \/ /\ pc[r] = "attempt" /\ attempt[r] >= MaxAttempts
              /\ outcome'[r] = "MaxAttemptsExceeded"
           \/ pc[r] = "submit" /\ outcome'[r] \in {"RequestThrew", "crash"}
    PROVE  Finishes(r) /\ InLoop(r)'
<1>1. PlaceTable(r) /\ PlaceTable(r)'
  BY PlaceCases, PlaceCasesNext
<1>2. VerdictOf(r)' = VerdictOf(r)
  BY DEF VerdictOf
<1>3. InLoop(r)'
  BY DEF InLoop, NoAnswer
<1>4. pc'[r] \in PCs
  BY DEF PCs
<1>5. pc[r] \in {"attempt", "submit"} => Undecided(r)
  BY DEF InLoop
<1>6. /\ PhaseOf(r)' = "ended" /\ ResultOf(r)' = outcome'[r]
      /\ TriesOf(r)' = IF outcome'[r] \in {"success", "PrecheckStatus", "ResponseThrew"}
                       THEN attempt[r] + 1 ELSE attempt[r]
  BY <1>1, <1>3, <1>4 DEF PlaceTable
<1>7. /\ PhaseOf(r) = "ready"
      /\ TriesOf(r) = IF pc[r] = "reward" THEN attempt[r] + 1 ELSE attempt[r]
  BY <1>1 DEF PlaceTable, Unused, Used
<1>. QED
  BY <1>2, <1>3, <1>5, <1>6, <1>7 DEF Finishes

LEMMA RefuseMove ==
    ASSUME NEW r \in Requests, pc[r] = "start", InLoop(r), pc'[r] = "done",
           reply'[r] = reply[r], attempt'[r] = attempt[r], outcome'[r] = "RequestThrew"
    PROVE  Refuses(r) /\ InLoop(r)'
<1>1. PlaceTable(r) /\ PlaceTable(r)'
  BY PlaceCases, PlaceCasesNext
<1>2. VerdictOf(r)' = VerdictOf(r)
  BY DEF VerdictOf
<1>3. InLoop(r)'
  BY DEF InLoop, NoAnswer
<1>4. pc[r] \in PCs /\ pc'[r] \in PCs
  BY DEF PCs
<1>. QED
  BY <1>1, <1>2, <1>3, <1>4 DEF PlaceTable, Refuses

Moves(r) == Same(r) \/ Begins(r) \/ Tries(r) \/ Answers(r) \/ Refuses(r) \/ Finishes(r)

(* Every step of a request is one move of the promise, or none.                                    *)
LEMMA StepMoves ==
    ASSUME TypeOK, AttemptLeft, PromiseInvariant, NEW r \in Requests, Step(r)
    PROVE  Moves(r) /\ InLoop(r)'
<1> USE DEF Goto
<1>1. /\ pc \in [Requests -> PCs] /\ attempt \in [Requests -> 0..MaxAttempts]
      /\ reply \in [Requests -> [grpc : GrpcStatuses, response : Responses]]
      /\ DOMAIN outcome = Requests /\ MaxAttempts \in Nat
  BY RequestAssumption DEF TypeOK, ControlTypeOK, AnswerTypeOK
<1>2. pc[r] \in PCs /\ attempt[r] \in 0..MaxAttempts /\ attempt[r] \in Nat /\ InLoop(r)
  BY <1>1 DEF PromiseInvariant
<1>3. pc[r] \in Unused \ {"attempt"} => attempt[r] < MaxAttempts
  BY DEF AttemptLeft, Unused
<1>4. CASE Execute(r)
  <2>1. /\ pc[r] = "start" /\ pc'[r] = "attempt"
        /\ attempt'[r] = attempt[r] /\ reply'[r] = reply[r] /\ outcome'[r] = outcome[r]
    BY <1>1, <1>4 DEF Execute
  <2>2. PlaceTable(r) /\ PlaceTable(r)'
    BY PlaceCases, PlaceCasesNext
  <2>3. /\ VerdictOf(r)' = VerdictOf(r) /\ ResultOf(r)' = ResultOf(r)
        /\ Undecided(r)' = Undecided(r)
    BY <2>1 DEF VerdictOf, ResultOf, Undecided
  <2>4. InLoop(r)'
    BY <1>2, <2>1, <2>3 DEF InLoop
  <2>. QED
    BY <1>2, <2>1, <2>2, <2>3, <2>4 DEF PlaceTable, Begins, Moves, PCs, Unused
<1>5. CASE /\ pc[r] \in Unused /\ pc'[r] \in Unused
           /\ attempt'[r] = attempt[r] /\ reply'[r] = reply[r] /\ outcome'[r] = outcome[r]
  BY <1>2, <1>5, SilentMove DEF Moves
<1>6. CASE ScanNode(r) \/ BeginAttempt(r) \/ CheckHealthy(r) \/ WakeForNode(r)
           \/ ConnectedAlready(r) \/ Connect(r)
  <2>1. CASE ScanNode(r)
    BY <1>1, <1>5, <2>1 DEF ScanNode, Choose, Unused
  <2>2. CASE BeginAttempt(r) \/ CheckHealthy(r) \/ WakeForNode(r) \/ ConnectedAlready(r)
             \/ Connect(r)
    BY <1>1, <1>5, <2>2 DEF BeginAttempt, CheckHealthy, WakeForNode, ConnectedAlready, Connect,
                            Unused
  <2>. QED
    BY <1>6, <2>1, <2>2
<1>7. CASE ConnectReturns(r)
  <2>1. /\ attempt'[r] = attempt[r] /\ reply'[r] = reply[r] /\ outcome'[r] = outcome[r]
        /\ pc[r] = "connecting" /\ pc'[r] \in {"submit", "penalize"}
    BY <1>1, <1>7 DEF ConnectReturns
  <2>2. CASE pc'[r] = "submit"
    BY <1>5, <2>1, <2>2 DEF Unused
  <2>3. CASE pc'[r] = "penalize"
    BY <1>1, <1>2, <1>3, <2>1, <2>3, TryMove DEF Unused, Moves
  <2>. QED
    BY <2>1, <2>2, <2>3
<1>8. CASE SubmitRequest(r)
  <2>1. /\ attempt'[r] = attempt[r] /\ reply'[r] = reply[r] /\ outcome'[r] = outcome[r]
        /\ pc[r] = "submit" /\ pc'[r] = "call"
    BY <1>1, <1>8 DEF SubmitRequest
  <2>. QED
    BY <1>1, <1>2, <1>3, <2>1, TryMove DEF Unused, Moves
<1>9. CASE SubmitCrashes(r) \/ RequestThrows(r)
  <2>1. /\ attempt'[r] = attempt[r] /\ reply'[r] = reply[r] /\ pc'[r] = "done"
        /\ \/ pc[r] = "start" /\ outcome'[r] = "RequestThrew"
           \/ pc[r] = "submit" /\ outcome'[r] \in {"RequestThrew", "crash"}
    BY <1>1, <1>9 DEF SubmitCrashes, RequestThrows, Return
  <2>2. CASE pc[r] = "start"
    BY <1>2, <2>1, <2>2, RefuseMove DEF Moves
  <2>3. CASE pc[r] = "submit"
    BY <1>1, <1>2, <2>1, <2>3, FinishMove DEF Moves
  <2>. QED
    BY <2>1, <2>2, <2>3
<1>10. CASE CallReturns(r)
  <2>1. PICK answer \in PossibleReplies(r) :
          /\ reply' = [reply EXCEPT ![r] = answer]
          /\ pc' = [pc EXCEPT ![r] = IF answer.grpc \in NodeUnusable THEN "penalize"
                                                                     ELSE "reward"]
    BY <1>10 DEF CallReturns
  <2>2. answer.grpc # NoAnswer
    <3>1. answer.grpc \in GrpcCodes \cup {"OK", "DEADLINE_EXCEEDED"}
      BY DEF PossibleReplies
    <3>2. NoAnswer \notin {"OK", "DEADLINE_EXCEEDED"}
      BY DEF NoAnswer
    <3>. QED
      BY <3>1, <3>2, AnswerAssumption
  <2>3. pc[r] = "call" /\ attempt'[r] = attempt[r] /\ outcome'[r] = outcome[r]
    BY <1>10 DEF CallReturns
  <2>4. reply'[r] = answer
    BY <1>1, <2>1
  <2>5. pc'[r] = IF reply'[r].grpc \in NodeUnusable THEN "penalize" ELSE "reward"
    BY <1>1, <2>1, <2>4
  <2>. QED
    BY <1>2, <2>2, <2>3, <2>4, <2>5, AnswerMove DEF Moves
<1>11. CASE Penalize(r) \/ WakeForRetry(r)
  <2>1. /\ reply'[r] = reply[r] /\ outcome'[r] = outcome[r] /\ attempt'[r] = attempt[r] + 1
        /\ pc[r] \in {"penalize", "waitForRetry"} /\ pc'[r] = "attempt"
    BY <1>1, <1>11 DEF Penalize, WakeForRetry
  <2>2. Undecided(r)
    BY <1>2, <2>1 DEF InLoop
  <2>. QED
    BY <1>2, <2>1, <2>2, SilentMove DEF Used, Moves
<1>12. CASE HandleResponse(r)
  <2> DEFINE status == DetermineStatus(Kind[r], reply[r].response)
  <2>1. pc[r] = "reward" /\ UNCHANGED reply
    BY <1>12 DEF HandleResponse
  <2>2. VerdictTable(r) /\ reply[r].grpc \notin NodeUnusable \cup {NoAnswer}
    BY <1>2, <2>1, VerdictCases DEF InLoop
  <2>3. \/ /\ status = "SERVER_ERROR" /\ pc' = [pc EXCEPT ![r] = "attempt"]
           /\ attempt' = [attempt EXCEPT ![r] = @ + 1] /\ UNCHANGED outcome
        \/ /\ status \in {"SERVER_ERROR", "RETRY"} /\ pc' = [pc EXCEPT ![r] = "waitForRetry"]
           /\ UNCHANGED <<attempt, outcome>>
        \/ /\ status = "REQUEST_ERROR" /\ pc' = [pc EXCEPT ![r] = "done"]
           /\ outcome' = [outcome EXCEPT ![r] = "PrecheckStatus"] /\ UNCHANGED attempt
        \/ /\ status = "SUCCESS" /\ pc' = [pc EXCEPT ![r] = "done"]
           /\ outcome' = [outcome EXCEPT ![r] = "success"] /\ UNCHANGED attempt
        \/ /\ MayThrow(Kind[r], status) /\ pc' = [pc EXCEPT ![r] = "done"]
           /\ outcome' = [outcome EXCEPT ![r] = "ResponseThrew"] /\ UNCHANGED attempt
    BY <1>12, Zenon DEF HandleResponse, TryNextNode, BackOff, Return
  <2>4. /\ MayThrow(Kind[r], status) => VerdictOf(r) \in {"accepted", "again"}
        /\ status \in {"SERVER_ERROR", "RETRY"} => Undecided(r)
        /\ status = "REQUEST_ERROR" => VerdictOf(r) = "rejected"
        /\ status = "SUCCESS" => VerdictOf(r) = "accepted"
    BY <2>2 DEF VerdictTable, MayThrow, Undecided
  <2> HIDE DEF status
  <2>5. CASE /\ status = "SERVER_ERROR" /\ pc' = [pc EXCEPT ![r] = "attempt"]
             /\ attempt' = [attempt EXCEPT ![r] = @ + 1] /\ UNCHANGED outcome
    BY <1>1, <1>2, <2>1, <2>4, <2>5, SilentMove DEF Used, Moves
  <2>6. CASE /\ status \in {"SERVER_ERROR", "RETRY"} /\ pc' = [pc EXCEPT ![r] = "waitForRetry"]
             /\ UNCHANGED <<attempt, outcome>>
    BY <1>1, <1>2, <2>1, <2>4, <2>6, SilentMove DEF Used, Moves
  <2>7. CASE /\ status = "REQUEST_ERROR" /\ pc' = [pc EXCEPT ![r] = "done"]
             /\ outcome' = [outcome EXCEPT ![r] = "PrecheckStatus"] /\ UNCHANGED attempt
    BY <1>1, <1>2, <2>1, <2>4, <2>7, FinishMove DEF Moves
  <2>8. CASE /\ status = "SUCCESS" /\ pc' = [pc EXCEPT ![r] = "done"]
             /\ outcome' = [outcome EXCEPT ![r] = "success"] /\ UNCHANGED attempt
    BY <1>1, <1>2, <2>1, <2>4, <2>8, FinishMove DEF Moves
  <2>9. CASE /\ MayThrow(Kind[r], status) /\ pc' = [pc EXCEPT ![r] = "done"]
             /\ outcome' = [outcome EXCEPT ![r] = "ResponseThrew"] /\ UNCHANGED attempt
    BY <1>1, <1>2, <2>1, <2>4, <2>9, FinishMove DEF Moves
  <2>. QED
    BY <2>3, <2>5, <2>6, <2>7, <2>8, <2>9
<1>13. CASE GiveUp(r)
  <2>1. /\ pc[r] = "attempt" /\ attempt[r] >= MaxAttempts /\ pc'[r] = "done"
        /\ outcome'[r] = "MaxAttemptsExceeded"
        /\ attempt'[r] = attempt[r] /\ reply'[r] = reply[r]
    BY <1>1, <1>13 DEF GiveUp, Return
  <2>. QED
    BY <1>1, <1>2, <2>1, FinishMove DEF Moves
<1>. QED
  BY <1>4, <1>6, <1>7, <1>8, <1>9, <1>10, <1>11, <1>12, <1>13 DEF Step

-----------------------------------------------------------------------------
(* One request moves and the others stay: a step of Request, through the mapping.                  *)
LEMMA MovesMap ==
    ASSUME NEW r \in Requests, Moves(r),
           \A q \in Requests \ {r} : Same(q)
    PROVE  [Promise!PromiseNext]_(Promise!promiseVars)
<1> DEFINE phase == [q \in Requests |-> PhaseOf(q)]
           tries == [q \in Requests |-> TriesOf(q)]
           verdict == [q \in Requests |-> VerdictOf(q)]
           result == [q \in Requests |-> ResultOf(q)]
<1>1. /\ phase' = [phase EXCEPT ![r] = PhaseOf(r)']
      /\ tries' = [tries EXCEPT ![r] = TriesOf(r)']
      /\ verdict' = [verdict EXCEPT ![r] = VerdictOf(r)']
      /\ result' = [result EXCEPT ![r] = ResultOf(r)']
  BY DEF Same
<1>2. /\ PhaseOf(r)' = PhaseOf(r) => phase' = phase
      /\ TriesOf(r)' = TriesOf(r) => tries' = tries
      /\ VerdictOf(r)' = VerdictOf(r) => verdict' = verdict
      /\ ResultOf(r)' = ResultOf(r) => result' = result
  BY <1>1
<1>3. /\ phase[r] = PhaseOf(r) /\ tries[r] = TriesOf(r)
      /\ verdict[r] = VerdictOf(r) /\ result[r] = ResultOf(r)
  OBVIOUS
<1> HIDE DEF phase, tries, verdict, result
<1>4. CASE Same(r)
  <2>1. /\ phase' = phase /\ tries' = tries /\ verdict' = verdict /\ result' = result
    BY <1>2, <1>4 DEF Same
  <2>2. UNCHANGED Promise!promiseVars
    BY <2>1 DEF Promise!promiseVars, phase, tries, verdict, result, ResultOf
  <2>. QED
    BY <2>2
<1>5. CASE Begins(r)
  <2>1. /\ phase[r] = "idle" /\ phase' = [phase EXCEPT ![r] = "ready"]
        /\ tries' = tries /\ verdict' = verdict /\ result' = result
    BY <1>1, <1>2, <1>3, <1>5 DEF Begins
  <2>2. Promise!Begin(r)
    BY <2>1 DEF Promise!Begin, Promise!Move, phase, tries, verdict, result, ResultOf
  <2>. QED
    BY <2>2 DEF Promise!PromiseNext
<1>6. CASE Tries(r)
  <2>1. /\ phase[r] = "ready" /\ PhaseOf(r)' \in {"ready", "waiting"}
        /\ phase' = [phase EXCEPT ![r] = PhaseOf(r)']
        /\ verdict[r] \notin {"accepted", "rejected"} /\ tries[r] < MaxAttempts
        /\ tries' = [tries EXCEPT ![r] = @ + 1] /\ verdict' = verdict /\ result' = result
    BY <1>1, <1>2, <1>3, <1>6 DEF Tries, Undecided
  <2>2. Promise!Miss(r) \/ Promise!Call(r)
    BY <2>1 DEF Promise!Miss, Promise!Call, Promise!UseAttempt, Promise!Settled, Promise!Move,
                phase, tries, verdict, result, ResultOf
  <2>. QED
    BY <2>2 DEF Promise!PromiseNext
<1>7. CASE Answers(r)
  <2>1. /\ phase[r] = "waiting" /\ phase' = [phase EXCEPT ![r] = "ready"]
        /\ \E v \in {"accepted", "rejected", "again"} : verdict' = [verdict EXCEPT ![r] = v]
        /\ tries' = tries /\ result' = result
    BY <1>1, <1>2, <1>3, <1>7 DEF Answers
  <2>2. Promise!Answer(r)
    BY <2>1 DEF Promise!Answer, Promise!Move, phase, tries, verdict, result, ResultOf
  <2>. QED
    BY <2>2 DEF Promise!PromiseNext
<1>8. CASE Finishes(r)
  <2> DEFINE res == ResultOf(r)'
  <2>1. /\ phase[r] = "ready" /\ phase' = [phase EXCEPT ![r] = "ended"]
        /\ result' = [result EXCEPT ![r] = res]
        /\ tries' = tries /\ verdict' = verdict
    BY <1>1, <1>2, <1>3, <1>8 DEF Finishes
  <2>2. \/ res = "success" /\ verdict[r] = "accepted"
        \/ res = "PrecheckStatus" /\ verdict[r] = "rejected"
        \/ res = "ResponseThrew" /\ verdict[r] \in {"accepted", "again"}
        \/ /\ res = "MaxAttemptsExceeded"
           /\ verdict[r] \notin {"accepted", "rejected"} /\ tries[r] = MaxAttempts
        \/ res \in {"RequestThrew", "crash"} /\ verdict[r] \notin {"accepted", "rejected"}
    BY <1>3, <1>8 DEF Finishes, Undecided
  <2> HIDE DEF res
  <2>3. Promise!Ending(r, res)
    BY <2>2 DEF Promise!Ending, Promise!Settled, tries, verdict
  <2>4. res \in {"success", "PrecheckStatus", "MaxAttemptsExceeded", "RequestThrew",
                 "ResponseThrew", "crash"}
    BY <2>2
  <2>5. Promise!Finish(r)
    BY <2>1, <2>3, <2>4 DEF Promise!Finish, Promise!Move, phase, tries, verdict, result, ResultOf
  <2>. QED
    BY <2>5 DEF Promise!PromiseNext
<1>9. CASE Refuses(r)
  <2>1. /\ phase[r] = "idle" /\ phase' = [phase EXCEPT ![r] = "ended"]
        /\ result' = [result EXCEPT ![r] = "RequestThrew"]
        /\ tries' = tries /\ verdict' = verdict
    BY <1>1, <1>2, <1>3, <1>9 DEF Refuses
  <2>2. Promise!Refuse(r)
    BY <2>1 DEF Promise!Refuse, Promise!Move, phase, tries, verdict, result, ResultOf
  <2>. QED
    BY <2>2 DEF Promise!PromiseNext
<1>. QED
  BY <1>4, <1>5, <1>6, <1>7, <1>8, <1>9 DEF Moves

(* The promise is kept by any number of requests that share nodes, whatever the nodes answer and    *)
(* whichever channels are closed under them: a settled answer is the last one asked for and decides *)
(* the outcome, and without one only the last attempt gives up, unless the request cannot be made   *)
(* or read, or the process is gone.                                                                *)
THEOREM PromiseKept == Spec => KeepsPromise
<1>1. Init => Promise!PromiseInit
  <2> SUFFICES ASSUME Init PROVE Promise!PromiseInit
    OBVIOUS
  <2>1. \A r \in Requests : /\ pc[r] = "start" /\ attempt[r] = 0 /\ reply[r].grpc = NoAnswer
                            /\ outcome[r] = NoAnswer
    BY DEF Init, NoReply
  <2>2. \A r \in Requests : /\ PhaseOf(r) = "idle" /\ TriesOf(r) = 0 /\ VerdictOf(r) = "none"
                            /\ outcome[r] = NoAnswer
    BY <2>1 DEF PhaseOf, TriesOf, VerdictOf, NoAnswer
  <2>. QED
    BY <2>2 DEF Promise!PromiseInit
<1>2. Init => PromiseInvariant
  <2> SUFFICES ASSUME Init, NEW r \in Requests PROVE InLoop(r)
    BY DEF PromiseInvariant
  <2>1. pc[r] = "start" /\ reply[r].grpc = NoAnswer /\ outcome[r] = NoAnswer
    BY DEF Init, NoReply
  <2>. QED
    BY <2>1 DEF InLoop, Undecided, VerdictOf
<1>3. TypeInvariant /\ PromiseInvariant /\ [Next]_vars =>
          PromiseInvariant' /\ [Promise!PromiseNext]_(Promise!promiseVars)
  <2> SUFFICES ASSUME TypeInvariant, PromiseInvariant, [Next]_vars
               PROVE  PromiseInvariant' /\ [Promise!PromiseNext]_(Promise!promiseVars)
    OBVIOUS
  <2>1. ASSUME NEW r \in Requests, Step(r)
        PROVE  PromiseInvariant' /\ [Promise!PromiseNext]_(Promise!promiseVars)
    <3>1. Moves(r) /\ InLoop(r)' /\ Alone(r)
      BY <2>1, StepMoves, StepAlone DEF TypeInvariant
    <3>2. \A q \in Requests \ {r} : Same(q)
      BY <3>1, AloneKeeps DEF Same
    <3>3. \A q \in Requests \ {r} : InLoop(q)'
      BY <3>1, AloneKeeps DEF Alone, InLoop, PromiseInvariant
    <3>. QED
      BY <3>1, <3>2, <3>3, MovesMap DEF PromiseInvariant
  <2>2. CASE UNCHANGED <<pc, attempt, reply, outcome>>
    <3>1. \A r \in Requests : Same(r) /\ InLoop(r)'
      BY <2>2 DEF Same, InLoop, PhaseOf, TriesOf, VerdictOf, ResultOf, Undecided,
                  PromiseInvariant
    <3>2. UNCHANGED Promise!promiseVars
      BY <3>1 DEF Promise!promiseVars, Same, ResultOf
    <3>. QED
      BY <3>1, <3>2 DEF PromiseInvariant
  <2>. QED
    BY <2>1, <2>2 DEF Next, Tick, DropChannel, vars, requestVars
<1>. QED
  BY <1>1, <1>2, <1>3, TypeInductive, PTL
  DEF Spec, KeepsPromise, Promise!PromiseSpec

-----------------------------------------------------------------------------
(* What the loop knows of busy nodes is what the observer saw: the map of responses names as BUSY  *)
(* the nodes whose last answer was, and no node it was not answered by.                             *)
Observed(r) ==
    pc[r] # "done" =>
        /\ busyNodes[r] = {n \in Nodes : nodeResponses[r][n] = "BUSY"}
        /\ Answered(nodeResponses[r]) \subseteq Range(nodeList[r])

ObserverInvariant == \A r \in Requests : Observed(r)

(* A list has at most as many nodes as positions, and exactly as many when it names none twice.    *)
LEMMA NodesOfList ==
    ASSUME NEW list \in NodeLists
    PROVE  /\ IsFiniteSet(Range(list)) /\ Cardinality(Range(list)) <= Len(list)
           /\ IsInjective(list) => Cardinality(Range(list)) = Len(list)
           /\ Range(list) # {} /\ Range(list) \subseteq Nodes
<1>1. /\ list \in Seq(Nodes) /\ Len(list) \in Nat \ {0} /\ DOMAIN list = 1..Len(list)
      /\ list \in [1..Len(list) -> Nodes]
  BY NodeListType
<1>2. IsFiniteSet(1..Len(list)) /\ Cardinality(1..Len(list)) = Len(list)
  BY <1>1, FS_Interval
<1>3. list \in Surjection(1..Len(list), Range(list))
  BY <1>1 DEF Surjection, Range
<1>4. /\ IsFiniteSet(Range(list)) /\ Cardinality(Range(list)) <= Len(list)
      /\ Cardinality(Range(list)) = Len(list) <=> list \in Injection(1..Len(list), Range(list))
  BY <1>2, <1>3, FS_Surjection
<1>5. IsInjective(list) => list \in Injection(1..Len(list), Range(list))
  BY <1>1 DEF IsInjective, Injection, Range
<1>6. list[1] \in Range(list) /\ Range(list) \subseteq Nodes
  BY <1>1 DEF Range
<1>. QED
  BY <1>4, <1>5, <1>6

LEMMA BusyIsAnAnswer == NoAnswer # "BUSY"
BY DEF NoAnswer

(* So the comparison of sizes tells that all nodes were busy; and it tells it whenever they were,  *)
(* unless the list names a node twice.                                                             *)
LEMMA AllBusyMeans ==
    ASSUME NEW list \in NodeLists, NEW responses, Answered(responses) \subseteq Range(list)
    PROVE  /\ AllBusy(list, responses) => \A n \in Range(list) : responses[n] = "BUSY"
           /\ (/\ IsInjective(list)
               /\ \A n \in Range(list) : responses[n] = "BUSY") => AllBusy(list, responses)
<1>1. PICK answered : answered = Answered(responses)
  OBVIOUS
<1>2. /\ IsFiniteSet(answered) /\ Cardinality(answered) <= Cardinality(Range(list))
      /\ Cardinality(Range(list)) = Cardinality(answered) => Range(list) = answered
  BY <1>1, NodesOfList, FS_Subset
<1>3. Cardinality(answered) \in Nat /\ Cardinality(Range(list)) \in Nat /\ Len(list) \in Nat
  BY <1>2, NodesOfList, NodeListType, FS_CardinalityType
<1>4. ASSUME AllBusy(list, responses) PROVE \A n \in Range(list) : responses[n] = "BUSY"
  <2>1. Cardinality(answered) = Len(list) /\ \A n \in answered : responses[n] = "BUSY"
    BY <1>1, <1>4 DEF AllBusy
  <2>2. Range(list) = answered
    BY <1>2, <1>3, <2>1, NodesOfList
  <2>. QED
    BY <2>1, <2>2
<1>5. ASSUME IsInjective(list), \A n \in Range(list) : responses[n] = "BUSY"
      PROVE  AllBusy(list, responses)
  <2>1. Range(list) \subseteq answered
    BY <1>1, <1>5, NodesOfList, BusyIsAnAnswer DEF Answered
  <2>2. answered = Range(list)
    BY <1>1, <2>1
  <2>. QED
    BY <1>1, <1>5, <2>2, NodesOfList DEF AllBusy
<1>. QED
  BY <1>4, <1>5

(* What a response makes of the map.                                                               *)
Noted(r, code, responses) ==
    /\ NodeOf(r) \in Nodes /\ NodeOf(r) \in Range(nodeList[r]) /\ nodeList[r] \in NodeLists
    /\ responses[NodeOf(r)] = code
    /\ Answered(responses) \subseteq Range(nodeList[r])
    /\ {n \in Nodes : responses[n] = "BUSY"} =
          IF code = "BUSY" THEN busyNodes[r] \cup {NodeOf(r)} ELSE busyNodes[r] \ {NodeOf(r)}

LEMMA ResponseNoted ==
    ASSUME TypeOK, NEW r \in Requests, pc[r] # "done", Observed(r),
           NEW code \in Prechecks
    PROVE  Noted(r, code, [nodeResponses[r] EXCEPT ![NodeOf(r)] = code])
<1> DEFINE responses == [nodeResponses[r] EXCEPT ![NodeOf(r)] = code]
<1>1. NodeOf(r) \in Nodes /\ nodeList[r] \in NodeLists /\ nodeResponses[r] \in [Nodes -> Prechecks]
  BY NodeOfType DEF TypeOK, ChoiceTypeOK, AnswerTypeOK
<1>2. nodeIndex[r] \in 1..Len(nodeList[r]) /\ DOMAIN nodeList[r] = 1..Len(nodeList[r])
  BY <1>1, NodeListType DEF TypeOK, ChoiceTypeOK
<1>3. NodeOf(r) \in Range(nodeList[r])
  BY <1>2 DEF NodeOf, Range
<1>4. \A n \in Nodes : responses[n] = IF n = NodeOf(r) THEN code ELSE nodeResponses[r][n]
  BY <1>1
<1> HIDE DEF responses
<1>5. Noted(r, code, responses)
  BY <1>1, <1>3, <1>4 DEF Observed, Answered, Noted
<1>. QED
  BY <1>5 DEF responses

(* How a response is dealt with, in the observer's words.                                          *)
LEMMA ResponseObserved ==
    ASSUME TypeOK, NEW r \in Requests, Observed(r), HandleResponse(r), ObserverNext
    PROVE  /\ Observed(r)'
           /\ pc'[r] = "waitForRetry" /\ reply[r].response.precheck \in ServerErrors
                 => Range(nodeList[r]) \subseteq busyNodes[r] \cup {NodeOf(r)}
           /\ IsInjective(nodeList[r]) /\ pc'[r] # "done" => ~(Range(nodeList[r]) \subseteq busyNodes'[r])
<1>1. PICK code : code = reply[r].response.precheck
  OBVIOUS
<1>2. PICK responses : responses = [nodeResponses[r] EXCEPT ![NodeOf(r)] = code]
  OBVIOUS
<1>3. pc[r] = "reward" /\ code \in Prechecks
  BY <1>1 DEF HandleResponse, TypeOK, AnswerTypeOK, Prechecks
<1>4. /\ NodeOf(r) \in Nodes /\ NodeOf(r) \in Range(nodeList[r]) /\ nodeList[r] \in NodeLists
      /\ responses[NodeOf(r)] = code
      /\ Answered(responses) \subseteq Range(nodeList[r])
      /\ {n \in Nodes : responses[n] = "BUSY"} =
            IF code = "BUSY" THEN busyNodes[r] \cup {NodeOf(r)} ELSE busyNodes[r] \ {NodeOf(r)}
  <2>1. Noted(r, code, [nodeResponses[r] EXCEPT ![NodeOf(r)] = code])
    BY <1>3, ResponseNoted
  <2>. QED
    BY <1>2, <2>1 DEF Noted
<1>5. /\ AllBusy(nodeList[r], responses) => \A n \in Range(nodeList[r]) : responses[n] = "BUSY"
      /\ (/\ IsInjective(nodeList[r])
          /\ \A n \in Range(nodeList[r]) : responses[n] = "BUSY") => AllBusy(nodeList[r], responses)
  BY <1>4, AllBusyMeans
<1>6. Range(nodeList[r]) # {} /\ Range(nodeList[r]) \subseteq Nodes
  BY <1>4, NodesOfList
<1>7. DOMAIN pc = Requests /\ DOMAIN nodeResponses = Requests /\ UNCHANGED nodeList
  BY DEF TypeOK, ControlTypeOK, AnswerTypeOK, HandleResponse
<1>8. pc'[r] # "reward" =>
          busyNodes'[r] = IF code # "BUSY" THEN busyNodes[r] \ {NodeOf(r)}
                          ELSE IF pc'[r] = "waitForRetry" THEN {}
                          ELSE busyNodes[r] \cup {NodeOf(r)}
  BY <1>1, <1>3 DEF ObserverNext, Heard
<1> DEFINE status == DetermineStatus(Kind[r], reply[r].response)
<1>9. \/ status = "SERVER_ERROR" /\ TryNextNode(r, responses)
      \/ status = "SERVER_ERROR" /\ AllBusy(nodeList[r], responses) /\ BackOff(r, NoResponses)
      \/ status = "RETRY" /\ BackOff(r, responses)
      \/ \E res : Return(r, res)
  BY <1>1, <1>2, Zenon DEF HandleResponse
<1>10. /\ status = "SERVER_ERROR" => code \in ServerErrors
       /\ status = "RETRY" => code \notin ServerErrors
  <2>1. Kind[r] \in {"transaction", "query", "receiptQuery"}
    BY RequestAssumption
  <2>. QED
    BY <1>1, <2>1 DEF DetermineStatus, TransactionStatus, BaseStatus, ReceiptStatus, ServerErrors, NotReady
<1> HIDE DEF status
<1>11. CASE status = "SERVER_ERROR" /\ TryNextNode(r, responses)
  <2>1. pc'[r] = "attempt" /\ nodeResponses'[r] = responses /\ ~AllBusy(nodeList[r], responses)
    BY <1>7, <1>11 DEF TryNextNode
  <2>2. busyNodes'[r] = {n \in Nodes : responses[n] = "BUSY"}
    BY <1>4, <1>8, <2>1
  <2>3. IsInjective(nodeList[r]) => ~(Range(nodeList[r]) \subseteq busyNodes'[r])
    BY <1>5, <2>1, <2>2
  <2>. QED
    BY <1>4, <1>7, <2>1, <2>2, <2>3 DEF Observed
<1>12. CASE status = "SERVER_ERROR" /\ AllBusy(nodeList[r], responses) /\ BackOff(r, NoResponses)
  <2>1. pc'[r] = "waitForRetry" /\ nodeResponses'[r] = NoResponses
    BY <1>7, <1>12 DEF BackOff
  <2>2. code = "BUSY"
    BY <1>4, <1>5, <1>12
  <2>3. busyNodes'[r] = {}
    BY <1>8, <2>1, <2>2
  <2>4. Range(nodeList[r]) \subseteq busyNodes[r] \cup {NodeOf(r)}
    BY <1>4, <1>5, <1>6, <1>12, <2>2
  <2>5. Observed(r)'
    BY <1>7, <2>1, <2>3, BusyIsAnAnswer DEF Observed, NoResponses, Answered
  <2>. QED
    BY <1>6, <2>3, <2>4, <2>5
<1>13. CASE status = "RETRY" /\ BackOff(r, responses)
  <2>1. pc'[r] = "waitForRetry" /\ nodeResponses'[r] = responses
    BY <1>7, <1>13 DEF BackOff
  <2>2. code \notin ServerErrors /\ code # "BUSY"
    BY <1>10, <1>13 DEF ServerErrors
  <2>3. busyNodes'[r] = {n \in Nodes : responses[n] = "BUSY"} /\ NodeOf(r) \notin busyNodes'[r]
    BY <1>4, <1>8, <2>1, <2>2
  <2>. QED
    BY <1>1, <1>4, <1>7, <2>1, <2>2, <2>3 DEF Observed
<1>14. CASE \E res : Return(r, res)
  <2>1. pc'[r] = "done"
    BY <1>7, <1>14 DEF Return
  <2>. QED
    BY <2>1 DEF Observed
<1>. QED
  BY <1>9, <1>11, <1>12, <1>13, <1>14

(* Nothing else tells the loop or the observer of an answer.                                       *)
Untold(r) == /\ pc'[r] # "done" => pc[r] # "done"
             /\ pc'[r] # "done" => nodeResponses'[r] = nodeResponses[r]
             /\ nodeList'[r] = nodeList[r] /\ busyNodes'[r] = busyNodes[r]
             /\ ~(pc[r] = "reward" /\ pc'[r] = "waitForRetry")

LEMMA OthersUntold ==
    ASSUME TypeOK, NEW q \in Requests, Step(q), ObserverNext, NEW r \in Requests,
           r # q \/ ~HandleResponse(q)
    PROVE  Untold(r)
<1> USE DEF Goto
<1>1. /\ DOMAIN pc = Requests /\ DOMAIN nodeResponses = Requests /\ pc[q] \in PCs
  BY DEF TypeOK, ControlTypeOK, AnswerTypeOK
<1>2. (pc[r] = "reward" /\ pc'[r] # "reward") \/ busyNodes'[r] = busyNodes[r]
  BY DEF ObserverNext
<1>3. CASE HandleResponse(q)
  <2>1. /\ \E to : pc' = [pc EXCEPT ![q] = to]
        /\ \E to : nodeResponses' = [nodeResponses EXCEPT ![q] = to]
        /\ UNCHANGED nodeList
    BY <1>3, Zenon DEF HandleResponse, TryNextNode, BackOff, Return
  <2>2. pc'[r] = pc[r] /\ nodeResponses'[r] = nodeResponses[r]
    BY <1>1, <1>3, <2>1
  <2>. QED
    BY <1>2, <2>1, <2>2 DEF Untold
<1>4. CASE ScanNode(q)
  <2>1. pc[q] = "scan" /\ (UNCHANGED pc \/ pc' = [pc EXCEPT ![q] = "check"])
    BY <1>4, Zenon DEF ScanNode, Choose
  <2>2. UNCHANGED <<nodeResponses, nodeList>>
    BY <1>4 DEF ScanNode
  <2>. QED
    BY <1>1, <1>2, <2>1, <2>2 DEF Untold
<1>5. CASE CallReturns(q)
  <2>1. pc[q] = "call" /\ \E to \in {"penalize", "reward"} : pc' = [pc EXCEPT ![q] = to]
    BY <1>5 DEF CallReturns
  <2>2. UNCHANGED <<nodeResponses, nodeList>>
    BY <1>5 DEF CallReturns
  <2>. QED
    BY <1>1, <1>2, <2>1, <2>2 DEF Untold
<1>6. CASE GiveUp(q) \/ SubmitCrashes(q) \/ RequestThrows(q)
  <2>1. /\ pc[q] \in {"start", "attempt", "submit"} /\ pc' = [pc EXCEPT ![q] = "done"] /\ UNCHANGED nodeList
        /\ nodeResponses' = [nodeResponses EXCEPT ![q] = NoResponses]
    BY <1>6 DEF GiveUp, SubmitCrashes, RequestThrows, Return
  <2>2. r # q => pc'[r] = pc[r] /\ nodeResponses'[r] = nodeResponses[r]
    BY <1>1, <2>1
  <2>3. r = q => pc'[r] = "done" /\ pc[r] # "reward"
    BY <1>1, <2>1
  <2>. QED
    BY <1>2, <2>1, <2>2, <2>3 DEF Untold
<1>7. CASE Execute(q) \/ BeginAttempt(q) \/ WakeForNode(q) \/ ConnectedAlready(q) \/ Connect(q)
           \/ SubmitRequest(q) \/ Penalize(q) \/ WakeForRetry(q)
  <2>1. /\ pc[q] \in {"start", "attempt", "waitForNode", "connect", "submit", "penalize", "waitForRetry"}
        /\ \E to \in {"attempt", "scan", "connect", "submit", "connecting", "call"} : pc' = [pc EXCEPT ![q] = to]
    BY <1>7, Zenon DEF Execute, BeginAttempt, WakeForNode, ConnectedAlready, Connect, SubmitRequest, Penalize,
                WakeForRetry
  <2>2. UNCHANGED <<nodeResponses, nodeList>>
    BY <1>7 DEF Execute, BeginAttempt, WakeForNode, ConnectedAlready, Connect, SubmitRequest, Penalize,
                WakeForRetry
  <2>. QED
    BY <1>1, <1>2, <2>1, <2>2 DEF Untold
<1>8. CASE CheckHealthy(q) \/ ConnectReturns(q)
  <2>1. /\ pc[q] \in {"check", "connecting"}
        /\ \E to \in {"connect", "waitForNode", "submit", "penalize"} : pc' = [pc EXCEPT ![q] = to]
    BY <1>8, Zenon DEF CheckHealthy, ConnectReturns
  <2>2. UNCHANGED <<nodeResponses, nodeList>>
    BY <1>8 DEF CheckHealthy, ConnectReturns
  <2>. QED
    BY <1>1, <1>2, <2>1, <2>2 DEF Untold
<1>. QED
  BY <1>3, <1>4, <1>5, <1>6, <1>7, <1>8 DEF Step

LEMMA UntoldKeeps ==
    ASSUME NEW r \in Requests, Observed(r), Untold(r)
    PROVE  Observed(r)'
BY DEF Observed, Untold

(* The observer's step, for all requests.                                                          *)
LEMMA ObserverStep ==
    ASSUME TypeOK, ObserverInvariant, [Next /\ ObserverNext]_<<vars, observerVars>>
    PROVE  \A r \in Requests :
               \/ Observed(r)' /\ Untold(r)
               \/ HandleResponse(r) /\ ObserverNext
<1> SUFFICES ASSUME NEW r \in Requests, ~(HandleResponse(r) /\ ObserverNext)
             PROVE  Observed(r)' /\ Untold(r)
  OBVIOUS
<1>1. SUFFICES Untold(r)
  BY UntoldKeeps DEF ObserverInvariant
<1>2. CASE ObserverNext /\ \E q \in Requests : Step(q)
  BY <1>2, OthersUntold
<1>3. CASE UNCHANGED <<pc, nodeList, nodeResponses>> /\ (ObserverNext \/ UNCHANGED busyNodes)
  BY <1>3 DEF Untold, ObserverNext
<1>. QED
  BY <1>2, <1>3 DEF Next, Tick, DropChannel, vars, requestVars, observerVars

LEMMA ObserverInductive == ObservedSpec => []TypeOK /\ []ObserverInvariant
<1>1. Init /\ ObserverInit => ObserverInvariant
  BY BusyIsAnAnswer DEF Init, ObserverInit, ObserverInvariant, Observed, Answered, NoResponses
<1>2. TypeOK /\ ObserverInvariant /\ [Next /\ ObserverNext]_<<vars, observerVars>> => ObserverInvariant'
  BY ObserverStep, ResponseObserved DEF ObserverInvariant
<1>3. [Next /\ ObserverNext]_<<vars, observerVars>> => [Next]_vars
  OBVIOUS
<1>. QED
  BY <1>1, <1>2, <1>3, TypeCorrect, PTL DEF ObservedSpec, ObservedInit, Spec

(* Executable.cc: "If all nodes have returned a BUSY signal, backoff".  For any number of requests *)
(* and nodes and any answers, no request whose list names every node once goes on after the last   *)
(* BUSY without sleeping first.                                                                    *)
THEOREM BusyBacksOff ==
    ASSUME \A list \in NodeLists : IsInjective(list)
    PROVE  ObservedSpec => []AllBusyBacksOff
<1>1. Init /\ ObserverInit => AllBusyBacksOff
  <2> SUFFICES ASSUME Init, ObserverInit, NEW r \in Requests
               PROVE  ~(Range(nodeList[r]) \subseteq busyNodes[r])
    BY DEF AllBusyBacksOff
  <2>1. nodeList[r] \in NodeLists /\ busyNodes[r] = {}
    BY DEF Init, ObserverInit
  <2>. QED
    BY <2>1, NodesOfList
<1>2. TypeOK /\ ObserverInvariant /\ AllBusyBacksOff /\ [Next /\ ObserverNext]_<<vars, observerVars>>
          => AllBusyBacksOff'
  <2> SUFFICES ASSUME TypeOK, ObserverInvariant, AllBusyBacksOff,
                      [Next /\ ObserverNext]_<<vars, observerVars>>,
                      NEW r \in Requests, pc'[r] # "done"
               PROVE  ~(Range(nodeList'[r]) \subseteq busyNodes'[r])
    BY DEF AllBusyBacksOff
  <2>1. CASE Untold(r)
    BY <2>1 DEF Untold, AllBusyBacksOff
  <2>2. CASE HandleResponse(r) /\ ObserverNext
    <3>1. IsInjective(nodeList[r]) /\ UNCHANGED nodeList
      BY <2>2 DEF TypeOK, ChoiceTypeOK, HandleResponse
    <3>. QED
      BY <2>2, <3>1, ResponseObserved DEF ObserverInvariant
  <2>. QED
    BY <2>1, <2>2, ObserverStep
<1>. QED
  BY <1>1, <1>2, ObserverInductive, PTL DEF ObservedSpec, ObservedInit

(* And no request sleeps after a server error unless every node of its list, repeated or not, has  *)
(* answered BUSY since the last such sleep.                                                        *)
THEOREM BacksOffForNothingElse == ObservedSpec => BacksOffOnlyWhenAllBusy
<1>1. TypeOK /\ ObserverInvariant /\ [Next /\ ObserverNext]_<<vars, observerVars>>
      => [\A r \in Requests :
             /\ pc[r] = "reward" /\ pc'[r] = "waitForRetry"
             /\ reply[r].response.precheck \in ServerErrors
             => Range(nodeList[r]) \subseteq busyNodes[r] \cup {NodeOf(r)}]_<<vars, observerVars>>
  <2> SUFFICES ASSUME TypeOK, ObserverInvariant, [Next /\ ObserverNext]_<<vars, observerVars>>,
                      NEW r \in Requests, pc[r] = "reward", pc'[r] = "waitForRetry",
                      reply[r].response.precheck \in ServerErrors
               PROVE  Range(nodeList[r]) \subseteq busyNodes[r] \cup {NodeOf(r)}
    OBVIOUS
  <2>1. HandleResponse(r) /\ ObserverNext
    BY ObserverStep DEF Untold
  <2>. QED
    BY <2>1, ResponseObserved DEF ObserverInvariant
<1>. QED
  BY <1>1, ObserverInductive, PTL DEF ObservedSpec, ObservedInit, BacksOffOnlyWhenAllBusy

-----------------------------------------------------------------------------
(* A node may be used from the end of its penalty on: a request is past its check only then, and   *)
(* one that sleeps for a node sleeps until then, unless another request overtook it.               *)
PenaltyOver(r) ==
    /\ pc[r] \in {"connect", "connecting", "submit"} => readmitIn[NodeOf(r)] <= 0 \/ overtaken[r]
    /\ pc[r] = "waitForNode" => readmitIn[NodeOf(r)] <= timer[r] \/ overtaken[r]

(* A step of the request itself: a penalty ends its attempt.                                       *)
LEMMA PenaltyOwnStep ==
    ASSUME TypeOK, NEW r \in Requests, PenaltyOver(r), Step(r), ObserverNext
    PROVE  PenaltyOver(r)'
<1> USE DEF Goto
<1>1. /\ NodeOf(r) \in Nodes /\ pc[r] \in PCs /\ DOMAIN pc = Requests /\ DOMAIN timer = Requests
      /\ readmitIn \in [Nodes -> -1..MaxNodeBackoff] /\ timer[r] \in Int
  BY NodeOfType DEF TypeOK, NodeTypeOK, ControlTypeOK, ChoiceTypeOK, TimeTypeOK
<1>2. /\ pc[r] \in {"connect", "connecting", "submit"} => readmitIn[NodeOf(r)] <= 0 \/ overtaken[r]
      /\ pc[r] = "waitForNode" => readmitIn[NodeOf(r)] <= timer[r] \/ overtaken[r]
  BY DEF PenaltyOver
<1>3. pc'[r] \in Chosen /\ overtaken[r] => overtaken'[r]
  BY DEF ObserverNext
<1>4. CASE \/ Execute(r) \/ RequestThrows(r) \/ BeginAttempt(r) \/ GiveUp(r) \/ SubmitRequest(r)
           \/ SubmitCrashes(r) \/ CallReturns(r) \/ Penalize(r) \/ WakeForRetry(r)
  <2>1. pc'[r] \in {"attempt", "scan", "done", "call", "penalize", "reward"}
    BY <1>1, <1>4 DEF Execute, RequestThrows, BeginAttempt, GiveUp, SubmitRequest, SubmitCrashes,
                      CallReturns, Penalize, WakeForRetry, Return
  <2>. QED
    BY <2>1 DEF PenaltyOver
<1>5. CASE ScanNode(r)
  <2>1. pc'[r] \in {"scan", "check"}
    BY <1>1, <1>5 DEF ScanNode, Choose
  <2>. QED
    BY <2>1 DEF PenaltyOver
<1>6. CASE HandleResponse(r)
  <2>1. \E to \in {"attempt", "waitForRetry", "done"} : pc' = [pc EXCEPT ![r] = to]
    BY <1>6, Zenon DEF HandleResponse, TryNextNode, BackOff, Return
  <2>2. pc'[r] \in {"attempt", "waitForRetry", "done"}
    BY <1>1, <2>1
  <2>. QED
    BY <2>2 DEF PenaltyOver
<1>7. CASE CheckHealthy(r)
  <2>1. UNCHANGED readmitIn /\ NodeOf(r)' = NodeOf(r)
    BY <1>7 DEF CheckHealthy, nodeVars, NodeOf
  <2>2. \/ readmitIn[NodeOf(r)] < 0 /\ pc'[r] = "connect"
        \/ pc'[r] = "waitForNode" /\ timer'[r] = readmitIn[NodeOf(r)]
    BY <1>1, <1>7 DEF CheckHealthy, IsHealthy, RemainingTimeForBackoff
  <2>. QED
    BY <1>1, <2>1, <2>2 DEF PenaltyOver
<1>8. CASE WakeForNode(r) \/ ConnectedAlready(r) \/ Connect(r) \/ ConnectReturns(r)
  <2>1. UNCHANGED readmitIn /\ NodeOf(r)' = NodeOf(r)
    BY <1>8 DEF WakeForNode, ConnectedAlready, Connect, ConnectReturns, StartConnecting,
                FinishConnecting, nodeVars, NodeOf
  <2>2. \E to \in {"connect", "connecting", "submit", "penalize"} : pc' = [pc EXCEPT ![r] = to]
    BY <1>8, Zenon DEF WakeForNode, ConnectedAlready, Connect, ConnectReturns
  <2>3. \/ pc[r] = "waitForNode" /\ timer[r] = 0
        \/ pc[r] = "connect" \/ pc[r] = "connecting"
    BY <1>8, Zenon DEF WakeForNode, ConnectedAlready, Connect, ConnectReturns
  <2>4. pc'[r] \in {"connect", "connecting", "submit", "penalize"}
    BY <1>1, <2>2
  <2>5. readmitIn[NodeOf(r)] <= 0 \/ overtaken[r]
    BY <1>2, <2>3
  <2>6. pc'[r] # "penalize" => readmitIn[NodeOf(r)] <= 0 \/ overtaken'[r]
    BY <1>3, <2>4, <2>5 DEF Chosen
  <2>. QED
    BY <2>1, <2>4, <2>6 DEF PenaltyOver
<1>. QED
  BY <1>4, <1>5, <1>6, <1>7, <1>8 DEF Step

(* A step of another request: it puts off a node only with Penalize, and the observer sees that.   *)
LEMMA PenaltyOtherStep ==
    ASSUME TypeOK, NEW r \in Requests, PenaltyOver(r), ObserverNext,
           NEW q \in Requests \ {r}, Step(q)
    PROVE  PenaltyOver(r)'
<1>1. pc'[r] = pc[r] /\ timer'[r] = timer[r] /\ NodeOf(r)' = NodeOf(r)
  BY StepAlone DEF Alone
<1>2. pc[r] \in Chosen /\ (overtaken[r] \/ PenalisedByAnother(r)) => overtaken'[r]
  BY <1>1 DEF ObserverNext
<1>3. NodeOf(q) \in Nodes /\ NodeOf(r) \in Nodes /\ DOMAIN readmitIn = Nodes /\ DOMAIN pc = Requests
  BY NodeOfType DEF TypeOK, NodeTypeOK, ControlTypeOK
<1>4. CASE readmitIn'[NodeOf(r)] = readmitIn[NodeOf(r)]
  BY <1>1, <1>2, <1>4 DEF PenaltyOver, Chosen
<1>5. CASE Penalize(q)
  <2>1. CASE NodeOf(q) = NodeOf(r)
    <3>1. pc[q] = "penalize" /\ pc'[q] = "attempt"
      BY <1>3, <1>5 DEF Penalize, Goto
    <3>2. PenalisedByAnother(r)
      BY <2>1, <3>1 DEF PenalisedByAnother
    <3>. QED
      BY <1>1, <1>2, <3>2 DEF PenaltyOver, Chosen
  <2>2. CASE NodeOf(q) # NodeOf(r)
    <3>1. readmitIn'[NodeOf(r)] = readmitIn[NodeOf(r)]
      BY <1>3, <1>5, <2>2 DEF Penalize, IncreaseBackoff
    <3>. QED
      BY <1>4, <3>1
  <2>. QED
    BY <2>1, <2>2
<1>6. CASE ~Penalize(q)
  <2>1. UNCHANGED readmitIn
    BY <1>6 DEF Step, Execute, RequestThrows, BeginAttempt, GiveUp, ScanNode, CheckHealthy,
        WakeForNode, ConnectedAlready, Connect, StartConnecting, ConnectReturns, FinishConnecting,
        SubmitRequest, StartCall, SubmitCrashes, CallReturns, FinishCall, HandleResponse,
        DecreaseBackoff, WakeForRetry, nodeVars
  <2>. QED
    BY <1>4, <2>1
<1>. QED
  BY <1>5, <1>6

LEMMA PenaltyNext ==
    ASSUME TypeOK, NEW r \in Requests, PenaltyOver(r),
           [Next /\ ObserverNext]_<<vars, observerVars>>
    PROVE  PenaltyOver(r)'
<1>1. CASE ObserverNext /\ \E q \in Requests : Step(q)
  BY <1>1, PenaltyOwnStep, PenaltyOtherStep
<1>2. CASE ObserverNext /\ Tick
  <2>1. UNCHANGED <<pc, nodeList, nodeIndex>> /\ NodeOf(r)' = NodeOf(r)
    BY <1>2 DEF Tick, NodeOf
  <2>2. NodeOf(r) \in Nodes /\ readmitIn[NodeOf(r)] \in Int /\ timer[r] \in Int
    BY NodeOfType DEF TypeOK, NodeTypeOK, TimeTypeOK
  <2>3. /\ readmitIn'[NodeOf(r)] = Larger(readmitIn[NodeOf(r)] - 1, -1)
        /\ timer'[r] = Larger(timer[r] - 1, 0)
    BY <1>2, <2>2 DEF Tick, NodeTick, Countdown
  <2>4. pc[r] \in Chosen /\ overtaken[r] => overtaken'[r]
    BY <1>2, <2>1 DEF ObserverNext
  <2>. QED
    BY <2>1, <2>2, <2>3, <2>4 DEF PenaltyOver, Larger, Chosen
<1>3. CASE /\ UNCHANGED <<readmitIn, pc, nodeList, nodeIndex, timer>>
           /\ ObserverNext \/ UNCHANGED overtaken
  <2>1. pc[r] \in Chosen /\ overtaken[r] => overtaken'[r]
    BY <1>3 DEF ObserverNext
  <2>. QED
    BY <1>3, <2>1 DEF PenaltyOver, NodeOf, Chosen
<1>. QED
  BY <1>1, <1>2, <1>3
  DEF Next, DropChannel, CloseChannel, vars, nodeVars, requestVars, observerVars

(* impl/BaseNode.h calls a node's backoff "the minimum amount of time to wait to use this BaseNode  *)
(* after it has received a bad gRPC status".  For any number of requests that share nodes: the      *)
(* check, the sleep, the connection and the call are far apart, and a call starts before the        *)
(* node's readmit time only if another request had the node put off in between.                    *)
THEOREM PenaltiesRespected == ObservedSpec => BackoffRespected
<1> DEFINE AllOver == \A r \in Requests : PenaltyOver(r)
<1>1. Init /\ ObserverInit => AllOver
  BY DEF Init, PenaltyOver
<1>2. TypeOK /\ AllOver /\ [Next /\ ObserverNext]_<<vars, observerVars>> => AllOver'
  BY PenaltyNext
<1>3. TypeOK /\ AllOver /\ [Next /\ ObserverNext]_<<vars, observerVars>>
      => [\A r \in Requests :
             pc[r] = "submit" /\ pc'[r] = "call"
             => readmitIn[NodeOf(r)] <= 0 \/ overtaken[r]]_<<vars, observerVars>>
  BY DEF PenaltyOver
<1> HIDE DEF AllOver
<1>. QED
  BY <1>1, <1>2, <1>3, ObserverInductive, PTL DEF ObservedSpec, ObservedInit, BackoffRespected

===============================================================================
