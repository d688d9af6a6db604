-------------------------------- MODULE Query --------------------------------
(***************************************************************************)
(* A query and its payment.  execute first asks for the cost, with a nested *)
(* execution of the same object told apart by a flag, compares it with what *)
(* may be paid, and then sends a transfer of that amount along with every   *)
(* attempt.  The application may use the object again after any exception;  *)
(* nodes may lose, refuse or not answer a request, and take a payment whose *)
(* answer is lost.  Which node an attempt chooses is left open, as in       *)
(* TransactionExecution.                                                    *)
(***************************************************************************)
EXTENDS Naturals, FiniteSets

CONSTANTS
    PaymentRequired, \* isPaymentRequired: what the classes of queries answer
    Costs,          \* what a node may ask for
    Limits,         \* the maximum payments the application may set
    DefaultMaxQueryPayment, \* DEFAULT_MAX_QUERY_PAYMENT
    NodeCounts,     \* how many node account IDs the query may be given
    Proxies,        \* the number of proxies of a node
    Unset,          \* an optional without a value
    MaxAttempts,    \* mCurrentMaxAttempts
    MaxCalls        \* bound: how often the application calls execute, getCost or a setter

ASSUME QueryAssumption ==
    /\ PaymentRequired \subseteq BOOLEAN
    /\ Costs \subseteq Nat /\ Limits \subseteq Nat /\ DefaultMaxQueryPayment \in Nat
    /\ NodeCounts \subseteq Nat \ {0} /\ Proxies \in Nat \ {0}
    /\ MaxAttempts \in Nat /\ MaxCalls \in Nat /\ Unset \notin Nat

VARIABLES
    isPaymentRequired, \* the class of the query
    mMaxPayment,    \* mMaxPayment of the query
    clientMax,      \* mMaxQueryPayment of the client
    ownPaymentId,   \* was mPaymentTransactionId set?
    nodeCount,      \* the number of node account IDs, 0 before they are chosen
    mGetCost,       \* mGetCost
    mCost,          \* mCost
    phase,          \* "idle", "costing" or "querying"
    caller,         \* who asked for the cost: "getCost" or "onExecute"
    attempt,        \* the attempts of the innermost execution
    request,        \* the request sent: its kind, payment and the node's index; or none
    result,         \* what the last call gave: "none", "cost", "answer", "empty" or "exception"
    calls,          \* how often the application called anything
    generated,      \* how many payment transaction IDs were generated
    taken,          \* the payments nodes took
    costFailed      \* has asking for the cost failed, and not succeeded since?

settings == <<isPaymentRequired, mMaxPayment, clientMax, ownPaymentId>>
callVars == <<phase, caller, attempt, request, result>>
vars == <<settings, nodeCount, mGetCost, mCost, callVars, calls, generated, taken, costFailed>>

NoRequest == [kind |-> "none", amount |-> 0, id |-> 0, node |-> 0, payee |-> 0]

Init ==
    /\ isPaymentRequired \in PaymentRequired
    /\ mMaxPayment = Unset /\ clientMax = Unset /\ ownPaymentId = FALSE
    /\ nodeCount = 0 /\ mGetCost = FALSE /\ mCost = 0
    /\ phase = "idle" /\ caller = "getCost" /\ attempt = 0 /\ request = NoRequest /\ result = "none"
    /\ calls = 0 /\ generated = 0 /\ taken = {} /\ costFailed = FALSE

Call ==
    /\ phase = "idle" /\ calls < MaxCalls
    /\ calls' = calls + 1

(* setMaxQueryPayment of the query and of the client, setPaymentTransactionId.  What setQueryPayment *)
(* stores is never read.                                                                           *)
Set ==
    /\ Call
    /\ \/ mMaxPayment' \in Limits /\ UNCHANGED <<clientMax, ownPaymentId>>
       \/ clientMax' \in Limits /\ UNCHANGED <<mMaxPayment, ownPaymentId>>
       \/ ownPaymentId' = TRUE /\ UNCHANGED <<mMaxPayment, clientMax>>
    /\ UNCHANGED <<isPaymentRequired, nodeCount, mGetCost, mCost, callVars, generated, taken, costFailed>>

(* What may be paid: the query's own maximum, or the client's, or the default.                     *)
Maximum == IF mMaxPayment # Unset THEN mMaxPayment
           ELSE IF clientMax # Unset THEN clientMax ELSE DefaultMaxQueryPayment

-----------------------------------------------------------------------------
Throw == phase' = "idle" /\ result' = "exception" /\ UNCHANGED <<caller, attempt>> /\ request' = NoRequest
Return(what) == phase' = "idle" /\ result' = what /\ UNCHANGED <<caller, attempt>> /\ request' = NoRequest
Start(newPhase) ==
    phase' = newPhase /\ attempt' = 0 /\ request' = NoRequest /\ UNCHANGED result

(* Every execution chooses nodes if none are set, and keeps them.                                  *)
ChooseNodes == nodeCount' \in IF nodeCount = 0 THEN NodeCounts ELSE {nodeCount}

(* getCost sets the flag and executes; onExecute returns at once when it is set.                   *)
GetCost ==
    /\ Call /\ ChooseNodes
    /\ mGetCost' = TRUE
    /\ caller' = "getCost" /\ Start("costing")
    /\ UNCHANGED <<settings, mCost, generated, taken, costFailed>>

(* Mutant: a cost that is known is not asked for again.                                            *)
ExecuteForKnownCost ==
    /\ Call /\ ChooseNodes
    /\ caller' = "onExecute"
    /\ IF isPaymentRequired /\ ~mGetCost /\ mCost = 0
       THEN mGetCost' = TRUE /\ Start("costing")
       ELSE UNCHANGED mGetCost /\ Start("querying")
    /\ UNCHANGED <<settings, mCost, generated, taken, costFailed>>

(* execute of a query that must be paid for asks for the cost first.                               *)
Execute ==
    /\ Call /\ ChooseNodes
    /\ caller' = "onExecute"
    /\ IF isPaymentRequired /\ ~mGetCost
       THEN mGetCost' = TRUE /\ Start("costing")
       ELSE UNCHANGED mGetCost /\ Start("querying")
    /\ UNCHANGED <<settings, mCost, generated, taken, costFailed>>

-----------------------------------------------------------------------------
(* makeRequest.  The payment is a transfer to the account at the index, of which there is none for *)
(* the second proxy of a single node: at throws.                                                   *)
NumberOfNodes == IF nodeCount = 1 THEN Proxies ELSE nodeCount
NeedsPayment == isPaymentRequired /\ ~mGetCost

(* The account of the node an index stands for: all proxies are the same node's.                   *)
NodeAt(index) == IF nodeCount = 1 THEN 1 ELSE index

(* Mutant: the payment goes to the first account.                                                  *)
PayeeFirst(index) == 1
Payee(index) == index

PaymentId == IF ownPaymentId THEN 0 ELSE generated + 1

AttemptsLeft == attempt < MaxAttempts

Attempt ==
    /\ phase \in {"costing", "querying"} /\ request = NoRequest
    /\ \/ /\ ~AttemptsLeft
          /\ Throw /\ UNCHANGED generated
       \/ /\ AttemptsLeft /\ ~NeedsPayment
          /\ \E index \in 1..NumberOfNodes :
                request' = [kind |-> IF mGetCost THEN "COST_ANSWER" ELSE "ANSWER_ONLY",
                            amount |-> 0, id |-> 0, node |-> NodeAt(index), payee |-> 0]
          /\ UNCHANGED <<phase, caller, attempt, result, generated>>
       \/ /\ AttemptsLeft /\ NeedsPayment
          /\ \E index \in 1..NumberOfNodes :
                IF index > nodeCount THEN Throw /\ UNCHANGED generated
                ELSE /\ request' = [kind |-> "ANSWER_ONLY", amount |-> mCost, id |-> PaymentId,
                                    node |-> NodeAt(index), payee |-> Payee(index)]
                     /\ generated' = IF ownPaymentId THEN generated ELSE generated + 1
                     /\ UNCHANGED <<phase, caller, attempt, result>>
    /\ costFailed' = (costFailed \/ (phase = "costing" /\ phase' = "idle"))
    /\ UNCHANGED <<settings, nodeCount, mGetCost, mCost, calls, taken>>

(* A node takes the payment of a request it answers, an ID once.                                   *)
Payment(r) == [id |-> r.id, amount |-> r.amount, payee |-> r.payee]
Known(r) == r.payee # 0 /\ \E p \in taken : p.id = r.id
Takes == taken \cup (IF request.payee = 0 \/ Known(request) THEN {} ELSE {Payment(request)})

(* What the innermost execution does with a response: the cost is saved from every header.         *)
(* Mutant: the cost is not compared.                                                               *)
HandleCostUnchecked(cost) ==
    /\ mCost' = cost
    /\ mGetCost' = FALSE /\ costFailed' = FALSE
    /\ IF caller = "getCost" THEN Return("cost") ELSE Start("querying") /\ UNCHANGED caller

HandleCost(cost) ==
    /\ mCost' = cost
    /\ mGetCost' = FALSE /\ costFailed' = FALSE
    /\ IF caller = "getCost" THEN Return("cost")
       ELSE IF cost > Maximum THEN Throw
       ELSE Start("querying") /\ UNCHANGED caller

(* A response that says OK, or, after a gRPC error that is not retried, one nobody filled in, which *)
(* says OK as well and costs nothing.                                                              *)
NodeAnswersCost ==
    /\ phase = "costing" /\ request # NoRequest
    /\ \E cost \in Costs \cup {0} : HandleCost(cost)
    /\ UNCHANGED <<settings, nodeCount, calls, generated, taken>>

NodeAnswers ==
    /\ phase = "querying" /\ request # NoRequest
    /\ ~Known(request)
    /\ taken' = Takes
    /\ IF request.kind = "COST_ANSWER"
       THEN \E cost \in Costs : mCost' = cost /\ Return("cost")
       ELSE Return("answer") /\ UNCHANGED mCost
    /\ UNCHANGED <<settings, nodeCount, mGetCost, calls, generated, costFailed>>

NodeIsSilent ==
    /\ phase = "querying" /\ request # NoRequest
    /\ taken' \in {taken, Takes}
    /\ mCost' = IF mGetCost THEN 0 ELSE mCost
    /\ Return("empty")
    /\ UNCHANGED <<settings, nodeCount, mGetCost, calls, generated, costFailed>>

(* saveCostFromHeader keeps the cost of every header that is read while the flag is set, the       *)
(* header of an answer that is retried or refused included.                                        *)
CostsSeen == IF mGetCost THEN {mCost, 0} \cup Costs ELSE {mCost}

(* UNAVAILABLE, BUSY, or an answer that is lost after the payment was taken.                       *)
NodeFails ==
    /\ request # NoRequest
    /\ attempt' = attempt + 1 /\ request' = NoRequest
    /\ taken' \in {taken, Takes}
    /\ mCost' \in CostsSeen
    /\ UNCHANGED <<settings, nodeCount, mGetCost, phase, caller, result, calls, generated, costFailed>>

(* Any other status: the payment is a duplicate or too small, or the query invalid.                *)
NodeRefuses ==
    /\ request # NoRequest
    /\ Throw
    /\ mCost' \in CostsSeen
    /\ costFailed' = (costFailed \/ phase = "costing")
    /\ UNCHANGED <<settings, nodeCount, mGetCost, calls, generated, taken>>

Execution == Attempt \/ NodeAnswersCost \/ NodeAnswers \/ NodeIsSilent \/ NodeFails \/ NodeRefuses
Next == Set \/ GetCost \/ Execute \/ Execution
Spec == Init /\ [][Next]_vars

-----------------------------------------------------------------------------
(* No payment is above what the application allows when it is made, whatever the node asked for,   *)
(* in this call or in an earlier one.                                                              *)
NeverAboveMaximum == [][\A p \in taken' \ taken : p.amount <= Maximum]_vars

(* A payment is made out to the node that gets it.                                                 *)
PaysTheNodeAsked == request.payee # 0 => request.payee = request.node

(* Unless asking for the cost has failed before, an execution that must be paid for gives an       *)
(* answer only to a request that offered the cost named last, and one the maximum of now allows,   *)
(* whatever limits were set and costs learnt in earlier calls.                                     *)
AnswerWasPaidFor ==
    [][(result' \in {"answer", "empty"} /\ phase = "querying" /\ phase' = "idle" /\ isPaymentRequired /\ ~costFailed)
            => request.kind = "ANSWER_ONLY" /\ request.amount = mCost /\ mCost <= Maximum]_vars
==============================================================================
