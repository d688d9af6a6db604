----------------------------- MODULE QueryProofs -----------------------------
(***************************************************************************)
(* The payments of queries, proved for every set of costs, limits and       *)
(* nodes, however often the application calls and however often nodes fail. *)
(***************************************************************************)
EXTENDS Query, TLAPS

-----------------------------------------------------------------------------
(* The inductive invariant.                                                                        *)

(* The members of the query, and the request an execution has sent.                                *)
TypeOK ==
    /\ isPaymentRequired \in BOOLEAN /\ ownPaymentId \in BOOLEAN
    /\ mMaxPayment \in Limits \cup {Unset} /\ clientMax \in Limits \cup {Unset}
    /\ nodeCount \in Nat /\ mGetCost \in BOOLEAN /\ mCost \in Nat
    /\ phase \in {"idle", "costing", "querying"} /\ caller \in {"getCost", "onExecute"}
    /\ attempt \in Nat /\ generated \in Nat /\ costFailed \in BOOLEAN
    /\ request \in [kind : {"none", "COST_ANSWER", "ANSWER_ONLY"},
                    amount : Nat, id : Nat, node : Nat, payee : Nat]

(* The flag that tells the two executions apart is set while the cost is asked for, and left set   *)
(* only by a nested execution that threw.                                                          *)
FlagFollows ==
    /\ phase = "costing" => mGetCost
    /\ mGetCost /\ phase # "costing" => costFailed

(* A paid execution runs only at a cost that was compared with the maximum, which no setter can    *)
(* change while it runs.                                                                           *)
CostAllowed == phase = "querying" /\ NeedsPayment => mCost <= Maximum

(* A request is out only while an execution runs, asks for what the flag says, and carries a       *)
(* payment exactly when one is needed: of the cost, to the node it is sent to.                     *)
RequestAsMade ==
    request # NoRequest =>
        /\ phase # "idle"
        /\ IF NeedsPayment
           THEN request.kind = "ANSWER_ONLY" /\ request.amount = mCost /\ request.payee = request.node
           ELSE request.payee = 0

QueryInv == TypeOK /\ FlagFollows /\ CostAllowed /\ RequestAsMade

-----------------------------------------------------------------------------
(* Whatever the application sets, what may be paid is an amount.                                   *)
LEMMA MaximumIsAmount == TypeOK => Maximum \in Nat
BY QueryAssumption DEF TypeOK, Maximum

(* A query starts with nothing asked and nothing sent.                                             *)
LEMMA QueryInit == Init => QueryInv
<1> SUFFICES ASSUME Init PROVE QueryInv
  OBVIOUS
<1>1. isPaymentRequired \in BOOLEAN
  BY QueryAssumption, Zenon DEF Init
<1>2. TypeOK
  BY <1>1 DEF Init, TypeOK, NoRequest
<1>3. FlagFollows /\ CostAllowed /\ RequestAsMade
  BY DEF Init, FlagFollows, CostAllowed, RequestAsMade
<1>. QED
  BY <1>2, <1>3 DEF QueryInv

(* The calls the application makes: setters run between executions only, and an execution that     *)
(* must be paid for begins by asking for the cost.                                                 *)
LEMMA CallsKeep ==
    ASSUME QueryInv, Set \/ GetCost \/ Execute
    PROVE  QueryInv'
<1> USE QueryAssumption DEF QueryInv, Call
<1>1. CASE Set
  <2>1. TypeOK'
    BY <1>1 DEF Set, TypeOK, callVars
  <2>2. FlagFollows' /\ CostAllowed' /\ RequestAsMade'
    BY <1>1 DEF Set, FlagFollows, CostAllowed, RequestAsMade, callVars, NeedsPayment
  <2>. QED
    BY <2>1, <2>2
<1>2. ASSUME GetCost \/ Execute  PROVE QueryInv'
  <2>1. nodeCount' \in Nat
    BY <1>2 DEF GetCost, Execute, ChooseNodes, TypeOK
  <2>2. NoRequest \in [kind : {"none", "COST_ANSWER", "ANSWER_ONLY"},
                       amount : Nat, id : Nat, node : Nat, payee : Nat]
    BY DEF NoRequest
  <2>3. /\ UNCHANGED <<settings, mCost, generated, costFailed>>
        /\ mGetCost' \in BOOLEAN /\ phase' \in {"costing", "querying"}
        /\ caller' \in {"getCost", "onExecute"} /\ attempt' = 0 /\ request' = NoRequest
    BY <1>2 DEF GetCost, Execute, TypeOK, Start
  <2>4. TypeOK'
    BY <2>1, <2>2, <2>3 DEF TypeOK, settings
  <2>5. FlagFollows'
    BY <1>2 DEF GetCost, Execute, TypeOK, Start, FlagFollows
  <2>6. CostAllowed' /\ RequestAsMade'
    BY <1>2 DEF GetCost, Execute, TypeOK, Start, CostAllowed, RequestAsMade, NeedsPayment, settings,
                NoRequest
  <2>. QED
    BY <2>4, <2>5, <2>6
<1>. QED
  BY <1>1, <1>2

(* makeRequest: with one node only the first of its proxies can be paid, so that the account at    *)
(* the index is always the node's.                                                                 *)
LEMMA AttemptKeeps ==
    ASSUME QueryInv, Attempt
    PROVE  QueryInv'
<1> USE DEF QueryInv
<1>1. NumberOfNodes \in Nat
  BY QueryAssumption DEF NumberOfNodes, TypeOK
<1>2. UNCHANGED <<settings, nodeCount, mGetCost, mCost>>
  BY DEF Attempt
<1>3. NoRequest \in [kind : {"none", "COST_ANSWER", "ANSWER_ONLY"},
                     amount : Nat, id : Nat, node : Nat, payee : Nat]
  BY DEF NoRequest
<1>4. costFailed' \in BOOLEAN
  BY DEF Attempt
<1>5. costFailed' <=> (costFailed \/ (phase = "costing" /\ phase' = "idle"))
  BY DEF Attempt, TypeOK
<1>6. CASE Throw /\ UNCHANGED generated
  <2>1. phase' = "idle" /\ request' = NoRequest
    BY <1>6 DEF Throw
  <2>2. TypeOK'
    BY <1>2, <1>3, <1>4, <1>6 DEF TypeOK, Throw, settings
  <2>3. FlagFollows'
    BY <1>2, <1>5, <2>1 DEF FlagFollows
  <2>. QED
    BY <2>1, <2>2, <2>3 DEF CostAllowed, RequestAsMade
<1>7. ASSUME ~NeedsPayment, UNCHANGED <<phase, caller, attempt, result, generated>>,
             NEW index \in 1..NumberOfNodes,
             request' = [kind |-> IF mGetCost THEN "COST_ANSWER" ELSE "ANSWER_ONLY",
                         amount |-> 0, id |-> 0, node |-> NodeAt(index), payee |-> 0]
      PROVE  QueryInv'
  <2>1. NodeAt(index) \in Nat
    BY <1>1 DEF NodeAt
  <2>2. TypeOK'
    BY <1>2, <1>4, <1>7, <2>1 DEF TypeOK, settings
  <2>3. FlagFollows' /\ CostAllowed'
    BY <1>2, <1>7, <1>5 DEF FlagFollows, CostAllowed, NeedsPayment, Maximum, settings
  <2>4. RequestAsMade'
    BY <1>2, <1>7 DEF Attempt, RequestAsMade, NeedsPayment, settings
  <2>. QED
    BY <2>2, <2>3, <2>4
<1>8. ASSUME NeedsPayment, UNCHANGED <<phase, caller, attempt, result>>,
             generated' = (IF ownPaymentId THEN generated ELSE generated + 1),
             NEW index \in 1..NumberOfNodes, ~(index > nodeCount),
             request' = [kind |-> "ANSWER_ONLY", amount |-> mCost, id |-> PaymentId,
                         node |-> NodeAt(index), payee |-> Payee(index)]
      PROVE  QueryInv'
  <2>1. index \in Nat /\ NodeAt(index) = index /\ Payee(index) = index
    BY <1>1, <1>8 DEF NodeAt, Payee, TypeOK
  <2>2. PaymentId \in Nat
    BY DEF PaymentId, TypeOK
  <2>3. TypeOK'
    BY <1>2, <1>4, <1>8, <2>1, <2>2 DEF TypeOK, settings
  <2>4. FlagFollows' /\ CostAllowed'
    BY <1>2, <1>8, <1>5 DEF FlagFollows, CostAllowed, NeedsPayment, Maximum, settings
  <2>5. RequestAsMade'
    BY <1>2, <1>8, <2>1 DEF Attempt, RequestAsMade, NeedsPayment, settings
  <2>. QED
    BY <2>3, <2>4, <2>5
<1>. QED
  BY <1>6, <1>7, <1>8 DEF Attempt

(* A header brings an amount, and none while an execution that pays is under way.                  *)
LEMMA CostsSeenAreAmounts ==
    ASSUME QueryInv, mCost' \in CostsSeen
    PROVE  mCost' \in Nat /\ (~mGetCost => mCost' = mCost)
BY QueryAssumption DEF CostsSeen, QueryInv, TypeOK

(* What the nodes do: a cost is compared before an execution that pays it starts, and every        *)
(* failure ends the execution or leaves the cost that is being paid and the flag alone.            *)
LEMMA NodesKeep ==
    ASSUME QueryInv,
           NodeAnswersCost \/ NodeAnswers \/ NodeIsSilent \/ NodeFails \/ NodeRefuses
    PROVE  QueryInv'
<1> USE DEF QueryInv
<1>1. NoRequest \in [kind : {"none", "COST_ANSWER", "ANSWER_ONLY"},
                     amount : Nat, id : Nat, node : Nat, payee : Nat]
  BY DEF NoRequest
<1>2. request' = NoRequest
  BY DEF NodeAnswersCost, NodeAnswers, NodeIsSilent, NodeFails, NodeRefuses, HandleCost, Return,
         Throw, Start
<1>3. RequestAsMade'
  BY <1>2 DEF RequestAsMade
<1>4. CASE NodeAnswersCost
  <2>1. PICK cost \in Costs \cup {0} : HandleCost(cost)
    BY <1>4 DEF NodeAnswersCost
  <2>2. cost \in Nat
    BY QueryAssumption
  <2>3. UNCHANGED <<settings, nodeCount, generated>>
    BY <1>4 DEF NodeAnswersCost
  <2>4. mCost' = cost /\ mGetCost' \in BOOLEAN /\ costFailed' \in BOOLEAN
    BY <2>1 DEF HandleCost
  <2>5. phase' \in {"idle", "querying"} /\ attempt' \in {attempt, 0} /\ caller' = caller
    BY <2>1 DEF HandleCost, Return, Throw, Start
  <2>6. TypeOK'
    BY <1>1, <1>2, <2>2, <2>3, <2>4, <2>5 DEF TypeOK, settings
  <2>7. FlagFollows'
    BY <2>1 DEF HandleCost, FlagFollows, Return, Throw, Start
  <2>8. CostAllowed'
    BY <1>4, <2>1, <2>2, MaximumIsAmount
    DEF NodeAnswersCost, HandleCost, CostAllowed, Maximum, Return, Throw, Start, settings
  <2>. QED
    BY <1>3, <2>6, <2>7, <2>8
<1>5. CASE NodeAnswers
  <2>1. mCost' \in Nat /\ phase' = "idle" /\ UNCHANGED <<caller, attempt>>
    BY <1>5, QueryAssumption DEF NodeAnswers, Return, TypeOK
  <2>2. TypeOK'
    BY <1>1, <1>2, <1>5, <2>1 DEF NodeAnswers, TypeOK, settings
  <2>. QED
    BY <1>3, <1>5, <2>1, <2>2 DEF NodeAnswers, FlagFollows, CostAllowed
<1>6. CASE NodeIsSilent
  <2>1. TypeOK'
    BY <1>1, <1>6 DEF NodeIsSilent, Return, TypeOK, settings
  <2>. QED
    BY <1>3, <1>6, <2>1 DEF NodeIsSilent, Return, FlagFollows, CostAllowed
<1>7. CASE NodeFails
  <2>1. mCost' \in Nat /\ (~mGetCost => mCost' = mCost)
    BY <1>7, CostsSeenAreAmounts DEF NodeFails
  <2>2. TypeOK'
    BY <1>1, <1>7, <2>1 DEF NodeFails, TypeOK, settings
  <2>. QED
    BY <1>3, <1>7, <2>1, <2>2
    DEF NodeFails, FlagFollows, CostAllowed, NeedsPayment, Maximum, settings
<1>8. CASE NodeRefuses
  <2>1. mCost' \in Nat
    BY <1>8, CostsSeenAreAmounts DEF NodeRefuses
  <2>2. TypeOK'
    BY <1>1, <1>8, <2>1 DEF NodeRefuses, Throw, TypeOK, settings
  <2>. QED
    BY <1>3, <1>8, <2>2 DEF NodeRefuses, Throw, FlagFollows, CostAllowed
<1>. QED
  BY <1>4, <1>5, <1>6, <1>7, <1>8

(* The invariant holds throughout.                                                                 *)
LEMMA QueryInvariant == Spec => []QueryInv
<1>1. QueryInv /\ [Next]_vars => QueryInv'
  <2> SUFFICES ASSUME QueryInv, [Next]_vars PROVE QueryInv'
    OBVIOUS
  <2>1. CASE Set \/ GetCost \/ Execute
    BY <2>1, CallsKeep
  <2>2. CASE Attempt
    BY <2>2, AttemptKeeps
  <2>3. CASE NodeAnswersCost \/ NodeAnswers \/ NodeIsSilent \/ NodeFails \/ NodeRefuses
    BY <2>3, NodesKeep
  <2>4. CASE UNCHANGED vars
    BY <2>4 DEF vars, settings, callVars, QueryInv, TypeOK, FlagFollows, CostAllowed, RequestAsMade,
                NeedsPayment, Maximum
  <2>. QED
    BY <2>1, <2>2, <2>3, <2>4 DEF Next, Execution
<1>. QED
  BY <1>1, QueryInit, PTL DEF Spec

-----------------------------------------------------------------------------
(* A payment is made out to the node that gets it, whatever proxies and accounts the query was     *)
(* given (Query.cc, makeRequest).                                                                  *)
THEOREM PaysRight == Spec => []PaysTheNodeAsked
<1>1. QueryInv => PaysTheNodeAsked
  BY DEF QueryInv, RequestAsMade, PaysTheNodeAsked, NoRequest
<1>. QED
  BY <1>1, QueryInvariant, PTL

(* What a node takes is within the maximum the application allows at that moment, however many     *)
(* calls, changes of the limits and lost answers came before.                                      *)
THEOREM PaysAtMostMaximum == Spec => NeverAboveMaximum
<1>1. ASSUME QueryInv, [Next]_vars
      PROVE  [\A p \in taken' \ taken : p.amount <= Maximum]_vars
  <2> SUFFICES ASSUME Next, NEW p \in taken' \ taken  PROVE p.amount <= Maximum
    BY <1>1
  <2>1. taken' = Takes /\ request # NoRequest
    BY DEF Next, Execution, Set, GetCost, Execute, Attempt, NodeAnswersCost, NodeAnswers, NodeIsSilent,
           NodeFails, NodeRefuses
  <2>2. p = Payment(request) /\ request.payee # 0
    BY <2>1 DEF Takes
  <2>3. NeedsPayment /\ request.amount = mCost /\ phase # "idle"
    BY <1>1, <2>1, <2>2 DEF QueryInv, RequestAsMade
  <2>4. phase = "querying"
    BY <1>1, <2>3 DEF QueryInv, TypeOK, FlagFollows, NeedsPayment
  <2>. QED
    BY <1>1, <2>2, <2>3, <2>4 DEF Payment, QueryInv, CostAllowed
<1>. QED
  BY <1>1, QueryInvariant, PTL DEF Spec, NeverAboveMaximum

(* Unless asking for the cost has failed before, an answer comes only to a request that offered    *)
(* the cost named last, and that the maximum of now allows (Query.cc, onExecute).                  *)
THEOREM AnswersArePaidFor == Spec => AnswerWasPaidFor
<1> DEFINE Answered == result' \in {"answer", "empty"} /\ phase = "querying" /\ phase' = "idle"
                       /\ isPaymentRequired /\ ~costFailed
           Paid == request.kind = "ANSWER_ONLY" /\ request.amount = mCost /\ mCost <= Maximum
<1>1. ASSUME QueryInv, [Next]_vars
      PROVE  [Answered => Paid]_vars
  <2> SUFFICES ASSUME Next, Answered  PROVE Paid
    BY <1>1
  <2>1. NeedsPayment
    BY <1>1 DEF QueryInv, FlagFollows, NeedsPayment
  <2>2. request # NoRequest
    BY DEF Next, Execution, Set, GetCost, Execute, Attempt, Call, Start, Throw, NodeAnswersCost,
           NodeAnswers, NodeIsSilent, NodeFails, NodeRefuses
  <2>. QED
    BY <1>1, <2>1, <2>2 DEF QueryInv, RequestAsMade, CostAllowed
<1>. QED
  BY <1>1, QueryInvariant, PTL DEF Spec, AnswerWasPaidFor
==============================================================================
