------------------------- MODULE MCExecutableThreads -------------------------
(* Instances of ExecutableRefinement for TLC in which several threads share nodes that may be reconfigured.  *)
EXTENDS ExecutableRefinement, TLC

CONSTANTS a, b, r1, r2

Reply(status) == [precheck |-> status, receipt |-> "OK"]

OneOrder == {<<a, b>>}

AllTransactions == [r \in Requests |-> "transaction"]
(* A transaction and the query for a receipt, on two threads.                                      *)
OneOfEach == (r1 :> "transaction") @@ (r2 :> "receiptQuery")

FewReplies == {Reply("OK"), Reply("BUSY")}
ReceiptReplies == {Reply("BUSY"),
                   [precheck |-> "OK", receipt |-> "UNKNOWN"],
                   [precheck |-> "OK", receipt |-> "SUCCESS"],
                   [precheck |-> "OK", receipt |-> Unrecognized]}

==============================================================================
