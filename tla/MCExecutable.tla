---------------------------- MODULE MCExecutable ----------------------------
(* Instances of ExecutableRefinement for TLC.                                                      *)
EXTENDS ExecutableRefinement

CONSTANTS a, b, c, r1

Reply(status) == [precheck |-> status, receipt |-> "OK"]

OneOrder == {<<a, b, c>>}

AllTransactions == [r \in Requests |-> "transaction"]

TransactionReplies == {Reply("OK"), Reply("BUSY"), Reply("TRANSACTION_EXPIRED"),
                       Reply("INVALID_SIGNATURE"), Reply("PLATFORM_NOT_ACTIVE"),
                       Reply(Unrecognized)}

=============================================================================
