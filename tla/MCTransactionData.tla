-------------------------- MODULE MCTransactionData --------------------------
(* TransactionData for TLC: amounts that cancel each other, interchangeable accounts and tokens.    *)
EXTENDS TransactionData

MCAmounts == {-1, 1}
MCSymmetry == Permutations(Accounts) \cup Permutations(Tokens)
==============================================================================
