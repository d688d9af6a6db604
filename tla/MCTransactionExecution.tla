----------------------- MODULE MCTransactionExecution -----------------------
(* An instance of TransactionExecution for TLC.                                                    *)
EXTENDS TransactionExecution, TLC

CONSTANTS k1, k2, n1, n2

OneOrTwoNodes == {<<n1>>, <<n1, n2>>}
(* A plain transaction is prepared at length and executed once, a file is executed again.          *)
Calls == [c \in Classes |-> CASE c = "plain" -> 4 [] c = "file" -> 2 [] c = "topic" -> 3]
Executes == [c \in Classes |-> IF c = "file" THEN 2 ELSE 1]
SomeData == {<<>>, <<1, 2, 3, 4, 5>>}

(* Keys are only compared with each other.                                                         *)
KeysAlike == Permutations(Keys)

(* The variables of execute, outside the phases that read them again, tell no two states apart.    *)
LiveState == <<tx, client, regenerate, calls, generated, historyVars, phase, executes, outcome, networkVars,
               IF phase \in {"attempting", "waiting"} THEN attempt ELSE 0,
               IF phase = "waiting" THEN request ELSE NoRequest,
               IF phase = "receipt" THEN response ELSE None>>
=============================================================================
