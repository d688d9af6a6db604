------------------------------- MODULE MCData -------------------------------
(***************************************************************************)
(* The objects an application hands to the SDK and gets from it, for TLC.   *)
(* Every behaviour is about one of them: a transaction, a query with its    *)
(* answer, or an ID.  The other two stay as they are.                       *)
(***************************************************************************)
EXTENDS MCTransactionData

CONSTANTS MaxQuerySets, Ledgers, HexBase, DecBase
VARIABLES
    part,           \* which of the three
    query, fields, requested, request, class, given, object, saved, refused, crashed, querySets,
    id, meant, typed, detours, sentTo

answerParts == <<query, fields, requested, request, class, given, object, saved, refused, crashed, querySets>>
idParts == <<id, meant, typed, detours, sentTo>>

(* The digits of a number are counted.                                                              *)
ASSUME IdAssumption == HexBase \in Nat

A == INSTANCE Answers
I == INSTANCE EntityIds

(* What the objects a behaviour is not about are.                                                   *)
OtherTransaction == Init /\ tx.class = "Prng"
OtherAnswer == A!AnswersInit /\ query = "NetworkVersionInfoQuery"
OtherId == I!IdsInit /\ id = I!NewId("FileId", 0, 0, {})

MCInit ==
    \/ part = "transaction" /\ Init /\ OtherAnswer /\ OtherId
    \/ part = "answer" /\ OtherTransaction /\ A!AnswersInit /\ OtherId
    \/ part = "id" /\ OtherTransaction /\ OtherAnswer /\ I!IdsInit

MCNext ==
    /\ \/ part = "transaction" /\ Next /\ UNCHANGED <<answerParts, idParts>>
       \/ part = "answer" /\ A!AnswersNext /\ UNCHANGED <<vars, idParts>>
       \/ part = "id" /\ I!IdsNext /\ UNCHANGED <<vars, answerParts>>
    /\ UNCHANGED part

MCSpec == MCInit /\ [][MCNext]_<<part, vars, answerParts, idParts>>

(* The request of a query says what the application set, of every class and member.                 *)
AskedAsSet == A!AskedAsSet

(* What was read of an answer is kept in bytes, of every class and member but the known losses.     *)
AnswerKept == A!AnswerKept

(* An ID names the entity it was made for, and is sent to the ledger it was typed for.              *)
EntityKept == I!EntityKept
==============================================================================
