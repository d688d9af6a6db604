------------------------------- MODULE Answers -------------------------------
(***************************************************************************)
(* A query of any class, from its setters to the object made of the answer, *)
(* and an object of any class that holds an answer or part of one, turned   *)
(* to bytes and read again.                                                 *)
(***************************************************************************)
EXTENDS QueryTypes, ResponseTypes

CONSTANT MaxQuerySets   \* bound: how often members of the query are set

VARIABLES
    query,          \* the class of the query, or "none" for an object that was no answer
    fields,         \* its members
    requested,      \* its members as the application set them
    request,        \* what was sent, <<>> if nothing was
    class,          \* the class of the answer
    given,          \* the message it was read from, <<>> if there is none yet
    object,         \* what was read
    saved,          \* has it been to bytes and back?
    refused,        \* has an exception been thrown over what an answer or an object holds?
    crashed,        \* was a null pointer dereferenced?
    querySets       \* how often members were set

answerVars == <<query, fields, requested, request, class, given, object, saved, refused, crashed, querySets>>

-----------------------------------------------------------------------------
(* Messages of a class: with one field, or all, or all but one, that the others are missing from or *)
(* empty in, and at most one of some alternatives.  A scheduled transaction and the result of a     *)
(* call can be any of those that are read in another way.                                           *)
Alternative(c) == UNION Responses[c].alternatives
Present(c) ==
    LET allBut(f, kept) == Members(c) \ ({f} \cup (Alternative(c) \ {kept}))
    IN  {{f} : f \in Members(c)} \cup
        {allBut(f, kept) : f \in Members(c) \cup {"none"}, kept \in Alternative(c) \cup {"none"}}
Simple(c) ==
    {[f \in Members(c) |-> IF f \in present THEN "Given" ELSE IF f \in Alternative(c) THEN "None" ELSE other] :
        present \in Present(c), other \in {"None", "Empty"}}
Special(c, f) ==
    (IF f \in Responses[c].scheduled THEN {"Message", "Unread", "Unsaved"} ELSE {})
    \cup (IF f \in Responses[c].results THEN {"Prefixed"} ELSE {})
Messages(c) ==
    Simple(c) \cup UNION {{[m EXCEPT ![f] = v] : m \in Simple(c), v \in Special(c, f)} : f \in Members(c)}

(* What a node can answer: other receipts of a transaction are in a receipt if they were asked for, *)
(* and never in the record the query reads.  The ID of a receipt is that of the query.              *)
Answered(c, sent) ==
    CASE c = "TransactionReceipt" ->
            {m \in Messages(c) : /\ m["mTransactionId"] = "Given"
                                 /\ m["mChildren"] = "Given" => sent["mIncludeChildren"] = "Given"
                                 /\ m["mDuplicates"] = "Given" => sent["mIncludeDuplicates"] = "Given"}
      [] c = "TransactionRecord" -> {m \in Messages(c) : m["mChildren"] # "Given" /\ m["mDuplicates"] # "Given"}
      [] OTHER -> Messages(c)

-----------------------------------------------------------------------------
(* A new query, or an object of a class that is read from a message: an address book, a fee         *)
(* schedule, what another answer holds.                                                             *)
AnswersInit ==
    /\ request = <<>> /\ saved = FALSE /\ refused = FALSE /\ crashed = FALSE /\ querySets = 0
    /\ \/ /\ query \in QueryClasses
          /\ fields = NewQuery(query) /\ requested = fields
          /\ class = Queries[query].reply /\ given = <<>> /\ object = <<>>
       \/ /\ query = "none" /\ fields = <<>> /\ requested = <<>>
          /\ class \in ResponseClasses \ {Queries[q].reply : q \in QueryClasses}
          /\ \E m \in Messages(class) :
                CanRead(class, m) /\ given = m /\ object = FromProtobuf(class, m)

(* A setter of the query.                                                                           *)
SetMember ==
    /\ query # "none" /\ request = <<>> /\ querySets < MaxQuerySets
    /\ \E f \in QueryFields(query), v \in {"Empty", "Given", "Foreign"} :
          LET reset(g) == \E a \in Queries[query].alternatives : {f, g} \subseteq a
              assigned(fs) == [g \in DOMAIN fs |-> IF g = f THEN v ELSE IF reset(g) THEN "None" ELSE fs[g]]
          IN  /\ v = "Foreign" => f \in Queries[query].ids
              /\ fields' = assigned(fields) /\ requested' = assigned(requested)
    /\ querySets' = querySets + 1
    /\ UNCHANGED <<query, request, class, given, object, saved, refused, crashed>>

(* onExecute validates checksums if the client says so, then submitRequest sends what buildRequest  *)
(* made, with the case of its class, to a node that throws if it does not know it.                  *)
Ask(validating) ==
    /\ query # "none" /\ request = <<>>
    /\ LET q == Queries[query]
       IN  IF \/ validating /\ \E f \in q.ids \ q.unvalidated : fields[f] = "Foreign"
              \/ q.case \notin AnsweredCases
           THEN UNCHANGED answerVars
           ELSE /\ request' = <<[sent |-> BuildRequest(query, fields), validating |-> validating]>>
                /\ UNCHANGED <<query, fields, requested, class, given, object, saved, refused, crashed, querySets>>

(* mapResponse reads the answer, and throws if it needs a member that is not set, or cannot read    *)
(* what was scheduled.                                                                              *)
MapResponse ==
    /\ request # <<>> /\ object = <<>>
    /\ \E m \in Answered(class, request[1].sent) :
          IF \E f \in Queries[query].required : fields[f] = "None" THEN UNCHANGED answerVars
          ELSE /\ IF CanRead(class, m) THEN given' = m /\ object' = FromProtobuf(class, m) /\ UNCHANGED refused
                  ELSE refused' = TRUE /\ UNCHANGED <<given, object>>
               /\ UNCHANGED <<query, fields, requested, request, class, saved, crashed, querySets>>

(* fromBytes(toBytes()).                                                                            *)
KeepInBytes ==
    /\ object # <<>> /\ class \notin InnerClasses /\ ~saved /\ ~crashed
    /\ IF Throws(class, object) THEN refused' = TRUE /\ UNCHANGED <<object, saved, crashed>>
       ELSE IF ~CanWrite(class, object) THEN crashed' = TRUE /\ UNCHANGED <<object, saved, refused>>
       ELSE /\ object' = FromProtobuf(class, ToProtobuf(class, object)) /\ saved' = TRUE
            /\ UNCHANGED <<refused, crashed>>
    /\ UNCHANGED <<query, fields, requested, request, class, given, querySets>>

AnswersNext == SetMember \/ (\E validating \in BOOLEAN : Ask(validating)) \/ MapResponse \/ KeepInBytes

AnswersSpec == AnswersInit /\ [][AnswersNext]_answerVars

-----------------------------------------------------------------------------
(* Every query that is made can be asked, and the request says what the application set last, of    *)
(* every class and member, whatever was set before: only a record query drops two of them.  With    *)
(* the validation of checksums on, no ID that was typed for another ledger is sent; only the sender *)
(* of a local call is not looked at.                                                                *)
AskedAsSet ==
    /\ query # "none" => Queries[query].case \in AnsweredCases
    /\ request # <<>> =>
         \A f \in QueryFields(query) :
            \/ query = "TransactionRecordQuery" /\ f \in {"mIncludeChildren", "mIncludeDuplicates"}
            \/ /\ request[1].sent[f] = IF requested[f] = "Foreign" THEN "Given" ELSE requested[f]
               /\ request[1].validating /\ requested[f] = "Foreign" => f = "mSenderAccountId"

(* What is known to be missing from bytes.                                                          *)
KnownLosses ==
    ({"AccountBalance"} \X {"mTokens"}) \cup
    ({"AccountInfo", "ContractInfo"} \X {"mTokenRelationships"}) \cup
    ({"TransactionReceipt"} \X {"mTransactionId", "mTokenId", "mDuplicates", "mChildren", "mExchangeRates"}) \cup
    ({"TransactionRecord"} \X {"mReceipt", "mPendingAirdropRecords", "mDuplicates", "mChildren"}) \cup
    ({"AccountRecords"} \X {"mRecords"}) \cup
    ({"TokenTransfer"} \X {"mTokenId", "mExpectedDecimals"}) \cup ({"TokenNftTransfer"} \X {"mNftId"})

(* What is known to be missing from the moment it is read: the data of a topic message that was     *)
(* scheduled, and the selector of an error before the result of a call that failed.                 *)
ReadLosses ==
    {<<"ScheduleInfo", "mScheduledTransaction">>, <<"ContractFunctionResult", "mContractCallResult">>,
     <<"TransactionRecord", "mContractFunctionResult">>, <<"AccountRecords", "mRecords">>}
Unset == {"None", "Empty"}

(* An object holds what the message did, and holds it still when it has been to bytes and back, of  *)
(* every class and member but the known losses.  Only what was scheduled can keep an answer from    *)
(* being read or turned to bytes, and only the keys of a token have to be there.                    *)
AnswerKept ==
    /\ object # <<>> =>
         \A f \in Members(class) :
            \/ saved /\ <<class, f>> \in KnownLosses
            \/ /\ object[f] = FromProtobuf(class, given)[f]
               /\ \/ object[f] = given[f] \/ {object[f], given[f]} \subseteq Unset
                  \/ object[f] = "Part" /\ <<class, f>> \in ReadLosses
    /\ refused => class = "ScheduleInfo"
    /\ crashed => class = "TokenInfo"
==============================================================================
