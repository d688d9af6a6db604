----------------------------- MODULE QueryTypes -----------------------------
(***************************************************************************)
(* The classes of queries, as far as their data goes: the member of         *)
(* proto::Query each stands for, what its setters, validateChecksums() and  *)
(* buildRequest() do with its members, and the class of what it returns.    *)
(***************************************************************************)

(* A plain member is always sent, an optional one if it is set.  Setting one of some alternatives   *)
(* resets the others; unwritten members are never sent; validateChecksums looks at the members that *)
(* hold IDs, but for the unvalidated ones; a required one has to be set to read the answer.         *)
Asked(case, reply, members) ==
    [case |-> case, reply |-> reply, plain |-> members.plain, optional |-> members.optional,
     ids |-> members.ids, alternatives |-> {}, unwritten |-> {}, unvalidated |-> {}, required |-> {}]

-----------------------------------------------------------------------------
AccountBalanceQueryMembers == [plain |-> {}, optional |-> {"mAccountId", "mContractId"}, ids |-> {"mAccountId", "mContractId"}]
AccountBalanceQuery == [Asked("kCryptogetAccountBalance", "AccountBalance", AccountBalanceQueryMembers)
                        EXCEPT !.alternatives = {{"mAccountId", "mContractId"}}]
AccountInfoQueryMembers == [plain |-> {"mAccountId"}, optional |-> {}, ids |-> {"mAccountId"}]
AccountInfoQuery == Asked("kCryptoGetInfo", "AccountInfo", AccountInfoQueryMembers)
AccountRecordsQueryMembers == [plain |-> {"mAccountId"}, optional |-> {}, ids |-> {"mAccountId"}]
AccountRecordsQuery == Asked("kCryptoGetAccountRecords", "AccountRecords", AccountRecordsQueryMembers)
AccountStakersQueryMembers == [plain |-> {"mAccountId"}, optional |-> {}, ids |-> {"mAccountId"}]
AccountStakersQuery == Asked("kCryptoGetProxyStakers", "ProxyStaker", AccountStakersQueryMembers)
ContractByteCodeQueryMembers == [plain |-> {"mContractId"}, optional |-> {}, ids |-> {"mContractId"}]
ContractByteCodeQuery == Asked("kContractGetBytecode", "Bytes", ContractByteCodeQueryMembers)
ContractCallQueryMembers == [plain |-> {"mContractId", "mGas", "mFunctionParameters"},
    optional |-> {"mSenderAccountId"}, ids |-> {"mContractId", "mSenderAccountId"}]
ContractCallQuery == [Asked("kContractCallLocal", "ContractFunctionResult", ContractCallQueryMembers)
                      EXCEPT !.unvalidated = {"mSenderAccountId"}]
ContractInfoQueryMembers == [plain |-> {"mContractId"}, optional |-> {}, ids |-> {"mContractId"}]
ContractInfoQuery == Asked("kContractGetInfo", "ContractInfo", ContractInfoQueryMembers)
FileContentsQueryMembers == [plain |-> {"mFileId"}, optional |-> {}, ids |-> {"mFileId"}]
FileContentsQuery == Asked("kFileGetContents", "Bytes", FileContentsQueryMembers)
FileInfoQueryMembers == [plain |-> {"mFileId"}, optional |-> {}, ids |-> {"mFileId"}]
FileInfoQuery == Asked("kFileGetInfo", "FileInfo", FileInfoQueryMembers)
NetworkVersionInfoQueryMembers == [plain |-> {}, optional |-> {}, ids |-> {}]
NetworkVersionInfoQuery == Asked("kNetworkGetVersionInfo", "NetworkVersionInfo", NetworkVersionInfoQueryMembers)
ScheduleInfoQueryMembers == [plain |-> {"mScheduleId"}, optional |-> {}, ids |-> {"mScheduleId"}]
ScheduleInfoQuery == Asked("kScheduleGetInfo", "ScheduleInfo", ScheduleInfoQueryMembers)
TokenInfoQueryMembers == [plain |-> {"mTokenId"}, optional |-> {}, ids |-> {"mTokenId"}]
TokenInfoQuery == Asked("kTokenGetInfo", "TokenInfo", TokenInfoQueryMembers)
TokenNftInfoQueryMembers == [plain |-> {"mNftId"}, optional |-> {}, ids |-> {"mNftId"}]
TokenNftInfoQuery == Asked("kTokenGetNftInfo", "TokenNftInfo", TokenNftInfoQueryMembers)
TopicInfoQueryMembers == [plain |-> {"mTopicId"}, optional |-> {}, ids |-> {"mTopicId"}]
TopicInfoQuery == Asked("kConsensusGetTopicInfo", "TopicInfo", TopicInfoQueryMembers)
TransactionReceiptQueryMembers ==
    [plain |-> {"mIncludeChildren", "mIncludeDuplicates"}, optional |-> {"mTransactionId"}, ids |-> {"mTransactionId"}]
TransactionReceiptQuery == [Asked("kTransactionGetReceipt", "TransactionReceipt", TransactionReceiptQueryMembers)
                            EXCEPT !.required = {"mTransactionId"}]
TransactionRecordQueryMembers ==
    [plain |-> {"mIncludeChildren", "mIncludeDuplicates"}, optional |-> {"mTransactionId"}, ids |-> {"mTransactionId"}]
TransactionRecordQuery == [Asked("kTransactionGetRecord", "TransactionRecord", TransactionRecordQueryMembers)
                           EXCEPT !.unwritten = {"mIncludeChildren", "mIncludeDuplicates"}]

Queries == [AccountBalanceQuery |-> AccountBalanceQuery, AccountInfoQuery |-> AccountInfoQuery,
    AccountRecordsQuery |-> AccountRecordsQuery, AccountStakersQuery |-> AccountStakersQuery,
    ContractByteCodeQuery |-> ContractByteCodeQuery, ContractCallQuery |-> ContractCallQuery,
    ContractInfoQuery |-> ContractInfoQuery, FileContentsQuery |-> FileContentsQuery, FileInfoQuery |-> FileInfoQuery,
    NetworkVersionInfoQuery |-> NetworkVersionInfoQuery, ScheduleInfoQuery |-> ScheduleInfoQuery,
    TokenInfoQuery |-> TokenInfoQuery, TokenNftInfoQuery |-> TokenNftInfoQuery, TopicInfoQuery |-> TopicInfoQuery,
    TransactionReceiptQuery |-> TransactionReceiptQuery, TransactionRecordQuery |-> TransactionRecordQuery]
QueryClasses == DOMAIN Queries

-----------------------------------------------------------------------------
QueryFields(query) == Queries[query].plain \cup Queries[query].optional
NewQuery(query) == [f \in QueryFields(query) |-> IF f \in Queries[query].plain THEN "Empty" ELSE "None"]

(* Mutant: optional members are not sent.                                                           *)
SentMemberIfPlain(query, fields, f) ==
    IF f \in Queries[query].unwritten \cup Queries[query].optional THEN "None"
    ELSE IF fields[f] = "Foreign" THEN "Given" ELSE fields[f]

(* buildRequest().  A checksum is not sent.                                                         *)
SentMember(query, fields, f) ==
    IF f \in Queries[query].unwritten THEN "None"
    ELSE IF fields[f] = "Foreign" THEN "Given" ELSE fields[f]
BuildRequest(query, fields) == [f \in QueryFields(query) |-> SentMember(query, fields, f)]

(* The cases submitQuery of a node has a service for.                                               *)
AnsweredCases ==
    {"kConsensusGetTopicInfo", "kContractCallLocal", "kContractGetBytecode", "kContractGetInfo",
     "kCryptogetAccountBalance", "kCryptoGetAccountRecords", "kCryptoGetInfo", "kCryptoGetLiveHash",
     "kCryptoGetProxyStakers", "kFileGetContents", "kFileGetInfo", "kNetworkGetVersionInfo", "kScheduleGetInfo",
     "kTokenGetInfo", "kTokenGetNftInfo", "kTransactionGetReceipt", "kTransactionGetRecord"}
==============================================================================
