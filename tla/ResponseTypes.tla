--------------------------- MODULE ResponseTypes ---------------------------
(***************************************************************************)
(* The classes that hold what a node answers, or part of it: how            *)
(* fromProtobuf() reads every member, and what toBytes() writes of it.      *)
(***************************************************************************)
EXTENDS Naturals

(* What a member, or a field of a message, can hold: nothing, the default or an empty value, a      *)
(* value, or a value part of which is missing.  Keys, fees and addresses are of a kind that can be  *)
(* read.  The result of a call can begin with the selector of an error.  A scheduled transaction    *)
(* can be a topic message, one fromProtobuf throws for, as it does for a body without one, or one   *)
(* toSchedulableProtobuf throws for.                                                                *)
Contents == {"None", "Empty", "Given", "Part", "Prefixed", "Message", "Unread", "Unsaved"}

(* A plain member is read and written as it is, an optional one, or a pointer, if it is there.      *)
(* Exceptions are zeroIsNone: the default is read as nothing.  alwaysSet: read without asking       *)
(* whether it is there.  impliedWithout: read as an empty value if another member is not there.     *)
(* unwritten: not in the bytes.  partly: only part of it is in the bytes.  dereferenced: a pointer  *)
(* that is used without asking whether it is null.  Of some alternatives a message has one at most. *)
(* nested: members that hold objects of another class of this module.  scheduled: a member that     *)
(* holds a scheduled transaction.  results: one that holds the result of a call, or objects with    *)
(* one.                                                                                             *)
Serialized(members) ==
    [plain |-> members.plain, optional |-> members.optional,
     zeroIsNone |-> {}, alwaysSet |-> {}, impliedWithout |-> {},
     unwritten |-> {}, partly |-> {}, dereferenced |-> {}, alternatives |-> {}, nested |-> {},
     scheduled |-> {}, results |-> {}]

-----------------------------------------------------------------------------
(* The members of every class, and what its fromProtobuf() and toProtobuf() do with them.  What is  *)
(* computed from others (the rate in cents) is left out, the members of CustomFee are among those   *)
(* of the three fees, and the transfers of a record are in lists that name their tokens.            *)
BytesMembers == [plain |-> {"contents"}, optional |-> {}]
Bytes == Serialized(BytesMembers)
AccountBalanceMembers == [plain |-> {"mBalance", "mTokens"}, optional |-> {}]
AccountBalance == [Serialized(AccountBalanceMembers) EXCEPT !.unwritten = {"mTokens"}]
AccountInfoMembers == [plain |-> {"mAccountId", "mContractAccountId", "mIsDeleted", "mProxyReceived",
    "mBalance", "mReceiverSignatureRequired", "mExpirationTime", "mAutoRenewPeriod", "mMemo", "mOwnedNfts",
    "mMaxAutomaticTokenAssociations", "mLedgerId", "mStakingInfo", "mTokenRelationships"}, optional |->
    {"mKey", "mPublicKeyAlias", "mEvmAddressAlias"}]
AccountInfo == [Serialized(AccountInfoMembers) EXCEPT !.alternatives = {{"mPublicKeyAlias",
    "mEvmAddressAlias"}}, !.nested = {<<"mStakingInfo", "StakingInfo">>, <<"mTokenRelationships",
    "TokenRelationship">>}]
AccountRecordsMembers == [plain |-> {"mAccountId", "mRecords"}, optional |-> {}]
AccountRecords == [Serialized(AccountRecordsMembers) EXCEPT !.nested = {<<"mRecords", "TransactionRecord">>},
    !.results = {"mRecords"}]
AssessedCustomFeeMembers == [plain |-> {"mAmount", "mFeeCollectorAccountId", "mPayerAccountIdList"}, optional
    |-> {"mTokenId"}]
AssessedCustomFee == Serialized(AssessedCustomFeeMembers)
ContractFunctionResultMembers == [plain |-> {"mContractId", "mContractCallResult", "mErrorMessage", "mBloom",
    "mGasUsed", "mLogs", "mGas", "mHbarAmount", "mFunctionParameters", "mSenderAccountId", "mContractNonces"},
    optional |-> {"mEvmAddress", "mSignerNonce"}]
ContractFunctionResult == [Serialized(ContractFunctionResultMembers) EXCEPT !.nested = {<<"mLogs",
    "ContractLogInfo">>, <<"mContractNonces", "ContractNonceInfo">>}, !.results = {"mContractCallResult"}]
ContractInfoMembers == [plain |-> {"mContractId", "mAccountId", "mContractAccountId", "mExpirationTime",
    "mAutoRenewPeriod", "mStorage", "mMemo", "mBalance", "mIsDeleted", "mLedgerId",
    "mMaxAutomaticTokenAssociations", "mStakingInfo", "mTokenRelationships"}, optional |-> {"mAdminKey",
    "mAutoRenewAccountId"}]
ContractInfo == [Serialized(ContractInfoMembers) EXCEPT !.nested = {<<"mStakingInfo", "StakingInfo">>,
    <<"mTokenRelationships", "TokenRelationship">>}]
ContractLogInfoMembers == [plain |-> {"mContractId", "mBloom", "mTopics", "mData"}, optional |-> {}]
ContractLogInfo == Serialized(ContractLogInfoMembers)
ContractNonceInfoMembers == [plain |-> {"mContractId", "mNonce"}, optional |-> {}]
ContractNonceInfo == Serialized(ContractNonceInfoMembers)
CustomFixedFeeMembers == [plain |-> {"mAmount", "mFeeCollectorAccountId", "mAllCollectorsAreExempt"}, optional
    |-> {"mDenominatingTokenId"}]
CustomFixedFee == Serialized(CustomFixedFeeMembers)
CustomFractionalFeeMembers == [plain |-> {"mNumerator", "mDenominator", "mMinAmount", "mMaxAmount",
    "mAssessmentMethod", "mFeeCollectorAccountId", "mAllCollectorsAreExempt"}, optional |-> {}]
CustomFractionalFee == Serialized(CustomFractionalFeeMembers)
CustomRoyaltyFeeMembers == [plain |-> {"mNumerator", "mDenominator", "mFeeCollectorAccountId",
    "mAllCollectorsAreExempt"}, optional |-> {"mFallbackFee"}]
CustomRoyaltyFee == Serialized(CustomRoyaltyFeeMembers)
EndpointMembers == [plain |-> {"mAddress", "mPort", "mDomainName"}, optional |-> {}]
Endpoint == Serialized(EndpointMembers)
ExchangeRateMembers == [plain |-> {"mHbars", "mCents", "mExpirationTime"}, optional |-> {}]
ExchangeRate == Serialized(ExchangeRateMembers)
ExchangeRatesMembers == [plain |-> {"mCurrentRate", "mNextRate"}, optional |-> {}]
ExchangeRates == [Serialized(ExchangeRatesMembers) EXCEPT !.nested = {<<"mCurrentRate", "ExchangeRate">>,
    <<"mNextRate", "ExchangeRate">>}]
FeeComponentsMembers == [plain |-> {"mMin", "mMax", "mConstant", "mTransactionBandwidthBytes",
    "mTransactionVerification", "mTransactionRamByteHour", "mTransactionStorageByteHour",
    "mContractTransactionGas", "mTransferVolumeHbar", "mResponseMemoryByte", "mResponseDiskByte"}, optional
    |-> {}]
FeeComponents == Serialized(FeeComponentsMembers)
FeeDataMembers == [plain |-> {"mNodeData", "mNetworkData", "mServiceData", "mType"}, optional |-> {}]
FeeData == [Serialized(FeeDataMembers) EXCEPT !.nested = {<<"mNodeData", "FeeComponents">>, <<"mNetworkData",
    "FeeComponents">>, <<"mServiceData", "FeeComponents">>}]
FeeScheduleMembers == [plain |-> {"mTransactionFeeSchedules", "mExpirationTime"}, optional |-> {}]
FeeSchedule == [Serialized(FeeScheduleMembers) EXCEPT !.nested = {<<"mTransactionFeeSchedules",
    "TransactionFeeSchedule">>}]
FeeSchedulesMembers == [plain |-> {"mCurrentFeeSchedule", "mNextFeeSchedule"}, optional |-> {}]
FeeSchedules == [Serialized(FeeSchedulesMembers) EXCEPT !.nested = {<<"mCurrentFeeSchedule", "FeeSchedule">>,
    <<"mNextFeeSchedule", "FeeSchedule">>}]
FileInfoMembers == [plain |-> {"mFileId", "mSize", "mExpirationTime", "mIsDeleted", "mAdminKeys", "mMemo",
    "mLedgerId"}, optional |-> {}]
FileInfo == Serialized(FileInfoMembers)
HbarAllowanceMembers == [plain |-> {"mOwnerAccountId", "mSpenderAccountId", "mAmount"}, optional |-> {}]
HbarAllowance == Serialized(HbarAllowanceMembers)
HbarTransferMembers == [plain |-> {"mAccountId", "mAmount", "mIsApproved"}, optional |-> {}]
HbarTransfer == Serialized(HbarTransferMembers)
NetworkVersionInfoMembers == [plain |-> {"mProtobufVersion", "mServicesVersion"}, optional |-> {}]
NetworkVersionInfo == [Serialized(NetworkVersionInfoMembers) EXCEPT !.nested = {<<"mProtobufVersion",
    "SemanticVersion">>, <<"mServicesVersion", "SemanticVersion">>}]
NodeAddressMembers == [plain |-> {"mRSAPublicKey", "mNodeId", "mNodeAccountId", "mNodeCertHash", "mEndpoints",
    "mDescription"}, optional |-> {}]
NodeAddress == [Serialized(NodeAddressMembers) EXCEPT !.nested = {<<"mEndpoints", "Endpoint">>}]
NodeAddressBookMembers == [plain |-> {"mNodeAddresses"}, optional |-> {}]
NodeAddressBook == [Serialized(NodeAddressBookMembers) EXCEPT !.nested = {<<"mNodeAddresses", "NodeAddress">>}]
PendingAirdropIdMembers == [plain |-> {"mSender", "mReceiver"}, optional |-> {"mFt", "mNft"}]
PendingAirdropId == [Serialized(PendingAirdropIdMembers) EXCEPT !.alternatives = {{"mFt", "mNft"}}]
PendingAirdropRecordMembers == [plain |-> {"mPendingAirdropId", "mAmount"}, optional |-> {}]
PendingAirdropRecord == [Serialized(PendingAirdropRecordMembers) EXCEPT !.nested = {<<"mPendingAirdropId",
    "PendingAirdropId">>}]
ProxyStakerMembers == [plain |-> {"mAccountId", "mAmount"}, optional |-> {}]
ProxyStaker == Serialized(ProxyStakerMembers)
ScheduleInfoMembers == [plain |-> {"mScheduleId", "mExpirationTime", "mScheduledTransaction", "mMemo",
    "mSignatories", "mCreatorAccountId", "mPayerAccountId", "mScheduledTransactionId", "mLedgerId",
    "mWaitForExpiry"}, optional |-> {"mExecutionTime", "mDeletionTime", "mAdminKey"}]
ScheduleInfo == [Serialized(ScheduleInfoMembers) EXCEPT !.alternatives = {{"mExecutionTime", "mDeletionTime"}},
    !.scheduled = {"mScheduledTransaction"}]
SemanticVersionMembers == [plain |-> {"mMajor", "mMinor", "mPatch", "mPre", "mBuild"}, optional |-> {}]
SemanticVersion == Serialized(SemanticVersionMembers)
StakingInfoMembers == [plain |-> {"mDeclineRewards", "mPendingReward", "mStakedToMe"}, optional |->
    {"mStakePeriodStart", "mStakedAccountId", "mStakedNodeId"}]
StakingInfo == [Serialized(StakingInfoMembers) EXCEPT !.alternatives = {{"mStakedAccountId", "mStakedNodeId"}}]
TokenAllowanceMembers == [plain |-> {"mTokenId", "mOwnerAccountId", "mSpenderAccountId", "mAmount"}, optional
    |-> {}]
TokenAllowance == Serialized(TokenAllowanceMembers)
TokenAssociationMembers == [plain |-> {"mAccountId", "mTokenId"}, optional |-> {}]
TokenAssociation == Serialized(TokenAssociationMembers)
TokenInfoMembers == [plain |-> {"mTokenId", "mTokenName", "mTokenSymbol", "mDecimals", "mTotalSupply",
    "mTreasuryAccountId", "mIsDeleted", "mAutoRenewAccountId", "mAutoRenewPeriod", "mExpirationTime",
    "mTokenMemo", "mTokenType", "mSupplyType", "mMaxSupply", "mCustomFees", "mLedgerId", "mMetadata"},
    optional |-> {"mAdminKey", "mKycKey", "mFreezeKey", "mWipeKey", "mSupplyKey", "mDefaultFreezeStatus",
    "mDefaultKycStatus", "mFeeScheduleKey", "mPauseKey", "mPauseStatus", "mMetadataKey"}]
TokenInfo == [Serialized(TokenInfoMembers) EXCEPT !.dereferenced = {"mAdminKey", "mKycKey", "mFreezeKey",
    "mWipeKey", "mSupplyKey", "mFeeScheduleKey", "mPauseKey", "mMetadataKey"}]
TokenNftAllowanceMembers == [plain |-> {"mSerialNumbers"}, optional |-> {"mTokenId", "mOwnerAccountId",
    "mSpenderAccountId", "mApprovedForAll", "mDelegatingSpenderAccountId"}]
TokenNftAllowance == Serialized(TokenNftAllowanceMembers)
TokenNftInfoMembers == [plain |-> {"mNftId", "mAccountId", "mCreationTime", "mMetadata", "mLedgerId"},
    optional |-> {"mSpenderId"}]
TokenNftInfo == Serialized(TokenNftInfoMembers)
TokenNftTransferMembers == [plain |-> {"mNftId", "mSenderAccountId", "mReceiverAccountId", "mIsApproval"},
    optional |-> {}]
TokenNftTransfer == [Serialized(TokenNftTransferMembers) EXCEPT !.partly = {"mNftId"}]
TokenRelationshipMembers == [plain |-> {"mTokenId", "mSymbol", "mBalance", "mDecimals",
    "mAutomaticAssociation"}, optional |-> {"mKycStatus", "mFreezeStatus"}]
TokenRelationship == [Serialized(TokenRelationshipMembers) EXCEPT !.unwritten = {"mAutomaticAssociation"}]
TokenTransferMembers == [plain |-> {"mTokenId", "mAccountId", "mAmount", "mExpectedDecimals", "mIsApproval"},
    optional |-> {}]
TokenTransfer == [Serialized(TokenTransferMembers) EXCEPT !.unwritten = {"mTokenId", "mExpectedDecimals"}]
TopicInfoMembers == [plain |-> {"mTopicId", "mMemo", "mRunningHash", "mSequenceNumber", "mExpirationTime",
    "mLedgerId"}, optional |-> {"mAdminKey", "mSubmitKey", "mAutoRenewPeriod", "mAutoRenewAccountId"}]
TopicInfo == Serialized(TopicInfoMembers)
TransactionFeeScheduleMembers == [plain |-> {"mRequestType", "mFees"}, optional |-> {}]
TransactionFeeSchedule == [Serialized(TransactionFeeScheduleMembers) EXCEPT !.nested = {<<"mFees", "FeeData">>}]
TransactionReceiptMembers == [plain |-> {"mTransactionId", "mStatus", "mExchangeRates", "mSerialNumbers",
    "mDuplicates", "mChildren"}, optional |-> {"mAccountId", "mFileId", "mContractId", "mTopicId",
    "mTopicSequenceNumber", "mTopicRunningHash", "mTopicRunningHashVersion", "mTokenId", "mNewTotalSupply",
    "mScheduleId", "mScheduledTransactionId", "mNodeId"}]
TransactionReceipt == [Serialized(TransactionReceiptMembers) EXCEPT !.zeroIsNone = {"mTopicSequenceNumber",
    "mTopicRunningHash", "mTopicRunningHashVersion"}, !.alwaysSet = {"mNewTotalSupply", "mNodeId"},
    !.unwritten = {"mTransactionId", "mTokenId", "mDuplicates", "mChildren"}, !.partly = {"mExchangeRates"}]
TransactionRecordMembers == [plain |-> {"mTransactionHash", "mMemo", "mTransactionFee", "mHbarTransferList",
    "mTokenTransferList", "mNftTransferList", "mAssessedCustomFees", "mAutomaticTokenAssociations",
    "mPaidStakingRewards", "mPrngBytes", "mChildren", "mDuplicates", "mPendingAirdropRecords"}, optional |->
    {"mReceipt", "mConsensusTimestamp", "mTransactionId", "mContractFunctionResult", "mScheduleRef",
    "mParentConsensusTimestamp", "mAlias", "mEthereumHash", "mPrngNumber", "mEvmAddress"}]
TransactionRecord == [Serialized(TransactionRecordMembers) EXCEPT !.impliedWithout = {<<"mReceipt",
    "mTransactionId">>}, !.unwritten = {"mPendingAirdropRecords",
    "mDuplicates", "mChildren"}, !.alternatives = {{"mPrngBytes", "mPrngNumber"}}, !.nested = {<<"mReceipt",
    "TransactionReceipt">>, <<"mContractFunctionResult", "ContractFunctionResult">>, <<"mHbarTransferList",
    "HbarTransfer">>, <<"mPaidStakingRewards", "HbarTransfer">>, <<"mAssessedCustomFees",
    "AssessedCustomFee">>, <<"mAutomaticTokenAssociations", "TokenAssociation">>}, !.results =
    {"mContractFunctionResult"}]

(* All of them.                                                                                     *)
Responses == [Bytes |-> Bytes, AccountBalance |-> AccountBalance, AccountInfo |-> AccountInfo, AccountRecords |->
    AccountRecords, AssessedCustomFee |-> AssessedCustomFee, ContractFunctionResult |->
    ContractFunctionResult, ContractInfo |-> ContractInfo, ContractLogInfo |-> ContractLogInfo,
    ContractNonceInfo |-> ContractNonceInfo, CustomFixedFee |-> CustomFixedFee, CustomFractionalFee |->
    CustomFractionalFee, CustomRoyaltyFee |-> CustomRoyaltyFee, Endpoint |-> Endpoint, ExchangeRate |->
    ExchangeRate, ExchangeRates |-> ExchangeRates, FeeComponents |-> FeeComponents, FeeData |-> FeeData,
    FeeSchedule |-> FeeSchedule, FeeSchedules |-> FeeSchedules, FileInfo |-> FileInfo, HbarAllowance |->
    HbarAllowance, HbarTransfer |-> HbarTransfer, NetworkVersionInfo |-> NetworkVersionInfo, NodeAddress |->
    NodeAddress, NodeAddressBook |-> NodeAddressBook, PendingAirdropId |-> PendingAirdropId,
    PendingAirdropRecord |-> PendingAirdropRecord, ProxyStaker |-> ProxyStaker, ScheduleInfo |-> ScheduleInfo,
    SemanticVersion |-> SemanticVersion, StakingInfo |-> StakingInfo, TokenAllowance |-> TokenAllowance,
    TokenAssociation |-> TokenAssociation, TokenInfo |-> TokenInfo, TokenNftAllowance |-> TokenNftAllowance,
    TokenNftInfo |-> TokenNftInfo, TokenNftTransfer |-> TokenNftTransfer, TokenRelationship |->
    TokenRelationship, TokenTransfer |-> TokenTransfer, TopicInfo |-> TopicInfo, TransactionFeeSchedule |->
    TransactionFeeSchedule, TransactionReceipt |-> TransactionReceipt, TransactionRecord |->
    TransactionRecord]

ResponseClasses == DOMAIN Responses
Members(class) == Responses[class].plain \cup Responses[class].optional

(* These have no toBytes(): they are only written inside others.                                    *)
InnerClasses ==
    {"Bytes", "Endpoint", "HbarAllowance", "NodeAddress", "PendingAirdropId", "PendingAirdropRecord", "TokenRelationship"}

-----------------------------------------------------------------------------
(* fromProtobuf().  The selector of an error is removed from the result of a call that failed, and  *)
(* the constructor of a scheduled topic message leaves its data out.                                *)
CanRead(class, message) == \A f \in Responses[class].scheduled : message[f] # "Unread"
Failed(class, message) == class = "ContractFunctionResult" => message["mErrorMessage"] = "Given"
ReadMember(class, message, f) ==
    LET r == Responses[class]
        implied == \E p \in r.impliedWithout : p[1] = f /\ message[p[2]] = "None"
    IN  CASE f \in r.results /\ message[f] = "Prefixed" /\ Failed(class, message) -> "Part"
          [] f \in r.scheduled /\ message[f] = "Message" -> "Part"
          [] f \in r.zeroIsNone /\ message[f] = "Empty" -> "None"
          [] f \in r.plain \cup r.alwaysSet /\ message[f] = "None" -> "Empty"
          [] implied /\ message[f] = "None" -> "Empty"
          [] OTHER -> message[f]
FromProtobuf(class, message) == [f \in Members(class) |-> ReadMember(class, message, f)]

(* The classes that lose something in bytes, or hold objects of a class that does: their depth is   *)
(* that of FeeSchedules at most.                                                                    *)
NestingDepth == 5
LossyWithin[depth \in 0..NestingDepth] ==
    IF depth = 0 THEN {c \in ResponseClasses : Responses[c].unwritten \cup Responses[c].partly # {}}
    ELSE LET inner == LossyWithin[depth - 1]
         IN  inner \cup {c \in ResponseClasses : \E p \in Responses[c].nested : p[2] \in inner}
LossyClasses == LossyWithin[NestingDepth]

(* Mutant: only plain members are written.                                                          *)
WriteMemberIfPlain(class, object, f) == IF f \in Responses[class].plain THEN object[f] ELSE "None"

(* toProtobuf(), which can throw or use a null pointer.                                             *)
WriteMember(class, object, f) ==
    LET r == Responses[class]
        lossy == f \in r.partly \/ \E p \in r.nested : p[1] = f /\ p[2] \in LossyClasses
    IN  CASE f \in r.unwritten -> "None"
          [] lossy /\ object[f] = "Given" -> "Part"
          [] OTHER -> object[f]
Throws(class, object) == \E f \in Responses[class].scheduled : object[f] = "Unsaved"
CanWrite(class, object) == \A f \in Responses[class].dereferenced : object[f] # "None"
ToProtobuf(class, object) == [f \in Members(class) |-> WriteMember(class, object, f)]
==============================================================================
