--------------------------- MODULE TransactionTypes ---------------------------
(***************************************************************************)
(* The classes of transactions, as far as their data goes: the member of    *)
(* TransactionBody each stands for, and how its build() writes every field  *)
(* of the object and its initFromSourceTransactionBody() reads it back.     *)
(* Then the places that choose a class or a service by that member.         *)
(***************************************************************************)
EXTENDS FiniteSets

(* What a field can hold: an optional or a pointer that is not set, the default or an empty value,  *)
(* a value, a point in time that is not a whole second, IDs of entities one of which has the        *)
(* checksum of another ledger, or custom fees of which only the fallback fee of a royalty has one.  *)
Values == {"None", "Empty", "Given", "Fraction", "Foreign", "Fallback"}

(* How the members of a class are written and read.  A plain one is written as it is, an optional   *)
(* one, or a pointer, if it holds something, and it is read if it is there.  Exceptions are         *)
(* unlessDefault: not written if it is the default.  scalar: an optional written to a plain         *)
(* protobuf field, which cannot tell unset from empty.  seconds: without fractions.  message: read  *)
(* from the list of transactions, never from a single body.                                         *)
(* Setting one of some alternatives resets the others; uninitialised members have no initial value; *)
(* clearable ones can be reset.  validateChecksums looks at the members that hold IDs, transfers    *)
(* and what is scheduled among them, but for the unvalidated ones.                                  *)
Converted(case, members) ==
    [case |-> case, plain |-> members.plain, optional |-> members.optional, ids |-> members.ids,
     unlessDefault |-> {}, scalar |-> {}, seconds |-> {}, message |-> {},
     alternatives |-> {}, uninitialised |-> {}, clearable |-> {}, unvalidated |-> {}]

-----------------------------------------------------------------------------
(* The members of every class, and what its setters, validateChecksums(),                           *)
(* initFromSourceTransactionBody() and build() do with them.  Two classes hold transfers, which     *)
(* module Transfers describes, and mData is what a ChunkedTransaction holds.                        *)
AccountAllowanceApproveMembers == [plain |-> {"mHbarAllowances", "mTokenAllowances", "mNftAllowances"},
    optional |-> {}, ids |-> {"mHbarAllowances", "mTokenAllowances", "mNftAllowances"}]
AccountAllowanceApproveTransaction == Converted("kCryptoApproveAllowance", AccountAllowanceApproveMembers)
AccountAllowanceDeleteMembers == [plain |-> {"mNftAllowanceDeletions"}, optional |-> {}, ids |->
    {"mNftAllowanceDeletions"}]
AccountAllowanceDeleteTransaction == Converted("kCryptoDeleteAllowance", AccountAllowanceDeleteMembers)
AccountCreateMembers == [plain |-> {"mInitialBalance", "mReceiverSignatureRequired", "mAutoRenewPeriod",
    "mAccountMemo", "mMaxAutomaticTokenAssociations", "mDeclineStakingReward"}, optional |-> {"mKey",
    "mStakedAccountId", "mStakedNodeId", "mAlias"}, ids |-> {"mStakedAccountId"}]
AccountCreateTransaction == [Converted("kCryptoCreateAccount", AccountCreateMembers) EXCEPT !.alternatives =
    {{"mStakedAccountId", "mStakedNodeId"}}]
AccountDeleteMembers == [plain |-> {}, optional |-> {"mDeleteAccountId", "mTransferAccountId"}, ids |->
    {"mDeleteAccountId", "mTransferAccountId"}]
AccountDeleteTransaction == Converted("kCryptoDelete", AccountDeleteMembers)
AccountUpdateMembers == [plain |-> {"mAccountId"}, optional |-> {"mKey", "mReceiverSignatureRequired",
    "mAutoRenewPeriod", "mExpirationTime", "mAccountMemo", "mMaxAutomaticTokenAssociations",
    "mStakedAccountId", "mStakedNodeId", "mDeclineStakingReward"}, ids |-> {"mAccountId", "mStakedAccountId"}]
AccountUpdateTransaction == [Converted("kCryptoUpdateAccount", AccountUpdateMembers) EXCEPT !.unlessDefault =
    {"mAccountId"}, !.alternatives = {{"mStakedAccountId", "mStakedNodeId"}}]
ContractCreateMembers == [plain |-> {"mGas", "mInitialBalance", "mAutoRenewPeriod", "mConstructorParameters",
    "mMemo", "mMaxAutomaticTokenAssociations", "mDeclineStakingReward"}, optional |-> {"mBytecodeFileId",
    "mBytecode", "mAdminKey", "mAutoRenewAccountId", "mStakedAccountId", "mStakedNodeId"}, ids |->
    {"mBytecodeFileId", "mAutoRenewAccountId", "mStakedAccountId"}]
ContractCreateTransaction == [Converted("kContractCreateInstance", ContractCreateMembers) EXCEPT
    !.alternatives = {{"mBytecodeFileId", "mBytecode"}, {"mStakedAccountId", "mStakedNodeId"}}]
ContractDeleteMembers == [plain |-> {"mContractId"}, optional |-> {"mTransferAccountId",
    "mTransferContractId"}, ids |-> {"mContractId", "mTransferAccountId", "mTransferContractId"}]
ContractDeleteTransaction == [Converted("kContractDeleteInstance", ContractDeleteMembers) EXCEPT
    !.alternatives = {{"mTransferAccountId", "mTransferContractId"}}]
ContractExecuteMembers == [plain |-> {"mContractId", "mGas", "mPayableAmount", "mFunctionParameters"},
    optional |-> {}, ids |-> {"mContractId"}]
ContractExecuteTransaction == Converted("kContractCall", ContractExecuteMembers)
ContractUpdateMembers == [plain |-> {"mContractId"}, optional |-> {"mExpirationTime", "mAdminKey",
    "mAutoRenewPeriod", "mContractMemo", "mMaxAutomaticTokenAssociations", "mAutoRenewAccountId",
    "mStakedAccountId", "mStakedNodeId", "mDeclineStakingReward"}, ids |-> {"mContractId",
    "mAutoRenewAccountId", "mStakedAccountId"}]
ContractUpdateTransaction == [Converted("kContractUpdateInstance", ContractUpdateMembers) EXCEPT
    !.alternatives = {{"mStakedAccountId", "mStakedNodeId"}}]
EthereumMembers == [plain |-> {"mEthereumData", "mMaxGasAllowance"}, optional |-> {"mCallDataFileId"}, ids |->
    {"mCallDataFileId"}]
EthereumTransaction == Converted("kEthereumTransaction", EthereumMembers)
FileAppendMembers == [plain |-> {"mFileId", "mData"}, optional |-> {}, ids |-> {"mFileId"}]
FileAppendTransaction == Converted("kFileAppend", FileAppendMembers)
FileCreateMembers == [plain |-> {"mExpirationTime", "mKeys", "mContents", "mFileMemo"}, optional |-> {}, ids
    |-> {}]
FileCreateTransaction == Converted("kFileCreate", FileCreateMembers)
FileDeleteMembers == [plain |-> {"mFileId"}, optional |-> {}, ids |-> {"mFileId"}]
FileDeleteTransaction == Converted("kFileDelete", FileDeleteMembers)
FileUpdateMembers == [plain |-> {"mFileId"}, optional |-> {"mExpirationTime", "mKeys", "mFileMemo",
    "mContents"}, ids |-> {"mFileId"}]
FileUpdateTransaction == [Converted("kFileUpdate", FileUpdateMembers) EXCEPT !.scalar = {"mContents"}]
FreezeMembers == [plain |-> {"mFileHash", "mFreezeType"}, optional |-> {"mFileId", "mStartTime"}, ids |->
    {"mFileId"}]
FreezeTransaction == Converted("kFreeze", FreezeMembers)
NodeCreateMembers == [plain |-> {"mAccountId", "mGossipEndpoints", "mServiceEndpoints",
    "mGossipCaCertificate"}, optional |-> {"mAdminKey", "mDescription", "mGrpcCertificateHash"}, ids |->
    {"mAccountId"}]
NodeCreateTransaction == [Converted("kNodeCreate", NodeCreateMembers) EXCEPT !.scalar = {"mDescription",
    "mGrpcCertificateHash"}]
NodeDeleteMembers == [plain |-> {"mNodeId"}, optional |-> {}, ids |-> {}]
NodeDeleteTransaction == [Converted("kNodeDelete", NodeDeleteMembers) EXCEPT !.uninitialised = {"mNodeId"}]
NodeUpdateMembers == [plain |-> {"mNodeId", "mAccountId", "mGossipEndpoints", "mServiceEndpoints",
    "mGossipCaCertificate"}, optional |-> {"mDescription", "mGrpcCertificateHash", "mAdminKey"}, ids |->
    {"mAccountId"}]
NodeUpdateTransaction == [Converted("kNodeUpdate", NodeUpdateMembers) EXCEPT !.uninitialised = {"mNodeId"}]
PrngMembers == [plain |-> {"mRange"}, optional |-> {}, ids |-> {}]
PrngTransaction == Converted("kUtilPrng", PrngMembers)
ScheduleCreateMembers == [plain |-> {"mMemo", "mWaitForExpiration"}, optional |-> {"mAdminKey",
    "mPayerAccountId", "mExpirationTime"}, ids |-> {"mPayerAccountId", "mTransactionToSchedule"}]
ScheduleCreateTransaction == [Converted("kScheduleCreate", ScheduleCreateMembers) EXCEPT !.unvalidated =
    {"mTransactionToSchedule"}]
ScheduleDeleteMembers == [plain |-> {}, optional |-> {"mScheduleId"}, ids |-> {"mScheduleId"}]
ScheduleDeleteTransaction == Converted("kScheduleDelete", ScheduleDeleteMembers)
ScheduleSignMembers == [plain |-> {}, optional |-> {"mScheduleId"}, ids |-> {"mScheduleId"}]
ScheduleSignTransaction == [Converted("kScheduleSign", ScheduleSignMembers) EXCEPT !.clearable =
    {"mScheduleId"}]
SystemDeleteMembers == [plain |-> {"mExpirationTime"}, optional |-> {"mFileId", "mContractId"}, ids |->
    {"mFileId", "mContractId"}]
SystemDeleteTransaction == [Converted("kSystemDelete", SystemDeleteMembers) EXCEPT !.seconds =
    {"mExpirationTime"}, !.alternatives = {{"mFileId", "mContractId"}}]
SystemUndeleteMembers == [plain |-> {}, optional |-> {"mFileId", "mContractId"}, ids |-> {"mFileId",
    "mContractId"}]
SystemUndeleteTransaction == [Converted("kSystemUndelete", SystemUndeleteMembers) EXCEPT !.alternatives =
    {{"mFileId", "mContractId"}}]
TokenAirdropMembers == [plain |-> {}, optional |-> {}, ids |-> {"mTokenTransfers", "mNftTransfers"}]
TokenAirdropTransaction == [Converted("kTokenAirdrop", TokenAirdropMembers) EXCEPT !.unvalidated =
    {"mTokenTransfers", "mNftTransfers"}]
TokenAssociateMembers == [plain |-> {"mTokenIds"}, optional |-> {"mAccountId"}, ids |-> {"mTokenIds",
    "mAccountId"}]
TokenAssociateTransaction == Converted("kTokenAssociate", TokenAssociateMembers)
TokenBurnMembers == [plain |-> {"mAmount", "mSerialNumbers", "mTokenId"}, optional |-> {}, ids |-> {"mTokenId"}]
TokenBurnTransaction == [Converted("kTokenBurn", TokenBurnMembers) EXCEPT !.unlessDefault = {"mTokenId"}]
TokenCancelAirdropMembers == [plain |-> {"mPendingAirdrops"}, optional |-> {}, ids |-> {"mPendingAirdrops"}]
TokenCancelAirdropTransaction == [Converted("kTokenCancelAirdrop", TokenCancelAirdropMembers) EXCEPT
    !.unvalidated = {"mPendingAirdrops"}]
TokenClaimAirdropMembers == [plain |-> {"mPendingAirdrops"}, optional |-> {}, ids |-> {"mPendingAirdrops"}]
TokenClaimAirdropTransaction == [Converted("kTokenClaimAirdrop", TokenClaimAirdropMembers) EXCEPT
    !.unvalidated = {"mPendingAirdrops"}]
TokenCreateMembers == [plain |-> {"mTokenName", "mTokenSymbol", "mDecimals", "mInitialSupply",
    "mFreezeDefault", "mExpirationTime", "mAutoRenewPeriod", "mTokenMemo", "mTokenType", "mSupplyType",
    "mMaxSupply", "mCustomFees", "mMetadata"}, optional |-> {"mTreasuryAccountId", "mAdminKey", "mKycKey",
    "mFreezeKey", "mWipeKey", "mSupplyKey", "mAutoRenewAccountId", "mFeeScheduleKey", "mPauseKey",
    "mMetadataKey"}, ids |-> {"mCustomFees", "mTreasuryAccountId", "mAutoRenewAccountId"}]
TokenCreateTransaction == Converted("kTokenCreation", TokenCreateMembers)
TokenDeleteMembers == [plain |-> {}, optional |-> {"mTokenId"}, ids |-> {"mTokenId"}]
TokenDeleteTransaction == Converted("kTokenDeletion", TokenDeleteMembers)
TokenDissociateMembers == [plain |-> {"mTokenIds"}, optional |-> {"mAccountId"}, ids |-> {"mTokenIds",
    "mAccountId"}]
TokenDissociateTransaction == Converted("kTokenDissociate", TokenDissociateMembers)
TokenFeeScheduleUpdateMembers == [plain |-> {"mCustomFees", "mTokenId"}, optional |-> {}, ids |->
    {"mCustomFees", "mTokenId"}]
TokenFeeScheduleUpdateTransaction == [Converted("kTokenFeeScheduleUpdate", TokenFeeScheduleUpdateMembers)
    EXCEPT !.unlessDefault = {"mTokenId"}]
TokenFreezeMembers == [plain |-> {"mAccountId", "mTokenId"}, optional |-> {}, ids |-> {"mAccountId",
    "mTokenId"}]
TokenFreezeTransaction == [Converted("kTokenFreeze", TokenFreezeMembers) EXCEPT !.unlessDefault =
    {"mAccountId", "mTokenId"}]
TokenGrantKycMembers == [plain |-> {"mAccountId", "mTokenId"}, optional |-> {}, ids |-> {"mAccountId",
    "mTokenId"}]
TokenGrantKycTransaction == [Converted("kTokenGrantKyc", TokenGrantKycMembers) EXCEPT !.unlessDefault =
    {"mAccountId", "mTokenId"}]
TokenMintMembers == [plain |-> {"mAmount", "mMetadataList", "mTokenId"}, optional |-> {}, ids |-> {"mTokenId"}]
TokenMintTransaction == [Converted("kTokenMint", TokenMintMembers) EXCEPT !.unlessDefault = {"mTokenId"}]
TokenPauseMembers == [plain |-> {"mTokenId"}, optional |-> {}, ids |-> {"mTokenId"}]
TokenPauseTransaction == [Converted("kTokenPause", TokenPauseMembers) EXCEPT !.unlessDefault = {"mTokenId"}]
TokenRejectMembers == [plain |-> {"mFts", "mNfts"}, optional |-> {"mOwner"}, ids |-> {"mFts", "mNfts",
    "mOwner"}]
TokenRejectTransaction == Converted("kTokenReject", TokenRejectMembers)
TokenRevokeKycMembers == [plain |-> {"mAccountId", "mTokenId"}, optional |-> {}, ids |-> {"mAccountId",
    "mTokenId"}]
TokenRevokeKycTransaction == [Converted("kTokenRevokeKyc", TokenRevokeKycMembers) EXCEPT !.unlessDefault =
    {"mAccountId", "mTokenId"}]
TokenUnfreezeMembers == [plain |-> {"mAccountId", "mTokenId"}, optional |-> {}, ids |-> {"mAccountId",
    "mTokenId"}]
TokenUnfreezeTransaction == [Converted("kTokenUnfreeze", TokenUnfreezeMembers) EXCEPT !.unlessDefault =
    {"mAccountId", "mTokenId"}]
TokenUnpauseMembers == [plain |-> {"mTokenId"}, optional |-> {}, ids |-> {"mTokenId"}]
TokenUnpauseTransaction == [Converted("kTokenUnpause", TokenUnpauseMembers) EXCEPT !.unlessDefault =
    {"mTokenId"}]
TokenUpdateNftsMembers == [plain |-> {"mTokenId", "mSerials", "mMetadata"}, optional |-> {}, ids |->
    {"mTokenId"}]
TokenUpdateNftsTransaction == Converted("kTokenUpdateNfts", TokenUpdateNftsMembers)
TokenUpdateMembers == [plain |-> {"mTokenId", "mKeyVerificationMode", "mMetadata"}, optional |->
    {"mTreasuryAccountId", "mAdminKey", "mKycKey", "mFreezeKey", "mWipeKey", "mSupplyKey",
    "mAutoRenewAccountId", "mAutoRenewPeriod", "mExpirationTime", "mTokenMemo", "mFeeScheduleKey",
    "mPauseKey", "mMetadataKey", "mTokenName", "mTokenSymbol"}, ids |-> {"mTokenId", "mTreasuryAccountId",
    "mAutoRenewAccountId"}]
TokenUpdateTransaction == [Converted("kTokenUpdate", TokenUpdateMembers) EXCEPT !.unlessDefault =
    {"mMetadata"}, !.scalar = {"mTokenName", "mTokenSymbol"}]
TokenWipeMembers == [plain |-> {"mAmount", "mSerialNumbers", "mTokenId", "mAccountId"}, optional |-> {}, ids
    |-> {"mTokenId", "mAccountId"}]
TokenWipeTransaction == [Converted("kTokenWipe", TokenWipeMembers) EXCEPT !.unlessDefault = {"mTokenId",
    "mAccountId"}]
TopicCreateMembers == [plain |-> {"mMemo", "mAutoRenewPeriod"}, optional |-> {"mAdminKey", "mSubmitKey",
    "mAutoRenewAccountId"}, ids |-> {"mAutoRenewAccountId"}]
TopicCreateTransaction == Converted("kConsensusCreateTopic", TopicCreateMembers)
TopicDeleteMembers == [plain |-> {}, optional |-> {"mTopicId"}, ids |-> {"mTopicId"}]
TopicDeleteTransaction == Converted("kConsensusDeleteTopic", TopicDeleteMembers)
TopicMessageSubmitMembers == [plain |-> {"mTopicId", "mData"}, optional |-> {}, ids |-> {"mTopicId"}]
TopicMessageSubmitTransaction == [Converted("kConsensusSubmitMessage", TopicMessageSubmitMembers) EXCEPT
    !.unlessDefault = {"mTopicId"}, !.message = {"mData"}]
TopicUpdateMembers == [plain |-> {"mTopicId"}, optional |-> {"mMemo", "mExpirationTime", "mAdminKey",
    "mSubmitKey", "mAutoRenewPeriod", "mAutoRenewAccountId"}, ids |-> {"mTopicId", "mAutoRenewAccountId"}]
TopicUpdateTransaction == [Converted("kConsensusUpdateTopic", TopicUpdateMembers) EXCEPT !.unlessDefault =
    {"mTopicId"}]
TransferMembers == [plain |-> {}, optional |-> {}, ids |-> {"mHbarTransfers", "mTokenTransfers",
    "mNftTransfers"}]
TransferTransaction == Converted("kCryptoTransfer", TransferMembers)

-----------------------------------------------------------------------------
(* WrappedTransaction holds one of these.                                                           *)
Types == [AccountAllowanceApprove |-> AccountAllowanceApproveTransaction, AccountAllowanceDelete |->
    AccountAllowanceDeleteTransaction, AccountCreate |-> AccountCreateTransaction, AccountDelete |->
    AccountDeleteTransaction, AccountUpdate |-> AccountUpdateTransaction, ContractCreate |->
    ContractCreateTransaction, ContractDelete |-> ContractDeleteTransaction, ContractExecute |->
    ContractExecuteTransaction, ContractUpdate |-> ContractUpdateTransaction, Ethereum |-> EthereumTransaction,
    FileAppend |-> FileAppendTransaction, FileCreate |-> FileCreateTransaction, FileDelete |->
    FileDeleteTransaction, FileUpdate |-> FileUpdateTransaction, Freeze |-> FreezeTransaction, NodeCreate |->
    NodeCreateTransaction, NodeDelete |-> NodeDeleteTransaction, NodeUpdate |-> NodeUpdateTransaction, Prng |->
    PrngTransaction, ScheduleCreate |-> ScheduleCreateTransaction, ScheduleDelete |-> ScheduleDeleteTransaction,
    ScheduleSign |-> ScheduleSignTransaction, SystemDelete |-> SystemDeleteTransaction, SystemUndelete |->
    SystemUndeleteTransaction, TokenAirdrop |-> TokenAirdropTransaction, TokenAssociate |->
    TokenAssociateTransaction, TokenBurn |-> TokenBurnTransaction, TokenCancelAirdrop |->
    TokenCancelAirdropTransaction, TokenClaimAirdrop |-> TokenClaimAirdropTransaction, TokenCreate |->
    TokenCreateTransaction, TokenDelete |-> TokenDeleteTransaction, TokenDissociate |->
    TokenDissociateTransaction, TokenFeeScheduleUpdate |-> TokenFeeScheduleUpdateTransaction, TokenFreeze |->
    TokenFreezeTransaction, TokenGrantKyc |-> TokenGrantKycTransaction, TokenMint |-> TokenMintTransaction,
    TokenPause |-> TokenPauseTransaction, TokenReject |-> TokenRejectTransaction, TokenRevokeKyc |->
    TokenRevokeKycTransaction, TokenUnfreeze |-> TokenUnfreezeTransaction, TokenUnpause |->
    TokenUnpauseTransaction, TokenUpdateNfts |-> TokenUpdateNftsTransaction, TokenUpdate |->
    TokenUpdateTransaction, TokenWipe |-> TokenWipeTransaction, TopicCreate |-> TopicCreateTransaction,
    TopicDelete |-> TopicDeleteTransaction, TopicMessageSubmit |-> TopicMessageSubmitTransaction, TopicUpdate
    |-> TopicUpdateTransaction, Transfer |-> TransferTransaction]

Classes == DOMAIN Types
CaseOf(class) == Types[class].case
Fields(class) == Types[class].plain \cup Types[class].optional

(* The two classes that hold transfers, and the two that are sent in chunks.                        *)
TransferClasses == {"Transfer", "TokenAirdrop"}
ChunkedClasses == {"FileAppend", "TopicMessageSubmit"}

(* What a field of a new object holds, and any for a field nothing initialises.                     *)
InitialValue(class, f) ==
    IF f \in Types[class].optional THEN "None" ELSE "Empty"
InitialFields(class) ==
    {[f \in Fields(class) |-> IF f \in Types[class].uninitialised THEN any ELSE InitialValue(class, f)] :
        any \in {"Empty", "Given"}}

(* A key can be the ID of a contract, or a list with one.                                           *)
KeyMembers == {"mKey", "mKeys", "mAdminKey", "mSubmitKey", "mKycKey", "mFreezeKey", "mWipeKey", "mSupplyKey",
               "mFeeScheduleKey", "mPauseKey", "mMetadataKey"}

(* What a setter can be given, and the members validateChecksums looks at.                          *)
SetterValues(class, f) ==
    {"Empty", "Given"} \cup (IF f \in Types[class].ids \cup KeyMembers THEN {"Foreign"} ELSE {})
                      \cup (IF f = "mCustomFees" THEN {"Fallback"} ELSE {})
                      \cup (IF f \in Types[class].seconds THEN {"Fraction"} ELSE {})
                      \cup (IF f \in Types[class].clearable THEN {"None"} ELSE {})
Validated(class) == Types[class].ids \ Types[class].unvalidated

-----------------------------------------------------------------------------
(* The class an object is made of for the data of a body, or "none" where an exception is thrown.   *)

(* fromBytes knows every class.                                                                     *)
FromBytes(case) == CHOOSE class \in Classes : CaseOf(class) = case

(* fromProtobuf of a TransactionBody, which schedule() uses.                                        *)
FromTransactionBody(case) ==
    IF case \in {"kTokenAirdrop", "kTokenCancelAirdrop", "kTokenClaimAirdrop", "kTokenUpdate"} THEN "none"
    ELSE FromBytes(case)

(* fromProtobuf of a SchedulableTransactionBody: the test for kCryptoDelete asks for the data of    *)
(* another class, and two branches make an object of the wrong class.                               *)
FromSchedulableTransactionBody(case) ==
    CASE case \in {"kCryptoDelete", "kEthereumTransaction", "kScheduleCreate", "kScheduleSign", "kTokenUpdate"} -> "none"
      [] case = "kScheduleDelete" -> "ScheduleCreate"
      [] case = "kTokenUnfreeze" -> "TokenFreeze"
      [] OTHER -> FromBytes(case)

(* toSchedulableProtobuf throws for the rest.                                                       *)
SchedulableCases == {CaseOf(class) : class \in Classes} \
    {"kCryptoDelete", "kEthereumTransaction", "kScheduleCreate", "kScheduleSign", "kTokenReject",
     "kTokenUpdate", "kTokenUpdateNfts"}

(* The case whose service submitTransaction of a node calls, or "none" where an exception is        *)
(* thrown: four cases go to the service of another.                                                 *)
ServiceOf(case) ==
    CASE case \in {"kNodeCreate", "kNodeDelete", "kNodeUpdate"} -> "none"
      [] case \in {"kTokenCancelAirdrop", "kTokenClaimAirdrop"} -> "kTokenBurn"
      [] case = "kTokenReject" -> "kTokenRevokeKyc"
      [] case = "kTokenUpdateNfts" -> "kTokenUpdate"
      [] OTHER -> case
==============================================================================
