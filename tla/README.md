# A TLA+ model of the Hedera C++ SDK

This directory specifies, model-checks and proves properties of the control
logic of the SDK in `src/sdk/main`: how a request is executed against a network
of nodes, how a node is penalised and readmitted, how the pool of nodes is
selected from, replaced and reconfigured while several threads use it, how a
transaction is signed, cut into chunks, sent and sent again, how a query is paid
for, how a topic is subscribed to, and what becomes of the data of every class of
transaction, query, answer and ID on its way to a node, to bytes and back.

File names below are relative to `src/sdk/main/src` (or `include`).
`PROJECT.json` maps every definition that stands for code to its lines.

## 1. The system

| Component | State | Operations | Interacts with |
|---|---|---|---|
| **Executable** (`Executable.cc`): the loop behind every query and transaction | the attempt, the node list, the last status of each node, the request's own backoff, two deadlines | `execute`, `executeAsync` | reads and penalises nodes; asks the pool for nodes through `Client`; calls the virtual `makeRequest`, `determineStatus`, `mapResponse` |
| **BaseNode / Node / MirrorNode** (`impl/BaseNode.cc`, `impl/Node.cc`) | readmit time, current backoff, count of bad statuses, connection flag, channel and stubs, a mutex | `isHealthy`, `increaseBackoff`, `decreaseBackoff`, `channelFailedToConnect`, `submitQuery`, `submitTransaction`, `close`, `setAddress` | shared by all requests and the pool |
| **BaseNetwork / Network / MirrorNetwork** (`impl/BaseNetwork.cc`, `impl/Network.cc`) | the nodes, the nodes by key, the healthy nodes, the next readmission, the TLS policy, a mutex | `getNodeProxies`, `getNodeAccountIdsForExecute`, `setNetwork`, `close`, `setTransportSecurity` | reads, closes and readdresses nodes |
| **Transaction** (`Transaction.cc`) | source body, one signed body per node, built transactions, signers, ID, frozen flag | `freezeWith`, `sign`, `addSignature`, `makeRequest`, `determineStatus` (regenerates an expired ID), `toBytes` | called back by Executable |
| **ChunkedTransaction** (`ChunkedTransaction.cc`) | chunk IDs, current chunk | `executeAll`, `makeRequest`, regeneration of all chunks | several executions in a row, with receipts between them |
| **Query** (`Query.cc`, `TransactionReceiptQuery.cc`, `TransactionRecordQuery.cc`) | cost, "is this the cost query" flag, payment ID | `getCost`, `onExecute` (executes a cost query first), `makeRequest` (a payment per attempt), `determineStatus` | Executable, from inside itself |
| **TopicMessageQuery** (`TopicMessageQuery.cc`) | completion queues and contexts, call status, position and limit of the query, pending chunks | `subscribe`, the subscription thread, `unsubscribe` | mirror nodes, user callbacks, `Client`'s list of subscriptions |
| **AddressBookQuery** | attempt | `execute` | mirror nodes |
| **Client** (`Client.cc`) | settings, operator, networks, subscriptions, one mutex | setters and getters, `close` | owns the pools |
| **Flows** | none of their own | sequences of executions | transactions |
| **Data types** (some 50 classes of transactions, 16 of queries, 40 of answers, 7 of IDs) | members, a cached checksum | setters, `build`, `fromProtobuf`, `toBytes`, `schedule`, `validateChecksums`, `toString`, `toSolidityAddress` | everything above; tables in `WrappedTransaction`, `Transaction::fromBytes` and `impl/Node` tell the classes apart |
| keys, contract encoding, REST gateway | plain data | conversions | -- |

What is hard here:

* **Threads.** `executeAsync` runs requests on their own threads over shared
  nodes. A node's mutex is held during a whole call and during the ten-second
  wait for its channel, but let go between the health check, the connection and
  the submission.
* **Time.** Four clocks run at once: the attempt's deadline, the request's
  timeout, the request's backoff and each node's penalty; deadlines are fixed
  before the waiting starts.
* **Failure.** Every attempt may end by a failed connection, one of three gRPC
  codes that count as failures, another gRPC code, an answer that is final, busy
  or not ready. Each takes another way to the next attempt.
* **Removal under iteration.** The pool erases nodes from the containers it is
  going through.
* **Things that must end**: an execution, a selection that sleeps with the
  pool's mutex, and a subscription.
* **Objects used again.** A transaction, a query or an ID outlives an exception,
  a regenerated ID, a change of the operator, or a trip through bytes, and is
  used again with what that left in it.
* **Hand-written conversions.** Each class has its own `build`,
  `initFromSourceTransactionBody`, `fromProtobuf`, `toProtobuf` and
  `validateChecksums`, and five tables have to know every class.

`PROJECT.json` lists these as hazards, each at its line, with the properties
that cover it or the reason why none does. What makes each component correct:

* *Executable*: a settled answer is the last one asked for and decides the
  outcome; the number of attempts is respected and is the only way to give up;
  back off exactly when all nodes are busy; every execution ends.
* *BaseNode*: penalties stay within their bounds and are respected; the mutex is
  never left behind; a node that is connected has a channel.
* *BaseNetwork*: its indexes agree; what it selects can be found again; a
  selection ends and is not disturbed; no node is left out for longer than its
  penalty.
* *Transaction / ChunkedTransaction*: what is sent is the body of this node and
  chunk, signed by all who signed; a chunk takes effect once; files are appended
  in order; when `execute` returns, every chunk was accepted or its last call
  ended without a response, which the code takes for acceptance.
* *Query*: an answer is paid for to the node that gives it, never above the
  maximum, after its cost was accepted.
* *TopicMessageQuery*: a message is given whole and once, in order, unless a call
  is made again in the middle of it; the end is reported once, and as a completion
  only when the application was given all else it asked for; the thread ends.
* *Data types*: what arrives is what was set; what was not set does not appear;
  an ID is not sent to a ledger it was not typed for; each but for what the
  properties name.

The code does not live up to some of these in every case. Where it does not, the
property names the exception, the hazard's note says what is then not caught, and
section 4 describes it.

## 2. The modules

| Module | Stands for |
|---|---|
| `BaseNode` | one node: backoff, readmission, channel, mutex. Its actions are conjuncts of the actions of the modules that EXTEND it |
| `Executable` | `execute` on several threads, with BaseNode's nodes |
| `Request` | the abstract specification: what `execute` promises for a request |
| `ExecutableRefinement` | the mapping from Executable to Request, and an observer of BUSY answers and of penalties between a request's check and its call |
| `BaseNetwork` | the pool, with BaseNode's nodes; requests are its environment |
| `Transaction` | a transaction as a value: bodies by chunk and node, signers, freezing, building, regenerating, bytes; the client's operator |
| `TransactionExecution` | the application, `execute` and `executeAll`, and a network that accepts an ID once; EXTENDS Transaction |
| `Query` | a query, its cost query and its payments |
| `TopicSubscription` | the subscription's thread, its completion queue and the stream |
| `TopicReader` | the abstract specification of a subscription |
| `TransactionTypes` | every class of transaction: its members, how they are written and read, and the tables of classes |
| `Transfers` | merging, grouping and reading back of transfers |
| `TransactionData` | a transaction of any class from its setters to the node, through bytes and schedules; EXTENDS the two above |
| `QueryTypes`, `ResponseTypes` | every class of query and of answer |
| `Answers` | a query of any class and its answer, which is kept in bytes; EXTENDS the two above |
| `EntityIds` | IDs of every class through text, bytes, checksums and addresses |
| `MCExecutable`, `MCExecutableThreads`, `MCBaseNetwork`, `MCTransactionExecution`, `MCTopicSubscription`, `MCTransactionData` | constant values for TLC |
| `MCData` | TransactionData, Answers and EntityIds as three parts of one run |
| `BaseNodeProofs`, `ExecutableProofs`, `RefinementProofs`, `BaseNetworkProofs`, `TransactionExecutionProofs`, `QueryProofs`, `TopicSubscriptionProofs`, `DataProofs` | lemmas, inductive invariants, theorems |

**Time.** A time point is kept as its distance from the present: `readmitIn`
is `mReadmitTime - now()`, stopped at -1, since a readmit time that has passed is
never compared by how long ago. `Tick` lets one unit go by; sleeps and waits
count down. No clock has to be bounded and the state space is finite.

**Mutexes.** A method that does not block under the node's mutex is one step,
enabled when the mutex is free. Waiting for a channel and a gRPC call hold it
over two steps (`Connect`/`ConnectReturns`, `SubmitRequest`/`CallReturns`).
`ScanNode` and `CheckHealthy` merge the two acquisitions of `isHealthy` and
`getRemainingTimeForBackoff`: a penalty between the two reads only makes the
delay longer.

**Executable.** A thread is named after its request. `pc` stands between two
accesses to a node:

```
start -> attempt -> scan* -> check -> [waitForNode] -> connect -> [connecting] -> submit -> call
            ^                                                        |                      |
            +--------------------- penalize <-------------------------+----------------------+ (bad gRPC code)
            +--- reward (server error, not all busy) <----------------------------------------+
            +--- waitForRetry <- reward (retry; all busy)          reward -> done (result, precheck error)
attempt -> done (attempts used up)          submit -> done (null stub: the process dies)
submit -> done (makeRequest or submitRequest throws)     reward -> done (the response cannot be read)
```

Answers are records of a precheck code and, for a receipt query, a receipt
status. A call that did not end with OK leaves the response empty, which in
protobuf means OK: `EmptyResponse`. makeRequest and submitRequest may throw
(`RequestThrows`), and so may the functions that read a response (`MayThrow`); both end
`execute` with the exception, with whatever they did to the node left as it is. After the attempt's deadline gRPC itself
ends the call (`PossibleReplies`, external).

**BaseNetwork.** A call takes the network's mutex in one step and works in the
next ones; a selection is a step for pruning and one for each turn of its loop.
Erasing from a set while iterating over it is undefined behaviour: `Prune` and
`SetNetwork`/`SetNetworkCrash` choose among the outcomes (the scan stops early, so that some
nodes are not removed or not closed; an erased node keeps its place in the healthy list; the
process dies). The limit on failures is chosen at the start, 0 (the default, nothing is removed) or not. The wait for a node's mutex
inside the pool's calls is left out, and the entry `getNodeProxies` adds for an
unknown key has no counterpart, as it is empty.

**Transaction.** The functions of `Transaction` take and give the object, so
that each reads like the method of its name: `FreezeWith`, `SignInternal`,
`AddSignature`, `BuildTransactions`, `RegenerateSignedTransactions`, `Reload`
(`fromBytes(toBytes())`). Data is a sequence of units, cut by `GetDataForChunk`. A
signature is the private key that made it, kept under the public key it names. A
signer is a key, the client's operator (whose key is looked up when it is
called, as the lambda in `Client::getOperatorSigner` does), or "added" where only
the signature is there. In `TransactionExecution` the application calls these in any
order, and `execute` in turn takes `OnExecute`, `Attempt`, and what a node
does with the request. Which node is chosen and how long is waited is the subject
of `Executable` and left open; the index is that of a proxy, as in the code, and
may lie past the node account IDs. A call ends with an answer, with one of the three
codes after which there is another attempt (`NodeUnavailable`), with any other, whose empty response
counts as OK (`CallFails`), or with an error (`NodeRefuses`). `regenerated`, `replaced`, `pastNodes` and
`unanswered` (the chunks whose last call ended by `CallFails`) remember what the properties make exceptions for.

**Query.** `phase` says which of the two nested executions is going on;
`caller`, who started the inner one. Every header that arrives sets `mCost`, that of an answer
that is refused or asked for again included (`CostsSeen`). `taken` are the payments that nodes took,
answered or not. The client has an operator.

**TopicSubscription.** The completion queue holds one operation at a time
(`operation`); `GotEvent`, `Timeout` and `Shutdown` are the three results of `AsyncNext`.
There is one buffer: `CallCreated` processes it before anything was read into it,
as the code does; `resumed` remembers what was in the buffer whenever a call was made again. gRPC fills the buffer when the event is taken out of the queue, on the same
thread, so reading and processing is one step. A message is its position in the
topic and its consensus timestamp. Unsubscribing after the thread has returned, which the
handle's destructor does at the latest, uses contexts that are gone: it does nothing or crashes
(`UnsubscribeLate`).

**Data.** A member holds nothing, the default, a value, an ID with another
ledger's checksum, a royalty whose fallback fee has one, or (for times) a fraction of a second: what the
conversions and `validateChecksums` tell apart. Each class is a record of sets of its members, by how its methods treat them;
`Converted` and `Serialized` say what is the rule and the EXCEPT what is not.
`WrittenField`/`ReadField`, `ReadMember`/`WriteMember` and `SentMember` are then the
methods of all classes at once. Transfers and IDs are modelled with their
contents; of a scheduled transaction in a `ScheduleInfo` its case, with which `WrappedTransaction` reads
and writes it, or throws; of the result of a failed contract call that the error's selector is cut off.
`ServiceOf` names the method of the node each class of transaction is submitted to.

In `PROJECT.json` an entry for a class (`TokenCreateTransaction`, `FileInfo`) names its `.cc`: where it is
longer than what the definition tabulates, from `validateChecksums` on. An entry `...Members` names the header,
from the first setter, or the conversions of an answer, to the last member: what can be set, read and written.

## 3. What the runs check

| Run | Instance | Shows |
|---|---|---|
| `exec_transaction` | 1 transaction, 3 nodes, 4 attempts, node backoff 1..2, deadline 3, timeout 6; replies OK, BUSY, TRANSACTION_EXPIRED, INVALID_SIGNATURE, PLATFORM_NOT_ACTIVE | `KeepsPromise` (the loop implements `Request!PromiseSpec`), `AllBusyBacksOff`, `BacksOffOnlyWhenAllBusy` |
| `exec_shared` | a transaction and a receipt query on 2 threads, 2 nodes, 2 attempts, channels closed at any moment (917,713 states) | `TypeOK`, `OneCallPerNode`, `MutexHeldWhileBlocking`, `ReceiptIsFinal`, `BackoffRespected`, `Termination` |
| `pool` | 2 callers, all five methods, 2 nodes, 2 networks, with a limit on failures of 0 and of 1 | `TypeOK`, `PickedFromNetwork`, `FoundByKey`, `SelectionIsolated`, `NextReadmissionIsFirst`, `CallsReturnUnpruned` |
| `exec_result_sent` | violation | a success without an answer |
| `exec_null_stub` | violation | a connected node without a channel |
| `pool_wait` | violation | a selection that never ends |
| `transaction` | a plain transaction (4 calls before `execute`), a file (2 calls, 2 executions), a topic message (3 calls); 5 units of data or none, chunks of 2 or 3, at most 2 chunks, restored at a default of 4, 2 keys, 1 or 2 nodes, 2 proxies, 2 attempts, 2 generated IDs (3.5 million states) | `RightRequest`, `SignedByAll`, `SignaturesAuthentic`, `PayerSigns`, `EffectsPerId`, `FileInOrder`, `ReturnMeansAccepted`, `RestoredAsSaved` |
| `query` | 3 calls, 2 attempts, costs and limits 1 and 2, 1 or 2 nodes, 2 proxies; with and without payment | `PaysTheNodeAsked`, `NeverAboveMaximum`, `AnswerWasPaidFor` |
| `topic` | 4 messages, two of them chunks of one with another in between; limits none and 2; a code that is retried and one that is not; 2 retries | `GivenUnlessCut`, `OnceUnlessResumed`, `OneHandler`, `ReadsTopic` (it implements `TopicReader!Spec`), `Termination` |
| `topic_all` | violation | a message lost by a retry |
| `data` | every class of transaction, query, answer and ID; 2 fields set, or 3 transfers among 2 accounts, 2 tokens and 2 serial numbers, of amounts 1 and -1, decimals 0 or 2; 2 members of a query; 2 ledgers; numbers of two digits to base 4, of which those below 3 are decimal digits too | `BodyAsSet`, `ScheduledAsMade`, `TransfersNetOut`, `ForeignNeverSent`, `AskedAsSet`, `AnswerKept`, `EntityKept` |
| `data_submit` | violation | a class of transaction that no node can be sent |

What the properties leave out, since the code does: `BackoffRespected` allows a call before the readmit time
where another request had the node penalised after this one's check. `PickedFromNetwork` and
`CallsReturnUnpruned` are about a limit on failures of 0. `SignedByAll` and `PayerSigns` let signatures
that were added, or read from bytes, be lost by a regeneration and past the nodes; `ReturnMeansAccepted` leaves out chunks in
`unanswered`. `GivenUnlessCut` leaves out messages in the middle of which a call was made again,
`OnceUnlessResumed` what onNext was given with such a chunk in it and the empty message at first. `ForeignNeverSent`
leaves out pending airdrops, the transfers of an airdrop, what is scheduled, fallback fees and contracts as
keys (`NeverValidated`); `AnswerKept` the `ReadLosses` and `KnownLosses`.

**Bounds.** Four attempts over three nodes make the list wrap, so that a node
answers twice and "all nodes busy" is reached and left again. Two values of the
backoff are the least at which doubling, capping and halving differ. Timeouts
are chosen so that an attempt's deadline can pass during each kind of waiting.
`BadStatusCap` bounds `badGrpcStatusCount` at the number the pool compares it
with, which is all that reads it; it also bounds how often the pool's environment
penalises a node between two successes. `Responses` hold one member of each class
`determineStatus` tells apart. Two nodes in the pool are enough for a removal to
leave too few.

Five units in chunks of three make two chunks, of two too many; the default of four, which a
restored transaction has, cuts them elsewhere. A file of two chunks is executed twice, so that an exception falls before, between
and after the chunks; two IDs are the least at which one is regenerated. Four
calls let a plain transaction be frozen, signed, built and signed again, or
saved, restored and signed. Two fields set are the least at which alternatives reset each other.
Three transfers let one be merged into an entry and cancelled. A message of a
class has one member, or all, or all but one, which is what the per-member
conversions can tell apart. The digits of a number stand for its bytes: two are the
least whose order matters. Three calls of a query are a setter between two
executions, or an execution after a failed cost query.

**Fairness.** `Executable!Fairness` says that a thread that can go on does
(threads of `std::async` are scheduled by the operating system, calls return by
their deadline, waits for a channel by GET_STATE_TIMEOUT) and that time passes.
Mutexes are *not* assumed to be strongly fair: `Termination` holds without it,
as attempts are bounded and every thread gives up a mutex after one blocking
call. `BaseNetwork!Fairness` adds that a random choice among healthy nodes comes,
in the end, upon one not picked before (`PickAnother`), which is what the random
number generator gives with probability one.

`TopicSubscription!FairSpec` says that the thread goes on when it can: the
operating system schedules it, gRPC completes every operation since the query has an end
time, and a mirror node that connects is found. That `AsyncNext` may time out
between any two events needs no fairness, and unsubscribing and breaks are not assumed to happen.

`exec_shared` and the pool's runs say `CHECK_DEADLOCK FALSE`: all executions may be over, or the process may have died
of a null stub or an erased node. `transaction`, `query` and `data` say so because the
application may stop calling.

**Reductions.** In `transaction` the keys, and in `data` accounts and tokens, are interchangeable
(`SYMMETRY`; both runs check safety only). `transaction` has a `VIEW`, `LiveState`, which leaves out the
variables of `execute` in the phases that do not read them again.

**Mutants.** Every property of a passing run has an operator next to the code's
own that differs from it as a plausible bug would, and for which TLC finds the
property violated.

## 4. Findings

1. **A success without an answer** (`exec_result_sent`). Only UNAVAILABLE,
   RESOURCE_EXHAUSTED and INTERNAL are failures. After DEADLINE_EXCEEDED, or any
   other code, the empty response is read as OK and `execute` returns it. For a
   receipt query the empty receipt is not final, so it asks again
   (`ReceiptIsFinal` is proved). In `TransactionExecution` this is `CallFails`: a chunk may
   count as accepted that no node has.
2. **A connected node without a channel** (`exec_null_stub`). `closeChannel`
   leaves `mIsConnected` set; the next request calls through a null stub.
3. **A selection that never ends** (`pool_wait`). The count is taken before
   pruning.
4. **Transactions that cannot be sent** (`data_submit`). The switch of
   `Node::submitTransaction` lacks the three classes of node transactions, whose
   `submitRequest` passes their case; its default, "This should never happen", throws.
5. **A message lost by a retry** (`topic_all`). When a call is established its first event processes what
   the buffer held before. After a break between two chunks that is the last chunk received, which
   is collected a second time: the message is complete one chunk too early, and is handed out with a chunk
   twice and its last one missing, while TopicMessageQuery.h:43 promises "all messages".

Noted while modelling, and not stated as runs. The properties name these as
exceptions where they concern them, and hold for everything else.

*Execution.* A request calls a node in backoff if another one penalised it between
check and call: the health is not looked at again. The scan for a node does not
wrap, so that a healthy node early in the list may be passed over in favour of a
sleep. A list with the same node twice never counts as all busy. `executeAsync` captures
its timeout by reference, and calls a callback that throws a second time.
Requests never tell the pool of a failure (`BaseNetwork::increaseBackoff` has no
caller), so its healthy list is stale until `setNetwork`. The TLS policy of a network
starts at REQUIRE whatever its addresses are, and `setTransportSecurity(true)` is
then a no-op. `Client::setNodeMinBackoff` and its sister reach the network but
not the nodes; `getMaxNodesPerTransaction` returns the maximum of node attempts.

*Transactions.* With one node account ID, `makeRequest` gets the index of a
proxy, past the bodies of the account: a plain transaction throws, a chunked one sends the
next chunk (`pastNodes`). Building again after another signature repeats the earlier ones.
Regeneration drops signatures made elsewhere, and gives the chunks already accepted new IDs. An
expired ID whose first attempt was accepted but not answered takes effect twice. `setOperator`
leaves the key of an earlier `setOperatorWith` in charge. The operator's
signer is bound late, so that a new operator signs in the old one's name. Bytes do not hold
the chunk size; a file append restored from bytes has the data of its first chunk, a topic
message restored without nodes has none; one restored with nodes keeps its old chunks until its ID
expires, and is then cut anew at the default size, whatever chunks were accepted before. `getAllSignatures` leaves out the last chunk
(ChunkedTransaction.cc:255), and `getSignaturesInternal` compares signatures with
public keys. A chunked transaction without data throws on `execute`.

*Queries.* A cost that comes with an answer, or with a refusal, replaces the one the payment was made
for. An exception in a cost query leaves `mGetCost` set: the next `execute`
asks for the cost and returns it as the answer. What `setQueryPayment` stores is never
read. The record query never sends its two flags, and reads neither children nor duplicates.
A receipt query without a transaction ID throws when the answer is mapped.

*Subscriptions.* The first `onNext` gets an empty message; after a reconnection
the last one comes again from the buffer, and once more from the mirror node, since the tick that is to be added to the start time is
a duration of zero; its chunks are then counted twice, as delivered messages stay in
`pendingMessages`. A limit that has counted down to 0 asks for no limit on a retry,
where TopicMessageQuery.h:64 and 95 promise a maximum; a completion may then come after fewer messages
than the limit, or after more. A cancellation
during the sleep before a retry is lost, `unsubscribe` before the thread has
set the handle's function throws, and after it has returned it uses contexts that are gone.

*Data.* A `ScheduleCreateTransaction` that was given no transaction holds the
first alternative of its variant, an empty allowance approval, and is built without an
exception, though WrappedTransaction.h documents one. Four classes cannot be scheduled by
`schedule()`, and the table for schedulable bodies cannot read five back and reads two as
another class, whose constructor throws. The decimals of a token are those of its last transfer,
whatever the others say, although a comment (TransferTransaction.cc:294) says
they cannot differ; a transfer back of an NFT cancels one of another token with the
same serial number. Checksums are not validated of pending airdrops, airdropped
tokens, the sender of a local call, what is scheduled, the fallback fee of a
royalty, and contracts that stand as keys. Three classes go to the method of the node for another one
(`burnToken` for cancelling and claiming airdrops, `revokeTokenKycFromAccount` for rejecting, `updateToken` for NFTs). A `ScheduleInfo` loses
the data of a scheduled topic message; the result of a failed contract call loses the selector before it. Bytes lose the tokens of an `AccountBalance`, token ID, duplicates, children
and next exchange rate of a receipt, airdrops, children and duplicates of a record, and the
automatic association of a token relationship; a `TokenInfo` without all its keys
dereferences a null pointer in `toBytes`; a `ScheduleInfo` of a transaction the tables do not
know throws.

*IDs.* The checksum an ID gets when it is printed with a client is later
validated as if it had been typed: another ledger's client refuses the ID.
`toSolidityAddress` writes numbers highest byte first, `fromSolidityAddress` reads them as
they are in memory, so that on a little-endian machine `FileId(5)` comes back as 5 * 2^56; the unit
tests (TopicIdUnitTests.cc:158) repeat the cast. `fromString` tries a decimal number first, so that the
text of an address of zeros and decimal digits is read as that number; an
`AccountId` that got its address from `populateAccountEvmAddress` prints such a text. The
checksum itself is computed in 32 bits, where a product overflows
(impl/EntityIdHelper.cc:178); the model takes it as a function of the ledger.

## 5. What is proved

For any sets of nodes, requests, callers, keys, messages and costs and any values of
the constants allowed by the named assumptions: `BackoffAssumption`,
`CapAssumption`, `NoThreadAssumption`, `RequestAssumption`, `AnswerAssumption`
and `NetworkAssumption` for the loop and the pool; `QueryAssumption`;
`TopicAssumption`, `SubscriptionAssumption` and `ChunkAssumption` (a topic holds no more chunks of a message than
each of them says there are); `TransactionAssumption` and
`ExecutionAssumption` (a list of node account IDs is not empty, data is a sequence);
`DataAssumption` (amounts are integers, decimals natural numbers) and
`IdAssumption` (digits are counted). The tables of classes are definitions, not
parameters: what is proved of the data is of the classes the SDK has, and of any
number of calls and any accounts, tokens and ledgers.

| Module | Theorem | States |
|---|---|---|
| `ExecutableProofs` | `TypeCorrect` | `Spec => []TypeOK` |
| | `MutexCorrect` | `Spec => []MutexHeldWhileBlocking` |
| | `OneCallAtATime` | `Spec => []OneCallPerNode` |
| | `ReceiptsAreFinal` | `Spec => []ReceiptIsFinal` |
| `RefinementProofs` | `PromiseKept` | `Spec => KeepsPromise` |
| | `BusyBacksOff` | lists without repeats imply `ObservedSpec => []AllBusyBacksOff` |
| | `BacksOffForNothingElse` | `ObservedSpec => BacksOffOnlyWhenAllBusy` |
| | `PenaltiesRespected` | `ObservedSpec => BackoffRespected` |
| `BaseNetworkProofs` | `TypeCorrect` | `Spec => []TypeOK` |
| | `NodesFoundByKey` | `Spec => []FoundByKey` |
| | `ReadmissionIsFirst` | `Spec => NextReadmissionIsFirst` |
| | `SelectionsIsolated` | `Spec => SelectionIsolated` |
| | `SelectionsFound` | `Spec => []PickedFromNetwork` |
| `TransactionExecutionProofs` | `RequestsAreRight` | `Spec => []RightRequest` |
| | `SignaturesByTheirKeys` | `Spec => []SignaturesAuthentic` |
| | `EverySignerSigns` | `Spec => []SignedByAll` |
| | `OperatorPaysSigned` | `Spec => []PayerSigns` |
| | `RestoredIsSaved` | `Spec => RestoredAsSaved` |
| | `ReturnsWhenAccepted` | `Spec => ReturnMeansAccepted` |
| | `OneEffectPerId` | `Spec => []EffectsPerId` |
| | `ChunksOfFileInOrder` | `Spec => []FileInOrder` |
| `QueryProofs` | `PaysRight` | `Spec => []PaysTheNodeAsked` |
| | `PaysAtMostMaximum` | `Spec => NeverAboveMaximum` |
| | `AnswersArePaidFor` | `Spec => AnswerWasPaidFor` |
| `TopicSubscriptionProofs` | `TypeCorrect` | `Spec => []TypeOK` |
| | `MessagesGiven` | `Spec => []GivenUnlessCut` |
| | `HandlerCalledOnce` | `Spec => []OneHandler` |
| | `EachMessageOnce` | `Spec => []OnceUnlessResumed` |
| | `SubscriptionReads` | `Spec => ReadsTopic` |
| `DataProofs` | `BodiesSayWhatWasSet` | `MCSpec => []BodyAsSet` |
| | `SchedulesHoldWhatWasMade` | `MCSpec => []ScheduledAsMade` |
| | `ForeignIdsStay` | `MCSpec => []ForeignNeverSent` |
| | `TransfersAddUp` | `MCSpec => []TransfersNetOut` |
| | `QueriesAskAsSet` | `MCSpec => []AskedAsSet` |
| | `AnswersAreKept` | `MCSpec => []AnswerKept` |
| | `IdsNameTheirEntity` | `MCSpec => []EntityKept` |

The argument:

* `TypeOK` is not inductive: `attempt` is incremented after the call, while
  its bound is checked at the head of the loop. `AttemptLeft` adds that between the
  two the attempt is below the maximum. `BaseNodeProofs` has, for each operation
  on a node, the lemma that it preserves `NodeTypeOK`, so that the proof for the
  loop does not open the arithmetic of backoffs again.
* `MutexHeldWhileBlocking` is inductive given types: a thread takes the mutex in
  the step that makes it block and lets it go in the step that ends the block,
  and in both its node is the same. `OneCallPerNode` follows, as a mutex has one
  holder.
* `ReceiptIsFinal` is about the end of a path that starts with the answer:
  `VerdictInvariant` keeps, from the answer to the return, that a receipt query
  that has succeeded did so on its last reply. An empty response maps to RETRY.

* `KeepsPromise`: `PromiseInvariant` says that a request that goes on has no
  answer that settles it, that what it looks at came from a call that was
  answered, and that it has a result exactly when it is over. From it each
  step of a request is one of five moves told of that request alone
  (`StepMoves`); the other requests stay as they are (`StepAlone`); and
  `MovesMap` lifts the move through the mapping to an action of `Request`. A
  request that throws, a response that cannot be read and a null stub, which ends the process, are
  refusals: `Request` allows for them, and for no result with them.
* The pool: `readmitNodes` computes a minimum. That it exists comes from
  the order of the natural numbers being well founded (`LeastExists`), and its
  bounds (`EarliestOfBounds`) give the types and `NextReadmissionIsFirst`.
* `SelectionIsolated` and `PickedFromNetwork` rest on `LockHeld`: a call that has
  begun has the network's mutex. `PickedFromNetwork` needs
  `SelectionInvariant`: nothing is picked outside a selection, so that
  `setNetwork`, which excludes selections, cannot leave one with old nodes.
  Where nodes are removed an erased node may keep its place among the healthy
  ones (section 2): the property is about a limit of 0, which stays as it is (`LimitKept`).
* `BackoffRespected`: `PenaltyOver` carries the check to the call: past it the node's penalty is over, and a
  request that sleeps for a node sleeps at least until then, or the observer has noted that the node was
  penalised for another request since (`overtaken`). A request's own steps keep it (`PenaltyOwnStep`), and of
  the others' only a penalty of its node changes it (`PenaltyOtherStep`).
* The observer: `ObserverInvariant` relates the two records of what was answered,
  the code's set of nodes that said busy and the observer's last answer per
  node, and keeps both inside the request's list. `NodesOfList` counts the nodes of a list
  by its positions, which map onto them, one to one if no node is repeated. With a
  repeat the sizes the code compares differ even when every node is busy, and it
  never backs off: hence the assumption of `BusyBacksOff`.
* `Query`: `FlagFollows` says that the flag that tells the two executions apart is
  set while the cost is asked for, and left set only by a nested execution that
  threw; `CostAllowed` that a paid execution runs at a cost within the
  maximum; `RequestAsMade` that a request asks for what the flag says and carries a payment
  when one is needed, of the cost and to the node it is sent to. `PaysTheNodeAsked` is
  the last one; the two action properties need all three.
* `TopicSubscription`: `Flow` relates the completion queue, the operation in it, the
  report of its end and the step of the thread; `Place` says where the next call would
  start and where the current one goes on, both given by the message in the buffer. `AllCollected` says of
  every transaction what `pendingMessages` holds: the chunks received, each once and in order, as
  long as no call was made again upon one of them. With these `OneHandler`, `GivenUnlessCut` and
  `OnceUnlessResumed` are inductive, whatever was retried. For `ReadsTopic` a delivery gives at most one message
  (`DeliveryGives`), a call made again misses at most one (`ResubscribeMisses`), and a stream that ends with OK has
  sent what was asked for (`OkMeansAsked`).
* `TransactionExecution`: `TransactionInv` has six parts. `ObjectInv`: the bodies of the object stand by
  chunk and node, each under the ID of its chunk, only what is frozen is signed, an
  operator has a key, and what was sent and the receipt asked for are those of the
  chunk the loop has come to. `SignedByNamed`: every signature, in the
  object and in what was sent, is by the key it names, and signing again would keep it so.
  `SignedInFull`: every body carries the signatures that are owed.
  `Effects`: each ID is in the network's pool and ledger once, and the IDs generated at one
  time are of one account. `Order`: the chunk before the one being sent, and before any in
  the pool, took effect. `Progress`: what the loop is past was accepted. `EffectsPerId` counts by the third: the entries of a chunk
  map one to one to the times IDs were generated.
* `RightRequest` is about the two-dimensional index: that the place makeRequest computes from a
  chunk and a node is the one that division and remainder lead back from (`PlaceIs`). What the bodies
  hold is `Contents`, a part of `ObjectInv`: as many chunks as they were made from, cut from the data (`CutAnew`), or read
  from bytes, the data put together from them (`ReadFrom`). In the second case nothing says
  where they were cut, as the chunk size is not written; `JoinedCut` proves that if the chunks
  have the lengths that cutting anew gives (`Whole`), they are what it gives. It is an induction
  over the chunks, which the library's theorem on well-founded relations allows in
  the form of a least element (`LeastIn`, `Inductively`), as is `JoinsOnce`, by which the recursive function
  `Joined` is what it says.
* `SignedByAll` and `PayerSigns` are not inductive, as what is sent is one of many bodies, each
  built at another time and possibly for other signers. `Signs` says what a key owes a body that is
  not sent yet: a private key has signed what is built and can sign the rest; a signature that was
  added, or read back, is on the first body and, unless an ID was regenerated, on every body that
  can be sent, which is why a body is placed within the chunks there are now; and no body has more
  signatures of a key than keys have given theirs (`Given`), counting the one that is still to be made,
  however often buildTransaction signs again. `PayerSigns` also needs that the operator signed in
  onExecute, before there was an attempt. `RestoredAsSaved` follows for signers from the same
  invariant: fromBytes knows a signer by the signatures on the first body (`Written`), so that a signer
  whose signature is not there would be forgotten; for the data of one chunk, from `RestoredFrom`.
* `ReturnMeansAccepted` looks back over the chunks of one execute, and of earlier ones that an
  exception ended: `Progress` keeps that every chunk before `mCurrentChunk`, and that of a
  receipt that is waited for, is `Delivered`. That holds only because a transaction that was
  begun can no longer be set (`currentChunk > 0 => frozen`, a part of `ObjectInv`), so that it goes on
  with the contents it has (`GoesOn`) or with a new ID, for which nothing is claimed of earlier IDs. Of
  the data of a chunk it is claimed after a new ID, too, where the chunk size shows that the bodies were
  not read from bytes (`WholeAnew`).
* The data: what a proof needs of a table is stated of one row (`Row`, `QueryRow`,
  `AnswerRow`) and shown of every class (`TypeFacts`, `QueryFacts`, `AnswerFacts`): that
  no two classes of transactions stand for the same member of a body, which members escape
  validation, that no default is left out of what has no presence to lose. The rest
  is about any row.
  `BodyAsSet` and `ScheduledAsMade` rest on `ReadBack`, that a field that is written, read
  and written again says the same: it may have become something else, and does, but not for
  a node. Bytes then keep `Says` (`ReloadIs`), and setters change the object and what
  was wanted alike.
  `ForeignNeverSent` and `AskedAsSet` need that IDs of other ledgers stand only in members
  that hold IDs, or keys, or fees.
  `EntityKept` needs the shape of an ID (`IdOK`): an alias key goes with no number, an EVM
  address with no number or the one it says (`OneEntity`), a checksum with a number, and no
  delegate contract ID has an alias; and that without a detour it names the entity it was made for.
  `AnswerKept` needs that the classes that lose members are closed under nesting:
  the table is followed until it adds no class (`LossyAre`).

* `TransfersNetOut` compares totals of lists that are not the same: transfers that were merged or
  cancelled, and regrouped by token whenever the object goes through a body. `NetInv` says that the
  transfers of the object weigh what those asked for do, whatever account, token or NFT is asked about
  (`HbarWeight`, `TokenWeight`, `MoveWeight` give each entry the number it stands for); that they
  expect only decimals that were named, by which a list of a body may overwrite the ones before; and that
  the moves of NFTs are some that were asked for. The last is needed because
  `doNftTransfer` does not compare tokens: a move cancels another's only if one serial number is
  shared by two tokens, and `NftsMerge` shows that it weighs nothing otherwise. The three merges add the weight of a transfer
  (`HbarsMerge`, `TokensMerge`, `NftsMerge`), build distributes the weights over lists by token
  (`TokenTransferListsAre`), reading gathers them (`TokensReadAre`, `NftsReadAre`).
  The totals and the lists of `build` are recursive functions on the positions of a sequence. That they are
  what they say is shown without a rule of induction: there is a run of the steps (`StepByStep`), so the function
  that CHOOSE picks is one, and what holds of it at every position is shown by a least position where it
  would not (`PositionsInduction`).

Only model-checked: liveness (`Termination` of `exec_shared` and of `topic`, `CallsReturnUnpruned` of `pool`),
which the prover does not do. Every safety property of the passing runs is proved.

## 6. Not modelled

* The request and response listeners (user functions, the identity by default);
  the asynchronous variants of `execute`, which are `std::async` around it; the
  setters of settings, whose values are constants here; logging.
* `AddressBookQuery`: a stream read to its end and tried again from its start.
* The flows: sequences of executions that `TransactionExecution` models one by one.
* `Client`: its list of subscriptions, its configuration, its getters. Its
  network update thread is disabled in the source: the line that starts it
  (Client.cc:1057) is commented out.
* Keys and mnemonics, contract function encoding: computations on byte strings.
* The mirror node's REST gateway: one blocking HTTP request.
* Contents of members: two values that are not the default are not told apart,
  except in transfers, IDs and chunked data.

## 7. Plan

What is left: `AddressBookQuery` and the flows.
