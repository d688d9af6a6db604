------------------------ MODULE TransactionExecution ------------------------
(***************************************************************************)
(* One transaction from its first setter to consensus: the application      *)
(* prepares, signs, saves and restores it and executes it, again after an   *)
(* exception if it likes; execute sends one request per chunk and attempt;  *)
(* a node accepts an ID once and not after it has expired, and its answer   *)
(* may be lost; what was accepted reaches consensus later, in any order.    *)
(* Which node an attempt chooses, and how long it waits, is the subject of  *)
(* the module Executable and left open here.                                *)
(***************************************************************************)
EXTENDS Transaction, FiniteSets

CONSTANTS
    Classes,        \* "plain", "file" (FileAppendTransaction), "topic" (TopicMessageSubmitTransaction)
    Data,           \* what the application may set as data
    ChunkSizes,     \* the chunk sizes it may set
    NodeLists,      \* the node account IDs it may set, or the network choose: increasing sequences
    Proxies,        \* the number of proxies of a node
    MaxAttempts,    \* mCurrentMaxAttempts
    MaxCalls,       \* bound: how often it calls anything else, for each class
    MaxExecutes,    \* bound: how often the application calls execute, for each class
    MaxGenerated    \* bound: how many transaction IDs are generated

ASSUME ExecutionAssumption ==
    /\ Classes \subseteq {"plain", "file", "topic"}
    /\ \A d \in Data : d \in Seq({d[i] : i \in DOMAIN d})
    /\ ChunkSizes \subseteq Nat \ {0}
    /\ \A nodes \in NodeLists : Len(nodes) \in Nat \ {0}
    /\ Proxies \in Nat \ {0}
    /\ MaxAttempts \in Nat /\ MaxGenerated \in Nat
    /\ MaxCalls \in [Classes -> Nat] /\ MaxExecutes \in [Classes -> Nat]

VARIABLES
    tx,         \* the transaction
    client,     \* the client's operator
    regenerate, \* may an expired transaction get a new ID?
    calls,      \* how often the application called anything but execute
    generated,  \* how many transaction IDs were generated
    regenerated, \* how many of them by execute, because a node found the one before expired
    replaced,   \* was the operator replaced while its signature was still to be made?
    pastNodes,  \* was a request made for a proxy whose index is past the node account IDs?
    unanswered, \* the chunks whose last request got no response and was taken for accepted
    phase,      \* where execute is: "idle", "chunk", "attempting", "waiting" or "receipt"
    executes,   \* the calls of execute
    attempt,    \* the attempts for the current chunk
    request,    \* the last request and the index of its node
    response,   \* the transaction ID of the last response
    outcome,    \* how the last execute ended: "none", "returned" or "exception"
    expired,    \* the generation times whose valid duration has passed
    pool,       \* accepted by a node, not yet at consensus
    ledger,     \* what took effect, in the order of consensus
    failed      \* what reached consensus and took no effect

executionVars == <<phase, executes, attempt, request, response, outcome>>
networkVars == <<expired, pool, ledger, failed>>
historyVars == <<regenerated, replaced, pastNodes, unanswered>>
vars == <<tx, client, regenerate, calls, generated, historyVars, executionVars, networkVars>>

NoRequest == [nodeIndex |-> 0, sent |-> NotBuilt]

Init ==
    /\ \E class \in Classes, size \in ChunkSizes, d \in Data :
          tx = NewTransaction(class, d, IF class = "plain" THEN DefaultChunkSize ELSE size)
    /\ client = NoOperator
    /\ regenerate \in BOOLEAN
    /\ calls = 0 /\ generated = 0
    /\ regenerated = 0 /\ replaced = FALSE /\ pastNodes = FALSE /\ unanswered = {}
    /\ phase = "idle" /\ executes = 0 /\ attempt = 0 /\ outcome = "none"
    /\ request = NoRequest /\ response = None
    /\ expired = {} /\ pool = {} /\ ledger = <<>> /\ failed = {}

NewId(account) == [account |-> account, gen |-> generated + 1, tick |-> 0]
CanGenerate == generated < MaxGenerated
Accepted == pool \cup {ledger[i] : i \in DOMAIN ledger} \cup failed
IdsSeen == {e.id : e \in Accepted}

-----------------------------------------------------------------------------
(* The application, while nothing is being executed.  What throws changes nothing and is no step.  *)
Call ==
    /\ phase = "idle" /\ calls < MaxCalls[tx.class]
    /\ calls' = calls + 1

Prepare(t) ==
    /\ Call
    /\ tx' = t
    /\ UNCHANGED <<client, regenerate, historyVars, executionVars, networkVars>>

SetData(d) == ~tx.frozen /\ Prepare([tx EXCEPT !.data = d]) /\ UNCHANGED generated

SetNodeAccountIds(nodes) ==
    ~tx.frozen /\ Prepare([tx EXCEPT !.nodes = nodes]) /\ UNCHANGED generated

SetTransactionId(account) ==
    /\ ~tx.frozen /\ CanGenerate
    /\ Prepare([tx EXCEPT !.id = NewId(account)])
    /\ generated' = generated + 1

(* freeze and freezeWith: whatever the transaction lacks, the client provides.                     *)
FrozenTransactions ==
    IF CanFreeze(tx, client) THEN {FreezeWith(tx, NewId(client.account), nodes) : nodes \in NodeLists} ELSE {}
GenerateIfMissing ==
    IF ~tx.frozen /\ tx.id = None THEN CanGenerate /\ generated' = generated + 1 ELSE UNCHANGED generated

Freeze == ~tx.frozen /\ (\E t \in FrozenTransactions : Prepare(t)) /\ GenerateIfMissing

Sign(k) == tx.frozen /\ Prepare(SignInternal(tx, k, k)) /\ UNCHANGED generated

SignedByOperator(t) == SignInternal(t, GetOperatorPublicKey(client), GetOperatorSigner(client))
SignWithOperator ==
    /\ client.account # None
    /\ \E t \in FrozenTransactions : Prepare(SignedByOperator(t))
    /\ GenerateIfMissing

AddSignatureOf(k) == CanAddSignature(tx) /\ Prepare(AddSignature(tx, k)) /\ UNCHANGED generated

(* toBytes, getSignatures or the hashes of a frozen transaction.                                   *)
Build == tx.frozen /\ Prepare(BuildAllTransactions(tx, client)) /\ UNCHANGED generated

SaveAndRestore == CanReload(tx, client) /\ Prepare(Reload(tx, client)) /\ UNCHANGED generated

ChangeOperator ==
    /\ Call
    /\ \E k \in Keys : client' \in {SetOperator(client, k), SetOperatorWith(client, k)}
    /\ replaced' = (replaced \/ \E k \in Keys : tx.signatories[k] = "operator")
    /\ UNCHANGED <<tx, regenerate, generated, regenerated, pastNodes, unanswered, executionVars, networkVars>>

-----------------------------------------------------------------------------
Ends(how) == phase' = "idle" /\ outcome' = how

(* An exception leaves mCurrentChunk as it is.                                                     *)
Throw == Ends("exception")

(* The loop of executeAll: the next chunk, or the end and mCurrentChunk at 0 again.  A plain       *)
(* transaction has one chunk and no loop.                                                          *)
ContinueAt(t, chunk) ==
    IF chunk < GetNumberOfChunksRequired(t)
    THEN tx' = [t EXCEPT !.currentChunk = chunk] /\ phase' = "chunk" /\ UNCHANGED outcome
    ELSE tx' = [t EXCEPT !.currentChunk = 0] /\ Ends("returned")

(* Mutant: the chunk that was being sent when an exception came counts as sent.                    *)
ExecutePastException ==
    /\ phase = "idle" /\ executes < MaxExecutes[tx.class]
    /\ executes' = executes + 1
    /\ IF tx.class # "plain" /\ (GetNumberOfChunksRequired(tx) > MaxChunks \/ GetNumberOfChunksRequired(tx) = 0)
       THEN Throw /\ UNCHANGED tx
       ELSE ContinueAt(tx, IF outcome = "exception" THEN tx.currentChunk + 1 ELSE tx.currentChunk)
    /\ UNCHANGED <<client, regenerate, calls, generated, historyVars, attempt, request, response, networkVars>>

(* execute of no chunks takes the first of no responses and throws.                                *)
Execute ==
    /\ phase = "idle" /\ executes < MaxExecutes[tx.class]
    /\ executes' = executes + 1
    /\ IF tx.class # "plain" /\ (GetNumberOfChunksRequired(tx) > MaxChunks \/ GetNumberOfChunksRequired(tx) = 0)
       THEN Throw /\ UNCHANGED tx
       ELSE ContinueAt(tx, tx.currentChunk)
    /\ UNCHANGED <<client, regenerate, calls, generated, historyVars, attempt, request, response, networkVars>>

(* onExecute: freeze, and sign with the operator if it pays.                                       *)
(* Mutant: the operator does not sign.                                                             *)
ExecutedUnsigned(t) == t

Executed(t) == IF client.account # None /\ client.account = t.id.account THEN SignedByOperator(t) ELSE t
BeginAttempts(t) ==
    /\ tx' = t
    /\ phase' = "attempting" /\ attempt' = 0
    /\ UNCHANGED outcome
OnExecute ==
    /\ phase = "chunk"
    /\ \/ (\E t \in FrozenTransactions : BeginAttempts(Executed(t))) /\ GenerateIfMissing
       \/ ~CanFreeze(tx, client) /\ Throw /\ UNCHANGED <<tx, attempt, generated>>
    /\ UNCHANGED <<client, regenerate, calls, historyVars, executes, request, response, networkVars>>

(* An attempt: getNodesFromNodeAccountIds gives all proxies of a single node, and makeRequest gets *)
(* the index among them.                                                                           *)
NumberOfNodes == IF Len(tx.nodes) = 1 THEN Proxies ELSE Len(tx.nodes)
Attempt ==
    /\ phase = "attempting"
    /\ \/ /\ attempt >= MaxAttempts
          /\ Throw /\ UNCHANGED <<tx, request, pastNodes, unanswered>>
       \/ /\ attempt < MaxAttempts
          /\ \E nodeIndex \in 1..NumberOfNodes :
                LET i == RequestIndex(tx, nodeIndex)
                    built == BuildTransactions(tx, client, {i})
                IN  IF i \in DOMAIN tx.transactions
                    THEN /\ tx' = built
                         /\ request' = [nodeIndex |-> nodeIndex, sent |-> built.transactions[i]]
                         /\ pastNodes' = (pastNodes \/ nodeIndex > Len(tx.nodes))
                         /\ unanswered' = unanswered \ {tx.currentChunk}
                         /\ phase' = "waiting" /\ UNCHANGED outcome
                    ELSE Throw /\ UNCHANGED <<tx, request, pastNodes, unanswered>>
    /\ UNCHANGED <<client, regenerate, calls, generated, regenerated, replaced, executes, attempt, response, networkVars>>

(* The node was busy, or the call ended with one of the three codes that put a node off, whether or *)
(* not the transaction had reached it.                                                             *)
Retry ==
    /\ phase' = "attempting" /\ attempt' = attempt + 1
    /\ UNCHANGED <<tx, response, outcome, generated>>

(* mapResponse and, for a file, the receipt; otherwise the next chunk.                             *)
(* Mutant: no class waits for receipts.                                                            *)
NeverGetReceipt == FALSE
ShouldGetReceipt == tx.class = "file"

Success ==
    /\ response' = GetCurrentTransactionId(tx)
    /\ IF ShouldGetReceipt THEN phase' = "receipt" /\ UNCHANGED <<tx, outcome>>
       ELSE ContinueAt(tx, tx.currentChunk + 1)
    /\ UNCHANGED <<attempt, generated>>

(* A node takes an ID once, and not after it has expired.                                          *)
Accepts(e) == e.id \notin IdsSeen /\ e.id.gen \notin expired

NodeUnavailable ==
    /\ phase = "waiting"
    /\ Retry
    /\ UNCHANGED <<client, regenerate, calls, historyVars, executes, request, networkVars>>

NodeAccepts ==
    /\ phase = "waiting"
    /\ Accepts(request.sent)
    /\ pool' = pool \cup {request.sent}
    /\ Success \/ Retry
    /\ UNCHANGED <<client, regenerate, calls, historyVars, executes, request, expired, ledger, failed>>

(* The deadline passed, or the call ended with any other code: the response nobody filled in says   *)
(* OK, whether or not the transaction had reached the node.                                        *)
CallFails ==
    /\ phase = "waiting"
    /\ UNCHANGED pool \/ (Accepts(request.sent) /\ pool' = pool \cup {request.sent})
    /\ unanswered' = unanswered \cup {tx.currentChunk}
    /\ Success
    /\ UNCHANGED <<client, regenerate, calls, regenerated, replaced, pastNodes, executes, request, expired,
                   ledger, failed>>

(* DUPLICATE_TRANSACTION is an error, like every other status; a request that no service takes or a *)
(* status nobody knows throws as well.                                                             *)
NodeRefuses ==
    /\ phase = "waiting"
    /\ Throw
    /\ UNCHANGED <<tx, client, regenerate, calls, generated, historyVars, executes, attempt, request, response, networkVars>>

(* TRANSACTION_EXPIRED: the policy decides between a new ID, for all chunks, and an error.         *)
(* Mutant: the policy is ignored.                                                                  *)
AlwaysRegenerate == TRUE
ShouldRegenerate == regenerate

NodeFindsExpired ==
    /\ phase = "waiting"
    /\ request.sent.id.gen \in expired
    /\ IF ShouldRegenerate
       THEN /\ CanGenerate /\ generated' = generated + 1 /\ regenerated' = regenerated + 1
            /\ tx' = RegenerateSignedTransactions([tx EXCEPT !.id = NewId(tx.id.account)])
            /\ phase' = "attempting" /\ attempt' = attempt + 1
            /\ UNCHANGED outcome
       ELSE Throw /\ UNCHANGED <<tx, attempt, generated, regenerated>>
    /\ UNCHANGED <<client, regenerate, calls, replaced, pastNodes, unanswered, executes, request, response,
                   networkVars>>

(* The receipt query retries until the receipt is there, or fails.                                 *)
GetReceipt ==
    /\ phase = "receipt"
    /\ \/ /\ \E i \in DOMAIN ledger : ledger[i].id = response
          /\ ContinueAt(tx, tx.currentChunk + 1)
       \/ Throw /\ UNCHANGED tx
    /\ UNCHANGED <<client, regenerate, calls, generated, historyVars, executes, attempt, request, response, networkVars>>

-----------------------------------------------------------------------------
(* The network.                                                                                    *)
ReachConsensus ==
    /\ \E e \in pool :
          /\ pool' = pool \ {e}
          /\ \/ ledger' = Append(ledger, e) /\ UNCHANGED failed
             \/ failed' = failed \cup {e} /\ UNCHANGED ledger
    /\ UNCHANGED <<tx, client, regenerate, calls, generated, historyVars, executionVars, expired>>

(* Only a node that has a transaction before it looks at the time, and at that of its ID.          *)
Expire ==
    /\ phase = "waiting" /\ request.sent.id.gen \notin expired
    /\ expired' = expired \cup {request.sent.id.gen}
    /\ UNCHANGED <<tx, client, regenerate, calls, generated, historyVars, executionVars, pool, ledger, failed>>

Application ==
    \/ \E d \in Data : SetData(d)
    \/ \E nodes \in NodeLists : SetNodeAccountIds(nodes)
    \/ \E k \in Keys : SetTransactionId(k) \/ Sign(k) \/ AddSignatureOf(k)
    \/ Freeze \/ SignWithOperator \/ Build \/ SaveAndRestore \/ ChangeOperator
    \/ Execute

Execution == OnExecute \/ Attempt \/ GetReceipt
Network == NodeUnavailable \/ NodeAccepts \/ CallFails \/ NodeRefuses \/ NodeFindsExpired \/ ReachConsensus \/ Expire

Next == Application \/ Execution \/ Network
Spec == Init /\ [][Next]_vars

-----------------------------------------------------------------------------
(* The bodies were made for the chunks that would be sent, as many of them and cut at the same      *)
(* places: what a transaction read from bytes need not be, since its chunk size is not written.    *)
Whole(t) ==
    /\ Len(t.signedTransactions) = GetNumberOfChunksRequired(t) * Len(t.nodes)
    /\ t.class # "plain" =>
          \A i \in DOMAIN t.signedTransactions :
              Len(t.signedTransactions[i].content) = Len(GetDataForChunk(t, (i - 1) \div Len(t.nodes)))

(* A request carries the node it is sent to, the ID of its chunk and the data of its chunk, also   *)
(* after exceptions, a new ID or a new signature in between.                                       *)
RightRequest ==
    (phase = "waiting" /\ request.nodeIndex <= Len(tx.nodes)) =>
        /\ request.sent.node = tx.nodes[request.nodeIndex]
        /\ request.sent.id = GetCurrentTransactionId(tx)
        /\ Whole(tx) => request.sent.content = IF tx.class = "plain" THEN tx.data
                                              ELSE GetDataForChunk(tx, tx.currentChunk)

(* Every key that signed has signed what is sent, and, although building a transaction again after  *)
(* another key signed it repeats signatures, no more often than keys have signed.  Only a new ID    *)
(* for an expired one drops the signatures that cannot be made again, and a proxy past the nodes    *)
(* gets a body they were not added to.                                                              *)
SignedByAll ==
    phase = "waiting" =>
        /\ \A k \in Keys : Len(request.sent.signatures[k]) <= Cardinality(Signatories(tx))
        /\ \A k \in Signatories(tx) :
              \/ request.sent.signatures[k] # <<>>
              \/ tx.signatories[k] = "added" /\ (regenerated > 0 \/ request.nodeIndex > Len(tx.nodes))

(* A signature is made by the private key it names, unless the operator was replaced before the    *)
(* signing function it lent was called.                                                            *)
SignaturesAuthentic ==
    (phase = "waiting" /\ ~replaced) =>
        \A k \in Keys : \A i \in DOMAIN request.sent.signatures[k] : request.sent.signatures[k][i] = k

(* What the operator pays for carries the operator's signature, unless setOperator left the key of *)
(* an earlier setOperatorWith in place.  A signature that the operator added to the bytes, instead  *)
(* of signing, is lost with them: when an expired ID is replaced, and for a proxy past the nodes.   *)
PayerSigns ==
    (phase = "waiting" /\ client.account = tx.id.account /\ client.public \in {None, client.account}) =>
        \/ request.sent.signatures[client.account] # <<>>
        \/ /\ tx.signatories[client.account] = "added"
           /\ regenerated > 0 \/ request.nodeIndex > Len(tx.nodes)

(* However often answers are lost and execute is called again, a chunk takes effect at most once   *)
(* for each ID the application asked for, and, where the policy allows new IDs, once for each ID.  *)
EffectsPerId ==
    \A i \in DOMAIN ledger :
        Cardinality({j \in DOMAIN ledger : ledger[j].chunk = ledger[i].chunk}) <=
            IF regenerate THEN generated ELSE generated - regenerated

(* A file is appended in order: no chunk takes effect before the one it follows.                   *)
FileInOrder ==
    (tx.class = "file" /\ ~pastNodes) =>
        \A i \in DOMAIN ledger :
            ledger[i].chunk > 0 => \E j \in 1..(i - 1) : ledger[j].chunk = ledger[i].chunk - 1

(* When execute returns, a node has accepted every chunk, exceptions in earlier calls and chunks   *)
(* sent before them included, except one whose last call ended without a response and was taken for *)
(* accepted (Executable.cc retries three codes only); and all under IDs made from the same one      *)
(* unless it was regenerated.  A transaction read from bytes that is regenerated is cut anew, at    *)
(* the default chunk size, whatever was sent of it before.  Bodies cut at other places and proxies  *)
(* past the node account IDs are left out.                                                         *)
ReturnMeansAccepted ==
    [][(phase # "idle" /\ phase' = "idle" /\ outcome' = "returned" /\ Whole(tx) /\ ~pastNodes) =>
            \A c \in 0..(GetNumberOfChunksRequired(tx) - 1) :
                \/ c \in unanswered'
                \/ \E e \in Accepted' :
                      /\ e.chunk = c
                      /\ tx.class # "plain" /\ (regenerated = 0 \/ tx.chunkSize # DefaultChunkSize) =>
                            e.content = GetDataForChunk(tx, c)
                      /\ regenerated = 0 => e.id = Tick(tx.id, c)]_vars

(* Bytes hold what a transaction of one chunk with its node account IDs set was made from, and who *)
(* signed it if it was frozen and no new ID dropped signatures.                                     *)
OneChunk(t) == t.class = "plain" \/ (t.nodes # <<>> /\ Len(t.data) <= t.chunkSize /\ Whole(t))
RestoredAsSaved ==
    [][SaveAndRestore =>
        /\ OneChunk(tx) => tx'.data = tx.data /\ tx'.id = tx.id /\ tx'.nodes = tx.nodes
        /\ (tx.frozen /\ regenerated = 0) => Signatories(tx') = Signatories(tx)]_vars
==============================================================================
