----------------------------- MODULE Transaction -----------------------------
(***************************************************************************)
(* The object behind every transaction: the fields the application sets,    *)
(* one signed transaction for each node (and chunk) once they are fixed,    *)
(* the keys that sign, and the protobuf objects built from all that when a  *)
(* request is made.  Everything here is a function of the object; the       *)
(* module TransactionExecution holds the object and says when each applies. *)
(*                                                                          *)
(* A transaction's own fields are its data, a sequence of units.  Its ID is *)
(* the paying account, the time it was generated at (gen) and the ticks     *)
(* added to that.  An account has the name of its key.                      *)
(***************************************************************************)
EXTENDS Naturals, Sequences

CONSTANTS
    Keys,             \* key pairs, and the accounts they belong to
    None,             \* nothing: no account, no key, no transaction ID, no node
    DefaultChunkSize, \* DEFAULT_CHUNK_SIZE
    MaxChunks         \* mMaxChunks

(* Transaction IDs.                                                                                *)
Ids == [account : Keys, gen : Nat, tick : Nat]

ASSUME TransactionAssumption ==
    /\ None \notin Keys /\ None \notin Ids
    /\ Keys \cap {"absent", "added", "operator"} = {}
    /\ DefaultChunkSize \in Nat \ {0} /\ MaxChunks \in Nat

-----------------------------------------------------------------------------
(* The operator of a client: setOperator gives it an account and a private key, setOperatorWith an *)
(* account, a public key and a signing function, and neither takes away what the other gave.       *)
NoOperator == [account |-> None, private |-> None, public |-> None, signer |-> None]

SetOperator(client, k) == [client EXCEPT !.account = k, !.private = k]
SetOperatorWith(client, k) == [client EXCEPT !.account = k, !.public = k, !.signer = k]

(* Mutant: the private key's public key is preferred, though the signing function is not.          *)
PublicKeyOfPrivate(client) == IF client.private # None THEN client.private ELSE client.public

GetOperatorPublicKey(client) == IF client.public # None THEN client.public ELSE client.private
(* Without a signing function of its own, one that uses the private key the client has when it is  *)
(* called.                                                                                         *)
GetOperatorSigner(client) == IF client.signer # None THEN client.signer ELSE "operator"

-----------------------------------------------------------------------------
(* The signers of mSignatories: a key that did not sign, one whose signature is only in the signed *)
(* transactions, the client's operator, or the private key itself.                                 *)
NoSignatures == [k \in Keys |-> <<>>]
Signatories(tx) == {k \in Keys : tx.signatories[k] # "absent"}

(* A SignedTransaction before anyone signed it, for no node yet.                                   *)
Body(id, content, chunk, total, initial) ==
    [id |-> id, node |-> None, content |-> content, chunk |-> chunk, total |-> total, initial |-> initial,
     signatures |-> NoSignatures]
NotBuilt == Body(None, <<>>, 0, 0, None)

NewTransaction(class, data, chunkSize) ==
    [class |-> class, frozen |-> FALSE, id |-> None, nodes |-> <<>>, data |-> data, chunkSize |-> chunkSize,
     currentChunk |-> 0, signatories |-> [k \in Keys |-> "absent"],
     signedTransactions |-> <<>>, transactions |-> <<>>]

-----------------------------------------------------------------------------
(* ChunkedTransaction: how the data of a file append or a topic message is cut into chunks.        *)
GetNumberOfChunksRequired(tx) ==
    IF tx.class = "plain" THEN 1 ELSE (Len(tx.data) + tx.chunkSize - 1) \div tx.chunkSize

GetDataForChunk(tx, chunk) ==
    LET start == tx.chunkSize * chunk
        length == IF tx.chunkSize + start > Len(tx.data) THEN Len(tx.data) - start ELSE tx.chunkSize
    IN  SubSeq(tx.data, start + 1, start + length)

Tick(id, n) == [id EXCEPT !.tick = @ + n]

(* The bodies regenerateSignedTransactions makes before it adds one of each for every node.  Only  *)
(* topic messages name their first chunk's transaction and their number of chunks.                 *)
ChunkBody(tx, chunk) ==
    IF tx.class = "plain" \/ tx.id = None THEN Body(tx.id, tx.data, 0, 1, None)
    ELSE Body(Tick(tx.id, chunk), GetDataForChunk(tx, chunk), chunk,
              IF tx.class = "topic" THEN GetNumberOfChunksRequired(tx) ELSE 1,
              IF tx.class = "topic" THEN tx.id ELSE None)
NumberOfBodies(tx) == IF tx.id = None THEN 1 ELSE GetNumberOfChunksRequired(tx)

(* The transactions of a chunk stand together, in the order of the nodes.                          *)
Index(tx, chunk, nodeIndex) == chunk * Len(tx.nodes) + nodeIndex

(* addSignedTransactionForEachNode, for every body.                                                *)
SignedTransactionForEachNode(tx) ==
    [i \in 1..(NumberOfBodies(tx) * Len(tx.nodes)) |->
        [ChunkBody(tx, (i - 1) \div Len(tx.nodes)) EXCEPT !.node = tx.nodes[((i - 1) % Len(tx.nodes)) + 1]]]

RegenerateSignedTransactions(tx) ==
    LET bodies == SignedTransactionForEachNode(tx)
    IN  [tx EXCEPT !.signedTransactions = bodies, !.transactions = [i \in DOMAIN bodies |-> NotBuilt]]

-----------------------------------------------------------------------------
(* freezeWith needs an ID and nodes, or a client that can provide them; newId and nodes are what   *)
(* the client provides.                                                                            *)
CanFreeze(tx, client) == tx.frozen \/ tx.id # None \/ client.account # None

FreezeWith(tx, newId, nodes) ==
    IF tx.frozen THEN tx
    ELSE [RegenerateSignedTransactions([tx EXCEPT !.id = IF @ = None THEN newId ELSE @,
                                                  !.nodes = IF @ = <<>> THEN nodes ELSE @])
          EXCEPT !.frozen = TRUE]

(* mTransactions.clear() and resize(): nothing is built any more, what was signed stays signed.    *)
Unbuilt(tx) == [tx EXCEPT !.transactions = [i \in DOMAIN tx.signedTransactions |-> NotBuilt]]

(* Mutant: the objects built before are not thrown away.                                           *)
SignInternalKeepingBuilt(tx, k, signer) ==
    IF tx.signatories[k] # "absent" THEN tx ELSE [tx EXCEPT !.signatories[k] = signer]

SignInternal(tx, k, signer) ==
    IF tx.signatories[k] # "absent" THEN tx
    ELSE [Unbuilt(tx) EXCEPT !.signatories[k] = signer]

(* A signature made elsewhere goes to the first signed transaction, of the only node.  The code    *)
(* does not look whether there is one: without data there is not, and the program would crash.     *)
CanAddSignature(tx) ==
    /\ tx.frozen /\ Len(tx.nodes) = 1 /\ tx.signedTransactions # <<>>
    /\ tx.class = "plain" \/ Len(tx.data) <= tx.chunkSize

AddSignature(tx, k) ==
    IF tx.signatories[k] # "absent" THEN tx
    ELSE [Unbuilt(tx) EXCEPT !.signatories[k] = "added",
                             !.signedTransactions[1].signatures[k] = Append(@, k)]

(* The private key a signer signs with, and what each signer adds to a signed transaction.         *)
PrivateKey(signer, client) == IF signer = "operator" THEN client.private ELSE signer
Signed(tx, client, signedTransaction) ==
    [signedTransaction EXCEPT !.signatures =
        [k \in Keys |-> IF tx.signatories[k] \in {"absent", "added"} THEN @[k]
                        ELSE Append(@[k], PrivateKey(tx.signatories[k], client))]]

(* buildTransaction signs the signed transaction itself, then copies it.                           *)
BuildTransactions(tx, client, indices) ==
    LET toBuild == {i \in indices : tx.transactions[i] = NotBuilt}
        built == [i \in DOMAIN tx.signedTransactions |->
                    IF i \in toBuild THEN Signed(tx, client, tx.signedTransactions[i])
                    ELSE tx.signedTransactions[i]]
    IN  [tx EXCEPT !.signedTransactions = built,
                   !.transactions = [i \in DOMAIN built |-> IF i \in toBuild THEN built[i] ELSE @[i]]]

(* buildAllTransactions, for toBytes, getSignatures and the hashes.                                *)
BuildAllTransactions(tx, client) == BuildTransactions(tx, client, DOMAIN tx.signedTransactions)

-----------------------------------------------------------------------------
(* fromBytes(toBytes()).  Without nodes only the source body is written.  With them every signed   *)
(* transaction is, and the object that is read is frozen if the first of them has a signature.     *)
(* The chunk size is not written.  A topic message is joined from the transactions read, of which  *)
(* there are none without nodes; of a file the contents of the first chunk are taken.              *)
Joined(tx) ==
    LET nodes == Len(tx.nodes)
        upTo[c \in 0..(Len(tx.signedTransactions) \div nodes)] ==
            IF c = 0 THEN <<>> ELSE upTo[c - 1] \o tx.signedTransactions[(c - 1) * nodes + 1].content
    IN  upTo[Len(tx.signedTransactions) \div nodes]

SourceBodyReloaded(tx) ==
    [NewTransaction(tx.class, IF tx.class = "topic" THEN <<>> ELSE tx.data, DefaultChunkSize)
     EXCEPT !.id = tx.id]

(* Mutant: the signatures read are not remembered as somebody's.                                   *)
SignersNotRead(saved) == {}
SignersRead(saved) == {k \in Keys : saved.signedTransactions[1].signatures[k] # <<>>}

SignedTransactionsReloaded(saved) ==
    LET first == saved.signedTransactions[1]
    IN  [NewTransaction(saved.class, IF saved.class = "topic" THEN Joined(saved) ELSE first.content,
                        DefaultChunkSize)
         EXCEPT !.id = first.id, !.nodes = saved.nodes,
                !.frozen = SignersRead(saved) # {},
                !.signatories = [k \in Keys |-> IF k \in SignersRead(saved) THEN "added" ELSE "absent"],
                !.signedTransactions = saved.signedTransactions,
                !.transactions = saved.signedTransactions]

Saved(tx, client) ==
    BuildAllTransactions(IF tx.frozen THEN tx ELSE RegenerateSignedTransactions(tx), client)

(* No chunks are written as no bytes, which fromBytes refuses.                                     *)
CanReload(tx, client) == tx.nodes = <<>> \/ 1 \in DOMAIN Saved(tx, client).signedTransactions

Reload(tx, client) ==
    IF tx.nodes = <<>> THEN SourceBodyReloaded(tx) ELSE SignedTransactionsReloaded(Saved(tx, client))

-----------------------------------------------------------------------------
(* makeRequest: the current chunk's transaction for a node.                                        *)
(* Mutant: the chunk is left out of the index.                                                     *)
RequestIndexOfFirstChunk(tx, nodeIndex) == Index(tx, 0, nodeIndex)

RequestIndex(tx, nodeIndex) == Index(tx, tx.currentChunk, nodeIndex)

(* The ID a response is given: the first chunk's is the transaction's own.                         *)
GetCurrentTransactionId(tx) == Tick(tx.id, tx.currentChunk)
==============================================================================
