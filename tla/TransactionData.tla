--------------------------- MODULE TransactionData ---------------------------
(***************************************************************************)
(* The data of a transaction of any class, from the setters to the node:    *)
(* fields and transfers are set, the object is frozen, turned to bytes and  *)
(* read again, scheduled in a ScheduleCreateTransaction, by schedule() or   *)
(* wrapped as it is, and submitted.  What the application asked for is kept *)
(* beside the object, for the properties.                                   *)
(***************************************************************************)
EXTENDS TransactionTypes, Transfers

CONSTANTS
    Accounts,       \* accounts of transfers
    Tokens,         \* tokens of transfers
    Serials,        \* serial numbers of NFTs
    Amounts,        \* amounts of a transfer
    Decimals,       \* expected decimals, 0 for none
    MaxSets,        \* bound: how often fields are set
    MaxCalls        \* bound: how often fields are set or transfers added

ASSUME DataAssumption ==
    /\ Amounts \subseteq Int /\ Decimals \subseteq Nat
    /\ MaxSets \in Nat /\ MaxCalls \in Nat

VARIABLES
    tx,             \* the object: its class, its fields, its transfers and what it schedules
    nodes,          \* has it node account IDs?
    frozen,         \* mIsFrozen
    foreign,        \* lists of transfers that hold an ID with the checksum of another ledger
    service,        \* where the node passed what was sent last, if not to the service of its own case
    misdirected,    \* members that went out with such an ID although checksums were to be validated
    wanted,         \* the fields as the application set them
    asked,          \* the transfers the application added
    made,           \* the transaction that was scheduled, if any
    sets            \* how often fields were set

vars == <<tx, nodes, frozen, foreign, service, misdirected, wanted, asked, made, sets>>

-----------------------------------------------------------------------------
(* A new object.  A schedule that was given no transaction holds a default-constructed variant,     *)
(* which is a transaction of the first class.                                                       *)
New(class, fields) ==
    [class |-> class, fields |-> fields, hbars |-> <<>>, tokens |-> <<>>, nfts |-> <<>>, inner |-> <<>>]
DefaultWrapped == New("AccountAllowanceApprove", [f \in Fields("AccountAllowanceApprove") |-> "Empty"])
NewSchedule(wrapped) ==
    [New("ScheduleCreate", [f \in Fields("ScheduleCreate") |-> InitialValue("ScheduleCreate", f)])
     EXCEPT !.inner = <<wrapped>>]

(* build() writes the fields...                                                                     *)
WrittenField(class, f, v) ==
    LET t == Types[class]
    IN  CASE f \in t.unlessDefault /\ v = "Empty" -> "None"
          [] f \in t.scalar /\ v = "None" -> "Empty"
          [] v \in {"Fraction", "Foreign", "Fallback"} -> "Given"
          [] OTHER -> v
Written(class, fields) == [f \in Fields(class) |-> WrittenField(class, f, fields[f])]

(* Mutant: it is not asked whether an optional field is there.                                      *)
ReadFieldUnasked(class, f, w, fromList) ==
    LET t == Types[class]
    IN  CASE f \in t.optional \cup t.unlessDefault /\ w = "None" -> "Empty"
          [] f \in t.message /\ ~fromList -> "Empty"
          [] OTHER -> w

(* ... and initFromSourceTransactionBody() reads them.                                              *)
ReadField(class, f, w, fromList) ==
    LET t == Types[class]
    IN  CASE f \in t.unlessDefault /\ w = "None" -> "Empty"
          [] f \in t.message /\ ~fromList -> "Empty"
          [] OTHER -> w

(* The body of a transaction that schedules none.                                                   *)
PlainBody(t) ==
    [case |-> CaseOf(t.class), data |-> Written(t.class, t.fields),
     hbars |-> t.hbars, lists |-> TokenTransferLists(t.tokens, t.nfts), inner |-> <<>>]

(* Mutant: the constructors do not ask whether the body has their data, and find none.              *)
ConstructUnasked(class, body, fromList) ==
    IF class = "none" THEN <<>>
    ELSE <<[class |-> class,
            fields |-> [f \in Fields(class) |-> IF f \in DOMAIN body.data
                                                THEN ReadField(class, f, body.data[f], fromList)
                                                ELSE InitialValue(class, f)],
            hbars |-> body.hbars, tokens |-> TokensRead(body.lists), nfts |-> NftsRead(body.lists),
            inner |-> <<>>]>>

(* The constructors that take a body or a list of transactions throw if it has the data of another  *)
(* class.                                                                                           *)
Construct(class, body, fromList) ==
    IF class = "none" \/ (class # "none" /\ CaseOf(class) # body.case) THEN <<>>
    ELSE <<[class |-> class, fields |-> [f \in Fields(class) |-> ReadField(class, f, body.data[f], fromList)],
            hbars |-> body.hbars, tokens |-> TokensRead(body.lists), nfts |-> NftsRead(body.lists),
            inner |-> <<>>]>>

(* toSchedulableProtobuf of what is scheduled, and a body.                                          *)
ToSchedulable(t) == IF CaseOf(t.class) \in SchedulableCases THEN <<PlainBody(t)>> ELSE <<>>
CanBuild(t) == t.class = "ScheduleCreate" => t.inner # <<>> /\ ToSchedulable(t.inner[1]) # <<>>
Body(t) == IF t.class = "ScheduleCreate" THEN [PlainBody(t) EXCEPT !.inner = ToSchedulable(t.inner[1])]
           ELSE PlainBody(t)

FromSchedulable(body) == Construct(FromSchedulableTransactionBody(body.case), body, FALSE)

(* What fromBytes makes of a body, and of the transaction scheduled in it.                          *)
Reload(body, fromList) ==
    LET outer == Construct(FromBytes(body.case), body, fromList)
    IN  IF body.case # "kScheduleCreate" \/ outer = <<>> THEN outer
        ELSE IF FromSchedulable(body.inner[1]) = <<>> THEN <<>>
        ELSE <<[outer[1] EXCEPT !.inner = FromSchedulable(body.inner[1])]>>

(* Without data there is no chunk, and without a chunk there are no bytes to read.                  *)
HasChunks(t) == t.class \in ChunkedClasses => t.fields["mData"] # "Empty"

-----------------------------------------------------------------------------
Init ==
    /\ \E class \in Classes : \E fields \in InitialFields(class) :
          /\ tx = IF class = "ScheduleCreate" THEN NewSchedule(DefaultWrapped) ELSE New(class, fields)
          /\ wanted = fields
    /\ nodes = FALSE /\ frozen = FALSE /\ foreign = {} /\ service = "its own" /\ misdirected = {}
    /\ asked = [hbars |-> <<>>, tokens |-> <<>>, nfts |-> <<>>]
    /\ made = <<>> /\ sets = 0

(* What an exception leaves.                                                                        *)
Throw == UNCHANGED vars

CallsLeft == sets + Len(asked.hbars) + Len(asked.tokens) + Len(asked.nfts) < MaxCalls

(* A setter, which resets the alternatives of its field.                                            *)
Assigned(class, fields, f, v) ==
    [g \in DOMAIN fields |->
        IF g = f THEN v
        ELSE IF \E a \in Types[class].alternatives : {f, g} \subseteq a THEN "None" ELSE fields[g]]

Set ==
    /\ ~frozen /\ sets < MaxSets /\ CallsLeft
    /\ \E f \in Fields(tx.class) : \E v \in SetterValues(tx.class, f) :
          /\ tx' = [tx EXCEPT !.fields = Assigned(tx.class, @, f, v)]
          /\ wanted' = Assigned(tx.class, wanted, f, v)
    /\ sets' = sets + 1
    /\ UNCHANGED <<nodes, frozen, foreign, service, misdirected, asked, made>>

(* A transfer that is added may have such an ID, one that is taken away may have been the last that *)
(* had one, and one whose amount changes keeps its IDs.                                             *)
ForeignAfter(list, transfers, now) ==
    IF Len(now) > Len(transfers) THEN {foreign, foreign \cup {list}}
    ELSE IF now = <<>> THEN {foreign \ {list}}
    ELSE IF Len(now) < Len(transfers) THEN {foreign, foreign \ {list}}
    ELSE {foreign}

AddHbarTransfer ==
    /\ tx.class = "Transfer" /\ ~frozen /\ CallsLeft
    /\ \E account \in Accounts, amount \in Amounts, approved \in BOOLEAN :
          LET t == [account |-> account, amount |-> amount, approved |-> approved]
          IN  /\ tx' = [tx EXCEPT !.hbars = DoHbarTransfer(@, t)]
              /\ asked' = [asked EXCEPT !.hbars = Append(@, t)]
              /\ foreign' \in ForeignAfter("mHbarTransfers", tx.hbars, tx'.hbars)
    /\ UNCHANGED <<nodes, frozen, service, misdirected, wanted, made, sets>>

AddTokenTransfer ==
    /\ tx.class \in TransferClasses /\ ~frozen /\ CallsLeft
    /\ \E token \in Tokens, account \in Accounts, amount \in Amounts, decimals \in Decimals, approved \in BOOLEAN :
          LET t == [token |-> token, account |-> account, amount |-> amount, decimals |-> decimals,
                    approved |-> approved]
          IN  IF ~DecimalsMatch(tx.tokens, t) THEN Throw
              ELSE /\ tx' = [tx EXCEPT !.tokens = DoTokenTransfer(@, t)]
                   /\ asked' = [asked EXCEPT !.tokens = Append(@, t)]
                   /\ foreign' \in ForeignAfter("mTokenTransfers", tx.tokens, tx'.tokens)
                   /\ UNCHANGED <<nodes, frozen, service, misdirected, wanted, made, sets>>

AddNftTransfer ==
    /\ tx.class \in TransferClasses /\ ~frozen /\ CallsLeft
    /\ \E token \in Tokens, serial \in Serials, sender, receiver \in Accounts, approved \in BOOLEAN :
          LET t == [token |-> token, serial |-> serial, sender |-> sender, receiver |-> receiver,
                    approved |-> approved]
          IN  /\ sender # receiver
              /\ tx' = [tx EXCEPT !.nfts = DoNftTransfer(@, t)]
              /\ asked' = [asked EXCEPT !.nfts = Append(@, t)]
              /\ foreign' \in ForeignAfter("mNftTransfers", tx.nfts, tx'.nfts)
    /\ UNCHANGED <<nodes, frozen, service, misdirected, wanted, made, sets>>

SetNodeAccountIds ==
    /\ ~frozen /\ ~nodes
    /\ nodes' = TRUE
    /\ UNCHANGED <<tx, frozen, foreign, service, misdirected, wanted, asked, made, sets>>

(* freezeWith builds the body for every node.                                                       *)
Freeze ==
    /\ ~frozen
    /\ IF ~CanBuild(tx) THEN Throw
       ELSE /\ frozen' = TRUE /\ nodes' = TRUE
            /\ UNCHANGED <<tx, foreign, service, misdirected, wanted, asked, made, sets>>

(* fromBytes(toBytes()): with nodes a list of transactions is written, and what is read is frozen   *)
(* if they are signed; without them it is the body, and what is read is not.  Bytes hold no         *)
(* checksums.                                                                                       *)
SaveAndRestore ==
    /\ IF ~CanBuild(tx) \/ (nodes /\ ~HasChunks(tx)) THEN Throw
       ELSE IF Reload(Body(tx), nodes) = <<>> THEN Throw
       ELSE /\ tx' = Reload(Body(tx), nodes)[1]
            /\ frozen' \in IF nodes THEN BOOLEAN ELSE {FALSE}
            /\ foreign' = {}
            /\ UNCHANGED <<nodes, service, misdirected, wanted, asked, made, sets>>

(* The transaction becomes the one a new schedule holds.                                            *)
Schedules(wrapped) ==
    /\ tx' = NewSchedule(wrapped) /\ made' = <<tx>>
    /\ wanted' = tx'.fields /\ nodes' = FALSE /\ frozen' = FALSE
    /\ UNCHANGED <<service, misdirected, asked, sets>>

(* schedule() builds the body and makes an object of it again.                                      *)
Schedule ==
    /\ made = <<>>
    /\ IF frozen \/ nodes \/ ~CanBuild(tx) THEN Throw
       ELSE LET wrapped == Construct(FromTransactionBody(CaseOf(tx.class)), PlainBody(tx), FALSE)
            IN  IF wrapped = <<>> THEN Throw ELSE foreign' = {} /\ Schedules(wrapped[1])

(* setScheduledTransaction is given the object itself.                                              *)
SetScheduledTransaction ==
    /\ made = <<>>
    /\ Schedules([tx EXCEPT !.inner = <<>>])
    /\ UNCHANGED foreign

(* The members that hold an ID with the checksum of another ledger.  The lists of transfers of a    *)
(* schedule are those of what it schedules.                                                         *)
ForeignFields(t) == {f \in Fields(t.class) : t.fields[f] = "Foreign"}
HasFallback(t) == \E f \in Fields(t.class) : t.fields[f] = "Fallback"
ForeignMembers ==
    ForeignFields(tx)
    \cup (IF HasFallback(tx) THEN {"mFallbackFee"} ELSE {})
    \cup IF tx.class # "ScheduleCreate" THEN foreign
         ELSE IF ForeignFields(tx.inner[1]) = {} /\ ~HasFallback(tx.inner[1]) /\ foreign = {} THEN {}
         ELSE {"mTransactionToSchedule"}

(* submitRequest of the class passes the case of its data to the node.                              *)
Submit(validating) ==
    LET case == CaseOf(tx.class)
    IN  /\ service' = IF ServiceOf(case) = case THEN "its own" ELSE ServiceOf(case)
        /\ misdirected' = IF validating THEN {<<tx.class, m>> : m \in ForeignMembers} ELSE {}
        /\ UNCHANGED <<tx, nodes, frozen, foreign, wanted, asked, made, sets>>

(* Mutant: checksums are not validated.                                                             *)
ExecuteUnvalidated(validating) ==
    /\ frozen /\ HasChunks(tx)
    /\ Submit(validating)

(* onExecute has the checksums validated if the client says so.                                     *)
Execute(validating) ==
    /\ frozen /\ HasChunks(tx)
    /\ IF validating /\ ForeignMembers \cap Validated(tx.class) # {} THEN Throw ELSE Submit(validating)

Next == \/ Set \/ AddHbarTransfer \/ AddTokenTransfer \/ AddNftTransfer
        \/ SetNodeAccountIds \/ Freeze \/ SaveAndRestore \/ Schedule \/ SetScheduledTransaction
        \/ \E validating \in BOOLEAN : Execute(validating)

Spec == Init /\ [][Next]_vars

-----------------------------------------------------------------------------
(* Whatever was saved, read, and set again in between, the body says what the application set, of   *)
(* every class and field: nothing that was set is lost, and nothing that was not set appears.  Only *)
(* the message of a topic may be lost.                                                              *)
BodyAsSet ==
    \A f \in Fields(tx.class) :
        \/ Written(tx.class, tx.fields)[f] = Written(tx.class, wanted)[f]
        \/ f \in Types[tx.class].message /\ tx.fields[f] = "Empty"

(* However it was scheduled, saved and read again, what a schedule holds is the transaction it was  *)
(* made of: of the same class, with the same data.  Only the message of a topic may be lost.        *)
ScheduledAsMade ==
    made # <<>> =>
        LET inner == tx.inner[1]
        IN  /\ inner.class = made[1].class
            /\ \A f \in Fields(inner.class) \ Types[inner.class].message :
                  Written(inner.class, inner.fields)[f] = Written(inner.class, made[1].fields)[f]

(* The transaction that holds the transfers, which may have been scheduled.                         *)
Carrier == IF made = <<>> THEN tx ELSE tx.inner[1]

Total(numbers) ==
    LET sum[i \in 0..Len(numbers)] == IF i = 0 THEN 0 ELSE sum[i - 1] + numbers[i]
    IN  sum[Len(numbers)]

(* What the entries of a list say of the account and approval of another, of its token, and of an   *)
(* NFT and back.                                                                                    *)
HbarAmounts(hbars, t) ==
    [i \in DOMAIN hbars |->
        IF hbars[i].account = t.account /\ hbars[i].approved = t.approved THEN hbars[i].amount ELSE 0]
TokenAmounts(tokens, t) ==
    [i \in DOMAIN tokens |-> IF SameEntry(tokens[i], t) THEN tokens[i].amount ELSE 0]
Back(n) == [n EXCEPT !.sender = n.receiver, !.receiver = n.sender]
Moves(nfts, n) == [i \in DOMAIN nfts |-> IF nfts[i] = n THEN 1 ELSE IF nfts[i] = Back(n) THEN -1 ELSE 0]

Shared(nfts, n) == \E m \in ToSet(nfts) : m.serial = n.serial /\ m.token # n.token
Named(tokens, token, decimals) == \E t \in ToSet(tokens) : t.token = token /\ t.decimals = decimals

(* However transfers were merged, saved, read and added to, those of the body add up to what was    *)
(* asked for: the amounts of every account, token and approval, and the moves of every NFT, as long *)
(* as no two tokens share a serial number.  The decimals a body expects of a token are some the     *)
(* application named for it: if it always named the same, it is these.                              *)
TransfersNetOut ==
    LET body == PlainBody(Carrier)
        lists == body.lists
    IN  /\ \A t \in ToSet(asked.hbars) :
              Total(HbarAmounts(body.hbars, t)) = Total(HbarAmounts(asked.hbars, t))
        /\ \A t \in ToSet(asked.tokens) :
              Total([i \in DOMAIN lists |-> Total(TokenAmounts(lists[i].transfers, t))])
                  = Total(TokenAmounts(asked.tokens, t))
        /\ \A n \in ToSet(asked.nfts) :
              \/ Shared(asked.nfts, n)
              \/ Total([i \in DOMAIN lists |-> Total(Moves(lists[i].nfts, n))]) = Total(Moves(asked.nfts, n))
        /\ \A list \in ToSet(lists) :
              list.transfers # <<>> => Named(asked.tokens, list.token, list.decimals)

(* With the validation of checksums on, no ID that was typed for another ledger is sent, in any     *)
(* member of any class, unless it lost its checksum on the way through bytes.  Not looked at, and   *)
(* sent, are pending airdrops, the transfers of an airdrop, all of a scheduled transaction, the     *)
(* fallback fee of a royalty, and contracts that stand as keys.                                     *)
NeverValidated(class) ==
    CASE class \in {"TokenCancelAirdrop", "TokenClaimAirdrop"} -> {"mPendingAirdrops"}
      [] class = "TokenAirdrop" -> {"mTokenTransfers", "mNftTransfers"}
      [] class = "ScheduleCreate" -> {"mTransactionToSchedule"}
      [] OTHER -> {}
ForeignNeverSent ==
    \A sent \in misdirected : sent[2] \in NeverValidated(sent[1]) \cup KeyMembers \cup {"mFallbackFee"}

(* "This should never happen": a transaction is submitted that the node has no service for.         *)
AlwaysRecognized == service # "none"
==============================================================================
