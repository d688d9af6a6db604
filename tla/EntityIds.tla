------------------------------ MODULE EntityIds ------------------------------
(***************************************************************************)
(* The ID of an entity, of any class: made of a number, a key or an EVM     *)
(* address, typed with or without the checksum of a ledger, turned to text, *)
(* bytes and Solidity addresses and read again, and sent to a ledger.       *)
(***************************************************************************)
EXTENDS Integers

CONSTANTS
    Ledgers,        \* ledgers, which give different checksums
    HexBase,        \* bound: a number has two bytes, of one digit to this base each
    DecBase         \* bound: the digits below this one are decimal too

VARIABLES
    id,             \* the object
    meant,          \* the entity it was made for
    typed,          \* the ledger of the checksum the application was given or gave, {} if there is none
    detours,        \* conversions that do not keep the entity
    sentTo          \* the entity and the ledger it was sent to, <<>> if it was not

idVars == <<id, meant, typed, detours, sentTo>>

-----------------------------------------------------------------------------
(* The members of every class.  A shard stands for the shard and the realm, which are 0 together;   *)
(* where a number is optional there is NoNumber; an EVM address has upper and lower bytes.          *)
NoNumber == -1
Numbers == 0..(HexBase * HexBase - 1)
NewId(class, shard, num, checksum) ==
    [class |-> class, shard |-> shard, num |-> num, key |-> FALSE, evm |-> <<>>, checksum |-> checksum]

AccountId == [optional |-> TRUE, key |-> TRUE, evm |-> TRUE, fromSolidity |-> TRUE, toSolidity |-> TRUE]
ContractId == [AccountId EXCEPT !.key = FALSE]
DelegateContractId == [ContractId EXCEPT !.evm = FALSE]
FileId == [DelegateContractId EXCEPT !.optional = FALSE]
TopicId == FileId
TokenId == [FileId EXCEPT !.toSolidity = FALSE]
ScheduleId == [TokenId EXCEPT !.fromSolidity = FALSE]
IdTypes == [AccountId |-> AccountId, ContractId |-> ContractId, DelegateContractId |-> DelegateContractId,
            FileId |-> FileId, TopicId |-> TopicId, TokenId |-> TokenId, ScheduleId |-> ScheduleId]

(* The entity that a message with an ID names: the number, if there is one, or the alias.  The      *)
(* address of an entity without an alias is all zeros and its number, and the network knows it by   *)
(* either.                                                                                          *)
ToProtobuf(i) ==
    CASE i.num # NoNumber -> <<"number", i.shard, i.num>>
      [] i.num = NoNumber /\ i.key -> <<"key", i.shard>>
      [] i.num = NoNumber /\ ~i.key /\ i.evm # <<>> -> <<"number", i.shard, i.evm[2]>>
      [] OTHER -> <<"none", i.shard>>

(* fromProtobuf of what toProtobuf wrote: the checksum is gone, and a delegate gets a number.       *)
Reread(i) ==
    LET only == [i EXCEPT !.checksum = {}]
    IN  CASE i.num # NoNumber -> [only EXCEPT !.key = FALSE, !.evm = <<>>]
          [] i.num = NoNumber /\ i.class = "DelegateContractId" -> [only EXCEPT !.num = 0]
          [] i.num = NoNumber /\ i.key -> [only EXCEPT !.evm = <<>>]
          [] OTHER -> only

(* toString() of an account prefers its alias, that of a contract its number.  An ID without either *)
(* is written as number 0.                                                                          *)
ToText(i) ==
    LET number == [form |-> "number", shard |-> i.shard, value |-> IF i.num = NoNumber THEN 0 ELSE i.num]
        hex == [form |-> "hex", shard |-> i.shard, value |-> i.evm]
    IN  CASE i.key -> [form |-> "key", shard |-> i.shard]
          [] ~i.key /\ i.evm # <<>> /\ (i.class = "AccountId" \/ i.num = NoNumber) -> hex
          [] OTHER -> number

(* Hexadecimal text that is all decimal digits, without upper bytes, is read as a decimal number.   *)
LooksDecimal(evm) == evm[1] = 0 /\ evm[2] \div HexBase < DecBase /\ evm[2] % HexBase < DecBase
Decimal(low) == (low \div HexBase) * DecBase + (low % HexBase)

(* Mutant: the checksum is not kept.                                                                *)
FromTextWithoutChecksum(class, text, checksum) ==
    CASE text.form = "number" -> NewId(class, text.shard, text.value, {})
      [] text.form = "key" -> [NewId(class, text.shard, NoNumber, {}) EXCEPT !.key = TRUE]
      [] text.form = "hex" /\ LooksDecimal(text.value) -> NewId(class, text.shard, Decimal(text.value[2]), {})
      [] OTHER -> [NewId(class, text.shard, NoNumber, {}) EXCEPT !.evm = text.value]

(* fromString(): a number with its checksum, or else an alias, which has none.                      *)
FromText(class, text, checksum) ==
    CASE text.form = "number" -> NewId(class, text.shard, text.value, checksum)
      [] text.form = "key" -> [NewId(class, text.shard, NoNumber, {}) EXCEPT !.key = TRUE]
      [] text.form = "hex" /\ LooksDecimal(text.value) -> NewId(class, text.shard, Decimal(text.value[2]), {})
      [] OTHER -> [NewId(class, text.shard, NoNumber, {}) EXCEPT !.evm = text.value]

(* toSolidityAddress(): the EVM address, or the bytes of the number from the highest on.            *)
HasSolidityAddress(i) == IdTypes[i.class].toSolidity /\ (i.evm # <<>> \/ i.num # NoNumber)
ToSolidityAddress(i) == IF i.evm # <<>> THEN i.evm ELSE <<i.shard, i.num>>

(* fromSolidityAddress() reads the bytes of a number as they are in memory, lowest first.           *)
Swapped(n) == (n % HexBase) * HexBase + (n \div HexBase)
FromSolidityAddress(class, address) ==
    IF IdTypes[class].evm /\ address[1] # 0 THEN [NewId(class, 0, NoNumber, {}) EXCEPT !.evm = address]
    ELSE NewId(class, Swapped(address[1]), Swapped(address[2]), {})

-----------------------------------------------------------------------------
(* An ID is made by a constructor, or by fromString() of what a user typed.                         *)
IdsInit ==
    /\ detours = {} /\ sentTo = <<>>
    /\ \E class \in DOMAIN IdTypes, shard \in {0, 1} :
          LET t == IdTypes[class]
              none == NewId(class, shard, IF t.optional THEN NoNumber ELSE 0, {})
          IN  \/ \E num \in Numbers, checksum \in {{}} \cup {{l} : l \in Ledgers} :
                    id = FromText(class, [form |-> "number", shard |-> shard, value |-> num], checksum)
                    /\ typed = checksum /\ meant = <<"number", shard, num>>
              \/ id = none /\ typed = {} /\ meant = ToProtobuf(none)
              \/ t.key /\ id = [none EXCEPT !.key = TRUE] /\ typed = {} /\ meant = <<"key", shard>>
              \/ \E low \in Numbers, high \in {0, 1} :
                    /\ t.evm /\ id = [none EXCEPT !.evm = <<high, low>>]
                    /\ typed = {} /\ meant = <<"number", shard, low>>

(* The object is replaced by what a conversion and its inverse make of it.                          *)
Becomes(new, detour) ==
    /\ id' = new /\ detours' = detours \cup detour
    /\ UNCHANGED <<meant, sentTo>>

(* fromBytes(toBytes()), as part of a transaction too.                                              *)
ThroughBytes ==
    /\ Becomes(Reread(id), IF id.class = "DelegateContractId" /\ id.num = NoNumber THEN {"unset"} ELSE {})
    /\ typed' = {}

(* fromString(toString()).                                                                          *)
ThroughText ==
    LET text == ToText(id)
    IN  /\ Becomes(FromText(id.class, text, {}),
                   CASE text.form = "number" /\ id.num = NoNumber -> {"unset"}
                     [] text.form = "hex" /\ LooksDecimal(text.value) -> {"decimal"}
                     [] OTHER -> {})
        /\ typed' = {}

(* toStringWithChecksum(client), which keeps the checksum it computes, unless it has one.           *)
WithChecksum(ledger) ==
    /\ id.num # NoNumber
    /\ Becomes([id EXCEPT !.checksum = IF @ = {} THEN {ledger} ELSE @], {})
    /\ typed' = IF typed = {} THEN {ledger} ELSE typed

(* fromSolidityAddress(toSolidityAddress()).                                                        *)
ThroughSolidityAddress ==
    /\ HasSolidityAddress(id)
    /\ LET address == ToSolidityAddress(id)
       IN  Becomes(FromSolidityAddress(id.class, address),
                   IF IdTypes[id.class].evm /\ id.evm # <<>> /\ address[1] # 0 /\ id.shard = 0
                   THEN {} ELSE {"solidity"})
    /\ typed' = {}

(* populateAccountEvmAddress() asks a mirror node.                                                  *)
PopulateAccountEvmAddress ==
    /\ id.class = "AccountId" /\ id.num # NoNumber
    /\ \E high \in {0, 1} : Becomes([id EXCEPT !.evm = <<high, id.num>>], {})
    /\ UNCHANGED typed

(* validateChecksum(), and a request with the ID.                                                   *)
ValidateChecksum(ledger) == id.num # NoNumber /\ id.checksum # {} => id.checksum = {ledger}
SendTo(ledger, validating) ==
    /\ validating => ValidateChecksum(ledger)
    /\ sentTo' = <<[entity |-> ToProtobuf(id), ledger |-> ledger, validating |-> validating, typed |-> typed]>>
    /\ UNCHANGED <<id, meant, typed, detours>>

IdsNext ==
    \/ ThroughBytes \/ ThroughText \/ ThroughSolidityAddress \/ PopulateAccountEvmAddress
    \/ \E ledger \in Ledgers : WithChecksum(ledger) \/ (\E validating \in BOOLEAN : SendTo(ledger, validating))

IdsSpec == IdsInit /\ [][IdsNext]_idVars

-----------------------------------------------------------------------------
(* However an ID was converted, what is sent names the entity it was made for, unless it was on one *)
(* of the detours that are known to change it: a Solidity address of a number, whose bytes are read *)
(* in another order than they were written, an EVM address of zeros and decimal digits as text, or  *)
(* an ID without a number.  And with the validation of checksums on, an ID that a user typed or saw *)
(* with the checksum of a ledger is only sent to that ledger.                                       *)
EntityKept ==
    sentTo # <<>> =>
        /\ detours = {} => sentTo[1].entity = meant
        /\ sentTo[1].validating /\ sentTo[1].typed # {} => sentTo[1].ledger \in sentTo[1].typed
==============================================================================
