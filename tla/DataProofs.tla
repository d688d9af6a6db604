------------------------------ MODULE DataProofs ------------------------------
(***************************************************************************)
(* Theorems about the data of transactions, queries and IDs: what is sent   *)
(* is what was set, of every class, and what was asked to be transferred,   *)
(* for any number of calls.                                                 *)
(***************************************************************************)
EXTENDS MCData, SequenceTheorems, WellFoundedInduction, TLAPS

-----------------------------------------------------------------------------
(* IDs.  An ID has its members; its checksum is the one the application saw, and goes with a       *)
(* number; an alias goes with no number, but for an address that says the number again; and as     *)
(* long as it took no detour it names the entity it was made for.                                  *)
Delegate == "DelegateContractId"
IsId(i) == i = [class |-> i.class, shard |-> i.shard, num |-> i.num, key |-> i.key, evm |-> i.evm,
                checksum |-> i.checksum]
OneEntity(i) ==
    /\ i.key \in BOOLEAN
    /\ i.key => i.num = I!NoNumber /\ i.evm = <<>>
    /\ i.evm # <<>> /\ i.num # I!NoNumber => i.evm[2] = i.num
    /\ i.class = Delegate => ~i.key /\ i.evm = <<>>
IdOK(i, checksum) ==
    /\ IsId(i) /\ OneEntity(i)
    /\ i.checksum = checksum
    /\ checksum # {} => i.num # I!NoNumber
IdInv == IdOK(id, typed) /\ (detours = {} => I!ToProtobuf(id) = meant) /\ EntityKept

(* An ID by its members.                                                                           *)
IdOf(i, c, s, n, k, e, sum) ==
    i = [class |-> c, shard |-> s, num |-> n, key |-> k, evm |-> e, checksum |-> sum]
LEMMA MembersOf ==
    ASSUME NEW i, NEW c, NEW s, NEW n, NEW k, NEW e, NEW sum, IdOf(i, c, s, n, k, e, sum)
    PROVE  /\ IsId(i) /\ i.class = c /\ i.shard = s /\ i.num = n /\ i.key = k /\ i.evm = e
           /\ i.checksum = sum
BY DEF IdOf, IsId

LEMMA OwnMembers ==
    ASSUME NEW i, IsId(i)
    PROVE  IdOf(i, i.class, i.shard, i.num, i.key, i.evm, i.checksum)
BY DEF IdOf, IsId

LEMMA NewMembers ==
    ASSUME NEW c, NEW s, NEW n, NEW sum, NEW k, k = FALSE, NEW e, e = <<>>
    PROVE  IdOf(I!NewId(c, s, n, sum), c, s, n, k, e, sum)
BY Zenon DEF IdOf, I!NewId

(* Changing one member of an ID leaves the others.                                                 *)
LEMMA OneMember ==
    ASSUME NEW i, NEW c, NEW s, NEW n, NEW k, NEW e, NEW sum, IdOf(i, c, s, n, k, e, sum), NEW v
    PROVE  /\ IdOf([i EXCEPT !.key = v], c, s, n, v, e, sum)
           /\ IdOf([i EXCEPT !.evm = v], c, s, n, k, v, sum)
           /\ IdOf([i EXCEPT !.num = v], c, s, v, k, e, sum)
           /\ IdOf([i EXCEPT !.checksum = v], c, s, n, k, e, v)
BY DEF IdOf

(* And so does changing two.                                                                       *)
LEMMA TwoMembers ==
    ASSUME NEW i, NEW c, NEW s, NEW n, NEW k, NEW e, NEW sum, IdOf(i, c, s, n, k, e, sum), NEW v, NEW w
    PROVE  IdOf([i EXCEPT !.key = v, !.evm = w], c, s, n, v, w, sum)
<1>1. [i EXCEPT !.key = v, !.evm = w] = [[i EXCEPT !.key = v] EXCEPT !.evm = w]
  OBVIOUS
<1>. QED
  BY <1>1, OneMember, Zenon

(* The entity an ID names.                                                                         *)
LEMMA NamesNumber ==
    ASSUME NEW i, i.num # I!NoNumber
    PROVE  I!ToProtobuf(i) = <<"number", i.shard, i.num>>
BY DEF I!ToProtobuf
LEMMA NamesKey ==
    ASSUME NEW i, i.num = I!NoNumber, i.key
    PROVE  I!ToProtobuf(i) = <<"key", i.shard>>
BY DEF I!ToProtobuf
LEMMA NamesAddress ==
    ASSUME NEW i, i.num = I!NoNumber, ~i.key, i.evm # <<>>
    PROVE  I!ToProtobuf(i) = <<"number", i.shard, i.evm[2]>>
BY DEF I!ToProtobuf
LEMMA NamesNone ==
    ASSUME NEW i, i.num = I!NoNumber, ~i.key, i.evm = <<>>
    PROVE  I!ToProtobuf(i) = <<"none", i.shard>>
BY DEF I!ToProtobuf

(* Only the IDs that may lack a number have an alias.                                              *)
LEMMA AliasMeansOptional ==
    ASSUME NEW idType \in DOMAIN I!IdTypes, I!IdTypes[idType].key \/ I!IdTypes[idType].evm
    PROVE  I!IdTypes[idType].optional /\ idType # Delegate
<1>1. PICK yes, no : yes = TRUE /\ no = FALSE
  OBVIOUS
<1> DEFINE Is(t, o, k, e) == t.optional = o /\ t.key = k /\ t.evm = e
<1>2. PICK account, contract, delegate, file, token, schedule :
         /\ account = I!AccountId /\ contract = I!ContractId /\ delegate = I!DelegateContractId
         /\ file = I!FileId /\ token = I!TokenId /\ schedule = I!ScheduleId
  OBVIOUS
<1>3. account = [optional |-> yes, key |-> yes, evm |-> yes, fromSolidity |-> yes, toSolidity |-> yes]
  BY <1>1, <1>2, Zenon DEF I!AccountId
<1>4. contract = [account EXCEPT !.key = no]
  BY <1>1, <1>2, Zenon DEF I!ContractId
<1>5. delegate = [contract EXCEPT !.evm = no]
  BY <1>1, <1>2, Zenon DEF I!DelegateContractId
<1>6. file = [delegate EXCEPT !.optional = no]
  BY <1>1, <1>2, Zenon DEF I!FileId
<1>7. token = [file EXCEPT !.toSolidity = no] /\ schedule = [token EXCEPT !.fromSolidity = no]
  BY <1>1, <1>2, Zenon DEF I!TokenId, I!ScheduleId
<1>8. contract = [optional |-> yes, key |-> no, evm |-> yes, fromSolidity |-> yes, toSolidity |-> yes]
  BY ONLY <1>3, <1>4
<1>9. delegate = [optional |-> yes, key |-> no, evm |-> no, fromSolidity |-> yes, toSolidity |-> yes]
  BY ONLY <1>5, <1>8
<1>10. file = [optional |-> no, key |-> no, evm |-> no, fromSolidity |-> yes, toSolidity |-> yes]
  BY ONLY <1>6, <1>9
<1>11. /\ token = [optional |-> no, key |-> no, evm |-> no, fromSolidity |-> yes, toSolidity |-> no]
       /\ schedule = [optional |-> no, key |-> no, evm |-> no, fromSolidity |-> no, toSolidity |-> no]
  BY ONLY <1>7, <1>10
<1>12. /\ Is(account, yes, yes, yes) /\ Is(contract, yes, no, yes) /\ Is(delegate, yes, no, no)
       /\ Is(file, no, no, no) /\ Is(token, no, no, no) /\ Is(schedule, no, no, no)
  BY ONLY <1>3, <1>8, <1>9, <1>10, <1>11
<1>13. I!IdTypes = [AccountId |-> account, ContractId |-> contract, DelegateContractId |-> delegate,
                    FileId |-> file, TopicId |-> file, TokenId |-> token, ScheduleId |-> schedule]
  BY <1>2, Zenon DEF I!IdTypes, I!TopicId
<1>14. PICK t : t = I!IdTypes[idType]
  OBVIOUS
<1>15. t \in {account, contract, delegate, file, token, schedule}
  BY <1>13, <1>14
<1>16. t.optional
  BY <1>1, <1>12, <1>14, <1>15, Zenon
<1>17. idType = Delegate => t = delegate
  BY <1>13, <1>14 DEF Delegate
<1>. QED
  BY <1>1, <1>12, <1>14, <1>16, <1>17, Zenon

(* Numbers, aliases and addresses as an ID.                                                        *)
LEMMA NumberIs ==
    ASSUME NEW c, NEW s, NEW n, NEW sum, sum = {} \/ n # I!NoNumber
    PROVE  /\ IdOK(I!NewId(c, s, n, sum), sum)
           /\ n # I!NoNumber => I!ToProtobuf(I!NewId(c, s, n, sum)) = <<"number", s, n>>
           /\ n = I!NoNumber => I!ToProtobuf(I!NewId(c, s, n, sum)) = <<"none", s>>
<1>1. PICK k, e, i : k = FALSE /\ e = <<>> /\ i = I!NewId(c, s, n, sum)
  OBVIOUS
<1>2. IdOf(i, c, s, n, k, e, sum)
  BY <1>1, NewMembers
<1>3. /\ IsId(i) /\ i.class = c /\ i.shard = s /\ i.num = n /\ i.key = k /\ i.evm = e /\ i.checksum = sum
  BY <1>2, MembersOf
<1>4. IdOK(i, sum)
  BY <1>1, <1>3, Zenon DEF IdOK, OneEntity
<1>5. ~i.key
  BY <1>1, <1>3, Zenon
<1>. QED
  BY <1>1, <1>3, <1>4, <1>5, NamesNumber, NamesNone

LEMMA KeyIs ==
    ASSUME NEW c, NEW s, c # Delegate
    PROVE  /\ IdOK([I!NewId(c, s, I!NoNumber, {}) EXCEPT !.key = TRUE], {})
           /\ I!ToProtobuf([I!NewId(c, s, I!NoNumber, {}) EXCEPT !.key = TRUE]) = <<"key", s>>
<1>1. PICK k, e, n, i, y : k = FALSE /\ e = <<>> /\ n = I!NoNumber /\ i = I!NewId(c, s, n, {}) /\ y = TRUE
  OBVIOUS
<1>2. IdOf(i, c, s, n, k, e, {})
  BY <1>1, NewMembers
<1>3. PICK j : j = [i EXCEPT !.key = y]
  OBVIOUS
<1>4. IdOf(j, c, s, n, y, e, {})
  BY <1>2, <1>3, OneMember
<1>5. /\ IsId(j) /\ j.class = c /\ j.shard = s /\ j.num = n /\ j.key = y /\ j.evm = e /\ j.checksum = {}
  BY <1>4, MembersOf
<1>6. IdOK(j, {})
  BY <1>1, <1>5, Zenon DEF IdOK, OneEntity
<1>7. j.key
  BY <1>1, <1>5, Zenon
<1>8. I!ToProtobuf(j) = <<"key", s>>
  BY <1>1, <1>5, <1>7, NamesKey
<1>. QED
  BY <1>1, <1>3, <1>6, <1>8, Zenon

LEMMA AddressIs ==
    ASSUME NEW c, NEW s, NEW a, a # <<>>, c # Delegate
    PROVE  /\ IdOK([I!NewId(c, s, I!NoNumber, {}) EXCEPT !.evm = a], {})
           /\ I!ToProtobuf([I!NewId(c, s, I!NoNumber, {}) EXCEPT !.evm = a]) = <<"number", s, a[2]>>
<1>1. PICK k, e, n, i : k = FALSE /\ e = <<>> /\ n = I!NoNumber /\ i = I!NewId(c, s, n, {})
  OBVIOUS
<1>2. IdOf(i, c, s, n, k, e, {})
  BY <1>1, NewMembers
<1>3. PICK j : j = [i EXCEPT !.evm = a]
  OBVIOUS
<1>4. IdOf(j, c, s, n, k, a, {})
  BY <1>2, <1>3, OneMember
<1>5. /\ IsId(j) /\ j.class = c /\ j.shard = s /\ j.num = n /\ j.key = k /\ j.evm = a /\ j.checksum = {}
  BY <1>4, MembersOf
<1>6. IdOK(j, {})
  BY <1>1, <1>5, Zenon DEF IdOK, OneEntity
<1>7. ~j.key
  BY <1>1, <1>5, Zenon
<1>8. I!ToProtobuf(j) = <<"number", s, a[2]>>
  BY <1>1, <1>5, <1>7, NamesAddress
<1>. QED
  BY <1>1, <1>3, <1>6, <1>8, Zenon

-----------------------------------------------------------------------------
(* The conversions.  Bytes lose the checksum, and make a number of a delegate without one.         *)
LEMMA RereadIs ==
    ASSUME NEW i, NEW sum, IdOK(i, sum)
    PROVE  /\ IdOK(I!Reread(i), {})
           /\ i.class # Delegate \/ i.num # I!NoNumber => I!ToProtobuf(I!Reread(i)) = I!ToProtobuf(i)
<1>1. PICK c, s, n, k, e, no, new : /\ IdOf(i, c, s, n, k, e, sum) /\ no = FALSE /\ new = I!Reread(i)
                                    /\ c = i.class /\ n = i.num
  BY OwnMembers DEF IdOK
<1>2. /\ IsId(i) /\ i.class = c /\ i.shard = s /\ i.num = n /\ i.key = k /\ i.evm = e
  BY <1>1, MembersOf
<1>3. /\ k \in BOOLEAN /\ (k => n = I!NoNumber /\ e = <<>>) /\ (e # <<>> /\ n # I!NoNumber => e[2] = n)
      /\ c = Delegate => ~k /\ e = <<>>
  BY <1>2, Zenon DEF IdOK, OneEntity
<1>4. PICK only : only = [i EXCEPT !.checksum = {}]
  OBVIOUS
<1>5. IdOf(only, c, s, n, k, e, {})
  BY <1>1, <1>4, OneMember
<1>6. CASE n # I!NoNumber
  <2>1. new = [only EXCEPT !.key = no, !.evm = <<>>]
    BY <1>1, <1>2, <1>4, <1>6, Zenon DEF I!Reread, Delegate
  <2>2. IdOf(new, c, s, n, no, <<>>, {})
    BY <1>5, <2>1, TwoMembers, Zenon
  <2>3. /\ IsId(new) /\ new.class = c /\ new.shard = s /\ new.num = n /\ new.key = no /\ new.evm = <<>> /\ new.checksum = {}
    BY <2>2, MembersOf
  <2>4. IdOK(new, {})
    BY <1>1, <1>6, <2>3, Zenon DEF IdOK, OneEntity
  <2>5. I!ToProtobuf(new) = I!ToProtobuf(i)
    BY <1>2, <1>6, <2>3, NamesNumber
  <2>. QED
    BY <1>1, <2>4, <2>5
<1>7. CASE n = I!NoNumber /\ c = Delegate
  <2>0. i.num = I!NoNumber /\ i.class = Delegate /\ ~i.key
    BY <1>2, <1>3, <1>7
  <2>1. new = [only EXCEPT !.num = 0]
    BY <1>1, <1>4, <2>0, Zenon DEF I!Reread, Delegate
  <2>2. IdOf(new, c, s, 0, k, e, {})
    BY <1>5, <2>1, OneMember
  <2>3. /\ IsId(new) /\ new.class = c /\ new.shard = s /\ new.num = 0 /\ new.key = k /\ new.evm = e /\ new.checksum = {}
    BY <2>2, MembersOf
  <2>4. IdOK(new, {})
    BY <1>3, <1>7, <2>3, Zenon DEF IdOK, OneEntity
  <2>. QED
    BY <1>1, <1>7, <2>4
<1>8. CASE n = I!NoNumber /\ c # Delegate /\ k
  <2>0. i.num = I!NoNumber /\ i.class # Delegate /\ i.key
    BY <1>2, <1>8, Zenon
  <2>1. new = [only EXCEPT !.evm = <<>>]
    BY <1>1, <1>4, <2>0 DEF I!Reread, Delegate
  <2>2. IdOf(new, c, s, n, k, <<>>, {})
    BY <1>5, <2>1, OneMember
  <2>3. /\ IsId(new) /\ new.class = c /\ new.shard = s /\ new.num = n /\ new.key = k /\ new.evm = <<>> /\ new.checksum = {}
    BY <2>2, MembersOf
  <2>4. IdOK(new, {})
    BY <1>3, <1>8, <2>3, Zenon DEF IdOK, OneEntity
  <2>5. i.key /\ new.key
    BY <1>2, <1>8, <2>3, Zenon
  <2>6. I!ToProtobuf(new) = I!ToProtobuf(i)
    BY <1>2, <1>8, <2>3, <2>5, NamesKey
  <2>. QED
    BY <1>1, <2>4, <2>6
<1>9. CASE n = I!NoNumber /\ c # Delegate /\ ~k
  <2>1. new = only
    BY <1>1, <1>2, <1>4, <1>9, Zenon DEF I!Reread, Delegate
  <2>2. /\ IsId(new) /\ new.class = c /\ new.shard = s /\ new.num = n /\ new.key = k /\ new.evm = e /\ new.checksum = {}
    BY <1>5, <2>1, MembersOf
  <2>3. IdOK(new, {})
    BY <1>3, <1>9, <2>2, Zenon DEF IdOK, OneEntity
  <2>4. ~i.key /\ ~new.key
    BY <1>2, <1>9, <2>2, Zenon
  <2>5. I!ToProtobuf(new) = I!ToProtobuf(i)
    BY <1>2, <1>9, <2>2, <2>4, NamesAddress, NamesNone
  <2>. QED
    BY <1>1, <2>3, <2>5
<1>. QED
  BY <1>6, <1>7, <1>8, <1>9

(* Text.  A number is read as that number, an alias as that alias, unless it looks like a number.  *)
LEMMA TextIs ==
    ASSUME NEW i, NEW sum, IdOK(i, sum)
    PROVE  LET text == I!ToText(i)
               new == I!FromText(i.class, text, {})
           IN  /\ IdOK(new, {})
               /\ \/ text.form = "number" /\ i.num = I!NoNumber
                  \/ text.form = "hex" /\ I!LooksDecimal(text.value)
                  \/ I!ToProtobuf(new) = I!ToProtobuf(i)
<1>1. PICK text, new, c : text = I!ToText(i) /\ new = I!FromText(c, text, {}) /\ c = i.class
  OBVIOUS
<1>2. /\ i.key \in BOOLEAN /\ (i.key => i.num = I!NoNumber /\ i.evm = <<>>)
      /\ i.evm # <<>> /\ i.num # I!NoNumber => i.evm[2] = i.num
      /\ c = Delegate => ~i.key /\ i.evm = <<>>
  BY <1>1, Zenon DEF IdOK, OneEntity
<1>3. CASE i.key
  <2>1. text = [form |-> "key", shard |-> i.shard]
    BY <1>1, <1>3 DEF I!ToText
  <2>2. text.form = "key" /\ text.shard = i.shard
    BY <2>1
  <2>3. PICK t, s : t = text /\ s = i.shard /\ new = [I!NewId(c, s, I!NoNumber, {}) EXCEPT !.key = TRUE]
    BY <1>1, <2>2 DEF I!FromText
  <2>4. c # Delegate
    BY <1>2, <1>3
  <2>5. IdOK(new, {}) /\ I!ToProtobuf(new) = <<"key", s>>
    BY <2>3, <2>4, KeyIs, Zenon DEF Delegate
  <2>6. I!ToProtobuf(i) = <<"key", s>>
    BY <1>2, <1>3, <2>3, NamesKey
  <2>. QED
    BY <1>1, <2>5, <2>6
<1>4. CASE ~i.key /\ i.evm # <<>> /\ (i.class = "AccountId" \/ i.num = I!NoNumber)
  <2>1. text = [form |-> "hex", shard |-> i.shard, value |-> i.evm]
    BY <1>1, <1>4 DEF I!ToText
  <2>2. text.form = "hex" /\ text.shard = i.shard /\ text.value = i.evm
    BY <2>1
  <2>3. c # Delegate
    BY <1>2, <1>4
  <2>4. CASE I!LooksDecimal(text.value)
    <3>1. new = I!NewId(c, text.shard, I!Decimal(text.value[2]), {})
      BY <1>1, <2>2, <2>4 DEF I!FromText
    <3>2. IdOK(new, {})
      BY <3>1, NumberIs
    <3>. QED
      BY <1>1, <2>2, <2>4, <3>2
  <2>5. CASE ~I!LooksDecimal(text.value)
    <3>1. PICK a, s : a = i.evm /\ s = i.shard /\ new = [I!NewId(c, s, I!NoNumber, {}) EXCEPT !.evm = a]
      BY <1>1, <2>2, <2>5 DEF I!FromText
    <3>2. a # <<>>
      BY <1>4, <3>1
    <3>3. PICK hex : hex = [I!NewId(c, s, I!NoNumber, {}) EXCEPT !.evm = a]
      OBVIOUS
    <3>4. IdOK(hex, {}) /\ I!ToProtobuf(hex) = <<"number", s, a[2]>>
      BY ONLY <2>3, <3>2, <3>3, AddressIs
    <3>5. new = hex
      BY ONLY <3>1, <3>3
    <3>6. I!ToProtobuf(i) = <<"number", s, a[2]>>
      BY <1>2, <1>4, <3>1, NamesNumber, NamesAddress
    <3>. QED
      BY <1>1, <3>4, <3>5, <3>6
  <2>. QED
    BY <2>4, <2>5
<1>5. CASE ~i.key /\ ~(i.evm # <<>> /\ (i.class = "AccountId" \/ i.num = I!NoNumber))
  <2>1. PICK n : n = IF i.num = I!NoNumber THEN 0 ELSE i.num
    OBVIOUS
  <2>2. text = [form |-> "number", shard |-> i.shard, value |-> n]
    BY <1>1, <1>5, <2>1, Zenon DEF I!ToText
  <2>3. text.form = "number" /\ text.shard = i.shard /\ text.value = n
    BY <2>2
  <2>4. new = I!NewId(c, i.shard, n, {})
    BY <1>1, <2>3 DEF I!FromText
  <2>5. IdOK(new, {}) /\ (n # I!NoNumber => I!ToProtobuf(new) = <<"number", i.shard, n>>)
    BY <2>4, NumberIs
  <2>6. i.num # I!NoNumber => I!ToProtobuf(new) = I!ToProtobuf(i)
    BY <2>1, <2>5, NamesNumber
  <2>. QED
    BY <1>1, <2>3, <2>5, <2>6
<1>. QED
  BY <1>3, <1>4, <1>5

(* Solidity addresses.  The one of an alias is read as that alias.                                 *)
LEMMA SolidityIs ==
    ASSUME NEW i, NEW sum, IdOK(i, sum)
    PROVE  LET address == I!ToSolidityAddress(i)
               new == I!FromSolidityAddress(i.class, address)
           IN  /\ IdOK(new, {})
               /\ I!IdTypes[i.class].evm /\ i.evm # <<>> /\ address[1] # 0 /\ i.shard = 0
                      => I!ToProtobuf(new) = I!ToProtobuf(i)
<1>1. PICK a, new, c : a = I!ToSolidityAddress(i) /\ new = I!FromSolidityAddress(c, a) /\ c = i.class
  OBVIOUS
<1>2. a # <<>>
  BY <1>1 DEF I!ToSolidityAddress
<1>3. CASE I!IdTypes[c].evm /\ a[1] # 0
  <2>1. c # Delegate
    BY <1>3, AliasMeansOptional DEF Delegate, I!IdTypes
  <2>2. new = [I!NewId(c, 0, I!NoNumber, {}) EXCEPT !.evm = a]
    BY <1>1, <1>3, Zenon DEF I!FromSolidityAddress
  <2>3. IdOK(new, {}) /\ I!ToProtobuf(new) = <<"number", 0, a[2]>>
    BY <1>2, <2>1, <2>2, AddressIs, Zenon
  <2>4. ASSUME i.evm # <<>>, i.shard = 0 PROVE I!ToProtobuf(i) = <<"number", 0, a[2]>>
    <3>1. a = i.evm
      BY <1>1, <2>4 DEF I!ToSolidityAddress
    <3>2. ~i.key /\ (i.num # I!NoNumber => a[2] = i.num)
      BY <2>4, <3>1, Zenon DEF IdOK, OneEntity
    <3>. QED
      BY <2>4, <3>1, <3>2, NamesNumber, NamesAddress
  <2>. QED
    BY <1>1, <2>3, <2>4
<1>4. CASE ~(I!IdTypes[c].evm /\ a[1] # 0)
  <2>1. new = I!NewId(c, I!Swapped(a[1]), I!Swapped(a[2]), {})
    BY <1>1, <1>4, Zenon DEF I!FromSolidityAddress
  <2>2. IdOK(new, {})
    BY <2>1, NumberIs
  <2>. QED
    BY <1>1, <1>4, <2>2
<1>. QED
  BY <1>3, <1>4

-----------------------------------------------------------------------------
(* A new ID.                                                                                       *)
LEMMA IdInit == ASSUME I!IdsInit PROVE IdInv
<1>1. detours = {} /\ sentTo = <<>>
  BY DEF I!IdsInit
<1>2. PICK c \in DOMAIN I!IdTypes, s \in {0, 1} :
        LET t == I!IdTypes[c]
            none == I!NewId(c, s, IF t.optional THEN I!NoNumber ELSE 0, {})
        IN  \/ \E num \in I!Numbers, checksum \in {{}} \cup {{l} : l \in Ledgers} :
                  id = I!FromText(c, [form |-> "number", shard |-> s, value |-> num], checksum)
                  /\ typed = checksum /\ meant = <<"number", s, num>>
            \/ id = none /\ typed = {} /\ meant = I!ToProtobuf(none)
            \/ t.key /\ id = [none EXCEPT !.key = TRUE] /\ typed = {} /\ meant = <<"key", s>>
            \/ \E low \in I!Numbers, high \in {0, 1} :
                  /\ t.evm /\ id = [none EXCEPT !.evm = <<high, low>>]
                  /\ typed = {} /\ meant = <<"number", s, low>>
  BY Zenon DEF I!IdsInit
<1> DEFINE Right == IdOK(id, typed) /\ I!ToProtobuf(id) = meant
<1>3. ASSUME NEW num \in I!Numbers, NEW text, text = [form |-> "number", shard |-> s, value |-> num],
             id = I!FromText(c, text, typed), meant = <<"number", s, num>>
      PROVE  Right
  <2>1. text.form = "number" /\ text.shard = s /\ text.value = num
    BY <1>3
  <2>2. id = I!NewId(c, s, num, typed)
    BY <1>3, <2>1 DEF I!FromText
  <2>3. num # I!NoNumber
    BY IdAssumption DEF I!Numbers, I!NoNumber
  <2>. QED
    BY <1>3, <2>2, <2>3, NumberIs
<1>4. ASSUME NEW n, id = I!NewId(c, s, n, {}), typed = {}, meant = I!ToProtobuf(id)
      PROVE  Right
  BY <1>4, NumberIs
<1>5. ASSUME I!IdTypes[c].key, id = [I!NewId(c, s, I!NoNumber, {}) EXCEPT !.key = TRUE], typed = {},
             meant = <<"key", s>>
      PROVE  Right
  <2>1. c # Delegate
    BY <1>5, AliasMeansOptional
  <2>. QED
    BY <1>5, <2>1, KeyIs, Zenon
<1>6. ASSUME I!IdTypes[c].evm, NEW low, NEW high, id = [I!NewId(c, s, I!NoNumber, {}) EXCEPT !.evm = <<high, low>>],
             typed = {}, meant = <<"number", s, low>>
      PROVE  Right
  <2>1. PICK a : a = <<high, low>>
    OBVIOUS
  <2>2. a # <<>> /\ a[2] = low
    BY <2>1
  <2>3. c # Delegate
    BY <1>6, AliasMeansOptional
  <2>4. id = [I!NewId(c, s, I!NoNumber, {}) EXCEPT !.evm = a]
    BY <1>6, <2>1, Zenon
  <2>5. IdOK(id, {}) /\ I!ToProtobuf(id) = <<"number", s, a[2]>>
    BY <2>2, <2>3, <2>4, AddressIs, Zenon
  <2>. QED
    BY <1>6, <2>2, <2>5
<1>7. I!IdTypes[c].key \/ I!IdTypes[c].evm => I!IdTypes[c].optional
  BY AliasMeansOptional
<1>8. Right
  BY <1>2, <1>3, <1>4, <1>5, <1>6, <1>7, Zenon
<1>. QED
  BY <1>1, <1>8 DEF IdInv, EntityKept, I!EntityKept

(* What a conversion replaces the ID by is right, or the detour is noted.                          *)
LEMMA BecomesRight ==
    ASSUME IdInv, NEW new, NEW detour, I!Becomes(new, detour), NEW sum, typed' = sum, IdOK(new, sum),
           detour = {} => I!ToProtobuf(new) = I!ToProtobuf(id)
    PROVE  IdInv'
<1>1. /\ id' = new /\ detours' = detours \cup detour /\ meant' = meant /\ sentTo' = sentTo
  BY DEF I!Becomes
<1>2. IdOK(id', typed')
  BY <1>1, Zenon
<1>3. detours' = {} => I!ToProtobuf(id') = meant'
  BY <1>1 DEF IdInv
<1>4. EntityKept'
  BY <1>1 DEF IdInv, EntityKept, I!EntityKept
<1>. QED
  BY <1>2, <1>3, <1>4 DEF IdInv

LEMMA IdStep == ASSUME IdInv, I!IdsNext PROVE IdInv'
<1>1. IdOK(id, typed)
  BY DEF IdInv
<1>2. CASE I!ThroughBytes
  <2>1. PICK new, detour :
          /\ new = I!Reread(id) /\ I!Becomes(new, detour) /\ typed' = {}
          /\ detour = IF id.class = Delegate /\ id.num = I!NoNumber THEN {"unset"} ELSE {}
    BY <1>2, Zenon DEF I!ThroughBytes, Delegate
  <2>2. detour = {} => id.class # Delegate \/ id.num # I!NoNumber
    BY <2>1
  <2>3. IdOK(new, {}) /\ (detour = {} => I!ToProtobuf(new) = I!ToProtobuf(id))
    BY <1>1, <2>1, <2>2, RereadIs, Zenon
  <2>. QED
    BY <2>1, <2>3, BecomesRight
<1>3. CASE I!ThroughText
  <2>1. PICK text, new, detour :
          /\ text = I!ToText(id) /\ new = I!FromText(id.class, text, {})
          /\ I!Becomes(new, detour) /\ typed' = {}
          /\ detour = CASE text.form = "number" /\ id.num = I!NoNumber -> {"unset"}
                        [] text.form = "hex" /\ I!LooksDecimal(text.value) -> {"decimal"}
                        [] OTHER -> {}
    BY <1>3, Zenon DEF I!ThroughText
  <2>2. detour = {} => /\ ~(text.form = "number" /\ id.num = I!NoNumber)
                       /\ ~(text.form = "hex" /\ I!LooksDecimal(text.value))
    BY <2>1
  <2>3. IdOK(new, {}) /\ (detour = {} => I!ToProtobuf(new) = I!ToProtobuf(id))
    BY <1>1, <2>1, <2>2, TextIs, Zenon
  <2>. QED
    BY <2>1, <2>3, BecomesRight
<1>4. CASE I!ThroughSolidityAddress
  <2>1. PICK a, new, detour :
          /\ a = I!ToSolidityAddress(id) /\ new = I!FromSolidityAddress(id.class, a)
          /\ I!Becomes(new, detour) /\ typed' = {}
          /\ detour = IF I!IdTypes[id.class].evm /\ id.evm # <<>> /\ a[1] # 0 /\ id.shard = 0
                      THEN {} ELSE {"solidity"}
    BY <1>4, Zenon DEF I!ThroughSolidityAddress
  <2>2. detour = {} => I!IdTypes[id.class].evm /\ id.evm # <<>> /\ a[1] # 0 /\ id.shard = 0
    BY <2>1
  <2>3. IdOK(new, {}) /\ (detour = {} => I!ToProtobuf(new) = I!ToProtobuf(id))
    BY <1>1, <2>1, <2>2, SolidityIs, Zenon
  <2>. QED
    BY <2>1, <2>3, BecomesRight
<1>5. CASE I!PopulateAccountEvmAddress
  <2>1. PICK a, high, new : /\ a = <<high, id.num>> /\ new = [id EXCEPT !.evm = a] /\ I!Becomes(new, {})
    BY <1>5, Zenon DEF I!PopulateAccountEvmAddress
  <2>2. id.class = "AccountId" /\ id.num # I!NoNumber /\ typed' = typed /\ a[2] = id.num
    BY <1>5, <2>1 DEF I!PopulateAccountEvmAddress
  <2>3. PICK c, s, n, k, e : IdOf(id, c, s, n, k, e, typed) /\ c = id.class /\ n = id.num /\ s = id.shard /\ k = id.key
    BY <1>1, OwnMembers DEF IdOK
  <2>4. /\ IsId(new) /\ new.class = c /\ new.shard = s /\ new.num = n /\ new.key = k /\ new.evm = a
        /\ new.checksum = typed
    <3>1. IdOf(new, c, s, n, k, a, typed)
      BY <2>1, <2>3, OneMember, Zenon
    <3>. QED
      BY <3>1, MembersOf
  <2>5. c # Delegate
    BY <2>2, <2>3 DEF Delegate
  <2>6. IdOK(new, typed)
    BY <1>1, <2>2, <2>3, <2>4, <2>5, Zenon DEF IdOK, OneEntity
  <2>7. I!ToProtobuf(new) = I!ToProtobuf(id)
    BY <2>2, <2>3, <2>4, NamesNumber
  <2>. QED
    BY <2>1, <2>2, <2>6, <2>7, BecomesRight
<1>6. ASSUME NEW ledger, I!WithChecksum(ledger) PROVE IdInv'
  <2>1. PICK sum, new : /\ sum = IF typed = {} THEN {ledger} ELSE typed
                        /\ new = [id EXCEPT !.checksum = sum]
    OBVIOUS
  <2>2. id.num # I!NoNumber /\ typed' = sum /\ I!Becomes(new, {})
    BY <1>1, <1>6, <2>1, Zenon DEF I!WithChecksum, IdOK
  <2>3. PICK c, s, n, k, e : IdOf(id, c, s, n, k, e, typed) /\ c = id.class /\ n = id.num /\ s = id.shard
                             /\ k = id.key /\ e = id.evm
    BY <1>1, OwnMembers DEF IdOK
  <2>4. /\ IsId(new) /\ new.class = c /\ new.shard = s /\ new.num = n /\ new.key = k /\ new.evm = e
        /\ new.checksum = sum
    <3>1. IdOf(new, c, s, n, k, e, sum)
      BY <2>1, <2>3, OneMember, Zenon
    <3>. QED
      BY <3>1, MembersOf
  <2>5. IdOK(new, sum)
    BY <1>1, <2>2, <2>3, <2>4, Zenon DEF IdOK, OneEntity
  <2>6. I!ToProtobuf(new) = I!ToProtobuf(id)
    BY <2>2, <2>3, <2>4, NamesNumber
  <2>. QED
    BY <2>2, <2>5, <2>6, BecomesRight
<1>7. ASSUME NEW ledger, NEW validating, I!SendTo(ledger, validating) PROVE IdInv'
  <2>1. PICK sent : /\ sent = [entity |-> I!ToProtobuf(id), ledger |-> ledger, validating |-> validating, typed |-> typed]
                    /\ sentTo' = <<sent>>
    BY <1>7, Zenon DEF I!SendTo
  <2>2. /\ sent.entity = I!ToProtobuf(id) /\ sent.ledger = ledger /\ sent.validating = validating /\ sent.typed = typed
    BY <2>1
  <2>3. sentTo'[1] = sent
    BY <2>1
  <2>4. id' = id /\ meant' = meant /\ typed' = typed /\ detours' = detours
    BY <1>7 DEF I!SendTo
  <2>5. validating /\ typed # {} => ledger \in typed
    <3>1. validating /\ typed # {} => id.checksum = {ledger}
      BY <1>1, <1>7, Zenon DEF I!SendTo, I!ValidateChecksum, IdOK
    <3>. QED
      BY <1>1, <3>1 DEF IdOK
  <2>6. EntityKept'
    BY <2>2, <2>3, <2>4, <2>5, Zenon DEF IdInv, EntityKept, I!EntityKept
  <2>. QED
    BY <2>4, <2>6, Zenon DEF IdInv
<1>. QED
  BY <1>2, <1>3, <1>4, <1>5, <1>6, <1>7, Zenon DEF I!IdsNext

(* However an ID was converted, what is sent names the entity it was made for, or the detour it    *)
(* took is a known one, and with the validation of checksums on it is sent to the ledger it was    *)
(* typed for (AccountId.cc and the other classes: fromString, toProtobuf, fromProtobuf,            *)
(* validateChecksum).                                                                              *)
THEOREM IdsNameTheirEntity == MCSpec => []EntityKept
<1>1. MCInit => IdInv
  BY IdInit, Zenon DEF MCInit, OtherId
<1>2. IdInv /\ [MCNext]_<<part, vars, answerParts, idParts>> => IdInv'
  <2> SUFFICES ASSUME IdInv, [MCNext]_<<part, vars, answerParts, idParts>> PROVE IdInv'
    OBVIOUS
  <2>1. CASE I!IdsNext
    BY <2>1, IdStep
  <2>2. CASE UNCHANGED idParts
    BY <2>2 DEF IdInv, idParts, EntityKept, I!EntityKept
  <2>. QED
    BY <2>1, <2>2, Zenon DEF MCNext
<1>3. IdInv => EntityKept
  BY DEF IdInv
<1>. QED
  BY <1>1, <1>2, <1>3, PTL DEF MCSpec

-----------------------------------------------------------------------------
(* Queries.  What the table says of every class: there is a service for it, a record query does    *)
(* not send two members, and a local call does not look at one ID.                                 *)
QueryRow(q, t) ==
    /\ t.case \in A!AnsweredCases /\ t.reply \in A!ResponseClasses
    /\ \A f \in t.unwritten : q = "TransactionRecordQuery" /\ f \in {"mIncludeChildren", "mIncludeDuplicates"}
    /\ t.unvalidated \subseteq {"mSenderAccountId"}

LEMMA QueryFacts ==
    ASSUME NEW q \in A!QueryClasses
    PROVE  QueryRow(q, A!Queries[q])
<1>1. /\ QueryRow("AccountBalanceQuery", A!AccountBalanceQuery)
      /\ QueryRow("AccountInfoQuery", A!AccountInfoQuery)
      /\ QueryRow("AccountRecordsQuery", A!AccountRecordsQuery)
      /\ QueryRow("AccountStakersQuery", A!AccountStakersQuery)
  BY DEF QueryRow, A!AnsweredCases, A!ResponseClasses, A!Responses, A!Asked,
         A!AccountBalanceQuery, A!AccountInfoQuery, A!AccountRecordsQuery,
         A!AccountStakersQuery
<1>2. /\ QueryRow("ContractByteCodeQuery", A!ContractByteCodeQuery)
      /\ QueryRow("ContractCallQuery", A!ContractCallQuery)
      /\ QueryRow("ContractInfoQuery", A!ContractInfoQuery)
      /\ QueryRow("FileContentsQuery", A!FileContentsQuery)
  BY DEF QueryRow, A!AnsweredCases, A!ResponseClasses, A!Responses, A!Asked,
         A!ContractByteCodeQuery, A!ContractCallQuery, A!ContractInfoQuery,
         A!FileContentsQuery
<1>3. /\ QueryRow("FileInfoQuery", A!FileInfoQuery)
      /\ QueryRow("NetworkVersionInfoQuery", A!NetworkVersionInfoQuery)
      /\ QueryRow("ScheduleInfoQuery", A!ScheduleInfoQuery)
      /\ QueryRow("TokenInfoQuery", A!TokenInfoQuery)
  BY DEF QueryRow, A!AnsweredCases, A!ResponseClasses, A!Responses, A!Asked,
         A!FileInfoQuery, A!NetworkVersionInfoQuery, A!ScheduleInfoQuery,
         A!TokenInfoQuery
<1>4. /\ QueryRow("TokenNftInfoQuery", A!TokenNftInfoQuery)
      /\ QueryRow("TopicInfoQuery", A!TopicInfoQuery)
      /\ QueryRow("TransactionReceiptQuery", A!TransactionReceiptQuery)
      /\ QueryRow("TransactionRecordQuery", A!TransactionRecordQuery)
  BY DEF QueryRow, A!AnsweredCases, A!ResponseClasses, A!Responses, A!Asked,
         A!TokenNftInfoQuery, A!TopicInfoQuery, A!TransactionReceiptQuery,
         A!TransactionRecordQuery
<1>. QED
  BY <1>1, <1>2, <1>3, <1>4 DEF A!QueryClasses, A!Queries

-----------------------------------------------------------------------------
(* A query has the members of its class, as they were set; until it is sent they change together;  *)
(* and its request is what buildRequest made of them, of IDs that were looked at.                  *)
ForeignOnlyInIds == \A f \in A!QueryFields(query) : fields[f] = "Foreign" => f \in A!Queries[query].ids
AskedRight ==
    /\ request[1].sent = A!BuildRequest(query, fields)
    /\ request[1].validating =>
          \A f \in A!Queries[query].ids : fields[f] = "Foreign" => f \in A!Queries[query].unvalidated
AskedInv ==
    /\ query # "none" =>
          /\ query \in A!QueryClasses
          /\ fields = requested /\ DOMAIN fields = A!QueryFields(query)
          /\ ForeignOnlyInIds
    /\ request # <<>> => query # "none" /\ AskedRight

LEMMA AskedInit == ASSUME A!AnswersInit PROVE AskedInv
<1>1. request = <<>>
  BY DEF A!AnswersInit
<1>2. ASSUME query # "none"
      PROVE  query \in A!QueryClasses /\ fields = A!NewQuery(query) /\ fields = requested
  BY <1>2, Zenon DEF A!AnswersInit
<1>3. ASSUME fields = A!NewQuery(query)
      PROVE  DOMAIN fields = A!QueryFields(query) /\ ForeignOnlyInIds
  BY <1>3 DEF A!NewQuery, ForeignOnlyInIds
<1>. QED
  BY <1>1, <1>2, <1>3, Zenon DEF AskedInv

(* What does not touch the query or its request.                                                   *)
LEMMA Unasked ==
    ASSUME AskedInv, UNCHANGED <<query, fields, requested, request>>
    PROVE  AskedInv'
BY DEF AskedInv, AskedRight, ForeignOnlyInIds

LEMMA AskedStep == ASSUME AskedInv, A!AnswersNext PROVE AskedInv'
<1>1. CASE A!SetMember
  <2>1. PICK f \in A!QueryFields(query), v \in {"Empty", "Given", "Foreign"} :
          LET reset(g) == \E a \in A!Queries[query].alternatives : {f, g} \subseteq a
              assigned(fs) == [g \in DOMAIN fs |-> IF g = f THEN v ELSE IF reset(g) THEN "None" ELSE fs[g]]
          IN  /\ v = "Foreign" => f \in A!Queries[query].ids
              /\ fields' = assigned(fields) /\ requested' = assigned(requested)
    BY <1>1, Zenon DEF A!SetMember
  <2>2. query # "none" /\ query' = query /\ request' = request /\ request = <<>>
    BY <1>1 DEF A!SetMember
  <2>3. /\ query \in A!QueryClasses /\ fields = requested /\ DOMAIN fields = A!QueryFields(query)
        /\ ForeignOnlyInIds
    BY <2>2 DEF AskedInv
  <2>4. DOMAIN fields' = A!QueryFields(query) /\ fields' = requested'
    BY <2>1, <2>3, Zenon
  <2>5. \A g \in A!QueryFields(query) : fields'[g] = "Foreign" => g \in A!Queries[query].ids
    BY <2>1, <2>3 DEF ForeignOnlyInIds
  <2>. QED
    BY <2>2, <2>3, <2>4, <2>5, Zenon DEF AskedInv, ForeignOnlyInIds
<1>2. ASSUME NEW validating, A!Ask(validating) PROVE AskedInv'
  <2>1. CASE UNCHANGED answerParts
    BY <2>1, Unasked DEF answerParts
  <2>2. CASE ~UNCHANGED answerParts
    <3>1. PICK asking : /\ asking = [sent |-> A!BuildRequest(query, fields), validating |-> validating]
                        /\ request' = <<asking>>
      BY <1>2, <2>2, Zenon DEF A!Ask, A!answerVars, answerParts
    <3>2. /\ query # "none" /\ query' = query /\ fields' = fields /\ requested' = requested
          /\ ~(validating /\ \E f \in A!Queries[query].ids \ A!Queries[query].unvalidated : fields[f] = "Foreign")
      BY <1>2, <2>2, Zenon DEF A!Ask, A!answerVars, answerParts
    <3>3. asking.sent = A!BuildRequest(query, fields) /\ asking.validating = validating /\ request'[1] = asking
      BY <3>1
    <3>4. AskedRight'
      BY <3>2, <3>3, Zenon DEF AskedRight
    <3>. QED
      BY <3>2, <3>4, Zenon DEF AskedInv, ForeignOnlyInIds
  <2>. QED
    BY <2>1, <2>2
<1>3. CASE A!MapResponse \/ A!KeepInBytes
  BY <1>3, Unasked DEF A!MapResponse, A!KeepInBytes, A!answerVars
<1>. QED
  BY <1>1, <1>2, <1>3, Zenon DEF A!AnswersNext

(* What an application sets in a query is what is sent, of every class and member, whatever was    *)
(* set before, and with the validation of checksums on no ID of another ledger is (buildRequest    *)
(* and validateChecksums of the sixteen classes).                                                  *)
THEOREM QueriesAskAsSet == MCSpec => []AskedAsSet
<1>1. MCInit => AskedInv
  BY AskedInit, Zenon DEF MCInit, OtherAnswer
<1>2. AskedInv /\ [MCNext]_<<part, vars, answerParts, idParts>> => AskedInv'
  <2> SUFFICES ASSUME AskedInv, [MCNext]_<<part, vars, answerParts, idParts>> PROVE AskedInv'
    OBVIOUS
  <2>1. CASE A!AnswersNext
    BY <2>1, AskedStep
  <2>2. CASE UNCHANGED answerParts
    BY <2>2, Unasked DEF answerParts
  <2>. QED
    BY <2>1, <2>2, Zenon DEF MCNext
<1>3. AskedInv => AskedAsSet
  <2> SUFFICES ASSUME AskedInv PROVE AskedAsSet
    OBVIOUS
  <2>1. query # "none" => A!Queries[query].case \in A!AnsweredCases
    BY QueryFacts DEF AskedInv, QueryRow
  <2>2. ASSUME request # <<>>, NEW f \in A!QueryFields(query),
               ~(query = "TransactionRecordQuery" /\ f \in {"mIncludeChildren", "mIncludeDuplicates"})
        PROVE  /\ request[1].sent[f] = IF requested[f] = "Foreign" THEN "Given" ELSE requested[f]
               /\ request[1].validating /\ requested[f] = "Foreign" => f = "mSenderAccountId"
    <3>1. /\ query \in A!QueryClasses /\ fields = requested /\ ForeignOnlyInIds /\ AskedRight
      BY <2>2 DEF AskedInv
    <3>2. PICK t : t = A!Queries[query]
      OBVIOUS
    <3>3. f \notin t.unwritten
      BY <2>2, <3>1, <3>2, QueryFacts DEF QueryRow
    <3>4. A!BuildRequest(query, fields)[f] = A!SentMember(query, fields, f)
      BY DEF A!BuildRequest
    <3>5. request[1].sent[f] = IF requested[f] = "Foreign" THEN "Given" ELSE requested[f]
      BY <3>1, <3>2, <3>3, <3>4, Zenon DEF AskedRight, A!SentMember
    <3>6. t.unvalidated \subseteq {"mSenderAccountId"}
      BY <3>1, <3>2, QueryFacts DEF QueryRow
    <3>7. request[1].validating /\ requested[f] = "Foreign" => f \in t.unvalidated
      BY <3>1, <3>2, Zenon DEF AskedRight, ForeignOnlyInIds
    <3>. QED
      BY <3>5, <3>6, <3>7
  <2>. QED
    BY <2>1, <2>2, Zenon DEF AskedAsSet, A!AskedAsSet
<1>. QED
  BY <1>1, <1>2, <1>3, PTL DEF MCSpec

-----------------------------------------------------------------------------
(* Transactions.  What the table says of every class: no other stands for the same member of a     *)
(* body, the members that are not looked at are the known ones, lists of transfers are among those *)
(* that hold IDs, and no optional that a plain field stands for is left out if it is the default.  *)
ListsIn(kind) ==
    CASE kind = "Transfer" -> {"mHbarTransfers", "mTokenTransfers", "mNftTransfers"}
      [] kind = "TokenAirdrop" -> {"mTokenTransfers", "mNftTransfers"}
      [] OTHER -> {}
ClassWith ==
    [kCryptoApproveAllowance |-> "AccountAllowanceApprove", kCryptoDeleteAllowance |-> "AccountAllowanceDelete",
     kCryptoCreateAccount |-> "AccountCreate", kCryptoDelete |-> "AccountDelete",
     kCryptoUpdateAccount |-> "AccountUpdate", kContractCreateInstance |-> "ContractCreate",
     kContractDeleteInstance |-> "ContractDelete", kContractCall |-> "ContractExecute",
     kContractUpdateInstance |-> "ContractUpdate", kEthereumTransaction |-> "Ethereum",
     kFileAppend |-> "FileAppend", kFileCreate |-> "FileCreate",
     kFileDelete |-> "FileDelete", kFileUpdate |-> "FileUpdate",
     kFreeze |-> "Freeze", kNodeCreate |-> "NodeCreate",
     kNodeDelete |-> "NodeDelete", kNodeUpdate |-> "NodeUpdate",
     kUtilPrng |-> "Prng", kScheduleCreate |-> "ScheduleCreate",
     kScheduleDelete |-> "ScheduleDelete", kScheduleSign |-> "ScheduleSign",
     kSystemDelete |-> "SystemDelete", kSystemUndelete |-> "SystemUndelete",
     kTokenAirdrop |-> "TokenAirdrop", kTokenAssociate |-> "TokenAssociate",
     kTokenBurn |-> "TokenBurn", kTokenCancelAirdrop |-> "TokenCancelAirdrop",
     kTokenClaimAirdrop |-> "TokenClaimAirdrop", kTokenCreation |-> "TokenCreate",
     kTokenDeletion |-> "TokenDelete", kTokenDissociate |-> "TokenDissociate",
     kTokenFeeScheduleUpdate |-> "TokenFeeScheduleUpdate", kTokenFreeze |-> "TokenFreeze",
     kTokenGrantKyc |-> "TokenGrantKyc", kTokenMint |-> "TokenMint",
     kTokenPause |-> "TokenPause", kTokenReject |-> "TokenReject",
     kTokenRevokeKyc |-> "TokenRevokeKyc", kTokenUnfreeze |-> "TokenUnfreeze",
     kTokenUnpause |-> "TokenUnpause", kTokenUpdateNfts |-> "TokenUpdateNfts",
     kTokenUpdate |-> "TokenUpdate", kTokenWipe |-> "TokenWipe",
     kConsensusCreateTopic |-> "TopicCreate", kConsensusDeleteTopic |-> "TopicDelete",
     kConsensusSubmitMessage |-> "TopicMessageSubmit", kConsensusUpdateTopic |-> "TopicUpdate",
     kCryptoTransfer |-> "Transfer"]
Row(kind, t) ==
    /\ ClassWith[t.case] = kind
    /\ t.unvalidated \subseteq NeverValidated(kind)
    /\ ListsIn(kind) \subseteq t.ids
    /\ t.unlessDefault \cap t.scalar = {}

LEMMA TypeFacts ==
    ASSUME NEW kind \in Classes
    PROVE  Row(kind, Types[kind])
<1>1. /\ Row("AccountAllowanceApprove", AccountAllowanceApproveTransaction)
      /\ Row("AccountAllowanceDelete", AccountAllowanceDeleteTransaction)
      /\ Row("AccountCreate", AccountCreateTransaction)
      /\ Row("AccountDelete", AccountDeleteTransaction)
      /\ Row("AccountUpdate", AccountUpdateTransaction)
  BY DEF ClassWith, Row, NeverValidated, ListsIn, Converted,
         AccountAllowanceApproveTransaction, AccountAllowanceDeleteTransaction, AccountCreateTransaction,
         AccountDeleteTransaction, AccountUpdateTransaction,
         AccountAllowanceApproveMembers, AccountAllowanceDeleteMembers, AccountCreateMembers,
         AccountDeleteMembers, AccountUpdateMembers
<1>2. /\ Row("ContractCreate", ContractCreateTransaction)
      /\ Row("ContractDelete", ContractDeleteTransaction)
      /\ Row("ContractExecute", ContractExecuteTransaction)
      /\ Row("ContractUpdate", ContractUpdateTransaction)
      /\ Row("Ethereum", EthereumTransaction)
  BY DEF ClassWith, Row, NeverValidated, ListsIn, Converted,
         ContractCreateTransaction, ContractDeleteTransaction, ContractExecuteTransaction,
         ContractUpdateTransaction, EthereumTransaction,
         ContractCreateMembers, ContractDeleteMembers, ContractExecuteMembers,
         ContractUpdateMembers, EthereumMembers
<1>3. /\ Row("FileAppend", FileAppendTransaction)
      /\ Row("FileCreate", FileCreateTransaction)
      /\ Row("FileDelete", FileDeleteTransaction)
      /\ Row("FileUpdate", FileUpdateTransaction)
      /\ Row("Freeze", FreezeTransaction)
  BY DEF ClassWith, Row, NeverValidated, ListsIn, Converted,
         FileAppendTransaction, FileCreateTransaction, FileDeleteTransaction,
         FileUpdateTransaction, FreezeTransaction,
         FileAppendMembers, FileCreateMembers, FileDeleteMembers,
         FileUpdateMembers, FreezeMembers
<1>4. /\ Row("NodeCreate", NodeCreateTransaction)
      /\ Row("NodeDelete", NodeDeleteTransaction)
      /\ Row("NodeUpdate", NodeUpdateTransaction)
      /\ Row("Prng", PrngTransaction)
      /\ Row("ScheduleCreate", ScheduleCreateTransaction)
  BY DEF ClassWith, Row, NeverValidated, ListsIn, Converted,
         NodeCreateTransaction, NodeDeleteTransaction, NodeUpdateTransaction,
         PrngTransaction, ScheduleCreateTransaction,
         NodeCreateMembers, NodeDeleteMembers, NodeUpdateMembers,
         PrngMembers, ScheduleCreateMembers
<1>5. /\ Row("ScheduleDelete", ScheduleDeleteTransaction)
      /\ Row("ScheduleSign", ScheduleSignTransaction)
      /\ Row("SystemDelete", SystemDeleteTransaction)
      /\ Row("SystemUndelete", SystemUndeleteTransaction)
      /\ Row("TokenAirdrop", TokenAirdropTransaction)
  BY DEF ClassWith, Row, NeverValidated, ListsIn, Converted,
         ScheduleDeleteTransaction, ScheduleSignTransaction, SystemDeleteTransaction,
         SystemUndeleteTransaction, TokenAirdropTransaction,
         ScheduleDeleteMembers, ScheduleSignMembers, SystemDeleteMembers,
         SystemUndeleteMembers, TokenAirdropMembers
<1>6. /\ Row("TokenAssociate", TokenAssociateTransaction)
      /\ Row("TokenBurn", TokenBurnTransaction)
      /\ Row("TokenCancelAirdrop", TokenCancelAirdropTransaction)
      /\ Row("TokenClaimAirdrop", TokenClaimAirdropTransaction)
      /\ Row("TokenCreate", TokenCreateTransaction)
  BY DEF ClassWith, Row, NeverValidated, ListsIn, Converted,
         TokenAssociateTransaction, TokenBurnTransaction, TokenCancelAirdropTransaction,
         TokenClaimAirdropTransaction, TokenCreateTransaction,
         TokenAssociateMembers, TokenBurnMembers, TokenCancelAirdropMembers,
         TokenClaimAirdropMembers, TokenCreateMembers
<1>7. /\ Row("TokenDelete", TokenDeleteTransaction)
      /\ Row("TokenDissociate", TokenDissociateTransaction)
      /\ Row("TokenFeeScheduleUpdate", TokenFeeScheduleUpdateTransaction)
      /\ Row("TokenFreeze", TokenFreezeTransaction)
      /\ Row("TokenGrantKyc", TokenGrantKycTransaction)
  BY DEF ClassWith, Row, NeverValidated, ListsIn, Converted,
         TokenDeleteTransaction, TokenDissociateTransaction, TokenFeeScheduleUpdateTransaction,
         TokenFreezeTransaction, TokenGrantKycTransaction,
         TokenDeleteMembers, TokenDissociateMembers, TokenFeeScheduleUpdateMembers,
         TokenFreezeMembers, TokenGrantKycMembers
<1>8. /\ Row("TokenMint", TokenMintTransaction)
      /\ Row("TokenPause", TokenPauseTransaction)
      /\ Row("TokenReject", TokenRejectTransaction)
      /\ Row("TokenRevokeKyc", TokenRevokeKycTransaction)
      /\ Row("TokenUnfreeze", TokenUnfreezeTransaction)
  BY DEF ClassWith, Row, NeverValidated, ListsIn, Converted,
         TokenMintTransaction, TokenPauseTransaction, TokenRejectTransaction,
         TokenRevokeKycTransaction, TokenUnfreezeTransaction,
         TokenMintMembers, TokenPauseMembers, TokenRejectMembers,
         TokenRevokeKycMembers, TokenUnfreezeMembers
<1>9. /\ Row("TokenUnpause", TokenUnpauseTransaction)
      /\ Row("TokenUpdateNfts", TokenUpdateNftsTransaction)
      /\ Row("TokenUpdate", TokenUpdateTransaction)
      /\ Row("TokenWipe", TokenWipeTransaction)
      /\ Row("TopicCreate", TopicCreateTransaction)
  BY DEF ClassWith, Row, NeverValidated, ListsIn, Converted,
         TokenUnpauseTransaction, TokenUpdateNftsTransaction, TokenUpdateTransaction,
         TokenWipeTransaction, TopicCreateTransaction,
         TokenUnpauseMembers, TokenUpdateNftsMembers, TokenUpdateMembers,
         TokenWipeMembers, TopicCreateMembers
<1>10. /\ Row("TopicDelete", TopicDeleteTransaction)
      /\ Row("TopicMessageSubmit", TopicMessageSubmitTransaction)
      /\ Row("TopicUpdate", TopicUpdateTransaction)
      /\ Row("Transfer", TransferTransaction)
  BY DEF ClassWith, Row, NeverValidated, ListsIn, Converted,
         TopicDeleteTransaction, TopicMessageSubmitTransaction, TopicUpdateTransaction,
         TransferTransaction,
         TopicDeleteMembers, TopicMessageSubmitMembers, TopicUpdateMembers,
         TransferMembers
<1>. QED
  BY <1>1, <1>2, <1>3, <1>4, <1>5, <1>6, <1>7, <1>8, <1>9, <1>10 DEF Classes, Types

(* A body says of what class it is.                                                                *)
LEMMA OneClass ==
    ASSUME NEW c \in Classes
    PROVE  /\ \A d \in Classes : CaseOf(c) = CaseOf(d) => c = d
           /\ FromBytes(CaseOf(c)) = c
<1>1. \A d \in Classes : ClassWith[CaseOf(d)] = d
  BY TypeFacts, Zenon DEF Row, CaseOf
<1>2. \A d \in Classes : CaseOf(c) = CaseOf(d) => c = d
  BY <1>1, Zenon
<1>. QED
  BY <1>2, Zenon DEF FromBytes

LEMMA ScheduleCase == "ScheduleCreate" \in Classes /\ CaseOf("ScheduleCreate") = "kScheduleCreate"
BY DEF Classes, Types, CaseOf, ScheduleCreateTransaction, Converted

(* A field that was written and read says what it did, and an empty one stays empty.  Only a       *)
(* message is empty that was not.                                                                  *)
LEMMA ReadBack ==
    ASSUME NEW kind \in Classes, NEW f, NEW v, NEW fromList, NEW w, NEW r,
           w = WrittenField(kind, f, v), r = ReadField(kind, f, w, fromList)
    PROVE  /\ r # "Foreign"
           /\ WrittenField(kind, f, r) = w \/ (f \in Types[kind].message /\ r = "Empty")
           /\ v = "Empty" => r = "Empty"
<1>1. PICK t : t = Types[kind]
  OBVIOUS
<1>2. ~(f \in t.unlessDefault /\ f \in t.scalar)
  BY <1>1, TypeFacts DEF Row
<1>3. w = CASE f \in t.unlessDefault /\ v = "Empty" -> "None"
            [] f \in t.scalar /\ v = "None" -> "Empty"
            [] v \in {"Fraction", "Foreign", "Fallback"} -> "Given"
            [] OTHER -> v
  BY <1>1, Zenon DEF WrittenField
<1>4. r = CASE f \in t.unlessDefault /\ w = "None" -> "Empty"
            [] f \in t.message /\ ~fromList -> "Empty"
            [] OTHER -> w
  BY <1>1, Zenon DEF ReadField
<1>5. WrittenField(kind, f, r) =
            CASE f \in t.unlessDefault /\ r = "Empty" -> "None"
              [] f \in t.scalar /\ r = "None" -> "Empty"
              [] r \in {"Fraction", "Foreign", "Fallback"} -> "Given"
              [] OTHER -> r
  BY <1>1, Zenon DEF WrittenField
<1>. QED
  BY <1>1, <1>2, <1>3, <1>4, <1>5

(* A transaction has its members, those of its class, and IDs of other ledgers only in members     *)
(* that hold IDs and in keys.                                                                      *)
IsTx(t) ==
    t = [class |-> t.class, fields |-> t.fields, hbars |-> t.hbars, tokens |-> t.tokens, nfts |-> t.nfts,
         inner |-> t.inner]
TxOK(t) ==
    /\ IsTx(t) /\ t.class \in Classes /\ DOMAIN t.fields = Fields(t.class)
    /\ \A f \in Fields(t.class) : t.fields[f] = "Foreign" => f \in Types[t.class].ids \cup KeyMembers

(* Fields that a body says the same of, but for a message that is empty.                           *)
Says(kind, those, others) ==
    \A f \in Fields(kind) :
        \/ WrittenField(kind, f, those[f]) = WrittenField(kind, f, others[f])
        \/ f \in Types[kind].message /\ those[f] = "Empty"
SaysAgain(u, t) ==
    /\ TxOK(u) /\ u.class = t.class
    /\ Says(t.class, u.fields, t.fields)
    /\ \A f \in Fields(t.class) : t.fields[f] = "Empty" => u.fields[f] = "Empty"

LEMMA SaysTwice ==
    ASSUME NEW u, NEW t, SaysAgain(u, t), NEW others, Says(t.class, t.fields, others)
    PROVE  Says(u.class, u.fields, others)
BY DEF SaysAgain, Says

(* What a constructor makes of a body is of the class of the body and says the same.               *)
LEMMA ConstructIs ==
    ASSUME NEW t, t.class \in Classes, NEW c \in Classes \cup {"none"}, NEW fromList,
           NEW body, body.case = CaseOf(t.class), body.data = Written(t.class, t.fields),
           Construct(c, body, fromList) # <<>>
    PROVE  LET u == Construct(c, body, fromList)[1]
           IN  SaysAgain(u, t) /\ Construct(c, body, fromList) = <<u>>
<1>1. c # "none" /\ CaseOf(c) = body.case
  BY DEF Construct
<1>2. c = t.class
  BY <1>1, OneClass
<1>3. PICK u : /\ Construct(c, body, fromList) = <<u>>
               /\ u = [class |-> c, fields |-> [f \in Fields(c) |-> ReadField(c, f, body.data[f], fromList)],
                       hbars |-> body.hbars, tokens |-> TokensRead(body.lists), nfts |-> NftsRead(body.lists),
                       inner |-> <<>>]
  BY <1>1, Zenon DEF Construct
<1>4. u.class = c /\ u.fields = [f \in Fields(c) |-> ReadField(c, f, body.data[f], fromList)]
  BY <1>3
<1>5. IsTx(u)
  <2>1. PICK none, fs, hbars, tokens, nfts :
           u = [class |-> c, fields |-> fs, hbars |-> hbars, tokens |-> tokens, nfts |-> nfts, inner |-> none]
    BY <1>3, Zenon
  <2>. QED
    BY <2>1 DEF IsTx
<1>6. ASSUME NEW f \in Fields(c)
      PROVE  /\ u.fields[f] # "Foreign"
             /\ \/ WrittenField(c, f, u.fields[f]) = WrittenField(c, f, t.fields[f])
                \/ f \in Types[c].message /\ u.fields[f] = "Empty"
             /\ t.fields[f] = "Empty" => u.fields[f] = "Empty"
  <2>1. PICK v, w : v = t.fields[f] /\ w = WrittenField(c, f, v)
    OBVIOUS
  <2>2. body.data[f] = w
    BY <1>2, <2>1 DEF Written
  <2>3. u.fields[f] = ReadField(c, f, w, fromList)
    BY <1>4, <2>2
  <2>. QED
    BY <1>2, <2>1, <2>3, ReadBack
<1>7. SaysAgain(u, t)
  BY <1>2, <1>4, <1>5, <1>6 DEF SaysAgain, TxOK, Says
<1>. QED
  BY <1>3, <1>7

(* The body of a transaction and the class an object is made of for it.                            *)
LEMMA BodyIs ==
    ASSUME NEW t
    PROVE  /\ PlainBody(t).case = CaseOf(t.class) /\ PlainBody(t).data = Written(t.class, t.fields)
           /\ Body(t).case = CaseOf(t.class) /\ Body(t).data = Written(t.class, t.fields)
           /\ t.class = "ScheduleCreate" => Body(t).inner = ToSchedulable(t.inner[1])
<1>1. PICK none, case, data, hbars, lists, body :
        /\ body = [case |-> case, data |-> data, hbars |-> hbars, lists |-> lists, inner |-> none]
        /\ case = CaseOf(t.class) /\ data = Written(t.class, t.fields) /\ body = PlainBody(t)
  BY Zenon DEF PlainBody
<1>2. body.case = case /\ body.data = data
  BY <1>1
<1>3. PICK inner, with : inner = ToSchedulable(t.inner[1]) /\ with = [body EXCEPT !.inner = inner]
  OBVIOUS
<1>4. with.case = case /\ with.data = data /\ with.inner = inner
  BY ONLY <1>1, <1>3
<1>5. Body(t) = IF t.class = "ScheduleCreate" THEN with ELSE body
  BY <1>1, <1>3, Zenon DEF Body
<1>. QED
  BY <1>1, <1>2, <1>3, <1>4, <1>5

LEMMA MadeOf ==
    ASSUME NEW c \in Classes
    PROVE  /\ FromTransactionBody(CaseOf(c)) \in Classes \cup {"none"}
           /\ FromSchedulableTransactionBody(CaseOf(c)) \in Classes \cup {"none"}
<1>1. PICK case : case = CaseOf(c)
  OBVIOUS
<1>2. FromBytes(case) \in Classes
  BY <1>1, OneClass
<1>3. FromTransactionBody(case) \in Classes \cup {"none"}
  BY <1>2 DEF FromTransactionBody
<1>4. {"ScheduleCreate", "TokenFreeze"} \subseteq Classes
  BY DEF Classes, Types
<1>5. FromSchedulableTransactionBody(case) \in Classes \cup {"none"}
  BY <1>2, <1>4 DEF FromSchedulableTransactionBody
<1>. QED
  BY <1>1, <1>3, <1>5

(* What is read back says the same, and so does what is scheduled in it.                           *)
LEMMA ReloadIs ==
    ASSUME NEW t, TxOK(t), CanBuild(t), NEW fromList, Reload(Body(t), fromList) # <<>>
    PROVE  LET u == Reload(Body(t), fromList)[1]
           IN  /\ SaysAgain(u, t)
               /\ t.class = "ScheduleCreate" /\ t.inner[1].class \in Classes => SaysAgain(u.inner[1], t.inner[1])
<1>1. PICK body, outer, again : /\ body = Body(t) /\ outer = Construct(FromBytes(body.case), body, fromList)
                                /\ again = Reload(body, fromList)
  OBVIOUS
<1>2. body.case = CaseOf(t.class) /\ body.data = Written(t.class, t.fields) /\ t.class \in Classes
  BY <1>1, BodyIs DEF TxOK
<1>3. FromBytes(body.case) = t.class
  BY <1>2, OneClass
<1>4. outer # <<>>
  BY <1>1, Zenon DEF Reload
<1>5. outer = <<outer[1]>> /\ SaysAgain(outer[1], t)
  BY <1>1, <1>2, <1>3, <1>4, ConstructIs
<1>6. CASE body.case # "kScheduleCreate"
  <2>1. again = outer
    BY <1>1, <1>6, Zenon DEF Reload
  <2>2. t.class # "ScheduleCreate"
    BY <1>2, <1>6, ScheduleCase
  <2>. QED
    BY <1>1, <1>5, <2>1, <2>2
<1>7. CASE body.case = "kScheduleCreate"
  <2>1. t.class = "ScheduleCreate"
    BY <1>2, <1>7, ScheduleCase, OneClass
  <2>2. PICK w, b : w = t.inner[1] /\ b = PlainBody(w)
    OBVIOUS
  <2>3. body.inner = <<b>>
    BY <1>1, <2>1, <2>2, BodyIs DEF CanBuild, ToSchedulable
  <2>4. PICK new : new = FromSchedulable(b)
    OBVIOUS
  <2>5. new # <<>> /\ again = <<[outer[1] EXCEPT !.inner = new]>>
    BY <1>1, <1>4, <1>7, <2>3, <2>4 DEF Reload
  <2>6. PICK o, u : o = outer[1] /\ u = [o EXCEPT !.inner = new]
    OBVIOUS
  <2>7. again[1] = u
    BY <2>5, <2>6
  <2>8. IsTx(u) /\ u.class = o.class /\ u.fields = o.fields /\ u.inner = new
    BY <1>5, <2>6 DEF SaysAgain, TxOK, IsTx
  <2>9. SaysAgain(u, t)
    BY <1>5, <2>6, <2>8 DEF SaysAgain, TxOK, Says
  <2>10. ASSUME w.class \in Classes PROVE SaysAgain(new[1], w)
    <3>1. new = Construct(FromSchedulableTransactionBody(b.case), b, FALSE)
      BY <2>4 DEF FromSchedulable
    <3>2. b.case = CaseOf(w.class) /\ b.data = Written(w.class, w.fields)
      BY <2>2, BodyIs
    <3>3. PICK c \in Classes \cup {"none"}, no \in {FALSE} : c = FromSchedulableTransactionBody(b.case)
      BY <2>10, <3>2, MadeOf
    <3>. QED
      BY <2>5, <2>10, <3>1, <3>2, <3>3, ConstructIs
  <2>. QED
    BY <1>1, <2>2, <2>7, <2>8, <2>9, <2>10
<1>. QED
  BY <1>6, <1>7

-----------------------------------------------------------------------------
(* The state: the object is a transaction and says what the application set, what it schedules     *)
(* says what the transaction did that was scheduled, only lists of transfers of its own are        *)
(* foreign, and no foreign ID was sent.                                                            *)
ForeignIn(c) == c = "ScheduleCreate" \/ foreign \subseteq ListsIn(c)
Scheduled(w, m) ==
    /\ w.class = m.class
    /\ \A f \in Fields(w.class) \ Types[w.class].message :
          WrittenField(w.class, f, w.fields[f]) = WrittenField(w.class, f, m.fields[f])
DataInv ==
    /\ TxOK(tx)
    /\ DOMAIN wanted = Fields(tx.class) /\ Says(tx.class, tx.fields, wanted)
    /\ made # <<>> => /\ tx.class = "ScheduleCreate" /\ made[1].class \in Classes
                      /\ Scheduled(tx.inner[1], made[1])
    /\ ForeignIn(tx.class)
    /\ ForeignNeverSent

LEMMA ScheduledAgain ==
    ASSUME NEW w, NEW m, Scheduled(w, m), NEW u, SaysAgain(u, w)
    PROVE  Scheduled(u, m)
BY DEF Scheduled, SaysAgain, Says

(* An object with other transfers, or whose fields were set.                                       *)
LEMMA TxChanged ==
    ASSUME NEW t, IsTx(t), NEW v
    PROVE  /\ \A u : u = [t EXCEPT !.fields = v] => IsTx(u) /\ u.class = t.class /\ u.fields = v /\ u.inner = t.inner
           /\ \A u : u = [t EXCEPT !.inner = v] => IsTx(u) /\ u.class = t.class /\ u.fields = t.fields /\ u.inner = v
           /\ \A u : u \in {[t EXCEPT !.hbars = v], [t EXCEPT !.tokens = v], [t EXCEPT !.nfts = v]} =>
                        IsTx(u) /\ u.class = t.class /\ u.fields = t.fields /\ u.inner = t.inner
BY DEF IsTx

(* What does not touch the data.                                                                   *)
LEMMA DataStays ==
    ASSUME DataInv, NEW t, tx' = t, IsTx(t), t.class = tx.class, t.fields = tx.fields, t.inner = tx.inner,
           UNCHANGED <<wanted, made, misdirected>>, foreign' = foreign \/ foreign' \subseteq ListsIn(tx.class)
    PROVE  DataInv'
<1>1. TxOK(tx')
  BY DEF DataInv, TxOK
<1>2. Says(tx'.class, tx'.fields, wanted')
  BY DEF DataInv
<1>3. ForeignIn(tx.class)'
  BY DEF DataInv, ForeignIn
<1>. QED
  BY <1>1, <1>2, <1>3 DEF DataInv, ForeignNeverSent

(* A new object.                                                                                   *)
LEMMA NewIs ==
    ASSUME NEW c, NEW fs
    PROVE  IsTx(New(c, fs)) /\ New(c, fs).class = c /\ New(c, fs).fields = fs
<1>1. PICK none, t : none = <<>> /\ t = New(c, fs)
  OBVIOUS
<1>2. t = [class |-> c, fields |-> fs, hbars |-> none, tokens |-> none, nfts |-> none, inner |-> none]
  BY <1>1, Zenon DEF New
<1>. QED
  BY ONLY <1>1, <1>2 DEF IsTx

LEMMA NewScheduleIs ==
    ASSUME NEW wrapped
    PROVE  LET t == NewSchedule(wrapped)
           IN  /\ TxOK(t) /\ t.class = "ScheduleCreate" /\ t.inner = <<wrapped>>
               /\ t.fields = [f \in Fields("ScheduleCreate") |-> InitialValue("ScheduleCreate", f)]
<1>1. PICK fs, n, w, t : /\ fs = [f \in Fields("ScheduleCreate") |-> InitialValue("ScheduleCreate", f)]
                         /\ n = New("ScheduleCreate", fs) /\ w = <<wrapped>> /\ t = [n EXCEPT !.inner = w]
                         /\ t = NewSchedule(wrapped)
  BY Zenon DEF NewSchedule
<1>2. IsTx(n) /\ n.class = "ScheduleCreate" /\ n.fields = fs
  BY <1>1, NewIs
<1>3. IsTx(t) /\ t.class = n.class /\ t.fields = n.fields /\ t.inner = w
  BY <1>1, <1>2, TxChanged
<1>4. \A f \in Fields("ScheduleCreate") : fs[f] # "Foreign"
  BY <1>1 DEF InitialValue
<1>5. DOMAIN fs = Fields("ScheduleCreate")
  BY <1>1
<1>6. TxOK(t)
  BY <1>2, <1>3, <1>4, <1>5, ScheduleCase DEF TxOK
<1>. QED
  BY <1>1, <1>2, <1>3, <1>6

LEMMA SaysItself == ASSUME NEW c, NEW fs PROVE Says(c, fs, fs)
BY DEF Says

LEMMA DataInit == ASSUME Init PROVE DataInv
<1>1. PICK c \in Classes : \E fs \in InitialFields(c) :
        /\ tx = IF c = "ScheduleCreate" THEN NewSchedule(DefaultWrapped) ELSE New(c, fs)
        /\ wanted = fs
  BY Zenon DEF Init
<1>2. PICK fs \in InitialFields(c) :
        /\ tx = IF c = "ScheduleCreate" THEN NewSchedule(DefaultWrapped) ELSE New(c, fs)
        /\ wanted = fs
  BY <1>1, Zenon
<1>3. PICK any \in {"Empty", "Given"} :
        fs = [f \in Fields(c) |-> IF f \in Types[c].uninitialised THEN any ELSE InitialValue(c, f)]
  BY <1>2, Zenon DEF InitialFields
<1>4. DOMAIN fs = Fields(c) /\ \A f \in Fields(c) : fs[f] # "Foreign"
  BY <1>3 DEF InitialValue
<1>5. TxOK(tx) /\ tx.class = c /\ tx.fields = fs
  <2>1. CASE c = "ScheduleCreate"
    <3>1. Types["ScheduleCreate"].uninitialised = {}
      BY DEF Types, ScheduleCreateTransaction, Converted
    <3>2. fs = [f \in Fields("ScheduleCreate") |-> InitialValue("ScheduleCreate", f)]
      BY <1>3, <2>1, <3>1
    <3>. QED
      BY <1>2, <2>1, <3>2, NewScheduleIs
  <2>2. CASE c # "ScheduleCreate"
    <3>1. IsTx(tx) /\ tx.class = c /\ tx.fields = fs
      BY <1>2, <2>2, NewIs
    <3>. QED
      BY <1>4, <3>1 DEF TxOK
  <2>. QED
    BY <2>1, <2>2
<1>6. made = <<>> /\ foreign = {} /\ misdirected = {}
  BY DEF Init
<1>. QED
  BY <1>2, <1>4, <1>5, <1>6, SaysItself DEF DataInv, ForeignIn, ForeignNeverSent

-----------------------------------------------------------------------------
(* A setter sets the same in the object and in what the application wants.                         *)
LEMMA SetStep == ASSUME DataInv, Set PROVE DataInv'
<1>1. PICK f \in Fields(tx.class) : \E v \in SetterValues(tx.class, f) :
        /\ tx' = [tx EXCEPT !.fields = Assigned(tx.class, @, f, v)]
        /\ wanted' = Assigned(tx.class, wanted, f, v)
  BY Zenon DEF Set
<1>2. PICK v \in SetterValues(tx.class, f) :
        /\ tx' = [tx EXCEPT !.fields = Assigned(tx.class, tx.fields, f, v)]
        /\ wanted' = Assigned(tx.class, wanted, f, v)
  BY <1>1, Zenon
<1>3. PICK c, fs : c = tx.class /\ fs = Assigned(c, tx.fields, f, v)
  OBVIOUS
<1>4. IsTx(tx) /\ c \in Classes /\ DOMAIN tx.fields = Fields(c) /\ DOMAIN wanted = Fields(c)
  BY <1>3 DEF DataInv, TxOK
<1>5. IsTx(tx') /\ tx'.class = c /\ tx'.fields = fs /\ tx'.inner = tx.inner
  BY <1>2, <1>3, <1>4, TxChanged
<1> DEFINE reset(g) == \E a \in Types[c].alternatives : {f, g} \subseteq a
           becomes(g, old) == IF g = f THEN v ELSE IF reset(g) THEN "None" ELSE old
<1>6. /\ fs = [g \in Fields(c) |-> becomes(g, tx.fields[g])]
      /\ wanted' = [g \in Fields(c) |-> becomes(g, wanted[g])]
  BY <1>2, <1>3, <1>4, Zenon DEF Assigned
<1>7. v = "Foreign" => f \in Types[c].ids \cup KeyMembers
  BY <1>3 DEF SetterValues
<1>8. ASSUME NEW g \in Fields(c)
      PROVE  /\ fs[g] = "Foreign" => g \in Types[c].ids \cup KeyMembers
             /\ \/ WrittenField(c, g, fs[g]) = WrittenField(c, g, wanted'[g])
                \/ g \in Types[c].message /\ fs[g] = "Empty"
  <2>1. fs[g] = becomes(g, tx.fields[g]) /\ wanted'[g] = becomes(g, wanted[g])
    BY <1>6
  <2>2. /\ tx.fields[g] = "Foreign" => g \in Types[c].ids \cup KeyMembers
        /\ \/ WrittenField(c, g, tx.fields[g]) = WrittenField(c, g, wanted[g])
           \/ g \in Types[c].message /\ tx.fields[g] = "Empty"
    BY <1>3 DEF DataInv, TxOK, Says
  <2>3. CASE g = f
    BY <1>7, <2>1, <2>3
  <2>4. CASE g # f /\ reset(g)
    BY <2>1, <2>4
  <2>5. CASE g # f /\ ~reset(g)
    BY <2>1, <2>2, <2>5
  <2>. QED
    BY <2>3, <2>4, <2>5
<1>9. TxOK(tx') /\ Says(tx'.class, tx'.fields, wanted') /\ DOMAIN wanted' = Fields(tx'.class)
  BY <1>4, <1>5, <1>6, <1>8 DEF TxOK, Says
<1>10. made' = made /\ misdirected' = misdirected /\ foreign' = foreign
  BY DEF Set
<1>11. ForeignIn(tx.class)'
  BY <1>3, <1>5, <1>10 DEF DataInv, ForeignIn
<1>. QED
  BY <1>3, <1>5, <1>9, <1>10, <1>11 DEF DataInv, ForeignNeverSent

(* Transfers are not fields.                                                                       *)
LEMMA TransferStep == ASSUME DataInv, AddHbarTransfer \/ AddTokenTransfer \/ AddNftTransfer PROVE DataInv'
<1>1. UNCHANGED <<wanted, made, misdirected>>
  BY Zenon DEF AddHbarTransfer, AddTokenTransfer, AddNftTransfer, Throw, vars
<1>2. \/ tx' = tx
      \/ \E v : tx' \in {[tx EXCEPT !.hbars = v], [tx EXCEPT !.tokens = v], [tx EXCEPT !.nfts = v]}
  <2>1. CASE AddHbarTransfer
    <3>1. PICK t : tx' = [tx EXCEPT !.hbars = DoHbarTransfer(tx.hbars, t)]
      BY <2>1, Zenon DEF AddHbarTransfer
    <3>. QED
      BY <3>1, Zenon
  <2>2. CASE AddTokenTransfer
    <3>1. tx' = tx \/ \E t : tx' = [tx EXCEPT !.tokens = DoTokenTransfer(tx.tokens, t)]
      BY <2>2, Zenon DEF AddTokenTransfer, Throw, vars
    <3>. QED
      BY <3>1, Zenon
  <2>3. CASE AddNftTransfer
    <3>1. PICK t : tx' = [tx EXCEPT !.nfts = DoNftTransfer(tx.nfts, t)]
      BY <2>3, Zenon DEF AddNftTransfer
    <3>. QED
      BY <3>1, Zenon
  <2>. QED
    BY <2>1, <2>2, <2>3
<1>3. IsTx(tx)
  BY DEF DataInv, TxOK
<1>4. IsTx(tx') /\ tx'.class = tx.class /\ tx'.fields = tx.fields /\ tx'.inner = tx.inner
  BY <1>2, <1>3, TxChanged
<1>5. foreign' = foreign \/ foreign' \subseteq ListsIn(tx.class)
  <2>1. ASSUME NEW list, NEW old, NEW new, foreign' \in ForeignAfter(list, old, new)
        PROVE  foreign' \subseteq foreign \cup {list}
    BY <2>1 DEF ForeignAfter
  <2>2. foreign \subseteq ListsIn(tx.class) \/ tx.class = "ScheduleCreate"
    BY DEF DataInv, ForeignIn
  <2>3. CASE AddHbarTransfer
    <3>1. foreign' \subseteq foreign \cup {"mHbarTransfers"} /\ tx.class = "Transfer"
      BY <2>1, <2>3, Zenon DEF AddHbarTransfer
    <3>. QED
      BY <2>2, <3>1 DEF ListsIn
  <2>4. CASE AddTokenTransfer
    <3>1. \/ foreign' = foreign
          \/ foreign' \subseteq foreign \cup {"mTokenTransfers"}
      BY <2>1, <2>4, Zenon DEF AddTokenTransfer, Throw, vars
    <3>2. tx.class \in TransferClasses
      BY <2>4, Zenon DEF AddTokenTransfer
    <3>. QED
      BY <2>2, <3>1, <3>2 DEF ListsIn, TransferClasses
  <2>5. CASE AddNftTransfer
    <3>1. foreign' \subseteq foreign \cup {"mNftTransfers"} /\ tx.class \in TransferClasses
      BY <2>1, <2>5, Zenon DEF AddNftTransfer
    <3>. QED
      BY <2>2, <3>1 DEF ListsIn, TransferClasses
  <2>. QED
    BY <2>3, <2>4, <2>5
<1>. QED
  BY <1>1, <1>3, <1>4, <1>5, DataStays

(* Bytes say what the object did, and the object made of them says it again.                       *)
LEMMA RestoreStep == ASSUME DataInv, SaveAndRestore PROVE DataInv'
<1>1. CASE UNCHANGED vars
  BY <1>1, DataStays DEF vars, DataInv, TxOK
<1>2. CASE ~UNCHANGED vars
  <2>1. /\ CanBuild(tx) /\ Reload(Body(tx), nodes) # <<>> /\ tx' = Reload(Body(tx), nodes)[1]
        /\ UNCHANGED <<wanted, made, misdirected>> /\ foreign' = {}
    BY <1>2, Zenon DEF SaveAndRestore, Throw
  <2>2. /\ SaysAgain(tx', tx)
        /\ tx.class = "ScheduleCreate" /\ tx.inner[1].class \in Classes => SaysAgain(tx'.inner[1], tx.inner[1])
    BY <2>1, ReloadIs DEF DataInv
  <2>3. Says(tx'.class, tx'.fields, wanted)
    BY <2>2, SaysTwice DEF DataInv
  <2>4. ASSUME made # <<>> PROVE tx'.class = "ScheduleCreate" /\ Scheduled(tx'.inner[1], made[1])
    <3>1. tx.class = "ScheduleCreate" /\ made[1].class \in Classes /\ Scheduled(tx.inner[1], made[1])
      BY <2>4 DEF DataInv
    <3>2. tx.inner[1].class \in Classes
      BY <3>1 DEF Scheduled
    <3>. QED
      BY <2>2, <3>1, <3>2, ScheduledAgain DEF SaysAgain
  <2>5. ForeignIn(tx.class)'
    BY <2>1 DEF ForeignIn
  <2>. QED
    BY <2>1, <2>2, <2>3, <2>4, <2>5 DEF DataInv, SaysAgain, ForeignNeverSent
<1>. QED
  BY <1>1, <1>2

(* A new schedule holds what says the same.                                                        *)
LEMMA ScheduleStep ==
    ASSUME DataInv, NEW w, Schedules(w), Scheduled(w, tx)
    PROVE  DataInv'
<1>1. /\ tx' = NewSchedule(w) /\ made' = <<tx>> /\ wanted' = tx'.fields /\ misdirected' = misdirected
  BY DEF Schedules
<1>2. /\ TxOK(tx') /\ tx'.class = "ScheduleCreate" /\ tx'.inner = <<w>>
      /\ tx'.fields = [f \in Fields("ScheduleCreate") |-> InitialValue("ScheduleCreate", f)]
  BY <1>1, NewScheduleIs
<1>3. DOMAIN wanted' = Fields(tx'.class) /\ Says(tx'.class, tx'.fields, wanted')
  BY <1>1, <1>2, SaysItself
<1>4. made'[1] = tx /\ tx'.inner[1] = w /\ tx.class \in Classes
  BY <1>1, <1>2 DEF DataInv, TxOK
<1>. QED
  BY <1>1, <1>2, <1>3, <1>4 DEF DataInv, ForeignIn, ForeignNeverSent

(* What was sent had passed the validation, if there was one.                                      *)
LEMMA ExecuteStep ==
    ASSUME DataInv, NEW validating \in BOOLEAN, Execute(validating), ~UNCHANGED vars
    PROVE  DataInv'
<1>1. ~(validating /\ ForeignMembers \cap Validated(tx.class) # {}) /\ Submit(validating)
  BY Zenon DEF Execute, Throw
<1>2. /\ misdirected' = IF validating THEN {<<tx.class, m>> : m \in ForeignMembers} ELSE {}
      /\ UNCHANGED <<tx, wanted, made, foreign>>
  BY <1>1, Zenon DEF Submit
<1>3. Row(tx.class, Types[tx.class])
  BY TypeFacts DEF DataInv, TxOK
<1>4. ASSUME validating, NEW m \in ForeignMembers
      PROVE  m \in NeverValidated(tx.class) \cup KeyMembers \cup {"mFallbackFee"}
  <2>1. m \notin Validated(tx.class)
    BY <1>1, <1>4
  <2>2. CASE m \in Types[tx.class].ids
    BY <1>3, <2>1, <2>2 DEF Validated, Row
  <2>3. CASE m \in ForeignFields(tx)
    <3>1. m \in Types[tx.class].ids \cup KeyMembers
      BY <2>3 DEF ForeignFields, DataInv, TxOK
    <3>. QED
      BY <2>2, <3>1
  <2>4. CASE m \in foreign /\ tx.class # "ScheduleCreate"
    <3>1. m \in Types[tx.class].ids
      BY <1>3, <2>4 DEF DataInv, ForeignIn, Row
    <3>. QED
      BY <2>2, <3>1
  <2>5. CASE m = "mTransactionToSchedule" /\ tx.class = "ScheduleCreate"
    BY <2>5 DEF NeverValidated
  <2>6. CASE m = "mFallbackFee"
    BY <2>6
  <2>. QED
    BY <1>4, <2>3, <2>4, <2>5, <2>6 DEF ForeignMembers
<1>5. ForeignNeverSent'
  <2>1. ASSUME NEW sent \in misdirected'
        PROVE  sent[2] \in NeverValidated(sent[1]) \cup KeyMembers \cup {"mFallbackFee"}
    <3>1. PICK m \in ForeignMembers : validating /\ sent = <<tx.class, m>>
      BY <1>2, <2>1
    <3>2. sent[1] = tx.class /\ sent[2] = m
      BY <3>1
    <3>. QED
      BY <1>4, <3>1, <3>2
  <2>. QED
    BY <2>1 DEF ForeignNeverSent
<1>6. ForeignIn(tx.class)'
  BY <1>2 DEF DataInv, ForeignIn
<1>. QED
  BY <1>2, <1>5, <1>6 DEF DataInv

LEMMA DataStep == ASSUME DataInv, Next PROVE DataInv'
<1>1. CASE UNCHANGED vars \/ SetNodeAccountIds \/ Freeze
  <2>1. UNCHANGED <<tx, wanted, made, misdirected, foreign>>
    BY <1>1, Zenon DEF vars, SetNodeAccountIds, Freeze, Throw
  <2>. QED
    BY <2>1, DataStays DEF DataInv, TxOK
<1>2. CASE ~UNCHANGED vars /\ Schedule
  <2>1. PICK made1 : made1 = Construct(FromTransactionBody(CaseOf(tx.class)), PlainBody(tx), FALSE)
    OBVIOUS
  <2>2. made1 # <<>> /\ Schedules(made1[1])
    BY <1>2, <2>1, Zenon DEF Schedule, Throw
  <2>3. tx.class \in Classes
    BY DEF DataInv, TxOK
  <2>4. SaysAgain(made1[1], tx)
    <3>1. PICK c \in Classes \cup {"none"}, no \in {FALSE} : c = FromTransactionBody(CaseOf(tx.class))
      BY <2>3, MadeOf
    <3>. QED
      BY <2>1, <2>2, <2>3, <3>1, BodyIs, ConstructIs
  <2>5. Scheduled(tx, tx)
    BY DEF Scheduled
  <2>6. Scheduled(made1[1], tx)
    BY <2>4, <2>5, ScheduledAgain
  <2>. QED
    BY <2>2, <2>6, ScheduleStep
<1>3. CASE SetScheduledTransaction
  <2>1. PICK none, w : none = <<>> /\ w = [tx EXCEPT !.inner = none]
    OBVIOUS
  <2>2. Schedules(w)
    BY <1>3, <2>1, Zenon DEF SetScheduledTransaction
  <2>3. w.class = tx.class /\ w.fields = tx.fields
    BY <2>1, TxChanged DEF DataInv, TxOK
  <2>4. Scheduled(w, tx)
    BY <2>3 DEF Scheduled
  <2>. QED
    BY <2>2, <2>4, ScheduleStep
<1>. QED
  BY <1>1, <1>2, <1>3, SetStep, TransferStep, RestoreStep, ExecuteStep, Zenon DEF Next

LEMMA DataInvariant == MCSpec => []DataInv
<1>1. MCInit => DataInv
  BY DataInit, Zenon DEF MCInit, OtherTransaction
<1>2. DataInv /\ [MCNext]_<<part, vars, answerParts, idParts>> => DataInv'
  <2> SUFFICES ASSUME DataInv, [MCNext]_<<part, vars, answerParts, idParts>> PROVE DataInv'
    OBVIOUS
  <2>1. CASE Next
    BY <2>1, DataStep
  <2>2. CASE UNCHANGED vars
    BY <2>2, DataStays DEF vars, DataInv, TxOK
  <2>. QED
    BY <2>1, <2>2, Zenon DEF MCNext
<1>. QED
  BY <1>1, <1>2, PTL DEF MCSpec

(* Whatever was set, saved and read in between, a body says what the application set last, of      *)
(* every class and field (build and initFromSourceTransactionBody of the 49 classes).              *)
THEOREM BodiesSayWhatWasSet == MCSpec => []BodyAsSet
<1>1. DataInv => BodyAsSet
  BY DEF DataInv, BodyAsSet, Says, Written
<1>. QED
  BY <1>1, DataInvariant, PTL

(* What a schedule holds is the transaction it was made of (schedule, setScheduledTransaction and  *)
(* the two fromProtobuf that choose a class).                                                      *)
THEOREM SchedulesHoldWhatWasMade == MCSpec => []ScheduledAsMade
<1>1. DataInv => ScheduledAsMade
  BY DEF DataInv, ScheduledAsMade, Scheduled, Written
<1>. QED
  BY <1>1, DataInvariant, PTL

(* With the validation of checksums on, no ID of another ledger is sent, but in the members that   *)
(* NeverValidated names, in keys and in fallback fees (validateChecksums of the 49 classes, called *)
(* by onExecute).                                                                                  *)
THEOREM ForeignIdsStay == MCSpec => []ForeignNeverSent
<1>1. DataInv => ForeignNeverSent
  BY DEF DataInv
<1>. QED
  BY <1>1, DataInvariant, PTL

-----------------------------------------------------------------------------
(* Transfers.  Sequences that are computed step by step: a function that is defined by recursion   *)
(* on positions is one of the runs there are, and what it gathers is found by going through them.  *)

(* A nonempty set of natural numbers has a least member.                                           *)
LEMMA LeastExists ==
    ASSUME NEW S \in SUBSET Nat, S # {}
    PROVE  \E e \in S : \A d \in S : e <= d
<1> DEFINE R == OpToRel(<, Nat)
<1>1. IsWellFoundedOn(R, Nat)
  BY NatLessThanWellFounded
<1>2. \A x, y \in Nat : y < x => <<y, x>> \in R
  BY DEF OpToRel
<1> HIDE DEF R
<1>3. PICK e \in S : \A d \in S : ~ (<<d, e>> \in R)
  BY <1>1, WFMin
<1>4. ASSUME NEW d \in S PROVE e <= d
  <2>1. ~ (d < e)
    BY <1>2, <1>3, S \subseteq Nat
  <2>. QED
    BY <2>1, S \subseteq Nat
<1>. QED
  BY <1>4

(* Induction over the positions of a sequence, of a set of them.                                   *)
LEMMA PositionsInduction ==
    ASSUME NEW n \in Nat, NEW T, 0 \in T, \A i \in 1..n : i - 1 \in T => i \in T
    PROVE  0..n \subseteq T
<1>1. PICK D : D = 0..n \ T
  OBVIOUS
<1>2. D \in SUBSET Nat
  BY <1>1
<1> SUFFICES ASSUME D # {} PROVE FALSE
  BY <1>1
<1>3. PICK e \in D : \A d \in D : e <= d
  BY <1>2, LeastExists
<1>4. e # 0 /\ e \in 1..n /\ e - 1 \in 0..n
  BY <1>1, <1>2, <1>3
<1>5. e - 1 \notin D
  BY <1>2, <1>3, <1>4
<1>. QED
  BY <1>1, <1>3, <1>4, <1>5

(* What is computed step by step, from each value the next, can be computed.                       *)
Runs(S, n, base, next) ==
    {run \in [0..n -> S] : run[0] = base /\ \A i \in 1..n : run[i] = next[i][run[i - 1]]}

(* There is a run, if every step stays in the set.                                                 *)
LEMMA StepByStep ==
    ASSUME NEW S, NEW n \in Nat, NEW base \in S, NEW next, \A i \in 1..n, v \in S : next[i][v] \in S
    PROVE  Runs(S, n, base, next) # {}
<1>1. PICK T : T = {k \in 0..n : Runs(S, k, base, next) # {}}
  OBVIOUS
<1>2. 0 \in T
  <2>1. [i \in 0..0 |-> base] \in Runs(S, 0, base, next)
    BY DEF Runs
  <2>. QED
    BY <1>1, <2>1
<1>3. ASSUME NEW k \in 1..n, k - 1 \in T PROVE k \in T
  <2>1. PICK run : run \in Runs(S, k - 1, base, next)
    BY <1>1, <1>3
  <2>2. run \in [0..k - 1 -> S] /\ run[0] = base /\ \A i \in 1..k - 1 : run[i] = next[i][run[i - 1]]
    BY <2>1 DEF Runs
  <2>3. PICK last : last = next[k][run[k - 1]] /\ last \in S
    BY <2>2
  <2>4. PICK more : more = [i \in 0..k |-> IF i = k THEN last ELSE run[i]]
    OBVIOUS
  <2>5. more \in [0..k -> S] /\ more[0] = base
    BY <2>2, <2>3, <2>4
  <2>6. ASSUME NEW i \in 1..k PROVE more[i] = next[i][more[i - 1]]
    <3>1. CASE i = k
      BY <2>3, <2>4, <3>1
    <3>2. CASE i # k
      BY <2>2, <2>4, <3>2
    <3>. QED
      BY <3>1, <3>2
  <2>7. more \in Runs(S, k, base, next)
    BY <2>5, <2>6 DEF Runs
  <2>. QED
    BY <1>1, <2>7
<1>4. 0..n \subseteq T
  BY <1>2, <1>3, PositionsInduction
<1>. QED
  BY <1>1, <1>4

(* The least position in a set of positions is one of them.                                        *)
LEMMA LeastIsOne ==
    ASSUME NEW n \in Nat, NEW P \in SUBSET (1..n), P # {}
    PROVE  Min(P) \in P
<1>1. \E x \in P : \A y \in P : x <= y
  BY LeastExists
<1>. QED
  BY <1>1, Zenon DEF Min

(* The running sums of a sequence of numbers.                                                        *)
Sums(numbers, run) ==
    /\ run \in [0..Len(numbers) -> Int] /\ run[0] = 0
    /\ \A i \in 1..Len(numbers) : run[i] = run[i - 1] + numbers[i]

(* A total is the last of the running sums.                                                        *)
LEMMA TotalIs ==
    ASSUME NEW w \in Seq(Int)
    PROVE  \E run : Sums(w, run) /\ Total(w) = run[Len(w)]
<1>. PICK n \in Nat : n = Len(w) /\ w \in [1..n -> Int]
  OBVIOUS
<1> DEFINE Right(f) == f = [i \in 0..n |-> IF i = 0 THEN 0 ELSE f[i - 1] + w[i]]
<1>1. PICK next : next = [i \in 1..n |-> [v \in Int |-> v + w[i]]]
  OBVIOUS
<1>2. \A i \in 1..n, v \in Int : next[i][v] = v + w[i] /\ next[i][v] \in Int
  BY <1>1
<1>3. PICK run : run \in Runs(Int, n, 0, next)
  <2>1. PICK S, base : S = Int /\ base = 0
    OBVIOUS
  <2>2. base \in S
    BY ONLY <2>1
  <2>3. \A i \in 1..n, v \in S : next[i][v] \in S
    BY ONLY <1>2, <2>1
  <2>4. Runs(S, n, base, next) # {}
    BY <2>2, <2>3, StepByStep
  <2>. QED
    BY <2>1, <2>4
<1>4. Right(run)
  <2>1. run \in [0..n -> Int] /\ run[0] = 0 /\ \A i \in 1..n : run[i] = next[i][run[i - 1]]
    BY ONLY <1>3 DEF Runs
  <2>2. ASSUME NEW i \in 1..n PROVE run[i] = run[i - 1] + w[i]
    <3>1. run[i] = next[i][run[i - 1]]
      BY ONLY <2>1
    <3>2. i - 1 \in 0..n
      OBVIOUS
    <3>3. run[i - 1] \in Int
      BY ONLY <2>1, <3>2
    <3>. QED
      BY ONLY <1>2, <3>1, <3>3
  <2>. QED
    BY <2>1, <2>2
<1>5. PICK f : f = CHOOSE g : Right(g)
  OBVIOUS
<1>6. Right(f)
  BY <1>4, <1>5, Zenon
<1>7. Total(w) = f[n]
  BY <1>5 DEF Total
<1>8. f[0] = 0 /\ \A i \in 1..n : f[i] = f[i - 1] + w[i]
  <2>1. ASSUME NEW i \in 0..n PROVE f[i] = IF i = 0 THEN 0 ELSE f[i - 1] + w[i]
    BY <1>6, Zenon
  <2>. QED
    BY <2>1
<1>9. f \in [0..n -> Int]
  <2>1. PICK T : T = {i \in 0..n : f[i] \in Int}
    OBVIOUS
  <2>2. 0 \in T /\ \A i \in 1..n : i - 1 \in T => i \in T
    BY <1>8, <2>1
  <2>3. 0..n \subseteq T
    BY <2>2, PositionsInduction
  <2>. QED
    BY <1>6, <2>1, <2>3
<1>. QED
  BY <1>7, <1>8, <1>9 DEF Sums

(* A sequence within another, after the first m.  The sum grows by that of it.                     *)
Within(w, v, m) == m \in 0..Len(v) /\ m + Len(w) <= Len(v) /\ \A i \in 1..Len(w) : v[m + i] = w[i]

(* The sums of a sequence grow by those of the one within it.                                      *)
LEMMA SumsWithin ==
    ASSUME NEW v \in Seq(Int), NEW w \in Seq(Int), NEW m, Within(w, v, m),
           NEW run, Sums(v, run), NEW other, Sums(w, other)
    PROVE  run[m + Len(w)] = run[m] + other[Len(w)]
<1>1. PICK n : n = Len(w)
  OBVIOUS
<1>2. n \in Nat /\ m \in Nat /\ m + n <= Len(v) /\ \A i \in 1..n : v[m + i] = w[i] /\ w[i] \in Int
  BY <1>1 DEF Within
<1>3. /\ \A i \in 0..Len(v) : run[i] \in Int
      /\ \A i \in 0..n : other[i] \in Int
      /\ other[0] = 0
  BY <1>1 DEF Sums
<1>4. PICK T : T = {i \in 0..n : run[m + i] = run[m] + other[i]}
  OBVIOUS
<1>5. 0 \in T
  <2>1. m + 0 = m /\ run[m] \in Int /\ 0 \in 0..n
    BY <1>2, <1>3
  <2>. QED
    BY <1>3, <1>4, <2>1
<1>6. ASSUME NEW i \in 1..n, i - 1 \in T PROVE i \in T
  <2>1. m + i \in 1..Len(v) /\ m + (i - 1) = m + i - 1 /\ i - 1 \in 0..n /\ m \in 0..Len(v) /\ i \in 0..n
    BY <1>2
  <2>2. run[m + i] = run[m + i - 1] + v[m + i]
    BY <2>1 DEF Sums
  <2>3. other[i] = other[i - 1] + w[i]
    BY <1>1 DEF Sums
  <2>4. v[m + i] = w[i] /\ w[i] \in Int
    BY <1>2
  <2>5. run[m + (i - 1)] = run[m] + other[i - 1]
    BY <1>4, <1>6
  <2>6. run[m] \in Int /\ other[i - 1] \in Int
    BY <1>3, <2>1
  <2>7. run[m + i] = run[m] + other[i]
    BY ONLY <2>1, <2>2, <2>3, <2>4, <2>5, <2>6
  <2>. QED
    BY <1>4, <2>1, <2>7
<1>7. 0..n \subseteq T
  BY <1>2, <1>5, <1>6, PositionsInduction
<1>8. n \in T
  BY <1>2, <1>7
<1>. QED
  BY <1>1, <1>4, <1>8

(* Totals of nothing, of one number, and of two sequences put together.                            *)
LEMMA TotalInt ==
    ASSUME NEW w \in Seq(Int)
    PROVE  Total(w) \in Int
BY TotalIs DEF Sums

LEMMA TotalConcat ==
    ASSUME NEW v \in Seq(Int), NEW w \in Seq(Int)
    PROVE  Total(v \o w) = Total(v) + Total(w)
<1>1. PICK u : u = v \o w
  OBVIOUS
<1>2. /\ u \in Seq(Int) /\ Len(u) = Len(v) + Len(w) /\ Len(v) \in Nat /\ Len(w) \in Nat
      /\ Within(v, u, 0) /\ Within(w, u, Len(v))
  BY <1>1 DEF Within
<1>3. PICK run : Sums(u, run) /\ Total(u) = run[Len(u)]
  BY <1>2, TotalIs
<1>4. PICK first : Sums(v, first) /\ Total(v) = first[Len(v)]
  BY TotalIs
<1>5. PICK second : Sums(w, second) /\ Total(w) = second[Len(w)]
  BY TotalIs
<1>6. run[0 + Len(v)] = run[0] + first[Len(v)]
  BY <1>2, <1>3, <1>4, SumsWithin
<1>7. run[Len(v) + Len(w)] = run[Len(v)] + second[Len(w)]
  <2>1. u \in Seq(Int) /\ Within(w, u, Len(v)) /\ Sums(u, run) /\ Sums(w, second)
    BY <1>2, <1>3, <1>5
  <2>. QED
    BY <2>1, SumsWithin
<1>8. first[Len(v)] \in Int /\ second[Len(w)] \in Int
  <2>1. first \in [0..Len(v) -> Int] /\ second \in [0..Len(w) -> Int]
    BY <1>4, <1>5 DEF Sums
  <2>2. Len(v) \in 0..Len(v) /\ Len(w) \in 0..Len(w)
    BY <1>2
  <2>. QED
    BY <2>1, <2>2
<1>9. run[0] = 0 /\ 0 + Len(v) = Len(v)
  BY <1>3 DEF Sums
<1>. QED
  BY <1>1, <1>2, <1>3, <1>4, <1>5, <1>6, <1>7, <1>8, <1>9

LEMMA TotalOfFew ==
    /\ Total(<<>>) = 0
    /\ \A x \in Int : Total(<<x>>) = x
<1>1. Total(<<>>) = 0
  <2>1. PICK w : w = <<>>
    OBVIOUS
  <2>2. w \in Seq(Int) /\ Len(w) = 0
    BY <2>1
  <2>3. Total(w) = 0
    BY <2>2, TotalIs DEF Sums
  <2>. QED
    BY <2>1, <2>3
<1>2. ASSUME NEW x \in Int PROVE Total(<<x>>) = x
  <2>1. PICK w : w = <<x>>
    OBVIOUS
  <2>2. w \in Seq(Int) /\ Len(w) = 1 /\ w[1] = x
    BY <2>1
  <2>3. PICK run : Sums(w, run) /\ Total(w) = run[1]
    BY <2>2, TotalIs
  <2>4. run[0] = 0 /\ run[1] = run[1 - 1] + w[1]
    BY <2>2, <2>3 DEF Sums
  <2>. QED
    BY <2>1, <2>2, <2>3, <2>4
<1>. QED
  BY <1>1, <1>2

-----------------------------------------------------------------------------
(* Weights of the entries of a list: a function that gives every entry a number.                   *)
Weights(weight, s) == [i \in DOMAIN s |-> weight[s[i]]]
Weigh(weight, s) == Total(Weights(weight, s))
Weighing(D, weight) == \A e \in D : weight[e] \in Int

(* The weights of a list are numbers, and so is what it weighs.                                    *)
LEMMA WeightsAre ==
    ASSUME NEW D, NEW weight, Weighing(D, weight), NEW s \in Seq(D)
    PROVE  /\ Weights(weight, s) \in Seq(Int) /\ Len(Weights(weight, s)) = Len(s)
           /\ \A i \in 1..Len(s) : Weights(weight, s)[i] = weight[s[i]]
BY DEF Weights, Weighing

LEMMA WeighInt ==
    ASSUME NEW D, NEW weight, Weighing(D, weight), NEW s \in Seq(D)
    PROVE  Weigh(weight, s) \in Int
BY WeightsAre, TotalInt DEF Weigh

(* Two lists put together weigh what they weigh apart.                                             *)
LEMMA WeighConcat ==
    ASSUME NEW D, NEW weight, Weighing(D, weight), NEW s \in Seq(D), NEW t \in Seq(D)
    PROVE  Weigh(weight, s \o t) = Weigh(weight, s) + Weigh(weight, t)
<1>1. PICK u, v, w : u = s \o t /\ v = Weights(weight, s) /\ w = Weights(weight, t)
  OBVIOUS
<1>2. u \in Seq(D)
  BY <1>1
<1>3. /\ Len(u) = Len(s) + Len(t)
      /\ \A i \in 1..Len(s) + Len(t) : u[i] = IF i <= Len(s) THEN s[i] ELSE t[i - Len(s)]
  BY <1>1, ConcatProperties
<1>4. v \in Seq(Int) /\ Len(v) = Len(s) /\ \A i \in 1..Len(s) : v[i] = weight[s[i]]
  BY <1>1, WeightsAre
<1>5. w \in Seq(Int) /\ Len(w) = Len(t) /\ \A i \in 1..Len(t) : w[i] = weight[t[i]]
  BY <1>1, WeightsAre
<1>6. PICK x, y : x = Weights(weight, u) /\ y = v \o w
  OBVIOUS
<1>7. x \in Seq(Int) /\ Len(x) = Len(u) /\ \A i \in 1..Len(u) : x[i] = weight[u[i]]
  BY <1>2, <1>6, WeightsAre
<1>8. /\ y \in Seq(Int) /\ Len(y) = Len(v) + Len(w)
      /\ \A i \in 1..Len(v) + Len(w) : y[i] = IF i <= Len(v) THEN v[i] ELSE w[i - Len(v)]
  <2>1. v \in Seq(Int) /\ w \in Seq(Int)
    BY <1>4, <1>5
  <2>. QED
    BY <1>6, <2>1, ConcatProperties
<1>9. Len(s) \in Nat /\ Len(t) \in Nat
  OBVIOUS
<1>10. ASSUME NEW i \in 1..Len(x) PROVE x[i] = y[i]
  <2>1. i \in 1..Len(s) + Len(t) /\ x[i] = weight[u[i]]
    BY <1>3, <1>7
  <2>2. CASE i <= Len(s)
    <3>1. i \in 1..Len(s)
      BY <1>9, <2>1, <2>2
    <3>2. u[i] = s[i]
      BY <1>3, <2>1, <2>2
    <3>3. y[i] = v[i]
      BY <1>4, <1>5, <1>8, <2>1, <2>2
    <3>. QED
      BY <1>4, <2>1, <3>1, <3>2, <3>3
  <2>3. CASE ~(i <= Len(s))
    <3>1. i - Len(s) \in 1..Len(t)
      BY <1>9, <2>1, <2>3
    <3>2. u[i] = t[i - Len(s)]
      BY <1>3, <2>1, <2>3
    <3>3. y[i] = w[i - Len(s)]
      BY <1>4, <1>5, <1>8, <2>1, <2>3
    <3>. QED
      BY <1>5, <2>1, <3>1, <3>2, <3>3
  <2>. QED
    BY <2>2, <2>3
<1>11. Len(x) = Len(y)
  BY <1>3, <1>4, <1>5, <1>7, <1>8
<1>12. x = y
  BY <1>7, <1>8, <1>10, <1>11, SeqEqual
<1>. QED
  BY <1>1, <1>4, <1>5, <1>6, <1>12, TotalConcat DEF Weigh

(* What the empty list weighs, a list of one entry, and a list with one entry more.                *)
LEMMA WeighFew ==
    ASSUME NEW weight
    PROVE  /\ Weigh(weight, <<>>) = 0
           /\ \A e : weight[e] \in Int => Weigh(weight, <<e>>) = weight[e]
<1>1. Weights(weight, <<>>) = <<>>
  BY DEF Weights
<1>2. \A e : Weights(weight, <<e>>) = <<weight[e]>>
  BY DEF Weights
<1>. QED
  BY <1>1, <1>2, TotalOfFew DEF Weigh

LEMMA WeighAppend ==
    ASSUME NEW D, NEW weight, Weighing(D, weight), NEW s \in Seq(D), NEW d \in D
    PROVE  Append(s, d) \in Seq(D) /\ Weigh(weight, Append(s, d)) = Weigh(weight, s) + weight[d]
<1>1. PICK one : one = <<d>>
  OBVIOUS
<1>2. one \in Seq(D) /\ Append(s, d) = s \o one
  BY <1>1, AppendIsConcat
<1>3. Weigh(weight, s \o one) = Weigh(weight, s) + Weigh(weight, one)
  BY <1>2, WeighConcat
<1>4. Weigh(weight, one) = weight[d]
  BY <1>1, WeighFew DEF Weighing
<1>5. Append(s, d) \in Seq(D)
  BY AppendProperties
<1>. QED
  BY <1>2, <1>3, <1>4, <1>5

(* A list around one of its entries.                                                               *)
LEMMA Around ==
    ASSUME NEW D, NEW s \in Seq(D), NEW i \in 1..Len(s), NEW d \in D
    PROVE  [s EXCEPT ![i] = d] = (SubSeq(s, 1, i - 1) \o <<d>>) \o SubSeq(s, i + 1, Len(s))
<1>1. PICK before, after, one : before = SubSeq(s, 1, i - 1) /\ after = SubSeq(s, i + 1, Len(s)) /\ one = <<d>>
  OBVIOUS
<1>2. /\ before \in Seq(D) /\ Len(before) = i - 1 /\ \A j \in 1..i - 1 : before[j] = s[j]
      /\ after \in Seq(D) /\ Len(after) = Len(s) - i /\ \A j \in 1..Len(s) - i : after[j] = s[i + j]
  BY <1>1
<1>3. PICK v, w, u : v = before \o one /\ w = v \o after /\ u = [s EXCEPT ![i] = d]
  OBVIOUS
<1>4. one \in Seq(D) /\ Len(one) = 1 /\ one[1] = d
  BY <1>1
<1>5. before \in Seq(D) /\ one \in Seq(D) /\ after \in Seq(D)
  BY <1>2, <1>4
<1>6. /\ v \in Seq(D) /\ Len(v) = Len(before) + Len(one)
      /\ \A j \in 1..Len(before) + Len(one) :
            v[j] = IF j <= Len(before) THEN before[j] ELSE one[j - Len(before)]
  BY <1>3, <1>5, ConcatProperties
<1>7. v \in Seq(D)
  BY <1>6
<1>8. /\ w \in Seq(D) /\ Len(w) = Len(v) + Len(after)
      /\ \A j \in 1..Len(v) + Len(after) : w[j] = IF j <= Len(v) THEN v[j] ELSE after[j - Len(v)]
  BY <1>3, <1>5, <1>7, ConcatProperties
<1>9. u \in Seq(D) /\ Len(u) = Len(s) /\ u[i] = d /\ \A j \in 1..Len(s) : j # i => u[j] = s[j]
  BY <1>3
<1>10. Len(s) \in Nat /\ i \in Nat /\ i <= Len(s) /\ Len(v) = i /\ Len(w) = Len(s)
  BY <1>2, <1>4, <1>6, <1>8
<1>11. ASSUME NEW j \in 1..Len(s) PROVE u[j] = w[j]
  <2>1. w[j] = IF j <= i THEN v[j] ELSE after[j - i]
    BY <1>8, <1>10
  <2>2. CASE j < i
    <3>1. j \in 1..i - 1 /\ j <= i /\ j # i
      BY <1>10, <2>2
    <3>2. v[j] = before[j]
      BY <1>2, <1>4, <1>6, <3>1
    <3>. QED
      BY <1>2, <1>9, <2>1, <3>1, <3>2
  <2>3. CASE j > i
    <3>1. j - i \in 1..Len(s) - i /\ i + (j - i) = j /\ ~(j <= i) /\ j # i
      BY <1>10, <2>3
    <3>. QED
      BY <1>2, <1>9, <2>1, <3>1
  <2>4. CASE j = i
    <3>1. v[i] = one[1]
      BY <1>2, <1>4, <1>6, <1>10
    <3>. QED
      BY <1>4, <1>9, <1>10, <2>1, <2>4, <3>1
  <2>. QED
    BY <1>10, <2>2, <2>3, <2>4
<1>12. u = w
  BY <1>8, <1>9, <1>10, <1>11, SeqEqual
<1>. QED
  BY <1>1, <1>3, <1>12

(* An entry replaced or removed: what it weighed goes, what the other weighs comes.                *)
LEMMA WeighReplaced ==
    ASSUME NEW D, NEW weight, Weighing(D, weight), NEW s \in Seq(D), NEW i \in 1..Len(s), NEW d \in D
    PROVE  /\ [s EXCEPT ![i] = d] \in Seq(D)
           /\ Weigh(weight, [s EXCEPT ![i] = d]) =
                  Weigh(weight, SubSeq(s, 1, i - 1)) + weight[d] + Weigh(weight, SubSeq(s, i + 1, Len(s)))
<1>1. PICK before, after, one : before = SubSeq(s, 1, i - 1) /\ after = SubSeq(s, i + 1, Len(s)) /\ one = <<d>>
  OBVIOUS
<1>2. before \in Seq(D) /\ after \in Seq(D) /\ one \in Seq(D)
  BY <1>1
<1>3. PICK v : v = before \o one
  OBVIOUS
<1>4. v \in Seq(D)
  BY <1>2, <1>3, ConcatProperties
<1>5. Weigh(weight, before \o one) = Weigh(weight, before) + Weigh(weight, one)
  BY <1>2, WeighConcat
<1>6. Weigh(weight, v \o after) = Weigh(weight, v) + Weigh(weight, after)
  BY <1>2, <1>4, WeighConcat
<1>7. Weigh(weight, one) = weight[d]
  BY <1>1, WeighFew DEF Weighing
<1>8. [s EXCEPT ![i] = d] = v \o after
  <2>1. [s EXCEPT ![i] = d] = (SubSeq(s, 1, i - 1) \o <<d>>) \o SubSeq(s, i + 1, Len(s))
    BY Around
  <2>. QED
    BY <1>1, <1>3, <2>1
<1>9. [s EXCEPT ![i] = d] \in Seq(D)
  BY <1>2, <1>4, <1>8, ConcatProperties
<1>. QED
  BY <1>1, <1>3, <1>5, <1>6, <1>7, <1>8, <1>9

LEMMA WeighAround ==
    ASSUME NEW D, NEW weight, Weighing(D, weight), NEW s \in Seq(D), NEW i \in 1..Len(s), NEW b, NEW a,
           b = Weigh(weight, SubSeq(s, 1, i - 1)), a = Weigh(weight, SubSeq(s, i + 1, Len(s)))
    PROVE  /\ b \in Int /\ a \in Int /\ weight[s[i]] \in Int
           /\ Weigh(weight, s) = b + weight[s[i]] + a
<1>1. SubSeq(s, 1, i - 1) \in Seq(D) /\ SubSeq(s, i + 1, Len(s)) \in Seq(D)
  OBVIOUS
<1>2. b \in Int /\ a \in Int
  BY <1>1, WeighInt
<1>3. PICK d : d = s[i]
  OBVIOUS
<1>4. d \in D /\ s = [s EXCEPT ![i] = d]
  BY <1>3
<1>5. Weigh(weight, [s EXCEPT ![i] = d]) = b + weight[d] + a
  BY <1>4, WeighReplaced
<1>6. weight[d] \in Int
  BY <1>4 DEF Weighing
<1>7. Weigh(weight, s) = b + weight[d] + a
  BY ONLY <1>4, <1>5
<1>. QED
  BY <1>2, <1>3, <1>6, <1>7

LEMMA WeighRemoved ==
    ASSUME NEW D, NEW weight, Weighing(D, weight), NEW s \in Seq(D), NEW i \in 1..Len(s)
    PROVE  /\ RemoveAt(s, i) \in Seq(D)
           /\ Weigh(weight, RemoveAt(s, i)) = Weigh(weight, s) - weight[s[i]]
<1>1. PICK before, after : before = SubSeq(s, 1, i - 1) /\ after = SubSeq(s, i + 1, Len(s))
  OBVIOUS
<1>2. before \in Seq(D) /\ after \in Seq(D) /\ RemoveAt(s, i) = before \o after
  BY <1>1 DEF RemoveAt
<1>3. PICK b, a : b = Weigh(weight, before) /\ a = Weigh(weight, after)
  OBVIOUS
<1>4. RemoveAt(s, i) \in Seq(D)
  BY <1>2, ConcatProperties
<1>5. Weigh(weight, RemoveAt(s, i)) = b + a
  BY <1>2, <1>3, WeighConcat
<1>6. b \in Int /\ a \in Int /\ weight[s[i]] \in Int /\ Weigh(weight, s) = b + weight[s[i]] + a
  BY <1>1, <1>3, WeighAround
<1>7. Weigh(weight, RemoveAt(s, i)) = Weigh(weight, s) - weight[s[i]]
  BY ONLY <1>5, <1>6
<1>. QED
  BY <1>4, <1>7

LEMMA WeighChanged ==
    ASSUME NEW D, NEW weight, Weighing(D, weight), NEW s \in Seq(D), NEW i \in 1..Len(s), NEW d \in D
    PROVE  /\ [s EXCEPT ![i] = d] \in Seq(D)
           /\ Weigh(weight, [s EXCEPT ![i] = d]) = Weigh(weight, s) - weight[s[i]] + weight[d]
<1>1. PICK b, a : b = Weigh(weight, SubSeq(s, 1, i - 1)) /\ a = Weigh(weight, SubSeq(s, i + 1, Len(s)))
  OBVIOUS
<1>2. [s EXCEPT ![i] = d] \in Seq(D) /\ Weigh(weight, [s EXCEPT ![i] = d]) = b + weight[d] + a
  BY <1>1, WeighReplaced
<1>3. b \in Int /\ a \in Int /\ weight[s[i]] \in Int /\ Weigh(weight, s) = b + weight[s[i]] + a
  BY <1>1, WeighAround
<1>4. weight[d] \in Int
  BY DEF Weighing
<1>5. Weigh(weight, [s EXCEPT ![i] = d]) = Weigh(weight, s) - weight[s[i]] + weight[d]
  BY ONLY <1>2, <1>3, <1>4
<1>. QED
  BY <1>2, <1>5

-----------------------------------------------------------------------------
(* The first position of a list with a property: the least of those that have it, or zero.         *)
LEMMA FirstIs ==
    ASSUME NEW n \in Nat, NEW P \in SUBSET (1..n), NEW i, i = IF P # {} THEN Min(P) ELSE 0
    PROVE  \/ i = 0 /\ P = {}
           \/ i # 0 /\ i \in P /\ i \in 1..n
<1>1. CASE P # {}
  <2>1. i \in P
    BY <1>1, LeastIsOne
  <2>. QED
    BY <1>1, <2>1
<1>2. CASE P = {}
  BY <1>2
<1>. QED
  BY <1>1, <1>2

(* An entry merged with one of weight x: removed when the two make nothing, replaced otherwise.     *)
LEMMA EntryMerged ==
    ASSUME NEW D, NEW w, Weighing(D, w), NEW s \in Seq(D), NEW i \in 1..Len(s), NEW h, h = s[i], NEW x \in Int
    PROVE  /\ h \in D
           /\ w[h] + x = 0 => RemoveAt(s, i) \in Seq(D) /\ Weigh(w, RemoveAt(s, i)) = Weigh(w, s) + x
           /\ \A e \in D : w[h] + x = w[e] =>
                  [s EXCEPT ![i] = e] \in Seq(D) /\ Weigh(w, [s EXCEPT ![i] = e]) = Weigh(w, s) + x
<1>1. h \in D
  BY ElementOfSeq
<1>2. w[h] \in Int /\ Weigh(w, s) \in Int /\ \A e \in D : w[e] \in Int
  BY <1>1, WeighInt DEF Weighing
<1>3. RemoveAt(s, i) \in Seq(D) /\ Weigh(w, RemoveAt(s, i)) = Weigh(w, s) - w[h]
  BY WeighRemoved
<1>4. ASSUME NEW e \in D
      PROVE  [s EXCEPT ![i] = e] \in Seq(D) /\ Weigh(w, [s EXCEPT ![i] = e]) = Weigh(w, s) - w[h] + w[e]
  BY WeighChanged
<1>5. w[h] + x = 0 => Weigh(w, RemoveAt(s, i)) = Weigh(w, s) + x
  BY ONLY <1>2, <1>3, x \in Int
<1>6. ASSUME NEW e \in D, w[h] + x = w[e] PROVE Weigh(w, [s EXCEPT ![i] = e]) = Weigh(w, s) + x
  <2>1. Weigh(w, [s EXCEPT ![i] = e]) = Weigh(w, s) - w[h] + w[e]
    BY <1>4
  <2>. QED
    BY ONLY <1>2, <1>6, <2>1, x \in Int
<1>. QED
  BY <1>1, <1>3, <1>4, <1>5, <1>6

(* The entries of the lists of transfers, and what each says of one account, token or NFT.         *)
HbarEntries == [account : Accounts, amount : Int, approved : BOOLEAN]
TokenEntries == [token : Tokens, account : Accounts, amount : Int, decimals : Nat, approved : BOOLEAN]
NftEntries ==
    {n \in [token : Tokens, serial : Serials, sender : Accounts, receiver : Accounts, approved : BOOLEAN] :
        n.sender # n.receiver}

HbarWeight(t) ==
    [h \in HbarEntries |-> IF h.account = t.account /\ h.approved = t.approved THEN h.amount ELSE 0]
TokenWeight(t) == [e \in TokenEntries |-> IF SameEntry(e, t) THEN e.amount ELSE 0]
MoveWeight(n) == [m \in NftEntries |-> IF m = n THEN 1 ELSE IF m = Back(n) THEN -1 ELSE 0]

(* These are weights, and what a list weighs is the total of what its entries say.                 *)
LEMMA WeightsOfEntries ==
    ASSUME NEW t
    PROVE  /\ Weighing(HbarEntries, HbarWeight(t))
           /\ Weighing(TokenEntries, TokenWeight(t))
           /\ Weighing(NftEntries, MoveWeight(t))
           /\ \A s \in Seq(HbarEntries) : Weigh(HbarWeight(t), s) = Total(HbarAmounts(s, t))
           /\ \A s \in Seq(TokenEntries) : Weigh(TokenWeight(t), s) = Total(TokenAmounts(s, t))
           /\ \A s \in Seq(NftEntries) : Weigh(MoveWeight(t), s) = Total(Moves(s, t))
<1>1. Weighing(HbarEntries, HbarWeight(t))
  BY DEF Weighing, HbarEntries, HbarWeight
<1>2. Weighing(TokenEntries, TokenWeight(t))
  BY DEF Weighing, TokenEntries, TokenWeight
<1>3. Weighing(NftEntries, MoveWeight(t))
  BY DEF Weighing, MoveWeight
<1>4. ASSUME NEW s \in Seq(HbarEntries) PROVE Weigh(HbarWeight(t), s) = Total(HbarAmounts(s, t))
  <2>1. Weights(HbarWeight(t), s) = HbarAmounts(s, t)
    BY DEF Weights, HbarWeight, HbarAmounts
  <2>. QED
    BY <2>1 DEF Weigh
<1>5. ASSUME NEW s \in Seq(TokenEntries) PROVE Weigh(TokenWeight(t), s) = Total(TokenAmounts(s, t))
  <2>1. Weights(TokenWeight(t), s) = TokenAmounts(s, t)
    BY DEF Weights, TokenWeight, TokenAmounts
  <2>. QED
    BY <2>1 DEF Weigh
<1>6. ASSUME NEW s \in Seq(NftEntries) PROVE Weigh(MoveWeight(t), s) = Total(Moves(s, t))
  <2>1. Weights(MoveWeight(t), s) = Moves(s, t)
    BY DEF Weights, MoveWeight, Moves
  <2>. QED
    BY <2>1 DEF Weigh
<1>. QED
  BY <1>1, <1>2, <1>3, <1>4, <1>5, <1>6

(* One more transfer of hbars: what the list says of any account changes by what the transfer says.*)
LEMMA HbarsMerge ==
    ASSUME NEW hbars \in Seq(HbarEntries), NEW t \in HbarEntries, NEW k
    PROVE  /\ DoHbarTransfer(hbars, t) \in Seq(HbarEntries)
           /\ Weigh(HbarWeight(k), DoHbarTransfer(hbars, t)) = Weigh(HbarWeight(k), hbars) + HbarWeight(k)[t]
<1>1. PICK n, P, i, w : /\ n = Len(hbars) /\ w = HbarWeight(k)
                        /\ P = {j \in 1..n : hbars[j].account = t.account /\ hbars[j].approved = t.approved}
                        /\ i = IF P # {} THEN Min(P) ELSE 0
  OBVIOUS
<1>2. DoHbarTransfer(hbars, t) = IF i = 0 THEN Append(hbars, t)
                                 ELSE IF hbars[i].amount + t.amount = 0 THEN RemoveAt(hbars, i)
                                 ELSE [hbars EXCEPT ![i].amount = hbars[i].amount + t.amount]
  BY <1>1, Zenon DEF DoHbarTransfer, SelectInSeq
<1>3. Weighing(HbarEntries, w)
  BY <1>1, WeightsOfEntries
<1>4. CASE i = 0
  <2>1. PICK more : more = Append(hbars, t)
    OBVIOUS
  <2>2. more \in Seq(HbarEntries) /\ Weigh(w, more) = Weigh(w, hbars) + w[t]
    BY <1>3, <2>1, WeighAppend
  <2>3. DoHbarTransfer(hbars, t) = more
    BY <1>2, <1>4, <2>1
  <2>. QED
    BY <1>1, <2>2, <2>3
<1>5. CASE i # 0
  <2>1. i \in 1..Len(hbars) /\ hbars[i].account = t.account /\ hbars[i].approved = t.approved
    <3>1. n \in Nat /\ P \in SUBSET (1..n)
      BY <1>1
    <3>2. i \in P /\ i \in 1..n
      BY <1>1, <1>5, <3>1, FirstIs
    <3>. QED
      BY <1>1, <3>2
  <2>2. PICK h, a : h = hbars[i] /\ a = h.amount + t.amount
    OBVIOUS
  <2>3. h \in HbarEntries
    BY <2>1, <2>2, ElementOfSeq
  <2>4. PICK e : e = [h EXCEPT !.amount = a]
    OBVIOUS
  <2>5. h.amount \in Int /\ t.amount \in Int /\ a \in Int
    BY <2>2, <2>3 DEF HbarEntries
  <2>6. e \in HbarEntries /\ e.account = h.account /\ e.approved = h.approved /\ e.amount = a
    BY <2>3, <2>4, <2>5 DEF HbarEntries
  <2>7. w[h] + w[t] = w[e] /\ (a = 0 => w[e] = 0) /\ w[t] \in Int
    <3>1. w = HbarWeight(k)
      BY <1>1
    <3>. QED
      BY <2>1, <2>2, <2>3, <2>5, <2>6, <3>1 DEF HbarWeight
  <2>8. /\ w[h] + w[t] = 0 => /\ RemoveAt(hbars, i) \in Seq(HbarEntries)
                              /\ Weigh(w, RemoveAt(hbars, i)) = Weigh(w, hbars) + w[t]
        /\ /\ [hbars EXCEPT ![i] = e] \in Seq(HbarEntries)
           /\ Weigh(w, [hbars EXCEPT ![i] = e]) = Weigh(w, hbars) + w[t]
    BY <1>3, <2>1, <2>2, <2>6, <2>7, EntryMerged
  <2>9. [hbars EXCEPT ![i].amount = hbars[i].amount + t.amount] = [hbars EXCEPT ![i] = e]
    BY <2>2, <2>4
  <2>10. DoHbarTransfer(hbars, t) = IF a = 0 THEN RemoveAt(hbars, i) ELSE [hbars EXCEPT ![i] = e]
    BY <1>2, <1>5, <2>2, <2>9
  <2>11. w = HbarWeight(k)
    BY <1>1
  <2>. QED
    BY <2>7, <2>8, <2>10, <2>11
<1>. QED
  BY <1>4, <1>5

(* One more transfer of a token, in a list whose entries expect decimals that were named.          *)
NamedEntries(tokens) == {e \in TokenEntries : Named(tokens, e.token, e.decimals)}
LEMMA TokensMerge ==
    ASSUME NEW all, NEW tokens \in Seq(NamedEntries(all)), NEW t \in NamedEntries(all), NEW k
    PROVE  /\ DoTokenTransfer(tokens, t) \in Seq(NamedEntries(all))
           /\ Weigh(TokenWeight(k), DoTokenTransfer(tokens, t)) = Weigh(TokenWeight(k), tokens) + TokenWeight(k)[t]
<1>1. PICK n, P, i, w, D : /\ n = Len(tokens) /\ w = TokenWeight(k) /\ D = NamedEntries(all)
                           /\ P = {j \in 1..n : SameEntry(tokens[j], t)}
                           /\ i = IF P # {} THEN Min(P) ELSE 0
  OBVIOUS
<1>2. DoTokenTransfer(tokens, t) = IF i = 0 THEN Append(tokens, t)
                                   ELSE IF tokens[i].amount + t.amount = 0 THEN RemoveAt(tokens, i)
                                   ELSE [tokens EXCEPT ![i].amount = tokens[i].amount + t.amount]
  BY <1>1, Zenon DEF DoTokenTransfer, SelectInSeq
<1>3. D \subseteq TokenEntries /\ tokens \in Seq(D) /\ t \in D
  BY <1>1 DEF NamedEntries
<1>4. Weighing(D, w)
  BY <1>1, <1>3, WeightsOfEntries DEF Weighing
<1>5. CASE i = 0
  <2>1. PICK more : more = Append(tokens, t)
    OBVIOUS
  <2>2. more \in Seq(D) /\ Weigh(w, more) = Weigh(w, tokens) + w[t]
    BY <1>3, <1>4, <2>1, WeighAppend
  <2>3. DoTokenTransfer(tokens, t) = more
    BY <1>2, <1>5, <2>1
  <2>. QED
    BY <1>1, <2>2, <2>3
<1>6. CASE i # 0
  <2>1. i \in 1..Len(tokens) /\ SameEntry(tokens[i], t)
    <3>1. n \in Nat /\ P \in SUBSET (1..n)
      BY <1>1
    <3>2. i \in P /\ i \in 1..n
      BY <1>1, <1>6, <3>1, FirstIs
    <3>. QED
      BY <1>1, <3>2
  <2>2. PICK h, a : h = tokens[i] /\ a = h.amount + t.amount
    OBVIOUS
  <2>3. h \in D /\ h \in TokenEntries /\ t \in TokenEntries
    BY <1>3, <2>1, <2>2, ElementOfSeq
  <2>4. PICK e : e = [h EXCEPT !.amount = a]
    OBVIOUS
  <2>5. h.amount \in Int /\ t.amount \in Int /\ a \in Int
    BY <2>2, <2>3 DEF TokenEntries
  <2>6. /\ e \in TokenEntries /\ e.account = h.account /\ e.approved = h.approved /\ e.amount = a
        /\ e.token = h.token /\ e.decimals = h.decimals
    BY <2>3, <2>4, <2>5 DEF TokenEntries
  <2>7. w[h] + w[t] = w[e] /\ (a = 0 => w[e] = 0) /\ w[t] \in Int
    <3>1. w = TokenWeight(k)
      BY <1>1
    <3>2. SameEntry(h, k) <=> SameEntry(t, k)
      BY <2>1, <2>2, Zenon DEF SameEntry
    <3>3. SameEntry(e, k) <=> SameEntry(h, k)
      BY <2>6, Zenon DEF SameEntry
    <3>4. /\ w[h] = IF SameEntry(h, k) THEN h.amount ELSE 0
          /\ w[t] = IF SameEntry(t, k) THEN t.amount ELSE 0
          /\ w[e] = IF SameEntry(e, k) THEN e.amount ELSE 0
      BY <2>3, <2>6, <3>1 DEF TokenWeight
    <3>. QED
      BY <2>2, <2>5, <2>6, <3>2, <3>3, <3>4
  <2>8. e \in D
    BY <1>1, <2>3, <2>6 DEF NamedEntries
  <2>9. /\ w[h] + w[t] = 0 => /\ RemoveAt(tokens, i) \in Seq(D)
                              /\ Weigh(w, RemoveAt(tokens, i)) = Weigh(w, tokens) + w[t]
        /\ /\ [tokens EXCEPT ![i] = e] \in Seq(D)
           /\ Weigh(w, [tokens EXCEPT ![i] = e]) = Weigh(w, tokens) + w[t]
    <3>1. PICK x : x = w[t]
      OBVIOUS
    <3>2. Weighing(D, w) /\ tokens \in Seq(D) /\ x \in Int /\ h = tokens[i] /\ i \in 1..Len(tokens)
      BY <1>3, <1>4, <2>1, <2>2, <2>7, <3>1
    <3>3. w[h] + x = 0 => RemoveAt(tokens, i) \in Seq(D) /\ Weigh(w, RemoveAt(tokens, i)) = Weigh(w, tokens) + x
      BY ONLY <3>2, EntryMerged
    <3>4. w[h] + x = w[e] =>
              [tokens EXCEPT ![i] = e] \in Seq(D) /\ Weigh(w, [tokens EXCEPT ![i] = e]) = Weigh(w, tokens) + x
      BY ONLY <2>8, <3>2, EntryMerged
    <3>. QED
      BY <2>7, <2>8, <3>1, <3>3, <3>4
  <2>10. [tokens EXCEPT ![i].amount = tokens[i].amount + t.amount] = [tokens EXCEPT ![i] = e]
    BY <2>2, <2>4
  <2>11. DoTokenTransfer(tokens, t) = IF a = 0 THEN RemoveAt(tokens, i) ELSE [tokens EXCEPT ![i] = e]
    BY <1>2, <1>6, <2>2, <2>10
  <2>12. w = TokenWeight(k) /\ D = NamedEntries(all)
    BY <1>1
  <2>. QED
    BY <2>7, <2>9, <2>11, <2>12
<1>. QED
  BY <1>5, <1>6

(* One more move of an NFT, in a list of moves that were asked for.                                *)
MovesAsked(all) == NftEntries \cap ToSet(all)
LEMMA NftsMerge ==
    ASSUME NEW all, NEW nfts \in Seq(MovesAsked(all)), NEW t \in MovesAsked(all),
           NEW n \in NftEntries
    PROVE  /\ DoNftTransfer(nfts, t) \in Seq(MovesAsked(all))
           /\ ~Shared(all, n) =>
                  Weigh(MoveWeight(n), DoNftTransfer(nfts, t)) = Weigh(MoveWeight(n), nfts) + MoveWeight(n)[t]
<1>1. PICK len, P, i, w, D : /\ len = Len(nfts) /\ w = MoveWeight(n) /\ D = MovesAsked(all)
                             /\ P = {j \in 1..len : /\ nfts[j].serial = t.serial /\ nfts[j].approved = t.approved
                                                    /\ nfts[j].sender = t.receiver /\ nfts[j].receiver = t.sender}
                             /\ i = IF P # {} THEN Min(P) ELSE 0
  OBVIOUS
<1>2. DoNftTransfer(nfts, t) = IF i = 0 THEN Append(nfts, t) ELSE RemoveAt(nfts, i)
  BY <1>1, Zenon DEF DoNftTransfer, SelectInSeq
<1>3. D \subseteq NftEntries /\ D \subseteq ToSet(all) /\ nfts \in Seq(D) /\ t \in D
  BY <1>1 DEF MovesAsked
<1>4. Weighing(D, w)
  BY <1>1, <1>3, WeightsOfEntries DEF Weighing
<1>5. CASE i = 0
  <2>1. PICK more : more = Append(nfts, t)
    OBVIOUS
  <2>2. more \in Seq(D) /\ Weigh(w, more) = Weigh(w, nfts) + w[t]
    BY <1>3, <1>4, <2>1, WeighAppend
  <2>3. DoNftTransfer(nfts, t) = more
    BY <1>2, <1>5, <2>1
  <2>. QED
    BY <1>1, <2>2, <2>3
<1>6. CASE i # 0
  <2>1. PICK m : m = nfts[i]
    OBVIOUS
  <2>2. /\ i \in 1..Len(nfts) /\ m.serial = t.serial /\ m.approved = t.approved
        /\ m.sender = t.receiver /\ m.receiver = t.sender
    <3>1. len \in Nat /\ P \in SUBSET (1..len)
      BY <1>1
    <3>2. i \in P /\ i \in 1..len
      BY <1>1, <1>6, <3>1, FirstIs
    <3>. QED
      BY <1>1, <2>1, <3>2
  <2>3. m \in D
    BY <1>3, <2>1, <2>2, ElementOfSeq
  <2>4. w[t] \in Int
    BY <1>3, <1>4 DEF Weighing
  <2>5. ASSUME ~Shared(all, n) PROVE w[m] + w[t] = 0
    <3>1. m \in NftEntries /\ t \in NftEntries /\ m \in ToSet(all) /\ t \in ToSet(all)
      BY <1>3, <2>3
    <3>2. PICK b : b = Back(n)
      OBVIOUS
    <3>3. /\ w[m] = IF m = n THEN 1 ELSE IF m = b THEN -1 ELSE 0
          /\ w[t] = IF t = n THEN 1 ELSE IF t = b THEN -1 ELSE 0
      BY <1>1, <3>1, <3>2 DEF MoveWeight
    <3>4. /\ b.token = n.token /\ b.serial = n.serial /\ b.approved = n.approved
          /\ b.sender = n.receiver /\ b.receiver = n.sender /\ b \in NftEntries
      BY <3>2 DEF Back, NftEntries
    <3>5. ASSUME m.token = t.token PROVE (m = n <=> t = b) /\ (t = n <=> m = b) /\ n # b
      BY <2>2, <3>1, <3>4, <3>5 DEF NftEntries
    <3>6. ASSUME m.token # t.token PROVE m \notin {n, b} /\ t \notin {n, b}
      <4>1. ~(m.token = n.token /\ m.serial = n.serial) /\ ~(t.token = n.token /\ t.serial = n.serial)
        BY <2>2, <2>5, <3>1, <3>6 DEF Shared
      <4>. QED
        BY <3>4, <4>1
    <3>. QED
      BY <3>3, <3>5, <3>6
  <2>6. ~Shared(all, n) => Weigh(w, RemoveAt(nfts, i)) = Weigh(w, nfts) + w[t]
    BY <1>3, <1>4, <2>1, <2>2, <2>4, <2>5, EntryMerged
  <2>7. RemoveAt(nfts, i) \in Seq(D)
    BY <1>3, <1>4, <2>2, WeighRemoved
  <2>8. DoNftTransfer(nfts, t) = RemoveAt(nfts, i) /\ w = MoveWeight(n) /\ D = MovesAsked(all)
    BY <1>1, <1>2, <1>6
  <2>. QED
    BY <2>6, <2>7, <2>8
<1>. QED
  BY <1>5, <1>6

-----------------------------------------------------------------------------
(* What is gathered step by step weighs what the steps add.                                        *)
Gathers(D, weight, gains, f) ==
    \A i \in 1..Len(gains) : f[i - 1] \in Seq(D) =>
        f[i] \in Seq(D) /\ Weigh(weight, f[i]) = Weigh(weight, f[i - 1]) + gains[i]
LEMMA Gathered ==
    ASSUME NEW D, NEW weight, Weighing(D, weight), NEW gains \in Seq(Int), NEW f, f[0] \in Seq(D),
           Gathers(D, weight, gains, f)
    PROVE  /\ f[Len(gains)] \in Seq(D)
           /\ Weigh(weight, f[Len(gains)]) = Weigh(weight, f[0]) + Total(gains)
<1>1. PICK n, base : n = Len(gains) /\ base = Weigh(weight, f[0])
  OBVIOUS
<1>2. n \in Nat /\ base \in Int /\ \A i \in 1..n : gains[i] \in Int
  BY <1>1, WeighInt
<1>3. PICK run : Sums(gains, run) /\ Total(gains) = run[n]
  BY <1>1, TotalIs
<1>4. run[0] = 0 /\ (\A i \in 0..n : run[i] \in Int) /\ \A i \in 1..n : run[i] = run[i - 1] + gains[i]
  BY <1>1, <1>3 DEF Sums
<1>5. PICK T : T = {i \in 0..n : f[i] \in Seq(D) /\ Weigh(weight, f[i]) = base + run[i]}
  OBVIOUS
<1>6. 0 \in T
  BY <1>1, <1>2, <1>4, <1>5
<1>7. ASSUME NEW i \in 1..n, i - 1 \in T PROVE i \in T
  <2>1. i - 1 \in 0..n /\ i \in 0..n /\ f[i - 1] \in Seq(D) /\ Weigh(weight, f[i - 1]) = base + run[i - 1]
    BY <1>2, <1>5, <1>7
  <2>2. f[i] \in Seq(D) /\ Weigh(weight, f[i]) = Weigh(weight, f[i - 1]) + gains[i]
    BY <1>1, <2>1 DEF Gathers
  <2>3. run[i - 1] \in Int /\ gains[i] \in Int /\ run[i] = run[i - 1] + gains[i]
    BY <1>2, <1>4, <2>1
  <2>4. Weigh(weight, f[i]) = base + run[i]
    BY ONLY <1>2, <2>1, <2>2, <2>3
  <2>. QED
    BY <1>5, <2>1, <2>2, <2>4
<1>8. n \in T
  <2>1. 0..n \subseteq T
    BY <1>2, <1>6, <1>7, PositionsInduction
  <2>. QED
    BY <1>2, <2>1
<1>. QED
  BY <1>1, <1>3, <1>5, <1>8

(* ... and if they add nothing, what there was.                                                    *)
GathersNothing(D, weight, n, f) ==
    \A i \in 1..n : f[i - 1] \in Seq(D) =>
        f[i] \in Seq(D) /\ Weigh(weight, f[i]) = Weigh(weight, f[i - 1])
LEMMA NothingGathered ==
    ASSUME NEW D, NEW weight, NEW n \in Nat, NEW f, f[0] \in Seq(D), GathersNothing(D, weight, n, f)
    PROVE  Weigh(weight, f[n]) = Weigh(weight, f[0])
<1>1. PICK T : T = {i \in 0..n : f[i] \in Seq(D) /\ Weigh(weight, f[i]) = Weigh(weight, f[0])}
  OBVIOUS
<1>2. 0 \in T /\ \A i \in 1..n : i - 1 \in T => i \in T
  BY <1>1 DEF GathersNothing
<1>3. 0..n \subseteq T
  BY <1>2, PositionsInduction
<1>. QED
  BY <1>1, <1>3

(* Sequences put together.                                                                         *)
Together(D, weight) == [s \in Seq(D) |-> Weigh(weight, s)]
LEMMA FlattenIs ==
    ASSUME NEW D, NEW weight, Weighing(D, weight), NEW seqs \in Seq(Seq(D))
    PROVE  /\ FlattenSeq(seqs) \in Seq(D)
           /\ Weigh(weight, FlattenSeq(seqs)) = Weigh(Together(D, weight), seqs)
<1>. PICK n, S, w : n = Len(seqs) /\ S = Seq(D) /\ w = Together(D, weight)
  OBVIOUS
<1>1. n \in Nat /\ seqs \in [1..n -> S]
  OBVIOUS
<1>2. Weighing(S, w)
  BY WeighInt DEF Weighing, Together
<1>3. CASE n = 0
  <2>1. seqs = <<>>
    BY <1>3, EmptySeq
  <2>2. FlattenSeq(seqs) = <<>>
    BY <1>3, <2>1, Zenon DEF FlattenSeq
  <2>3. Weigh(weight, <<>>) = 0 /\ Weigh(w, <<>>) = 0
    BY WeighFew
  <2>4. <<>> \in Seq(D)
    OBVIOUS
  <2>. QED
    BY <2>1, <2>2, <2>3, <2>4, Zenon
<1>4. CASE n # 0
  <2> DEFINE Right(f) == f = [i \in 1..n |-> IF i = 1 THEN seqs[i] ELSE f[i - 1] \o seqs[i]]
  <2>1. PICK next : next = [i \in 1..n |-> [v \in S |-> v \o seqs[i]]]
    OBVIOUS
  <2>2. \A i \in 1..n, v \in S : next[i][v] = v \o seqs[i] /\ next[i][v] \in S
    <3>1. ASSUME NEW i \in 1..n, NEW v \in S PROVE v \o seqs[i] \in S
      <4>1. seqs[i] \in Seq(D) /\ v \in Seq(D)
        BY <1>1
      <4>. QED
        BY <4>1, ConcatProperties
    <3>. QED
      BY <2>1, <3>1
  <2>3. PICK run : run \in Runs(S, n, <<>>, next)
    <3>1. PICK base : base = <<>>
      OBVIOUS
    <3>2. base \in S /\ \A i \in 1..n, v \in S : next[i][v] \in S
      BY <2>2, <3>1
    <3>3. Runs(S, n, base, next) # {}
      BY <1>1, <3>2, StepByStep
    <3>. QED
      BY <3>1, <3>3
  <2>4. run \in [0..n -> S] /\ run[0] = <<>> /\ \A i \in 1..n : run[i] = next[i][run[i - 1]]
    BY <2>3 DEF Runs
  <2>5. \A i \in 1..n : run[i] = run[i - 1] \o seqs[i]
    <3>1. ASSUME NEW i \in 1..n PROVE run[i] = run[i - 1] \o seqs[i]
      <4>1. i - 1 \in 0..n
        BY <1>1
      <4>2. run[i] = next[i][run[i - 1]] /\ run[i - 1] \in S
        BY <2>4, <4>1
      <4>. QED
        BY <2>2, <4>2
    <3>. QED
      BY <3>1
  <2>6. run[1] = seqs[1]
    <3>1. 1 \in 1..n /\ 1 - 1 = 0 /\ seqs[1] \in Seq(D)
      BY <1>1, <1>4
    <3>2. run[1] = <<>> \o seqs[1]
      BY <2>4, <2>5, <3>1
    <3>. QED
      BY <3>1, <3>2, ConcatEmptySeq
  <2>7. Right([i \in 1..n |-> run[i]])
    <3>1. ASSUME NEW i \in 1..n, i # 1 PROVE i - 1 \in 1..n
      BY <1>1, <3>1
    <3>. QED
      BY <2>5, <2>6, <3>1
  <2>8. PICK f : f = CHOOSE g : Right(g)
    OBVIOUS
  <2>9. Right(f)
    BY <2>7, <2>8, Zenon
  <2>10. FlattenSeq(seqs) = f[n]
    BY <1>4, <2>8 DEF FlattenSeq
  <2>11. \A i \in 1..n : f[i] = IF i = 1 THEN seqs[i] ELSE f[i - 1] \o seqs[i]
    BY <2>9, Zenon
  <2>12. PICK g : g = [i \in 0..n |-> IF i = 0 THEN <<>> ELSE f[i]]
    OBVIOUS
  <2>13. g[0] = <<>> /\ g[n] = f[n]
    BY <1>1, <1>4, <2>12
  <2>14. ASSUME NEW i \in 1..n, g[i - 1] \in S
         PROVE  g[i] \in S /\ Weigh(weight, g[i]) = Weigh(weight, g[i - 1]) + w[seqs[i]]
    <3>1. i \in 0..n /\ i - 1 \in 0..n /\ i # 0 /\ seqs[i] \in Seq(D)
      BY <1>1
    <3>2. g[i] = g[i - 1] \o seqs[i]
      <4>1. CASE i = 1
        <5>1. g[i] = seqs[i] /\ g[i - 1] = <<>>
          BY <2>11, <2>12, <3>1, <4>1
        <5>. QED
          BY <3>1, <5>1, ConcatEmptySeq
      <4>2. CASE i # 1
        <5>1. i - 1 # 0
          BY <3>1, <4>2
        <5>. QED
          BY <2>11, <2>12, <3>1, <4>2, <5>1
      <4>. QED
        BY <4>1, <4>2
    <3>3. PICK u, v : u = g[i - 1] /\ v = seqs[i]
      OBVIOUS
    <3>4. u \in Seq(D) /\ v \in Seq(D)
      BY <2>14, <3>1, <3>3
    <3>5. u \o v \in Seq(D) /\ Weigh(weight, u \o v) = Weigh(weight, u) + Weigh(weight, v)
      BY <3>4, ConcatProperties, WeighConcat
    <3>6. w[v] = Weigh(weight, v)
      BY <3>4 DEF Together
    <3>. QED
      BY <3>2, <3>3, <3>5, <3>6
  <2>15. PICK gains : gains = Weights(w, seqs)
    OBVIOUS
  <2>16. gains \in Seq(Int) /\ Len(gains) = n /\ \A i \in 1..n : gains[i] = w[seqs[i]]
    <3>1. seqs \in Seq(S)
      OBVIOUS
    <3>. QED
      BY <1>2, <2>15, <3>1, WeightsAre
  <2>17. g[0] \in Seq(D)
    BY <2>13
  <2>18. Gathers(D, weight, gains, g)
    BY <2>14, <2>16 DEF Gathers
  <2>19. g[n] \in Seq(D) /\ Weigh(weight, g[n]) = Weigh(weight, g[0]) + Total(gains)
    <3>1. gains \in Seq(Int) /\ Len(gains) = n
      BY <2>16
    <3>. QED
      BY ONLY Weighing(D, weight), <2>17, <2>18, <3>1, Gathered
  <2>20. Weigh(weight, g[0]) = 0 /\ Total(gains) \in Int
    BY <2>13, <2>16, WeighFew, TotalInt
  <2>. QED
    BY <2>10, <2>13, <2>15, <2>19, <2>20 DEF Weigh
<1>. QED
  BY <1>3, <1>4

-----------------------------------------------------------------------------
(* The lists of a body: the entries of a list are of its token, and the decimals it expects were   *)
(* named.                                                                                          *)
BodyLists(tokens, nfts) ==
    {l \in [token : Tokens, transfers : Seq(TokenEntries), decimals : Nat, nfts : Seq(MovesAsked(nfts))] :
        /\ \A i \in 1..Len(l.transfers) : l.transfers[i].token = l.token
        /\ l.transfers # <<>> => Named(tokens, l.token, l.decimals)}
OfTransfers(L, weight) == [l \in L |-> Weigh(weight, l.transfers)]
OfNfts(L, weight) == [l \in L |-> Weigh(weight, l.nfts)]

(* An entry for a list, as it is appended, and a new list.                                         *)
LEMMA NewListIs ==
    ASSUME NEW L, NEW all, NEW moves, L = BodyLists(all, moves),
           NEW token \in Tokens, NEW e, e = EmptyList(token)
    PROVE  /\ e \in L /\ e.token = token
           /\ \A weight : OfTransfers(L, weight)[e] = 0 /\ OfNfts(L, weight)[e] = 0
<1>1. PICK none : none = <<>>
  OBVIOUS
<1>2. e = [token |-> token, transfers |-> none, decimals |-> 0, nfts |-> none]
  BY <1>1, Zenon DEF EmptyList
<1>3. PICK T, M : T = Seq(TokenEntries) /\ M = Seq(MovesAsked(moves))
  OBVIOUS
<1>4. none \in T /\ none \in M /\ Len(none) = 0
  BY <1>1, <1>3
<1>5. e \in [token : Tokens, transfers : T, decimals : Nat, nfts : M]
  BY <1>2, <1>4
<1>6. e.transfers = none /\ e.nfts = none /\ e.token = token
  BY <1>2
<1>7. e \in L
  BY <1>1, <1>3, <1>4, <1>5, <1>6 DEF BodyLists
<1>. QED
  BY <1>1, <1>6, <1>7, WeighFew DEF OfTransfers, OfNfts

(* The list of a token.                                                                            *)
LEMMA ListOfIs ==
    ASSUME NEW L, NEW lists \in Seq(L), NEW token, NEW i, i = ListOf(lists, token)
    PROVE  \/ i = 0 /\ \A j \in 1..Len(lists) : lists[j].token # token
           \/ i # 0 /\ i \in 1..Len(lists) /\ lists[i].token = token
<1>1. PICK n, P : n = Len(lists) /\ P = {j \in 1..n : lists[j].token = token}
  OBVIOUS
<1>2. i = IF P # {} THEN Min(P) ELSE 0
  BY <1>1, Zenon DEF ListOf, SelectInSeq
<1>3. n \in Nat /\ P \in SUBSET (1..n)
  BY <1>1
<1>4. \/ i = 0 /\ P = {}
      \/ i # 0 /\ i \in P /\ i \in 1..n
  BY <1>2, <1>3, FirstIs
<1>. QED
  BY <1>1, <1>4

(* With a list for a token: there is one, and nothing else has changed.                            *)
LEMMA WithListIs ==
    ASSUME NEW L, NEW lists \in Seq(L), NEW token, NEW e \in L, e = EmptyList(token), e.token = token,
           NEW all, all = WithList(lists, token), NEW i, i = ListOf(all, token)
    PROVE  /\ all \in Seq(L) /\ i \in 1..Len(all) /\ all[i].token = token /\ all[i] \in L
           /\ \A w : Weighing(L, w) /\ w[e] = 0 => Weigh(w, all) = Weigh(w, lists)
<1>1. CASE ListOf(lists, token) = 0
  <2>1. all = Append(lists, e)
    BY <1>1 DEF WithList
  <2>2. all \in Seq(L) /\ Len(lists) \in Nat /\ Len(all) = Len(lists) + 1 /\ all[Len(lists) + 1] = e
    BY <2>1, AppendProperties
  <2>3. Len(all) \in 1..Len(all) /\ all[Len(all)].token = token
    BY <2>2
  <2>4. i \in 1..Len(all) /\ all[i].token = token
    BY <2>2, <2>3, ListOfIs
  <2>5. ASSUME NEW w, Weighing(L, w), w[e] = 0 PROVE Weigh(w, all) = Weigh(w, lists)
    <3>1. Weigh(w, all) = Weigh(w, lists) + w[e] /\ Weigh(w, lists) \in Int
      BY <2>1, <2>5, WeighAppend, WeighInt
    <3>. QED
      BY <2>5, <3>1
  <2>. QED
    BY <2>2, <2>4, <2>5, ElementOfSeq
<1>2. CASE ListOf(lists, token) # 0
  <2>1. all = lists
    BY <1>2 DEF WithList
  <2>2. i \in 1..Len(all) /\ all[i].token = token
    BY <1>2, <2>1, ListOfIs
  <2>. QED
    BY <2>1, <2>2, ElementOfSeq
<1>. QED
  BY <1>1, <1>2

(* One more transfer of a token: a list of it has one more entry.                                  *)
LEMMA JoinedIs ==
    ASSUME NEW L, NEW all, NEW moves, L = BodyLists(all, moves), NEW list \in L, NEW t \in NamedEntries(all),
           list.token = t.token, NEW more, more = Joined(list, t)
    PROVE  /\ more \in L
           /\ \A k : OfTransfers(L, TokenWeight(k))[more] = OfTransfers(L, TokenWeight(k))[list] + TokenWeight(k)[t]
           /\ \A weight : OfNfts(L, weight)[more] = OfNfts(L, weight)[list]
<1>1. PICK T, M, e, ts : /\ T = Seq(TokenEntries) /\ M = Seq(MovesAsked(moves))
                         /\ e = [t EXCEPT !.decimals = 0] /\ ts = Append(list.transfers, e)
  OBVIOUS
<1>2. t \in TokenEntries /\ Named(all, t.token, t.decimals)
  BY DEF NamedEntries
<1>3. e \in TokenEntries /\ e.token = t.token /\ \A k : TokenWeight(k)[e] = TokenWeight(k)[t]
  <2>1. /\ e \in TokenEntries /\ e.token = t.token /\ e.account = t.account /\ e.amount = t.amount
        /\ e.approved = t.approved
    BY <1>1, <1>2 DEF TokenEntries
  <2>2. ASSUME NEW k PROVE TokenWeight(k)[e] = TokenWeight(k)[t]
    <3>1. SameEntry(e, k) <=> SameEntry(t, k)
      BY <2>1, Zenon DEF SameEntry
    <3>. QED
      BY <1>2, <2>1, <3>1 DEF TokenWeight
  <2>. QED
    BY <2>1, <2>2
<1>4. list \in [token : Tokens, transfers : T, decimals : Nat, nfts : M]
  BY <1>1 DEF BodyLists
<1>5. list.transfers \in Seq(TokenEntries) /\ \A i \in 1..Len(list.transfers) : list.transfers[i].token = list.token
  BY DEF BodyLists
<1>6. /\ ts \in T /\ Len(ts) = Len(list.transfers) + 1 /\ Len(list.transfers) \in Nat
      /\ \A i \in 1..Len(ts) : ts[i].token = list.token
  <2>1. PICK s, n : s = list.transfers /\ n = Len(s)
    OBVIOUS
  <2>2. s \in Seq(TokenEntries) /\ n \in Nat /\ \A i \in 1..n : s[i].token = list.token
    BY <1>5, <2>1
  <2>3. /\ ts \in Seq(TokenEntries) /\ Len(ts) = n + 1 /\ (\A i \in 1..n : ts[i] = s[i]) /\ ts[n + 1] = e
    BY <1>1, <1>3, <2>1, <2>2, AppendProperties
  <2>4. ASSUME NEW i \in 1..Len(ts) PROVE ts[i].token = list.token
    <3>1. CASE i = n + 1
      BY <1>3, <2>3, <3>1
    <3>2. CASE i # n + 1
      <4>1. i \in 1..n
        BY <2>2, <2>3, <3>2
      <4>. QED
        BY <2>2, <2>3, <4>1
    <3>. QED
      BY <3>1, <3>2
  <2>. QED
    BY <1>1, <2>1, <2>2, <2>3, <2>4
<1>7. more = [list EXCEPT !.transfers = ts, !.decimals = t.decimals]
  BY <1>1, Zenon DEF Joined
<1>8. t.decimals \in Nat
  BY <1>2 DEF TokenEntries
<1>9. /\ more \in [token : Tokens, transfers : T, decimals : Nat, nfts : M]
      /\ more.token = list.token /\ more.transfers = ts /\ more.decimals = t.decimals /\ more.nfts = list.nfts
  BY <1>4, <1>6, <1>7, <1>8
<1>10. more \in L
  BY <1>1, <1>2, <1>6, <1>9 DEF BodyLists
<1>11. ASSUME NEW k
       PROVE  OfTransfers(L, TokenWeight(k))[more] = OfTransfers(L, TokenWeight(k))[list] + TokenWeight(k)[t]
  <2>1. PICK w : w = TokenWeight(k)
    OBVIOUS
  <2>2. Weighing(TokenEntries, w)
    BY <2>1, WeightsOfEntries
  <2>3. Weigh(w, ts) = Weigh(w, list.transfers) + w[e]
    BY <1>1, <1>3, <1>5, <2>2, WeighAppend
  <2>4. OfTransfers(L, w)[more] = Weigh(w, ts) /\ OfTransfers(L, w)[list] = Weigh(w, list.transfers)
    BY <1>9, <1>10 DEF OfTransfers
  <2>. QED
    BY <1>3, <2>1, <2>3, <2>4
<1>12. \A weight : OfNfts(L, weight)[more] = OfNfts(L, weight)[list]
  BY <1>9, <1>10 DEF OfNfts
<1>. QED
  BY <1>10, <1>11, <1>12

(* One more move of an NFT, likewise.                                                              *)
LEMMA JoinedNftIs ==
    ASSUME NEW L, NEW all, NEW moves, L = BodyLists(all, moves), NEW list \in L, NEW n \in MovesAsked(moves),
           list.token = n.token, NEW more, more = JoinedNft(list, n)
    PROVE  /\ more \in L
           /\ \A k : OfNfts(L, MoveWeight(k))[more] = OfNfts(L, MoveWeight(k))[list] + MoveWeight(k)[n]
           /\ \A weight : OfTransfers(L, weight)[more] = OfTransfers(L, weight)[list]
<1>1. PICK T, D, M, ns : /\ T = Seq(TokenEntries) /\ D = MovesAsked(moves) /\ M = Seq(D)
                         /\ ns = Append(list.nfts, n)
  OBVIOUS
<1>2. list \in [token : Tokens, transfers : T, decimals : Nat, nfts : M]
  BY <1>1 DEF BodyLists
<1>3. list.nfts \in Seq(D) /\ ns \in Seq(D)
  BY <1>1, <1>2, AppendProperties
<1>4. more = [list EXCEPT !.nfts = ns]
  BY <1>1, Zenon DEF JoinedNft
<1>5. /\ more \in [token : Tokens, transfers : T, decimals : Nat, nfts : M]
      /\ more.token = list.token /\ more.transfers = list.transfers /\ more.decimals = list.decimals
      /\ more.nfts = ns
  BY <1>1, <1>2, <1>3, <1>4
<1>6. more \in L
  BY <1>1, <1>5 DEF BodyLists
<1>7. ASSUME NEW k
      PROVE  OfNfts(L, MoveWeight(k))[more] = OfNfts(L, MoveWeight(k))[list] + MoveWeight(k)[n]
  <2>1. PICK w : w = MoveWeight(k)
    OBVIOUS
  <2>2. Weighing(D, w)
    BY <1>1, <2>1, WeightsOfEntries DEF Weighing, MovesAsked
  <2>3. Weigh(w, ns) = Weigh(w, list.nfts) + w[n]
    BY <1>1, <1>3, <2>2, WeighAppend
  <2>4. OfNfts(L, w)[more] = Weigh(w, ns) /\ OfNfts(L, w)[list] = Weigh(w, list.nfts)
    BY <1>5, <1>6 DEF OfNfts
  <2>. QED
    BY <2>1, <2>3, <2>4
<1>8. \A weight : OfTransfers(L, weight)[more] = OfTransfers(L, weight)[list]
  BY <1>5, <1>6 DEF OfTransfers
<1>. QED
  BY <1>6, <1>7, <1>8

(* What its transfers and its moves weigh are weights of a list.                                   *)
LEMMA WeightsOfLists ==
    ASSUME NEW L, NEW all, NEW moves, L = BodyLists(all, moves), NEW k
    PROVE  Weighing(L, OfTransfers(L, TokenWeight(k))) /\ Weighing(L, OfNfts(L, MoveWeight(k)))
<1>1. Weighing(TokenEntries, TokenWeight(k)) /\ Weighing(MovesAsked(moves), MoveWeight(k))
  BY WeightsOfEntries DEF Weighing, MovesAsked
<1>2. ASSUME NEW l \in L PROVE l.transfers \in Seq(TokenEntries) /\ l.nfts \in Seq(MovesAsked(moves))
  BY DEF BodyLists
<1>3. ASSUME NEW l \in L
      PROVE  OfTransfers(L, TokenWeight(k))[l] \in Int /\ OfNfts(L, MoveWeight(k))[l] \in Int
  <2>1. Weigh(TokenWeight(k), l.transfers) \in Int
    BY <1>1, <1>2, WeighInt
  <2>2. Weigh(MoveWeight(k), l.nfts) \in Int
    BY <1>1, <1>2, WeighInt
  <2>. QED
    BY <2>1, <2>2 DEF OfTransfers, OfNfts
<1>. QED
  BY <1>3 DEF Weighing

(* ... and so have the lists of a body.                                                            *)
LEMMA WithTransferIs ==
    ASSUME NEW L, NEW all, NEW moves, L = BodyLists(all, moves), NEW lists \in Seq(L),
           NEW t \in NamedEntries(all), NEW k, NEW new, new = WithTransfer(lists, t)
    PROVE  /\ new \in Seq(L)
           /\ Weigh(OfTransfers(L, TokenWeight(k)), new) =
                  Weigh(OfTransfers(L, TokenWeight(k)), lists) + TokenWeight(k)[t]
           /\ Weigh(OfNfts(L, MoveWeight(k)), new) = Weigh(OfNfts(L, MoveWeight(k)), lists)
<1>1. PICK with, i, list, more, e : /\ with = WithList(lists, t.token) /\ i = ListOf(with, t.token)
                                    /\ list = with[i] /\ more = Joined(list, t) /\ e = EmptyList(t.token)
  OBVIOUS
<1>2. PICK v, w, x : v = OfTransfers(L, TokenWeight(k)) /\ w = OfNfts(L, MoveWeight(k)) /\ x = TokenWeight(k)[t]
  OBVIOUS
<1>3. t.token \in Tokens /\ x \in Int
  BY <1>2, WeightsOfEntries DEF NamedEntries, TokenEntries, Weighing
<1>4. e \in L /\ e.token = t.token /\ v[e] = 0 /\ w[e] = 0
  BY <1>1, <1>2, <1>3, NewListIs
<1>5. Weighing(L, v) /\ Weighing(L, w)
  BY <1>2, WeightsOfLists
<1>6. /\ with \in Seq(L) /\ i \in 1..Len(with) /\ list.token = t.token /\ list \in L
      /\ Weigh(v, with) = Weigh(v, lists) /\ Weigh(w, with) = Weigh(w, lists)
  BY <1>1, <1>4, <1>5, WithListIs
<1>7. more \in L /\ v[more] = v[list] + x /\ w[more] = w[list]
  BY <1>1, <1>2, <1>6, JoinedIs
<1>8. new = [with EXCEPT ![i] = more]
  BY <1>1, Zenon DEF WithTransfer
<1>9. new \in Seq(L) /\ Weigh(v, new) = Weigh(v, with) - v[list] + v[more]
  BY <1>1, <1>5, <1>6, <1>7, <1>8, WeighChanged
<1>10. Weigh(w, new) = Weigh(w, with) - w[list] + w[more]
  BY <1>1, <1>5, <1>6, <1>7, <1>8, WeighChanged
<1>11. v[list] \in Int /\ w[list] \in Int /\ Weigh(v, with) \in Int /\ Weigh(w, with) \in Int
  BY <1>5, <1>6, WeighInt DEF Weighing
<1>12. Weigh(v, new) = Weigh(v, lists) + x /\ Weigh(w, new) = Weigh(w, lists)
  BY ONLY <1>3, <1>6, <1>7, <1>9, <1>10, <1>11
<1>. QED
  BY <1>2, <1>9, <1>12

(* One more move of an NFT, likewise.                                                              *)
LEMMA WithNftIs ==
    ASSUME NEW L, NEW all, NEW moves, L = BodyLists(all, moves), NEW lists \in Seq(L),
           NEW n \in MovesAsked(moves), NEW k, NEW new, new = WithNft(lists, n)
    PROVE  /\ new \in Seq(L)
           /\ Weigh(OfNfts(L, MoveWeight(k)), new) = Weigh(OfNfts(L, MoveWeight(k)), lists) + MoveWeight(k)[n]
           /\ Weigh(OfTransfers(L, TokenWeight(k)), new) = Weigh(OfTransfers(L, TokenWeight(k)), lists)
<1>1. PICK with, i, list, more, e : /\ with = WithList(lists, n.token) /\ i = ListOf(with, n.token)
                                    /\ list = with[i] /\ more = JoinedNft(list, n) /\ e = EmptyList(n.token)
  OBVIOUS
<1>2. PICK v, w, x : v = OfTransfers(L, TokenWeight(k)) /\ w = OfNfts(L, MoveWeight(k)) /\ x = MoveWeight(k)[n]
  OBVIOUS
<1>3. n.token \in Tokens /\ x \in Int
  BY <1>2, WeightsOfEntries DEF MovesAsked, NftEntries, Weighing
<1>4. e \in L /\ e.token = n.token /\ v[e] = 0 /\ w[e] = 0
  BY <1>1, <1>2, <1>3, NewListIs
<1>5. Weighing(L, v) /\ Weighing(L, w)
  BY <1>2, WeightsOfLists
<1>6. /\ with \in Seq(L) /\ i \in 1..Len(with) /\ list.token = n.token /\ list \in L
      /\ Weigh(v, with) = Weigh(v, lists) /\ Weigh(w, with) = Weigh(w, lists)
  BY <1>1, <1>4, <1>5, WithListIs
<1>7. more \in L /\ w[more] = w[list] + x /\ v[more] = v[list]
  BY <1>1, <1>2, <1>6, JoinedNftIs
<1>8. new = [with EXCEPT ![i] = more]
  BY <1>1, Zenon DEF WithNft
<1>9. new \in Seq(L) /\ Weigh(v, new) = Weigh(v, with) - v[list] + v[more]
  BY <1>1, <1>5, <1>6, <1>7, <1>8, WeighChanged
<1>10. Weigh(w, new) = Weigh(w, with) - w[list] + w[more]
  BY <1>1, <1>5, <1>6, <1>7, <1>8, WeighChanged
<1>11. v[list] \in Int /\ w[list] \in Int /\ Weigh(v, with) \in Int /\ Weigh(w, with) \in Int
  BY <1>5, <1>6, WeighInt DEF Weighing
<1>12. Weigh(w, new) = Weigh(w, lists) + x /\ Weigh(v, new) = Weigh(v, lists)
  BY ONLY <1>3, <1>6, <1>7, <1>9, <1>10, <1>11
<1>. QED
  BY <1>2, <1>9, <1>12

(* All the transfers of tokens, in lists.                                                          *)
LEMMA ListsOfTransfersAre ==
    ASSUME NEW L, NEW all, NEW moves, L = BodyLists(all, moves), NEW tokens \in Seq(NamedEntries(all)), NEW k,
           NEW lists, lists = ListsOfTransfers(tokens)
    PROVE  /\ lists \in Seq(L)
           /\ Weigh(OfTransfers(L, TokenWeight(k)), lists) = Weigh(TokenWeight(k), tokens)
           /\ Weigh(OfNfts(L, MoveWeight(k)), lists) = 0
<1>1. PICK n, S, v, w, x : /\ n = Len(tokens) /\ S = Seq(L) /\ x = TokenWeight(k)
                           /\ v = OfTransfers(L, TokenWeight(k)) /\ w = OfNfts(L, MoveWeight(k))
  OBVIOUS
<1>2. n \in Nat /\ \A i \in 1..n : tokens[i] \in NamedEntries(all)
  BY <1>1, ElementOfSeq
<1> DEFINE Right(f) == f = [i \in 0..n |-> IF i = 0 THEN <<>> ELSE WithTransfer(f[i - 1], tokens[i])]
<1>3. ASSUME NEW i \in 1..n, NEW s \in S
      PROVE  /\ WithTransfer(s, tokens[i]) \in S
             /\ Weigh(v, WithTransfer(s, tokens[i])) = Weigh(v, s) + x[tokens[i]]
             /\ Weigh(w, WithTransfer(s, tokens[i])) = Weigh(w, s)
  <2>1. tokens[i] \in NamedEntries(all) /\ s \in Seq(L)
    BY <1>1, <1>2
  <2>. QED
    BY <1>1, <2>1, WithTransferIs
<1>4. PICK next : next = [i \in 1..n |-> [s \in S |-> WithTransfer(s, tokens[i])]]
  OBVIOUS
<1>5. \A i \in 1..n, s \in S : next[i][s] = WithTransfer(s, tokens[i]) /\ next[i][s] \in S
  BY <1>3, <1>4
<1>6. PICK run : run \in Runs(S, n, <<>>, next)
  <2>1. PICK base : base = <<>>
    OBVIOUS
  <2>2. base \in S
    BY <1>1, <2>1
  <2>3. Runs(S, n, base, next) # {}
    BY <1>2, <1>5, <2>2, StepByStep
  <2>. QED
    BY <2>1, <2>3
<1>7. Right(run)
  <2>1. run \in [0..n -> S] /\ run[0] = <<>> /\ \A i \in 1..n : run[i] = next[i][run[i - 1]]
    BY <1>6 DEF Runs
  <2>2. ASSUME NEW i \in 1..n PROVE run[i] = WithTransfer(run[i - 1], tokens[i])
    <3>1. i - 1 \in 0..n
      BY <1>2
    <3>2. run[i] = next[i][run[i - 1]] /\ run[i - 1] \in S
      BY <2>1, <3>1
    <3>. QED
      BY <1>5, <3>2
  <2>. QED
    BY <2>1, <2>2
<1>8. PICK f : f = CHOOSE g : Right(g)
  OBVIOUS
<1>9. Right(f)
  BY <1>7, <1>8, Zenon
<1>10. lists = f[n]
  BY <1>1, <1>8 DEF ListsOfTransfers
<1>11. f[0] = <<>> /\ \A i \in 1..n : f[i] = WithTransfer(f[i - 1], tokens[i])
  <2>1. ASSUME NEW i \in 0..n PROVE f[i] = IF i = 0 THEN <<>> ELSE WithTransfer(f[i - 1], tokens[i])
    BY <1>9, Zenon
  <2>. QED
    BY <1>2, <2>1
<1> HIDE DEF Right
<1>12. PICK gains : gains = Weights(x, tokens)
  OBVIOUS
<1>13. gains \in Seq(Int) /\ Len(gains) = n /\ \A i \in 1..n : gains[i] = x[tokens[i]]
  <2>1. Weighing(NamedEntries(all), x)
    BY <1>1, WeightsOfEntries DEF Weighing, NamedEntries
  <2>. QED
    BY <1>1, <1>12, <2>1, WeightsAre
<1>14. f[0] \in Seq(L) /\ Weigh(v, f[0]) = 0 /\ Weigh(w, f[0]) = 0
  BY <1>11, WeighFew
<1>15. ASSUME NEW i \in 1..n, f[i - 1] \in Seq(L)
       PROVE  /\ f[i] \in Seq(L) /\ Weigh(v, f[i]) = Weigh(v, f[i - 1]) + gains[i]
              /\ Weigh(w, f[i]) = Weigh(w, f[i - 1])
  <2>1. PICK s : s = f[i - 1]
    OBVIOUS
  <2>2. s \in S /\ f[i] = WithTransfer(s, tokens[i]) /\ gains[i] = x[tokens[i]]
    BY <1>1, <1>11, <1>13, <1>15, <2>1
  <2>3. f[i] \in S
    BY <1>3, <2>2
  <2>4. /\ Weigh(v, f[i]) = Weigh(v, s) + gains[i]
        /\ Weigh(w, f[i]) = Weigh(w, s)
    BY <1>3, <2>2
  <2>. QED
    BY <1>1, <2>1, <2>3, <2>4
<1>16. Weighing(L, v)
  BY <1>1, WeightsOfLists
<1>17. Gathers(L, v, gains, f)
  BY <1>13, <1>15 DEF Gathers
<1>18. f[n] \in Seq(L) /\ Weigh(v, f[n]) = Weigh(v, f[0]) + Total(gains)
  BY <1>13, <1>14, <1>16, <1>17, Gathered
<1>19. Weigh(w, f[n]) = Weigh(w, f[0])
  <2>1. GathersNothing(L, w, n, f)
    BY <1>15 DEF GathersNothing
  <2>. QED
    BY <1>2, <1>14, <2>1, NothingGathered
<1>20. Total(gains) = Weigh(x, tokens) /\ Total(gains) \in Int
  BY <1>12, <1>13, TotalInt DEF Weigh
<1>. QED
  BY <1>1, <1>10, <1>14, <1>18, <1>19, <1>20

(* ... and all the moves of NFTs.                                                                  *)
LEMMA TokenTransferListsAre ==
    ASSUME NEW L, NEW all, NEW moves, L = BodyLists(all, moves), NEW tokens \in Seq(NamedEntries(all)),
           NEW nfts \in Seq(MovesAsked(moves)), NEW k, NEW lists, lists = TokenTransferLists(tokens, nfts)
    PROVE  /\ lists \in Seq(L)
           /\ Weigh(OfTransfers(L, TokenWeight(k)), lists) = Weigh(TokenWeight(k), tokens)
           /\ Weigh(OfNfts(L, MoveWeight(k)), lists) = Weigh(MoveWeight(k), nfts)
<1>1. PICK n, S, v, w, x, base : /\ n = Len(nfts) /\ S = Seq(L) /\ x = MoveWeight(k)
                                 /\ v = OfTransfers(L, TokenWeight(k)) /\ w = OfNfts(L, MoveWeight(k))
                                 /\ base = ListsOfTransfers(tokens)
  OBVIOUS
<1>2. n \in Nat /\ \A i \in 1..n : nfts[i] \in MovesAsked(moves)
  BY <1>1, ElementOfSeq
<1> DEFINE Right(f) == f = [i \in 0..n |-> IF i = 0 THEN base ELSE WithNft(f[i - 1], nfts[i])]
<1>3. ASSUME NEW i \in 1..n, NEW s \in S
      PROVE  /\ WithNft(s, nfts[i]) \in S
             /\ Weigh(w, WithNft(s, nfts[i])) = Weigh(w, s) + x[nfts[i]]
             /\ Weigh(v, WithNft(s, nfts[i])) = Weigh(v, s)
  <2>1. nfts[i] \in MovesAsked(moves) /\ s \in Seq(L)
    BY <1>1, <1>2
  <2>. QED
    BY <1>1, <2>1, WithNftIs
<1>4. PICK next : next = [i \in 1..n |-> [s \in S |-> WithNft(s, nfts[i])]]
  OBVIOUS
<1>5. \A i \in 1..n, s \in S : next[i][s] = WithNft(s, nfts[i]) /\ next[i][s] \in S
  BY <1>3, <1>4
<1>6. base \in S /\ Weigh(v, base) = Weigh(TokenWeight(k), tokens) /\ Weigh(w, base) = 0
  BY <1>1, ListsOfTransfersAre
<1>7. PICK run : run \in Runs(S, n, base, next)
  BY <1>2, <1>5, <1>6, StepByStep
<1>8. Right(run)
  <2>1. run \in [0..n -> S] /\ run[0] = base /\ \A i \in 1..n : run[i] = next[i][run[i - 1]]
    BY <1>7 DEF Runs
  <2>2. ASSUME NEW i \in 1..n PROVE run[i] = WithNft(run[i - 1], nfts[i])
    <3>1. i - 1 \in 0..n
      BY <1>2
    <3>2. run[i] = next[i][run[i - 1]] /\ run[i - 1] \in S
      BY <2>1, <3>1
    <3>. QED
      BY <1>5, <3>2
  <2>. QED
    BY <2>1, <2>2
<1>9. PICK f : f = CHOOSE g : Right(g)
  OBVIOUS
<1>10. Right(f)
  BY <1>8, <1>9, Zenon
<1>11. lists = f[n]
  BY <1>1, <1>9 DEF TokenTransferLists
<1>12. f[0] = base /\ \A i \in 1..n : f[i] = WithNft(f[i - 1], nfts[i])
  <2>1. ASSUME NEW i \in 0..n PROVE f[i] = IF i = 0 THEN base ELSE WithNft(f[i - 1], nfts[i])
    BY <1>10, Zenon
  <2>. QED
    BY <1>2, <2>1
<1> HIDE DEF Right
<1>13. PICK gains : gains = Weights(x, nfts)
  OBVIOUS
<1>14. gains \in Seq(Int) /\ Len(gains) = n /\ \A i \in 1..n : gains[i] = x[nfts[i]]
  <2>1. Weighing(MovesAsked(moves), x)
    BY <1>1, WeightsOfEntries DEF Weighing, MovesAsked
  <2>. QED
    BY <1>1, <1>13, <2>1, WeightsAre
<1>15. f[0] \in Seq(L)
  BY <1>1, <1>6, <1>12
<1>16. ASSUME NEW i \in 1..n, f[i - 1] \in Seq(L)
       PROVE  /\ f[i] \in Seq(L) /\ Weigh(w, f[i]) = Weigh(w, f[i - 1]) + gains[i]
              /\ Weigh(v, f[i]) = Weigh(v, f[i - 1])
  <2>1. PICK s : s = f[i - 1]
    OBVIOUS
  <2>2. s \in S /\ f[i] = WithNft(s, nfts[i]) /\ gains[i] = x[nfts[i]]
    BY <1>1, <1>12, <1>14, <1>16, <2>1
  <2>3. f[i] \in S
    BY <1>3, <2>2
  <2>4. /\ Weigh(v, f[i]) = Weigh(v, s)
        /\ Weigh(w, f[i]) = Weigh(w, s) + gains[i]
    BY <1>3, <2>2
  <2>. QED
    BY <1>1, <2>1, <2>3, <2>4
<1>17. Weighing(L, w)
  BY <1>1, WeightsOfLists
<1>18. Gathers(L, w, gains, f)
  BY <1>14, <1>16 DEF Gathers
<1>19. f[n] \in Seq(L) /\ Weigh(w, f[n]) = Weigh(w, f[0]) + Total(gains)
  BY <1>14, <1>15, <1>17, <1>18, Gathered
<1>20. Weigh(v, f[n]) = Weigh(v, f[0])
  <2>1. GathersNothing(L, v, n, f)
    BY <1>16 DEF GathersNothing
  <2>. QED
    BY <1>2, <1>15, <2>1, NothingGathered
<1>21. Total(gains) = Weigh(x, nfts) /\ Total(gains) \in Int
  BY <1>13, <1>14, TotalInt DEF Weigh
<1>. QED
  BY <1>1, <1>6, <1>11, <1>12, <1>19, <1>20, <1>21

(* What is read of the lists of a body are entries with decimals that were named, and moves that   *)
(* were asked for, that weigh the same.                                                            *)
LEMMA TokensReadAre ==
    ASSUME NEW L, NEW all, NEW moves, L = BodyLists(all, moves), NEW lists \in Seq(L), NEW k,
           NEW tokens, tokens = TokensRead(lists)
    PROVE  /\ tokens \in Seq(NamedEntries(all))
           /\ Weigh(TokenWeight(k), tokens) = Weigh(OfTransfers(L, TokenWeight(k)), lists)
<1>1. PICK D, w, n : D = NamedEntries(all) /\ w = TokenWeight(k) /\ n = Len(lists)
  OBVIOUS
<1> DEFINE Read(list) == [j \in DOMAIN list.transfers |-> [list.transfers[j] EXCEPT !.decimals = list.decimals]]
<1>2. PICK seqs : seqs = [i \in DOMAIN lists |-> Read(lists[i])]
  OBVIOUS
<1>3. tokens = FlattenSeq(seqs)
  BY <1>2, Zenon DEF TokensRead
<1>4. Weighing(D, w)
  BY <1>1, WeightsOfEntries DEF Weighing, NamedEntries
<1>5. ASSUME NEW l \in L PROVE Read(l) \in Seq(D) /\ Weigh(w, Read(l)) = Weigh(w, l.transfers)
  <2>1. PICK s, d, r : s = l.transfers /\ d = l.decimals /\ r = [j \in DOMAIN s |-> [s[j] EXCEPT !.decimals = d]]
    OBVIOUS
  <2>2. /\ s \in Seq(TokenEntries) /\ d \in Nat /\ \A j \in 1..Len(s) : s[j].token = l.token
        /\ s # <<>> => Named(all, l.token, d)
    BY <2>1 DEF BodyLists
  <2>3. ASSUME NEW j \in 1..Len(s) PROVE r[j] \in D /\ w[r[j]] = w[s[j]]
    <3>1. PICK e, g : e = s[j] /\ g = [e EXCEPT !.decimals = d]
      OBVIOUS
    <3>2. e \in TokenEntries /\ e.token = l.token /\ r[j] = g /\ s # <<>>
      BY <2>1, <2>2, <3>1, ElementOfSeq
    <3>3. /\ g \in TokenEntries /\ g.token = e.token /\ g.decimals = d /\ g.account = e.account
          /\ g.approved = e.approved /\ g.amount = e.amount
      BY <2>2, <3>1, <3>2 DEF TokenEntries
    <3>4. g \in D
      BY <1>1, <2>2, <3>2, <3>3 DEF NamedEntries
    <3>5. SameEntry(g, k) <=> SameEntry(e, k)
      BY <3>3, Zenon DEF SameEntry
    <3>6. w[g] = w[e]
      BY <1>1, <3>2, <3>3, <3>5 DEF TokenWeight
    <3>. QED
      BY <3>1, <3>2, <3>4, <3>6
  <2>4. r \in Seq(D) /\ Len(r) = Len(s)
    <3>1. DOMAIN s = 1..Len(s) /\ Len(s) \in Nat
      BY <2>2
    <3>2. r \in [1..Len(s) -> D]
      BY <2>1, <2>3, <3>1
    <3>. QED
      BY <3>1, <3>2
  <2>5. Weights(w, r) = Weights(w, s)
    <3>1. DOMAIN r = DOMAIN s /\ DOMAIN s = 1..Len(s)
      BY <2>1, <2>2
    <3>. QED
      BY <2>3, <3>1 DEF Weights
  <2>6. r = Read(l)
    BY <2>1
  <2>. QED
    BY <2>1, <2>4, <2>5, <2>6 DEF Weigh
<1> HIDE DEF Read
<1>6. DOMAIN lists = 1..n /\ n \in Nat /\ \A i \in 1..n : lists[i] \in L
  BY <1>1, ElementOfSeq
<1>7. seqs \in Seq(Seq(D)) /\ Len(seqs) = n
  <2>1. PICK S : S = Seq(D)
    OBVIOUS
  <2>2. seqs \in [1..n -> S]
    BY <1>2, <1>5, <1>6, <2>1
  <2>. QED
    BY <1>6, <2>1, <2>2
<1>8. tokens \in Seq(D) /\ Weigh(w, tokens) = Weigh(Together(D, w), seqs)
  BY <1>3, <1>4, <1>7, FlattenIs
<1>9. Weights(Together(D, w), seqs) = Weights(OfTransfers(L, w), lists)
  <2>1. ASSUME NEW i \in 1..n PROVE Together(D, w)[seqs[i]] = OfTransfers(L, w)[lists[i]]
    <3>1. PICK l, s : l = lists[i] /\ s = Read(l)
      OBVIOUS
    <3>2. l \in L /\ s \in Seq(D) /\ seqs[i] = s /\ Weigh(w, s) = Weigh(w, l.transfers)
      BY <1>2, <1>5, <1>6, <3>1
    <3>. QED
      BY <3>1, <3>2 DEF Together, OfTransfers
  <2>2. DOMAIN seqs = 1..n
    BY <1>2, <1>6
  <2>. QED
    BY <1>6, <2>1, <2>2 DEF Weights
<1>. QED
  BY <1>1, <1>8, <1>9 DEF Weigh

(* The moves of the lists, likewise.                                                               *)
LEMMA NftsReadAre ==
    ASSUME NEW L, NEW all, NEW moves, L = BodyLists(all, moves), NEW lists \in Seq(L), NEW k,
           NEW nfts, nfts = NftsRead(lists)
    PROVE  /\ nfts \in Seq(MovesAsked(moves))
           /\ Weigh(MoveWeight(k), nfts) = Weigh(OfNfts(L, MoveWeight(k)), lists)
<1>1. PICK D, w, n : D = MovesAsked(moves) /\ w = MoveWeight(k) /\ n = Len(lists)
  OBVIOUS
<1>2. PICK seqs : seqs = [i \in DOMAIN lists |-> lists[i].nfts]
  OBVIOUS
<1>3. nfts = FlattenSeq(seqs)
  BY <1>2, Zenon DEF NftsRead
<1>4. Weighing(D, w)
  BY <1>1, WeightsOfEntries DEF Weighing, MovesAsked
<1>5. \A l \in L : l.nfts \in Seq(D)
  BY <1>1 DEF BodyLists
<1>6. DOMAIN lists = 1..n /\ n \in Nat /\ \A i \in 1..n : lists[i] \in L
  BY <1>1, ElementOfSeq
<1>7. seqs \in Seq(Seq(D)) /\ Len(seqs) = n
  <2>1. PICK S : S = Seq(D)
    OBVIOUS
  <2>2. seqs \in [1..n -> S]
    BY <1>2, <1>5, <1>6, <2>1
  <2>. QED
    BY <1>6, <2>1, <2>2
<1>8. nfts \in Seq(D) /\ Weigh(w, nfts) = Weigh(Together(D, w), seqs)
  BY <1>3, <1>4, <1>7, FlattenIs
<1>9. Weights(Together(D, w), seqs) = Weights(OfNfts(L, w), lists)
  <2>1. ASSUME NEW i \in 1..n PROVE Together(D, w)[seqs[i]] = OfNfts(L, w)[lists[i]]
    BY <1>2, <1>5, <1>6 DEF Together, OfNfts
  <2>2. DOMAIN seqs = 1..n
    BY <1>2, <1>6
  <2>. QED
    BY <1>6, <2>1, <2>2 DEF Weights
<1>. QED
  BY <1>1, <1>8, <1>9 DEF Weigh

-----------------------------------------------------------------------------
(* The state: the transfers of the object, and those the application asked for, are entries; those *)
(* of the object expect decimals that were named, and move NFTs as was asked; and both say the     *)
(* same of every account, token and NFT.                                                           *)
AreEntries(all) ==
    /\ all = [hbars |-> all.hbars, tokens |-> all.tokens, nfts |-> all.nfts]
    /\ all.hbars \in Seq(HbarEntries) /\ all.tokens \in Seq(TokenEntries) /\ all.nfts \in Seq(NftEntries)
HbarsAsked(hbars, all) ==
    hbars \in Seq(HbarEntries) /\ \A k : Weigh(HbarWeight(k), hbars) = Weigh(HbarWeight(k), all)
TokensAsked(tokens, all) ==
    /\ tokens \in Seq(NamedEntries(all))
    /\ \A k : Weigh(TokenWeight(k), tokens) = Weigh(TokenWeight(k), all)
NftsAsked(nfts, all) ==
    /\ nfts \in Seq(MovesAsked(all))
    /\ \A n \in NftEntries : ~Shared(all, n) => Weigh(MoveWeight(n), nfts) = Weigh(MoveWeight(n), all)
AsAsked(t, all) ==
    HbarsAsked(t.hbars, all.hbars) /\ TokensAsked(t.tokens, all.tokens) /\ NftsAsked(t.nfts, all.nfts)
NetInv == AreEntries(asked) /\ AsAsked(Carrier, asked)

(* The transfers of a body, and of what a constructor makes of one.                                *)
LEMMA BodyHolds ==
    ASSUME NEW t
    PROVE  /\ PlainBody(t).hbars = t.hbars /\ PlainBody(t).lists = TokenTransferLists(t.tokens, t.nfts)
           /\ Body(t).hbars = t.hbars /\ Body(t).lists = TokenTransferLists(t.tokens, t.nfts)
<1>1. PICK none, case, data, hbars, lists, body :
        /\ body = [case |-> case, data |-> data, hbars |-> hbars, lists |-> lists, inner |-> none]
        /\ hbars = t.hbars /\ lists = TokenTransferLists(t.tokens, t.nfts) /\ body = PlainBody(t)
  BY Zenon DEF PlainBody
<1>2. body.hbars = hbars /\ body.lists = lists
  BY <1>1
<1>3. PICK inner, with : inner = ToSchedulable(t.inner[1]) /\ with = [body EXCEPT !.inner = inner]
  OBVIOUS
<1>4. with.hbars = hbars /\ with.lists = lists
  BY ONLY <1>1, <1>3
<1>5. Body(t) = IF t.class = "ScheduleCreate" THEN with ELSE body
  BY <1>1, <1>3, Zenon DEF Body
<1>. QED
  BY <1>1, <1>2, <1>4, <1>5

(* What was written in lists and read says the same.                                               *)
LEMMA ReadAsAsked ==
    ASSUME NEW all, NEW moves, NEW tokens, TokensAsked(tokens, all), NEW nfts, NftsAsked(nfts, moves),
           NEW lists, lists = TokenTransferLists(tokens, nfts)
    PROVE  TokensAsked(TokensRead(lists), all) /\ NftsAsked(NftsRead(lists), moves)
<1>1. PICK L, ts, ns : L = BodyLists(all, moves) /\ ts = TokensRead(lists) /\ ns = NftsRead(lists)
  OBVIOUS
<1>2. tokens \in Seq(NamedEntries(all)) /\ nfts \in Seq(MovesAsked(moves))
  BY DEF TokensAsked, NftsAsked
<1>3. lists \in Seq(L)
  BY <1>1, <1>2, TokenTransferListsAre
<1>4. ts \in Seq(NamedEntries(all)) /\ ns \in Seq(MovesAsked(moves))
  BY <1>1, <1>3, TokensReadAre, NftsReadAre
<1>5. ASSUME NEW k PROVE Weigh(TokenWeight(k), ts) = Weigh(TokenWeight(k), tokens)
  <2>1. Weigh(OfTransfers(L, TokenWeight(k)), lists) = Weigh(TokenWeight(k), tokens)
    BY <1>1, <1>2, TokenTransferListsAre
  <2>2. Weigh(TokenWeight(k), ts) = Weigh(OfTransfers(L, TokenWeight(k)), lists)
    BY <1>1, <1>3, TokensReadAre
  <2>. QED
    BY <2>1, <2>2
<1>6. ASSUME NEW n PROVE Weigh(MoveWeight(n), ns) = Weigh(MoveWeight(n), nfts)
  <2>1. Weigh(OfNfts(L, MoveWeight(n)), lists) = Weigh(MoveWeight(n), nfts)
    BY <1>1, <1>2, TokenTransferListsAre
  <2>2. Weigh(MoveWeight(n), ns) = Weigh(OfNfts(L, MoveWeight(n)), lists)
    BY <1>1, <1>3, NftsReadAre
  <2>. QED
    BY <2>1, <2>2
<1>7. TokensAsked(ts, all)
  BY <1>4, <1>5 DEF TokensAsked
<1>8. NftsAsked(ns, moves)
  BY <1>4, <1>6 DEF NftsAsked
<1>. QED
  BY <1>1, <1>7, <1>8

(* The object a constructor makes of a body with such lists.                                       *)
LEMMA ConstructedAsAsked ==
    ASSUME NEW t, NEW all, AsAsked(t, all), NEW c, NEW fromList,
           NEW body, body.hbars = t.hbars, body.lists = TokenTransferLists(t.tokens, t.nfts),
           NEW made1, made1 = Construct(c, body, fromList), made1 # <<>>
    PROVE  AsAsked(made1[1], all)
<1>1. PICK fs, none, u : /\ made1 = <<u>>
                         /\ u = [class |-> c, fields |-> fs, hbars |-> body.hbars, tokens |-> TokensRead(body.lists),
                                 nfts |-> NftsRead(body.lists), inner |-> none]
  BY Zenon DEF Construct
<1>2. PICK hbars, lists, tokens, nfts :
        hbars = t.hbars /\ lists = body.lists /\ tokens = TokensRead(lists) /\ nfts = NftsRead(lists)
  OBVIOUS
<1>3. u.hbars = hbars /\ u.tokens = tokens /\ u.nfts = nfts
  BY <1>1, <1>2
<1>4. TokensAsked(tokens, all.tokens) /\ NftsAsked(nfts, all.nfts)
  BY <1>2, ReadAsAsked DEF AsAsked
<1>. QED
  BY <1>1, <1>2, <1>3, <1>4 DEF AsAsked

(* ... and so does the object, and what it schedules, when it was read from bytes.                 *)
LEMMA ReloadedAsAsked ==
    ASSUME NEW t, TxOK(t), CanBuild(t), NEW all, NEW fromList,
           NEW again, again = Reload(Body(t), fromList), again # <<>>
    PROVE  /\ AsAsked(t, all) => AsAsked(again[1], all)
           /\ t.class = "ScheduleCreate" /\ AsAsked(t.inner[1], all) => AsAsked(again[1].inner[1], all)
<1>1. PICK body, outer : body = Body(t) /\ outer = Construct(FromBytes(body.case), body, fromList)
  OBVIOUS
<1>2. /\ body.case = CaseOf(t.class) /\ t.class \in Classes /\ body.data = Written(t.class, t.fields)
      /\ body.hbars = t.hbars /\ body.lists = TokenTransferLists(t.tokens, t.nfts)
  BY <1>1, BodyIs, BodyHolds DEF TxOK
<1>3. outer # <<>>
  BY <1>1, Zenon DEF Reload
<1>4. FromBytes(body.case) = t.class
  BY <1>2, OneClass
<1>5. AsAsked(t, all) => AsAsked(outer[1], all)
  BY <1>1, <1>2, <1>3, ConstructedAsAsked
<1>6. CASE body.case # "kScheduleCreate"
  <2>1. again = outer
    BY <1>1, <1>6, Zenon DEF Reload
  <2>2. t.class # "ScheduleCreate"
    BY <1>2, <1>6, ScheduleCase
  <2>. QED
    BY <1>5, <2>1, <2>2
<1>7. CASE body.case = "kScheduleCreate"
  <2>1. t.class = "ScheduleCreate"
    BY <1>2, <1>7, ScheduleCase, OneClass
  <2>2. PICK w, b : w = t.inner[1] /\ b = PlainBody(w)
    OBVIOUS
  <2>3. body.inner = <<b>>
    BY <1>1, <2>1, <2>2, BodyIs DEF CanBuild, ToSchedulable
  <2>4. PICK new : new = FromSchedulable(b)
    OBVIOUS
  <2>5. new # <<>> /\ again = <<[outer[1] EXCEPT !.inner = new]>>
    BY <1>1, <1>3, <1>7, <2>3, <2>4 DEF Reload
  <2>6. PICK o, u : o = outer[1] /\ u = [o EXCEPT !.inner = new]
    OBVIOUS
  <2>7. again[1] = u
    BY <2>5, <2>6
  <2>8. IsTx(o)
    BY <1>1, <1>2, <1>3, <1>4, <2>6, ConstructIs DEF SaysAgain, TxOK
  <2>9. u.hbars = o.hbars /\ u.tokens = o.tokens /\ u.nfts = o.nfts /\ u.inner = new
    BY <2>6, <2>8 DEF IsTx
  <2>10. AsAsked(t, all) => AsAsked(u, all)
    BY <1>5, <2>6, <2>9 DEF AsAsked
  <2>11. AsAsked(w, all) => AsAsked(new[1], all)
    <3>1. new = Construct(FromSchedulableTransactionBody(b.case), b, FALSE)
      BY <2>4 DEF FromSchedulable
    <3>2. b.hbars = w.hbars /\ b.lists = TokenTransferLists(w.tokens, w.nfts)
      BY <2>2, BodyHolds
    <3>3. PICK no : no = FALSE
      OBVIOUS
    <3>. QED
      BY <2>5, <3>1, <3>2, <3>3, ConstructedAsAsked
  <2>. QED
    BY <2>2, <2>7, <2>9, <2>10, <2>11
<1>. QED
  BY <1>6, <1>7

(* One more transfer, in the object and in what was asked for.                                     *)
LEMMA HbarAsked ==
    ASSUME NEW hbars, NEW all \in Seq(HbarEntries), HbarsAsked(hbars, all), NEW t \in HbarEntries
    PROVE  Append(all, t) \in Seq(HbarEntries) /\ HbarsAsked(DoHbarTransfer(hbars, t), Append(all, t))
<1>1. PICK more, new : more = Append(all, t) /\ new = DoHbarTransfer(hbars, t)
  OBVIOUS
<1>2. hbars \in Seq(HbarEntries) /\ more \in Seq(HbarEntries)
  BY <1>1, AppendProperties DEF HbarsAsked
<1>3. new \in Seq(HbarEntries)
  BY <1>1, <1>2, HbarsMerge
<1>4. ASSUME NEW k PROVE Weigh(HbarWeight(k), new) = Weigh(HbarWeight(k), more)
  <2>1. Weigh(HbarWeight(k), new) = Weigh(HbarWeight(k), hbars) + HbarWeight(k)[t]
    BY <1>1, <1>2, HbarsMerge
  <2>2. Weighing(HbarEntries, HbarWeight(k))
    BY WeightsOfEntries
  <2>3. Weigh(HbarWeight(k), more) = Weigh(HbarWeight(k), all) + HbarWeight(k)[t]
    BY <1>1, <2>2, WeighAppend
  <2>. QED
    BY <2>1, <2>3 DEF HbarsAsked
<1>. QED
  BY <1>1, <1>2, <1>3, <1>4 DEF HbarsAsked

(* The decimals of a token transfer are named by it, from now on.                                  *)
LEMMA TokenAsked ==
    ASSUME NEW tokens, NEW all \in Seq(TokenEntries), TokensAsked(tokens, all), NEW t \in TokenEntries
    PROVE  Append(all, t) \in Seq(TokenEntries) /\ TokensAsked(DoTokenTransfer(tokens, t), Append(all, t))
<1>1. PICK more, new : more = Append(all, t) /\ new = DoTokenTransfer(tokens, t)
  OBVIOUS
<1>2. more \in Seq(TokenEntries)
  BY <1>1, AppendProperties
<1>3. ToSet(all) \subseteq ToSet(more) /\ t \in ToSet(more)
  <2>1. /\ Len(more) = Len(all) + 1 /\ Len(all) \in Nat /\ more[Len(all) + 1] = t
        /\ \A i \in 1..Len(all) : more[i] = all[i]
    BY <1>1, AppendProperties
  <2>2. DOMAIN more = 1..Len(more) /\ DOMAIN all = 1..Len(all)
    BY <1>2
  <2>. QED
    BY <2>1, <2>2 DEF ToSet
<1>4. NamedEntries(all) \subseteq NamedEntries(more) /\ t \in NamedEntries(more)
  BY <1>3 DEF NamedEntries, Named
<1>5. tokens \in Seq(NamedEntries(more))
  BY <1>4 DEF TokensAsked
<1>6. new \in Seq(NamedEntries(more))
  BY <1>1, <1>4, <1>5, TokensMerge
<1>7. ASSUME NEW k PROVE Weigh(TokenWeight(k), new) = Weigh(TokenWeight(k), more)
  <2>1. Weigh(TokenWeight(k), new) = Weigh(TokenWeight(k), tokens) + TokenWeight(k)[t]
    BY <1>1, <1>4, <1>5, TokensMerge
  <2>2. Weighing(TokenEntries, TokenWeight(k))
    BY WeightsOfEntries
  <2>3. Weigh(TokenWeight(k), more) = Weigh(TokenWeight(k), all) + TokenWeight(k)[t]
    BY <1>1, <2>2, WeighAppend
  <2>. QED
    BY <2>1, <2>3 DEF TokensAsked
<1>. QED
  BY <1>1, <1>2, <1>6, <1>7 DEF TokensAsked

(* A token that shares a serial number still does after another move.                              *)
LEMMA NftAsked ==
    ASSUME NEW nfts, NEW all \in Seq(NftEntries), NftsAsked(nfts, all), NEW t \in NftEntries
    PROVE  Append(all, t) \in Seq(NftEntries) /\ NftsAsked(DoNftTransfer(nfts, t), Append(all, t))
<1>1. PICK more, new : more = Append(all, t) /\ new = DoNftTransfer(nfts, t)
  OBVIOUS
<1>2. more \in Seq(NftEntries)
  BY <1>1, AppendProperties
<1>3. ToSet(all) \subseteq ToSet(more) /\ t \in ToSet(more)
  <2>1. /\ Len(more) = Len(all) + 1 /\ Len(all) \in Nat /\ more[Len(all) + 1] = t
        /\ \A i \in 1..Len(all) : more[i] = all[i]
    BY <1>1, AppendProperties
  <2>2. DOMAIN more = 1..Len(more) /\ DOMAIN all = 1..Len(all)
    BY <1>2
  <2>. QED
    BY <2>1, <2>2 DEF ToSet
<1>4. MovesAsked(all) \subseteq MovesAsked(more) /\ t \in MovesAsked(more)
  BY <1>3 DEF MovesAsked
<1>5. nfts \in Seq(MovesAsked(more))
  BY <1>4 DEF NftsAsked
<1>6. ASSUME NEW n \in NftEntries, ~Shared(more, n)
      PROVE  new \in Seq(MovesAsked(more)) /\ Weigh(MoveWeight(n), new) = Weigh(MoveWeight(n), more)
  <2>1. /\ new \in Seq(MovesAsked(more))
        /\ Weigh(MoveWeight(n), new) = Weigh(MoveWeight(n), nfts) + MoveWeight(n)[t]
    BY <1>1, <1>4, <1>5, <1>6, NftsMerge
  <2>2. Weighing(NftEntries, MoveWeight(n))
    BY WeightsOfEntries
  <2>3. Weigh(MoveWeight(n), more) = Weigh(MoveWeight(n), all) + MoveWeight(n)[t]
    BY <1>1, <2>2, WeighAppend
  <2>4. ~Shared(all, n)
    BY <1>3, <1>6 DEF Shared
  <2>. QED
    BY <2>1, <2>3, <2>4 DEF NftsAsked
<1>7. new \in Seq(MovesAsked(more))
  BY <1>1, <1>4, <1>5, NftsMerge DEF MovesAsked
<1>. QED
  BY <1>1, <1>2, <1>6, <1>7 DEF NftsAsked

-----------------------------------------------------------------------------
(* An object with the same transfers, and one with others.                                         *)
LEMMA SameTransfers ==
    ASSUME NEW t, NEW all, AsAsked(t, all), NEW u, u.hbars = t.hbars, u.tokens = t.tokens, u.nfts = t.nfts
    PROVE  AsAsked(u, all)
BY DEF AsAsked

(* Only the transfers that were changed are others.                                                *)
LEMMA TransfersChanged ==
    ASSUME NEW t, IsTx(t), NEW v
    PROVE  /\ \A u : u \in {[t EXCEPT !.fields = v], [t EXCEPT !.inner = v]} =>
                        u.hbars = t.hbars /\ u.tokens = t.tokens /\ u.nfts = t.nfts
           /\ \A u : u = [t EXCEPT !.hbars = v] => u.hbars = v /\ u.tokens = t.tokens /\ u.nfts = t.nfts
           /\ \A u : u = [t EXCEPT !.tokens = v] => u.hbars = t.hbars /\ u.tokens = v /\ u.nfts = t.nfts
           /\ \A u : u = [t EXCEPT !.nfts = v] => u.hbars = t.hbars /\ u.tokens = t.tokens /\ u.nfts = v
BY DEF IsTx

(* What was asked for, with one more transfer.                                                     *)
LEMMA HbarsChanged ==
    ASSUME NEW all, AreEntries(all), NEW u, NEW v, u = [all EXCEPT !.hbars = v], v \in Seq(HbarEntries)
    PROVE  AreEntries(u) /\ u.hbars = v /\ u.tokens = all.tokens /\ u.nfts = all.nfts
BY DEF AreEntries

LEMMA TokensChanged ==
    ASSUME NEW all, AreEntries(all), NEW u, NEW v, u = [all EXCEPT !.tokens = v], v \in Seq(TokenEntries)
    PROVE  AreEntries(u) /\ u.hbars = all.hbars /\ u.tokens = v /\ u.nfts = all.nfts
BY DEF AreEntries

LEMMA NftsChanged ==
    ASSUME NEW all, AreEntries(all), NEW u, NEW v, u = [all EXCEPT !.nfts = v], v \in Seq(NftEntries)
    PROVE  AreEntries(u) /\ u.hbars = all.hbars /\ u.tokens = all.tokens /\ u.nfts = v
BY DEF AreEntries

(* What touches neither, and a new object.                                                         *)
LEMMA NetStays ==
    ASSUME NetInv, UNCHANGED <<tx, asked, made>>
    PROVE  NetInv'
BY DEF NetInv, Carrier

LEMMA NetInit == ASSUME Init PROVE NetInv
<1>1. PICK none : none = <<>>
  OBVIOUS
<1>2. asked = [hbars |-> none, tokens |-> none, nfts |-> none] /\ made = <<>>
  BY <1>1, Zenon DEF Init
<1>3. asked.hbars = none /\ asked.tokens = none /\ asked.nfts = none
  BY <1>2
<1>4. AreEntries(asked)
  BY <1>1, <1>2, <1>3 DEF AreEntries
<1>5. tx.hbars = none /\ tx.tokens = none /\ tx.nfts = none
  <2>1. ASSUME NEW c, NEW fs, NEW t, t = New(c, fs) PROVE t.hbars = none /\ t.tokens = none /\ t.nfts = none
    <3>1. t = [class |-> c, fields |-> fs, hbars |-> none, tokens |-> none, nfts |-> none, inner |-> none]
      BY <1>1, <2>1, Zenon DEF New
    <3>. QED
      BY ONLY <3>1
  <2>2. PICK c, fs : tx = IF c = "ScheduleCreate" THEN NewSchedule(DefaultWrapped) ELSE New(c, fs)
    BY Zenon DEF Init
  <2>3. CASE tx = NewSchedule(DefaultWrapped)
    <3>1. PICK gs, n, w : n = New("ScheduleCreate", gs) /\ tx = [n EXCEPT !.inner = w]
      BY <2>3, Zenon DEF NewSchedule
    <3>2. IsTx(n)
      BY <3>1, NewIs
    <3>. QED
      BY <2>1, <3>1, <3>2, TransfersChanged
  <2>4. CASE tx = New(c, fs)
    BY <2>1, <2>4
  <2>. QED
    BY <2>2, <2>3, <2>4
<1>6. HbarsAsked(none, none) /\ TokensAsked(none, none) /\ NftsAsked(none, none)
  BY <1>1 DEF HbarsAsked, TokensAsked, NftsAsked
<1>. QED
  BY <1>2, <1>3, <1>4, <1>5, <1>6 DEF NetInv, Carrier, AsAsked

(* One more transfer.  A schedule takes none, so it is that of the object.                         *)
LEMMA NetHbar == ASSUME DataInv, NetInv, AddHbarTransfer PROVE NetInv'
<1>1. PICK account \in Accounts, amount \in Amounts, approved \in BOOLEAN :
      \E t :
        /\ t = [account |-> account, amount |-> amount, approved |-> approved]
        /\ tx' = [tx EXCEPT !.hbars = DoHbarTransfer(tx.hbars, t)]
        /\ asked' = [asked EXCEPT !.hbars = Append(asked.hbars, t)]
  BY Zenon DEF AddHbarTransfer
<1>2. PICK t :
        /\ t = [account |-> account, amount |-> amount, approved |-> approved]
        /\ tx' = [tx EXCEPT !.hbars = DoHbarTransfer(tx.hbars, t)]
        /\ asked' = [asked EXCEPT !.hbars = Append(asked.hbars, t)]
  BY <1>1, Zenon
<1>3. amount \in Int
  BY <1>1, <1>2, DataAssumption
<1>4. t \in HbarEntries
  BY <1>1, <1>2, <1>3 DEF HbarEntries
<1>5. made = <<>> /\ made' = made
  BY DEF AddHbarTransfer, DataInv
<1>6. AreEntries(asked) /\ AsAsked(tx, asked) /\ IsTx(tx)
  BY <1>5 DEF NetInv, Carrier, DataInv, TxOK
<1>7. PICK more, new : more = Append(asked.hbars, t) /\ new = DoHbarTransfer(tx.hbars, t)
  OBVIOUS
<1>8. more \in Seq(HbarEntries) /\ HbarsAsked(new, more)
  BY <1>4, <1>6, <1>7, HbarAsked DEF AreEntries, AsAsked
<1>9. AreEntries(asked') /\ asked'.hbars = more /\ asked'.tokens = asked.tokens /\ asked'.nfts = asked.nfts
  <2>1. PICK a, b : a = asked /\ b = asked'
    OBVIOUS
  <2>2. AreEntries(a) /\ b = [a EXCEPT !.hbars = more] /\ more \in Seq(HbarEntries)
    BY <1>1, <1>2, <1>6, <1>7, <1>8, <2>1
  <2>3. AreEntries(b) /\ b.hbars = more /\ b.tokens = a.tokens /\ b.nfts = a.nfts
    BY ONLY <2>2, HbarsChanged
  <2>4. AreEntries(asked')
    BY <2>1, <2>3, Zenon
  <2>. QED
    BY <2>1, <2>3, <2>4
<1>10. tx'.hbars = new /\ tx'.tokens = tx.tokens /\ tx'.nfts = tx.nfts
  BY <1>1, <1>2, <1>6, <1>7, TransfersChanged
<1>11. AsAsked(tx', asked')
  BY <1>6, <1>8, <1>9, <1>10 DEF AsAsked
<1>. QED
  BY <1>5, <1>9, <1>11 DEF NetInv, Carrier

(* A token transfer, unless it expects other decimals.                                             *)
LEMMA NetToken == ASSUME DataInv, NetInv, AddTokenTransfer, ~UNCHANGED vars PROVE NetInv'
<1>1. PICK token \in Tokens, account \in Accounts, amount \in Amounts, decimals \in Decimals, approved \in BOOLEAN :
        LET t == [token |-> token, account |-> account, amount |-> amount, decimals |-> decimals,
                  approved |-> approved]
        IN  IF ~DecimalsMatch(tx.tokens, t) THEN Throw
            ELSE /\ tx' = [tx EXCEPT !.tokens = DoTokenTransfer(tx.tokens, t)]
                 /\ asked' = [asked EXCEPT !.tokens = Append(asked.tokens, t)]
                 /\ foreign' \in ForeignAfter("mTokenTransfers", tx.tokens, tx'.tokens)
                 /\ UNCHANGED <<nodes, frozen, service, misdirected, wanted, made, sets>>
  BY Zenon DEF AddTokenTransfer
<1>2. PICK t :
        /\ t = [token |-> token, account |-> account, amount |-> amount, decimals |-> decimals,
                approved |-> approved]
        /\ tx' = [tx EXCEPT !.tokens = DoTokenTransfer(tx.tokens, t)]
        /\ asked' = [asked EXCEPT !.tokens = Append(asked.tokens, t)]
        /\ made' = made
  BY <1>1, Zenon DEF Throw
<1>3. amount \in Int /\ decimals \in Nat
  BY <1>1, <1>2, DataAssumption
<1>4. t \in TokenEntries
  BY <1>1, <1>2, <1>3 DEF TokenEntries
<1>5. made = <<>> /\ made' = made
  BY <1>1, <1>2 DEF AddTokenTransfer, DataInv, TransferClasses
<1>6. AreEntries(asked) /\ AsAsked(tx, asked) /\ IsTx(tx)
  BY <1>5 DEF NetInv, Carrier, DataInv, TxOK
<1>7. PICK more, new : more = Append(asked.tokens, t) /\ new = DoTokenTransfer(tx.tokens, t)
  OBVIOUS
<1>8. more \in Seq(TokenEntries) /\ TokensAsked(new, more)
  BY <1>4, <1>6, <1>7, TokenAsked DEF AreEntries, AsAsked
<1>9. AreEntries(asked') /\ asked'.hbars = asked.hbars /\ asked'.tokens = more /\ asked'.nfts = asked.nfts
  <2>1. PICK a, b : a = asked /\ b = asked'
    OBVIOUS
  <2>2. AreEntries(a) /\ b = [a EXCEPT !.tokens = more] /\ more \in Seq(TokenEntries)
    BY <1>1, <1>2, <1>6, <1>7, <1>8, <2>1
  <2>3. AreEntries(b) /\ b.tokens = more /\ b.hbars = a.hbars /\ b.nfts = a.nfts
    BY ONLY <2>2, TokensChanged
  <2>4. AreEntries(asked')
    BY <2>1, <2>3, Zenon
  <2>. QED
    BY <2>1, <2>3, <2>4
<1>10. tx'.hbars = tx.hbars /\ tx'.tokens = new /\ tx'.nfts = tx.nfts
  BY <1>1, <1>2, <1>6, <1>7, TransfersChanged
<1>11. AsAsked(tx', asked')
  BY <1>6, <1>8, <1>9, <1>10 DEF AsAsked
<1>. QED
  BY <1>5, <1>9, <1>11 DEF NetInv, Carrier

(* A move of an NFT.                                                                               *)
LEMMA NetNft == ASSUME DataInv, NetInv, AddNftTransfer PROVE NetInv'
<1>1. PICK token \in Tokens, serial \in Serials, sender \in Accounts, receiver \in Accounts, approved \in BOOLEAN :
        LET t == [token |-> token, serial |-> serial, sender |-> sender, receiver |-> receiver,
                  approved |-> approved]
        IN  /\ sender # receiver
            /\ tx' = [tx EXCEPT !.nfts = DoNftTransfer(tx.nfts, t)]
            /\ asked' = [asked EXCEPT !.nfts = Append(asked.nfts, t)]
            /\ foreign' \in ForeignAfter("mNftTransfers", tx.nfts, tx'.nfts)
  BY Zenon DEF AddNftTransfer
<1>2. PICK t :
        /\ t = [token |-> token, serial |-> serial, sender |-> sender, receiver |-> receiver,
                approved |-> approved]
        /\ sender # receiver
        /\ tx' = [tx EXCEPT !.nfts = DoNftTransfer(tx.nfts, t)]
        /\ asked' = [asked EXCEPT !.nfts = Append(asked.nfts, t)]
  BY <1>1, Zenon
<1>3. t \in NftEntries
  BY <1>1, <1>2 DEF NftEntries
<1>4. made = <<>> /\ made' = made
  BY DEF AddNftTransfer, DataInv, TransferClasses
<1>5. AreEntries(asked) /\ AsAsked(tx, asked) /\ IsTx(tx)
  BY <1>4 DEF NetInv, Carrier, DataInv, TxOK
<1>6. PICK more, new : more = Append(asked.nfts, t) /\ new = DoNftTransfer(tx.nfts, t)
  OBVIOUS
<1>7. more \in Seq(NftEntries) /\ NftsAsked(new, more)
  BY <1>3, <1>5, <1>6, NftAsked DEF AreEntries, AsAsked
<1>8. AreEntries(asked') /\ asked'.hbars = asked.hbars /\ asked'.tokens = asked.tokens /\ asked'.nfts = more
  <2>1. PICK a, b : a = asked /\ b = asked'
    OBVIOUS
  <2>2. AreEntries(a) /\ b = [a EXCEPT !.nfts = more] /\ more \in Seq(NftEntries)
    BY <1>1, <1>2, <1>5, <1>6, <1>7, <2>1
  <2>3. AreEntries(b) /\ b.nfts = more /\ b.hbars = a.hbars /\ b.tokens = a.tokens
    BY ONLY <2>2, NftsChanged
  <2>4. AreEntries(asked')
    BY <2>1, <2>3, Zenon
  <2>. QED
    BY <2>1, <2>3, <2>4
<1>9. tx'.hbars = tx.hbars /\ tx'.tokens = tx.tokens /\ tx'.nfts = new
  BY <1>1, <1>2, <1>5, <1>6, TransfersChanged
<1>10. AsAsked(tx', asked')
  BY <1>5, <1>7, <1>8, <1>9 DEF AsAsked
<1>. QED
  BY <1>4, <1>8, <1>10 DEF NetInv, Carrier

(* Bytes.                                                                                          *)
LEMMA NetRestore == ASSUME DataInv, NetInv, SaveAndRestore, ~UNCHANGED vars PROVE NetInv'
<1>1. PICK again : again = Reload(Body(tx), nodes)
  OBVIOUS
<1>2. CanBuild(tx) /\ again # <<>> /\ tx' = again[1] /\ UNCHANGED <<made, asked>>
  BY <1>1, Zenon DEF SaveAndRestore, Throw
<1>3. /\ AsAsked(tx, asked) => AsAsked(tx', asked)
      /\ tx.class = "ScheduleCreate" /\ AsAsked(tx.inner[1], asked) => AsAsked(tx'.inner[1], asked)
  BY <1>1, <1>2, ReloadedAsAsked DEF DataInv
<1>4. CASE made = <<>>
  BY <1>2, <1>3, <1>4 DEF NetInv, Carrier
<1>5. CASE made # <<>>
  <2>1. tx.class = "ScheduleCreate"
    BY <1>5 DEF DataInv
  <2>. QED
    BY <1>2, <1>3, <1>5, <2>1 DEF NetInv, Carrier
<1>. QED
  BY <1>4, <1>5

(* What was scheduled holds the transfers from now on.                                             *)
LEMMA NetSchedules ==
    ASSUME NetInv, made = <<>>, NEW w, Schedules(w), AsAsked(tx, asked) => AsAsked(w, asked)
    PROVE  NetInv'
<1>1. tx' = NewSchedule(w) /\ made' = <<tx>> /\ asked' = asked
  BY DEF Schedules
<1>2. tx'.inner = <<w>>
  BY <1>1, NewScheduleIs
<1>3. Carrier = tx /\ Carrier' = w
  BY <1>1, <1>2 DEF Carrier
<1>. QED
  BY <1>1, <1>3 DEF NetInv

(* Every step of the object keeps the transfers as they were asked for.                            *)
LEMMA NetStep == ASSUME DataInv, NetInv, Next PROVE NetInv'
<1>1. CASE UNCHANGED vars \/ SetNodeAccountIds \/ Freeze \/ \E validating \in BOOLEAN : Execute(validating)
  <2>1. UNCHANGED <<tx, asked, made>>
    BY <1>1, Zenon DEF vars, SetNodeAccountIds, Freeze, Execute, Submit, Throw
  <2>. QED
    BY <2>1, NetStays
<1>2. CASE Set
  <2>1. (\E v : tx' = [tx EXCEPT !.fields = v]) /\ UNCHANGED <<asked, made>>
    BY <1>2, Zenon DEF Set
  <2>2. IsTx(tx)
    BY DEF DataInv, TxOK
  <2>3. tx'.hbars = tx.hbars /\ tx'.tokens = tx.tokens /\ tx'.nfts = tx.nfts /\ tx'.inner = tx.inner
    BY <2>1, <2>2, TransfersChanged, TxChanged
  <2>4. AsAsked(tx, asked) => AsAsked(tx', asked)
    BY <2>3, SameTransfers
  <2>. QED
    BY <2>1, <2>3, <2>4 DEF NetInv, Carrier
<1>3. CASE ~UNCHANGED vars /\ Schedule
  <2>1. PICK wrapped, b, c, no : /\ wrapped = Construct(c, b, no) /\ b = PlainBody(tx) /\ no = FALSE
                                 /\ c = FromTransactionBody(CaseOf(tx.class))
    OBVIOUS
  <2>2. made = <<>> /\ wrapped # <<>> /\ Schedules(wrapped[1])
    BY <1>3, <2>1, Zenon DEF Schedule, Throw
  <2>3. b.hbars = tx.hbars /\ b.lists = TokenTransferLists(tx.tokens, tx.nfts)
    BY <2>1, BodyHolds
  <2>4. AsAsked(tx, asked) => AsAsked(wrapped[1], asked)
    BY <2>1, <2>2, <2>3, ConstructedAsAsked
  <2>. QED
    BY <2>2, <2>4, NetSchedules
<1>4. CASE SetScheduledTransaction
  <2>1. PICK none, w : none = <<>> /\ w = [tx EXCEPT !.inner = none]
    OBVIOUS
  <2>2. made = <<>> /\ Schedules(w)
    BY <1>4, <2>1, Zenon DEF SetScheduledTransaction
  <2>3. IsTx(tx)
    BY DEF DataInv, TxOK
  <2>4. w.hbars = tx.hbars /\ w.tokens = tx.tokens /\ w.nfts = tx.nfts
    BY <2>1, <2>3, TransfersChanged
  <2>5. AsAsked(tx, asked) => AsAsked(w, asked)
    BY <2>4, SameTransfers
  <2>. QED
    BY <2>2, <2>5, NetSchedules
<1>. QED
  BY <1>1, <1>2, <1>3, <1>4, NetHbar, NetToken, NetNft, NetRestore, Zenon DEF Next

(* However transfers were merged, written in lists by token, read, scheduled and added to, those   *)
(* of a body add up to what was asked for, and the decimals of a list are some that were named     *)
(* (doHbarTransfer, doTokenTransfer, doNftTransfer, build and initFromSourceTransactionBody).      *)
THEOREM TransfersAddUp == MCSpec => []TransfersNetOut
<1>1. MCInit => DataInv /\ NetInv
  BY DataInit, NetInit, Zenon DEF MCInit, OtherTransaction
<1>2. DataInv /\ NetInv /\ [MCNext]_<<part, vars, answerParts, idParts>> => DataInv' /\ NetInv'
  <2> SUFFICES ASSUME DataInv, NetInv, [MCNext]_<<part, vars, answerParts, idParts>> PROVE DataInv' /\ NetInv'
    OBVIOUS
  <2>1. CASE Next
    BY <2>1, DataStep, NetStep
  <2>2. CASE UNCHANGED vars
    BY <2>2, DataStays, NetStays DEF vars, DataInv, TxOK
  <2>. QED
    BY <2>1, <2>2, Zenon DEF MCNext
<1>3. NetInv => TransfersNetOut
  <2> SUFFICES ASSUME NetInv PROVE TransfersNetOut
    OBVIOUS
  <2>1. PICK t, body, lists, L : /\ t = Carrier /\ body = PlainBody(t) /\ lists = body.lists
                                 /\ L = BodyLists(asked.tokens, asked.nfts)
    OBVIOUS
  <2>2. /\ AreEntries(asked) /\ HbarsAsked(t.hbars, asked.hbars) /\ TokensAsked(t.tokens, asked.tokens)
        /\ NftsAsked(t.nfts, asked.nfts)
    BY <2>1 DEF NetInv, AsAsked
  <2>3. body.hbars = t.hbars /\ lists = TokenTransferLists(t.tokens, t.nfts)
    BY <2>1, BodyHolds
  <2>4. t.tokens \in Seq(NamedEntries(asked.tokens)) /\ t.nfts \in Seq(MovesAsked(asked.nfts))
    BY <2>2 DEF TokensAsked, NftsAsked
  <2>5. lists \in Seq(L)
    BY <2>1, <2>3, <2>4, TokenTransferListsAre
  <2>6. DOMAIN lists = 1..Len(lists) /\ \A i \in 1..Len(lists) : lists[i] \in L
    BY <2>5, ElementOfSeq
  <2>7. ASSUME NEW l \in L
        PROVE  /\ l.transfers \in Seq(TokenEntries) /\ l.nfts \in Seq(NftEntries)
               /\ l.transfers # <<>> => Named(asked.tokens, l.token, l.decimals)
    <3>1. l.nfts \in Seq(MovesAsked(asked.nfts)) /\ MovesAsked(asked.nfts) \subseteq NftEntries
      BY <2>1 DEF BodyLists, MovesAsked
    <3>. QED
      BY <2>1, <3>1 DEF BodyLists
  <2>8. ASSUME NEW k PROVE Total(HbarAmounts(body.hbars, k)) = Total(HbarAmounts(asked.hbars, k))
    BY <2>2, <2>3, WeightsOfEntries DEF AreEntries, HbarsAsked
  <2>9. ASSUME NEW k
        PROVE  Total([i \in DOMAIN lists |-> Total(TokenAmounts(lists[i].transfers, k))])
                   = Total(TokenAmounts(asked.tokens, k))
    <3>1. PICK w : w = TokenWeight(k)
      OBVIOUS
    <3>2. \A i \in 1..Len(lists) : OfTransfers(L, w)[lists[i]] = Total(TokenAmounts(lists[i].transfers, k))
      BY <2>6, <2>7, <3>1, WeightsOfEntries DEF OfTransfers
    <3>3. Weights(OfTransfers(L, w), lists) = [i \in DOMAIN lists |-> Total(TokenAmounts(lists[i].transfers, k))]
      BY <2>6, <3>2 DEF Weights
    <3>4. Weigh(OfTransfers(L, w), lists) = Weigh(w, t.tokens)
      BY <2>1, <2>3, <2>4, <3>1, TokenTransferListsAre
    <3>5. /\ Weigh(w, t.tokens) = Weigh(w, asked.tokens)
          /\ Weigh(w, asked.tokens) = Total(TokenAmounts(asked.tokens, k))
      BY <2>2, <3>1, WeightsOfEntries DEF AreEntries, TokensAsked
    <3>. QED
      BY <3>3, <3>4, <3>5 DEF Weigh
  <2>10. ASSUME NEW n \in ToSet(asked.nfts), ~Shared(asked.nfts, n)
         PROVE  Total([i \in DOMAIN lists |-> Total(Moves(lists[i].nfts, n))]) = Total(Moves(asked.nfts, n))
    <3>1. PICK w : w = MoveWeight(n)
      OBVIOUS
    <3>2. \A i \in 1..Len(lists) : OfNfts(L, w)[lists[i]] = Total(Moves(lists[i].nfts, n))
      BY <2>6, <2>7, <3>1, WeightsOfEntries DEF OfNfts
    <3>3. Weights(OfNfts(L, w), lists) = [i \in DOMAIN lists |-> Total(Moves(lists[i].nfts, n))]
      BY <2>6, <3>2 DEF Weights
    <3>4. Weigh(OfNfts(L, w), lists) = Weigh(w, t.nfts)
      BY <2>1, <2>3, <2>4, <3>1, TokenTransferListsAre
    <3>5. n \in NftEntries
      BY <2>2, ElementOfSeq DEF AreEntries, ToSet
    <3>6. Weigh(w, t.nfts) = Weigh(w, asked.nfts) /\ Weigh(w, asked.nfts) = Total(Moves(asked.nfts, n))
      BY <2>2, <2>10, <3>1, <3>5, WeightsOfEntries DEF AreEntries, NftsAsked
    <3>. QED
      BY <3>3, <3>4, <3>6 DEF Weigh
  <2>11. ASSUME NEW list \in ToSet(lists), list.transfers # <<>>
         PROVE  Named(asked.tokens, list.token, list.decimals)
    BY <2>6, <2>7, <2>11 DEF ToSet
  <2>. QED
    BY <2>1, <2>8, <2>9, <2>10, <2>11, Zenon DEF TransfersNetOut
<1>. QED
  BY <1>1, <1>2, <1>3, PTL DEF MCSpec

-----------------------------------------------------------------------------
(* Answers.  The classes that lose something in bytes, or hold objects that do.  What the table    *)
(* says of every class: what it loses in bytes and by being read is known, the default is read as  *)
(* nothing only where nothing is not read as the default, only one holds what is scheduled, and    *)
(* only one dereferences pointers.                                                                 *)
Lossy == {"AccountBalance", "AccountInfo", "AccountRecords", "ContractInfo", "TokenNftTransfer",
          "TokenRelationship", "TokenTransfer", "TransactionReceipt", "TransactionRecord"}
Known(c, f) == c \in A!InnerClasses \/ <<c, f>> \in A!KnownLosses
AnswerRow(c, r) ==
    /\ c \in Lossy \/ (r.unwritten = {} /\ r.partly = {})
    /\ \A p \in r.nested : p[2] \in Lossy => c \in Lossy /\ Known(c, p[1])
    /\ \A f \in r.unwritten \cup r.partly : Known(c, f)
    /\ \A f \in r.zeroIsNone : f \notin r.plain \cup r.alwaysSet
    /\ \A p \in r.impliedWithout : Known(c, p[1]) /\ p[1] \notin r.zeroIsNone
    /\ \A f \in r.scheduled \cup r.results : <<c, f>> \in A!ReadLosses
    /\ r.scheduled # {} => c = "ScheduleInfo"
    /\ r.dereferenced # {} => c = "TokenInfo"

LEMMA AnswerFacts ==
    ASSUME NEW c \in A!ResponseClasses
    PROVE  AnswerRow(c, A!Responses[c])
<1>1. /\ AnswerRow("Bytes", A!Bytes)
      /\ AnswerRow("AccountBalance", A!AccountBalance)
      /\ AnswerRow("AccountInfo", A!AccountInfo)
      /\ AnswerRow("AccountRecords", A!AccountRecords)
      /\ AnswerRow("AssessedCustomFee", A!AssessedCustomFee)
  BY DEF AnswerRow, Known, Lossy, A!KnownLosses, A!ReadLosses, A!InnerClasses, A!Serialized,
         A!Bytes, A!BytesMembers, A!AccountBalance, A!AccountBalanceMembers,
         A!AccountInfo, A!AccountInfoMembers, A!AccountRecords, A!AccountRecordsMembers,
         A!AssessedCustomFee, A!AssessedCustomFeeMembers
<1>2. /\ AnswerRow("ContractFunctionResult", A!ContractFunctionResult)
      /\ AnswerRow("ContractInfo", A!ContractInfo)
      /\ AnswerRow("ContractLogInfo", A!ContractLogInfo)
      /\ AnswerRow("ContractNonceInfo", A!ContractNonceInfo)
      /\ AnswerRow("CustomFixedFee", A!CustomFixedFee)
  BY DEF AnswerRow, Known, Lossy, A!KnownLosses, A!ReadLosses, A!InnerClasses, A!Serialized,
         A!ContractFunctionResult, A!ContractFunctionResultMembers, A!ContractInfo, A!ContractInfoMembers,
         A!ContractLogInfo, A!ContractLogInfoMembers, A!ContractNonceInfo, A!ContractNonceInfoMembers,
         A!CustomFixedFee, A!CustomFixedFeeMembers
<1>3. /\ AnswerRow("CustomFractionalFee", A!CustomFractionalFee)
      /\ AnswerRow("CustomRoyaltyFee", A!CustomRoyaltyFee)
      /\ AnswerRow("Endpoint", A!Endpoint)
      /\ AnswerRow("ExchangeRate", A!ExchangeRate)
      /\ AnswerRow("ExchangeRates", A!ExchangeRates)
  BY DEF AnswerRow, Known, Lossy, A!KnownLosses, A!ReadLosses, A!InnerClasses, A!Serialized,
         A!CustomFractionalFee, A!CustomFractionalFeeMembers, A!CustomRoyaltyFee, A!CustomRoyaltyFeeMembers,
         A!Endpoint, A!EndpointMembers, A!ExchangeRate, A!ExchangeRateMembers,
         A!ExchangeRates, A!ExchangeRatesMembers
<1>4. /\ AnswerRow("FeeComponents", A!FeeComponents)
      /\ AnswerRow("FeeData", A!FeeData)
      /\ AnswerRow("FeeSchedule", A!FeeSchedule)
      /\ AnswerRow("FeeSchedules", A!FeeSchedules)
      /\ AnswerRow("FileInfo", A!FileInfo)
  BY DEF AnswerRow, Known, Lossy, A!KnownLosses, A!ReadLosses, A!InnerClasses, A!Serialized,
         A!FeeComponents, A!FeeComponentsMembers, A!FeeData, A!FeeDataMembers,
         A!FeeSchedule, A!FeeScheduleMembers, A!FeeSchedules, A!FeeSchedulesMembers,
         A!FileInfo, A!FileInfoMembers
<1>5. /\ AnswerRow("HbarAllowance", A!HbarAllowance)
      /\ AnswerRow("HbarTransfer", A!HbarTransfer)
      /\ AnswerRow("NetworkVersionInfo", A!NetworkVersionInfo)
      /\ AnswerRow("NodeAddress", A!NodeAddress)
      /\ AnswerRow("NodeAddressBook", A!NodeAddressBook)
  BY DEF AnswerRow, Known, Lossy, A!KnownLosses, A!ReadLosses, A!InnerClasses, A!Serialized,
         A!HbarAllowance, A!HbarAllowanceMembers, A!HbarTransfer, A!HbarTransferMembers,
         A!NetworkVersionInfo, A!NetworkVersionInfoMembers, A!NodeAddress, A!NodeAddressMembers,
         A!NodeAddressBook, A!NodeAddressBookMembers
<1>6. /\ AnswerRow("PendingAirdropId", A!PendingAirdropId)
      /\ AnswerRow("PendingAirdropRecord", A!PendingAirdropRecord)
      /\ AnswerRow("ProxyStaker", A!ProxyStaker)
      /\ AnswerRow("ScheduleInfo", A!ScheduleInfo)
      /\ AnswerRow("SemanticVersion", A!SemanticVersion)
  BY DEF AnswerRow, Known, Lossy, A!KnownLosses, A!ReadLosses, A!InnerClasses, A!Serialized,
         A!PendingAirdropId, A!PendingAirdropIdMembers, A!PendingAirdropRecord, A!PendingAirdropRecordMembers,
         A!ProxyStaker, A!ProxyStakerMembers, A!ScheduleInfo, A!ScheduleInfoMembers,
         A!SemanticVersion, A!SemanticVersionMembers
<1>7. /\ AnswerRow("StakingInfo", A!StakingInfo)
      /\ AnswerRow("TokenAllowance", A!TokenAllowance)
      /\ AnswerRow("TokenAssociation", A!TokenAssociation)
      /\ AnswerRow("TokenInfo", A!TokenInfo)
      /\ AnswerRow("TokenNftAllowance", A!TokenNftAllowance)
  BY DEF AnswerRow, Known, Lossy, A!KnownLosses, A!ReadLosses, A!InnerClasses, A!Serialized,
         A!StakingInfo, A!StakingInfoMembers, A!TokenAllowance, A!TokenAllowanceMembers,
         A!TokenAssociation, A!TokenAssociationMembers, A!TokenInfo, A!TokenInfoMembers,
         A!TokenNftAllowance, A!TokenNftAllowanceMembers
<1>8. /\ AnswerRow("TokenNftInfo", A!TokenNftInfo)
      /\ AnswerRow("TokenNftTransfer", A!TokenNftTransfer)
      /\ AnswerRow("TokenRelationship", A!TokenRelationship)
      /\ AnswerRow("TokenTransfer", A!TokenTransfer)
      /\ AnswerRow("TopicInfo", A!TopicInfo)
  BY DEF AnswerRow, Known, Lossy, A!KnownLosses, A!ReadLosses, A!InnerClasses, A!Serialized,
         A!TokenNftInfo, A!TokenNftInfoMembers, A!TokenNftTransfer, A!TokenNftTransferMembers,
         A!TokenRelationship, A!TokenRelationshipMembers, A!TokenTransfer, A!TokenTransferMembers,
         A!TopicInfo, A!TopicInfoMembers
<1>9. /\ AnswerRow("TransactionFeeSchedule", A!TransactionFeeSchedule)
      /\ AnswerRow("TransactionReceipt", A!TransactionReceipt)
      /\ AnswerRow("TransactionRecord", A!TransactionRecord)
  BY DEF AnswerRow, Known, Lossy, A!KnownLosses, A!ReadLosses, A!InnerClasses, A!Serialized,
         A!TransactionFeeSchedule, A!TransactionFeeScheduleMembers, A!TransactionReceipt, A!TransactionReceiptMembers,
         A!TransactionRecord, A!TransactionRecordMembers
<1>. QED
  BY <1>1, <1>2, <1>3, <1>4, <1>5, <1>6, <1>7, <1>8, <1>9 DEF A!ResponseClasses, A!Responses

(* No other class loses anything, however deep the nesting is followed.                            *)
LEMMA LossyAre == A!LossyClasses \subseteq Lossy
<1> DEFINE zero == {c \in A!ResponseClasses : A!Responses[c].unwritten \cup A!Responses[c].partly # {}}
           more(S) == S \cup {c \in A!ResponseClasses : \E p \in A!Responses[c].nested : p[2] \in S}
           deeper(L) == [depth \in 0..5 |-> IF depth = 0 THEN zero ELSE more(L[depth - 1])]
<1>1. A!LossyWithin = CHOOSE L : L = deeper(L)
  BY Zenon DEF A!LossyWithin, A!NestingDepth
<1>2. \E L : L = deeper(L)
  <2>1. PICK none, one, two, three, four, five :
          /\ none = zero /\ one = more(none) /\ two = more(one) /\ three = more(two) /\ four = more(three)
          /\ five = more(four)
    OBVIOUS
  <2> DEFINE L == [depth \in 0..5 |-> IF depth = 0 THEN none ELSE IF depth = 1 THEN one ELSE IF depth = 2 THEN two
                                      ELSE IF depth = 3 THEN three ELSE IF depth = 4 THEN four ELSE five]
  <2>2. L[0] = none /\ L[1] = one /\ L[2] = two /\ L[3] = three /\ L[4] = four /\ L[5] = five
    OBVIOUS
  <2> HIDE DEF more, zero
  <2>3. \A depth \in 0..5 : L[depth] = IF depth = 0 THEN zero ELSE more(L[depth - 1])
    <3> HIDE DEF L
    <3>1. /\ L[0] = zero /\ L[1] = more(L[0]) /\ L[2] = more(L[1]) /\ L[3] = more(L[2])
          /\ L[4] = more(L[3]) /\ L[5] = more(L[4])
      BY <2>1, <2>2
    <3>. QED
      BY <3>1
  <2>4. L = deeper(L)
    BY <2>3
  <2>. QED
    BY <2>4
<1>3. PICK L : L = A!LossyWithin /\ L = deeper(L)
  BY <1>1, <1>2, Zenon
<1>4. zero \subseteq Lossy
  BY AnswerFacts DEF AnswerRow
<1>5. ASSUME NEW S, S \subseteq Lossy PROVE more(S) \subseteq Lossy
  BY <1>5, AnswerFacts DEF AnswerRow
<1> HIDE DEF more, zero
<1>6. /\ L[0] = zero /\ L[1] = more(L[0]) /\ L[2] = more(L[1]) /\ L[3] = more(L[2])
      /\ L[4] = more(L[3]) /\ L[5] = more(L[4])
  <2>1. \A depth \in 0..5 : L[depth] = IF depth = 0 THEN zero ELSE more(L[depth - 1])
    BY <1>3
  <2> HIDE DEF deeper
  <2>. QED
    BY <2>1
<1>7. L[5] \subseteq Lossy
  BY <1>4, <1>5, <1>6
<1>. QED
  BY <1>3, <1>7 DEF A!LossyClasses, A!NestingDepth

(* What is read is what the message says, but for the known losses.                                *)
LEMMA ReadAsGiven ==
    ASSUME NEW c \in A!ResponseClasses, NEW m, NEW f \in A!Members(c), NEW o, o = A!FromProtobuf(c, m)[f]
    PROVE  \/ o = m[f] \/ {o, m[f]} \subseteq A!Unset
           \/ o = "Part" /\ <<c, f>> \in A!ReadLosses
<1>1. PICK r : r = A!Responses[c] /\ AnswerRow(c, r)
  BY AnswerFacts
<1>2. \/ f \in r.scheduled \cup r.results /\ o = "Part"
      \/ m[f] = "Empty" /\ o = "None"
      \/ m[f] = "None" /\ o = "Empty"
      \/ o = m[f]
  BY <1>1 DEF A!FromProtobuf, A!ReadMember
<1>. QED
  BY <1>1, <1>2 DEF AnswerRow, A!Unset

(* Reading what was written of an object gives every member back that is not known to be lost:     *)
(* what was read of a failed call's result has lost its selector, so it is not taken again.        *)
LEMMA WrittenAsHeld ==
    ASSUME NEW c \in A!ResponseClasses, NEW o, NEW f \in A!Members(c), ~Known(c, f)
    PROVE  A!ToProtobuf(c, o)[f] = o[f]
<1>1. PICK r : r = A!Responses[c]
  OBVIOUS
<1>2. /\ f \notin r.unwritten /\ f \notin r.partly
      /\ \A p \in r.nested : p[1] = f => p[2] \notin A!LossyClasses
  BY <1>1, AnswerFacts, LossyAre DEF AnswerRow
<1>. QED
  BY <1>1, <1>2 DEF A!ToProtobuf, A!WriteMember

LEMMA FailedAgain ==
    ASSUME NEW c \in A!ResponseClasses, NEW m, NEW o, o = A!FromProtobuf(c, m)
    PROVE  A!Failed(c, A!ToProtobuf(c, o)) <=> A!Failed(c, m)
<1>1. CASE c # "ContractFunctionResult"
  BY <1>1 DEF A!Failed
<1>2. CASE c = "ContractFunctionResult"
  <2>1. "mErrorMessage" \in A!Members(c)
    <3>1. A!Responses[c] = A!ContractFunctionResult
      BY <1>2 DEF A!Responses
    <3>2. "mErrorMessage" \in A!ContractFunctionResult.plain
      BY DEF A!ContractFunctionResult, A!ContractFunctionResultMembers, A!Serialized
    <3>. QED
      BY <3>1, <3>2 DEF A!Members
  <2>2. ~Known(c, "mErrorMessage")
    BY <1>2 DEF Known, A!InnerClasses, A!KnownLosses
  <2>3. A!ToProtobuf(c, o)["mErrorMessage"] = o["mErrorMessage"]
    BY <2>1, <2>2, WrittenAsHeld
  <2>4. o["mErrorMessage"] = "Given" <=> m["mErrorMessage"] = "Given"
    BY <2>1 DEF A!FromProtobuf, A!ReadMember
  <2>. QED
    BY <2>3, <2>4 DEF A!Failed
<1>. QED
  BY <1>1, <1>2

LEMMA WrittenAndRead ==
    ASSUME NEW c \in A!ResponseClasses, NEW m, NEW f \in A!Members(c), ~Known(c, f),
           NEW o, o = A!FromProtobuf(c, m)
    PROVE  A!FromProtobuf(c, A!ToProtobuf(c, o))[f] = o[f]
<1>1. PICK r, w, failed : /\ r = A!Responses[c] /\ w = A!ToProtobuf(c, o)
                          /\ failed = IF A!Failed(c, m) THEN "yes" ELSE "no"
  OBVIOUS
<1>2. /\ \A p \in r.impliedWithout : p[1] # f
      /\ ~(f \in r.zeroIsNone /\ f \in r.plain \cup r.alwaysSet)
  BY <1>1, AnswerFacts DEF AnswerRow
<1>3. w[f] = o[f] /\ (failed = "yes" <=> A!Failed(c, w))
  BY <1>1, WrittenAsHeld, FailedAgain
<1>4. ~\E p \in r.impliedWithout : p[1] = f
  BY <1>2
<1>5. o[f] = CASE f \in r.results /\ m[f] = "Prefixed" /\ failed = "yes" -> "Part"
               [] f \in r.scheduled /\ m[f] = "Message" -> "Part"
               [] f \in r.zeroIsNone /\ m[f] = "Empty" -> "None"
               [] f \in r.plain \cup r.alwaysSet /\ m[f] = "None" -> "Empty"
               [] OTHER -> m[f]
  BY <1>1, <1>4, Zenon DEF A!FromProtobuf, A!ReadMember
<1>6. A!FromProtobuf(c, w)[f] = CASE f \in r.results /\ w[f] = "Prefixed" /\ failed = "yes" -> "Part"
                                  [] f \in r.scheduled /\ w[f] = "Message" -> "Part"
                                  [] f \in r.zeroIsNone /\ w[f] = "Empty" -> "None"
                                  [] f \in r.plain \cup r.alwaysSet /\ w[f] = "None" -> "Empty"
                                  [] OTHER -> w[f]
  BY <1>1, <1>3, <1>4, Zenon DEF A!FromProtobuf, A!ReadMember
<1>. QED
  BY <1>1, <1>2, <1>3, <1>5, <1>6

(* The state.  An object is what was read, but for what it lost on the way through bytes.          *)
KeptInv ==
    /\ class \in A!ResponseClasses
    /\ object # <<>> /\ ~saved => object = A!FromProtobuf(class, given)
    /\ object # <<>> =>
          \A f \in A!Members(class) : \/ saved /\ Known(class, f)
                                      \/ object[f] = A!FromProtobuf(class, given)[f]
    /\ saved => class \notin A!InnerClasses
    /\ refused => class = "ScheduleInfo"
    /\ crashed => class = "TokenInfo"

LEMMA KeptInit == ASSUME A!AnswersInit PROVE KeptInv
<1>1. class \in A!ResponseClasses
  BY QueryFacts DEF A!AnswersInit, QueryRow
<1>2. object # <<>> => object = A!FromProtobuf(class, given)
  BY Zenon DEF A!AnswersInit
<1>3. saved = FALSE /\ refused = FALSE /\ crashed = FALSE
  BY DEF A!AnswersInit
<1>. QED
  BY <1>1, <1>2, <1>3 DEF KeptInv

LEMMA KeptStays ==
    ASSUME KeptInv, UNCHANGED <<class, given, object, saved, refused, crashed>>
    PROVE  KeptInv'
BY DEF KeptInv

LEMMA KeptStep == ASSUME KeptInv, A!AnswersNext PROVE KeptInv'
<1>1. CASE A!SetMember \/ (\E validating \in BOOLEAN : A!Ask(validating))
  <2>1. UNCHANGED <<class, given, object, saved, refused, crashed>>
    BY <1>1, Zenon DEF A!SetMember, A!Ask, A!answerVars
  <2>. QED
    BY <2>1, KeptStays
<1>2. CASE A!MapResponse
  <2>1. CASE UNCHANGED answerParts
    BY <2>1, KeptStays DEF answerParts
  <2>2. CASE ~UNCHANGED answerParts
    <3>1. PICK m :
            /\ UNCHANGED <<class, saved, crashed>>
            /\ IF A!CanRead(class, m) THEN given' = m /\ object' = A!FromProtobuf(class, m) /\ UNCHANGED refused
               ELSE refused' = TRUE /\ UNCHANGED <<given, object>>
      BY <1>2, <2>2, Zenon DEF A!MapResponse, A!answerVars, answerParts
    <3>2. ~A!CanRead(class, m) => class = "ScheduleInfo"
      BY AnswerFacts DEF AnswerRow, A!CanRead, KeptInv
    <3>. QED
      BY <3>1, <3>2 DEF KeptInv
  <2>. QED
    BY <2>1, <2>2
<1>3. CASE A!KeepInBytes
  <2>1. object # <<>> /\ class \notin A!InnerClasses /\ ~saved /\ class' = class /\ given' = given
    BY <1>3 DEF A!KeepInBytes
  <2>2. object = A!FromProtobuf(class, given)
    BY <2>1 DEF KeptInv
  <2>3. CASE A!Throws(class, object)
    <3>1. refused' /\ UNCHANGED <<object, saved, crashed>>
      BY <1>3, <2>3, Zenon DEF A!KeepInBytes
    <3>2. class = "ScheduleInfo"
      BY <2>3, AnswerFacts DEF AnswerRow, A!Throws, KeptInv
    <3>. QED
      BY <2>1, <3>1, <3>2 DEF KeptInv
  <2>4. CASE ~A!Throws(class, object) /\ A!CanWrite(class, object)
    <3>1. /\ object' = A!FromProtobuf(class, A!ToProtobuf(class, object)) /\ saved'
          /\ UNCHANGED <<refused, crashed>>
      BY <1>3, <2>4, Zenon DEF A!KeepInBytes
    <3>2. ASSUME NEW f \in A!Members(class), ~Known(class, f)
          PROVE  object'[f] = A!FromProtobuf(class, given)[f]
      BY <2>2, <3>1, <3>2, WrittenAndRead DEF KeptInv
    <3>. QED
      BY <2>1, <3>1, <3>2 DEF KeptInv
  <2>5. CASE ~A!Throws(class, object) /\ ~A!CanWrite(class, object)
    <3>1. crashed' /\ UNCHANGED <<object, saved, refused>>
      BY <1>3, <2>5, Zenon DEF A!KeepInBytes
    <3>2. class = "TokenInfo"
      BY <2>5, AnswerFacts DEF AnswerRow, A!CanWrite, KeptInv
    <3>. QED
      BY <2>1, <3>1, <3>2 DEF KeptInv
  <2>. QED
    BY <2>3, <2>4, <2>5
<1>. QED
  BY <1>1, <1>2, <1>3, Zenon DEF A!AnswersNext

(* What an answer says is read and kept in bytes, of every class and member but what ReadLosses    *)
(* and KnownLosses name: the data of a scheduled topic message and the selector of an error are    *)
(* lost in reading.  Only what is scheduled makes reading and writing throw (fromProtobuf and      *)
(* toBytes of the classes that hold answers, to any depth of nesting).                             *)
THEOREM AnswersAreKept == MCSpec => []AnswerKept
<1>1. MCInit => KeptInv
  BY KeptInit, Zenon DEF MCInit, OtherAnswer
<1>2. KeptInv /\ [MCNext]_<<part, vars, answerParts, idParts>> => KeptInv'
  <2> SUFFICES ASSUME KeptInv, [MCNext]_<<part, vars, answerParts, idParts>> PROVE KeptInv'
    OBVIOUS
  <2>1. CASE A!AnswersNext
    BY <2>1, KeptStep
  <2>2. CASE UNCHANGED answerParts
    BY <2>2, KeptStays DEF answerParts
  <2>. QED
    BY <2>1, <2>2, Zenon DEF MCNext
<1>3. KeptInv => AnswerKept
  <2> SUFFICES ASSUME KeptInv PROVE AnswerKept
    OBVIOUS
  <2>1. ASSUME object # <<>>, NEW f \in A!Members(class), ~(saved /\ <<class, f>> \in A!KnownLosses)
        PROVE  /\ object[f] = A!FromProtobuf(class, given)[f]
               /\ \/ object[f] = given[f] \/ {object[f], given[f]} \subseteq A!Unset
                  \/ object[f] = "Part" /\ <<class, f>> \in A!ReadLosses
    <3>1. ~(saved /\ Known(class, f))
      BY <2>1 DEF Known, KeptInv
    <3>2. object[f] = A!FromProtobuf(class, given)[f]
      BY <2>1, <3>1 DEF KeptInv
    <3>. QED
      BY <2>1, <3>2, ReadAsGiven DEF KeptInv
  <2>2. (refused => class = "ScheduleInfo") /\ (crashed => class = "TokenInfo")
    BY DEF KeptInv
  <2>. QED
    BY <2>1, <2>2, Zenon DEF AnswerKept, A!AnswerKept
<1>. QED
  BY <1>1, <1>2, <1>3, PTL DEF MCSpec

===============================================================================
