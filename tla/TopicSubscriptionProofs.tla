---------------------- MODULE TopicSubscriptionProofs ----------------------
(***************************************************************************)
(* What a subscription gives its application, proved for every topic, every *)
(* limit and every sequence of breaks, retries and unsubscribes.            *)
(***************************************************************************)
EXTENDS TopicSubscription, SequenceTheorems, FiniteSetTheorems, TLAPS

-----------------------------------------------------------------------------
(* The inductive invariant.                                                                        *)

(* The completion queue is shut down exactly when nothing is started, the end is reported only      *)
(* then, and a thread that is to retry has an attempt left.                                        *)
Flow ==
    /\ closed <=> operation = "none"
    /\ complete => closed
    /\ thread = "starting" => operation # "none"
    /\ thread = "sleeping" => closed /\ ~complete
    /\ thread \in {"returned", "crashed"} => complete
    /\ thread = "polling" /\ closed /\ ~complete => attempt < MaxAttempts

(* The next call would start at the message in the buffer, and the current one goes on with it     *)
(* only if it was made again; a call that is not yet established was, or is the first.  Without a  *)
(* limit in the query no call has one; before any was made again, the limit is what was read and   *)
(* what is left.                                                                                   *)
Place ==
    /\ query.start = response
    /\ stream.next \in {response, response + 1} \ {0}
    /\ stream.next = response + 1 \/ response \in resumed
    /\ operation = "create" => response \in resumed \/ (response = 0 /\ handed = <<>>)
    /\ mQuery.limit = 0 => query.limit = 0 /\ ~stream.limited
    /\ resumed = {} /\ mQuery.limit > 0 => stream.limited /\ response + stream.left = mQuery.limit

(* What was handed and where calls were made again lies behind the buffer.                         *)
Behind ==
    /\ resumed \subseteq 0..response
    /\ \A k \in DOMAIN handed : handed[k] # <<>> /\ Range(handed[k]) \subseteq 0..response

(* Of a transaction all chunks up to message n were collected, in their order if no call was made  *)
(* again upon one.                                                                                 *)
Increasing(s) == \A i, j \in DOMAIN s : i < j => s[i] < s[j]
ChunksUpTo(t, n) == {c \in ChunksOf(t) : c <= n /\ ~IsSingle(c)}
Collected(s, t, n) ==
    /\ Range(s) = ChunksUpTo(t, n)
    /\ Untouched(s) => Increasing(s)

AllCollected == \A t \in Transactions : Collected(pendingMessages[t], t, response)

Inv ==
    /\ TypeOK /\ Flow /\ Place /\ Behind /\ AllCollected
    /\ OneHandler /\ GivenUnlessCut /\ OnceUnlessResumed

-----------------------------------------------------------------------------
(* Appending keeps what a sequence holds, and adds the new element at its end.                     *)
LEMMA AppendKeeps ==
    ASSUME NEW S, NEW s \in Seq(S), NEW e \in S
    PROVE  /\ Append(s, e) \in Seq(S) /\ Len(Append(s, e)) = Len(s) + 1
           /\ DOMAIN Append(s, e) = 1..(Len(s) + 1) /\ DOMAIN s = 1..Len(s)
           /\ \A k \in 1..Len(s) : Append(s, e)[k] = s[k]
           /\ Append(s, e)[Len(s) + 1] = e
OBVIOUS

(* A sequence over a set is one over every larger set.                                             *)
LEMMA SeqOverLarger ==
    ASSUME NEW S, NEW T, S \subseteq T, NEW s \in Seq(S)
    PROVE  s \in Seq(T)
<1>1. Len(s) \in Nat /\ s \in [1..Len(s) -> S]
  OBVIOUS
<1>2. s \in [1..Len(s) -> T]
  BY <1>1
<1>. QED
  BY <1>1, <1>2

(* The polling timeout stays between its two ends.                                                 *)
LEMMA BackoffBounds ==
    ASSUME TypeOK
    PROVE  Longer \in MinBackoff..MaxBackoff /\ Shorter \in MinBackoff..MaxBackoff
<1>1. backoff \in Nat /\ MinBackoff <= backoff /\ backoff <= MaxBackoff
  BY SubscriptionAssumption DEF TypeOK
<1>2. Longer \in MinBackoff..MaxBackoff
  BY <1>1, SubscriptionAssumption DEF Longer
<1>3. Shorter \in MinBackoff..MaxBackoff
  BY <1>1, SubscriptionAssumption DEF Shorter
<1>. QED
  BY <1>2, <1>3

(* A message of the topic has a transaction, whose chunks are looked up.                           *)
LEMMA MessageKnown ==
    ASSUME NEW i \in Positions
    PROVE  /\ i \in Nat \ {0} /\ i <= Len(Topic) /\ Len(Topic) \in Nat
           /\ Topic[i] \in [initial : Nat, total : Nat \ {0}]
           /\ Topic[i].initial \in Transactions
<1>1. Len(Topic) \in Nat /\ i \in 1..Len(Topic)
  BY TopicAssumption DEF Positions
<1>2. Topic[i] \in [initial : Nat, total : Nat \ {0}]
  BY <1>1, TopicAssumption, ElementOfSeq, Zenon
<1>3. Topic[i].initial \in Transactions
  BY Zenon DEF Transactions
<1>. QED
  BY <1>1, <1>2, <1>3

(* An increasing sequence has as many elements as places.                                          *)
LEMMA IncreasingCount ==
    ASSUME NEW s \in Seq(Positions), Increasing(s)
    PROVE  Cardinality(Range(s)) = Len(s)
<1>1. Len(s) \in Nat /\ DOMAIN s = 1..Len(s) /\ \A j \in 1..Len(s) : s[j] \in Nat
  BY TopicAssumption, SMTT(30) DEF Positions
<1>2. s \in [1..Len(s) -> Range(s)]
  BY <1>1 DEF Range
<1>3. \A i, j \in 1..Len(s) : s[i] = s[j] => i = j
  <2> SUFFICES ASSUME NEW i \in 1..Len(s), NEW j \in 1..Len(s), s[i] = s[j], i # j PROVE FALSE
    OBVIOUS
  <2>1. i < j \/ j < i
    BY <1>1
  <2>. QED
    BY <1>1, <2>1 DEF Increasing
<1>4. s \in Bijection(1..Len(s), Range(s))
  BY <1>1, <1>2, <1>3 DEF Bijection, Injection, Surjection, IsInjective, Range
<1>5. ExistsBijection(1..Len(s), Range(s))
  BY <1>4 DEF ExistsBijection
<1>. QED
  BY <1>1, <1>5, FS_CountingElements

(* As many chunks of a message as it says it has are all of them.                                  *)
LEMMA AllReceivedAreAll ==
    ASSUME NEW r \in Positions, NEW s \in Seq(Positions),
           Increasing(s), Range(s) \subseteq ChunksOf(Topic[r].initial), AllReceived(s, r)
    PROVE  Range(s) = ChunksOf(Topic[r].initial)
<1> DEFINE Chunks == ChunksOf(Topic[r].initial)
<1>1. Len(Topic) \in Nat /\ Topic[r].total \in Nat
  BY MessageKnown
<1>2. IsFiniteSet(Positions)
  BY <1>1, FS_Interval DEF Positions
<1>3. Chunks \in SUBSET Positions
  BY DEF ChunksOf
<1>4. IsFiniteSet(Chunks)
  BY <1>2, <1>3, FS_Subset
<1>5. Range(s) \in SUBSET Chunks
  BY DEF Range
<1>6. Cardinality(Chunks) \in Nat
  BY <1>4, FS_CardinalityType
<1>7. Cardinality(Range(s)) = Topic[r].total
  BY IncreasingCount DEF AllReceived
<1>8. Cardinality(Chunks) <= Topic[r].total
  BY ChunkAssumption
<1>9. /\ Cardinality(Range(s)) <= Cardinality(Chunks)
      /\ Cardinality(Chunks) = Cardinality(Range(s)) => Chunks = Range(s)
  <2> HIDE DEF Chunks
  <2>. QED
    BY <1>4, <1>5, FS_Subset
<1>10. Cardinality(Chunks) = Cardinality(Range(s))
  <2> HIDE DEF Chunks
  <2>. QED
    BY <1>1, <1>6, <1>7, <1>8, <1>9
<1>. QED
  BY <1>9, <1>10

(* Appending adds one element to those of a sequence.                                              *)
LEMMA AppendRange ==
    ASSUME NEW S, NEW s \in Seq(S), NEW e \in S
    PROVE  Range(Append(s, e)) = Range(s) \cup {e}
<1>1. PICK a : a = Append(s, e)
  OBVIOUS
<1>2. /\ DOMAIN a = 1..(Len(s) + 1) /\ DOMAIN s = 1..Len(s) /\ Len(s) \in Nat
      /\ \A k \in 1..Len(s) : a[k] = s[k]
      /\ a[Len(s) + 1] = e
  BY <1>1, AppendKeeps
<1>3. DOMAIN a = DOMAIN s \cup {Len(s) + 1}
  BY <1>2
<1>. QED
  BY <1>1, <1>2, <1>3 DEF Range

(* A message sent whole is the only chunk of its transaction.                                      *)
LEMMA SingleAlone ==
    ASSUME NEW i \in Positions, IsSingle(i)
    PROVE  ChunksOf(Topic[i].initial) = {i}
<1> DEFINE Chunks == ChunksOf(Topic[i].initial)
<1>1. Len(Topic) \in Nat /\ i # 0 /\ Topic[i].total = 1
  BY MessageKnown DEF IsSingle
<1>2. IsFiniteSet(Chunks)
  <2>1. IsFiniteSet(Positions)
    BY <1>1, FS_Interval DEF Positions
  <2>2. Chunks \in SUBSET Positions
    BY DEF ChunksOf
  <2>. QED
    BY <2>1, <2>2, FS_Subset
<1>3. {i} \subseteq Chunks /\ Cardinality({i}) = 1
  BY FS_Singleton DEF ChunksOf
<1>4. Cardinality(Chunks) <= 1
  BY <1>1, ChunkAssumption
<1>5. Cardinality(Chunks) \in Nat
  BY <1>2, FS_CardinalityType
<1>. HIDE DEF Chunks
<1>6. Cardinality({i}) <= Cardinality(Chunks) /\ (Cardinality({i}) = Cardinality(Chunks) => {i} = Chunks)
  BY <1>2, <1>3, FS_Subset
<1>7. {i} = Chunks
  BY <1>3, <1>4, <1>5, <1>6
<1>. QED
  BY <1>7 DEF Chunks

(* The chunks of a message that came in more than one are none of them whole messages, and the     *)
(* next message joins those up to it.                                                              *)
LEMMA ChunksGrow ==
    ASSUME NEW r \in Positions, NEW n \in Nat, r = n \/ r = n + 1
    PROVE  /\ ~IsSingle(r) => \A c \in ChunksOf(Topic[r].initial) : ~IsSingle(c)
           /\ ~IsSingle(r) => ChunksUpTo(Topic[r].initial, r) = ChunksUpTo(Topic[r].initial, n) \cup {r}
           /\ IsSingle(r) => ChunksUpTo(Topic[r].initial, r) = ChunksUpTo(Topic[r].initial, n)
           /\ \A u \in Transactions \ {Topic[r].initial} : ChunksUpTo(u, r) = ChunksUpTo(u, n)
<1>1. /\ Positions \subseteq Nat /\ r \in Nat
      /\ \A u : ChunksOf(u) \subseteq Positions
      /\ \A c \in Positions : c \in ChunksOf(Topic[r].initial) <=> Topic[c].initial = Topic[r].initial
      /\ r \in ChunksOf(Topic[r].initial)
  BY TopicAssumption DEF Positions, ChunksOf
<1>2. ASSUME ~IsSingle(r), NEW c \in ChunksOf(Topic[r].initial), IsSingle(c)  PROVE FALSE
  <2>1. c \in Positions /\ Topic[c].initial = Topic[r].initial
    BY <1>1
  <2>2. ChunksOf(Topic[r].initial) = {c}
    BY <1>2, <2>1, SingleAlone
  <2>. QED
    BY <1>1, <1>2, <2>2
<1>3. \A c \in Nat : c <= r <=> c <= n \/ c = r
  BY <1>1
<1>4. \A u : r \notin ChunksOf(u) => ChunksUpTo(u, r) = ChunksUpTo(u, n)
  BY <1>1, <1>3 DEF ChunksUpTo
<1>5. \A u \in Transactions \ {Topic[r].initial} : r \notin ChunksOf(u)
  BY DEF ChunksOf
<1>6. ~IsSingle(r) => ChunksUpTo(Topic[r].initial, r) = ChunksUpTo(Topic[r].initial, n) \cup {r}
  BY <1>1, <1>3 DEF ChunksUpTo
<1>7. IsSingle(r) => ChunksUpTo(Topic[r].initial, r) = ChunksUpTo(Topic[r].initial, n)
  BY <1>1, <1>3 DEF ChunksUpTo
<1>. QED
  BY <1>2, <1>4, <1>5, <1>6, <1>7

(* A message is its last chunk.                                                                    *)
LEMMA LastChunk ==
    ASSUME NEW m \in Messages
    PROVE  /\ m \in Positions /\ m \in Nat \ {0} /\ m <= Len(Topic)
           /\ m \in ChunksOf(Topic[m].initial)
           /\ \A c \in ChunksOf(Topic[m].initial) : c <= m
<1>1. m \in Positions /\ ChunksOf(Topic[m].initial) \subseteq 1..m
  BY DEF Messages
<1>2. m \in Nat \ {0} /\ m <= Len(Topic)
  BY <1>1, MessageKnown
<1>3. \A c \in 1..m : c <= m
  BY <1>2
<1>. QED
  BY <1>1, <1>2, <1>3 DEF ChunksOf

(* The numbers of a subscription.                                                                  *)
LEMMA Numbers ==
    ASSUME TypeOK
    PROVE  /\ Len(Topic) \in Nat /\ response \in Nat /\ response \in 0..Len(Topic)
           /\ mQuery.limit \in Nat /\ stream.left \in Nat /\ stream.next \in Nat
<1>1. Len(Topic) \in Nat
  BY TopicAssumption
<1>2. response \in Nat /\ response \in 0..Len(Topic)
  BY <1>1 DEF TypeOK
<1>3. mQuery.limit \in Nat
  BY SubscriptionAssumption DEF TypeOK
<1>4. stream.left \in Nat /\ stream.next \in Nat
  BY DEF TypeOK
<1>. QED
  BY <1>1, <1>2, <1>3, <1>4

-----------------------------------------------------------------------------
(* What onNext may be called with when message r is processed: the chunks of one message up to r,  *)
(* the last of them r; whole if no call was made again upon one, and in any case if r ends a       *)
(* message that is new.                                                                            *)
Fits(e, r) ==
    /\ e # <<>> /\ Range(e) \subseteq 0..r /\ r \in Range(e) /\ Newest(e) = r
    /\ Untouched(e) => e = <<0>> \/ \E t \in Transactions : Whole(e, t)
    /\ r \in Messages \ Missed /\ r = response + 1 => Whole(e, Topic[r].initial)

(* The message that is processed is the next one, or one a call was made again upon, or the buffer *)
(* nothing was read into.                                                                          *)
MayProcess(r) ==
    /\ r \in 0..Len(Topic)
    /\ r = response + 1 \/ (r = response /\ (r \in resumed \/ (r = 0 /\ handed = <<>>)))

(* The next call would start at the message that was processed.                                    *)
LEMMA QueryResumes ==
    ASSUME TypeOK, Place, NEW r, MayProcess(r), Process(r)
    PROVE  /\ query' \in [start : Nat, limit : Nat] /\ query'.start = r
           /\ query.limit = 0 => query'.limit = 0
<1>1. /\ query' = [start |-> IF r = 0 THEN query.start ELSE r,
                   limit |-> IF query.limit > 0 THEN query.limit - 1 ELSE 0]
      /\ query \in [start : Nat, limit : Nat]
  BY DEF Process, Resume, TypeOK
<1>2. /\ query.start = response /\ r \in Nat /\ response \in Nat
      /\ r = response \/ r = response + 1
  BY TopicAssumption DEF TypeOK, Place, MayProcess
<1>. QED
  BY <1>1, <1>2

(* A whole message, or the empty buffer, is given to onNext as it is.                              *)
LEMMA SingleGiven ==
    ASSUME Inv, NEW r, MayProcess(r), IsSingle(r), Process(r)
    PROVE  /\ UNCHANGED pendingMessages
           /\ <<r>> \in Seq(0..Len(Topic)) /\ handed' = Append(handed, <<r>>) /\ Fits(<<r>>, r)
           /\ \A t \in Transactions : Collected(pendingMessages[t], t, r)
<1>1. Len(Topic) \in Nat /\ r \in Nat /\ response \in Nat /\ r \in 0..Len(Topic)
  BY TopicAssumption DEF Inv, TypeOK, MayProcess
<1>2. UNCHANGED pendingMessages /\ handed' = Append(handed, <<r>>)
  BY DEF Process
<1>3. <<r>> \in Seq(0..Len(Topic)) /\ <<r>> # <<>> /\ Range(<<r>>) = {r} /\ Newest(<<r>>) = r
  BY <1>1 DEF Range, Newest
<1>4. ASSUME r # 0
      PROVE  r \in Positions /\ ChunksOf(Topic[r].initial) = {r} /\ Topic[r].initial \in Transactions
  <2>1. r \in Positions
    BY <1>1, <1>4 DEF Positions
  <2>. QED
    BY <2>1, SingleAlone, MessageKnown
<1>5. r # 0 => Whole(<<r>>, Topic[r].initial)
  <2>1. DOMAIN <<r>> = {1}
    OBVIOUS
  <2>2. \A i, j \in DOMAIN <<r>> : i < j => <<r>>[i] < <<r>>[j]
    BY <2>1
  <2>. QED
    BY <1>3, <1>4, <2>2, Zenon DEF Whole
<1>6. r \in Messages => r # 0
  BY <1>1 DEF Messages, Positions
<1>7. Fits(<<r>>, r)
  BY <1>1, <1>3, <1>4, <1>5, <1>6 DEF Fits
<1>8. ASSUME NEW t \in Transactions PROVE ChunksUpTo(t, r) = ChunksUpTo(t, response)
  <2>1. CASE r = 0
    BY <1>1, <2>1 DEF MayProcess
  <2>2. CASE r # 0
    BY <1>1, <1>4, <2>2, ChunksGrow DEF MayProcess
  <2>. QED
    BY <2>1, <2>2
<1>9. \A t \in Transactions : Collected(pendingMessages[t], t, r)
  BY <1>8 DEF Inv, AllCollected, Collected
<1>. QED
  BY <1>2, <1>3, <1>7, <1>9

(* A chunk joins those of its message; when there are as many as the message has, and no call was  *)
(* made again upon one, they are all of them and in order.                                         *)
LEMMA ChunkCollected ==
    ASSUME Inv, NEW r, MayProcess(r), ~IsSingle(r),
           NEW t, t = Topic[r].initial, NEW q, q = Append(pendingMessages[t], r)
    PROVE  /\ r \in Positions /\ t \in Transactions /\ q \in Seq(Positions)
           /\ Collected(q, t, r)
           /\ Len(q) \in Nat \ {0} /\ Newest(q) = r
<1>1. Len(Topic) \in Nat /\ r \in Nat /\ response \in Nat /\ r \in 0..Len(Topic) /\ r # 0
  BY TopicAssumption DEF Inv, TypeOK, MayProcess, IsSingle
<1>2. r \in Positions
  BY <1>1 DEF Positions
<1>3. t \in Transactions
  BY <1>2, MessageKnown
<1>4. PICK p : p = pendingMessages[t] /\ p \in Seq(Positions) /\ Collected(p, t, response)
  BY <1>3 DEF Inv, TypeOK, AllCollected
<1>5. /\ q \in Seq(Positions) /\ Len(q) = Len(p) + 1 /\ Len(p) \in Nat
      /\ DOMAIN q = 1..(Len(p) + 1) /\ DOMAIN p = 1..Len(p)
      /\ \A k \in 1..Len(p) : q[k] = p[k]
      /\ q[Len(p) + 1] = r
  BY <1>2, <1>4, AppendKeeps
<1>6. Range(q) = Range(p) \cup {r}
  BY <1>2, <1>4, AppendRange
<1>7. Range(q) = ChunksUpTo(t, r)
  BY <1>1, <1>2, <1>4, <1>6, ChunksGrow DEF Collected, MayProcess
<1>8. ASSUME Untouched(q) PROVE Increasing(q)
  <2>1. r \notin resumed /\ Untouched(p)
    BY <1>6, <1>8 DEF Untouched
  <2>2. r = response + 1
    BY <1>1, <2>1 DEF MayProcess
  <2>3. Increasing(p) /\ \A k \in 1..Len(p) : p[k] \in Nat /\ p[k] < r
    <3>1. \A k \in 1..Len(p) : p[k] \in ChunksUpTo(t, response)
      BY <1>4, <1>5 DEF Collected, Range
    <3>2. \A c \in ChunksUpTo(t, response) : c \in Nat /\ c <= response
      BY <1>1 DEF ChunksUpTo, ChunksOf, Positions
    <3>. QED
      BY <1>1, <1>4, <2>1, <2>2, <3>1, <3>2 DEF Collected
  <2>4. ASSUME NEW i \in 1..(Len(p) + 1), NEW j \in 1..(Len(p) + 1), i < j  PROVE q[i] < q[j]
    <3>1. i \in 1..Len(p)
      BY <1>5, <2>4
    <3>2. CASE j = Len(p) + 1
      BY <1>5, <2>3, <3>1, <3>2
    <3>3. CASE j \in 1..Len(p)
      BY <1>5, <2>3, <2>4, <3>1, <3>3 DEF Increasing
    <3>. QED
      BY <1>5, <3>2, <3>3
  <2>. QED
    BY <1>5, <2>4 DEF Increasing
<1>9. Newest(q) = r /\ Len(q) \in Nat \ {0}
  BY <1>5 DEF Newest
<1>. QED
  BY <1>2, <1>3, <1>5, <1>7, <1>8, <1>9 DEF Collected

(* The chunks of a message with its last one added: whole if no call was made again upon one, and  *)
(* as many as the message has if the last one is new and the message is not missed.                *)
LEMMA ChunkCompletes ==
    ASSUME Inv, NEW r, MayProcess(r), ~IsSingle(r),
           NEW t, t = Topic[r].initial, NEW q, q = Append(pendingMessages[t], r)
    PROVE  /\ AllReceived(q, r) => Fits(q, r)
           /\ r \in Messages \ Missed /\ r = response + 1 => AllReceived(q, r)
<1>1. /\ r \in Positions /\ t \in Transactions /\ q \in Seq(Positions)
      /\ Collected(q, t, r)
      /\ Len(q) \in Nat \ {0} /\ Newest(q) = r
  BY ChunkCollected
<1>2. Len(Topic) \in Nat /\ r \in Nat /\ response \in Nat /\ \A c \in Positions : c \in Nat /\ c > 0
  <2>1. Len(Topic) \in Nat
    BY TopicAssumption
  <2>. QED
    BY <2>1 DEF Inv, TypeOK, MayProcess, Positions
<1>3. Range(q) \subseteq ChunksOf(t) /\ Range(q) \subseteq 0..r /\ r \in Range(q)
  <2>1. r \in ChunksUpTo(t, r)
    BY <1>1, <1>2 DEF ChunksUpTo, ChunksOf
  <2>2. Range(q) = ChunksUpTo(t, r)
    BY <1>1 DEF Collected
  <2>3. \A c \in ChunksUpTo(t, r) : c \in ChunksOf(t) /\ c \in Positions /\ c <= r
    BY DEF ChunksUpTo, ChunksOf
  <2>4. \A c \in ChunksUpTo(t, r) : c \in 0..r
    BY <1>2, <2>3
  <2>. QED
    BY <2>1, <2>2, <2>3, <2>4
<1>4. q # <<>>
  BY <1>1
<1>5. ASSUME Untouched(q), AllReceived(q, r)  PROVE Whole(q, t)
  <2>1. Increasing(q)
    BY <1>1, <1>5 DEF Collected
  <2>2. Range(q) = ChunksOf(t)
    BY <1>1, <1>3, <1>5, <2>1, AllReceivedAreAll
  <2>. QED
    BY <2>1, <2>2 DEF Whole, Increasing
<1>6. ASSUME r \in Messages \ Missed, r = response + 1
      PROVE  AllReceived(q, r) /\ Untouched(q)
  <2>1. ChunksOf(t) \subseteq 1..r /\ Cardinality(ChunksOf(t)) = Topic[r].total
    BY <1>6 DEF Messages
  <2>2. ChunksOf(t) = ChunksUpTo(t, r)
    <3>1. \A c \in ChunksOf(t) : c <= r /\ ~IsSingle(c)
      BY <1>1, <1>2, <2>1, ChunksGrow
    <3>. QED
      BY <3>1 DEF ChunksUpTo
  <2>3. Range(q) = ChunksOf(t)
    BY <1>1, <2>2 DEF Collected
  <2>4. ASSUME NEW c \in ChunksOf(t), c \in resumed  PROVE FALSE
    <3>1. c \in 1..r /\ c <= response
      BY <2>1, <2>4, <1>2 DEF Inv, Behind
    <3>2. c < r
      BY <1>2, <1>6, <3>1
    <3>. QED
      BY <1>6, <2>4, <3>2 DEF Missed
  <2>5. Untouched(q)
    BY <2>3, <2>4 DEF Untouched
  <2>6. Increasing(q)
    BY <1>1, <2>5 DEF Collected
  <2>7. Cardinality(Range(q)) = Len(q)
    BY <1>1, <2>6, IncreasingCount
  <2>. QED
    BY <2>1, <2>3, <2>5, <2>7 DEF AllReceived
<1>7. AllReceived(q, r) => Fits(q, r)
  BY <1>1, <1>3, <1>4, <1>5, <1>6 DEF Fits
<1>. QED
  BY <1>6, <1>7

(* Processing the buffer: the chunks stay collected, and onNext is given nothing unless it fits.   *)
LEMMA ProcessFits ==
    ASSUME Inv, NEW r, MayProcess(r), Process(r), UNCHANGED resumed
    PROVE  /\ pendingMessages' \in [Transactions -> Seq(Positions)]
           /\ \A t \in Transactions : Collected(pendingMessages'[t], t, r)
           /\ \/ handed' = handed /\ r # 0 /\ (r = response + 1 => r \notin Messages \ Missed)
              \/ \E e \in Seq(0..Len(Topic)) : handed' = Append(handed, e) /\ Fits(e, r)
<1>1. CASE IsSingle(r)
  BY <1>1, SingleGiven DEF Inv, TypeOK
<1>2. CASE ~IsSingle(r)
  <2>1. PICK t, q : t = Topic[r].initial /\ q = Append(pendingMessages[t], r)
    OBVIOUS
  <2>2. /\ r \in Positions /\ t \in Transactions /\ q \in Seq(Positions)
        /\ Collected(q, t, r)
    BY <1>2, <2>1, ChunkCollected
  <2>3. /\ pendingMessages' = [pendingMessages EXCEPT ![t] = q]
        /\ handed' = IF AllReceived(q, r) THEN Append(handed, q) ELSE handed
    BY <1>2, <2>1 DEF Process
  <2>4. /\ pendingMessages \in [Transactions -> Seq(Positions)] /\ response \in Nat /\ r # 0
        /\ r = response \/ r = response + 1
    BY <1>2, TopicAssumption DEF Inv, TypeOK, MayProcess, IsSingle
  <2>5. pendingMessages' \in [Transactions -> Seq(Positions)]
    BY <2>2, <2>3, <2>4
  <2>6. ASSUME NEW u \in Transactions PROVE Collected(pendingMessages'[u], u, r)
    <3>1. CASE u = t
      BY <2>2, <2>3, <2>4, <3>1
    <3>2. CASE u # t
      <4>1. pendingMessages'[u] = pendingMessages[u] /\ ChunksUpTo(u, r) = ChunksUpTo(u, response)
        BY <2>1, <2>2, <2>3, <2>4, <3>2, ChunksGrow
      <4>. QED
        BY <4>1 DEF Inv, AllCollected, Collected
    <3>. QED
      BY <3>1, <3>2
  <2>7. /\ AllReceived(q, r) => Fits(q, r)
        /\ r \in Messages \ Missed /\ r = response + 1 => AllReceived(q, r)
    BY <1>2, <2>1, ChunkCompletes
  <2>8. q \in Seq(0..Len(Topic))
    BY <2>2, TopicAssumption, SeqOverLarger DEF Positions
  <2>. QED
    BY <2>3, <2>4, <2>5, <2>6, <2>7, <2>8
<1>. QED
  BY <1>1, <1>2

-----------------------------------------------------------------------------
(* What one more message given to onNext does to all of them.                                      *)
LEMMA HandedGrows ==
    ASSUME Inv, NEW r, MayProcess(r), UNCHANGED resumed,
           NEW e \in Seq(0..Len(Topic)), handed' = Append(handed, e), Fits(e, r)
    PROVE  /\ handed' \in Seq(Seq(0..Len(Topic)))
           /\ \A k \in DOMAIN handed' : handed'[k] # <<>> /\ Range(handed'[k]) \subseteq 0..r
           /\ OnceUnlessResumed'
           /\ Given \subseteq Given' /\ Given' \subseteq Given \cup {r}
           /\ r \in Messages \ Missed /\ r = response + 1 => r \in Given'
<1>1. /\ Len(Topic) \in Nat /\ r \in Nat /\ response \in Nat /\ handed \in Seq(Seq(0..Len(Topic)))
      /\ r = response \/ r = response + 1
  BY TopicAssumption DEF Inv, TypeOK, MayProcess
<1>2. /\ handed' \in Seq(Seq(0..Len(Topic)))
      /\ DOMAIN handed' = 1..(Len(handed) + 1) /\ DOMAIN handed = 1..Len(handed) /\ Len(handed) \in Nat
      /\ \A k \in 1..Len(handed) : handed'[k] = handed[k]
      /\ handed'[Len(handed) + 1] = e
  BY <1>1, AppendKeeps
<1>3. \A k \in DOMAIN handed : handed[k] # <<>> /\ Range(handed[k]) \subseteq 0..response
  BY DEF Inv, Behind
<1>4. 0..response \subseteq 0..r
  BY <1>1
<1>5. \A k \in DOMAIN handed' : handed'[k] # <<>> /\ Range(handed'[k]) \subseteq 0..r
  <2> SUFFICES ASSUME NEW k \in 1..(Len(handed) + 1)
               PROVE  handed'[k] # <<>> /\ Range(handed'[k]) \subseteq 0..r
    BY <1>2
  <2>1. CASE k = Len(handed) + 1
    BY <1>2, <2>1 DEF Fits
  <2>2. CASE k \in 1..Len(handed)
    BY <1>2, <1>3, <1>4, <2>2
  <2>. QED
    BY <1>2, <2>1, <2>2
<1>6. OnceUnlessResumed'
  <2> SUFFICES ASSUME NEW k \in 1..(Len(handed) + 1), Untouched(handed'[k])
               PROVE  /\ handed'[k] = <<0>> \/ \E t \in Transactions : Whole(handed'[k], t)
                      /\ \A j \in DOMAIN handed' : j < k /\ Untouched(handed'[j])
                             => Newest(handed'[j]) < Newest(handed'[k])
    BY <1>2 DEF OnceUnlessResumed, Untouched, Whole, Newest
  <2>1. CASE k \in 1..Len(handed)
    <3>1. /\ handed[k] = <<0>> \/ \E t \in Transactions : Whole(handed[k], t)
          /\ \A j \in DOMAIN handed : j < k /\ Untouched(handed[j]) => Newest(handed[j]) < Newest(handed[k])
      BY <1>2, <2>1 DEF Inv, OnceUnlessResumed
    <3>2. \A j \in DOMAIN handed' : j < k => j \in DOMAIN handed /\ handed'[j] = handed[j]
      BY <1>2, <2>1
    <3>. QED
      BY <1>2, <2>1, <3>1, <3>2
  <2>2. CASE k = Len(handed) + 1
    <3>1. handed'[k] = e /\ Newest(e) = r /\ r \in Range(e)
      BY <1>2, <2>2 DEF Fits
    <3>2. r \notin resumed
      BY <3>1 DEF Untouched
    <3>3. r = response + 1 \/ handed = <<>>
      BY <3>2 DEF MayProcess
    <3>4. ASSUME NEW j \in DOMAIN handed', j < k, Untouched(handed'[j])  PROVE Newest(handed'[j]) < r
      <4>1. j \in 1..Len(handed) /\ handed'[j] = handed[j] /\ Len(handed) # 0
        BY <1>2, <2>2, <3>4
      <4>2. handed[j] \in Seq(0..Len(Topic)) /\ handed[j] # <<>>
        BY <1>1, <1>2, <1>3, <4>1, ElementOfSeq
      <4>3. Newest(handed[j]) \in Range(handed[j])
        <5>1. Len(handed[j]) \in DOMAIN handed[j]
          BY <4>2
        <5>. QED
          BY <5>1 DEF Newest, Range
      <4>4. Newest(handed[j]) \in 0..response
        BY <1>2, <1>3, <4>1, <4>3
      <4>5. handed # <<>>
        BY <4>1
      <4>. QED
        BY <1>1, <3>3, <4>1, <4>4, <4>5
    <3>5. e = <<0>> \/ \E t \in Transactions : Whole(e, t)
      BY <3>1 DEF Fits
    <3>. QED
      BY <3>1, <3>4, <3>5
  <2>3. k \in 1..Len(handed) \/ k = Len(handed) + 1
    BY <1>2
  <2>. QED
    BY <2>1, <2>2, <2>3
<1>7. Given \subseteq Given'
  <2> SUFFICES ASSUME NEW m \in Messages, NEW k \in DOMAIN handed, Whole(handed[k], Topic[m].initial)
               PROVE  m \in Given'
    BY DEF Given
  <2>1. k \in DOMAIN handed' /\ handed'[k] = handed[k]
    BY <1>2
  <2>. QED
    BY <2>1 DEF Given, Messages, Whole
<1>8. Given' \subseteq Given \cup {r}
  <2> SUFFICES ASSUME NEW m \in Messages, NEW k \in DOMAIN handed', Whole(handed'[k], Topic[m].initial)
               PROVE  m \in Given \/ m = r
    BY DEF Given, Messages, Whole
  <2>1. CASE k = Len(handed) + 1
    <3>1. Range(e) = ChunksOf(Topic[m].initial) /\ r \in Range(e) /\ Range(e) \subseteq 0..r
      BY <1>2, <2>1 DEF Whole, Fits
    <3>2. r \in 1..m /\ m \in Nat
      BY <1>1, <3>1 DEF Messages, Positions
    <3>3. m \in Range(e)
      BY <3>1 DEF Messages, ChunksOf
    <3>. QED
      BY <1>1, <3>1, <3>2, <3>3
  <2>2. CASE k # Len(handed) + 1
    BY <1>2, <2>2 DEF Given
  <2>. QED
    BY <2>1, <2>2
<1>9. ASSUME r \in Messages \ Missed, r = response + 1  PROVE r \in Given'
  <2>1. Len(handed) + 1 \in DOMAIN handed' /\ Whole(handed'[Len(handed) + 1], Topic[r].initial)
    BY <1>2, <1>9 DEF Fits
  <2>. QED
    BY <1>9, <2>1 DEF Given, Messages, Whole
<1>. QED
  BY <1>2, <1>5, <1>6, <1>7, <1>8, <1>9

(* Processing the buffer keeps what was collected and given, and gives at most the one message.    *)
LEMMA ProcessKeeps ==
    ASSUME Inv, NEW r, MayProcess(r), Process(r), response' = r, UNCHANGED resumed
    PROVE  /\ pendingMessages' \in [Transactions -> Seq(Positions)]
           /\ handed' \in Seq(Seq(0..Len(Topic)))
           /\ Behind' /\ AllCollected' /\ GivenUnlessCut' /\ OnceUnlessResumed'
           /\ Given \subseteq Given' /\ Given' \subseteq Given \cup {r}
           /\ r = 0 => handed' # <<>>
<1>1. /\ response \in Nat /\ r \in Nat /\ (r = response \/ r = response + 1)
      /\ handed \in Seq(Seq(0..Len(Topic)))
  BY TopicAssumption DEF Inv, TypeOK, MayProcess
<1>2. /\ pendingMessages' \in [Transactions -> Seq(Positions)]
      /\ \A t \in Transactions : Collected(pendingMessages'[t], t, r)
      /\ \/ handed' = handed /\ r # 0 /\ (r = response + 1 => r \notin Messages \ Missed)
         \/ \E e \in Seq(0..Len(Topic)) : handed' = Append(handed, e) /\ Fits(e, r)
  BY ProcessFits
<1>3. AllCollected'
  BY <1>2 DEF AllCollected, Collected, Untouched, Increasing, ChunksUpTo
<1>4. /\ handed' \in Seq(Seq(0..Len(Topic)))
      /\ \A k \in DOMAIN handed' : handed'[k] # <<>> /\ Range(handed'[k]) \subseteq 0..r
      /\ OnceUnlessResumed'
      /\ Given \subseteq Given' /\ Given' \subseteq Given \cup {r}
      /\ r \in Messages \ Missed /\ r = response + 1 => r \in Given'
      /\ r = 0 => handed' # <<>>
  <2>1. CASE handed' = handed /\ r # 0 /\ (r = response + 1 => r \notin Messages \ Missed)
    <3>1. 0..response \subseteq 0..r
      BY <1>1
    <3>2. \A k \in DOMAIN handed : handed[k] # <<>> /\ Range(handed[k]) \subseteq 0..response
      BY DEF Inv, Behind
    <3>3. OnceUnlessResumed'
      BY <2>1 DEF Inv, OnceUnlessResumed, Untouched, Whole, Newest
    <3>4. Given' = Given
      BY <2>1 DEF Given, Messages, Whole
    <3>. QED
      BY <1>1, <2>1, <3>1, <3>2, <3>3, <3>4
  <2>2. CASE \E e \in Seq(0..Len(Topic)) : handed' = Append(handed, e) /\ Fits(e, r)
    <3>1. PICK e \in Seq(0..Len(Topic)) : handed' = Append(handed, e) /\ Fits(e, r)
      BY <2>2
    <3>2. handed' # <<>>
      BY <1>1, <3>1
    <3>. QED
      BY <3>1, <3>2, HandedGrows
  <2>. QED
    BY <1>2, <2>1, <2>2
<1>5. Behind'
  <2>1. resumed' \subseteq 0..r
    BY <1>1 DEF Inv, Behind
  <2>. QED
    BY <1>4, <2>1 DEF Behind
<1>6. GivenUnlessCut'
  <2> SUFFICES ASSUME NEW m \in Messages, m <= r  PROVE m \in Given' \/ m \in Missed
    BY DEF GivenUnlessCut, Messages, Missed
  <2>1. CASE m <= response
    BY <1>4, <2>1 DEF Inv, GivenUnlessCut
  <2>2. CASE ~(m <= response)
    <3>1. m = r /\ r = response + 1
      <4>1. m \in Nat
        BY DEF Messages, Positions
      <4>. QED
        BY <1>1, <2>2, <4>1
    <3>. QED
      BY <1>4, <3>1
  <2>. QED
    BY <2>1, <2>2
<1>. QED
  BY <1>2, <1>3, <1>4, <1>5, <1>6

-----------------------------------------------------------------------------
(* subscribe leaves the thread with a call under way and nothing received.                         *)
LEMMA InvInit == Init => Inv
<1> SUFFICES ASSUME Init PROVE Inv
  OBVIOUS
<1>1. Len(Topic) \in Nat
  BY TopicAssumption
<1>2. PICK limit \in Limits : /\ mQuery = [start |-> 0, limit |-> limit]
                              /\ query = mQuery /\ stream = NewStream(query)
  BY DEF Init
<1>3. limit \in Nat
  BY SubscriptionAssumption
<1>4. stream = [next |-> 1, left |-> limit, limited |-> limit > 0, broken |-> FALSE, cancelled |-> FALSE]
  BY <1>2 DEF NewStream
<1>5. TypeOK
  <2>1. pendingMessages \in [Transactions -> Seq(Positions)]
    BY DEF Init
  <2>2. mQuery \in [start : {0}, limit : Limits] /\ query \in [start : Nat, limit : Nat]
    BY <1>2, <1>3
  <2>3. stream \in [next : Nat, left : Nat, limited : BOOLEAN, broken : BOOLEAN, cancelled : BOOLEAN]
    <3>1. (limit > 0) \in BOOLEAN
      BY <1>3
    <3>. QED
      BY <1>3, <1>4, <3>1
  <2>4. /\ response \in 0..Len(Topic) /\ attempt \in 0..MaxAttempts /\ backoff \in MinBackoff..MaxBackoff
        /\ handed \in Seq(Seq(0..Len(Topic))) /\ handlers \in Seq({"completionHandler", "errorHandler"})
    BY <1>1, SubscriptionAssumption DEF Init
  <2>. QED
    BY <2>1, <2>2, <2>3, <2>4 DEF Init, TypeOK
<1>6. Flow /\ OneHandler /\ OnceUnlessResumed /\ Behind
  BY DEF Init, Flow, OneHandler, OnceUnlessResumed, Behind
<1>7. Place
  <2>1. stream.limited = (limit > 0)
    BY <1>4, Zenon
  <2>2. limit = 0 => ~(limit > 0)
    BY <1>3
  <2>3. limit = 0 => ~stream.limited
    BY <2>1, <2>2, Zenon
  <2>4. limit > 0 => stream.limited
    BY <2>1, Zenon
  <2>5. response = 0 /\ resumed = {} /\ operation = "create" /\ handed = <<>>
    BY DEF Init
  <2>6. /\ query.start = 0 /\ query.limit = limit /\ mQuery.limit = limit
        /\ stream.next = 1 /\ stream.left = limit
    BY <1>2, <1>4
  <2>. QED
    BY <1>3, <2>3, <2>4, <2>5, <2>6 DEF Place
<1>8. AllCollected
  <2>1. \A t : ChunksUpTo(t, 0) = {}
    BY <1>1 DEF ChunksUpTo, ChunksOf, Positions
  <2>. QED
    BY <2>1 DEF Init, AllCollected, Collected, Increasing, Range
<1>9. GivenUnlessCut
  BY <1>1 DEF Init, GivenUnlessCut, Messages, Positions
<1>. QED
  BY <1>5, <1>6, <1>7, <1>8, <1>9 DEF Inv

(* What was collected and given stays when neither the buffer nor the collections change.          *)
LEMMA NothingMoves ==
    ASSUME Inv, UNCHANGED deliveryVars, UNCHANGED resumed
    PROVE  /\ Behind' /\ AllCollected' /\ GivenUnlessCut' /\ OnceUnlessResumed'
           /\ Given' = Given /\ Missed' = Missed
<1>1. Behind' /\ OnceUnlessResumed'
  BY DEF Inv, deliveryVars, Behind, OnceUnlessResumed, Untouched, Whole, Newest
<1>2. AllCollected'
  BY DEF Inv, deliveryVars, AllCollected, Collected, Untouched, Increasing, ChunksUpTo
<1>3. Given' = Given /\ Missed' = Missed
  BY DEF deliveryVars, Given, Missed, Messages, Whole
<1>4. GivenUnlessCut'
  BY <1>3 DEF Inv, deliveryVars, GivenUnlessCut, Messages
<1>. QED
  BY <1>1, <1>2, <1>3, <1>4

(* The call is established, or a message comes in: what is processed is the next message, or one a *)
(* call was made again upon.                                                                       *)
LEMMA DeliveryProcesses ==
    ASSUME Inv, CallCreated \/ MessageRead
    PROVE  /\ MayProcess(response') /\ Process(response') /\ ~complete
           /\ MessageRead => response' = stream.next
<1>1. Len(Topic) \in Nat /\ response \in 0..Len(Topic) /\ operation \in {"create", "read"}
  BY TopicAssumption DEF Inv, TypeOK, CallCreated, MessageRead
<1>2. ~complete
  BY <1>1 DEF Inv, Flow
<1>3. CASE CallCreated
  <2>1. response' = response /\ Process(response) /\ operation = "create"
    BY <1>3 DEF CallCreated
  <2>2. response \in resumed \/ (response = 0 /\ handed = <<>>)
    BY <2>1 DEF Inv, Place
  <2>3. MayProcess(response')
    BY <1>1, <2>1, <2>2 DEF MayProcess
  <2>. QED
    BY <1>2, <1>3, <2>1, <2>3 DEF CallCreated, MessageRead
<1>4. CASE MessageRead
  <2>1. response' = stream.next /\ Process(response') /\ stream.next \in Nat /\ ~(stream.next > Len(Topic))
    BY <1>4 DEF MessageRead, CanRead, Exhausted, Inv, TypeOK
  <2>2. /\ stream.next \in {response, response + 1} \ {0}
        /\ stream.next = response + 1 \/ response \in resumed
    BY DEF Inv, Place
  <2>3. MayProcess(response')
    BY <1>1, <2>1, <2>2 DEF MayProcess
  <2>. QED
    BY <1>2, <2>1, <2>3
<1>. QED
  BY <1>3, <1>4

LEMMA DeliveryKeeps ==
    ASSUME Inv, thread = "polling", CallCreated \/ MessageRead,
           backoff' = Shorter, UNCHANGED <<thread, mQuery, attempt, resumed>>
    PROVE  Inv'
<1>1. Len(Topic) \in Nat /\ response \in 0..Len(Topic) /\ operation \in {"create", "read"}
  BY TopicAssumption DEF Inv, TypeOK, CallCreated, MessageRead
<1>2. /\ MayProcess(response') /\ Process(response') /\ ~complete
      /\ MessageRead => response' = stream.next
  BY DeliveryProcesses
<1>3. response' \in 0..Len(Topic)
  BY <1>2 DEF MayProcess
<1>4. /\ query' \in [start : Nat, limit : Nat] /\ query'.start = response'
      /\ query.limit = 0 => query'.limit = 0
  BY <1>2, QueryResumes DEF Inv
<1>5. /\ pendingMessages' \in [Transactions -> Seq(Positions)]
      /\ handed' \in Seq(Seq(0..Len(Topic)))
      /\ Behind' /\ AllCollected' /\ GivenUnlessCut' /\ OnceUnlessResumed'
  BY <1>2, ProcessKeeps
<1>6. /\ stream' \in [next : Nat, left : Nat, limited : BOOLEAN, broken : BOOLEAN, cancelled : BOOLEAN]
      /\ stream'.limited = stream.limited
      /\ CallCreated => response' = response /\ stream'.next = stream.next /\ stream'.left = stream.left
      /\ MessageRead => stream'.next = response' + 1 /\ response' = stream.next
                        /\ (stream.limited => stream.left # 0 /\ stream'.left = stream.left - 1)
  <2>1. CASE CallCreated
    <3>1. stream' = stream /\ response' = response /\ ~MessageRead
      BY <2>1 DEF CallCreated, MessageRead
    <3>. QED
      BY <3>1 DEF Inv, TypeOK
  <2>2. CASE MessageRead
    <3>1. stream.limited => stream.left # 0
      BY <2>2 DEF MessageRead, CanRead, Exhausted
    <3>2. /\ stream' = [stream EXCEPT !.next = stream.next + 1,
                                      !.left = IF stream.limited THEN stream.left - 1 ELSE stream.left]
          /\ response' = stream.next /\ ~CallCreated
      BY <2>2 DEF MessageRead, CallCreated
    <3>3. stream \in [next : Nat, left : Nat, limited : BOOLEAN, broken : BOOLEAN, cancelled : BOOLEAN]
      BY DEF Inv, TypeOK
    <3>4. PICK left \in Nat : /\ stream' = [stream EXCEPT !.next = stream.next + 1, !.left = left]
                              /\ stream.limited => left = stream.left - 1
      <4>1. (IF stream.limited THEN stream.left - 1 ELSE stream.left) \in Nat
        BY <3>1, <3>3
      <4>. QED
        BY <3>2, <4>1, Zenon
    <3>5. stream' \in [next : Nat, left : Nat, limited : BOOLEAN, broken : BOOLEAN, cancelled : BOOLEAN]
      <4>1. stream' = [next |-> stream.next + 1, left |-> left, limited |-> stream.limited,
                       broken |-> stream.broken, cancelled |-> stream.cancelled]
        BY <3>3, <3>4
      <4>2. /\ stream.next + 1 \in Nat /\ stream.limited \in BOOLEAN
            /\ stream.broken \in BOOLEAN /\ stream.cancelled \in BOOLEAN
        BY <3>3
      <4>. QED
        BY <4>1, <4>2, Zenon
    <3>6. stream'.limited = stream.limited /\ stream'.next = stream.next + 1 /\ stream'.left = left
      BY <3>3, <3>4
    <3>. QED
      BY <3>1, <3>2, <3>4, <3>5, <3>6
  <2>. QED
    BY <2>1, <2>2
<1>7. /\ callStatus' \in {"CREATE", "PROCESSING", "FINISH"} /\ operation' = "read"
      /\ UNCHANGED <<closed, handlers, complete>>
  BY DEF CallCreated, MessageRead, Inv, TypeOK, endVars
<1>8. TypeOK'
  <2>1. resumed' \subseteq 0..Len(Topic)
    BY DEF Inv, TypeOK
  <2>. QED
    BY <1>3, <1>4, <1>5, <1>6, <1>7, <2>1, BackoffBounds DEF Inv, TypeOK
<1>9. Flow' /\ OneHandler'
  BY <1>1, <1>2, <1>7 DEF Inv, Flow, OneHandler
<1>10. Place'
  <2>1. mQuery.limit \in Nat /\ stream.left \in Nat /\ response \in Nat /\ response' \in Nat /\ stream.next \in Nat
    BY <1>1, <1>3, Numbers DEF Inv
  <2>2. stream'.next \in {response', response' + 1} \ {0} /\ (stream'.next = response' + 1 \/ response' \in resumed)
    BY <1>6, <2>1 DEF Inv, Place
  <2>3. ASSUME resumed = {}, mQuery.limit > 0
        PROVE  stream'.limited /\ response' + stream'.left = mQuery.limit
    <3>1. /\ stream.limited /\ response + stream.left = mQuery.limit /\ stream.next = response + 1
      BY <2>3 DEF Inv, Place
    <3>. QED
      BY <1>6, <2>1, <3>1
  <2>4. mQuery.limit = 0 => query'.limit = 0 /\ ~stream'.limited
    BY <1>4, <1>6 DEF Inv, Place
  <2>. QED
    BY <1>4, <1>7, <2>2, <2>3, <2>4 DEF Place
<1>. QED
  BY <1>5, <1>8, <1>9, <1>10 DEF Inv

(* Breaking or cancelling a stream changes neither its place nor its limit.                        *)
LEMMA StreamFlags ==
    ASSUME TypeOK, NEW s, s \in {stream, [stream EXCEPT !.cancelled = TRUE], [stream EXCEPT !.broken = TRUE]}
    PROVE  /\ s \in [next : Nat, left : Nat, limited : BOOLEAN, broken : BOOLEAN, cancelled : BOOLEAN]
           /\ s.next = stream.next /\ s.limited = stream.limited /\ s.left = stream.left
BY DEF TypeOK

(* The query was sent, but nothing more is read: the call ends, and the end is reported or the     *)
(* call is to be made again while an attempt is left.                                              *)
LEMMA EndKeeps ==
    ASSUME Inv, thread = "polling", StartFinish \/ Finished,
           backoff' = Shorter, UNCHANGED <<thread, mQuery, attempt, resumed>>
    PROVE  Inv'
<1> USE DEF Inv
<1>1. UNCHANGED <<query, response, pendingMessages, handed>>
  BY DEF StartFinish, Finished, deliveryVars
<1>2. Behind' /\ AllCollected' /\ GivenUnlessCut' /\ OnceUnlessResumed'
  BY <1>1, NothingMoves DEF deliveryVars
<1>3. CASE StartFinish
  <2>1. TypeOK'
    BY <1>1, <1>3, BackoffBounds DEF StartFinish, TypeOK, endVars
  <2>2. Flow' /\ OneHandler'
    BY <1>3 DEF StartFinish, endVars, Flow, OneHandler
  <2>3. Place'
    BY <1>1, <1>3 DEF StartFinish, Place
  <2>. QED
    BY <1>2, <2>1, <2>2, <2>3
<1>4. CASE Finished
  <2>1. stream' \in {stream, [stream EXCEPT !.cancelled = TRUE], [stream EXCEPT !.broken = TRUE]}
    BY <1>4 DEF Finished
  <2>2. /\ stream' \in [next : Nat, left : Nat, limited : BOOLEAN, broken : BOOLEAN, cancelled : BOOLEAN]
        /\ stream'.next = stream.next /\ stream'.limited = stream.limited /\ stream'.left = stream.left
    BY <2>1, StreamFlags
  <2>3. ~complete /\ handlers = <<>>
    <3>1. ~complete
      BY <1>4 DEF Finished, Flow
    <3>2. handlers \in Seq({"completionHandler", "errorHandler"}) /\ Len(handlers) = 0
      BY <3>1 DEF TypeOK, OneHandler
    <3>. QED
      BY <3>1, <3>2
  <2>4. \/ complete' = TRUE /\ handlers' = <<"completionHandler">>
        \/ complete' = TRUE /\ handlers' = <<"errorHandler">>
        \/ complete' = FALSE /\ handlers' = <<>> /\ attempt < MaxAttempts
    <3>1. PICK status \in FinalStatuses(stream) :
             \/ /\ status = "OK"
                /\ handlers' = Append(handlers, "completionHandler")
                /\ complete' = TRUE
             \/ /\ status # "OK"
                /\ complete' = (attempt >= MaxAttempts \/ ~RetryHandler(status))
                /\ handlers' = IF complete' THEN Append(handlers, "errorHandler") ELSE handlers
      BY <1>4 DEF Finished
    <3>2. attempt \in Nat /\ MaxAttempts \in Nat
      BY SubscriptionAssumption DEF TypeOK
    <3>3. Append(handlers, "completionHandler") = <<"completionHandler">>
          /\ Append(handlers, "errorHandler") = <<"errorHandler">>
      BY <2>3
    <3>4. (attempt >= MaxAttempts \/ ~RetryHandler(status)) \in BOOLEAN
      OBVIOUS
    <3>5. ~(attempt >= MaxAttempts) => attempt < MaxAttempts
      BY <3>2
    <3>. QED
      BY <2>3, <3>1, <3>3, <3>4, <3>5, Zenon
  <2>5. TypeOK'
    <3>1. handlers' \in Seq({"completionHandler", "errorHandler"}) /\ complete' \in BOOLEAN
      <4>1. /\ <<"completionHandler">> \in Seq({"completionHandler", "errorHandler"})
            /\ <<"errorHandler">> \in Seq({"completionHandler", "errorHandler"})
            /\ << >> \in Seq({"completionHandler", "errorHandler"})
        OBVIOUS
      <4>. QED
        BY <2>4, <4>1, Zenon
    <3>. QED
      BY <1>1, <1>4, <2>2, <3>1, BackoffBounds DEF Finished, TypeOK
  <2>6. OneHandler'
    BY <2>4 DEF OneHandler
  <2>7. Flow'
    BY <1>4, <2>4 DEF Finished, Flow
  <2>8. Place'
    BY <1>1, <1>4, <2>2 DEF Finished, Place
  <2>. QED
    BY <1>2, <2>5, <2>6, <2>7, <2>8
<1>. QED
  BY <1>3, <1>4

(* A new call starts at the message in the buffer, or at the first one: a message in the middle of *)
(* which it starts is missed, and the others are as they were.                                     *)
LEMMA ResubscribeKeeps ==
    ASSUME Inv, Resubscribe
    PROVE  Inv'
<1> USE DEF Inv
<1>1. stream' = [next |-> IF query.start = 0 THEN 1 ELSE query.start,
                 left |-> query.limit, limited |-> query.limit > 0,
                 broken |-> FALSE, cancelled |-> FALSE]
  BY DEF Resubscribe, NewStream
<1>2. query.start \in Nat /\ query.limit \in Nat /\ response \in Nat /\ response \in 0..Len(Topic)
  BY TopicAssumption DEF TypeOK
<1>3. stream' \in [next : Nat, left : Nat, limited : BOOLEAN, broken : BOOLEAN, cancelled : BOOLEAN]
  <2>1. (query.limit > 0) \in BOOLEAN /\ (IF query.start = 0 THEN 1 ELSE query.start) \in Nat
    BY <1>2
  <2>. QED
    BY <1>1, <1>2, <2>1, Zenon
<1>4. /\ UNCHANGED <<mQuery, query, response, pendingMessages, handed, handlers, complete, attempt, backoff>>
      /\ resumed' = resumed \cup {response}
  BY DEF Resubscribe, deliveryVars, endVars
<1>5. TypeOK'
  <2>1. resumed' \subseteq 0..Len(Topic)
    BY <1>2, <1>4 DEF TypeOK
  <2>. QED
    BY <1>3, <1>4, <2>1 DEF Resubscribe, TypeOK
<1>6. Flow' /\ OneHandler'
  BY <1>4 DEF Resubscribe, Flow, OneHandler
<1>7. Place'
  <2>1. stream'.next = (IF query.start = 0 THEN 1 ELSE query.start) /\ stream'.limited = (query.limit > 0)
    BY <1>1, Zenon
  <2>2. query.limit = 0 => ~(query.limit > 0)
    BY <1>2
  <2>3. query.limit = 0 => ~stream'.limited
    BY <2>1, <2>2, Zenon
  <2>4. response' \in resumed' /\ resumed' # {}
    BY <1>4
  <2>. QED
    BY <1>2, <1>4, <2>1, <2>3, <2>4 DEF Place
<1>8. \A s : Untouched(s)' => Untouched(s)
  BY <1>4 DEF Untouched
<1>9. Behind'
  BY <1>2, <1>4 DEF Behind
<1>10. AllCollected'
  BY <1>4, <1>8 DEF AllCollected, Collected, Increasing, ChunksUpTo
<1>11. OnceUnlessResumed'
  <2>1. \A k \in DOMAIN handed : Untouched(handed[k])' => Untouched(handed[k])
    BY <1>4, <1>8 DEF Untouched
  <2>. QED
    BY <1>4, <2>1 DEF OnceUnlessResumed, Whole, Newest
<1>12. GivenUnlessCut'
  BY <1>4 DEF GivenUnlessCut, Given, Missed, Messages, Whole
<1>. QED
  BY <1>5, <1>6, <1>7, <1>9, <1>10, <1>11, <1>12

(* The steps that touch neither the buffer nor what came of it: the loop's own, and those of the   *)
(* application and the network.                                                                    *)
LEMMA OthersKeep ==
    ASSUME Inv,
           SetOnUnsubscribe \/ Timeout \/ Shutdown \/ Unsubscribe \/ UnsubscribeLate \/ Break \/ UNCHANGED vars
    PROVE  Inv' /\ UNCHANGED <<mQuery, response, handed, resumed, handlers, complete>>
<1> USE DEF Inv
<1>1. UNCHANGED <<mQuery, query, response, pendingMessages, handed, handlers, complete, closed, operation,
                  callStatus, resumed>>
  BY DEF SetOnUnsubscribe, Timeout, Shutdown, Unsubscribe, UnsubscribeLate, Break, vars, callVars,
         deliveryVars, endVars
<1>2. Behind' /\ AllCollected' /\ GivenUnlessCut' /\ OnceUnlessResumed'
  BY <1>1, NothingMoves DEF deliveryVars
<1>3. /\ stream' \in [next : Nat, left : Nat, limited : BOOLEAN, broken : BOOLEAN, cancelled : BOOLEAN]
      /\ stream'.next = stream.next /\ stream'.limited = stream.limited /\ stream'.left = stream.left
  <2>1. stream' \in {stream, [stream EXCEPT !.cancelled = TRUE], [stream EXCEPT !.broken = TRUE]}
    BY DEF SetOnUnsubscribe, Timeout, Shutdown, Unsubscribe, UnsubscribeLate, Break, vars, callVars
  <2>. QED
    BY <2>1, StreamFlags
<1>4. Place'
  BY <1>1, <1>3 DEF Place
<1>5. attempt' \in 0..MaxAttempts
  <2>1. CASE Shutdown
    <3>1. attempt' = attempt \/ (attempt' = attempt + 1 /\ attempt < MaxAttempts)
      BY <2>1 DEF Shutdown, Flow
    <3>. QED
      BY <3>1, SubscriptionAssumption DEF TypeOK
  <2>2. CASE ~Shutdown
    BY <2>2 DEF SetOnUnsubscribe, Timeout, Unsubscribe, UnsubscribeLate, Break, vars, TypeOK
  <2>. QED
    BY <2>1, <2>2
<1>6. backoff' \in MinBackoff..MaxBackoff
  BY BackoffBounds
  DEF SetOnUnsubscribe, Timeout, Shutdown, Unsubscribe, UnsubscribeLate, Break, vars, TypeOK
<1>7. thread' \in {"starting", "polling", "sleeping", "returned", "crashed"}
  BY DEF SetOnUnsubscribe, Timeout, Shutdown, Unsubscribe, UnsubscribeLate, Break, vars, TypeOK
<1>8. TypeOK'
  BY <1>1, <1>3, <1>5, <1>6, <1>7 DEF TypeOK
<1>9. Flow' /\ OneHandler'
  BY <1>1
  DEF SetOnUnsubscribe, Timeout, Shutdown, Unsubscribe, UnsubscribeLate, Break, vars, Flow, OneHandler, TypeOK
<1>. QED
  BY <1>1, <1>2, <1>4, <1>8, <1>9

(* The invariant holds throughout.                                                                 *)
LEMMA SubscriptionInvariant == Spec => []Inv
<1>1. Inv /\ [Next]_vars => Inv'
  <2> SUFFICES ASSUME Inv, [Next]_vars PROVE Inv'
    OBVIOUS
  <2>1. CASE GotEvent
    BY <2>1, DeliveryKeeps, EndKeeps DEF GotEvent
  <2>2. CASE Resubscribe
    BY <2>2, ResubscribeKeeps
  <2>3. CASE SetOnUnsubscribe \/ Timeout \/ Shutdown \/ Unsubscribe \/ UnsubscribeLate \/ Break \/ UNCHANGED vars
    BY <2>3, OthersKeep
  <2>. QED
    BY <2>1, <2>2, <2>3 DEF Next, ThreadStep, Ended
<1>. QED
  BY <1>1, InvInit, PTL DEF Spec

-----------------------------------------------------------------------------
(* The members of the thread have their types: no counter passes its end, and no message is read   *)
(* that the topic does not have.                                                                   *)
THEOREM TypeCorrect == Spec => []TypeOK
BY SubscriptionInvariant, PTL DEF Inv

(* Every message received to its end was given to onNext whole, unless a call was made again in    *)
(* the middle of it (TopicMessageQuery.cc, startSubscription).                                     *)
THEOREM MessagesGiven == Spec => []GivenUnlessCut
BY SubscriptionInvariant, PTL DEF Inv

(* Of the messages no call was made again upon, onNext gets none twice, none with a chunk missing  *)
(* or out of place, and no later one before an earlier.                                            *)
THEOREM EachMessageOnce == Spec => []OnceUnlessResumed
BY SubscriptionInvariant, PTL DEF Inv

(* One of completionHandler and errorHandler is called, once, before the thread returns.           *)
THEOREM HandlerCalledOnce == Spec => []OneHandler
BY SubscriptionInvariant, PTL DEF Inv

-----------------------------------------------------------------------------
(* A stream ends with OK only after all the application asked for.                                 *)
LEMMA OkMeansAsked ==
    ASSUME Inv, "OK" \in FinalStatuses(stream)
    PROVE  Reader!Asked \subseteq Given \cup Missed
<1> USE DEF Inv
<1>1. "OK" \notin Errors
  BY SubscriptionAssumption
<1>2. stream.next > Len(Topic) \/ (stream.limited /\ stream.left = 0)
  BY <1>1 DEF FinalStatuses, Exhausted
<1>3. /\ Len(Topic) \in Nat /\ response \in 0..Len(Topic) /\ mQuery.limit \in Nat
      /\ \A m \in Messages : m \in Nat /\ m <= Len(Topic)
  BY Numbers, LastChunk
<1>4. \A m \in Messages : m <= response => m \in Given \cup Missed
  BY DEF GivenUnlessCut
<1>5. CASE mQuery.limit = 0
  <2>1. response = Len(Topic)
    BY <1>2, <1>3, <1>5 DEF Place
  <2>. QED
    BY <1>3, <1>4, <1>5, <2>1 DEF Reader!Asked
<1>6. CASE mQuery.limit # 0 /\ resumed = {}
  <2>1. response + stream.left = mQuery.limit /\ stream.next = response + 1 /\ stream.left \in Nat
    BY <1>3, <1>6 DEF Place, TypeOK
  <2>2. response = Len(Topic) \/ response = mQuery.limit
    BY <1>2, <1>3, <2>1
  <2>3. \A m \in Messages : m <= mQuery.limit => m <= response
    BY <1>3, <2>2
  <2>. QED
    BY <1>3, <1>4, <1>6, <2>3 DEF Reader!Asked
<1>7. CASE mQuery.limit # 0 /\ resumed # {}
  BY <1>7 DEF Reader!Asked
<1>. QED
  BY <1>5, <1>6, <1>7

(* A message that is newly given has all before it given or missed, and is within the limit if no  *)
(* call was made again.                                                                            *)
LEMMA DeliveryGives ==
    ASSUME Inv, CallCreated \/ MessageRead, UNCHANGED <<mQuery, resumed>>
    PROVE  UNCHANGED <<mQuery.limit, Given, Missed, resumed # {}, Ending>> \/ \E m \in Messages : Reader!Give(m)
<1>1. /\ MayProcess(response') /\ Process(response') /\ ~complete
      /\ MessageRead => response' = stream.next
  BY DeliveryProcesses
<1>2. UNCHANGED <<handlers, complete>>
  BY DEF CallCreated, MessageRead, endVars
<1>3. Given \subseteq Given' /\ Given' \subseteq Given \cup {response'}
  BY <1>1, ProcessKeeps
<1>4. Missed' = Missed /\ Messages' = Messages
  BY DEF Missed, Messages
<1>5. Ending = "open" /\ Ending' = "open"
  BY <1>1, <1>2 DEF Ending
<1>6. CASE Given' = Given
  BY <1>4, <1>5, <1>6
<1>7. ASSUME Given' # Given  PROVE Reader!Give(response') /\ response' \in Messages
  <2>1. Given' = Given \cup {response'} /\ response' \notin Given
    BY <1>3, <1>7
  <2>2. response' \in Messages
    BY <1>4, <2>1 DEF Given
  <2>3. /\ response' \in Nat /\ response' # 0 /\ response \in Nat /\ mQuery.limit \in Nat
        /\ \A m \in Messages : m \in Nat
    BY <2>2, Numbers, LastChunk DEF Inv
  <2>4. \/ response' = response + 1
        \/ response' = response /\ (response \in resumed \/ response' = 0)
    BY <1>1 DEF MayProcess
  <2>5. {m \in Messages : m < response'} \subseteq Given \cup Missed
    <3>1. \A m \in Messages : m < response' => m <= response
      BY <2>3, <2>4
    <3>. QED
      BY <3>1 DEF Inv, GivenUnlessCut
  <2>6. ASSUME resumed = {}, mQuery.limit > 0  PROVE response' <= mQuery.limit
    <3>1. stream.limited /\ response + stream.left = mQuery.limit /\ stream.left \in Nat
      BY <2>6 DEF Inv, Place, TypeOK
    <3>2. response' = response + 1
      BY <2>3, <2>4, <2>6
    <3>3. MessageRead
      <4>1. CallCreated => response' = response
        BY DEF CallCreated
      <4>. QED
        BY <2>3, <3>2, <4>1
    <3>4. stream.left # 0
      BY <3>1, <3>3 DEF MessageRead, CanRead, Exhausted
    <3>. QED
      BY <2>3, <3>1, <3>2, <3>4
  <2>. QED
    BY <1>4, <1>5, <2>1, <2>2, <2>5, <2>6 DEF Reader!Give
<1>. QED
  BY <1>6, <1>7

(* A call that is made again misses at most the message it was made in the middle of.              *)
LEMMA ResubscribeMisses ==
    ASSUME Inv, Resubscribe
    PROVE  Reader!Resume
<1>1. /\ UNCHANGED <<mQuery, response, handed, handlers, complete>> /\ ~complete
      /\ resumed' = resumed \cup {response} /\ thread = "sleeping"
  BY DEF Resubscribe, deliveryVars, endVars, Inv, Flow
<1>2. Ending = "open" /\ Ending' = "open" /\ resumed' # {}
  BY <1>1 DEF Ending
<1>3. Given' = Given /\ Messages' = Messages
  BY <1>1 DEF Given, Messages, Whole
<1>4. Missed' = Missed \cup {m \in Messages : response < m /\ response \in ChunksOf(Topic[m].initial)}
  BY <1>1 DEF Missed, Messages
<1>5. /\ response \in Nat /\ \A m \in Messages : m \in Nat /\ m \in ChunksOf(Topic[m].initial)
                                /\ \A c \in ChunksOf(Topic[m].initial) : c <= m
  BY Numbers, LastChunk DEF Inv
<1>6. ASSUME NEW m \in Messages, NEW n \in Messages,
             response \in ChunksOf(Topic[m].initial), response \in ChunksOf(Topic[n].initial)
      PROVE  m = n
  <2>1. Topic[m].initial = Topic[n].initial
    BY <1>6 DEF ChunksOf
  <2>2. m <= n /\ n <= m
    BY <1>5, <2>1
  <2>. QED
    BY <1>5, <2>2
<1>7. ASSUME NEW m \in Messages, response < m  PROVE m \notin Given
  <2> SUFFICES ASSUME NEW k \in DOMAIN handed, Whole(handed[k], Topic[m].initial) PROVE FALSE
    BY DEF Given
  <2>1. m \in Range(handed[k])
    BY <1>5 DEF Whole
  <2>2. m \in 0..response
    BY <2>1 DEF Inv, Behind
  <2>. QED
    BY <1>5, <1>7, <2>2
<1>8. Missed' = Missed \/ \E m \in Messages \ Given : Missed' = Missed \cup {m}
  <2>1. CASE \E m \in Messages : response < m /\ response \in ChunksOf(Topic[m].initial)
    <3>1. PICK m \in Messages : response < m /\ response \in ChunksOf(Topic[m].initial)
      BY <2>1
    <3>2. {n \in Messages : response < n /\ response \in ChunksOf(Topic[n].initial)} = {m}
      BY <1>6, <3>1
    <3>. QED
      BY <1>4, <1>7, <3>1, <3>2
  <2>2. CASE ~\E m \in Messages : response < m /\ response \in ChunksOf(Topic[m].initial)
    BY <1>4, <2>2
  <2>. QED
    BY <2>1, <2>2
<1>. QED
  BY <1>1, <1>2, <1>3, <1>8 DEF Reader!Resume

(* The subscription implements TopicReader: whole messages are given in their order, none is       *)
(* missed but by a call made again in its middle, none is beyond the limit of the first call, and  *)
(* the completion handler means that the application was given all else it asked for.              *)
THEOREM SubscriptionReads == Spec => ReadsTopic
<1>1. Init => Reader!Init
  <2> SUFFICES ASSUME Init PROVE Reader!Init
    OBVIOUS
  <2>1. PICK limit \in Limits : mQuery = [start |-> 0, limit |-> limit]
    BY DEF Init
  <2>2. mQuery.limit \in Nat
    BY <2>1, SubscriptionAssumption
  <2>3. handed = <<>> /\ resumed = {} /\ ~complete
    BY DEF Init
  <2>4. Given = {} /\ Missed = {} /\ Ending = "open"
    BY <2>3 DEF Given, Missed, Ending
  <2>. QED
    BY <2>2, <2>3, <2>4 DEF Reader!Init
<1>2. ASSUME Inv, [Next]_vars
      PROVE  [Reader!Next]_<<mQuery.limit, Given, Missed, resumed # {}, Ending>>
  <2>1. CASE GotEvent /\ (CallCreated \/ MessageRead)
    BY <1>2, <2>1, DeliveryGives DEF GotEvent, Reader!Next
  <2>2. CASE Resubscribe
    BY <1>2, <2>2, ResubscribeMisses DEF Reader!Next
  <2>3. CASE GotEvent /\ Finished
    <3>1. /\ ~complete /\ handlers = <<>>
          /\ UNCHANGED <<mQuery, query, response, pendingMessages, handed, resumed>>
      BY <1>2, <2>3 DEF GotEvent, Finished, Inv, Flow, OneHandler, TypeOK, deliveryVars
    <3>2. Ending = "open"
      BY <3>1 DEF Ending
    <3>3. Given' = Given /\ Missed' = Missed
      BY <1>2, <3>1, NothingMoves DEF deliveryVars
    <3>4. PICK status \in FinalStatuses(stream) :
             \/ /\ status = "OK"
                /\ handlers' = Append(handlers, "completionHandler")
                /\ complete' = TRUE
             \/ /\ status # "OK"
                /\ handlers' = IF complete' THEN Append(handlers, "errorHandler") ELSE handlers
      BY <2>3 DEF Finished
    <3>5. CASE status = "OK"
      <4>1. Reader!Asked \subseteq Given \cup Missed
        BY <1>2, <3>4, <3>5, OkMeansAsked
      <4>2. complete' /\ handlers'[1] = "completionHandler"
        BY <3>1, <3>4, <3>5
      <4>3. Ending' = "completed"
        BY <4>2 DEF Ending
      <4>. QED
        BY <3>1, <3>2, <3>3, <4>1, <4>3 DEF Reader!Next, Reader!Complete
    <3>6. CASE status # "OK" /\ complete'
      <4>1. handlers'[1] = "errorHandler"
        BY <3>1, <3>4, <3>6
      <4>2. Ending' = "failed"
        BY <3>6, <4>1 DEF Ending
      <4>. QED
        BY <3>1, <3>2, <3>3, <4>2 DEF Reader!Next, Reader!Fail
    <3>7. CASE ~complete'
      BY <3>1, <3>2, <3>3, <3>7 DEF Ending
    <3>. QED
      BY <3>5, <3>6, <3>7
  <2>4. CASE GotEvent /\ StartFinish
    <3>1. UNCHANGED <<mQuery, query, response, pendingMessages, handed, resumed, handlers, complete>>
      BY <2>4 DEF GotEvent, StartFinish, deliveryVars, endVars
    <3>2. Given' = Given /\ Missed' = Missed
      BY <1>2, <3>1, NothingMoves DEF deliveryVars
    <3>. QED
      BY <3>1, <3>2 DEF Ending
  <2>5. CASE SetOnUnsubscribe \/ Timeout \/ Shutdown \/ Unsubscribe \/ UnsubscribeLate \/ Break \/ UNCHANGED vars
    <3>1. UNCHANGED <<mQuery, response, handed, resumed, handlers, complete>>
      BY <1>2, <2>5, OthersKeep
    <3>2. Given' = Given /\ Missed' = Missed
      BY <3>1 DEF Given, Missed, Messages, Whole
    <3>. QED
      BY <3>1, <3>2 DEF Ending
  <2>. QED
    BY <1>2, <2>1, <2>2, <2>3, <2>4, <2>5 DEF Next, ThreadStep, GotEvent, Ended
<1>. QED
  BY <1>1, <1>2, SubscriptionInvariant, PTL DEF Spec, ReadsTopic, Reader!Spec
============================================================================
