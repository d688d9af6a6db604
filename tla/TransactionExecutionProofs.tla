--------------------- MODULE TransactionExecutionProofs ---------------------
(***************************************************************************)
(* What a transaction keeps from its first setter to consensus, proved for  *)
(* every class, data, chunk size, set of keys and nodes, however often      *)
(* answers are lost, IDs expire and the application calls.                  *)
(***************************************************************************)
EXTENDS TransactionExecution, SequenceTheorems, FiniteSetTheorems, WellFoundedInduction, TLAPS

-----------------------------------------------------------------------------
(* Cutting.  As many chunks are required as it takes to reach the end of the data, and all but the *)
(* last are full.                                                                                  *)
Parts(length, size) == (length + size - 1) \div size
LEMMA PartsAre ==
    ASSUME NEW length \in Nat, NEW size \in Nat \ {0}
    PROVE  /\ Parts(length, size) \in Nat
           /\ \A c \in Nat : c < Parts(length, size) => size * c < length
           /\ \A c \in Nat : c + 1 < Parts(length, size) => size * c + size <= length
           /\ length <= size => Parts(length, size) <= 1
           /\ length \in 1..size => Parts(length, size) = 1
<1>1. PICK q, r : q = (length + size - 1) \div size /\ r = (length + size - 1) % size
  OBVIOUS
<1>2. q \in Nat /\ r \in 0..(size - 1)
  BY <1>1
<1>3. length + size - 1 = size * q + r
  BY <1>1
<1>4. ASSUME NEW c \in Nat, c < q PROVE size * c < length
  <2>1. PICK e \in Nat : q = c + 1 + e
    <3>1. q - c - 1 \in Nat /\ q = c + 1 + (q - c - 1)
      BY <1>2, <1>4
    <3>. QED
      BY <3>1
  <2>2. size * q = size * c + size + size * e /\ size * e \in Nat /\ size * c \in Nat
    BY <2>1
  <2>. QED
    BY <1>2, <1>3, <2>2
<1>5. ASSUME NEW c \in Nat, c + 1 < q PROVE size * c + size <= length
  <2>1. size * (c + 1) < length
    BY <1>4, <1>5
  <2>2. size * (c + 1) = size * c + size /\ size * c \in Nat
    OBVIOUS
  <2>. QED
    BY <2>1, <2>2
<1>6. length <= size => q <= 1
  <2>1. q > 1 => size * 1 < length
    BY <1>2, <1>4
  <2>. QED
    BY <1>2, <2>1
<1>7. length \in 1..size => q = 1
  <2>1. ASSUME length \in 1..size PROVE q # 0
    <3>1. q = 0 => size * q = 0
      OBVIOUS
    <3>. QED
      BY <1>2, <1>3, <2>1, <3>1
  <2>. QED
    BY <1>2, <1>6, <2>1
<1>. QED
  BY <1>1, <1>2, <1>4, <1>5, <1>6, <1>7 DEF Parts

(* Induction on the numbers to a last one.                                                         *)
LEMMA LeastIn ==
    ASSUME NEW S \in SUBSET Nat, S # {}
    PROVE  \E e \in S : \A d \in S : e <= d
<1> DEFINE R == OpToRel(<, Nat)
<1>1. IsWellFoundedOn(R, Nat)
  BY NatLessThanWellFounded
<1>2. \A x, y \in Nat : y < x => <<y, x>> \in R
  BY DEF OpToRel
<1> HIDE DEF R
<1>3. PICK e \in S : \A d \in S : ~ (<<d, e>> \in R)
  BY <1>1, WFMin
<1>4. ASSUME NEW d \in S PROVE e <= d
  <2>1. ~ (d < e)
    BY <1>2, <1>3, S \subseteq Nat
  <2>. QED
    BY <2>1, S \subseteq Nat
<1>. QED
  BY <1>4

LEMMA Inductively ==
    ASSUME NEW S \in SUBSET Nat, 0 \in S, \A c \in S : c + 1 \in S
    PROVE  S = Nat
<1> SUFFICES ASSUME S # Nat PROVE FALSE
  OBVIOUS
<1>1. PICK e \in Nat \ S : \A d \in Nat \ S : e <= d
  <2>1. Nat \ S \in SUBSET Nat /\ Nat \ S # {}
    OBVIOUS
  <2>. QED
    BY <2>1, LeastIn
<1>2. e # 0 /\ e - 1 \in Nat /\ (e - 1) + 1 = e
  BY <1>1
<1>3. e - 1 \in S
  BY <1>1, <1>2
<1>. QED
  BY <1>1, <1>2, <1>3

(* What a chunk holds.                                                                             *)
Cut(data, size, c) ==
    SubSeq(data, size * c + 1, size * c + (IF size + size * c > Len(data) THEN Len(data) - size * c ELSE size))
IsCut(part, data, size, c, U) ==
    /\ part \in Seq(U)
    /\ Len(part) \in 1..size /\ size * c + Len(part) <= Len(data)
    /\ \A j \in 1..Len(part) : part[j] = data[size * c + j]
    /\ c + 1 < Parts(Len(data), size) => Len(part) = size
LEMMA CutIs ==
    ASSUME NEW U, NEW data \in Seq(U), NEW size \in Nat \ {0}, NEW c \in Nat, c < Parts(Len(data), size)
    PROVE  IsCut(Cut(data, size, c), data, size, c, U)
<1>1. PICK a, l, n : /\ a = size * c /\ n = Len(data)
                     /\ l = (IF size + a > n THEN n - a ELSE size)
  OBVIOUS
<1>2. a \in Nat /\ n \in Nat /\ a < n /\ (c + 1 < Parts(Len(data), size) => a + size <= n)
  <2>1. n \in Nat /\ n = Len(data)
    BY <1>1
  <2>2. a = size * c /\ a \in Nat
    BY <1>1
  <2>3. c < Parts(n, size)
    BY <2>1
  <2>4. size * c < n /\ (c + 1 < Parts(n, size) => size * c + size <= n)
    BY <2>1, <2>3, PartsAre
  <2>. QED
    BY <2>1, <2>2, <2>4, Zenon
<1>3. l \in 1..size /\ a + l <= n /\ (c + 1 < Parts(Len(data), size) => l = size)
  <2>1. l = (IF size + a > n THEN n - a ELSE size)
    BY <1>1
  <2>. QED
    BY ONLY <1>2, <2>1, size \in Nat \ {0}
<1>4. Cut(data, size, c) = SubSeq(data, a + 1, a + l)
  BY <1>1 DEF Cut
<1>5. /\ SubSeq(data, a + 1, a + l) \in Seq(U) /\ Len(SubSeq(data, a + 1, a + l)) = l
      /\ \A j \in 1..l : SubSeq(data, a + 1, a + l)[j] = data[a + j]
  <2>1. PICK from, to : from = a + 1 /\ to = a + l
    OBVIOUS
  <2>2. from \in Nat \ {0} /\ to \in Nat /\ from <= to /\ to <= Len(data) /\ to - from + 1 = l
    <3>1. n = Len(data)
      BY <1>1
    <3>. QED
      BY ONLY <1>2, <1>3, <2>1, <3>1
  <2>3. \A j \in 1..l : from + j - 1 = a + j
    BY ONLY <1>2, <1>3, <2>1
  <2>4. PICK part : part = SubSeq(data, from, to)
    OBVIOUS
  <2>5. part \in Seq(U) /\ Len(part) = to - from + 1 /\ \A j \in 1..(to - from + 1) : part[j] = data[from + j - 1]
    BY ONLY <2>2, <2>4, data \in Seq(U)
  <2>6. part \in Seq(U) /\ Len(part) = l /\ \A j \in 1..l : part[j] = data[a + j]
    BY ONLY <2>2, <2>3, <2>5
  <2>. QED
    BY <2>1, <2>4, <2>6, Zenon
<1>6. PICK part : part = Cut(data, size, c)
  OBVIOUS
<1>7. part \in Seq(U) /\ Len(part) = l /\ \A j \in 1..l : part[j] = data[a + j]
  BY <1>4, <1>5, <1>6, Zenon
<1>8. IsCut(part, data, size, c, U)
  BY <1>1, <1>3, <1>7 DEF IsCut
<1>. QED
  BY <1>6, <1>8

(* What fits into one chunk is the chunk.                                                          *)
LEMMA WholeCut ==
    ASSUME NEW U, NEW data \in Seq(U), NEW size \in Nat \ {0}, Len(data) <= size
    PROVE  Cut(data, size, 0) = data
<1>1. PICK n, a, l : n = Len(data) /\ a = size * 0 /\ l = (IF size + a > n THEN n - a ELSE size)
  OBVIOUS
<1>2. n \in Nat /\ n <= size /\ a = 0
  BY <1>1
<1>3. a + 1 = 1 /\ a + l = n
  <2>1. l = (IF size + a > n THEN n - a ELSE size)
    BY <1>1
  <2>. QED
    BY ONLY <1>2, <2>1, size \in Nat \ {0}
<1>4. Cut(data, size, 0) = SubSeq(data, 1, n)
  <2>1. Cut(data, size, 0) = SubSeq(data, a + 1, a + l)
    BY <1>1, Zenon DEF Cut
  <2>. QED
    BY <1>3, <2>1
<1>5. SubSeq(data, 1, n) = data
  BY <1>1
<1>. QED
  BY <1>4, <1>5

-----------------------------------------------------------------------------
(* Joining chunks: up[c] is what the first c of them hold.                                         *)
Joins(up, m, g, U) ==
    up \in [0..m -> Seq(U)] /\ up[0] = <<>> /\ \A c \in 1..m : up[c] = up[c - 1] \o g[c]

(* They can be joined, and in one way only.                                                        *)
LEMMA JoinsExist ==
    ASSUME NEW U, NEW m \in Nat, NEW g \in [1..m -> Seq(U)]
    PROVE  \E up : Joins(up, m, g, U)
<1> DEFINE S == {n \in Nat : n <= m => \E up : Joins(up, n, g, U)}
<1>1. 0 \in S
  <2>1. PICK up : up = [c \in 0..0 |-> << >>]
    OBVIOUS
  <2>2. << >> \in Seq(U) /\ 1..0 = {}
    OBVIOUS
  <2>3. up \in [0..0 -> Seq(U)] /\ up[0] = << >>
    BY <2>1, <2>2
  <2>. QED
    BY <2>2, <2>3 DEF Joins
<1>2. ASSUME NEW n \in S PROVE n + 1 \in S
  <2> SUFFICES ASSUME n + 1 <= m PROVE \E up : Joins(up, n + 1, g, U)
    OBVIOUS
  <2>1. PICK up : Joins(up, n, g, U)
    OBVIOUS
  <2>2. PICK whole : whole = up[n] \o g[n + 1]
    OBVIOUS
  <2>3. PICK next : next = [c \in 0..(n + 1) |-> IF c = n + 1 THEN whole ELSE up[c]]
    OBVIOUS
  <2>4. n \in Nat /\ up \in [0..n -> Seq(U)] /\ up[0] = <<>> /\ \A c \in 1..n : up[c] = up[c - 1] \o g[c]
    BY <2>1 DEF Joins
  <2>5. whole \in Seq(U)
    <3>1. up[n] \in Seq(U) /\ g[n + 1] \in Seq(U)
      BY <2>4
    <3>. QED
      BY <2>2, <3>1
  <2>6. next[n + 1] = whole /\ \A c \in 0..n : next[c] = up[c]
    BY ONLY <2>3, <2>4
  <2>7. next \in [0..(n + 1) -> Seq(U)]
    BY ONLY <2>3, <2>4, <2>5
  <2>8. ASSUME NEW c \in 1..(n + 1) PROVE next[c] = next[c - 1] \o g[c]
    <3>1. CASE c = n + 1
      <4>1. c - 1 = n /\ n \in 0..n
        BY <2>4, <3>1
      <4>. QED
        BY <2>2, <2>6, <3>1, <4>1
    <3>2. CASE c # n + 1
      <4>1. c \in 1..n /\ c \in 0..n /\ c - 1 \in 0..n
        BY <2>4, <3>2
      <4>2. next[c] = up[c] /\ next[c - 1] = up[c - 1] /\ up[c] = up[c - 1] \o g[c]
        BY <2>4, <2>6, <4>1
      <4>. QED
        BY <4>2
    <3>. QED
      BY <3>1, <3>2
  <2>9. next[0] = <<>>
    BY <2>4, <2>6
  <2>. QED
    BY <2>7, <2>8, <2>9 DEF Joins
<1>3. S \in SUBSET Nat
  OBVIOUS
<1> HIDE DEF S
<1>4. m \in S
  BY <1>1, <1>2, <1>3, Inductively
<1>. QED
  BY <1>4 DEF S

JoinsTo(vp, m, g) == vp[0] = <<>> /\ \A c \in 1..m : vp[c] = vp[c - 1] \o g[c]
LEMMA JoinsOnce ==
    ASSUME NEW U, NEW m \in Nat, NEW g, NEW up, NEW vp, Joins(up, m, g, U), JoinsTo(vp, m, g)
    PROVE  vp[m] = up[m]
<1> DEFINE S == {n \in Nat : n <= m => vp[n] = up[n]}
<1>1. 0 \in S
  BY DEF Joins, JoinsTo
<1>2. ASSUME NEW n \in S PROVE n + 1 \in S
  <2>1. n + 1 <= m => vp[n + 1] = vp[n] \o g[n + 1] /\ up[n + 1] = up[n] \o g[n + 1]
    <3>1. n + 1 <= m => n + 1 \in 1..m /\ (n + 1) - 1 = n
      OBVIOUS
    <3>. QED
      BY <3>1 DEF Joins, JoinsTo
  <2>2. n \in Nat /\ (n <= m => vp[n] = up[n])
    OBVIOUS
  <2>3. n + 1 \in Nat /\ (n + 1 <= m => n <= m)
    BY <2>2
  <2>4. n + 1 <= m => vp[n + 1] = up[n + 1]
    BY <2>1, <2>2, <2>3
  <2>. QED
    BY <2>3, <2>4
<1>3. S \in SUBSET Nat
  OBVIOUS
<1> HIDE DEF S
<1>4. S = Nat
  BY <1>1, <1>2, <1>3, Inductively
<1>. QED
  BY <1>4 DEF S

(* Where every chunk is as long as cutting the whole again would make it, it is what cutting gives. *)
AsLong(g, m, data, size) == \A c \in 0..(m - 1) : Len(g[c + 1]) = Len(Cut(data, size, c))
CutsOf(g, m, data, size) == \A c \in 0..(m - 1) : g[c + 1] = Cut(data, size, c)
LEMMA JoinedCut ==
    ASSUME NEW U, NEW m \in Nat, NEW g \in [1..m -> Seq(U)], NEW up, Joins(up, m, g, U),
           NEW size \in Nat \ {0}, NEW data, data = up[m], m = Parts(Len(data), size),
           AsLong(g, m, data, size)
    PROVE  CutsOf(g, m, data, size)
<1>1. data \in Seq(U) /\ Len(data) \in Nat
  BY DEF Joins
<1>2. ASSUME NEW c \in 0..(m - 1)
      PROVE  /\ c \in Nat /\ c + 1 \in 1..m /\ (c + 1) - 1 = c /\ g[c + 1] \in Seq(U) /\ up[c] \in Seq(U)
             /\ up[c + 1] = up[c] \o g[c + 1]
             /\ Cut(data, size, c) \in Seq(U) /\ Len(g[c + 1]) = Len(Cut(data, size, c))
             /\ size * c + Len(g[c + 1]) <= Len(data)
             /\ \A j \in 1..Len(g[c + 1]) : Cut(data, size, c)[j] = data[size * c + j]
             /\ c + 1 < m => Len(g[c + 1]) = size
  <2>1. c \in Nat /\ c + 1 \in 1..m /\ (c + 1) - 1 = c /\ c < m
    OBVIOUS
  <2>2. up[c] \in Seq(U) /\ up[c + 1] = up[c] \o g[c + 1]
    <3>1. PICK d : d = c + 1
      OBVIOUS
    <3>2. d \in 1..m /\ d - 1 = c /\ c \in 0..m
      BY ONLY <2>1, <3>1, m \in Nat
    <3>3. up \in [0..m -> Seq(U)] /\ \A n \in 1..m : up[n] = up[n - 1] \o g[n]
      BY DEF Joins
    <3>4. up[d] = up[d - 1] \o g[d] /\ up[c] \in Seq(U)
      BY ONLY <3>2, <3>3
    <3>. QED
      BY <3>1, <3>2, <3>4
  <2>3. /\ Cut(data, size, c) \in Seq(U) /\ size * c + Len(Cut(data, size, c)) <= Len(data)
        /\ \A j \in 1..Len(Cut(data, size, c)) : Cut(data, size, c)[j] = data[size * c + j]
        /\ c + 1 < m => Len(Cut(data, size, c)) = size
    <3>1. c < Parts(Len(data), size)
      BY <2>1
    <3>2. IsCut(Cut(data, size, c), data, size, c, U)
      BY <1>1, <2>1, <3>1, CutIs
    <3>. QED
      BY <3>2, Zenon DEF IsCut
  <2>4. Len(g[c + 1]) = Len(Cut(data, size, c)) /\ g[c + 1] \in Seq(U)
    BY <2>1 DEF AsLong
  <2>. QED
    BY <2>1, <2>2, <2>3, <2>4
(* Before chunk c there are c full ones.                                                           *)
<1> DEFINE S == {n \in Nat : n < m => Len(up[n]) = size * n}
<1>3. 0 \in S
  BY DEF Joins
<1>4. ASSUME NEW n \in S PROVE n + 1 \in S
  <2> SUFFICES ASSUME n + 1 < m PROVE Len(up[n + 1]) = size * (n + 1)
    OBVIOUS
  <2>1. n \in 0..(m - 1) /\ n < m
    OBVIOUS
  <2>2. Len(up[n]) = size * n
    BY <2>1
  <2>3. PICK a, b : a = up[n] /\ b = g[n + 1]
    OBVIOUS
  <2>4. a \in Seq(U) /\ b \in Seq(U) /\ Len(b) = size /\ up[n + 1] = a \o b /\ Len(a) = size * n
    BY <1>2, <2>1, <2>2, <2>3
  <2>5. Len(a \o b) = size * n + size
    <3>1. Len(a \o b) = Len(a) + Len(b)
      <4>1. a \in Seq(U) /\ b \in Seq(U)
        BY <2>4
      <4>. QED
        BY ONLY <4>1
    <3>2. PICK p : p = size * n
      OBVIOUS
    <3>3. Len(a) = p /\ Len(b) = size
      BY <2>4, <3>2
    <3>4. Len(a \o b) = p + size
      BY ONLY <3>1, <3>3
    <3>. QED
      BY <3>2, <3>4
  <2>6. size * (n + 1) = size * n + size
    OBVIOUS
  <2>. QED
    BY <2>4, <2>5, <2>6
<1>5. S \in SUBSET Nat
  OBVIOUS
<1> HIDE DEF S
<1>6. S = Nat
  BY <1>3, <1>4, <1>5, Inductively
<1>7. \A c \in 0..(m - 1) : Len(up[c]) = size * c
  BY <1>6 DEF S
(* What the first chunks hold is what the whole begins with.                                       *)
<1> DEFINE Begins(n) == Len(up[n]) <= Len(data) /\ \A j \in 1..Len(up[n]) : data[j] = up[n][j]
           T == {n \in Nat : n <= m => Begins(m - n)}
<1>8. 0 \in T
  BY <1>1
<1>9. ASSUME NEW n \in T PROVE n + 1 \in T
  <2> SUFFICES ASSUME n + 1 <= m PROVE Begins(m - (n + 1))
    OBVIOUS
  <2>1. PICK c : c = m - (n + 1)
    OBVIOUS
  <2>2. c \in 0..(m - 1) /\ c + 1 = m - n /\ n <= m
    BY <2>1
  <2>3. Begins(c + 1)
    BY <2>2
  <2>4. PICK a, b : a = up[c] /\ b = g[c + 1]
    OBVIOUS
  <2>5. a \in Seq(U) /\ b \in Seq(U) /\ up[c + 1] = a \o b
    BY <1>2, <2>2, <2>4
  <2>6. Len(a \o b) <= Len(data) /\ \A j \in 1..Len(a \o b) : data[j] = (a \o b)[j]
    BY <2>3, <2>5
  <2>7. Len(a) <= Len(a \o b) /\ \A j \in 1..Len(a) : j \in 1..Len(a \o b) /\ (a \o b)[j] = a[j]
    BY ONLY <2>5
  <2>8. Len(a) \in Nat /\ Len(a \o b) \in Nat
    BY ONLY <2>5
  <2>9. Len(a) <= Len(data) /\ \A j \in 1..Len(a) : data[j] = a[j]
    BY ONLY <1>1, <2>6, <2>7, <2>8
  <2>. QED
    BY <2>1, <2>4, <2>9
<1>10. T \in SUBSET Nat
  OBVIOUS
<1> HIDE DEF T, Begins
<1>11. T = Nat
  BY <1>8, <1>9, <1>10, Inductively
<1>12. ASSUME NEW c \in 0..(m - 1) PROVE Begins(c + 1)
  <2>1. m - (c + 1) \in Nat /\ m - (c + 1) <= m /\ m - (m - (c + 1)) = c + 1
    OBVIOUS
  <2>2. m - (c + 1) \in T
    BY <1>11, <2>1
  <2>. QED
    BY <2>1, <2>2 DEF T
<1>13. ASSUME NEW c \in 0..(m - 1) PROVE g[c + 1] = Cut(data, size, c)
  <2>1. PICK a, b, d, at : a = up[c] /\ b = g[c + 1] /\ d = Cut(data, size, c) /\ at = size * c
    OBVIOUS
  <2>2. a \in Seq(U) /\ b \in Seq(U) /\ up[c + 1] = a \o b /\ d \in Seq(U) /\ Len(b) = Len(d)
    BY <1>2, <2>1
  <2>3. Len(a) = at
    BY <1>7, <2>1
  <2>4. \A j \in 1..Len(b) : d[j] = data[at + j]
    BY <1>2, <2>1
  <2>5. \A j \in 1..Len(a \o b) : data[j] = (a \o b)[j]
    BY <1>12, <2>2 DEF Begins
  <2>6. \A j \in 1..Len(b) : at + j \in 1..Len(a \o b) /\ (a \o b)[at + j] = b[j]
    BY ONLY <2>2, <2>3
  <2>7. \A j \in 1..Len(b) : d[j] = b[j]
    BY ONLY <2>4, <2>5, <2>6
  <2>8. d = b
    BY ONLY <2>2, <2>7
  <2>. QED
    BY <2>1, <2>8
<1>. QED
  BY <1>13 DEF CutsOf

-----------------------------------------------------------------------------
(* The object: what holds of a transaction between any two calls.                                  *)

(* It has the members of Transaction, and a body those of a SignedTransaction.                     *)
IsTransaction(t) ==
    t = [class |-> t.class, frozen |-> t.frozen, id |-> t.id, nodes |-> t.nodes, data |-> t.data,
         chunkSize |-> t.chunkSize, currentChunk |-> t.currentChunk, signatories |-> t.signatories,
         signedTransactions |-> t.signedTransactions, transactions |-> t.transactions]
IsBody(b) ==
    /\ b = [id |-> b.id, node |-> b.node, content |-> b.content, chunk |-> b.chunk, total |-> b.total,
            initial |-> b.initial, signatures |-> b.signatures]
    /\ b.signatures \in [Keys -> Seq(Keys \cup {None})]

(* The ID of a transaction, from which its chunks' are made.                                       *)
GoodId(id) == id \in Ids /\ id.tick = 0

(* Body i is that of a chunk and a node, under the ID of the chunk.                                *)
ChunkAt(t, i) == IF t.class = "plain" THEN 0 ELSE (i - 1) \div Len(t.nodes)
BodyFor(b, t, i) ==
    /\ IsBody(b)
    /\ b.chunk = ChunkAt(t, i) /\ b.id = Tick(t.id, b.chunk)
    /\ b.node = t.nodes[((i - 1) % Len(t.nodes)) + 1]

(* The bodies of a frozen transaction are all made from one ID, and what is built is a copy.       *)
Bodies(t) ==
    /\ t.signedTransactions = [i \in DOMAIN t.signedTransactions |-> t.signedTransactions[i]]
    /\ DOMAIN t.transactions = DOMAIN t.signedTransactions
    /\ \A i \in DOMAIN t.signedTransactions :
          /\ i \in Nat \ {0}
          /\ BodyFor(t.signedTransactions[i], t, i)
          /\ t.transactions[i] \in {NotBuilt, t.signedTransactions[i]}

(* They hold the data of their chunks, m of which are g: cut from the data, or, when they were     *)
(* read from bytes, what the data was put together from.                                           *)
Units == UNION {{d[i] : i \in DOMAIN d} : d \in Data}
Holds(t, m, g) ==
    /\ m \in Nat /\ g \in [1..m -> Seq(Units)]
    /\ DOMAIN t.signedTransactions = 1..(m * Len(t.nodes))
    /\ \A i \in DOMAIN t.signedTransactions :
          t.signedTransactions[i].content = g[((i - 1) \div Len(t.nodes)) + 1]
CutOf(t, c) == IF t.class = "plain" THEN t.data ELSE GetDataForChunk(t, c)
CutAnew(t, m, g) == m = GetNumberOfChunksRequired(t) /\ \A c \in 0..(m - 1) : g[c + 1] = CutOf(t, c)
ReadFrom(t, m, g) ==
    /\ t.class # "plain" /\ t.chunkSize = DefaultChunkSize /\ m # 0
    /\ IF t.class = "topic" THEN \E up : Joins(up, m, g, Units) /\ t.data = up[m] ELSE t.data = g[1]
Contents(t) == \E m, g : Holds(t, m, g) /\ (CutAnew(t, m, g) \/ ReadFrom(t, m, g))

Made(t) == GoodId(t.id) /\ Len(t.nodes) \in Nat \ {0} /\ Bodies(t) /\ Contents(t)

(* Only what is frozen is signed, and only by its own key or by the operator.                      *)
Signers(t) ==
    /\ t.signatories \in [Keys -> Keys \cup {"absent", "added", "operator"}]
    /\ \A k \in Keys : t.signatories[k] \in {"absent", "added", "operator", k}
    /\ ~t.frozen => \A k \in Keys : t.signatories[k] = "absent"

(* It has data that is cut into chunks, one if it is plain.                                        *)
DataOK(t) ==
    /\ t.data \in Seq(Units) /\ t.chunkSize \in Nat \ {0} /\ t.currentChunk \in Nat
    /\ t.class \in {"plain", "file", "topic"}
    /\ t.class = "plain" => t.currentChunk = 0

TransactionOK(t) ==
    /\ IsTransaction(t) /\ t.frozen \in BOOLEAN /\ DataOK(t)
    /\ t.id = None \/ GoodId(t.id)
    /\ t.nodes = <<>> \/ Len(t.nodes) \in Nat \ {0}
    /\ Signers(t)
    /\ t.frozen => Made(t)

(* A signature is made by the key it names.                                                        *)
Authentic(b) == \A k \in Keys : \A j \in DOMAIN b.signatures[k] : b.signatures[k][j] = k
AllAuthentic(t) == t.frozen => \A i \in DOMAIN t.signedTransactions : Authentic(t.signedTransactions[i])

-----------------------------------------------------------------------------
(* IDs of chunks differ from the transaction's in the tick only.                                   *)
LEMMA TickIs ==
    ASSUME NEW id, GoodId(id), NEW n \in Nat
    PROVE  /\ Tick(id, n) \in Ids /\ Tick(id, n).tick = n
           /\ Tick(id, n).account = id.account /\ Tick(id, n).gen = id.gen
           /\ Tick(id, 0) = id /\ Tick(id, n) # None
<1>1. id = [account |-> id.account, gen |-> id.gen, tick |-> 0] /\ id.account \in Keys /\ id.gen \in Nat
  BY DEF GoodId, Ids
<1>2. \A m \in Nat : Tick(id, m) = [account |-> id.account, gen |-> id.gen, tick |-> m]
  BY <1>1 DEF Tick
<1>3. Tick(id, n) \in Ids
  BY <1>1, <1>2 DEF Ids
<1>4. Tick(id, n) # None
  BY <1>3, TransactionAssumption
<1>. QED
  BY <1>1, <1>2, <1>3, <1>4

(* No signatures: what a new body carries.                                                         *)
LEMMA NoSignaturesIs ==
    /\ NoSignatures \in [Keys -> Seq(Keys \cup {None})]
    /\ \A k \in Keys : NoSignatures[k] = <<>> /\ DOMAIN NoSignatures[k] = {}
BY DEF NoSignatures

(* The body of a chunk for one node.                                                               *)
NodeBody(t, c, node) == [ChunkBody(t, c) EXCEPT !.node = node]
NodeBodyFor(b, t, c, node) ==
    /\ IsBody(b) /\ b.node = node /\ b.signatures = NoSignatures
    /\ b.content = IF t.id = None THEN t.data ELSE CutOf(t, c)
    /\ GoodId(t.id) => b.chunk = (IF t.class = "plain" THEN 0 ELSE c) /\ b.id = Tick(t.id, b.chunk)
    /\ t.id = None => b.id = None

(* The body made for a chunk, and the one for each node, with nobody's signature.                  *)
LEMMA ChunkBodyIs ==
    ASSUME NEW t, NEW c \in Nat, NEW node
    PROVE  NodeBodyFor(NodeBody(t, c, node), t, c, node)
<1> DEFINE b == NodeBody(t, c, node)
<1>1. PICK id, content, chunk, total, initial :
         /\ ChunkBody(t, c) = Body(id, content, chunk, total, initial)
         /\ GoodId(t.id) => /\ chunk = (IF t.class = "plain" THEN 0 ELSE c)
                            /\ id = Tick(t.id, chunk)
         /\ t.id = None => id = None
         /\ content = IF t.id = None THEN t.data ELSE CutOf(t, c)
  <2>1. GoodId(t.id) => t.id # None /\ Tick(t.id, 0) = t.id
    BY TickIs, TransactionAssumption DEF GoodId
  <2>2. CASE t.class = "plain" \/ t.id = None
    <3>1. ChunkBody(t, c) = Body(t.id, t.data, 0, 1, None)
      BY <2>2 DEF ChunkBody
    <3>. QED
      BY <2>1, <2>2, <3>1 DEF CutOf
  <2>3. CASE ~(t.class = "plain" \/ t.id = None)
    <3>1. ChunkBody(t, c) = Body(Tick(t.id, c), GetDataForChunk(t, c), c,
                                 IF t.class = "topic" THEN GetNumberOfChunksRequired(t) ELSE 1,
                                 IF t.class = "topic" THEN t.id ELSE None)
      BY <2>3 DEF ChunkBody
    <3>. QED
      BY <2>3, <3>1 DEF CutOf
  <2>. QED
    BY <2>2, <2>3
<1>2. b = [id |-> id, node |-> node, content |-> content, chunk |-> chunk, total |-> total,
           initial |-> initial, signatures |-> NoSignatures]
  BY <1>1 DEF Body, NodeBody
<1> HIDE DEF b
<1>3. /\ b.id = id /\ b.node = node /\ b.content = content /\ b.chunk = chunk /\ b.total = total
      /\ b.initial = initial /\ b.signatures = NoSignatures
  BY <1>2
<1>4. IsBody(b)
  BY <1>2, <1>3, NoSignaturesIs DEF IsBody
<1>5. NodeBodyFor(b, t, c, node)
  BY <1>1, <1>3, <1>4 DEF NodeBodyFor
<1>. QED
  BY <1>5 DEF b

(* A place among the bodies stands for a chunk and a node, and the other way round.                *)
LEMMA PlaceIs ==
    ASSUME NEW n \in Nat \ {0}
    PROVE  /\ \A i \in Nat \ {0} : (i - 1) \div n \in Nat
           /\ \A c \in Nat, k \in 1..n :
                 /\ c * n + k \in Nat \ {0}
                 /\ ((c * n + k) - 1) \div n = c /\ (((c * n + k) - 1) % n) + 1 = k
<1>1. \A i \in Nat \ {0} : (i - 1) \div n \in Nat
  OBVIOUS
<1>2. ASSUME NEW c \in Nat, NEW k \in 1..n, NEW i, i = c * n + k
      PROVE  i \in Nat \ {0} /\ (i - 1) \div n = c /\ ((i - 1) % n) + 1 = k
  <2>1. i \in Nat \ {0}
    BY <1>2
  <2>. QED
    BY <1>2, <2>1
<1>. QED
  BY <1>1, <1>2

(* Places of a number of chunks stand for those chunks.                                            *)
LEMMA PlaceBelow ==
    ASSUME NEW n \in Nat \ {0}, NEW m \in Nat, NEW i \in 1..(m * n)
    PROVE  (i - 1) \div n \in 0..(m - 1)
<1>1. PICK q, r : q = (i - 1) \div n /\ r = (i - 1) % n
  OBVIOUS
<1>2. m * n \in Nat /\ i \in Nat \ {0} /\ i <= m * n
  OBVIOUS
<1>3. q \in Nat /\ r \in Nat /\ i - 1 = n * q + r
  BY <1>1, <1>2
<1>4. ASSUME q >= m PROVE FALSE
  <2>1. PICK e \in Nat : q = m + e
    <3>1. q - m \in Nat /\ q = m + (q - m)
      BY <1>3, <1>4
    <3>. QED
      BY <3>1
  <2>2. n * q = m * n + n * e /\ n * e \in Nat
    BY <2>1
  <2>. QED
    BY <1>2, <1>3, <2>2
<1>. QED
  BY <1>1, <1>3, <1>4

(* As many places are as many chunks.                                                              *)
LEMMA SameProduct ==
    ASSUME NEW a \in Nat, NEW b \in Nat, NEW n \in Nat \ {0}, a * n = b * n
    PROVE  a = b
<1>1. ASSUME NEW c \in Nat, NEW d \in Nat, c < d PROVE c * n < d * n
  <2>1. PICK e \in Nat : d = c + 1 + e
    <3>1. d - c - 1 \in Nat /\ d = c + 1 + (d - c - 1)
      BY <1>1
    <3>. QED
      BY <3>1
  <2>2. d * n = c * n + n + e * n /\ e * n \in Nat /\ c * n \in Nat
    BY <2>1
  <2>. QED
    BY <2>2
<1>2. ~(a < b)
  <2>1. a < b => a * n < b * n
    BY <1>1
  <2>. QED
    BY <2>1
<1>3. ~(b < a)
  <2>1. b < a => b * n < a * n
    BY <1>1
  <2>. QED
    BY <2>1
<1>. QED
  BY <1>2, <1>3

(* The place of a chunk that is there, for any node, is there.                                     *)
LEMMA PlaceWithin ==
    ASSUME NEW n \in Nat \ {0}, NEW m \in Nat, NEW c \in Nat, c < m, NEW k \in 1..n
    PROVE  c * n + k \in 1..(m * n)
<1>1. PICK e \in Nat : m = c + 1 + e
  <2>1. m - c - 1 \in Nat /\ m = c + 1 + (m - c - 1)
    OBVIOUS
  <2>. QED
    BY <2>1
<1>2. m * n = c * n + n + e * n /\ e * n \in Nat /\ c * n \in Nat
  BY <1>1
<1>. QED
  BY <1>2

(* What stays for as long as a transaction is executed.                                            *)
SameWork(u, t) ==
    u.class = t.class /\ u.data = t.data /\ u.chunkSize = t.chunkSize /\ u.currentChunk = t.currentChunk

(* The data of a transaction is cut into the chunks it takes.                                      *)
LEMMA CutOfIs ==
    ASSUME NEW t, DataOK(t)
    PROVE  /\ GetNumberOfChunksRequired(t) \in Nat
           /\ t.class = "plain" => GetNumberOfChunksRequired(t) = 1
           /\ t.class # "plain" => GetNumberOfChunksRequired(t) = Parts(Len(t.data), t.chunkSize)
           /\ \A c \in Nat : GetDataForChunk(t, c) = Cut(t.data, t.chunkSize, c)
           /\ \A c \in 0..(GetNumberOfChunksRequired(t) - 1) : CutOf(t, c) \in Seq(Units)
<1>1. t.class = "plain" => GetNumberOfChunksRequired(t) = 1
  BY DEF GetNumberOfChunksRequired
<1>2. t.class # "plain" => GetNumberOfChunksRequired(t) = Parts(Len(t.data), t.chunkSize)
  BY DEF GetNumberOfChunksRequired, Parts
<1>3. t.data \in Seq(Units) /\ t.chunkSize \in Nat \ {0} /\ Len(t.data) \in Nat
  BY DEF DataOK
<1>4. GetNumberOfChunksRequired(t) \in Nat
  BY <1>1, <1>2, <1>3, PartsAre
<1>5. \A c \in Nat : GetDataForChunk(t, c) = Cut(t.data, t.chunkSize, c)
  BY Zenon DEF GetDataForChunk, Cut
<1>6. ASSUME NEW c \in 0..(GetNumberOfChunksRequired(t) - 1) PROVE CutOf(t, c) \in Seq(Units)
  <2>1. c \in Nat /\ c < GetNumberOfChunksRequired(t)
    BY <1>4
  <2>2. CASE t.class = "plain"
    BY <1>3, <2>2 DEF CutOf
  <2>3. CASE t.class # "plain"
    <3>1. c < Parts(Len(t.data), t.chunkSize)
      BY <1>2, <2>1, <2>3
    <3>2. IsCut(Cut(t.data, t.chunkSize, c), t.data, t.chunkSize, c, Units)
      BY <1>3, <2>1, <3>1, CutIs
    <3>3. CutOf(t, c) = Cut(t.data, t.chunkSize, c)
      BY <1>5, <2>1, <2>3 DEF CutOf
    <3>. QED
      BY <3>2, <3>3, Zenon DEF IsCut
  <2>. QED
    BY <2>2, <2>3
<1>. QED
  BY <1>1, <1>2, <1>4, <1>5, <1>6

(* What is cut the same way is as good, and as long.                                               *)
LEMMA WorkKept ==
    ASSUME NEW u, NEW t, SameWork(u, t), DataOK(t)
    PROVE  DataOK(u)
BY DEF SameWork, DataOK

LEMMA WorkLeft ==
    ASSUME NEW u, NEW t, SameWork(u, t)
    PROVE  /\ u.currentChunk = t.currentChunk
           /\ GetNumberOfChunksRequired(u) = GetNumberOfChunksRequired(t)
BY Zenon DEF SameWork, GetNumberOfChunksRequired

(* Bodies of the same contents.                                                                    *)
SameContents(u, t) ==
    /\ u.class = t.class /\ u.data = t.data /\ u.chunkSize = t.chunkSize /\ u.nodes = t.nodes
    /\ DOMAIN u.signedTransactions = DOMAIN t.signedTransactions
    /\ \A i \in DOMAIN t.signedTransactions :
          u.signedTransactions[i].content = t.signedTransactions[i].content
LEMMA ContentsKept ==
    ASSUME NEW u, NEW t, SameContents(u, t)
    PROVE  /\ \A m, g : Holds(t, m, g) => Holds(u, m, g)
           /\ \A m, g : CutAnew(t, m, g) => CutAnew(u, m, g)
           /\ Contents(t) => Contents(u)
<1>1. \A m, g : Holds(t, m, g) => Holds(u, m, g)
  BY DEF SameContents, Holds
<1>2. GetNumberOfChunksRequired(u) = GetNumberOfChunksRequired(t) /\ \A c : CutOf(u, c) = CutOf(t, c)
  BY Zenon DEF SameContents, GetNumberOfChunksRequired, CutOf, GetDataForChunk
<1>3. \A m, g : CutAnew(t, m, g) => CutAnew(u, m, g)
  BY <1>2, Zenon DEF CutAnew
<1>4. \A m, g : ReadFrom(t, m, g) => ReadFrom(u, m, g)
  BY Zenon DEF SameContents, ReadFrom
<1>. QED
  BY <1>1, <1>3, <1>4, Zenon DEF Contents

(* What regenerateSignedTransactions writes are the chunks of the data, where there is an ID.      *)
HoldsCuts(u, t, m, g) ==
    Holds(u, m, g) /\ (GoodId(t.id) => CutAnew(u, m, g)) /\ (t.id = None => m = 1 /\ g[1] = t.data)
LEMMA ChunksHeld ==
    ASSUME NEW t, DataOK(t), Len(t.nodes) \in Nat \ {0}, t.id = None \/ GoodId(t.id),
           NEW u, SameWork(u, t), u.nodes = t.nodes,
           DOMAIN u.signedTransactions = 1..(NumberOfBodies(t) * Len(t.nodes)),
           \A i \in DOMAIN u.signedTransactions :
               u.signedTransactions[i].content =
                   IF t.id = None THEN t.data ELSE CutOf(t, (i - 1) \div Len(t.nodes))
    PROVE  \E m, g : HoldsCuts(u, t, m, g)
<1>1. PICK m : m = NumberOfBodies(t)
  OBVIOUS
<1>2. PICK g : g = [c \in 1..m |-> IF t.id = None THEN t.data ELSE CutOf(t, c - 1)]
  OBVIOUS
<1>3. m \in Nat /\ (t.id # None => m = GetNumberOfChunksRequired(t))
  BY <1>1, CutOfIs DEF NumberOfBodies
<1>4. ASSUME NEW c \in 1..m PROVE g[c] \in Seq(Units)
  <2>1. t.data \in Seq(Units)
    BY DEF DataOK
  <2>2. ASSUME t.id # None PROVE CutOf(t, c - 1) \in Seq(Units)
    <3>1. c - 1 \in 0..(GetNumberOfChunksRequired(t) - 1)
      BY <1>3, <2>2
    <3>. QED
      BY <3>1, CutOfIs
  <2>. QED
    BY <1>2, <2>1, <2>2
<1>5. g \in [1..m -> Seq(Units)]
  BY <1>2, <1>4
<1>6. DOMAIN u.signedTransactions = 1..(m * Len(u.nodes))
  BY <1>1
<1>7. ASSUME NEW i \in DOMAIN u.signedTransactions
      PROVE  u.signedTransactions[i].content = g[((i - 1) \div Len(u.nodes)) + 1]
  <2>1. PICK c : c = (i - 1) \div Len(t.nodes)
    OBVIOUS
  <2>2. c \in 0..(m - 1)
    BY <1>3, <1>6, <2>1, PlaceBelow
  <2>3. c + 1 \in 1..m /\ (c + 1) - 1 = c
    BY <1>3, <2>2
  <2>4. g[c + 1] = IF t.id = None THEN t.data ELSE CutOf(t, c)
    BY <1>2, <2>3
  <2>. QED
    BY <2>1, <2>4
<1>8. Holds(u, m, g)
  BY <1>3, <1>5, <1>6, <1>7 DEF Holds
<1>9. ASSUME GoodId(t.id) PROVE CutAnew(u, m, g)
  <2>1. t.id # None
    BY <1>9, TransactionAssumption DEF GoodId
  <2>2. GetNumberOfChunksRequired(u) = GetNumberOfChunksRequired(t) /\ \A c : CutOf(u, c) = CutOf(t, c)
    BY Zenon DEF SameWork, GetNumberOfChunksRequired, CutOf, GetDataForChunk
  <2>3. ASSUME NEW c \in 0..(m - 1) PROVE g[c + 1] = CutOf(u, c)
    <3>1. c + 1 \in 1..m /\ (c + 1) - 1 = c
      BY <1>3
    <3>. QED
      BY <1>2, <2>1, <2>2, <3>1
  <2>. QED
    BY <1>3, <2>1, <2>2, <2>3 DEF CutAnew
<1>10. t.id = None => m = 1 /\ g[1] = t.data
  <2>1. t.id = None => m = 1
    BY <1>1 DEF NumberOfBodies
  <2>. QED
    BY <1>2, <2>1
<1>. QED
  BY <1>8, <1>9, <1>10, Zenon DEF HoldsCuts

(* Of a whole transaction the bodies hold what its data is cut into, also when they were read from *)
(* bytes and the data was put together from them.                                                  *)
LEMMA WholeIs ==
    ASSUME NEW t, DataOK(t), Made(t), Whole(t), NEW i \in DOMAIN t.signedTransactions
    PROVE  t.signedTransactions[i].content = CutOf(t, (i - 1) \div Len(t.nodes))
<1>1. PICK n, s : n = Len(t.nodes) /\ s = t.signedTransactions
  OBVIOUS
<1>2. PICK m, g : Holds(t, m, g) /\ (CutAnew(t, m, g) \/ ReadFrom(t, m, g))
  BY DEF Made, Contents
<1>3. /\ n \in Nat \ {0} /\ m \in Nat /\ g \in [1..m -> Seq(Units)] /\ DOMAIN s = 1..(m * n)
      /\ \A j \in DOMAIN s : s[j].content = g[((j - 1) \div n) + 1]
  BY <1>1, <1>2 DEF Made, Holds
<1>4. ASSUME NEW j \in DOMAIN s PROVE (j - 1) \div n \in 0..(m - 1)
  BY <1>3, PlaceBelow
<1>5. CASE CutAnew(t, m, g)
  BY <1>1, <1>3, <1>4, <1>5 DEF CutAnew
<1>6. CASE ReadFrom(t, m, g)
  <2>1. Len(s) = m * n
    <3>1. s = [j \in 1..(m * n) |-> s[j]] /\ m * n \in Nat
      BY <1>1, <1>3 DEF Made, Bodies
    <3>2. PICK l : l = m * n
      OBVIOUS
    <3>3. s = [j \in 1..l |-> s[j]] /\ l \in Nat
      BY <3>1, <3>2
    <3>4. Len(s) = l
      BY ONLY <3>3
    <3>. QED
      BY <3>2, <3>4
  <2>2. PICK r : r = GetNumberOfChunksRequired(t)
    OBVIOUS
  <2>3. /\ r \in Nat /\ r = Parts(Len(t.data), t.chunkSize) /\ t.class # "plain" /\ m # 0
        /\ \A c \in Nat : CutOf(t, c) = Cut(t.data, t.chunkSize, c) /\ GetDataForChunk(t, c) = Cut(t.data, t.chunkSize, c)
    BY <1>6, <2>2, CutOfIs DEF ReadFrom, CutOf
  <2>4. m * n = r * n
    BY <1>1, <2>1, <2>2 DEF Whole
  <2>5. m = r
    BY ONLY <1>3, <2>3, <2>4, SameProduct
  <2>6. ASSUME NEW c \in 0..(m - 1)
        PROVE  /\ Len(g[c + 1]) = Len(Cut(t.data, t.chunkSize, c))
    <3>1. PICK j, last : j = c * n + 1 /\ last = j - 1
      OBVIOUS
    <3>2. c \in Nat /\ 1 \in 1..n
      BY <1>3
    <3>3. j \in Nat \ {0} /\ (j - 1) \div n = c
      <4>1. n \in Nat \ {0}
        BY <1>3
      <4>2. c * n + 1 \in Nat \ {0} /\ ((c * n + 1) - 1) \div n = c
        BY ONLY <3>2, <4>1, PlaceIs
      <4>3. j \in Nat \ {0} /\ last \div n = c
        BY <3>1, <4>2, Zenon
      <4>. QED
        BY <3>1, <4>3, Zenon
    <3>4. j \in 1..(m * n)
      <4>1. n \in Nat \ {0} /\ m \in Nat /\ c < m
        BY <1>3, <3>2
      <4>2. c * n + 1 \in 1..(m * n)
        BY ONLY <3>2, <4>1, PlaceWithin
      <4>. QED
        BY <3>1, <4>2, Zenon
    <3>5. j \in DOMAIN s
      BY <1>3, <3>3, <3>4
    <3>6. s[j].content = g[c + 1]
      BY <1>3, <3>3, <3>5
    <3>7. Len(s[j].content) = Len(GetDataForChunk(t, c))
      BY <1>1, <2>3, <3>3, <3>5 DEF Whole
    <3>. QED
      BY <2>3, <3>2, <3>6, <3>7
  <2>7. PICK data, size : data = t.data /\ size = t.chunkSize
    OBVIOUS
  <2>8. data \in Seq(Units) /\ size \in Nat \ {0} /\ m = Parts(Len(data), size)
    BY <2>3, <2>5, <2>7 DEF DataOK
  <2>9. AsLong(g, m, data, size)
    BY <2>6, <2>7 DEF AsLong
  <2>10. CASE t.class = "topic"
    <3>1. PICK up : Joins(up, m, g, Units) /\ data = up[m]
      BY <1>6, <2>7, <2>10 DEF ReadFrom
    <3>2. \A c \in 0..(m - 1) : g[c + 1] = Cut(data, size, c)
      <4>1. m \in Nat /\ g \in [1..m -> Seq(Units)]
        BY <1>3
      <4>2. CutsOf(g, m, data, size)
        BY <2>8, <2>9, <3>1, <4>1, JoinedCut
      <4>. QED
        BY <4>2, Zenon DEF CutsOf
    <3>3. PICK c : c = (i - 1) \div n
      OBVIOUS
    <3>4. c \in 0..(m - 1) /\ c \in Nat
      BY <1>1, <1>3, <1>4, <3>3
    <3>5. s[i].content = g[c + 1]
      BY <1>1, <1>3, <3>3
    <3>6. CutOf(t, c) = Cut(data, size, c)
      BY <2>3, <2>7, <3>4
    <3>. QED
      BY <1>1, <3>2, <3>3, <3>4, <3>5, <3>6
  <2>11. CASE t.class # "topic"
    <3>1. data = g[1] /\ 0 \in 0..(m - 1) /\ 0 + 1 = 1
      BY <1>3, <1>6, <2>3, <2>7, <2>11 DEF ReadFrom
    <3>2. PICK cut : cut = Cut(data, size, 0)
      OBVIOUS
    <3>3. IsCut(cut, data, size, 0, Units)
      <4>1. 0 < Parts(Len(data), size) /\ 0 \in Nat
        BY <1>3, <2>3, <2>8
      <4>. QED
        BY <2>8, <3>2, <4>1, CutIs
    <3>4. Len(data) = Len(cut)
      BY <2>9, <3>1, <3>2 DEF AsLong
    <3>5. cut \in Seq(Units) /\ Len(cut) \in 1..size /\ \A j \in 1..Len(cut) : cut[j] = data[j]
      <4>1. size * 0 = 0
        BY <2>8
      <4>2. cut \in Seq(Units) /\ Len(cut) \in 1..size /\ \A j \in 1..Len(cut) : cut[j] = data[0 + j]
        BY <3>3, <4>1 DEF IsCut
      <4>. QED
        BY ONLY <4>2
    <3>6. cut = data
      BY ONLY <2>8, <3>4, <3>5
    <3>7. m = 1
      <4>1. Len(data) \in 1..size /\ Len(data) \in Nat
        BY <2>8, <3>4, <3>5
      <4>. QED
        BY <2>8, <4>1, PartsAre
    <3>8. (i - 1) \div n = 0
      BY <1>1, <1>4, <3>7
    <3>. QED
      BY <1>1, <1>3, <2>3, <2>7, <3>1, <3>2, <3>6, <3>8
  <2>. QED
    BY <2>10, <2>11
<1>. QED
  BY <1>2, <1>5, <1>6

(* There are as many bodies as their places say.                                                   *)
LEMMA LengthIs ==
    ASSUME NEW t, Made(t)
    PROVE  \E l \in Nat : DOMAIN t.signedTransactions = 1..l /\ Len(t.signedTransactions) = l
<1>1. PICK s, n : s = t.signedTransactions /\ n = Len(t.nodes)
  OBVIOUS
<1>2. PICK m, g : Holds(t, m, g)
  BY DEF Made, Contents
<1>3. n \in Nat \ {0} /\ m \in Nat /\ s = [i \in DOMAIN s |-> s[i]] /\ DOMAIN s = 1..(m * n)
  BY <1>1, <1>2 DEF Made, Bodies, Holds
<1>4. PICK l : l = m * n
  OBVIOUS
<1>5. l \in Nat
  BY <1>3, <1>4
<1>6. s = [i \in 1..l |-> s[i]]
  BY <1>3, <1>4
<1>7. Len(s) = l
  BY ONLY <1>5, <1>6
<1>. QED
  BY <1>1, <1>3, <1>4, <1>5, <1>7

(* What goes on with its contents is no more whole than it was.                                    *)
LEMMA WholeBefore ==
    ASSUME NEW u, NEW t, Made(u), Made(t), SameContents(u, t), Whole(u)
    PROVE  Whole(t)
<1>1. Len(u.signedTransactions) = Len(t.signedTransactions)
  <2>1. PICK k \in Nat : DOMAIN u.signedTransactions = 1..k /\ Len(u.signedTransactions) = k
    BY LengthIs
  <2>2. PICK l \in Nat : DOMAIN t.signedTransactions = 1..l /\ Len(t.signedTransactions) = l
    BY LengthIs
  <2>3. 1..k = 1..l
    BY <2>1, <2>2 DEF SameContents
  <2>4. k = l
    BY ONLY <2>3
  <2>. QED
    BY <2>1, <2>2, <2>4
<1>2. GetNumberOfChunksRequired(u) = GetNumberOfChunksRequired(t)
      /\ \A c : GetDataForChunk(u, c) = GetDataForChunk(t, c)
  BY Zenon DEF SameContents, GetNumberOfChunksRequired, GetDataForChunk
<1>3. Len(t.signedTransactions) = GetNumberOfChunksRequired(t) * Len(t.nodes)
  BY <1>1, <1>2 DEF Whole, SameContents
<1>4. ASSUME t.class # "plain", NEW i \in DOMAIN t.signedTransactions
      PROVE  Len(t.signedTransactions[i].content) = Len(GetDataForChunk(t, (i - 1) \div Len(t.nodes)))
  BY <1>2, <1>4 DEF Whole, SameContents
<1>. QED
  BY <1>3, <1>4 DEF Whole

(* What is not read from bytes is whole, which any chunk size but the default tells.               *)
LEMMA WholeAnew ==
    ASSUME NEW t, DataOK(t), Made(t), t.chunkSize # DefaultChunkSize
    PROVE  Whole(t)
<1>1. PICK s, n : s = t.signedTransactions /\ n = Len(t.nodes)
  OBVIOUS
<1>2. PICK m, g : Holds(t, m, g) /\ CutAnew(t, m, g)
  BY DEF Made, Contents, ReadFrom
<1>3. n \in Nat \ {0} /\ m \in Nat /\ DOMAIN s = 1..(m * n)
      /\ \A i \in DOMAIN s : i \in Nat \ {0} /\ s[i].content = g[((i - 1) \div n) + 1]
  BY <1>1, <1>2 DEF Made, Bodies, Holds
<1>4. Len(s) = m * n
  <2>1. PICK l \in Nat : DOMAIN s = 1..l /\ Len(s) = l
    BY <1>1, LengthIs
  <2>2. PICK k : k = m * n
    OBVIOUS
  <2>3. k \in Nat
    BY <1>3, <2>2
  <2>4. 1..k = 1..l
    BY <1>3, <2>1, <2>2
  <2>5. k = l
    BY ONLY <2>3, <2>4
  <2>. QED
    BY <2>1, <2>2, <2>5
<1>5. ASSUME t.class # "plain", NEW i \in DOMAIN s
      PROVE  Len(s[i].content) = Len(GetDataForChunk(t, (i - 1) \div n))
  <2>1. PICK c : c = (i - 1) \div n
    OBVIOUS
  <2>2. c \in 0..(m - 1)
    BY <1>3, <2>1, PlaceBelow
  <2>3. g[c + 1] = GetDataForChunk(t, c)
    BY <1>2, <1>5, <2>2 DEF CutAnew, CutOf
  <2>. QED
    BY <1>3, <2>1, <2>3
<1>6. m = GetNumberOfChunksRequired(t)
  BY <1>2 DEF CutAnew
<1>. QED
  BY <1>1, <1>4, <1>5, <1>6 DEF Whole

(* regenerateSignedTransactions gives a transaction new bodies, for every chunk and node, and      *)
(* leaves the rest of it.                                                                          *)
NewBodies(u, t) ==
    /\ u = [class |-> t.class, frozen |-> t.frozen, id |-> t.id, nodes |-> t.nodes, data |-> t.data,
            chunkSize |-> t.chunkSize, currentChunk |-> t.currentChunk, signatories |-> t.signatories,
            signedTransactions |-> u.signedTransactions, transactions |-> u.transactions]
    /\ u.signedTransactions = [i \in DOMAIN u.signedTransactions |-> u.signedTransactions[i]]
    /\ u.transactions = [i \in DOMAIN u.signedTransactions |-> NotBuilt]
    /\ \A i \in DOMAIN u.signedTransactions :
          /\ i \in Nat \ {0} /\ IsBody(u.signedTransactions[i])
          /\ u.signedTransactions[i].signatures = NoSignatures
          /\ t.id = None => u.signedTransactions[i].id = None
    /\ GoodId(t.id) => Bodies(u)
    /\ SameWork(u, t)
    /\ DataOK(t) /\ (t.id = None \/ GoodId(t.id)) =>
          \E m, g : HoldsCuts(u, t, m, g)
LEMMA RegenerateIs ==
    ASSUME NEW t, IsTransaction(t), Len(t.nodes) \in Nat \ {0}
    PROVE  NewBodies(RegenerateSignedTransactions(t), t)
<1>1. PICK u : u = RegenerateSignedTransactions(t)
  OBVIOUS
<1>2. PICK n, s : /\ n = NumberOfBodies(t) * Len(t.nodes) /\ s = SignedTransactionForEachNode(t)
  OBVIOUS
<1>3. s = [i \in 1..n |->
            [ChunkBody(t, (i - 1) \div Len(t.nodes)) EXCEPT !.node = t.nodes[((i - 1) % Len(t.nodes)) + 1]]]
  BY <1>2 DEF SignedTransactionForEachNode
<1>4. u = [class |-> t.class, frozen |-> t.frozen, id |-> t.id, nodes |-> t.nodes, data |-> t.data,
           chunkSize |-> t.chunkSize, currentChunk |-> t.currentChunk, signatories |-> t.signatories,
           signedTransactions |-> s, transactions |-> [i \in DOMAIN s |-> NotBuilt]]
  BY <1>1, <1>2 DEF RegenerateSignedTransactions, IsTransaction
<1>5. u.signedTransactions = s /\ u.transactions = [i \in DOMAIN s |-> NotBuilt]
  BY <1>4
<1>6. DOMAIN s = 1..n /\ s = [i \in DOMAIN s |-> s[i]]
  BY <1>3
<1>7. ASSUME NEW i \in 1..n
      PROVE  /\ i \in Nat \ {0} /\ IsBody(s[i]) /\ s[i].signatures = NoSignatures
             /\ s[i].node = t.nodes[((i - 1) % Len(t.nodes)) + 1]
             /\ GoodId(t.id) => /\ s[i].chunk = (IF t.class = "plain" THEN 0 ELSE (i - 1) \div Len(t.nodes))
                                /\ s[i].id = Tick(t.id, s[i].chunk)
             /\ t.id = None => s[i].id = None
             /\ s[i].content = IF t.id = None THEN t.data ELSE CutOf(t, (i - 1) \div Len(t.nodes))
  <2>1. i \in Nat \ {0}
    OBVIOUS
  <2>2. PICK c : c = (i - 1) \div Len(t.nodes)
    OBVIOUS
  <2>3. c \in Nat
    BY <2>1, <2>2, PlaceIs
  <2>4. s[i] = [ChunkBody(t, c) EXCEPT !.node = t.nodes[((i - 1) % Len(t.nodes)) + 1]]
    BY <1>3, <2>2
  <2>5. PICK b, node : b = s[i] /\ node = t.nodes[((i - 1) % Len(t.nodes)) + 1]
    OBVIOUS
  <2>6. b = [ChunkBody(t, c) EXCEPT !.node = node]
    BY <2>4, <2>5
  <2>7. NodeBodyFor(NodeBody(t, c, node), t, c, node)
    BY <2>3, ChunkBodyIs
  <2>8. NodeBodyFor(b, t, c, node)
    BY <2>6, <2>7 DEF NodeBody
  <2>. QED
    BY <2>1, <2>2, <2>5, <2>8, Zenon DEF NodeBodyFor
<1>8. GoodId(t.id) => Bodies(u)
  <2> SUFFICES ASSUME GoodId(t.id) PROVE Bodies(u)
    OBVIOUS
  <2>1. u.class = t.class /\ u.nodes = t.nodes /\ u.id = t.id
    BY <1>4
  <2>2. \A i \in 1..n : BodyFor(s[i], u, i)
    BY <1>7, <2>1 DEF BodyFor, ChunkAt
  <2>. QED
    BY <1>5, <1>6, <1>7, <2>2 DEF Bodies
<1>9. SameWork(u, t) /\ u.nodes = t.nodes
  BY ONLY <1>4 DEF SameWork
<1>10. ASSUME DataOK(t), t.id = None \/ GoodId(t.id)
       PROVE  \E m, g : HoldsCuts(u, t, m, g)
  <2>1. \A i \in DOMAIN u.signedTransactions :
            u.signedTransactions[i].content = IF t.id = None THEN t.data ELSE CutOf(t, (i - 1) \div Len(t.nodes))
    BY <1>5, <1>6, <1>7, Zenon
  <2>2. DOMAIN u.signedTransactions = 1..(NumberOfBodies(t) * Len(t.nodes))
    BY <1>2, <1>5, <1>6, Zenon
  <2>. QED
    BY <1>9, <1>10, <2>1, <2>2, ChunksHeld
<1>11. NewBodies(u, t)
  BY <1>4, <1>5, <1>6, <1>7, <1>8, <1>9, <1>10 DEF NewBodies
<1>. QED
  BY <1>1, <1>11

(* Nobody has signed a body.                                                                       *)
Unsigned(t) == \A i \in DOMAIN t.signedTransactions : /\ t.signedTransactions[i].signatures = NoSignatures
                                                      /\ t.transactions[i] = NotBuilt

(* freezeWith makes the bodies for the ID and the nodes the transaction has or is given.           *)
FrozenFrom(u, t, newId) ==
    /\ TransactionOK(u) /\ u.frozen
    /\ AllAuthentic(t) => AllAuthentic(u)
    /\ u.id = (IF ~t.frozen /\ t.id = None THEN newId ELSE t.id)
    /\ SameWork(u, t) /\ u.signatories = t.signatories
    /\ t.frozen => u = t
    /\ ~t.frozen => Unsigned(u)
LEMMA FreezeIs ==
    ASSUME NEW t, TransactionOK(t), NEW newId, t.id = None => GoodId(newId), NEW nodes \in NodeLists
    PROVE  FrozenFrom(FreezeWith(t, newId, nodes), t, newId)
<1>1. PICK u : u = FreezeWith(t, newId, nodes)
  OBVIOUS
<1>2. CASE t.frozen
  <2>1. u = t
    BY <1>1, <1>2 DEF FreezeWith
  <2>. QED
    BY <1>1, <1>2, <2>1 DEF FrozenFrom, SameWork
<1>3. CASE ~t.frozen
  <2>1. PICK v : v = [t EXCEPT !.id = IF t.id = None THEN newId ELSE t.id,
                               !.nodes = IF t.nodes = <<>> THEN nodes ELSE t.nodes]
    OBVIOUS
  <2>2. PICK id, list : /\ id = (IF t.id = None THEN newId ELSE t.id)
                        /\ list = (IF t.nodes = <<>> THEN nodes ELSE t.nodes)
    OBVIOUS
  <2>3. v = [class |-> t.class, frozen |-> t.frozen, id |-> id, nodes |-> list, data |-> t.data,
             chunkSize |-> t.chunkSize, currentChunk |-> t.currentChunk, signatories |-> t.signatories,
             signedTransactions |-> t.signedTransactions, transactions |-> t.transactions]
    BY <2>1, <2>2 DEF TransactionOK, IsTransaction
  <2>4. GoodId(id) /\ Len(list) \in Nat \ {0}
    BY <2>2, ExecutionAssumption DEF TransactionOK
  <2>5. PICK w : w = RegenerateSignedTransactions(v)
    OBVIOUS
  <2>6. IsTransaction(v) /\ v.id = id /\ v.nodes = list /\ v.class = t.class /\ v.frozen = t.frozen
        /\ v.data = t.data /\ v.chunkSize = t.chunkSize /\ v.currentChunk = t.currentChunk
        /\ v.signatories = t.signatories
    BY <2>3 DEF IsTransaction
  <2>7. /\ w = [class |-> t.class, frozen |-> t.frozen, id |-> id, nodes |-> list, data |-> t.data,
                chunkSize |-> t.chunkSize, currentChunk |-> t.currentChunk, signatories |-> t.signatories,
                signedTransactions |-> w.signedTransactions, transactions |-> w.transactions]
        /\ Unsigned(w) /\ Bodies(w) /\ Contents(w)
    <3>1. Len(v.nodes) \in Nat \ {0} /\ GoodId(v.id)
      BY <2>4, <2>6
    <3>2. NewBodies(w, v)
      BY <2>5, <2>6, <3>1, RegenerateIs
    <3>3. /\ w = [class |-> v.class, frozen |-> v.frozen, id |-> v.id, nodes |-> v.nodes, data |-> v.data,
                  chunkSize |-> v.chunkSize, currentChunk |-> v.currentChunk, signatories |-> v.signatories,
                  signedTransactions |-> w.signedTransactions, transactions |-> w.transactions]
          /\ Bodies(w)
      BY <3>1, <3>2, Zenon DEF NewBodies
    <3>4. Unsigned(w)
      BY <3>2 DEF NewBodies, Unsigned
    <3>5. Contents(w)
      <4>1. SameWork(v, t)
        BY <2>6 DEF SameWork
      <4>2. DataOK(v)
        BY <4>1, WorkKept DEF TransactionOK
      <4>. QED
        BY <3>1, <3>2, <4>2, Zenon DEF NewBodies, Contents, HoldsCuts
    <3>. QED
      BY <2>6, <3>3, <3>4, <3>5, Zenon
  <2>8. u = [w EXCEPT !.frozen = TRUE]
    BY <1>1, <1>3, <2>1, <2>5 DEF FreezeWith
  <2>9. u = [class |-> t.class, frozen |-> TRUE, id |-> id, nodes |-> list, data |-> t.data,
             chunkSize |-> t.chunkSize, currentChunk |-> t.currentChunk, signatories |-> t.signatories,
             signedTransactions |-> w.signedTransactions, transactions |-> w.transactions]
    <3>1. PICK signed, built : signed = w.signedTransactions /\ built = w.transactions
      OBVIOUS
    <3>2. w = [class |-> t.class, frozen |-> t.frozen, id |-> id, nodes |-> list, data |-> t.data,
               chunkSize |-> t.chunkSize, currentChunk |-> t.currentChunk, signatories |-> t.signatories,
               signedTransactions |-> signed, transactions |-> built]
      BY <2>7, <3>1, Zenon
    <3>3. PICK yes : yes = TRUE
      OBVIOUS
    <3>4. u = [w EXCEPT !.frozen = yes]
      BY <2>8, <3>3, Zenon
    <3>5. u = [class |-> t.class, frozen |-> yes, id |-> id, nodes |-> list, data |-> t.data,
               chunkSize |-> t.chunkSize, currentChunk |-> t.currentChunk, signatories |-> t.signatories,
               signedTransactions |-> signed, transactions |-> built]
      BY <3>2, <3>4
    <3>. QED
      BY <3>1, <3>3, <3>5, Zenon
  <2>10. /\ IsTransaction(u) /\ u.frozen /\ u.frozen \in BOOLEAN /\ u.id = id /\ u.nodes = list
         /\ u.class = t.class /\ u.data = t.data /\ u.chunkSize = t.chunkSize
         /\ u.currentChunk = t.currentChunk /\ u.signatories = t.signatories
         /\ u.signedTransactions = w.signedTransactions /\ u.transactions = w.transactions
    BY <2>9 DEF IsTransaction
  <2>11. w.class = t.class /\ w.nodes = list /\ w.id = id /\ w.data = t.data /\ w.chunkSize = t.chunkSize
    BY <2>7
  <2>12. Made(u)
    <3>1. Bodies(u)
      BY <2>7, <2>10, <2>11 DEF Bodies, BodyFor, ChunkAt
    <3>2. SameContents(u, w)
      BY <2>10, <2>11 DEF SameContents
    <3>. QED
      BY <2>4, <2>7, <2>10, <3>1, <3>2, ContentsKept DEF Made
  <2>13. AllAuthentic(u)
    BY <2>7, <2>10, NoSignaturesIs DEF AllAuthentic, Authentic, Unsigned
  <2>14. Signers(u)
    BY <1>3, <2>10 DEF TransactionOK, Signers
  <2>15. SameWork(u, t) /\ TransactionOK(u)
    <3>1. SameWork(u, t)
      BY <2>10 DEF SameWork
    <3>2. DataOK(u)
      BY <3>1, WorkKept DEF TransactionOK
    <3>. QED
      BY <2>4, <2>10, <2>12, <2>14, <3>1, <3>2 DEF TransactionOK
  <2>16. FrozenFrom(u, t, newId)
    <3>1. Unsigned(u)
      BY <2>7, <2>10 DEF Unsigned
    <3>. QED
      BY <1>3, <2>2, <2>10, <2>13, <2>15, <3>1 DEF FrozenFrom
  <2>. QED
    BY <1>1, <2>16
<1>. QED
  BY <1>2, <1>3

(* What the calls below leave alone.                                                               *)
SameTransaction(u, t) == SameWork(u, t) /\ u.id = t.id /\ u.nodes = t.nodes

(* What is frozen stays so, and as good.                                                           *)
StillFrozen(u, t) == TransactionOK(u) /\ u.frozen /\ SameTransaction(u, t) /\ SameContents(u, t)

(* A new signer takes part in the next build; one that has signed up before is not taken again.    *)
SignedLater(u, t, k) ==
    IF t.signatories[k] = "absent"
    THEN /\ u.signedTransactions = t.signedTransactions
         /\ \A i \in DOMAIN t.signedTransactions : u.transactions[i] = NotBuilt
    ELSE u = t

(* signInternal adds a signer, and what was built is to be built again.                            *)
LEMMA SignIs ==
    ASSUME NEW t, TransactionOK(t), t.frozen, NEW k \in Keys, NEW signer \in {k, "operator"}
    PROVE  /\ StillFrozen(SignInternal(t, k, signer), t)
           /\ AllAuthentic(t) => AllAuthentic(SignInternal(t, k, signer))
           /\ \A l \in Keys : SignInternal(t, k, signer).signatories[l] = (IF l = k /\ t.signatories[k] = "absent"
                                                                       THEN signer ELSE t.signatories[l])
           /\ SignedLater(SignInternal(t, k, signer), t, k)
<1>1. PICK u : u = SignInternal(t, k, signer)
  OBVIOUS
<1>2. CASE t.signatories[k] # "absent"
  <2>1. u = t
    BY <1>1, <1>2 DEF SignInternal
  <2>. QED
    BY <1>1, <1>2, <2>1 DEF SameTransaction, SameWork, SameContents, StillFrozen, SignedLater
<1>3. CASE t.signatories[k] = "absent"
  <2>1. PICK signatories, built : /\ signatories = [t.signatories EXCEPT ![k] = signer]
                                  /\ built = [i \in DOMAIN t.signedTransactions |-> NotBuilt]
    OBVIOUS
  <2>2. u = [class |-> t.class, frozen |-> t.frozen, id |-> t.id, nodes |-> t.nodes, data |-> t.data,
             chunkSize |-> t.chunkSize, currentChunk |-> t.currentChunk, signatories |-> signatories,
             signedTransactions |-> t.signedTransactions, transactions |-> built]
    BY <1>1, <1>3, <2>1 DEF SignInternal, Unbuilt, TransactionOK, IsTransaction
  <2>3. /\ IsTransaction(u) /\ u.id = t.id /\ u.nodes = t.nodes /\ u.class = t.class
        /\ u.data = t.data /\ u.chunkSize = t.chunkSize
        /\ u.currentChunk = t.currentChunk /\ u.signatories = signatories
        /\ u.signedTransactions = t.signedTransactions /\ u.transactions = built
    BY <2>2 DEF IsTransaction
  <2>4. u.frozen = t.frozen
    BY <2>2
  <2>5. \A l \in Keys : signatories[l] = (IF l = k THEN signer ELSE t.signatories[l])
    BY <2>1 DEF TransactionOK, Signers
  <2>6. Signers(u)
    BY <2>1, <2>3, <2>4, <2>5 DEF TransactionOK, Signers
  <2>7. Made(u)
    <3>1. Bodies(u)
      BY <2>1, <2>3 DEF TransactionOK, Made, Bodies, BodyFor, ChunkAt
    <3>2. SameContents(u, t)
      BY <2>3 DEF SameContents
    <3>. QED
      BY <2>3, <3>1, <3>2, ContentsKept DEF TransactionOK, Made
  <2>8. SameWork(u, t) /\ TransactionOK(u)
    <3>1. SameWork(u, t)
      BY <2>3 DEF SameWork
    <3>2. DataOK(u)
      BY <3>1, WorkKept DEF TransactionOK
    <3>. QED
      BY <2>3, <2>4, <2>6, <2>7, <3>1, <3>2 DEF TransactionOK
  <2>9. AllAuthentic(t) => AllAuthentic(u)
    BY <2>3, <2>4 DEF AllAuthentic
  <2>10. StillFrozen(u, t)
    BY <2>3, <2>4, <2>8 DEF StillFrozen, SameTransaction, SameWork, SameContents
  <2>11. SignedLater(u, t, k)
    BY <1>3, <2>1, <2>3 DEF SignedLater
  <2>. QED
    BY <1>1, <1>3, <2>3, <2>5, <2>9, <2>10, <2>11
<1>. QED
  BY <1>2, <1>3

(* The signature stands in the first body, after those its key has there already.                  *)
AddedTo(u, t, k) ==
    IF t.signatories[k] = "absent"
    THEN /\ DOMAIN u.signedTransactions = DOMAIN t.signedTransactions
         /\ \A i \in DOMAIN t.signedTransactions :
               /\ u.transactions[i] = NotBuilt
               /\ \A l \in Keys : u.signedTransactions[i].signatures[l] =
                      IF i = 1 /\ l = k THEN Append(t.signedTransactions[i].signatures[k], k)
                      ELSE t.signedTransactions[i].signatures[l]
    ELSE u = t

(* A signature made elsewhere is put into the first body, as that of the key it names.             *)
LEMMA AddIs ==
    ASSUME NEW t, TransactionOK(t), t.frozen, NEW k \in Keys
    PROVE  /\ StillFrozen(AddSignature(t, k), t)
           /\ AllAuthentic(t) => AllAuthentic(AddSignature(t, k))
           /\ \A l \in Keys : AddSignature(t, k).signatories[l] = (IF l = k /\ t.signatories[k] = "absent"
                                                               THEN "added" ELSE t.signatories[l])
           /\ AddedTo(AddSignature(t, k), t, k)
<1>1. PICK u : u = AddSignature(t, k)
  OBVIOUS
<1>2. CASE t.signatories[k] # "absent"
  <2>1. u = t
    BY <1>1, <1>2 DEF AddSignature
  <2>. QED
    BY <1>1, <1>2, <2>1 DEF SameTransaction, SameWork, SameContents, StillFrozen, AddedTo
<1>3. CASE t.signatories[k] = "absent"
  <2>1. PICK signatories, built, signed :
           /\ signatories = [t.signatories EXCEPT ![k] = "added"]
           /\ built = [i \in DOMAIN t.signedTransactions |-> NotBuilt]
           /\ signed = [t.signedTransactions EXCEPT ![1].signatures[k] = Append(@, k)]
    OBVIOUS
  <2>2. u = [class |-> t.class, frozen |-> t.frozen, id |-> t.id, nodes |-> t.nodes, data |-> t.data,
             chunkSize |-> t.chunkSize, currentChunk |-> t.currentChunk, signatories |-> signatories,
             signedTransactions |-> signed, transactions |-> built]
    BY <1>1, <1>3, <2>1 DEF AddSignature, Unbuilt, TransactionOK, IsTransaction
  <2>3. /\ IsTransaction(u) /\ u.id = t.id /\ u.nodes = t.nodes /\ u.class = t.class
        /\ u.data = t.data /\ u.chunkSize = t.chunkSize
        /\ u.currentChunk = t.currentChunk /\ u.signatories = signatories
        /\ u.signedTransactions = signed /\ u.transactions = built
    BY <2>2 DEF IsTransaction
  <2>4. u.frozen = t.frozen
    BY <2>2
  <2>5. \A l \in Keys : signatories[l] = (IF l = k THEN "added" ELSE t.signatories[l])
    BY <2>1 DEF TransactionOK, Signers
  <2>6. Signers(u)
    BY <2>1, <2>3, <2>4, <2>5 DEF TransactionOK, Signers
  <2>7. Bodies(t)
    BY DEF TransactionOK, Made
  <2>8. DOMAIN signed = DOMAIN t.signedTransactions /\ signed = [i \in DOMAIN signed |-> signed[i]]
    BY <2>1, <2>7 DEF Bodies
  <2>9. ASSUME NEW i \in DOMAIN signed
        PROVE  /\ BodyFor(signed[i], u, i)
               /\ signed[i].content = t.signedTransactions[i].content
               /\ \A l \in Keys : signed[i].signatures[l] =
                      IF i = 1 /\ l = k THEN Append(t.signedTransactions[i].signatures[k], k)
                      ELSE t.signedTransactions[i].signatures[l]
               /\ Authentic(t.signedTransactions[i]) => Authentic(signed[i])
    <3>1. BodyFor(t.signedTransactions[i], u, i)
      BY <2>3, <2>7, <2>8, <2>9 DEF Bodies, BodyFor, ChunkAt
    <3>2. CASE i # 1
      <4>1. signed[i] = t.signedTransactions[i]
        BY <2>1, <2>8, <3>2
      <4>. QED
        BY <3>1, <3>2, <4>1
    <3>3. CASE i = 1
      <4>1. PICK b, s : b = t.signedTransactions[1] /\ s = [b.signatures EXCEPT ![k] = Append(b.signatures[k], k)]
        OBVIOUS
      <4>2. b = [id |-> b.id, node |-> b.node, content |-> b.content, chunk |-> b.chunk, total |-> b.total,
                 initial |-> b.initial, signatures |-> b.signatures]
            /\ b.signatures \in [Keys -> Seq(Keys \cup {None})]
        BY <3>1, <3>3, <4>1 DEF BodyFor, IsBody
      <4>3. signed[i] = [b EXCEPT !.signatures = s]
        BY <2>1, <2>8, <3>3, <4>1
      <4>4. signed[i] = [id |-> b.id, node |-> b.node, content |-> b.content, chunk |-> b.chunk,
                         total |-> b.total, initial |-> b.initial, signatures |-> s]
        BY <4>2, <4>3
      <4>5. /\ s \in [Keys -> Seq(Keys \cup {None})]
            /\ Authentic(b) => \A l \in Keys : \A j \in DOMAIN s[l] : s[l][j] = l
            /\ \A l \in Keys : s[l] = IF l = k THEN Append(b.signatures[k], k) ELSE b.signatures[l]
        BY <4>1, <4>2 DEF Authentic
      <4>. QED
        BY <3>1, <3>3, <4>1, <4>4, <4>5, SMTT(30) DEF BodyFor, IsBody, Authentic
    <3>. QED
      BY <3>2, <3>3
  <2>10. Made(u)
    <3>1. GoodId(u.id) /\ Len(u.nodes) \in Nat \ {0}
      BY <2>3 DEF TransactionOK, Made
    <3>2. \A i \in DOMAIN signed : i \in Nat \ {0} /\ built[i] = NotBuilt
      BY <2>1, <2>7, <2>8 DEF Bodies
    <3>3. DOMAIN built = DOMAIN signed
      BY <2>1, <2>8
    <3>4. Bodies(u)
      BY <2>3, <2>8, <2>9, <3>2, <3>3 DEF Bodies
    <3>5. SameContents(u, t)
      BY <2>3, <2>8, <2>9 DEF SameContents
    <3>. QED
      BY <3>1, <3>4, <3>5, ContentsKept DEF TransactionOK, Made
  <2>11. SameWork(u, t) /\ TransactionOK(u)
    <3>1. SameWork(u, t)
      BY <2>3 DEF SameWork
    <3>2. DataOK(u)
      BY <3>1, WorkKept DEF TransactionOK
    <3>. QED
      BY <2>3, <2>4, <2>6, <2>10, <3>1, <3>2 DEF TransactionOK
  <2>12. AllAuthentic(t) => AllAuthentic(u)
    BY <2>3, <2>4, <2>8, <2>9 DEF AllAuthentic
  <2>13. StillFrozen(u, t)
    <3>1. SameContents(u, t)
      BY <2>3, <2>8, <2>9 DEF SameContents
    <3>. QED
      BY <2>3, <2>4, <2>11, <3>1 DEF StillFrozen, SameTransaction, SameWork
  <2>14. AddedTo(u, t, k)
    BY <1>3, <2>1, <2>3, <2>8, <2>9 DEF AddedTo
  <2>. QED
    BY <1>1, <1>3, <2>3, <2>5, <2>12, <2>13, <2>14
<1>. QED
  BY <1>2, <1>3

(* Every signer signs a body once, with the key it stands for.                                     *)
SignedFrom(v, b, t, c) ==
    /\ IsBody(v) /\ v.id = b.id /\ v.node = b.node /\ v.chunk = b.chunk /\ v.content = b.content
    /\ \A k \in Keys : v.signatures[k] = IF t.signatories[k] \in {"absent", "added"} THEN b.signatures[k]
                                         ELSE Append(b.signatures[k], PrivateKey(t.signatories[k], c))

LEMMA SignedIs ==
    ASSUME NEW t, Signers(t), NEW c, c.private \in Keys \cup {None}, NEW b, IsBody(b)
    PROVE  SignedFrom(Signed(t, c, b), b, t, c)
<1>1. PICK v, s : /\ v = Signed(t, c, b)
                  /\ s = [k \in Keys |-> IF t.signatories[k] \in {"absent", "added"} THEN b.signatures[k]
                                         ELSE Append(b.signatures[k], PrivateKey(t.signatories[k], c))]
  OBVIOUS
<1>2. v = [b EXCEPT !.signatures = s]
  BY <1>1 DEF Signed
<1>3. v = [id |-> b.id, node |-> b.node, content |-> b.content, chunk |-> b.chunk, total |-> b.total,
           initial |-> b.initial, signatures |-> s]
  BY <1>2 DEF IsBody
<1>4. ASSUME NEW k \in Keys
      PROVE  (IF t.signatories[k] \in {"absent", "added"} THEN b.signatures[k]
              ELSE Append(b.signatures[k], PrivateKey(t.signatories[k], c))) \in Seq(Keys \cup {None})
  <2>1. b.signatures[k] \in Seq(Keys \cup {None})
    BY DEF IsBody
  <2>2. t.signatories[k] \notin {"absent", "added"} => PrivateKey(t.signatories[k], c) \in Keys \cup {None}
    BY DEF Signers, PrivateKey
  <2>. QED
    BY <2>1, <2>2
<1>5. s \in [Keys -> Seq(Keys \cup {None})]
  BY <1>1, <1>4
<1>6. SignedFrom(v, b, t, c)
  BY <1>1, <1>3, <1>5 DEF SignedFrom, IsBody
<1>. QED
  BY <1>1, <1>6

(* buildTransaction signs what is not built yet, and copies it; the rest of the object stays.      *)
Rebuilt(u, t, c, indices) ==
    /\ u = [class |-> t.class, frozen |-> t.frozen, id |-> t.id, nodes |-> t.nodes, data |-> t.data,
            chunkSize |-> t.chunkSize, currentChunk |-> t.currentChunk, signatories |-> t.signatories,
            signedTransactions |-> u.signedTransactions, transactions |-> u.transactions]
    /\ u.signedTransactions = [i \in DOMAIN t.signedTransactions |-> u.signedTransactions[i]]
    /\ DOMAIN u.transactions = DOMAIN t.signedTransactions
    /\ \A i \in DOMAIN t.signedTransactions :
          /\ \/ u.signedTransactions[i] = t.signedTransactions[i]
             \/ SignedFrom(u.signedTransactions[i], t.signedTransactions[i], t, c)
          /\ u.transactions[i] \in {NotBuilt, u.signedTransactions[i]}
          /\ i \in indices => u.transactions[i] = u.signedTransactions[i]
          /\ IF i \in indices /\ t.transactions[i] = NotBuilt
             THEN /\ SignedFrom(u.signedTransactions[i], t.signedTransactions[i], t, c)
                  /\ u.transactions[i] = u.signedTransactions[i]
             ELSE /\ u.signedTransactions[i] = t.signedTransactions[i]
                  /\ u.transactions[i] = t.transactions[i]

LEMMA BuildIs ==
    ASSUME NEW t, IsTransaction(t), Signers(t), NEW c, c.private \in Keys \cup {None}, NEW indices,
           \A i \in DOMAIN t.signedTransactions :
               /\ IsBody(t.signedTransactions[i])
               /\ t.transactions[i] \in {NotBuilt, t.signedTransactions[i]}
    PROVE  Rebuilt(BuildTransactions(t, c, indices), t, c, indices)
<1>1. PICK u, toBuild, signed, built :
         /\ u = BuildTransactions(t, c, indices)
         /\ toBuild = {i \in indices : t.transactions[i] = NotBuilt}
         /\ signed = [i \in DOMAIN t.signedTransactions |->
                         IF i \in toBuild THEN Signed(t, c, t.signedTransactions[i])
                         ELSE t.signedTransactions[i]]
         /\ built = [i \in DOMAIN signed |-> IF i \in toBuild THEN signed[i] ELSE t.transactions[i]]
  OBVIOUS
<1>2. u = [t EXCEPT !.signedTransactions = signed, !.transactions = built]
  BY <1>1 DEF BuildTransactions
<1>3. u = [class |-> t.class, frozen |-> t.frozen, id |-> t.id, nodes |-> t.nodes, data |-> t.data,
           chunkSize |-> t.chunkSize, currentChunk |-> t.currentChunk, signatories |-> t.signatories,
           signedTransactions |-> signed, transactions |-> built]
  BY <1>2 DEF IsTransaction
<1>4. u.signedTransactions = signed /\ u.transactions = built
  BY <1>3
<1>5. DOMAIN signed = DOMAIN t.signedTransactions /\ DOMAIN built = DOMAIN t.signedTransactions
      /\ signed = [i \in DOMAIN t.signedTransactions |-> signed[i]]
  BY <1>1
<1>6. ASSUME NEW i \in DOMAIN t.signedTransactions
      PROVE  /\ \/ signed[i] = t.signedTransactions[i]
                \/ SignedFrom(signed[i], t.signedTransactions[i], t, c)
             /\ built[i] \in {NotBuilt, signed[i]}
             /\ i \in indices => built[i] = signed[i]
             /\ IF i \in indices /\ t.transactions[i] = NotBuilt
                THEN SignedFrom(signed[i], t.signedTransactions[i], t, c) /\ built[i] = signed[i]
                ELSE signed[i] = t.signedTransactions[i] /\ built[i] = t.transactions[i]
  <2>1. CASE i \in toBuild
    <3>1. signed[i] = Signed(t, c, t.signedTransactions[i]) /\ built[i] = signed[i]
      BY <1>1, <1>5, <2>1
    <3>2. i \in indices /\ t.transactions[i] = NotBuilt
      BY <1>1, <2>1
    <3>. QED
      BY <3>1, <3>2, SignedIs
  <2>2. CASE i \notin toBuild
    <3>1. signed[i] = t.signedTransactions[i] /\ built[i] = t.transactions[i]
      BY <1>1, <1>5, <2>2
    <3>2. ~(i \in indices /\ t.transactions[i] = NotBuilt)
      BY <1>1, <2>2
    <3>. QED
      BY <3>1, <3>2
  <2>. QED
    BY <2>1, <2>2
<1>7. Rebuilt(u, t, c, indices)
  BY <1>3, <1>4, <1>5, <1>6 DEF Rebuilt
<1>. QED
  BY <1>1, <1>7

(* So building a frozen transaction keeps it as it is, and its signatures authentic as long as the *)
(* operator that signs has the key it signed up with.                                              *)
OperatorStays(t, c) == \A k \in Keys : t.signatories[k] = "operator" => c.private = k

LEMMA BuildKeeps ==
    ASSUME NEW t, TransactionOK(t), t.frozen, NEW c, c.private \in Keys \cup {None}, NEW indices, NEW u,
           Rebuilt(u, t, c, indices)
    PROVE  /\ StillFrozen(u, t) /\ u.signatories = t.signatories
           /\ AllAuthentic(t) /\ OperatorStays(t, c) => AllAuthentic(u)
<1>1. /\ IsTransaction(u) /\ u.class = t.class /\ u.id = t.id /\ u.nodes = t.nodes
      /\ u.data = t.data /\ u.chunkSize = t.chunkSize
      /\ u.currentChunk = t.currentChunk /\ u.signatories = t.signatories
  BY DEF Rebuilt, IsTransaction
<1>2. u.frozen = t.frozen
  <2>1. PICK v : v = t.frozen
    OBVIOUS
  <2>2. u = [class |-> t.class, frozen |-> v, id |-> t.id, nodes |-> t.nodes, data |-> t.data,
             chunkSize |-> t.chunkSize, currentChunk |-> t.currentChunk, signatories |-> t.signatories,
             signedTransactions |-> u.signedTransactions, transactions |-> u.transactions]
    BY <2>1, Zenon DEF Rebuilt
  <2>3. u.frozen = v
    BY ONLY <2>2
  <2>. QED
    BY <2>1, <2>3, Zenon
<1>3. Bodies(t) /\ DOMAIN u.signedTransactions = DOMAIN t.signedTransactions
  BY DEF TransactionOK, Made, Rebuilt
<1>4. ASSUME NEW i \in DOMAIN t.signedTransactions
      PROVE  /\ i \in Nat \ {0} /\ BodyFor(u.signedTransactions[i], u, i)
             /\ Authentic(t.signedTransactions[i]) /\ OperatorStays(t, c) => Authentic(u.signedTransactions[i])
  <2>1. i \in Nat \ {0} /\ BodyFor(t.signedTransactions[i], u, i)
    BY <1>1, <1>3 DEF Bodies, BodyFor, ChunkAt
  <2>2. CASE u.signedTransactions[i] = t.signedTransactions[i]
    BY <2>1, <2>2
  <2>3. CASE SignedFrom(u.signedTransactions[i], t.signedTransactions[i], t, c)
    <3>1. BodyFor(u.signedTransactions[i], u, i)
      BY <2>1, <2>3 DEF BodyFor, SignedFrom
    <3>2. ASSUME Authentic(t.signedTransactions[i]), OperatorStays(t, c), NEW k \in Keys,
                 NEW j \in DOMAIN u.signedTransactions[i].signatures[k]
          PROVE  u.signedTransactions[i].signatures[k][j] = k
      <4>1. PICK s, v : s = t.signedTransactions[i].signatures[k] /\ v = u.signedTransactions[i].signatures[k]
        OBVIOUS
      <4>2. s \in Seq(Keys \cup {None}) /\ \A l \in DOMAIN s : s[l] = k
        BY <2>1, <3>2, <4>1 DEF BodyFor, IsBody, Authentic
      <4>3. CASE t.signatories[k] \in {"absent", "added"}
        BY <2>3, <3>2, <4>1, <4>2, <4>3 DEF SignedFrom
      <4>4. CASE t.signatories[k] \notin {"absent", "added"}
        <5>1. PrivateKey(t.signatories[k], c) = k
          BY <3>2, <4>4 DEF TransactionOK, Signers, OperatorStays, PrivateKey
        <5>2. v = Append(s, k)
          BY <2>3, <4>1, <4>4, <5>1 DEF SignedFrom
        <5>. QED
          BY <3>2, <4>1, <4>2, <5>2
      <4>. QED
        BY <4>3, <4>4
    <3>. QED
      BY <2>1, <3>1, <3>2 DEF Authentic
  <2>. QED
    BY <2>2, <2>3 DEF Rebuilt
<1>5. Bodies(u)
  BY <1>3, <1>4 DEF Bodies, Rebuilt
<1>6. GoodId(u.id) /\ Len(u.nodes) \in Nat \ {0}
  BY <1>1 DEF TransactionOK, Made
<1>7. Signers(u)
  BY <1>1, <1>2 DEF TransactionOK, Signers
<1>8. SameWork(u, t) /\ TransactionOK(u) /\ SameContents(u, t)
  <2>1. SameWork(u, t)
    BY <1>1 DEF SameWork
  <2>2. DataOK(u)
    BY <2>1, WorkKept DEF TransactionOK
  <2>3. SameContents(u, t)
    <3>1. \A i \in DOMAIN t.signedTransactions :
             u.signedTransactions[i].content = t.signedTransactions[i].content
      BY DEF Rebuilt, SignedFrom
    <3>. QED
      BY <1>1, <1>3, <3>1 DEF SameContents
  <2>4. Contents(u)
    BY <2>3, ContentsKept DEF TransactionOK, Made
  <2>. QED
    BY <1>1, <1>2, <1>5, <1>6, <1>7, <2>1, <2>2, <2>3, <2>4 DEF TransactionOK, Made
<1>9. AllAuthentic(t) /\ OperatorStays(t, c) => AllAuthentic(u)
  BY <1>2, <1>3, <1>4 DEF AllAuthentic
<1>10. u.frozen /\ SameTransaction(u, t)
  BY <1>1, <1>2, <1>8 DEF SameTransaction
<1>. QED
  BY <1>1, <1>8, <1>9, <1>10 DEF StillFrozen

(* A new ID for an expired transaction: new bodies for it, signed by nobody yet.                   *)
LEMMA NewIdIs ==
    ASSUME NEW t, TransactionOK(t), t.frozen, NEW id, GoodId(id), NEW v, v = [t EXCEPT !.id = id],
           NEW u, u = RegenerateSignedTransactions(v)
    PROVE  /\ TransactionOK(u) /\ u.frozen /\ AllAuthentic(u) /\ Unsigned(u)
           /\ u.id = id /\ SameWork(u, t) /\ u.nodes = t.nodes
           /\ u.signatories = t.signatories
<1>1. PICK frozen : frozen = t.frozen
  OBVIOUS
<1>2. t = [class |-> t.class, frozen |-> frozen, id |-> t.id, nodes |-> t.nodes, data |-> t.data,
           chunkSize |-> t.chunkSize, currentChunk |-> t.currentChunk, signatories |-> t.signatories,
           signedTransactions |-> t.signedTransactions, transactions |-> t.transactions]
  BY <1>1, Zenon DEF TransactionOK, IsTransaction
<1>3. v = [class |-> t.class, frozen |-> frozen, id |-> id, nodes |-> t.nodes, data |-> t.data,
           chunkSize |-> t.chunkSize, currentChunk |-> t.currentChunk, signatories |-> t.signatories,
           signedTransactions |-> t.signedTransactions, transactions |-> t.transactions]
  BY <1>2
<1>4. /\ v.class = t.class /\ v.frozen = frozen /\ v.id = id /\ v.nodes = t.nodes /\ v.data = t.data
      /\ v.chunkSize = t.chunkSize /\ v.currentChunk = t.currentChunk /\ v.signatories = t.signatories
      /\ IsTransaction(v)
  BY ONLY <1>3 DEF IsTransaction
<1>5. Len(v.nodes) \in Nat \ {0} /\ GoodId(v.id)
  BY <1>4 DEF TransactionOK, Made
<1>6. NewBodies(u, v)
  BY <1>4, <1>5, RegenerateIs
<1>7. /\ u = [class |-> t.class, frozen |-> frozen, id |-> id, nodes |-> t.nodes, data |-> t.data,
               chunkSize |-> t.chunkSize, currentChunk |-> t.currentChunk, signatories |-> t.signatories,
               signedTransactions |-> u.signedTransactions, transactions |-> u.transactions]
      /\ Bodies(u)
  BY <1>4, <1>5, <1>6, Zenon DEF NewBodies
<1>8. Unsigned(u)
  BY <1>6 DEF NewBodies, Unsigned
<1>9. /\ u.class = t.class /\ u.frozen = frozen /\ u.id = id /\ u.nodes = t.nodes
      /\ u.data = t.data /\ u.chunkSize = t.chunkSize
      /\ u.currentChunk = t.currentChunk /\ u.signatories = t.signatories
      /\ IsTransaction(u)
  BY ONLY <1>7 DEF IsTransaction
<1>10. u.frozen /\ u.frozen \in BOOLEAN
  BY <1>1, <1>9, Zenon DEF TransactionOK
<1>11. AllAuthentic(u)
  BY <1>8, NoSignaturesIs DEF AllAuthentic, Authentic, Unsigned
<1>12. Signers(u)
  BY <1>9, <1>10 DEF TransactionOK, Signers
<1>13. SameWork(u, t) /\ TransactionOK(u)
  <2>1. SameWork(u, t)
    BY <1>9 DEF SameWork
  <2>2. DataOK(u)
    BY <2>1, WorkKept DEF TransactionOK
  <2>3. DataOK(v)
    <3>1. SameWork(v, t)
      BY <1>4 DEF SameWork
    <3>. QED
      BY <3>1, WorkKept DEF TransactionOK
  <2>4. Contents(u)
    BY <1>5, <1>6, <2>3, Zenon DEF NewBodies, Contents, HoldsCuts
  <2>. QED
    BY <1>4, <1>5, <1>7, <1>9, <1>10, <1>12, <2>1, <2>2, <2>4 DEF TransactionOK, Made
<1>. QED
  BY <1>8, <1>9, <1>10, <1>11, <1>13

-----------------------------------------------------------------------------
(* What every key owes a body.  A private key has signed what is built, and can sign the rest; a   *)
(* signature that was added is on the first body, and on all if there is one chunk; what read from *)
(* bytes has somebody's signature on its first body has it on all that are ever sent, unless they  *)
(* were made anew.  No body carries more signatures of a key than keys have given theirs, counting *)
(* the one it has yet to make.                                                                     *)
Private(t, k) == t.signatories[k] \notin {"absent", "added"}
Given(t) == {k \in Keys : Private(t, k) \/ (t.signatories[k] = "added" /\ t.signedTransactions[1].signatures[k] # <<>>)}
Signs(t, may, i, k) ==
    /\ Private(t, k) /\ t.transactions[i] # NotBuilt => t.signedTransactions[i].signatures[k] # <<>>
    /\ Private(t, k) /\ t.transactions[i] = NotBuilt =>
          Len(t.signedTransactions[i].signatures[k]) + 1 <= Cardinality(Given(t))
    /\ t.signatories[k] = "absent" => t.signedTransactions[i].signatures[k] = <<>>
    /\ t.signatories[k] = "added" /\ t.signedTransactions[1].signatures[k] = <<>> =>
          t.signedTransactions[i].signatures[k] = <<>>
    /\ t.signatories[k] = "added" /\ ~may /\ (i = 1 \/ i <= GetNumberOfChunksRequired(t) * Len(t.nodes)) =>
          t.signedTransactions[i].signatures[k] # <<>>
    /\ Len(t.signedTransactions[i].signatures[k]) <= Cardinality(Given(t))
InFull(t, may) ==
    /\ IsFiniteSet(Signatories(t))
    /\ t.frozen => \A i \in DOMAIN t.signedTransactions, k \in Keys : Signs(t, may, i, k)

LEMMA GivenIs ==
    ASSUME NEW t, IsFiniteSet(Signatories(t))
    PROVE  /\ IsFiniteSet(Given(t)) /\ Cardinality(Given(t)) \in Nat
           /\ Cardinality(Given(t)) <= Cardinality(Signatories(t)) /\ Cardinality(Signatories(t)) \in Nat
<1>1. Given(t) \in SUBSET Signatories(t)
  BY DEF Given, Private, Signatories
<1>. QED
  BY <1>1, FS_Subset, FS_CardinalityType

(* What has the same signers and the same bodies owes the same.                                    *)
LEMMA SameSigners ==
    ASSUME NEW t, NEW may, InFull(t, may), NEW u, u.frozen = t.frozen, u.signatories = t.signatories,
           u.signedTransactions = t.signedTransactions, u.transactions = t.transactions, u.nodes = t.nodes,
           GetNumberOfChunksRequired(u) = GetNumberOfChunksRequired(t)
    PROVE  InFull(u, may)
<1>1. Signatories(u) = Signatories(t) /\ Given(u) = Given(t) /\ \A k : Private(u, k) <=> Private(t, k)
  BY DEF Signatories, Given, Private
<1>2. \A i \in DOMAIN t.signedTransactions, k \in Keys : Signs(t, may, i, k) => Signs(u, may, i, k)
  BY <1>1 DEF Signs
<1>. QED
  BY <1>1, <1>2 DEF InFull

(* New bodies are signed by nobody yet: what was added is lost, as a new ID is only made where it  *)
(* may be, or was never there.                                                                     *)
LEMMA UnsignedOwes ==
    ASSUME NEW t, TransactionOK(t), Unsigned(t), IsFiniteSet(Signatories(t)), NEW may,
           may \/ \A k \in Keys : t.signatories[k] # "added"
    PROVE  InFull(t, may)
<1> SUFFICES ASSUME t.frozen, NEW i \in DOMAIN t.signedTransactions, NEW k \in Keys PROVE Signs(t, may, i, k)
  BY DEF InFull
<1>1. t.signedTransactions[i].signatures[k] = <<>> /\ t.transactions[i] = NotBuilt
  BY NoSignaturesIs DEF Unsigned
<1>2. IsFiniteSet(Given(t)) /\ Cardinality(Given(t)) \in Nat
  BY GivenIs
<1>3. Private(t, k) => 1 <= Cardinality(Given(t))
  <2>1. Private(t, k) => Given(t) # {}
    BY DEF Given
  <2>. QED
    BY <1>2, <2>1, FS_EmptySet
<1>4. Len(t.signedTransactions[i].signatures[k]) = 0
  BY <1>1
<1>. QED
  BY <1>1, <1>2, <1>3, <1>4 DEF Signs

(* A key that signs owes its signature to every body, and may make one more.                       *)
LEMMA SignOwes ==
    ASSUME NEW t, TransactionOK(t), t.frozen, NEW k \in Keys, NEW signer \in {k, "operator"},
           NEW may, InFull(t, may), NEW u, StillFrozen(u, t), SignedLater(u, t, k),
           \A l \in Keys : u.signatories[l] = (IF l = k /\ t.signatories[k] = "absent" THEN signer ELSE t.signatories[l])
    PROVE  InFull(u, may)
<1>1. CASE t.signatories[k] # "absent"
  BY <1>1 DEF SignedLater
<1>2. CASE t.signatories[k] = "absent"
  <2>1. u.signedTransactions = t.signedTransactions
        /\ \A i \in DOMAIN t.signedTransactions : u.transactions[i] = NotBuilt
    BY <1>2 DEF SignedLater
  <2>2. u.signatories[k] = signer /\ \A l \in Keys : l # k => u.signatories[l] = t.signatories[l]
    BY <1>2
  <2>3. signer \notin {"absent", "added"}
    BY TransactionAssumption
  <2>4. Private(u, k) /\ \A l \in Keys : l # k => (Private(u, l) <=> Private(t, l))
    BY <2>2, <2>3 DEF Private
  <2>5. Given(u) = Given(t) \cup {k} /\ k \notin Given(t)
    BY <1>2, <2>1, <2>2, <2>4 DEF Given, Private
  <2>6. Signatories(u) = Signatories(t) \cup {k}
    BY <1>2, <2>2, <2>3 DEF Signatories
  <2>7. IsFiniteSet(Signatories(t)) /\ IsFiniteSet(Signatories(u))
    BY <2>6, FS_AddElement DEF InFull
  <2>8. Cardinality(Given(t)) \in Nat /\ Cardinality(Given(u)) = Cardinality(Given(t)) + 1
    BY <2>5, <2>7, GivenIs, FS_AddElement
  <2>9. GetNumberOfChunksRequired(u) = GetNumberOfChunksRequired(t) /\ u.nodes = t.nodes
    BY WorkLeft DEF StillFrozen, SameTransaction
  <2>10. ASSUME NEW i \in DOMAIN t.signedTransactions, NEW l \in Keys PROVE Signs(u, may, i, l)
    <3>1. Signs(t, may, i, l)
      BY DEF InFull
    <3>2. Len(t.signedTransactions[i].signatures[l]) \in Nat
      BY DEF TransactionOK, Made, Bodies, BodyFor, IsBody
    <3>3. CASE l = k
      BY <2>1, <2>2, <2>3, <2>4, <2>8, <3>1, <3>2, <3>3 DEF Signs
    <3>4. CASE l # k
      BY <2>1, <2>2, <2>4, <2>8, <2>9, <3>1, <3>2, <3>4 DEF Signs
    <3>. QED
      BY <3>3, <3>4
  <2>. QED
    BY <2>1, <2>7, <2>10 DEF InFull
<1>. QED
  BY <1>1, <1>2

(* A signature made elsewhere is on the first body, which is the only one of its node that is sent. *)
LEMMA AddOwes ==
    ASSUME NEW t, TransactionOK(t), CanAddSignature(t), NEW k \in Keys,
           NEW may, InFull(t, may), NEW u, StillFrozen(u, t), AddedTo(u, t, k),
           \A l \in Keys : u.signatories[l] = (IF l = k /\ t.signatories[k] = "absent" THEN "added" ELSE t.signatories[l])
    PROVE  InFull(u, may)
<1>1. CASE t.signatories[k] # "absent"
  BY <1>1 DEF AddedTo
<1>2. CASE t.signatories[k] = "absent"
  <2>1. DOMAIN u.signedTransactions = DOMAIN t.signedTransactions
        /\ \A i \in DOMAIN t.signedTransactions :
              /\ u.transactions[i] = NotBuilt
              /\ \A l \in Keys : u.signedTransactions[i].signatures[l] =
                     IF i = 1 /\ l = k THEN Append(t.signedTransactions[i].signatures[k], k)
                     ELSE t.signedTransactions[i].signatures[l]
    BY <1>2, Zenon DEF AddedTo
  <2>2. u.signatories[k] = "added" /\ \A l \in Keys : l # k => u.signatories[l] = t.signatories[l]
    BY <1>2
  <2>3. t.frozen
    BY DEF CanAddSignature
  <2>4. \A i \in DOMAIN t.signedTransactions, l \in Keys :
            /\ Len(t.signedTransactions[i].signatures[l]) \in Nat
            /\ t.signedTransactions[i].signatures[l] \in Seq(Keys \cup {None})
    <3> TAKE i \in DOMAIN t.signedTransactions, l \in Keys
    <3>1. IsBody(t.signedTransactions[i])
      BY <2>3 DEF TransactionOK, Made, Bodies, BodyFor
    <3>2. t.signedTransactions[i].signatures[l] \in Seq(Keys \cup {None})
      BY <3>1 DEF IsBody
    <3>. QED
      BY <3>2
  <2>5. 1 \in DOMAIN t.signedTransactions
    <3>1. PICK m, g : Holds(t, m, g)
      BY <2>3 DEF TransactionOK, Made, Contents
    <3>2. Len(t.nodes) = 1 /\ t.signedTransactions # << >>
      BY DEF CanAddSignature
    <3>3. DOMAIN t.signedTransactions = 1..m /\ m \in Nat
      BY <3>1, <3>2 DEF Holds
    <3>4. t.signedTransactions = [i \in DOMAIN t.signedTransactions |-> t.signedTransactions[i]]
      BY <2>3, Zenon DEF TransactionOK, Made, Bodies
    <3>5. m # 0
      <4>1. ASSUME m = 0 PROVE FALSE
        <5>1. DOMAIN t.signedTransactions = {}
          BY <3>3, <4>1
        <5>. QED
          BY <3>2, <3>4, <5>1
      <4>. QED
        BY <4>1
    <3>. QED
      BY <3>3, <3>5
  <2>6. t.signedTransactions[1].signatures[k] = << >>
    BY <1>2, <2>3, <2>5 DEF InFull, Signs
  <2>7. Len(u.signedTransactions[1].signatures[k]) = 1 /\ u.signedTransactions[1].signatures[k] # << >>
    <3>1. u.signedTransactions[1].signatures[k] = Append(<< >>, k)
      BY <2>1, <2>5, <2>6
    <3>. QED
      BY <3>1
  <2>8. Given(u) = Given(t) \cup {k} /\ k \notin Given(t)
    BY <1>2, <2>1, <2>2, <2>5, <2>7 DEF Given, Private
  <2>9. Signatories(u) = Signatories(t) \cup {k}
    BY <1>2, <2>2 DEF Signatories
  <2>10. IsFiniteSet(Signatories(t)) /\ IsFiniteSet(Signatories(u))
    BY <2>9, FS_AddElement DEF InFull
  <2>11. Cardinality(Given(t)) \in Nat /\ Cardinality(Given(u)) = Cardinality(Given(t)) + 1
    BY <2>8, <2>10, GivenIs, FS_AddElement
  <2>12. GetNumberOfChunksRequired(u) = GetNumberOfChunksRequired(t) /\ u.nodes = t.nodes
    BY WorkLeft DEF StillFrozen, SameTransaction
  <2>13. GetNumberOfChunksRequired(t) \in Nat /\ GetNumberOfChunksRequired(t) * Len(t.nodes) <= 1
    <3>1. DataOK(t)
      BY DEF TransactionOK
    <3>2. t.data \in Seq(Units) /\ t.chunkSize \in Nat \ {0} /\ Len(t.data) \in Nat
      BY <3>1 DEF DataOK
    <3>3. GetNumberOfChunksRequired(t) \in Nat
      BY <3>1, CutOfIs
    <3>4. t.class = "plain" => GetNumberOfChunksRequired(t) <= 1
      BY DEF GetNumberOfChunksRequired
    <3>5. t.class # "plain" => GetNumberOfChunksRequired(t) <= 1
      BY <3>1, <3>2, CutOfIs, PartsAre DEF CanAddSignature
    <3>6. PICK m \in Nat : m = GetNumberOfChunksRequired(t) /\ m <= 1
      BY <3>3, <3>4, <3>5
    <3>7. Len(t.nodes) = 1
      BY DEF CanAddSignature
    <3>. QED
      BY <3>3, <3>6, <3>7
  <2>14. ASSUME NEW i \in DOMAIN t.signedTransactions, NEW l \in Keys PROVE Signs(u, may, i, l)
    <3>1. Signs(t, may, i, l) /\ i \in Nat \ {0}
      BY <2>3 DEF InFull, TransactionOK, Made, Bodies
    <3>2. Len(t.signedTransactions[i].signatures[l]) \in Nat
      BY <2>4
    <3>3. CASE l = k
      <4>1. t.signedTransactions[i].signatures[k] = << >> /\ ~Private(u, k)
        BY <1>2, <2>2, <3>1, <3>3 DEF Signs, Private
      <4>2. /\ Len(u.signedTransactions[i].signatures[k]) \in {0, 1}
            /\ i # 1 => u.signedTransactions[i].signatures[k] = << >>
        <5>1. CASE i = 1
          BY <2>7, <5>1
        <5>2. CASE i # 1
          BY <2>1, <4>1, <5>2
        <5>. QED
          BY <5>1, <5>2
      <4>3. i <= GetNumberOfChunksRequired(u) * Len(u.nodes) => i = 1
        BY <2>12, <2>13, <3>1
      <4>4. ~Private(u, l) /\ u.signatories[l] # "absent" /\ u.signedTransactions[1].signatures[l] # << >>
        BY <2>2, <2>7, <3>3, <4>1
      <4>5. Len(u.signedTransactions[i].signatures[l]) <= Cardinality(Given(u))
        <5>1. Len(u.signedTransactions[i].signatures[l]) \in {0, 1}
          BY <3>3, <4>2
        <5>2. PICK n, m : n = Len(u.signedTransactions[i].signatures[l]) /\ m = Cardinality(Given(u))
          OBVIOUS
        <5>3. n \in {0, 1} /\ m \in Nat \ {0}
          BY <2>11, <5>1, <5>2
        <5>4. n <= m
          BY ONLY <5>3
        <5>. QED
          BY <5>2, <5>4, Zenon
      <4>6. i = 1 \/ i <= GetNumberOfChunksRequired(u) * Len(u.nodes) => u.signedTransactions[i].signatures[l] # << >>
        BY <4>3, <4>4
      <4>. QED
        BY <4>4, <4>5, <4>6 DEF Signs
    <3>4. CASE l # k
      <4>1. u.signedTransactions[i].signatures[l] = t.signedTransactions[i].signatures[l]
            /\ u.signedTransactions[1].signatures[l] = t.signedTransactions[1].signatures[l]
            /\ u.transactions[i] = NotBuilt
        BY <2>1, <2>5, <3>4
      <4>2. u.signatories[l] = t.signatories[l] /\ (Private(u, l) <=> Private(t, l))
        BY <2>2, <3>4 DEF Private
      <4>3. Private(t, l) => Len(t.signedTransactions[i].signatures[l]) + 1 <= Cardinality(Given(u))
        BY <2>11, <3>1, <3>2 DEF Signs
      <4>. QED
        BY <2>11, <2>12, <3>1, <3>2, <4>1, <4>2, <4>3 DEF Signs
    <3>. QED
      BY <3>3, <3>4
  <2>. QED
    BY <2>1, <2>10, <2>14 DEF InFull
<1>. QED
  BY <1>1, <1>2

(* A body is not taken for what is not built.                                                      *)
LEMMA BodyIsBuilt ==
    ASSUME NEW t, TransactionOK(t), t.frozen, NEW i \in DOMAIN t.signedTransactions
    PROVE  t.signedTransactions[i] # NotBuilt
<1>1. BodyFor(t.signedTransactions[i], t, i) /\ GoodId(t.id) /\ i \in Nat \ {0} /\ Len(t.nodes) \in Nat \ {0}
  BY DEF TransactionOK, Made, Bodies
<1>2. t.signedTransactions[i].chunk \in Nat
  BY <1>1, PlaceIs DEF BodyFor, ChunkAt
<1>3. t.signedTransactions[i].id # None
  BY <1>1, <1>2, TickIs DEF BodyFor
<1>4. NotBuilt.id = None
  BY DEF NotBuilt, Body
<1>. QED
  BY <1>3, <1>4

(* Building has every private key make the signature it owes.                                      *)
LEMMA BuildOwes ==
    ASSUME NEW t, TransactionOK(t), t.frozen, NEW c, c.private \in Keys \cup {None}, NEW indices,
           NEW may, InFull(t, may),
           NEW u, Rebuilt(u, t, c, indices), StillFrozen(u, t), u.signatories = t.signatories
    PROVE  InFull(u, may)
<1>1. DOMAIN u.signedTransactions = DOMAIN t.signedTransactions
  BY DEF Rebuilt
<1>2. \A l \in Keys : Private(u, l) <=> Private(t, l)
  BY DEF Private
<1>3. GetNumberOfChunksRequired(u) = GetNumberOfChunksRequired(t) /\ u.nodes = t.nodes
  BY WorkLeft DEF StillFrozen, SameTransaction
<1>4. ASSUME NEW i \in DOMAIN t.signedTransactions, NEW l \in Keys
      PROVE  \/ /\ u.signedTransactions[i].signatures[l] = t.signedTransactions[i].signatures[l]
                /\ u.transactions[i] = t.transactions[i]
             \/ /\ t.transactions[i] = NotBuilt /\ u.transactions[i] # NotBuilt
                /\ IF Private(t, l)
                   THEN /\ u.signedTransactions[i].signatures[l] # << >>
                        /\ Len(u.signedTransactions[i].signatures[l]) = Len(t.signedTransactions[i].signatures[l]) + 1
                   ELSE u.signedTransactions[i].signatures[l] = t.signedTransactions[i].signatures[l]
  <2>1. CASE i \in indices /\ t.transactions[i] = NotBuilt
    <3>1. SignedFrom(u.signedTransactions[i], t.signedTransactions[i], t, c) /\ u.transactions[i] = u.signedTransactions[i]
      BY <2>1 DEF Rebuilt
    <3>2. u.transactions[i] # NotBuilt
      BY <1>1, <3>1, BodyIsBuilt DEF StillFrozen
    <3>3. Private(t, l) <=> ~(t.signatories[l] \in {"absent", "added"})
      BY DEF Private
    <3>4. t.signedTransactions[i].signatures[l] \in Seq(Keys \cup {None})
      BY DEF TransactionOK, Made, Bodies, BodyFor, IsBody
    <3>5. Private(t, l) => u.signedTransactions[i].signatures[l] =
                              Append(t.signedTransactions[i].signatures[l], PrivateKey(t.signatories[l], c))
      BY <3>1, <3>3 DEF SignedFrom
    <3>6. ~Private(t, l) => u.signedTransactions[i].signatures[l] = t.signedTransactions[i].signatures[l]
      BY <3>1, <3>3 DEF SignedFrom
    <3>7. ASSUME NEW s \in Seq(Keys \cup {None}), NEW key \in Keys \cup {None}
          PROVE  Append(s, key) # << >> /\ Len(Append(s, key)) = Len(s) + 1
      OBVIOUS
    <3>8. Private(t, l) => PrivateKey(t.signatories[l], c) \in Keys \cup {None}
      BY DEF Private, PrivateKey, TransactionOK, Signers
    <3>. QED
      BY <2>1, <3>2, <3>4, <3>5, <3>6, <3>7, <3>8
  <2>2. CASE ~(i \in indices /\ t.transactions[i] = NotBuilt)
    BY <2>2, Zenon DEF Rebuilt
  <2>. QED
    BY <2>1, <2>2
<1>5. Given(u) = Given(t) \/ DOMAIN t.signedTransactions = {}
  <2> SUFFICES ASSUME DOMAIN t.signedTransactions # {} PROVE Given(u) = Given(t)
    OBVIOUS
  <2>1. 1 \in DOMAIN t.signedTransactions
    <3>1. PICK l : l \in Nat /\ DOMAIN t.signedTransactions = 1..l
      BY DEF TransactionOK, Made, Contents, Holds
    <3>. QED
      BY <3>1
  <2>2. \A l \in Keys : t.signatories[l] = "added" =>
            u.signedTransactions[1].signatures[l] = t.signedTransactions[1].signatures[l]
    BY <1>4, <2>1 DEF Private
  <2>. QED
    BY <1>2, <2>2 DEF Given
<1>6. IsFiniteSet(Signatories(t)) /\ Signatories(u) = Signatories(t)
  BY DEF InFull, Signatories
<1>7. Cardinality(Given(t)) \in Nat
  BY <1>6, GivenIs
<1>8. ASSUME NEW i \in DOMAIN t.signedTransactions, NEW l \in Keys PROVE Signs(u, may, i, l)
  <2>1. Signs(t, may, i, l)
    BY DEF InFull
  <2>2. Len(t.signedTransactions[i].signatures[l]) \in Nat
    BY DEF TransactionOK, Made, Bodies, BodyFor, IsBody
  <2>3. Given(u) = Given(t) /\ 1 \in DOMAIN t.signedTransactions
    <3>1. PICK j : j \in Nat /\ DOMAIN t.signedTransactions = 1..j
      BY DEF TransactionOK, Made, Contents, Holds
    <3>. QED
      BY <1>5, <3>1
  <2>4. t.signatories[l] = "added" => u.signedTransactions[1].signatures[l] = t.signedTransactions[1].signatures[l]
    BY <1>4, <2>3 DEF Private
  <2>5. Private(t, l) <=> t.signatories[l] \notin {"absent", "added"}
    BY DEF Private
  <2>6. CASE /\ u.signedTransactions[i].signatures[l] = t.signedTransactions[i].signatures[l]
             /\ u.transactions[i] = t.transactions[i]
    BY <1>2, <1>3, <2>1, <2>3, <2>4, <2>6 DEF Signs
  <2>7. CASE /\ t.transactions[i] = NotBuilt /\ u.transactions[i] # NotBuilt
             /\ IF Private(t, l)
                THEN /\ u.signedTransactions[i].signatures[l] # << >>
                     /\ Len(u.signedTransactions[i].signatures[l]) = Len(t.signedTransactions[i].signatures[l]) + 1
                ELSE u.signedTransactions[i].signatures[l] = t.signedTransactions[i].signatures[l]
    BY <1>2, <1>3, <1>7, <2>1, <2>2, <2>3, <2>4, <2>5, <2>7 DEF Signs
  <2>. QED
    BY <1>4, <2>6, <2>7
<1>. QED
  BY <1>1, <1>6, <1>8 DEF InFull

(* toBytes: every body built and signed, those of an unfrozen transaction made for the occasion.   *)
SavedFrom(u, t, c) ==
    /\ u.class = t.class /\ u.nodes = t.nodes
    /\ u.signedTransactions = [i \in DOMAIN u.signedTransactions |-> u.signedTransactions[i]]
    /\ SameWork(u, t)
    /\ \E m, g : IF t.frozen THEN Holds(u, m, g) /\ (CutAnew(u, m, g) \/ ReadFrom(u, m, g)) ELSE HoldsCuts(u, t, m, g)
    /\ t.frozen => /\ StillFrozen(u, t) /\ u.signatories = t.signatories
                   /\ Rebuilt(u, t, c, DOMAIN t.signedTransactions)
                   /\ AllAuthentic(t) /\ OperatorStays(t, c) => AllAuthentic(u)
    /\ ~t.frozen => \A i \in DOMAIN u.signedTransactions :
                       /\ \A k \in Keys : u.signedTransactions[i].signatures[k] = <<>>
                       /\ t.id = None => u.signedTransactions[i].id = None
                       /\ GoodId(t.id) => BodyFor(u.signedTransactions[i], t, i)
LEMMA SavedIs ==
    ASSUME NEW t, TransactionOK(t), t.nodes # <<>>, NEW c, c.private \in Keys \cup {None}
    PROVE  SavedFrom(Saved(t, c), t, c)
<1>1. PICK u : u = Saved(t, c)
  OBVIOUS
<1>2. CASE t.frozen
  <2>1. u = BuildTransactions(t, c, DOMAIN t.signedTransactions)
    BY <1>1, <1>2 DEF Saved, BuildAllTransactions
  <2>2. Rebuilt(u, t, c, DOMAIN t.signedTransactions)
    <3>1. \A i \in DOMAIN t.signedTransactions : /\ IsBody(t.signedTransactions[i])
                                                 /\ t.transactions[i] \in {NotBuilt, t.signedTransactions[i]}
      BY <1>2 DEF TransactionOK, Made, Bodies, BodyFor
    <3>2. IsTransaction(t) /\ Signers(t)
      BY DEF TransactionOK
    <3>. QED
      BY <2>1, <3>1, <3>2, BuildIs
  <2>3. /\ StillFrozen(u, t) /\ u.signatories = t.signatories
        /\ AllAuthentic(t) /\ OperatorStays(t, c) => AllAuthentic(u)
    BY <1>2, <2>2, BuildKeeps
  <2>4. u.class = t.class /\ u.nodes = t.nodes /\ Made(u) /\ SameWork(u, t)
    BY <2>3 DEF StillFrozen, SameTransaction, SameWork, TransactionOK
  <2>5. \E m, g : Holds(u, m, g) /\ (CutAnew(u, m, g) \/ ReadFrom(u, m, g))
    BY <2>4, Zenon DEF Made, Contents
  <2>6. u.signedTransactions = [i \in DOMAIN u.signedTransactions |-> u.signedTransactions[i]]
    BY <2>4, Zenon DEF Made, Bodies
  <2>. QED
    BY <1>1, <1>2, <2>2, <2>3, <2>4, <2>5, <2>6, Zenon DEF SavedFrom
<1>3. CASE ~t.frozen
  <2>1. PICK v : v = RegenerateSignedTransactions(t)
    OBVIOUS
  <2>2. u = BuildTransactions(v, c, DOMAIN v.signedTransactions)
    BY <1>1, <1>3, <2>1 DEF Saved, BuildAllTransactions
  <2>3. NewBodies(v, t)
    BY <2>1, RegenerateIs DEF TransactionOK
  <2>4. /\ v.class = t.class /\ v.nodes = t.nodes /\ v.id = t.id /\ v.signatories = t.signatories
        /\ IsTransaction(v)
    BY ONLY <2>3 DEF NewBodies, IsTransaction
  <2>5. v.frozen = t.frozen
    BY ONLY <2>3 DEF NewBodies
  <2>6. \A k \in Keys : v.signatories[k] = "absent"
    BY <1>3, <2>4 DEF TransactionOK, Signers
  <2>7. Signers(v)
    BY <2>4, <2>6 DEF TransactionOK, Signers
  <2>8. \A i \in DOMAIN v.signedTransactions : /\ IsBody(v.signedTransactions[i])
                                               /\ v.transactions[i] = NotBuilt
    BY <2>3 DEF NewBodies
  <2>9. Rebuilt(u, v, c, DOMAIN v.signedTransactions)
    BY <2>2, <2>4, <2>7, <2>8, BuildIs
  <2>10. u.class = t.class /\ u.nodes = t.nodes /\ DOMAIN u.signedTransactions = DOMAIN v.signedTransactions
    <3>1. u.class = v.class /\ u.nodes = v.nodes
      BY ONLY <2>9 DEF Rebuilt
    <3>2. DOMAIN u.signedTransactions = DOMAIN v.signedTransactions
      BY <2>9 DEF Rebuilt
    <3>. QED
      BY <2>4, <3>1, <3>2
  <2>11. ASSUME NEW i \in DOMAIN u.signedTransactions
         PROVE  /\ \A k \in Keys : u.signedTransactions[i].signatures[k] = <<>>
                /\ t.id = None => u.signedTransactions[i].id = None
                /\ GoodId(t.id) => BodyFor(u.signedTransactions[i], t, i)
    <3>1. PICK a, b : a = v.signedTransactions[i] /\ b = u.signedTransactions[i]
      OBVIOUS
    <3>2. t.id = None => a.id = None
      BY <2>3, <2>10, <2>11, <3>1 DEF NewBodies
    <3>3. GoodId(t.id) => BodyFor(a, t, i)
      BY <2>3, <2>4, <2>10, <2>11, <3>1 DEF NewBodies, Bodies, BodyFor, ChunkAt
    <3>4. b = a \/ SignedFrom(b, a, v, c)
      BY <2>9, <2>10, <2>11, <3>1 DEF Rebuilt
    <3>5. IsBody(b) /\ b.id = a.id /\ b.node = a.node /\ b.chunk = a.chunk
          /\ \A k \in Keys : b.signatures[k] = a.signatures[k]
      BY <2>3, <2>6, <2>8, <2>10, <2>11, <3>1, <3>4 DEF SignedFrom
    <3>6. GoodId(t.id) => BodyFor(b, t, i)
      BY <3>3, <3>5 DEF BodyFor
    <3>7. a.signatures = NoSignatures
      BY <2>3, <2>10, <2>11, <3>1 DEF NewBodies
    <3>. QED
      BY <3>1, <3>2, <3>5, <3>6, <3>7, NoSignaturesIs
  <2>12. SameWork(u, t) /\ \E m, g : HoldsCuts(u, t, m, g)
    <3>1. PICK m, g : HoldsCuts(v, t, m, g)
      <4>1. DataOK(t) /\ (t.id = None \/ GoodId(t.id))
        BY DEF TransactionOK
      <4>. QED
        BY <2>3, <4>1, Zenon DEF NewBodies
    <3>2. SameContents(u, v)
      <4>1. u.class = v.class /\ u.data = v.data /\ u.chunkSize = v.chunkSize /\ u.nodes = v.nodes
        BY ONLY <2>9 DEF Rebuilt
      <4>2. \A i \in DOMAIN v.signedTransactions :
               u.signedTransactions[i].content = v.signedTransactions[i].content
        BY <2>9 DEF Rebuilt, SignedFrom
      <4>. QED
        BY <2>10, <4>1, <4>2 DEF SameContents
    <3>3. HoldsCuts(u, t, m, g)
      <4>1. Holds(u, m, g)
        BY <3>1, <3>2, ContentsKept DEF HoldsCuts
      <4>2. CutAnew(v, m, g) => CutAnew(u, m, g)
        BY <3>2, ContentsKept
      <4>. QED
        BY <3>1, <4>1, <4>2, Zenon DEF HoldsCuts
    <3>4. SameWork(u, t)
      <4>1. SameWork(v, t)
        BY <2>3 DEF NewBodies
      <4>2. u.currentChunk = v.currentChunk
        BY ONLY <2>9 DEF Rebuilt
      <4>. QED
        BY <3>2, <4>1, <4>2 DEF SameContents, SameWork
    <3>. QED
      BY <3>3, <3>4
  <2>13. u.signedTransactions = [i \in DOMAIN u.signedTransactions |-> u.signedTransactions[i]]
    BY <2>9, <2>10, Zenon DEF Rebuilt
  <2>. QED
    BY <1>1, <1>3, <2>10, <2>11, <2>12, <2>13, Zenon DEF SavedFrom
<1>. QED
  BY <1>2, <1>3

(* A topic message is joined from the contents of its chunks, as they stand for the first node.    *)
UpTo(t, l) ==
    CHOOSE up : up = [c \in 0..l |-> IF c = 0 THEN <<>>
                                     ELSE up[c - 1] \o t.signedTransactions[(c - 1) * Len(t.nodes) + 1].content]
LEMMA JoinedIs ==
    ASSUME NEW t, Len(t.nodes) \in Nat \ {0}, NEW m, NEW g, Holds(t, m, g),
           t.signedTransactions = [i \in DOMAIN t.signedTransactions |-> t.signedTransactions[i]]
    PROVE  \E up : Joins(up, m, g, Units) /\ Joined(t) = up[m]
<1>1. PICK n, s : n = Len(t.nodes) /\ s = t.signedTransactions
  OBVIOUS
<1>2. /\ n \in Nat \ {0} /\ m \in Nat /\ g \in [1..m -> Seq(Units)] /\ DOMAIN s = 1..(m * n)
      /\ \A i \in DOMAIN s : s[i].content = g[((i - 1) \div n) + 1]
  BY <1>1 DEF Holds
<1>3. Len(s) \div n = m
  <2>1. PICK l : l = m * n
    OBVIOUS
  <2>2. s = [i \in 1..l |-> s[i]] /\ l \in Nat
    BY <1>1, <1>2, <2>1
  <2>3. Len(s) = l
    BY ONLY <2>2
  <2>4. (m * n) \div n = m
    BY <1>2
  <2>. QED
    BY <2>1, <2>3, <2>4
<1>4. Joined(t) = UpTo(t, m)[m]
  BY <1>1, <1>3 DEF Joined, UpTo
<1>5. \A c \in 1..m : s[(c - 1) * n + 1].content = g[c]
  <2> TAKE c \in 1..m
  <2>1. c - 1 \in Nat /\ c - 1 < m /\ 1 \in 1..n /\ (c - 1) + 1 = c
    BY <1>2
  <2>2. PICK d : d = c - 1
    OBVIOUS
  <2>3. d \in Nat /\ d < m /\ d + 1 = c
    BY <2>1, <2>2
  <2>4. PICK i : i = d * n + 1
    OBVIOUS
  <2>5. i \in DOMAIN s
    <3>1. d * n + 1 \in 1..(m * n)
      BY ONLY <1>2, <2>1, <2>3, PlaceWithin
    <3>. QED
      BY <1>2, <2>4, <3>1, Zenon
  <2>6. (i - 1) \div n = d
    <3>1. ((d * n + 1) - 1) \div n = d
      BY ONLY <1>2, <2>1, <2>3, PlaceIs
    <3>. QED
      BY <2>4, <3>1, Zenon
  <2>7. s[i].content = g[c]
    BY <1>2, <2>3, <2>5, <2>6
  <2>. QED
    BY <2>2, <2>4, <2>7
<1>6. PICK up : Joins(up, m, g, Units)
  BY <1>2, JoinsExist
<1>7. up = [c \in 0..m |-> IF c = 0 THEN <<>> ELSE up[c - 1] \o t.signedTransactions[(c - 1) * Len(t.nodes) + 1].content]
  <2>1. up \in [0..m -> Seq(Units)] /\ up[0] = <<>> /\ \A c \in 1..m : up[c] = up[c - 1] \o g[c]
    BY <1>6 DEF Joins
  <2>2. ASSUME NEW c \in 0..m PROVE up[c] = IF c = 0 THEN <<>> ELSE up[c - 1] \o s[(c - 1) * n + 1].content
    <3>1. c # 0 => c \in 1..m
      BY <1>2
    <3>. QED
      BY <1>5, <2>1, <3>1
  <2>. QED
    BY <1>1, <2>1, <2>2
<1>8. PICK vp : vp = UpTo(t, m)
  OBVIOUS
<1>9. vp = [c \in 0..m |-> IF c = 0 THEN <<>> ELSE vp[c - 1] \o t.signedTransactions[(c - 1) * Len(t.nodes) + 1].content]
  BY <1>7, <1>8, Zenon DEF UpTo
<1>10. JoinsTo(vp, m, g)
  <2>1. DOMAIN vp = 0..m /\ \A c \in 0..m : vp[c] = IF c = 0 THEN <<>> ELSE vp[c - 1] \o s[(c - 1) * n + 1].content
    BY <1>1, <1>9
  <2>2. 0 \in 0..m /\ \A c \in 1..m : c \in 0..m /\ c # 0
    BY <1>2
  <2>. QED
    BY <1>5, <2>1, <2>2 DEF JoinsTo
<1>11. vp[m] = up[m]
  <2>1. m \in Nat
    BY <1>2
  <2>. QED
    BY <1>6, <1>10, <2>1, JoinsOnce
<1>. QED
  BY <1>4, <1>6, <1>8, <1>11

(* toBytes builds every body; whoever has a signature on the first one counts as added when it is  *)
(* read back, and what had nobody's signature is read back unfrozen.                               *)
Written(u, saved, t, c) ==
    /\ StillFrozen(saved, t) /\ saved.signatories = t.signatories
    /\ Rebuilt(saved, t, c, DOMAIN t.signedTransactions) /\ 1 \in DOMAIN saved.signedTransactions
    /\ \A k \in Keys : u.signatories[k] = IF saved.signedTransactions[1].signatures[k] # <<>> THEN "added" ELSE "absent"

(* What is read back frozen has the bodies that were written, built as they stand.                 *)
ReadBack(u, saved, t, c) ==
    /\ t.frozen
    /\ u.signedTransactions = saved.signedTransactions /\ u.transactions = saved.signedTransactions
    /\ \A i \in DOMAIN u.signedTransactions :
          i <= GetNumberOfChunksRequired(u) * Len(u.nodes) => i <= GetNumberOfChunksRequired(t) * Len(t.nodes)

(* All that is known of what is read back.                                                         *)
RestoredFrom(u, t, c) ==
    /\ TransactionOK(u) /\ u.class = t.class /\ u.id = t.id /\ u.currentChunk = 0
    /\ \A k \in Keys : u.signatories[k] \in {"absent", "added"}
    /\ AllAuthentic(t) /\ OperatorStays(t, c) => AllAuthentic(u)
    /\ u.nodes = t.nodes /\ (OneChunk(t) => u.data = t.data)
    /\ u.frozen => ReadBack(u, Saved(t, c), t, c)
    /\ t.frozen => Written(u, Saved(t, c), t, c)

LEMMA ReloadIs ==
    ASSUME NEW t, TransactionOK(t), NEW c, c.private \in Keys \cup {None}, CanReload(t, c)
    PROVE  RestoredFrom(Reload(t, c), t, c)
<1>1. PICK u : u = Reload(t, c)
  OBVIOUS
<1>2. CASE t.nodes = <<>>
  <2>1. PICK data, no, absent : /\ data = (IF t.class = "topic" THEN <<>> ELSE t.data)
                                /\ no = FALSE /\ absent = [k \in Keys |-> "absent"]
    OBVIOUS
  <2>2. u = [class |-> t.class, frozen |-> no, id |-> t.id, nodes |-> <<>>, data |-> data,
             chunkSize |-> DefaultChunkSize, currentChunk |-> 0, signatories |-> absent,
             signedTransactions |-> <<>>, transactions |-> <<>>]
    <3>1. u = SourceBodyReloaded(t)
      BY <1>1, <1>2 DEF Reload
    <3>2. NewTransaction(t.class, data, DefaultChunkSize) =
             [class |-> t.class, frozen |-> no, id |-> None, nodes |-> <<>>, data |-> data,
              chunkSize |-> DefaultChunkSize, currentChunk |-> 0, signatories |-> absent,
              signedTransactions |-> <<>>, transactions |-> <<>>]
      BY <2>1, Zenon DEF NewTransaction
    <3>3. u = [NewTransaction(t.class, data, DefaultChunkSize) EXCEPT !.id = t.id]
      BY <2>1, <3>1, Zenon DEF SourceBodyReloaded
    <3>. QED
      BY <3>2, <3>3
  <2>3. /\ IsTransaction(u) /\ u.class = t.class /\ u.id = t.id /\ u.nodes = <<>> /\ u.currentChunk = 0
        /\ u.signatories = absent /\ u.frozen = no /\ u.data = data /\ u.chunkSize = DefaultChunkSize
    BY ONLY <2>2 DEF IsTransaction
  <2>4. u.frozen \in BOOLEAN /\ ~u.frozen
    BY <2>1, <2>3, Zenon
  <2>5. Signers(u) /\ \A k \in Keys : u.signatories[k] = "absent"
    BY <2>1, <2>3 DEF Signers
  <2>6. TransactionOK(u)
    <3>1. data \in Seq(Units)
      BY <2>1 DEF TransactionOK, DataOK
    <3>2. DataOK(u)
      BY <2>3, <3>1, TransactionAssumption DEF TransactionOK, DataOK
    <3>. QED
      BY <2>3, <2>4, <2>5, <3>2 DEF TransactionOK
  <2>7. AllAuthentic(u)
    BY <2>4 DEF AllAuthentic
  <2>8. RestoredFrom(u, t, c)
    <3>1. ~t.frozen
      <4>1. t.frozen => Len(t.nodes) # 0
        BY DEF TransactionOK, Made
      <4>. QED
        BY <1>2, <4>1
    <3>2. OneChunk(t) => u.data = t.data
      BY <1>2, <2>1, <2>3 DEF OneChunk
    <3>. QED
      BY <1>2, <2>3, <2>4, <2>5, <2>6, <2>7, <3>1, <3>2, Zenon DEF RestoredFrom
  <2>. QED
    BY <1>1, <2>8
<1>3. CASE t.nodes # <<>>
  <2>1. PICK saved, first, readers : saved = Saved(t, c) /\ first = saved.signedTransactions[1]
                                     /\ readers = SignersRead(saved)
    OBVIOUS
  <2>2. PICK data, frozen, no, absent, signatories :
           /\ data = (IF saved.class = "topic" THEN Joined(saved) ELSE first.content)
           /\ frozen = (readers # {}) /\ no = FALSE /\ absent = [k \in Keys |-> "absent"]
           /\ signatories = [k \in Keys |-> IF k \in readers THEN "added" ELSE "absent"]
    OBVIOUS
  <2>3. u = [class |-> saved.class, frozen |-> frozen, id |-> first.id, nodes |-> saved.nodes, data |-> data,
             chunkSize |-> DefaultChunkSize, currentChunk |-> 0, signatories |-> signatories,
             signedTransactions |-> saved.signedTransactions, transactions |-> saved.signedTransactions]
    <3>1. u = SignedTransactionsReloaded(saved)
      BY <1>1, <1>3, <2>1 DEF Reload
    <3>2. NewTransaction(saved.class, data, DefaultChunkSize) =
             [class |-> saved.class, frozen |-> no, id |-> None, nodes |-> <<>>, data |-> data,
              chunkSize |-> DefaultChunkSize, currentChunk |-> 0, signatories |-> absent,
              signedTransactions |-> <<>>, transactions |-> <<>>]
      BY <2>2, Zenon DEF NewTransaction
    <3>3. u = [NewTransaction(saved.class, data, DefaultChunkSize)
               EXCEPT !.id = first.id, !.nodes = saved.nodes, !.frozen = frozen, !.signatories = signatories,
                      !.signedTransactions = saved.signedTransactions,
                      !.transactions = saved.signedTransactions]
      BY <2>1, <2>2, <3>1, Zenon DEF SignedTransactionsReloaded
    <3>4. PICK v, new : /\ v = [NewTransaction(saved.class, data, DefaultChunkSize)
                                EXCEPT !.id = first.id, !.nodes = saved.nodes, !.frozen = frozen]
                        /\ new = NewTransaction(saved.class, data, DefaultChunkSize)
      OBVIOUS
    <3>5. v = [class |-> saved.class, frozen |-> frozen, id |-> first.id, nodes |-> saved.nodes, data |-> data,
               chunkSize |-> DefaultChunkSize, currentChunk |-> 0, signatories |-> absent,
               signedTransactions |-> <<>>, transactions |-> <<>>]
      <4>1. PICK class, id, nodes, none, empty : class = saved.class /\ id = first.id /\ nodes = saved.nodes
                                                 /\ none = None /\ empty = <<>>
        OBVIOUS
      <4>2. v = [new EXCEPT !.id = id, !.nodes = nodes, !.frozen = frozen]
        BY <3>4, <4>1, Zenon
      <4>3. new = [class |-> class, frozen |-> no, id |-> none, nodes |-> empty, data |-> data,
                   chunkSize |-> DefaultChunkSize, currentChunk |-> 0, signatories |-> absent,
                   signedTransactions |-> empty, transactions |-> empty]
        BY <3>2, <3>4, <4>1, Zenon
      <4>4. v = [class |-> class, frozen |-> frozen, id |-> id, nodes |-> nodes, data |-> data,
                 chunkSize |-> DefaultChunkSize, currentChunk |-> 0, signatories |-> absent,
                 signedTransactions |-> empty, transactions |-> empty]
        BY ONLY <4>2, <4>3
      <4>. QED
        BY <4>1, <4>4, Zenon
    <3>6. u = [v EXCEPT !.signatories = signatories, !.signedTransactions = saved.signedTransactions,
                        !.transactions = saved.signedTransactions]
      BY <3>3, <3>4, Zenon
    <3>. QED
      BY ONLY <3>5, <3>6
  <2>4. /\ IsTransaction(u) /\ u.class = saved.class /\ u.id = first.id /\ u.nodes = saved.nodes
        /\ u.currentChunk = 0 /\ u.signatories = signatories /\ u.frozen = frozen
        /\ u.signedTransactions = saved.signedTransactions /\ u.transactions = saved.signedTransactions
        /\ u.data = data /\ u.chunkSize = DefaultChunkSize
    BY ONLY <2>3 DEF IsTransaction
  <2>5. u.frozen \in BOOLEAN /\ (~u.frozen => readers = {})
    BY <2>2, <2>4, Zenon
  <2>6. Signers(u) /\ \A k \in Keys : u.signatories[k] \in {"absent", "added"}
    BY <2>2, <2>4, <2>5 DEF Signers
  <2>7. 1 \in DOMAIN saved.signedTransactions
    BY <1>3, <2>1 DEF CanReload
  <2>8. SavedFrom(saved, t, c)
    BY <1>3, <2>1, SavedIs
  <2>9. saved.class = t.class /\ saved.nodes = t.nodes
    BY <2>8 DEF SavedFrom
  <2>10. Len(t.nodes) \in Nat \ {0}
    BY <1>3 DEF TransactionOK
  <2>11. ChunkAt(t, 1) = 0
    <3>1. PICK n \in Nat \ {0} : n = Len(t.nodes)
      BY <2>10
    <3>2. (1 - 1) \div n = 0
      OBVIOUS
    <3>. QED
      BY <3>1, <3>2 DEF ChunkAt
  <2>12. PICK m, g : /\ Holds(saved, m, g)
                     /\ t.frozen => CutAnew(saved, m, g) \/ ReadFrom(saved, m, g)
                     /\ ~t.frozen => HoldsCuts(saved, t, m, g)
    BY <2>8, Zenon DEF SavedFrom, HoldsCuts
  <2>13. Holds(u, m, g) /\ m # 0 /\ first.content = g[1] /\ g[1] \in Seq(Units)
    <3>1. Holds(u, m, g)
      BY <2>4, <2>12 DEF Holds
    <3>2. m \in Nat /\ g \in [1..m -> Seq(Units)] /\ DOMAIN saved.signedTransactions = 1..(m * Len(saved.nodes))
          /\ \A i \in DOMAIN saved.signedTransactions :
                 saved.signedTransactions[i].content = g[((i - 1) \div Len(saved.nodes)) + 1]
      BY <2>12 DEF Holds
    <3>3. PICK n \in Nat \ {0} : n = Len(saved.nodes)
      BY <2>9, <2>10
    <3>4. m # 0
      <4>1. 0 * n = 0
        OBVIOUS
      <4>. QED
        BY <2>7, <3>2, <3>3, <4>1
    <3>5. (1 - 1) \div n = 0
      OBVIOUS
    <3>6. first.content = g[1]
      <4>1. saved.signedTransactions[1].content = g[((1 - 1) \div Len(saved.nodes)) + 1]
        BY <2>7, <3>2
      <4>2. ((1 - 1) \div Len(saved.nodes)) + 1 = 1
        <5>1. (1 - 1) \div n = 0 /\ Len(saved.nodes) = n
          BY <3>3, <3>5
        <5>. QED
          BY <5>1
      <4>. QED
        BY <2>1, <4>1, <4>2
    <3>. QED
      BY <3>1, <3>2, <3>4, <3>6
  <2>14. PICK up : Joins(up, m, g, Units) /\ Joined(saved) = up[m]
    <3>1. saved.signedTransactions = [i \in DOMAIN saved.signedTransactions |-> saved.signedTransactions[i]]
      BY <2>8, Zenon DEF SavedFrom
    <3>2. Len(saved.nodes) \in Nat \ {0}
      BY <2>9, <2>10
    <3>. QED
      BY <2>12, <3>1, <3>2, JoinedIs
  <2>15. DataOK(u)
    <3>1. Joined(saved) \in Seq(Units)
      BY <2>13, <2>14 DEF Joins, Holds
    <3>. QED
      BY <2>2, <2>4, <2>9, <2>13, <3>1, TransactionAssumption DEF TransactionOK, DataOK
  <2>16. u.class # "plain" => ReadFrom(u, m, g)
    BY <2>2, <2>4, <2>13, <2>14 DEF ReadFrom
  <2>17. t.frozen => \A i \in DOMAIN u.signedTransactions :
              i <= GetNumberOfChunksRequired(u) * Len(u.nodes) => i <= GetNumberOfChunksRequired(t) * Len(t.nodes)
    <3>1. GetNumberOfChunksRequired(saved) = GetNumberOfChunksRequired(t)
      BY <2>8, WorkLeft DEF SavedFrom
    <3>2. CASE CutAnew(saved, m, g)
      <4>1. m = GetNumberOfChunksRequired(t) /\ DOMAIN u.signedTransactions = 1..(m * Len(t.nodes))
        BY <2>4, <2>9, <2>12, <3>1, <3>2 DEF CutAnew, Holds
      <4>2. PICK p : p = m * Len(t.nodes)
        OBVIOUS
      <4>. QED
        BY <4>1, <4>2
    <3>3. CASE ReadFrom(saved, m, g)
      <4>1. u.data = saved.data
        <5>1. CASE saved.class = "topic"
          <6>1. PICK vp : Joins(vp, m, g, Units) /\ saved.data = vp[m]
            BY <3>3, <5>1 DEF ReadFrom
          <6>2. JoinsTo(vp, m, g) /\ m \in Nat
            BY <2>12, <6>1 DEF Joins, JoinsTo, Holds
          <6>3. vp[m] = up[m]
            BY <2>14, <6>2, JoinsOnce
          <6>. QED
            BY <2>2, <2>4, <2>14, <5>1, <6>1, <6>3
        <5>2. CASE saved.class # "topic"
          BY <2>2, <2>4, <2>13, <3>3, <5>2 DEF ReadFrom
        <5>. QED
          BY <5>1, <5>2
      <4>2. u.class = saved.class /\ u.chunkSize = saved.chunkSize
        BY <2>4, <3>3 DEF ReadFrom
      <4>3. GetNumberOfChunksRequired(u) = GetNumberOfChunksRequired(saved)
        BY ONLY <4>1, <4>2 DEF GetNumberOfChunksRequired
      <4>. QED
        BY <2>4, <2>9, <3>1, <4>3
    <3>. QED
      BY <2>12, <3>2, <3>3
  <2>18. ASSUME OneChunk(t) PROVE u.data = t.data
    <3>1. SameWork(saved, t)
      BY <2>8 DEF SavedFrom
    <3>2. GetNumberOfChunksRequired(saved) = GetNumberOfChunksRequired(t) /\ CutOf(saved, 0) = CutOf(t, 0)
      BY <3>1, Zenon DEF SameWork, GetNumberOfChunksRequired, CutOf, GetDataForChunk
    <3>3. GetNumberOfChunksRequired(t) \in Nat /\ GetNumberOfChunksRequired(t) <= 1
      <4>1. DataOK(t)
        BY DEF TransactionOK
      <4>2. t.class = "plain" => GetNumberOfChunksRequired(t) = 1
        BY <4>1, CutOfIs
      <4>3. t.class # "plain" => GetNumberOfChunksRequired(t) <= 1
        <5>1. Len(t.data) \in Nat /\ t.chunkSize \in Nat \ {0}
          BY <4>1 DEF DataOK
        <5>. QED
          BY <2>18, <4>1, <5>1, CutOfIs, PartsAre DEF OneChunk
      <4>. QED
        BY <4>1, <4>2, <4>3, CutOfIs
    <3>4. CutOf(t, 0) = t.data
      <4>1. CASE t.class = "plain"
        BY <4>1 DEF CutOf
      <4>2. CASE t.class # "plain"
        <5>1. PICK data0, size : data0 = t.data /\ size = t.chunkSize
          OBVIOUS
        <5>2. data0 \in Seq(Units) /\ size \in Nat \ {0} /\ Len(data0) <= size
          BY <2>18, <4>2, <5>1 DEF OneChunk, TransactionOK, DataOK
        <5>3. CutOf(t, 0) = Cut(data0, size, 0)
          BY <4>2, <5>1, CutOfIs DEF TransactionOK, CutOf
        <5>4. Cut(data0, size, 0) = data0
          BY <5>2, WholeCut
        <5>. QED
          BY <5>1, <5>3, <5>4
      <4>. QED
        BY <4>1, <4>2
    <3>5. CutAnew(saved, m, g) => m = 1 /\ g[1] = t.data
      <4>1. CutAnew(saved, m, g) => m = 1
        BY <2>13, <3>2, <3>3 DEF CutAnew
      <4>. QED
        BY <3>2, <3>4, <4>1 DEF CutAnew
    <3>6. m = 1 /\ g[1] = t.data
      <4>1. CASE ~t.frozen
        BY <2>12, <3>5, <4>1 DEF HoldsCuts, TransactionOK
      <4>2. CASE t.frozen /\ ReadFrom(saved, m, g)
        <5>1. t.class # "plain" /\ saved.class = t.class /\ saved.data = t.data
          BY <2>9, <3>1, <4>2 DEF ReadFrom, SameWork
        <5>2. DOMAIN saved.signedTransactions = 1..(m * Len(t.nodes)) /\ m \in Nat
          BY <2>9, <2>12 DEF Holds
        <5>3. DOMAIN t.signedTransactions = DOMAIN saved.signedTransactions
          BY <2>8, <4>2 DEF SavedFrom, Rebuilt
        <5>4. Len(t.signedTransactions) = m * Len(t.nodes)
          <6>1. PICK s, p : s = t.signedTransactions /\ p = m * Len(t.nodes)
            OBVIOUS
          <6>2. p \in Nat
            BY <2>10, <5>2, <6>1
          <6>3. s = [i \in 1..p |-> s[i]]
            BY <4>2, <5>2, <5>3, <6>1 DEF TransactionOK, Made, Bodies
          <6>4. Len(s) = p
            BY ONLY <6>2, <6>3
          <6>. QED
            BY <6>1, <6>4
        <5>5. m * Len(t.nodes) = GetNumberOfChunksRequired(t) * Len(t.nodes)
          BY <2>18, <5>1, <5>4 DEF OneChunk, Whole
        <5>6. m = GetNumberOfChunksRequired(t)
          BY <2>10, <3>3, <5>2, <5>5, SameProduct
        <5>7. m = 1
          BY <2>13, <3>3, <5>6
        <5>8. g[1] = t.data
          <6>1. CASE saved.class = "topic"
            <7>1. PICK vp : Joins(vp, m, g, Units) /\ saved.data = vp[m]
              BY <4>2, <6>1 DEF ReadFrom
            <7>2. vp[1] = vp[0] \o g[1] /\ vp[0] = << >>
              <8>1. 1 \in 1..m /\ 1 - 1 = 0
                BY <5>7
              <8>. QED
                BY <7>1, <8>1 DEF Joins
            <7>3. vp[1] = g[1]
              BY <2>13, <7>2
            <7>. QED
              BY <5>1, <5>7, <7>1, <7>3
          <6>2. CASE saved.class # "topic"
            BY <4>2, <5>1, <6>2 DEF ReadFrom
          <6>. QED
            BY <6>1, <6>2
        <5>. QED
          BY <5>7, <5>8
      <4>. QED
        BY <2>12, <3>5, <4>1, <4>2
    <3>7. CASE saved.class = "topic"
      <4>1. up[1] = up[0] \o g[1] /\ up[0] = << >>
        <5>1. 1 \in 1..m /\ 1 - 1 = 0
          BY <3>6
        <5>. QED
          BY <2>14, <5>1 DEF Joins
      <4>2. up[1] = g[1]
        BY <2>13, <4>1
      <4>. QED
        BY <2>2, <2>4, <2>14, <3>6, <3>7, <4>2
    <3>8. CASE saved.class # "topic"
      BY <2>2, <2>4, <2>13, <3>6, <3>8
    <3>. QED
      BY <3>7, <3>8
  <2>19. CASE t.frozen
    <3>1. StillFrozen(saved, t) /\ (AllAuthentic(t) /\ OperatorStays(t, c) => AllAuthentic(saved))
      BY <2>8, <2>19 DEF SavedFrom
    <3>2. Made(saved) /\ saved.id = t.id /\ saved.frozen
      BY <3>1 DEF StillFrozen, SameTransaction, TransactionOK
    <3>3. first.id = t.id
      <4>1. BodyFor(first, saved, 1) /\ GoodId(t.id)
        BY <2>1, <2>7, <3>2 DEF Made, Bodies
      <4>2. ChunkAt(saved, 1) = 0
        BY <2>9, <2>11 DEF ChunkAt
      <4>3. first.id = Tick(t.id, 0)
        BY <3>2, <4>1, <4>2 DEF BodyFor
      <4>. QED
        BY <4>1, <4>3, TickIs
    <3>4. Bodies(u)
      BY <2>4, <2>9, <3>2, <3>3 DEF Made, Bodies, BodyFor, ChunkAt
    <3>5. ASSUME u.class = "plain" PROVE CutAnew(u, m, g)
      <4>1. PICK l, h : Holds(saved, l, h) /\ CutAnew(saved, l, h)
        BY <2>4, <3>2, <3>5 DEF Made, Contents, ReadFrom
      <4>2. GetNumberOfChunksRequired(saved) = 1 /\ GetNumberOfChunksRequired(u) = 1
        BY <2>4, <3>5 DEF GetNumberOfChunksRequired
      <4>3. PICK n \in Nat \ {0} : n = Len(saved.nodes)
        BY <2>9, <2>10
      <4>4. m = 1
        <5>1. l = 1 /\ DOMAIN saved.signedTransactions = 1..(l * n)
          BY <4>1, <4>2, <4>3 DEF CutAnew, Holds
        <5>2. DOMAIN saved.signedTransactions = 1..(m * n) /\ m \in Nat
          BY <2>12, <4>3 DEF Holds
        <5>3. 1 * n = n
          OBVIOUS
        <5>4. m * n = n
          <6>1. PICK p : p = m * n
            OBVIOUS
          <6>2. p \in Nat /\ 1..p = 1..n
            BY <5>1, <5>2, <5>3, <6>1
          <6>3. p = n
            BY <6>2
          <6>. QED
            BY <6>1, <6>3
        <5>. QED
          BY ONLY <5>2, <5>3, <5>4, SameProduct
      <4>5. CutOf(u, 0) = g[1]
        BY <2>2, <2>4, <2>13, <3>5 DEF CutOf
      <4>. QED
        BY <4>2, <4>4, <4>5 DEF CutAnew
    <3>6. Made(u)
      <4>1. Contents(u)
        BY <2>13, <2>16, <3>5 DEF Contents
      <4>2. GoodId(u.id) /\ Len(u.nodes) \in Nat \ {0}
        BY <2>4, <2>9, <2>10, <3>2, <3>3 DEF Made
      <4>. QED
        BY <3>4, <4>1, <4>2 DEF Made
    <3>7. AllAuthentic(t) /\ OperatorStays(t, c) => AllAuthentic(u)
      BY <2>4, <3>1, <3>2 DEF AllAuthentic
    <3>8. GoodId(u.id) /\ Len(u.nodes) \in Nat \ {0}
      BY <3>6 DEF Made
    <3>9. TransactionOK(u)
      BY <2>4, <2>5, <2>6, <2>15, <3>6, <3>8 DEF TransactionOK
    <3>10. Written(u, saved, t, c)
      <4>1. \A k \in Keys : u.signatories[k] = IF saved.signedTransactions[1].signatures[k] # <<>> THEN "added" ELSE "absent"
        <5>1. u.signatories = [k \in Keys |-> IF k \in readers THEN "added" ELSE "absent"]
          BY ONLY <2>2, <2>4
        <5>2. \A k \in Keys : k \in readers <=> saved.signedTransactions[1].signatures[k] # <<>>
          BY ONLY <2>1, Zenon DEF SignersRead
        <5>. QED
          BY ONLY <5>1, <5>2
      <4>. QED
        BY <2>7, <2>8, <2>19, <4>1, Zenon DEF Written, SavedFrom
    <3>11. ReadBack(u, saved, t, c)
      BY <2>4, <2>17, <2>19 DEF ReadBack
    <3>12. RestoredFrom(u, t, c)
      <4>1. u.class = t.class /\ u.nodes = t.nodes /\ u.id = t.id /\ u.currentChunk = 0
        BY <2>4, <2>9, <3>3
      <4>. QED
        BY <2>1, <2>6, <2>18, <3>7, <3>9, <3>10, <3>11, <4>1, Zenon DEF RestoredFrom
    <3>. QED
      BY <1>1, <3>12
  <2>20. CASE ~t.frozen
    <3>1. /\ \A k \in Keys : first.signatures[k] = <<>>
          /\ t.id = None => first.id = None
          /\ GoodId(t.id) => BodyFor(first, t, 1)
      BY <2>1, <2>7, <2>8, <2>20 DEF SavedFrom
    <3>2. readers = {}
      BY <2>1, <3>1 DEF SignersRead
    <3>3. ~u.frozen
      BY <2>2, <2>4, <3>2, Zenon
    <3>4. first.id = t.id
      <4>1. GoodId(t.id) => first.id = Tick(t.id, 0)
        BY <2>11, <3>1 DEF BodyFor
      <4>2. GoodId(t.id) => Tick(t.id, 0) = t.id
        BY TickIs
      <4>. QED
        BY <3>1, <4>1, <4>2 DEF TransactionOK
    <3>5. TransactionOK(u)
      BY <2>4, <2>5, <2>6, <2>9, <2>10, <2>15, <3>3, <3>4 DEF TransactionOK
    <3>6. AllAuthentic(u)
      BY <3>3 DEF AllAuthentic
    <3>7. RestoredFrom(u, t, c)
      <4>1. u.class = t.class /\ u.nodes = t.nodes /\ u.id = t.id /\ u.currentChunk = 0
        BY <2>4, <2>9, <3>4
      <4>. QED
        BY <2>6, <2>18, <2>20, <3>3, <3>5, <3>6, <4>1, Zenon DEF RestoredFrom
    <3>. QED
      BY <1>1, <3>7
  <2>. QED
    BY <2>19, <2>20
<1>. QED
  BY <1>2, <1>3

(* What is read from bytes has the signatures of its first body for those added to it, and every   *)
(* key that made one has made one on all that are sent.  Where nothing was made anew they are all  *)
(* who signed.                                                                                     *)
LEMMA ReloadOwes ==
    ASSUME NEW t, TransactionOK(t), NEW c, c.private \in Keys \cup {None}, NEW may, InFull(t, may),
           NEW u, RestoredFrom(u, t, c)
    PROVE  InFull(u, may) /\ (t.frozen /\ ~may => Signatories(u) = Signatories(t))
<1>1. CASE ~t.frozen
  <2>1. ~u.frozen
    BY <1>1 DEF RestoredFrom, ReadBack
  <2>2. Signatories(u) = {}
    BY <2>1 DEF RestoredFrom, TransactionOK, Signers, Signatories
  <2>. QED
    BY <1>1, <2>1, <2>2, FS_EmptySet DEF InFull
<1>2. CASE t.frozen
  <2>1. PICK saved : saved = Saved(t, c)
    OBVIOUS
  <2>2. Written(u, saved, t, c) /\ (u.frozen => ReadBack(u, saved, t, c))
    BY <1>2, <2>1 DEF RestoredFrom
  <2>3. /\ StillFrozen(saved, t) /\ saved.signatories = t.signatories
        /\ Rebuilt(saved, t, c, DOMAIN t.signedTransactions) /\ 1 \in DOMAIN saved.signedTransactions
        /\ \A k \in Keys : u.signatories[k] = IF saved.signedTransactions[1].signatures[k] # << >> THEN "added" ELSE "absent"
    BY <2>2, Zenon DEF Written
  <2>4. InFull(saved, may) /\ TransactionOK(saved) /\ saved.frozen /\ u.nodes = saved.nodes
        /\ GetNumberOfChunksRequired(saved) = GetNumberOfChunksRequired(t)
    BY <1>2, <2>3, BuildOwes, WorkLeft DEF StillFrozen, SameTransaction, RestoredFrom
  <2>5. \A i \in DOMAIN saved.signedTransactions : saved.transactions[i] # NotBuilt
    <3> TAKE i \in DOMAIN saved.signedTransactions
    <3>1. DOMAIN saved.signedTransactions = DOMAIN t.signedTransactions
      BY <2>3 DEF Rebuilt
    <3>2. saved.transactions[i] = saved.signedTransactions[i]
      BY <2>3, <3>1, Zenon DEF Rebuilt
    <3>. QED
      BY <2>4, <3>2, BodyIsBuilt
  <2>6. \A i \in DOMAIN saved.signedTransactions, k \in Keys : Signs(saved, may, i, k)
    BY <2>4 DEF InFull
  <2>7. ASSUME NEW k \in Keys
        PROVE  /\ Private(saved, k) => saved.signedTransactions[1].signatures[k] # << >>
               /\ saved.signatories[k] = "absent" => saved.signedTransactions[1].signatures[k] = << >>
               /\ saved.signatories[k] = "added" /\ ~may => saved.signedTransactions[1].signatures[k] # << >>
    BY <2>3, <2>5, <2>6 DEF Signs
  <2>8. Signatories(u) = {k \in Keys : saved.signedTransactions[1].signatures[k] # << >>}
    BY <2>3 DEF Signatories
  <2>9. Signatories(u) \in SUBSET Signatories(t)
    BY <2>3, <2>7, <2>8 DEF Signatories
  <2>10. IsFiniteSet(Signatories(u))
    BY <2>9, FS_Subset DEF InFull
  <2>11. ~may => Signatories(u) = Signatories(t)
    BY <2>3, <2>7, <2>8 DEF Signatories, Private
  <2>12. ASSUME u.frozen, NEW i \in DOMAIN u.signedTransactions, NEW k \in Keys PROVE Signs(u, may, i, k)
    <3>1. u.signedTransactions = saved.signedTransactions
          /\ (i <= GetNumberOfChunksRequired(u) * Len(u.nodes) => i <= GetNumberOfChunksRequired(saved) * Len(saved.nodes))
      BY <2>2, <2>3, <2>4, <2>12 DEF ReadBack, StillFrozen, SameTransaction
    <3>2. Given(u) = Given(saved)
      BY <2>3, <2>7, <3>1 DEF Given, Private
    <3>3. Signs(saved, may, i, k) /\ saved.transactions[i] # NotBuilt
      BY <2>5, <2>6, <3>1
    <3>4. u.signatories[k] \in {"absent", "added"} /\ ~Private(u, k)
      BY <2>3 DEF Private
    <3>5. u.signatories[k] = "absent" => u.signedTransactions[i].signatures[k] = << >>
      BY <2>3, <2>7, <3>1, <3>3 DEF Signs, Private
    <3>6. u.signatories[k] = "added" => u.signedTransactions[1].signatures[k] # << >>
      BY <2>3, <3>1
    <3>7. u.signatories[k] = "added" /\ ~may /\ (i = 1 \/ i <= GetNumberOfChunksRequired(u) * Len(u.nodes)) =>
              u.signedTransactions[i].signatures[k] # << >>
      <4>1. u.signatories[k] = "added" => saved.signatories[k] # "absent"
        BY <2>7, <3>1, <3>6
      <4>. QED
        BY <3>1, <3>3, <4>1 DEF Signs, Private
    <3>8. Len(u.signedTransactions[i].signatures[k]) <= Cardinality(Given(u))
      BY <3>1, <3>2, <3>3 DEF Signs
    <3>. QED
      BY <3>4, <3>5, <3>6, <3>7, <3>8 DEF Signs
  <2>. QED
    BY <2>10, <2>11, <2>12 DEF InFull
<1>. QED
  BY <1>1, <1>2

-----------------------------------------------------------------------------
(* The state.  The operator of the client has a public key of its own if and only if it has a      *)
(* signing function, and without them the private key of its account, if it has one.               *)
ClientOK(c) ==
    /\ c = [account |-> c.account, private |-> c.private, public |-> c.public, signer |-> c.signer]
    /\ c.account \in Keys \cup {None} /\ c.private \in Keys \cup {None} /\ c.public \in Keys \cup {None}
    /\ c.signer = c.public
    /\ c.public = None => c.private = c.account

(* What was sent is one of the bodies of what is executed, that of the chunk the loop has come to, *)
(* and the receipt asked for is that chunk's.                                                      *)
Aim ==
    /\ phase = "waiting" => /\ request.nodeIndex \in Nat
                            /\ \E i \in Nat \ {0} : BodyFor(request.sent, tx, i)
    /\ phase = "waiting" /\ ~pastNodes =>
          request.sent.chunk = tx.currentChunk /\ request.nodeIndex <= Len(tx.nodes)
    /\ phase = "receipt" => response = Tick(tx.id, tx.currentChunk)
    /\ phase # "idle" => tx.currentChunk < GetNumberOfChunksRequired(tx)
    /\ RightRequest

ObjectInv ==
    /\ TransactionOK(tx) /\ ClientOK(client)
    /\ generated \in Nat /\ regenerated \in Nat
    /\ tx.id # None => tx.id.gen \in 1..generated
    /\ phase \in {"attempting", "waiting", "receipt"} => tx.frozen
    /\ tx.currentChunk > 0 => tx.frozen
    /\ Aim

(* What goes on with the chunks it has: nothing is set any more.                                   *)
GoesOn(u, t) == t.frozen /\ u.frozen /\ u.id = t.id /\ SameContents(u, t)
LEMMA StillGoesOn ==
    ASSUME NEW u, NEW t, t.frozen, StillFrozen(u, t)
    PROVE  GoesOn(u, t)
BY DEF StillFrozen, SameTransaction, GoesOn

(* As long as no operator was replaced that has yet to sign.                                       *)
SignedByNamed ==
    ~replaced => /\ OperatorStays(tx, client) /\ AllAuthentic(tx)
                 /\ phase = "waiting" => Authentic(request.sent)

(* Every body carries the signatures that are owed, also the one that was sent, and the operator   *)
(* that pays has signed up before anything is sent, unless its public key is that of another.  What *)
(* was added and not signed is only lost where the bodies were made anew, or past the nodes.       *)
SignedInFull ==
    /\ InFull(tx, regenerated > 0)
    /\ (/\ phase \in {"attempting", "waiting"}
        /\ client.account = tx.id.account /\ client.public \in {None, client.account}) =>
          tx.signatories[client.account] # "absent"
    /\ phase = "waiting" => \A k \in Keys :
          /\ Len(request.sent.signatures[k]) <= Cardinality(Given(tx))
          /\ tx.signatories[k] # "absent" =>
                \/ request.sent.signatures[k] # <<>>
                \/ /\ tx.signatories[k] = "added"
                   /\ regenerated > 0 \/ request.nodeIndex > Len(tx.nodes)

(* What the network holds: every ID once, and for every time an ID was generated at one account.   *)
IsLog(s) == Len(s) \in Nat /\ s = [i \in 1..Len(s) |-> s[i]]
Live == pool \cup {ledger[i] : i \in DOMAIN ledger}
Effects ==
    /\ IsLog(ledger)
    /\ \A e \in Live :
          /\ e.id \in Ids /\ e.id.tick = e.chunk /\ e.id.gen \in 1..generated
          /\ tx.id # None /\ tx.id.gen = e.id.gen => tx.id.account = e.id.account
    /\ \A e, f \in Live : e.id.gen = f.id.gen => e.id.account = f.id.account
    /\ \A i, j \in DOMAIN ledger : ledger[i].id = ledger[j].id => i = j
    /\ \A e \in pool : /\ \A f \in pool : e.id = f.id => e = f
                       /\ \A i \in DOMAIN ledger : ledger[i].id # e.id
    /\ ~regenerate => regenerated = 0

(* For a file: the chunk before the one being sent, and before any that was sent, took effect.     *)
After(chunk) == chunk > 0 => \E j \in DOMAIN ledger : ledger[j].chunk = chunk - 1
Order ==
    (tx.class = "file" /\ ~pastNodes) =>
        /\ After(tx.currentChunk)
        /\ \A e \in pool : After(e.chunk)
        /\ FileInOrder

-----------------------------------------------------------------------------
(* The calls of the application.  A setter changes an unfrozen transaction, of which nothing is    *)
(* signed.                                                                                         *)
SetFrom(u, t) ==
    u = [t EXCEPT !.id = u.id] \/ u = [t EXCEPT !.nodes = u.nodes] \/ u = [t EXCEPT !.data = u.data]
LEMMA SetIs ==
    ASSUME NEW t, TransactionOK(t), ~t.frozen, NEW u, SetFrom(u, t), u.data \in Seq(Units),
           u.id = None \/ GoodId(u.id), u.nodes = <<>> \/ Len(u.nodes) \in Nat \ {0}
    PROVE  /\ TransactionOK(u) /\ AllAuthentic(u) /\ u.class = t.class
           /\ u.currentChunk = t.currentChunk /\ u.signatories = t.signatories
           /\ \A may : InFull(t, may) => InFull(u, may)
<1>1. PICK frozen : frozen = t.frozen
  OBVIOUS
<1>2. t = [class |-> t.class, frozen |-> frozen, id |-> t.id, nodes |-> t.nodes, data |-> t.data,
           chunkSize |-> t.chunkSize, currentChunk |-> t.currentChunk, signatories |-> t.signatories,
           signedTransactions |-> t.signedTransactions, transactions |-> t.transactions]
  BY <1>1, Zenon DEF TransactionOK, IsTransaction
<1>3. PICK id, nodes, data :
         u = [class |-> t.class, frozen |-> frozen, id |-> id, nodes |-> nodes, data |-> data,
              chunkSize |-> t.chunkSize, currentChunk |-> t.currentChunk, signatories |-> t.signatories,
              signedTransactions |-> t.signedTransactions, transactions |-> t.transactions]
  <2>1. CASE u = [t EXCEPT !.id = u.id]
    BY <1>2, <2>1
  <2>2. CASE u = [t EXCEPT !.nodes = u.nodes]
    BY <1>2, <2>2
  <2>3. CASE u = [t EXCEPT !.data = u.data]
    BY <1>2, <2>3
  <2>. QED
    BY <2>1, <2>2, <2>3 DEF SetFrom
<1>4. /\ IsTransaction(u) /\ u.class = t.class /\ u.frozen = frozen /\ u.chunkSize = t.chunkSize
      /\ u.currentChunk = t.currentChunk /\ u.signatories = t.signatories
  BY ONLY <1>3 DEF IsTransaction
<1>5. ~u.frozen /\ u.frozen \in BOOLEAN
  BY <1>1, <1>4, Zenon DEF TransactionOK
<1>6. Signers(u)
  BY <1>4 DEF TransactionOK, Signers
<1>7. TransactionOK(u) /\ AllAuthentic(u)
  <2>1. DataOK(u)
    BY <1>4 DEF TransactionOK, DataOK
  <2>. QED
    BY <1>4, <1>5, <1>6, <2>1 DEF TransactionOK, AllAuthentic
<1>8. \A may : InFull(t, may) => InFull(u, may)
  BY <1>4, <1>5 DEF InFull, Signatories
<1>. QED
  BY <1>4, <1>7, <1>8

(* What may be set as data is a sequence.                                                          *)
LEMMA DataIs ==
    ASSUME NEW d \in Data
    PROVE  d \in Seq(Units)
<1>1. PICK own : own = {d[i] : i \in DOMAIN d}
  OBVIOUS
<1>2. d \in Seq(own)
  BY <1>1, ExecutionAssumption
<1>3. own \subseteq Units
  BY <1>1 DEF Units
<1>. QED
  BY ONLY <1>2, <1>3

(* The loop over the chunks only sets mCurrentChunk.                                               *)
LEMMA AtChunkIs ==
    ASSUME NEW t, TransactionOK(t), NEW n \in Nat, t.class = "plain" => n = 0,
           NEW u, u = [t EXCEPT !.currentChunk = n]
    PROVE  /\ TransactionOK(u) /\ u.currentChunk = n /\ u.id = t.id /\ u.class = t.class
           /\ u.data = t.data /\ u.chunkSize = t.chunkSize /\ u.nodes = t.nodes
           /\ u.signedTransactions = t.signedTransactions /\ u.transactions = t.transactions
           /\ u.signatories = t.signatories
           /\ u.frozen = t.frozen
           /\ GetNumberOfChunksRequired(u) = GetNumberOfChunksRequired(t)
           /\ AllAuthentic(t) => AllAuthentic(u)
<1>1. u = [class |-> t.class, frozen |-> t.frozen, id |-> t.id, nodes |-> t.nodes, data |-> t.data,
           chunkSize |-> t.chunkSize, currentChunk |-> n, signatories |-> t.signatories,
           signedTransactions |-> t.signedTransactions, transactions |-> t.transactions]
  BY DEF TransactionOK, IsTransaction
<1>2. /\ IsTransaction(u) /\ u.class = t.class /\ u.id = t.id /\ u.nodes = t.nodes
      /\ u.currentChunk = n /\ u.signatories = t.signatories
      /\ u.data = t.data /\ u.chunkSize = t.chunkSize
      /\ u.signedTransactions = t.signedTransactions /\ u.transactions = t.transactions
  BY ONLY <1>1 DEF IsTransaction
<1>3. u.frozen = t.frozen
  BY ONLY <1>1
<1>4. u.frozen \in BOOLEAN
  BY <1>3 DEF TransactionOK
<1>5. Signers(u)
  BY <1>2, <1>3 DEF TransactionOK, Signers
<1>6. u.frozen => Made(u)
  <2>1. u.frozen => Bodies(u)
    BY <1>2, <1>3 DEF TransactionOK, Made, Bodies, BodyFor, ChunkAt
  <2>2. SameContents(u, t)
    BY <1>2 DEF SameContents
  <2>. QED
    BY <1>2, <1>3, <2>1, <2>2, ContentsKept DEF TransactionOK, Made
<1>7. TransactionOK(u)
  <2>1. DataOK(u)
    BY <1>2 DEF TransactionOK, DataOK
  <2>. QED
    BY <1>2, <1>4, <1>5, <1>6, <2>1 DEF TransactionOK
<1>8. AllAuthentic(t) => AllAuthentic(u)
  BY <1>2, <1>3 DEF AllAuthentic
<1>9. GetNumberOfChunksRequired(u) = GetNumberOfChunksRequired(t)
  <2>1. u.class = t.class /\ u.data = t.data /\ u.chunkSize = t.chunkSize
    BY <1>2
  <2>. QED
    BY ONLY <2>1 DEF GetNumberOfChunksRequired
<1>10. TransactionOK(u) /\ u.currentChunk = n /\ u.id = t.id /\ u.class = t.class
  BY <1>2, <1>7
<1>11. /\ u.data = t.data /\ u.chunkSize = t.chunkSize /\ u.nodes = t.nodes
       /\ u.signedTransactions = t.signedTransactions /\ u.transactions = t.transactions
       /\ u.signatories = t.signatories
  BY <1>2
<1>. QED
  BY <1>3, <1>8, <1>9, <1>10, <1>11, Zenon

(* The operator signs with the key its signer has when it is called.                               *)
LEMMA OperatorSigns ==
    ASSUME NEW t, TransactionOK(t), t.frozen, ClientOK(client), client.account # None
    PROVE  /\ StillFrozen(SignedByOperator(t), t)
           /\ AllAuthentic(t) => AllAuthentic(SignedByOperator(t))
           /\ OperatorStays(t, client) => OperatorStays(SignedByOperator(t), client)
           /\ InFull(t, regenerated > 0) => InFull(SignedByOperator(t), regenerated > 0)
           /\ client.public \in {None, client.account} => SignedByOperator(t).signatories[client.account] # "absent"
<1>1. PICK k, signer : k = GetOperatorPublicKey(client) /\ signer = GetOperatorSigner(client)
  OBVIOUS
<1>2. k \in Keys /\ signer \in {k, "operator"} /\ (signer = "operator" => client.private = k)
  BY <1>1, TransactionAssumption DEF ClientOK, GetOperatorPublicKey, GetOperatorSigner
<1>3. SignedByOperator(t) = SignInternal(t, k, signer)
  BY <1>1 DEF SignedByOperator
<1>4. /\ StillFrozen(SignInternal(t, k, signer), t)
      /\ AllAuthentic(t) => AllAuthentic(SignInternal(t, k, signer))
      /\ \A l \in Keys : SignInternal(t, k, signer).signatories[l] =
                             (IF l = k /\ t.signatories[k] = "absent" THEN signer ELSE t.signatories[l])
      /\ SignedLater(SignInternal(t, k, signer), t, k)
  BY <1>2, SignIs
<1>5. OperatorStays(t, client) => OperatorStays(SignInternal(t, k, signer), client)
  BY <1>2, <1>4 DEF OperatorStays
<1>6. InFull(t, regenerated > 0) => InFull(SignInternal(t, k, signer), regenerated > 0)
  BY <1>2, <1>4, SignOwes
<1>7. client.public \in {None, client.account} => SignInternal(t, k, signer).signatories[client.account] # "absent"
  <2>1. client.public \in {None, client.account} => k = client.account
    BY <1>1 DEF ClientOK, GetOperatorPublicKey
  <2>2. signer # "absent"
    BY <1>2, TransactionAssumption
  <2>. QED
    BY <1>2, <1>4, <2>1, <2>2
<1>. QED
  BY <1>3, <1>4, <1>5, <1>6, <1>7

(* The ID stays, or is a new one, for a later time than all before.                                *)
IdStep ==
    \/ tx'.id = tx.id /\ generated' = generated
    \/ GoodId(tx'.id) /\ tx'.id.gen = generated + 1 /\ generated' = generated + 1

(* The signatures stay those of the keys they name.                                                *)
StaysSigned == OperatorStays(tx, client) /\ AllAuthentic(tx) => OperatorStays(tx', client') /\ AllAuthentic(tx')

(* What any call but execute does.                                                                 *)
CallStep ==
    /\ phase = "idle" /\ phase' = "idle"
    /\ UNCHANGED <<regenerate, regenerated, pastNodes, request, response, pool, ledger>>
    /\ TransactionOK(tx') /\ ClientOK(client')
    /\ tx'.class = tx.class /\ tx'.currentChunk \in {0, tx.currentChunk}
    /\ tx'.currentChunk = 0 \/ GoesOn(tx', tx)
    /\ IdStep
    /\ ~replaced' => ~replaced /\ StaysSigned
    /\ InFull(tx, regenerated > 0) => InFull(tx', regenerated > 0)

(* What can still be set begins with its first chunk.                                              *)
LEMMA FirstUnfrozen ==
    ASSUME ObjectInv
    PROVE  tx.frozen \/ tx.currentChunk = 0
BY DEF ObjectInv, TransactionOK, DataOK

(* A call that leaves the client alone.                                                            *)
LEMMA PrepareIs ==
    ASSUME ObjectInv, NEW t, Prepare(t), TransactionOK(t), t.class = tx.class,
           t.currentChunk \in {0, tx.currentChunk}, t.currentChunk = 0 \/ GoesOn(t, tx),
           \/ t.id = tx.id /\ generated' = generated
           \/ GoodId(t.id) /\ t.id.gen = generated + 1 /\ generated' = generated + 1,
           OperatorStays(tx, client) /\ AllAuthentic(tx) => OperatorStays(t, client) /\ AllAuthentic(t),
           InFull(tx, regenerated > 0) => InFull(t, regenerated > 0)
    PROVE  CallStep
<1>1. tx' = t /\ client' = client /\ phase = "idle" /\ phase' = "idle"
      /\ UNCHANGED <<regenerate, regenerated, pastNodes, request, response, pool, ledger>>
      /\ replaced' = replaced
  BY DEF Prepare, Call, historyVars, executionVars, networkVars
<1>2. IdStep /\ StaysSigned
  BY <1>1 DEF IdStep, StaysSigned
<1>. QED
  BY <1>1, <1>2 DEF CallStep, ObjectInv

(* freezeWith, with whatever the client provides.                                                  *)
LEMMA FreezesIs ==
    ASSUME ObjectInv, NEW t \in FrozenTransactions, GenerateIfMissing
    PROVE  /\ TransactionOK(t) /\ t.frozen /\ SameWork(t, tx)
           /\ t.class = tx.class /\ t.currentChunk = tx.currentChunk
           /\ t.signatories = tx.signatories
           /\ t.currentChunk = 0 \/ GoesOn(t, tx)
           /\ \/ t.id = tx.id /\ generated' = generated
              \/ GoodId(t.id) /\ t.id.gen = generated + 1 /\ generated' = generated + 1
           /\ AllAuthentic(tx) => AllAuthentic(t)
           /\ InFull(tx, regenerated > 0) => InFull(t, regenerated > 0)
<1>1. PICK nodes \in NodeLists : t = FreezeWith(tx, NewId(client.account), nodes)
  BY DEF FrozenTransactions
<1>2. CanFreeze(tx, client)
  BY DEF FrozenTransactions
<1>3. PICK id : id = NewId(client.account)
  OBVIOUS
<1>4. TransactionOK(tx) /\ ClientOK(client) /\ generated \in Nat
  BY DEF ObjectInv
<1>5. ~tx.frozen /\ tx.id = None => GoodId(id) /\ id.gen = generated + 1
  <2>1. ~tx.frozen /\ tx.id = None => client.account \in Keys
    BY <1>2, <1>4 DEF CanFreeze, ClientOK
  <2>. QED
    BY <1>3, <1>4, <2>1 DEF NewId, GoodId, Ids
<1>6. tx.frozen => tx.id # None
  BY <1>4, TransactionAssumption DEF TransactionOK, Made, GoodId
<1>7. FrozenFrom(t, tx, id)
  BY <1>1, <1>3, <1>4, <1>5, <1>6, FreezeIs
<1>8. ASSUME InFull(tx, regenerated > 0) PROVE InFull(t, regenerated > 0)
  <2>1. CASE tx.frozen
    BY <1>7, <1>8, <2>1 DEF FrozenFrom
  <2>2. CASE ~tx.frozen
    <3>1. TransactionOK(t) /\ Unsigned(t) /\ t.signatories = tx.signatories
      BY <1>7, <2>2 DEF FrozenFrom
    <3>2. \A k \in Keys : t.signatories[k] = "absent"
      BY <1>4, <2>2, <3>1 DEF TransactionOK, Signers
    <3>3. IsFiniteSet(Signatories(t))
      BY <1>8, <3>1 DEF InFull, Signatories
    <3>. QED
      BY <3>1, <3>2, <3>3, UnsignedOwes
  <2>. QED
    BY <2>1, <2>2
<1>9. t.currentChunk = 0 \/ GoesOn(t, tx)
  <2>1. CASE tx.frozen
    BY <1>7, <2>1 DEF FrozenFrom, GoesOn, SameContents
  <2>2. CASE ~tx.frozen
    BY <1>4, <1>7, <2>2, FirstUnfrozen DEF FrozenFrom, SameWork
  <2>. QED
    BY <2>1, <2>2
<1>10. CASE ~tx.frozen /\ tx.id = None
  BY <1>5, <1>7, <1>8, <1>9, <1>10 DEF FrozenFrom, SameWork, GenerateIfMissing
<1>11. CASE ~(~tx.frozen /\ tx.id = None)
  BY <1>7, <1>8, <1>9, <1>11 DEF FrozenFrom, SameWork, GenerateIfMissing
<1>. QED
  BY <1>10, <1>11

(* The calls of the application, but execute.                                                      *)
LEMMA CallIs ==
    ASSUME ObjectInv, Application
    PROVE  CallStep \/ Execute
<1>1. TransactionOK(tx) /\ ClientOK(client) /\ generated \in Nat
  BY DEF ObjectInv
<1>2. client.private \in Keys \cup {None}
  BY <1>1 DEF ClientOK
<1>3. ASSUME NEW d \in Data, SetData(d) PROVE CallStep
  <2>1. PICK u : u = [tx EXCEPT !.data = d]
    OBVIOUS
  <2>2. u.data = d /\ u.id = tx.id /\ u.nodes = tx.nodes
    BY <1>1, <2>1 DEF TransactionOK, IsTransaction
  <2>3. ~tx.frozen /\ Prepare(u) /\ generated' = generated /\ u.data \in Seq(Units)
    BY <1>3, <2>1, <2>2, DataIs DEF SetData
  <2>4. (u.id = None \/ GoodId(u.id)) /\ (u.nodes = <<>> \/ Len(u.nodes) \in Nat \ {0})
    BY <1>1, <2>2 DEF TransactionOK
  <2>5. /\ TransactionOK(u) /\ AllAuthentic(u) /\ u.class = tx.class
        /\ u.currentChunk = tx.currentChunk /\ u.signatories = tx.signatories
        /\ InFull(tx, regenerated > 0) => InFull(u, regenerated > 0)
    <3>1. SetFrom(u, tx)
      BY <2>1, <2>2 DEF SetFrom
    <3>. QED
      BY <1>1, <2>3, <2>4, <3>1, SetIs
  <2>. QED
    BY <2>2, <2>3, <2>5, FirstUnfrozen, PrepareIs DEF OperatorStays
<1>4. ASSUME NEW nodes \in NodeLists, SetNodeAccountIds(nodes) PROVE CallStep
  <2>1. PICK u : u = [tx EXCEPT !.nodes = nodes]
    OBVIOUS
  <2>2. u.data = tx.data /\ u.id = tx.id /\ u.nodes = nodes
    BY <1>1, <2>1 DEF TransactionOK, IsTransaction
  <2>3. ~tx.frozen /\ Prepare(u) /\ generated' = generated /\ u.data \in Seq(Units)
    BY <1>1, <1>4, <2>1, <2>2 DEF SetNodeAccountIds, TransactionOK, DataOK
  <2>4. (u.id = None \/ GoodId(u.id)) /\ (u.nodes = <<>> \/ Len(u.nodes) \in Nat \ {0})
    BY <1>1, <2>2, ExecutionAssumption DEF TransactionOK
  <2>5. /\ TransactionOK(u) /\ AllAuthentic(u) /\ u.class = tx.class
        /\ u.currentChunk = tx.currentChunk /\ u.signatories = tx.signatories
        /\ InFull(tx, regenerated > 0) => InFull(u, regenerated > 0)
    <3>1. SetFrom(u, tx)
      BY <2>1, <2>2 DEF SetFrom
    <3>. QED
      BY <1>1, <2>3, <2>4, <3>1, SetIs
  <2>. QED
    BY <2>2, <2>3, <2>5, FirstUnfrozen, PrepareIs DEF OperatorStays
<1>5. ASSUME NEW k \in Keys, SetTransactionId(k) PROVE CallStep
  <2>1. PICK u, id : u = [tx EXCEPT !.id = id] /\ id = NewId(k)
    OBVIOUS
  <2>2. u.id = id /\ u.nodes = tx.nodes /\ u.data = tx.data
    BY <1>1, <2>1 DEF TransactionOK, IsTransaction
  <2>3. ~tx.frozen /\ Prepare(u) /\ generated' = generated + 1 /\ u.data \in Seq(Units)
    BY <1>1, <1>5, <2>1, <2>2 DEF SetTransactionId, TransactionOK, DataOK
  <2>4. GoodId(u.id) /\ u.id.gen = generated + 1
    BY <1>1, <2>1, <2>2 DEF NewId, GoodId, Ids
  <2>5. u.nodes = <<>> \/ Len(u.nodes) \in Nat \ {0}
    BY <1>1, <2>2 DEF TransactionOK
  <2>6. /\ TransactionOK(u) /\ AllAuthentic(u) /\ u.class = tx.class
        /\ u.currentChunk = tx.currentChunk /\ u.signatories = tx.signatories
        /\ InFull(tx, regenerated > 0) => InFull(u, regenerated > 0)
    <3>1. SetFrom(u, tx)
      BY <2>1, <2>2 DEF SetFrom
    <3>. QED
      BY <1>1, <2>3, <2>4, <2>5, <3>1, SetIs
  <2>. QED
    BY <2>3, <2>4, <2>6, FirstUnfrozen, PrepareIs DEF OperatorStays
<1>6. ASSUME NEW k \in Keys, Sign(k) PROVE CallStep
  <2>1. PICK u : u = SignInternal(tx, k, k)
    OBVIOUS
  <2>2. tx.frozen /\ Prepare(u) /\ generated' = generated
    BY <1>6, <2>1 DEF Sign
  <2>3. /\ StillFrozen(u, tx)
        /\ AllAuthentic(tx) => AllAuthentic(u)
        /\ \A l \in Keys : u.signatories[l] = (IF l = k /\ tx.signatories[k] = "absent" THEN k ELSE tx.signatories[l])
        /\ SignedLater(u, tx, k)
    BY <1>1, <2>1, <2>2, SignIs
  <2>4. OperatorStays(tx, client) => OperatorStays(u, client)
    BY <2>3, TransactionAssumption DEF OperatorStays
  <2>5. InFull(tx, regenerated > 0) => InFull(u, regenerated > 0)
    BY <1>1, <2>2, <2>3, SignOwes
  <2>. QED
    BY <2>2, <2>3, <2>4, <2>5, StillGoesOn, PrepareIs DEF StillFrozen, SameTransaction, SameWork
<1>7. ASSUME NEW k \in Keys, AddSignatureOf(k) PROVE CallStep
  <2>1. PICK u : u = AddSignature(tx, k)
    OBVIOUS
  <2>2. tx.frozen /\ Prepare(u) /\ generated' = generated /\ CanAddSignature(tx)
    BY <1>7, <2>1 DEF AddSignatureOf, CanAddSignature
  <2>3. /\ StillFrozen(u, tx)
        /\ AllAuthentic(tx) => AllAuthentic(u)
        /\ \A l \in Keys : u.signatories[l] = (IF l = k /\ tx.signatories[k] = "absent" THEN "added" ELSE tx.signatories[l])
        /\ AddedTo(u, tx, k)
    BY <1>1, <2>1, <2>2, AddIs
  <2>4. OperatorStays(tx, client) => OperatorStays(u, client)
    BY <2>3 DEF OperatorStays
  <2>5. InFull(tx, regenerated > 0) => InFull(u, regenerated > 0)
    BY <1>1, <2>2, <2>3, AddOwes
  <2>. QED
    BY <2>2, <2>3, <2>4, <2>5, StillGoesOn, PrepareIs DEF StillFrozen, SameTransaction, SameWork
<1>8. CASE Freeze
  <2>1. PICK t \in FrozenTransactions : Prepare(t) /\ GenerateIfMissing
    BY <1>8 DEF Freeze
  <2>. QED
    BY <2>1, FreezesIs, PrepareIs DEF OperatorStays
<1>9. CASE SignWithOperator
  <2>1. PICK t \in FrozenTransactions : Prepare(SignedByOperator(t)) /\ GenerateIfMissing
    BY <1>9 DEF SignWithOperator
  <2>2. client.account # None
    BY <1>9 DEF SignWithOperator
  <2>3. /\ TransactionOK(t) /\ t.frozen /\ t.class = tx.class /\ t.currentChunk = tx.currentChunk
        /\ t.signatories = tx.signatories
        /\ t.currentChunk = 0 \/ GoesOn(t, tx)
        /\ \/ t.id = tx.id /\ generated' = generated
           \/ GoodId(t.id) /\ t.id.gen = generated + 1 /\ generated' = generated + 1
        /\ AllAuthentic(tx) => AllAuthentic(t)
        /\ InFull(tx, regenerated > 0) => InFull(t, regenerated > 0)
    BY <2>1, FreezesIs
  <2>4. OperatorStays(tx, client) => OperatorStays(t, client)
    BY <2>3 DEF OperatorStays
  <2>5. /\ StillFrozen(SignedByOperator(t), t)
        /\ AllAuthentic(t) => AllAuthentic(SignedByOperator(t))
        /\ OperatorStays(t, client) => OperatorStays(SignedByOperator(t), client)
        /\ InFull(t, regenerated > 0) => InFull(SignedByOperator(t), regenerated > 0)
    BY <1>1, <2>2, <2>3, OperatorSigns
  <2>6. SignedByOperator(t).currentChunk = 0 \/ GoesOn(SignedByOperator(t), tx)
    BY <2>3, <2>5 DEF StillFrozen, SameTransaction, SameWork, GoesOn, SameContents
  <2>. QED
    BY <2>1, <2>3, <2>4, <2>5, <2>6, PrepareIs DEF StillFrozen, SameTransaction, SameWork
<1>10. CASE Build
  <2>1. PICK u : u = BuildTransactions(tx, client, DOMAIN tx.signedTransactions)
    OBVIOUS
  <2>2. tx.frozen /\ Prepare(u) /\ generated' = generated
    BY <1>10, <2>1 DEF Build, BuildAllTransactions
  <2>3. Rebuilt(u, tx, client, DOMAIN tx.signedTransactions)
    BY <1>1, <1>2, <2>1, <2>2, BuildIs DEF TransactionOK, Made, Bodies, BodyFor
  <2>4. /\ StillFrozen(u, tx) /\ u.signatories = tx.signatories
        /\ AllAuthentic(tx) /\ OperatorStays(tx, client) => AllAuthentic(u)
    BY <1>1, <1>2, <2>2, <2>3, BuildKeeps
  <2>5. OperatorStays(tx, client) => OperatorStays(u, client)
    BY <2>4 DEF OperatorStays
  <2>6. InFull(tx, regenerated > 0) => InFull(u, regenerated > 0)
    BY <1>1, <1>2, <2>2, <2>3, <2>4, BuildOwes
  <2>. QED
    BY <2>2, <2>4, <2>5, <2>6, StillGoesOn, PrepareIs DEF StillFrozen, SameTransaction, SameWork
<1>11. CASE SaveAndRestore
  <2>1. PICK u : u = Reload(tx, client)
    OBVIOUS
  <2>2. CanReload(tx, client) /\ Prepare(u) /\ generated' = generated
    BY <1>11, <2>1 DEF SaveAndRestore
  <2>3. RestoredFrom(u, tx, client)
    BY <1>1, <1>2, <2>1, <2>2, ReloadIs
  <2>4. InFull(tx, regenerated > 0) => InFull(u, regenerated > 0)
    BY <1>1, <1>2, <2>3, ReloadOwes
  <2>. QED
    BY <2>2, <2>3, <2>4, PrepareIs DEF RestoredFrom, OperatorStays
<1>12. CASE ChangeOperator
  <2>1. /\ phase = "idle" /\ phase' = "idle" /\ tx' = tx /\ generated' = generated
        /\ UNCHANGED <<regenerate, regenerated, pastNodes, request, response, pool, ledger>>
    BY <1>12 DEF ChangeOperator, Call, executionVars, networkVars
  <2>2. PICK k \in Keys : client' \in {SetOperator(client, k), SetOperatorWith(client, k)}
    BY <1>12 DEF ChangeOperator
  <2>3. ClientOK(client')
    <3>1. CASE client' = SetOperator(client, k)
      <4>1. client' = [account |-> k, private |-> k, public |-> client.public, signer |-> client.signer]
        BY <1>1, <3>1 DEF SetOperator, ClientOK
      <4>. QED
        BY <1>1, <4>1, TransactionAssumption DEF ClientOK
    <3>2. CASE client' = SetOperatorWith(client, k)
      <4>1. client' = [account |-> k, private |-> client.private, public |-> k, signer |-> k]
        BY <1>1, <3>2 DEF SetOperatorWith, ClientOK
      <4>. QED
        BY <1>1, <4>1, TransactionAssumption DEF ClientOK
    <3>. QED
      BY <2>2, <3>1, <3>2
  <2>4. ~replaced' => ~replaced /\ \A l \in Keys : tx.signatories[l] # "operator"
    BY <1>12, Zenon DEF ChangeOperator
  <2>5. ~replaced' => ~replaced /\ StaysSigned
    BY <2>1, <2>4 DEF StaysSigned, OperatorStays
  <2>6. tx'.currentChunk = 0 \/ GoesOn(tx', tx)
    BY <2>1, FirstUnfrozen DEF GoesOn, SameContents
  <2>. QED
    BY <1>1, <2>1, <2>3, <2>5, <2>6 DEF CallStep, IdStep
<1>. QED
  BY <1>3, <1>4, <1>5, <1>6, <1>7, <1>8, <1>9, <1>10, <1>11, <1>12 DEF Application

-----------------------------------------------------------------------------
(* What a step may do to the ID, to what the network holds, and to the chunk the loop has come to. *)
NetworkStep ==
    \/ UNCHANGED <<pool, ledger>>
    \/ /\ phase = "waiting" /\ request.sent.id \notin IdsSeen
       /\ pool' = pool \cup {request.sent} /\ ledger' = ledger
       /\ tx'.id = tx.id /\ generated' = generated
    \/ \E e \in pool : /\ pool' = pool \ {e} /\ ledger' \in {ledger, Append(ledger, e)}
                       /\ tx' = tx /\ generated' = generated

(* The next chunk of a file is begun when the receipt of the one before is there.                  *)
ChunkStep ==
    \/ tx'.currentChunk \in {0, tx.currentChunk}
    \/ tx.class # "file"
    \/ /\ tx'.currentChunk = tx.currentChunk + 1
       /\ phase = "receipt" /\ \E i \in DOMAIN ledger : ledger[i].id = response

(* A step as the proofs of the invariants see it.                                                  *)
Step ==
    /\ tx'.class = tx.class /\ regenerate' = regenerate
    /\ ~pastNodes' => ~pastNodes
    /\ ~regenerate => regenerated' = regenerated
    /\ IdStep /\ NetworkStep /\ ChunkStep

Kept == ObjectInv' /\ Step /\ (SignedByNamed => SignedByNamed') /\ (SignedInFull => SignedInFull')

(* A new ID is in the range of those generated.                                                    *)
LEMMA IdInRange ==
    ASSUME ObjectInv, IdStep
    PROVE  generated' \in Nat /\ (tx'.id # None => tx'.id.gen \in 1..generated')
BY DEF ObjectInv, IdStep

(* A step that leaves the transaction alone and execute where it is, or ends it.                   *)
LEMMA LeavesAlone ==
    ASSUME ObjectInv, UNCHANGED <<tx, client, regenerate, generated, regenerated, replaced, pastNodes>>,
           \/ UNCHANGED <<phase, request, response>>
           \/ phase' \in {"idle", "attempting"} /\ (phase' = "attempting" => phase = "waiting"),
           NetworkStep
    PROVE  Kept
<1>1. IdStep /\ ChunkStep
  BY DEF IdStep, ChunkStep
<1>2. Step
  BY <1>1 DEF Step
<1>3. Aim'
  BY DEF ObjectInv, Aim, RightRequest
<1>4. ObjectInv'
  BY <1>3 DEF ObjectInv
<1>5. SignedByNamed => SignedByNamed'
  BY DEF SignedByNamed
<1>6. SignedInFull => SignedInFull'
  BY DEF SignedInFull
<1>. QED
  BY <1>2, <1>4, <1>5, <1>6 DEF Kept

(* A call of the application.                                                                      *)
LEMMA CallKeeps ==
    ASSUME ObjectInv, CallStep
    PROVE  Kept
<1>1. Step
  BY DEF CallStep, Step, NetworkStep, ChunkStep
<1>2. ObjectInv'
  <2>1. generated' \in Nat /\ (tx'.id # None => tx'.id.gen \in 1..generated')
    BY IdInRange DEF CallStep
  <2>. QED
    BY <2>1 DEF CallStep, ObjectInv, Aim, RightRequest, GoesOn
<1>3. SignedByNamed => SignedByNamed'
  BY DEF CallStep, SignedByNamed, StaysSigned
<1>4. SignedInFull => SignedInFull'
  BY DEF CallStep, SignedInFull
<1>. QED
  BY <1>1, <1>2, <1>3, <1>4 DEF Kept

(* The loop goes on, or execute returns.                                                           *)
LEMMA ContinueKeeps ==
    ASSUME ObjectInv, NEW n \in Nat, ContinueAt(tx, n),
           UNCHANGED <<client, regenerate, generated, regenerated, replaced, pastNodes, ledger>>,
           n = tx.currentChunk \/ phase \in {"waiting", "receipt"},
           \/ n = tx.currentChunk
           \/ tx.class # "file"
           \/ n = tx.currentChunk + 1 /\ phase = "receipt" /\ \E i \in DOMAIN ledger : ledger[i].id = response,
           \/ pool' = pool
           \/ phase = "waiting" /\ request.sent.id \notin IdsSeen /\ pool' = pool \cup {request.sent}
    PROVE  Kept
<1>1. PICK m \in {0, n} : tx' = [tx EXCEPT !.currentChunk = m]
  BY DEF ContinueAt
<1>2. phase' \in {"chunk", "idle"}
  BY DEF ContinueAt, Ends
<1>3. TransactionOK(tx)
  BY DEF ObjectInv
<1>4. tx.class = "plain" => m = 0
  <2>1. PICK u : u = [tx EXCEPT !.currentChunk = m]
    OBVIOUS
  <2>2. tx.class = "plain" => GetNumberOfChunksRequired(tx) = 1
    BY DEF GetNumberOfChunksRequired
  <2>3. u.currentChunk = m /\ \A l : [tx EXCEPT !.currentChunk = l].currentChunk = l
    BY <1>3, <2>1 DEF TransactionOK, IsTransaction
  <2>. QED
    <3>1. CASE tx' = [tx EXCEPT !.currentChunk = 0]
      <4>1. [tx EXCEPT !.currentChunk = 0].currentChunk = m
        BY <1>1, <2>1, <2>3, <3>1
      <4>. QED
        BY <2>3, <4>1
    <3>2. CASE n < GetNumberOfChunksRequired(tx) /\ tx' = [tx EXCEPT !.currentChunk = n]
      <4>1. [tx EXCEPT !.currentChunk = n].currentChunk = m
        BY <1>1, <2>1, <2>3, <3>2
      <4>. QED
        BY <2>2, <2>3, <3>2, <4>1
    <3>. QED
      BY <3>1, <3>2 DEF ContinueAt
<1>5. /\ TransactionOK(tx') /\ tx'.currentChunk = m /\ tx'.id = tx.id /\ tx'.class = tx.class
      /\ tx'.signatories = tx.signatories
      /\ AllAuthentic(tx) => AllAuthentic(tx')
      /\ tx'.frozen = tx.frozen /\ tx'.nodes = tx.nodes
      /\ tx'.signedTransactions = tx.signedTransactions /\ tx'.transactions = tx.transactions
      /\ GetNumberOfChunksRequired(tx') = GetNumberOfChunksRequired(tx)
  BY <1>1, <1>3, <1>4, AtChunkIs
<1>6. IdStep /\ ChunkStep /\ NetworkStep
  BY <1>5 DEF IdStep, ChunkStep, NetworkStep
<1>7. Step
  BY <1>5, <1>6 DEF Step
<1>8. phase' # "idle" => tx'.currentChunk < GetNumberOfChunksRequired(tx')
  <2> SUFFICES ASSUME phase' # "idle" PROVE tx'.currentChunk < GetNumberOfChunksRequired(tx')
    OBVIOUS
  <2>1. n < GetNumberOfChunksRequired(tx) /\ tx' = [tx EXCEPT !.currentChunk = n]
    BY DEF ContinueAt, Ends
  <2>2. tx.class = "plain" => n = 0
    BY <2>1 DEF GetNumberOfChunksRequired
  <2>3. tx'.currentChunk = n /\ GetNumberOfChunksRequired(tx') = GetNumberOfChunksRequired(tx)
    BY <1>3, <2>1, <2>2, AtChunkIs
  <2>. QED
    BY <2>1, <2>3
<1>9. Aim'
  BY <1>2, <1>8 DEF Aim, RightRequest
<1>10. ObjectInv'
  <2>1. tx'.currentChunk > 0 => tx'.frozen
    BY <1>1, <1>5 DEF ObjectInv
  <2>. QED
    BY <1>2, <1>5, <1>9, <2>1 DEF ObjectInv
<1>11. SignedByNamed => SignedByNamed'
  BY <1>2, <1>5 DEF SignedByNamed, OperatorStays
<1>12. SignedInFull => SignedInFull'
  <2>1. InFull(tx, regenerated > 0) => InFull(tx', regenerated > 0)
    BY <1>5, SameSigners
  <2>. QED
    BY <1>2, <2>1 DEF SignedInFull
<1>. QED
  BY <1>7, <1>10, <1>11, <1>12 DEF Kept

(* onExecute freezes, and has the operator sign if it pays.                                        *)
LEMMA OnExecuteKeeps ==
    ASSUME ObjectInv, OnExecute
    PROVE  Kept
<1>1. /\ UNCHANGED <<client, regenerate, regenerated, replaced, pastNodes, request, response, pool, ledger>>
      /\ phase = "chunk"
  BY DEF OnExecute, historyVars, networkVars
<1>2. NetworkStep
  BY <1>1 DEF NetworkStep
<1>3. CASE Throw /\ UNCHANGED <<tx, attempt, generated>>
  <2>1. phase' = "idle" /\ tx' = tx /\ generated' = generated
    BY <1>3 DEF Throw, Ends
  <2>. QED
    BY <1>1, <1>2, <2>1, LeavesAlone
<1>4. ASSUME NEW t \in FrozenTransactions, BeginAttempts(Executed(t)), GenerateIfMissing
      PROVE  Kept
  <2>1. /\ TransactionOK(t) /\ t.frozen /\ SameWork(t, tx)
        /\ t.class = tx.class /\ t.currentChunk = tx.currentChunk
        /\ t.signatories = tx.signatories
        /\ \/ t.id = tx.id /\ generated' = generated
           \/ GoodId(t.id) /\ t.id.gen = generated + 1 /\ generated' = generated + 1
        /\ AllAuthentic(tx) => AllAuthentic(t)
        /\ InFull(tx, regenerated > 0) => InFull(t, regenerated > 0)
    BY <1>4, FreezesIs
  <2>2. tx' = Executed(t) /\ phase' = "attempting"
    BY <1>4 DEF BeginAttempts
  <2>3. /\ TransactionOK(tx') /\ tx'.frozen /\ tx'.class = t.class /\ tx'.id = t.id
        /\ SameWork(tx', t) /\ tx'.currentChunk = t.currentChunk
        /\ AllAuthentic(t) => AllAuthentic(tx')
        /\ OperatorStays(t, client) => OperatorStays(tx', client)
    <3>1. CASE tx' = t
      BY <2>1, <3>1 DEF SameWork
    <3>2. CASE client.account # None /\ tx' = SignedByOperator(t)
      <4>1. /\ StillFrozen(SignedByOperator(t), t)
            /\ AllAuthentic(t) => AllAuthentic(SignedByOperator(t))
            /\ OperatorStays(t, client) => OperatorStays(SignedByOperator(t), client)
        BY <2>1, <3>2, OperatorSigns DEF ObjectInv
      <4>. QED
        BY <3>2, <4>1 DEF StillFrozen, SameTransaction, SameWork
    <3>. QED
      BY <2>2, <3>1, <3>2 DEF Executed
  <2>4. InFull(t, regenerated > 0) => InFull(tx', regenerated > 0)
    <3>1. CASE tx' = t
      BY <3>1
    <3>2. CASE client.account # None /\ tx' = SignedByOperator(t)
      BY <2>1, <3>2, OperatorSigns DEF ObjectInv
    <3>. QED
      BY <2>2, <3>1, <3>2 DEF Executed
  <2>5. client.account = tx'.id.account /\ client.public \in {None, client.account} =>
            tx'.signatories[client.account] # "absent"
    <3> SUFFICES ASSUME client.account = tx'.id.account, client.public \in {None, client.account}
                 PROVE  tx'.signatories[client.account] # "absent"
      OBVIOUS
    <3>1. tx'.id.account \in Keys /\ tx'.id = t.id
      BY <2>3 DEF TransactionOK, Made, GoodId, Ids
    <3>2. client.account # None /\ tx' = SignedByOperator(t)
      BY <2>2, <3>1, TransactionAssumption DEF Executed
    <3>. QED
      BY <2>1, <3>2, OperatorSigns DEF ObjectInv
  <2>6. IdStep /\ ChunkStep
    BY <2>1, <2>3 DEF IdStep, ChunkStep
  <2>7. Step
    BY <1>1, <1>2, <2>1, <2>3, <2>6 DEF Step
  <2>8. ObjectInv'
    <3>1. generated' \in Nat /\ (tx'.id # None => tx'.id.gen \in 1..generated')
      BY <2>6, IdInRange
    <3>2. Aim'
      <4>1. tx'.currentChunk < GetNumberOfChunksRequired(tx')
        BY <1>1, <2>1, <2>3, WorkLeft DEF ObjectInv, Aim
      <4>. QED
        BY <2>2, <4>1 DEF Aim, RightRequest
    <3>. QED
      BY <1>1, <2>3, <3>1, <3>2 DEF ObjectInv
  <2>9. SignedByNamed => SignedByNamed'
    BY <1>1, <2>1, <2>2, <2>3 DEF SignedByNamed, OperatorStays
  <2>10. SignedInFull => SignedInFull'
    BY <1>1, <2>1, <2>2, <2>4, <2>5 DEF SignedInFull
  <2>. QED
    BY <2>7, <2>8, <2>9, <2>10 DEF Kept
<1>. QED
  BY <1>3, <1>4 DEF OnExecute

(* An attempt builds the body of the current chunk for the node it chose, and sends it.            *)
LEMMA AttemptKeeps ==
    ASSUME ObjectInv, Attempt
    PROVE  Kept
<1>1. /\ UNCHANGED <<client, regenerate, generated, regenerated, replaced, response, pool, ledger>>
      /\ phase = "attempting"
  BY DEF Attempt, networkVars
<1>2. NetworkStep
  BY <1>1 DEF NetworkStep
<1>3. CASE Throw /\ UNCHANGED <<tx, request, pastNodes, unanswered>>
  <2>1. phase' = "idle" /\ tx' = tx /\ pastNodes' = pastNodes
    BY <1>3 DEF Throw, Ends
  <2>. QED
    BY <1>1, <1>2, <2>1, LeavesAlone
<1>4. ASSUME NEW nodeIndex \in 1..NumberOfNodes, NEW i, i = RequestIndex(tx, nodeIndex),
             NEW built, built = BuildTransactions(tx, client, {i}), i \in DOMAIN tx.transactions,
             tx' = built, request' = [nodeIndex |-> nodeIndex, sent |-> built.transactions[i]],
             pastNodes' = (pastNodes \/ nodeIndex > Len(tx.nodes)), phase' = "waiting"
      PROVE  Kept
  <2>1. TransactionOK(tx) /\ tx.frozen /\ client.private \in Keys \cup {None}
    BY <1>1 DEF ObjectInv, ClientOK
  <2>2. Made(tx) /\ IsTransaction(tx) /\ Signers(tx)
    BY <2>1 DEF TransactionOK
  <2>3. Rebuilt(built, tx, client, {i})
    <3>1. \A j \in DOMAIN tx.signedTransactions :
             IsBody(tx.signedTransactions[j]) /\ tx.transactions[j] \in {NotBuilt, tx.signedTransactions[j]}
      BY <2>2 DEF Made, Bodies, BodyFor
    <3>. QED
      BY <1>4, <2>1, <2>2, <3>1, BuildIs
  <2>4. /\ StillFrozen(built, tx) /\ built.signatories = tx.signatories
        /\ AllAuthentic(tx) /\ OperatorStays(tx, client) => AllAuthentic(built)
    BY <2>1, <2>3, BuildKeeps
  <2>5. i \in DOMAIN built.signedTransactions /\ built.transactions[i] = built.signedTransactions[i]
    BY <1>4, <2>2, <2>3 DEF Made, Bodies, Rebuilt
  <2>6. i \in Nat \ {0} /\ BodyFor(built.signedTransactions[i], built, i)
    BY <2>4, <2>5 DEF StillFrozen, TransactionOK, Made, Bodies
  <2>7. request'.sent = built.signedTransactions[i]
    BY <1>4, <2>5
  <2>8. ASSUME nodeIndex <= Len(tx.nodes)
         PROVE  /\ request'.sent.chunk = built.currentChunk
                /\ request'.sent.node = built.nodes[nodeIndex]
                /\ request'.sent.id = GetCurrentTransactionId(built)
                /\ Whole(built) => request'.sent.content = CutOf(built, built.currentChunk)
    <3>1. PICK n, c : n = Len(tx.nodes) /\ c = tx.currentChunk
      OBVIOUS
    <3>2. n \in Nat \ {0} /\ c \in Nat
      BY <2>1, <2>2, <3>1 DEF Made, TransactionOK, DataOK
    <3>3. nodeIndex \in 1..n
      BY <1>4, <2>8, <3>1, <3>2 DEF NumberOfNodes
    <3>4. i = c * n + nodeIndex
      BY <1>4, <3>1 DEF RequestIndex, Index
    <3>5. (i - 1) \div n = c /\ ((i - 1) % n) + 1 = nodeIndex
      BY <3>2, <3>3, <3>4, PlaceIs
    <3>6. built.class = tx.class /\ built.nodes = tx.nodes /\ built.currentChunk = c
      BY <2>4, <3>1 DEF StillFrozen, SameTransaction, SameWork
    <3>7. ChunkAt(built, i) = c
      BY <2>1, <3>1, <3>5, <3>6 DEF ChunkAt, TransactionOK, DataOK
    <3>8. Whole(built) => built.signedTransactions[i].content = CutOf(built, c)
      <4>1. DataOK(built) /\ Made(built)
        BY <2>4 DEF StillFrozen, TransactionOK
      <4>2. Whole(built) => built.signedTransactions[i].content = CutOf(built, (i - 1) \div Len(built.nodes))
        BY <2>5, <4>1, WholeIs
      <4>. QED
        BY <3>1, <3>5, <3>6, <4>2
    <3>. QED
      BY <2>6, <2>7, <3>1, <3>5, <3>6, <3>7, <3>8 DEF BodyFor, GetCurrentTransactionId
  <2>9. ~pastNodes' => request'.sent.chunk = built.currentChunk /\ request'.nodeIndex <= Len(built.nodes)
    <3>1. nodeIndex \in Nat /\ Len(tx.nodes) \in Nat
      BY <1>4, <2>2, ExecutionAssumption DEF Made, NumberOfNodes
    <3>2. ~pastNodes' => ~(nodeIndex > Len(tx.nodes))
      BY <1>4, Zenon
    <3>3. request'.nodeIndex = nodeIndex /\ built.nodes = tx.nodes
      BY <1>4, <2>4 DEF StillFrozen, SameTransaction
    <3>. QED
      BY <2>8, <3>1, <3>2, <3>3
  <2>10. RightRequest'
    <3>1. built.nodes = tx.nodes
      BY <2>4 DEF StillFrozen, SameTransaction
    <3>2. request'.nodeIndex = nodeIndex /\ tx' = built
      BY <1>4
    <3>. QED
      BY <2>8, <3>1, <3>2 DEF RightRequest, CutOf
  <2>11. tx'.currentChunk < GetNumberOfChunksRequired(tx')
    BY <1>1, <1>4, <2>4, WorkLeft DEF ObjectInv, Aim, StillFrozen, SameTransaction
  <2>12. Aim'
    <3>1. request'.nodeIndex \in Nat
      BY <1>4, <2>2, ExecutionAssumption DEF Made, NumberOfNodes
    <3>. QED
      BY <1>4, <2>6, <2>7, <2>9, <2>10, <2>11, <3>1 DEF Aim
  <2>13. built.id = tx.id /\ built.class = tx.class /\ built.currentChunk = tx.currentChunk
         /\ TransactionOK(built) /\ built.frozen
    BY <2>4 DEF StillFrozen, SameTransaction, SameWork
  <2>14. ObjectInv'
    BY <1>1, <1>4, <2>12, <2>13 DEF ObjectInv
  <2>15. ~pastNodes' => ~pastNodes
    BY <1>4, Zenon
  <2>16. Step
    BY <1>1, <1>2, <1>4, <2>13, <2>15 DEF Step, IdStep, ChunkStep
  <2>17. SignedByNamed => SignedByNamed'
    <3> SUFFICES ASSUME SignedByNamed, ~replaced'
                 PROVE  OperatorStays(tx', client') /\ AllAuthentic(tx') /\ Authentic(request'.sent)
      BY DEF SignedByNamed
    <3>1. OperatorStays(tx, client) /\ AllAuthentic(tx)
      BY <1>1 DEF SignedByNamed
    <3>2. OperatorStays(built, client) /\ AllAuthentic(built)
      BY <2>4, <3>1 DEF OperatorStays
    <3>3. Authentic(built.signedTransactions[i])
      BY <2>5, <2>13, <3>2 DEF AllAuthentic
    <3>. QED
      BY <1>1, <1>4, <2>7, <3>2, <3>3
  <2>18. SignedInFull => SignedInFull'
    <3> SUFFICES ASSUME SignedInFull PROVE SignedInFull'
      OBVIOUS
    <3>1. InFull(built, regenerated > 0)
      BY <2>1, <2>3, <2>4, BuildOwes DEF SignedInFull
    <3>2. built.transactions[i] # NotBuilt
      BY <2>5, <2>13, BodyIsBuilt
    <3>3. ASSUME NEW k \in Keys PROVE Signs(built, regenerated > 0, i, k)
      BY <2>5, <2>13, <3>1 DEF InFull
    <3>4. nodeIndex <= Len(tx.nodes) => i <= GetNumberOfChunksRequired(built) * Len(built.nodes)
      <4> SUFFICES ASSUME nodeIndex <= Len(tx.nodes) PROVE i <= GetNumberOfChunksRequired(built) * Len(built.nodes)
        OBVIOUS
      <4>1. PICK n, c, m : n = Len(tx.nodes) /\ c = tx.currentChunk /\ m = GetNumberOfChunksRequired(tx)
        OBVIOUS
      <4>2. n \in Nat \ {0} /\ c \in Nat /\ m \in Nat /\ c < m
        BY <1>1, <2>1, <2>2, <4>1, CutOfIs DEF Made, TransactionOK, DataOK, ObjectInv, Aim
      <4>3. nodeIndex \in 1..n
        BY <1>4, <4>1, <4>2 DEF NumberOfNodes
      <4>4. i = c * n + nodeIndex
        BY <1>4, <4>1 DEF RequestIndex, Index
      <4>5. i \in 1..(m * n)
        BY <4>2, <4>3, <4>4, PlaceWithin
      <4>6. GetNumberOfChunksRequired(built) = m /\ Len(built.nodes) = n
        BY <2>4, <4>1, WorkLeft DEF StillFrozen, SameTransaction
      <4>. QED
        BY <4>5, <4>6
    <3>5. nodeIndex > Len(built.nodes) \/ i <= GetNumberOfChunksRequired(built) * Len(built.nodes)
      <4>1. nodeIndex \in Nat /\ Len(tx.nodes) \in Nat /\ built.nodes = tx.nodes
        BY <1>4, <2>2, <2>4, ExecutionAssumption DEF Made, NumberOfNodes, StillFrozen, SameTransaction
      <4>. QED
        BY <3>4, <4>1
    <3>6. ASSUME NEW k \in Keys
          PROVE  /\ Len(request'.sent.signatures[k]) <= Cardinality(Given(built))
                 /\ built.signatories[k] # "absent" =>
                       \/ request'.sent.signatures[k] # <<>>
                       \/ built.signatories[k] = "added" /\ (regenerated > 0 \/ nodeIndex > Len(built.nodes))
      BY <2>7, <3>2, <3>3, <3>5 DEF Signs, Private
    <3>7. client.account = built.id.account /\ client.public \in {None, client.account} =>
              built.signatories[client.account] # "absent"
      BY <1>1, <2>4, <2>13 DEF SignedInFull
    <3>. QED
      BY <1>1, <1>4, <3>1, <3>6, <3>7 DEF SignedInFull
  <2>. QED
    BY <2>14, <2>16, <2>17, <2>18 DEF Kept
<1>. QED
  BY <1>3, <1>4 DEF Attempt

(* The answers of a node.                                                                          *)
LEMMA AnswerKeeps ==
    ASSUME ObjectInv, NodeUnavailable \/ NodeAccepts \/ CallFails \/ NodeRefuses
    PROVE  Kept
<1>1. /\ UNCHANGED <<client, regenerate, generated, regenerated, replaced, pastNodes, ledger>>
      /\ phase = "waiting"
      /\ \/ pool' = pool
         \/ request.sent.id \notin IdsSeen /\ pool' = pool \cup {request.sent}
  BY DEF NodeUnavailable, NodeAccepts, CallFails, NodeRefuses, Accepts, Retry, Success, historyVars, networkVars
<1>2. ((Retry \/ Throw) /\ tx' = tx) \/ Success
  BY DEF NodeUnavailable, NodeAccepts, CallFails, NodeRefuses, Retry
<1>3. CASE (Retry \/ Throw) /\ tx' = tx
  <2>1. phase' \in {"idle", "attempting"}
    BY <1>3 DEF Retry, Throw, Ends
  <2>2. NetworkStep
    BY <1>1, <1>3 DEF NetworkStep
  <2>. QED
    BY <1>1, <1>3, <2>1, <2>2, LeavesAlone
<1>4. CASE Success
  <2>1. CASE tx.class = "file"
    <3>1. phase' = "receipt" /\ tx' = tx /\ response' = Tick(tx.id, tx.currentChunk)
      BY <1>4, <2>1 DEF Success, ShouldGetReceipt, GetCurrentTransactionId
    <3>2. Step
      BY <1>1, <3>1 DEF Step, IdStep, ChunkStep, NetworkStep
    <3>3. Aim'
      BY <1>1, <3>1 DEF ObjectInv, Aim, RightRequest
    <3>4. ObjectInv'
      BY <1>1, <3>1, <3>3 DEF ObjectInv
    <3>5. SignedByNamed => SignedByNamed'
      BY <1>1, <3>1 DEF SignedByNamed
    <3>6. SignedInFull => SignedInFull'
      BY <1>1, <3>1 DEF SignedInFull
    <3>. QED
      BY <3>2, <3>4, <3>5, <3>6 DEF Kept
  <2>2. CASE tx.class # "file"
    <3>1. ContinueAt(tx, tx.currentChunk + 1)
      BY <1>4, <2>2 DEF Success, ShouldGetReceipt
    <3>2. tx.currentChunk + 1 \in Nat
      BY DEF ObjectInv, TransactionOK, DataOK
    <3>. QED
      BY <1>1, <2>2, <3>1, <3>2, ContinueKeeps
  <2>. QED
    BY <2>1, <2>2
<1>. QED
  BY <1>2, <1>3, <1>4

(* An expired transaction gets a new ID, if the policy allows it.                                  *)
LEMMA ExpiredKeeps ==
    ASSUME ObjectInv, NodeFindsExpired
    PROVE  Kept
<1>1. /\ UNCHANGED <<client, regenerate, replaced, pastNodes, request, response, pool, ledger>>
      /\ phase = "waiting"
  BY DEF NodeFindsExpired, networkVars
<1>2. NetworkStep
  BY <1>1 DEF NetworkStep
<1>3. CASE ~regenerate
  <2>1. phase' = "idle" /\ UNCHANGED <<tx, generated, regenerated>>
    BY <1>3 DEF NodeFindsExpired, ShouldRegenerate, Throw, Ends
  <2>. QED
    BY <1>1, <1>2, <2>1, LeavesAlone
<1>4. CASE regenerate
  <2>1. PICK id, v : id = NewId(tx.id.account) /\ v = [tx EXCEPT !.id = id]
    OBVIOUS
  <2>2. generated' = generated + 1 /\ tx' = RegenerateSignedTransactions(v) /\ phase' = "attempting"
    BY <1>4, <2>1 DEF NodeFindsExpired, ShouldRegenerate
  <2>3. /\ TransactionOK(tx) /\ tx.frozen /\ generated \in Nat
        /\ regenerated' = regenerated + 1 /\ regenerated' \in Nat /\ regenerated' > 0
    BY <1>1, <1>4 DEF ObjectInv, NodeFindsExpired, ShouldRegenerate
  <2>4. GoodId(tx.id)
    BY <2>3 DEF TransactionOK, Made
  <2>5. GoodId(id) /\ id.gen = generated + 1
    BY <2>1, <2>3, <2>4 DEF NewId, GoodId, Ids
  <2>6. /\ TransactionOK(tx') /\ tx'.frozen /\ AllAuthentic(tx')
        /\ tx'.id = id /\ tx'.class = tx.class /\ tx'.currentChunk = tx.currentChunk
        /\ tx'.signatories = tx.signatories /\ SameWork(tx', tx) /\ Unsigned(tx')
    BY <2>1, <2>2, <2>3, <2>5, NewIdIs DEF SameWork
  <2>7. IdStep /\ ChunkStep
    BY <2>2, <2>5, <2>6 DEF IdStep, ChunkStep
  <2>8. Step
    BY <1>1, <1>2, <1>4, <2>6, <2>7 DEF Step
  <2>9. ObjectInv'
    <3>1. generated' \in Nat /\ (tx'.id # None => tx'.id.gen \in 1..generated')
      BY <2>7, IdInRange
    <3>2. Aim'
      <4>1. tx'.currentChunk < GetNumberOfChunksRequired(tx')
        BY <1>1, <2>6, WorkLeft DEF ObjectInv, Aim
      <4>. QED
        BY <2>2, <4>1 DEF Aim, RightRequest
    <3>. QED
      BY <1>1, <2>3, <2>6, <3>1, <3>2 DEF ObjectInv
  <2>10. SignedByNamed => SignedByNamed'
    BY <1>1, <2>2, <2>6 DEF SignedByNamed, OperatorStays
  <2>11. SignedInFull => SignedInFull'
    <3> SUFFICES ASSUME SignedInFull PROVE SignedInFull'
      OBVIOUS
    <3>1. Signatories(tx') = Signatories(tx)
      BY <2>6 DEF Signatories
    <3>2. InFull(tx', regenerated' > 0)
      BY <2>3, <2>6, <3>1, UnsignedOwes DEF SignedInFull, InFull
    <3>3. tx'.id.account = tx.id.account
      BY <2>1, <2>6 DEF NewId
    <3>. QED
      BY <1>1, <2>2, <2>6, <3>2, <3>3 DEF SignedInFull
  <2>. QED
    BY <2>8, <2>9, <2>10, <2>11 DEF Kept
<1>. QED
  BY <1>3, <1>4

(* Every step.                                                                                     *)
LEMMA NextKeeps ==
    ASSUME ObjectInv, [Next]_vars
    PROVE  Kept
<1>1. CASE Application
  <2>1. CASE Execute
    <3>1. UNCHANGED <<client, regenerate, generated, regenerated, replaced, pastNodes, pool, ledger>>
      BY <2>1 DEF Execute, historyVars, networkVars
    <3>2. CASE Throw /\ tx' = tx
      <4>1. phase' = "idle" /\ NetworkStep
        BY <3>1, <3>2 DEF Throw, Ends, NetworkStep
      <4>. QED
        BY <3>1, <3>2, <4>1, LeavesAlone
    <3>3. CASE ContinueAt(tx, tx.currentChunk)
      <4>1. tx.currentChunk \in Nat
        BY DEF ObjectInv, TransactionOK, DataOK
      <4>. QED
        BY <3>1, <3>3, <4>1, ContinueKeeps
    <3>. QED
      BY <2>1, <3>2, <3>3 DEF Execute
  <2>. QED
    BY <1>1, <2>1, CallIs, CallKeeps
<1>2. CASE OnExecute \/ Attempt
  BY <1>2, OnExecuteKeeps, AttemptKeeps
<1>3. CASE GetReceipt
  <2>1. /\ UNCHANGED <<client, regenerate, generated, regenerated, replaced, pastNodes, pool, ledger>>
        /\ phase = "receipt"
    BY <1>3 DEF GetReceipt, historyVars, networkVars
  <2>2. CASE Throw /\ tx' = tx
    <3>1. phase' = "idle" /\ NetworkStep
      BY <2>1, <2>2 DEF Throw, Ends, NetworkStep
    <3>. QED
      BY <2>1, <2>2, <3>1, LeavesAlone
  <2>3. CASE (\E i \in DOMAIN ledger : ledger[i].id = response) /\ ContinueAt(tx, tx.currentChunk + 1)
    <3>1. tx.currentChunk + 1 \in Nat
      BY DEF ObjectInv, TransactionOK, DataOK
    <3>. QED
      BY <2>1, <2>3, <3>1, ContinueKeeps
  <2>. QED
    BY <1>3, <2>2, <2>3 DEF GetReceipt
<1>4. CASE NodeUnavailable \/ NodeAccepts \/ CallFails \/ NodeRefuses
  BY <1>4, AnswerKeeps
<1>5. CASE NodeFindsExpired
  BY <1>5, ExpiredKeeps
<1>6. CASE ReachConsensus \/ Expire \/ UNCHANGED vars
  <2>1. UNCHANGED <<tx, client, regenerate, generated, regenerated, replaced, pastNodes, phase, request, response>>
    BY <1>6 DEF ReachConsensus, Expire, vars, historyVars, executionVars
  <2>2. NetworkStep
    BY <1>6, <2>1 DEF NetworkStep, ReachConsensus, Expire, vars, networkVars
  <2>. QED
    BY <2>1, <2>2, LeavesAlone
<1>. QED
  BY <1>1, <1>2, <1>3, <1>4, <1>5, <1>6 DEF Next, Execution, Network

-----------------------------------------------------------------------------
(* A log grows at its end.                                                                         *)
LEMMA AppendIs ==
    ASSUME NEW s, IsLog(s), NEW e
    PROVE  /\ IsLog(Append(s, e)) /\ DOMAIN s = 1..Len(s) /\ DOMAIN Append(s, e) = 1..(Len(s) + 1)
           /\ \A i \in 1..Len(s) : Append(s, e)[i] = s[i]
           /\ Append(s, e)[Len(s) + 1] = e
<1>1. PICK n \in Nat : n = Len(s)
  BY DEF IsLog
<1>2. PICK T : T = {s[i] : i \in 1..n} \cup {e}
  OBVIOUS
<1>3. s \in Seq(T) /\ e \in T /\ DOMAIN s = 1..n
  <2>1. s = [i \in 1..n |-> s[i]]
    BY <1>1 DEF IsLog
  <2>2. s \in [1..n -> T]
    BY <1>2, <2>1
  <2>. QED
    BY <1>2, <2>1, <2>2
<1>4. PICK a : a = Append(s, e)
  OBVIOUS
<1>5. a \in Seq(T) /\ Len(a) = n + 1 /\ a[n + 1] = e /\ \A i \in 1..n : a[i] = s[i]
  BY <1>1, <1>3, <1>4
<1>6. DOMAIN a = 1..(n + 1) /\ a = [i \in 1..Len(a) |-> a[i]]
  BY <1>5
<1>7. IsLog(a)
  BY <1>5, <1>6 DEF IsLog
<1>. QED
  BY <1>1, <1>3, <1>4, <1>5, <1>6, <1>7

(* What was sent has the ID of its chunk, made from the transaction's.                             *)
LEMMA SentIs ==
    ASSUME ObjectInv, phase = "waiting"
    PROVE  /\ request.sent.id \in Ids /\ request.sent.id.tick = request.sent.chunk
           /\ request.sent.id.gen = tx.id.gen /\ request.sent.id.account = tx.id.account
           /\ tx.id # None /\ tx.id.gen \in 1..generated
<1>1. PICK i \in Nat \ {0} : BodyFor(request.sent, tx, i)
  BY DEF ObjectInv, Aim
<1>2. GoodId(tx.id) /\ Len(tx.nodes) \in Nat \ {0}
  BY DEF ObjectInv, TransactionOK, Made
<1>3. ChunkAt(tx, i) \in Nat
  BY <1>2, PlaceIs DEF ChunkAt
<1>4. tx.id # None
  BY <1>2, TransactionAssumption DEF GoodId
<1>5. request.sent.chunk \in Nat /\ request.sent.id = Tick(tx.id, request.sent.chunk)
  BY <1>1, <1>3 DEF BodyFor
<1>6. tx.id.gen \in 1..generated
  BY <1>4 DEF ObjectInv
<1>. QED
  BY <1>2, <1>4, <1>5, <1>6, TickIs

(* No step breaks what is said about the network.                                                  *)
LEMMA EffectsKept ==
    ASSUME ObjectInv, ObjectInv', Effects, Step
    PROVE  Effects'
<1>1. regenerate' = regenerate /\ (~regenerate' => regenerated' = 0) /\ generated \in Nat
  BY DEF Effects, Step, ObjectInv
<1>2. generated' \in {generated, generated + 1}
  BY DEF Step, IdStep
<1>3. CASE UNCHANGED <<pool, ledger>>
  <2>1. Live' = Live
    BY <1>3 DEF Live
  <2>2. ASSUME NEW e \in Live
        PROVE  /\ e.id.gen \in 1..generated'
               /\ tx'.id # None /\ tx'.id.gen = e.id.gen => tx'.id.account = e.id.account
    <3>1. e.id.gen \in 1..generated /\ (tx.id # None /\ tx.id.gen = e.id.gen => tx.id.account = e.id.account)
      BY DEF Effects
    <3>2. tx'.id = tx.id \/ tx'.id.gen = generated + 1
      BY DEF Step, IdStep
    <3>. QED
      BY <1>1, <1>2, <3>1, <3>2
  <2>. QED
    BY <1>1, <1>3, <2>1, <2>2 DEF Effects
<1>4. CASE /\ phase = "waiting" /\ request.sent.id \notin IdsSeen
           /\ pool' = pool \cup {request.sent} /\ ledger' = ledger
           /\ tx'.id = tx.id /\ generated' = generated
  <2>1. PICK b : b = request.sent
    OBVIOUS
  <2>2. /\ b.id \in Ids /\ b.id.tick = b.chunk
        /\ b.id.gen = tx.id.gen /\ b.id.account = tx.id.account
        /\ tx.id # None /\ tx.id.gen \in 1..generated
    BY <1>4, <2>1, SentIs
  <2>3. \A e \in Live : e.id # b.id
    BY <1>4, <2>1 DEF IdsSeen, Accepted, Live
  <2>4. Live' = Live \cup {b}
    BY <1>4, <2>1 DEF Live
  <2>5. \A e \in Live' :
           /\ e.id \in Ids /\ e.id.tick = e.chunk /\ e.id.gen \in 1..generated'
           /\ tx'.id # None /\ tx'.id.gen = e.id.gen => tx'.id.account = e.id.account
    BY <1>4, <2>2, <2>4 DEF Effects
  <2>6. \A e, f \in Live' : e.id.gen = f.id.gen => e.id.account = f.id.account
    BY <2>2, <2>4 DEF Effects
  <2>7. \A e \in pool' : /\ \A f \in pool' : e.id = f.id => e = f
                         /\ \A i \in DOMAIN ledger' : ledger'[i].id # e.id
    BY <1>4, <2>1, <2>3 DEF Effects, Live
  <2>. QED
    BY <1>1, <1>4, <2>5, <2>6, <2>7 DEF Effects
<1>5. ASSUME NEW e \in pool, pool' = pool \ {e}, ledger' \in {ledger, Append(ledger, e)},
             tx' = tx, generated' = generated
      PROVE  Effects'
  <2>1. Live' \subseteq Live
    <3>1. CASE ledger' = ledger
      BY <1>5, <3>1 DEF Live
    <3>2. CASE ledger' = Append(ledger, e)
      <4>1. /\ DOMAIN ledger = 1..Len(ledger) /\ DOMAIN ledger' = 1..(Len(ledger) + 1)
            /\ \A i \in 1..Len(ledger) : ledger'[i] = ledger[i]
            /\ ledger'[Len(ledger) + 1] = e /\ Len(ledger) \in Nat
        BY <3>2, AppendIs DEF Effects, IsLog
      <4>2. \A i \in DOMAIN ledger' : i \in DOMAIN ledger \/ i = Len(ledger) + 1
        BY <4>1
      <4>. QED
        BY <1>5, <4>1, <4>2 DEF Live
    <3>. QED
      BY <1>5, <3>1, <3>2
  <2>2. /\ IsLog(ledger')
        /\ \A i, j \in DOMAIN ledger' : ledger'[i].id = ledger'[j].id => i = j
        /\ \A f \in pool' : \A i \in DOMAIN ledger' : ledger'[i].id # f.id
    <3>1. CASE ledger' = ledger
      BY <1>5, <3>1 DEF Effects
    <3>2. CASE ledger' = Append(ledger, e)
      <4>1. /\ IsLog(ledger') /\ DOMAIN ledger = 1..Len(ledger) /\ DOMAIN ledger' = 1..(Len(ledger) + 1)
            /\ \A i \in 1..Len(ledger) : ledger'[i] = ledger[i]
            /\ ledger'[Len(ledger) + 1] = e /\ Len(ledger) \in Nat
        BY <3>2, AppendIs DEF Effects, IsLog
      <4>2. \A i \in DOMAIN ledger' : i \in DOMAIN ledger \/ i = Len(ledger) + 1
        BY <4>1
      <4>3. \A i \in DOMAIN ledger : ledger[i].id # e.id
        BY <1>5 DEF Effects
      <4>4. \A i, j \in DOMAIN ledger' : ledger'[i].id = ledger'[j].id => i = j
        BY <4>1, <4>2, <4>3 DEF Effects
      <4>5. \A f \in pool' : f \in pool /\ f.id # e.id
        BY <1>5 DEF Effects
      <4>6. \A f \in pool' : \A i \in DOMAIN ledger' : ledger'[i].id # f.id
        BY <4>1, <4>2, <4>5 DEF Effects
      <4>. QED
        BY <4>1, <4>4, <4>6
    <3>. QED
      BY <1>5, <3>1, <3>2
  <2>. QED
    BY <1>1, <1>5, <2>1, <2>2 DEF Effects
<1>. QED
  BY <1>3, <1>4, <1>5 DEF Step, NetworkStep

(* The chunks of a file stay in order.                                                             *)
LEMMA OrderKept ==
    ASSUME ObjectInv, ObjectInv', Effects, Effects', Order, Step
    PROVE  Order'
<1> SUFFICES ASSUME tx'.class = "file", ~pastNodes' PROVE Order'
  BY DEF Order
<1>1. tx.class = "file" /\ ~pastNodes
  BY DEF Step
<1>2. After(tx.currentChunk) /\ (\A e \in pool : After(e.chunk)) /\ FileInOrder
  BY <1>1 DEF Order
<1>3. \A i \in DOMAIN ledger : i \in DOMAIN ledger' /\ ledger'[i] = ledger[i]
  <2>1. ledger' = ledger \/ \E e : ledger' = Append(ledger, e)
    BY DEF Step, NetworkStep
  <2>2. ASSUME NEW e, ledger' = Append(ledger, e)
        PROVE  \A i \in DOMAIN ledger : i \in DOMAIN ledger' /\ ledger'[i] = ledger[i]
    <3>1. /\ DOMAIN ledger = 1..Len(ledger) /\ DOMAIN ledger' = 1..(Len(ledger) + 1)
          /\ \A i \in 1..Len(ledger) : ledger'[i] = ledger[i]
          /\ Len(ledger) \in Nat
      BY <2>2, AppendIs DEF Effects, IsLog
    <3>. QED
      BY <3>1
  <2>. QED
    BY <2>1, <2>2
<1>4. ASSUME NEW c, After(c)
      PROVE  c > 0 => \E j \in DOMAIN ledger' : ledger'[j].chunk = c - 1
  BY <1>3, <1>4 DEF After
<1>5. tx'.currentChunk > 0 => \E j \in DOMAIN ledger' : ledger'[j].chunk = tx'.currentChunk - 1
  <2>1. CASE tx'.currentChunk \in {0, tx.currentChunk}
    BY <1>2, <1>4, <2>1
  <2>2. CASE /\ tx'.currentChunk = tx.currentChunk + 1
             /\ phase = "receipt" /\ \E i \in DOMAIN ledger : ledger[i].id = response
    <3>1. PICK i \in DOMAIN ledger : ledger[i].id = response
      BY <2>2
    <3>2. response = Tick(tx.id, tx.currentChunk) /\ GoodId(tx.id) /\ tx.currentChunk \in Nat
      BY <2>2 DEF ObjectInv, Aim, TransactionOK, DataOK, Made
    <3>3. response.tick = tx.currentChunk
      BY <3>2, TickIs
    <3>4. ledger[i].id.tick = ledger[i].chunk
      BY DEF Effects, Live
    <3>5. ledger[i].chunk = tx.currentChunk
      BY <3>1, <3>3, <3>4
    <3>6. tx'.currentChunk - 1 = tx.currentChunk
      BY <2>2, <3>2
    <3>. QED
      BY <1>3, <3>5, <3>6
  <2>. QED
    BY <1>1, <2>1, <2>2 DEF Step, ChunkStep
<1>6. \A e \in pool' : After(e.chunk)
  <2>1. pool' \subseteq pool \/ (phase = "waiting" /\ pool' = pool \cup {request.sent})
    BY DEF Step, NetworkStep
  <2>2. phase = "waiting" => request.sent.chunk = tx.currentChunk
    BY <1>1 DEF ObjectInv, Aim
  <2>. QED
    BY <1>2, <2>1, <2>2
<1>7. \A i \in DOMAIN ledger' :
         ledger'[i].chunk > 0 => \E j \in 1..(i - 1) : ledger'[j].chunk = ledger'[i].chunk - 1
  <2>1. CASE ledger' = ledger
    BY <1>1, <1>2, <2>1 DEF FileInOrder
  <2>2. ASSUME NEW e \in pool, ledger' = Append(ledger, e)
        PROVE  \A i \in DOMAIN ledger' :
                  ledger'[i].chunk > 0 => \E j \in 1..(i - 1) : ledger'[j].chunk = ledger'[i].chunk - 1
    <3>1. /\ DOMAIN ledger = 1..Len(ledger) /\ DOMAIN ledger' = 1..(Len(ledger) + 1)
          /\ \A i \in 1..Len(ledger) : ledger'[i] = ledger[i]
          /\ ledger'[Len(ledger) + 1] = e /\ Len(ledger) \in Nat
      BY <2>2, AppendIs DEF Effects, IsLog
    <3>2. ASSUME NEW i \in 1..Len(ledger), ledger'[i].chunk > 0
          PROVE  \E j \in 1..(i - 1) : ledger'[j].chunk = ledger'[i].chunk - 1
      <4>1. PICK j \in 1..(i - 1) : ledger[j].chunk = ledger[i].chunk - 1
        BY <1>1, <1>2, <3>1, <3>2 DEF FileInOrder
      <4>2. j \in 1..Len(ledger)
        BY <3>1
      <4>. QED
        BY <3>1, <4>1, <4>2
    <3>3. ASSUME e.chunk > 0
          PROVE  \E j \in 1..((Len(ledger) + 1) - 1) : ledger'[j].chunk = e.chunk - 1
      <4>1. PICK j \in 1..Len(ledger) : ledger[j].chunk = e.chunk - 1
        BY <1>2, <2>2, <3>1, <3>3 DEF After
      <4>2. (Len(ledger) + 1) - 1 = Len(ledger)
        BY <3>1
      <4>. QED
        BY <3>1, <4>1, <4>2
    <3>4. \A i \in DOMAIN ledger' : i \in 1..Len(ledger) \/ i = Len(ledger) + 1
      BY <3>1
    <3>. QED
      BY <3>1, <3>2, <3>3, <3>4
  <2>3. ledger' = ledger \/ \E e \in pool : ledger' = Append(ledger, e)
    BY DEF Step, NetworkStep
  <2>. QED
    BY <2>1, <2>2, <2>3
<1>8. FileInOrder'
  BY <1>7 DEF FileInOrder
<1>. QED
  BY <1>4, <1>5, <1>6, <1>8 DEF Order, After

-----------------------------------------------------------------------------
(* What nodes have accepted.  A chunk is delivered if one has it with the data it has to have; if  *)
(* no ID was regenerated, under the ID of the transaction.                                         *)
Delivered(t, fresh, accepted, c) ==
    \E e \in accepted :
        /\ e.chunk = c
        /\ t.class # "plain" /\ (t.chunkSize # DefaultChunkSize \/ (fresh /\ Whole(t))) =>
              e.content = GetDataForChunk(t, c)
        /\ fresh => e.id = Tick(t.id, c)

(* Every chunk the loop is past is delivered, or was taken for it when its call failed, also if the *)
(* loop is that of an earlier execute.                                                             *)
Behind(c) == c < tx.currentChunk \/ (phase = "receipt" /\ c = tx.currentChunk)
Progress ==
    ~pastNodes => \A c \in Nat : Behind(c) => c \in unanswered \/ Delivered(tx, regenerated = 0, Accepted, c)

(* Nothing accepted is forgotten, nor is a call that failed, and the loop goes past a chunk only    *)
(* with what it sent accepted or its call failed; a new ID is the only thing by which a transaction *)
(* of which something was sent changes.                                                            *)
JustAccepted == phase = "waiting" /\ request.sent \in Accepted'
JustPassed == JustAccepted \/ (phase = "waiting" /\ tx.currentChunk \in unanswered')
Remembered == \A c \in Nat : Behind(c) /\ c \in unanswered => c \in unanswered'
DeliveryStep ==
    /\ Accepted \subseteq Accepted' /\ Remembered
    /\ \/ \A c \in Nat : ~Behind(c)' /\ regenerated' \in {regenerated, regenerated + 1}
       \/ /\ tx'.class = tx.class /\ tx'.data = tx.data /\ tx'.chunkSize = tx.chunkSize
          /\ (regenerated' = regenerated /\ GoesOn(tx', tx)) \/ regenerated' = regenerated + 1
          /\ \A c \in Nat : Behind(c)' => Behind(c) \/ (c = tx.currentChunk /\ JustPassed)

(* What is in the pool reaches consensus or fails.                                                 *)
LEMMA AcceptedGrows ==
    ASSUME Effects, [Next]_vars
    PROVE  Accepted \subseteq Accepted'
<1>1. CASE UNCHANGED networkVars
  BY <1>1 DEF networkVars, Accepted
<1>2. CASE NodeAccepts \/ CallFails \/ Expire
  BY <1>2 DEF NodeAccepts, CallFails, Expire, Accepted
<1>3. CASE ReachConsensus
  <2>1. PICK e \in pool : /\ pool' = pool \ {e}
                          /\ \/ ledger' = Append(ledger, e) /\ failed' = failed
                             \/ failed' = failed \cup {e} /\ ledger' = ledger
    BY <1>3 DEF ReachConsensus
  <2>2. CASE ledger' = Append(ledger, e) /\ failed' = failed
    <3>1. /\ DOMAIN ledger = 1..Len(ledger) /\ DOMAIN ledger' = 1..(Len(ledger) + 1)
          /\ \A i \in 1..Len(ledger) : ledger'[i] = ledger[i]
          /\ ledger'[Len(ledger) + 1] = e /\ Len(ledger) \in Nat
      BY <2>2, AppendIs DEF Effects, IsLog
    <3>2. \A i \in DOMAIN ledger : i \in DOMAIN ledger' /\ ledger'[i] = ledger[i]
      BY <3>1
    <3>3. Len(ledger) + 1 \in DOMAIN ledger'
      BY <3>1
    <3>. QED
      BY <2>1, <2>2, <3>1, <3>2, <3>3 DEF Accepted
  <2>3. CASE failed' = failed \cup {e} /\ ledger' = ledger
    BY <2>1, <2>3 DEF Accepted
  <2>. QED
    BY <2>1, <2>2, <2>3
<1>4. CASE Application
  <2>1. UNCHANGED networkVars
    BY <1>4 DEF Application, SetData, SetNodeAccountIds, SetTransactionId, Sign, AddSignatureOf, Freeze,
                SignWithOperator, Build, SaveAndRestore, ChangeOperator, Execute, Prepare
  <2>. QED
    BY <1>1, <2>1
<1>5. CASE Execution
  BY <1>1, <1>5 DEF Execution, OnExecute, Attempt, GetReceipt
<1>6. CASE NodeUnavailable \/ NodeRefuses
  BY <1>1, <1>6 DEF NodeUnavailable, NodeRefuses
<1>7. CASE NodeFindsExpired
  BY <1>1, <1>7 DEF NodeFindsExpired
<1>8. CASE UNCHANGED vars
  BY <1>1, <1>8 DEF vars
<1>. QED
  BY <1>2, <1>3, <1>4, <1>5, <1>6, <1>7, <1>8 DEF Next, Network

(* An attempt forgets the failed call of the chunk it sends, which the loop is not past.           *)
LEMMA FailuresRemembered ==
    ASSUME ObjectInv, [Next]_vars
    PROVE  Remembered
<1>1. CASE unanswered \subseteq unanswered'
  BY <1>1 DEF Remembered
<1>2. CASE Attempt
  <2>1. phase = "attempting" /\ unanswered \ {tx.currentChunk} \subseteq unanswered'
    BY <1>2 DEF Attempt
  <2>2. tx.currentChunk \in Nat
    BY DEF ObjectInv, TransactionOK, DataOK
  <2>. QED
    BY <2>1, <2>2 DEF Remembered, Behind
<1>3. CASE Application
  <2>1. unanswered' = unanswered
    BY <1>3 DEF Application, SetData, SetNodeAccountIds, SetTransactionId, Sign, AddSignatureOf, Freeze,
                SignWithOperator, Build, SaveAndRestore, ChangeOperator, Execute, Prepare, historyVars
  <2>. QED
    BY <1>1, <2>1
<1>4. CASE OnExecute \/ GetReceipt \/ Network
  <2>1. unanswered \subseteq unanswered'
    BY <1>4 DEF OnExecute, GetReceipt, Network, NodeUnavailable, NodeAccepts, CallFails, NodeRefuses,
                NodeFindsExpired, ReachConsensus, Expire, historyVars
  <2>. QED
    BY <1>1, <2>1
<1>5. CASE UNCHANGED vars
  BY <1>1, <1>5 DEF vars, historyVars
<1>. QED
  BY <1>2, <1>3, <1>4, <1>5 DEF Next, Execution

(* A step of the loop.                                                                             *)
LEMMA DeliveryFrom ==
    ASSUME ObjectInv, ObjectInv', Accepted \subseteq Accepted', Remembered, regenerated' = regenerated,
           tx'.currentChunk = 0 \/ GoesOn(tx', tx),
           phase' = "receipt" => GoesOn(tx', tx) /\ tx'.currentChunk = tx.currentChunk,
           phase' = "receipt" => phase = "receipt" \/ JustPassed,
           \/ tx'.currentChunk \in {0, tx.currentChunk}
           \/ tx'.currentChunk = tx.currentChunk + 1 /\ (phase = "receipt" \/ JustPassed)
    PROVE  DeliveryStep
<1>1. tx.currentChunk \in Nat /\ tx'.currentChunk \in Nat
  BY DEF ObjectInv, TransactionOK, DataOK
<1>2. CASE tx'.currentChunk = 0 /\ phase' # "receipt"
  BY <1>2 DEF DeliveryStep, Behind
<1>3. CASE GoesOn(tx', tx)
  <2>1. tx'.class = tx.class /\ tx'.data = tx.data /\ tx'.chunkSize = tx.chunkSize
    BY <1>3 DEF GoesOn, SameContents
  <2>2. ASSUME NEW c \in Nat, Behind(c)' PROVE Behind(c) \/ (c = tx.currentChunk /\ JustPassed)
    BY <1>1, <2>2 DEF Behind
  <2>. QED
    BY <1>3, <2>1, <2>2 DEF DeliveryStep
<1>. QED
  BY <1>2, <1>3

(* A step that leaves the transaction as it is.                                                    *)
LEMMA DeliveryAlone ==
    ASSUME ObjectInv, ObjectInv', Accepted \subseteq Accepted', Remembered, regenerated' = regenerated, tx' = tx,
           phase' = "receipt" => phase = "receipt" \/ JustPassed
    PROVE  DeliveryStep
<1>1. tx.frozen => GoesOn(tx', tx)
  BY DEF GoesOn, SameContents
<1>2. phase' = "receipt" => tx.frozen
  BY DEF ObjectInv
<1>. QED
  BY <1>1, <1>2, FirstUnfrozen, DeliveryFrom

(* The loop goes on.                                                                               *)
LEMMA DeliveryAt ==
    ASSUME ObjectInv, ObjectInv', Accepted \subseteq Accepted', Remembered, regenerated' = regenerated,
           NEW n \in Nat, ContinueAt(tx, n),
           n = tx.currentChunk \/ (n = tx.currentChunk + 1 /\ (phase = "receipt" \/ JustPassed))
    PROVE  DeliveryStep
<1>1. TransactionOK(tx) /\ phase' # "receipt"
  BY DEF ObjectInv, ContinueAt, Ends
<1>2. PICK m \in {0, n} : tx' = [tx EXCEPT !.currentChunk = m]
  BY DEF ContinueAt
<1>3. IsTransaction(tx)
  BY <1>1 DEF TransactionOK
<1>4. PICK frozen : frozen = tx.frozen
  OBVIOUS
<1>5. tx = [class |-> tx.class, frozen |-> frozen, id |-> tx.id, nodes |-> tx.nodes, data |-> tx.data,
            chunkSize |-> tx.chunkSize, currentChunk |-> tx.currentChunk, signatories |-> tx.signatories,
            signedTransactions |-> tx.signedTransactions, transactions |-> tx.transactions]
  BY <1>3, <1>4, Zenon DEF IsTransaction
<1>6. tx' = [class |-> tx.class, frozen |-> frozen, id |-> tx.id, nodes |-> tx.nodes, data |-> tx.data,
             chunkSize |-> tx.chunkSize, currentChunk |-> m, signatories |-> tx.signatories,
             signedTransactions |-> tx.signedTransactions, transactions |-> tx.transactions]
  BY <1>2, <1>5
<1>7. tx'.currentChunk = m /\ tx'.frozen = frozen /\ tx'.id = tx.id /\ SameContents(tx', tx)
  BY <1>6 DEF SameContents
<1>8. tx.frozen => GoesOn(tx', tx)
  BY <1>4, <1>7 DEF GoesOn
<1>9. n = tx.currentChunk + 1 => tx.frozen
  BY DEF ObjectInv, JustPassed, JustAccepted, TransactionOK, DataOK
<1>10. tx'.currentChunk = 0 \/ GoesOn(tx', tx)
  BY <1>7, <1>8, <1>9, FirstUnfrozen
<1>. QED
  BY <1>1, <1>7, <1>10, DeliveryFrom

(* Every step.                                                                                     *)
LEMMA DeliveryIs ==
    ASSUME ObjectInv, ObjectInv', Effects, [Next]_vars
    PROVE  DeliveryStep
<1>1. Accepted \subseteq Accepted' /\ Remembered
  BY AcceptedGrows, FailuresRemembered
<1>2. tx.currentChunk \in Nat /\ tx.currentChunk + 1 \in Nat
  BY DEF ObjectInv, TransactionOK, DataOK
<1>3. CASE Application
  <2>1. CASE Execute
    <3>1. regenerated' = regenerated
      BY <2>1 DEF Execute, historyVars
    <3>2. CASE Throw /\ tx' = tx
      <4>1. phase' # "receipt"
        BY <3>2 DEF Throw, Ends
      <4>. QED
        BY <1>1, <3>1, <3>2, <4>1, DeliveryAlone
    <3>3. CASE ContinueAt(tx, tx.currentChunk)
      BY <1>1, <1>2, <3>1, <3>3, DeliveryAt
    <3>. QED
      BY <2>1, <3>2, <3>3 DEF Execute
  <2>2. CASE CallStep
    BY <1>1, <2>2, DeliveryFrom DEF CallStep
  <2>. QED
    BY <1>3, <2>1, <2>2, CallIs
<1>4. CASE OnExecute
  <2>1. regenerated' = regenerated
    BY <1>4 DEF OnExecute, historyVars
  <2>2. CASE Throw /\ tx' = tx
    <3>1. phase' # "receipt"
      BY <2>2 DEF Throw, Ends
    <3>. QED
      BY <1>1, <2>1, <2>2, <3>1, DeliveryAlone
  <2>3. ASSUME NEW t \in FrozenTransactions, BeginAttempts(Executed(t)), GenerateIfMissing
        PROVE  DeliveryStep
    <3>1. /\ TransactionOK(t) /\ t.frozen /\ t.currentChunk = tx.currentChunk
          /\ t.currentChunk = 0 \/ GoesOn(t, tx)
      BY <2>3, FreezesIs
    <3>2. tx' = Executed(t) /\ phase' = "attempting"
      BY <2>3 DEF BeginAttempts
    <3>3. tx' = t \/ StillFrozen(tx', t)
      BY <3>1, <3>2, OperatorSigns DEF Executed, ObjectInv
    <3>4. tx'.currentChunk = tx.currentChunk /\ (tx'.currentChunk = 0 \/ GoesOn(tx', tx))
      BY <3>1, <3>3 DEF StillFrozen, SameTransaction, SameWork, GoesOn, SameContents
    <3>. QED
      BY <1>1, <2>1, <3>2, <3>4, DeliveryFrom
  <2>. QED
    BY <1>4, <2>2, <2>3 DEF OnExecute
<1>5. CASE Attempt
  <2>1. regenerated' = regenerated /\ phase = "attempting" /\ phase' # "receipt"
    BY <1>5 DEF Attempt, Throw, Ends
  <2>2. CASE tx' = tx
    BY <1>1, <2>1, <2>2, DeliveryAlone
  <2>3. ASSUME NEW i, tx' = BuildTransactions(tx, client, {i})
        PROVE  DeliveryStep
    <3>1. TransactionOK(tx) /\ tx.frozen /\ client.private \in Keys \cup {None}
      BY <2>1 DEF ObjectInv, ClientOK
    <3>2. \A j \in DOMAIN tx.signedTransactions :
             IsBody(tx.signedTransactions[j]) /\ tx.transactions[j] \in {NotBuilt, tx.signedTransactions[j]}
      BY <3>1 DEF TransactionOK, Made, Bodies, BodyFor
    <3>3. Rebuilt(tx', tx, client, {i})
      BY <2>3, <3>1, <3>2, BuildIs DEF TransactionOK
    <3>4. StillFrozen(tx', tx)
      BY <3>1, <3>3, BuildKeeps
    <3>5. GoesOn(tx', tx) /\ tx'.currentChunk = tx.currentChunk
      BY <3>1, <3>4, StillGoesOn DEF StillFrozen, SameTransaction, SameWork
    <3>. QED
      BY <1>1, <2>1, <3>5, DeliveryFrom
  <2>. QED
    BY <1>5, <2>2, <2>3 DEF Attempt
<1>6. CASE GetReceipt
  <2>1. regenerated' = regenerated /\ phase = "receipt"
    BY <1>6 DEF GetReceipt, historyVars
  <2>2. CASE tx' = tx
    BY <1>1, <2>1, <2>2, DeliveryAlone
  <2>3. CASE ContinueAt(tx, tx.currentChunk + 1)
    BY <1>1, <1>2, <2>1, <2>3, DeliveryAt
  <2>. QED
    BY <1>6, <2>2, <2>3 DEF GetReceipt
<1>7. CASE NodeUnavailable \/ NodeRefuses \/ (NodeAccepts /\ Retry)
  <2>1. regenerated' = regenerated /\ tx' = tx /\ phase' # "receipt"
    BY <1>7 DEF NodeUnavailable, NodeRefuses, NodeAccepts, Retry, Throw, Ends, historyVars
  <2>. QED
    BY <1>1, <2>1, DeliveryAlone
<1>8. CASE (NodeAccepts /\ Success) \/ CallFails
  <2>1. regenerated' = regenerated /\ JustPassed /\ Success
    BY <1>8 DEF NodeAccepts, CallFails, JustPassed, JustAccepted, Accepted, historyVars
  <2>2. CASE tx' = tx
    BY <1>1, <2>1, <2>2, DeliveryAlone
  <2>3. CASE ContinueAt(tx, tx.currentChunk + 1)
    BY <1>1, <1>2, <2>1, <2>3, DeliveryAt
  <2>. QED
    BY <2>1, <2>2, <2>3 DEF Success
<1>9. CASE NodeFindsExpired
  <2>1. phase = "waiting" /\ phase' # "receipt"
    BY <1>9 DEF NodeFindsExpired, Throw, Ends
  <2>2. CASE tx' = tx /\ regenerated' = regenerated
    BY <1>1, <2>1, <2>2, DeliveryAlone
  <2>3. CASE regenerated' = regenerated + 1
             /\ tx' = RegenerateSignedTransactions([tx EXCEPT !.id = NewId(tx.id.account)])
    <3>1. PICK id, v : id = NewId(tx.id.account) /\ v = [tx EXCEPT !.id = id]
      OBVIOUS
    <3>2. TransactionOK(tx) /\ tx.frozen /\ generated \in Nat
      BY <2>1 DEF ObjectInv
    <3>3. GoodId(tx.id)
      BY <3>2 DEF TransactionOK, Made
    <3>4. GoodId(id)
      BY <3>1, <3>2, <3>3 DEF NewId, GoodId, Ids
    <3>5. SameWork(tx', tx)
      BY <2>3, <3>1, <3>2, <3>4, NewIdIs
    <3>6. \A c \in Nat : Behind(c)' => Behind(c)
      BY <2>1, <3>5 DEF Behind, SameWork
    <3>. QED
      BY <1>1, <2>3, <3>5, <3>6 DEF DeliveryStep, SameWork
  <2>. QED
    BY <1>9, <2>2, <2>3 DEF NodeFindsExpired
<1>10. CASE ReachConsensus \/ Expire \/ UNCHANGED vars
  <2>1. regenerated' = regenerated /\ tx' = tx /\ phase' = phase
    BY <1>10 DEF ReachConsensus, Expire, vars, historyVars, executionVars
  <2>. QED
    BY <1>1, <2>1, DeliveryAlone
<1>. QED
  BY <1>3, <1>4, <1>5, <1>6, <1>7, <1>8, <1>9, <1>10 DEF Next, Execution, Network, NodeAccepts

(* What was delivered stays so, as long as the transaction goes on or gets a new ID.               *)
LEMMA DeliveredStays ==
    ASSUME NEW u, NEW t, u.class = t.class, u.data = t.data, u.chunkSize = t.chunkSize,
           NEW fresh \in BOOLEAN, NEW still \in BOOLEAN,
           still => fresh /\ u.id = t.id /\ (Whole(u) => Whole(t)),
           NEW old, NEW new, old \subseteq new, NEW c, Delivered(t, fresh, old, c)
    PROVE  Delivered(u, still, new, c)
<1>1. PICK e \in old :
        /\ e.chunk = c
        /\ t.class # "plain" /\ (t.chunkSize # DefaultChunkSize \/ (fresh /\ Whole(t))) =>
              e.content = GetDataForChunk(t, c)
        /\ fresh => e.id = Tick(t.id, c)
  BY DEF Delivered
<1>2. e \in new /\ GetDataForChunk(u, c) = GetDataForChunk(t, c)
  BY Zenon DEF GetDataForChunk
<1>. QED
  BY <1>1, <1>2 DEF Delivered

(* What a node just accepted is what its chunk has to be.                                          *)
LEMMA SentDelivers ==
    ASSUME ObjectInv, ~pastNodes, JustAccepted
    PROVE  Delivered(tx, regenerated = 0, Accepted', tx.currentChunk)
<1>1. /\ request.sent.chunk = tx.currentChunk /\ request.nodeIndex <= Len(tx.nodes)
      /\ RightRequest /\ tx.frozen /\ TransactionOK(tx)
  BY DEF ObjectInv, Aim, JustAccepted
<1>2. /\ request.sent.id = Tick(tx.id, tx.currentChunk)
      /\ Whole(tx) /\ tx.class # "plain" => request.sent.content = GetDataForChunk(tx, tx.currentChunk)
  BY <1>1 DEF JustAccepted, RightRequest, GetCurrentTransactionId
<1>3. tx.chunkSize # DefaultChunkSize => Whole(tx)
  BY <1>1, WholeAnew DEF TransactionOK
<1>. QED
  BY <1>1, <1>2, <1>3 DEF Delivered, JustAccepted

(* Every step keeps what is said of the chunks.                                                    *)
LEMMA ProgressKept ==
    ASSUME ObjectInv, ObjectInv', Step, DeliveryStep, Progress
    PROVE  Progress'
<1>1. regenerated \in Nat /\ regenerated' \in {regenerated, regenerated + 1}
  BY DEF ObjectInv, DeliveryStep
<1>2. ASSUME ~pastNodes', NEW c \in Nat, Behind(c)'
      PROVE  c \in unanswered' \/ Delivered(tx', regenerated' = 0, Accepted', c)
  <2>1. /\ tx'.class = tx.class /\ tx'.data = tx.data /\ tx'.chunkSize = tx.chunkSize
        /\ (regenerated' = regenerated /\ GoesOn(tx', tx)) \/ regenerated' = regenerated + 1
        /\ Behind(c) \/ (c = tx.currentChunk /\ JustPassed)
        /\ Accepted \subseteq Accepted' /\ Remembered
    BY <1>2 DEF DeliveryStep
  <2>2. ~pastNodes
    BY <1>2 DEF Step
  <2>3. c \in unanswered' \/ Delivered(tx, regenerated = 0, Accepted', c)
    <3>1. CASE Behind(c)
      <4>1. c \in unanswered \/ Delivered(tx, regenerated = 0, Accepted, c)
        BY <2>2, <3>1 DEF Progress
      <4>2. c \in unanswered => c \in unanswered'
        BY <2>1, <3>1 DEF Remembered
      <4>. QED
        BY <2>1, <4>1, <4>2 DEF Delivered
    <3>2. CASE c = tx.currentChunk /\ JustPassed
      BY <2>2, <3>2, SentDelivers DEF JustPassed
    <3>. QED
      BY <2>1, <3>1, <3>2
  <2>4. PICK fresh, still : fresh = (regenerated = 0) /\ still = (regenerated' = 0)
    OBVIOUS
  <2>5. fresh \in BOOLEAN /\ still \in BOOLEAN
    BY <2>4
  <2>6. still => fresh /\ tx'.id = tx.id /\ (Whole(tx') => Whole(tx))
    <3>1. still => fresh /\ GoesOn(tx', tx)
      <4>1. regenerated' = 0 => regenerated = 0 /\ regenerated' # regenerated + 1
        BY <1>1
      <4>2. (still <=> regenerated' = 0) /\ (fresh <=> regenerated = 0)
        BY <2>4
      <4>. QED
        BY <2>1, <4>1, <4>2, Zenon
    <3>2. GoesOn(tx', tx) => Made(tx) /\ Made(tx')
      BY DEF GoesOn, ObjectInv, TransactionOK
    <3>. QED
      BY <3>1, <3>2, WholeBefore DEF GoesOn
  <2>7. c \in unanswered' \/ Delivered(tx, fresh, Accepted', c)
    BY <2>3, <2>4
  <2>8. c \in unanswered' \/ Delivered(tx', still, Accepted', c)
    BY <2>1, <2>5, <2>6, <2>7, DeliveredStays
  <2>. QED
    BY <2>4, <2>8
<1>. QED
  BY <1>2 DEF Progress

-----------------------------------------------------------------------------
(* The inductive invariant.                                                                        *)
TransactionInv == ObjectInv /\ SignedByNamed /\ SignedInFull /\ Effects /\ Order /\ Progress

(* A new transaction, and a client without an operator.                                            *)
LEMMA InitOK == Init => TransactionInv
<1> SUFFICES ASSUME Init PROVE TransactionInv
  OBVIOUS
<1>1. PICK class \in Classes, size \in Nat \ {0}, data \in Data : tx = NewTransaction(class, data, size)
  BY ExecutionAssumption, TransactionAssumption DEF Init
<1>2. PICK no, absent : no = FALSE /\ absent = [k \in Keys |-> "absent"]
  OBVIOUS
<1>3. tx = [class |-> class, frozen |-> no, id |-> None, nodes |-> <<>>, data |-> data,
            chunkSize |-> size, currentChunk |-> 0, signatories |-> absent,
            signedTransactions |-> <<>>, transactions |-> <<>>]
  BY <1>1, <1>2, Zenon DEF NewTransaction
<1>4. /\ IsTransaction(tx) /\ tx.frozen = no /\ tx.id = None /\ tx.nodes = <<>> /\ tx.currentChunk = 0
      /\ tx.signatories = absent /\ tx.class = class /\ tx.data = data /\ tx.chunkSize = size
  BY ONLY <1>3 DEF IsTransaction
<1>5. ~tx.frozen /\ tx.frozen \in BOOLEAN
  BY <1>2, <1>4, Zenon
<1>6. Signers(tx) /\ \A k \in Keys : tx.signatories[k] = "absent"
  BY <1>2, <1>4 DEF Signers
<1>7. TransactionOK(tx) /\ AllAuthentic(tx) /\ OperatorStays(tx, client)
  <2>1. DataOK(tx)
    BY <1>4, DataIs, ExecutionAssumption DEF DataOK
  <2>. QED
    BY <1>4, <1>5, <1>6, <2>1 DEF TransactionOK, AllAuthentic, OperatorStays
<1>8. ClientOK(client)
  BY DEF Init, NoOperator, ClientOK
<1>9. phase = "idle" /\ generated = 0 /\ regenerated = 0 /\ pool = {} /\ ledger = <<>>
  BY DEF Init
<1>10. ObjectInv
  BY <1>4, <1>7, <1>8, <1>9 DEF ObjectInv, Aim, RightRequest
<1>11. SignedByNamed
  BY <1>7, <1>9 DEF SignedByNamed
<1>12. SignedInFull
  <2>1. Signatories(tx) = {}
    BY <1>6 DEF Signatories
  <2>. QED
    BY <1>5, <1>9, <2>1, FS_EmptySet DEF SignedInFull, InFull
<1>13. IsLog(ledger) /\ DOMAIN ledger = {}
  BY <1>9 DEF IsLog
<1>14. Effects
  BY <1>9, <1>13 DEF Effects, Live
<1>15. Order
  BY <1>4, <1>9, <1>13 DEF Order, After, FileInOrder
<1>16. Progress
  BY <1>4, <1>9 DEF Progress, Behind
<1>. QED
  BY <1>10, <1>11, <1>12, <1>14, <1>15, <1>16 DEF TransactionInv

(* Every step keeps it.                                                                            *)
LEMMA Inductive == TransactionInv /\ [Next]_vars => TransactionInv'
<1> SUFFICES ASSUME TransactionInv, [Next]_vars PROVE TransactionInv'
  OBVIOUS
<1>1. ObjectInv' /\ Step /\ SignedByNamed' /\ SignedInFull'
  BY NextKeeps DEF TransactionInv, Kept
<1>2. Effects'
  BY <1>1, EffectsKept DEF TransactionInv
<1>3. Order'
  BY <1>1, <1>2, OrderKept DEF TransactionInv
<1>4. Progress'
  BY <1>1, DeliveryIs, ProgressKept DEF TransactionInv
<1>. QED
  BY <1>1, <1>2, <1>3, <1>4 DEF TransactionInv

LEMMA Invariant == Spec => []TransactionInv
BY InitOK, Inductive, PTL DEF Spec

(* A request carries the node it goes to, the ID of its chunk and what its chunk holds, through     *)
(* exceptions, new IDs, signatures added late and restoring: the index makeRequest computes from    *)
(* the chunk and the node is where the body for both was put when they were fixed.                  *)
THEOREM RequestsAreRight == Spec => []RightRequest
<1>1. TransactionInv => RightRequest
  BY DEF TransactionInv, ObjectInv, Aim
<1>. QED
  BY <1>1, Invariant, PTL

(* Every signature of what is sent was made with the private key it names, however signing,        *)
(* adding, building, restoring and regenerating are mixed, as long as no operator is replaced that *)
(* lent its signing function and has yet to sign.                                                  *)
THEOREM SignaturesByTheirKeys == Spec => []SignaturesAuthentic
<1>1. TransactionInv => SignaturesAuthentic
  BY DEF TransactionInv, SignedByNamed, Authentic, SignaturesAuthentic
<1>. QED
  BY <1>1, Invariant, PTL

(* Whatever is sent carries the signature of every key that signed it, in whatever order signing,  *)
(* adding, building, saving, restoring and a new ID came, but for those that were added and cannot *)
(* be made again, and of no key more often than keys have signed: buildTransaction appends the     *)
(* signature of every signer again when signing made it throw away what was built.                 *)
THEOREM EverySignerSigns == Spec => []SignedByAll
<1>1. ASSUME TransactionInv PROVE SignedByAll
  <2> SUFFICES ASSUME phase = "waiting"
               PROVE  /\ \A k \in Keys : Len(request.sent.signatures[k]) <= Cardinality(Signatories(tx))
                      /\ \A k \in Signatories(tx) :
                            \/ request.sent.signatures[k] # <<>>
                            \/ /\ tx.signatories[k] = "added"
                               /\ regenerated > 0 \/ request.nodeIndex > Len(tx.nodes)
    BY DEF SignedByAll
  <2>1. /\ Cardinality(Given(tx)) \in Nat /\ Cardinality(Signatories(tx)) \in Nat
        /\ Cardinality(Given(tx)) <= Cardinality(Signatories(tx))
    BY <1>1, GivenIs DEF TransactionInv, SignedInFull, InFull
  <2>2. ASSUME NEW k \in Keys
        PROVE  /\ Len(request.sent.signatures[k]) <= Cardinality(Given(tx)) /\ Len(request.sent.signatures[k]) \in Nat
               /\ tx.signatories[k] # "absent" =>
                     \/ request.sent.signatures[k] # <<>>
                     \/ tx.signatories[k] = "added" /\ (regenerated > 0 \/ request.nodeIndex > Len(tx.nodes))
    <3>1. request.sent.signatures[k] \in Seq(Keys \cup {None})
      BY <1>1 DEF TransactionInv, ObjectInv, Aim, BodyFor, IsBody
    <3>. QED
      BY <1>1, <3>1 DEF TransactionInv, SignedInFull
  <2>3. ASSUME NEW k \in Keys PROVE Len(request.sent.signatures[k]) <= Cardinality(Signatories(tx))
    <3>1. PICK l, a, b : /\ l = Len(request.sent.signatures[k])
                         /\ a = Cardinality(Given(tx)) /\ b = Cardinality(Signatories(tx))
      OBVIOUS
    <3>2. l \in Nat /\ a \in Nat /\ b \in Nat /\ l <= a /\ a <= b
      BY <2>1, <2>2, <3>1, Zenon
    <3>3. l <= b
      BY ONLY <3>2
    <3>. QED
      BY <3>1, <3>3, Zenon
  <2>4. \A k \in Signatories(tx) :
           \/ request.sent.signatures[k] # <<>>
           \/ tx.signatories[k] = "added" /\ (regenerated > 0 \/ request.nodeIndex > Len(tx.nodes))
    BY <2>2, Zenon DEF Signatories
  <2>. QED
    BY <2>3, <2>4
<1>. QED
  BY <1>1, Invariant, PTL

(* The operator that pays for what is sent has signed it, whether or not expired IDs are replaced,  *)
(* however the transaction came about and whichever keys the client had before: onExecute signs    *)
(* with the operator's key if the account is the one of the transaction ID, and the private key it  *)
(* has is that of its account as long as no setOperatorWith left another public key.  The exception *)
(* is an operator that added its signature to the bytes: it is lost with the first bodies, and     *)
(* missing past the nodes.                                                                         *)
THEOREM OperatorPaysSigned == Spec => []PayerSigns
<1>1. ASSUME TransactionInv PROVE PayerSigns
  <2> SUFFICES ASSUME phase = "waiting",
                      client.account = tx.id.account, client.public \in {None, client.account}
               PROVE  \/ request.sent.signatures[client.account] # <<>>
                      \/ /\ tx.signatories[client.account] = "added"
                         /\ regenerated > 0 \/ request.nodeIndex > Len(tx.nodes)
    BY DEF PayerSigns
  <2>1. client.account \in Keys
    BY <1>1 DEF TransactionInv, ObjectInv, TransactionOK, Made, GoodId, Ids
  <2>2. tx.signatories[client.account] # "absent"
    BY <1>1 DEF TransactionInv, SignedInFull
  <2>. QED
    BY <1>1, <2>1, <2>2 DEF TransactionInv, SignedInFull
<1>. QED
  BY <1>1, Invariant, PTL

(* What fits into one chunk comes back from bytes with its data, its ID and its nodes, and a frozen *)
(* transaction that was not made anew with those who signed it: the first of the bodies written    *)
(* has all of the data, and the signature of every one of them.                                    *)
THEOREM RestoredIsSaved == Spec => RestoredAsSaved
<1>1. ASSUME TransactionInv, SaveAndRestore
      PROVE  /\ OneChunk(tx) => tx'.data = tx.data /\ tx'.id = tx.id /\ tx'.nodes = tx.nodes
             /\ (tx.frozen /\ regenerated = 0) => Signatories(tx') = Signatories(tx)
  <2>1. tx' = Reload(tx, client) /\ CanReload(tx, client)
    BY <1>1 DEF SaveAndRestore, Prepare
  <2>2. TransactionOK(tx) /\ client.private \in Keys \cup {None} /\ InFull(tx, regenerated > 0)
    BY <1>1 DEF TransactionInv, ObjectInv, ClientOK, SignedInFull
  <2>3. RestoredFrom(tx', tx, client)
    BY <2>1, <2>2, ReloadIs
  <2>4. ASSUME tx.frozen, regenerated = 0 PROVE Signatories(tx') = Signatories(tx)
    <3>1. (regenerated > 0) = FALSE
      BY <2>4
    <3>2. InFull(tx, FALSE)
      BY <2>2, <3>1
    <3>3. tx.frozen /\ ~FALSE => Signatories(tx') = Signatories(tx)
      BY <2>2, <2>3, <3>2, ReloadOwes
    <3>. QED
      BY <2>4, <3>3
  <2>. QED
    BY <2>3, <2>4, Zenon DEF RestoredFrom
<1>. QED
  BY <1>1, Invariant, PTL DEF RestoredAsSaved

(* A file's chunks take effect in order, through lost answers, exceptions, new IDs and restoring:  *)
(* executeAll waits for the receipt of one before it sends the next.                               *)
THEOREM ChunksOfFileInOrder == Spec => []FileInOrder
<1>1. TransactionInv => FileInOrder
  BY DEF TransactionInv, Order, FileInOrder
<1>. QED
  BY <1>1, Invariant, PTL

(* However often execute retries and is called again, a chunk takes effect at most once for every  *)
(* ID generated, and for those the application asked for only if the policy forbids new ones: the  *)
(* requests of one chunk under one ID are one transaction to the network.                          *)
THEOREM OneEffectPerId == Spec => []EffectsPerId
<1>1. TransactionInv => EffectsPerId
  <2> SUFFICES ASSUME TransactionInv, NEW i \in DOMAIN ledger
               PROVE  Cardinality({j \in DOMAIN ledger : ledger[j].chunk = ledger[i].chunk}) <=
                         IF regenerate THEN generated ELSE generated - regenerated
    BY DEF EffectsPerId
  <2>1. PICK S, T : S = {j \in DOMAIN ledger : ledger[j].chunk = ledger[i].chunk} /\ T = 1..generated
    OBVIOUS
  <2>2. PICK f : f = [j \in S |-> ledger[j].id.gen]
    OBVIOUS
  <2>3. generated \in Nat /\ (~regenerate => regenerated = 0)
    BY DEF TransactionInv, ObjectInv, Effects
  <2>4. \A j \in S : /\ ledger[j].id \in Ids /\ ledger[j].id.tick = ledger[i].chunk
                     /\ ledger[j].id.gen \in T
    BY <2>1 DEF TransactionInv, Effects, Live
  <2>5. ASSUME NEW j \in S, NEW k \in S, ledger[j].id.gen = ledger[k].id.gen PROVE j = k
    <3>1. ledger[j].id.account = ledger[k].id.account
      BY <2>1, <2>5 DEF TransactionInv, Effects, Live
    <3>2. ledger[j].id = ledger[k].id
      BY <2>4, <2>5, <3>1 DEF Ids
    <3>. QED
      BY <2>1, <3>2 DEF TransactionInv, Effects
  <2>6. f \in Injection(S, T)
    <3>1. f \in [S -> T]
      BY <2>2, <2>4
    <3>2. \A j, k \in S : f[j] = f[k] => j = k
      BY <2>2, <2>5
    <3>. QED
      BY <3>1, <3>2 DEF Injection, IsInjective
  <2>7. IsFiniteSet(T) /\ Cardinality(T) = generated
    BY <2>1, <2>3, FS_Interval
  <2>8. Cardinality(S) <= generated
    BY <2>6, <2>7, FS_Injection
  <2>. QED
    BY <2>1, <2>3, <2>8
<1>. QED
  BY <1>1, Invariant, PTL

(* When execute returns, a node has accepted every chunk whose last call got a response, those of  *)
(* earlier executes that ended in an exception included, with the data of the chunk, and under IDs *)
(* made from the transaction's if none was regenerated: the loop goes past a chunk only with an    *)
(* answer to it or a failed call, whose empty response says OK, and mCurrentChunk outlives an      *)
(* exception only as long as nothing can be set.                                                   *)
THEOREM ReturnsWhenAccepted == Spec => ReturnMeansAccepted
<1>1. ASSUME TransactionInv, Next, phase # "idle", phase' = "idle", outcome' = "returned"
      PROVE  /\ GetNumberOfChunksRequired(tx) <= tx.currentChunk + 1
             /\ phase = "receipt" \/ JustPassed
  <2>1. CASE Application
    BY <1>1, <2>1 DEF Application, SetData, SetNodeAccountIds, SetTransactionId, Sign, AddSignatureOf, Freeze,
                      SignWithOperator, Build, SaveAndRestore, ChangeOperator, Execute, Prepare, Call
  <2>2. CASE OnExecute \/ Attempt
    BY <1>1, <2>2 DEF OnExecute, BeginAttempts, Attempt, Throw, Ends
  <2>3. ~(ReachConsensus \/ Expire \/ NodeUnavailable \/ NodeRefuses \/ NodeFindsExpired)
    BY <1>1 DEF ReachConsensus, Expire, executionVars, NodeUnavailable, NodeRefuses, NodeFindsExpired,
                Retry, Throw, Ends
  <2>4. ASSUME ContinueAt(tx, tx.currentChunk + 1)
        PROVE  GetNumberOfChunksRequired(tx) <= tx.currentChunk + 1
    <3>1. ~(tx.currentChunk + 1 < GetNumberOfChunksRequired(tx))
      BY <1>1, <2>4 DEF ContinueAt
    <3>2. tx.currentChunk \in Nat /\ GetNumberOfChunksRequired(tx) \in Nat
      BY <1>1, CutOfIs DEF TransactionInv, ObjectInv, TransactionOK, DataOK
    <3>. QED
      BY <3>1, <3>2
  <2>5. CASE GetReceipt
    BY <1>1, <2>4, <2>5 DEF GetReceipt, Throw, Ends
  <2>6. CASE NodeAccepts
    BY <1>1, <2>4, <2>6 DEF NodeAccepts, Retry, Success, JustPassed, JustAccepted, Accepted
  <2>7. CASE CallFails
    BY <1>1, <2>4, <2>7 DEF CallFails, Success, JustPassed
  <2>. QED
    BY <1>1, <2>1, <2>2, <2>3, <2>5, <2>6, <2>7 DEF Next, Execution, Network
<1>2. ASSUME TransactionInv, [Next]_vars, ~UNCHANGED vars,
             phase # "idle", phase' = "idle", outcome' = "returned", Whole(tx), ~pastNodes,
             NEW c \in 0..(GetNumberOfChunksRequired(tx) - 1)
      PROVE  \/ c \in unanswered'
             \/ \E e \in Accepted' :
                   /\ e.chunk = c
                   /\ tx.class # "plain" /\ (regenerated = 0 \/ tx.chunkSize # DefaultChunkSize) =>
                         e.content = GetDataForChunk(tx, c)
                   /\ regenerated = 0 => e.id = Tick(tx.id, c)
  <2>1. GetNumberOfChunksRequired(tx) <= tx.currentChunk + 1 /\ (phase = "receipt" \/ JustPassed)
    BY <1>1, <1>2
  <2>2. tx.currentChunk \in Nat /\ GetNumberOfChunksRequired(tx) \in Nat
    BY <1>2, CutOfIs DEF TransactionInv, ObjectInv, TransactionOK, DataOK
  <2>3. c \in Nat /\ (Behind(c) \/ (c = tx.currentChunk /\ JustPassed))
    BY <2>1, <2>2 DEF Behind
  <2>4. c \in unanswered' \/ Delivered(tx, regenerated = 0, Accepted', c)
    <3>1. CASE Behind(c)
      <4>1. c \in unanswered \/ Delivered(tx, regenerated = 0, Accepted, c)
        BY <1>2, <2>3, <3>1 DEF TransactionInv, Progress
      <4>2. c \in unanswered => c \in unanswered'
        BY <1>2, <2>3, <3>1, FailuresRemembered DEF TransactionInv, Remembered
      <4>. QED
        BY <1>2, <4>1, <4>2, AcceptedGrows DEF TransactionInv, Delivered
    <3>2. CASE c = tx.currentChunk /\ JustPassed
      BY <1>2, <3>2, SentDelivers DEF TransactionInv, JustPassed
    <3>. QED
      BY <2>3, <3>1, <3>2
  <2>. QED
    BY <1>2, <2>4 DEF Delivered
<1>3. TransactionInv /\ [Next]_vars =>
        [(phase # "idle" /\ phase' = "idle" /\ outcome' = "returned" /\ Whole(tx) /\ ~pastNodes) =>
            \A c \in 0..(GetNumberOfChunksRequired(tx) - 1) :
                \/ c \in unanswered'
                \/ \E e \in Accepted' :
                      /\ e.chunk = c
                      /\ tx.class # "plain" /\ (regenerated = 0 \/ tx.chunkSize # DefaultChunkSize) =>
                            e.content = GetDataForChunk(tx, c)
                      /\ regenerated = 0 => e.id = Tick(tx.id, c)]_vars
  BY <1>2
<1>. QED
  BY <1>3, Invariant, PTL DEF Spec, ReturnMeansAccepted
=============================================================================
