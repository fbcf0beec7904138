------------------------------ MODULE HashProofs ------------------------------
(***************************************************************************)
(* Proofs about HashTable, for any keys, hash function and table size: the *)
(* table is what hash_verify says, finds what a dictionary would, is       *)
(* scanned once over, and TRHash's references are those of its nodes.      *)
(***************************************************************************)
EXTENDS PoolProofs, WellFoundedInduction

-----------------------------------------------------------------------------
(* Numbers. *)

(***************************************************************************)
(* A non-empty set of natural numbers has a least element.                 *)
(***************************************************************************)
LEMMA LeastOf ==
  ASSUME NEW T, T \subseteq Nat, T # {}
  PROVE  \E x \in T : \A y \in T : x <= y
<1> DEFINE R == OpToRel(<, Nat)
<1>1. IsWellFoundedOn(R, Nat)
  BY NatLessThanWellFounded
<1>2. PICK x \in T : \A y \in T : ~ (<<y, x>> \in R)
  <2> HIDE DEF R
  <2> QED
    BY <1>1, WFMin
<1>3. \A y \in T : <<y, x>> \in R <=> y < x
  BY DEF OpToRel
<1>4. \A y \in T : ~ (y < x)
  <2> HIDE DEF R
  <2> QED
    BY <1>2, <1>3
<1> HIDE DEF R
<1>5. \A y \in T : x \in Nat /\ y \in Nat
  OBVIOUS
<1> QED
  BY <1>4, <1>5

LEMMA ModIs ==
  ASSUME NEW n \in Nat \ {0}, NEW q \in Nat, NEW r \in 0..n - 1
  PROVE  (n * q + r) % n = r /\ (n * q + r) \div n = q
  OBVIOUS

LEMMA DivModIs ==
  ASSUME NEW n \in Nat \ {0}, NEW x \in Nat
  PROVE  x \div n \in Nat /\ x % n \in 0..n - 1 /\ x = (n * (x \div n)) + (x % n)
  OBVIOUS

(***************************************************************************)
(* A mask of one more bit, and of one less.                                *)
(***************************************************************************)
LEMMA ModDouble ==
  ASSUME NEW n \in Nat \ {0}, NEW x \in Nat
  PROVE  x % (2 * n) = IF (x \div n) % 2 = 1 THEN (x % n) + n ELSE x % n
<1> DEFINE q == x \div n
           r == x % n
           p == q \div 2
           b == q % 2
           m == (2 * n) * p
<1>1. q \in Nat /\ r \in 0..n - 1 /\ x = n * q + r
  BY DivModIs
<1>2. p \in Nat /\ b \in 0..1 /\ q = 2 * p + b
  <2> HIDE DEF q
  <2> QED
    BY <1>1, DivModIs
<1>3. n * q = m + n * b /\ m \in Nat /\ m = (2 * n) * p
  <2> HIDE DEF q, b, p
  <2> QED
    BY <1>1, <1>2
<1> HIDE DEF q, r, p, b, m
<1>4. CASE b = 1
  <2>1. n * b = n
    BY <1>4
  <2>2. x = m + (n + r) /\ n + r \in 0..(2 * n) - 1 /\ 2 * n \in Nat \ {0}
    BY <1>1, <1>3, <2>1
  <2>3. ((2 * n) * p + (n + r)) % (2 * n) = n + r
    BY <1>2, <2>2, ModIs
  <2>4. x % (2 * n) = r + n
    BY <1>1, <1>3, <2>2, <2>3
  <2>5. (x \div n) % 2 = 1
    BY <1>4 DEF b, q
  <2> QED
    BY <2>4, <2>5 DEF r
<1>5. CASE b = 0
  <2>1. n * b = 0
    BY <1>5
  <2>2. x = m + r /\ r \in 0..(2 * n) - 1 /\ 2 * n \in Nat \ {0}
    BY <1>1, <1>3, <2>1
  <2>3. ((2 * n) * p + r) % (2 * n) = r
    BY <1>2, <2>2, ModIs
  <2>4. x % (2 * n) = r
    BY <1>3, <2>2, <2>3
  <2>5. (x \div n) % 2 = 0
    BY <1>5 DEF b, q
  <2> QED
    BY <2>4, <2>5 DEF r
<1> QED
  BY <1>2, <1>4, <1>5

(***************************************************************************)
(* Among the places i of a finite set, one is the j-th from the end, for   *)
(* each j.                                                                 *)
(***************************************************************************)
LEMMA RankIs ==
  ASSUME NEW P \in SUBSET Nat, IsFiniteSet(P)
  PROVE  /\ Cardinality(P) \in Nat
         /\ \A i \in P : Cardinality({p \in P : p >= i}) \in 1..Cardinality(P)
         /\ \A i, j \in P : Cardinality({p \in P : p >= i}) = Cardinality({p \in P : p >= j})
                              => i = j
         /\ \A n \in 1..Cardinality(P) : \E i \in P : Cardinality({p \in P : p >= i}) = n
<1> DEFINE from(i) == {p \in P : p >= i}
           rank == [i \in P |-> Cardinality(from(i))]
<1>1. Cardinality(P) \in Nat
  BY FS_CardinalityType
<1>2. \A i \in P : IsFiniteSet(from(i)) /\ Cardinality(from(i)) <= Cardinality(P)
  BY FS_Subset
<1>3. ASSUME NEW i \in P
      PROVE  Cardinality(from(i)) \in 1..Cardinality(P)
  <2>1. i \in from(i)
    OBVIOUS
  <2> HIDE DEF from
  <2>2. Cardinality(from(i)) \in Nat /\ Cardinality(from(i)) # 0
    BY <1>2, <2>1, FS_CardinalityType, FS_EmptySet
  <2> QED
    BY <1>1, <1>2, <2>2
<1>4. ASSUME NEW i \in P, NEW j \in P, i < j, Cardinality(from(i)) = Cardinality(from(j))
      PROVE  FALSE
  <2>1. from(j) \subseteq from(i) /\ i \in from(i) /\ i \notin from(j)
    <3>1. i \in Nat /\ j \in Nat /\ i < j /\ \A p \in P : p \in Nat
      BY <1>4
    <3>2. ASSUME NEW p \in P, p >= j
          PROVE  p >= i
      BY <3>1, <3>2
    <3>3. i >= i /\ ~ (i >= j)
      BY <3>1
    <3> QED
      BY <3>2, <3>3
  <2> HIDE DEF from
  <2>2. from(i) = from(j)
    BY <1>2, <1>4, <2>1, FS_Subset
  <2> QED
    BY <2>1, <2>2
<1>5. ASSUME NEW i \in P, NEW j \in P, Cardinality(from(i)) = Cardinality(from(j))
      PROVE  i = j
  <2>1. i < j \/ j < i \/ i = j
    OBVIOUS
  <2> HIDE DEF from
  <2> QED
    BY <1>4, <1>5, <2>1
<1>6. rank \in Surjection(P, 1..Cardinality(P))
  <2> HIDE DEF from
  <2>1. rank \in Injection(P, 1..Cardinality(P))
    BY <1>3, <1>5 DEF Injection, IsInjective
  <2>2. IsFiniteSet(1..Cardinality(P)) /\ Cardinality(1..Cardinality(P)) = Cardinality(P)
    BY <1>1, FS_Interval
  <2> HIDE DEF rank
  <2> QED
    BY <2>1, <2>2, FS_Injection
<1>7. ASSUME NEW n \in 1..Cardinality(P)
      PROVE  \E i \in P : Cardinality(from(i)) = n
  <2> HIDE DEF from
  <2> QED
    BY <1>6 DEF Surjection
<1> QED
  BY <1>1, <1>3, <1>5, <1>7

LEMMA RemoveAtIs ==
  ASSUME NEW S, NEW s \in Seq(S), NEW p \in 1..Len(s)
  PROVE  /\ RemoveAt(s, p) \in Seq(S) /\ Len(RemoveAt(s, p)) = Len(s) - 1
         /\ \A i \in 1..Len(s) - 1 : RemoveAt(s, p)[i] = IF i < p THEN s[i] ELSE s[i + 1]
<1> DEFINE n == Len(s)
           low == SubSeq(s, 1, p - 1)
           high == SubSeq(s, p + 1, n)
<1>1. n \in Nat /\ \A i \in 1..n : s[i] \in S
  BY LenProperties, ElementOfSeq
<1>2. p \in Int /\ p >= 1 /\ p <= n
  BY <1>1
<1> HIDE DEF n
<1>3. \A i \in 1..p - 1 : s[i] \in S
  BY <1>1, <1>2
<1>4. \A i \in p + 1..n : s[i] \in S
  BY <1>1, <1>2
<1>5. /\ low \in Seq(S) /\ Len(low) = (IF 1 <= p - 1 THEN (p - 1) - 1 + 1 ELSE 0)
      /\ \A i \in 1..(p - 1) - 1 + 1 : low[i] = s[1 + i - 1]
  <2> DEFINE q == p - 1
  <2>1. q \in Int /\ 1 \in Int
    BY <1>2
  <2>2. /\ SubSeq(s, 1, q) \in Seq(S) /\ Len(SubSeq(s, 1, q)) = (IF 1 <= q THEN q - 1 + 1 ELSE 0)
        /\ \A i \in 1..q - 1 + 1 : SubSeq(s, 1, q)[i] = s[1 + i - 1]
    <3>1. \A i \in 1..q : s[i] \in S
      BY <1>3
    <3> HIDE DEF q
    <3> QED
      BY <2>1, <3>1, SubSeqProperties
  <2> QED
    BY <2>2
<1>6. /\ high \in Seq(S) /\ Len(high) = (IF p + 1 <= n THEN n - (p + 1) + 1 ELSE 0)
      /\ \A i \in 1..n - (p + 1) + 1 : high[i] = s[(p + 1) + i - 1]
  <2> DEFINE q == p + 1
  <2>1. q \in Int /\ n \in Int
    BY <1>1, <1>2
  <2>2. /\ SubSeq(s, q, n) \in Seq(S) /\ Len(SubSeq(s, q, n)) = (IF q <= n THEN n - q + 1 ELSE 0)
        /\ \A i \in 1..n - q + 1 : SubSeq(s, q, n)[i] = s[q + i - 1]
    <3>1. \A i \in q..n : s[i] \in S
      BY <1>4
    <3> HIDE DEF q
    <3> QED
      BY <2>1, <3>1, SubSeqProperties
  <2> QED
    BY <2>2
<1>7. Len(low) = p - 1 /\ \A i \in 1..p - 1 : low[i] = s[i]
  <2> HIDE DEF low
  <2> QED
    BY <1>2, <1>5
<1>8. Len(high) = n - p /\ \A i \in 1..n - p : high[i] = s[p + i]
  <2> HIDE DEF high
  <2> QED
    BY <1>1, <1>2, <1>6
<1>9. RemoveAt(s, p) = low \o high
  BY DEF RemoveAt, n
<1> HIDE DEF low, high
<1>10. /\ low \o high \in Seq(S) /\ Len(low \o high) = Len(low) + Len(high)
       /\ \A i \in 1..Len(low) + Len(high) :
            (low \o high)[i] = IF i <= Len(low) THEN low[i] ELSE high[i - Len(low)]
  BY <1>5, <1>6, ConcatProperties
<1>11. ASSUME NEW i \in 1..n - 1
       PROVE  (low \o high)[i] = IF i < p THEN s[i] ELSE s[i + 1]
  <2>1. CASE i < p
    BY <1>1, <1>2, <1>7, <1>8, <1>10, <2>1
  <2>2. CASE ~(i < p)
    <3>1. i - (p - 1) \in 1..n - p /\ p + (i - (p - 1)) = i + 1
      BY <1>1, <1>2, <2>2
    <3>2. (low \o high)[i] = high[i - (p - 1)]
      BY <1>1, <1>2, <1>7, <1>8, <1>10, <2>2
    <3> QED
      BY <1>8, <2>2, <3>1, <3>2
  <2> QED
    BY <2>1, <2>2
<1>12. Len(low \o high) = n - 1
  BY <1>1, <1>2, <1>7, <1>8, <1>10
<1> QED
  BY <1>9, <1>10, <1>11, <1>12 DEF n

-----------------------------------------------------------------------------
(* Tables. *)

\* The table sizes: the first one, doubled over and over.
Sizes == {n \in Nat : \A S \in SUBSET Nat :
                        InitSize \in S /\ (\A m \in S : 2 * m \in S) => n \in S}

LEMMA SizesAre ==
  /\ InitSize \in Sizes
  /\ \A n \in Sizes : /\ n \in Nat /\ n >= InitSize /\ n >= 2 /\ 2 * n \in Sizes
                      /\ n % 2 = 0
                      /\ n # InitSize => \E m \in Sizes : n = 2 * m
<1>1. InitSize \in Nat /\ InitSize >= 2 /\ InitSize % 2 = 0
  BY HashAssumption
<1>2. InitSize \in Sizes
  BY <1>1 DEF Sizes
<1>3. ASSUME NEW n \in Sizes
      PROVE  n \in Nat /\ n >= InitSize
  <2> DEFINE S == {m \in Nat : m >= InitSize}
  <2>1. InitSize \in S /\ \A m \in S : 2 * m \in S
    BY <1>1
  <2>2. S \in SUBSET Nat
    OBVIOUS
  <2> HIDE DEF S
  <2>3. n \in S
    BY <2>1, <2>2 DEF Sizes
  <2> QED
    BY <2>3 DEF S
<1>4. ASSUME NEW n \in Sizes
      PROVE  2 * n \in Sizes
  BY <1>3 DEF Sizes
<1>5. ASSUME NEW n \in Sizes, n # InitSize, \A m \in Sizes : n # 2 * m
      PROVE  FALSE
  <2> DEFINE S == Sizes \ {n}
  <2>1. S \in SUBSET Nat
    BY DEF Sizes
  <2>2. InitSize \in S /\ \A m \in S : 2 * m \in S
    BY <1>2, <1>4, <1>5
  <2> HIDE DEF S
  <2>3. n \in S
    BY <2>1, <2>2 DEF Sizes
  <2> QED
    BY <2>3 DEF S
<1>6. ASSUME NEW n \in Sizes
      PROVE  n % 2 = 0
  <2>1. CASE n = InitSize
    BY <1>1, <2>1
  <2>2. CASE n # InitSize
    <3>1. PICK m \in Sizes : n = 2 * m
      BY <1>5, <2>2
    <3>2. m \in Nat /\ (2 * m) % 2 = 0
      BY <1>3
    <3> QED
      BY <3>1, <3>2
  <2> QED
    BY <2>1, <2>2
<1> QED
  BY <1>1, <1>2, <1>3, <1>4, <1>5, <1>6

Node == [key : Keys, data : Values]

OneEach(s) == \A i, j \in 1..Len(s) : s[i].key = s[j].key => i = j

\* A table as its fields describe it, each node in its chain, each key once.
TableOK(h) ==
  /\ h \in [table : [0..h.nchains - 1 -> Seq(Node)], nchains : Sizes, mask : Nat,
            nodecount : Nat, highmark : Nat, lowmark : Nat]
  /\ h.mask = h.nchains - 1 /\ h.highmark = 2 * h.nchains /\ h.lowmark = h.nchains \div 2
  /\ \A c \in 0..h.nchains - 1 :
       /\ \A i \in 1..Len(h.table[c]) : HashOf[h.table[c][i].key] % h.nchains = c
       /\ OneEach(h.table[c])

NodeIn(h, n) == \E i \in 1..Len(Chain(h, n.key)) : Chain(h, n.key)[i] = n

LEMMA TableIs ==
  ASSUME NEW h, TableOK(h), NEW k \in Keys
  PROVE  /\ h.nchains \in Nat \ {0} /\ h.mask + 1 = h.nchains
         /\ HashOf[k] \in Nat
         /\ ChainOf(h, k) = HashOf[k] % h.nchains
         /\ ChainOf(h, k) \in 0..h.nchains - 1
         /\ Chain(h, k) = h.table[ChainOf(h, k)]
         /\ Chain(h, k) \in Seq(Node) /\ OneEach(Chain(h, k))
         /\ Len(Chain(h, k)) \in Nat /\ DOMAIN Chain(h, k) = 1..Len(Chain(h, k))
<1>1. h.nchains \in Sizes /\ h.mask = h.nchains - 1
      /\ h.table \in [0..h.nchains - 1 -> Seq(Node)]
  BY DEF TableOK
<1>2. h.nchains \in Nat \ {0} /\ h.mask + 1 = h.nchains
  <2>1. h.nchains \in Nat /\ h.nchains >= 2
    BY <1>1, SizesAre
  <2> QED
    BY <1>1, <2>1
<1>3. HashOf[k] \in Nat
  BY HashAssumption
<1>4. ChainOf(h, k) = HashOf[k] % h.nchains /\ ChainOf(h, k) \in 0..h.nchains - 1
  BY <1>2, <1>3, DivModIs DEF ChainOf
<1>5. Chain(h, k) \in Seq(Node) /\ OneEach(Chain(h, k))
  BY <1>1, <1>4 DEF Chain, TableOK
<1> QED
  BY <1>2, <1>3, <1>4, <1>5 DEF Chain

LEMMA NodeAt ==
  ASSUME NEW h, TableOK(h), NEW c \in 0..h.nchains - 1, NEW i \in 1..Len(h.table[c])
  PROVE  /\ h.table[c][i] \in Node /\ h.table[c][i].key \in Keys
         /\ ChainOf(h, h.table[c][i].key) = c
         /\ NodeIn(h, h.table[c][i])
<1>1. h.table[c] \in Seq(Node)
  BY DEF TableOK
<1>2. h.table[c][i] \in Node
  BY <1>1, ElementOfSeq
<1>3. h.table[c][i].key \in Keys
  BY <1>2 DEF Node
<1>4. ChainOf(h, h.table[c][i].key) = c
  <2>1. HashOf[h.table[c][i].key] % h.nchains = c
    BY DEF TableOK
  <2> QED
    BY <1>3, <2>1, TableIs
<1> QED
  BY <1>2, <1>3, <1>4 DEF NodeIn, Chain

(***************************************************************************)
(* A search finds the node of a key, if it is there.                       *)
(***************************************************************************)
LEMMA FoundIs ==
  ASSUME NEW h, TableOK(h), NEW k \in Keys, Found(h, k)
  PROVE  /\ PlaceOf(h, k) \in 1..Len(Chain(h, k))
         /\ HashLookup(h, k) = Chain(h, k)[PlaceOf(h, k)]
         /\ HashLookup(h, k) \in Node /\ HashLookup(h, k).key = k
         /\ NodeIn(h, HashLookup(h, k))
<1>1. Chain(h, k) \in Seq(Node) /\ DOMAIN Chain(h, k) = 1..Len(Chain(h, k))
  BY TableIs
<1>2. \E i \in DOMAIN Chain(h, k) : Chain(h, k)[i].key = k
  BY DEF Found
<1>3. PlaceOf(h, k) \in DOMAIN Chain(h, k) /\ Chain(h, k)[PlaceOf(h, k)].key = k
  BY <1>2 DEF PlaceOf
<1>4. Chain(h, k)[PlaceOf(h, k)] \in Node
  BY <1>1, <1>3, ElementOfSeq
<1> QED
  BY <1>1, <1>3, <1>4 DEF HashLookup, NodeIn

LEMMA NodeFound ==
  ASSUME NEW h, TableOK(h), NEW n \in Node, NodeIn(h, n)
  PROVE  /\ n.key \in Keys /\ Found(h, n.key) /\ HashLookup(h, n.key) = n
         /\ \A i \in 1..Len(Chain(h, n.key)) :
              Chain(h, n.key)[i].key = n.key => i = PlaceOf(h, n.key)
<1>1. n.key \in Keys
  BY DEF Node
<1>2. PICK i \in 1..Len(Chain(h, n.key)) : Chain(h, n.key)[i] = n
  BY DEF NodeIn
<1>3. Found(h, n.key)
  BY <1>1, <1>2, TableIs DEF Found
<1>4. PlaceOf(h, n.key) \in 1..Len(Chain(h, n.key)) /\ Chain(h, n.key)[PlaceOf(h, n.key)].key = n.key
  BY <1>1, <1>3, FoundIs
<1>5. OneEach(Chain(h, n.key))
  BY <1>1, TableIs
<1>6. \A j \in 1..Len(Chain(h, n.key)) :
        Chain(h, n.key)[j].key = n.key => j = PlaceOf(h, n.key)
  BY <1>4, <1>5 DEF OneEach
<1>7. HashLookup(h, n.key) = n
  BY <1>2, <1>6 DEF HashLookup
<1> QED
  BY <1>1, <1>3, <1>6, <1>7

(***************************************************************************)
(* Tables with the same nodes find the same.                               *)
(***************************************************************************)
LEMMA SameNodes ==
  ASSUME NEW g, TableOK(g), NEW h, TableOK(h), NEW k \in Keys,
         \A n \in Node : n.key = k => (NodeIn(g, n) <=> NodeIn(h, n))
  PROVE  (Found(g, k) <=> Found(h, k)) /\ (Found(h, k) => HashLookup(g, k) = HashLookup(h, k))
<1>1. ASSUME Found(h, k)
      PROVE  Found(g, k) /\ HashLookup(g, k) = HashLookup(h, k)
  <2>1. HashLookup(h, k) \in Node /\ HashLookup(h, k).key = k /\ NodeIn(h, HashLookup(h, k))
    BY <1>1, FoundIs
  <2>2. NodeIn(g, HashLookup(h, k))
    BY <2>1
  <2> QED
    BY <2>1, <2>2, NodeFound
<1>2. ASSUME Found(g, k)
      PROVE  Found(h, k)
  <2>1. HashLookup(g, k) \in Node /\ HashLookup(g, k).key = k /\ NodeIn(g, HashLookup(g, k))
    BY <1>2, FoundIs
  <2>2. NodeIn(h, HashLookup(g, k))
    BY <2>1
  <2> QED
    BY <2>1, <2>2, NodeFound
<1> QED
  BY <1>1, <1>2

-----------------------------------------------------------------------------
(* Chains that split. *)

LEMMA PushedIs ==
  ASSUME NEW S, NEW s \in Seq(S), NEW P \in SUBSET (1..Len(s))
  PROVE  /\ Pushed(s, P) \in Seq(S)
         /\ \A j \in 1..Len(Pushed(s, P)) : \E i \in P : Pushed(s, P)[j] = s[i]
         /\ \A i \in P : \E j \in 1..Len(Pushed(s, P)) : Pushed(s, P)[j] = s[i]
         /\ OneEach(s) => OneEach(Pushed(s, P))
<1> DEFINE from(i) == {p \in P : p >= i}
           n == Cardinality(P)
           f == [j \in 1..n |-> CHOOSE i \in P : Cardinality(from(i)) = j]
<1>1. Len(s) \in Nat /\ IsFiniteSet(P) /\ P \in SUBSET Nat
  <2>1. Len(s) \in Nat
    OBVIOUS
  <2>2. IsFiniteSet(1..Len(s))
    BY <2>1, FS_Interval
  <2>3. IsFiniteSet(P)
    BY <2>2, FS_Subset
  <2>4. P \in SUBSET Nat
    OBVIOUS
  <2> QED
    BY <2>1, <2>3, <2>4
<1>2. /\ n \in Nat
      /\ \A i \in P : Cardinality(from(i)) \in 1..n
      /\ \A i, j \in P : Cardinality(from(i)) = Cardinality(from(j)) => i = j
      /\ \A j \in 1..n : \E i \in P : Cardinality(from(i)) = j
  BY <1>1, RankIs
<1>3. \A j \in 1..n : f[j] \in P /\ Cardinality(from(f[j])) = j
  <2> HIDE DEF from, n
  <2> QED
    BY <1>2
<1>4. \A i \in P : Cardinality(from(i)) \in 1..n /\ f[Cardinality(from(i))] = i
  <2> HIDE DEF from, n, f
  <2> QED
    BY <1>2, <1>3
<1>5. Pushed(s, P) = [j \in 1..n |-> s[f[j]]]
  BY DEF Pushed
<1> HIDE DEF from, n, f
<1>6. \A j \in 1..n : s[f[j]] \in S
  BY <1>1, <1>3, ElementOfSeq
<1>7. Pushed(s, P) \in [1..n -> S]
  BY <1>5, <1>6
<1>8. Seq(S) = UNION {[1..m -> S] : m \in Nat}
  BY SeqDef
<1>9. Pushed(s, P) \in Seq(S)
  BY <1>2, <1>7, <1>8
<1>10. Len(Pushed(s, P)) = n
  BY <1>2, <1>7, <1>9, LenProperties
<1>11. \A j \in 1..n : Pushed(s, P)[j] = s[f[j]]
  BY <1>5
<1>12. ASSUME OneEach(s)
       PROVE  OneEach(Pushed(s, P))
  <2>1. \A i, j \in 1..n : f[i] = f[j] => i = j
    BY <1>3
  <2>2. \A j \in 1..n : f[j] \in 1..Len(s)
    BY <1>3
  <2> QED
    BY <1>10, <1>11, <1>12, <2>1, <2>2 DEF OneEach
<1>13. ASSUME NEW j \in 1..n
       PROVE  \E i \in P : Pushed(s, P)[j] = s[i]
  BY <1>3, <1>11
<1>14. ASSUME NEW i \in P
       PROVE  \E j \in 1..n : Pushed(s, P)[j] = s[i]
  <2>1. Cardinality(from(i)) \in 1..n /\ f[Cardinality(from(i))] = i
    BY <1>4
  <2>2. Pushed(s, P)[Cardinality(from(i))] = s[i]
    BY <1>11, <2>1
  <2> QED
    BY <2>1, <2>2
<1> QED
  BY <1>9, <1>10, <1>12, <1>13, <1>14

LEMMA GrowTableIs ==
  ASSUME NEW h, TableOK(h)
  PROVE  /\ TableOK(GrowTable(h))
         /\ \A m \in Node : NodeIn(GrowTable(h), m) <=> NodeIn(h, m)
         /\ GrowTable(h).nodecount = h.nodecount
<1> DEFINE n == h.nchains
           g == GrowTable(h)
           of(c) == IF c >= n THEN c - n ELSE c
           places(c) == {i \in 1..Len(h.table[of(c)]) :
                           Exposed(h, h.table[of(c)][i].key) <=> c >= n}
<1>1. /\ h.table \in [0..n - 1 -> Seq(Node)] /\ n \in Sizes /\ n \in Nat /\ n >= 2
      /\ h.mask = n - 1 /\ h.highmark = 2 * n /\ h.lowmark = n \div 2
      /\ h.nodecount \in Nat
  BY SizesAre DEF TableOK
<1>2. /\ g.table = SplitTable(h) /\ g.nchains = 2 * n /\ g.mask = 2 * n - 1
      /\ g.nodecount = h.nodecount /\ g.highmark = 2 * (2 * n) /\ g.lowmark = 2 * (n \div 2)
  BY <1>1 DEF GrowTable
<1>3. g.nchains \in Sizes /\ g.nchains \in Nat /\ g.lowmark = g.nchains \div 2
  <2>1. 2 * n \in Sizes
    BY <1>1, SizesAre
  <2>2. n % 2 = 0
    BY <1>1, SizesAre
  <2>3. 2 * (n \div 2) = n /\ (2 * n) \div 2 = n
    <3> HIDE DEF n
    <3> QED
      BY <1>1, <2>2
  <2> QED
    BY <1>1, <1>2, <2>1, <2>3
<1>4. \A c \in 0..2 * n - 1 : /\ of(c) \in 0..n - 1
                            /\ h.table[of(c)] \in Seq(Node)
                            /\ places(c) \in SUBSET (1..Len(h.table[of(c)]))
                            /\ g.table[c] = Pushed(h.table[of(c)], places(c))
  <2> SUFFICES ASSUME NEW c \in 0..2 * n - 1
               PROVE  /\ of(c) \in 0..n - 1
                      /\ h.table[of(c)] \in Seq(Node)
                      /\ places(c) \in SUBSET (1..Len(h.table[of(c)]))
                      /\ g.table[c] = Pushed(h.table[of(c)], places(c))
    OBVIOUS
  <2>1. of(c) \in 0..n - 1
    BY <1>1
  <2>2. h.table[of(c)] \in Seq(Node)
    BY <1>1, <2>1
  <2>3. DOMAIN h.table[of(c)] = 1..Len(h.table[of(c)])
    BY <2>2
  <2>4. g.table[c] = Pushed(h.table[of(c)], {i \in DOMAIN h.table[of(c)] :
                              Exposed(h, h.table[of(c)][i].key) <=> c >= n})
    BY <1>2 DEF SplitTable
  <2> QED
    BY <2>1, <2>2, <2>3, <2>4
<1>5. ASSUME NEW c \in 0..2 * n - 1
      PROVE  /\ g.table[c] \in Seq(Node)
             /\ \A j \in 1..Len(g.table[c]) : \E i \in places(c) :
                  g.table[c][j] = h.table[of(c)][i]
             /\ \A i \in places(c) : \E j \in 1..Len(g.table[c]) :
                  g.table[c][j] = h.table[of(c)][i]
             /\ OneEach(g.table[c])
  <2>1. OneEach(h.table[of(c)])
    BY <1>4 DEF TableOK
  <2> HIDE DEF of, places
  <2>2. /\ h.table[of(c)] \in Seq(Node)
        /\ places(c) \in SUBSET (1..Len(h.table[of(c)]))
    BY <1>4
  <2> DEFINE s == h.table[of(c)]
             P == places(c)
  <2>3. s \in Seq(Node) /\ P \in SUBSET (1..Len(s)) /\ OneEach(s) /\ g.table[c] = Pushed(s, P)
    BY <1>4, <2>1, <2>2
  <2> HIDE DEF g, s, P
  <2>4. /\ Pushed(s, P) \in Seq(Node)
        /\ \A j \in 1..Len(Pushed(s, P)) : \E i \in P : Pushed(s, P)[j] = s[i]
        /\ \A i \in P : \E j \in 1..Len(Pushed(s, P)) : Pushed(s, P)[j] = s[i]
        /\ OneEach(Pushed(s, P))
    BY <2>3, PushedIs
  <2> QED
    BY <2>3, <2>4 DEF s, P
<1>6. ASSUME NEW c \in 0..n - 1, NEW i \in 1..Len(h.table[c])
      PROVE  LET x == HashOf[h.table[c][i].key]
             IN  /\ x \in Nat /\ x % n = c
                 /\ Exposed(h, h.table[c][i].key) => x % (2 * n) = c + n
                 /\ ~Exposed(h, h.table[c][i].key) => x % (2 * n) = c
  <2> DEFINE x == HashOf[h.table[c][i].key]
  <2>1. h.table[c][i].key \in Keys
    BY NodeAt
  <2>2. x \in Nat /\ x % n = c
    BY <2>1, HashAssumption DEF TableOK
  <2>3. Exposed(h, h.table[c][i].key) <=> (x \div n) % 2 = 1
    BY <1>1 DEF Exposed
  <2> HIDE DEF x
  <2>4. x % (2 * n) = IF (x \div n) % 2 = 1 THEN (x % n) + n ELSE x % n
    <3>1. n \in Nat \ {0}
      BY <1>1
    <3> HIDE DEF n
    <3> QED
      BY <2>2, <3>1, ModDouble
  <2> QED
    BY <2>2, <2>3, <2>4 DEF x

\* Each node of the new table is one of the old, in its chain there.
<1>7. ASSUME NEW c \in 0..2 * n - 1, NEW j \in 1..Len(g.table[c])
      PROVE  /\ HashOf[g.table[c][j].key] % (2 * n) = c
             /\ \E i \in 1..Len(h.table[of(c)]) : h.table[of(c)][i] = g.table[c][j]
  <2>1. PICK i \in places(c) : g.table[c][j] = h.table[of(c)][i]
    BY <1>5
  <2>2. /\ i \in 1..Len(h.table[of(c)]) /\ of(c) \in 0..n - 1
        /\ Exposed(h, h.table[of(c)][i].key) <=> c >= n
    BY <1>4, <2>1
  <2>3. HashOf[h.table[of(c)][i].key] % (2 * n) = IF c >= n THEN of(c) + n ELSE of(c)
    BY <1>6, <2>2
  <2>4. (IF c >= n THEN of(c) + n ELSE of(c)) = c
    BY <1>1
  <2> HIDE DEF g, of
  <2> QED
    BY <2>1, <2>2, <2>3, <2>4
<1>8. TableOK(g)
  <2>1. g.table \in [0..g.nchains - 1 -> Seq(Node)]
    <3>1. g.table = [c \in 0..2 * n - 1 |-> g.table[c]]
      BY <1>2 DEF SplitTable
    <3> HIDE DEF g
    <3> QED
      BY <1>2, <1>5, <3>1
  <2>2. g \in [table : [0..g.nchains - 1 -> Seq(Node)], nchains : Sizes, mask : Nat,
               nodecount : Nat, highmark : Nat, lowmark : Nat]
    <3>1. g = [table |-> g.table, nchains |-> g.nchains, mask |-> g.mask,
               nodecount |-> g.nodecount, highmark |-> g.highmark, lowmark |-> g.lowmark]
      BY DEF GrowTable
    <3>2. g.mask \in Nat /\ g.nodecount \in Nat /\ g.highmark \in Nat /\ g.lowmark \in Nat
      <4>1. n \div 2 \in Nat
        <5> HIDE DEF n
        <5>1. n \in Nat /\ 2 \in Nat \ {0}
          BY <1>1
        <5> QED
          BY <5>1, DivModIs
      <4> HIDE DEF g, n
      <4> QED
        BY <1>1, <1>2, <4>1
    <3> HIDE DEF g
    <3> QED
      BY <1>3, <2>1, <3>1, <3>2
  <2>3. g.mask = g.nchains - 1 /\ g.highmark = 2 * g.nchains /\ g.lowmark = g.nchains \div 2
    BY <1>2, <1>3
  <2>4. ASSUME NEW c \in 0..g.nchains - 1
        PROVE  /\ \A i \in 1..Len(g.table[c]) : HashOf[g.table[c][i].key] % g.nchains = c
               /\ OneEach(g.table[c])
    <3>1. c \in 0..2 * n - 1 /\ g.nchains = 2 * n
      BY <1>2
    <3> HIDE DEF g
    <3> QED
      BY <1>5, <1>7, <3>1
  <2> HIDE DEF g
  <2> QED
    BY <2>2, <2>3, <2>4 DEF TableOK
<1>9. ASSUME NEW m \in Node
      PROVE  NodeIn(g, m) <=> NodeIn(h, m)
  <2> DEFINE x == HashOf[m.key]
             d == x % (2 * n)
  <2>1. /\ m.key \in Keys /\ x \in Nat
        /\ Chain(h, m.key) = h.table[x % n] /\ x % n \in 0..n - 1
        /\ Chain(g, m.key) = g.table[d] /\ d \in 0..2 * n - 1
    <3>1. m.key \in Keys
      BY DEF Node
    <3> HIDE DEF g
    <3> QED
      BY <1>2, <1>8, <3>1, TableIs, ZenonT(60)
  <2>2. d = (IF (x \div n) % 2 = 1 THEN (x % n) + n ELSE x % n)
    <3>1. n \in Nat \ {0}
      BY <1>1
    <3> HIDE DEF n, x
    <3> QED
      BY <2>1, <3>1, ModDouble
  <2>3. of(d) = x % n /\ (d >= n <=> (x \div n) % 2 = 1)
    <3>1. n \in Nat
      BY <1>1
    <3> HIDE DEF n, x, d
    <3> QED
      BY <2>1, <2>2, <3>1
  <2>4. ASSUME NodeIn(g, m)
        PROVE  NodeIn(h, m)
    <3>1. PICK j \in 1..Len(g.table[d]) : g.table[d][j] = m
      BY <2>1, <2>4 DEF NodeIn
    <3>2. \E i \in 1..Len(h.table[of(d)]) : h.table[of(d)][i] = m
      <4> HIDE DEF g, of, d
      <4> QED
        BY <1>7, <2>1, <3>1
    <3> QED
      BY <2>1, <2>3, <3>2 DEF NodeIn
  <2>5. ASSUME NodeIn(h, m)
        PROVE  NodeIn(g, m)
    <3>1. PICK i \in 1..Len(h.table[of(d)]) : h.table[of(d)][i] = m
      BY <2>1, <2>3, <2>5 DEF NodeIn
    <3>2. Exposed(h, m.key) <=> d >= n
      BY <1>1, <2>3 DEF Exposed
    <3>3. i \in places(d)
      BY <3>1, <3>2
    <3>4. \E j \in 1..Len(g.table[d]) : g.table[d][j] = m
      <4> HIDE DEF g, of, d, places
      <4> QED
        BY <1>5, <2>1, <3>1, <3>3
    <3> QED
      BY <2>1, <3>4 DEF NodeIn
  <2> QED
    BY <2>4, <2>5
<1> QED
  BY <1>2, <1>8, <1>9

-----------------------------------------------------------------------------
(* Chains that merge, and one node more or less. *)

LEMMA ShrinkTableIs ==
  ASSUME NEW h, TableOK(h), h.nchains # InitSize
  PROVE  /\ TableOK(ShrinkTable(h))
         /\ \A m \in Node : NodeIn(ShrinkTable(h), m) <=> NodeIn(h, m)
         /\ ShrinkTable(h).nodecount = h.nodecount
<1> DEFINE g == ShrinkTable(h)
<1>1. PICK n \in Sizes : h.nchains = 2 * n
  BY SizesAre DEF TableOK
<1>2. /\ h.table \in [0..2 * n - 1 -> Seq(Node)] /\ n \in Nat \ {0} /\ n % 2 = 0
      /\ h.mask = 2 * n - 1 /\ h.highmark = 2 * (2 * n) /\ h.lowmark = n
      /\ h.nodecount \in Nat
  <2>1. n \in Nat /\ n >= 2 /\ n % 2 = 0
    BY SizesAre
  <2>2. (2 * n) \div 2 = n
    BY <2>1
  <2> QED
    BY <1>1, <2>1, <2>2 DEF TableOK
<1>3. /\ g.table = [c \in 0..n - 1 |-> h.table[c] \o h.table[c + n]]
      /\ g.nchains = n /\ g.mask = n - 1 /\ g.nodecount = h.nodecount
      /\ g.highmark = 2 * n /\ g.lowmark = n \div 2
  <2>1. h.nchains \div 2 = n /\ h.mask \div 2 = n - 1 /\ h.highmark \div 2 = 2 * n
    BY <1>1, <1>2
  <2> QED
    BY <1>2, <2>1 DEF ShrinkTable
<1>4. g = [table |-> g.table, nchains |-> g.nchains, mask |-> g.mask,
           nodecount |-> g.nodecount, highmark |-> g.highmark, lowmark |-> g.lowmark]
  BY DEF ShrinkTable
<1> HIDE DEF g
<1>5. ASSUME NEW c \in 0..n - 1
      PROVE  /\ c \in 0..2 * n - 1 /\ c + n \in 0..2 * n - 1
             /\ h.table[c] \in Seq(Node) /\ h.table[c + n] \in Seq(Node)
             /\ Len(h.table[c]) \in Nat /\ Len(h.table[c + n]) \in Nat
             /\ g.table[c] \in Seq(Node)
             /\ Len(g.table[c]) = Len(h.table[c]) + Len(h.table[c + n])
             /\ \A i \in 1..Len(g.table[c]) :
                  g.table[c][i] = IF i <= Len(h.table[c]) THEN h.table[c][i]
                                  ELSE h.table[c + n][i - Len(h.table[c])]
  <2>1. c \in 0..2 * n - 1 /\ c + n \in 0..2 * n - 1
    BY <1>2
  <2>2. h.table[c] \in Seq(Node) /\ h.table[c + n] \in Seq(Node)
    BY <1>2, <2>1
  <2>3. g.table[c] = h.table[c] \o h.table[c + n]
    BY <1>3
  <2> DEFINE a == h.table[c]
             b == h.table[c + n]
  <2> HIDE DEF a, b
  <2>4. /\ a \o b \in Seq(Node) /\ Len(a) \in Nat /\ Len(b) \in Nat
        /\ Len(a \o b) = Len(a) + Len(b)
        /\ \A i \in 1..Len(a) + Len(b) :
             (a \o b)[i] = IF i <= Len(a) THEN a[i] ELSE b[i - Len(a)]
    <3>1. a \in Seq(Node) /\ b \in Seq(Node)
      BY <2>2 DEF a, b
    <3> QED
      BY <3>1, LenProperties, ConcatProperties
  <2> QED
    BY <2>1, <2>2, <2>3, <2>4 DEF a, b
<1>6. ASSUME NEW c \in 0..2 * n - 1, NEW i \in 1..Len(h.table[c])
      PROVE  LET x == HashOf[h.table[c][i].key]
             IN  x \in Nat /\ x % (2 * n) = c /\ x % n = IF c >= n THEN c - n ELSE c
  <2> DEFINE x == HashOf[h.table[c][i].key]
  <2>1. h.table[c][i].key \in Keys
    BY <1>1, NodeAt
  <2>2. x \in Nat /\ x % (2 * n) = c
    BY <1>1, <2>1, HashAssumption DEF TableOK
  <2> HIDE DEF x
  <2>3. c = IF (x \div n) % 2 = 1 THEN (x % n) + n ELSE x % n
    BY <1>2, <2>2, ModDouble
  <2>4. x % n \in 0..n - 1
    BY <1>2, <2>2, DivModIs
  <2>5. x % n = IF c >= n THEN c - n ELSE c
    BY <1>2, <2>3, <2>4
  <2> QED
    BY <2>2, <2>5 DEF x
<1>7. ASSUME NEW c \in 0..n - 1, NEW i \in 1..Len(g.table[c])
      PROVE  /\ HashOf[g.table[c][i].key] % n = c
             /\ \/ i <= Len(h.table[c]) /\ HashOf[g.table[c][i].key] % (2 * n) = c
                \/ i > Len(h.table[c]) /\ HashOf[g.table[c][i].key] % (2 * n) = c + n
  <2> DEFINE l == Len(h.table[c])
             u == Len(h.table[c + n])
  <2>1. /\ l \in Nat /\ u \in Nat /\ i \in 1..l + u
        /\ g.table[c][i] = IF i <= l THEN h.table[c][i] ELSE h.table[c + n][i - l]
        /\ c \in 0..2 * n - 1 /\ c + n \in 0..2 * n - 1
        /\ ~(c >= n) /\ c + n >= n /\ (c + n) - n = c
    <3>1. ~(c >= n) /\ c + n >= n /\ (c + n) - n = c
      BY <1>2
    <3>2. /\ l \in Nat /\ u \in Nat /\ Len(g.table[c]) = l + u
          /\ \A q \in 1..Len(g.table[c]) :
               g.table[c][q] = IF q <= l THEN h.table[c][q] ELSE h.table[c + n][q - l]
      BY <1>5
    <3>3. c \in 0..2 * n - 1 /\ c + n \in 0..2 * n - 1
      BY <1>5
    <3> HIDE DEF l, u
    <3> QED
      BY <3>1, <3>2, <3>3
  <2>2. CASE i <= l
    <3>1. i \in 1..l /\ g.table[c][i] = h.table[c][i]
      <4> HIDE DEF l, u
      <4> QED
        BY <2>1, <2>2
    <3> QED
      BY <1>6, <2>1, <2>2, <3>1
  <2>3. CASE i > l
    <3>1. i - l \in 1..u /\ g.table[c][i] = h.table[c + n][i - l]
      <4> HIDE DEF l, u
      <4> QED
        BY <2>1, <2>3
    <3>2. LET x == HashOf[h.table[c + n][i - l].key]
          IN  x % (2 * n) = c + n /\ x % n = IF c + n >= n THEN (c + n) - n ELSE c + n
      BY <1>6, <2>1, <3>1
    <3> QED
      BY <2>1, <2>3, <3>1, <3>2
  <2>4. i <= l \/ i > l
    BY <2>1
  <2> QED
    BY <2>2, <2>3, <2>4
<1>8. ASSUME NEW c \in 0..n - 1
      PROVE  OneEach(g.table[c])
  <2> SUFFICES ASSUME NEW i \in 1..Len(g.table[c]), NEW j \in 1..Len(g.table[c]),
                      g.table[c][i].key = g.table[c][j].key
               PROVE  i = j
    BY DEF OneEach
  <2> DEFINE l == Len(h.table[c])
             u == Len(h.table[c + n])
  <2>0. OneEach(h.table[c]) /\ OneEach(h.table[c + n]) /\ c # c + n
    <3>1. c \in 0..h.nchains - 1 /\ c + n \in 0..h.nchains - 1 /\ c # c + n
      BY <1>1, <1>2, <1>5
    <3> QED
      BY <3>1 DEF TableOK
  <2>1. /\ l \in Nat /\ u \in Nat /\ i \in 1..l + u /\ j \in 1..l + u
        /\ \A q \in 1..l + u :
             g.table[c][q] = IF q <= l THEN h.table[c][q] ELSE h.table[c + n][q - l]
    BY <1>5
  <2>2. CASE i <= l /\ j <= l
    <3>1. /\ i \in 1..l /\ j \in 1..l
          /\ g.table[c][i] = h.table[c][i] /\ g.table[c][j] = h.table[c][j]
      <4> HIDE DEF l, u
      <4> QED
        BY <2>1, <2>2
    <3> QED
      BY <2>0, <3>1 DEF OneEach
  <2>3. CASE i > l /\ j > l
    <3>1. /\ i - l \in 1..u /\ j - l \in 1..u
          /\ g.table[c][i] = h.table[c + n][i - l] /\ g.table[c][j] = h.table[c + n][j - l]
      <4> HIDE DEF l, u
      <4> QED
        BY <2>1, <2>3
    <3>2. i - l = j - l
      BY <2>0, <3>1 DEF OneEach
    <3> QED
      BY <2>1, <3>2
  <2>4. CASE (i <= l /\ j > l) \/ (i > l /\ j <= l)
    <3> DEFINE x(q) == HashOf[g.table[c][q].key] % (2 * n)
    <3>1. (x(i) = c /\ x(j) = c + n) \/ (x(i) = c + n /\ x(j) = c)
      <4>1. /\ (i <= l /\ x(i) = c) \/ (i > l /\ x(i) = c + n)
            /\ (j <= l /\ x(j) = c) \/ (j > l /\ x(j) = c + n)
        BY <1>7
      <4> HIDE DEF l, u, x
      <4> QED
        BY <2>1, <2>4, <4>1
    <3>2. x(i) = x(j)
      OBVIOUS
    <3> HIDE DEF x
    <3> QED
      BY <2>0, <3>1, <3>2
  <2>5. (i <= l \/ i > l) /\ (j <= l \/ j > l)
    BY <2>1
  <2> QED
    BY <2>2, <2>3, <2>4, <2>5
<1>9. TableOK(g)
  <2>1. g.table \in [0..n - 1 -> Seq(Node)]
    <3>1. g.table = [c \in 0..n - 1 |-> g.table[c]]
      BY <1>3
    <3> QED
      BY <1>5, <3>1
  <2>2. n \div 2 \in Nat /\ n - 1 \in Nat /\ 2 * n \in Nat
    BY <1>2
  <2>3. g \in [table : [0..g.nchains - 1 -> Seq(Node)], nchains : Sizes, mask : Nat,
               nodecount : Nat, highmark : Nat, lowmark : Nat]
    BY <1>1, <1>2, <1>3, <1>4, <2>1, <2>2
  <2> QED
    BY <1>3, <1>7, <1>8, <2>3 DEF TableOK
<1>10. ASSUME NEW m \in Node
       PROVE  NodeIn(g, m) <=> NodeIn(h, m)
  <2> DEFINE x == HashOf[m.key]
             c == x % n
             d == x % (2 * n)
  <2>1. /\ m.key \in Keys /\ x \in Nat
        /\ Chain(h, m.key) = h.table[d] /\ d \in 0..2 * n - 1
        /\ Chain(g, m.key) = g.table[c] /\ c \in 0..n - 1
    <3>1. m.key \in Keys
      BY DEF Node
    <3>2. /\ x \in Nat /\ ChainOf(h, m.key) = x % h.nchains
          /\ ChainOf(h, m.key) \in 0..h.nchains - 1
          /\ Chain(h, m.key) = h.table[ChainOf(h, m.key)]
      BY <3>1, TableIs
    <3>3. /\ ChainOf(g, m.key) = x % g.nchains
          /\ ChainOf(g, m.key) \in 0..g.nchains - 1
          /\ Chain(g, m.key) = g.table[ChainOf(g, m.key)]
      BY <1>9, <3>1, TableIs
    <3> QED
      BY <1>1, <1>3, <3>1, <3>2, <3>3
  <2>2. d = c \/ d = c + n
    <3> HIDE DEF x
    <3> QED
      BY <1>2, <2>1, ModDouble
  <2> HIDE DEF x, c, d
  <2> DEFINE l == Len(h.table[c])
             u == Len(h.table[c + n])
  <2>3. /\ l \in Nat /\ u \in Nat /\ Len(g.table[c]) = l + u
        /\ \A q \in 1..l + u :
             g.table[c][q] = IF q <= l THEN h.table[c][q] ELSE h.table[c + n][q - l]
        /\ c \in 0..2 * n - 1 /\ c + n \in 0..2 * n - 1
    BY <1>5, <2>1
  <2>4. ASSUME NodeIn(g, m)
        PROVE  NodeIn(h, m)
    <3>1. PICK i \in 1..l + u : g.table[c][i] = m
      BY <2>1, <2>3, <2>4 DEF NodeIn
    <3>2. CASE i <= l
      <4>1. i \in 1..l /\ h.table[c][i] = m
        <5> HIDE DEF l, u
        <5> QED
          BY <2>3, <3>1, <3>2
      <4>2. d = c
        BY <1>6, <2>3, <4>1 DEF x, d
      <4> QED
        BY <2>1, <4>1, <4>2 DEF NodeIn
    <3>3. CASE i > l
      <4>1. i - l \in 1..u /\ h.table[c + n][i - l] = m
        <5> HIDE DEF l, u
        <5> QED
          BY <2>3, <3>1, <3>3
      <4>2. d = c + n
        BY <1>6, <2>3, <4>1 DEF x, d
      <4> QED
        BY <2>1, <4>1, <4>2 DEF NodeIn
    <3>4. i <= l \/ i > l
      BY <2>3
    <3> QED
      BY <3>2, <3>3, <3>4
  <2>5. ASSUME NodeIn(h, m)
        PROVE  NodeIn(g, m)
    <3>1. PICK i \in 1..Len(h.table[d]) : h.table[d][i] = m
      BY <2>1, <2>5 DEF NodeIn
    <3>2. CASE d = c
      <4>1. i \in 1..l /\ h.table[c][i] = m
        BY <3>1, <3>2
      <4>2. i \in 1..l + u /\ g.table[c][i] = m
        <5> HIDE DEF l, u
        <5> QED
          BY <2>3, <4>1
      <4> QED
        BY <2>1, <2>3, <4>2 DEF NodeIn
    <3>3. CASE d = c + n
      <4>1. i \in 1..u /\ h.table[c + n][i] = m
        BY <3>1, <3>3
      <4>2. i + l \in 1..l + u /\ g.table[c][i + l] = m
        <5> HIDE DEF l, u
        <5>1. i + l \in 1..l + u /\ ~(i + l <= l) /\ (i + l) - l = i
          BY <2>3, <4>1
        <5> QED
          BY <2>3, <4>1, <5>1
      <4> QED
        BY <2>1, <2>3, <4>2 DEF NodeIn
    <3> QED
      BY <2>2, <3>2, <3>3
  <2> QED
    BY <2>4, <2>5
<1> QED
  BY <1>3, <1>9, <1>10 DEF g

LEMMA PlaceIs ==
  ASSUME NEW h, TableOK(h), NEW k \in Keys, NEW i \in 1..Len(Chain(h, k)),
         Chain(h, k)[i].key = k
  PROVE  Found(h, k) /\ PlaceOf(h, k) = i
<1>1. Chain(h, k) \in Seq(Node) /\ OneEach(Chain(h, k)) /\ DOMAIN Chain(h, k) = 1..Len(Chain(h, k))
  BY TableIs
<1>2. Found(h, k)
  BY <1>1 DEF Found
<1>3. PlaceOf(h, k) \in 1..Len(Chain(h, k)) /\ Chain(h, k)[PlaceOf(h, k)].key = k
  BY <1>2, FoundIs
<1> QED
  BY <1>1, <1>2, <1>3 DEF OneEach

\* Nodes that belong in chain d, each key once.
Belong(h, d, s) ==
  /\ s \in Seq(Node) /\ OneEach(s)
  /\ \A i \in 1..Len(s) : HashOf[s[i].key] % h.nchains = d

WithChain(h, d, s, count) ==
  [h EXCEPT !.table = [h.table EXCEPT ![d] = s], !.nodecount = count]

(***************************************************************************)
(* One chain replaced by another of nodes that belong there.               *)
(***************************************************************************)
LEMMA OneChain ==
  ASSUME NEW h, TableOK(h), NEW d \in 0..h.nchains - 1, NEW count \in Nat,
         NEW s, Belong(h, d, s), NEW g, g = WithChain(h, d, s, count)
  PROVE  /\ TableOK(g) /\ g.nodecount = count /\ g.nchains = h.nchains
         /\ \A c \in 0..h.nchains - 1 : g.table[c] = IF c = d THEN s ELSE h.table[c]
         /\ \A k \in Keys :
              /\ ChainOf(g, k) = ChainOf(h, k)
              /\ Chain(g, k) = IF ChainOf(h, k) = d THEN s ELSE Chain(h, k)
<1>1. /\ h \in [table : [0..h.nchains - 1 -> Seq(Node)], nchains : Sizes, mask : Nat,
                nodecount : Nat, highmark : Nat, lowmark : Nat]
      /\ h.mask = h.nchains - 1 /\ h.highmark = 2 * h.nchains /\ h.lowmark = h.nchains \div 2
  BY DEF TableOK
<1>2. /\ g = [table |-> [h.table EXCEPT ![d] = s], nchains |-> h.nchains, mask |-> h.mask,
              nodecount |-> count, highmark |-> h.highmark, lowmark |-> h.lowmark]
      /\ g.nchains = h.nchains /\ g.mask = h.mask
      /\ g.table = [h.table EXCEPT ![d] = s]
      /\ g.highmark = h.highmark /\ g.lowmark = h.lowmark /\ g.nodecount = count
  BY <1>1 DEF WithChain
<1>3. /\ g.table \in [0..h.nchains - 1 -> Seq(Node)]
      /\ \A c \in 0..h.nchains - 1 : g.table[c] = IF c = d THEN s ELSE h.table[c]
  BY <1>1, <1>2 DEF Belong
<1>4. g \in [table : [0..g.nchains - 1 -> Seq(Node)], nchains : Sizes, mask : Nat,
             nodecount : Nat, highmark : Nat, lowmark : Nat]
  BY <1>1, <1>2, <1>3
<1>5. \A c \in 0..h.nchains - 1 :
        /\ \A i \in 1..Len(g.table[c]) : HashOf[g.table[c][i].key] % h.nchains = c
        /\ OneEach(g.table[c])
  BY <1>3 DEF TableOK, Belong
<1>6. TableOK(g)
  BY <1>1, <1>2, <1>4, <1>5, SMTT(60) DEF TableOK
<1>7. ASSUME NEW k \in Keys
      PROVE  /\ ChainOf(g, k) = ChainOf(h, k)
             /\ Chain(g, k) = IF ChainOf(h, k) = d THEN s ELSE Chain(h, k)
  <2>1. ChainOf(g, k) = ChainOf(h, k) /\ ChainOf(h, k) \in 0..h.nchains - 1
    BY <1>2, TableIs DEF ChainOf
  <2> QED
    BY <1>3, <2>1 DEF Chain
<1> QED
  BY <1>2, <1>3, <1>6, <1>7

LEMMA PushIs ==
  ASSUME NEW h, TableOK(h), NEW k \in Keys, NEW v \in Values, ~Found(h, k)
  PROVE  /\ TableOK(Push(h, k, v))
         /\ Push(h, k, v).nodecount = h.nodecount + 1
         /\ \A m \in Node : NodeIn(Push(h, k, v), m) <=>
                              NodeIn(h, m) \/ m = [key |-> k, data |-> v]
<1> DEFINE node == [key |-> k, data |-> v]
           chain == Chain(h, k)
           d == ChainOf(h, k)
           s == <<node>> \o chain
           g == Push(h, k, v)
<1>1. /\ d \in 0..h.nchains - 1 /\ d = HashOf[k] % h.nchains
      /\ chain \in Seq(Node) /\ OneEach(chain) /\ Len(chain) \in Nat
      /\ DOMAIN chain = 1..Len(chain) /\ chain = h.table[d]
  BY TableIs
<1>2. node \in Node /\ <<node>> \in Seq(Node) /\ Len(<<node>>) = 1 /\ <<node>>[1] = node
  BY DEF Node
<1> HIDE DEF node
<1>3. \A i \in 1..Len(chain) : chain[i].key # k /\ HashOf[chain[i].key] % h.nchains = d
  BY <1>1 DEF Found, TableOK
<1>4. /\ s \in Seq(Node) /\ Len(s) = Len(chain) + 1
      /\ \A i \in 1..Len(chain) + 1 : s[i] = IF i = 1 THEN node ELSE chain[i - 1]
  <2>a. chain \in Seq(Node) /\ Len(chain) \in Nat
    BY <1>1
  <2> HIDE DEF chain
  <2>1. /\ s \in Seq(Node) /\ Len(s) = 1 + Len(chain)
        /\ \A i \in 1..1 + Len(chain) : s[i] = IF i <= 1 THEN <<node>>[i] ELSE chain[i - 1]
    BY <1>2, <2>a, ConcatProperties
  <2> HIDE DEF s
  <2>2. ASSUME NEW i \in 1..Len(chain) + 1
        PROVE  s[i] = IF i = 1 THEN node ELSE chain[i - 1]
    BY <1>2, <2>a, <2>1
  <2> QED
    BY <2>a, <2>1, <2>2
<1>5. node.key = k
  BY DEF node
<1>6. ASSUME NEW i \in 1..Len(s)
      PROVE  /\ i = 1 => s[i] = node
             /\ i # 1 => i - 1 \in 1..Len(chain) /\ s[i] = chain[i - 1] /\ s[i].key # k
             /\ HashOf[s[i].key] % h.nchains = d
  <2> HIDE DEF s, chain
  <2>1. CASE i = 1
    BY <1>1, <1>4, <1>5, <2>1
  <2>2. CASE i # 1
    <3>1. i - 1 \in 1..Len(chain) /\ s[i] = chain[i - 1]
      BY <1>1, <1>4, <2>2
    <3> QED
      BY <1>3, <2>2, <3>1
  <2> QED
    BY <2>1, <2>2
<1>7. OneEach(s)
  <2> SUFFICES ASSUME NEW i \in 1..Len(s), NEW j \in 1..Len(s), s[i].key = s[j].key
               PROVE  i = j
    BY DEF OneEach
  <2>1. CASE i # 1 /\ j # 1
    <3>1. /\ i - 1 \in 1..Len(chain) /\ j - 1 \in 1..Len(chain)
          /\ chain[i - 1].key = chain[j - 1].key
      BY <1>6, <2>1
    <3>2. i - 1 = j - 1
      BY <1>1, <3>1 DEF OneEach
    <3> HIDE DEF s
    <3> QED
      BY <1>4, <3>2
  <2>2. CASE i = 1 \/ j = 1
    BY <1>5, <1>6, <2>2
  <2> QED
    BY <2>1, <2>2
<1>8. g = WithChain(h, d, s, h.nodecount + 1)
  BY <1>1 DEF Push, WithChain, node
<1>9. h.nodecount + 1 \in Nat
  BY DEF TableOK
<1> HIDE DEF g, s, d, chain
<1>10. /\ TableOK(g) /\ g.nodecount = h.nodecount + 1
       /\ \A l \in Keys : ChainOf(g, l) = ChainOf(h, l)
                          /\ Chain(g, l) = IF ChainOf(h, l) = d THEN s ELSE Chain(h, l)
  <2>1. Belong(h, d, s)
    BY <1>4, <1>6, <1>7 DEF Belong
  <2> DEFINE count == h.nodecount + 1
  <2>2. count \in Nat /\ g = WithChain(h, d, s, count)
    BY <1>8, <1>9
  <2> HIDE DEF count
  <2>3. /\ TableOK(g) /\ g.nodecount = count
        /\ \A l \in Keys : ChainOf(g, l) = ChainOf(h, l)
                           /\ Chain(g, l) = IF ChainOf(h, l) = d THEN s ELSE Chain(h, l)
    BY <1>1, <2>1, <2>2, OneChain
  <2> QED
    BY <2>3 DEF count
<1>11. ASSUME NEW m \in Node
       PROVE  NodeIn(g, m) <=> NodeIn(h, m) \/ m = node
  <2>1. m.key \in Keys
    BY DEF Node
  <2>2. CASE ChainOf(h, m.key) # d
    <3>1. Chain(g, m.key) = Chain(h, m.key)
      BY <1>10, <2>1, <2>2
    <3>2. m # node
      BY <1>5, <2>2 DEF d
    <3> QED
      BY <3>1, <3>2 DEF NodeIn
  <2>3. CASE ChainOf(h, m.key) = d
    <3>1. Chain(g, m.key) = s /\ Chain(h, m.key) = chain
      BY <1>1, <1>10, <2>1, <2>3, TableIs
    <3>2. ASSUME NodeIn(g, m)
          PROVE  NodeIn(h, m) \/ m = node
      BY <1>6, <3>1, <3>2 DEF NodeIn
    <3>3. ASSUME m = node
          PROVE  NodeIn(g, m)
      <4>1. 1 \in 1..Len(s)
        BY <1>1, <1>4
      <4> QED
        BY <1>6, <3>1, <3>3, <4>1 DEF NodeIn
    <3>4. ASSUME NodeIn(h, m)
          PROVE  NodeIn(g, m)
      <4>1. PICK i \in 1..Len(chain) : chain[i] = m
        BY <3>1, <3>4 DEF NodeIn
      <4>2. i + 1 \in 1..Len(s) /\ s[i + 1] = m
        BY <1>1, <1>4, <4>1
      <4> QED
        BY <3>1, <4>2 DEF NodeIn
    <3> QED
      BY <3>2, <3>3, <3>4
  <2> QED
    BY <2>2, <2>3
<1> QED
  BY <1>10, <1>11 DEF g, node

(***************************************************************************)
(* Without the node of a key the others come in the same order.            *)
(***************************************************************************)
LEMMA HashScanDeleteIs ==
  ASSUME NEW h, TableOK(h), NEW k \in Keys, Found(h, k), h.nodecount > 0
  PROVE  /\ TableOK(HashScanDelete(h, k))
         /\ HashScanDelete(h, k).nodecount = h.nodecount - 1
         /\ HashScanDelete(h, k).nchains = h.nchains
         /\ \A m \in Node : NodeIn(HashScanDelete(h, k), m) <=> NodeIn(h, m) /\ m.key # k
         /\ \A l \in Keys :
              /\ ChainOf(HashScanDelete(h, k), l) = ChainOf(h, l)
              /\ l # k /\ Found(h, l) =>
                   PlaceOf(HashScanDelete(h, k), l) =
                     IF ChainOf(h, l) = ChainOf(h, k) /\ PlaceOf(h, l) > PlaceOf(h, k)
                     THEN PlaceOf(h, l) - 1 ELSE PlaceOf(h, l)
<1> DEFINE chain == Chain(h, k)
           d == ChainOf(h, k)
           p == PlaceOf(h, k)
           s == RemoveAt(chain, p)
           g == HashScanDelete(h, k)
<1>1. /\ d \in 0..h.nchains - 1 /\ d = HashOf[k] % h.nchains
      /\ chain \in Seq(Node) /\ OneEach(chain) /\ Len(chain) \in Nat
      /\ DOMAIN chain = 1..Len(chain) /\ chain = h.table[d]
  BY TableIs
<1>2. p \in 1..Len(chain) /\ chain[p].key = k
  BY FoundIs
<1>3. \A i \in 1..Len(chain) : HashOf[chain[i].key] % h.nchains = d
  BY <1>1 DEF TableOK
<1>a. s = RemoveAt(chain, p)
  OBVIOUS
<1>b. chain \in Seq(Node) /\ Len(chain) \in Nat
  BY <1>1
<1> HIDE DEF s, chain, p
<1>4. /\ s \in Seq(Node) /\ Len(s) = Len(chain) - 1
      /\ \A i \in 1..Len(chain) - 1 : s[i] = IF i < p THEN chain[i] ELSE chain[i + 1]
  BY <1>b, <1>2, <1>a, RemoveAtIs
<1>5. \A i \in 1..Len(s) : \E j \in 1..Len(chain) :
        s[i] = chain[j] /\ j # p /\ j = IF i < p THEN i ELSE i + 1
  <2> SUFFICES ASSUME NEW i \in 1..Len(s)
               PROVE  \E j \in 1..Len(chain) :
                        s[i] = chain[j] /\ j # p /\ j = IF i < p THEN i ELSE i + 1
    OBVIOUS
  <2>1. /\ i \in 1..Len(chain) - 1 /\ i \in Int /\ p \in Int
        /\ s[i] = IF i < p THEN chain[i] ELSE chain[i + 1]
    BY <1>b, <1>2, <1>4
  <2>2. CASE i < p
    <3>1. i \in 1..Len(chain) /\ i # p
      BY <1>b, <2>1, <2>2
    <3> QED
      BY <2>1, <2>2, <3>1
  <2>3. CASE ~(i < p)
    <3>1. i + 1 \in 1..Len(chain) /\ i + 1 # p
      BY <1>b, <2>1, <2>3
    <3> QED
      BY <2>1, <2>3, <3>1
  <2> QED
    BY <2>2, <2>3
<1>6. \A j \in 1..Len(chain) : j # p =>
        \E i \in 1..Len(s) : s[i] = chain[j] /\ i = IF j > p THEN j - 1 ELSE j
  <2> SUFFICES ASSUME NEW j \in 1..Len(chain), j # p
               PROVE  \E i \in 1..Len(s) : s[i] = chain[j] /\ i = IF j > p THEN j - 1 ELSE j
    OBVIOUS
  <2>1. CASE j > p
    <3>1. /\ j - 1 \in 1..Len(chain) - 1 /\ ~(j - 1 < p) /\ (j - 1) + 1 = j
      BY <1>1, <1>2, <2>1
    <3>2. j - 1 \in 1..Len(s) /\ s[j - 1] = chain[j]
      BY <1>4, <3>1
    <3> QED
      BY <2>1, <3>2
  <2>2. CASE ~(j > p)
    <3>1. j \in 1..Len(chain) - 1 /\ j < p
      BY <1>1, <1>2, <2>2
    <3>2. j \in 1..Len(s) /\ s[j] = chain[j]
      BY <1>4, <3>1
    <3> QED
      BY <2>2, <3>2
  <2> QED
    BY <2>1, <2>2
<1>7. OneEach(s)
  <2> SUFFICES ASSUME NEW i \in 1..Len(s), NEW j \in 1..Len(s), s[i].key = s[j].key
               PROVE  i = j
    BY DEF OneEach
  <2>1. PICK a \in 1..Len(chain) : s[i] = chain[a] /\ a = IF i < p THEN i ELSE i + 1
    BY <1>5
  <2>2. PICK b \in 1..Len(chain) : s[j] = chain[b] /\ b = IF j < p THEN j ELSE j + 1
    BY <1>5
  <2>3. a = b
    BY <1>1, <2>1, <2>2 DEF OneEach
  <2>4. i \in Int /\ j \in Int /\ p \in Int
    BY <1>b, <1>2, <1>4
  <2>5. (IF i < p THEN i ELSE i + 1) = (IF j < p THEN j ELSE j + 1)
    BY <2>1, <2>2, <2>3
  <2> QED
    BY <2>4, <2>5
<1>8. g = WithChain(h, d, s, h.nodecount - 1)
  BY <1>1 DEF HashScanDelete, WithChain, g, s, chain, p
<1>9. h.nodecount - 1 \in Nat
  BY DEF TableOK
<1> HIDE DEF g, s, d, chain, p
<1>10. /\ TableOK(g) /\ g.nodecount = h.nodecount - 1 /\ g.nchains = h.nchains
       /\ \A l \in Keys : ChainOf(g, l) = ChainOf(h, l)
                          /\ Chain(g, l) = IF ChainOf(h, l) = d THEN s ELSE Chain(h, l)
  <2>1. Belong(h, d, s)
    BY <1>3, <1>4, <1>5, <1>7 DEF Belong
  <2> DEFINE count == h.nodecount - 1
  <2>2. count \in Nat /\ g = WithChain(h, d, s, count)
    BY <1>8, <1>9
  <2> HIDE DEF count
  <2>3. /\ TableOK(g) /\ g.nodecount = count /\ g.nchains = h.nchains
        /\ \A l \in Keys : ChainOf(g, l) = ChainOf(h, l)
                           /\ Chain(g, l) = IF ChainOf(h, l) = d THEN s ELSE Chain(h, l)
    BY <1>1, <2>1, <2>2, OneChain
  <2> QED
    BY <2>3 DEF count
<1>11. ASSUME NEW m \in Node
       PROVE  NodeIn(g, m) <=> NodeIn(h, m) /\ m.key # k
  <2>1. m.key \in Keys
    BY DEF Node
  <2>2. CASE ChainOf(h, m.key) # d
    <3>1. Chain(g, m.key) = Chain(h, m.key)
      BY <1>10, <2>1, <2>2
    <3>2. m.key # k
      BY <2>2 DEF d
    <3> QED
      BY <3>1, <3>2 DEF NodeIn
  <2>3. CASE ChainOf(h, m.key) = d
    <3>1. Chain(g, m.key) = s /\ Chain(h, m.key) = chain
      BY <1>1, <1>10, <2>1, <2>3, TableIs
    <3>2. ASSUME NodeIn(g, m)
          PROVE  NodeIn(h, m) /\ m.key # k
      <4>1. PICK i \in 1..Len(s) : s[i] = m
        BY <3>1, <3>2 DEF NodeIn
      <4>2. PICK j \in 1..Len(chain) : s[i] = chain[j] /\ j # p
        BY <1>5
      <4>3. m.key # k
        BY <1>1, <1>2, <4>1, <4>2 DEF OneEach
      <4> QED
        BY <3>1, <4>1, <4>2, <4>3 DEF NodeIn
    <3>3. ASSUME NodeIn(h, m), m.key # k
          PROVE  NodeIn(g, m)
      <4>1. PICK j \in 1..Len(chain) : chain[j] = m
        BY <3>1, <3>3 DEF NodeIn
      <4>2. j # p
        BY <1>2, <3>3, <4>1
      <4>3. \E i \in 1..Len(s) : s[i] = m
        BY <1>6, <4>1, <4>2
      <4> QED
        BY <3>1, <4>3 DEF NodeIn
    <3> QED
      BY <3>2, <3>3
  <2> QED
    BY <2>2, <2>3
<1>12. ASSUME NEW l \in Keys, l # k, Found(h, l)
       PROVE  PlaceOf(g, l) = IF ChainOf(h, l) = d /\ PlaceOf(h, l) > p
                              THEN PlaceOf(h, l) - 1 ELSE PlaceOf(h, l)
  <2>1. PlaceOf(h, l) \in 1..Len(Chain(h, l)) /\ Chain(h, l)[PlaceOf(h, l)].key = l
    BY <1>12, FoundIs
  <2>2. CASE ChainOf(h, l) # d
    <3>1. Chain(g, l) = Chain(h, l)
      BY <1>10, <2>2
    <3> QED
      BY <1>10, <2>1, <2>2, <3>1, PlaceIs
  <2>3. CASE ChainOf(h, l) = d
    <3>1. Chain(g, l) = s /\ Chain(h, l) = chain
      BY <1>1, <1>10, <2>3, TableIs
    <3>2. PlaceOf(h, l) # p
      BY <1>2, <1>12, <2>1, <3>1
    <3>3. PICK i \in 1..Len(s) : /\ s[i] = chain[PlaceOf(h, l)]
                                 /\ i = IF PlaceOf(h, l) > p THEN PlaceOf(h, l) - 1 ELSE PlaceOf(h, l)
      BY <1>6, <2>1, <3>1, <3>2
    <3>4. PlaceOf(g, l) = i
      BY <1>10, <2>1, <3>1, <3>3, PlaceIs
    <3> QED
      BY <2>3, <3>3, <3>4
  <2> QED
    BY <2>2, <2>3
<1> QED
  BY <1>10, <1>11, <1>12 DEF g, d, p

-----------------------------------------------------------------------------
(* What the operations do to the keys. *)

\* A table whose count is that of its keys.
TableAt(h) == /\ TableOK(h)
              /\ IsFiniteSet(KeysIn(h)) /\ h.nodecount = Cardinality(KeysIn(h))

ValueIn(h, k) == IF Found(h, k) THEN HashLookup(h, k).data ELSE NoKey

\* g is h without the key k, or with the value v for it.
Without(g, h, k) == /\ TableAt(g) /\ KeysIn(g) = KeysIn(h) \ {k}
                    /\ \A l \in Keys : l # k => ValueIn(g, l) = ValueIn(h, l)

With(g, h, k, v) == /\ TableAt(g) /\ KeysIn(g) = KeysIn(h) \cup {k} /\ ValueIn(g, k) = v
                    /\ \A l \in Keys : l # k => ValueIn(g, l) = ValueIn(h, l)

LEMMA KeysInIs ==
  ASSUME NEW h, NEW k \in Keys PROVE Found(h, k) <=> k \in KeysIn(h)
  BY DEF KeysIn

LEMMA CountIs ==
  ASSUME NEW h, TableAt(h)
  PROVE  /\ h.nodecount \in Nat
         /\ h.nodecount = 0 <=> KeysIn(h) = {}
  BY FS_CardinalityType, FS_EmptySet DEF TableAt

LEMMA SameValues ==
  ASSUME NEW g, TableOK(g), NEW h, TableOK(h), NEW k \in Keys,
         \A n \in Node : n.key = k => (NodeIn(g, n) <=> NodeIn(h, n))
  PROVE  (k \in KeysIn(g) <=> k \in KeysIn(h)) /\ ValueIn(g, k) = ValueIn(h, k)
<1>1. (Found(g, k) <=> Found(h, k)) /\ (Found(h, k) => HashLookup(g, k) = HashLookup(h, k))
  BY SameNodes
<1> QED
  BY <1>1, KeysInIs DEF ValueIn

(***************************************************************************)
(* A table that has been split or merged says what it said.                *)
(***************************************************************************)
LEMMA SameTable ==
  ASSUME NEW g, TableOK(g), NEW h, TableAt(h), g.nodecount = h.nodecount,
         \A n \in Node : NodeIn(g, n) <=> NodeIn(h, n)
  PROVE  TableAt(g) /\ KeysIn(g) = KeysIn(h) /\ \A k \in Keys : ValueIn(g, k) = ValueIn(h, k)
<1>1. ASSUME NEW k \in Keys
      PROVE  (k \in KeysIn(g) <=> k \in KeysIn(h)) /\ ValueIn(g, k) = ValueIn(h, k)
  BY SameValues DEF TableAt
<1>2. KeysIn(g) = KeysIn(h)
  BY <1>1 DEF KeysIn
<1> QED
  BY <1>1, <1>2 DEF TableAt

LEMMA HashScanDeleteWithout ==
  ASSUME NEW h, TableAt(h), NEW k \in Keys, Found(h, k)
  PROVE  Without(HashScanDelete(h, k), h, k) /\ h.nodecount > 0
<1> DEFINE g == HashScanDelete(h, k)
<1>1. k \in KeysIn(h) /\ h.nodecount \in Nat /\ h.nodecount > 0
  BY KeysInIs, CountIs
<1>2. /\ TableOK(g) /\ g.nodecount = h.nodecount - 1 /\ TableOK(h)
      /\ \A m \in Node : NodeIn(g, m) <=> NodeIn(h, m) /\ m.key # k
  BY <1>1, HashScanDeleteIs DEF TableAt
<1> HIDE DEF g
<1>3. ASSUME NEW l \in Keys, l # k
      PROVE  (l \in KeysIn(g) <=> l \in KeysIn(h)) /\ ValueIn(g, l) = ValueIn(h, l)
  <2>1. \A m \in Node : m.key = l => (NodeIn(g, m) <=> NodeIn(h, m))
    BY <1>2, <1>3
  <2> QED
    BY <1>2, <2>1, SameValues
<1>4. k \notin KeysIn(g)
  <2> SUFFICES ASSUME Found(g, k) PROVE FALSE
    BY KeysInIs
  <2>1. HashLookup(g, k) \in Node /\ HashLookup(g, k).key = k /\ NodeIn(g, HashLookup(g, k))
    BY <1>2, FoundIs
  <2> QED
    BY <1>2, <2>1
<1>5. KeysIn(g) = KeysIn(h) \ {k}
  BY <1>3, <1>4 DEF KeysIn
<1>6. IsFiniteSet(KeysIn(g)) /\ Cardinality(KeysIn(g)) = Cardinality(KeysIn(h)) - 1
  BY <1>1, <1>5, FS_RemoveElement DEF TableAt
<1>7. TableAt(g)
  BY <1>2, <1>6 DEF TableAt
<1> QED
  BY <1>1, <1>3, <1>5, <1>7 DEF Without, g

LEMMA PushWith ==
  ASSUME NEW h, TableAt(h), NEW k \in Keys, NEW v \in Values, ~Found(h, k)
  PROVE  With(Push(h, k, v), h, k, v)
<1> DEFINE g == Push(h, k, v)
           node == [key |-> k, data |-> v]
<1>1. k \notin KeysIn(h)
  BY KeysInIs
<1>2. /\ TableOK(g) /\ g.nodecount = h.nodecount + 1 /\ TableOK(h)
      /\ \A m \in Node : NodeIn(g, m) <=> NodeIn(h, m) \/ m = node
  BY PushIs DEF TableAt
<1>3. node \in Node /\ node.key = k /\ node.data = v
  BY DEF Node
<1> HIDE DEF g, node
<1>4. ASSUME NEW l \in Keys, l # k
      PROVE  (l \in KeysIn(g) <=> l \in KeysIn(h)) /\ ValueIn(g, l) = ValueIn(h, l)
  <2>1. \A m \in Node : m.key = l => (NodeIn(g, m) <=> NodeIn(h, m))
    BY <1>2, <1>3, <1>4
  <2> QED
    BY <1>2, <2>1, SameValues
<1>5. k \in KeysIn(g) /\ ValueIn(g, k) = v
  <2>1. NodeIn(g, node)
    BY <1>2, <1>3
  <2>2. Found(g, k) /\ HashLookup(g, k) = node
    BY <1>2, <1>3, <2>1, NodeFound
  <2> QED
    BY <1>3, <2>2, KeysInIs DEF ValueIn
<1>6. KeysIn(g) = KeysIn(h) \cup {k}
  BY <1>4, <1>5 DEF KeysIn
<1>7. IsFiniteSet(KeysIn(g)) /\ Cardinality(KeysIn(g)) = Cardinality(KeysIn(h)) + 1
  BY <1>1, <1>6, FS_AddElement DEF TableAt
<1>8. TableAt(g)
  BY <1>2, <1>7 DEF TableAt
<1> QED
  BY <1>4, <1>5, <1>6, <1>8 DEF With, g

(***************************************************************************)
(* hash_delete takes the key out, also from a table that it shrinks, which *)
(* it does not do to one of the first size.                                *)
(***************************************************************************)
LEMMA HashDeleteWithout ==
  ASSUME NEW h, TableAt(h), NEW k \in Keys, Found(h, k)
  PROVE  Without(HashDelete(h, k), h, k)
<1>1. CASE h.nodecount <= h.lowmark /\ h.nodecount > InitSize
  <2> DEFINE g == ShrinkTable(h)
  <2>1. h.nchains # InitSize
    <3>1. h.nodecount \in Nat /\ h.lowmark = h.nchains \div 2 /\ h.nchains \in Nat \ {0}
      BY TableIs, CountIs DEF TableAt, TableOK
    <3>2. h.nchains \div 2 <= h.nchains
      BY <3>1
    <3>3. InitSize \in Nat
      BY HashAssumption
    <3> QED
      BY <1>1, <3>1, <3>2, <3>3
  <2>2. /\ TableOK(g) /\ g.nodecount = h.nodecount
        /\ \A m \in Node : NodeIn(g, m) <=> NodeIn(h, m)
    BY <2>1, ShrinkTableIs DEF TableAt
  <2>3. HashDelete(h, k) = HashScanDelete(g, k)
    BY <1>1 DEF HashDelete
  <2> HIDE DEF g
  <2>4. TableAt(g) /\ KeysIn(g) = KeysIn(h) /\ \A l \in Keys : ValueIn(g, l) = ValueIn(h, l)
    BY <2>2, SameTable
  <2>5. Found(g, k)
    BY <2>4, KeysInIs
  <2>6. Without(HashScanDelete(g, k), g, k)
    BY <2>4, <2>5, HashScanDeleteWithout
  <2> QED
    BY <2>3, <2>4, <2>6 DEF Without
<1>2. CASE ~(h.nodecount <= h.lowmark /\ h.nodecount > InitSize)
  <2>1. HashDelete(h, k) = HashScanDelete(h, k)
    BY <1>2 DEF HashDelete
  <2> QED
    BY <2>1, HashScanDeleteWithout
<1> QED
  BY <1>1, <1>2

(***************************************************************************)
(* hash_insert adds the key, whether or not the table grows.               *)
(***************************************************************************)
LEMMA HashInsertWith ==
  ASSUME NEW h, TableAt(h), NEW k \in Keys, NEW v \in Values, ~Found(h, k),
         NEW g \in HashInsert(h, k, v)
  PROVE  With(g, h, k, v)
<1>1. PICK f \in {h, GrowTable(h)} : g = Push(f, k, v)
  BY DEF HashInsert
<1>2. TableAt(f) /\ KeysIn(f) = KeysIn(h) /\ \A l \in Keys : ValueIn(f, l) = ValueIn(h, l)
  <2>1. CASE f = h
    BY <2>1
  <2>2. CASE f = GrowTable(h)
    <3>1. /\ TableOK(f) /\ f.nodecount = h.nodecount
          /\ \A m \in Node : NodeIn(f, m) <=> NodeIn(h, m)
      BY <2>2, GrowTableIs DEF TableAt
    <3> QED
      BY <3>1, SameTable
  <2> QED
    BY <2>1, <2>2
<1>3. ~Found(f, k)
  BY <1>2, KeysInIs
<1>4. With(Push(f, k, v), f, k, v)
  BY <1>2, <1>3, PushWith
<1> QED
  BY <1>1, <1>2, <1>4 DEF With

(***************************************************************************)
(* A new table is empty.                                                   *)
(***************************************************************************)
LEMMA HashCreateIs == TableAt(HashCreate) /\ KeysIn(HashCreate) = {}
<1> DEFINE h == HashCreate
<1>1. /\ h.table = [c \in 0..InitSize - 1 |-> <<>>] /\ h.nchains = InitSize
      /\ h.mask = InitSize - 1 /\ h.nodecount = 0
      /\ h.highmark = 2 * InitSize /\ h.lowmark = InitSize \div 2
      /\ h = [table |-> h.table, nchains |-> h.nchains, mask |-> h.mask,
              nodecount |-> h.nodecount, highmark |-> h.highmark, lowmark |-> h.lowmark]
  BY DEF HashCreate
<1>2. InitSize \in Nat \ {0} /\ InitSize \in Sizes
  BY HashAssumption, SizesAre
<1>3. h.table \in [0..h.nchains - 1 -> Seq(Node)] /\ \A c \in 0..h.nchains - 1 : h.table[c] = <<>>
  BY <1>1, EmptySeq
<1> HIDE DEF h
<1>4. h.mask \in Nat /\ h.highmark \in Nat /\ h.lowmark \in Nat /\ h.nodecount \in Nat
  BY <1>1, <1>2, DivModIs
<1>5. \A c \in 0..h.nchains - 1 : Len(h.table[c]) = 0
  BY <1>3
<1>6. TableOK(h)
  <2>1. h \in [table : [0..h.nchains - 1 -> Seq(Node)], nchains : Sizes, mask : Nat,
               nodecount : Nat, highmark : Nat, lowmark : Nat]
    BY <1>1, <1>2, <1>3, <1>4
  <2>2. \A c \in 0..h.nchains - 1 :
          /\ \A i \in 1..Len(h.table[c]) : HashOf[h.table[c][i].key] % h.nchains = c
          /\ OneEach(h.table[c])
    BY <1>5 DEF OneEach
  <2> QED
    BY <1>1, <2>1, <2>2 DEF TableOK
<1>7. KeysIn(h) = {}
  <2> SUFFICES ASSUME NEW k \in Keys, Found(h, k) PROVE FALSE
    BY DEF KeysIn
  <2>1. PlaceOf(h, k) \in 1..Len(Chain(h, k)) /\ Chain(h, k) = h.table[ChainOf(h, k)]
        /\ ChainOf(h, k) \in 0..h.nchains - 1
    BY <1>6, FoundIs, TableIs
  <2>2. Len(Chain(h, k)) = 0
    BY <1>5, <2>1
  <2> QED
    BY <2>1, <2>2
<1> QED
  BY <1>1, <1>6, <1>7, FS_EmptySet DEF TableAt, h

-----------------------------------------------------------------------------
(* Scans. *)

ScanType == [next : Keys \cup {NoKey}, chain : Int]

\* The keys of the chains from c on.
From(h, c) == {l \in KeysIn(h) : ChainOf(h, l) >= c}

\* The keys a scan at k has yet to return, k first.
Ahead(h, k) ==
  {l \in KeysIn(h) : \/ ChainOf(h, l) > ChainOf(h, k)
                     \/ ChainOf(h, l) = ChainOf(h, k) /\ PlaceOf(h, l) >= PlaceOf(h, k)}

\* A scan that has the keys P to return.
ScanAt(h, s, P) ==
  /\ s \in ScanType
  /\ s.next = NoKey => P = {}
  /\ s.next # NoKey => s.next \in KeysIn(h) /\ s.chain = ChainOf(h, s.next) /\ P = Ahead(h, s.next)

LEMMA KeyIs ==
  ASSUME NEW h, TableOK(h), NEW l \in KeysIn(h)
  PROVE  /\ l \in Keys /\ l # NoKey
         /\ ChainOf(h, l) \in 0..h.nchains - 1 /\ ChainOf(h, l) \in Nat
         /\ Chain(h, l) = h.table[ChainOf(h, l)]
         /\ PlaceOf(h, l) \in 1..Len(Chain(h, l)) /\ PlaceOf(h, l) \in Nat
         /\ Chain(h, l)[PlaceOf(h, l)].key = l
<1>1. l \in Keys /\ Found(h, l) /\ l # NoKey
  BY HashAssumption DEF KeysIn
<1>2. /\ ChainOf(h, l) \in 0..h.nchains - 1 /\ Chain(h, l) = h.table[ChainOf(h, l)]
      /\ h.nchains \in Nat \ {0} /\ Len(Chain(h, l)) \in Nat
  BY <1>1, TableIs
<1>3. PlaceOf(h, l) \in 1..Len(Chain(h, l)) /\ Chain(h, l)[PlaceOf(h, l)].key = l
  BY <1>1, FoundIs
<1> QED
  BY <1>1, <1>2, <1>3

\* k is the key of the node at place i of chain c.
IsAt(h, k, c, i) ==
  c \in 0..h.nchains - 1 /\ i \in 1..Len(h.table[c]) /\ k = h.table[c][i].key

LEMMA KeyAtPlace ==
  ASSUME NEW h, TableOK(h), NEW k, NEW c, NEW i, IsAt(h, k, c, i)
  PROVE  k \in KeysIn(h) /\ ChainOf(h, k) = c /\ PlaceOf(h, k) = i
<1> USE DEF IsAt
<1>1. k \in Keys /\ ChainOf(h, k) = c
  BY NodeAt
<1>2. Chain(h, k) = h.table[c]
  BY <1>1 DEF Chain
<1>3. Found(h, k) /\ PlaceOf(h, k) = i
  BY <1>1, <1>2, PlaceIs
<1> QED
  BY <1>1, <1>3, KeysInIs

LEMMA ScanFromIs ==
  ASSUME NEW h, TableOK(h), NEW c \in Nat, NEW old \in Int
  PROVE  ScanAt(h, ScanFrom(h, c, old), From(h, c))
<1> DEFINE used == {d \in c..h.nchains - 1 : h.table[d] # <<>>}
           s == ScanFrom(h, c, old)
<1>1. h.nchains \in Nat /\ h.table \in [0..h.nchains - 1 -> Seq(Node)]
  BY SizesAre DEF TableOK
<1>2. /\ used = {} => s = [next |-> NoKey, chain |-> old]
      /\ used # {} => LET d == CHOOSE d \in used : \A e \in used : d <= e
                      IN s = [next |-> h.table[d][1].key, chain |-> d]
  BY DEF ScanFrom
<1>3. used \subseteq Nat /\ \A d \in used : d \in 0..h.nchains - 1 /\ d >= c /\ h.table[d] # <<>>
  BY <1>1
<1>4. ASSUME NEW l \in From(h, c)
      PROVE  ChainOf(h, l) \in used
  <2>1. /\ l \in KeysIn(h) /\ ChainOf(h, l) >= c
        /\ ChainOf(h, l) \in 0..h.nchains - 1 /\ Chain(h, l) = h.table[ChainOf(h, l)]
        /\ PlaceOf(h, l) \in 1..Len(Chain(h, l))
    BY KeyIs DEF From
  <2>2. h.table[ChainOf(h, l)] # <<>>
    BY <2>1
  <2> QED
    BY <1>1, <2>1, <2>2
<1> HIDE DEF used, s
<1>5. CASE used = {}
  <2>1. From(h, c) = {}
    BY <1>4, <1>5
  <2>2. s \in ScanType /\ s.next = NoKey
    BY <1>2, <1>5 DEF ScanType
  <2> QED
    BY <2>1, <2>2 DEF ScanAt, s
<1>6. CASE used # {}
  <2>1. \E d \in used : \A e \in used : d <= e
    BY <1>3, <1>6, LeastOf
  <2>2. PICK d \in used : (\A e \in used : d <= e) /\ s = [next |-> h.table[d][1].key, chain |-> d]
    BY <1>2, <1>6, <2>1
  <2>3. d \in 0..h.nchains - 1 /\ d >= c /\ d \in Nat /\ 1 \in 1..Len(h.table[d])
    <3>1. d \in 0..h.nchains - 1 /\ d >= c /\ h.table[d] # <<>> /\ h.table[d] \in Seq(Node)
      BY <1>1, <1>3
    <3>2. Len(h.table[d]) \in Nat \ {0}
      BY <3>1, EmptySeq
    <3> QED
      BY <3>1, <3>2
  <2> DEFINE k == h.table[d][1].key
  <2>a. k = h.table[d][1].key /\ s = [next |-> k, chain |-> d]
    BY <2>2
  <2> HIDE DEF k
  <2>4. k \in KeysIn(h) /\ ChainOf(h, k) = d /\ PlaceOf(h, k) = 1
    <3>1. IsAt(h, k, d, 1)
      BY <2>3, <2>a DEF IsAt
    <3> QED
      BY <3>1, KeyAtPlace
  <2>5. k \in Keys /\ k # NoKey
    BY <2>4, KeyIs
  <2>7. ASSUME NEW l \in KeysIn(h)
        PROVE  l \in From(h, c) <=> l \in Ahead(h, k)
    <3>1. ChainOf(h, l) \in Nat /\ PlaceOf(h, l) >= 1
      BY KeyIs
    <3>2. l \in From(h, c) => ChainOf(h, l) >= d
      BY <1>4, <2>2, <2>3, <3>1
    <3>3. l \in From(h, c) <=> ChainOf(h, l) >= c
      BY DEF From
    <3>4. l \in Ahead(h, k) <=> ChainOf(h, l) >= d
      BY <2>3, <2>4, <3>1 DEF Ahead
    <3> QED
      BY <2>3, <3>1, <3>2, <3>3, <3>4
  <2>8. From(h, c) = Ahead(h, k)
    BY <2>7 DEF From, Ahead
  <2>9. s \in ScanType /\ s.next = k /\ s.chain = d
    BY <2>3, <2>5, <2>a DEF ScanType
  <2> QED
    BY <2>4, <2>5, <2>8, <2>9 DEF ScanAt, s
<1> QED
  BY <1>5, <1>6

LEMMA HashScanBeginIs ==
  ASSUME NEW h, TableOK(h)
  PROVE  ScanAt(h, HashScanBegin(h), KeysIn(h))
<1>1. From(h, 0) = KeysIn(h)
  <2>1. \A l \in KeysIn(h) : ChainOf(h, l) >= 0
    BY KeyIs
  <2> QED
    BY <2>1 DEF From
<1>2. ScanAt(h, ScanFrom(h, 0, 0), From(h, 0))
  BY ScanFromIs
<1> QED
  BY <1>1, <1>2 DEF HashScanBegin

(***************************************************************************)
(* A step of a scan: the key it was at is done with.                       *)
(***************************************************************************)
LEMMA HashScanNextIs ==
  ASSUME NEW h, TableOK(h), NEW s, NEW P, ScanAt(h, s, P), s.next # NoKey
  PROVE  /\ s.next \in KeysIn(h)
         /\ ScanAt(h, HashScanNext(h, s), P \ {s.next})
<1> DEFINE k == s.next
           d == s.chain
           p == PlaceOf(h, k)
           n == Len(Chain(h, k))
           t == HashScanNext(h, s)
<1>1. k \in KeysIn(h) /\ d = ChainOf(h, k) /\ P = Ahead(h, k) /\ s \in ScanType
  BY DEF ScanAt
<1>2. /\ d \in 0..h.nchains - 1 /\ d \in Nat /\ Chain(h, k) = h.table[d]
      /\ p \in 1..n /\ p \in Nat /\ Chain(h, k)[p].key = k
  BY <1>1, KeyIs
<1>3. Chain(h, k) \in Seq(Node) /\ n \in Nat
  BY <1>1, TableIs DEF KeysIn
<1>4. /\ After(h, k) = SubSeq(Chain(h, k), p + 1, n)
      /\ p < n => After(h, k) # <<>> /\ After(h, k)[1] = Chain(h, k)[p + 1]
      /\ p >= n => After(h, k) = <<>>
  <2>1. After(h, k) = SubSeq(Chain(h, k), p + 1, n)
    BY DEF After
  <2> DEFINE q == p + 1
             c == Chain(h, k)
             r == SubSeq(c, q, n)
  <2>2. /\ q \in Int /\ n \in Int /\ c \in Seq(Node) /\ q >= 1 /\ n = Len(c)
        /\ p < n <=> q <= n
    BY <1>2, <1>3
  <2>3. \A i \in q..n : c[i] \in Node
    BY <2>2, ElementOfSeq
  <2>4. r = SubSeq(c, q, n)
    OBVIOUS
  <2> HIDE DEF r, c, q, n
  <2>5. /\ r \in Seq(Node) /\ Len(r) = (IF q <= n THEN n - q + 1 ELSE 0)
        /\ \A i \in 1..n - q + 1 : r[i] = c[q + i - 1]
    BY <2>2, <2>3, <2>4, SubSeqProperties
  <2>6. CASE q <= n
    <3>1. Len(r) # 0 /\ r[1] = c[q]
      BY <2>2, <2>5, <2>6
    <3>2. r # <<>>
      BY <3>1
    <3> QED
      BY <2>1, <2>2, <2>4, <2>6, <3>1, <3>2, <1>2, <1>3, SMTT(60) DEF q, c
  <2>7. CASE ~(q <= n)
    <3>1. r = <<>>
      BY <2>5, <2>7, EmptySeq
    <3> QED
      BY <2>1, <2>2, <2>4, <2>7, <3>1, <1>2, <1>3 DEF q, c
  <2> QED
    BY <2>6, <2>7
<1>5. ASSUME NEW l \in KeysIn(h)
      PROVE  /\ ChainOf(h, l) \in Nat /\ PlaceOf(h, l) \in Nat
             /\ ChainOf(h, l) = d => PlaceOf(h, l) \in 1..n /\ (PlaceOf(h, l) = p => l = k)
  BY <1>2, KeyIs
<1>6. CASE p < n
  <2> DEFINE next == Chain(h, k)[p + 1].key
  <2>1. p + 1 \in 1..Len(h.table[d]) /\ next = h.table[d][p + 1].key
    BY <1>2, <1>3, <1>6
  <2>a. t = [s EXCEPT !.next = next]
    BY <1>4, <1>6 DEF HashScanNext
  <2> HIDE DEF next
  <2>2. next \in KeysIn(h) /\ ChainOf(h, next) = d /\ PlaceOf(h, next) = p + 1
    <3> DEFINE q == p + 1
    <3>1. IsAt(h, next, d, q)
      BY <1>2, <2>1 DEF IsAt
    <3> HIDE DEF q, d
    <3>2. next \in KeysIn(h) /\ ChainOf(h, next) = d /\ PlaceOf(h, next) = q
      BY <3>1, KeyAtPlace
    <3> QED
      BY <3>2 DEF q
  <2>3. next \in Keys /\ next # NoKey
    BY <2>2, KeyIs
  <2> HIDE DEF t, n
  <2>5. t \in ScanType /\ t.next = next /\ t.chain = d
    BY <1>1, <2>3, <2>a DEF ScanType
  <2>6. ASSUME NEW l \in KeysIn(h)
        PROVE  l \in Ahead(h, next) <=> l \in Ahead(h, k) /\ l # k
    <3>1. l \in Ahead(h, next) <=>
            ChainOf(h, l) > d \/ (ChainOf(h, l) = d /\ PlaceOf(h, l) >= p + 1)
      BY <2>2 DEF Ahead
    <3>2. l \in Ahead(h, k) <=> ChainOf(h, l) > d \/ (ChainOf(h, l) = d /\ PlaceOf(h, l) >= p)
      BY <1>1 DEF Ahead
    <3>3. l = k => ChainOf(h, l) = d /\ PlaceOf(h, l) = p
      BY <1>1
    <3> HIDE DEF d, k, p
    <3> QED
      BY <1>2, <1>5, <3>1, <3>2, <3>3
  <2>7. Ahead(h, next) = P \ {k}
    BY <1>1, <2>6 DEF Ahead
  <2> QED
    BY <1>1, <2>2, <2>3, <2>5, <2>7 DEF ScanAt, t
<1>7. CASE ~(p < n)
  <2>1. t = ScanFrom(h, d + 1, d)
    BY <1>2, <1>3, <1>4, <1>7 DEF HashScanNext
  <2>2. ScanAt(h, ScanFrom(h, d + 1, d), From(h, d + 1))
    BY <1>2, ScanFromIs
  <2>3. ASSUME NEW l \in KeysIn(h)
        PROVE  l \in From(h, d + 1) <=> l \in Ahead(h, k) /\ l # k
    <3>1. l \in From(h, d + 1) <=> ChainOf(h, l) >= d + 1
      BY DEF From
    <3>2. l \in Ahead(h, k) <=> ChainOf(h, l) > d \/ (ChainOf(h, l) = d /\ PlaceOf(h, l) >= p)
      BY <1>1 DEF Ahead
    <3>3. l = k => ChainOf(h, l) = d
      BY <1>1
    <3> HIDE DEF d, k, p, n
    <3> QED
      BY <1>2, <1>3, <1>5, <1>7, <3>1, <3>2, <3>3
  <2>4. From(h, d + 1) = P \ {k}
    BY <1>1, <2>3 DEF From, Ahead
  <2> QED
    BY <1>1, <2>1, <2>2, <2>4
<1> QED
  BY <1>6, <1>7

(***************************************************************************)
(* A scan does not notice that a node it is past has gone.                 *)
(***************************************************************************)
LEMMA ScanWithout ==
  ASSUME NEW h, TableAt(h), NEW s, NEW P, ScanAt(h, s, P), NEW k \in KeysIn(h), k \notin P
  PROVE  ScanAt(HashScanDelete(h, k), s, P)
<1> DEFINE g == HashScanDelete(h, k)
<1>1. TableOK(h) /\ k \in Keys /\ Found(h, k)
  BY DEF TableAt, KeysIn
<1>2. KeysIn(g) = KeysIn(h) \ {k} /\ h.nodecount > 0
  BY <1>1, HashScanDeleteWithout DEF Without
<1>3. /\ \A l \in Keys :
           /\ ChainOf(g, l) = ChainOf(h, l)
           /\ l # k /\ Found(h, l) =>
                PlaceOf(g, l) = IF ChainOf(h, l) = ChainOf(h, k) /\ PlaceOf(h, l) > PlaceOf(h, k)
                                THEN PlaceOf(h, l) - 1 ELSE PlaceOf(h, l)
  BY <1>1, <1>2, HashScanDeleteIs
<1> HIDE DEF g
<1>4. ASSUME NEW l \in KeysIn(g)
      PROVE  /\ l \in KeysIn(h) /\ l # k /\ ChainOf(g, l) = ChainOf(h, l)
             /\ ChainOf(h, l) \in Nat /\ PlaceOf(h, l) \in Nat
             /\ PlaceOf(g, l) = IF ChainOf(h, l) = ChainOf(h, k) /\ PlaceOf(h, l) > PlaceOf(h, k)
                                THEN PlaceOf(h, l) - 1 ELSE PlaceOf(h, l)
             /\ ChainOf(h, l) = ChainOf(h, k) => PlaceOf(h, l) # PlaceOf(h, k)
  <2>1. l \in KeysIn(h) /\ l # k /\ l \in Keys /\ Found(h, l)
    BY <1>2 DEF KeysIn
  <2>2. /\ ChainOf(h, l) \in Nat /\ PlaceOf(h, l) \in Nat
        /\ Chain(h, l) = h.table[ChainOf(h, l)] /\ Chain(h, l)[PlaceOf(h, l)].key = l
    BY <1>1, <2>1, KeyIs
  <2>3. Chain(h, k) = h.table[ChainOf(h, k)] /\ Chain(h, k)[PlaceOf(h, k)].key = k
    BY <1>1, KeyIs
  <2>4. ChainOf(h, l) = ChainOf(h, k) => PlaceOf(h, l) # PlaceOf(h, k)
    BY <2>1, <2>2, <2>3
  <2> QED
    BY <1>3, <2>1, <2>2, <2>4
<1>5. ASSUME s.next # NoKey
      PROVE  /\ s.next \in KeysIn(g) /\ s.chain = ChainOf(g, s.next) /\ P = Ahead(g, s.next)
  <2> DEFINE m == s.next
  <2>1. m \in KeysIn(h) /\ s.chain = ChainOf(h, m) /\ P = Ahead(h, m)
    BY <1>5 DEF ScanAt
  <2>2. m \in P
    <3>1. PlaceOf(h, m) \in Nat
      BY <1>1, <2>1, KeyIs
    <3> QED
      BY <2>1, <3>1 DEF Ahead
  <2>3. m \in KeysIn(g)
    BY <1>2, <2>1, <2>2
  <2> HIDE DEF m
  <2>4. ASSUME NEW l \in KeysIn(g)
        PROVE  l \in Ahead(g, m) <=> l \in Ahead(h, m)
    <3>1. PlaceOf(h, k) \in Nat
      BY <1>1, KeyIs
    <3> DEFINE cl == ChainOf(h, l)
               cm == ChainOf(h, m)
               ck == ChainOf(h, k)
               pl == PlaceOf(h, l)
               pm == PlaceOf(h, m)
               pk == PlaceOf(h, k)
    <3>2. /\ cl \in Nat /\ pl \in Nat /\ pk \in Nat /\ ChainOf(g, l) = cl
          /\ PlaceOf(g, l) = (IF cl = ck /\ pl > pk THEN pl - 1 ELSE pl)
          /\ cl = ck => pl # pk
      BY <1>4, <3>1
    <3>3. /\ cm \in Nat /\ pm \in Nat /\ ChainOf(g, m) = cm
          /\ PlaceOf(g, m) = (IF cm = ck /\ pm > pk THEN pm - 1 ELSE pm)
          /\ cm = ck => pm # pk
      BY <1>4, <2>3, <3>1
    <3>4. /\ l \in Ahead(g, m) <=> cl > cm \/ (cl = cm /\ PlaceOf(g, l) >= PlaceOf(g, m))
          /\ l \in Ahead(h, m) <=> cl > cm \/ (cl = cm /\ pl >= pm)
      BY <1>4, <3>2, <3>3 DEF Ahead
    <3> HIDE DEF cl, cm, ck, pl, pm, pk
    <3>5. cl = cm => (PlaceOf(g, l) >= PlaceOf(g, m) <=> pl >= pm)
      BY <3>2, <3>3
    <3> QED
      BY <3>4, <3>5
  <2>5. P \subseteq KeysIn(g)
    BY <1>2, <2>1 DEF Ahead
  <2>6. P = Ahead(g, m)
    BY <2>1, <2>4, <2>5 DEF Ahead
  <2>7. s.chain = ChainOf(g, m)
    BY <1>4, <2>1, <2>3
  <2> QED
    BY <2>3, <2>6, <2>7 DEF m
<1> QED
  BY <1>5 DEF ScanAt, g

-----------------------------------------------------------------------------
(* The inductive invariant of TRHash. *)

RefsOK == /\ refs \in [Keys -> Nat]
          /\ \A k \in Keys : refs[k] = IF k \in KeysIn(hash) THEN 1 ELSE 0

PhasesOK == /\ phase \in {"live", "dealloc", "freed"}
            /\ holders \subseteq {"owner", "enumerator"}
            /\ phase # "live" => holders = {}
            /\ phase = "freed" => KeysIn(hash) = {}

\* An enumerator that has not been disturbed is in the middle of a scan, and
\* dealloc deletes exactly what its scan has yet to return.
ScansOK == /\ phase = "live" /\ "enumerator" \in holders /\ scan # StaleScan =>
                ScanAt(hash, scan, pending)
           /\ phase = "dealloc" => ScanAt(hash, scan, pending) /\ pending = KeysIn(hash)

HashInv == TableAt(hash) /\ RefsOK /\ PhasesOK /\ ScansOK

LEMMA HashInvInit == ContainerInit => HashInv
<1> SUFFICES ASSUME ContainerInit PROVE HashInv
  OBVIOUS
<1>1. /\ hash = HashCreate /\ scan = NoScan /\ pending = {} /\ holders = {"owner"}
      /\ phase = "live" /\ refs = [k \in Keys |-> 0]
  BY DEF ContainerInit, Init
<1>2. TableAt(hash) /\ KeysIn(hash) = {}
  BY <1>1, HashCreateIs
<1> QED
  BY <1>1, <1>2 DEF HashInv, RefsOK, PhasesOK, ScansOK

LEMMA SettingsAre ==
  ASSUME NEW st \in Settings PROVE st[1] \in Keys /\ st[2] \in Values
  BY HashAssumption

LEMMA RemoveObjectForKeyInv ==
  ASSUME HashInv, NEW k \in Keys, RemoveObjectForKey(k)
  PROVE  HashInv' /\ Without(hash', hash, k)
<1>1. /\ phase = "live" /\ Found(hash, k) /\ hash' = HashDelete(hash, k)
      /\ refs' = [refs EXCEPT ![k] = @ - 1]
      /\ scan' = (IF "enumerator" \in holders THEN StaleScan ELSE scan)
      /\ holders' = holders /\ phase' = phase
  BY DEF RemoveObjectForKey, InUse, Disturb
<1>2. Without(hash', hash, k)
  BY <1>1, HashDeleteWithout DEF HashInv
<1>3. TableAt(hash') /\ KeysIn(hash') = KeysIn(hash) \ {k} /\ k \in KeysIn(hash)
  BY <1>1, <1>2, KeysInIs DEF Without
<1>4. RefsOK'
  BY <1>1, <1>3 DEF HashInv, RefsOK
<1>5. PhasesOK' /\ ScansOK'
  BY <1>1 DEF HashInv, PhasesOK, ScansOK
<1> QED
  BY <1>2, <1>3, <1>4, <1>5 DEF HashInv

LEMMA SetObjectInv ==
  ASSUME HashInv, NEW k \in Keys, NEW v \in Values, SetObject(k, v)
  PROVE  HashInv' /\ With(hash', hash, k, v)
<1> DEFINE present == Found(hash, k)
           removed == IF present THEN HashDelete(hash, k) ELSE hash
<1>1. /\ phase = "live" /\ hash' \in HashInsert(removed, k, v)
      /\ refs' = [refs EXCEPT ![k] = IF present THEN @ ELSE @ + 1]
      /\ scan' = (IF "enumerator" \in holders THEN StaleScan ELSE scan)
      /\ holders' = holders /\ phase' = phase
  BY DEF SetObject, InUse, Disturb
<1>2. Without(removed, hash, k)
  <2>1. CASE present
    BY <2>1, HashDeleteWithout DEF HashInv
  <2>2. CASE ~present
    BY <2>2, KeysInIs DEF HashInv, Without
  <2> QED
    BY <2>1, <2>2
<1>3. present <=> k \in KeysIn(hash)
  BY KeysInIs
<1> HIDE DEF present, removed
<1>4. ~Found(removed, k) /\ TableAt(removed)
  BY <1>2, KeysInIs DEF Without
<1>5. With(hash', removed, k, v)
  BY <1>1, <1>4, HashInsertWith
<1>6. With(hash', hash, k, v)
  BY <1>2, <1>5 DEF With, Without
<1>7. TableAt(hash') /\ KeysIn(hash') = KeysIn(hash) \cup {k}
  BY <1>6 DEF With
<1>8. RefsOK'
  BY <1>1, <1>3, <1>7 DEF HashInv, RefsOK
<1>9. PhasesOK' /\ ScansOK'
  BY <1>1 DEF HashInv, PhasesOK, ScansOK
<1> QED
  BY <1>6, <1>7, <1>8, <1>9 DEF HashInv

LEMMA KeyEnumeratorInv ==
  ASSUME HashInv, KeyEnumerator PROVE HashInv'
<1>1. /\ phase = "live" /\ hash' = hash /\ refs' = refs /\ phase' = phase
      /\ holders' = holders \cup {"enumerator"}
      /\ scan' = HashScanBegin(hash) /\ pending' = KeysIn(hash)
  BY DEF KeyEnumerator, InUse
<1>2. ScanAt(hash', scan', pending')
  BY <1>1, HashScanBeginIs DEF HashInv, TableAt
<1>3. RefsOK' /\ TableAt(hash')
  BY <1>1 DEF HashInv, RefsOK
<1> QED
  BY <1>1, <1>2, <1>3 DEF HashInv, PhasesOK, ScansOK

LEMMA NextObjectInv ==
  ASSUME HashInv, NextObject PROVE HashInv'
<1>1. /\ "enumerator" \in holders /\ scan.next # NoKey
      /\ hash' = hash /\ refs' = refs /\ phase' = phase /\ holders' = holders
      /\ scan' = HashScanNext(hash, scan) /\ pending' = pending \ {scan.next}
  BY DEF NextObject
<1>2. phase = "live" /\ scan # StaleScan
  BY <1>1 DEF HashInv, PhasesOK, StaleScan
<1>3. ScanAt(hash, scan, pending) /\ TableOK(hash)
  BY <1>1, <1>2 DEF HashInv, ScansOK, TableAt
<1>4. ScanAt(hash', scan', pending')
  BY <1>1, <1>3, HashScanNextIs
<1>5. RefsOK' /\ TableAt(hash')
  BY <1>1 DEF HashInv, RefsOK
<1> QED
  BY <1>1, <1>2, <1>4, <1>5 DEF HashInv, PhasesOK, ScansOK

LEMMA ReleaseInv ==
  ASSUME HashInv, NEW holder \in {"owner", "enumerator"}, Release(holder)
  PROVE  HashInv'
<1>1. /\ phase = "live" /\ hash' = hash /\ refs' = refs /\ holders' = holders \ {holder}
  BY DEF Release
<1>2. RefsOK' /\ TableAt(hash') /\ TableOK(hash)
  BY <1>1 DEF HashInv, RefsOK, TableAt
<1>3. CASE holders' = {}
  <2>1. phase' = "dealloc" /\ scan' = HashScanBegin(hash) /\ pending' = KeysIn(hash)
    BY <1>3 DEF Release
  <2>2. ScanAt(hash', scan', pending') /\ pending' = KeysIn(hash')
    BY <1>1, <1>2, <2>1, HashScanBeginIs
  <2> QED
    BY <1>2, <1>3, <2>1, <2>2 DEF HashInv, PhasesOK, ScansOK
<1>4. CASE holders' # {}
  <2>1. phase' = phase
    BY <1>4 DEF Release
  <2>2. PhasesOK'
    BY <1>1, <2>1 DEF HashInv, PhasesOK
  <2>3. ScansOK'
    <3>1. CASE holder = "enumerator"
      BY <1>1, <2>1, <3>1 DEF ScansOK
    <3>2. CASE holder # "enumerator"
      <4>1. scan' = scan /\ pending' = pending
        BY <1>4, <3>2 DEF Release
      <4> QED
        BY <1>1, <2>1, <4>1 DEF HashInv, ScansOK
    <3> QED
      BY <3>1, <3>2
  <2> QED
    BY <1>2, <2>2, <2>3 DEF HashInv
<1> QED
  BY <1>3, <1>4

LEMMA DeallocNodeInv ==
  ASSUME HashInv, DeallocNode
  PROVE  HashInv' /\ scan.next \in Keys /\ Without(hash', hash, scan.next)
<1> DEFINE k == scan.next
<1>1. /\ phase = "dealloc" /\ k # NoKey
      /\ scan' = HashScanNext(hash, scan) /\ hash' = HashScanDelete(hash, k)
      /\ refs' = [refs EXCEPT ![k] = @ - 1] /\ pending' = pending \ {k}
      /\ holders' = holders /\ phase' = phase
  BY DEF DeallocNode
<1>2. ScanAt(hash, scan, pending) /\ pending = KeysIn(hash) /\ TableAt(hash) /\ TableOK(hash)
  BY <1>1 DEF HashInv, ScansOK, TableAt
<1>3. k \in KeysIn(hash) /\ ScanAt(hash, scan', pending')
  BY <1>1, <1>2, HashScanNextIs
<1>4. k \in Keys /\ Found(hash, k)
  BY <1>3 DEF KeysIn
<1> HIDE DEF k
<1>5. Without(hash', hash, k)
  BY <1>1, <1>2, <1>4, HashScanDeleteWithout
<1>6. TableAt(hash') /\ KeysIn(hash') = KeysIn(hash) \ {k}
  BY <1>5 DEF Without
<1>7. ScanAt(hash', scan', pending')
  <2>1. k \notin pending'
    BY <1>1
  <2> QED
    BY <1>1, <1>2, <1>3, <2>1, ScanWithout
<1>8. RefsOK'
  BY <1>1, <1>3, <1>4, <1>6 DEF HashInv, RefsOK
<1>9. PhasesOK' /\ ScansOK'
  BY <1>1, <1>2, <1>6, <1>7 DEF HashInv, PhasesOK, ScansOK
<1> QED
  BY <1>4, <1>5, <1>6, <1>8, <1>9 DEF HashInv, k

LEMMA HashDestroyInv ==
  ASSUME HashInv, HashDestroy PROVE HashInv'
<1>1. /\ phase = "dealloc" /\ scan.next = NoKey /\ phase' = "freed"
      /\ hash' = hash /\ scan' = scan /\ pending' = pending /\ holders' = holders /\ refs' = refs
  BY DEF HashDestroy
<1>2. KeysIn(hash) = {}
  BY <1>1 DEF HashInv, ScansOK, ScanAt
<1> QED
  BY <1>1, <1>2 DEF HashInv, RefsOK, PhasesOK, ScansOK

LEMMA HashStays ==
  ASSUME HashInv, UNCHANGED vars PROVE HashInv'
  BY DEF HashInv, RefsOK, PhasesOK, ScansOK, vars

LEMMA HashInvStep ==
  ASSUME HashInv, [ContainerNext]_containerVars PROVE HashInv'
<1>1. CASE Next
  <2>1. ASSUME NEW k \in Keys, RemoveObjectForKey(k)
        PROVE  HashInv'
    BY <2>1, RemoveObjectForKeyInv
  <2>2. ASSUME NEW st \in Settings, SetObject(st[1], st[2])
        PROVE  HashInv'
    BY <2>2, SettingsAre, SetObjectInv
  <2>3. ASSUME NEW holder \in {"owner", "enumerator"}, Release(holder)
        PROVE  HashInv'
    BY <2>3, ReleaseInv
  <2>4. CASE DeallocNode
    BY <2>4, DeallocNodeInv
  <2>5. CASE Freed
    BY <2>5, HashStays DEF Freed
  <2> QED
    BY <1>1, <2>1, <2>2, <2>3, <2>4, <2>5, KeyEnumeratorInv, NextObjectInv, HashDestroyInv
       DEF Next
<1>2. CASE UNCHANGED vars
  BY <1>2, HashStays
<1> QED
  BY <1>1, <1>2 DEF ContainerNext, containerVars

LEMMA HashInvHolds == ContainerSpec => []HashInv
<1>1. HashInv /\ [ContainerNext]_containerVars => HashInv'
  BY HashInvStep
<1> QED
  BY <1>1, HashInvInit, PTL DEF ContainerSpec

(***************************************************************************)
(* The next key of a scan is one still to be returned, and there is none   *)
(* only when all have been: keyEnumerator and dealloc see each key once.   *)
(***************************************************************************)
THEOREM ScansAreExact == ContainerSpec => []ScanExact
<1>1. HashInv => ScanExact
  <2> SUFFICES ASSUME HashInv, "enumerator" \in holders \/ phase = "dealloc", scan # StaleScan
               PROVE  IF pending = {} THEN scan.next = NoKey ELSE scan.next \in pending
    BY DEF ScanExact
  <2>1. ScanAt(hash, scan, pending) /\ TableOK(hash)
    BY DEF HashInv, PhasesOK, ScansOK, TableAt
  <2>2. ASSUME scan.next # NoKey
        PROVE  scan.next \in pending
    <3>1. scan.next \in KeysIn(hash) /\ pending = Ahead(hash, scan.next)
      BY <2>1, <2>2 DEF ScanAt
    <3>2. PlaceOf(hash, scan.next) \in Nat
      BY <2>1, <3>1, KeyIs
    <3> QED
      BY <3>1, <3>2 DEF Ahead
  <2> QED
    BY <2>1, <2>2 DEF ScanAt
<1> QED
  BY <1>1, HashInvHolds, PTL

(***************************************************************************)
(* The nodes are as many as the keys, and each is at the place at which a  *)
(* search for its key ends.                                                *)
(***************************************************************************)
LEMMA PlacesAre ==
  ASSUME NEW h, TableAt(h)
  PROVE  /\ \A x \in Places(h) : /\ KeyAt(h, x) \in KeysIn(h)
                                 /\ x = <<ChainOf(h, KeyAt(h, x)), PlaceOf(h, KeyAt(h, x))>>
         /\ \A k \in KeysIn(h) : /\ <<ChainOf(h, k), PlaceOf(h, k)>> \in Places(h)
                                 /\ KeyAt(h, <<ChainOf(h, k), PlaceOf(h, k)>>) = k
         /\ Cardinality(Places(h)) = h.nodecount
         /\ {KeyAt(h, x) : x \in Places(h)} = KeysIn(h)
<1> DEFINE place(k) == <<ChainOf(h, k), PlaceOf(h, k)>>
           f == [k \in KeysIn(h) |-> place(k)]
<1>1. TableOK(h) /\ h.table \in [0..h.nchains - 1 -> Seq(Node)]
  BY DEF TableAt, TableOK
<1>2. \A x : x \in Places(h) <=>
        \E c \in 0..h.nchains - 1 : \E i \in 1..Len(h.table[c]) : x = <<c, i>>
  <2>1. DOMAIN h.table = 0..h.nchains - 1
        /\ \A c \in 0..h.nchains - 1 : DOMAIN h.table[c] = 1..Len(h.table[c])
    BY <1>1
  <2>2. \A x : x \in Places(h) <=>
          \E c \in DOMAIN h.table : \E i \in DOMAIN h.table[c] : x = <<c, i>>
    BY DEF Places
  <2> QED
    BY <2>1, <2>2
<1>3. ASSUME NEW x \in Places(h)
      PROVE  KeyAt(h, x) \in KeysIn(h) /\ x = place(KeyAt(h, x))
  <2>a. PICK c \in 0..h.nchains - 1 : \E i \in 1..Len(h.table[c]) : x = <<c, i>>
    BY <1>2
  <2>1. PICK i \in 1..Len(h.table[c]) : x = <<c, i>>
    BY <2>a
  <2> DEFINE k == KeyAt(h, x)
  <2>2. IsAt(h, k, c, i)
    BY <2>1 DEF IsAt, KeyAt
  <2> HIDE DEF k
  <2>3. k \in KeysIn(h) /\ ChainOf(h, k) = c /\ PlaceOf(h, k) = i
    BY <1>1, <2>2, KeyAtPlace
  <2> QED
    BY <2>1, <2>3 DEF k
<1>4. ASSUME NEW k \in KeysIn(h)
      PROVE  place(k) \in Places(h) /\ KeyAt(h, place(k)) = k
  <2>1. /\ ChainOf(h, k) \in 0..h.nchains - 1 /\ Chain(h, k) = h.table[ChainOf(h, k)]
        /\ PlaceOf(h, k) \in 1..Len(Chain(h, k)) /\ Chain(h, k)[PlaceOf(h, k)].key = k
    BY <1>1, KeyIs
  <2> QED
    BY <1>2, <2>1 DEF KeyAt
<1> HIDE DEF place
<1>5. /\ f \in [KeysIn(h) -> Places(h)]
      /\ \A k, l \in KeysIn(h) : f[k] = f[l] => k = l
      /\ \A x \in Places(h) : \E k \in KeysIn(h) : f[k] = x
  BY <1>3, <1>4
<1>6. Cardinality(Places(h)) = Cardinality(KeysIn(h))
  <2> HIDE DEF f
  <2> QED
    BY <1>5, SameSize DEF TableAt
<1>7. {KeyAt(h, x) : x \in Places(h)} = KeysIn(h)
  BY <1>3, <1>4
<1> QED
  BY <1>3, <1>4, <1>6, <1>7 DEF TableAt, place

(***************************************************************************)
(* What hash_verify asserts holds after every operation, for every size of *)
(* the table: the marks are in order, each node is in its chain, no key is *)
(* there twice, and nodecount counts the nodes.                            *)
(***************************************************************************)
THEOREM TableVerified == ContainerSpec => []HashVerify
<1>1. HashInv => HashVerify
  <2> SUFFICES ASSUME HashInv PROVE HashVerify
    OBVIOUS
  <2>1. TableAt(hash) /\ TableOK(hash)
    BY DEF HashInv, TableAt
  <2>2. /\ hash.highmark = 2 * hash.nchains /\ hash.lowmark = hash.nchains \div 2
        /\ hash.nchains >= InitSize
    BY <2>1, SizesAre DEF TableOK
  <2>3. \A x \in Places(hash) : ChainOf(hash, KeyAt(hash, x)) = x[1]
    BY <2>1, PlacesAre
  <2>4. /\ Cardinality(Places(hash)) = hash.nodecount
        /\ {KeyAt(hash, x) : x \in Places(hash)} = KeysIn(hash)
    BY <2>1, PlacesAre
  <2> QED
    BY <2>1, <2>2, <2>3, <2>4 DEF HashVerify, TableAt
<1> QED
  BY <1>1, HashInvHolds, PTL

(***************************************************************************)
(* TRHash holds one reference on each key that is in the table and on its  *)
(* value, none on others, and none when it has been freed, when the table  *)
(* is empty, as hash_destroy asserts.                                      *)
(***************************************************************************)
THEOREM HashReferencesBalance == ContainerSpec => []ReferencesBalanced
<1>1. HashInv => ReferencesBalanced
  <2> SUFFICES ASSUME HashInv PROVE ReferencesBalanced
    OBVIOUS
  <2>1. TableAt(hash)
    BY DEF HashInv
  <2>2. ASSUME NEW k \in Keys
        PROVE  refs[k] = Cardinality({x \in Places(hash) : KeyAt(hash, x) = k})
    <3>1. CASE k \in KeysIn(hash)
      <4>1. {x \in Places(hash) : KeyAt(hash, x) = k} = {<<ChainOf(hash, k), PlaceOf(hash, k)>>}
        BY <2>1, <3>1, PlacesAre
      <4> QED
        BY <3>1, <4>1, FS_Singleton DEF HashInv, RefsOK
    <3>2. CASE k \notin KeysIn(hash)
      <4>1. {x \in Places(hash) : KeyAt(hash, x) = k} = {}
        BY <2>1, <3>2, PlacesAre
      <4> QED
        BY <3>2, <4>1, FS_EmptySet DEF HashInv, RefsOK
    <3> QED
      BY <3>1, <3>2
  <2>3. phase = "freed" => hash.nodecount = 0 /\ \A k \in Keys : refs[k] = 0
    BY <2>1, CountIs DEF HashInv, PhasesOK, RefsOK
  <2> QED
    BY <2>2, <2>3 DEF ReferencesBalanced
<1> QED
  BY <1>1, HashInvHolds, PTL

(***************************************************************************)
(* TRHash implements a dictionary: a step changes what is found for one    *)
(* key at most, whether the table grows, fails to grow, shrinks or is      *)
(* being deallocated.                                                      *)
(***************************************************************************)
LEMMA AssignedIs ==
  ASSUME NEW m, m = [l \in Keys |-> ValueForKey(l)], NEW n, n \in [Keys -> Values \cup {NoKey}],
         NEW k \in Keys, \A l \in Keys : l # k => n[l] = m[l]
  PROVE  n \in D!Assigned(m)
<1>1. n = [m EXCEPT ![k] = n[k]] /\ n[k] \in Values \cup {NoKey}
  OBVIOUS
<1> QED
  BY <1>1 DEF D!Assigned

LEMMA ValuesAre ==
  ASSUME NEW h, TableOK(h), NEW k \in Keys PROVE ValueIn(h, k) \in Values \cup {NoKey}
<1>1. Found(h, k) => HashLookup(h, k) \in Node
  BY FoundIs
<1> QED
  BY <1>1 DEF ValueIn, Node

LEMMA MapIs ==
  /\ \A k \in Keys : ValueForKey(k) = ValueIn(hash, k)
  /\ \A k \in Keys : ValueForKey(k)' = ValueIn(hash', k)
  BY DEF ValueForKey, ValueIn

THEOREM TableImplementsDictionary == ContainerSpec => ImplementsDictionary
<1> DEFINE map == [k \in Keys |-> ValueForKey(k)]
<1>1. ContainerInit => D!Init
  <2> SUFFICES ASSUME ContainerInit PROVE D!Init
    OBVIOUS
  <2>1. KeysIn(hash) = {}
    BY HashCreateIs DEF ContainerInit, Init
  <2>2. \A k \in Keys : ValueForKey(k) = NoKey
    BY <2>1, KeysInIs DEF ValueForKey
  <2> QED
    BY <2>2 DEF D!Init
<1>2. ASSUME HashInv, HashInv', NEW k \in Keys,
             \A l \in Keys : l # k => ValueIn(hash', l) = ValueIn(hash, l)
      PROVE  D!Next
  <2>1. \A l \in Keys : map'[l] = ValueIn(hash', l) /\ map[l] = ValueIn(hash, l)
    BY MapIs
  <2>2. map' \in [Keys -> Values \cup {NoKey}]
    <3>1. \A l \in Keys : ValueForKey(l)' \in Values \cup {NoKey}
      BY <1>2, MapIs, ValuesAre DEF HashInv, TableAt
    <3> QED
      BY <3>1
  <2>3. map' \in D!Assigned(map)
    <3>1. map = [l \in Keys |-> ValueForKey(l)]
      OBVIOUS
    <3> HIDE DEF map
    <3> QED
      BY <1>2, <2>1, <2>2, <3>1, AssignedIs
  <2> QED
    BY <2>3 DEF D!Next
<1>3. HashInv /\ HashInv' /\ [ContainerNext]_containerVars => [D!Next]_map
  <2> SUFFICES ASSUME HashInv, HashInv', [ContainerNext]_containerVars
               PROVE  D!Next \/ map' = map
    OBVIOUS
  <2>1. CASE hash' = hash
    BY <2>1 DEF ValueForKey, Found, HashLookup, Chain, ChainOf, PlaceOf
  <2>2. ASSUME NEW k \in Keys, RemoveObjectForKey(k)
        PROVE  D!Next
    BY <1>2, <2>2, RemoveObjectForKeyInv DEF Without
  <2>3. ASSUME NEW st \in Settings, SetObject(st[1], st[2])
        PROVE  D!Next
    BY <1>2, <2>3, SettingsAre, SetObjectInv DEF With
  <2>4. CASE DeallocNode
    BY <1>2, <2>4, DeallocNodeInv DEF Without
  <2>5. ASSUME hash' # hash
        PROVE  \/ \E k \in Keys : RemoveObjectForKey(k)
               \/ \E st \in Settings : SetObject(st[1], st[2])
               \/ DeallocNode
    BY <2>5 DEF ContainerNext, containerVars, vars, Next, KeyEnumerator, NextObject, Release,
               HashDestroy, Freed
  <2> QED
    BY <2>1, <2>2, <2>3, <2>4, <2>5
<1> QED
  BY <1>1, <1>3, HashInvHolds, PTL DEF ContainerSpec, ImplementsDictionary, D!Spec
=============================================================================
