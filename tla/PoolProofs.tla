------------------------------ MODULE PoolProofs ------------------------------
(***************************************************************************)
(* Proofs about ObjectPool, for any number of objects, pools and arrays:   *)
(* the count of each object is the number of references somebody holds on  *)
(* it, and enumerators return what is in the array.  Both follow from      *)
(* PoolInv, in which an object without a count has nothing to release.     *)
(***************************************************************************)
EXTENDS ContainerProps, FiniteSetTheorems, SequenceTheorems, TLAPS

-----------------------------------------------------------------------------
(* Finite sets and sequences. *)

(***************************************************************************)
(* Two sets with a one-to-one correspondence are of one size.              *)
(***************************************************************************)
LEMMA SameSize ==
  ASSUME NEW S, NEW T, IsFiniteSet(S), NEW f \in [S -> T],
         \A x, y \in S : f[x] = f[y] => x = y,
         \A y \in T : \E x \in S : f[x] = y
  PROVE  IsFiniteSet(T) /\ Cardinality(T) = Cardinality(S)
<1>1. f \in Bijection(S, T)
  BY DEF Bijection, Injection, Surjection, IsInjective
<1> QED
  BY <1>1, FS_Bijection DEF ExistsBijection

\* The places of o in a sequence.
PlacesIn(s, o) == {i \in 1..Len(s) : s[i] = o}

LEMMA PlacesFinite ==
  ASSUME NEW S, NEW s \in Seq(S), NEW o
  PROVE  /\ IsFiniteSet(PlacesIn(s, o))
         /\ Cardinality(PlacesIn(s, o)) \in Nat
<1>1. Len(s) \in Nat
  OBVIOUS
<1>2. IsFiniteSet(1..Len(s))
  BY <1>1, FS_Interval
<1>3. IsFiniteSet(PlacesIn(s, o))
  BY <1>2, FS_Subset DEF PlacesIn
<1> QED
  BY <1>3, FS_CardinalityType

(***************************************************************************)
(* The places in two sequences one after the other.                        *)
(***************************************************************************)
LEMMA PlacesConcat ==
  ASSUME NEW S, NEW s \in Seq(S), NEW t \in Seq(S), NEW o
  PROVE  Cardinality(PlacesIn(s \o t, o)) =
           Cardinality(PlacesIn(s, o)) + Cardinality(PlacesIn(t, o))
<1> DEFINE U == {i \in Len(s) + 1..Len(s) + Len(t) : t[i - Len(s)] = o}
           f == [i \in PlacesIn(t, o) |-> i + Len(s)]
<1>1. /\ Len(s) \in Nat /\ Len(t) \in Nat /\ Len(s \o t) = Len(s) + Len(t)
      /\ \A i \in 1..Len(s) + Len(t) :
           (s \o t)[i] = IF i <= Len(s) THEN s[i] ELSE t[i - Len(s)]
  BY ConcatProperties
<1>2. PlacesIn(s \o t, o) = PlacesIn(s, o) \cup U
  BY <1>1 DEF PlacesIn
<1>3. PlacesIn(s, o) \cap U = {}
  BY <1>1 DEF PlacesIn
<1>4. /\ f \in [PlacesIn(t, o) -> U]
      /\ \A x, y \in PlacesIn(t, o) : f[x] = f[y] => x = y
  BY <1>1 DEF PlacesIn
<1>5. ASSUME NEW y \in U
      PROVE  \E x \in PlacesIn(t, o) : f[x] = y
  <2>1. y - Len(s) \in PlacesIn(t, o) /\ f[y - Len(s)] = y
    BY <1>1 DEF PlacesIn
  <2> QED
    BY <2>1
<1> HIDE DEF U, f
<1>6. IsFiniteSet(U) /\ Cardinality(U) = Cardinality(PlacesIn(t, o))
  BY <1>4, <1>5, PlacesFinite, SameSize
<1>7. Cardinality(PlacesIn(s, o) \cap U) = 0
  BY <1>3, FS_EmptySet
<1>8. Cardinality(PlacesIn(s, o) \cup U) =
        Cardinality(PlacesIn(s, o)) + Cardinality(U) - Cardinality(PlacesIn(s, o) \cap U)
  BY <1>6, PlacesFinite, FS_Union
<1> QED
  BY <1>2, <1>6, <1>7, <1>8, PlacesFinite

(***************************************************************************)
(* The last element of a sequence taken off.                               *)
(***************************************************************************)
LEMMA FrontLast ==
  ASSUME NEW S, NEW s \in Seq(S), s # <<>>
  PROVE  /\ Len(s) \in Nat \ {0} /\ Last(s) = s[Len(s)] /\ Last(s) \in S
         /\ Front(s) \in Seq(S) /\ Len(Front(s)) = Len(s) - 1
         /\ \A i \in 1..Len(s) - 1 : Front(s)[i] = s[i]
<1>1. Len(s) \in Nat \ {0}
  BY EmptySeq
<1>2. \A i \in 1..Len(s) - 1 : s[i] \in S
  BY <1>1, ElementOfSeq
<1> DEFINE n == Len(s) - 1
<1>3. n \in Nat /\ 1 \in Int /\ n \in Int
  BY <1>1
<1>4. /\ SubSeq(s, 1, n) \in Seq(S)
      /\ Len(SubSeq(s, 1, n)) = (IF 1 <= n THEN n - 1 + 1 ELSE 0)
      /\ \A i \in 1..n - 1 + 1 : SubSeq(s, 1, n)[i] = s[1 + i - 1]
  <2> HIDE DEF n
  <2> QED
    BY <1>2, <1>3, SubSeqProperties DEF n
<1>5. s[Len(s)] \in S
  BY <1>1, ElementOfSeq
<1>6. Front(s) = SubSeq(s, 1, n) /\ Last(s) = s[Len(s)]
  BY DEF Front, Last
<1>7. Len(SubSeq(s, 1, n)) = n /\ \A i \in 1..n : SubSeq(s, 1, n)[i] = s[i]
  <2> HIDE DEF n
  <2> QED
    BY <1>3, <1>4
<1> QED
  BY <1>1, <1>4, <1>5, <1>6, <1>7

LEMMA PlacesFront ==
  ASSUME NEW S, NEW s \in Seq(S), s # <<>>, NEW o
  PROVE  Cardinality(PlacesIn(Front(s), o)) =
           Cardinality(PlacesIn(s, o)) - (IF Last(s) = o THEN 1 ELSE 0)
<1>1. /\ Len(s) \in Nat \ {0} /\ Last(s) = s[Len(s)] /\ Len(Front(s)) = Len(s) - 1
      /\ \A i \in 1..Len(s) - 1 : Front(s)[i] = s[i]
  BY FrontLast
<1>2. PlacesIn(Front(s), o) = PlacesIn(s, o) \ {Len(s)}
  BY <1>1 DEF PlacesIn
<1>3. Len(s) \in PlacesIn(s, o) <=> Last(s) = o
  BY <1>1 DEF PlacesIn
<1>4. Cardinality(PlacesIn(s, o) \ {Len(s)}) =
        IF Len(s) \in PlacesIn(s, o) THEN Cardinality(PlacesIn(s, o)) - 1
        ELSE Cardinality(PlacesIn(s, o))
  BY PlacesFinite, FS_RemoveElement
<1> QED
  BY <1>2, <1>3, <1>4, PlacesFinite

LEMMA PlacesSingle ==
  ASSUME NEW x, NEW o
  PROVE  Cardinality(PlacesIn(<<x>>, o)) = IF x = o THEN 1 ELSE 0
<1>1. PlacesIn(<<x>>, o) = IF x = o THEN {1} ELSE {}
  BY DEF PlacesIn
<1> QED
  BY <1>1, FS_EmptySet, FS_Singleton

LEMMA PlacesEmpty ==
  ASSUME NEW o PROVE Cardinality(PlacesIn(<<>>, o)) = 0
<1>1. PlacesIn(<<>>, o) = {}
  BY DEF PlacesIn
<1> QED
  BY <1>1, FS_EmptySet

LEMMA PlacesAppend ==
  ASSUME NEW S, NEW s \in Seq(S), NEW x \in S, NEW o
  PROVE  Cardinality(PlacesIn(Append(s, x), o)) =
           Cardinality(PlacesIn(s, o)) + (IF x = o THEN 1 ELSE 0)
<1>1. Append(s, x) = s \o <<x>> /\ <<x>> \in Seq(S)
  BY AppendIsConcat
<1>2. Cardinality(PlacesIn(s \o <<x>>, o)) =
        Cardinality(PlacesIn(s, o)) + Cardinality(PlacesIn(<<x>>, o))
  BY <1>1, PlacesConcat
<1>3. Cardinality(PlacesIn(<<x>>, o)) = IF x = o THEN 1 ELSE 0
  BY PlacesSingle
<1> QED
  BY <1>1, <1>2, <1>3

(***************************************************************************)
(* The first element of a sequence taken off.                              *)
(***************************************************************************)
LEMMA PlacesTail ==
  ASSUME NEW S, NEW s \in Seq(S), s # <<>>, NEW o
  PROVE  Cardinality(PlacesIn(s, o)) =
           Cardinality(PlacesIn(Tail(s), o)) + (IF s[1] = o THEN 1 ELSE 0)
<1>1. Len(s) \in Nat \ {0} /\ 1 \in 1..Len(s)
  BY EmptySeq
<1>2. s[1] \in S /\ Tail(s) \in Seq(S)
  BY <1>1, ElementOfSeq, HeadTailProperties
<1>3. <<s[1]>> \in Seq(S) /\ Len(<<s[1]>>) = 1
  BY <1>2
<1>4. s = <<s[1]>> \o Tail(s)
  <2>1. /\ <<s[1]>> \o Tail(s) \in Seq(S)
        /\ Len(<<s[1]>> \o Tail(s)) = Len(<<s[1]>>) + Len(Tail(s))
        /\ \A i \in 1..Len(<<s[1]>>) + Len(Tail(s)) :
             (<<s[1]>> \o Tail(s))[i] =
                IF i <= Len(<<s[1]>>) THEN <<s[1]>>[i] ELSE Tail(s)[i - Len(<<s[1]>>)]
    BY <1>2, <1>3, ConcatProperties
  <2>2. Len(Tail(s)) = Len(s) - 1 /\ \A i \in 1..Len(Tail(s)) : Tail(s)[i] = s[i + 1]
    BY HeadTailProperties
  <2>3. \A i \in 1..Len(s) : (<<s[1]>> \o Tail(s))[i] = s[i]
    <3> SUFFICES ASSUME NEW i \in 1..Len(s)
                 PROVE  (<<s[1]>> \o Tail(s))[i] = s[i]
      OBVIOUS
    <3>1. CASE i = 1
      BY <1>1, <1>3, <2>1, <2>2, <3>1
    <3>2. CASE i # 1
      <4>1. i - 1 \in 1..Len(Tail(s)) /\ (i - 1) + 1 = i
        BY <1>1, <2>2, <3>2
      <4> QED
        BY <1>1, <1>3, <2>1, <2>2, <3>2, <4>1
    <3> QED
      BY <3>1, <3>2
  <2>4. Len(<<s[1]>> \o Tail(s)) = Len(s)
    BY <1>1, <1>3, <2>1, <2>2
  <2> QED
    BY <2>1, <2>3, <2>4, SeqEqual
<1>5. Cardinality(PlacesIn(<<s[1]>> \o Tail(s), o)) =
        Cardinality(PlacesIn(<<s[1]>>, o)) + Cardinality(PlacesIn(Tail(s), o))
  BY <1>2, <1>3, PlacesConcat
<1>6. Cardinality(PlacesIn(<<s[1]>>, o)) = IF s[1] = o THEN 1 ELSE 0
  BY PlacesSingle
<1>7. Cardinality(PlacesIn(Tail(s), o)) \in Nat
  BY <1>2, PlacesFinite
<1>8. PlacesIn(s, o) = PlacesIn(<<s[1]>> \o Tail(s), o)
  BY <1>4
<1> QED
  BY <1>5, <1>6, <1>7, <1>8

-----------------------------------------------------------------------------
(* The invariant. *)

Buckets == Seq(Seq(Objects)) \ {<<>>}

EnumeratorStates ==
  [array : Arrays \cup {Nil}, nodes : Arrays \cup {Nil}, reverse : BOOLEAN,
   stack : Nat, count : Nat]

PoolTypeOK ==
  /\ refCount \in [Objects -> Nat]
  /\ owned \in [Objects -> Nat]
  /\ list \in [Arrays -> Seq(Strings \cup {Nil}) \ {<<>>}]
  /\ \A a \in Arrays : \A i \in 1..Len(list[a]) : list[a][i] = Nil <=> i = 1
  /\ enumerator \in [Enumerators -> EnumeratorStates]
  /\ poolStack \in Seq(Buckets)
  /\ flushing \in BOOLEAN
  /\ flushing => poolStack # <<>>
  /\ releases \in Seq(Objects)

\* A forward enumerator has its array, a reverse one only walks its nodes.
Holds(it) ==
  IF it.reverse THEN it.array = Nil ELSE it.array \in Arrays /\ it.nodes = it.array

\* What is not there holds nothing.
HoldersOK ==
  /\ \A a \in Arrays : refCount[a] = 0 => Len(list[a]) = 1
  /\ \A e \in Enumerators :
       IF refCount[e] = 0 THEN enumerator[e] = NoEnumerator /\ returned[e] = <<>>
       ELSE Holds(enumerator[e])

FiniteHolders ==
  \A o \in Objects :
    IsFiniteSet(EntriesOf(o)) /\ IsFiniteSet(NodesOf(o)) /\ IsFiniteSet(EnumeratorsOf(o))

\* An enumerator and the nodes it walks are there.
Walking(e) == refCount[e] > 0 /\ enumerator[e].nodes # Nil

\* Where an enumerator is: n nodes after the one it began with.
EnumeratorAt(e) ==
  LET it == enumerator[e]
      last == Len(list[it.nodes])
      n == Len(returned[e])
  IN  /\ it.count < last
      /\ ~it.reverse => n <= it.count + 1 /\ it.stack = it.count + 1 - n
      /\ it.reverse => /\ n < last
                       /\ \/ it.stack = n + 2 /\ n + 2 <= last
                          \/ it.stack = 0 /\ n >= it.count
      /\ \A i \in 1..n :
           returned[e][i] = list[it.nodes][IF it.reverse THEN i + 1 ELSE it.count + 2 - i]

EnumeratorsAt ==
  /\ returned \in [Enumerators -> Seq(Strings \cup {Nil})]
  /\ \A e \in Enumerators : Walking(e) => EnumeratorAt(e)

PoolInv == PoolTypeOK /\ HoldersOK /\ FiniteHolders /\ CountsExact

-----------------------------------------------------------------------------
(* Who holds what. *)

LEMMA Kinds ==
  /\ \A a \in Arrays : a \in Objects /\ a \notin Strings /\ a \notin Enumerators
  /\ \A e \in Enumerators : e \in Objects /\ e \notin Strings
  /\ \A s \in Strings : s \in Objects
  /\ \A o \in Objects : o # Nil
  /\ BUCKET_SIZE \in Nat \ {0}
  BY PoolAssumption DEF Objects

LEMMA EntriesAre ==
  /\ \A x : x \in Entries <=>
       \E p \in DOMAIN poolStack : \E b \in DOMAIN poolStack[p] :
         \E i \in DOMAIN poolStack[p][b] : x = <<p, b, i>>
  /\ \A x : x \in Entries' <=>
       \E p \in DOMAIN poolStack' : \E b \in DOMAIN poolStack'[p] :
         \E i \in DOMAIN poolStack'[p][b] : x = <<p, b, i>>
  BY DEF Entries

LEMMA NodesAre ==
  /\ \A x : x \in ArrayNodes <=> \E a \in Arrays : \E i \in DOMAIN list[a] : x = <<a, i>>
  /\ \A x : x \in ArrayNodes' <=> \E a \in Arrays : \E i \in DOMAIN list'[a] : x = <<a, i>>
  BY DEF ArrayNodes

LEMMA ReleasesAre ==
  ASSUME releases \in Seq(Objects), releases' \in Seq(Objects), NEW o
  PROVE  ReleasesOf(o) = PlacesIn(releases, o) /\ ReleasesOf(o)' = PlacesIn(releases', o)
  BY DEF ReleasesOf, PlacesIn

(***************************************************************************)
(* A step that leaves the places of references alone.                      *)
(***************************************************************************)
LEMMA EntriesStay ==
  ASSUME UNCHANGED poolStack PROVE \A o : EntriesOf(o)' = EntriesOf(o)
  BY DEF EntriesOf, Entries

LEMMA NodesStay ==
  ASSUME UNCHANGED list PROVE \A o : NodesOf(o)' = NodesOf(o)
  BY DEF NodesOf, ArrayNodes

LEMMA EnumeratorsStay ==
  ASSUME UNCHANGED enumerator PROVE \A o : EnumeratorsOf(o)' = EnumeratorsOf(o)
  BY DEF EnumeratorsOf

LEMMA ReleasesStay ==
  ASSUME UNCHANGED releases PROVE \A o : ReleasesOf(o)' = ReleasesOf(o)
  BY DEF ReleasesOf

(***************************************************************************)
(* The numbers of references are numbers.                                  *)
(***************************************************************************)
LEMMA HolderCounts ==
  ASSUME PoolInv, NEW o \in Objects
  PROVE  /\ Cardinality(EntriesOf(o)) \in Nat
         /\ Cardinality(ReleasesOf(o)) \in Nat
         /\ Cardinality(NodesOf(o)) \in Nat
         /\ Cardinality(EnumeratorsOf(o)) \in Nat
         /\ IsFiniteSet(ReleasesOf(o))
<1>1. ReleasesOf(o) = PlacesIn(releases, o) /\ releases \in Seq(Objects)
  BY DEF ReleasesOf, PlacesIn, PoolInv, PoolTypeOK
<1>2. IsFiniteSet(ReleasesOf(o))
  BY <1>1, PlacesFinite
<1> QED
  BY <1>2, FS_CardinalityType DEF PoolInv, FiniteHolders

(***************************************************************************)
(* An object to which anybody has a reference is there.                    *)
(***************************************************************************)
LEMMA HeldIsThere ==
  ASSUME PoolInv, NEW o \in Objects,
         \/ owned[o] > 0
         \/ EntriesOf(o) # {} \/ ReleasesOf(o) # {}
         \/ NodesOf(o) # {} \/ EnumeratorsOf(o) # {}
  PROVE  refCount[o] > 0
<1>1. /\ EntriesOf(o) # {} => Cardinality(EntriesOf(o)) # 0
      /\ NodesOf(o) # {} => Cardinality(NodesOf(o)) # 0
      /\ EnumeratorsOf(o) # {} => Cardinality(EnumeratorsOf(o)) # 0
  BY FS_EmptySet DEF PoolInv, FiniteHolders
<1>2. ReleasesOf(o) # {} => Cardinality(ReleasesOf(o)) # 0
  BY FS_EmptySet, HolderCounts
<1>3. owned[o] \in Nat
  BY DEF PoolInv, PoolTypeOK
<1> QED
  BY <1>1, <1>2, <1>3, HolderCounts DEF PoolInv, CountsExact

LEMMA UsableIsThere ==
  ASSUME PoolInv, NEW o \in Objects, Usable(o)
  PROVE  refCount[o] > 0
<1>1. CASE owned[o] > 0 \/ EntriesOf(o) # {}
  BY <1>1, HeldIsThere
<1>2. ASSUME NEW a \in Arrays, o \in Range(list[a])
      PROVE  refCount[o] > 0
  <2>1. PICK i \in DOMAIN list[a] : list[a][i] = o
    BY <1>2 DEF Range
  <2>2. <<a, i>> \in NodesOf(o)
    BY <2>1, NodesAre DEF NodesOf
  <2> QED
    BY <2>2, HeldIsThere
<1> QED
  BY <1>1, <1>2 DEF Usable

LEMMA InitPool == PoolInit => PoolInv
<1> SUFFICES ASSUME PoolInit PROVE PoolInv
  OBVIOUS
<1>1. PoolTypeOK
  <2>1. /\ refCount \in [Objects -> Nat] /\ owned \in [Objects -> Nat]
        /\ flushing \in BOOLEAN
        /\ flushing => poolStack # <<>>
    BY DEF PoolInit
  <2>2. <<Nil>> \in Seq(Strings \cup {Nil}) \ {<<>>} /\ Len(<<Nil>>) = 1 /\ <<Nil>>[1] = Nil
    OBVIOUS
  <2>3. /\ list \in [Arrays -> Seq(Strings \cup {Nil}) \ {<<>>}]
        /\ \A a \in Arrays : \A i \in 1..Len(list[a]) : list[a][i] = Nil <=> i = 1
    BY <2>2 DEF PoolInit
  <2>4. enumerator \in [Enumerators -> EnumeratorStates]
    BY DEF PoolInit, NoEnumerator, EnumeratorStates
  <2>5. /\ poolStack \in Seq(Buckets) /\ releases \in Seq(Objects)
    BY DEF PoolInit
  <2> QED
    BY <2>1, <2>3, <2>4, <2>5 DEF PoolTypeOK
<1>2. HoldersOK
  BY Kinds DEF PoolInit, HoldersOK
<1>3. \A o \in Objects : /\ EntriesOf(o) = {} /\ NodesOf(o) = {}
                         /\ EnumeratorsOf(o) = {} /\ ReleasesOf(o) = {}
  <2> SUFFICES ASSUME NEW o \in Objects
               PROVE  /\ EntriesOf(o) = {} /\ NodesOf(o) = {}
                      /\ EnumeratorsOf(o) = {} /\ ReleasesOf(o) = {}
    OBVIOUS
  <2>1. EntriesOf(o) = {}
    BY EntriesAre DEF PoolInit, EntriesOf
  <2>2. NodesOf(o) = {}
    BY Kinds, NodesAre DEF PoolInit, NodesOf
  <2> QED
    BY <2>1, <2>2, Kinds DEF PoolInit, EnumeratorsOf, ReleasesOf, NoEnumerator
<1>4. FiniteHolders
  BY <1>3, FS_EmptySet DEF FiniteHolders
<1>5. CountsExact
  <2> SUFFICES ASSUME NEW o \in Objects
               PROVE  refCount[o] =
                        owned[o] + Cardinality(EntriesOf(o)) + Cardinality(ReleasesOf(o))
                        + Cardinality(NodesOf(o)) + Cardinality(EnumeratorsOf(o))
    BY DEF CountsExact
  <2>1. refCount[o] = 0 /\ owned[o] = 0
    BY DEF PoolInit
  <2>2. Cardinality(EntriesOf(o)) = 0 /\ Cardinality(ReleasesOf(o)) = 0
    BY <1>3, FS_EmptySet
  <2>3. Cardinality(NodesOf(o)) = 0 /\ Cardinality(EnumeratorsOf(o)) = 0
    BY <1>3, FS_EmptySet
  <2> QED
    BY <2>1, <2>2, <2>3
<1> QED
  BY <1>1, <1>2, <1>4, <1>5 DEF PoolInv

-----------------------------------------------------------------------------
(* The pools. *)

LEMMA PoolsAre ==
  ASSUME NEW pools \in Seq(Buckets)
  PROVE  /\ Len(pools) \in Nat /\ DOMAIN pools = 1..Len(pools)
         /\ \A p \in 1..Len(pools) :
              /\ pools[p] \in Seq(Seq(Objects)) /\ pools[p] # <<>>
              /\ Len(pools[p]) \in Nat \ {0}
              /\ DOMAIN pools[p] = 1..Len(pools[p])
              /\ \A b \in 1..Len(pools[p]) :
                   /\ pools[p][b] \in Seq(Objects)
                   /\ Len(pools[p][b]) \in Nat
                   /\ DOMAIN pools[p][b] = 1..Len(pools[p][b])
<1>1. ASSUME NEW p \in 1..Len(pools)
      PROVE  /\ pools[p] \in Seq(Seq(Objects)) /\ pools[p] # <<>>
             /\ Len(pools[p]) \in Nat \ {0}
             /\ DOMAIN pools[p] = 1..Len(pools[p])
  <2>1. pools[p] \in Buckets
    BY ElementOfSeq
  <2> QED
    BY <2>1, EmptySeq DEF Buckets
<1>2. ASSUME NEW p \in 1..Len(pools), NEW b \in 1..Len(pools[p])
      PROVE  /\ pools[p][b] \in Seq(Objects)
             /\ Len(pools[p][b]) \in Nat
             /\ DOMAIN pools[p][b] = 1..Len(pools[p][b])
  BY <1>1, <1>2, ElementOfSeq
<1> QED
  BY <1>1, <1>2

LEMMA EntriesFlat ==
  ASSUME poolStack \in Seq(Buckets)
  PROVE  /\ \A x \in Entries : x = <<x[1], x[2], x[3]>>
         /\ \A p, b, i : <<p, b, i>> \in Entries <=>
              /\ p \in 1..Len(poolStack) /\ b \in 1..Len(poolStack[p])
              /\ i \in 1..Len(poolStack[p][b])
<1>1. \A x \in Entries : x = <<x[1], x[2], x[3]>>
  BY EntriesAre
<1> QED
  BY <1>1, EntriesAre, PoolsAre

LEMMA EntriesFlatNext ==
  ASSUME poolStack' \in Seq(Buckets)
  PROVE  /\ \A x \in Entries' : x = <<x[1], x[2], x[3]>>
         /\ \A p, b, i : <<p, b, i>> \in Entries' <=>
              /\ p \in 1..Len(poolStack') /\ b \in 1..Len(poolStack'[p])
              /\ i \in 1..Len(poolStack'[p][b])
<1>1. \A x \in Entries' : x = <<x[1], x[2], x[3]>>
  BY EntriesAre
<1> QED
  BY <1>1, EntriesAre, PoolsAre

(***************************************************************************)
(* One more entry.                                                         *)
(***************************************************************************)
LEMMA EntryAdded ==
  ASSUME PoolInv, NEW o \in Objects, NEW p, NEW b, NEW i,
         <<p, b, i>> \notin Entries,
         Entries' = Entries \cup {<<p, b, i>>},
         poolStack'[p][b][i] = o,
         \A x \in Entries : poolStack'[x[1]][x[2]][x[3]] = poolStack[x[1]][x[2]][x[3]]
  PROVE  \A q \in Objects :
           /\ IsFiniteSet(EntriesOf(q)')
           /\ Cardinality(EntriesOf(q)') =
                Cardinality(EntriesOf(q)) + (IF q = o THEN 1 ELSE 0)
<1> SUFFICES ASSUME NEW q \in Objects
             PROVE  /\ IsFiniteSet(EntriesOf(q)')
                    /\ Cardinality(EntriesOf(q)') =
                         Cardinality(EntriesOf(q)) + (IF q = o THEN 1 ELSE 0)
  OBVIOUS
<1>1. IsFiniteSet(EntriesOf(q)) /\ <<p, b, i>> \notin EntriesOf(q)
  BY DEF PoolInv, FiniteHolders, EntriesOf
<1>2. CASE q = o
  <2>1. EntriesOf(q)' = EntriesOf(q) \cup {<<p, b, i>>}
    BY <1>2 DEF EntriesOf
  <2> QED
    BY <1>1, <1>2, <2>1, FS_AddElement
<1>3. CASE q # o
  <2>1. EntriesOf(q)' = EntriesOf(q)
    BY <1>3 DEF EntriesOf
  <2> QED
    BY <1>1, <1>3, <2>1, FS_CardinalityType
<1> QED
  BY <1>2, <1>3

(***************************************************************************)
(* addObject puts the object into the innermost pool, whether or not its   *)
(* newest bucket is full.                                                  *)
(***************************************************************************)
LEMMA AddToPoolAdds ==
  ASSUME PoolInv, NEW o \in Objects, AddToPool(o)
  PROVE  /\ poolStack' \in Seq(Buckets) /\ poolStack' # <<>>
         /\ \A q \in Objects :
              /\ IsFiniteSet(EntriesOf(q)')
              /\ Cardinality(EntriesOf(q)') =
                   Cardinality(EntriesOf(q)) + (IF q = o THEN 1 ELSE 0)
<1> DEFINE n == Len(poolStack)
           buckets == poolStack[n]
           m == Len(buckets)
           new == WithEntry(buckets, o)
<1>1. /\ poolStack \in Seq(Buckets) /\ poolStack # <<>>
      /\ poolStack' = [poolStack EXCEPT ![n] = new]
  BY DEF AddToPool, PoolInv, PoolTypeOK
<1>2. n \in Nat \ {0} /\ n \in 1..n /\ n = Len(poolStack)
  BY <1>1, EmptySeq
<1>a. buckets = poolStack[n] /\ m = Len(buckets)
  OBVIOUS
<1> HIDE DEF n
<1>3. /\ buckets \in Seq(Seq(Objects)) /\ m \in Nat \ {0} /\ m \in 1..m
      /\ buckets[m] \in Seq(Objects) /\ Len(buckets[m]) \in Nat
      /\ Last(buckets) = buckets[m]
  <2>1. Last(buckets) = buckets[m]
    BY DEF Last
  <2> HIDE DEF buckets, m
  <2> QED
    BY <1>1, <1>2, <1>a, <2>1, PoolsAre
<1> HIDE DEF buckets, m
<1>4. \E b \in Nat, i \in Nat :
        /\ new \in Seq(Seq(Objects)) /\ Len(new) >= m /\ b \in 1..Len(new)
        /\ i = Len(new[b]) /\ new[b][i] = o /\ i >= 1
        /\ \A c \in 1..Len(new) : c # b => c <= m /\ new[c] = buckets[c]
        /\ b <= m => /\ i = Len(buckets[b]) + 1
                     /\ \A j \in 1..Len(buckets[b]) : new[b][j] = buckets[b][j]
        /\ b > m => i = 1
  <2>1. CASE Len(Last(buckets)) = BUCKET_SIZE
    <3>1. new = Append(buckets, <<o>>)
      BY <2>1, <1>a DEF WithEntry
    <3>2. <<o>> \in Seq(Objects) /\ Len(<<o>>) = 1 /\ <<o>>[1] = o
      OBVIOUS
    <3>3. /\ new \in Seq(Seq(Objects)) /\ Len(new) = m + 1 /\ new[m + 1] = <<o>>
          /\ \A c \in 1..m : new[c] = buckets[c]
      BY <1>3, <1>a, <3>1, <3>2, AppendProperties
    <3> HIDE DEF new
    <3>4. /\ m + 1 \in 1..Len(new) /\ 1 = Len(new[m + 1]) /\ new[m + 1][1] = o
          /\ \A c \in 1..Len(new) : c # m + 1 => c <= m /\ new[c] = buckets[c]
      BY <1>3, <3>2, <3>3
    <3> WITNESS m + 1 \in Nat, 1 \in Nat
    <3> QED
      BY <1>3, <3>3, <3>4
  <2>2. CASE Len(Last(buckets)) # BUCKET_SIZE
    <3>1. new = [buckets EXCEPT ![m] = Append(buckets[m], o)]
      BY <2>2, <1>a DEF WithEntry
    <3>2. /\ Append(buckets[m], o) \in Seq(Objects)
          /\ Len(Append(buckets[m], o)) = Len(buckets[m]) + 1
          /\ Append(buckets[m], o)[Len(buckets[m]) + 1] = o
          /\ \A j \in 1..Len(buckets[m]) : Append(buckets[m], o)[j] = buckets[m][j]
      BY <1>3, AppendProperties
    <3>3. /\ new \in Seq(Seq(Objects)) /\ Len(new) = m
          /\ \A c \in 1..m : new[c] = IF c = m THEN Append(buckets[m], o) ELSE buckets[c]
      BY <1>3, <1>a, <3>1, <3>2, ExceptSeq
    <3> HIDE DEF new
    <3>4. /\ new[m] = Append(buckets[m], o)
          /\ \A c \in 1..m : c # m => new[c] = buckets[c]
      BY <1>3, <3>3
    <3>5. /\ Len(buckets[m]) + 1 = Len(new[m]) /\ new[m][Len(buckets[m]) + 1] = o
          /\ \A j \in 1..Len(buckets[m]) : new[m][j] = buckets[m][j]
      BY <3>2, <3>4
    <3>6. \A c \in 1..Len(new) : c # m => c <= m /\ new[c] = buckets[c]
      BY <1>3, <3>3, <3>4
    <3>7. m \in 1..Len(new) /\ Len(new) >= m /\ Len(buckets[m]) + 1 >= 1 /\ ~(m > m)
      BY <1>3, <3>3
    <3> WITNESS m \in Nat, Len(buckets[m]) + 1 \in Nat
    <3> QED
      BY <3>3, <3>5, <3>6, <3>7
  <2> QED
    BY <2>1, <2>2
<1>5. PICK b \in Nat, i \in Nat :
        /\ new \in Seq(Seq(Objects)) /\ Len(new) >= m /\ b \in 1..Len(new)
        /\ i = Len(new[b]) /\ new[b][i] = o /\ i >= 1
        /\ \A c \in 1..Len(new) : c # b => c <= m /\ new[c] = buckets[c]
        /\ b <= m => /\ i = Len(buckets[b]) + 1
                     /\ \A j \in 1..Len(buckets[b]) : new[b][j] = buckets[b][j]
        /\ b > m => i = 1
  BY <1>4
<1>6. new \in Buckets
  <2> HIDE DEF new
  <2> QED
    BY <1>5 DEF Buckets
<1> HIDE DEF new
<1>7. /\ poolStack' \in Seq(Buckets) /\ Len(poolStack') = n
      /\ \A p \in 1..n : poolStack'[p] = IF p = n THEN new ELSE poolStack[p]
  BY <1>1, <1>2, <1>6, ExceptSeq
<1>8. poolStack' # <<>>
  BY <1>2, <1>7
<1>9. <<n, b, i>> \notin Entries
  BY <1>1, <1>2, <1>a, <1>3, <1>5, EntriesFlat, SMTT(60)
<1>10. ASSUME NEW p, NEW c, NEW j
       PROVE  /\ <<p, c, j>> \in Entries' <=>
                   <<p, c, j>> \in Entries \/ (p = n /\ c = b /\ j = i)
              /\ <<p, c, j>> \in Entries => poolStack'[p][c][j] = poolStack[p][c][j]
  <2>1. /\ <<p, c, j>> \in Entries <=>
             p \in 1..n /\ c \in 1..Len(poolStack[p]) /\ j \in 1..Len(poolStack[p][c])
        /\ <<p, c, j>> \in Entries' <=>
             p \in 1..n /\ c \in 1..Len(poolStack'[p]) /\ j \in 1..Len(poolStack'[p][c])
    BY <1>1, <1>2, <1>7, EntriesFlat, EntriesFlatNext
  <2>2. CASE p # n
    BY <1>7, <2>1, <2>2
  <2>3. CASE p = n
    <3>1. poolStack'[p] = new /\ poolStack[p] = buckets /\ p \in 1..n
      BY <1>2, <1>7, <1>a, <2>3
    <3>2. /\ <<p, c, j>> \in Entries <=> c \in 1..m /\ j \in 1..Len(buckets[c])
          /\ <<p, c, j>> \in Entries' <=> c \in 1..Len(new) /\ j \in 1..Len(new[c])
      BY <1>a, <2>1, <3>1
    <3>3. /\ c \in 1..Len(new) /\ j \in 1..Len(new[c]) <=>
               (c \in 1..m /\ j \in 1..Len(buckets[c])) \/ (c = b /\ j = i)
          /\ c \in 1..m /\ j \in 1..Len(buckets[c]) => new[c][j] = buckets[c][j]
      <4>1. Len(new) \in Nat /\ Len(new) >= m
        BY <1>5
      <4>2. \A d \in 1..m : Len(buckets[d]) \in Nat
        BY <1>1, <1>2, <1>a, PoolsAre
      <4>3. CASE c # b
        <5>1. c \in 1..Len(new) => c \in 1..m /\ new[c] = buckets[c]
          BY <1>3, <1>5, <4>1, <4>3
        <5>2. c \in 1..m => c \in 1..Len(new)
          BY <1>3, <4>1
        <5> QED
          BY <4>3, <5>1, <5>2
      <4>4. CASE c = b /\ b <= m
        <5>1. /\ c \in 1..Len(new) /\ c \in 1..m
              /\ Len(new[c]) = i /\ i = Len(buckets[c]) + 1
              /\ \A k \in 1..Len(buckets[c]) : new[c][k] = buckets[c][k]
          BY <1>3, <1>5, <4>4
        <5> QED
          BY <4>2, <4>4, <5>1
      <4>5. CASE c = b /\ b > m
        <5>1. c \in 1..Len(new) /\ c \notin 1..m /\ Len(new[c]) = 1 /\ i = 1
          BY <1>3, <1>5, <4>5
        <5> QED
          BY <4>5, <5>1
      <4> QED
        BY <1>3, <4>3, <4>4, <4>5
    <3> QED
      BY <2>3, <3>1, <3>2, <3>3
  <2> QED
    BY <2>2, <2>3
<1>11. Entries' = Entries \cup {<<n, b, i>>}
  <2>1. \A x \in Entries' : x \in Entries \cup {<<n, b, i>>}
    BY <1>7, <1>10, EntriesFlatNext
  <2>2. \A x \in Entries : x \in Entries'
    BY <1>1, <1>10, EntriesFlat
  <2> QED
    BY <1>10, <2>1, <2>2
<1>12. poolStack'[n][b][i] = o
  BY <1>2, <1>5, <1>7
<1>13. \A x \in Entries : poolStack'[x[1]][x[2]][x[3]] = poolStack[x[1]][x[2]][x[3]]
  BY <1>1, <1>10, EntriesFlat
<1> QED
  BY <1>7, <1>8, <1>9, <1>11, <1>12, <1>13, EntryAdded

(***************************************************************************)
(* The innermost pool and its newest bucket.                               *)
(***************************************************************************)
LEMMA InnermostPool ==
  ASSUME PoolInv, poolStack # <<>>,
         NEW n, n = Len(poolStack), NEW m, m = Len(poolStack[n])
  PROVE  /\ poolStack \in Seq(Buckets)
         /\ n \in Nat \ {0} /\ n \in 1..n /\ m \in Nat \ {0} /\ m \in 1..m
         /\ poolStack[n] \in Seq(Seq(Objects)) /\ poolStack[n] # <<>>
         /\ Last(poolStack[n]) = poolStack[n][m]
         /\ poolStack[n][m] \in Seq(Objects) /\ Len(poolStack[n][m]) \in Nat
<1>1. poolStack \in Seq(Buckets)
  BY DEF PoolInv, PoolTypeOK
<1>2. n \in Nat \ {0} /\ n \in 1..n
  BY <1>1, EmptySeq
<1>3. Last(poolStack[n]) = poolStack[n][m]
  BY DEF Last
<1> QED
  BY <1>1, <1>2, <1>3, PoolsAre

(***************************************************************************)
(* bucket_flush takes out one entry and sends release to its object.       *)
(***************************************************************************)
LEMMA FlushEntryTakes ==
  ASSUME PoolInv, FlushEntry
  PROVE  /\ poolStack' \in Seq(Buckets) /\ poolStack' # <<>>
         /\ \E o \in Objects :
              /\ releases' = <<o>>
              /\ \A q \in Objects :
                   /\ IsFiniteSet(EntriesOf(q)')
                   /\ Cardinality(EntriesOf(q)') =
                        Cardinality(EntriesOf(q)) - (IF q = o THEN 1 ELSE 0)
<1> DEFINE n == Len(poolStack)
           m == Len(poolStack[n])
           bucket == poolStack[n][m]
<1>1. /\ bucket # <<>>
      /\ releases' = <<Head(bucket)>>
      /\ poolStack' = [poolStack EXCEPT ![n] = [poolStack[n] EXCEPT ![m] = Tail(bucket)]]
      /\ poolStack # <<>>
  BY DEF FlushEntry, PoolInv, PoolTypeOK
<1>2. n = Len(poolStack) /\ m = Len(poolStack[n]) /\ bucket = poolStack[n][m]
  OBVIOUS
<1> HIDE DEF n, m, bucket
<1>3. /\ poolStack \in Seq(Buckets)
      /\ n \in Nat \ {0} /\ n \in 1..n /\ m \in Nat \ {0} /\ m \in 1..m
      /\ poolStack[n] \in Seq(Seq(Objects)) /\ poolStack[n] # <<>>
      /\ bucket \in Seq(Objects) /\ Len(bucket) \in Nat
  BY <1>1, <1>2, InnermostPool
<1>4. /\ Head(bucket) = bucket[1] /\ bucket[1] \in Objects /\ Len(bucket) >= 1
      /\ Tail(bucket) \in Seq(Objects) /\ Len(Tail(bucket)) = Len(bucket) - 1
      /\ \A i \in 1..Len(bucket) - 1 : Tail(bucket)[i] = bucket[i + 1]
  BY <1>1, <1>3, HeadTailProperties, EmptySeq
<1> DEFINE new == [poolStack[n] EXCEPT ![m] = Tail(bucket)]
           o == bucket[1]
<1>5. /\ new \in Seq(Seq(Objects)) /\ Len(new) = m
      /\ \A c \in 1..m : new[c] = IF c = m THEN Tail(bucket) ELSE poolStack[n][c]
  BY <1>2, <1>3, <1>4, ExceptSeq
<1>6. new \in Buckets /\ poolStack' = [poolStack EXCEPT ![n] = new]
  <2>1. poolStack' = [poolStack EXCEPT ![n] = new]
    BY <1>1
  <2> HIDE DEF new
  <2> QED
    BY <1>3, <1>5, <2>1 DEF Buckets
<1> HIDE DEF new
<1>7. /\ poolStack' \in Seq(Buckets) /\ Len(poolStack') = n
      /\ \A p \in 1..n : poolStack'[p] = IF p = n THEN new ELSE poolStack[p]
  BY <1>2, <1>3, <1>6, ExceptSeq
<1>8. ASSUME NEW p, NEW c, NEW i
      PROVE  /\ p = n /\ c = m =>
                  /\ <<p, c, i>> \in Entries <=> i \in 1..Len(bucket)
                  /\ <<p, c, i>> \in Entries' <=> i \in 1..Len(bucket) - 1
                  /\ <<p, c, i>> \in Entries' => poolStack'[p][c][i] = bucket[i + 1]
             /\ ~(p = n /\ c = m) =>
                  /\ <<p, c, i>> \in Entries <=> <<p, c, i>> \in Entries'
                  /\ <<p, c, i>> \in Entries => poolStack'[p][c][i] = poolStack[p][c][i]
  <2>1. /\ <<p, c, i>> \in Entries <=>
             p \in 1..n /\ c \in 1..Len(poolStack[p]) /\ i \in 1..Len(poolStack[p][c])
        /\ <<p, c, i>> \in Entries' <=>
             p \in 1..n /\ c \in 1..Len(poolStack'[p]) /\ i \in 1..Len(poolStack'[p][c])
    BY <1>2, <1>3, <1>7, EntriesFlat, EntriesFlatNext
  <2>2. CASE p # n
    BY <1>7, <2>1, <2>2
  <2>3. CASE p = n /\ c # m
    <3>1. poolStack'[p] = new /\ Len(new) = Len(poolStack[p]) /\ p \in 1..n
      BY <1>2, <1>3, <1>5, <1>7, <2>3
    <3>2. c \in 1..Len(new) => new[c] = poolStack[p][c]
      BY <1>5, <2>3
    <3> QED
      BY <2>1, <2>3, <3>1, <3>2
  <2>4. CASE p = n /\ c = m
    <3>1. /\ poolStack'[p] = new /\ p \in 1..n /\ c \in 1..Len(new)
          /\ c \in 1..Len(poolStack[p]) /\ poolStack[p][c] = bucket /\ new[c] = Tail(bucket)
      BY <1>2, <1>3, <1>5, <1>7, <2>4
    <3> QED
      BY <1>4, <2>1, <2>4, <3>1
  <2> QED
    BY <2>2, <2>3, <2>4
<1>9. ASSUME NEW q \in Objects
      PROVE  /\ IsFiniteSet(EntriesOf(q)')
             /\ Cardinality(EntriesOf(q)') =
                  Cardinality(EntriesOf(q)) - (IF q = o THEN 1 ELSE 0)
  <2> DEFINE first == <<n, m, 1>>
             S == EntriesOf(q) \ {first}
             f == [x \in S |-> <<x[1], x[2],
                                IF x[1] = n /\ x[2] = m THEN x[3] - 1 ELSE x[3]>>]
  <2>1. first \in EntriesOf(q) <=> q = o
    BY <1>2, <1>4, <1>8 DEF EntriesOf
  <2>2. IsFiniteSet(EntriesOf(q))
    BY DEF PoolInv, FiniteHolders
  <2>3. IsFiniteSet(S) /\ Cardinality(S) = Cardinality(EntriesOf(q)) - (IF q = o THEN 1 ELSE 0)
    BY <2>1, <2>2, FS_RemoveElement, FS_CardinalityType
  <2>4. ASSUME NEW x \in S
        PROVE  /\ x = <<x[1], x[2], x[3]>>
               /\ x[1] = n /\ x[2] = m => x[3] \in 2..Len(bucket) /\ bucket[x[3]] = q
               /\ x \in Entries /\ poolStack[x[1]][x[2]][x[3]] = q
    <3>1. x = <<x[1], x[2], x[3]>> /\ x \in Entries /\ poolStack[x[1]][x[2]][x[3]] = q
      BY <1>3, EntriesFlat DEF EntriesOf
    <3>2. ASSUME x[1] = n, x[2] = m
          PROVE  x[3] \in 2..Len(bucket) /\ bucket[x[3]] = q
      <4>1. x[3] \in 1..Len(bucket)
        BY <1>8, <3>1, <3>2
      <4>2. x[3] # 1
        BY <3>1, <3>2
      <4> QED
        BY <1>2, <1>3, <3>1, <3>2, <4>1, <4>2
    <3> QED
      BY <3>1, <3>2
  <2>5. ASSUME NEW x \in S
        PROVE  f[x] \in EntriesOf(q)'
    <3>1. CASE x[1] = n /\ x[2] = m
      <4>1. /\ x[3] - 1 \in 1..Len(bucket) - 1 /\ bucket[(x[3] - 1) + 1] = q
            /\ f[x] = <<n, m, x[3] - 1>>
        BY <1>3, <2>4, <3>1
      <4> DEFINE i == x[3] - 1
      <4>2. <<n, m, i>> \in Entries' /\ poolStack'[n][m][i] = q
        BY <1>8, <4>1
      <4> HIDE DEF i
      <4>3. <<n, m, i>> \in EntriesOf(q)'
        BY <4>2 DEF EntriesOf
      <4> QED
        BY <4>1, <4>3 DEF i
    <3>2. CASE ~(x[1] = n /\ x[2] = m)
      <4>1. f[x] = x
        BY <2>4, <3>2
      <4>2. x \in Entries' /\ poolStack'[x[1]][x[2]][x[3]] = q
        BY <1>8, <2>4, <3>2
      <4> QED
        BY <4>1, <4>2 DEF EntriesOf
    <3> QED
      BY <3>1, <3>2
  <2>6. \A x, y \in S : f[x] = f[y] => x = y
    <3> SUFFICES ASSUME NEW x \in S, NEW y \in S, f[x] = f[y]
                 PROVE  x = y
      OBVIOUS
    <3>1. /\ x[1] = y[1] /\ x[2] = y[2]
          /\ (IF x[1] = n /\ x[2] = m THEN x[3] - 1 ELSE x[3]) =
               (IF y[1] = n /\ y[2] = m THEN y[3] - 1 ELSE y[3])
      OBVIOUS
    <3>2. x[1] = n /\ x[2] = m => x[3] \in Int /\ y[3] \in Int
      BY <1>3, <2>4, <3>1
    <3>3. x[3] = y[3]
      BY <3>1, <3>2
    <3> QED
      BY <2>4, <3>1, <3>3
  <2>7. ASSUME NEW y \in EntriesOf(q)'
        PROVE  \E x \in S : f[x] = y
    <3>1. y = <<y[1], y[2], y[3]>> /\ y \in Entries' /\ poolStack'[y[1]][y[2]][y[3]] = q
      BY <1>7, EntriesFlatNext DEF EntriesOf
    <3>2. CASE y[1] = n /\ y[2] = m
      <4> DEFINE x == <<n, m, y[3] + 1>>
      <4>1. y[3] \in 1..Len(bucket) - 1 /\ bucket[y[3] + 1] = q
        BY <1>8, <3>1, <3>2
      <4>2. x \in Entries /\ poolStack[n][m][y[3] + 1] = q
        BY <1>2, <1>3, <1>8, <4>1
      <4>3. x \in EntriesOf(q)
        BY <4>2 DEF EntriesOf
      <4>4. y[3] + 1 # 1 /\ (y[3] + 1) - 1 = y[3]
        BY <1>3, <4>1
      <4>5. x \in S
        BY <4>3, <4>4
      <4>6. f[x] = <<n, m, (y[3] + 1) - 1>>
        BY <4>5
      <4> QED
        BY <3>1, <3>2, <4>4, <4>5, <4>6
    <3>3. CASE ~(y[1] = n /\ y[2] = m)
      <4>1. y \in S
        BY <1>8, <3>1, <3>3 DEF EntriesOf
      <4>2. f[y] = y
        BY <3>1, <3>3, <4>1
      <4> QED
        BY <4>1, <4>2
    <3> QED
      BY <3>2, <3>3
  <2>8. f \in [S -> EntriesOf(q)']
    BY <2>5
  <2> HIDE DEF S, f
  <2> QED
    BY <2>3, <2>6, <2>7, <2>8, SameSize
<1> QED
  BY <1>1, <1>3, <1>4, <1>7, <1>9

(***************************************************************************)
(* What bucket_flush frees holds no entry any more.                        *)
(***************************************************************************)
LEMMA FreeBucketKeeps ==
  ASSUME PoolInv, FreeBucket
  PROVE  /\ poolStack' \in Seq(Buckets) /\ flushing' \in BOOLEAN
         /\ flushing' => poolStack' # <<>>
         /\ \A q : EntriesOf(q)' = EntriesOf(q)
<1> DEFINE n == Len(poolStack)
           m == Len(poolStack[n])
           kept == Front(poolStack[n])
<1>1. /\ Last(poolStack[n]) = <<>> /\ poolStack # <<>>
      /\ flushing' = (m > 1)
      /\ poolStack' = IF flushing' THEN [poolStack EXCEPT ![n] = kept] ELSE Front(poolStack)
  BY DEF FreeBucket, PoolInv, PoolTypeOK
<1>2. n = Len(poolStack) /\ m = Len(poolStack[n]) /\ kept = Front(poolStack[n])
  OBVIOUS
<1> HIDE DEF n, m, kept
<1>3. /\ poolStack \in Seq(Buckets)
      /\ n \in Nat \ {0} /\ n \in 1..n /\ m \in Nat \ {0} /\ m \in 1..m
      /\ poolStack[n] \in Seq(Seq(Objects)) /\ poolStack[n] # <<>>
      /\ poolStack[n][m] = <<>>
  BY <1>1, <1>2, InnermostPool
<1>4. /\ kept \in Seq(Seq(Objects)) /\ Len(kept) = m - 1
      /\ \A c \in 1..m - 1 : kept[c] = poolStack[n][c]
  BY <1>2, <1>3, FrontLast
<1>5. ASSUME NEW c, NEW i
      PROVE  <<n, c, i>> \in Entries <=>
               c \in 1..m - 1 /\ i \in 1..Len(poolStack[n][c])
  <2>1. <<n, c, i>> \in Entries <=> c \in 1..m /\ i \in 1..Len(poolStack[n][c])
    BY <1>2, <1>3, EntriesFlat
  <2>2. c = m => Len(poolStack[n][c]) = 0
    BY <1>3
  <2> QED
    BY <1>3, <2>1, <2>2
<1>6. ASSUME m > 1
      PROVE  /\ poolStack' \in Seq(Buckets) /\ poolStack' # <<>>
             /\ \A p, c, i : <<p, c, i>> \in Entries' <=> <<p, c, i>> \in Entries
             /\ \A p, c, i : <<p, c, i>> \in Entries =>
                  poolStack'[p][c][i] = poolStack[p][c][i]
  <2>1. kept \in Buckets
    BY <1>3, <1>4, <1>6 DEF Buckets
  <2>4. poolStack' = [poolStack EXCEPT ![n] = kept]
    BY <1>1, <1>6
  <2>2. /\ poolStack' \in Seq(Buckets) /\ Len(poolStack') = n
        /\ \A p \in 1..n : poolStack'[p] = IF p = n THEN kept ELSE poolStack[p]
    BY <1>2, <1>3, <2>1, <2>4, ExceptSeq
  <2>3. ASSUME NEW p, NEW c, NEW i
        PROVE  /\ <<p, c, i>> \in Entries' <=> <<p, c, i>> \in Entries
               /\ <<p, c, i>> \in Entries => poolStack'[p][c][i] = poolStack[p][c][i]
    <3>1. /\ <<p, c, i>> \in Entries <=>
               p \in 1..n /\ c \in 1..Len(poolStack[p]) /\ i \in 1..Len(poolStack[p][c])
          /\ <<p, c, i>> \in Entries' <=>
               p \in 1..n /\ c \in 1..Len(poolStack'[p]) /\ i \in 1..Len(poolStack'[p][c])
      BY <1>2, <1>3, <2>2, EntriesFlat, EntriesFlatNext
    <3>2. CASE p # n
      BY <2>2, <3>1, <3>2
    <3>3. CASE p = n
      <4>1. poolStack'[n] = kept
        BY <1>3, <2>2
      <4>2. <<n, c, i>> \in Entries' <=> c \in 1..m - 1 /\ i \in 1..Len(kept[c])
        BY <1>3, <1>4, <3>1, <3>3, <4>1
      <4> QED
        BY <1>4, <1>5, <3>3, <4>1, <4>2
    <3> QED
      BY <3>2, <3>3
  <2> QED
    BY <1>3, <2>2, <2>3
<1>7. ASSUME ~(m > 1)
      PROVE  /\ poolStack' \in Seq(Buckets)
             /\ \A p, c, i : <<p, c, i>> \in Entries' <=> <<p, c, i>> \in Entries
             /\ \A p, c, i : <<p, c, i>> \in Entries =>
                  poolStack'[p][c][i] = poolStack[p][c][i]
  <2>1. /\ poolStack' \in Seq(Buckets) /\ Len(poolStack') = n - 1
        /\ \A p \in 1..n - 1 : poolStack'[p] = poolStack[p]
    BY <1>1, <1>2, <1>3, <1>7, FrontLast
  <2>2. ASSUME NEW p, NEW c, NEW i
        PROVE  /\ <<p, c, i>> \in Entries' <=> <<p, c, i>> \in Entries
               /\ <<p, c, i>> \in Entries => poolStack'[p][c][i] = poolStack[p][c][i]
    <3>1. /\ <<p, c, i>> \in Entries <=>
               p \in 1..n /\ c \in 1..Len(poolStack[p]) /\ i \in 1..Len(poolStack[p][c])
          /\ <<p, c, i>> \in Entries' <=>
               p \in 1..n - 1 /\ c \in 1..Len(poolStack'[p]) /\ i \in 1..Len(poolStack'[p][c])
      BY <1>2, <1>3, <2>1, EntriesFlat, EntriesFlatNext
    <3>2. CASE p # n
      <4>1. p \in 1..n <=> p \in 1..n - 1
        BY <1>3, <3>2
      <4> QED
        BY <2>1, <3>1, <4>1
    <3>3. CASE p = n
      BY <1>3, <1>5, <1>7, <3>1, <3>3
    <3> QED
      BY <3>2, <3>3
  <2> QED
    BY <2>1, <2>2
<1>8. /\ poolStack' \in Seq(Buckets)
      /\ \A p, c, i : <<p, c, i>> \in Entries' <=> <<p, c, i>> \in Entries
      /\ \A p, c, i : <<p, c, i>> \in Entries => poolStack'[p][c][i] = poolStack[p][c][i]
  BY <1>6, <1>7
<1>9. Entries' = Entries
  <2>1. \A x \in Entries' : x \in Entries
    BY <1>8, EntriesFlatNext
  <2>2. \A x \in Entries : x \in Entries'
    BY <1>3, <1>8, EntriesFlat
  <2> QED
    BY <2>1, <2>2
<1>10. ASSUME NEW x \in Entries
       PROVE  poolStack'[x[1]][x[2]][x[3]] = poolStack[x[1]][x[2]][x[3]]
  <2>1. <<x[1], x[2], x[3]>> \in Entries
    BY <1>3, EntriesFlat
  <2> QED
    BY <1>8, <2>1
<1>11. \A q : EntriesOf(q)' = EntriesOf(q)
  BY <1>9, <1>10 DEF EntriesOf
<1> QED
  BY <1>1, <1>6, <1>8, <1>11

(***************************************************************************)
(* A new pool has no entries.                                              *)
(***************************************************************************)
LEMMA NewPoolKeeps ==
  ASSUME PoolInv, NewPool
  PROVE  /\ poolStack' \in Seq(Buckets)
         /\ \A q : EntriesOf(q)' = EntriesOf(q)
<1> DEFINE n == Len(poolStack)
           new == << <<>> >>
<1>1. poolStack \in Seq(Buckets) /\ poolStack' = Append(poolStack, new)
  BY DEF NewPool, PoolInv, PoolTypeOK
<1>2. new \in Buckets /\ Len(new) = 1 /\ new[1] = <<>> /\ n \in Nat
  BY <1>1 DEF Buckets
<1> HIDE DEF new
<1>3. /\ poolStack' \in Seq(Buckets) /\ Len(poolStack') = n + 1
      /\ \A p \in 1..n : poolStack'[p] = poolStack[p]
      /\ poolStack'[n + 1] = new
  BY <1>1, <1>2, AppendProperties
<1>4. ASSUME NEW p, NEW c, NEW i
      PROVE  /\ <<p, c, i>> \in Entries' <=> <<p, c, i>> \in Entries
             /\ <<p, c, i>> \in Entries => poolStack'[p][c][i] = poolStack[p][c][i]
  <2>1. /\ <<p, c, i>> \in Entries <=>
             p \in 1..n /\ c \in 1..Len(poolStack[p]) /\ i \in 1..Len(poolStack[p][c])
        /\ <<p, c, i>> \in Entries' <=>
             p \in 1..n + 1 /\ c \in 1..Len(poolStack'[p]) /\ i \in 1..Len(poolStack'[p][c])
    BY <1>1, <1>3, EntriesFlat, EntriesFlatNext
  <2>2. CASE p # n + 1
    <3>1. p \in 1..n <=> p \in 1..n + 1
      BY <1>2, <2>2
    <3> QED
      BY <1>3, <2>1, <3>1
  <2>3. CASE p = n + 1
    <3>1. p \notin 1..n /\ poolStack'[p] = new
      BY <1>2, <1>3, <2>3
    <3>2. c \in 1..Len(new) => c = 1 /\ Len(new[c]) = 0
      BY <1>2
    <3> QED
      BY <2>1, <3>1, <3>2
  <2> QED
    BY <2>2, <2>3
<1>5. Entries' = Entries
  <2>1. \A x \in Entries' : x \in Entries
    BY <1>3, <1>4, EntriesFlatNext
  <2>2. \A x \in Entries : x \in Entries'
    BY <1>1, <1>4, EntriesFlat
  <2> QED
    BY <2>1, <2>2
<1>6. ASSUME NEW x \in Entries
      PROVE  poolStack'[x[1]][x[2]][x[3]] = poolStack[x[1]][x[2]][x[3]]
  <2>1. <<x[1], x[2], x[3]>> \in Entries
    BY <1>1, EntriesFlat
  <2> QED
    BY <1>4, <2>1
<1>7. \A q : EntriesOf(q)' = EntriesOf(q)
  BY <1>5, <1>6 DEF EntriesOf
<1> QED
  BY <1>3, <1>7

-----------------------------------------------------------------------------
(* The arrays. *)

Lists == [Arrays -> Seq(Strings \cup {Nil}) \ {<<>>}]

LEMMA ListIs ==
  ASSUME PoolInv, NEW a \in Arrays
  PROVE  /\ list \in Lists
         /\ list[a] \in Seq(Strings \cup {Nil}) /\ list[a] # <<>>
         /\ Len(list[a]) \in Nat \ {0} /\ DOMAIN list[a] = 1..Len(list[a])
         /\ \A i \in 1..Len(list[a]) : list[a][i] = Nil <=> i = 1
         /\ \A i \in 2..Len(list[a]) : list[a][i] \in Strings
<1>1. list \in Lists /\ \A i \in 1..Len(list[a]) : list[a][i] = Nil <=> i = 1
  BY DEF PoolInv, PoolTypeOK, Lists
<1>2. list[a] \in Seq(Strings \cup {Nil}) /\ list[a] # <<>>
  BY <1>1 DEF Lists
<1>3. Len(list[a]) \in Nat \ {0} /\ DOMAIN list[a] = 1..Len(list[a])
  BY <1>2, EmptySeq
<1>4. \A i \in 1..Len(list[a]) : list[a][i] \in Strings \cup {Nil}
  BY <1>2, ElementOfSeq
<1> QED
  BY <1>1, <1>2, <1>3, <1>4

LEMMA NodesFlat ==
  ASSUME list \in Lists, list' \in Lists
  PROVE  /\ \A x \in ArrayNodes : x = <<x[1], x[2]>>
         /\ \A x \in ArrayNodes' : x = <<x[1], x[2]>>
         /\ \A a, i : <<a, i>> \in ArrayNodes <=> a \in Arrays /\ i \in 1..Len(list[a])
         /\ \A a, i : <<a, i>> \in ArrayNodes' <=> a \in Arrays /\ i \in 1..Len(list'[a])
<1>1. \A a \in Arrays : DOMAIN list[a] = 1..Len(list[a]) /\ DOMAIN list'[a] = 1..Len(list'[a])
  BY DEF Lists
<1> QED
  BY <1>1, NodesAre

(***************************************************************************)
(* One array changes: the nodes with q are those of the other arrays and   *)
(* those in the places with q of this one.                                 *)
(***************************************************************************)
LEMMA NodesChange ==
  ASSUME PoolInv, NEW a \in Arrays, list' \in Lists,
         \A c \in Arrays : c # a => list'[c] = list[c],
         NEW q \in Objects
  PROVE  /\ IsFiniteSet(NodesOf(q)')
         /\ Cardinality(NodesOf(q)') =
              Cardinality(NodesOf(q)) - Cardinality(PlacesIn(list[a], q))
              + Cardinality(PlacesIn(list'[a], q))
<1> DEFINE others == {x \in NodesOf(q) : x[1] # a}
           old == {x \in NodesOf(q) : x[1] = a}
           new == {x \in NodesOf(q)' : x[1] = a}
           f == [i \in PlacesIn(list[a], q) |-> <<a, i>>]
           g == [i \in PlacesIn(list'[a], q) |-> <<a, i>>]
<1>1. list \in Lists /\ IsFiniteSet(NodesOf(q))
  BY DEF PoolInv, PoolTypeOK, Lists, FiniteHolders
<1>2. /\ list[a] \in Seq(Strings \cup {Nil}) /\ list'[a] \in Seq(Strings \cup {Nil})
      /\ Len(list[a]) \in Nat /\ Len(list'[a]) \in Nat
  BY <1>1 DEF Lists
<1>3. ASSUME NEW x \in NodesOf(q)
      PROVE  /\ x = <<x[1], x[2]>> /\ x[1] \in Arrays
             /\ x[2] \in 1..Len(list[x[1]]) /\ list[x[1]][x[2]] = q
  <2>1. x \in ArrayNodes /\ list[x[1]][x[2]] = q
    BY DEF NodesOf
  <2>2. x = <<x[1], x[2]>>
    BY <1>1, <2>1, NodesFlat
  <2> QED
    BY <1>1, <2>1, <2>2, NodesFlat
<1>4. ASSUME NEW x \in NodesOf(q)'
      PROVE  /\ x = <<x[1], x[2]>> /\ x[1] \in Arrays
             /\ x[2] \in 1..Len(list'[x[1]]) /\ list'[x[1]][x[2]] = q
  <2>1. x \in ArrayNodes' /\ list'[x[1]][x[2]] = q
    BY DEF NodesOf
  <2>2. x = <<x[1], x[2]>>
    BY <1>1, <2>1, NodesFlat
  <2> QED
    BY <1>1, <2>1, <2>2, NodesFlat
<1>5. ASSUME NEW c \in Arrays, NEW i
      PROVE  /\ <<c, i>> \in NodesOf(q) <=> i \in 1..Len(list[c]) /\ list[c][i] = q
             /\ <<c, i>> \in NodesOf(q)' <=> i \in 1..Len(list'[c]) /\ list'[c][i] = q
  <2>1. /\ <<c, i>> \in ArrayNodes <=> i \in 1..Len(list[c])
        /\ <<c, i>> \in ArrayNodes' <=> i \in 1..Len(list'[c])
    BY <1>1, NodesFlat
  <2> QED
    BY <2>1 DEF NodesOf
<1>6. IsFiniteSet(old) /\ Cardinality(old) = Cardinality(PlacesIn(list[a], q))
  <2>1. f \in [PlacesIn(list[a], q) -> old]
    BY <1>5 DEF PlacesIn
  <2>2. \A i, j \in PlacesIn(list[a], q) : f[i] = f[j] => i = j
    OBVIOUS
  <2>3. ASSUME NEW x \in old
        PROVE  \E i \in PlacesIn(list[a], q) : f[i] = x
    <3>1. x[2] \in PlacesIn(list[a], q) /\ x = <<a, x[2]>>
      BY <1>3 DEF PlacesIn
    <3> QED
      BY <3>1
  <2> HIDE DEF f, old
  <2> QED
    BY <1>2, <2>1, <2>2, <2>3, SameSize, PlacesFinite
<1>7. IsFiniteSet(new) /\ Cardinality(new) = Cardinality(PlacesIn(list'[a], q))
  <2>1. g \in [PlacesIn(list'[a], q) -> new]
    BY <1>5 DEF PlacesIn
  <2>2. \A i, j \in PlacesIn(list'[a], q) : g[i] = g[j] => i = j
    OBVIOUS
  <2>3. ASSUME NEW x \in new
        PROVE  \E i \in PlacesIn(list'[a], q) : g[i] = x
    <3>1. x[2] \in PlacesIn(list'[a], q) /\ x = <<a, x[2]>>
      BY <1>4 DEF PlacesIn
    <3> QED
      BY <3>1
  <2> HIDE DEF g, new
  <2> QED
    BY <1>2, <2>1, <2>2, <2>3, SameSize, PlacesFinite
<1>8. others = {x \in NodesOf(q)' : x[1] # a}
  <2>1. ASSUME NEW x \in others
        PROVE  x \in NodesOf(q)'
    BY <1>3, <1>5
  <2>2. ASSUME NEW x \in NodesOf(q)', x[1] # a
        PROVE  x \in others
    BY <1>4, <1>5, <2>2
  <2> QED
    BY <2>1, <2>2
<1>9. /\ NodesOf(q) = others \cup old /\ others \cap old = {}
      /\ NodesOf(q)' = others \cup new /\ others \cap new = {}
  BY <1>8
<1>10. IsFiniteSet(others)
  BY <1>1, FS_Subset
<1> HIDE DEF others, old, new
<1>11. /\ Cardinality(others) \in Nat /\ Cardinality(old) \in Nat /\ Cardinality(new) \in Nat
       /\ Cardinality(NodesOf(q)) = Cardinality(others) + Cardinality(old)
       /\ Cardinality(NodesOf(q)') = Cardinality(others) + Cardinality(new)
       /\ IsFiniteSet(NodesOf(q)')
  <2>1. Cardinality(others \cap old) = 0 /\ Cardinality(others \cap new) = 0
    BY <1>9, FS_EmptySet
  <2>2. /\ Cardinality(others \cup old) =
             Cardinality(others) + Cardinality(old) - Cardinality(others \cap old)
        /\ IsFiniteSet(others \cup new)
        /\ Cardinality(others \cup new) =
             Cardinality(others) + Cardinality(new) - Cardinality(others \cap new)
    BY <1>6, <1>7, <1>10, FS_Union
  <2>3. Cardinality(others) \in Nat /\ Cardinality(old) \in Nat /\ Cardinality(new) \in Nat
    BY <1>6, <1>7, <1>10, FS_CardinalityType
  <2> QED
    BY <1>9, <2>1, <2>2, <2>3
<1> QED
  BY <1>6, <1>7, <1>11

-----------------------------------------------------------------------------
(* The steps. *)

LEMMA HoldersStay ==
  ASSUME PoolInv, UNCHANGED <<list, enumerator, returned>>,
         \A o \in Arrays \cup Enumerators : refCount'[o] = 0 <=> refCount[o] = 0
  PROVE  HoldersOK'
  BY DEF PoolInv, HoldersOK

(***************************************************************************)
(* The counts are right if the count of each object changes as the number  *)
(* of references on it does.                                               *)
(***************************************************************************)
LEMMA CountsFollow ==
  ASSUME PoolInv, PoolTypeOK', FiniteHolders',
         \A q \in Objects :
           refCount'[q] - refCount[q] =
             (owned'[q] - owned[q])
             + (Cardinality(EntriesOf(q)') - Cardinality(EntriesOf(q)))
             + (Cardinality(ReleasesOf(q)') - Cardinality(ReleasesOf(q)))
             + (Cardinality(NodesOf(q)') - Cardinality(NodesOf(q)))
             + (Cardinality(EnumeratorsOf(q)') - Cardinality(EnumeratorsOf(q)))
  PROVE  CountsExact'
<1> SUFFICES ASSUME NEW q \in Objects
             PROVE  refCount'[q] =
                      owned'[q] + Cardinality(EntriesOf(q)') + Cardinality(ReleasesOf(q)')
                      + Cardinality(NodesOf(q)') + Cardinality(EnumeratorsOf(q)')
  BY DEF CountsExact
<1>1. refCount[q] \in Nat /\ owned[q] \in Nat /\ refCount'[q] \in Nat /\ owned'[q] \in Nat
  BY DEF PoolInv, PoolTypeOK
<1>2. /\ Cardinality(EntriesOf(q)') \in Nat /\ Cardinality(NodesOf(q)') \in Nat
      /\ Cardinality(EnumeratorsOf(q)') \in Nat
  BY FS_CardinalityType DEF FiniteHolders
<1>3. Cardinality(ReleasesOf(q)') \in Nat
  <2>1. releases \in Seq(Objects) /\ releases' \in Seq(Objects)
    BY DEF PoolInv, PoolTypeOK
  <2> QED
    BY <2>1, ReleasesAre, PlacesFinite
<1>4. /\ Cardinality(EntriesOf(q)) \in Nat /\ Cardinality(ReleasesOf(q)) \in Nat
      /\ Cardinality(NodesOf(q)) \in Nat /\ Cardinality(EnumeratorsOf(q)) \in Nat
  BY HolderCounts
<1>5. refCount[q] =
        owned[q] + Cardinality(EntriesOf(q)) + Cardinality(ReleasesOf(q))
        + Cardinality(NodesOf(q)) + Cardinality(EnumeratorsOf(q))
  BY DEF PoolInv, CountsExact
<1>6. refCount'[q] - refCount[q] =
        (owned'[q] - owned[q])
        + (Cardinality(EntriesOf(q)') - Cardinality(EntriesOf(q)))
        + (Cardinality(ReleasesOf(q)') - Cardinality(ReleasesOf(q)))
        + (Cardinality(NodesOf(q)') - Cardinality(NodesOf(q)))
        + (Cardinality(EnumeratorsOf(q)') - Cardinality(EnumeratorsOf(q)))
  OBVIOUS
<1> QED
  <2> DEFINE r == refCount[q]  rn == refCount'[q]  o == owned[q]  on == owned'[q]
             e == Cardinality(EntriesOf(q))  en == Cardinality(EntriesOf(q)')
             l == Cardinality(ReleasesOf(q)) ln == Cardinality(ReleasesOf(q)')
             n == Cardinality(NodesOf(q)) nn == Cardinality(NodesOf(q)')
             i == Cardinality(EnumeratorsOf(q)) in == Cardinality(EnumeratorsOf(q)')
  <2>1. /\ r \in Nat /\ rn \in Nat /\ o \in Nat /\ on \in Nat /\ e \in Nat /\ en \in Nat
        /\ l \in Nat /\ ln \in Nat /\ n \in Nat /\ nn \in Nat /\ i \in Nat /\ in \in Nat
    BY <1>1, <1>2, <1>3, <1>4
  <2>2. r = o + e + l + n + i
    BY <1>5
  <2>3. rn - r = (on - o) + (en - e) + (ln - l) + (nn - n) + (in - i)
    BY <1>6
  <2> HIDE DEF r, rn, o, on, e, en, l, ln, n, nn, i, in
  <2>4. rn = on + en + ln + nn + in
    BY <2>1, <2>2, <2>3
  <2> QED
    BY <2>4 DEF rn, on, en, ln, nn, in

LEMMA AllocateInv ==
  ASSUME PoolInv, NEW o \in Objects, Allocate(o)
  PROVE  PoolInv'
<1>1. owned[o] = 0
  <2>1. owned[o] \in Nat /\ refCount[o] = 0
    BY DEF Allocate, PoolInv, PoolTypeOK
  <2> QED
    BY <2>1, HeldIsThere
<1>2. PoolTypeOK'
  BY DEF PoolInv, PoolTypeOK, Allocate
<1>3. HoldersOK'
  <2>1. ASSUME NEW a \in Arrays, refCount'[a] = 0
        PROVE  Len(list'[a]) = 1
    BY <2>1, Kinds DEF PoolInv, HoldersOK, PoolTypeOK, Allocate
  <2>2. ASSUME NEW e \in Enumerators
        PROVE  refCount'[e] = refCount[e]
    BY Kinds DEF PoolInv, PoolTypeOK, Allocate
  <2>3. UNCHANGED <<list, enumerator, returned>>
    BY DEF Allocate
  <2> QED
    BY <2>1, <2>2, <2>3 DEF PoolInv, HoldersOK
<1>4. \A q : /\ EntriesOf(q)' = EntriesOf(q) /\ NodesOf(q)' = NodesOf(q)
             /\ EnumeratorsOf(q)' = EnumeratorsOf(q) /\ ReleasesOf(q)' = ReleasesOf(q)
  BY EntriesStay, NodesStay, EnumeratorsStay, ReleasesStay DEF Allocate
<1>5. FiniteHolders'
  BY <1>4 DEF PoolInv, FiniteHolders
<1>6. CountsExact'
  <2>1. \A q \in Objects : refCount'[q] - refCount[q] = owned'[q] - owned[q]
    BY <1>1 DEF Allocate, PoolInv, PoolTypeOK
  <2>2. \A q \in Objects : owned[q] \in Nat /\ owned'[q] \in Nat
    BY <1>2 DEF PoolInv, PoolTypeOK
  <2> QED
    BY <1>2, <1>4, <1>5, <2>1, <2>2, HolderCounts, CountsFollow
<1> QED
  BY <1>2, <1>3, <1>5, <1>6 DEF PoolInv

LEMMA RetainInv ==
  ASSUME PoolInv, NEW o \in Objects, Retain(o)
  PROVE  PoolInv'
<1>1. refCount[o] > 0
  BY UsableIsThere DEF Retain
<1>2. PoolTypeOK'
  BY DEF PoolInv, PoolTypeOK, Retain
<1>3. HoldersOK'
  <2>1. \A q \in Objects : refCount[q] \in Nat
    BY DEF PoolInv, PoolTypeOK
  <2>2. \A q \in Objects : refCount'[q] = 0 <=> refCount[q] = 0
    BY <1>1, <2>1 DEF Retain, PoolInv, PoolTypeOK
  <2> QED
    BY <2>2, Kinds, HoldersStay DEF Retain
<1>4. \A q : /\ EntriesOf(q)' = EntriesOf(q) /\ NodesOf(q)' = NodesOf(q)
             /\ EnumeratorsOf(q)' = EnumeratorsOf(q) /\ ReleasesOf(q)' = ReleasesOf(q)
  BY EntriesStay, NodesStay, EnumeratorsStay, ReleasesStay DEF Retain
<1>5. FiniteHolders'
  BY <1>4 DEF PoolInv, FiniteHolders
<1>6. CountsExact'
  <2>1. \A q \in Objects : refCount'[q] - refCount[q] = owned'[q] - owned[q]
    BY DEF Retain, PoolInv, PoolTypeOK
  <2>2. \A q \in Objects : owned[q] \in Nat /\ owned'[q] \in Nat
    BY <1>2 DEF PoolInv, PoolTypeOK
  <2> QED
    BY <1>2, <1>4, <1>5, <2>1, <2>2, HolderCounts, CountsFollow
<1> QED
  BY <1>2, <1>3, <1>5, <1>6 DEF PoolInv

LEMMA GiveUpInv ==
  ASSUME PoolInv, NEW o \in Objects, GiveUp(o)
  PROVE  PoolInv'
<1>1. PoolTypeOK'
  BY DEF PoolInv, PoolTypeOK, GiveUp
<1>2. HoldersOK'
  BY HoldersStay DEF GiveUp
<1>3. \A q : /\ EntriesOf(q)' = EntriesOf(q) /\ NodesOf(q)' = NodesOf(q)
             /\ EnumeratorsOf(q)' = EnumeratorsOf(q)
  BY EntriesStay, NodesStay, EnumeratorsStay DEF GiveUp
<1>4. FiniteHolders'
  BY <1>3 DEF PoolInv, FiniteHolders
<1>5. \A q \in Objects : /\ Cardinality(ReleasesOf(q)) = 0
                         /\ Cardinality(ReleasesOf(q)') = IF o = q THEN 1 ELSE 0
  BY <1>1, ReleasesAre, PlacesEmpty, PlacesSingle
     DEF GiveUp, InClient, PoolInv, PoolTypeOK
<1>6. CountsExact'
  <2>1. ASSUME NEW q \in Objects
        PROVE  /\ refCount'[q] - refCount[q] = 0
               /\ owned'[q] - owned[q] = IF o = q THEN -1 ELSE 0
               /\ Cardinality(ReleasesOf(q)') - Cardinality(ReleasesOf(q)) = IF o = q THEN 1 ELSE 0
               /\ Cardinality(EntriesOf(q)') - Cardinality(EntriesOf(q)) = 0
               /\ Cardinality(NodesOf(q)') - Cardinality(NodesOf(q)) = 0
               /\ Cardinality(EnumeratorsOf(q)') - Cardinality(EnumeratorsOf(q)) = 0
    <3>1. refCount'[q] - refCount[q] = 0 /\ owned'[q] - owned[q] = IF o = q THEN -1 ELSE 0
      BY DEF GiveUp, PoolInv, PoolTypeOK
    <3> QED
      BY <1>3, <1>5, <3>1, HolderCounts
  <2> QED
    BY <1>1, <1>4, <2>1, CountsFollow
<1> QED
  BY <1>1, <1>2, <1>4, <1>6 DEF PoolInv

LEMMA AutoreleaseInv ==
  ASSUME PoolInv, NEW o \in Objects, Autorelease(o)
  PROVE  PoolInv'
<1>1. /\ poolStack' \in Seq(Buckets) /\ poolStack' # <<>>
      /\ \A q \in Objects :
           /\ IsFiniteSet(EntriesOf(q)')
           /\ Cardinality(EntriesOf(q)') = Cardinality(EntriesOf(q)) + (IF q = o THEN 1 ELSE 0)
  BY AddToPoolAdds DEF Autorelease
<1>2. PoolTypeOK'
  BY <1>1 DEF PoolInv, PoolTypeOK, Autorelease
<1>3. HoldersOK'
  BY HoldersStay DEF Autorelease
<1>4. \A q : /\ ReleasesOf(q)' = ReleasesOf(q) /\ NodesOf(q)' = NodesOf(q)
             /\ EnumeratorsOf(q)' = EnumeratorsOf(q)
  BY ReleasesStay, NodesStay, EnumeratorsStay DEF Autorelease
<1>5. FiniteHolders'
  BY <1>1, <1>4 DEF PoolInv, FiniteHolders
<1>6. CountsExact'
  <2>1. ASSUME NEW q \in Objects
        PROVE  /\ refCount'[q] - refCount[q] = 0
               /\ owned'[q] - owned[q] = IF o = q THEN -1 ELSE 0
               /\ Cardinality(ReleasesOf(q)') - Cardinality(ReleasesOf(q)) = 0
               /\ Cardinality(EntriesOf(q)') - Cardinality(EntriesOf(q)) = IF o = q THEN 1 ELSE 0
               /\ Cardinality(NodesOf(q)') - Cardinality(NodesOf(q)) = 0
               /\ Cardinality(EnumeratorsOf(q)') - Cardinality(EnumeratorsOf(q)) = 0
    <3>1. refCount'[q] - refCount[q] = 0 /\ owned'[q] - owned[q] = IF o = q THEN -1 ELSE 0
      BY DEF Autorelease, PoolInv, PoolTypeOK
    <3> QED
      BY <1>1, <1>4, <3>1, HolderCounts
  <2> QED
    BY <1>2, <1>5, <2>1, CountsFollow
<1> QED
  BY <1>2, <1>3, <1>5, <1>6 DEF PoolInv

(***************************************************************************)
(* The steps of a pool's life that move no reference.                      *)
(***************************************************************************)
LEMMA PoolStepInv ==
  ASSUME PoolInv, NewPool \/ ReleasePool \/ FreeBucket
  PROVE  PoolInv'
<1>1. /\ poolStack' \in Seq(Buckets) /\ flushing' \in BOOLEAN
      /\ flushing' => poolStack' # <<>>
      /\ \A q : EntriesOf(q)' = EntriesOf(q)
  <2>1. CASE NewPool
    BY <2>1, NewPoolKeeps DEF NewPool, InClient, PoolInv, PoolTypeOK
  <2>2. CASE ReleasePool
    BY <2>2, EntriesStay DEF ReleasePool, PoolInv, PoolTypeOK
  <2>3. CASE FreeBucket
    BY <2>3, FreeBucketKeeps
  <2> QED
    BY <2>1, <2>2, <2>3
<1>2. UNCHANGED <<refCount, list, enumerator, releases, owned, returned>>
  BY DEF NewPool, ReleasePool, FreeBucket
<1>3. PoolTypeOK'
  BY <1>1, <1>2 DEF PoolInv, PoolTypeOK
<1>4. HoldersOK'
  BY <1>2, HoldersStay
<1>5. \A q : /\ ReleasesOf(q)' = ReleasesOf(q) /\ NodesOf(q)' = NodesOf(q)
             /\ EnumeratorsOf(q)' = EnumeratorsOf(q)
  BY <1>2, ReleasesStay, NodesStay, EnumeratorsStay
<1>6. FiniteHolders'
  BY <1>1, <1>5 DEF PoolInv, FiniteHolders
<1>7. CountsExact'
  BY <1>1, <1>2, <1>5 DEF PoolInv, CountsExact
<1> QED
  BY <1>3, <1>4, <1>6, <1>7 DEF PoolInv

LEMMA FlushEntryInv ==
  ASSUME PoolInv, FlushEntry
  PROVE  PoolInv'
<1>1. PICK o \in Objects :
        /\ poolStack' \in Seq(Buckets) /\ poolStack' # <<>>
        /\ releases' = <<o>>
        /\ \A q \in Objects :
             /\ IsFiniteSet(EntriesOf(q)')
             /\ Cardinality(EntriesOf(q)') =
                  Cardinality(EntriesOf(q)) - (IF q = o THEN 1 ELSE 0)
  BY FlushEntryTakes
<1>2. releases = <<>> /\ UNCHANGED <<refCount, list, enumerator, flushing, owned, returned>>
  BY DEF FlushEntry
<1>3. PoolTypeOK'
  BY <1>1, <1>2 DEF PoolInv, PoolTypeOK
<1>4. HoldersOK'
  BY <1>2, HoldersStay
<1>5. \A q : NodesOf(q)' = NodesOf(q) /\ EnumeratorsOf(q)' = EnumeratorsOf(q)
  BY <1>2, NodesStay, EnumeratorsStay
<1>6. FiniteHolders'
  BY <1>1, <1>5 DEF PoolInv, FiniteHolders
<1>7. \A q \in Objects : /\ Cardinality(ReleasesOf(q)) = 0
                         /\ Cardinality(ReleasesOf(q)') = IF o = q THEN 1 ELSE 0
  BY <1>1, <1>2, <1>3, ReleasesAre, PlacesEmpty, PlacesSingle DEF PoolInv, PoolTypeOK
<1>8. CountsExact'
  <2>1. ASSUME NEW q \in Objects
        PROVE  /\ refCount'[q] - refCount[q] = 0
               /\ owned'[q] - owned[q] = 0
               /\ Cardinality(ReleasesOf(q)') - Cardinality(ReleasesOf(q)) = IF o = q THEN 1 ELSE 0
               /\ Cardinality(EntriesOf(q)') - Cardinality(EntriesOf(q)) = IF o = q THEN -1 ELSE 0
               /\ Cardinality(NodesOf(q)') - Cardinality(NodesOf(q)) = 0
               /\ Cardinality(EnumeratorsOf(q)') - Cardinality(EnumeratorsOf(q)) = 0
    <3>1. refCount[q] \in Nat /\ owned[q] \in Nat
      BY DEF PoolInv, PoolTypeOK
    <3> QED
      BY <1>1, <1>2, <1>5, <1>7, <3>1, HolderCounts
  <2> QED
    BY <1>3, <1>6, <2>1, CountsFollow
<1> QED
  BY <1>3, <1>4, <1>6, <1>8 DEF PoolInv

LEMMA AddObjectInv ==
  ASSUME PoolInv, NEW a \in Arrays, NEW o \in Strings, AddObject(a, o)
  PROVE  PoolInv'
<1>1. /\ list[a] \in Seq(Strings \cup {Nil}) /\ list \in Lists /\ o # Nil
      /\ Len(list[a]) \in Nat \ {0}
      /\ \A i \in 1..Len(list[a]) : list[a][i] = Nil <=> i = 1
  BY ListIs, Kinds
<1>2. /\ Append(list[a], o) \in Seq(Strings \cup {Nil}) /\ Append(list[a], o) # <<>>
      /\ Len(Append(list[a], o)) = Len(list[a]) + 1
      /\ \A i \in 1..Len(list[a]) : Append(list[a], o)[i] = list[a][i]
      /\ Append(list[a], o)[Len(list[a]) + 1] = o
  BY <1>1, AppendProperties
<1>3. \A c \in Arrays : list'[c] = IF c = a THEN Append(list[a], o) ELSE list[c]
  BY <1>1 DEF AddObject, Lists
<1>4. list' \in Lists
  BY <1>1, <1>2 DEF AddObject, Lists
<1>5. \A c \in Arrays : \A i \in 1..Len(list'[c]) : list'[c][i] = Nil <=> i = 1
  <2> SUFFICES ASSUME NEW c \in Arrays, NEW i \in 1..Len(list'[c])
               PROVE  list'[c][i] = Nil <=> i = 1
    OBVIOUS
  <2>1. CASE c # a
    BY <1>3, <2>1, ListIs
  <2>2. CASE c = a
    <3>1. i \in 1..Len(list[a]) + 1 /\ list'[c][i] = Append(list[a], o)[i]
      BY <1>2, <1>3, <2>2
    <3>2. CASE i = Len(list[a]) + 1
      BY <1>1, <1>2, <3>1, <3>2
    <3>3. CASE i # Len(list[a]) + 1
      <4>1. i \in 1..Len(list[a])
        BY <1>1, <3>1, <3>3
      <4> QED
        BY <1>1, <1>2, <3>1, <4>1
    <3> QED
      BY <3>2, <3>3
  <2> QED
    BY <2>1, <2>2
<1>6. /\ \A q \in Objects : refCount'[q] = refCount[q] + (IF q = o THEN 1 ELSE 0)
      /\ refCount' \in [Objects -> Nat]
  BY Kinds DEF AddObject, PoolInv, PoolTypeOK
<1>7. UNCHANGED <<enumerator, poolStack, flushing, releases, owned, returned>>
  BY DEF AddObject
<1>8. PoolTypeOK'
  BY <1>4, <1>5, <1>6, <1>7 DEF PoolInv, PoolTypeOK, Lists
<1>9. HoldersOK'
  <2>1. ASSUME NEW c \in Arrays, refCount'[c] = 0
        PROVE  Len(list'[c]) = 1
    <3>1. refCount[c] = 0
      <4>1. c \in Objects /\ c # o
        BY Kinds
      <4> QED
        BY <1>6, <2>1, <4>1 DEF PoolInv, PoolTypeOK
    <3>2. c # a
      <4>1. owned[a] > 0
        BY DEF AddObject
      <4>2. refCount[a] > 0
        BY <4>1, Kinds, HeldIsThere
      <4> QED
        BY <3>1, <4>2
    <3> QED
      BY <1>3, <3>1, <3>2 DEF PoolInv, HoldersOK
  <2>2. ASSUME NEW e \in Enumerators
        PROVE  refCount'[e] = refCount[e]
    <3>1. e \in Objects /\ e # o
      BY Kinds
    <3> QED
      BY <1>6, <3>1 DEF PoolInv, PoolTypeOK
  <2> QED
    BY <1>7, <2>1, <2>2 DEF PoolInv, HoldersOK
<1>10. \A q : /\ EntriesOf(q)' = EntriesOf(q) /\ ReleasesOf(q)' = ReleasesOf(q)
              /\ EnumeratorsOf(q)' = EnumeratorsOf(q)
  BY <1>7, EntriesStay, ReleasesStay, EnumeratorsStay
<1>11. \A q \in Objects :
         /\ IsFiniteSet(NodesOf(q)')
         /\ Cardinality(NodesOf(q)') = Cardinality(NodesOf(q)) + (IF q = o THEN 1 ELSE 0)
  <2> SUFFICES ASSUME NEW q \in Objects
               PROVE  /\ IsFiniteSet(NodesOf(q)')
                      /\ Cardinality(NodesOf(q)') =
                           Cardinality(NodesOf(q)) + (IF q = o THEN 1 ELSE 0)
    OBVIOUS
  <2>1. /\ IsFiniteSet(NodesOf(q)')
        /\ Cardinality(NodesOf(q)') =
             Cardinality(NodesOf(q)) - Cardinality(PlacesIn(list[a], q))
             + Cardinality(PlacesIn(list'[a], q))
    BY <1>3, <1>4, NodesChange
  <2>2. Cardinality(PlacesIn(list'[a], q)) =
          Cardinality(PlacesIn(list[a], q)) + (IF o = q THEN 1 ELSE 0)
    BY <1>1, <1>3, PlacesAppend
  <2> QED
    BY <1>1, <2>1, <2>2, HolderCounts, PlacesFinite
<1>12. FiniteHolders'
  BY <1>10, <1>11 DEF PoolInv, FiniteHolders
<1>13. CountsExact'
  <2>1. ASSUME NEW q \in Objects
        PROVE  /\ refCount'[q] - refCount[q] = IF o = q THEN 1 ELSE 0
               /\ owned'[q] - owned[q] = 0
               /\ Cardinality(ReleasesOf(q)') - Cardinality(ReleasesOf(q)) = 0
               /\ Cardinality(EntriesOf(q)') - Cardinality(EntriesOf(q)) = 0
               /\ Cardinality(NodesOf(q)') - Cardinality(NodesOf(q)) = IF o = q THEN 1 ELSE 0
               /\ Cardinality(EnumeratorsOf(q)') - Cardinality(EnumeratorsOf(q)) = 0
    <3>1. refCount[q] \in Nat /\ owned[q] \in Nat
      BY DEF PoolInv, PoolTypeOK
    <3> QED
      BY <1>6, <1>7, <1>10, <1>11, <3>1, HolderCounts
  <2> QED
    BY <1>8, <1>12, <2>1, CountsFollow
<1> QED
  BY <1>8, <1>9, <1>12, <1>13 DEF PoolInv

LEMMA RemoveObjectInv ==
  ASSUME PoolInv, NEW a \in Arrays, RemoveObject(a)
  PROVE  PoolInv'
<1> DEFINE o == Last(list[a])
           n == Len(list[a])
<1>1. /\ list[a] \in Seq(Strings \cup {Nil}) /\ list[a] # <<>> /\ list \in Lists
      /\ n \in Nat \ {0} /\ n > 1
      /\ \A i \in 1..n : list[a][i] = Nil <=> i = 1
      /\ \A i \in 2..n : list[a][i] \in Strings
  BY ListIs DEF RemoveObject
<1>2. /\ Front(list[a]) \in Seq(Strings \cup {Nil}) /\ Len(Front(list[a])) = n - 1
      /\ \A i \in 1..n - 1 : Front(list[a])[i] = list[a][i]
      /\ o = list[a][n]
  BY <1>1, FrontLast
<1>3. o \in Strings /\ o \in Objects /\ Front(list[a]) # <<>>
  BY <1>1, <1>2, Kinds
<1> HIDE DEF o
<1>4. \A c \in Arrays : list'[c] = IF c = a THEN Front(list[a]) ELSE list[c]
  BY <1>1 DEF RemoveObject, Lists
<1>5. list' \in Lists
  BY <1>1, <1>2, <1>3 DEF RemoveObject, Lists
<1>6. \A c \in Arrays : \A i \in 1..Len(list'[c]) : list'[c][i] = Nil <=> i = 1
  <2> SUFFICES ASSUME NEW c \in Arrays, NEW i \in 1..Len(list'[c])
               PROVE  list'[c][i] = Nil <=> i = 1
    OBVIOUS
  <2>1. CASE c # a
    BY <1>4, <2>1, ListIs
  <2>2. CASE c = a
    BY <1>1, <1>2, <1>4, <2>2
  <2> QED
    BY <2>1, <2>2
<1>7. /\ releases = <<>> /\ releases' = <<o>>
      /\ UNCHANGED <<refCount, enumerator, poolStack, flushing, owned, returned>>
  BY DEF RemoveObject, InClient, o
<1>8. PoolTypeOK'
  BY <1>3, <1>5, <1>6, <1>7 DEF PoolInv, PoolTypeOK, Lists
<1>9. HoldersOK'
  <2>1. ASSUME NEW c \in Arrays, refCount'[c] = 0
        PROVE  Len(list'[c]) = 1
    <3>1. c # a
      <4>1. owned[a] > 0
        BY DEF RemoveObject
      <4>2. refCount[a] > 0
        BY <4>1, Kinds, HeldIsThere
      <4> QED
        BY <1>7, <2>1, <4>2
    <3> QED
      BY <1>4, <1>7, <2>1, <3>1 DEF PoolInv, HoldersOK
  <2> QED
    BY <1>7, <2>1 DEF PoolInv, HoldersOK
<1>10. \A q : EntriesOf(q)' = EntriesOf(q) /\ EnumeratorsOf(q)' = EnumeratorsOf(q)
  BY <1>7, EntriesStay, EnumeratorsStay
<1>11. \A q \in Objects :
         /\ IsFiniteSet(NodesOf(q)')
         /\ Cardinality(NodesOf(q)') = Cardinality(NodesOf(q)) - (IF q = o THEN 1 ELSE 0)
  <2> SUFFICES ASSUME NEW q \in Objects
               PROVE  /\ IsFiniteSet(NodesOf(q)')
                      /\ Cardinality(NodesOf(q)') =
                           Cardinality(NodesOf(q)) - (IF q = o THEN 1 ELSE 0)
    OBVIOUS
  <2>1. /\ IsFiniteSet(NodesOf(q)')
        /\ Cardinality(NodesOf(q)') =
             Cardinality(NodesOf(q)) - Cardinality(PlacesIn(list[a], q))
             + Cardinality(PlacesIn(list'[a], q))
    BY <1>4, <1>5, NodesChange
  <2>2. Cardinality(PlacesIn(list'[a], q)) =
          Cardinality(PlacesIn(list[a], q)) - (IF o = q THEN 1 ELSE 0)
    BY <1>1, <1>4, PlacesFront DEF o
  <2> QED
    BY <1>1, <2>1, <2>2, HolderCounts, PlacesFinite
<1>12. FiniteHolders'
  BY <1>10, <1>11 DEF PoolInv, FiniteHolders
<1>13. \A q \in Objects : /\ Cardinality(ReleasesOf(q)) = 0
                          /\ Cardinality(ReleasesOf(q)') = IF o = q THEN 1 ELSE 0
  BY <1>7, <1>8, ReleasesAre, PlacesEmpty, PlacesSingle DEF PoolInv, PoolTypeOK
<1>14. CountsExact'
  <2>1. ASSUME NEW q \in Objects
        PROVE  /\ refCount'[q] - refCount[q] = 0
               /\ owned'[q] - owned[q] = 0
               /\ Cardinality(ReleasesOf(q)') - Cardinality(ReleasesOf(q)) = IF o = q THEN 1 ELSE 0
               /\ Cardinality(EntriesOf(q)') - Cardinality(EntriesOf(q)) = 0
               /\ Cardinality(NodesOf(q)') - Cardinality(NodesOf(q)) = IF o = q THEN -1 ELSE 0
               /\ Cardinality(EnumeratorsOf(q)') - Cardinality(EnumeratorsOf(q)) = 0
    <3>1. refCount[q] \in Nat /\ owned[q] \in Nat
      BY DEF PoolInv, PoolTypeOK
    <3> QED
      BY <1>7, <1>10, <1>11, <1>13, <3>1, HolderCounts
  <2> QED
    BY <1>8, <1>12, <2>1, CountsFollow
<1> QED
  BY <1>8, <1>9, <1>12, <1>14 DEF PoolInv

LEMMA EnumerateInv ==
  ASSUME PoolInv, NEW a \in Arrays, NEW e \in Enumerators, NEW reverse \in BOOLEAN,
         Enumerate(a, e, reverse)
  PROVE  PoolInv'
<1> DEFINE it == [array |-> IF reverse THEN Nil ELSE a, nodes |-> a, reverse |-> reverse,
                  stack |-> FirstNode(a, reverse), count |-> Len(list[a]) - 1]
           more(q) == IF q = a /\ ~reverse THEN 1 ELSE 0
<1>1. a \in Objects /\ e \in Objects /\ a # e /\ a # Nil
  BY Kinds
<1>2. refCount[e] = 0 /\ refCount[a] > 0 /\ enumerator[e] = NoEnumerator
  <2>1. refCount[e] = 0 /\ Usable(a)
    BY DEF Enumerate
  <2> QED
    BY <1>1, <2>1, UsableIsThere DEF PoolInv, HoldersOK
<1>3. /\ poolStack' \in Seq(Buckets) /\ poolStack' # <<>>
      /\ \A q \in Objects :
           /\ IsFiniteSet(EntriesOf(q)')
           /\ Cardinality(EntriesOf(q)') = Cardinality(EntriesOf(q)) + (IF q = e THEN 1 ELSE 0)
  BY <1>1, AddToPoolAdds DEF Enumerate
<1>4. /\ it \in EnumeratorStates
      /\ it.array = IF reverse THEN Nil ELSE a
      /\ Holds(it)
  <2>1. Len(list[a]) \in Nat \ {0}
    BY ListIs
  <2>2. FirstNode(a, reverse) \in Nat /\ Len(list[a]) - 1 \in Nat
    BY <2>1 DEF FirstNode
  <2> QED
    BY <2>2 DEF EnumeratorStates, Holds
<1>5. /\ enumerator' = [enumerator EXCEPT ![e] = it]
      /\ refCount' = IF reverse THEN [refCount EXCEPT ![e] = 1]
                     ELSE [refCount EXCEPT ![e] = 1, ![a] = refCount[a] + 1]
      /\ UNCHANGED <<list, flushing, releases, owned, returned>>
  BY <1>1 DEF Enumerate
<1> HIDE DEF it
<1>6. /\ \A q \in Objects :
           refCount'[q] = IF q = e THEN 1 ELSE refCount[q] + more(q)
      /\ refCount' \in [Objects -> Nat]
  <2>1. refCount \in [Objects -> Nat]
    BY DEF PoolInv, PoolTypeOK
  <2>2. CASE reverse
    BY <1>1, <1>5, <2>1, <2>2
  <2>3. CASE ~reverse
    BY <1>1, <1>5, <2>1, <2>3
  <2> QED
    BY <2>2, <2>3
<1>7. /\ enumerator' \in [Enumerators -> EnumeratorStates]
      /\ \A d \in Enumerators : enumerator'[d] = IF d = e THEN it ELSE enumerator[d]
  BY <1>4, <1>5 DEF PoolInv, PoolTypeOK
<1>8. PoolTypeOK'
  BY <1>3, <1>5, <1>6, <1>7 DEF PoolInv, PoolTypeOK
<1>9. HoldersOK'
  <2>1. \A q \in Objects : refCount[q] \in Nat
    BY DEF PoolInv, PoolTypeOK
  <2>2. \A c \in Arrays : c \in Objects /\ c # e
    BY Kinds
  <2>3. ASSUME NEW c \in Arrays, refCount'[c] = 0
        PROVE  Len(list'[c]) = 1
    <3>1. refCount[c] = 0
      BY <1>6, <2>1, <2>2, <2>3
    <3> QED
      BY <1>5, <3>1 DEF PoolInv, HoldersOK
  <2>4. ASSUME NEW d \in Enumerators
        PROVE  IF refCount'[d] = 0 THEN enumerator'[d] = NoEnumerator /\ returned'[d] = <<>>
               ELSE Holds(enumerator'[d])
    <3>1. CASE d = e
      BY <1>1, <1>4, <1>6, <1>7, <3>1
    <3>2. CASE d # e
      <4>1. refCount'[d] = refCount[d]
        BY <1>6, <2>1, <3>2, Kinds
      <4> QED
        BY <1>5, <1>7, <3>2, <4>1 DEF PoolInv, HoldersOK
    <3> QED
      BY <3>1, <3>2
  <2> QED
    BY <2>3, <2>4 DEF HoldersOK
<1>10. \A q : ReleasesOf(q)' = ReleasesOf(q) /\ NodesOf(q)' = NodesOf(q)
  BY <1>5, ReleasesStay, NodesStay
<1>11. \A q \in Objects :
         /\ IsFiniteSet(EnumeratorsOf(q)')
         /\ Cardinality(EnumeratorsOf(q)') =
              Cardinality(EnumeratorsOf(q)) + more(q)
  <2> SUFFICES ASSUME NEW q \in Objects
               PROVE  /\ IsFiniteSet(EnumeratorsOf(q)')
                      /\ Cardinality(EnumeratorsOf(q)') =
                           Cardinality(EnumeratorsOf(q)) + more(q)
    OBVIOUS
  <2>1. IsFiniteSet(EnumeratorsOf(q)) /\ e \notin EnumeratorsOf(q)
    <3>1. enumerator[e].array = Nil /\ q # Nil
      BY <1>2, Kinds DEF NoEnumerator
    <3> QED
      BY <3>1 DEF PoolInv, FiniteHolders, EnumeratorsOf
  <2>2. CASE q = a /\ ~reverse
    <3>1. EnumeratorsOf(q)' = EnumeratorsOf(q) \cup {e}
      BY <1>4, <1>7, <2>1, <2>2 DEF EnumeratorsOf
    <3> QED
      BY <2>1, <2>2, <3>1, FS_AddElement
  <2>3. CASE ~(q = a /\ ~reverse)
    <3>1. EnumeratorsOf(q)' = EnumeratorsOf(q)
      BY <1>4, <1>7, <2>1, <2>3, Kinds DEF EnumeratorsOf
    <3> QED
      BY <2>1, <2>3, <3>1, HolderCounts
  <2> QED
    BY <2>2, <2>3
<1>12. FiniteHolders'
  BY <1>3, <1>10, <1>11 DEF PoolInv, FiniteHolders
<1>13. CountsExact'
  <2>1. ASSUME NEW q \in Objects
        PROVE  /\ refCount'[q] - refCount[q] =
                    (IF q = e THEN 1 ELSE 0) + more(q)
               /\ owned'[q] - owned[q] = 0
               /\ Cardinality(ReleasesOf(q)') - Cardinality(ReleasesOf(q)) = 0
               /\ Cardinality(EntriesOf(q)') - Cardinality(EntriesOf(q)) = IF q = e THEN 1 ELSE 0
               /\ Cardinality(NodesOf(q)') - Cardinality(NodesOf(q)) = 0
               /\ Cardinality(EnumeratorsOf(q)') - Cardinality(EnumeratorsOf(q)) =
                    more(q)
    <3>1. refCount[q] \in Nat /\ owned[q] \in Nat
      BY DEF PoolInv, PoolTypeOK
    <3>2. refCount'[q] - refCount[q] = (IF q = e THEN 1 ELSE 0) + more(q)
      BY <1>1, <1>2, <1>6, <3>1
    <3> QED
      BY <1>3, <1>5, <1>10, <1>11, <3>1, <3>2, HolderCounts, SMTT(60)
  <2>2. ASSUME NEW q \in Objects
        PROVE  refCount'[q] - refCount[q] =
                 (owned'[q] - owned[q])
                 + (Cardinality(EntriesOf(q)') - Cardinality(EntriesOf(q)))
                 + (Cardinality(ReleasesOf(q)') - Cardinality(ReleasesOf(q)))
                 + (Cardinality(NodesOf(q)') - Cardinality(NodesOf(q)))
                 + (Cardinality(EnumeratorsOf(q)') - Cardinality(EnumeratorsOf(q)))
    BY <2>1
  <2> QED
    BY <1>8, <1>12, <2>2, CountsFollow
<1> QED
  BY <1>8, <1>9, <1>12, <1>13 DEF PoolInv

LEMMA EnumeratorNextInv ==
  ASSUME PoolInv, NEW e \in Enumerators, EnumeratorNext(e)
  PROVE  PoolInv'
<1>1. refCount[e] > 0 /\ enumerator[e].nodes \in Arrays
  BY UsableIsThere, Kinds DEF EnumeratorNext, PoolInv, PoolTypeOK, EnumeratorStates
<1>2. NextNode(e) \in Nat
  <2>1. enumerator[e].stack \in Nat \ {0}
    BY DEF EnumeratorNext, PoolInv, PoolTypeOK, EnumeratorStates
  <2>2. Len(list[enumerator[e].nodes]) \in Nat
    BY <1>1, ListIs
  <2> QED
    BY <2>1, <2>2 DEF NextNode
<1>3. /\ enumerator' \in [Enumerators -> EnumeratorStates]
      /\ \A d \in Enumerators : /\ enumerator'[d].array = enumerator[d].array
                                /\ Holds(enumerator[d]) => Holds(enumerator'[d])
      /\ \A d \in Enumerators : d # e =>
           enumerator'[d] = enumerator[d] /\ returned'[d] = returned[d]
  <2>1. /\ enumerator \in [Enumerators -> EnumeratorStates]
        /\ enumerator' = [enumerator EXCEPT ![e] = [enumerator[e] EXCEPT !.stack = NextNode(e)]]
    BY DEF EnumeratorNext, PoolInv, PoolTypeOK
  <2>2. \A d \in Enumerators : d # e => returned'[d] = returned[d]
    BY DEF EnumeratorNext
  <2>3. [enumerator[e] EXCEPT !.stack = NextNode(e)]
          \in EnumeratorStates
    BY <1>2, <2>1 DEF EnumeratorStates
  <2>4. /\ [enumerator[e] EXCEPT !.stack = NextNode(e)].array = enumerator[e].array
        /\ Holds(enumerator[e]) => Holds([enumerator[e] EXCEPT !.stack = NextNode(e)])
    BY <2>1 DEF EnumeratorStates, Holds
  <2> QED
    BY <2>1, <2>2, <2>3, <2>4
<1>4. UNCHANGED <<refCount, list, poolStack, flushing, releases, owned>>
  BY DEF EnumeratorNext
<1>5. PoolTypeOK'
  BY <1>3, <1>4 DEF PoolInv, PoolTypeOK
<1>6. HoldersOK'
  BY <1>1, <1>3, <1>4 DEF PoolInv, HoldersOK
<1>7. \A q : /\ EntriesOf(q)' = EntriesOf(q) /\ NodesOf(q)' = NodesOf(q)
             /\ ReleasesOf(q)' = ReleasesOf(q) /\ EnumeratorsOf(q)' = EnumeratorsOf(q)
  <2>1. \A q : EnumeratorsOf(q)' = EnumeratorsOf(q)
    BY <1>3 DEF EnumeratorsOf
  <2> QED
    BY <1>4, <2>1, EntriesStay, NodesStay, ReleasesStay
<1>8. FiniteHolders' /\ CountsExact'
  BY <1>4, <1>7 DEF PoolInv, FiniteHolders, CountsExact
<1> QED
  BY <1>5, <1>6, <1>8 DEF PoolInv

(***************************************************************************)
(* What an object lets go of with its last reference, and nobody else: the *)
(* references that become releases are those its nodes, or the enumerator, *)
(* held.                                                                   *)
(***************************************************************************)
LEMMA DeallocMoves ==
  ASSUME PoolInv, NEW o \in Objects, refCount[o] = 1,
         list' = [a \in Arrays |-> IF a = o THEN <<Nil>> ELSE list[a]],
         enumerator' = [e \in Enumerators |-> AfterDealloc(e, o)]
  PROVE  /\ HeldBy(o) \in Seq(Objects)
         /\ list' \in Lists
         /\ \A a \in Arrays : \A i \in 1..Len(list'[a]) : list'[a][i] = Nil <=> i = 1
         /\ \A q \in Objects :
              /\ IsFiniteSet(NodesOf(q)') /\ IsFiniteSet(EnumeratorsOf(q)')
              /\ (Cardinality(NodesOf(q)') - Cardinality(NodesOf(q)))
                 + (Cardinality(EnumeratorsOf(q)') - Cardinality(EnumeratorsOf(q)))
                   = -Cardinality(PlacesIn(HeldBy(o), q))
<1>1. list \in Lists
  BY DEF PoolInv, PoolTypeOK, Lists
<1>2. <<Nil>> \in Seq(Strings \cup {Nil}) /\ <<Nil>> # <<>> /\ Len(<<Nil>>) = 1 /\ <<Nil>>[1] = Nil
  OBVIOUS
<1>3. list' \in Lists
  BY <1>1, <1>2 DEF Lists
<1>4. \A a \in Arrays : \A i \in 1..Len(list'[a]) : list'[a][i] = Nil <=> i = 1
  <2> SUFFICES ASSUME NEW a \in Arrays, NEW i \in 1..Len(list'[a])
               PROVE  list'[a][i] = Nil <=> i = 1
    OBVIOUS
  <2>1. CASE a = o
    <3>1. list'[a] = <<Nil>>
      BY <2>1
    <3> QED
      BY <1>2, <3>1
  <2>2. CASE a # o
    BY <2>2, ListIs
  <2> QED
    BY <2>1, <2>2
<1>5. ASSUME o \notin Arrays
      PROVE  \A q \in Objects : NodesOf(q)' = NodesOf(q)
  <2>1. \A a \in Arrays : list'[a] = list[a]
    BY <1>5
  <2>2. ArrayNodes' = ArrayNodes
    BY <2>1 DEF ArrayNodes
  <2>3. \A x \in ArrayNodes : x[1] \in Arrays
    BY NodesAre
  <2> QED
    BY <2>1, <2>2, <2>3 DEF NodesOf
<1>0. \A e \in Enumerators :
        enumerator'[e].array = IF e = o THEN Nil ELSE enumerator[e].array
  BY DEF AfterDealloc, NoEnumerator, EnumeratorStates, PoolInv, PoolTypeOK
<1>6. ASSUME o \notin Enumerators
      PROVE  \A q \in Objects : EnumeratorsOf(q)' = EnumeratorsOf(q)
  BY <1>0, <1>6 DEF EnumeratorsOf
<1>7. CASE o \in Arrays
  <2>1. o \notin Enumerators /\ HeldBy(o) = Tail(list[o])
    BY <1>7, Kinds DEF HeldBy
  <2>2. /\ list[o] \in Seq(Strings \cup {Nil}) /\ list[o] # <<>> /\ Len(list[o]) \in Nat \ {0}
        /\ list[o][1] = Nil /\ \A i \in 2..Len(list[o]) : list[o][i] \in Strings
    BY <1>7, ListIs
  <2>3. HeldBy(o) \in Seq(Objects)
    <3>1. /\ Tail(list[o]) \in Seq(Strings \cup {Nil})
          /\ Len(Tail(list[o])) = Len(list[o]) - 1
          /\ \A i \in 1..Len(Tail(list[o])) : Tail(list[o])[i] = list[o][i + 1]
      BY <2>2, HeadTailProperties
    <3>2. \A i \in 1..Len(Tail(list[o])) : Tail(list[o])[i] \in Objects
      <4> SUFFICES ASSUME NEW i \in 1..Len(Tail(list[o]))
                   PROVE  Tail(list[o])[i] \in Objects
        OBVIOUS
      <4>1. i + 1 \in 2..Len(list[o])
        BY <2>2, <3>1
      <4> QED
        BY <2>2, <3>1, <4>1, Kinds
    <3>3. Tail(list[o]) \in [1..Len(Tail(list[o])) -> Objects] /\ Len(Tail(list[o])) \in Nat
      BY <3>1, <3>2, LenProperties
    <3>4. Seq(Objects) = UNION {[1..n -> Objects] : n \in Nat}
      BY SeqDef
    <3> HIDE DEF Objects
    <3>5. Tail(list[o]) \in Seq(Objects)
      BY <3>3, <3>4
    <3> QED
      BY <2>1, <3>5
  <2>4. ASSUME NEW q \in Objects
        PROVE  /\ IsFiniteSet(NodesOf(q)')
               /\ Cardinality(NodesOf(q)') - Cardinality(NodesOf(q)) =
                    -Cardinality(PlacesIn(HeldBy(o), q))
    <3>1. /\ IsFiniteSet(NodesOf(q)')
          /\ Cardinality(NodesOf(q)') =
               Cardinality(NodesOf(q)) - Cardinality(PlacesIn(list[o], q))
               + Cardinality(PlacesIn(list'[o], q))
      BY <1>3, <1>7, NodesChange
    <3>2. q # Nil
      BY Kinds
    <3>3. Cardinality(PlacesIn(list'[o], q)) = 0
      <4>1. list'[o] = <<Nil>>
        BY <1>7
      <4> QED
        BY <3>2, <4>1, PlacesSingle
    <3>4. Cardinality(PlacesIn(list[o], q)) = Cardinality(PlacesIn(Tail(list[o]), q)) + 0
      BY <2>2, <3>2, PlacesTail
    <3>5. Cardinality(PlacesIn(HeldBy(o), q)) \in Nat
      BY <2>3, PlacesFinite
    <3> QED
      BY <2>1, <3>1, <3>3, <3>4, <3>5, HolderCounts
  <2>5. \A q \in Objects : /\ IsFiniteSet(EnumeratorsOf(q)')
                           /\ Cardinality(EnumeratorsOf(q)') - Cardinality(EnumeratorsOf(q)) = 0
    BY <1>6, <2>1, HolderCounts DEF PoolInv, FiniteHolders
  <2>6. \A q \in Objects : Cardinality(PlacesIn(HeldBy(o), q)) \in Nat
    BY <2>3, PlacesFinite
  <2> QED
    BY <1>3, <1>4, <2>3, <2>4, <2>5, <2>6
<1>8. CASE o \in Enumerators
  <2> DEFINE array == enumerator[o].array
  <2>1. /\ o \notin Arrays
        /\ array # Nil => HeldBy(o) = <<array>> /\ array \in Arrays
        /\ array = Nil => HeldBy(o) = <<>>
    BY <1>8, Kinds DEF HeldBy, PoolInv, HoldersOK, Holds
  <2>2. HeldBy(o) \in Seq(Objects)
    <3>1. CASE array # Nil
      <4>1. array \in Objects /\ HeldBy(o) = <<array>>
        BY <2>1, <3>1, Kinds
      <4> HIDE DEF array, Objects
      <4>2. <<array>> \in Seq(Objects)
        BY <4>1
      <4> QED
        BY <4>1, <4>2
    <3>2. CASE array = Nil
      BY <2>1, <3>2
    <3> QED
      BY <3>1, <3>2
  <2>3. ASSUME NEW q \in Objects
        PROVE  /\ IsFiniteSet(EnumeratorsOf(q)')
               /\ Cardinality(EnumeratorsOf(q)') - Cardinality(EnumeratorsOf(q)) =
                    -Cardinality(PlacesIn(HeldBy(o), q))
    <3>1. EnumeratorsOf(q)' = EnumeratorsOf(q) \ {o}
      BY <1>0, <1>8, Kinds DEF EnumeratorsOf
    <3>2. IsFiniteSet(EnumeratorsOf(q)) /\ Cardinality(EnumeratorsOf(q)) \in Nat
      BY HolderCounts DEF PoolInv, FiniteHolders
    <3>3. /\ IsFiniteSet(EnumeratorsOf(q) \ {o})
          /\ Cardinality(EnumeratorsOf(q) \ {o}) =
               IF o \in EnumeratorsOf(q) THEN Cardinality(EnumeratorsOf(q)) - 1
               ELSE Cardinality(EnumeratorsOf(q))
      BY <3>2, FS_RemoveElement
    <3>4. o \in EnumeratorsOf(q) <=> array = q
      BY <1>8 DEF EnumeratorsOf
    <3>5. Cardinality(PlacesIn(HeldBy(o), q)) = IF array = q THEN 1 ELSE 0
      <4>1. CASE array # Nil
        BY <2>1, <4>1, PlacesSingle
      <4>2. CASE array = Nil
        BY <2>1, <4>2, PlacesEmpty, Kinds
      <4> QED
        BY <4>1, <4>2
    <3> QED
      BY <3>1, <3>2, <3>3, <3>4, <3>5
  <2>4. \A q \in Objects : /\ IsFiniteSet(NodesOf(q)')
                           /\ Cardinality(NodesOf(q)') - Cardinality(NodesOf(q)) = 0
    BY <1>5, <2>1, HolderCounts DEF PoolInv, FiniteHolders
  <2>5. \A q \in Objects : Cardinality(PlacesIn(HeldBy(o), q)) \in Nat
    BY <2>2, PlacesFinite
  <2> QED
    BY <1>3, <1>4, <2>2, <2>3, <2>4, <2>5
<1>9. CASE o \notin Arrays /\ o \notin Enumerators
  <2>1. HeldBy(o) = <<>>
    BY <1>9 DEF HeldBy
  <2>2. \A q \in Objects : Cardinality(PlacesIn(HeldBy(o), q)) = 0
    BY <2>1, PlacesEmpty
  <2>3. \A q \in Objects :
          /\ IsFiniteSet(NodesOf(q)') /\ IsFiniteSet(EnumeratorsOf(q)')
          /\ Cardinality(NodesOf(q)') - Cardinality(NodesOf(q)) = 0
          /\ Cardinality(EnumeratorsOf(q)') - Cardinality(EnumeratorsOf(q)) = 0
    BY <1>5, <1>6, <1>9, HolderCounts DEF PoolInv, FiniteHolders
  <2>4. HeldBy(o) \in Seq(Objects)
    BY <2>1
  <2> QED
    BY <1>3, <1>4, <2>2, <2>3, <2>4
<1> QED
  BY <1>7, <1>8, <1>9

(***************************************************************************)
(* The last reference is the release itself: no enumerator holds one.      *)
(***************************************************************************)
LEMMA LastReference ==
  ASSUME PoolInv, NEW o \in Objects, ReleasesOf(o) # {}, refCount[o] = 1
  PROVE  EnumeratorsOf(o) = {}
<1>1. Cardinality(ReleasesOf(o)) # 0
  BY HolderCounts, FS_EmptySet
<1>2. owned[o] \in Nat
  BY DEF PoolInv, PoolTypeOK
<1>3. Cardinality(EnumeratorsOf(o)) = 0
  <2> DEFINE n == owned[o]  p == Cardinality(EntriesOf(o))  r == Cardinality(ReleasesOf(o))
             l == Cardinality(NodesOf(o))  i == Cardinality(EnumeratorsOf(o))
  <2>1. 1 = n + p + r + l + i
    BY DEF PoolInv, CountsExact
  <2>2. n \in Nat /\ p \in Nat /\ r \in Nat \ {0} /\ l \in Nat /\ i \in Nat
    BY <1>1, <1>2, HolderCounts
  <2> HIDE DEF n, p, r, l, i
  <2>3. i = 0
    BY <2>1, <2>2
  <2> QED
    BY <2>3 DEF i
<1> QED
  BY <1>3, FS_EmptySet DEF PoolInv, FiniteHolders

LEMMA SendReleaseInv ==
  ASSUME PoolInv, SendRelease
  PROVE  PoolInv'
<1> DEFINE o == Last(releases)
           last == refCount[o] = 1
           held == IF last THEN HeldBy(o) ELSE <<>>
<1>1. /\ releases \in Seq(Objects) /\ releases # <<>>
      /\ o \in Objects /\ Front(releases) \in Seq(Objects)
  <2>1. releases \in Seq(Objects) /\ releases # <<>>
    BY DEF SendRelease, PoolInv, PoolTypeOK
  <2> QED
    BY <2>1, FrontLast
<1>2. /\ refCount' = [refCount EXCEPT ![o] = refCount[o] - 1]
      /\ releases' = Front(releases) \o held
      /\ list' = [a \in Arrays |-> IF last /\ a = o THEN <<Nil>> ELSE list[a]]
      /\ enumerator' = [e \in Enumerators |->
                          IF last THEN AfterDealloc(e, o) ELSE enumerator[e]]
      /\ returned' = [e \in Enumerators |-> IF last /\ e = o THEN <<>> ELSE returned[e]]
      /\ UNCHANGED <<poolStack, flushing, owned>>
  BY DEF SendRelease
<1>3. refCount[o] > 0 /\ (last => EnumeratorsOf(o) = {})
  <2>1. Len(releases) \in Nat \ {0} /\ o = releases[Len(releases)]
    BY <1>1, FrontLast
  <2>2. DOMAIN releases = 1..Len(releases)
    BY <1>1
  <2>3. Len(releases) \in ReleasesOf(o)
    BY <2>1, <2>2 DEF ReleasesOf
  <2> HIDE DEF o
  <2> QED
    BY <1>1, <2>3, HeldIsThere, LastReference
<1> HIDE DEF o
<1>4. /\ list' \in Lists
      /\ \A a \in Arrays : \A i \in 1..Len(list'[a]) : list'[a][i] = Nil <=> i = 1
      /\ held \in Seq(Objects)
      /\ \A q \in Objects :
           /\ IsFiniteSet(NodesOf(q)') /\ IsFiniteSet(EnumeratorsOf(q)')
           /\ (Cardinality(NodesOf(q)') - Cardinality(NodesOf(q)))
              + (Cardinality(EnumeratorsOf(q)') - Cardinality(EnumeratorsOf(q)))
                = -Cardinality(PlacesIn(held, q))
  <2>1. CASE last
    <3>1. /\ list' = [a \in Arrays |-> IF a = o THEN <<Nil>> ELSE list[a]]
          /\ enumerator' = [e \in Enumerators |-> AfterDealloc(e, o)]
          /\ held = HeldBy(o)
      BY <1>2, <2>1
    <3> HIDE DEF held
    <3> QED
      BY <1>1, <2>1, <3>1, DeallocMoves
  <2>2. CASE ~last
    <3>1. list \in Lists /\ enumerator \in [Enumerators -> EnumeratorStates]
      BY DEF PoolInv, PoolTypeOK, Lists
    <3>2. list' = list /\ enumerator' = enumerator
      BY <1>2, <2>2, <3>1 DEF Lists
    <3>3. \A q : NodesOf(q)' = NodesOf(q) /\ EnumeratorsOf(q)' = EnumeratorsOf(q)
      BY <3>2, NodesStay, EnumeratorsStay
    <3>4. \A a \in Arrays : \A i \in 1..Len(list'[a]) : list'[a][i] = Nil <=> i = 1
      BY <3>2, ListIs
    <3>5. held = <<>>
      BY <2>2
    <3> HIDE DEF held
    <3>6. held \in Seq(Objects) /\ \A q \in Objects : Cardinality(PlacesIn(held, q)) = 0
      BY <3>5, PlacesEmpty
    <3> QED
      BY <3>1, <3>2, <3>3, <3>4, <3>6, HolderCounts DEF PoolInv, FiniteHolders
  <2> QED
    BY <2>1, <2>2
<1>5. /\ refCount' \in [Objects -> Nat]
      /\ \A q \in Objects : refCount'[q] = refCount[q] - (IF q = o THEN 1 ELSE 0)
  BY <1>1, <1>2, <1>3, SMTT(60) DEF PoolInv, PoolTypeOK
<1>6. enumerator' \in [Enumerators -> EnumeratorStates]
  <2>1. \A e \in Enumerators : enumerator[e] \in EnumeratorStates
    BY DEF PoolInv, PoolTypeOK
  <2>2. \A e \in Enumerators : AfterDealloc(e, o) \in EnumeratorStates
    BY <2>1 DEF AfterDealloc, NoEnumerator, EnumeratorStates
  <2> QED
    BY <1>2, <2>1, <2>2
<1>7. PoolTypeOK'
  <2>1. releases' \in Seq(Objects)
    BY <1>1, <1>2, <1>4, ConcatProperties
  <2> QED
    BY <1>2, <1>4, <1>5, <1>6, <2>1 DEF PoolInv, PoolTypeOK, Lists
<1>8. HoldersOK'
  <2>0. \A q \in Objects : refCount[q] \in Nat
    BY DEF PoolInv, PoolTypeOK
  <2>1. ASSUME NEW a \in Arrays, refCount'[a] = 0
        PROVE  Len(list'[a]) = 1
    <3>1. CASE a = o
      <4>1. list'[a] = <<Nil>>
        BY <1>2, <1>3, <1>5, <2>0, <2>1, <3>1, <1>1
      <4> QED
        BY <4>1
    <3>2. CASE a # o
      <4>1. list'[a] = list[a] /\ refCount'[a] = refCount[a]
        BY <1>2, <1>5, <2>0, <3>2, Kinds
      <4> QED
        BY <2>1, <4>1 DEF PoolInv, HoldersOK
    <3> QED
      BY <3>1, <3>2
  <2>2. ASSUME NEW e \in Enumerators
        PROVE  IF refCount'[e] = 0 THEN enumerator'[e] = NoEnumerator /\ returned'[e] = <<>>
               ELSE Holds(enumerator'[e])
    <3>1. CASE e = o /\ last
      <4>1. refCount'[e] = 0 /\ enumerator'[e] = NoEnumerator /\ returned'[e] = <<>>
        BY <1>1, <1>2, <1>5, <3>1 DEF AfterDealloc
      <4> QED
        BY <4>1
    <3>2. CASE e = o /\ ~last
      <4>1. refCount'[e] # 0 /\ refCount[e] # 0 /\ enumerator'[e] = enumerator[e]
        BY <1>1, <1>2, <1>3, <1>5, <2>0, <3>2
      <4> QED
        BY <4>1 DEF PoolInv, HoldersOK
    <3>3. CASE e # o
      <4>1. refCount'[e] = refCount[e] /\ returned'[e] = returned[e]
        BY <1>2, <1>5, <2>0, <3>3, Kinds
      <4>2. CASE enumerator'[e] = enumerator[e]
        BY <4>1, <4>2 DEF PoolInv, HoldersOK
      <4>3. CASE enumerator'[e] # enumerator[e]
        <5>1. /\ last /\ enumerator[e].nodes = o
              /\ enumerator'[e] = [enumerator[e] EXCEPT !.nodes = Nil]
          BY <1>2, <3>3, <4>3 DEF AfterDealloc
        <5>2. enumerator[e] \in EnumeratorStates /\ o # Nil
          BY <1>1, Kinds DEF PoolInv, PoolTypeOK
        <5>3. refCount[e] # 0
          BY <5>1, <5>2 DEF PoolInv, HoldersOK, NoEnumerator
        <5>4. Holds(enumerator[e])
          BY <5>3 DEF PoolInv, HoldersOK
        <5>5. enumerator[e].reverse
          <6> SUFFICES ASSUME ~enumerator[e].reverse PROVE FALSE
            OBVIOUS
          <6>1. e \in EnumeratorsOf(o)
            BY <5>1, <5>4 DEF Holds, EnumeratorsOf
          <6> QED
            BY <1>3, <5>1, <6>1
        <5>6. Holds(enumerator'[e])
          BY <5>1, <5>2, <5>4, <5>5 DEF Holds, EnumeratorStates
        <5> QED
          BY <4>1, <5>3, <5>6
      <4> QED
        BY <4>2, <4>3
    <3> QED
      BY <3>1, <3>2, <3>3
  <2> QED
    BY <2>1, <2>2 DEF HoldersOK
<1>9. \A q : EntriesOf(q)' = EntriesOf(q)
  BY <1>2, EntriesStay
<1>10. FiniteHolders'
  BY <1>4, <1>9 DEF PoolInv, FiniteHolders
<1> HIDE DEF held
<1>11. \A q \in Objects :
         /\ Cardinality(ReleasesOf(q)') - Cardinality(ReleasesOf(q)) =
              Cardinality(PlacesIn(held, q)) - (IF q = o THEN 1 ELSE 0)
         /\ Cardinality(PlacesIn(held, q)) \in Nat
  <2> SUFFICES ASSUME NEW q \in Objects
               PROVE  /\ Cardinality(ReleasesOf(q)') - Cardinality(ReleasesOf(q)) =
                           Cardinality(PlacesIn(held, q)) - (IF q = o THEN 1 ELSE 0)
                      /\ Cardinality(PlacesIn(held, q)) \in Nat
    OBVIOUS
  <2>1. /\ ReleasesOf(q) = PlacesIn(releases, q)
        /\ ReleasesOf(q)' = PlacesIn(releases', q)
    BY <1>1, <1>7, ReleasesAre DEF PoolTypeOK
  <2>2. Cardinality(PlacesIn(Front(releases) \o held, q)) =
          Cardinality(PlacesIn(Front(releases), q)) + Cardinality(PlacesIn(held, q))
    BY <1>1, <1>4, PlacesConcat
  <2>3. Cardinality(PlacesIn(Front(releases), q)) =
          Cardinality(PlacesIn(releases, q)) - (IF o = q THEN 1 ELSE 0)
    BY <1>1, PlacesFront DEF o
  <2>4. /\ Cardinality(PlacesIn(held, q)) \in Nat
        /\ Cardinality(PlacesIn(releases, q)) \in Nat
    BY <1>1, <1>4, PlacesFinite
  <2> QED
    BY <1>2, <2>1, <2>2, <2>3, <2>4
<1>12. CountsExact'
  <2>1. ASSUME NEW q \in Objects
        PROVE  refCount'[q] - refCount[q] =
                 (owned'[q] - owned[q])
                 + (Cardinality(EntriesOf(q)') - Cardinality(EntriesOf(q)))
                 + (Cardinality(ReleasesOf(q)') - Cardinality(ReleasesOf(q)))
                 + (Cardinality(NodesOf(q)') - Cardinality(NodesOf(q)))
                 + (Cardinality(EnumeratorsOf(q)') - Cardinality(EnumeratorsOf(q)))
    <3> DEFINE h == Cardinality(PlacesIn(held, q))
               dN == Cardinality(NodesOf(q)') - Cardinality(NodesOf(q))
               dE == Cardinality(EnumeratorsOf(q)') - Cardinality(EnumeratorsOf(q))
               dR == Cardinality(ReleasesOf(q)') - Cardinality(ReleasesOf(q))
    <3>1. refCount[q] \in Nat /\ owned[q] \in Nat
      BY DEF PoolInv, PoolTypeOK
    <3>2. refCount'[q] - refCount[q] = -(IF q = o THEN 1 ELSE 0)
      BY <1>5, <3>1
    <3>3. owned'[q] - owned[q] = 0
      BY <1>2, <3>1
    <3>4. Cardinality(EntriesOf(q)') - Cardinality(EntriesOf(q)) = 0
      BY <1>9, HolderCounts
    <3>5. dR = h - (IF q = o THEN 1 ELSE 0) /\ h \in Nat /\ dN + dE = -h
      BY <1>4, <1>11
    <3>6. dN \in Int /\ dE \in Int
      <4>1. Cardinality(NodesOf(q)') \in Nat /\ Cardinality(EnumeratorsOf(q)') \in Nat
        BY <1>10, FS_CardinalityType DEF FiniteHolders
      <4> QED
        BY <4>1, HolderCounts
    <3> HIDE DEF h, dN, dE, dR
    <3>7. refCount'[q] - refCount[q] = 0 + 0 + dR + dN + dE
      BY <3>2, <3>5, <3>6
    <3> QED
      BY <3>3, <3>4, <3>7 DEF dR, dN, dE
  <2> QED
    BY <1>7, <1>10, <2>1, CountsFollow
<1> QED
  BY <1>7, <1>8, <1>10, <1>12 DEF PoolInv

(***************************************************************************)
(* Every step of the thread.                                               *)
(***************************************************************************)
LEMMA PoolNextInv ==
  ASSUME PoolInv, PoolNext PROVE PoolInv'
<1>1. ASSUME NEW o \in Objects, Allocate(o) \/ Retain(o) \/ GiveUp(o) \/ Autorelease(o)
      PROVE  PoolInv'
  BY <1>1, AllocateInv, RetainInv, GiveUpInv, AutoreleaseInv
<1>2. ASSUME SendRelease PROVE PoolInv'
  BY <1>2, SendReleaseInv
<1>3. ASSUME NewPool \/ ReleasePool \/ FreeBucket PROVE PoolInv'
  BY <1>3, PoolStepInv
<1>4. ASSUME FlushEntry PROVE PoolInv'
  BY <1>4, FlushEntryInv
<1>5. ASSUME NEW a \in Arrays, NEW o \in Strings, AddObject(a, o) PROVE PoolInv'
  BY <1>5, AddObjectInv
<1>6. ASSUME NEW a \in Arrays, RemoveObject(a) PROVE PoolInv'
  BY <1>6, RemoveObjectInv
<1>7. ASSUME NEW a \in Arrays, NEW e \in Enumerators, NEW reverse \in BOOLEAN,
             Enumerate(a, e, reverse)
      PROVE  PoolInv'
  BY <1>7, EnumerateInv
<1>8. ASSUME NEW e \in Enumerators, EnumeratorNext(e) PROVE PoolInv'
  BY <1>8, EnumeratorNextInv
<1> QED
  BY <1>1, <1>2, <1>3, <1>4, <1>5, <1>6, <1>7, <1>8 DEF PoolNext

LEMMA PoolIdleInv ==
  ASSUME PoolInv, UNCHANGED poolVars PROVE PoolInv'
<1>1. UNCHANGED <<refCount, list, enumerator, poolStack, flushing, releases, owned, returned>>
  BY DEF poolVars
<1>2. PoolTypeOK' /\ HoldersOK'
  BY <1>1 DEF PoolInv, PoolTypeOK, HoldersOK
<1>3. \A q : /\ EntriesOf(q)' = EntriesOf(q) /\ NodesOf(q)' = NodesOf(q)
             /\ ReleasesOf(q)' = ReleasesOf(q) /\ EnumeratorsOf(q)' = EnumeratorsOf(q)
  BY <1>1, EntriesStay, NodesStay, ReleasesStay, EnumeratorsStay
<1> QED
  BY <1>1, <1>2, <1>3 DEF PoolInv, FiniteHolders, CountsExact

LEMMA ContainerStepInv ==
  ASSUME PoolInv, [ContainerNext]_containerVars PROVE PoolInv'
<1>1. PoolNext \/ UNCHANGED poolVars
  BY DEF ContainerNext, containerVars
<1> QED
  BY <1>1, PoolNextInv, PoolIdleInv

LEMMA PoolInvHolds == ContainerSpec => []PoolInv
<1>1. ContainerInit => PoolInv
  BY InitPool DEF ContainerInit
<1>2. PoolInv /\ [ContainerNext]_containerVars => PoolInv'
  BY ContainerStepInv
<1> QED
  BY <1>1, <1>2, PTL DEF ContainerSpec

(***************************************************************************)
(* However objects are retained, autoreleased, put into arrays and taken   *)
(* out of them, enumerated and released, in any number of pools with       *)
(* buckets of any size: the count of each object is the number of          *)
(* references somebody will give up.  A reverse enumerator has none.       *)
(***************************************************************************)
THEOREM CountsAreExact == ContainerSpec => []CountsExact
<1>1. PoolInv => CountsExact
  BY DEF PoolInv
<1> QED
  BY <1>1, PoolInvHolds, PTL

(***************************************************************************)
(* Nothing is used after it was freed or freed twice: what the client may  *)
(* use, and what is about to be sent a release, has a count (the assertion *)
(* of release, TRObject.m:128), and an object is only deallocated when     *)
(* nobody else holds it.  A reverse enumerator does not hold its array:    *)
(* whether the nodes it walks are still there is not among this, and that  *)
(* it is not asked for another one then is the client's duty.              *)
(***************************************************************************)
NothingDangles ==
  /\ \A o \in Objects : Usable(o) => refCount[o] > 0
  /\ \A o \in Objects : ReleasesOf(o) # {} => refCount[o] > 0
  /\ \A o \in Objects : refCount[o] = 0 =>
       /\ owned[o] = 0
       /\ EntriesOf(o) = {} /\ NodesOf(o) = {} /\ EnumeratorsOf(o) = {}

THEOREM NoDanglingReference == ContainerSpec => []NothingDangles
<1>1. PoolInv => NothingDangles
  <2> SUFFICES ASSUME PoolInv, NEW o \in Objects
               PROVE  /\ Usable(o) => refCount[o] > 0
                      /\ ReleasesOf(o) # {} => refCount[o] > 0
                      /\ refCount[o] = 0 =>
                           /\ owned[o] = 0
                           /\ EntriesOf(o) = {} /\ NodesOf(o) = {} /\ EnumeratorsOf(o) = {}
    BY DEF NothingDangles
  <2>1. owned[o] \in Nat /\ refCount[o] \in Nat
    BY DEF PoolInv, PoolTypeOK
  <2> QED
    BY <2>1, UsableIsThere, HeldIsThere
<1> QED
  BY <1>1, PoolInvHolds, PTL

-----------------------------------------------------------------------------
(* Where the enumerators are. *)

LEMMA EnumeratorIs ==
  ASSUME PoolInv, NEW e \in Enumerators, Walking(e)
  PROVE  /\ enumerator[e].nodes \in Arrays /\ enumerator[e].reverse \in BOOLEAN
         /\ enumerator[e].stack \in Nat /\ enumerator[e].count \in Nat
  BY DEF PoolInv, PoolTypeOK, EnumeratorStates, Walking

(***************************************************************************)
(* A forward enumerator has its array, which is there.                     *)
(***************************************************************************)
LEMMA ForwardHasArray ==
  ASSUME PoolInv, NEW e \in Enumerators, refCount[e] > 0, ~enumerator[e].reverse
  PROVE  enumerator[e].nodes \in Arrays /\ refCount[enumerator[e].nodes] > 0
<1>1. enumerator[e].array \in Arrays /\ enumerator[e].nodes = enumerator[e].array
  BY DEF PoolInv, HoldersOK, Holds
<1>2. e \in EnumeratorsOf(enumerator[e].nodes)
  BY <1>1 DEF EnumeratorsOf
<1> QED
  BY <1>1, <1>2, Kinds, HeldIsThere

(***************************************************************************)
(* An enumerator is where it was while its array keeps the nodes it has    *)
(* passed and those in front of it.                                        *)
(***************************************************************************)
LEMMA EnumeratorStays ==
  ASSUME PoolInv, NEW e \in Enumerators, Walking(e),
         returned[e] \in Seq(Strings \cup {Nil}), EnumeratorAt(e),
         enumerator'[e] = enumerator[e], returned'[e] = returned[e],
         Len(list'[enumerator[e].nodes]) \in Nat,
         Len(list[enumerator[e].nodes]) <= Len(list'[enumerator[e].nodes]),
         \A i \in 1..Len(list[enumerator[e].nodes]) :
           list'[enumerator[e].nodes][i] = list[enumerator[e].nodes][i]
  PROVE  EnumeratorAt(e)'
<1> DEFINE it == enumerator[e]
           last == Len(list[it.nodes])
           n == Len(returned[e])
<1>1. /\ it.nodes \in Arrays /\ it.reverse \in BOOLEAN /\ it.count \in Nat /\ it.stack \in Nat
      /\ last \in Nat /\ n \in Nat
  BY EnumeratorIs, ListIs
<1>2. /\ it.count < last
      /\ ~it.reverse => n <= it.count + 1 /\ it.stack = it.count + 1 - n
      /\ it.reverse => /\ n < last
                       /\ \/ it.stack = n + 2 /\ n + 2 <= last
                          \/ it.stack = 0 /\ n >= it.count
      /\ \A i \in 1..n :
           returned[e][i] = list[it.nodes][IF it.reverse THEN i + 1 ELSE it.count + 2 - i]
  BY DEF EnumeratorAt
<1>3. \A i \in 1..n : (IF it.reverse THEN i + 1 ELSE it.count + 2 - i) \in 1..last
  BY <1>1, <1>2, SMTT(60)
<1>4. \A i \in 1..n :
        returned[e][i] = list'[it.nodes][IF it.reverse THEN i + 1 ELSE it.count + 2 - i]
  BY <1>2, <1>3
<1>5. /\ it.count < Len(list'[it.nodes])
      /\ it.reverse => /\ n < Len(list'[it.nodes])
                       /\ \/ it.stack = n + 2 /\ n + 2 <= Len(list'[it.nodes])
                          \/ it.stack = 0 /\ n >= it.count
  BY <1>1, <1>2, SMTT(60)
<1> QED
  BY <1>2, <1>4, <1>5 DEF EnumeratorAt

LEMMA EnumeratorsStayAt ==
  ASSUME PoolInv, EnumeratorsAt, UNCHANGED <<list, enumerator, returned>>,
         \A e \in Enumerators : refCount'[e] > 0 => refCount[e] > 0
  PROVE  EnumeratorsAt'
<1>1. \A e \in Enumerators : EnumeratorAt(e)' <=> EnumeratorAt(e)
  BY DEF EnumeratorAt
<1> QED
  BY <1>1 DEF EnumeratorsAt, Walking

LEMMA AddObjectAt ==
  ASSUME PoolInv, EnumeratorsAt, NEW a \in Arrays, NEW o \in Strings, AddObject(a, o)
  PROVE  EnumeratorsAt'
<1>1. /\ list[a] \in Seq(Strings \cup {Nil}) /\ list \in Lists
      /\ o \in Strings \cup {Nil}
  BY ListIs
<1>2. /\ Len(Append(list[a], o)) = Len(list[a]) + 1 /\ Len(list[a]) \in Nat
      /\ \A i \in 1..Len(list[a]) : Append(list[a], o)[i] = list[a][i]
  BY <1>1, AppendProperties
<1>3. \A c \in Arrays : list'[c] = IF c = a THEN Append(list[a], o) ELSE list[c]
  BY <1>1 DEF AddObject, Lists
<1>4. UNCHANGED <<enumerator, returned>>
  BY DEF AddObject
<1>5. ASSUME NEW e \in Enumerators, Walking(e)'
      PROVE  EnumeratorAt(e)'
  <2>1. Walking(e)
    <3>1. e # o /\ e \in Objects /\ o \in Objects
      BY Kinds
    <3> QED
      BY <1>4, <1>5, <3>1 DEF AddObject, PoolInv, PoolTypeOK, Walking
  <2>2. enumerator[e].nodes \in Arrays /\ Len(list[enumerator[e].nodes]) \in Nat
    BY <2>1, EnumeratorIs, ListIs
  <2>3. /\ Len(list'[enumerator[e].nodes]) \in Nat
        /\ Len(list[enumerator[e].nodes]) <= Len(list'[enumerator[e].nodes])
        /\ \A i \in 1..Len(list[enumerator[e].nodes]) :
             list'[enumerator[e].nodes][i] = list[enumerator[e].nodes][i]
    <3>1. CASE enumerator[e].nodes = a
      <4>1. list'[enumerator[e].nodes] = Append(list[a], o)
        BY <1>3, <3>1
      <4> QED
        BY <1>2, <3>1, <4>1
    <3>2. CASE enumerator[e].nodes # a
      <4>1. list'[enumerator[e].nodes] = list[enumerator[e].nodes]
        BY <1>3, <2>2, <3>2
      <4> QED
        BY <2>2, <4>1
    <3> QED
      BY <3>1, <3>2
  <2> QED
    BY <1>4, <2>1, <2>3, EnumeratorStays DEF EnumeratorsAt
<1> QED
  BY <1>4, <1>5 DEF EnumeratorsAt

LEMMA RemoveObjectAt ==
  ASSUME PoolInv, EnumeratorsAt, NEW a \in Arrays, RemoveObject(a)
  PROVE  EnumeratorsAt'
<1>1. \A c \in Arrays : c # a => list'[c] = list[c]
  BY DEF RemoveObject, PoolInv, PoolTypeOK
<1>2. UNCHANGED <<refCount, enumerator, returned>>
  BY DEF RemoveObject
<1>3. ASSUME NEW e \in Enumerators, Walking(e)'
      PROVE  EnumeratorAt(e)'
  <2>1. Walking(e) /\ enumerator[e].nodes \in Arrays /\ enumerator[e].nodes # a
    BY <1>2, <1>3, EnumeratorIs DEF RemoveObject, Enumerated, Walking
  <2>2. list'[enumerator[e].nodes] = list[enumerator[e].nodes]
    BY <1>1, <2>1
  <2> QED
    BY <1>2, <2>1, <2>2 DEF EnumeratorsAt, EnumeratorAt
<1> QED
  BY <1>2, <1>3 DEF EnumeratorsAt

LEMMA SendReleaseAt ==
  ASSUME PoolInv, EnumeratorsAt, SendRelease
  PROVE  EnumeratorsAt'
<1> DEFINE o == Last(releases)
           last == refCount[o] = 1
<1>1. releases \in Seq(Objects) /\ releases # <<>>
  BY DEF SendRelease, PoolInv, PoolTypeOK
<1>2. o \in Objects /\ Len(releases) \in Nat \ {0} /\ o = releases[Len(releases)]
  BY <1>1, FrontLast
<1>3. /\ refCount' = [refCount EXCEPT ![o] = refCount[o] - 1]
      /\ list' = [a \in Arrays |-> IF last /\ a = o THEN <<Nil>> ELSE list[a]]
      /\ enumerator' = [e \in Enumerators |->
                          IF last THEN AfterDealloc(e, o) ELSE enumerator[e]]
      /\ returned' = [e \in Enumerators |-> IF last /\ e = o THEN <<>> ELSE returned[e]]
  BY DEF SendRelease
<1> HIDE DEF o
<1>5. ASSUME NEW e \in Enumerators, Walking(e)'
      PROVE  EnumeratorAt(e)'
  <2>1. refCount[e] > 0 /\ ~(last /\ e = o)
    <3>1. refCount[e] \in Nat /\ e \in Objects
      BY Kinds DEF PoolInv, PoolTypeOK
    <3> QED
      BY <1>2, <1>3, <1>5, <3>1, SMTT(60) DEF PoolInv, PoolTypeOK, Walking
  <2>2. returned'[e] = returned[e]
    BY <1>3, <2>1
  <2>3. enumerator[e] \in EnumeratorStates /\ o # Nil
    BY <1>2, Kinds DEF PoolInv, PoolTypeOK
  <2>4. enumerator'[e] = enumerator[e] /\ ~(last /\ enumerator[e].nodes = o)
    BY <1>3, <1>5, <2>1, <2>3 DEF AfterDealloc, Walking, EnumeratorStates
  <2>5. Walking(e) /\ enumerator[e].nodes \in Arrays
    BY <1>5, <2>1, <2>4, EnumeratorIs DEF Walking
  <2>6. list'[enumerator[e].nodes] = list[enumerator[e].nodes]
    BY <1>3, <2>4, <2>5
  <2> QED
    BY <2>2, <2>4, <2>5, <2>6 DEF EnumeratorsAt, EnumeratorAt
<1>6. returned' \in [Enumerators -> Seq(Strings \cup {Nil})]
  <2>1. <<>> \in Seq(Strings \cup {Nil})
    OBVIOUS
  <2> QED
    BY <1>3, <2>1 DEF EnumeratorsAt
<1> QED
  BY <1>5, <1>6 DEF EnumeratorsAt

LEMMA EnumerateAt ==
  ASSUME PoolInv, EnumeratorsAt, NEW a \in Arrays, NEW e \in Enumerators,
         NEW reverse \in BOOLEAN, Enumerate(a, e, reverse)
  PROVE  EnumeratorsAt'
<1> DEFINE it == [array |-> IF reverse THEN Nil ELSE a, nodes |-> a, reverse |-> reverse,
                  stack |-> FirstNode(a, reverse), count |-> Len(list[a]) - 1]
<1>1. /\ refCount[e] = 0 /\ returned[e] = <<>>
      /\ \A d \in Enumerators : enumerator'[d] = IF d = e THEN it ELSE enumerator[d]
      /\ UNCHANGED <<list, returned>>
  BY Kinds DEF Enumerate, PoolInv, PoolTypeOK, HoldersOK
<1>2. Len(list[a]) \in Nat \ {0}
  BY ListIs
<1>3. EnumeratorAt(e)'
  <2>1. /\ enumerator'[e].nodes = a /\ enumerator'[e].reverse = reverse
        /\ enumerator'[e].stack = FirstNode(a, reverse)
        /\ enumerator'[e].count = Len(list[a]) - 1
        /\ list'[a] = list[a] /\ returned'[e] = <<>> /\ Len(<<>>) = 0
    BY <1>1
  <2>2. /\ ~reverse => FirstNode(a, reverse) = Len(list[a])
        /\ reverse /\ Len(list[a]) > 1 => FirstNode(a, reverse) = 2
        /\ reverse /\ ~(Len(list[a]) > 1) => FirstNode(a, reverse) = 0
    BY DEF FirstNode
  <2> QED
    BY <1>2, <2>1, <2>2 DEF EnumeratorAt
<1>4. ASSUME NEW d \in Enumerators, d # e, Walking(d)'
      PROVE  EnumeratorAt(d)'
  <2>2. enumerator'[d] = enumerator[d]
    BY <1>1, <1>4
  <2>1. Walking(d)
    <3>1. d \in Objects /\ a \in Objects /\ e \in Objects /\ d # a
      BY Kinds
    <3>2. refCount'[d] = refCount[d]
      BY <1>4, <3>1 DEF Enumerate, PoolInv, PoolTypeOK
    <3> QED
      BY <1>4, <2>2, <3>2 DEF Walking
  <2> QED
    BY <1>1, <2>1, <2>2 DEF EnumeratorsAt, EnumeratorAt
<1> QED
  BY <1>1, <1>3, <1>4 DEF EnumeratorsAt

LEMMA EnumeratorNextAt ==
  ASSUME PoolInv, EnumeratorsAt, NEW e \in Enumerators, EnumeratorNext(e)
  PROVE  EnumeratorsAt'
<1> DEFINE it == enumerator[e]
           nodes == list[it.nodes]
           last == Len(nodes)
           n == Len(returned[e])
           object == nodes[it.stack]
<1>1. Walking(e)
  BY UsableIsThere, Kinds DEF EnumeratorNext, Walking
<1>2. /\ it.nodes \in Arrays /\ it.reverse \in BOOLEAN /\ it.count \in Nat
      /\ it.stack \in Nat \ {0}
      /\ returned[e] \in Seq(Strings \cup {Nil}) /\ n \in Nat
  BY <1>1, EnumeratorIs DEF EnumeratorsAt, EnumeratorNext
<1>3. nodes \in Seq(Strings \cup {Nil}) /\ last \in Nat \ {0}
  BY <1>2, ListIs
<1>4. /\ it.count < last
      /\ ~it.reverse => n <= it.count + 1 /\ it.stack = it.count + 1 - n
      /\ it.reverse => /\ n < last
                       /\ \/ it.stack = n + 2 /\ n + 2 <= last
                          \/ it.stack = 0 /\ n >= it.count
      /\ \A i \in 1..n :
           returned[e][i] = nodes[IF it.reverse THEN i + 1 ELSE it.count + 2 - i]
  BY <1>1 DEF EnumeratorsAt, EnumeratorAt
<1>5. it.stack \in 1..last
  BY <1>2, <1>3, <1>4
<1>6. object \in Strings \cup {Nil}
  BY <1>3, <1>5, ElementOfSeq
<1>7. /\ \A d \in Enumerators :
           returned'[d] = IF d = e THEN Append(returned[e], object) ELSE returned[d]
      /\ UNCHANGED <<refCount, list>>
  BY DEF EnumeratorNext, EnumeratorsAt
<1>8. /\ Len(Append(returned[e], object)) = n + 1
      /\ Append(returned[e], object) \in Seq(Strings \cup {Nil})
      /\ \A i \in 1..n + 1 :
           Append(returned[e], object)[i] = IF i = n + 1 THEN object ELSE returned[e][i]
  BY <1>2, <1>6, AppendProperties
<1>9. returned' \in [Enumerators -> Seq(Strings \cup {Nil})]
  BY <1>6, <1>8 DEF EnumeratorNext, EnumeratorsAt
<1>10. /\ enumerator'[e].nodes = it.nodes /\ enumerator'[e].reverse = it.reverse
       /\ enumerator'[e].count = it.count
       /\ enumerator'[e].stack = NextNode(e)
       /\ \A d \in Enumerators : d # e => enumerator'[d] = enumerator[d]
  BY DEF EnumeratorNext, PoolInv, PoolTypeOK, EnumeratorStates
<1>11. NextNode(e) = IF ~it.reverse THEN it.stack - 1
                     ELSE IF it.stack < last THEN it.stack + 1 ELSE 0
  BY DEF NextNode
<1>12. EnumeratorAt(e)'
  <2> DEFINE at == NextNode(e)
  <2> HIDE DEF at, it, nodes, last, n
  <2>1. \A i \in 1..n + 1 :
          returned'[e][i] = nodes[IF it.reverse THEN i + 1 ELSE it.count + 2 - i]
    <3> SUFFICES ASSUME NEW i \in 1..n + 1
                 PROVE  returned'[e][i] = nodes[IF it.reverse THEN i + 1 ELSE it.count + 2 - i]
      OBVIOUS
    <3>1. CASE i = n + 1
      <4>1. returned'[e][i] = nodes[it.stack]
        BY <1>7, <1>8, <3>1 DEF object
      <4>2. it.stack = IF it.reverse THEN i + 1 ELSE it.count + 2 - i
        BY <1>2, <1>3, <1>4, <3>1
      <4> QED
        BY <4>1, <4>2
    <3>2. CASE i # n + 1
      <4>1. i \in 1..n
        BY <1>2, <3>2
      <4>2. returned'[e][i] = returned[e][i]
        BY <1>7, <1>8, <3>2
      <4> QED
        BY <1>4, <4>1, <4>2
    <3> QED
      BY <3>1, <3>2
  <2>2. ~it.reverse => n + 1 <= it.count + 1 /\ at = it.count + 1 - (n + 1)
    BY <1>2, <1>3, <1>4, <1>11, SMTT(60) DEF at
  <2>3. it.reverse => /\ n + 1 < last
                      /\ \/ at = (n + 1) + 2 /\ (n + 1) + 2 <= last
                         \/ at = 0 /\ n + 1 >= it.count
    BY <1>2, <1>3, <1>4, <1>11 DEF at
  <2>4. /\ Len(returned'[e]) = n + 1
        /\ list'[enumerator'[e].nodes] = nodes /\ Len(list'[enumerator'[e].nodes]) = last
    BY <1>7, <1>8, <1>10 DEF nodes, last
  <2> QED
    BY <1>4, <1>10, <2>1, <2>2, <2>3, <2>4 DEF EnumeratorAt, at
<1>13. ASSUME NEW d \in Enumerators, d # e, Walking(d)'
       PROVE  EnumeratorAt(d)'
  <2>1. /\ Walking(d) /\ enumerator'[d] = enumerator[d] /\ returned'[d] = returned[d]
        /\ list' = list
    BY <1>7, <1>10, <1>13 DEF Walking
  <2> QED
    BY <2>1, SMTT(60) DEF EnumeratorsAt, EnumeratorAt
<1> QED
  BY <1>9, <1>12, <1>13 DEF EnumeratorsAt

LEMMA PoolNextAt ==
  ASSUME PoolInv, EnumeratorsAt, PoolNext
  PROVE  EnumeratorsAt'
<1>0. \A e \in Enumerators : e \in Objects /\ e \notin Strings /\ e \notin Arrays
  BY Kinds
<1>1. \A o \in Objects : refCount[o] \in Nat /\ refCount \in [Objects -> Nat]
  BY DEF PoolInv, PoolTypeOK
<1>2. ASSUME NEW o \in Objects, Allocate(o) \/ Retain(o) \/ GiveUp(o) \/ Autorelease(o)
      PROVE  EnumeratorsAt'
  <2>1. UNCHANGED <<list, enumerator, returned>>
    BY <1>2 DEF Allocate, Retain, GiveUp, Autorelease
  <2>2. ASSUME NEW e \in Enumerators, refCount'[e] > 0
        PROVE  refCount[e] > 0
    <3>1. CASE Retain(o)
      <4>1. refCount[o] > 0
        BY <3>1, UsableIsThere DEF Retain
      <4> QED
        BY <1>0, <1>1, <2>2, <3>1, <4>1 DEF Retain
    <3>2. CASE Allocate(o) \/ GiveUp(o) \/ Autorelease(o)
      BY <1>0, <1>1, <2>2, <3>2 DEF Allocate, GiveUp, Autorelease
    <3> QED
      BY <1>2, <3>1, <3>2
  <2> QED
    BY <2>1, <2>2, EnumeratorsStayAt
<1>3. ASSUME NewPool \/ ReleasePool \/ FreeBucket \/ FlushEntry
      PROVE  EnumeratorsAt'
  <2>1. UNCHANGED <<list, enumerator, returned, refCount>>
    BY <1>3 DEF NewPool, ReleasePool, FreeBucket, FlushEntry
  <2> QED
    BY <2>1, EnumeratorsStayAt
<1>4. ASSUME SendRelease PROVE EnumeratorsAt'
  BY <1>4, SendReleaseAt
<1>5. ASSUME NEW a \in Arrays, NEW o \in Strings, AddObject(a, o) PROVE EnumeratorsAt'
  BY <1>5, AddObjectAt
<1>6. ASSUME NEW a \in Arrays, RemoveObject(a) PROVE EnumeratorsAt'
  BY <1>6, RemoveObjectAt
<1>7. ASSUME NEW a \in Arrays, NEW e \in Enumerators, NEW reverse \in BOOLEAN,
             Enumerate(a, e, reverse)
      PROVE  EnumeratorsAt'
  BY <1>7, EnumerateAt
<1>8. ASSUME NEW e \in Enumerators, EnumeratorNext(e) PROVE EnumeratorsAt'
  BY <1>8, EnumeratorNextAt
<1> QED
  BY <1>2, <1>3, <1>4, <1>5, <1>6, <1>7, <1>8 DEF PoolNext

LEMMA EnumeratorsAtHolds == ContainerSpec => []EnumeratorsAt
<1>1. ContainerInit => EnumeratorsAt
  <2> SUFFICES ASSUME ContainerInit PROVE EnumeratorsAt
    OBVIOUS
  <2>1. /\ returned = [e \in Enumerators |-> <<>>]
        /\ \A e \in Enumerators : refCount[e] = 0
    BY Kinds DEF ContainerInit, PoolInit
  <2> QED
    BY <2>1 DEF EnumeratorsAt, Walking
<1>2. PoolInv /\ EnumeratorsAt /\ [ContainerNext]_containerVars => EnumeratorsAt'
  <2> SUFFICES ASSUME PoolInv, EnumeratorsAt, [ContainerNext]_containerVars
               PROVE  EnumeratorsAt'
    OBVIOUS
  <2>1. PoolNext \/ UNCHANGED poolVars
    BY DEF ContainerNext, containerVars
  <2>2. UNCHANGED poolVars => UNCHANGED <<list, enumerator, returned, refCount>>
    BY DEF poolVars
  <2> QED
    BY <2>1, <2>2, PoolNextAt, EnumeratorsStayAt
<1> QED
  BY <1>1, <1>2, PoolInvHolds, PTL DEF ContainerSpec

(***************************************************************************)
(* Whatever is added to, or removed from, arrays nobody enumerates, and    *)
(* whoever lets go of an array meanwhile: a forward enumerator keeps its   *)
(* array and returns the objects in order, each once, and nil only after   *)
(* the last.  A reverse one does as long as its array is there.            *)
(***************************************************************************)
THEOREM EnumeratorsAreExact == ContainerSpec => []EnumeratorsExact
<1>1. PoolInv /\ EnumeratorsAt => EnumeratorsExact
  <2> SUFFICES ASSUME PoolInv, EnumeratorsAt, NEW e \in Enumerators, Walking(e)
               PROVE  LET it == enumerator[e]
                          nodes == list[it.nodes]
                          objects == returned[e]
                      IN  /\ Len(objects) <= IF it.reverse THEN Len(nodes) - 1 ELSE it.count + 1
                          /\ \A i \in DOMAIN objects :
                               objects[i] = nodes[IF it.reverse THEN i + 1 ELSE it.count + 2 - i]
                          /\ it.stack = 0 => Len(objects) >= it.count
                          /\ Nil \in Range(objects) => it.stack = 0
    BY ForwardHasArray, Kinds DEF EnumeratorsExact, Walking
  <2> DEFINE it == enumerator[e]
             nodes == list[it.nodes]
             last == Len(nodes)
             n == Len(returned[e])
  <2>1. /\ it.nodes \in Arrays /\ it.reverse \in BOOLEAN /\ it.count \in Nat /\ it.stack \in Nat
        /\ returned[e] \in Seq(Strings \cup {Nil})
    BY EnumeratorIs DEF EnumeratorsAt
  <2>2. /\ last \in Nat \ {0} /\ n \in Nat /\ DOMAIN returned[e] = 1..n
        /\ \A i \in 1..last : nodes[i] = Nil <=> i = 1
    BY <2>1, ListIs
  <2>3. /\ it.count < last
        /\ ~it.reverse => n <= it.count + 1 /\ it.stack = it.count + 1 - n
        /\ it.reverse => /\ n < last
                         /\ \/ it.stack = n + 2 /\ n + 2 <= last
                            \/ it.stack = 0 /\ n >= it.count
        /\ \A i \in 1..n :
             returned[e][i] = nodes[IF it.reverse THEN i + 1 ELSE it.count + 2 - i]
    BY DEF EnumeratorsAt, EnumeratorAt
  <2> HIDE DEF it, nodes, last, n
  <2>4. n <= IF it.reverse THEN last - 1 ELSE it.count + 1
    BY <2>1, <2>2, <2>3
  <2>5. it.stack = 0 => n >= it.count
    BY <2>1, <2>2, <2>3
  <2>6. ASSUME Nil \in Range(returned[e])
        PROVE  it.stack = 0
    <3>1. PICK i \in 1..n : returned[e][i] = Nil
      BY <2>2, <2>6 DEF Range
    <3>2. /\ (IF it.reverse THEN i + 1 ELSE it.count + 2 - i) \in 1..last
          /\ nodes[IF it.reverse THEN i + 1 ELSE it.count + 2 - i] = Nil
      <4>1. nodes[IF it.reverse THEN i + 1 ELSE it.count + 2 - i] = Nil
        BY <2>3, <3>1
      <4>2. i \in Nat /\ 1 <= i /\ i <= n
        BY <2>2, <3>1
      <4>3. CASE it.reverse
        <5>1. n < last
          BY <2>3, <4>3
        <5>2. i + 1 \in 1..last
          BY <2>2, <4>2, <5>1
        <5> QED
          BY <4>1, <4>3, <5>2
      <4>4. CASE ~it.reverse
        <5>1. n <= it.count + 1 /\ it.count < last
          BY <2>3, <4>4
        <5>2. it.count + 2 - i \in 1..last
          BY <2>1, <2>2, <4>2, <5>1
        <5> QED
          BY <4>1, <4>4, <5>2
      <4> QED
        BY <4>3, <4>4
    <3>3. (IF it.reverse THEN i + 1 ELSE it.count + 2 - i) = 1
      BY <2>2, <3>2
    <3>4. i \in Nat \ {0} /\ i <= n
      BY <2>2, <3>1
    <3>5. CASE it.reverse
      <4>1. i + 1 = 1
        BY <3>3, <3>5
      <4> QED
        BY <3>4, <4>1
    <3>6. CASE ~it.reverse
      <4>1. it.count + 2 - i = 1
        BY <3>3, <3>6
      <4>2. n <= it.count + 1 /\ it.stack = it.count + 1 - n
        BY <2>3, <3>6
      <4> QED
        BY <2>1, <2>2, <3>4, <4>1, <4>2
    <3> QED
      BY <3>5, <3>6
  <2> QED
    BY <2>2, <2>3, <2>4, <2>5, <2>6 DEF it, nodes, last, n
<1> QED
  BY <1>1, PoolInvHolds, EnumeratorsAtHolds, PTL
=============================================================================
