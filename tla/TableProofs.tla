----------------------------- MODULE TableProofs -----------------------------
(***************************************************************************)
(* Proofs about the two tables of tools/lemon.c that grow while they are   *)
(* filled: the associative arrays of AssocTable, for every hash function,  *)
(* set of keys and first size, and the overlaid actions of ActionTable,    *)
(* for every set of actions.                                               *)
(***************************************************************************)
EXTENDS ActionTable, AssocTable, FiniteSetTheorems, TLAPS

-----------------------------------------------------------------------------
(* Associative arrays *)

(***************************************************************************)
(* A table as x3 and its copies keep it: the numbers of the data in the    *)
(* chains their keys hash to, and no key twice.                            *)
(***************************************************************************)
Filed(t, h) == {i \in DOMAIN t.tbl : Hash(t.tbl[i]) % t.size = h}

AssocOK(t, Keys) ==
  /\ t.size \in Nat \ {0}
  /\ t.tbl \in Seq(Keys)
  /\ t.ht = [h \in 0..t.size - 1 |-> Filed(t, h)]
  /\ \A i, j \in DOMAIN t.tbl : t.tbl[i] = t.tbl[j] => i = j

LEMMA SlotInRange ==
  ASSUME NEW hash \in Int, NEW size \in Nat \ {0}
  PROVE  hash % size \in 0..size - 1
  OBVIOUS

(***************************************************************************)
(* Symbol_new, State_find and Strsafe begin with an empty table.           *)
(***************************************************************************)
LEMMA NewTableOK ==
  ASSUME NEW Keys, NEW size \in Nat \ {0}
  PROVE  AssocOK(NewTable(size), Keys)
<1>1. <<>> \in Seq(Keys) /\ DOMAIN <<>> = {}
  OBVIOUS
<1> QED
  BY <1>1 DEF AssocOK, NewTable, Filed

(***************************************************************************)
(* A lookup finds what was put in under that key, and nothing else.        *)
(***************************************************************************)
THEOREM LookupFindsKey ==
  ASSUME NEW Keys, \A k \in Keys : Hash(k) \in Int,
         NEW t, AssocOK(t, Keys), NEW key \in Keys
  PROVE  Chain(t, key) = {i \in DOMAIN t.tbl : t.tbl[i] = key}
<1>1. Slot(t, key) \in 0..t.size - 1
  BY SlotInRange DEF Slot, AssocOK
<1>2. t.ht[Slot(t, key)] = Filed(t, Slot(t, key))
  BY <1>1 DEF AssocOK
<1> QED
  BY <1>2 DEF Chain, Filed, Slot

LEMMA DoubledOK ==
  ASSUME NEW Keys, NEW t, AssocOK(t, Keys)
  PROVE  /\ AssocOK(Doubled(t), Keys)
         /\ Doubled(t).tbl = t.tbl
<1> DEFINE d == Doubled(t)
<1>1. /\ d.size = 2 * t.size
      /\ d.tbl = t.tbl
      /\ d.ht = [h \in 0..2 * t.size - 1 |->
                   {i \in DOMAIN t.tbl : Hash(t.tbl[i]) % (2 * t.size) = h}]
  BY DEF Doubled
<1> HIDE DEF d
<1>2. d.size \in Nat \ {0}
  BY <1>1 DEF AssocOK
<1>3. d.ht = [h \in 0..d.size - 1 |-> Filed(d, h)]
  BY <1>1 DEF Filed
<1> QED
  BY <1>1, <1>2, <1>3 DEF AssocOK, d

LEMMA AppendedOK ==
  ASSUME NEW Keys, \A k \in Keys : Hash(k) \in Int,
         NEW t, AssocOK(t, Keys), NEW key \in Keys,
         \A i \in DOMAIN t.tbl : t.tbl[i] # key
  PROVE  AssocOK(Appended(t, key), Keys)
<1> DEFINE a == Appended(t, key)
           n == Len(t.tbl) + 1
<1>1. /\ a.size = t.size
      /\ a.tbl = Append(t.tbl, key)
      /\ a.ht = [t.ht EXCEPT ![Slot(t, key)] = @ \cup {n}]
  BY DEF Appended
<1>2. t.tbl \in Seq(Keys) /\ t.size \in Nat \ {0}
  BY DEF AssocOK
<1>3. /\ n \in Nat
      /\ DOMAIN t.tbl = 1..n - 1
      /\ n \notin DOMAIN t.tbl
  BY <1>2
<1> HIDE DEF a, n
<1>4. /\ a.tbl \in Seq(Keys)
      /\ DOMAIN a.tbl = DOMAIN t.tbl \cup {n}
      /\ a.tbl[n] = key
      /\ \A i \in DOMAIN t.tbl : a.tbl[i] = t.tbl[i]
  BY <1>1, <1>2 DEF n
<1>5. \A h : Filed(a, h) = Filed(t, h) \cup {i \in {n} : Slot(t, key) = h}
  BY <1>1, <1>3, <1>4 DEF Filed, Slot
<1>6. a.ht = [h \in 0..a.size - 1 |-> Filed(a, h)]
  <2>1. t.ht = [h \in 0..t.size - 1 |-> Filed(t, h)]
    BY DEF AssocOK
  <2>2. Slot(t, key) \in 0..t.size - 1
    BY <1>2, SlotInRange DEF Slot
  <2>3. a.ht = [h \in 0..t.size - 1 |->
                  IF h = Slot(t, key) THEN Filed(t, h) \cup {n} ELSE Filed(t, h)]
    <3>1. ASSUME NEW h \in 0..t.size - 1
          PROVE  t.ht[h] = Filed(t, h)
      BY <2>1
    <3>2. DOMAIN t.ht = 0..t.size - 1
      BY <2>1
    <3> QED
      BY <1>1, <2>2, <3>1, <3>2
  <2>4. ASSUME NEW h \in 0..t.size - 1
        PROVE  (IF h = Slot(t, key) THEN Filed(t, h) \cup {n} ELSE Filed(t, h))
                  = Filed(a, h)
    BY <1>5
  <2> QED
    BY <1>1, <2>3, <2>4
<1>7. \A i, j \in DOMAIN a.tbl : a.tbl[i] = a.tbl[j] => i = j
  BY <1>3, <1>4 DEF AssocOK
<1> QED
  BY <1>1, <1>2, <1>4, <1>6, <1>7 DEF AssocOK, a

(***************************************************************************)
(* An insertion, through a growth or not, leaves such a table, with the    *)
(* key in it, once, and every other where it was.                          *)
(***************************************************************************)
THEOREM InsertionKeepsKeys ==
  ASSUME NEW Keys, \A k \in Keys : Hash(k) \in Int,
         NEW t, AssocOK(t, Keys), NEW key \in Keys
  PROVE  /\ AssocOK(Inserted(t, key), Keys)
         /\ \A i \in DOMAIN t.tbl : i \in DOMAIN Inserted(t, key).tbl
                                    /\ Inserted(t, key).tbl[i] = t.tbl[i]
         /\ \E i \in DOMAIN Inserted(t, key).tbl :
              Chain(Inserted(t, key), key) = {i}
<1> DEFINE r == Inserted(t, key)
<1>1. Found(t, key) <=> \E i \in DOMAIN t.tbl : t.tbl[i] = key
  BY LookupFindsKey DEF Found
<1>2. /\ AssocOK(r, Keys)
      /\ \A i \in DOMAIN t.tbl : i \in DOMAIN r.tbl /\ r.tbl[i] = t.tbl[i]
      /\ \E i \in DOMAIN r.tbl : r.tbl[i] = key
  <2>1. CASE Found(t, key)
    BY <1>1, <2>1 DEF Inserted
  <2>2. CASE ~Found(t, key)
    <3> DEFINE g == IF Len(t.tbl) >= t.size THEN Doubled(t) ELSE t
    <3>1. AssocOK(g, Keys) /\ g.tbl = t.tbl
      BY DoubledOK
    <3>2. r = Appended(g, key)
      BY <2>2 DEF Inserted
    <3> HIDE DEF g, r
    <3>3. AssocOK(r, Keys)
      BY <1>1, <2>2, <3>1, <3>2, AppendedOK
    <3>4. r.tbl = Append(g.tbl, key)
      BY <3>1, <3>2 DEF AssocOK, Appended
    <3>5. t.tbl \in Seq(Keys)
      BY DEF AssocOK
    <3> QED
      BY <3>1, <3>3, <3>4, <3>5
  <2> QED
    BY <2>1, <2>2
<1> HIDE DEF r
<1>3. Chain(r, key) = {i \in DOMAIN r.tbl : r.tbl[i] = key}
  BY <1>2, LookupFindsKey
<1>4. \E i \in DOMAIN r.tbl : Chain(r, key) = {i}
  <2>1. PICK i \in DOMAIN r.tbl : r.tbl[i] = key
    BY <1>2
  <2>2. \A j \in DOMAIN r.tbl : r.tbl[j] = key => j = i
    BY <1>2, <2>1 DEF AssocOK
  <2> QED
    BY <1>3, <2>1, <2>2
<1> QED
  BY <1>2, <1>4 DEF r

-----------------------------------------------------------------------------
(* Least and greatest elements *)

(***************************************************************************)
(* A non-empty set of natural numbers has a least element.                 *)
(***************************************************************************)
LEMMA LeastNatural ==
  ASSUME NEW T, T \subseteq Nat, T # {}
  PROVE  \E x \in T : \A y \in T : x <= y
<1> DEFINE R == OpToRel(<, Nat)
<1>1. IsWellFoundedOn(R, Nat)
  BY NatLessThanWellFounded
<1>2. PICK x \in T : \A y \in T : ~ (<<y, x>> \in R)
  <2> HIDE DEF R
  <2> QED
    BY <1>1, WFMin
<1>3. \A y \in T : <<y, x>> \in R <=> y < x
  BY DEF OpToRel
<1>4. \A y \in T : ~ (y < x)
  <2> HIDE DEF R
  <2> QED
    BY <1>2, <1>3
<1> HIDE DEF R
<1>5. \A y \in T : x \in Nat /\ y \in Nat
  OBVIOUS
<1> QED
  BY <1>4, <1>5

LEMMA LeastIs ==
  ASSUME NEW T, T \subseteq Nat, T # {}
  PROVE  Least(T) \in T /\ \A y \in T : Least(T) <= y
  BY LeastNatural DEF Least

(***************************************************************************)
(* A non-empty set of integers with a bound has a greatest element, as the *)
(* distances from the bound have a least.                                  *)
(***************************************************************************)
LEMMA GreatestIs ==
  ASSUME NEW T, T \subseteq Int, T # {}, NEW b \in Int, \A x \in T : x <= b
  PROVE  Greatest(T) \in T /\ \A y \in T : Greatest(T) >= y
<1> DEFINE D == {b - x : x \in T}
<1>1. D \subseteq Nat /\ D # {}
  <2>1. \A x \in T : b - x \in Nat
    OBVIOUS
  <2> QED
    BY <2>1
<1>2. PICK d \in D : \A e \in D : d <= e
  BY <1>1, LeastNatural
<1>3. PICK x \in T : d = b - x
  OBVIOUS
<1>4. ASSUME NEW y \in T
      PROVE  x >= y
  <2>1. b - y \in D
    OBVIOUS
  <2>2. b - x <= b - y /\ x \in Int /\ y \in Int
    BY <1>2, <1>3, <2>1
  <2> HIDE DEF D
  <2> QED
    BY <2>2
<1> HIDE DEF D
<1> QED
  BY <1>4 DEF Greatest

-----------------------------------------------------------------------------
(* The action table *)

(***************************************************************************)
(* A set of actions, as acttab_action collects it.                         *)
(***************************************************************************)
Transaction(set) ==
  /\ DOMAIN set \subseteq Nat
  /\ DOMAIN set # {}
  /\ \E b \in Nat : \A la \in DOMAIN set : la <= b
  /\ \A la \in DOMAIN set : set[la] \in Nat

(***************************************************************************)
(* A table between two insertions: what has not been used is free, and the *)
(* last slot in use is not.                                                *)
(***************************************************************************)
TableOK(t) ==
  /\ t.nAction \in Nat /\ t.nActionAlloc \in Nat
  /\ t.nAction <= t.nActionAlloc
  /\ DOMAIN t.slot = 0..t.nActionAlloc - 1
  /\ \A k \in DOMAIN t.slot : t.slot[k].lookahead \in Nat \cup {-1}
  /\ \A k \in DOMAIN t.slot : k >= t.nAction => t.slot[k] = Free
  /\ t.nAction > 0 => t.slot[t.nAction - 1].lookahead >= 0

(***************************************************************************)
(* The actions of a set are found at an offset; nothing else is.           *)
(***************************************************************************)
Holds(t, set, offset) ==
  \A la \in DOMAIN set : LookUp(t, offset, la) = set[la]

NothingElse(t, set, offset) ==
  \A la \in Nat \ DOMAIN set : LookUp(t, offset, la) = NoEntry

LEMMA EmptyTableOK == TableOK(EmptyTable)
  BY DEF TableOK, EmptyTable

LEMMA LookaheadRange ==
  ASSUME NEW set, Transaction(set)
  PROVE  /\ MnLookahead(set) \in DOMAIN set
         /\ MxLookahead(set) \in DOMAIN set
         /\ MnLookahead(set) \in Nat
         /\ MxLookahead(set) \in Nat
         /\ \A la \in DOMAIN set : /\ la \in Nat
                                   /\ MnLookahead(set) <= la
                                   /\ la <= MxLookahead(set)
<1>1. MnLookahead(set) \in DOMAIN set /\ \A la \in DOMAIN set : MnLookahead(set) <= la
  BY LeastIs DEF Transaction, MnLookahead
<1>2. MxLookahead(set) \in DOMAIN set /\ \A la \in DOMAIN set : MxLookahead(set) >= la
  <2>1. PICK b \in Nat : \A la \in DOMAIN set : la <= b
    BY DEF Transaction
  <2> QED
    BY <2>1, GreatestIs DEF Transaction, MxLookahead
<1>3. DOMAIN set \subseteq Nat
  BY DEF Transaction
<1> QED
  BY <1>1, <1>2, <1>3

(***************************************************************************)
(* A growth makes room for the set and changes no lookup.                  *)
(***************************************************************************)
LEMMA GrownOK ==
  ASSUME NEW t, TableOK(t), NEW set, Transaction(set)
  PROVE  /\ TableOK(Grown(t, set))
         /\ Grown(t, set).nAction = t.nAction
         /\ t.nAction + MxLookahead(set) + 1 <= Grown(t, set).nActionAlloc
         /\ \A k \in 0..t.nAction - 1 : Grown(t, set).slot[k] = t.slot[k]
<1> DEFINE n == MxLookahead(set) + 1
           alloc == t.nAction + n + t.nActionAlloc + Slack
           g == Grown(t, set)
<1>1. n \in Nat /\ t.nAction \in Nat /\ t.nActionAlloc \in Nat /\ Slack \in Nat
      /\ t.nAction <= t.nActionAlloc
  BY LookaheadRange, SlackAssumption DEF TableOK
<1>2. CASE t.nAction + n < t.nActionAlloc
  <2>1. g = t
    BY <1>2 DEF Grown
  <2> QED
    <3>1. t.nAction + MxLookahead(set) + 1 <= g.nActionAlloc
      BY <1>1, <1>2, <2>1, LookaheadRange
    <3> QED
      BY <2>1, <3>1
<1>3. CASE ~(t.nAction + n < t.nActionAlloc)
  <2>1. /\ g.nAction = t.nAction
        /\ g.nActionAlloc = alloc
        /\ g.slot = [k \in 0..alloc - 1 |->
                       IF k < t.nActionAlloc THEN t.slot[k] ELSE Free]
    BY <1>3 DEF Grown
  <2>2. alloc \in Nat /\ t.nActionAlloc <= alloc /\ t.nAction + n <= alloc
    BY <1>1
  <2> HIDE DEF g, alloc, n
  <2>3. /\ DOMAIN g.slot = 0..alloc - 1
        /\ \A k \in 0..t.nActionAlloc - 1 : g.slot[k] = t.slot[k]
        /\ \A k \in 0..alloc - 1 : k >= t.nActionAlloc => g.slot[k] = Free
    BY <1>1, <2>1, <2>2
  <2>4. \A k \in 0..t.nAction - 1 : g.slot[k] = t.slot[k]
    BY <1>1, <2>3
  <2>5. ASSUME NEW k \in 0..alloc - 1
        PROVE  /\ g.slot[k].lookahead \in Nat \cup {-1}
               /\ k >= t.nAction => g.slot[k] = Free
    <3>1. CASE k < t.nActionAlloc
      <4>1. k \in DOMAIN t.slot /\ g.slot[k] = t.slot[k]
        BY <1>1, <2>3, <3>1 DEF TableOK
      <4> QED
        BY <4>1 DEF TableOK
    <3>2. CASE ~(k < t.nActionAlloc)
      <4>1. g.slot[k] = Free
        BY <1>1, <2>2, <2>3, <3>2
      <4> QED
        BY <4>1 DEF Free
    <3> QED
      BY <3>1, <3>2
  <2>6. t.nAction > 0 => g.slot[t.nAction - 1].lookahead >= 0
    <3> SUFFICES ASSUME t.nAction > 0
                 PROVE  g.slot[t.nAction - 1].lookahead >= 0
      OBVIOUS
    <3>1. t.nAction - 1 \in 0..t.nAction - 1
      BY <1>1
    <3> QED
      BY <2>4, <3>1 DEF TableOK
  <2>7. TableOK(g)
    BY <1>1, <2>1, <2>2, <2>3, <2>5, <2>6, SMTT(60) DEF TableOK
  <2>8. t.nAction + MxLookahead(set) + 1 <= g.nActionAlloc
    <3>1. t.nAction + n <= g.nActionAlloc
      BY <2>1, <2>2
    <3> QED
      BY <1>1, <3>1, LookaheadRange DEF n
  <2> QED
    BY <2>1, <2>4, <2>7, <2>8 DEF g
<1> QED
  BY <1>2, <1>3

(***************************************************************************)
(* Whether the search finds the set itself, or a hole for it.              *)
(***************************************************************************)
DuplicateFound(t, set) == \E i \in 0..t.nAction - 1 : Duplicate(t, set, i)

HoleFound(t, set) ==
  \E i \in 0..t.nActionAlloc - MxLookahead(set) - 1 : Hole(t, set, i)

\* The set goes to free slots that are there.
Open(t, set, i) ==
  \A la \in DOMAIN set : /\ Place(set, la, i) \in 0..t.nActionAlloc - 1
                         /\ t.slot[Place(set, la, i)].lookahead = -1

LEMMA PlaceShift ==
  ASSUME NEW la \in Nat, NEW mn \in Nat, NEW mx \in Nat, NEW i \in Int,
         NEW alloc \in Nat, mn <= la, la <= mx, i <= alloc - mx,
         mn > 0 \/ i < alloc - mx
  PROVE  la - mn + i < alloc /\ la - mn + i >= i /\ la - mn + i \in Int
  OBVIOUS

(***************************************************************************)
(* A set without a hole goes behind everything else, even if the search    *)
(* runs to its bound: that is within the array because the first slot      *)
(* behind everything is a hole for a set that has lookahead 0.             *)
(***************************************************************************)
LEMMA HoleBehind ==
  ASSUME NEW t, TableOK(t), NEW set, Transaction(set),
         t.nAction + MxLookahead(set) + 1 <= t.nActionAlloc,
         MnLookahead(set) = 0
  PROVE  Hole(t, set, t.nAction)
<1> DEFINE i == t.nAction
<1>1. i \in Nat /\ t.nActionAlloc \in Nat /\ MxLookahead(set) \in Nat
  BY LookaheadRange DEF TableOK
<1>2. Fits(t, set, i)
  <2> SUFFICES ASSUME NEW la \in DOMAIN set
               PROVE  /\ Place(set, la, i) >= 0
                      /\ t.slot[Place(set, la, i)].lookahead < 0
    BY DEF Fits
  <2>1. la \in Nat /\ la <= MxLookahead(set)
    BY LookaheadRange
  <2>2. Place(set, la, i) = la + i
    BY <1>1, <2>1 DEF Place
  <2>3. la + i \in 0..t.nActionAlloc - 1 /\ la + i >= t.nAction
    BY <1>1, <2>1
  <2>4. t.slot[la + i] = Free
    BY <2>3 DEF TableOK
  <2>5. t.slot[la + i].lookahead = -1
    BY <2>4 DEF Free
  <2> QED
    BY <2>2, <2>3, <2>5
<1>3. ASSUME NEW j \in 0..t.nAction - 1
      PROVE  t.slot[j].lookahead # j + MnLookahead(set) - i
  <2>1. j \in DOMAIN t.slot
    BY <1>1 DEF TableOK
  <2>2. t.slot[j].lookahead \in Nat \cup {-1}
    BY <2>1 DEF TableOK
  <2>3. j = t.nAction - 1 => t.slot[j].lookahead >= 0
    BY <1>1 DEF TableOK
  <2>4. j + MnLookahead(set) - i <= -1
        /\ (j # t.nAction - 1 => j + MnLookahead(set) - i < -1)
    BY <1>1
  <2> QED
    BY <2>2, <2>3, <2>4
<1> QED
  BY <1>2, <1>3 DEF Hole

LEMMA PlaceFound ==
  ASSUME NEW t, TableOK(t), NEW set, Transaction(set),
         t.nAction + MxLookahead(set) + 1 <= t.nActionAlloc
  PROVE  LET i == PlaceOf(t, set)
         IN  /\ i \in Int
             /\ \/ i \in 0..t.nAction - 1 /\ Duplicate(t, set, i)
                \/ /\ ~DuplicateFound(t, set)
                   /\ Open(t, set, i)
                   /\ HoleFound(t, set) => Hole(t, set, i)
<1> DEFINE i == PlaceOf(t, set)
           mn == MnLookahead(set)
           mx == MxLookahead(set)
           bound == t.nActionAlloc - mx
           duplicates == {j \in 0..t.nAction - 1 : Duplicate(t, set, j)}
           holes == {j \in 0..bound - 1 : Hole(t, set, j)}
<1>1. /\ t.nAction \in Nat /\ t.nActionAlloc \in Nat
      /\ mn \in Nat /\ mx \in Nat
      /\ \A la \in DOMAIN set : la \in Nat /\ mn <= la /\ la <= mx
  BY LookaheadRange DEF TableOK
<1>2. /\ i = IF duplicates # {} THEN Greatest(duplicates)
             ELSE IF holes # {} THEN Least(holes) ELSE bound
      /\ duplicates # {} <=> DuplicateFound(t, set)
      /\ holes # {} <=> HoleFound(t, set)
  BY DEF PlaceOf, DuplicateFound, HoleFound
<1>3. CASE duplicates # {}
  <2>1. /\ duplicates \subseteq Int
        /\ t.nAction \in Int
        /\ \A x \in duplicates : x <= t.nAction
    BY <1>1
  <2>2. Greatest(duplicates) \in duplicates
    <3> HIDE DEF duplicates
    <3> QED
      BY <1>3, <2>1, GreatestIs
  <2> QED
    BY <1>2, <1>3, <2>2
<1>4. CASE duplicates = {} /\ holes # {}
  <2>1. holes \subseteq Nat
    OBVIOUS
  <2>2. Least(holes) \in holes
    <3> HIDE DEF holes
    <3> QED
      BY <1>4, <2>1, LeastIs
  <2>3. i \in 0..bound - 1 /\ Hole(t, set, i)
    BY <1>2, <1>4, <2>2
  <2>4. i \in Int /\ 0 <= i /\ i < bound
    BY <1>1, <2>3
  <2>5. ASSUME NEW la \in DOMAIN set
        PROVE  /\ Place(set, la, i) \in 0..t.nActionAlloc - 1
               /\ t.slot[Place(set, la, i)].lookahead = -1
    <3>1. la - mn + i < t.nActionAlloc /\ la - mn + i >= i /\ la - mn + i \in Int
      <4> HIDE DEF i, mn, mx
      <4> QED
        BY <1>1, <2>4, PlaceShift
    <3>2. Place(set, la, i) = la - mn + i
      BY DEF Place
    <3>3. Place(set, la, i) \in 0..t.nActionAlloc - 1
      <4> HIDE DEF i, mn, mx
      <4> QED
        BY <1>1, <2>4, <3>1, <3>2
    <3>4. t.slot[Place(set, la, i)].lookahead < 0
      BY <2>3 DEF Hole, Fits
    <3>5. t.slot[Place(set, la, i)].lookahead \in Nat \cup {-1}
      BY <3>3 DEF TableOK
    <3> QED
      BY <3>3, <3>4, <3>5
  <2> QED
    BY <1>2, <1>4, <2>3, <2>4, <2>5 DEF Open
<1>5. CASE duplicates = {} /\ holes = {}
  <2>1. i = bound
    BY <1>2, <1>5
  <2>2. t.nAction + mx + 1 <= t.nActionAlloc
    OBVIOUS
  <2>3. bound \in Int /\ bound >= t.nAction + 1
    <3> HIDE DEF mx
    <3> QED
      BY <1>1, <2>2
  <2>4. mn # 0
    <3> SUFFICES ASSUME mn = 0 PROVE FALSE
      OBVIOUS
    <3>1. Hole(t, set, t.nAction)
      BY HoleBehind
    <3>2. t.nAction \in 0..bound - 1
      <4> HIDE DEF bound
      <4> QED
        BY <1>1, <2>3
    <3> QED
      BY <1>5, <3>1, <3>2
  <2>5. ASSUME NEW la \in DOMAIN set
        PROVE  /\ Place(set, la, i) \in 0..t.nActionAlloc - 1
               /\ t.slot[Place(set, la, i)].lookahead = -1
    <3>1. la - mn + i < t.nActionAlloc /\ la - mn + i >= i /\ la - mn + i \in Int
      <4>1. i <= t.nActionAlloc - mx /\ i \in Int /\ mn > 0
        <5> HIDE DEF i, mn, mx
        <5> QED
          BY <1>1, <2>1, <2>3, <2>4
      <4> HIDE DEF i, mn, mx
      <4> QED
        BY <1>1, <4>1, PlaceShift
    <3>2. Place(set, la, i) = la - mn + i
      BY DEF Place
    <3>3. /\ Place(set, la, i) \in 0..t.nActionAlloc - 1
          /\ Place(set, la, i) >= t.nAction
      <4> HIDE DEF i, mn, mx
      <4> QED
        BY <1>1, <2>1, <2>3, <3>1, <3>2
    <3>4. t.slot[Place(set, la, i)] = Free
      BY <3>3 DEF TableOK
    <3>5. t.slot[Place(set, la, i)].lookahead = -1
      BY <3>4 DEF Free
    <3> QED
      BY <3>3, <3>5
  <2> QED
    BY <1>2, <1>5, <2>1, <2>3, <2>5 DEF Open
<1> QED
  BY <1>3, <1>4, <1>5

(***************************************************************************)
(* What writing a set into free slots does to the table.                   *)
(***************************************************************************)
LEMMA WrittenInto ==
  ASSUME NEW t, TableOK(t), NEW set, Transaction(set), NEW i \in Int,
         Open(t, set, i)
  PROVE  LET w == Written(t, set, i)
         IN  /\ TableOK(w)
             /\ w.nAction >= t.nAction
             /\ \A la \in DOMAIN set :
                  /\ Place(set, la, i) \in 0..w.nAction - 1
                  /\ w.slot[Place(set, la, i)] = [lookahead |-> la, action |-> set[la]]
             /\ \A k \in DOMAIN t.slot :
                  (\A la \in DOMAIN set : k # Place(set, la, i)) => w.slot[k] = t.slot[k]
             /\ \A k \in t.nAction..w.nAction - 1 :
                  (\A la \in DOMAIN set : k # Place(set, la, i)) => w.slot[k] = Free
<1> DEFINE w == Written(t, set, i)
           mn == MnLookahead(set)
           places == {Place(set, la, i) : la \in DOMAIN set}
           used == places \cup {t.nAction - 1}
           n == t.nAction
           alloc == t.nActionAlloc
<1>1. /\ n \in Nat /\ alloc \in Nat /\ n <= alloc
      /\ mn \in Nat
      /\ \A la \in DOMAIN set : la \in Nat
      /\ DOMAIN t.slot = 0..alloc - 1
      /\ DOMAIN set # {}
  BY LookaheadRange DEF TableOK, Transaction
<1>2. /\ w.slot = [k \in DOMAIN t.slot |->
                     IF k \in places
                     THEN [lookahead |-> k - i + mn, action |-> set[k - i + mn]]
                     ELSE t.slot[k]]
      /\ w.nAction = Greatest(used) + 1
      /\ w.nActionAlloc = alloc
  BY DEF Written
<1>3. places \subseteq 0..alloc - 1 /\ places # {}
  BY <1>1 DEF Open
<1>4. ASSUME NEW la \in DOMAIN set
      PROVE  /\ Place(set, la, i) \in places
             /\ Place(set, la, i) - i + mn = la
  <2>1. Place(set, la, i) = la - mn + i
    BY DEF Place
  <2>2. la \in Int /\ mn \in Int
    BY <1>1
  <2>3. Place(set, la, i) - i + mn = la
    <3> HIDE DEF mn
    <3> QED
      BY <2>1, <2>2
  <2> QED
    BY <2>3
<1>5. \A k : k \in places <=> \E la \in DOMAIN set : k = Place(set, la, i)
  OBVIOUS
<1> HIDE DEF w, places, mn
<1>6. /\ Greatest(used) \in used
      /\ \A y \in used : Greatest(used) >= y
  <2>1. used \subseteq Int /\ used # {} /\ \A x \in used : x <= alloc - 1
    <3> HIDE DEF n, alloc
    <3>1. \A x \in places : x \in Int /\ x <= alloc - 1
      BY <1>1, <1>3
    <3>2. n - 1 \in Int /\ n - 1 <= alloc - 1
      BY <1>1
    <3> QED
      BY <3>1, <3>2 DEF n
  <2>2. alloc - 1 \in Int
    BY <1>1
  <2> HIDE DEF used, alloc
  <2> QED
    BY <2>1, <2>2, GreatestIs
<1>7. /\ w.nAction - 1 \in used
      /\ w.nAction \in Nat
      /\ w.nAction >= n /\ w.nAction <= alloc
      /\ \A k \in places : k \in 0..w.nAction - 1
  <2>1. \A y \in places : y \in Nat /\ y <= alloc - 1
    <3> HIDE DEF alloc
    <3> QED
      BY <1>1, <1>3
  <2>2. /\ n - 1 \in Int /\ n - 1 <= alloc - 1
        /\ Greatest(used) \in places \/ Greatest(used) = n - 1
        /\ Greatest(used) >= n - 1
    <3>1. n - 1 \in Int /\ n - 1 <= alloc - 1
      BY <1>1
    <3>2. Greatest(used) \in places \/ Greatest(used) = n - 1
      BY <1>6
    <3>3. n - 1 \in used
      OBVIOUS
    <3>4. Greatest(used) >= n - 1
      <4> HIDE DEF used, n
      <4> QED
        BY <1>6, <3>3
    <3> QED
      BY <3>1, <3>2, <3>4
  <2>3. Greatest(used) \in Int /\ Greatest(used) <= alloc - 1
    <3> HIDE DEF used, n, alloc
    <3> QED
      BY <2>1, <2>2
  <2>4. \A k \in places : k <= Greatest(used) /\ k \in Nat
    <3>1. \A k \in places : k \in used
      OBVIOUS
    <3> HIDE DEF used
    <3> QED
      BY <1>6, <2>1, <2>3, <3>1
  <2>5. w.nAction - 1 = Greatest(used)
    <3> HIDE DEF used
    <3> QED
      BY <1>2, <2>3
  <2> HIDE DEF used
  <2> QED
    BY <1>1, <1>2, <1>6, <2>2, <2>3, <2>4, <2>5, SMTT(60)
<1>8. ASSUME NEW la \in DOMAIN set
      PROVE  w.slot[Place(set, la, i)] = [lookahead |-> la, action |-> set[la]]
  <2>1. Place(set, la, i) \in DOMAIN t.slot
    BY <1>1, <1>3, <1>4
  <2> QED
    BY <1>2, <1>4, <2>1
<1>9. \A k \in DOMAIN t.slot : k \notin places => w.slot[k] = t.slot[k]
  BY <1>2
<1>10. \A k \in DOMAIN t.slot : k \notin places /\ k >= n => w.slot[k] = Free
  BY <1>9 DEF TableOK
<1>11. TableOK(w)
  <2>1. DOMAIN w.slot = 0..w.nActionAlloc - 1
    BY <1>1, <1>2
  <2>2. ASSUME NEW k \in DOMAIN w.slot
        PROVE  /\ w.slot[k].lookahead \in Nat \cup {-1}
               /\ k \in places => w.slot[k].lookahead >= 0
               /\ k >= w.nAction => w.slot[k] = Free
    <3>1. k \in DOMAIN t.slot /\ k \in Int
      BY <1>1, <1>2, <2>1
    <3>2. CASE k \in places
      <4>1. PICK la \in DOMAIN set : k = Place(set, la, i)
        BY <1>5, <3>2
      <4>2. w.slot[k] = [lookahead |-> la, action |-> set[la]] /\ la \in Nat
        BY <1>1, <1>8, <4>1
      <4>3. ~(k >= w.nAction)
        BY <1>7, <3>1, <3>2
      <4> QED
        BY <4>2, <4>3
    <3>3. CASE k \notin places
      <4>1. w.slot[k] = t.slot[k]
        BY <1>9, <3>1, <3>3
      <4>2. k >= w.nAction => k >= n
        BY <1>1, <1>7, <3>1
      <4> QED
        BY <1>10, <3>1, <3>3, <4>1, <4>2 DEF TableOK
    <3> QED
      BY <3>2, <3>3
  <2>3. ASSUME w.nAction > 0
        PROVE  w.slot[w.nAction - 1].lookahead >= 0
    <3>1. w.nAction - 1 \in DOMAIN w.slot
      BY <1>1, <1>2, <1>7, <2>1, <2>3
    <3>2. CASE w.nAction - 1 \in places
      BY <2>2, <3>1, <3>2
    <3>3. CASE w.nAction - 1 \notin places
      <4>1. w.nAction - 1 = n - 1 /\ w.nAction = n
        BY <1>1, <1>7, <3>3
      <4>2. w.slot[n - 1] = t.slot[n - 1]
        BY <1>2, <1>9, <3>1, <3>3, <4>1
      <4> QED
        BY <2>3, <4>1, <4>2 DEF TableOK
    <3> QED
      BY <3>2, <3>3
  <2> QED
    BY <1>1, <1>2, <1>7, <2>1, <2>2, <2>3 DEF TableOK
<1>12. \A k \in n..w.nAction - 1 : k \in DOMAIN t.slot /\ k >= n
  BY <1>1, <1>7
<1> QED
  BY <1>4, <1>5, <1>7, <1>8, <1>9, <1>10, <1>11, <1>12 DEF w

(***************************************************************************)
(* A set that is found is written over itself.                             *)
(***************************************************************************)
LEMMA WrittenAgain ==
  ASSUME NEW t, TableOK(t), NEW set, Transaction(set), NEW i \in Int,
         Duplicate(t, set, i)
  PROVE  LET w == Written(t, set, i)
         IN  /\ TableOK(w)
             /\ w.nAction = t.nAction
             /\ \A k \in DOMAIN t.slot : w.slot[k] = t.slot[k]
<1> DEFINE w == Written(t, set, i)
           mn == MnLookahead(set)
           places == {Place(set, la, i) : la \in DOMAIN set}
           used == places \cup {t.nAction - 1}
           n == t.nAction
           alloc == t.nActionAlloc
<1>1. /\ n \in Nat /\ alloc \in Nat /\ n <= alloc
      /\ mn \in Nat
      /\ \A la \in DOMAIN set : la \in Nat
      /\ DOMAIN t.slot = 0..alloc - 1
  BY LookaheadRange DEF TableOK
<1>2. /\ w.slot = [k \in DOMAIN t.slot |->
                     IF k \in places
                     THEN [lookahead |-> k - i + mn, action |-> set[k - i + mn]]
                     ELSE t.slot[k]]
      /\ w.nAction = Greatest(used) + 1
      /\ w.nActionAlloc = alloc
  BY DEF Written
<1>3. places \subseteq 0..n - 1
  BY DEF Duplicate
<1>4. ASSUME NEW k \in places
      PROVE  t.slot[k] = [lookahead |-> k - i + mn, action |-> set[k - i + mn]]
  <2>1. PICK la \in DOMAIN set : k = Place(set, la, i)
    OBVIOUS
  <2>2. t.slot[k] = [lookahead |-> la, action |-> set[la]]
    BY <2>1 DEF Duplicate
  <2>3. k = la - mn + i /\ la \in Int /\ mn \in Int
    BY <1>1, <2>1 DEF Place
  <2>4. k - i + mn = la
    <3> HIDE DEF mn
    <3> QED
      BY <2>3
  <2> QED
    BY <2>2, <2>4
<1> HIDE DEF w, places, mn
<1>5. \A k \in DOMAIN t.slot : w.slot[k] = t.slot[k]
  BY <1>2, <1>4
<1>6. w.nAction = n
  <2>1. used \subseteq Int /\ used # {} /\ n - 1 \in Int /\ \A x \in used : x <= n - 1
    <3> HIDE DEF n
    <3>1. \A x \in places : x \in Int /\ x <= n - 1
      BY <1>1, <1>3
    <3>2. n - 1 \in Int
      BY <1>1
    <3> QED
      BY <3>1, <3>2 DEF n
  <2>2. Greatest(used) \in used /\ \A y \in used : Greatest(used) >= y
    <3> HIDE DEF used, n
    <3> QED
      BY <2>1, GreatestIs
  <2>3. Greatest(used) \in Int /\ Greatest(used) <= n - 1 /\ Greatest(used) >= n - 1
    BY <2>1, <2>2
  <2> QED
    BY <1>1, <1>2, <2>3
<1>7. DOMAIN w.slot = DOMAIN t.slot
  BY <1>2
<1>8. n > 0 => n - 1 \in DOMAIN t.slot
  BY <1>1
<1>9. TableOK(w)
  BY <1>1, <1>2, <1>5, <1>6, <1>7, <1>8 DEF TableOK
<1> QED
  BY <1>5, <1>6, <1>9 DEF w

LEMMA LookUpInside ==
  ASSUME NEW t, NEW o, NEW la, o + la \in 0..t.nAction - 1,
         t.slot[o + la].lookahead = la
  PROVE  LookUp(t, o, la) = t.slot[o + la].action
  BY DEF LookUp

(***************************************************************************)
(* acttab_insert: the set is found at the offset it returns, whether it    *)
(* was there already, fits into a hole or goes behind everything else, and *)
(* every set that was found before still is.                               *)
(***************************************************************************)
THEOREM ActionsAreFound ==
  ASSUME NEW t, TableOK(t), NEW set, Transaction(set)
  PROVE  LET r == Insert(t, set)
         IN  /\ TableOK(r.table)
             /\ Holds(r.table, set, r.offset)
             /\ \A other, o : /\ Transaction(other)
                              /\ o \in Int
                              /\ Holds(t, other, o)
                              => Holds(r.table, other, o)
<1> DEFINE g == Grown(t, set)
           i == PlaceOf(g, set)
           w == Written(g, set, i)
           r == Insert(t, set)
           mn == MnLookahead(set)
<1>1. /\ TableOK(g)
      /\ g.nAction = t.nAction
      /\ g.nAction + MxLookahead(set) + 1 <= g.nActionAlloc
      /\ \A k \in 0..t.nAction - 1 : g.slot[k] = t.slot[k]
  BY GrownOK
<1>2. r.table = w /\ r.offset = i - mn
  BY DEF Insert
<1> HIDE DEF g, r
<1>3. /\ i \in Int
      /\ Duplicate(g, set, i) \/ Open(g, set, i)
  BY <1>1, PlaceFound
<1> HIDE DEF i, w
<1>4. /\ TableOK(w)
      /\ w.nAction >= t.nAction
      /\ \A la \in DOMAIN set :
           /\ Place(set, la, i) \in 0..w.nAction - 1
           /\ w.slot[Place(set, la, i)] = [lookahead |-> la, action |-> set[la]]
      /\ \A k \in 0..t.nAction - 1 :
           t.slot[k].lookahead >= 0 => w.slot[k] = t.slot[k]
  <2>1. /\ t.nAction \in Nat
        /\ \A k \in 0..t.nAction - 1 : k \in DOMAIN g.slot
    BY <1>1 DEF TableOK
  <2>2. CASE Duplicate(g, set, i)
    <3>1. /\ TableOK(w)
          /\ w.nAction = g.nAction
          /\ \A k \in DOMAIN g.slot : w.slot[k] = g.slot[k]
      BY <1>1, <1>3, <2>2, WrittenAgain DEF w
    <3>2. \A la \in DOMAIN set :
            /\ Place(set, la, i) \in 0..g.nAction - 1
            /\ g.slot[Place(set, la, i)] = [lookahead |-> la, action |-> set[la]]
      BY <2>2 DEF Duplicate
    <3> QED
      BY <1>1, <2>1, <3>1, <3>2
  <2>3. CASE Open(g, set, i)
    <3>1. /\ TableOK(w)
          /\ w.nAction >= g.nAction
          /\ \A la \in DOMAIN set :
               /\ Place(set, la, i) \in 0..w.nAction - 1
               /\ w.slot[Place(set, la, i)] = [lookahead |-> la, action |-> set[la]]
          /\ \A k \in DOMAIN g.slot :
               (\A la \in DOMAIN set : k # Place(set, la, i)) => w.slot[k] = g.slot[k]
      BY <1>1, <1>3, <2>3, WrittenInto DEF w
    <3>2. ASSUME NEW k \in 0..t.nAction - 1, t.slot[k].lookahead >= 0
          PROVE  w.slot[k] = t.slot[k]
      <4>1. g.slot[k] = t.slot[k] /\ k \in DOMAIN g.slot
        BY <1>1, <2>1
      <4>2. \A la \in DOMAIN set : k # Place(set, la, i)
        BY <2>3, <3>2, <4>1 DEF Open
      <4> QED
        BY <3>1, <4>1, <4>2
    <3> QED
      BY <1>1, <3>1, <3>2
  <2> QED
    BY <1>3, <2>2, <2>3
<1>5. Holds(w, set, i - mn)
  <2> SUFFICES ASSUME NEW la \in DOMAIN set
               PROVE  LookUp(w, i - mn, la) = set[la]
    BY DEF Holds
  <2>1. la \in Int /\ mn \in Int
    BY LookaheadRange
  <2>2. Place(set, la, i) = la - mn + i
    BY DEF Place
  <2>3. (i - mn) + la = Place(set, la, i)
    <3> HIDE DEF mn
    <3> QED
      BY <1>3, <2>1, <2>2
  <2>4. /\ (i - mn) + la \in 0..w.nAction - 1
        /\ w.slot[(i - mn) + la] = [lookahead |-> la, action |-> set[la]]
    BY <1>4, <2>3
  <2> HIDE DEF mn
  <2> QED
    BY <2>4, LookUpInside
<1>6. ASSUME NEW other, NEW o, Transaction(other), o \in Int, Holds(t, other, o)
      PROVE  Holds(w, other, o)
  <2> SUFFICES ASSUME NEW la \in DOMAIN other
               PROVE  LookUp(w, o, la) = other[la]
    BY DEF Holds
  <2>1. LookUp(t, o, la) = other[la] /\ other[la] \in Nat /\ la \in Nat
    BY <1>6 DEF Holds, Transaction
  <2>2. /\ o + la \in 0..t.nAction - 1
        /\ t.slot[o + la].lookahead = la
        /\ t.slot[o + la].action = other[la]
    BY <2>1 DEF LookUp, NoEntry
  <2>3. w.slot[o + la] = t.slot[o + la]
    BY <1>4, <2>1, <2>2
  <2>4. o + la \in 0..w.nAction - 1
    <3>1. t.nAction \in Nat /\ w.nAction \in Nat /\ w.nAction >= t.nAction
      BY <1>4 DEF TableOK
    <3> QED
      BY <2>2, <3>1
  <2> QED
    BY <2>2, <2>3, <2>4, LookUpInside
<1> QED
  BY <1>2, <1>4, <1>5, <1>6 DEF r

(***************************************************************************)
(* Where acttab_insert finds the set itself, by counting who answers, only *)
(* the lookaheads of the set answer there.                                 *)
(***************************************************************************)
LEMMA AnsweringIsTheSet ==
  ASSUME NEW t, TableOK(t), NEW set, Transaction(set), NEW i \in Int,
         Duplicate(t, set, i)
  PROVE  \A k \in Answering(t, set, i) : \E la \in DOMAIN set : k = Place(set, la, i)
<1> DEFINE mn == MnLookahead(set)
           places == {Place(set, la, i) : la \in DOMAIN set}
           f == [la \in DOMAIN set |-> Place(set, la, i)]
           A == Answering(t, set, i)
<1>1. /\ t.nAction \in Nat /\ mn \in Nat
      /\ \A la \in DOMAIN set : la \in Nat
  BY LookaheadRange DEF TableOK
<1>2. \A la \in DOMAIN set : Place(set, la, i) = la - mn + i
  BY DEF Place
<1>3. IsFiniteSet(A)
  <2>1. IsFiniteSet(0..t.nAction - 1)
    <3>1. t.nAction - 1 \in Int /\ 0 \in Int
      BY <1>1
    <3> QED
      BY <3>1, FS_Interval
  <2>2. A \in SUBSET (0..t.nAction - 1)
    BY DEF Answering
  <2> HIDE DEF A
  <2> QED
    BY <2>1, <2>2, FS_Subset
<1>4. ASSUME NEW la \in DOMAIN set
      PROVE  Place(set, la, i) \in A
  <2>1. /\ Place(set, la, i) \in 0..t.nAction - 1
        /\ t.slot[Place(set, la, i)] = [lookahead |-> la, action |-> set[la]]
    BY DEF Duplicate
  <2>2. t.slot[Place(set, la, i)].lookahead = la
    BY <2>1
  <2>3. la >= 0 /\ la = Place(set, la, i) + mn - i
    <3>1. la \in Int /\ la >= 0 /\ mn \in Int /\ Place(set, la, i) = la - mn + i
      BY <1>1, <1>2
    <3> HIDE DEF mn
    <3> QED
      BY <3>1
  <2> QED
    BY <2>1, <2>2, <2>3 DEF Answering
<1>5. IsFiniteSet(DOMAIN set)
  <2>1. PICK b \in Nat : \A la \in DOMAIN set : la <= b
    BY DEF Transaction
  <2>2. DOMAIN set \in SUBSET Nat
    BY DEF Transaction
  <2> QED
    BY <2>1, <2>2, FS_BoundedSetOfNaturals
<1>6. f \in Bijection(DOMAIN set, places)
  <2>1. f \in [DOMAIN set -> places]
    OBVIOUS
  <2>2. \A a, b \in DOMAIN set : f[a] = f[b] => a = b
    <3> SUFFICES ASSUME NEW a \in DOMAIN set, NEW b \in DOMAIN set, f[a] = f[b]
                 PROVE  a = b
      OBVIOUS
    <3>1. a \in Int /\ b \in Int /\ mn \in Int
      BY <1>1
    <3>2. a - mn + i = b - mn + i
      BY <1>2
    <3> HIDE DEF mn, f
    <3> QED
      BY <3>1, <3>2
  <2>3. \A k \in places : \E la \in DOMAIN set : f[la] = k
    OBVIOUS
  <2> HIDE DEF f, places
  <2> QED
    BY <2>1, <2>2, <2>3 DEF Bijection, Injection, Surjection, IsInjective
<1>7. IsFiniteSet(places) /\ Cardinality(places) = Cardinality(DOMAIN set)
  <2>1. ExistsBijection(DOMAIN set, places)
    <3> HIDE DEF f, places
    <3> QED
      BY <1>6 DEF ExistsBijection
  <2> HIDE DEF places
  <2> QED
    BY <1>5, <2>1, FS_Bijection
<1>8. Cardinality(A) = Cardinality(DOMAIN set)
  BY DEF Duplicate
<1>9. places \in SUBSET A
  BY <1>4
<1>10. A = places
  <2> HIDE DEF A, places
  <2> QED
    BY <1>3, <1>7, <1>8, <1>9, FS_Subset
<1> QED
  BY <1>10

(***************************************************************************)
(* If acttab_insert finds the set or a hole for it, nothing else answers   *)
(* at its offset, and nothing of it at the offsets of the sets before: no  *)
(* state takes another one's action for its own.  (If its search runs to   *)
(* the bound, two sets may share an offset.)                               *)
(***************************************************************************)
THEOREM NoOtherActionIsFound ==
  ASSUME NEW t, TableOK(t), NEW set, Transaction(set),
         \/ DuplicateFound(Grown(t, set), set)
         \/ HoleFound(Grown(t, set), set)
  PROVE  LET r == Insert(t, set)
         IN  /\ NothingElse(r.table, set, r.offset)
             /\ \A other, o : /\ Transaction(other)
                              /\ o \in Int
                              /\ Holds(t, other, o)
                              /\ NothingElse(t, other, o)
                              => NothingElse(r.table, other, o)
<1> DEFINE g == Grown(t, set)
           i == PlaceOf(g, set)
           w == Written(g, set, i)
           r == Insert(t, set)
           mn == MnLookahead(set)
           n == t.nAction
<1>1. /\ TableOK(g)
      /\ g.nAction = n
      /\ g.nAction + MxLookahead(set) + 1 <= g.nActionAlloc
      /\ \A k \in 0..n - 1 : g.slot[k] = t.slot[k]
  BY GrownOK
<1>2. r.table = w /\ r.offset = i - mn
  BY DEF Insert
<1>3. DuplicateFound(g, set) \/ HoleFound(g, set)
  OBVIOUS
<1>4. /\ n \in Nat /\ mn \in Nat
      /\ \A la \in DOMAIN set : la \in Nat
  BY LookaheadRange DEF TableOK
<1> HIDE DEF g, r
<1>5. /\ i \in Int
      /\ \/ Duplicate(g, set, i)
         \/ Open(g, set, i) /\ Hole(g, set, i)
  BY <1>1, <1>3, PlaceFound
<1>6. \A la \in DOMAIN set : Place(set, la, i) = la - mn + i
  BY DEF Place
<1>7. \A k \in 0..n - 1 : k \in DOMAIN g.slot
  BY <1>1 DEF TableOK
<1> HIDE DEF i, w, mn, n
<1>8. ASSUME NEW la \in Nat, NEW k, k = (i - mn) + la
      PROVE  k \in Int /\ la = k + mn - i
  BY <1>4, <1>5, <1>8
<1>9. ASSUME NEW la \in Nat, NEW lb \in DOMAIN set, Place(set, lb, i) = (i - mn) + la
      PROVE  la = lb
  <2>1. lb \in Int /\ lb - mn + i = (i - mn) + la
    BY <1>4, <1>6, <1>9
  <2> QED
    BY <1>4, <1>5, <2>1
<1>10. CASE Duplicate(g, set, i)
  <2>1. /\ w.nAction = n
        /\ \A k \in DOMAIN g.slot : w.slot[k] = g.slot[k]
    BY <1>1, <1>5, <1>10, WrittenAgain DEF w
  <2>2. \A k \in 0..n - 1 : w.slot[k] = t.slot[k] /\ w.slot[k] = g.slot[k]
    BY <1>1, <1>7, <2>1
  <2>3. NothingElse(w, set, i - mn)
    <3> SUFFICES ASSUME NEW la \in Nat \ DOMAIN set,
                        LookUp(w, i - mn, la) # NoEntry
                 PROVE  FALSE
      BY DEF NothingElse
    <3> DEFINE k == (i - mn) + la
    <3>1. k \in 0..n - 1 /\ w.slot[k].lookahead = la
      BY <2>1 DEF LookUp
    <3>2. k \in Int /\ la = k + mn - i /\ la >= 0
      BY <1>8
    <3> HIDE DEF k
    <3>3. k \in Answering(g, set, i)
      BY <1>1, <2>2, <3>1, <3>2 DEF Answering, mn
    <3>4. PICK lb \in DOMAIN set : k = Place(set, lb, i)
      BY <1>1, <1>5, <1>10, <3>3, AnsweringIsTheSet
    <3> QED
      BY <1>9, <3>4 DEF k
  <2>4. ASSUME NEW other, NEW o, NothingElse(t, other, o)
        PROVE  NothingElse(w, other, o)
    <3>1. \A la : LookUp(w, o, la) = LookUp(t, o, la)
      BY <2>1, <2>2 DEF LookUp, n
    <3> QED
      BY <2>4, <3>1 DEF NothingElse
  <2> QED
    BY <1>2, <2>3, <2>4 DEF r
<1>11. CASE Open(g, set, i) /\ Hole(g, set, i)
  <2>1. /\ TableOK(w)
        /\ w.nAction >= n
        /\ \A la \in DOMAIN set :
             w.slot[Place(set, la, i)] = [lookahead |-> la, action |-> set[la]]
        /\ \A k \in DOMAIN g.slot :
             (\A la \in DOMAIN set : k # Place(set, la, i)) => w.slot[k] = g.slot[k]
        /\ \A k \in n..w.nAction - 1 :
             (\A la \in DOMAIN set : k # Place(set, la, i)) => w.slot[k] = Free
    BY <1>1, <1>5, <1>11, WrittenInto DEF w
  <2>2. w.nAction \in Nat
    BY <2>1 DEF TableOK
  <2>3. \A j \in 0..n - 1 : g.slot[j].lookahead # j + mn - i
    BY <1>1, <1>11 DEF Hole, mn
  <2>4. NothingElse(w, set, i - mn)
    <3> SUFFICES ASSUME NEW la \in Nat \ DOMAIN set,
                        LookUp(w, i - mn, la) # NoEntry
                 PROVE  FALSE
      BY DEF NothingElse
    <3> DEFINE k == (i - mn) + la
    <3>1. k \in 0..w.nAction - 1 /\ w.slot[k].lookahead = la
      BY DEF LookUp
    <3>2. k \in Int /\ la = k + mn - i /\ la >= 0
      BY <1>8
    <3>3. \A lb \in DOMAIN set : k # Place(set, lb, i)
      BY <1>9
    <3> HIDE DEF k
    <3>4. CASE k \in 0..n - 1
      <4>1. w.slot[k] = g.slot[k]
        BY <1>7, <2>1, <3>3, <3>4
      <4> QED
        BY <2>3, <3>1, <3>2, <3>4, <4>1
    <3>5. CASE k \notin 0..n - 1
      <4>1. k \in n..w.nAction - 1
        BY <1>4, <2>2, <3>1, <3>5
      <4>2. w.slot[k] = Free
        BY <2>1, <3>3, <4>1
      <4> QED
        BY <3>1, <3>2, <4>2 DEF Free
    <3> QED
      BY <3>4, <3>5
  <2>5. ASSUME NEW other, NEW o \in Int, Transaction(other),
               Holds(t, other, o), NothingElse(t, other, o)
        PROVE  NothingElse(w, other, o)
    <3> SUFFICES ASSUME NEW la \in Nat \ DOMAIN other,
                        LookUp(w, o, la) # NoEntry
                 PROVE  FALSE
      BY DEF NothingElse
    <3> DEFINE k == o + la
    <3>1. k \in 0..w.nAction - 1 /\ w.slot[k].lookahead = la
      BY DEF LookUp
    <3>2. k \in Int /\ la \in Nat /\ la = k - o
      OBVIOUS
    <3> HIDE DEF k
    <3>3. CASE \E lb \in DOMAIN set : k = Place(set, lb, i)
      <4>1. PICK lb \in DOMAIN set : k = Place(set, lb, i)
        BY <3>3
      <4>2. la = lb /\ k = lb - mn + i
        <5>1. w.slot[k] = [lookahead |-> lb, action |-> set[lb]]
          BY <2>1, <4>1
        <5>2. w.slot[k].lookahead = lb
          BY <5>1
        <5> QED
          BY <1>6, <3>1, <4>1, <5>2
      <4>3. o = i - mn
        BY <1>4, <1>5, <3>2, <4>2
      <4>4. PICK lc \in DOMAIN other : TRUE
        BY <2>5 DEF Transaction
      <4>5. LookUp(t, o, lc) = other[lc] /\ other[lc] \in Nat /\ lc \in Nat
        BY <2>5 DEF Holds, Transaction
      <4>6. o + lc \in 0..n - 1 /\ t.slot[o + lc].lookahead = lc
        BY <4>5 DEF LookUp, NoEntry, n
      <4>7. g.slot[o + lc].lookahead = lc
        BY <1>1, <4>6
      <4>8. lc = (o + lc) + mn - i
        BY <1>4, <1>5, <4>3, <4>5
      <4> QED
        BY <2>3, <4>6, <4>7, <4>8
    <3>4. CASE ~ \E lb \in DOMAIN set : k = Place(set, lb, i)
      <4>1. CASE k \in 0..n - 1
        <5>1. w.slot[k] = t.slot[k]
          BY <1>1, <1>7, <2>1, <3>4, <4>1
        <5>2. LookUp(t, o, la) = w.slot[k].action
          BY <3>1, <4>1, <5>1, LookUpInside DEF k, n
        <5>3. LookUp(w, o, la) = w.slot[k].action
          BY <3>1, LookUpInside DEF k
        <5> QED
          BY <2>5, <5>2, <5>3 DEF NothingElse
      <4>2. CASE k \notin 0..n - 1
        <5>1. k \in n..w.nAction - 1
          BY <1>4, <2>2, <3>1, <4>2
        <5>2. w.slot[k] = Free
          BY <2>1, <3>4, <5>1
        <5> QED
          BY <3>1, <3>2, <5>2 DEF Free
      <4> QED
        BY <4>1, <4>2
    <3> QED
      BY <3>3, <3>4
  <2> QED
    BY <1>2, <2>4, <2>5 DEF r
<1> QED
  BY <1>5, <1>10, <1>11
=============================================================================
