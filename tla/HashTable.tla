------------------------------ MODULE HashTable ------------------------------
(***************************************************************************)
(* TRHash (TRHash.m) and the table it wraps (hash.c): chains that split    *)
(* and merge as the table grows and shrinks, scans over them, and the      *)
(* references the table holds on its keys and values.                      *)
(*                                                                         *)
(* A node is known by its key, as no key is in the table twice; that is    *)
(* what hash_insert asserts and HashVerify checks.  hash is the hash_t.    *)
(* An allocation that fails matters in one place, the realloc of           *)
(* grow_table, which the code is prepared for.                             *)
(***************************************************************************)
EXTENDS Integers, FiniteSets, SequencesExt

CONSTANTS
  Keys, Values,
  NoKey,      \* null, and nil
  HashOf,     \* the hash function
  InitSize,   \* INIT_SIZE, 64 in the code
  MaxCount,   \* the capacity given to initWithCapacity
  MaxOverload,\* bound: nodes above the high mark, when growth fails
  Settings    \* the pairs of key and value a client sets

ASSUME HashAssumption ==
  /\ NoKey \notin Keys
  /\ NoKey \notin Values
  /\ HashOf \in [Keys -> Nat]
  /\ InitSize \in Nat \ {0} /\ InitSize % 2 = 0
  /\ \E i \in 1..30 : InitSize = 2 ^ i
  /\ MaxCount \in Nat \ {0}
  /\ MaxOverload \in Nat
  /\ Settings \subseteq Keys \X Values

VARIABLES
  hash,      \* hash_t: the chains and the fields that describe them
  scan,      \* the scan in progress: an enumerator's, or dealloc's
  pending,   \* history: the keys that scan has not returned yet
  holders,   \* who retains the TRHash: its owner, an enumerator
  phase,     \* "live", then "dealloc", then "freed"
  refs       \* the references TRHash holds on each key and its value

vars == <<hash, scan, pending, holders, phase, refs>>

NoScan == [next |-> NoKey, chain |-> 0]

StaleScan == [next |-> NoKey, chain |-> -1]

-----------------------------------------------------------------------------
(* hash.c *)

HashCreate ==
  [table |-> [c \in 0..InitSize - 1 |-> <<>>], nchains |-> InitSize,
   mask |-> InitSize - 1, nodecount |-> 0,
   highmark |-> 2 * InitSize, lowmark |-> InitSize \div 2]

(* hkey & mask, for a mask of the low bits *)
ChainOf(h, k) == HashOf[k] % (h.mask + 1)

Chain(h, k) == h.table[ChainOf(h, k)]

Found(h, k) == LET chain == Chain(h, k) IN \E i \in DOMAIN chain : chain[i].key = k

KeysIn(h) == {k \in Keys : Found(h, k)}

\* The place in its chain at which the search for k ends.
PlaceOf(h, k) == LET chain == Chain(h, k) IN CHOOSE i \in DOMAIN chain : chain[i].key = k

HashLookup(h, k) == Chain(h, k)[PlaceOf(h, k)]

(* Mutation: the bit is the highest one of the old mask. *)
Exposed_OldBit(h, k) == (HashOf[k] \div (h.nchains \div 2)) % 2 = 1

\* hkey & exposed_bit, for the bit the wider mask exposes
Exposed(h, k) == (HashOf[k] \div (h.mask + 1)) % 2 = 1

(* The nodes at some places of a chain, pushed one by one to the front of a *)
(* new one, which reverses their order.                                     *)
Pushed(chain, places) ==
  [j \in 1..Cardinality(places) |->
     chain[CHOOSE i \in places : Cardinality({p \in places : p >= i}) = j]]

(* Each chain splits on the exposed bit. *)
SplitTable(h) ==
  [c \in 0..2 * h.nchains - 1 |->
     LET high == c >= h.nchains
         chain == h.table[IF high THEN c - h.nchains ELSE c]
     IN Pushed(chain, {i \in DOMAIN chain : Exposed(h, chain[i].key) <=> high})]

(* Mutation: the low mark stays. *)
GrowTable_LowmarkStays(h) ==
  [table |-> SplitTable(h), nchains |-> 2 * h.nchains, mask |-> 2 * h.mask + 1,
   nodecount |-> h.nodecount, highmark |-> 2 * h.highmark, lowmark |-> h.lowmark]

GrowTable(h) ==
  [table |-> SplitTable(h), nchains |-> 2 * h.nchains, mask |-> 2 * h.mask + 1,
   nodecount |-> h.nodecount, highmark |-> 2 * h.highmark, lowmark |-> 2 * h.lowmark]

(* The upper chain of each pair is spliced to the end of the lower one. *)
ShrinkTable(h) ==
  LET half == h.nchains \div 2
  IN [table |-> [c \in 0..half - 1 |-> h.table[c] \o h.table[c + half]],
      nchains |-> half, mask |-> h.mask \div 2, nodecount |-> h.nodecount,
      highmark |-> h.highmark \div 2, lowmark |-> h.lowmark \div 2]

Push(h, k, v) ==
  [h EXCEPT !.table[ChainOf(h, k)] = <<[key |-> k, data |-> v]>> \o @,
            !.nodecount = @ + 1]

(* A table that is to grow does not if realloc fails: at most MaxOverload   *)
(* nodes are added beyond the mark in that way.                             *)
HashInsert(h, k, v) ==
  {Push(g, k, v) :
     g \in (IF h.nodecount >= h.highmark THEN {GrowTable(h)} ELSE {})
             \cup (IF h.nodecount < h.highmark + MaxOverload THEN {h} ELSE {})}

HashScanDelete(h, k) ==
  [h EXCEPT !.table[ChainOf(h, k)] = RemoveAt(@, PlaceOf(h, k)),
            !.nodecount = @ - 1]

HashDelete(h, k) ==
  HashScanDelete(IF h.nodecount <= h.lowmark /\ h.nodecount > InitSize
                   THEN ShrinkTable(h) ELSE h, k)

(* The scan at the first node of the first chain from c on that has one;    *)
(* at the end of the table the chain index keeps its value.                 *)
ScanFrom(h, c, old) ==
  LET used == {d \in c..h.nchains - 1 : h.table[d] # <<>>}
  IN IF used = {} THEN [next |-> NoKey, chain |-> old]
     ELSE LET d == CHOOSE d \in used : \A e \in used : d <= e
          IN [next |-> h.table[d][1].key, chain |-> d]

HashScanBegin(h) == ScanFrom(h, 0, 0)

(* What next->next is, <<>> for null: the rest of the chain after k's node. *)
After(h, k) == SubSeq(Chain(h, k), PlaceOf(h, k) + 1, Len(Chain(h, k)))

(* Mutation: the search for the next chain begins with the current one. *)
HashScanNext_SameChain(h, s) ==
  LET rest == After(h, s.next)
  IN IF rest # <<>> THEN [s EXCEPT !.next = rest[1].key]
     ELSE ScanFrom(h, s.chain, s.chain)

HashScanNext(h, s) ==
  LET rest == After(h, s.next)
  IN IF rest # <<>> THEN [s EXCEPT !.next = rest[1].key]
     ELSE ScanFrom(h, s.chain + 1, s.chain)

-----------------------------------------------------------------------------
(* TRHash.m *)

Init ==
  /\ hash = HashCreate
  /\ scan = NoScan
  /\ pending = {}
  /\ holders = {"owner"}
  /\ phase = "live"
  /\ refs = [k \in Keys |-> 0]

ValueForKey(k) == IF Found(hash, k) THEN HashLookup(hash, k).data ELSE NoKey

InUse == phase = "live" /\ "owner" \in holders

(* A change of the table invalidates an enumerator: TRHash has no guard     *)
(* against it, and its clients do not go on with one.                       *)
Disturb ==
  /\ scan' = IF "enumerator" \in holders THEN StaleScan ELSE scan
  /\ pending' = {}

RemoveObjectForKey(k) ==
  /\ InUse
  /\ Found(hash, k)
  /\ hash' = HashDelete(hash, k)
  /\ refs' = [refs EXCEPT ![k] = @ - 1]
  /\ Disturb
  /\ UNCHANGED <<holders, phase>>

(* Mutation: the references on what is replaced are kept. *)
SetObject_KeepsOld(k, v) ==
  LET present == Found(hash, k)
      removed == IF present THEN HashDelete(hash, k) ELSE hash
  IN /\ InUse
     /\ hash' \in HashInsert(removed, k, v)
     /\ refs' = [refs EXCEPT ![k] = @ + 1]
     /\ Disturb
     /\ UNCHANGED <<holders, phase>>
     /\ removed.nodecount # MaxCount

(* Removes the key first, if it is there: the last conjunct is the          *)
(* assertion against a full table, which clients do not provoke.            *)
SetObject(k, v) ==
  LET present == Found(hash, k)
      removed == IF present THEN HashDelete(hash, k) ELSE hash
  IN /\ InUse
     /\ hash' \in HashInsert(removed, k, v)
     /\ refs' = [refs EXCEPT ![k] = IF present THEN @ ELSE @ + 1]
     /\ Disturb
     /\ UNCHANGED <<holders, phase>>
     /\ removed.nodecount # MaxCount

KeyEnumerator ==
  /\ InUse
  /\ "enumerator" \notin holders
  /\ holders' = holders \cup {"enumerator"}
  /\ scan' = HashScanBegin(hash)
  /\ pending' = KeysIn(hash)
  /\ UNCHANGED <<hash, phase, refs>>

NextObject ==
  /\ "enumerator" \in holders
  /\ scan.next # NoKey
  /\ scan' = HashScanNext(hash, scan)
  /\ pending' = pending \ {scan.next}
  /\ UNCHANGED <<hash, holders, phase, refs>>

(* The first release of the last holder begins dealloc. *)
Release(holder) ==
  /\ holder \in holders
  /\ phase = "live"
  /\ holders' = holders \ {holder}
  /\ IF holders' = {}
       THEN /\ phase' = "dealloc"
            /\ scan' = HashScanBegin(hash)
            /\ pending' = KeysIn(hash)
       ELSE /\ phase' = phase
            /\ IF holder = "enumerator"
                 THEN scan' = NoScan /\ pending' = {}
                 ELSE UNCHANGED <<scan, pending>>
  /\ UNCHANGED <<hash, refs>>

(* One turn of dealloc's loop: the scan moves on before the node goes. *)
DeallocNode ==
  /\ phase = "dealloc"
  /\ scan.next # NoKey
  /\ scan' = HashScanNext(hash, scan)
  /\ hash' = HashScanDelete(hash, scan.next)
  /\ refs' = [refs EXCEPT ![scan.next] = @ - 1]
  /\ pending' = pending \ {scan.next}
  /\ UNCHANGED <<holders, phase>>

(* hash_destroy, which asserts that the table is empty *)
HashDestroy ==
  /\ phase = "dealloc"
  /\ scan.next = NoKey
  /\ phase' = "freed"
  /\ UNCHANGED <<hash, scan, pending, holders, refs>>

Freed == phase = "freed" /\ UNCHANGED vars

Next ==
  \/ \E k \in Keys : RemoveObjectForKey(k)
  \/ \E s \in Settings : SetObject(s[1], s[2])
  \/ KeyEnumerator
  \/ NextObject
  \/ \E holder \in {"owner", "enumerator"} : Release(holder)
  \/ DeallocNode
  \/ HashDestroy
  \/ Freed

Spec == Init /\ [][Next]_vars
=============================================================================
