------------------------------ MODULE HashProps ------------------------------
(***************************************************************************)
(* What must hold of TRHash.                                               *)
(***************************************************************************)
EXTENDS HashTable

\* The places of the nodes: a chain and a place in it.
Places(h) == UNION {{<<c, i>> : i \in DOMAIN h.table[c]} : c \in DOMAIN h.table}

KeyAt(h, x) == h.table[x[1]][x[2]].key

(* What hash.c asserts after each operation, by hash_verify: the marks are  *)
(* in order, each node is in the chain of its hash value, and nodecount     *)
(* counts the nodes, of which no two have one key, as hash_insert asserts.  *)
(* The marks also stay at twice and half the number of chains, as           *)
(* hash_create sets them, and the table never gets below its first size.    *)
HashVerify ==
  /\ hash.highmark = 2 * hash.nchains
  /\ hash.lowmark = hash.nchains \div 2
  /\ hash.nchains >= InitSize
  /\ \A x \in Places(hash) : ChainOf(hash, KeyAt(hash, x)) = x[1]
  /\ hash.nodecount = Cardinality(Places(hash))
  /\ hash.nodecount = Cardinality({KeyAt(hash, x) : x \in Places(hash)})

(* Setting or removing one key, whether or not the table grows, shrinks or  *)
(* fails to grow on the way, changes what a lookup finds for that key and   *)
(* for no other; and dealloc takes out one key after the other.             *)
D == INSTANCE Dictionary
       WITH Nil <- NoKey, map <- [k \in Keys |-> ValueForKey(k)]

ImplementsDictionary == D!Spec

(* An enumeration during which the table is not changed returns each key    *)
(* exactly once, and so does the scan of dealloc although dealloc deletes   *)
(* each node it is given: the next key is always one still to be returned,  *)
(* and there is none only when all have been.                               *)
ScanExact ==
  ("enumerator" \in holders \/ phase = "dealloc") /\ scan # StaleScan =>
     IF pending = {} THEN scan.next = NoKey ELSE scan.next \in pending

(* The hash holds one reference on each key and value that is in it, none   *)
(* on others, and when it is freed none at all: nothing is leaked or        *)
(* released twice, by replacement, removal, growth or dealloc. The table    *)
(* that hash_destroy frees is empty, as it asserts.                         *)
ReferencesBalanced ==
  /\ \A k \in Keys : refs[k] = Cardinality({x \in Places(hash) : KeyAt(hash, x) = k})
  /\ phase = "freed" => hash.nodecount = 0 /\ \A k \in Keys : refs[k] = 0
=============================================================================
