------------------------------ MODULE AssocTable ------------------------------
(***************************************************************************)
(* The associative arrays of lemon ("aagen" code, x1 to x4 in              *)
(* tools/lemon.c, four copies of the same text): the keys of the data in   *)
(* the order they came in, and hash chains of their numbers.  The keys of  *)
(* a chain differ, so that its order does not matter: it is a set.         *)
(***************************************************************************)
EXTENDS Integers, Sequences

CONSTANT Hash(_)

NewTable(size) ==
  [size |-> size, tbl |-> <<>>, ht |-> [h \in 0..size - 1 |-> {}]]

\* Hash & (size - 1), as the size is a power of 2.
Slot(t, key) == Hash(key) % t.size

Chain(t, key) == {i \in t.ht[Slot(t, key)] : t.tbl[i] = key}

Found(t, key) == Chain(t, key) # {}
Lookup(t, key) == CHOOSE i \in Chain(t, key) : TRUE

\* Twice the size, everything hashed again.
Doubled_SameChains(t) ==
  [size |-> 2 * t.size, tbl |-> t.tbl,
   ht |-> [h \in 0..2 * t.size - 1 |-> IF h < t.size THEN t.ht[h] ELSE {}]]

Doubled(t) ==
  [size |-> 2 * t.size, tbl |-> t.tbl,
   ht |-> [h \in 0..2 * t.size - 1 |->
             {i \in DOMAIN t.tbl : Hash(t.tbl[i]) % (2 * t.size) = h}]]

\* Data with the same key is not overwritten.
Appended(t, key) ==
  [size |-> t.size, tbl |-> Append(t.tbl, key),
   ht |-> [t.ht EXCEPT ![Slot(t, key)] = @ \cup {Len(t.tbl) + 1}]]

Inserted(t, key) ==
  IF Found(t, key) THEN t
  ELSE Appended(IF Len(t.tbl) >= t.size THEN Doubled(t) ELSE t, key)
=============================================================================
