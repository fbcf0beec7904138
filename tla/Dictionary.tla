----------------------------- MODULE Dictionary -----------------------------
(***************************************************************************)
(* What TRHash promises to who uses it: a map of which one entry at a time *)
(* is set or removed, whatever happens to the table behind it.             *)
(***************************************************************************)
CONSTANTS
  Keys, Values,
  Nil   \* what valueForKey returns for a key without a value

VARIABLE map

Init == map = [k \in Keys |-> Nil]

Assigned(m) == {[m EXCEPT ![k] = v] : k \in Keys, v \in Values \cup {Nil}}

Next == map' \in Assigned(map)

Spec == Init /\ [][Next]_map
=============================================================================
