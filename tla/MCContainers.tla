---------------------------- MODULE MCContainers ----------------------------
(***************************************************************************)
(* A table of INIT_SIZE 2 and nine keys: enough to grow twice and, as a    *)
(* table only shrinks while it holds more than INIT_SIZE nodes, to shrink  *)
(* again.  One key is set to two values.  And two strings, an array and an *)
(* enumerator in at most two pools, whose buckets hold one entry.          *)
(***************************************************************************)
EXTENDS ContainerProps

CONSTANTS a, b

CONSTANTS s, t

StringSymmetry == Permutations({s, t})

MCKeys == 1..9

MCHashOf == [k \in MCKeys |-> k]

MCSettings == (MCKeys \X {a}) \cup {<<1, b>>}
=============================================================================
