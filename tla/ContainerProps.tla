--------------------------- MODULE ContainerProps ---------------------------
(***************************************************************************)
(* The classes everything else is made of: a behaviour is that of one      *)
(* TRHash, or that of a thread with arrays, enumerators and pools, which   *)
(* share nothing but the count in each object.                             *)
(***************************************************************************)
EXTENDS HashProps, ObjectPool

VARIABLE subject  \* which of the two

containerVars == <<subject, vars, poolVars>>

ContainerInit ==
  /\ subject \in {"hash", "objects"}
  /\ Init
  /\ PoolInit

ContainerNext ==
  /\ subject' = subject
  /\ \/ subject = "hash" /\ Next /\ UNCHANGED poolVars
     \/ subject = "objects" /\ PoolNext /\ UNCHANGED vars

ContainerSpec == ContainerInit /\ [][ContainerNext]_containerVars

-----------------------------------------------------------------------------
\* The nodes of the arrays.
ArrayNodes == UNION {{<<a, i>> : i \in DOMAIN list[a]} : a \in Arrays}

NodesOf(o) == {x \in ArrayNodes : list[x[1]][x[2]] = o}

ReleasesOf(o) == {i \in DOMAIN releases : releases[i] = o}

EnumeratorsOf(o) == {e \in Enumerators : enumerator[e].array = o}

(* The count of an object is the number of references to it that somebody   *)
(* will give up: the client, each entry in a bucket of a pool, each node of *)
(* an array, each enumerator that has retained its array, and the releases  *)
(* that have been sent.  So it is there as long as any of these has it, is  *)
(* deallocated with the last reference, once, and release never meets the   *)
(* count of 0 it asserts against (TRObject.m:128), also for an entry in a   *)
(* full bucket, for an array whose owner lets go of it while objects are    *)
(* enumerated forward, and for one object several times in pools within     *)
(* pools.  A reverse enumerator has no reference to give up, and its array  *)
(* may be deallocated under it.                                             *)
CountsExact ==
  \A o \in Objects :
    refCount[o] =
      owned[o] + Cardinality(EntriesOf(o)) + Cardinality(ReleasesOf(o))
      + Cardinality(NodesOf(o)) + Cardinality(EnumeratorsOf(o))

(* An enumerator returns the nodes one after the other, from the first one  *)
(* added on (reverse), or from the one added last when it was made; so when *)
(* it says nil it has returned each object that was in the array then, once *)
(* and in order, which is what find_ldap_group relies on to walk groups as  *)
(* they are configured.  Objects added meanwhile come last or not at all.   *)
(* A forward one always has its array, whoever lets go of it; a reverse one *)
(* has it as long as somebody else does, and nothing is said of it after.   *)
EnumeratorsExact ==
  \A e \in Enumerators :
    LET it == enumerator[e]
        nodes == list[it.nodes]
        objects == returned[e]
    IN  /\ refCount[e] > 0 /\ ~it.reverse => it.nodes # Nil /\ refCount[it.nodes] > 0
        /\ refCount[e] > 0 /\ it.nodes # Nil =>
          /\ Len(objects) <= IF it.reverse THEN Len(nodes) - 1 ELSE it.count + 1
          /\ \A i \in DOMAIN objects :
               objects[i] = nodes[IF it.reverse THEN i + 1 ELSE it.count + 2 - i]
          /\ it.stack = 0 => Len(objects) >= it.count
          /\ Nil \in Range(objects) => it.stack = 0
=============================================================================
