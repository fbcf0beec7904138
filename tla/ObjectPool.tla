----------------------------- MODULE ObjectPool -----------------------------
(***************************************************************************)
(* The life of objects in one thread: reference counts (TRObject.m), the   *)
(* pools that release later what is autoreleased (TRAutoreleasePool.m),    *)
(* and the arrays and their enumerators (TRArray.m), which hold references *)
(* of their own.                                                           *)
(*                                                                         *)
(* The client keeps to its duties: it uses what it owns, what is in a pool *)
(* or in an array it owns, gives up what it owns once, releases the        *)
(* innermost pool first, and takes nothing out of an array it enumerates.  *)
(* It may let go of such an array: objectEnumerator retains it.  But       *)
(* objectReverseEnumerator does not, and once the array is gone the node   *)
(* such an enumerator is at is freed memory: the client does not ask it    *)
(* for another object then (find_ldap_group enumerates an array that the   *)
(* configuration holds).  Autorelease without a pool is the run about      *)
(* PoolAvailable.                                                          *)
(***************************************************************************)
EXTENDS Integers, FiniteSets, SequencesExt

CONSTANTS
  Strings, Arrays, Enumerators,  \* the places for objects of each kind
  Nil,
  BUCKET_SIZE,   \* 1024 in the code
  MaxPools,      \* bound: pools in each other
  MaxEntries,    \* bound: autoreleased references
  MaxOwned,      \* bound: references of the client on one object
  MaxLength      \* bound: objects in an array

Objects == Strings \cup Arrays \cup Enumerators

ASSUME PoolAssumption ==
  /\ Strings \cap Arrays = {} /\ (Strings \cup Arrays) \cap Enumerators = {}
  /\ Nil \notin Objects
  /\ {BUCKET_SIZE, MaxPools, MaxEntries, MaxOwned, MaxLength} \subseteq Nat \ {0}

VARIABLES
  refCount,    \* _refCount, 0 for a place without an object
  list,        \* the _stack of each array, its top last; the bottom holds nil
  enumerator,  \* of each enumerator: _array, the array whose nodes _stack
               \* walks as long as they are there, order, node it is at
  poolStack,   \* the pools, the innermost last: their buckets, newest last
  flushing,    \* whether the innermost pool is in bucket_flush
  releases,    \* the objects that are sent release, the next one last
  owned,       \* history: the references the client has to give up
  returned     \* history: what each enumerator has returned

poolVars == <<refCount, list, enumerator, poolStack, flushing, releases, owned, returned>>

\* A node is its place in the list; 0 is NULL.
NoEnumerator ==
  [array |-> Nil, nodes |-> Nil, reverse |-> FALSE, stack |-> 0, count |-> 0]

PoolInit ==
  /\ refCount = [o \in Objects |-> 0]
  /\ list = [a \in Arrays |-> <<Nil>>]
  /\ enumerator = [e \in Enumerators |-> NoEnumerator]
  /\ poolStack = <<>>
  /\ flushing = FALSE
  /\ releases = <<>>
  /\ owned = [o \in Objects |-> 0]
  /\ returned = [e \in Enumerators |-> <<>>]

\* The places of the pools: the pool, its bucket, the place in the bucket.
Entries ==
  UNION {UNION {{<<p, b, i>> : i \in DOMAIN poolStack[p][b]} :
                b \in DOMAIN poolStack[p]} : p \in DOMAIN poolStack}

EntriesOf(o) == {x \in Entries : poolStack[x[1]][x[2]][x[3]] = o}

InClient == ~flushing /\ releases = <<>>

Usable(o) ==
  \/ owned[o] > 0
  \/ EntriesOf(o) # {}
  \/ \E a \in Arrays : owned[a] > 0 /\ o \in Range(list[a])

-----------------------------------------------------------------------------
(* TRObject.m *)

\* alloc and init
Allocate(o) ==
  /\ InClient
  /\ refCount[o] = 0 /\ o \notin Enumerators
  /\ refCount' = [refCount EXCEPT ![o] = 1]
  /\ owned' = [owned EXCEPT ![o] = 1]
  /\ UNCHANGED <<list, enumerator, poolStack, flushing, releases, returned>>

Retain(o) ==
  /\ InClient
  /\ Usable(o) /\ owned[o] < MaxOwned
  /\ refCount' = [refCount EXCEPT ![o] = @ + 1]
  /\ owned' = [owned EXCEPT ![o] = @ + 1]
  /\ UNCHANGED <<list, enumerator, poolStack, flushing, releases, returned>>

GiveUp(o) ==
  /\ InClient
  /\ owned[o] > 0
  /\ releases' = <<o>>
  /\ owned' = [owned EXCEPT ![o] = @ - 1]
  /\ UNCHANGED <<refCount, list, enumerator, poolStack, flushing, returned>>

\* What dealloc releases, the first one last: the nodes of an array from the
\* top, the _array of an enumerator, which is nil in a reverse one.
HeldBy(o) ==
  CASE o \in Arrays -> Tail(list[o])
    [] o \in Enumerators /\ enumerator[o].array # Nil -> <<enumerator[o].array>>
    [] OTHER -> <<>>

\* An enumerator after o was deallocated: itself, or its array with all nodes.
AfterDealloc(e, o) ==
  IF e = o THEN NoEnumerator
  ELSE IF enumerator[e].nodes = o THEN [enumerator[e] EXCEPT !.nodes = Nil]
  ELSE enumerator[e]

\* release, which deallocates the object with its last reference.  A release
\* within a dealloc is done before the next one is sent.
SendRelease ==
  /\ releases # <<>>
  /\ LET o == Last(releases)
         last == refCount[o] = 1
     IN  /\ refCount' = [refCount EXCEPT ![o] = @ - 1]
         /\ releases' = Front(releases) \o (IF last THEN HeldBy(o) ELSE <<>>)
         /\ list' = [a \in Arrays |-> IF last /\ a = o THEN <<Nil>> ELSE list[a]]
         /\ enumerator' = [e \in Enumerators |->
                             IF last THEN AfterDealloc(e, o) ELSE enumerator[e]]
         /\ returned' = [e \in Enumerators |->
                           IF last /\ e = o THEN <<>> ELSE returned[e]]
  /\ UNCHANGED <<poolStack, flushing, owned>>

-----------------------------------------------------------------------------
(* TRAutoreleasePool.m *)

NewPool ==
  /\ InClient
  /\ Len(poolStack) < MaxPools
  /\ poolStack' = Append(poolStack, << <<>> >>)
  /\ UNCHANGED <<refCount, list, enumerator, flushing, releases, owned, returned>>

(* Mutation: the new bucket is not linked to the full one. *)
WithEntry_Unlinked(buckets, o) ==
  IF Len(Last(buckets)) = BUCKET_SIZE
  THEN << <<o>> >>
  ELSE [buckets EXCEPT ![Len(buckets)] = Append(@, o)]

\* addObject: a full bucket gets a new one in front of it.
WithEntry(buckets, o) ==
  IF Len(Last(buckets)) = BUCKET_SIZE
  THEN Append(buckets, <<o>>)
  ELSE [buckets EXCEPT ![Len(buckets)] = Append(@, o)]

AddToPool(o) ==
  /\ poolStack # <<>>
  /\ Cardinality(Entries) < MaxEntries
  /\ poolStack' = [poolStack EXCEPT ![Len(poolStack)] = WithEntry(@, o)]

Autorelease(o) ==
  /\ InClient
  /\ owned[o] > 0
  /\ AddToPool(o)
  /\ owned' = [owned EXCEPT ![o] = @ - 1]
  /\ UNCHANGED <<refCount, list, enumerator, flushing, releases, returned>>

ReleasePool ==
  /\ InClient
  /\ poolStack # <<>>
  /\ flushing' = TRUE
  /\ UNCHANGED <<refCount, list, enumerator, poolStack, releases, owned, returned>>

\* bucket_flush: bucket by bucket, each from its first entry
FlushEntry ==
  /\ flushing /\ releases = <<>>
  /\ LET pool == Len(poolStack)
         newest == Len(poolStack[pool])
         bucket == poolStack[pool][newest]
     IN  /\ bucket # <<>>
         /\ releases' = <<Head(bucket)>>
         /\ poolStack' = [poolStack EXCEPT ![pool][newest] = Tail(@)]
  /\ UNCHANGED <<refCount, list, enumerator, flushing, owned, returned>>

\* The next bucket, or the end of dealloc: the pool is popped.
FreeBucket ==
  /\ flushing /\ releases = <<>>
  /\ LET pool == Len(poolStack)
         buckets == poolStack[pool]
     IN  /\ Last(buckets) = <<>>
         /\ flushing' = (Len(buckets) > 1)
         /\ poolStack' = IF flushing' THEN [poolStack EXCEPT ![pool] = Front(@)]
                         ELSE Front(poolStack)
  /\ UNCHANGED <<refCount, list, enumerator, releases, owned, returned>>

-----------------------------------------------------------------------------
(* TRArray.m *)

AddObject(a, o) ==
  /\ InClient
  /\ owned[a] > 0 /\ Usable(o)
  /\ Len(list[a]) <= MaxLength
  /\ list' = [list EXCEPT ![a] = Append(@, o)]
  /\ refCount' = [refCount EXCEPT ![o] = @ + 1]
  /\ UNCHANGED <<enumerator, poolStack, flushing, releases, owned, returned>>

Enumerated(a) == \E e \in Enumerators : enumerator[e].nodes = a

RemoveObject(a) ==
  /\ InClient
  /\ owned[a] > 0 /\ Len(list[a]) > 1
  /\ ~Enumerated(a)
  /\ releases' = <<Last(list[a])>>
  /\ list' = [list EXCEPT ![a] = Front(@)]
  /\ UNCHANGED <<refCount, enumerator, poolStack, flushing, owned, returned>>

(* Mutation: the last node before NULL is the bottom itself. *)
FirstNode_Bottom(a, reverse) == IF reverse THEN 1 ELSE Len(list[a])

\* The top, or the node before the bottom.
FirstNode(a, reverse) ==
  IF ~reverse THEN Len(list[a]) ELSE IF Len(list[a]) > 1 THEN 2 ELSE 0

\* objectEnumerator and objectReverseEnumerator.  The initWithArray: of the
\* latter calls that of TREnumerator, not the one that retains the array.
\* count is for the properties.
Enumerate(a, e, reverse) ==
  /\ InClient
  /\ Usable(a) /\ refCount[e] = 0
  /\ refCount' = IF reverse THEN [refCount EXCEPT ![e] = 1]
                 ELSE [refCount EXCEPT ![e] = 1, ![a] = @ + 1]
  /\ enumerator' = [enumerator EXCEPT ![e] =
       [array |-> IF reverse THEN Nil ELSE a, nodes |-> a, reverse |-> reverse,
        stack |-> FirstNode(a, reverse), count |-> Len(list[a]) - 1]]
  /\ AddToPool(e)
  /\ UNCHANGED <<list, flushing, releases, owned, returned>>

\* The node after the one an enumerator is at.
NextNode(e) ==
  LET at == enumerator[e].stack
  IN  IF ~enumerator[e].reverse THEN at - 1
      ELSE IF at < Len(list[enumerator[e].nodes]) THEN at + 1 ELSE 0

EnumeratorNext(e) ==
  /\ InClient
  /\ Usable(e) /\ enumerator[e].stack # 0
  /\ enumerator[e].nodes # Nil
  /\ LET it == enumerator[e]
     IN  returned' = [returned EXCEPT ![e] = Append(@, list[it.nodes][it.stack])]
  /\ enumerator' = [enumerator EXCEPT ![e].stack = NextNode(e)]
  /\ UNCHANGED <<refCount, list, poolStack, flushing, releases, owned>>

PoolNext ==
  \/ \E o \in Objects : Allocate(o) \/ Retain(o) \/ GiveUp(o) \/ Autorelease(o)
  \/ SendRelease
  \/ NewPool \/ ReleasePool \/ FlushEntry \/ FreeBucket
  \/ \E a \in Arrays, o \in Strings : AddObject(a, o)
  \/ \E a \in Arrays : RemoveObject(a)
  \/ \E a \in Arrays, e \in Enumerators, reverse \in BOOLEAN : Enumerate(a, e, reverse)
  \/ \E e \in Enumerators : EnumeratorNext(e)
=============================================================================
