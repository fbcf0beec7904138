----------------------------- MODULE ActionTable -----------------------------
(***************************************************************************)
(* The yy_action table of lemon ("acttab" in tools/lemon.c): the sets of   *)
(* actions of all states, overlaid in one array.  A set is a transaction,  *)
(* a function from lookaheads to actions.  It is found again from the      *)
(* offset that was added to its lookaheads; a slot remembers its lookahead *)
(* so that a state does not take the action of another one for its own.    *)
(***************************************************************************)
EXTENDS Integers, FiniteSets

CONSTANT Slack   \* the slots a growth allocates in excess, 20 in the code

ASSUME SlackAssumption == Slack \in Nat

\* struct lookahead_action; what acttab_insert writes into new slots.
Free == [lookahead |-> -1, action |-> -1]

\* struct acttab between two insertions: aLookahead[] is empty then.
EmptyTable == [slot |-> [k \in {} |-> Free], nAction |-> 0, nActionAlloc |-> 0]

Least(S) == CHOOSE x \in S : \A y \in S : x <= y
Greatest(S) == CHOOSE x \in S : \A y \in S : x >= y

\* acttab_action keeps the least and the greatest lookahead of the set.
MnLookahead(set) == Least(DOMAIN set)
MxLookahead(set) == Greatest(DOMAIN set)

\* The slot of lookahead la when the least one of the set goes to slot i.
Place(set, la, i) == la - MnLookahead(set) + i

\* Room for the set behind everything else.
Grown(t, set) ==
  LET n == MxLookahead(set) + 1
      alloc == t.nAction + n + t.nActionAlloc + Slack
  IN  IF t.nAction + n < t.nActionAlloc THEN t
      ELSE [slot |-> [k \in 0..alloc - 1 |->
                        IF k < t.nActionAlloc THEN t.slot[k] ELSE Free],
            nAction |-> t.nAction, nActionAlloc |-> alloc]

\* Slots a state with this offset takes for its own.
Answering(t, set, i) ==
  {j \in 0..t.nAction - 1 : /\ t.slot[j].lookahead >= 0
                            /\ t.slot[j].lookahead = j + MnLookahead(set) - i}

\* The set is in the table already, at i, and nothing else answers there.
Duplicate(t, set, i) ==
  /\ \A la \in DOMAIN set :
       LET k == Place(set, la, i)
       IN  /\ k \in 0..t.nAction - 1
           /\ t.slot[k] = [lookahead |-> la, action |-> set[la]]
  /\ Cardinality(Answering(t, set, i)) = Cardinality(DOMAIN set)

\* The set fits into free slots at i, and nothing answers there; this time a
\* free slot counts, if the lookahead it would have is -1.
Fits(t, set, i) ==
  \A la \in DOMAIN set :
    LET k == Place(set, la, i)
    IN  k >= 0 /\ t.slot[k].lookahead < 0

Hole_AnyFree(t, set, i) == Fits(t, set, i)

Hole(t, set, i) ==
  /\ Fits(t, set, i)
  /\ \A j \in 0..t.nAction - 1 : t.slot[j].lookahead # j + MnLookahead(set) - i

\* The last duplicate, else the first hole, else where the search stops.
PlaceOf(t, set) ==
  LET duplicates == {i \in 0..t.nAction - 1 : Duplicate(t, set, i)}
      bound == t.nActionAlloc - MxLookahead(set)
      holes == {i \in 0..bound - 1 : Hole(t, set, i)}
  IN  IF duplicates # {} THEN Greatest(duplicates)
      ELSE IF holes # {} THEN Least(holes)
      ELSE bound

\* Writes the set at i.
Written(t, set, i) ==
  LET places == {Place(set, la, i) : la \in DOMAIN set}
  IN  [slot |-> [k \in DOMAIN t.slot |->
                   IF k \in places
                   THEN LET la == k - i + MnLookahead(set)
                        IN  [lookahead |-> la, action |-> set[la]]
                   ELSE t.slot[k]],
       nAction |-> Greatest(places \cup {t.nAction - 1}) + 1,
       nActionAlloc |-> t.nActionAlloc]

\* acttab_insert: the table, and the offset to be added to a lookahead.
Insert(t, set) ==
  LET g == Grown(t, set)
      i == PlaceOf(g, set)
  IN  [table |-> Written(g, set, i), offset |-> i - MnLookahead(set)]

\* How the engine reads the table.
NoEntry == -1

LookUp(t, offset, la) ==
  LET k == offset + la
  IN  IF k \in 0..t.nAction - 1 /\ t.slot[k].lookahead = la
      THEN t.slot[k].action ELSE NoEntry
=============================================================================
