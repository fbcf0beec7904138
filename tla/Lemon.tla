-------------------------------- MODULE Lemon --------------------------------
(***************************************************************************)
(* The parser generator of tools/lemon.c, from the grammar LemonInput has  *)
(* read to the tables of the parser it writes.  The passes are those of    *)
(* main(), one phase each:                                                 *)
(*                                                                         *)
(*   symbols, lambda, first, start, states, links, follow, actions,        *)
(*   conflicts, compress, resort, table, write                             *)
(*                                                                         *)
(* A symbol on a right-hand side is a sequence of names.  A configuration  *)
(* is <<rule, dot>>; a state is its number in the order of State_new, from *)
(* 1; a node of the propagation graph is <<state, configuration>>.         *)
(***************************************************************************)
EXTENDS LemonInput, ParserTables, ActionTable, SequencesExt

\* msort and qsort: the elements of S, the least key first.
LexLess(k, l) ==
  \E i \in DOMAIN k : k[i] < l[i] /\ \A j \in 1..i - 1 : k[j] = l[j]

SortByKey(S, key) ==
  SortSeq(FoldSet(LAMBDA x, seq : Append(seq, x), <<>>, S),
          LAMBDA x, y : LexLess(key[x], key[y]))

\* statehash: the basis in order; what the lowest 16 bits are made from.
StateHash(basis) ==
  FoldLeft(LAMBDA h, c : (h * 571 + (c[1] - 1) * 37 + c[2]) % 65536, 0,
           SortByKey(basis, [c \in basis |-> c]))

StateTable == INSTANCE AssocTable WITH Hash <- StateHash

VARIABLES
  lem,     \* struct lemon, as far as the passes fill it in
  states,  \* the states found: [basis, cfp], sets of configurations
  frames,  \* the calls of buildshifts under way: [state, todo]
  acts,    \* for each state its actions in order: [sp, type, x, age]
  fws,     \* the follow set of every node
  fplp,    \* follow-set links <<from, to>>
  bplp,    \* follow-set links <<to, from>>
  todo,    \* the nodes that are INCOMPLETE, and the last one visited
  acttab   \* the table under construction, the offsets, the sets to insert

links == <<fws, fplp, bplp, todo>>
automaton == <<states, frames, acts, links, acttab>>
lemonVars == <<inputVars, lem, automaton, parser>>

EmptyAutomaton ==
  /\ states = <<>> /\ frames = <<>> /\ acts = <<>>
  /\ fws = [n \in {} |-> {}] /\ fplp = {} /\ bplp = {}
  /\ todo = [incomplete |-> {}, last |-> <<0, <<0, 0>>>>]
  /\ acttab = [table |-> EmptyTable, ofst |-> [s \in {} |-> 0], sets |-> <<>>]

NoParser == [states |-> 0]

LemonInit(files) ==
  /\ InputInit(files)
  /\ lem = [sorted |-> <<>>, nterminal |-> 0, prec |-> <<>>, lambda |-> {},
            index |-> [x \in {} |-> 0], first |-> [x \in {} |-> {}],
            start |-> None, table |-> StateTable!NewTable(TableSize),
            order |-> <<>>, errorcnt |-> 0, nconflict |-> 0]
  /\ EmptyAutomaton
  /\ parser = NoParser

Pass(from, to) == phase = from /\ phase' = to /\ UNCHANGED <<input, ps, gp>>

Rules == DOMAIN gp.rules
Rhs(r) == gp.rules[r].rhs

Multi(sym) == Len(sym) > 1
Terminal(sym) == ~Multi(sym) /\ sym[1] \in UpperNames
Nonterminal(sym) == Len(sym) = 1 /\ sym[1] \notin UpperNames

-----------------------------------------------------------------------------
(* Symbols, precedences, first sets *)

\* Symbolcmpp: capitals and "$" first, else as created.
Capital(s) == s.name \in UpperNames \cup {"$"}

SortedSymbols ==
  SelectSeq(gp.symbols, Capital) \o SelectSeq(gp.symbols, LAMBDA s : ~Capital(s))

\* FindRulePrecedences: a rule without a symbol of its own takes the first one
\* of its right-hand side that has a precedence.
RulePrecedence(r) ==
  LET named == gp.rules[r].precsym
      chain == FlattenSeq(Rhs(r))
      given == {i \in DOMAIN chain : Symbol(chain[i]).prec >= 0}
  IN  IF named # None THEN named
      ELSE IF given = {} THEN None ELSE chain[Least(given)]

SortSymbols ==
  LET order == SortedSymbols
  IN
  /\ Pass("symbols", "lambda")
  /\ lem' = [lem EXCEPT
               !.sorted = [i \in DOMAIN order |-> order[i].name],
               !.index = [x \in Names |->
                            (CHOOSE i \in DOMAIN order : order[i].name = x) - 1],
               !.nterminal = Cardinality({i \in DOMAIN order : Capital(order[i])}),
               !.first = [x \in Names \ (UpperNames \cup {"$"}) |-> {}],
               !.prec = [r \in Rules |-> RulePrecedence(r)]]
  /\ UNCHANGED <<automaton, parser>>

nsymbol == Len(lem.sorted)

Index(name) == IF name = "{default}" THEN nsymbol ELSE lem.index[name]

Nullable(sym, lambda) == Len(sym) = 1 /\ sym[1] \in lambda

LambdaPass ==
  LET lambda == FoldLeft(LAMBDA done, rp :
                           IF \A i \in DOMAIN rp.rhs : Nullable(rp.rhs[i], done)
                           THEN done \cup {rp.lhs} ELSE done,
                         lem.lambda, gp.rules)
  IN
  /\ Pass("lambda", IF lambda = lem.lambda THEN "first" ELSE "lambda")
  /\ lem' = [lem EXCEPT !.lambda = lambda]
  /\ UNCHANGED <<automaton, parser>>

\* The first set of the part of a right-hand side behind position i, and
\* whether all of it can be empty.
AllNullable_LastOnly(rhs, i, lambda) == i = Len(rhs)

AllNullable(rhs, i, lambda) == \A j \in i + 1..Len(rhs) : Nullable(rhs[j], lambda)

FirstOf(rhs, i, first, lambda) ==
  UNION {IF Nonterminal(rhs[j]) THEN first[rhs[j][1]] ELSE Range(rhs[j]) :
           j \in {k \in i + 1..Len(rhs) :
                    \A l \in i + 1..k - 1 : Nullable(rhs[l], lambda)}}

FirstPass ==
  LET first == FoldLeft(LAMBDA done, rp :
                          [done EXCEPT ![rp.lhs] =
                             @ \cup FirstOf(rp.rhs, 0, done, lem.lambda)],
                        lem.first, gp.rules)
  IN
  /\ Pass("first", IF first = lem.first THEN "start" ELSE "first")
  /\ lem' = [lem EXCEPT !.first = first]
  /\ UNCHANGED <<automaton, parser>>

-----------------------------------------------------------------------------
(* States *)

AfterDot(c) == Rhs(c[1])[c[2] + 1]
Complete(c) == c[2] = Len(Rhs(c[1]))
Advanced(c) == <<c[1], c[2] + 1>>
SameSymbol(c, d) == AfterDot(c) = AfterDot(d)

\* The rules a configuration predicts.
Predicts(c) ==
  IF Complete(c) \/ ~Nonterminal(AfterDot(c)) THEN {}
  ELSE {r \in Rules : gp.rules[r].lhs = AfterDot(c)[1]}

\* Configlist_closure: the configurations ...
RECURSIVE Closure(_)
Closure(S) ==
  LET more == {<<r, 0>> : r \in UNION {Predicts(c) : c \in S}}
  IN  IF more \subseteq S THEN S ELSE Closure(S \cup more)

\* ... the symbols that follow the rules they predict ...
Following(S, r) ==
  UNION {FirstOf(Rhs(c[1]), c[2] + 1, lem.first, lem.lambda) :
           c \in {d \in S : r \in Predicts(d)}}

\* ... the links to the rules that what follows them follows ...
Propagates(S) ==
  UNION {{<<c, <<r, 0>>>> : r \in Predicts(c)} :
           c \in {d \in S : AllNullable(Rhs(d[1]), d[2] + 1, lem.lambda)}}

\* ... and an error for each that expects a nonterminal without rules.
Ruleless(S) ==
  {c \in S : /\ ~Complete(c) /\ Nonterminal(AfterDot(c)) /\ Predicts(c) = {}
             /\ AfterDot(c) # <<"error">>}

\* getstate() when no state has the basis: it becomes state n, its basis
\* configurations start with the follow set seed, and it has no actions yet.
NewState(n, basis, seed, actions) ==
  LET cfp == Closure(basis)
  IN
  /\ states' = Append(states, [basis |-> basis, cfp |-> cfp])
  /\ acts' = Append(actions, <<>>)
  /\ fws' = [m \in DOMAIN fws \cup {<<n, c>> : c \in cfp} |->
               IF m \in DOMAIN fws THEN fws[m]
               ELSE (IF m[2] \in basis THEN seed ELSE {})
                    \cup (IF m[2][2] = 0 THEN Following(cfp, m[2][1]) ELSE {})]
  /\ fplp' = fplp \cup {<<<<n, l[1]>>, <<n, l[2]>>>> : l \in Propagates(cfp)}
  /\ lem' = [lem EXCEPT !.errorcnt = @ + Cardinality(Ruleless(cfp)),
                        !.table = StateTable!Inserted(@, basis)]

\* FindStates up to its call of getstate.
StartArg == <<"start_symbol", None>>
StartNames ==
  IF StartArg \in DOMAIN gp.args THEN gp.args[StartArg] ELSE <<gp.rules[1].lhs>>
StartKnown == Len(StartNames) = 1 /\ SymbolFound(StartNames[1])

FindStart ==
  LET start == IF StartKnown THEN StartNames[1] ELSE gp.rules[1].lhs
      uses == {<<r, i>> \in Rules \X (1..MaxRhs) :
                 i \in DOMAIN Rhs(r) /\ Rhs(r)[i] = <<start>>}
  IN
  /\ Pass("start", "basis")
  /\ lem' = [lem EXCEPT !.start = start,
                        !.errorcnt = @ + Cardinality(uses)
                                       + (IF StartKnown THEN 0 ELSE 1)]
  /\ UNCHANGED <<automaton, parser>>

StartRules == {r \in Rules : gp.rules[r].lhs = lem.start}

FirstState ==
  /\ Pass("basis", "states")
  /\ NewState(1, {<<r, 0>> : r \in StartRules}, {"$"}, <<>>)
  /\ frames' = <<[state |-> 1, todo |-> states'[1].cfp]>>
  /\ UNCHANGED <<bplp, todo, acttab, parser>>

\* Configcmp.
Before(c, d) == c[1] < d[1] \/ (c[1] = d[1] /\ c[2] <= d[2])

frame == Last(frames)
Open == {c \in frame.todo : ~Complete(c)}

ShiftActions(state, sym, target) ==
  LET n == Len(acts[state])
  IN  [i \in DOMAIN sym |-> [sp |-> sym[i], type |-> "SHIFT", x |-> target, age |-> n + i]]

\* getstate: a state with this basis.
Known(basis) == StateTable!Found(lem.table, basis)

\* A turn of the loop of buildshifts, with the call of getstate.
BuildShift ==
  /\ phase = "states" /\ frames # <<>> /\ Open # {}
  /\ LET c == CHOOSE d \in Open : \A e \in Open : Before(d, e)
         group == {d \in Open : SameSymbol(d, c)}
         basis == {Advanced(d) : d \in group}
         known == Known(basis)
         target == IF known THEN StateTable!Lookup(lem.table, basis) ELSE Len(states) + 1
         rest == [frames EXCEPT ![Len(frames)].todo = @ \ group]
         shifted == [acts EXCEPT ![frame.state] =
                       @ \o ShiftActions(frame.state, AfterDot(c), target)]
     IN
     /\ bplp' = bplp \cup {<<<<target, Advanced(d)>>, <<frame.state, d>>>> : d \in group}
     /\ \/ /\ known
           /\ frames' = rest
           /\ acts' = shifted
           /\ UNCHANGED <<states, fws, fplp, lem>>
        \/ /\ ~known
           /\ NewState(target, basis, {}, shifted)
           /\ frames' = Append(rest, [state |-> target, todo |-> states'[target].cfp])
  /\ UNCHANGED <<inputVars, todo, acttab, parser>>

ReturnState ==
  /\ phase = "states" /\ frames # <<>> /\ Open = {}
  /\ frames' = Front(frames)
  /\ phase' = IF Len(frames) = 1 THEN "links" ELSE "states"
  /\ UNCHANGED <<input, ps, gp, lem, states, acts, links, acttab, parser>>

-----------------------------------------------------------------------------
(* Follow sets *)

FindLinks ==
  /\ Pass("links", "follow")
  /\ fplp' = fplp \cup {<<l[2], l[1]>> : l \in bplp}
  /\ todo' = [todo EXCEPT !.incomplete = DOMAIN fws]
  /\ UNCHANGED <<lem, states, frames, acts, fws, bplp, acttab, parser>>

\* The passes visit the nodes state by state, the configurations sorted, and
\* skip those that are COMPLETE.
NodeLess(m, n) == m[1] < n[1] \/ (m[1] = n[1] /\ m # n /\ Before(m[2], n[2]))

NextNode ==
  LET later == {n \in todo.incomplete : NodeLess(todo.last, n)}
      from == IF later # {} THEN later ELSE todo.incomplete
  IN  CHOOSE n \in from : \A m \in from : m = n \/ NodeLess(n, m)

\* One node hands its set on along its links; whoever changes is INCOMPLETE
\* again.
Heirs(n) == {l[2] : l \in {k \in fplp : k[1] = n}}

Changed(n) == {m \in Heirs(n) : ~(fws[n] \subseteq fws[m])}

FollowStep ==
  LET n == NextNode
      changed == Changed(n)
  IN
  /\ todo.incomplete # {}
  /\ Pass("follow", "follow")
  /\ fws' = [m \in DOMAIN fws |-> IF m \in changed THEN fws[m] \cup fws[n] ELSE fws[m]]
  /\ todo' = [incomplete |-> (todo.incomplete \cup changed) \ {n}, last |-> n]
  /\ UNCHANGED <<lem, states, frames, acts, fplp, bplp, acttab, parser>>

-----------------------------------------------------------------------------
(* Actions and conflicts *)

\* enum e_action, as actioncmp compares it.
Rank ==
  [SHIFT |-> 0, ACCEPT |-> 1, REDUCE |-> 2, ERROR |-> 3, SSCONFLICT |-> 4,
   SRCONFLICT |-> 5, RRCONFLICT |-> 6, SH_RESOLVED |-> 7, RD_RESOLVED |-> 8,
   NOT_USED |-> 9]

\* The younger of two actions, by its place in memory, comes first.
ActionKey(a) ==
  <<Index(a.sp), Rank[a.type], IF a.type = "REDUCE" THEN a.x ELSE 0, -a.age>>

ActionSort(actions) == SortByKey(actions, [a \in actions |-> ActionKey(a)])

Reductions(n) ==
  UNION {{[sp |-> t, type |-> "REDUCE", x |-> c[1], age |-> 0] : t \in fws[<<n, c>>]} :
           c \in {d \in states[n].cfp : Complete(d)}}

Accept == [sp |-> lem.start, type |-> "ACCEPT", x |-> 0, age |-> 0]

FindActions ==
  /\ todo.incomplete = {}
  /\ Pass("follow", "conflicts")
  /\ acts' = [n \in DOMAIN acts |->
                ActionSort(Range(acts[n]) \cup Reductions(n)
                             \cup (IF n = 1 THEN {Accept} ELSE {}))]
  /\ UNCHANGED <<lem, states, frames, links, acttab, parser>>

SymbolPrec(x) == IF x = None THEN -1 ELSE Symbol(x).prec

\* resolve_conflict: the types the two actions get, whether the conflict
\* counts, and whether the assertion of the last branch holds.
Verdict(apx, apy) == [x |-> apx, y |-> apy, conflict |-> 0, asserted |-> TRUE]

ShiftReduce_TieShifts(ap, nap) ==
  IF SymbolPrec(ap.sp) >= SymbolPrec(lem.prec[nap.x])
  THEN Verdict("SHIFT", "RD_RESOLVED") ELSE Verdict("SH_RESOLVED", "REDUCE")

ShiftReduce(ap, nap) ==
  LET shift == SymbolPrec(ap.sp)
      reduce == SymbolPrec(lem.prec[nap.x])
      assoc == Symbol(ap.sp).assoc
  IN  CASE shift >= 0 /\ reduce >= 0
           /\ (shift > reduce \/ (shift = reduce /\ assoc = "right")) ->
             Verdict("SHIFT", "RD_RESOLVED")
        [] shift >= 0 /\ reduce >= 0
           /\ (shift < reduce \/ (shift = reduce /\ assoc = "left")) ->
             Verdict("SH_RESOLVED", "REDUCE")
        [] OTHER -> [Verdict("SHIFT", "SRCONFLICT") EXCEPT !.conflict = 1]

ReduceReduce(ap, nap) ==
  LET first == SymbolPrec(lem.prec[ap.x])
      second == SymbolPrec(lem.prec[nap.x])
  IN  CASE first >= 0 /\ second >= 0 /\ first > second -> Verdict("REDUCE", "RD_RESOLVED")
        [] first >= 0 /\ second >= 0 /\ first < second -> Verdict("RD_RESOLVED", "REDUCE")
        [] OTHER -> [Verdict("REDUCE", "RRCONFLICT") EXCEPT !.conflict = 1]

Settled ==
  {"SH_RESOLVED", "RD_RESOLVED", "SSCONFLICT", "SRCONFLICT", "RRCONFLICT"}

Resolve(ap, nap) ==
  CASE ap.type = "SHIFT" /\ nap.type = "SHIFT" ->
         [Verdict("SHIFT", "SSCONFLICT") EXCEPT !.conflict = 1]
    [] ap.type = "SHIFT" /\ nap.type = "REDUCE" -> ShiftReduce(ap, nap)
    [] ap.type = "REDUCE" /\ nap.type = "REDUCE" -> ReduceReduce(ap, nap)
    [] OTHER -> [Verdict(ap.type, nap.type) EXCEPT
                   !.asserted = {ap.type, nap.type} \cap Settled # {}]

\* All pairs with the same lookahead, in the order of the two loops.
RECURSIVE ResolveAll(_, _)
ResolveAll(done, pairs) ==
  IF pairs = <<>> THEN done
  ELSE LET i == Head(pairs)[1]
           j == Head(pairs)[2]
           v == Resolve(done.list[i], done.list[j])
       IN  ResolveAll([list |-> [done.list EXCEPT ![i].type = v.x, ![j].type = v.y],
                       nconflict |-> done.nconflict + v.conflict,
                       asserted |-> done.asserted /\ v.asserted],
                      Tail(pairs))

Rivals(list) ==
  LET pairs == {p \in (DOMAIN list) \X (DOMAIN list) :
                  p[1] < p[2] /\ list[p[1]].sp = list[p[2]].sp}
  IN SortByKey(pairs, [p \in pairs |-> p])

ResolvedState(n) ==
  ResolveAll([list |-> acts[n], nconflict |-> 0, asserted |-> TRUE], Rivals(acts[n]))

\* Every rule that is never reduced is an error.
Reduced(actions) ==
  {a.x : a \in {b \in UNION {Range(actions[n]) : n \in DOMAIN actions} : b.type = "REDUCE"}}

FindConflicts ==
  LET resolved == [n \in DOMAIN acts |-> ResolvedState(n)]
      conflicts == MapThenSumSet(LAMBDA n : resolved[n].nconflict, DOMAIN acts)
      actions == [n \in DOMAIN acts |-> resolved[n].list]
  IN
  /\ Pass("conflicts",
          IF \A n \in DOMAIN acts : resolved[n].asserted THEN "compress" ELSE "abort")
  /\ acts' = actions
  /\ lem' = [lem EXCEPT !.nconflict = conflicts,
                        !.errorcnt = @ + Cardinality(Rules \ Reduced(actions))]
  /\ UNCHANGED <<states, frames, links, acttab, parser>>

-----------------------------------------------------------------------------
(* Tables *)

\* CompressTables for one state: its most frequent reduction becomes the
\* default, unless the wildcard is shifted there.
Reduces(a, r) == a.type = "REDUCE" /\ a.x = r

Frequency(list, r) == Cardinality({i \in DOMAIN list : Reduces(list[i], r)})

Candidates_StartToo(list) == {r \in Rules : Frequency(list, r) > 0}

Candidates(list) == {r \in Rules \ StartRules : Frequency(list, r) > 0}

Compressed(list) ==
  LET usesWildcard == \E i \in DOMAIN list :
                        list[i].type = "SHIFT" /\ list[i].sp = gp.wildcard
      first == [r \in Candidates(list) |->
                  Least({i \in DOMAIN list : Reduces(list[i], r)})]
      rbest == CHOOSE r \in Candidates(list) : \A q \in Candidates(list) :
                 \/ Frequency(list, r) > Frequency(list, q)
                 \/ Frequency(list, r) = Frequency(list, q) /\ first[r] <= first[q]
  IN  IF Candidates(list) = {} \/ usesWildcard THEN list
      ELSE ActionSort({IF i = first[rbest] THEN [list[i] EXCEPT !.sp = "{default}"]
                       ELSE IF Reduces(list[i], rbest)
                       THEN [list[i] EXCEPT !.type = "NOT_USED"] ELSE list[i] :
                         i \in DOMAIN list})

CompressTables ==
  /\ Pass("compress", "resort")
  /\ acts' = [n \in DOMAIN acts |-> Compressed(acts[n])]
  /\ UNCHANGED <<lem, states, frames, links, acttab, parser>>

\* The actions compute_action has a number for, by the kind of their symbol.
Effective(n) == {a \in Range(acts[n]) : a.type \in {"SHIFT", "REDUCE", "ACCEPT"}}

ActionSet(n, isTkn) ==
  {a \in Effective(n) : IF isTkn THEN Index(a.sp) < lem.nterminal
                        ELSE Index(a.sp) \in lem.nterminal..nsymbol - 1}

nstate == Len(states)
nrule == Len(gp.rules)

ComputeAction(a) ==
  CASE a.type = "SHIFT" -> (CHOOSE i \in 1..nstate : lem.order[i] = a.x) - 1
    [] a.type = "REDUCE" -> nstate + a.x - 1
    [] a.type = "ACCEPT" -> nstate + nrule + 1

DefaultAction(n) ==
  LET default == {a \in Effective(n) : a.sp = "{default}"}
  IN  IF default = {} THEN nstate + nrule
      ELSE ComputeAction(CHOOSE a \in default : TRUE)

\* ResortStates, and axset_compare: what has most actions first.
ResortStates ==
  LET count == [n \in 1..nstate |-> [isTkn \in BOOLEAN |-> Cardinality(ActionSet(n, isTkn))]]
      order == <<1>> \o SortByKey(2..nstate,
                          [n \in 2..nstate |-> <<-count[n][FALSE], -count[n][TRUE], -n>>])
      sets == {s \in (1..nstate) \X BOOLEAN : count[order[s[1]]][s[2]] > 0}
  IN
  /\ Pass("resort", "table")
  /\ lem' = [lem EXCEPT !.order = order]
  /\ acttab' = [acttab EXCEPT
       !.sets = SortByKey(sets,
                  [s \in sets |->
                     <<-count[order[s[1]]][s[2]], -s[1], IF s[2] THEN 1 ELSE 0>>])]
  /\ UNCHANGED <<states, frames, acts, links, parser>>

\* acttab_action for each action of a set, then acttab_insert.
InsertSet ==
  LET s == Head(acttab.sets)
      actions == ActionSet(lem.order[s[1]], s[2])
      transaction == [la \in {Index(a.sp) : a \in actions} |->
                        ComputeAction(CHOOSE a \in actions : Index(a.sp) = la)]
      inserted == Insert(acttab.table, transaction)
  IN
  /\ acttab.sets # <<>>
  /\ Pass("table", "table")
  /\ acttab' = [table |-> inserted.table,
                ofst |-> [q \in DOMAIN acttab.ofst \cup {s} |->
                            IF q = s THEN inserted.offset ELSE acttab.ofst[q]],
                sets |-> Tail(acttab.sets)]
  /\ UNCHANGED <<lem, states, frames, acts, links, parser>>

\* yy_shift_ofst[] (isTkn) or yy_reduce_ofst[]: up to the last state that has
\* an offset, with one less than the least offset for those that have none.
OffsetTable(isTkn) ==
  LET given == {s \in DOMAIN acttab.ofst : s[2] = isTkn}
      least == Least({0} \cup {acttab.ofst[s] : s \in given})
      last == Greatest({0} \cup {s[1] : s \in given})
  IN  [useDflt |-> least - 1, count |-> last - 1,
       ofst |-> [i \in 0..last - 1 |->
                   IF <<i + 1, isTkn>> \in given THEN acttab.ofst[<<i + 1, isTkn>>]
                   ELSE least - 1]]

Declared(slot) == <<slot, None>> \in DOMAIN gp.args
OwnDestructor(x) == <<"destructor", x>> \in DOMAIN gp.args

\* The symbols yy_destructor has a case for.
Destructible ==
  {x \in DOMAIN lem.index \ {"$"} :
                               IF x \in UpperNames THEN Declared("token_destructor")
                               ELSE OwnDestructor(x) \/ Declared("default_destructor")}

\* print_stack_union: the datatype of a symbol's value, that of the tokens
\* unless another one is declared (.dtnum, which is 0 for that of the tokens).
Text(slot) == IF slot \in DOMAIN gp.args THEN gp.args[slot] ELSE <<>>
TokenType == Text(<<"token_type", None>>)

DataType(x) ==
  LET type == IF Text(<<"type", x>>) # <<>> THEN Text(<<"type", x>>)
              ELSE Text(<<"default_type", None>>)
  IN  IF x = "error" THEN <<"int">>
      ELSE IF x \in UpperNames \/ type = TokenType THEN <<>> ELSE type

\* ReportTable writes one case for symbols of one datatype with the same
\* destructor, and has all of them but the first forget theirs.
Forgotten ==
  {x \in Names \ UpperNames :
     OwnDestructor(x) /\
     \E y \in Names \ UpperNames :
       /\ Index(y) < Index(x) /\ DataType(y) = DataType(x)
       /\ Text(<<"destructor", y>>) = Text(<<"destructor", x>>)}

\* has_destructor, when translate_code asks, later, and the code it writes: a
\* MULTITERMINAL is no TERMINAL and its index is 0, which is "$".
HasDestructor(sym) ==
  /\ ~Multi(sym)
  /\ sym[1] \in Destructible
  /\ sym[1] \in Forgotten => Declared("default_destructor")

\* translate_code: what becomes of the value at each position of the rule.
Used(r) ==
  LET rp == gp.rules[r]
  IN  {i \in DOMAIN rp.rhs : /\ rp.rhsalias[i] \in rp.code.ids \ {rp.lhsalias}
                             /\ \A j \in 1..i - 1 : rp.rhsalias[j] # rp.rhsalias[i]}
Unlabelled(r) == {i \in DOMAIN Rhs(r) : gp.rules[r].rhsalias[i] = None}

UnusedLabels(r) ==
  Cardinality(DOMAIN Rhs(r) \ (Used(r) \cup Unlabelled(r)))
  + (IF gp.rules[r].lhsalias \in gp.rules[r].code.ids \cup {None} THEN 0 ELSE 1)

RuleCode_DestroysLabelled(r) ==
  [lhs |-> Index(gp.rules[r].lhs), nrhs |-> Len(Rhs(r)),
   used |-> Used(r), valued |-> gp.rules[r].lhsalias # None,
   destroyed |-> {i \in DOMAIN Rhs(r) : HasDestructor(Rhs(r)[i])}]

RuleCode_CountsOnce(r) ==
  [lhs |-> Index(gp.rules[r].lhs), nrhs |-> Cardinality(Range(Rhs(r))),
   used |-> Used(r), valued |-> gp.rules[r].lhsalias # None,
   destroyed |-> {i \in Unlabelled(r) : HasDestructor(Rhs(r)[i])}]

RuleCode(r) ==
  [lhs |-> Index(gp.rules[r].lhs), nrhs |-> Len(Rhs(r)),
   used |-> Used(r), valued |-> gp.rules[r].lhsalias # None,
   destroyed |-> {i \in Unlabelled(r) : HasDestructor(Rhs(r)[i])}]

Fallback(x) ==
  LET s == Symbol(x)
  IN  IF s.fallback = None THEN 0 ELSE Index(s.fallback)

\* What ReportTable writes, as lempar.c reads it.
Tables ==
  LET t == acttab.table
  IN  [YYNSTATE |-> nstate, YYNRULE |-> nrule,
       YYNOCODE |-> nsymbol + 1, YYACTTAB |-> t.nAction,
       YYERRORSYMBOL |-> IF Symbol("error").useCnt = 0 THEN -1 ELSE Index("error"),
       YYWILDCARD |-> IF gp.wildcard = None THEN -1 ELSE Index(gp.wildcard),
       yyFallback |-> [i \in 0..lem.nterminal - 1 |-> Fallback(lem.sorted[i + 1])],
       yy_lookahead |-> [k \in 0..t.nAction - 1 |->
                           IF t.slot[k].lookahead < 0 THEN nsymbol ELSE t.slot[k].lookahead],
       yy_action |-> [k \in 0..t.nAction - 1 |->
                        IF t.slot[k].action < 0 THEN nstate + nrule + 2 ELSE t.slot[k].action],
       yy_shift |-> OffsetTable(TRUE), yy_reduce |-> OffsetTable(FALSE),
       yy_default |-> [i \in 0..nstate - 1 |-> DefaultAction(lem.order[i + 1])],
       rules |-> [r \in Rules |-> RuleCode(r)],
       destructible |-> {Index(x) : x \in Destructible}]

ReportTable ==
  LET unused == MapThenSumSet(UnusedLabels, Rules)
      errors == lem.errorcnt + unused
  IN
  /\ acttab.sets = <<>>
  /\ Pass("table", "written")
  /\ parser' = Tables
  /\ lem' = [lem EXCEPT !.errorcnt = errors]
  /\ UNCHANGED automaton

\* lemon ends, the file it has written is compiled.
Compile ==
  /\ Pass("written", "compiled")
  /\ states' = <<>> /\ frames' = <<>> /\ acts' = <<>>
  /\ fws' = [n \in {} |-> {}] /\ fplp' = {} /\ bplp' = {}
  /\ UNCHANGED <<todo, lem, acttab, parser>>

Generate ==
  \/ ParseOneToken /\ UNCHANGED <<lem, automaton, parser>>
  \/ EndOfFile /\ UNCHANGED <<lem, automaton, parser>>
  \/ SortSymbols \/ LambdaPass \/ FirstPass \/ FindStart \/ FirstState
  \/ BuildShift \/ ReturnState \/ FindLinks \/ FollowStep
  \/ FindActions \/ FindConflicts \/ CompressTables
  \/ ResortStates \/ InsertSet \/ ReportTable \/ Compile

\* main() returns 0.
Success == lem.errorcnt = 0 /\ lem.nconflict = 0
=============================================================================
