------------------------------ MODULE LemonProps ------------------------------
(***************************************************************************)
(* Lemon, and then the parser it has written.  What they promise: the      *)
(* references the tables are measured against, the language of a grammar   *)
(* and its canonical LR(1) automaton, are made from the text of the file.  *)
(***************************************************************************)
EXTENDS Lemon, LemparProps

CONSTANTS
  Files,  \* the grammar files
  Driven  \* bound: the files whose parser a host drives, and how many tokens
          \* it passes to it

vars == <<lemonVars, engine>>

Driving == phase = "compiled" /\ input \in DOMAIN Driven /\ passed < Driven[input]

Parsing == ParseLoop /\ UNCHANGED lemonVars

Next ==
  \/ Generate /\ UNCHANGED engine
  \/ Driving /\ ParseToken /\ UNCHANGED lemonVars
  \/ Parsing
  \/ ParseFree /\ UNCHANGED lemonVars

Init == LemonInit(Files) /\ EngineInit

Spec ==
  /\ Init /\ [][Next]_vars
  /\ WF_vars(Parsing)

-----------------------------------------------------------------------------
(* The grammar as it is written *)

Arrows(f) == {k \in DOMAIN f : f[k].c = "::="}
EndOf(f, k) == Least({j \in k..Len(f) + 1 : j > Len(f) \/ f[j].c = "."})

\* The rule around an arrow: NAME(LABEL) ::= NAME(LABEL)|NAME ... .
WrittenRule(f, k) ==
  LET right == k + 1..EndOf(f, k) - 1
      starts == {j \in right : f[j].c = "id" /\ f[j - 1].c # "("}
      chain(j) == {i \in right : i >= j /\ \A l \in j + 1..i : f[l].c = "or"}
      word(j) == [i \in 1..Cardinality(chain(j)) |-> f[j + i - 1].x]
      place == SortByKey(starts, [j \in starts |-> <<j>>])
  IN  [lhs |-> IF f[k - 1].c = ")" THEN f[k - 4].x ELSE f[k - 1].x,
       rhs |-> [i \in DOMAIN place |-> word(place[i])]]

\* A rule the file ends in is none.
WrittenRules(f) ==
  LET ends == {k \in Arrows(f) : EndOf(f, k) <= Len(f)}
      arrows == SortByKey(ends, [k \in ends |-> <<k>>])
  IN  [i \in DOMAIN arrows |-> WrittenRule(f, arrows[i])]

WrittenStart(f) ==
  LET said == {k \in DOMAIN f : f[k].x = "start_symbol"}
  IN  IF said = {} THEN WrittenRules(f)[1].lhs ELSE f[Least(said) + 1].x

\* The words of at most n tokens a sequence of symbols stands for, when words
\* are those its nonterminals stand for.
Concat(V, W, n) == {v \o w : <<v, w>> \in {p \in V \X W : Len(p[1]) + Len(p[2]) <= n}}

WordsOf(sym, words) ==
  IF Nonterminal(sym)
  THEN IF sym[1] \in DOMAIN words THEN words[sym[1]] ELSE {}
  ELSE {<<x>> : x \in Range(sym)}

Derived(rhs, words, n) ==
  FoldLeft(LAMBDA V, sym : Concat(V, WordsOf(sym, words), n), {<<>>}, rhs)

RECURSIVE Sentences(_, _, _)
Sentences(rules, words, n) ==
  LET more == [x \in DOMAIN words |->
                 UNION {Derived(rules[i].rhs, words, n) :
                          i \in {j \in DOMAIN rules : rules[j].lhs = x}}]
  IN  IF more = words THEN words ELSE Sentences(rules, more, n)

\* The beginnings of what they stand for, and of what follows it.
BeginningsOf(sym, prefixes) == WordsOf(sym, prefixes) \cup {<<>>}

RECURSIVE Beginnings(_, _, _, _)
Beginnings(rules, words, prefixes, n) ==
  LET sound(rhs) == \A i \in DOMAIN rhs : WordsOf(rhs[i], words) # {}
      of(rhs) == Derived(rhs, words, n)
                   \cup UNION {Concat(Derived(SubSeq(rhs, 1, i - 1), words, n),
                                      BeginningsOf(rhs[i], prefixes), n) : i \in DOMAIN rhs}
      more == [x \in DOMAIN prefixes |->
                 UNION {of(rules[i].rhs) :
                          i \in {j \in DOMAIN rules : rules[j].lhs = x /\ sound(rules[j].rhs)}}]
  IN  IF more = prefixes THEN prefixes ELSE Beginnings(rules, words, more, n)

Bound(f) == IF f \in DOMAIN Driven THEN Driven[f] ELSE 4

Reading(f) ==
  LET rules == WrittenRules(f)
      nothing == [x \in {rules[i].lhs : i \in DOMAIN rules} |-> {}]
      words == Sentences(rules, nothing, Bound(f))
  IN  [words |-> words, begins |-> Beginnings(rules, words, nothing, Bound(f))]

Language == [f \in Files |-> Reading(f)]

-----------------------------------------------------------------------------
(* The generator *)

\* A file that is accepted gives the rules that are written in it, whatever
\* declarations, labels, precedence marks and code stand between them.
RulesAsWritten ==
  phase = "symbols" =>
    [r \in Rules |-> [lhs |-> gp.rules[r].lhs, rhs |-> Rhs(r)]] = WrittenRules(input)

\* Canonical LR(1): items <<configuration, lookahead>>; L is the Reading of the
\* file.
FirstRef(L, rhs, i, t) ==
  LET empty(sym) == <<>> \in WordsOf(sym, L.words)
      heads(sym) == IF ~Nonterminal(sym) THEN Range(sym)
                    ELSE {Head(w) : w \in BeginningsOf(sym, L.begins) \ {<<>>}}
      reached == {j \in i + 1..Len(rhs) : \A k \in i + 1..j - 1 : empty(rhs[k])}
  IN  UNION {heads(rhs[j]) : j \in reached}
      \cup (IF \A k \in i + 1..Len(rhs) : empty(rhs[k]) THEN {t} ELSE {})

RECURSIVE ItemClosure(_, _)
ItemClosure(L, S) ==
  LET more == UNION {{<<<<r, 0>>, t>> : r \in Predicts(item[1]),
                        t \in FirstRef(L, Rhs(item[1][1]), item[1][2] + 1, item[2])} :
                       item \in {it \in S : Predicts(it[1]) # {}}}
  IN  IF more \subseteq S THEN S ELSE ItemClosure(L, S \cup more)

Gotos(L, S) ==
  LET open == {item \in S : ~Complete(item[1])}
  IN  {ItemClosure(L, {<<Advanced(item[1]), item[2]>> :
                      item \in {it \in open : AfterDot(it[1]) = sym}}) :
         sym \in {AfterDot(item[1]) : item \in open}}

RECURSIVE Reachable(_, _, _)
Reachable(L, done, new) ==
  LET next == UNION {Gotos(L, S) : S \in new} \ (done \cup new)
  IN  IF next = {} THEN done \cup new ELSE Reachable(L, done \cup new, next)

CanonicalStates(L) ==
  Reachable(L, {}, {ItemClosure(L, {<<<<r, 0>>, "$">> : r \in StartRules})})

Core(S) == {item[1] : item \in S}

\* The follow sets are exactly the LALR(1) lookaheads: those of all canonical
\* states with the configurations of the state, and there is a state for each.
LookaheadsExact ==
  phase = "conflicts" =>
    LET canonical == CanonicalStates(Language[input])
    IN  /\ {states[n].cfp : n \in DOMAIN states} = {Core(S) : S \in canonical}
        /\ \A n \in DOMAIN states :
             LET items == UNION {S \in canonical : Core(S) = states[n].cfp}
             IN  \A c \in states[n].cfp :
                   fws[<<n, c>>] = {item[2] : item \in {it \in items : it[1] = c}}

\* What the automaton does with a token and, behind a reduction, a nonterminal.
ActionsOn(n, x) == {a \in Effective(n) : a.sp = x}

RECURSIVE Intended(_, _)
Intended(n, x) ==
  LET symbol == Symbol(x)
      own == ActionsOn(n, x)
      wild == ActionsOn(n, gp.wildcard)
  IN  IF own # {} THEN ComputeAction(CHOOSE a \in own : TRUE)
      ELSE IF x # "$" /\ symbol.fallback # None THEN Intended(n, symbol.fallback)
      ELSE IF x # "$" /\ wild # {} THEN ComputeAction(CHOOSE a \in wild : TRUE)
      ELSE DefaultAction(n)

\* A grammar that gives every value a destructor: tokens and nonterminals have
\* one, no label is without use, no symbol is a choice of tokens, and the start
\* symbol has no label.
Disposing ==
  /\ Declared("token_destructor") /\ Declared("default_destructor")
  /\ lem.errorcnt = 0
  /\ \A r \in Rules : \A i \in DOMAIN Rhs(r) : ~Multi(Rhs(r)[i])
  /\ \A r \in StartRules : gp.rules[r].lhsalias = None

\* Overlaid in one array, the actions of each state are found as they were, for
\* every token and every nonterminal, and no state takes another one's (of the
\* grammars of the run; one whose search for a hole runs to its bound can break
\* this: see NoOtherActionIsFound of TableProofs); and the tables of a grammar
\* with all destructors are sound and leave out no value.
TablesExact ==
  phase = "written" =>
    /\ \A n \in DOMAIN states :
         LET i == (CHOOSE j \in 1..nstate : lem.order[j] = n) - 1
         IN  \A x \in DOMAIN lem.index :
               IF Index(x) < lem.nterminal
               THEN FindShiftAction(i, Index(x)) = Intended(n, x)
               ELSE \A a \in ActionsOn(n, x) :
                      /\ FindReduceAction(i, Index(x)) = ComputeAction(a)
                      /\ ReduceAsserted(i, Index(x))
    /\ TablesOK /\ Explains([i \in 0..nstate - 1 |-> states[lem.order[i + 1]].cfp])
    /\ Disposing => NothingLeaks

\* Through every growth of the two tables, each symbol and each state is found
\* by its key, and nothing else is: no name has two symbols, no basis two states.
TablesFind ==
  /\ \A i \in DOMAIN gp.symbols :
       /\ gp.table.tbl[i] = gp.symbols[i].name
       /\ SymbolTable!Chain(gp.table, gp.symbols[i].name) = {i}
  /\ \A n \in DOMAIN states : StateTable!Chain(lem.table, states[n].basis) = {n}

-----------------------------------------------------------------------------
(* The parser *)

\* The tokens of the sentence under way, without the end of the input.
Spoken ==
  LET word == sentence.word
      tokens == IF word # <<>> /\ Last(word) = 0 THEN Front(word) ELSE word
  IN  [i \in DOMAIN tokens |-> lem.sorted[tokens[i] + 1]]

Ended == sentence.word # <<>> /\ Last(sentence.word) = 0

\* The parser accepts the sentences of the grammar as it is written, and
\* refuses any other at the first token no sentence goes on with, although a
\* default reduction never looks at the token.  Substitutes, for a token that
\* fits nowhere, are another matter.
Plain == gp.wildcard = None /\ \A i \in DOMAIN gp.symbols : gp.symbols[i].fallback = None

SentencesExact ==
  phase = "compiled" /\ Plain /\ call = NoCall /\ sentence.word # <<>> /\ "overflow" \notin hooks =>
    LET L == Language[input]
        start == WrittenStart(input)
        e == sentence.error
        viable(k) == SubSeq(Spoken, 1, k) \in L.begins[start]
    IN  /\ e = 0 => viable(Len(Spoken))
        /\ e > 0 => viable(e - 1) /\ (e \in DOMAIN Spoken => ~viable(e))
        /\ "accept" \in hooks => Ended
        /\ Ended /\ e = 0 => "accept" \in hooks /\ Spoken \in L.words[start]
        /\ Ended /\ e = Len(sentence.word) => Spoken \notin L.words[start]

\* In an expression whose operators have precedences, what is reduced as the
\* operand of an operator holds no operator that binds less tightly, and none
\* that binds as tightly on the side the associativity keeps open.
Operator(t) == Symbol(lem.sorted[sentence.word[t - passed + Len(sentence.word)] + 1])

BindsInside(q, p) ==
  \/ Operator(q).prec > Operator(p).prec
  \/ Operator(q).prec = Operator(p).prec /\ (q < p <=> Operator(p).assoc = "left")

PrecedenceRespected ==
  Looping /\ IsReduce(action) =>
    LET rule == parser.rules[action - parser.YYNSTATE + 1]
        rhs == SubSeq(Stack, Len(Stack) - 2, Len(Stack))
        tokens(i) == {t \in rhs[i].minor : Operator(t).prec > 0}
    IN  rule.nrhs = 3 /\ Cardinality(tokens(2)) = 1 =>
          \A p \in tokens(2), q \in tokens(1) \cup tokens(3) : BindsInside(q, p)
=============================================================================
