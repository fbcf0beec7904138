---------------------------- MODULE ParserTables ----------------------------
(***************************************************************************)
(* What lemon writes and the parser of lempar.c reads: the tables of a     *)
(* generated parser, and how an action is looked up in them.               *)
(***************************************************************************)
EXTENDS Integers

VARIABLE parser  \* what the generated file holds

\* The tokens a host can pass, for which the header has a name.
Tokens == DOMAIN parser.yyFallback

InTable(i, la) == i \in 0..parser.YYACTTAB - 1 /\ parser.yy_lookahead[i] = la

FindShiftAction(stateno, lookahead) ==
  LET shift == parser.yy_shift
      ofst == IF stateno > shift.count THEN shift.useDflt ELSE shift.ofst[stateno]
      wild == ofst + parser.YYWILDCARD
      find[la \in 0..parser.YYNOCODE] ==
        IF InTable(ofst + la, la) THEN parser.yy_action[ofst + la]
        ELSE IF la > 0 /\ parser.yyFallback[la] # 0 THEN find[parser.yyFallback[la]]
        ELSE IF la > 0 /\ parser.YYWILDCARD >= 0 /\ InTable(wild, parser.YYWILDCARD)
        THEN parser.yy_action[wild]
        ELSE parser.yy_default[stateno]
  IN  IF ofst = shift.useDflt THEN parser.yy_default[stateno] ELSE find[lookahead]

\* With an error symbol a state without the entry has its default action,
\* without one the entry is asserted to be there.
HasErrorSymbol == parser.YYERRORSYMBOL >= 0

FindReduceAction(stateno, lookahead) ==
  LET reduce == parser.yy_reduce
      i == reduce.ofst[stateno] + lookahead
  IN  IF stateno <= reduce.count /\ InTable(i, lookahead)
      THEN parser.yy_action[i] ELSE parser.yy_default[stateno]

ReduceAsserted(stateno, lookahead) ==
  LET reduce == parser.yy_reduce
  IN  /\ HasErrorSymbol \/ stateno <= reduce.count
      /\ stateno <= reduce.count => reduce.ofst[stateno] # reduce.useDflt
      /\ HasErrorSymbol \/ InTable(reduce.ofst[stateno] + lookahead, lookahead)

IsShift(act) == act < parser.YYNSTATE
IsReduce(act) == act \in parser.YYNSTATE..parser.YYNSTATE + parser.YYNRULE - 1
ErrorAction == parser.YYNSTATE + parser.YYNRULE
AcceptAction == ErrorAction + 1
-----------------------------------------------------------------------------
(* Tables that are sound *)

\* Numbers of states and rules are in range, and each rule uses or destroys
\* symbols of its own, none twice.
TablesOK ==
  LET rule == [lhs : Nat, nrhs : Nat, used : SUBSET Nat, valued : BOOLEAN, destroyed : SUBSET Nat]
  IN  /\ parser.YYNSTATE \in Nat \ {0} /\ parser.YYNRULE \in Nat
      /\ parser.YYACTTAB \in Nat /\ parser.YYERRORSYMBOL \in Int
      /\ parser.yy_action \in [0..parser.YYACTTAB - 1 -> Nat]
      /\ parser.yy_default \in [0..parser.YYNSTATE - 1 -> Nat]
      /\ parser.rules \in [1..parser.YYNRULE -> rule]
      /\ \A r \in 1..parser.YYNRULE :
           LET code == parser.rules[r]
           IN  code.used \cup code.destroyed \subseteq 1..code.nrhs
               /\ code.used \cap code.destroyed = {}

\* A step from state p into state q moves the dot of each configuration
\* <<rule, dot>> of q that is not at its beginning over the symbol x, which has a
\* destructor if the rule destroys it.
MovesDot(items, p, x, q) ==
  /\ q \in 1..parser.YYNSTATE - 1
  /\ \A c \in items[q] :
       c[2] > 0 =>
         /\ <<c[1], c[2] - 1>> \in items[p]
         /\ c[2] \in parser.rules[c[1]].destroyed => x \in parser.destructible

\* The configurations of each state explain the tables: what a state shifts moves
\* their dots, it reduces a rule only behind all of it, and goes on with its
\* nonterminal wherever it predicts the rule; at the start, and only there, that
\* can be the end, which then comes with the end of the input.
Explains(items) ==
  LET States == 0..parser.YYNSTATE - 1
  IN  /\ \A c \in items[0] : c[2] = 0
      /\ \A p \in States, t \in Tokens :
           LET act == FindShiftAction(p, t)
               r == act - parser.YYNSTATE + 1
               rule == parser.rules[r]
           IN  /\ act \in 0..ErrorAction
               /\ IsShift(act) => t # 0 /\ MovesDot(items, p, t, act)
               /\ IsReduce(act) =>
                    /\ <<r, rule.nrhs>> \in items[p]
                    /\ FindReduceAction(0, rule.lhs) = AcceptAction => t = 0
      /\ \A p \in States : \A c \in items[p] :
           LET lhs == parser.rules[c[1]].lhs
               next == FindReduceAction(p, lhs)
           IN  c[2] = 0 =>
                 /\ ReduceAsserted(p, lhs)
                 /\ \/ IsShift(next) /\ MovesDot(items, p, lhs, next)
                    \/ next = AcceptAction /\ p = 0
      /\ \A p \in States :
           LET error == parser.YYERRORSYMBOL
               next == FindReduceAction(p, error)
           IN  HasErrorSymbol /\ IsShift(next) => MovesDot(items, p, error, next)

\* Every token and every symbol a rule gives a value has a destructor, each rule
\* uses or destroys all its symbols, and that for the start symbol, whose value
\* nobody would take, gives it none.
NothingLeaks ==
  /\ Tokens \ {0} \subseteq parser.destructible
  /\ \A r \in DOMAIN parser.rules :
       LET code == parser.rules[r]
       IN  /\ 1..code.nrhs \subseteq code.used \cup code.destroyed
           /\ code.valued => code.lhs \in parser.destructible
           /\ code.valued => FindReduceAction(0, code.lhs) # AcceptAction
=============================================================================
