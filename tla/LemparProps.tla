---------------------------- MODULE LemparProps ----------------------------
(***************************************************************************)
(* What the engine of lempar.c promises on tables that are sound, whatever *)
(* grammar they are made from.                                             *)
(***************************************************************************)
EXTENDS Lempar

\* The engine alone, on any tables: a compiled parser and its host.
EngineSpec ==
  /\ EngineInit /\ TablesOK
  /\ [][Engine /\ UNCHANGED parser]_<<engine, parser>>

\* Whatever the host passes, no assertion of the engine fails: an entry is
\* there whenever a reduction is followed by its nonterminal, and leads to a
\* state or to the end; the end of the input is never shifted; the stack never
\* holds more than its depth.  What is popped is what the rule expects, with a
\* destructor wherever the rule calls one, and the input is accepted at its end,
\* when nothing but the start symbol is left.
AssertsHold ==
  /\ Len(Stack) <= StackDepth
  /\ Looping =>
    /\ TablesOK
    /\ action \in 0..ErrorAction
    /\ IsShift(action) => call.major # 0
    /\ IsReduce(action) =>
         LET rule == parser.rules[action - parser.YYNSTATE + 1]
             n == Len(Stack) - rule.nrhs
             next == FindReduceAction(Stack[n].stateno, rule.lhs)
         IN  /\ n > 0
             /\ ReduceAsserted(Stack[n].stateno, rule.lhs)
             /\ IsShift(next) \/ (next = AcceptAction /\ n = 1 /\ call.major = 0)
             /\ \A i \in rule.destroyed : Stack[n + i].major \in parser.destructible

\* The value of every token passed is in one place: on the stack, under way,
\* in the hands of an action, destroyed once, or lost; and none is lost when
\* every value has a destructor, the rules leave none out, and the stack is deep
\* enough.
Places(t) ==
  Cardinality({i \in DOMAIN Stack : t \in Stack[i].minor}) + destroyed[t]
  + (IF t \in call.minor THEN 1 ELSE 0) + (IF t \in handed THEN 1 ELSE 0)
  + Cardinality({l \in lost : l[1] = t})

TokensFreedOnce ==
  /\ \A t \in 1..passed : Places(t) = 1
  /\ \A l \in lost : NothingLeaks => l[2] = "spilled"

\* Between two reports of syntax errors at least three tokens are shifted.
ErrorsSpaced ==
  [][hooks' # hooks /\ "error" \in hooks' => sentence.calm >= 3 \/ "error" \in hooks]_engine

\* Every call of Parse returns: reductions end, and so does the recovery from
\* an error.
ParseReturns == Looping ~> ~Looping
=============================================================================
