------------------------------- MODULE Lempar -------------------------------
(***************************************************************************)
(* The parser lemon writes: tools/lempar.c around its tables, as a host    *)
(* drives it with ParseAlloc, Parse and ParseFree.  One action is one turn *)
(* of the loop of Parse.                                                   *)
(*                                                                         *)
(* The minor value of a symbol is the set of the tokens it is made from:   *)
(* the action of a rule with a label on its left-hand side makes its value *)
(* from the labelled ones of the right, any other action disposes of them. *)
(***************************************************************************)
EXTENDS ParserTables, SequencesExt

CONSTANTS
  StackDepth,  \* YYSTACKDEPTH
  MaxTokens    \* bound: the tokens a host passes

ASSUME LemparAssumption == StackDepth \in Nat \ {0} /\ MaxTokens \in Nat

VARIABLES
  yy,        \* struct yyParser: its stack, bottom first, and yyerrcnt
  call,      \* the call of Parse under way: yymajor, yyminor, yyerrorhit
  passed,    \* how many tokens the host has passed
  sentence,  \* those since the parser started, 0 for the end of the input;
             \* where the first error was, tokens shifted since the last report
  destroyed, \* how often the value of each token was destroyed
  handed,    \* the tokens whose value an action has disposed of, and those
             \* that have none
  lost,      \* the tokens whose value nobody has any more, and why
  hooks      \* the %syntax_error, %parse_accept, %parse_failure and
             \* %stack_overflow code the call of Parse under way, or the last, ran

engine == <<yy, call, passed, sentence, destroyed, handed, lost, hooks>>
NoCall == [major |-> -1, minor |-> {}, errorhit |-> FALSE]

\* No parser, or yyidx < 0.
Idle == [stack |-> <<>>, yyerrcnt |-> -1]

NewSentence == [word |-> <<>>, error |-> 0, calm |-> 3]

Stack == yy.stack

EngineInit ==
  /\ yy = Idle /\ call = NoCall /\ passed = 0 /\ sentence = NewSentence /\ hooks = {}
  /\ destroyed = [t \in 1..MaxTokens |-> 0] /\ handed = {} /\ lost = {}

top == Last(Stack)
Entry(stateno, major, minor) == [stateno |-> stateno, major |-> major, minor |-> minor]

\* yy_destructor for all of these entries.
Destroy(entries) ==
  destroyed' = [t \in DOMAIN destroyed |->
                  destroyed[t] + Cardinality({i \in DOMAIN entries :
                    t \in entries[i].minor /\ entries[i].major \in parser.destructible})]

\* What entries leave behind that have no destructor.
Leaked(entries) ==
  UNION {entries[i].minor : i \in {j \in DOMAIN entries :
                                     entries[j].major \notin parser.destructible}}

\* What is lost as there is no destructor for it; what is lost as the stack is
\* full.
Lose(leaked, spilled) ==
  lost' = lost \cup (leaked \X {"leaked"}) \cup (spilled \X {"spilled"})

-----------------------------------------------------------------------------
(* Calls *)

\* A call of Parse; a parser whose stack is empty starts anew.
ParseToken ==
  /\ call = NoCall /\ passed < MaxTokens
  /\ passed' = passed + 1
  /\ \E major \in Tokens :
       /\ call' = [major |-> major, errorhit |-> FALSE,
                   minor |-> IF major = 0 THEN {} ELSE {passed'}]
       /\ IF Stack = <<>>
          THEN /\ yy' = [stack |-> <<Entry(0, 0, {})>>, yyerrcnt |-> -1]
               /\ sentence' = [NewSentence EXCEPT !.word = <<major>>]
          ELSE /\ sentence' = [sentence EXCEPT !.word = Append(@, major)]
               /\ UNCHANGED yy
       /\ handed' = IF major = 0 THEN handed \cup {passed'} ELSE handed
  /\ hooks' = {}
  /\ UNCHANGED <<destroyed, lost>>

ParseFree ==
  /\ call = NoCall /\ Stack # <<>>
  /\ Destroy(Stack)
  /\ Lose(Leaked(Stack), {})
  /\ yy' = Idle
  /\ hooks' = {}
  /\ UNCHANGED <<call, passed, sentence, handed>>

Looping == call # NoCall
action == FindShiftAction(top.stateno, call.major)

\* yy_shift on a full stack is yyStackOverflow: all is popped, the value that
\* was to be pushed is nobody's.
Full(stack) == Len(stack) >= StackDepth

ShiftToken ==
  /\ Looping /\ IsShift(action)
  /\ call' = NoCall
  /\ IF Full(Stack)
     THEN /\ yy' = Idle
          /\ Destroy(Stack)
          /\ Lose(Leaked(Stack), call.minor)
          /\ hooks' = hooks \cup {"overflow"}
          /\ UNCHANGED sentence
     ELSE /\ yy' = [stack |-> Append(Stack, Entry(action, call.major, call.minor)),
                    yyerrcnt |-> yy.yyerrcnt - 1]
          /\ sentence' = [sentence EXCEPT !.calm = @ + 1]
          /\ UNCHANGED <<destroyed, lost, hooks>>
  /\ UNCHANGED <<passed, handed>>

\* The values of the right-hand side: used, destroyed or just popped.
ReduceRule ==
  LET r == action - parser.YYNSTATE + 1
      rule == parser.rules[r]
      below == SubSeq(Stack, 1, Len(Stack) - rule.nrhs)
      rhs == SubSeq(Stack, Len(below) + 1, Len(Stack))
      used == UNION {rhs[i].minor : i \in rule.used}
      kept == UNION {rhs[i].minor : i \in DOMAIN rhs \ (rule.used \cup rule.destroyed)}
      next == FindReduceAction(Last(below).stateno, rule.lhs)
      minor == IF rule.valued THEN used ELSE {}
      dying == [i \in DOMAIN rhs |->
                  IF i \in rule.destroyed THEN rhs[i] ELSE Entry(0, rhs[i].major, {})]
  IN
  /\ Looping /\ IsReduce(action)
  /\ ReduceAsserted(Last(below).stateno, rule.lhs)
  /\ handed' = IF rule.valued THEN handed ELSE handed \cup used
  /\ \/ /\ IsShift(next) /\ ~Full(below)
        /\ yy' = [yy EXCEPT !.stack = Append(below, Entry(next, rule.lhs, minor))]
        /\ Destroy(dying)
        /\ Lose(kept, {})
        /\ UNCHANGED <<call, hooks>>
     \/ /\ IsShift(next) /\ Full(below)
        /\ yy' = Idle /\ call' = NoCall
        /\ Destroy(dying \o below)
        /\ Lose(kept \cup Leaked(below), minor \cup call.minor)
        /\ hooks' = hooks \cup {"overflow"}
     \/ /\ next = AcceptAction
        /\ yy' = Idle /\ call' = NoCall
        /\ Destroy(dying \o below)
        /\ Lose(kept \cup minor \cup call.minor \cup Leaked(below), {})
        /\ hooks' = hooks \cup {"accept"}
  /\ UNCHANGED <<passed, sentence>>

\* The token under way goes; at the end of the input the parse fails.
DiscardAndFail(stack, fails) ==
  LET dying == (IF fails THEN stack ELSE <<>>) \o <<Entry(0, call.major, call.minor)>>
  IN  /\ Destroy(dying)
      /\ Lose(Leaked(dying), {})
      /\ call' = NoCall
      /\ yy' = IF fails THEN Idle ELSE [stack |-> stack, yyerrcnt |-> 3]

\* yy_syntax_error, unless the last error is too recent.
Soon_OneLess == yy.yyerrcnt > 1

Soon == IF HasErrorSymbol THEN yy.yyerrcnt >= 0 ELSE yy.yyerrcnt > 0

Report ==
  sentence' = [sentence EXCEPT
                 !.error = IF @ = 0 THEN Len(sentence.word) ELSE @,
                 !.calm = IF Soon THEN @ ELSE 0]
Reported == IF Soon THEN {} ELSE {"error"}
Failed(fails) == IF fails THEN {"failure"} ELSE {}

SyntaxError ==
  /\ Looping /\ action = ErrorAction /\ ~HasErrorSymbol
  /\ DiscardAndFail(Stack, call.major = 0)
  /\ Report
  /\ hooks' = hooks \cup Reported \cup Failed(call.major = 0)
  /\ UNCHANGED <<passed, handed>>

\* With an error symbol: pop until it can be shifted.
Shifts(i) == IsShift(FindReduceAction(Stack[i].stateno, parser.YYERRORSYMBOL))
Resumable == {i \in DOMAIN Stack : Shifts(i)}

Recovering_TopOnly == top.major = parser.YYERRORSYMBOL

Recovering == top.major = parser.YYERRORSYMBOL \/ call.errorhit

DiscardToken ==
  /\ Looping /\ action = ErrorAction /\ HasErrorSymbol /\ Recovering
  /\ DiscardAndFail(Stack, FALSE)
  /\ Report
  /\ hooks' = hooks \cup Reported
  /\ UNCHANGED <<passed, handed>>

Recover ==
  LET i == Max(Resumable \cup {0})
      kept == SubSeq(Stack, 1, i)
      popped == SubSeq(Stack, i + 1, Len(Stack))
      state == FindReduceAction(kept[i].stateno, parser.YYERRORSYMBOL)
  IN
  /\ Looping /\ action = ErrorAction /\ HasErrorSymbol /\ ~Recovering
  /\ Report
  /\ \/ /\ i = 0 \/ call.major = 0
        /\ DiscardAndFail(Stack, TRUE)
        /\ hooks' = hooks \cup Reported \cup Failed(TRUE)
     \/ /\ i > 0 /\ call.major # 0 /\ ~Full(kept)
        /\ Destroy(popped)
        /\ Lose(Leaked(popped), {})
        /\ yy' = [stack |-> Append(kept, Entry(state, parser.YYERRORSYMBOL, {})),
                  yyerrcnt |-> 3]
        /\ call' = [call EXCEPT !.errorhit = TRUE]
        /\ hooks' = hooks \cup Reported
     \/ /\ i > 0 /\ call.major # 0 /\ Full(kept)
        /\ Destroy(Stack)
        /\ Lose(Leaked(Stack), call.minor)
        /\ yy' = Idle /\ call' = NoCall
        /\ hooks' = hooks \cup Reported \cup {"overflow"}
  /\ UNCHANGED <<passed, handed>>

ParseLoop == ShiftToken \/ ReduceRule \/ SyntaxError \/ DiscardToken \/ Recover

Engine == ParseToken \/ ParseLoop \/ ParseFree
=============================================================================
