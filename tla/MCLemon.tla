------------------------------- MODULE MCLemon -------------------------------
(***************************************************************************)
(* Grammar files for TLC: the grammar of the configuration, and one small  *)
(* grammar for each thing lemon has a pass, a declaration or a branch for; *)
(* and a file with every fault a token more, less or other makes in it.    *)
(***************************************************************************)
EXTENDS LemonProps

MCUpperNames == {"A", "B", "C", "D", "F", "T", "N", "PLUS", "TIMES", "EQ", "IF", "ELSE",
                 "KEY", "VALUE", "SECTION_START", "SECTION_NAME", "SECTION_END"}

\* Chains of one, of several and of many names.
MCNameHash(x) ==
  IF x \in MCUpperNames THEN 5 ELSE IF x \in {"s", "e", "l", "$"} THEN -3 ELSE 14

Punctuations == {"%", "[", "]", "(", ")", "::=", "."}
Ors == "|B" :> "B" @@ "|b" :> "b"
Blocks == "{}" :> {} @@ "{a}" :> {"a"} @@ "{a b}" :> {"a", "b"} @@ "{a b c d}" :> {"a", "b", "c", "d"}

Token(w) ==
  CASE w \in Punctuations -> [c |-> w, x |-> w, ids |-> {}]
    [] w \in DOMAIN Ors -> [c |-> "or", x |-> Ors[w], ids |-> {}]
    [] w \in DOMAIN Blocks -> [c |-> "{", x |-> w, ids |-> Blocks[w]]
    [] w = "\"s\"" -> [c |-> "string", x |-> w, ids |-> {}]
    [] w = "7" -> [c |-> "number", x |-> w, ids |-> {}]
    [] w = ";" -> [c |-> "other", x |-> w, ids |-> {}]
    [] OTHER -> [c |-> "id", x |-> w, ids |-> {}]

File(words) == [i \in DOMAIN words |-> Token(words[i])]

Rule(lhs, rhs) == <<lhs, "::=">> \o rhs \o <<".">>
Declare(words) == <<"%">> \o words \o <<".">>
Label(symbol, label) == <<symbol, "(", label, ")">>

\* TRConfigParser.lemon.
Config ==
  <<"%", "token_destructor", "{}">>
    \o Rule("config_file", <<"lines">>)
    \o Rule("lines", <<>>) \o Rule("lines", <<"lines", "declaration">>)
    \o Rule("lines", <<"lines", "section">>)
    \o Rule("declaration", Label("KEY", "a") \o Label("VALUE", "b")) \o <<"{a b}">>
    \o Rule("section", <<"declare_section", "lines">> \o Label("SECTION_END", "a")) \o <<"{a}">>
    \o Rule("declare_section", Label("SECTION_START", "a") \o Label("SECTION_NAME", "b")) \o <<"{a b}">>
    \o Rule("declare_section", Label("SECTION_START", "a")) \o <<"{a}">>

Binary(operator) ==
  <<"e", "(", "a", ")", "::=">> \o Label("e", "b") \o Label(operator, "c") \o Label("e", "d")
    \o <<".", "{a b c d}">>

Expression ==
  Declare(<<"left", "PLUS">>) \o Declare(<<"right", "EQ">>)
    \o Rule("s", <<"e">>) \o Binary("PLUS") \o Binary("EQ")
    \o <<"e", "(", "a", ")", "::=">> \o Label("N", "b") \o <<".", "{a b}">>

\* Symbols that can be empty, and lookaheads from behind them.
Empties ==
  Rule("s", <<"C", "a", "b">>) \o Rule("a", <<>>) \o Rule("a", <<"A">>)
    \o Rule("b", <<>>) \o Rule("b", <<"b", "B">>)

\* LALR(1), but not SLR(1).
Pointers ==
  Rule("s", <<"l", "EQ", "r">>) \o Rule("s", <<"r">>) \o Rule("l", <<"TIMES", "r">>)
    \o Rule("l", <<"A">>) \o Rule("r", <<"l">>)

\* A conflict that is counted and settled by shifting.
DanglingElse ==
  Rule("s", <<"t">>) \o Rule("t", <<"IF", "t">>) \o Rule("t", <<"IF", "t", "ELSE", "t">>)
    \o Rule("t", <<"A">>)

\* Recovery; the error symbol is reduced at once.
Recovery ==
  <<"%", "token_destructor", "{}", "%", "default_destructor", "{}">>
    \o Rule("s", <<"l">>) \o Rule("l", <<>>) \o Rule("l", <<"l", "A", "B">>)
    \o Rule("l", <<"l", "error">>)

\* Recovery that waits for a token behind the error symbol.
Resuming ==
  Rule("s", <<"l">>) \o Rule("l", <<"A">>) \o Rule("l", <<"l", "B", "A">>)
    \o Rule("l", <<"error", "B">>)

\* Values that are used, destroyed as they have no label, and handed on.
Destructors ==
  <<"%", "token_destructor", "{}", "%", "default_destructor", "{}">>
    \o Rule("s", <<"x", "C">>) \o Rule("s", Label("x", "a") \o <<"x", "B">>) \o <<"{a}">>
    \o <<"x", "(", "a", ")", "::=", "A">> \o Label("B", "b") \o <<".", "{a b}">>

\* Two symbols with the same destructor, one of another type, and one that is
\* the type of the tokens.
Sharing ==
  <<"%", "token_type", "{}", "%", "type", "y", "{a}", "%", "type", "b", "{}",
    "%", "destructor", "x", "{}", "%", "destructor", "y", "{}", "%", "destructor", "b", "{}">>
    \o Rule("s", <<"x", "b", "y", "x">>)
    \o <<"x", "(", "a", ")", "::=">> \o Label("A", "b") \o <<".", "{a b}">>
    \o <<"b", "(", "a", ")", "::=">> \o Label("B", "b") \o <<".", "{a b}">>
    \o <<"y", "(", "a", ")", "::=">> \o Label("C", "b") \o <<".", "{a b}">>

Wildcard ==
  Declare(<<"wildcard", "C">>) \o Rule("s", <<"l">>) \o Rule("l", <<>>)
    \o Rule("l", <<"l", "A", "C", "B">>) \o Rule("l", <<"l", "A", "D">>)

Substitute ==
  Declare(<<"fallback", "F", "T">>) \o Rule("s", <<"F", "A">>) \o Rule("s", <<"T", "T", "B">>)
    \o Rule("s", <<"B", "F", "F">>)

Choice ==
  <<"%", "token_destructor", "{}">> \o Rule("s", <<"A", "|B", "C">>)
    \o Rule("s", <<"C", "x">>) \o Rule("x", <<"B">>) \o Rule("x", <<"A">>)

MCDriven ==
  File(Config) :> 4 @@ File(Expression) :> 6 @@ File(Empties) :> 4
  @@ File(Pointers) :> 4 @@ File(DanglingElse) :> 5 @@ File(Recovery) :> 6
  @@ File(Resuming) :> 6 @@ File(Destructors) :> 5 @@ File(Wildcard) :> 4
  @@ File(Sharing) :> 4
  @@ File(Substitute) :> 3 @@ File(Choice) :> 3

\* Two rules for the same words; one that nothing leads to; a nonterminal
\* without rules; a start symbol that is declared, unknown, or used in a rule.
Ambiguous ==
  <<"%", "default_destructor", "{}", "%", "destructor", "a", "{}">>
    \o Rule("s", <<"a">>) \o Rule("s", <<"b">>) \o Rule("a", <<"A">>) \o <<"[", "A", "]">>
    \o Rule("b", <<"A">>) \o Rule("a", <<"c", "B">>) \o Rule("d", <<"D">>)

Started == <<"%", "start_symbol", "x">> \o Rule("s", <<"A">>) \o Rule("x", <<"s", "s", "s">>)
             \o Rule("s", <<"B">>)
Unstarted == <<"%", "start_symbol", "y">> \o Rule("s", <<"A">>)
RightRecursive == Rule("s", <<"A", "s">>) \o Rule("s", <<"A">>)
LeftRecursive == Rule("s", <<"s", "A">>) \o Rule("s", <<"A">>)

\* Canonical LR(1) states that LALR(1) merges into a conflict.
Merged ==
  Rule("s", <<"A", "x", "D">>) \o Rule("s", <<"B", "y", "D">>) \o Rule("s", <<"A", "y", "T">>)
    \o Rule("s", <<"B", "x", "T">>) \o Rule("x", <<"C">>) \o Rule("y", <<"C">>)

\* Sets of actions that fit into each other's holes.
Interleaved ==
  Rule("s", <<"A", "e">>) \o Rule("e", <<"A", "e", "A">>) \o Rule("e", <<"B", "e", "B">>)
    \o Rule("e", <<"C">>) \o Rule("s", <<"B", "e", "A">>) \o Rule("e", <<"x", "C">>)
    \o Rule("x", <<"D", "x">>) \o Rule("x", <<"D">>)

Precedences ==
  Declare(<<"right", "EQ">>) \o Declare(<<"nonassoc", "B">>) \o Declare(<<"left", "PLUS">>)
    \o Declare(<<"right", "F">>)
    \o Rule("s", <<"e">>) \o Rule("e", <<"e", "EQ", "e">>) \o Rule("e", <<"e", "B", "e">>)
    \o Rule("e", <<"e", "PLUS", "e">>) \o Rule("e", <<"PLUS", "e">>) \o <<"[", "F", "]">>
    \o Rule("e", <<"N">>) \o Rule("e", <<"x">>) \o <<"[", "EQ", "]">> \o Rule("x", <<"N">>)
    \o <<"[", "B", "]">>

-----------------------------------------------------------------------------
(* Files with a fault *)

Sound ==
  Declare(<<"left", "A">>) \o Declare(<<"wildcard", "C">>) \o Declare(<<"fallback", "F", "T">>)
    \o <<"%", "type", "s", "{}", "%", "destructor", "s", "{}", "%", "name", "\"s\"">>
    \o <<"s", "(", "a", ")", "::=", "A", "|B">> \o <<"(", "b", ")", ".", "{a b}", "[", "A", "]">>

\* (%fallback F F. is accepted too: its parser looks for a substitute for ever.)
With(i, words) == SubSeq(Sound, 1, i - 1) \o words \o SubSeq(Sound, i + 1, Len(Sound))

Faulty ==
  {With(i, words) : i \in DOMAIN Sound, words \in {<<>>, <<";">>, <<".">>, <<"s">>, <<"(">>}}
    \cup {With(i, <<Sound[i], Sound[i]>>) : i \in {j \in DOMAIN Sound : Sound[j] # "F"}}

Misplaced ==
  {<<>>, <<"{}">>, <<"[", "A", "]">>, <<"%", "type", "s", "7", "%", "type", "s", "{}">>,
   Rule("s", <<"A", "|b">>), Rule("s", <<"b", "|B">>), Rule("s", <<"|B">>),
   Rule("s", <<"A", "A", "A", "A", "A">>), <<"%", "name", "s", "%", "name", "7">>,
   Rule("s", <<"A">>) \o <<"[", "A", "]", "[", "A", "]">>,
   Rule("s", <<"A">>) \o <<"{}", "{}">>}

MCFiles ==
  DOMAIN MCDriven
    \cup {File(words) : words \in
            {Ambiguous, Started, Unstarted, RightRecursive, LeftRecursive, Merged,
             Interleaved, Precedences, Sound} \cup Faulty \cup Misplaced}
=============================================================================
