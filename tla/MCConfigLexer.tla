--------------------------- MODULE MCConfigLexer ---------------------------
(***************************************************************************)
(* Files of up to three lines, with and without the newline of the last.   *)
(***************************************************************************)
EXTENDS LexerProps

Token(kind, from, to) == [kind |-> kind, from |-> from, to |-> to]

TokenTable == <<
  [text |-> <<>>, tokens |-> <<>>],
  [text |-> <<" ">>, tokens |-> <<>>],
  [text |-> <<" ", "#", "k", "quote">>, tokens |-> <<>>],
  [text |-> <<"k">>, tokens |-> <<Token("KEY", 1, 1)>>],
  [text |-> <<" ", "k", " ", "k">>,
   tokens |-> <<Token("KEY", 2, 2), Token("VALUE", 4, 4)>>],
  [text |-> <<"k", " ", "other", "#", " ", "#", "k">>,
   tokens |-> <<Token("KEY", 1, 1), Token("VALUE", 3, 4)>>],
  [text |-> <<"k", " ", "quote", "k", "#", " ", "quote", "#">>,
   tokens |-> <<Token("KEY", 1, 1), Token("VALUE", 4, 6)>>],
  [text |-> <<"k", " ", "quote", "<", "quote">>,
   tokens |-> <<Token("KEY", 1, 1), Token("VALUE", 4, 4)>>],
  [text |-> <<"k", "<", " ", "quote", "k", "quote", "k", "#">>,
   tokens |-> <<Token("KEY", 1, 1), Token("VALUE", 2, 2), Token("VALUE", 5, 5),
                Token("VALUE", 7, 8)>>],
  [text |-> <<" ", "<", "k", "k", ">", " ", "#">>,
   tokens |-> <<Token("SECTION_START", 3, 4)>>],
  [text |-> <<"<", "k", " ", "k", ">", " ">>,
   tokens |-> <<Token("SECTION_START", 2, 2), Token("SECTION_NAME", 4, 4)>>],
  [text |-> <<"<", "/", "k", ">">>, tokens |-> <<Token("SECTION_END", 3, 3)>>]>>

MCTokensOf ==
  [text \in {TokenTable[i].text : i \in DOMAIN TokenTable} |->
     (CHOOSE entry \in ToSet(TokenTable) : entry.text = text).tokens]

(* Lines the lexer has no good answer to: a section without its name, with  *)
(* a blank before it, a string that begins with #, one that is not closed,  *)
(* an unknown character.                                                    *)
Malformed == {<<"<", "k", " ">>, <<"<", " ", "k", ">">>,
              <<"k", " ", "quote", "#", "k", "quote">>,
              <<"k", " ", "quote", "k">>, <<"k", " ", "quote", "quote">>,
              <<"other">>}

MCLines == DOMAIN MCTokensOf \cup Malformed

WithNewline(l) == Append(l, "newline")

Whole == {WithNewline(l) : l \in MCLines}
           \cup {WithNewline(l) \o WithNewline(m) : l, m \in MCLines}
           \cup {WithNewline(l) \o WithNewline(m) \o WithNewline(n) : l, m, n \in MCLines}

MCFiles == Whole \cup {SubSeq(f, 1, Len(f) - 1) : f \in Whole \ {<<"newline">>}}
=============================================================================
