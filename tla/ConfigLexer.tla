----------------------------- MODULE ConfigLexer -----------------------------
(***************************************************************************)
(* TRConfigLexer.re: the scanner of the configuration file.  A byte of the *)
(* file is its class, as the rules of re2c tell bytes apart; a token is    *)
(* its kind, its line and the part of the file it is the text of.          *)
(*                                                                         *)
(* re2c takes the rule that matches most, and the first of those that      *)
(* match as much.  It checks for the end of the buffer where a block of    *)
(* rules begins and at each byte a repetition looks at; the lexer has no   *)
(* more data to supply, and uses that check to notice the last byte.       *)
(***************************************************************************)
EXTENDS Integers, Sequences

CONSTANT Files

KeyChars == {"k"}            \* [A-Za-z0-9_-]

Blank == {" "}               \* [ \t]

Chars == {"k", " ", "newline", "#", "<", ">", "/", "quote", "other"}

ASSUME FilesAssumption == Files \subseteq Seq(Chars) \ {<<>>}

VARIABLES
  file,        \* buffer
  cursor,      \* _cursor
  eoi,         \* _eoi is set
  condition,   \* _condition: where the next scan begins
  label,       \* the block of rules the current scan is at
  lineNumber,  \* _lineNumber
  tokens,      \* the tokens scan has returned so far
  status       \* "ready" between two calls of scan, "scanning" in one;
               \* how it ended: "end", "unknown", "no rule", "assert"

vars == <<file, cursor, eoi, condition, label, lineNumber, tokens, status>>

Conditions == {"INITIAL", "SECTION", "SECTION_NAME", "VALUE", "STRING_VALUE"}

TokenKinds == {"KEY", "VALUE", "SECTION_START", "SECTION_NAME", "SECTION_END"}

-----------------------------------------------------------------------------
(***************************************************************************)
(* Where a match from byte p ends: at p if there is none.                  *)
(***************************************************************************)
Limit == Len(file)

While(p, C) ==
  CHOOSE q \in p..Limit + 1 :
    /\ q <= Limit => file[q] \notin C
    /\ \A i \in p..q - 1 : file[i] \in C

One(p, c) == IF file[p] = c THEN p + 1 ELSE p

(* from p to q at least one byte, and then a c *)
Closed(p, q, c) == IF p < q /\ q <= Limit /\ file[q] = c THEN q + 1 ELSE p

Comment(p) == IF file[p] = "#" THEN While(p, Chars \ {"newline"}) ELSE p

BlankFollows(q) == q <= Limit /\ file[q] \in Blank

SectionEnd(p) ==
  LET q == While(p + 1, KeyChars)
  IN IF file[p] = "/" /\ Closed(p + 1, q, ">") # p + 1 THEN q + 1 ELSE p

Rule(name, end) == [name |-> name, end |-> end]

(* The rules of each block, in order. *)
Rules(p) ==
  LET key == While(p, KeyChars)
      newline == Rule("newline", One(p, "newline"))
      blanks == Rule("skip", While(p, Blank))
      comment == Rule("skip", Comment(p))
  IN CASE label = "INITIAL" ->
            <<blanks, comment, Rule("KEY", key), Rule("section", One(p, "<")),
              newline, Rule("unknown", p + 1)>>
       [] label = "SECTION" ->
            <<Rule("SECTION_START", Closed(p, key, ">")),
              Rule("SECTION_START named", IF BlankFollows(key) THEN key ELSE p),
              Rule("SECTION_END", SectionEnd(p)), newline>>
       [] label = "SECTION_NAME" ->
            <<blanks, Rule("SECTION_NAME", Closed(p, key, ">")), newline>>
       [] label = "VALUE" ->
            <<blanks, comment, Rule("string", One(p, "quote")),
              Rule("VALUE", While(p, Chars \ {" ", "newline", "quote"})),
              newline>>
       [] label = "STRING_VALUE" ->
            <<comment,
              Rule("quoted VALUE",
                   Closed(p, While(p, Chars \ {"quote"}), "quote")),
              newline>>

(* The bytes at which the repetitions of a block end, whether or not the    *)
(* rule matches in the end.                                                 *)
Looked(p) ==
  LET key == While(p, KeyChars)
  IN {p} \cup
     CASE label = "INITIAL" -> {While(p, Blank), Comment(p), key}
       [] label = "SECTION" ->
            {key, IF key > p THEN While(key, Blank) ELSE p,
             IF file[p] = "/" /\ While(p + 1, KeyChars) > p + 1
               THEN While(p + 1, KeyChars) ELSE p}
       [] label = "SECTION_NAME" -> {While(p, Blank), key}
       [] label = "VALUE" ->
            {While(p, Blank), Comment(p),
             While(p, Chars \ {" ", "newline", "quote"})}
       [] label = "STRING_VALUE" -> {Comment(p), While(p, Chars \ {"quote"})}

-----------------------------------------------------------------------------
Init ==
  /\ file \in Files
  /\ cursor = 1
  /\ eoi = FALSE
  /\ condition = "INITIAL"
  /\ label = "INITIAL"
  /\ lineNumber = 1
  /\ tokens = <<>>
  /\ status = "ready"

(* scan is called, and tests for the end before it begins. *)
Scan ==
  /\ status = "ready"
  /\ IF eoi THEN status' = "end" /\ label' = label
            ELSE status' = "scanning" /\ label' = condition
  /\ UNCHANGED <<file, cursor, eoi, condition, lineNumber, tokens>>

(* fill:, called while the rules look at the bytes from the cursor on,      *)
(* asserts that they do not look past the last one.                         *)
Overrun == \E q \in Looked(cursor) : q > Limit

(* Mutation: the end is noticed as soon as a rule may need the last byte. *)
Fill_Early ==
  /\ ~Overrun
  /\ eoi' = (eoi \/ \E q \in Looked(cursor) : q >= Limit - 1)

Fill ==
  /\ ~Overrun
  /\ eoi' = (eoi \/ Limit \in Looked(cursor))

(* The match at the cursor, if there is one within the buffer. *)
Matches ==
  LET rules == Rules(cursor)
      Best(i) == /\ rules[i].end > cursor
                 /\ \A j \in DOMAIN rules : rules[j].end <= rules[i].end
                 /\ \A j \in 1..i - 1 : rules[j].end < rules[i].end
  IN IF status = "scanning" /\ ~Overrun
       THEN {rules[i] : i \in {i \in DOMAIN rules : Best(i)}} ELSE {}

Take(m, rule) ==
  /\ m.name = rule
  /\ Fill
  /\ cursor' = m.end
  /\ UNCHANGED file

(* SKIP(cond): to a block without making it the condition of later scans. *)
Skip(cond) ==
  /\ IF eoi' THEN status' = "end" /\ label' = label
             ELSE status' = status /\ label' = cond
  /\ UNCHANGED <<condition, tokens>>

(* A token is returned of which first and last bytes are not the text. *)
Return(m, kind, first, last, cond) ==
  /\ tokens' = Append(tokens, [kind |-> kind, line |-> lineNumber,
                               from |-> cursor + first, to |-> m.end - 1 - last])
  /\ condition' = cond
  /\ status' = "ready"
  /\ UNCHANGED <<label, lineNumber>>

SkipBlanksAndComments(m) ==
  Take(m, "skip") /\ Skip(label) /\ UNCHANGED lineNumber

EnterSection(m) ==
  Take(m, "section") /\ Skip("SECTION") /\ UNCHANGED lineNumber

EnterString(m) ==
  Take(m, "string") /\ Skip("STRING_VALUE") /\ UNCHANGED lineNumber

(* Mutation: the block of rules does not change at the end of the line. *)
Newline_SameBlock(m) ==
  /\ Take(m, "newline")
  /\ lineNumber' = lineNumber + 1
  /\ Skip(label)

Newline(m) ==
  /\ Take(m, "newline")
  /\ lineNumber' = lineNumber + 1
  /\ Skip("INITIAL")

Key(m) == Take(m, "KEY") /\ Return(m, "KEY", 0, 0, "VALUE")

SectionStart(m) ==
  \/ Take(m, "SECTION_START") /\ Return(m, "SECTION_START", 0, 1, condition)
  \/ /\ Take(m, "SECTION_START named")
     /\ Return(m, "SECTION_START", 0, 0, "SECTION_NAME")

SectionName(m) ==
  Take(m, "SECTION_NAME") /\ Return(m, "SECTION_NAME", 0, 1, "INITIAL")

EndSection(m) ==
  Take(m, "SECTION_END") /\ Return(m, "SECTION_END", 1, 1, condition)

Value(m) ==
  \/ Take(m, "VALUE") /\ Return(m, "VALUE", 0, 0, condition)
  \/ Take(m, "quoted VALUE") /\ Return(m, "VALUE", 0, 1, condition)

UnknownCharacter(m) ==
  /\ Take(m, "unknown")
  /\ status' = "unknown"
  /\ UNCHANGED <<condition, label, lineNumber, tokens>>

(* Mutation: a default rule skips what no other matches, and takes nothing. *)
Fails_SkipsNothing ==
  /\ status = "scanning"
  /\ \/ Overrun /\ status' = "assert"
     \/ ~Overrun /\ Matches = {} /\ status' = status
  /\ UNCHANGED <<file, cursor, eoi, condition, label, lineNumber, tokens>>

(* No rule of the block matches, and what re2c generates for that is not    *)
(* defined; or fill: finds the rules past the end of the buffer.            *)
Fails ==
  /\ status = "scanning"
  /\ \/ Overrun /\ status' = "assert"
     \/ ~Overrun /\ Matches = {} /\ status' = "no rule"
  /\ UNCHANGED <<file, cursor, eoi, condition, label, lineNumber, tokens>>

Ended ==
  /\ status \in {"end", "unknown", "no rule", "assert"}
  /\ UNCHANGED vars

Next ==
  \/ Scan
  \/ \E m \in Matches :
       \/ SkipBlanksAndComments(m) \/ EnterSection(m) \/ EnterString(m)
       \/ Newline(m) \/ Key(m) \/ SectionStart(m) \/ SectionName(m)
       \/ EndSection(m) \/ Value(m) \/ UnknownCharacter(m)
  \/ Fails
  \/ Ended

Spec == Init /\ [][Next]_vars /\ WF_vars(Next)
=============================================================================
